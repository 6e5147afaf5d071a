-------------------------- MODULE ScreenCastProofs --------------------------
(***************************************************************************)
(* What holds of screen.rs for every number of concurrent calls and every  *)
(* portal (ScreenCast), and for every number of streams and of iterators   *)
(* over the result (SelectedSources).                                      *)
(***************************************************************************)
EXTENDS ScreenCast, SelectedSources, SequenceTheorems, TLAPS

(* The values of the variables stay in their ranges. *)
THEOREM TypeHolds == Spec => []TypeOK
<1>1. Init => TypeOK
  BY DEF Init, TypeOK, Waiting, Over, Modes, Sessions
<1>2. TypeOK /\ [Next]_vars => TypeOK'
  <2> SUFFICES ASSUME TypeOK, [Next]_vars PROVE TypeOK'
    OBVIOUS
  <2> USE DEF TypeOK, Waiting, Over, Modes, Sessions
  <2>1. ASSUME NEW c \in Calls, Run(c) PROVE TypeOK'
    BY <2>1 DEF Run, Goto
  <2>2. ASSUME NEW c \in Calls, Connect(c) \/ CreateSession(c) PROVE TypeOK'
    BY <2>2 DEF Connect, CreateSession, Goto
  <2>3. ASSUME NEW c \in Calls, LoadCache(c) \/ Query(c) \/ StoreCache(c)
        PROVE  TypeOK'
    BY <2>3 DEF LoadCache, Query, StoreCache, Goto
  <2>4. ASSUME NEW c \in Calls, SelectSources(c) PROVE TypeOK'
    BY <2>4 DEF SelectSources, CursorMode, Goto
  <2>5. ASSUME NEW c \in Calls, Start(c) \/ OpenRemote(c) PROVE TypeOK'
    BY <2>5 DEF Start, OpenRemote, Goto
  <2>6. ASSUME NEW c \in Calls, Fail(c) \/ Cancel(c) PROVE TypeOK'
    BY <2>6 DEF Fail, Cancel, Goto
  <2>7. CASE Restart
    BY <2>7 DEF Restart
  <2>8. CASE UNCHANGED vars
    BY <2>8 DEF vars
  <2> QED
    BY <2>1, <2>2, <2>3, <2>4, <2>5, <2>6, <2>7, <2>8 DEF Next, Step
<1> QED
  BY <1>1, <1>2, PTL DEF Spec

(* CACHE is unset or what the portal offers, and each call goes by that,   *)
(* however calls race through cursor_modes, fail or are dropped.           *)
THEOREM InvHolds == Spec => []Inv
<1>1. Init => CallsGoByOffer
  BY DEF Init, CallsGoByOffer
<1>2. TypeOK /\ CallsGoByOffer /\ [Next]_vars => CallsGoByOffer'
  <2> SUFFICES ASSUME TypeOK, CallsGoByOffer, [Next]_vars PROVE CallsGoByOffer'
    OBVIOUS
  <2> USE DEF CallsGoByOffer, TypeOK, Waiting, Over
  <2>1. ASSUME NEW c \in Calls, Run(c) PROVE CallsGoByOffer'
    BY <2>1 DEF Run, Goto
  <2>2. ASSUME NEW c \in Calls, Connect(c) \/ CreateSession(c) PROVE CallsGoByOffer'
    BY <2>2 DEF Connect, CreateSession, Goto
  <2>3. ASSUME NEW c \in Calls, LoadCache(c) PROVE CallsGoByOffer'
    BY <2>3 DEF LoadCache, Goto
  <2>4. ASSUME NEW c \in Calls, Query(c) PROVE CallsGoByOffer'
    BY <2>4 DEF Query, Goto
  <2>5. ASSUME NEW c \in Calls, StoreCache(c) PROVE CallsGoByOffer'
    BY <2>5 DEF StoreCache, Goto
  <2>6. ASSUME NEW c \in Calls, SelectSources(c) PROVE CallsGoByOffer'
    <3> SUFFICES ASSUME ~replaced PROVE CallsGoByOffer'
      BY <2>6 DEF SelectSources
    <3> DEFINE mode == CursorMode(show[c], modes[c])
    <3>1. mode = CursorMode(show[c], offer)
      BY <2>6 DEF SelectSources
    <3>2. asked' = [asked EXCEPT ![c] = mode]
      BY <2>6 DEF SelectSources
    <3>3. pc' \in {[pc EXCEPT ![c] = "start"], [pc EXCEPT ![c] = "refused"]}
      BY <2>6 DEF SelectSources, Goto
    <3>4. mode # "none"
      BY DEF CursorMode
    <3>5. UNCHANGED <<offer, replaced, cache, show, modes, remotes>>
      BY <2>6 DEF SelectSources
    <3> HIDE DEF mode
    <3> QED
      BY <3>1, <3>2, <3>3, <3>4, <3>5
  <2>7. ASSUME NEW c \in Calls, Start(c) \/ OpenRemote(c) PROVE CallsGoByOffer'
    BY <2>7 DEF Start, OpenRemote, Goto
  <2>8. ASSUME NEW c \in Calls, Fail(c) \/ Cancel(c) PROVE CallsGoByOffer'
    BY <2>8 DEF Fail, Cancel, Goto
  <2>9. CASE Restart
    BY <2>9 DEF Restart
  <2>10. CASE UNCHANGED vars
    BY <2>10 DEF vars
  <2> QED
    BY <2>1, <2>2, <2>3, <2>4, <2>5, <2>6, <2>7, <2>8, <2>9, <2>10 DEF Next, Step
<1> QED
  BY <1>1, <1>2, TypeHolds, PTL DEF Spec, Inv

(* The cursor is in a stream exactly when its caller wanted it and the     *)
(* portal can draw it (cursor_mode).                                       *)
THEOREM CursorHolds == Spec => []CursorAsWished
<1>1. TypeOK /\ CallsGoByOffer => CursorAsWished
  BY DEF TypeOK, CallsGoByOffer, CursorAsWished, CursorMode
<1> QED
  BY <1>1, InvHolds, PTL DEF Inv

(* A portal that stays refuses a call only where it offers no mode that    *)
(* the call could do with: cursor_mode asks for one of these if it can.    *)
THEOREM NotRefused == Spec => []RefusedIfNoneServes
<1>1. Init => RefusedIfNoneServes
  BY DEF Init, RefusedIfNoneServes
<1>2. TypeOK /\ CallsGoByOffer /\ RefusedIfNoneServes /\ [Next]_vars
        => RefusedIfNoneServes'
  <2> SUFFICES ASSUME TypeOK, CallsGoByOffer, RefusedIfNoneServes, [Next]_vars
               PROVE  RefusedIfNoneServes'
    OBVIOUS
  <2>1. ASSUME NEW c \in Calls, SelectSources(c) PROVE RefusedIfNoneServes'
    <3> SUFFICES ASSUME ~replaced PROVE RefusedIfNoneServes'
      BY <2>1 DEF SelectSources, RefusedIfNoneServes
    <3> DEFINE mode == CursorMode(show[c], modes[c])
    <3>1. modes[c] = offer
      BY <2>1 DEF SelectSources, CallsGoByOffer, TypeOK
    <3>2. mode \notin offer => offer \cap Acceptable(c) = {}
      BY <3>1 DEF CursorMode, Acceptable, Modes
    <3>3. /\ UNCHANGED <<offer, show>>
          /\ \A d \in Calls \ {c} : pc'[d] = pc[d]
          /\ pc'[c] = "refused" => mode \notin offer
      BY <2>1 DEF SelectSources, Goto, TypeOK
    <3> HIDE DEF mode
    <3> QED
      BY <3>2, <3>3 DEF RefusedIfNoneServes, Acceptable
  <2>2. ASSUME NEW c \in Calls, Run(c) PROVE RefusedIfNoneServes'
    BY <2>2 DEF RefusedIfNoneServes, Acceptable, TypeOK, Run, Goto
  <2>3. ASSUME NEW c \in Calls, Fail(c) \/ Cancel(c) PROVE RefusedIfNoneServes'
    BY <2>3 DEF RefusedIfNoneServes, Acceptable, TypeOK, Fail, Cancel, Goto
  <2>4. ASSUME NEW c \in Calls,
               Connect(c) \/ CreateSession(c) \/ LoadCache(c) \/ Query(c)
                 \/ StoreCache(c) \/ Start(c) \/ OpenRemote(c)
        PROVE  RefusedIfNoneServes'
    BY <2>4 DEF RefusedIfNoneServes, Acceptable, TypeOK, Connect, CreateSession,
                LoadCache, Query, StoreCache, Start, OpenRemote, Goto
  <2>5. CASE Restart \/ UNCHANGED vars
    BY <2>5 DEF Restart, vars, RefusedIfNoneServes, Acceptable
  <2> QED
    BY <2>1, <2>2, <2>3, <2>4, <2>5 DEF Next, Step
<1> QED
  BY <1>1, <1>2, InvHolds, PTL DEF Spec, Inv

(* Whatever portals come and go, no stream shows a cursor that its caller  *)
(* did not want (cursor_mode).                                             *)
THEOREM NotShownUnasked == Spec => []NeverShownUnasked
<1>1. Init => NeverShownUnasked
  BY DEF Init, NeverShownUnasked
<1>2. TypeOK /\ NeverShownUnasked /\ [Next]_vars => NeverShownUnasked'
  BY DEF NeverShownUnasked, TypeOK, Next, Step, Run, Connect, CreateSession,
         LoadCache, Query, StoreCache, SelectSources, CursorMode, Start,
         OpenRemote, Fail, Cancel, Restart, Goto, vars
<1> QED
  BY <1>1, <1>2, TypeHolds, PTL DEF Spec

-----------------------------------------------------------------------------
(***************************************************************************)
(* The iterators over a result.  A stream is a place in it; of an iterator *)
(* what went out at the front, what is left and what went out at the back, *)
(* are parts of the result in this order.                                  *)
(***************************************************************************)
Places == 1 .. Len(streams)
Sources == {SelectedSource(k) : k \in Places}

InOrder(f, r, b) ==
  /\ \A j, k \in 1 .. Len(f) : j < k => f[j].stream < f[k].stream
  /\ \A j, k \in 1 .. Len(r) : j < k => r[j] < r[k]
  /\ \A j, k \in 1 .. Len(b) : j < k => b[k].stream < b[j].stream
  /\ \A j \in 1 .. Len(f), k \in 1 .. Len(r) : f[j].stream < r[k]
  /\ \A j \in 1 .. Len(f), k \in 1 .. Len(b) : f[j].stream < b[k].stream
  /\ \A j \in 1 .. Len(r), k \in 1 .. Len(b) : r[j] < b[k].stream

SourcesInv ==
  /\ Len(streams) \in Nat /\ streams = [k \in Places |-> k]
  /\ live \subseteq Iterators
  /\ rest \in [Iterators -> Seq(Places)]
  /\ front \in [Iterators -> Seq(Sources)]
  /\ back \in [Iterators -> Seq(Sources)]
  /\ \A i \in Iterators : InOrder(front[i], rest[i], back[i])
  /\ \A i \in Iterators \ live : rest[i] = <<>> /\ front[i] = <<>> /\ back[i] = <<>>

LEMMA ItemsOf ==
  ASSUME NEW s \in Seq(Places)
  PROVE  /\ Items(s) \in Seq(Sources) /\ Len(Items(s)) = Len(s)
         /\ \A k \in 1 .. Len(s) : Items(s)[k] = SelectedSource(s[k])
<1>1. DOMAIN s = 1 .. Len(s) /\ Len(s) \in Nat /\ \A k \in 1 .. Len(s) : s[k] \in Places
  BY LenProperties, ElementOfSeq
<1>2. \A k \in 1 .. Len(s) : SelectedSource(s[k]) \in Sources
  BY <1>1 DEF Sources
<1>3. Items(s) = [k \in 1 .. Len(s) |-> SelectedSource(s[k])]
  BY <1>1 DEF Items
<1> QED
  BY <1>1, <1>2, <1>3

LEMMA StreamOf == \A x \in Sources : x.stream \in Places /\ x = SelectedSource(x.stream)
  BY DEF Sources, SelectedSource

(* What slice::Iter takes from the front. *)
LEMMA NthTakes ==
  ASSUME NEW s \in Seq(Places), NEW n \in Nat
  PROVE  LET t == SliceNth(s, n)
         IN  IF n < Len(s)
             THEN /\ t.stream = <<s[n + 1]>> /\ s[n + 1] \in Places
                  /\ t.stream \in Seq(Places) /\ t.rest \in Seq(Places)
                  /\ Items(t.stream) = <<SelectedSource(s[n + 1])>>
                  /\ Items(t.stream) \in Seq(Sources)
                  /\ Len(t.rest) = Len(s) - (n + 1)
                  /\ \A k \in 1 .. Len(t.rest) : t.rest[k] = s[k + (n + 1)]
             ELSE t.stream = <<>> /\ t.rest = <<>> /\ Items(t.stream) = <<>>
<1>1. Len(s) \in Nat /\ \A k \in 1 .. Len(s) : s[k] \in Places
  BY LenProperties, ElementOfSeq
<1>2. CASE n < Len(s)
  <2> DEFINE x == s[n + 1]
             r == SubSeq(s, n + 2, Len(s))
  <2>1. x \in Places /\ SelectedSource(x) \in Sources
    BY <1>1, <1>2 DEF Sources
  <2>2. \A k \in (n + 2) .. Len(s) : s[k] \in Places
    BY <1>1
  <2>3. /\ r \in Seq(Places)
        /\ Len(r) = IF n + 2 <= Len(s) THEN Len(s) - (n + 2) + 1 ELSE 0
        /\ \A k \in 1 .. (Len(s) - (n + 2) + 1) : r[k] = s[(n + 2) + k - 1]
    BY <1>1, <2>2, SubSeqProperties
  <2>4. SliceNth(s, n) = [stream |-> <<x>>, rest |-> r]
    BY <1>2 DEF SliceNth
  <2>5. Items(<<x>>) = <<SelectedSource(x)>>
    BY DEF Items
  <2> HIDE DEF x, r
  <2>6. Len(r) = Len(s) - (n + 1) /\ \A k \in 1 .. Len(r) : r[k] = s[k + (n + 1)]
    <3>1. Len(r) = Len(s) - (n + 1) /\ Len(r) = Len(s) - (n + 2) + 1
      BY <1>1, <1>2, <2>3
    <3>2. \A k \in 1 .. Len(r) : (n + 2) + k - 1 = k + (n + 1)
      BY <1>1, <3>1
    <3> QED
      BY <2>3, <3>1, <3>2
  <2>7. <<x>> \in Seq(Places) /\ <<SelectedSource(x)>> \in Seq(Sources)
    BY <2>1
  <2> DEFINE t == SliceNth(s, n)
  <2>8. t.stream = <<x>> /\ t.rest = r
    BY <2>4
  <2> HIDE DEF t
  <2>9. Items(t.stream) = <<SelectedSource(x)>>
    BY <2>5, <2>8
  <2> QED
    BY <1>2, <2>1, <2>3, <2>6, <2>7, <2>8, <2>9 DEF x, t
<1>3. CASE ~ (n < Len(s))
  BY <1>3 DEF SliceNth, Items
<1> QED
  BY <1>2, <1>3

(* What slice::Iter takes from the back. *)
LEMMA NthBackTakes ==
  ASSUME NEW s \in Seq(Places), NEW n \in Nat
  PROVE  LET t == SliceNthBack(s, n)
         IN  IF n < Len(s)
             THEN /\ t.stream = <<s[Len(s) - n]>> /\ s[Len(s) - n] \in Places
                  /\ t.stream \in Seq(Places) /\ t.rest \in Seq(Places)
                  /\ Items(t.stream) = <<SelectedSource(s[Len(s) - n])>>
                  /\ Items(t.stream) \in Seq(Sources)
                  /\ Len(t.rest) = Len(s) - (n + 1)
                  /\ \A k \in 1 .. Len(t.rest) : t.rest[k] = s[k]
             ELSE t.stream = <<>> /\ t.rest = <<>> /\ Items(t.stream) = <<>>
<1>1. Len(s) \in Nat /\ \A k \in 1 .. Len(s) : s[k] \in Places
  BY LenProperties, ElementOfSeq
<1>2. CASE n < Len(s)
  <2> DEFINE x == s[Len(s) - n]
             r == SubSeq(s, 1, Len(s) - n - 1)
  <2>1. x \in Places /\ SelectedSource(x) \in Sources
    BY <1>1, <1>2 DEF Sources
  <2>2. \A k \in 1 .. (Len(s) - n - 1) : s[k] \in Places
    BY <1>1
  <2>3. /\ r \in Seq(Places)
        /\ Len(r) = IF 1 <= Len(s) - n - 1 THEN (Len(s) - n - 1) - 1 + 1 ELSE 0
        /\ \A k \in 1 .. ((Len(s) - n - 1) - 1 + 1) : r[k] = s[1 + k - 1]
    BY <1>1, <2>2, SubSeqProperties
  <2>4. SliceNthBack(s, n) = [stream |-> <<x>>, rest |-> r]
    BY <1>2 DEF SliceNthBack
  <2>5. Items(<<x>>) = <<SelectedSource(x)>>
    BY DEF Items
  <2> HIDE DEF x, r
  <2>6. Len(r) = Len(s) - (n + 1) /\ \A k \in 1 .. Len(r) : r[k] = s[k]
    BY <1>1, <1>2, <2>3
  <2>7. <<x>> \in Seq(Places) /\ <<SelectedSource(x)>> \in Seq(Sources)
    BY <2>1
  <2> DEFINE t == SliceNthBack(s, n)
  <2>8. t.stream = <<x>> /\ t.rest = r
    BY <2>4
  <2> HIDE DEF t
  <2>9. Items(t.stream) = <<SelectedSource(x)>>
    BY <2>5, <2>8
  <2> QED
    BY <1>2, <2>1, <2>3, <2>6, <2>7, <2>8, <2>9 DEF x, t
<1>3. CASE ~ (n < Len(s))
  BY <1>3 DEF SliceNthBack, Items
<1> QED
  BY <1>2, <1>3

(* Taking from either end keeps the parts in order. *)
LEMMA NthInOrder ==
  ASSUME NEW f \in Seq(Sources), NEW r \in Seq(Places), NEW b \in Seq(Sources),
         NEW n \in Nat, InOrder(f, r, b)
  PROVE  LET t == SliceNth(r, n)
             g == f \o Items(t.stream)
         IN  t.rest \in Seq(Places) /\ g \in Seq(Sources) /\ InOrder(g, t.rest, b)
<1> DEFINE t == SliceNth(r, n)
           g == f \o Items(t.stream)
           q == t.rest
<1>1. /\ Len(r) \in Nat /\ Len(f) \in Nat /\ Len(b) \in Nat
      /\ \A k \in 1 .. Len(f) : f[k].stream \in Nat
      /\ \A k \in 1 .. Len(b) : b[k].stream \in Nat
      /\ \A k \in 1 .. Len(r) : r[k] \in Nat
  BY LenProperties, ElementOfSeq, StreamOf DEF Places
<1>2. CASE n < Len(r)
  <2> DEFINE x == SelectedSource(r[n + 1])
  <2>1. /\ q \in Seq(Places) /\ Items(t.stream) = <<x>> /\ <<x>> \in Seq(Sources)
        /\ Len(q) = Len(r) - (n + 1)
        /\ \A k \in 1 .. Len(q) : q[k] = r[k + (n + 1)]
    BY <1>2, NthTakes
  <2>2. x.stream = r[n + 1] /\ Len(<<x>>) = 1 /\ <<x>>[1] = x
    BY DEF SelectedSource
  <2> HIDE DEF x, t
  <2>3. /\ g \in Seq(Sources) /\ Len(g) = Len(f) + 1
        /\ \A k \in 1 .. Len(f) : g[k] = f[k]
        /\ g[Len(f) + 1] = x
    BY <1>1, <2>1, <2>2, ConcatProperties
  <2> HIDE DEF g, q
  <2>4. \A k \in 1 .. Len(q) : k + (n + 1) \in 1 .. Len(r) /\ n + 1 < k + (n + 1)
    BY <1>1, <2>1
  <2>5. n + 1 \in 1 .. Len(r)
    BY <1>1, <1>2
  <2>6. \A j \in 1 .. Len(g) : j \in 1 .. Len(f) \/ j = Len(f) + 1
    BY <1>1, <2>3
  <2>7. \A j, k \in 1 .. Len(g) : j < k => g[j].stream < g[k].stream
    <3> SUFFICES ASSUME NEW j \in 1 .. Len(g), NEW k \in 1 .. Len(g), j < k
                 PROVE  g[j].stream < g[k].stream
      OBVIOUS
    <3>1. j \in 1 .. Len(f)
      BY <1>1, <2>3
    <3> QED
      BY <1>1, <2>2, <2>3, <2>5, <2>6, <3>1 DEF InOrder
  <2>8. \A j, k \in 1 .. Len(q) : j < k => q[j] < q[k]
    BY <1>1, <2>1, <2>4 DEF InOrder
  <2>9. \A j \in 1 .. Len(g), k \in 1 .. Len(q) : g[j].stream < q[k]
    BY <2>1, <2>2, <2>3, <2>4, <2>5, <2>6 DEF InOrder
  <2>10. \A j \in 1 .. Len(g), k \in 1 .. Len(b) : g[j].stream < b[k].stream
    BY <2>2, <2>3, <2>5, <2>6 DEF InOrder
  <2>11. \A j \in 1 .. Len(q), k \in 1 .. Len(b) : q[j] < b[k].stream
    BY <2>1, <2>4 DEF InOrder
  <2>12. InOrder(g, q, b)
    BY <2>7, <2>8, <2>9, <2>10, <2>11 DEF InOrder
  <2> QED
    BY <2>1, <2>3, <2>12 DEF g, q, t
<1>3. CASE ~ (n < Len(r))
  <2>1. Items(t.stream) = <<>> /\ q = <<>>
    BY <1>3, NthTakes
  <2>2. g = f /\ q \in Seq(Places) /\ Len(q) = 0
    <3> HIDE DEF t
    <3> QED
      BY <2>1, ConcatEmptySeq
  <2> HIDE DEF g, q, t
  <2>3. InOrder(g, q, b)
    <3>1. 1 .. Len(q) = {}
      BY <2>2
    <3> QED
      BY <2>2, <3>1 DEF InOrder
  <2> QED
    BY <2>2, <2>3 DEF g, q, t
<1> QED
  BY <1>2, <1>3

LEMMA NthBackInOrder ==
  ASSUME NEW f \in Seq(Sources), NEW r \in Seq(Places), NEW b \in Seq(Sources),
         NEW n \in Nat, InOrder(f, r, b)
  PROVE  LET t == SliceNthBack(r, n)
             g == b \o Items(t.stream)
         IN  t.rest \in Seq(Places) /\ g \in Seq(Sources) /\ InOrder(f, t.rest, g)
<1> DEFINE t == SliceNthBack(r, n)
           g == b \o Items(t.stream)
           q == t.rest
<1>1. /\ Len(r) \in Nat /\ Len(f) \in Nat /\ Len(b) \in Nat
      /\ \A k \in 1 .. Len(f) : f[k].stream \in Nat
      /\ \A k \in 1 .. Len(b) : b[k].stream \in Nat
      /\ \A k \in 1 .. Len(r) : r[k] \in Nat
  BY LenProperties, ElementOfSeq, StreamOf DEF Places
<1>2. CASE n < Len(r)
  <2> DEFINE l == Len(r) - n
             x == SelectedSource(r[l])
  <2>1. /\ q \in Seq(Places) /\ Items(t.stream) = <<x>> /\ <<x>> \in Seq(Sources)
        /\ Len(q) = Len(r) - (n + 1)
        /\ \A k \in 1 .. Len(q) : q[k] = r[k]
    BY <1>2, NthBackTakes
  <2>2. x.stream = r[l] /\ Len(<<x>>) = 1 /\ <<x>>[1] = x
    BY DEF SelectedSource
  <2>3. \A k \in 1 .. Len(q) : k \in 1 .. Len(r) /\ k < l
    BY <1>1, <2>1
  <2>4. l \in 1 .. Len(r)
    BY <1>1, <1>2
  <2> HIDE DEF x, t, l
  <2>5. /\ g \in Seq(Sources) /\ Len(g) = Len(b) + 1
        /\ \A k \in 1 .. Len(b) : g[k] = b[k]
        /\ g[Len(b) + 1] = x
    BY <1>1, <2>1, <2>2, ConcatProperties
  <2> HIDE DEF g, q
  <2>6. \A j \in 1 .. Len(g) : j \in 1 .. Len(b) \/ j = Len(b) + 1
    BY <1>1, <2>5
  <2>7. \A j, k \in 1 .. Len(g) : j < k => g[k].stream < g[j].stream
    <3> SUFFICES ASSUME NEW j \in 1 .. Len(g), NEW k \in 1 .. Len(g), j < k
                 PROVE  g[k].stream < g[j].stream
      OBVIOUS
    <3>1. j \in 1 .. Len(b)
      BY <1>1, <2>5
    <3> QED
      BY <1>1, <2>2, <2>4, <2>5, <2>6, <3>1 DEF InOrder
  <2>8. \A j, k \in 1 .. Len(q) : j < k => q[j] < q[k]
    BY <2>1, <2>3 DEF InOrder
  <2>9. \A j \in 1 .. Len(f), k \in 1 .. Len(q) : f[j].stream < q[k]
    BY <2>1, <2>3 DEF InOrder
  <2>10. \A j \in 1 .. Len(f), k \in 1 .. Len(g) : f[j].stream < g[k].stream
    BY <2>2, <2>4, <2>5, <2>6 DEF InOrder
  <2>11. \A j \in 1 .. Len(q), k \in 1 .. Len(g) : q[j] < g[k].stream
    BY <2>1, <2>2, <2>3, <2>4, <2>5, <2>6 DEF InOrder
  <2>12. InOrder(f, q, g)
    BY <2>7, <2>8, <2>9, <2>10, <2>11 DEF InOrder
  <2> QED
    BY <2>1, <2>5, <2>12 DEF g, q, t
<1>3. CASE ~ (n < Len(r))
  <2>1. Items(t.stream) = <<>> /\ q = <<>>
    BY <1>3, NthBackTakes
  <2>2. g = b /\ q \in Seq(Places) /\ Len(q) = 0
    <3> HIDE DEF t
    <3> QED
      BY <2>1, ConcatEmptySeq
  <2> HIDE DEF g, q, t
  <2>3. InOrder(f, q, g)
    <3>1. 1 .. Len(q) = {}
      BY <2>2
    <3> QED
      BY <2>2, <3>1 DEF InOrder
  <2> QED
    BY <2>2, <2>3 DEF g, q, t
<1> QED
  BY <1>2, <1>3

(* Parts in order are what HandedOutOnce says of them. *)
LEMMA InOrderOnce ==
  ASSUME NEW f \in Seq(Sources), NEW r \in Seq(Places), NEW b \in Seq(Sources),
         InOrder(f, r, b), streams = [k \in Places |-> k]
  PROVE  LET order == [k \in DOMAIN f |-> f[k].stream] \o r
                        \o Reverse([k \in DOMAIN b |-> b[k].stream])
         IN  /\ \A k \in 1 .. (Len(order) - 1) : order[k] < order[k + 1]
             /\ \A item \in Range(f \o b) : item = SelectedSource(streams[item.stream])
<1> DEFINE A == [k \in DOMAIN f |-> f[k].stream]
           D == [k \in DOMAIN b |-> b[k].stream]
           C == Reverse(D)
           order == A \o r \o C
           lf == Len(f)
           lr == Len(r)
           lb == Len(b)
<1>1. /\ lf \in Nat /\ lr \in Nat /\ lb \in Nat
      /\ DOMAIN f = 1 .. lf /\ DOMAIN b = 1 .. lb
      /\ \A k \in 1 .. lf : f[k] \in Sources
      /\ \A k \in 1 .. lb : b[k] \in Sources
      /\ \A k \in 1 .. lr : r[k] \in Places
  BY LenProperties, ElementOfSeq
<1>2. A \in Seq(Places) /\ Len(A) = lf /\ \A k \in 1 .. lf : A[k] = f[k].stream
  BY <1>1, StreamOf
<1>3. D \in Seq(Places) /\ Len(D) = lb /\ \A k \in 1 .. lb : D[k] = b[k].stream
  BY <1>1, StreamOf
<1> HIDE DEF A, D
<1>4. /\ C \in Seq(Places) /\ Len(C) = lb
      /\ \A k \in 1 .. lb : C[k] = b[lb - k + 1].stream
  <2>1. \A k \in 1 .. lb : lb - k + 1 \in 1 .. lb
    BY <1>1
  <2>2. C = [k \in 1 .. lb |-> D[(lb - k) + 1]]
    BY <1>3 DEF Reverse
  <2> HIDE DEF C
  <2>3. \A k \in 1 .. lb : D[(lb - k) + 1] \in Places
    BY <1>3, <2>1, ElementOfSeq
  <2> QED
    BY <1>1, <1>3, <2>1, <2>2, <2>3
<1> HIDE DEF C
<1> DEFINE E == A \o r
<1>5. /\ E \in Seq(Places) /\ Len(E) = lf + lr
      /\ \A k \in 1 .. (lf + lr) : E[k] = IF k <= lf THEN A[k] ELSE r[k - lf]
  <2>1. /\ A \o r \in Seq(Places) /\ Len(A \o r) = Len(A) + Len(r)
        /\ \A k \in 1 .. (Len(A) + Len(r)) :
             (A \o r)[k] = IF k <= Len(A) THEN A[k] ELSE r[k - Len(A)]
    BY <1>2, ConcatProperties
  <2>2. Len(A) = lf /\ Len(r) = lr
    BY <1>2
  <2> HIDE DEF lf, lr
  <2> QED
    BY <2>1, <2>2
<1>6. order = E \o C
  OBVIOUS
<1> HIDE DEF E, order
<1>7. /\ Len(order) = lf + lr + lb
      /\ \A k \in 1 .. (lf + lr + lb) :
           order[k] = IF k <= lf + lr THEN E[k] ELSE C[k - (lf + lr)]
  <2> HIDE DEF lf, lr, lb
  <2>1. /\ Len(E \o C) = Len(E) + Len(C)
        /\ \A k \in 1 .. (Len(E) + Len(C)) :
             (E \o C)[k] = IF k <= Len(E) THEN E[k] ELSE C[k - Len(E)]
    BY <1>4, <1>5, ConcatProperties
  <2> QED
    BY <1>4, <1>5, <1>6, <2>1
<1>8. ASSUME NEW k \in 1 .. (Len(order) - 1) PROVE order[k] < order[k + 1]
  <2> HIDE DEF lf, lr, lb
  <2>1. k \in 1 .. (lf + lr + lb) /\ k + 1 \in 1 .. (lf + lr + lb) /\ k \in Nat
    BY <1>1, <1>7
  <2>2. CASE k + 1 <= lf
    <3>1. k \in 1 .. lf /\ k + 1 \in 1 .. lf /\ k <= lf + lr /\ k + 1 <= lf + lr
      BY <1>1, <2>1, <2>2
    <3>2. E[k] = A[k] /\ E[k + 1] = A[k + 1]
      BY <1>1, <1>5, <2>1, <3>1
    <3>3. order[k] = E[k] /\ order[k + 1] = E[k + 1]
      BY <1>7, <2>1, <3>1
    <3>4. order[k] = f[k].stream /\ order[k + 1] = f[k + 1].stream
      BY <1>2, <3>1, <3>2, <3>3
    <3> QED
      BY <2>1, <3>1, <3>4 DEF InOrder, lf
  <2>3. CASE k = lf /\ k + 1 <= lf + lr
    <3>1. k \in 1 .. lf /\ 1 \in 1 .. lr /\ (k + 1) - lf = 1
      BY <1>1, <2>1, <2>3
    <3>2. order[k] = f[k].stream /\ order[k + 1] = r[1]
      BY <1>1, <1>2, <1>5, <1>7, <2>1, <2>3, <3>1
    <3> QED
      BY <3>1, <3>2 DEF InOrder, lf, lr
  <2>4. CASE k = lf /\ k + 1 > lf + lr
    <3>1. /\ k \in 1 .. lf /\ lr = 0 /\ lb \in 1 .. lb /\ (k + 1) - (lf + lr) = 1
          /\ 1 \in 1 .. lb /\ lb - 1 + 1 = lb
      BY <1>1, <2>1, <2>4
    <3>2. order[k] = f[k].stream /\ order[k + 1] = b[lb].stream
      BY <1>1, <1>2, <1>4, <1>5, <1>7, <2>1, <2>4, <3>1
    <3> QED
      BY <3>1, <3>2 DEF InOrder, lf, lb
  <2>5. CASE k > lf /\ k + 1 <= lf + lr
    <3>1. k - lf \in 1 .. lr /\ (k + 1) - lf \in 1 .. lr /\ k - lf < (k + 1) - lf
      BY <1>1, <2>1, <2>5
    <3>2. order[k] = r[k - lf] /\ order[k + 1] = r[(k + 1) - lf]
      BY <1>1, <1>5, <1>7, <2>1, <2>5
    <3> QED
      BY <3>1, <3>2 DEF InOrder, lr
  <2>6. CASE k > lf /\ k = lf + lr
    <3>0. lr >= 1 /\ lb >= 1 /\ k - lf = lr /\ (k + 1) - (lf + lr) = 1
      <4> lf \in Nat /\ lr \in Nat /\ lb \in Nat
        BY <1>1
      <4> k \in Nat /\ k + 1 <= lf + lr + lb /\ k > lf /\ k = lf + lr
        BY <2>1, <2>6
      <4> HIDE DEF order
      <4> QED
        OBVIOUS
    <3>1. /\ k - lf \in 1 .. lr /\ lb \in 1 .. lb /\ (k + 1) - (lf + lr) = 1
          /\ 1 \in 1 .. lb /\ lb - 1 + 1 = lb
      BY <1>1, <3>0
    <3>2. order[k] = r[k - lf] /\ order[k + 1] = b[lb].stream
      BY <1>1, <1>4, <1>5, <1>7, <2>1, <2>6, <3>1
    <3> QED
      BY <3>1, <3>2 DEF InOrder, lr, lb
  <2>7. CASE k > lf + lr
    <3> DEFINE j == k - (lf + lr)
               m == (k + 1) - (lf + lr)
    <3>1. /\ j \in 1 .. lb /\ m \in 1 .. lb /\ lb - j + 1 \in 1 .. lb /\ lb - m + 1 \in 1 .. lb
          /\ lb - m + 1 < lb - j + 1
      BY <1>1, <2>1, <2>7
    <3>2. order[k] = C[j] /\ order[k + 1] = C[m]
      BY <1>1, <1>7, <2>1, <2>7
    <3> HIDE DEF j, m
    <3>3. order[k] = b[lb - j + 1].stream /\ order[k + 1] = b[lb - m + 1].stream
      BY <1>4, <3>1, <3>2
    <3> QED
      BY <3>1, <3>3 DEF InOrder, lb
  <2> QED
    BY <1>1, <2>1, <2>2, <2>3, <2>4, <2>5, <2>6, <2>7
<1>9. ASSUME NEW item \in Range(f \o b) PROVE item = SelectedSource(streams[item.stream])
  <2>1. f \o b \in Seq(Sources)
    BY ConcatProperties
  <2>2. item \in Sources
    BY <2>1, RangeOfSeq
  <2> QED
    BY <2>2, StreamOf
<1> QED
  BY <1>8, <1>9 DEF order, A, C, D

-----------------------------------------------------------------------------
(* One iterator changes, and the others stay. *)
LEMMA OneChanges ==
  ASSUME SourcesInv, NEW i \in Iterators,
         NEW f \in Seq(Sources), NEW r \in Seq(Places), NEW b \in Seq(Sources),
         InOrder(f, r, b),
         streams' = streams,
         rest' = [rest EXCEPT ![i] = r],
         front' = [front EXCEPT ![i] = f],
         back' = [back EXCEPT ![i] = b],
         live' \in {live, live \cup {i}, live \ {i}},
         i \in live' \/ (f = <<>> /\ r = <<>> /\ b = <<>>)
  PROVE  SourcesInv'
<1>1. Places' = Places /\ Sources' = Sources
  BY DEF Places, Sources
<1>2. \A j \in Iterators : /\ rest'[j] = IF j = i THEN r ELSE rest[j]
                           /\ front'[j] = IF j = i THEN f ELSE front[j]
                           /\ back'[j] = IF j = i THEN b ELSE back[j]
  BY DEF SourcesInv
<1>3. \A j \in Iterators : InOrder(front'[j], rest'[j], back'[j])
  BY <1>2 DEF SourcesInv
<1>4. \A j \in Iterators \ live' : rest'[j] = <<>> /\ front'[j] = <<>> /\ back'[j] = <<>>
  <2> SUFFICES ASSUME NEW j \in Iterators, j \notin live'
               PROVE  rest'[j] = <<>> /\ front'[j] = <<>> /\ back'[j] = <<>>
    OBVIOUS
  <2>1. CASE j = i
    BY <1>2, <2>1
  <2>2. CASE j # i
    <3>1. j \notin live
      BY <2>2
    <3> QED
      BY <1>2, <2>2, <3>1 DEF SourcesInv
  <2> QED
    BY <2>1, <2>2
<1>5. live' \subseteq Iterators
  BY DEF SourcesInv
<1>6. /\ rest' \in [Iterators -> Seq(Places)]
      /\ front' \in [Iterators -> Seq(Sources)]
      /\ back' \in [Iterators -> Seq(Sources)]
  BY DEF SourcesInv
<1>7. (Len(streams) \in Nat)' /\ (streams = [k \in Places |-> k])'
  BY <1>1 DEF SourcesInv
<1> QED
  BY <1>1, <1>3, <1>4, <1>5, <1>6, <1>7 DEF SourcesInv

LEMMA NoneInOrder ==
  /\ <<>> \in Seq(Places) /\ <<>> \in Seq(Sources)
  /\ InOrder(<<>>, <<>>, <<>>)
  BY DEF InOrder

LEMMA ConsumeKeeps ==
  ASSUME SourcesInv, NEW i \in Iterators, Consume(i), streams' = streams
  PROVE  SourcesInv'
<1>1. i \notin live' /\ live' = live \ {i}
  BY DEF Consume
<1> QED
  BY <1>1, NoneInOrder, OneChanges DEF Consume

(* What a method takes from one end, and hands out there. *)
LEMMA FrontKeeps ==
  ASSUME SourcesInv, NEW i \in live, NEW n \in Nat,
         rest' = [rest EXCEPT ![i] = SliceNth(rest[i], n).rest],
         front' = [front EXCEPT ![i] = @ \o Items(SliceNth(rest[i], n).stream)],
         UNCHANGED <<streams, live, back>>
  PROVE  SourcesInv'
<1> DEFINE r == SliceNth(rest[i], n).rest
           f == front[i] \o Items(SliceNth(rest[i], n).stream)
           b == back[i]
<1>1. /\ i \in Iterators /\ rest[i] \in Seq(Places) /\ front[i] \in Seq(Sources)
      /\ b \in Seq(Sources) /\ InOrder(front[i], rest[i], b)
  BY DEF SourcesInv
<1>2. r \in Seq(Places) /\ f \in Seq(Sources) /\ InOrder(f, r, b)
  BY <1>1, NthInOrder
<1>3. front' = [front EXCEPT ![i] = f] /\ back' = [back EXCEPT ![i] = b]
  BY DEF SourcesInv
<1>4. rest' = [rest EXCEPT ![i] = r] /\ streams' = streams /\ live' = live
  OBVIOUS
<1> HIDE DEF r, f, b
<1> QED
  BY <1>1, <1>2, <1>3, <1>4, OneChanges

LEMMA BackKeeps ==
  ASSUME SourcesInv, NEW i \in live, NEW n \in Nat,
         rest' = [rest EXCEPT ![i] = SliceNthBack(rest[i], n).rest],
         back' = [back EXCEPT ![i] = @ \o Items(SliceNthBack(rest[i], n).stream)],
         UNCHANGED <<streams, live, front>>
  PROVE  SourcesInv'
<1> DEFINE r == SliceNthBack(rest[i], n).rest
           f == front[i]
           b == back[i] \o Items(SliceNthBack(rest[i], n).stream)
<1>1. /\ i \in Iterators /\ rest[i] \in Seq(Places) /\ back[i] \in Seq(Sources)
      /\ f \in Seq(Sources) /\ InOrder(f, rest[i], back[i])
  BY DEF SourcesInv
<1>2. r \in Seq(Places) /\ b \in Seq(Sources) /\ InOrder(f, r, b)
  BY <1>1, NthBackInOrder
<1>3. front' = [front EXCEPT ![i] = f] /\ back' = [back EXCEPT ![i] = b]
  BY DEF SourcesInv
<1>4. rest' = [rest EXCEPT ![i] = r] /\ streams' = streams /\ live' = live
  OBVIOUS
<1> HIDE DEF r, f, b
<1> QED
  BY <1>1, <1>2, <1>3, <1>4, OneChanges

(* A closure has an iterator that is there. *)
RunsOnLive == call.state = "running" => call.by \in live

LEMMA SourcesInvStarts == SourcesInit => SourcesInv /\ RunsOnLive
<1> SUFFICES ASSUME SourcesInit PROVE SourcesInv /\ RunsOnLive
  OBVIOUS
<1>1. PICK n \in 0 .. MaxStreams : streams = [k \in 1 .. n |-> k]
  BY DEF SourcesInit
<1>2. n \in Nat /\ Len(streams) = n
  BY <1>1
<1>3. \A i \in Iterators : rest[i] = <<>> /\ front[i] = <<>> /\ back[i] = <<>>
  BY DEF SourcesInit
<1>4. \A i \in Iterators : InOrder(front[i], rest[i], back[i])
  BY <1>3, NoneInOrder
<1>5. /\ rest \in [Iterators -> Seq(Places)]
      /\ front \in [Iterators -> Seq(Sources)]
      /\ back \in [Iterators -> Seq(Sources)]
  BY NoneInOrder DEF SourcesInit
<1>6. live \subseteq Iterators /\ call.state = "done"
  BY DEF SourcesInit, NoCall
<1> QED
  BY <1>1, <1>2, <1>3, <1>4, <1>5, <1>6 DEF SourcesInv, Places, RunsOnLive

LEMMA SourcesInvStep ==
  ASSUME SourcesInv, RunsOnLive, [SourcesNext]_sourcesVars
  PROVE  SourcesInv' /\ RunsOnLive'
<1> USE DEF RunsOnLive
<1>1. CASE UNCHANGED sourcesVars
  BY <1>1 DEF sourcesVars, SourcesInv, Places, Sources
<1>2. ASSUME NEW i \in Iterators, Iter(i) PROVE SourcesInv' /\ RunsOnLive'
  <2>1. streams \in Seq(Places) /\ Len(streams) \in Nat
    BY DEF SourcesInv, Places
  <2>2. front[i] = <<>> /\ back[i] = <<>>
    BY <1>2 DEF SourcesInv, Iter
  <2>3. InOrder(<<>>, streams, <<>>)
    BY DEF SourcesInv, InOrder, Places
  <2>4. front' = [front EXCEPT ![i] = <<>>] /\ back' = [back EXCEPT ![i] = <<>>]
    BY <1>2, <2>2 DEF SourcesInv, Iter
  <2>5. streams' = streams /\ rest' = [rest EXCEPT ![i] = streams] /\ live' = live \cup {i}
    BY <1>2 DEF Iter
  <2>6. SourcesInv'
    BY <2>1, <2>3, <2>4, <2>5, NoneInOrder, OneChanges
  <2> QED
    BY <1>2, <2>6 DEF Iter, NoCall
<1>3. ASSUME NEW i \in Iterators, NEW j \in Iterators, Clone(i, j)
      PROVE  SourcesInv' /\ RunsOnLive'
  <2>1. /\ rest[i] \in Seq(Places) /\ front[i] \in Seq(Sources) /\ back[i] \in Seq(Sources)
        /\ InOrder(front[i], rest[i], back[i])
    BY DEF SourcesInv
  <2>2. /\ rest' = [rest EXCEPT ![j] = rest[i]]
        /\ front' = [front EXCEPT ![j] = front[i]]
        /\ back' = [back EXCEPT ![j] = back[i]]
        /\ streams' = streams /\ live' = live \cup {j}
    BY <1>3 DEF Clone
  <2>3. SourcesInv'
    BY <2>1, <2>2, OneChanges
  <2> QED
    BY <1>3, <2>3 DEF Clone, NoCall
<1>4. ASSUME NEW i \in Iterators, IntoInner(i) PROVE SourcesInv' /\ RunsOnLive'
  BY <1>4, ConsumeKeeps DEF IntoInner, NoCall
<1>5. ASSUME NEW i \in Iterators, NEW method, NEW n \in Nat, Nth(i, method, n)
      PROVE  SourcesInv' /\ RunsOnLive'
  BY <1>5, FrontKeeps DEF Nth, Answers
<1>6. ASSUME NEW i \in Iterators, NEW method, NEW n \in Nat, NthBack(i, method, n)
      PROVE  SourcesInv' /\ RunsOnLive'
  BY <1>6, BackKeeps DEF NthBack, Answers
<1>7. ASSUME NEW i \in Iterators, LastItem(i) PROVE SourcesInv' /\ RunsOnLive'
  BY <1>7, ConsumeKeeps DEF LastItem, Answers
<1>8. ASSUME NEW i \in Iterators, Length(i) PROVE SourcesInv' /\ RunsOnLive'
  BY <1>8 DEF Length, Answers, SourcesInv, Places, Sources
<1>9. ASSUME NEW i \in Iterators, NEW method, Begin(i, method)
      PROVE  SourcesInv' /\ RunsOnLive'
  BY <1>9 DEF Begin, SourcesInv, Places, Sources
<1>10. ASSUME NEW i \in live,
              Handed(i, IF call.method \in FromBack
                        THEN SliceNthBack(rest[i], 0) ELSE SliceNth(rest[i], 0))
       PROVE  SourcesInv' /\ live' = live
  <2>1. CASE call.method \in FromBack
    BY <1>10, <2>1, BackKeeps DEF Handed
  <2>2. CASE call.method \notin FromBack
    BY <1>10, <2>2, FrontKeeps DEF Handed
  <2> QED
    BY <2>1, <2>2
<1>11. ASSUME NEW i \in Iterators, Ask(i) PROVE SourcesInv' /\ RunsOnLive'
  <2>1. i \in live /\ call.by = i
    BY <1>11 DEF Ask
  <2>2. SourcesInv' /\ live' = live
    BY <1>10, <1>11, <2>1 DEF Ask
  <2>3. call'.state = "done" \/ call'.by = call.by
    BY <1>11 DEF Ask
  <2> QED
    BY <2>1, <2>2, <2>3
<1>12. ASSUME NEW i \in Iterators, Panic(i) PROVE SourcesInv' /\ RunsOnLive'
  <2>1. i \in live
    BY <1>12 DEF Panic
  <2>2. SourcesInv'
    BY <1>10, <1>12, <2>1, ConsumeKeeps DEF Panic
  <2> QED
    BY <1>12, <2>2 DEF Panic, NoCall
<1>13. ASSUME NEW i \in Iterators, End(i) PROVE SourcesInv' /\ RunsOnLive'
  <2>1. CASE call.method \in ByValue
    BY <1>13, <2>1, ConsumeKeeps DEF End
  <2>2. CASE call.method \notin ByValue
    BY <1>13, <2>2 DEF End, SourcesInv, Places, Sources
  <2> QED
    BY <1>13, <2>1, <2>2 DEF End
<1>14. 0 \in Nat /\ 0 .. MaxSkip \subseteq Nat
  OBVIOUS
<1> HIDE DEF RunsOnLive
<1> QED
  BY <1>1, <1>2, <1>3, <1>4, <1>5, <1>6, <1>7, <1>8, <1>9, <1>11, <1>12, <1>13, <1>14
     DEF SourcesNext

(***************************************************************************)
(* For any number of streams and of iterators, however the methods of an   *)
(* iterator and of its clones are mixed, from both ends, and whatever      *)
(* closures panic in between: an iterator hands out no stream twice, those *)
(* from the front in the order of the portal's answer, those from the back *)
(* against it, none that is still to come, and each with the remote        *)
(* (SelectedSourcesIter in crates/capture-linux/src/screen.rs).            *)
(***************************************************************************)
THEOREM HandedOutHolds == SourcesSpec => []HandedOutOnce
<1>1. SourcesInv => HandedOutOnce
  BY InOrderOnce DEF SourcesInv, HandedOutOnce
<1> QED
  BY <1>1, SourcesInvStarts, SourcesInvStep, PTL DEF SourcesSpec

-----------------------------------------------------------------------------
(***************************************************************************)
(* A method with a closure: the streams are asked about one way or the     *)
(* other, and what is left is a part of what the method started with.      *)
(***************************************************************************)
Way(method, s) == IF method \in FromBack THEN Reverse(s) ELSE s

LeftAfter(method, s, m) ==
  IF method \in FromBack THEN SubSeq(s, 1, Len(s) - m) ELSE SubSeq(s, m + 1, Len(s))

TakenNext(method, s) ==
  IF method \in FromBack THEN SliceNthBack(s, 0) ELSE SliceNth(s, 0)

LEMMA WayOf ==
  ASSUME NEW method, NEW s \in Seq(Places)
  PROVE  /\ Way(method, s) \in Seq(Places) /\ Len(Way(method, s)) = Len(s)
         /\ \A k \in 1 .. Len(s) :
              Way(method, s)[k] = IF method \in FromBack THEN s[(Len(s) - k) + 1] ELSE s[k]
<1>1. Len(s) \in Nat /\ \A k \in 1 .. Len(s) : s[k] \in Places
  BY LenProperties, ElementOfSeq
<1>2. \A k \in 1 .. Len(s) : (Len(s) - k) + 1 \in 1 .. Len(s)
  BY <1>1
<1>3. CASE method \in FromBack
  <2>1. Way(method, s) = [k \in 1 .. Len(s) |-> s[(Len(s) - k) + 1]]
    BY <1>3 DEF Way, Reverse
  <2>2. \A k \in 1 .. Len(s) : s[(Len(s) - k) + 1] \in Places
    BY <1>1, <1>2
  <2> QED
    BY <1>1, <1>3, <2>1, <2>2
<1>4. CASE method \notin FromBack
  BY <1>1, <1>4 DEF Way
<1> QED
  BY <1>3, <1>4

LEMMA LeftAfterIs ==
  ASSUME NEW method, NEW s \in Seq(Places), NEW m \in 0 .. Len(s)
  PROVE  LET left == LeftAfter(method, s, m)
         IN  /\ left \in Seq(Places) /\ Len(left) = Len(s) - m
             /\ \A k \in 1 .. (Len(s) - m) :
                  left[k] = IF method \in FromBack THEN s[k] ELSE s[k + m]
<1>1. Len(s) \in Nat /\ m \in Nat /\ \A k \in 1 .. Len(s) : s[k] \in Places
  BY LenProperties, ElementOfSeq
<1>2. CASE method \in FromBack
  <2>1. \A k \in 1 .. (Len(s) - m) : s[k] \in Places
    BY <1>1
  <2>2. /\ SubSeq(s, 1, Len(s) - m) \in Seq(Places)
        /\ Len(SubSeq(s, 1, Len(s) - m)) = IF 1 <= Len(s) - m THEN (Len(s) - m) - 1 + 1 ELSE 0
        /\ \A k \in 1 .. ((Len(s) - m) - 1 + 1) : SubSeq(s, 1, Len(s) - m)[k] = s[1 + k - 1]
    BY <1>1, <2>1, SubSeqProperties
  <2>3. LeftAfter(method, s, m) = SubSeq(s, 1, Len(s) - m)
    BY <1>2 DEF LeftAfter
  <2> QED
    BY <1>1, <1>2, <2>2, <2>3
<1>3. CASE method \notin FromBack
  <2>1. \A k \in (m + 1) .. Len(s) : s[k] \in Places
    BY <1>1
  <2>2. /\ SubSeq(s, m + 1, Len(s)) \in Seq(Places)
        /\ Len(SubSeq(s, m + 1, Len(s))) = IF m + 1 <= Len(s) THEN Len(s) - (m + 1) + 1 ELSE 0
        /\ \A k \in 1 .. (Len(s) - (m + 1) + 1) : SubSeq(s, m + 1, Len(s))[k] = s[(m + 1) + k - 1]
    BY <1>1, <2>1, SubSeqProperties
  <2>3. LeftAfter(method, s, m) = SubSeq(s, m + 1, Len(s))
    BY <1>3 DEF LeftAfter
  <2> QED
    BY <1>1, <1>3, <2>2, <2>3
<1> QED
  BY <1>2, <1>3

LEMMA LeftLength ==
  \A method : \A s \in Seq(Places) : \A m \in 0 .. Len(s) :
    Len(LeftAfter(method, s, m)) = Len(s) - m
<1> SUFFICES ASSUME NEW method, NEW s \in Seq(Places), NEW m \in 0 .. Len(s)
             PROVE  Len(LeftAfter(method, s, m)) = Len(s) - m
  OBVIOUS
<1>1. /\ LeftAfter(method, s, m) \in Seq(Places)
      /\ Len(LeftAfter(method, s, m)) = Len(s) - m
  BY LeftAfterIs
<1> QED
  BY <1>1

(* The next stream that the closure is asked about. *)
LEMMA TakenNextIs ==
  ASSUME NEW method, NEW s \in Seq(Places), NEW m \in 0 .. Len(s),
         LeftAfter(method, s, m) # <<>>
  PROVE  LET t == TakenNext(method, LeftAfter(method, s, m))
             x == Way(method, s)[m + 1]
         IN  /\ m < Len(s) /\ x \in Places
             /\ Items(t.stream) = <<SelectedSource(x)>>
             /\ Items(t.stream) \in Seq(Sources)
             /\ t.rest = LeftAfter(method, s, m + 1)
<1> DEFINE left == LeftAfter(method, s, m)
           next == LeftAfter(method, s, m + 1)
           t == TakenNext(method, left)
           x == Way(method, s)[m + 1]
<1>1. Len(s) \in Nat /\ m \in Nat /\ \A k \in 1 .. Len(s) : s[k] \in Places
  BY LenProperties, ElementOfSeq
<1>2. /\ left \in Seq(Places) /\ Len(left) = Len(s) - m
      /\ \A k \in 1 .. (Len(s) - m) :
           left[k] = IF method \in FromBack THEN s[k] ELSE s[k + m]
  BY LeftAfterIs
<1>3. m < Len(s) /\ 0 < Len(left) /\ m + 1 \in 0 .. Len(s) /\ m + 1 \in 1 .. Len(s)
  <2> HIDE DEF left
  <2>1. Len(left) # 0
    BY <1>2, EmptySeq DEF left
  <2> QED
    BY <1>1, <1>2, <2>1
<1>4. /\ next \in Seq(Places) /\ Len(next) = Len(s) - (m + 1)
      /\ \A k \in 1 .. (Len(s) - (m + 1)) :
           next[k] = IF method \in FromBack THEN s[k] ELSE s[k + (m + 1)]
  BY <1>3, LeftAfterIs
<1>5. x = (IF method \in FromBack THEN s[(Len(s) - (m + 1)) + 1] ELSE s[m + 1]) /\ x \in Places
  <2>1. x \in Places
    BY <1>3, WayOf, ElementOfSeq
  <2> QED
    BY <1>3, <2>1, WayOf
<1> HIDE DEF left, next, x
<1>6. CASE method \in FromBack
  <2>1. t = SliceNthBack(left, 0)
    BY <1>6 DEF TakenNext
  <2>2. /\ Items(t.stream) = <<SelectedSource(left[Len(left) - 0])>>
        /\ Items(t.stream) \in Seq(Sources) /\ t.rest \in Seq(Places)
        /\ Len(t.rest) = Len(left) - (0 + 1)
        /\ \A k \in 1 .. Len(t.rest) : t.rest[k] = left[k]
    BY <1>2, <1>3, <2>1, NthBackTakes
  <2> HIDE DEF t
  <2>3. left[Len(left) - 0] = x
    <3>1. Len(left) - 0 \in 1 .. (Len(s) - m) /\ Len(left) - 0 = (Len(s) - (m + 1)) + 1
      BY <1>1, <1>2, <1>3
    <3> QED
      BY <1>2, <1>5, <1>6, <3>1
  <2>4. t.rest = next
    <3>1. Len(t.rest) = Len(next) /\ Len(t.rest) = Len(s) - (m + 1)
      BY <1>1, <1>2, <1>3, <1>4, <2>2
    <3>2. \A k \in 1 .. Len(t.rest) : t.rest[k] = next[k]
      <4> SUFFICES ASSUME NEW k \in 1 .. Len(t.rest) PROVE t.rest[k] = next[k]
        OBVIOUS
      <4>1. k \in 1 .. (Len(s) - m) /\ k \in 1 .. (Len(s) - (m + 1))
        BY <1>1, <3>1
      <4> QED
        BY <1>2, <1>4, <1>6, <2>2, <4>1
    <3> QED
      BY <1>4, <2>2, <3>1, <3>2, SeqEqual
  <2> QED
    BY <1>3, <1>5, <2>2, <2>3, <2>4 DEF left, next, x, t
<1>7. CASE method \notin FromBack
  <2>1. t = SliceNth(left, 0)
    BY <1>7 DEF TakenNext
  <2>2. /\ Items(t.stream) = <<SelectedSource(left[0 + 1])>>
        /\ Items(t.stream) \in Seq(Sources) /\ t.rest \in Seq(Places)
        /\ Len(t.rest) = Len(left) - (0 + 1)
        /\ \A k \in 1 .. Len(t.rest) : t.rest[k] = left[k + (0 + 1)]
    BY <1>2, <1>3, <2>1, NthTakes
  <2> HIDE DEF t
  <2>3. left[0 + 1] = x
    <3>1. 0 + 1 \in 1 .. (Len(s) - m) /\ (0 + 1) + m = m + 1
      BY <1>1, <1>2, <1>3
    <3> QED
      BY <1>2, <1>5, <1>7, <3>1
  <2>4. t.rest = next
    <3>1. Len(t.rest) = Len(next) /\ Len(t.rest) = Len(s) - (m + 1)
      BY <1>1, <1>2, <1>3, <1>4, <2>2
    <3>2. \A k \in 1 .. Len(t.rest) : t.rest[k] = next[k]
      <4> SUFFICES ASSUME NEW k \in 1 .. Len(t.rest) PROVE t.rest[k] = next[k]
        OBVIOUS
      <4>1. /\ k + (0 + 1) \in 1 .. (Len(s) - m) /\ k \in 1 .. (Len(s) - (m + 1))
            /\ (k + (0 + 1)) + m = k + (m + 1)
        BY <1>1, <3>1
      <4> QED
        BY <1>2, <1>4, <1>7, <2>2, <4>1
    <3> QED
      BY <1>4, <2>2, <3>1, <3>2, SeqEqual
  <2> QED
    BY <1>3, <1>5, <2>2, <2>3, <2>4 DEF left, next, x, t
<1> QED
  BY <1>6, <1>7

(* What has happened in a call so far. *)
Progressed(c) ==
  LET m == Len(c.told) IN
  /\ m \in 0 .. Len(c.start)
  /\ Len(c.asked) = m
  /\ \A k \in 1 .. m : /\ c.asked[k] = SelectedSource(Way(c.method, c.start)[k])
                       /\ c.told[k] \notin StopsAt(c.method)
  /\ c.by \in live /\ rest[c.by] = LeftAfter(c.method, c.start, m)

RunningCalls ==
  [method : Closures, start : Seq(Places), state : {"running"}, by : Iterators,
   asked : Seq(Sources), told : Seq(BOOLEAN)]

CallInv ==
  /\ call.state = "running" => call \in RunningCalls /\ Progressed(call)
  /\ AnswersAsTrait

(* The streams asked about are the first ones on the way. *)
LEMMA AskedIs ==
  ASSUME NEW method, NEW s \in Seq(Places), NEW m \in 0 .. Len(s),
         NEW heard \in Seq(Sources), Len(heard) = m,
         \A k \in 1 .. m : heard[k] = SelectedSource(Way(method, s)[k])
  PROVE  /\ heard = SubSeq(Items(Way(method, s)), 1, m)
         /\ m = Len(s) => heard = Items(Way(method, s))
<1> DEFINE w == Way(method, s)
<1>1. w \in Seq(Places) /\ Len(w) = Len(s) /\ Len(s) \in Nat /\ m \in Nat
  BY WayOf, LenProperties
<1> HIDE DEF w
<1>2. /\ Items(w) \in Seq(Sources) /\ Len(Items(w)) = Len(s)
      /\ \A k \in 1 .. Len(s) : Items(w)[k] = SelectedSource(w[k])
  BY <1>1, ItemsOf
<1>3. \A k \in 1 .. m : Items(w)[k] \in Sources
  BY <1>1, <1>2, ElementOfSeq
<1>4. /\ SubSeq(Items(w), 1, m) \in Seq(Sources)
      /\ Len(SubSeq(Items(w), 1, m)) = m
      /\ \A k \in 1 .. m : SubSeq(Items(w), 1, m)[k] = Items(w)[k]
  BY <1>1, <1>3, SubSeqProperties
<1>5. \A k \in 1 .. m : heard[k] = SubSeq(Items(w), 1, m)[k]
  BY <1>1, <1>2, <1>4 DEF w
<1>6. heard = SubSeq(Items(w), 1, m)
  BY <1>4, <1>5, SeqEqual
<1>7. SubSeq(Items(w), 1, Len(s)) = Items(w)
  BY <1>2, SubSeqFull
<1> QED
  BY <1>6, <1>7 DEF w

(* A method that stops at the stream it asked about last. *)
Stopped(c, n) ==
  /\ c.method \in Closures /\ c.start \in Seq(Places) /\ n \in 1 .. Len(c.start)
  /\ c.told \in Seq(BOOLEAN) /\ Len(c.told) = n
  /\ c.told[n] \in StopsAt(c.method)
  /\ c.left = LeftAfter(c.method, c.start, n)
  /\ c.method = "all" => c.answer = FALSE
  /\ c.method = "any" => c.answer = TRUE
  /\ c.method = "position" => c.answer = <<n - 1>>
  /\ c.method = "rposition" => c.answer = <<Len(c.left)>>
  /\ c.method \notin {"all", "any", "position", "rposition"} =>
       c.answer = <<SelectedSource(Way(c.method, c.start)[n])>>

LEMMA StoppedAsTrait ==
  ASSUME NEW c, NEW n, Stopped(c, n)
  PROVE  c.answer = TraitAnswer(c) /\ c.left = TraitLeft(c)
<1> DEFINE method == c.method
           s == c.start
           told == c.told
           answer == c.answer
           left == c.left
<1> USE DEF Stopped
<1>1. Len(s) \in Nat /\ n \in Nat /\ DOMAIN told = 1 .. n /\ n \in 1 .. n
  BY LenProperties
<1>2. method \in {"all", "any", "find", "find_map", "position", "rfind", "rposition"}
  BY DEF StopsAt, Closures, FromBack, ByValue
<1>3. method # "all" => TRUE \in Range(told)
  <2>1. method # "all" => told[n] = TRUE
    BY <1>2 DEF StopsAt, ByValue
  <2> QED
    BY <1>1, <2>1 DEF Range
<1>4. Way(method, s)[n] = IF method \in FromBack THEN s[(Len(s) - n) + 1] ELSE s[n]
  BY WayOf
<1>5. Len(left) = Len(s) - n
  <2>1. n \in 0 .. Len(s)
    BY <1>1
  <2>2. Len(LeftAfter(method, s, n)) = Len(s) - n
    BY <2>1, LeftLength
  <2> QED
    BY <2>2
<1>6. c.left = TraitLeft(c)
  BY <1>2, <1>3 DEF TraitLeft, LeftAfter, FromBack
<1>7. CASE method = "all"
  <2>1. told[n] = FALSE
    BY <1>7 DEF StopsAt
  <2>2. (\A k \in DOMAIN told : told[k]) = FALSE
    BY <1>1, <2>1
  <2>3. TraitAnswer(c) = (\A k \in DOMAIN told : told[k])
    BY <1>7 DEF TraitAnswer
  <2> QED
    BY <1>6, <1>7, <2>2, <2>3
<1>8. CASE method = "any"
  <2>1. told[n] = TRUE
    BY <1>8 DEF StopsAt, ByValue
  <2>2. (\E k \in DOMAIN told : told[k]) = TRUE
    BY <1>1, <2>1
  <2>3. TraitAnswer(c) = (\E k \in DOMAIN told : told[k])
    BY <1>8 DEF TraitAnswer
  <2> QED
    BY <1>6, <1>8, <2>2, <2>3
<1>9. CASE method \in {"find", "find_map"}
  <2>1. answer = <<SelectedSource(s[n])>>
    BY <1>4, <1>9 DEF FromBack
  <2>2. TraitAnswer(c) = Picks(s, n)
    BY <1>3, <1>9 DEF TraitAnswer
  <2> QED
    BY <1>6, <2>1, <2>2 DEF Picks
<1>10. CASE method = "rfind"
  <2>1. answer = <<SelectedSource(s[(Len(s) - n) + 1])>>
    BY <1>4, <1>10 DEF FromBack
  <2>2. TraitAnswer(c) = Picks(s, Len(s) + 1 - n)
    BY <1>3, <1>10 DEF TraitAnswer
  <2>3. Len(s) + 1 - n = (Len(s) - n) + 1 /\ (Len(s) - n) + 1 \in 1 .. Len(s)
    BY <1>1
  <2> QED
    BY <1>6, <2>1, <2>2, <2>3 DEF Picks
<1>11. CASE method = "position"
  BY <1>3, <1>6, <1>11 DEF TraitAnswer
<1>12. CASE method = "rposition"
  BY <1>3, <1>5, <1>6, <1>12 DEF TraitAnswer
<1> QED
  BY <1>2, <1>7, <1>8, <1>9, <1>10, <1>11, <1>12

(* A method that comes to the other end. *)
Ended(c) ==
  /\ c.method \in Closures /\ c.start \in Seq(Places)
  /\ c.asked = Items(Way(c.method, c.start))
  /\ c.told \in Seq(BOOLEAN) /\ Len(c.told) = Len(c.start)
  /\ \A k \in 1 .. Len(c.start) : c.told[k] \notin StopsAt(c.method)
  /\ c.left = <<>>
  /\ c.method = "all" => c.answer = TRUE
  /\ c.method = "any" => c.answer = FALSE
  /\ c.method \in ByValue => c.answer = c.asked
  /\ c.method \notin ByValue \cup {"all", "any"} => c.answer = <<>>

LEMMA EndedAsTrait ==
  ASSUME NEW c, Ended(c)
  PROVE  c.answer = TraitAnswer(c) /\ c.left = TraitLeft(c)
<1> DEFINE method == c.method
           s == c.start
           heard == c.asked
           told == c.told
           answer == c.answer
<1> USE DEF Ended
<1>1. /\ Len(s) \in Nat /\ DOMAIN told = 1 .. Len(s)
      /\ \A k \in 1 .. Len(s) : told[k] \in BOOLEAN
  BY LenProperties, ElementOfSeq
<1>2. <<>> = LeftAfter(method, s, Len(s))
  <2>1. Len(s) \in 0 .. Len(s)
    BY <1>1
  <2>2. /\ LeftAfter(method, s, Len(s)) \in Seq(Places)
        /\ Len(LeftAfter(method, s, Len(s))) = Len(s) - Len(s)
    BY <2>1, LeftAfterIs
  <2> QED
    BY <1>1, <2>2, EmptySeq
<1>3. method \notin ByValue \cup {"all"} => TRUE \notin Range(told)
  <2>1. method \notin ByValue \cup {"all"} => \A k \in 1 .. Len(s) : told[k] # TRUE
    BY DEF StopsAt
  <2> QED
    BY <1>1, <2>1 DEF Range
<1>4. c.left = TraitLeft(c)
  BY <1>2 DEF TraitLeft, LeftAfter, FromBack, Closures
<1>5. CASE method = "all"
  <2>1. \A k \in 1 .. Len(s) : told[k] = TRUE
    BY <1>1, <1>5 DEF StopsAt
  <2>2. (\A k \in DOMAIN told : told[k]) = TRUE
    BY <1>1, <2>1
  <2>3. TraitAnswer(c) = (\A k \in DOMAIN told : told[k])
    BY <1>5 DEF TraitAnswer
  <2>4. answer = TRUE
    BY <1>5 DEF ByValue
  <2>5. answer = TraitAnswer(c)
    BY <2>2, <2>3, <2>4
  <2> QED
    BY <1>4, <2>5
<1>6. CASE method = "any"
  <2>1. \A k \in 1 .. Len(s) : told[k] = FALSE
    BY <1>1, <1>6 DEF StopsAt, ByValue
  <2>2. (\E k \in DOMAIN told : told[k]) = FALSE
    BY <1>1, <2>1
  <2>3. TraitAnswer(c) = (\E k \in DOMAIN told : told[k])
    BY <1>6 DEF TraitAnswer
  <2>4. answer = FALSE
    BY <1>6 DEF ByValue
  <2>5. answer = TraitAnswer(c)
    BY <2>2, <2>3, <2>4
  <2> QED
    BY <1>4, <2>5
<1>7. CASE method \in {"find", "find_map", "rfind", "position", "rposition"}
  <2>1. answer = <<>> /\ TRUE \notin Range(told)
    BY <1>3, <1>7 DEF ByValue
  <2>2. TraitAnswer(c) = <<>>
    BY <1>7, <2>1 DEF TraitAnswer
  <2> QED
    BY <1>4, <2>1, <2>2
<1>8. CASE method \in {"fold", "for_each"}
  <2>1. answer = Items(s)
    BY <1>8 DEF Way, FromBack, ByValue
  <2>2. TraitAnswer(c) = Items(s)
    BY <1>8 DEF TraitAnswer
  <2> QED
    BY <1>4, <2>1, <2>2
<1>9. CASE method = "rfold"
  <2>1. answer = Items(Reverse(s))
    BY <1>9 DEF Way, FromBack, ByValue
  <2>2. TraitAnswer(c) = Items(Reverse(s))
    BY <1>9 DEF TraitAnswer
  <2> QED
    BY <1>4, <2>1, <2>2
<1> QED
  BY <1>5, <1>6, <1>7, <1>8, <1>9 DEF Closures, FromBack

(* What a method leaves and answers that takes from one end. *)
LEMMA NthAsTrait ==
  ASSUME NEW s \in Seq(Places), NEW n \in Nat, NEW method \in {"next", "nth"},
         method = "next" => n = 0
  PROVE  LET c == [method |-> method, n |-> n, start |-> s, state |-> "done",
                   answer |-> Items(SliceNth(s, n).stream), left |-> SliceNth(s, n).rest]
         IN  c.answer = TraitAnswer(c) /\ c.left = TraitLeft(c)
<1> DEFINE answer == Items(SliceNth(s, n).stream)
           left == SliceNth(s, n).rest
           c == [method |-> method, n |-> n, start |-> s, state |-> "done",
                 answer |-> answer, left |-> left]
<1>1. Len(s) \in Nat /\ \A k \in 1 .. Len(s) : s[k] \in Places
  BY LenProperties, ElementOfSeq
<1>2. answer = Picks(s, n + 1)
  <2>1. CASE n < Len(s)
    <3>1. answer = <<SelectedSource(s[n + 1])>>
      BY <2>1, NthTakes
    <3>2. n + 1 \in 1 .. Len(s)
      BY <1>1, <2>1
    <3> HIDE DEF answer
    <3> QED
      BY <3>1, <3>2 DEF Picks
  <2>2. CASE ~ (n < Len(s))
    <3>1. answer = <<>>
      BY <2>2, NthTakes
    <3>2. n + 1 \notin 1 .. Len(s)
      BY <1>1, <2>2
    <3> HIDE DEF answer
    <3> QED
      BY <3>1, <3>2 DEF Picks
  <2> QED
    BY <2>1, <2>2
<1>3. left = SubSeq(s, n + 2, Len(s))
  <2>1. CASE n < Len(s)
    BY <2>1 DEF SliceNth
  <2>2. CASE ~ (n < Len(s))
    <3>1. left = <<>>
      BY <2>2 DEF SliceNth
    <3>2. /\ SubSeq(s, n + 2, Len(s)) \in Seq(Places)
          /\ Len(SubSeq(s, n + 2, Len(s))) = 0
      <4>1. \A k \in (n + 2) .. Len(s) : s[k] \in Places
        BY <1>1
      <4>2. /\ SubSeq(s, n + 2, Len(s)) \in Seq(Places)
            /\ Len(SubSeq(s, n + 2, Len(s)))
                 = IF n + 2 <= Len(s) THEN Len(s) - (n + 2) + 1 ELSE 0
        BY <1>1, <4>1, SubSeqProperties
      <4> QED
        BY <1>1, <2>2, <4>2
    <3>3. SubSeq(s, n + 2, Len(s)) = <<>>
      BY <3>2, EmptySeq
    <3> QED
      BY <3>1, <3>3
  <2> QED
    BY <2>1, <2>2
<1> HIDE DEF answer, left
<1>4. /\ c.method = method /\ c.start = s /\ c.n = n /\ c.answer = answer
      /\ c.left = left
  OBVIOUS
<1> HIDE DEF c
<1>5. TraitAnswer(c) = Picks(s, n + 1) /\ TraitLeft(c) = SubSeq(s, n + 2, Len(s))
  <2>1. TraitLeft(c) = SubSeq(s, n + 2, Len(s))
    BY <1>4 DEF TraitLeft, FromBack
  <2>2. CASE method = "next"
    <3>1. TraitAnswer(c) = Picks(s, 1)
      BY <1>4, <2>2 DEF TraitAnswer
    <3>2. n + 1 = 1
      BY <2>2
    <3> QED
      BY <2>1, <3>1, <3>2
  <2>3. CASE method = "nth"
    <3>1. TraitAnswer(c) = Picks(s, n + 1)
      BY <1>4, <2>3 DEF TraitAnswer
    <3> QED
      BY <2>1, <3>1
  <2> QED
    BY <2>2, <2>3
<1> QED
  BY <1>2, <1>3, <1>4, <1>5 DEF answer, left, c

LEMMA NthBackAsTrait ==
  ASSUME NEW s \in Seq(Places), NEW n \in Nat,
         NEW method \in {"next_back", "nth_back", "last"}, method # "nth_back" => n = 0
  PROVE  LET c == [method |-> method, n |-> n, start |-> s, state |-> "done",
                   answer |-> Items(SliceNthBack(s, n).stream),
                   left |-> SliceNthBack(s, n).rest]
         IN  /\ c.answer = TraitAnswer(c)
             /\ method # "last" => c.left = TraitLeft(c)
<1> DEFINE answer == Items(SliceNthBack(s, n).stream)
           left == SliceNthBack(s, n).rest
           c == [method |-> method, n |-> n, start |-> s, state |-> "done",
                 answer |-> answer, left |-> left]
<1>1. Len(s) \in Nat
  BY LenProperties
<1>2. answer = IF n < Len(s) THEN Picks(s, Len(s) - n) ELSE <<>>
  <2>1. CASE n < Len(s)
    <3>1. answer = <<SelectedSource(s[Len(s) - n])>>
      BY <2>1, NthBackTakes
    <3>2. Len(s) - n \in 1 .. Len(s)
      BY <1>1, <2>1
    <3> HIDE DEF answer
    <3> QED
      BY <2>1, <3>1, <3>2 DEF Picks
  <2>2. CASE ~ (n < Len(s))
    BY <2>2, NthBackTakes
  <2> QED
    BY <2>1, <2>2
<1>3. left = IF n < Len(s) THEN SubSeq(s, 1, Len(s) - n - 1) ELSE <<>>
  BY DEF SliceNthBack
<1> HIDE DEF answer, left
<1>4. /\ c.method = method /\ c.start = s /\ c.n = n /\ c.answer = answer
      /\ c.left = left
  OBVIOUS
<1> HIDE DEF c
<1>5. n = 0 => Picks(s, Len(s)) = IF n < Len(s) THEN Picks(s, Len(s) - n) ELSE <<>>
  <2>1. CASE 0 < Len(s)
    <3>1. n = 0 => n < Len(s) /\ Len(s) - n = Len(s)
      BY <1>1, <2>1
    <3> QED
      BY <3>1
  <2>2. CASE ~ (0 < Len(s))
    <3>1. Len(s) \notin 1 .. Len(s)
      BY <1>1, <2>2
    <3> QED
      BY <2>2, <3>1 DEF Picks
  <2> QED
    BY <2>1, <2>2
<1>6. TraitAnswer(c) = IF n < Len(s) THEN Picks(s, Len(s) - n) ELSE <<>>
  <2>1. CASE method = "next_back"
    <3>1. TraitAnswer(c) = Picks(s, Len(s))
      BY <1>4, <2>1 DEF TraitAnswer
    <3> QED
      BY <1>5, <2>1, <3>1
  <2>2. CASE method = "last"
    <3>1. TraitAnswer(c) = Picks(s, Len(s))
      BY <1>4, <2>2 DEF TraitAnswer
    <3> QED
      BY <1>5, <2>2, <3>1
  <2>3. CASE method = "nth_back"
    BY <1>4, <2>3 DEF TraitAnswer
  <2> QED
    BY <2>1, <2>2, <2>3
<1>7. method # "last" =>
        TraitLeft(c) = IF n < Len(s) THEN SubSeq(s, 1, Len(s) - n - 1) ELSE <<>>
  BY <1>4 DEF TraitLeft, FromBack
<1> QED
  BY <1>2, <1>3, <1>4, <1>6, <1>7 DEF answer, left, c

(* What a call is when it has answered. *)
AsTrait(c) ==
  /\ c.answer = TraitAnswer(c)
  /\ c.method \notin ByValue \cup {"last"} => c.left = TraitLeft(c)
  /\ c.method \in Closures =>
       /\ c.asked = SubSeq(Items(Way(c.method, c.start)), 1, Len(c.told))
       /\ \A k \in 1 .. (Len(c.told) - 1) : c.told[k] \notin StopsAt(c.method)
       /\ \/ c.told # <<>> /\ Last(c.told) \in StopsAt(c.method)
          \/ Len(c.told) = Len(c.start)

LEMMA DoneIsAsTrait ==
  AnswersAsTrait' <=> (call' # NoCall /\ call'.state = "done" => AsTrait(call'))
  BY DEF AnswersAsTrait, AsTrait, Way

LEMMA BeginProgresses ==
  ASSUME SourcesInv, NEW i \in Iterators, NEW method \in Closures, Begin(i, method)
  PROVE  CallInv'
<1>1. /\ i \in live /\ live' = live /\ rest' = rest
      /\ call' = [method |-> method, start |-> rest[i], state |-> "running", by |-> i,
                  asked |-> <<>>, told |-> <<>>]
      /\ rest[i] \in Seq(Places) /\ Places' = Places /\ Sources' = Sources
  BY DEF Begin, SourcesInv, Places, Sources
<1>2. LeftAfter(method, rest[i], 0) = rest[i]
  <2>1. Len(rest[i]) \in Nat
    BY <1>1, LenProperties
  <2>2. SubSeq(rest[i], 1, Len(rest[i])) = rest[i]
    BY <1>1, SubSeqFull
  <2>3. Len(rest[i]) - 0 = Len(rest[i]) /\ 0 + 1 = 1
    BY <2>1
  <2> QED
    BY <2>2, <2>3 DEF LeftAfter
<1>3. call'.state = "running" /\ call' \in RunningCalls'
  BY <1>1 DEF RunningCalls
<1>4. Progressed(call)'
  <2>1. 0 \in 0 .. Len(rest[i]) /\ Len(<<>>) = 0
    BY <1>1, LenProperties
  <2>2. /\ call'.told = <<>> /\ call'.asked = <<>> /\ call'.start = rest[i]
        /\ call'.method = method /\ call'.by = i
    BY <1>1
  <2> QED
    BY <1>1, <1>2, <2>1, <2>2 DEF Progressed
<1> QED
  BY <1>3, <1>4 DEF CallInv, AnswersAsTrait

LEMMA AskProgresses ==
  ASSUME SourcesInv, CallInv, NEW i \in Iterators, Ask(i)
  PROVE  CallInv'
<1> DEFINE method == call.method
           s == call.start
           m == Len(call.told)
           t == TakenNext(method, rest[i])
           item == Items(t.stream)
<1>1. /\ call \in RunningCalls /\ Progressed(call) /\ call.by = i
      /\ rest[i] # <<>> /\ Handed(i, t)
  BY DEF CallInv, Ask, TakenNext
<1>2. /\ method \in Closures /\ s \in Seq(Places) /\ call.asked \in Seq(Sources)
      /\ call.told \in Seq(BOOLEAN) /\ call.state = "running"
  BY <1>1 DEF RunningCalls
<1>3. /\ m \in 0 .. Len(s) /\ Len(call.asked) = m /\ i \in live
      /\ \A k \in 1 .. m : call.asked[k] = SelectedSource(Way(method, s)[k])
      /\ \A k \in 1 .. m : call.told[k] \notin StopsAt(method)
      /\ rest[i] = LeftAfter(method, s, m)
  BY <1>1 DEF Progressed
<1>4. live' = live /\ rest' = [rest EXCEPT ![i] = t.rest] /\ streams' = streams
  BY <1>1 DEF Handed
<1>5. rest'[i] = t.rest /\ Places' = Places /\ Sources' = Sources
  BY <1>4 DEF SourcesInv, Places, Sources
<1>6. PICK says \in BOOLEAN :
        call' = IF says \in StopsAt(method)
                THEN [method |-> method, start |-> s, state |-> "done",
                      asked |-> call.asked \o item, told |-> Append(call.told, says),
                      answer |-> StopAnswer(item, t.rest), left |-> t.rest]
                ELSE [call EXCEPT !.asked = @ \o item, !.told = Append(@, says)]
  BY <1>1, <1>2 DEF Ask, TakenNext, RunningCalls
<1> DEFINE asks == call.asked \o item
           tells == Append(call.told, says)
           u == TakenNext(method, LeftAfter(method, s, m))
<1>7. LeftAfter(method, s, m) # <<>> /\ t = u
  BY <1>1, <1>3
<1>8. /\ m + 1 \in 1 .. Len(s)
      /\ asks \in Seq(Sources) /\ Len(asks) = m + 1
      /\ \A k \in 1 .. (m + 1) : asks[k] = SelectedSource(Way(method, s)[k])
      /\ tells \in Seq(BOOLEAN) /\ Len(tells) = m + 1
      /\ \A k \in 1 .. m : tells[k] = call.told[k]
      /\ tells[m + 1] = says
      /\ item = <<SelectedSource(Way(method, s)[m + 1])>>
      /\ t.rest = LeftAfter(method, s, m + 1)
  <2> DEFINE told == call.told
             heard == call.asked
  <2>1. /\ Len(told) = m /\ Len(heard) = m /\ told \in Seq(BOOLEAN) /\ heard \in Seq(Sources)
        /\ \A k \in 1 .. m : heard[k] = SelectedSource(Way(method, s)[k])
    BY <1>2, <1>3
  <2> HIDE DEF method, s, m, told, heard
  <2>2. m \in Nat /\ Len(s) \in Nat
    BY <1>2, <1>3, LenProperties
  <2> DEFINE x == SelectedSource(Way(method, s)[m + 1])
  <2>3. /\ m < Len(s) /\ Items(u.stream) = <<x>> /\ Items(u.stream) \in Seq(Sources)
        /\ u.rest = LeftAfter(method, s, m + 1)
    BY <1>2, <1>3, <1>7, TakenNextIs
  <2>4. Len(<<x>>) = 1 /\ <<x>>[1] = x
    OBVIOUS
  <2> HIDE DEF t, u, x
  <2>5. /\ item = <<x>> /\ item \in Seq(Sources) /\ t.rest = LeftAfter(method, s, m + 1)
    BY <1>7, <2>3
  <2> HIDE DEF item
  <2>6. /\ heard \o item \in Seq(Sources) /\ Len(heard \o item) = m + 1
        /\ \A k \in 1 .. m : (heard \o item)[k] = heard[k]
        /\ (heard \o item)[m + 1] = x
    <3>1. /\ heard \o item \in Seq(Sources)
          /\ Len(heard \o item) = Len(heard) + Len(item)
          /\ \A k \in 1 .. (Len(heard) + Len(item)) :
               (heard \o item)[k] = IF k <= Len(heard) THEN heard[k] ELSE item[k - Len(heard)]
      BY <2>1, <2>5, ConcatProperties
    <3>2. Len(item) = 1 /\ item[1] = x /\ Len(heard) = m
      BY <2>1, <2>4, <2>5
    <3>3. m + 1 \in 1 .. (m + 1) /\ (m + 1) - m = 1 /\ ~ (m + 1 <= m)
      BY <2>2
    <3>4. \A k \in 1 .. m : k \in 1 .. (m + 1) /\ k <= m
      BY <2>2
    <3> QED
      BY <3>1, <3>2, <3>3, <3>4
  <2>7. \A k \in 1 .. (m + 1) : (heard \o item)[k] = SelectedSource(Way(method, s)[k])
    <3> SUFFICES ASSUME NEW k \in 1 .. (m + 1)
                 PROVE  (heard \o item)[k] = SelectedSource(Way(method, s)[k])
      OBVIOUS
    <3>1. k \in 1 .. m \/ k = m + 1
      BY <2>2
    <3> QED
      BY <2>1, <2>6, <3>1 DEF x
  <2>8. /\ Append(told, says) \in Seq(BOOLEAN) /\ Len(Append(told, says)) = m + 1
        /\ \A k \in 1 .. m : Append(told, says)[k] = told[k]
        /\ Append(told, says)[m + 1] = says
    BY <2>1, <2>2, AppendProperties
  <2>9. m + 1 \in 1 .. Len(s)
    BY <2>2, <2>3
  <2> QED
    BY <2>5, <2>6, <2>7, <2>8, <2>9 DEF told, heard, x
<1>9. m \in Nat /\ (m + 1) - 1 = m
  BY <1>2, LenProperties
<1>10. \A k \in 1 .. m : tells[k] \notin StopsAt(method)
  BY <1>3, <1>8
<1>11. CASE says \notin StopsAt(method)
  <2>1. call' = [call EXCEPT !.asked = asks, !.told = tells]
    BY <1>6, <1>11
  <2> HIDE DEF asks, tells, item, t
  <2>2. /\ call' \in RunningCalls' /\ call'.state = "running"
        /\ call'.told = tells /\ call'.asked = asks /\ call'.start = s
        /\ call'.method = method /\ call'.by = i
    BY <1>1, <1>5, <1>8, <2>1 DEF RunningCalls
  <2> HIDE DEF method, s, m
  <2>3. \A k \in 1 .. (m + 1) : tells[k] \notin StopsAt(method)
    <3>1. \A k \in 1 .. (m + 1) : k \in 1 .. m \/ k = m + 1
      BY <1>9
    <3> QED
      BY <1>8, <1>10, <1>11, <3>1
  <2>4. m + 1 \in 0 .. Len(s)
    BY <1>8, <1>9
  <2>5. Progressed(call)'
    BY <1>3, <1>4, <1>5, <1>8, <2>2, <2>3, <2>4 DEF Progressed
  <2> QED
    BY <2>2, <2>5 DEF CallInv, AnswersAsTrait
<1>12. CASE says \in StopsAt(method)
  <2> DEFINE answer == StopAnswer(item, t.rest)
             left == t.rest
             c == [method |-> method, start |-> s, state |-> "done", asked |-> asks,
                   told |-> tells, answer |-> answer, left |-> left]
  <2>1. call' = c
    BY <1>6, <1>12
  <2>2. /\ method = "all" => answer = FALSE
        /\ method = "any" => answer = TRUE
        /\ method = "position" => answer = <<m>>
        /\ method = "rposition" => answer = <<Len(left)>>
        /\ method \notin {"all", "any", "position", "rposition"} => answer = item
    <3> HIDE DEF item, t
    <3>1. m = Len(call.asked)
      BY <1>3
    <3> QED
      BY <3>1 DEF StopAnswer
  <2> DEFINE n == m + 1
  <2> HIDE DEF answer, left, asks, tells, item, t, method, s, m
  <2>3. /\ n \in 1 .. Len(s) /\ n \in 0 .. Len(s) /\ n - 1 = m /\ n \in Nat
        /\ asks \in Seq(Sources) /\ Len(asks) = n
        /\ \A k \in 1 .. n : asks[k] = SelectedSource(Way(method, s)[k])
        /\ tells \in Seq(BOOLEAN) /\ Len(tells) = n
        /\ \A k \in 1 .. m : tells[k] \notin StopsAt(method)
        /\ tells[n] \in StopsAt(method)
        /\ item = <<SelectedSource(Way(method, s)[n])>>
    BY <1>8, <1>9, <1>10, <1>12
  <2>4. left = LeftAfter(method, s, n)
    BY <1>8 DEF left
  <2> HIDE DEF n
  <2>5. \A k \in 1 .. (n - 1) : tells[k] \notin StopsAt(method)
    BY <2>3
  <2>6. method = "position" => answer = <<n - 1>>
    BY <2>2, <2>3
  <2>7. method \notin {"all", "any", "position", "rposition"} =>
          answer = <<SelectedSource(Way(method, s)[n])>>
    BY <2>2, <2>3
  <2>8. c.answer = TraitAnswer(c) /\ c.left = TraitLeft(c)
    <3>1. Stopped(c, n)
      BY <1>2, <2>2, <2>3, <2>4, <2>6, <2>7 DEF Stopped
    <3> HIDE DEF c
    <3> QED
      BY <3>1, StoppedAsTrait
  <2>9. /\ asks = SubSeq(Items(Way(method, s)), 1, n)
        /\ n = Len(s) => asks = Items(Way(method, s))
    BY <1>2, <2>3, AskedIs
  <2>10. tells # <<>> /\ Last(tells) = tells[n]
    BY <2>3 DEF Last
  <2>11. /\ c.method = method /\ c.start = s /\ c.asked = asks /\ c.told = tells
         /\ c.state = "done"
    OBVIOUS
  <2> HIDE DEF c
  <2>12. AsTrait(c)
    BY <2>3, <2>5, <2>8, <2>9, <2>10, <2>11 DEF AsTrait
  <2>13. AnswersAsTrait'
    BY <2>1, <2>12, DoneIsAsTrait
  <2> QED
    BY <2>1, <2>11, <2>13 DEF CallInv
<1> QED
  BY <1>11, <1>12

LEMMA EndProgresses ==
  ASSUME SourcesInv, CallInv, NEW i \in Iterators, End(i)
  PROVE  CallInv'
<1> DEFINE method == call.method
           s == call.start
           m == Len(call.told)
           answer == EndAnswer
           c == [method |-> method, start |-> s, state |-> "done", asked |-> call.asked,
                 told |-> call.told, answer |-> answer, left |-> <<>>]
<1>1. call \in RunningCalls /\ Progressed(call) /\ call.by = i /\ rest[i] = <<>>
  BY DEF CallInv, End
<1>2. /\ method \in Closures /\ s \in Seq(Places) /\ call.asked \in Seq(Sources)
      /\ call.told \in Seq(BOOLEAN)
  BY <1>1 DEF RunningCalls
<1>3. /\ m \in 0 .. Len(s) /\ Len(call.asked) = m
      /\ \A k \in 1 .. m : call.asked[k] = SelectedSource(Way(method, s)[k])
      /\ \A k \in 1 .. m : call.told[k] \notin StopsAt(method)
      /\ LeftAfter(method, s, m) = <<>>
  BY <1>1 DEF Progressed
<1>4. call' = c
  BY DEF End
<1>5. /\ method = "all" => answer = TRUE
      /\ method = "any" => answer = FALSE
      /\ method \in ByValue => answer = call.asked
      /\ method \notin ByValue \cup {"all", "any"} => answer = <<>>
  BY DEF EndAnswer, ByValue
<1> DEFINE heard == call.asked
           told == call.told
<1> HIDE DEF method, s, answer, heard
<1>6. m = Len(s)
  <2>1. Len(s) \in Nat /\ Len(LeftAfter(method, s, m)) = Len(s) - m
    BY <1>2, <1>3, LeftLength, LenProperties
  <2> QED
    BY <1>3, <2>1
<1>7. /\ heard = SubSeq(Items(Way(method, s)), 1, m)
      /\ m = Len(s) => heard = Items(Way(method, s))
  <2> HIDE DEF m
  <2> QED
    BY <1>2, <1>3, AskedIs DEF heard
<1>8. heard = Items(Way(method, s))
  BY <1>6, <1>7
<1> HIDE DEF told
<1>9. /\ Len(told) = Len(s)
      /\ \A k \in 1 .. Len(s) : told[k] \notin StopsAt(method)
      /\ told \in Seq(BOOLEAN) /\ heard \in Seq(Sources)
      /\ c = [method |-> method, start |-> s, state |-> "done", asked |-> heard,
              told |-> told, answer |-> answer, left |-> <<>>]
  BY <1>2, <1>3, <1>6 DEF told, heard
<1>10. method \in ByValue => answer = heard
  BY <1>5 DEF heard
<1> HIDE DEF m, c
<1>11. c.answer = TraitAnswer(c) /\ c.left = TraitLeft(c)
  <2>1. Ended(c)
    BY <1>2, <1>5, <1>8, <1>9, <1>10 DEF Ended
  <2> QED
    BY <2>1, EndedAsTrait
<1>12. /\ c.method = method /\ c.start = s /\ c.asked = heard /\ c.told = told
       /\ c.state = "done"
  BY <1>9
<1>13. \A k \in 1 .. (Len(told) - 1) : told[k] \notin StopsAt(method)
  <2>1. Len(told) \in Nat /\ \A k \in 1 .. (Len(told) - 1) : k \in 1 .. Len(s)
    BY <1>9, LenProperties
  <2> QED
    BY <1>9, <2>1
<1>14. heard = SubSeq(Items(Way(method, s)), 1, Len(told))
  BY <1>7 DEF m, told
<1>15. AsTrait(c)
  BY <1>9, <1>11, <1>12, <1>13, <1>14 DEF AsTrait
<1>16. AnswersAsTrait'
  BY <1>4, <1>15, DoneIsAsTrait
<1> QED
  BY <1>4, <1>12, <1>16 DEF CallInv

LEMMA CallInvStep ==
  ASSUME SourcesInv, CallInv, [SourcesNext]_sourcesVars
  PROVE  CallInv'
<1>1. call' = NoCall => CallInv'
  BY DEF CallInv, AnswersAsTrait, NoCall
<1>2. call'.state = "done" /\ AsTrait(call') => CallInv'
  BY DoneIsAsTrait DEF CallInv
<1>3. ASSUME NEW i \in Iterators PROVE rest[i] \in Seq(Places)
  BY DEF SourcesInv
<1>4. CASE UNCHANGED sourcesVars
  BY <1>4 DEF sourcesVars, CallInv, AnswersAsTrait, RunningCalls, Progressed, Places, Sources
<1>5. ASSUME NEW i \in Iterators, NEW n \in Nat, NEW method \in {"next", "nth"},
             method = "next" => n = 0, Nth(i, method, n)
      PROVE  CallInv'
  <2> DEFINE s == rest[i]
             c == [method |-> method, n |-> n, start |-> s, state |-> "done",
                   answer |-> Items(SliceNth(s, n).stream), left |-> SliceNth(s, n).rest]
  <2>1. call' = c
    BY <1>5 DEF Nth, Answers
  <2>2. c.answer = TraitAnswer(c) /\ c.left = TraitLeft(c)
    <3>1. s \in Seq(Places)
      BY <1>3
    <3> HIDE DEF s
    <3> QED
      BY <1>5, <3>1, NthAsTrait
  <2>3. c.method = method /\ c.state = "done" /\ method \notin Closures
    BY DEF Closures, FromBack
  <2> HIDE DEF c
  <2>4. AsTrait(c)
    BY <2>2, <2>3 DEF AsTrait
  <2> QED
    BY <1>2, <2>1, <2>3, <2>4
<1>6. ASSUME NEW i \in Iterators, NEW n \in Nat,
             NEW method \in {"next_back", "nth_back", "last"},
             method # "nth_back" => n = 0,
             call' = [method |-> method, n |-> n, start |-> rest[i], state |-> "done",
                      answer |-> Items(SliceNthBack(rest[i], n).stream),
                      left |-> SliceNthBack(rest[i], n).rest]
      PROVE  CallInv'
  <2> DEFINE s == rest[i]
             c == [method |-> method, n |-> n, start |-> s, state |-> "done",
                   answer |-> Items(SliceNthBack(s, n).stream),
                   left |-> SliceNthBack(s, n).rest]
  <2>1. call' = c
    BY <1>6
  <2>2. /\ c.answer = TraitAnswer(c)
        /\ method # "last" => c.left = TraitLeft(c)
    <3>1. s \in Seq(Places)
      BY <1>3
    <3> HIDE DEF s
    <3> QED
      BY <1>6, <3>1, NthBackAsTrait
  <2>3. c.method = method /\ c.state = "done" /\ method \notin Closures
    BY DEF Closures, FromBack
  <2> HIDE DEF c
  <2>4. AsTrait(c)
    BY <2>2, <2>3 DEF AsTrait
  <2> QED
    BY <1>2, <2>1, <2>3, <2>4
<1>7. ASSUME NEW i \in Iterators, Length(i) PROVE CallInv'
  <2> DEFINE c == [method |-> "len", n |-> 0, start |-> rest[i], state |-> "done",
                   answer |-> Len(rest[i]), left |-> rest[i]]
  <2>1. call' = c
    BY <1>7 DEF Length, Answers
  <2>2. /\ c.method = "len" /\ c.start = rest[i] /\ c.answer = Len(rest[i])
        /\ c.left = rest[i] /\ c.state = "done"
    OBVIOUS
  <2> HIDE DEF c
  <2>3. TraitAnswer(c) = Len(rest[i])
    BY <2>2 DEF TraitAnswer
  <2>4. TraitLeft(c) = rest[i]
    BY <2>2 DEF TraitLeft, FromBack
  <2>5. AsTrait(c)
    BY <2>2, <2>3, <2>4 DEF AsTrait, Closures, FromBack
  <2> QED
    BY <1>2, <2>1, <2>2, <2>5
<1>8. ASSUME NEW i \in Iterators, NEW n \in Nat, NEW method \in {"next_back", "nth_back"},
             method # "nth_back" => n = 0, NthBack(i, method, n)
      PROVE  CallInv'
  BY <1>6, <1>8 DEF NthBack, Answers
<1>9. ASSUME NEW i \in Iterators, LastItem(i) PROVE CallInv'
  BY <1>6, <1>9 DEF LastItem, Answers
<1>10. ASSUME NEW i \in Iterators, NEW j \in Iterators,
              Iter(i) \/ Clone(i, j) \/ IntoInner(i) \/ Panic(i)
       PROVE  CallInv'
  BY <1>1, <1>10 DEF Iter, Clone, IntoInner, Panic
<1>11. 0 \in Nat /\ 0 .. MaxSkip \subseteq Nat
  OBVIOUS
<1> QED
  BY <1>4, <1>5, <1>7, <1>8, <1>9, <1>10, <1>11, BeginProgresses, AskProgresses, EndProgresses
     DEF SourcesNext

(***************************************************************************)
(* For any number of streams, any n, and whatever a closure says in turn:  *)
(* every method of the iterator answers what the trait says of it, asks    *)
(* its closure about the streams in the trait's order and about none after *)
(* the one that decides, and leaves what it should (the overrides of       *)
(* SelectedSourcesIter in crates/capture-linux/src/screen.rs).             *)
(***************************************************************************)
THEOREM AnswersHold == SourcesSpec => []AnswersAsTrait
<1>1. SourcesInit => CallInv
  BY DEF SourcesInit, NoCall, CallInv, AnswersAsTrait
<1>2. CallInv => AnswersAsTrait
  BY DEF CallInv
<1> QED
  BY <1>1, <1>2, SourcesInvStarts, SourcesInvStep, CallInvStep, PTL DEF SourcesSpec
=============================================================================

--------------------------- MODULE SelectedSources ---------------------------
(***************************************************************************)
(* The result of a screen cast and the iterators over its streams          *)
(* (SelectedSources and SelectedSourcesIter in                             *)
(* crates/capture-linux/src/screen.rs).  An iterator wraps a slice::Iter,  *)
(* hands every method on to one of that iterator's, and puts the remote's  *)
(* descriptor beside each stream that comes out.  A method that takes a    *)
(* closure is one step for each time the closure is called: it may answer  *)
(* either way, and it may panic.  Streams are their places in the slice;   *)
(* an Option is a sequence of at most one value.                           *)
(***************************************************************************)
EXTENDS Naturals, SequencesExt

CONSTANTS
  Remote,      (* The descriptor in SelectedSources::pipewire_remote.       *)
  Iterators,   (* The iterators that a caller may have at the same time.    *)
  MaxStreams,  (* Bound on the streams of a result.                         *)
  MaxSkip      (* Bound on the n of nth and nth_back.                       *)

VARIABLES
  streams,  (* SelectedSources::streams                                     *)
  live,     (* The iterators there are.                                     *)
  rest,     (* The streams left in the slice::Iter of each.                 *)
  front,    (* History: what was handed out from the front of each, of      *)
  back,     (* its back, and of the iterators that it is a clone of.        *)
  call      (* The last method called, in progress or done.                 *)

sourcesVars == <<streams, live, rest, front, back, call>>

-----------------------------------------------------------------------------
(* slice::Iter::nth and nth_back; next and next_back are those of 0. *)
SliceNth(s, n) ==
  IF n < Len(s)
  THEN [stream |-> <<s[n + 1]>>, rest |-> SubSeq(s, n + 2, Len(s))]
  ELSE [stream |-> <<>>, rest |-> <<>>]
SliceNthBack(s, n) ==
  IF n < Len(s)
  THEN [stream |-> <<s[Len(s) - n]>>, rest |-> SubSeq(s, 1, Len(s) - n - 1)]
  ELSE [stream |-> <<>>, rest |-> <<>>]

(* The methods that take a closure: those by value, those that start at    *)
(* the back, and what the closure answers when slice::Iter's stops early.  *)
ByValue == {"fold", "for_each", "rfold"}
FromBack == {"rfold", "rfind", "rposition"}
Closures ==
  {"fold", "for_each", "all", "any", "find", "find_map", "position"} \cup FromBack
StopsAt(method) ==
  IF method = "all" THEN {FALSE} ELSE IF method \in ByValue THEN {} ELSE {TRUE}

(* The closures that each method puts around its caller's. *)
SelectedSource(stream) == [pipewire_remote |-> Remote, stream |-> stream]
Items(s) == [k \in DOMAIN s |-> SelectedSource(s[k])]

-----------------------------------------------------------------------------
NoCall == [method |-> "none", state |-> "done"]

SourcesInit ==
  /\ \E n \in 0..MaxStreams : streams = [k \in 1..n |-> k]
  /\ live = {}
  /\ rest = [i \in Iterators |-> <<>>]
  /\ front = [i \in Iterators |-> <<>>]
  /\ back = [i \in Iterators |-> <<>>]
  /\ call = NoCall

(* SelectedSources::iter *)
Iter(i) ==
  /\ call.state = "done"
  /\ i \notin live
  /\ live' = live \cup {i}
  /\ rest' = [rest EXCEPT ![i] = streams]
  /\ call' = NoCall
  /\ UNCHANGED <<streams, front, back>>

(* Mutant: the clone starts over. *)
CloneAfresh(i, j) ==
  /\ call.state = "done"
  /\ i \in live /\ j \notin live
  /\ live' = live \cup {j}
  /\ rest' = [rest EXCEPT ![j] = streams]
  /\ front' = [front EXCEPT ![j] = front[i]]
  /\ back' = [back EXCEPT ![j] = back[i]]
  /\ call' = NoCall
  /\ UNCHANGED streams

(* SelectedSourcesIter::clone *)
Clone(i, j) ==
  /\ call.state = "done"
  /\ i \in live /\ j \notin live
  /\ live' = live \cup {j}
  /\ rest' = [rest EXCEPT ![j] = rest[i]]
  /\ front' = [front EXCEPT ![j] = front[i]]
  /\ back' = [back EXCEPT ![j] = back[i]]
  /\ call' = NoCall
  /\ UNCHANGED streams

Consume(i) ==
  /\ live' = live \ {i}
  /\ rest' = [rest EXCEPT ![i] = <<>>]
  /\ front' = [front EXCEPT ![i] = <<>>]
  /\ back' = [back EXCEPT ![i] = <<>>]

(* SelectedSourcesIter::into_inner, and the end of an iterator's life. *)
IntoInner(i) ==
  /\ call.state = "done"
  /\ i \in live
  /\ Consume(i)
  /\ call' = NoCall
  /\ UNCHANGED streams

-----------------------------------------------------------------------------
(* A method without a closure has answered. *)
Answers(method, n, i, answer, left) ==
  call' = [method |-> method, n |-> n, start |-> rest[i], state |-> "done",
           answer |-> answer, left |-> left]

(* SelectedSourcesIter::next and nth *)
Nth(i, method, n) ==
  LET taken == SliceNth(rest[i], n) IN
  /\ call.state = "done"
  /\ i \in live
  /\ rest' = [rest EXCEPT ![i] = taken.rest]
  /\ front' = [front EXCEPT ![i] = @ \o Items(taken.stream)]
  /\ Answers(method, n, i, Items(taken.stream), taken.rest)
  /\ UNCHANGED <<streams, live, back>>

(* Mutant: nth_back goes on to nth. *)
NthBackByNth(i, method, n) ==
  LET taken == SliceNth(rest[i], n) IN
  /\ call.state = "done"
  /\ i \in live
  /\ rest' = [rest EXCEPT ![i] = taken.rest]
  /\ front' = [front EXCEPT ![i] = @ \o Items(taken.stream)]
  /\ Answers(method, n, i, Items(taken.stream), taken.rest)
  /\ UNCHANGED <<streams, live, back>>

(* SelectedSourcesIter::next_back and nth_back *)
NthBack(i, method, n) ==
  LET taken == SliceNthBack(rest[i], n) IN
  /\ call.state = "done"
  /\ i \in live
  /\ rest' = [rest EXCEPT ![i] = taken.rest]
  /\ back' = [back EXCEPT ![i] = @ \o Items(taken.stream)]
  /\ Answers(method, n, i, Items(taken.stream), taken.rest)
  /\ UNCHANGED <<streams, live, front>>

(* SelectedSourcesIter::last, which takes the iterator and asks its back.  *)
LastItem(i) ==
  LET taken == SliceNthBack(rest[i], 0) IN
  /\ call.state = "done"
  /\ i \in live
  /\ Consume(i)
  /\ Answers("last", 0, i, Items(taken.stream), taken.rest)
  /\ UNCHANGED streams

(* SelectedSourcesIter::len and size_hint *)
Length(i) ==
  /\ call.state = "done"
  /\ i \in live
  /\ Answers("len", 0, i, Len(rest[i]), rest[i])
  /\ UNCHANGED <<streams, live, rest, front, back>>

(* A method that takes a closure begins. *)
Begin(i, method) ==
  /\ call.state = "done"
  /\ i \in live
  /\ call' = [method |-> method, start |-> rest[i], state |-> "running", by |-> i,
              asked |-> <<>>, told |-> <<>>]
  /\ UNCHANGED <<streams, live, rest, front, back>>

(* The closure is called with the next stream: taken is what slice::Iter   *)
(* took from the end it works at.                                          *)
Handed(i, taken) ==
  /\ rest' = [rest EXCEPT ![i] = taken.rest]
  /\ IF call.method \in FromBack
     THEN back' = [back EXCEPT ![i] = @ \o Items(taken.stream)] /\ UNCHANGED front
     ELSE front' = [front EXCEPT ![i] = @ \o Items(taken.stream)] /\ UNCHANGED back
  /\ UNCHANGED <<streams, live>>

(* What a method answers that stopped at the stream that was asked last.   *)
StopAnswer(item, left) ==
  CASE call.method = "all" -> FALSE
    [] call.method = "any" -> TRUE
    [] call.method = "position" -> <<Len(call.asked)>>
    [] call.method = "rposition" -> <<Len(left)>>
    [] OTHER -> item

(* What a method answers that came to the other end. *)
EndAnswer ==
  CASE call.method = "all" -> TRUE
    [] call.method = "any" -> FALSE
    [] call.method \in ByValue -> call.asked
    [] OTHER -> <<>>

(* The closure answers. *)
Ask(i) ==
  LET taken == IF call.method \in FromBack
               THEN SliceNthBack(rest[i], 0) ELSE SliceNth(rest[i], 0)
      item == Items(taken.stream)
  IN
  /\ call.state = "running" /\ call.by = i
  /\ rest[i] # <<>>
  /\ Handed(i, taken)
  /\ \E told \in BOOLEAN :
       LET asked == [call EXCEPT !.asked = @ \o item, !.told = Append(@, told)] IN
       /\ call.method \in ByValue => told
       /\ call' = IF told \in StopsAt(call.method)
                  THEN [method |-> call.method, start |-> call.start, state |-> "done",
                        asked |-> asked.asked, told |-> asked.told,
                        answer |-> StopAnswer(item, taken.rest), left |-> taken.rest]
                  ELSE asked

(* The closure panics: an iterator that was lent stays, and a stream that  *)
(* the closure had is gone from it.                                        *)
Panic(i) ==
  LET taken == IF call.method \in FromBack
               THEN SliceNthBack(rest[i], 0) ELSE SliceNth(rest[i], 0)
  IN
  /\ call.state = "running" /\ call.by = i
  /\ rest[i] # <<>>
  /\ IF call.method \in ByValue THEN Consume(i) /\ UNCHANGED streams
                                ELSE Handed(i, taken)
  /\ call' = NoCall

(* No stream is left. *)
End(i) ==
  /\ call.state = "running" /\ call.by = i
  /\ rest[i] = <<>>
  /\ call' = [method |-> call.method, start |-> call.start, state |-> "done",
              asked |-> call.asked, told |-> call.told,
              answer |-> EndAnswer, left |-> <<>>]
  /\ IF call.method \in ByValue THEN Consume(i)
                                ELSE UNCHANGED <<live, rest, front, back>>
  /\ UNCHANGED streams

SourcesNext ==
  \E i \in Iterators :
    \/ Iter(i)
    \/ \E j \in Iterators : Clone(i, j)
    \/ IntoInner(i)
    \/ Nth(i, "next", 0) \/ NthBack(i, "next_back", 0)
    \/ \E n \in 0..MaxSkip : Nth(i, "nth", n) \/ NthBack(i, "nth_back", n)
    \/ LastItem(i) \/ Length(i)
    \/ \E method \in Closures : Begin(i, method)
    \/ Ask(i) \/ Panic(i) \/ End(i)

SourcesSpec == SourcesInit /\ [][SourcesNext]_sourcesVars

-----------------------------------------------------------------------------
(* What the trait says of each method, of the sequence it was called on    *)
(* and of what the closure answered in turn.                               *)
Picks(s, k) == IF k \in 1..Len(s) THEN <<SelectedSource(s[k])>> ELSE <<>>

TraitAnswer(c) ==
  LET len == Len(c.start) IN
  CASE c.method = "next" -> Picks(c.start, 1)
    [] c.method = "next_back" -> Picks(c.start, len)
    [] c.method = "nth" -> Picks(c.start, c.n + 1)
    [] c.method = "nth_back" -> IF c.n < len THEN Picks(c.start, len - c.n) ELSE <<>>
    [] c.method = "last" -> Picks(c.start, len)
    [] c.method = "len" -> len
    [] c.method = "all" -> \A k \in DOMAIN c.told : c.told[k]
    [] c.method = "any" -> \E k \in DOMAIN c.told : c.told[k]
    [] c.method \in {"find", "find_map"} ->
         IF TRUE \in Range(c.told) THEN Picks(c.start, Len(c.told)) ELSE <<>>
    [] c.method = "rfind" ->
         IF TRUE \in Range(c.told) THEN Picks(c.start, len + 1 - Len(c.told)) ELSE <<>>
    [] c.method = "position" ->
         IF TRUE \in Range(c.told) THEN <<Len(c.told) - 1>> ELSE <<>>
    [] c.method = "rposition" ->
         IF TRUE \in Range(c.told) THEN <<len - Len(c.told)>> ELSE <<>>
    [] c.method \in {"fold", "for_each"} -> Items(c.start)
    [] c.method = "rfold" -> Items(Reverse(c.start))

(* The streams that a method leaves in an iterator it was only lent. *)
TraitLeft(c) ==
  LET len == Len(c.start) IN
  CASE c.method \in {"next", "nth"} -> SubSeq(c.start, c.n + 2, len)
    [] c.method \in {"next_back", "nth_back"} ->
         IF c.n < len THEN SubSeq(c.start, 1, len - c.n - 1) ELSE <<>>
    [] c.method = "len" -> c.start
    [] c.method \in FromBack -> SubSeq(c.start, 1, len - Len(c.told))
    [] OTHER -> SubSeq(c.start, Len(c.told) + 1, len)

(* Every method that the iterator takes over answers what the trait says   *)
(* of it, asks its closure about the streams in the order the trait says   *)
(* and about none after the one that decides, and leaves what it should:   *)
(* an override that goes on to the wrong method of the slice does not.     *)
AnswersAsTrait ==
  LET c == call IN
  c # NoCall /\ c.state = "done" =>
    /\ c.answer = TraitAnswer(c)
    /\ c.method \notin ByValue \cup {"last"} => c.left = TraitLeft(c)
    /\ c.method \in Closures =>
         /\ c.asked = SubSeq(Items(IF c.method \in FromBack THEN Reverse(c.start) ELSE c.start),
                             1, Len(c.told))
         /\ \A k \in 1..(Len(c.told) - 1) : c.told[k] \notin StopsAt(c.method)
         /\ \/ c.told # <<>> /\ Last(c.told) \in StopsAt(c.method)
            \/ Len(c.told) = Len(c.start)

(* However the methods of an iterator and of its clones are mixed, from    *)
(* both ends, and whatever closures panic in between: one iterator, with   *)
(* the one it is a clone of, hands out no stream twice, those from the     *)
(* front in the order of the portal's answer and those from the back       *)
(* against it, none that is still to come, and with the result's remote.   *)
HandedOutOnce ==
  \A i \in live :
    LET order == [k \in DOMAIN front[i] |-> front[i][k].stream] \o rest[i]
                   \o Reverse([k \in DOMAIN back[i] |-> back[i][k].stream])
    IN /\ \A k \in 1..(Len(order) - 1) : order[k] < order[k + 1]
       /\ \A item \in Range(front[i] \o back[i]) : item = SelectedSource(streams[item.stream])
=============================================================================

---------------------------- MODULE ErrnoProofs ----------------------------
(***************************************************************************)
(* For every size of the buffers and every message: no byte is read that   *)
(* was not written, and no write is out of bounds.                         *)
(***************************************************************************)
EXTENDS Errno, SequenceTheorems, WellFoundedInduction, TLAPS

Text == Letters \cup {"bad"}

(* What the steps hand on to each other: strerror_r left the message in    *)
(* the buffer, terminated, and a chunk ends where its malformed part is.   *)
StepInv ==
  /\ rest \in Seq(Text)
  /\ pc = "chunks" => /\ Len(message) < Size
                      /\ \A i \in 1 .. Len(message) : buffer[i] = message[i]
                      /\ buffer[Len(message) + 1] = "nul"
  /\ pc = "substitute" => rest # <<>>

IInv == TypeOK /\ StepInv /\ OnlyInitialised

(* A message holds nothing but text. *)
LEMMA MessageText == TypeOK => message \in Seq(Text)
<1>1. <<>> \in Seq(Text)
  OBVIOUS
<1>2. Messages \subseteq Seq(Text)
  BY ErrnoAssumption DEF Text
<1> QED
  BY <1>1, <1>2 DEF TypeOK

(* CStr::count_bytes finds the length of the message. *)
LEMMA CountsMessage ==
  ASSUME IInv, pc = "chunks"
  PROVE  CountBytes = Len(message) /\ SubSeq(buffer, 1, CountBytes) = message
<1>1. message \in Seq(Text) /\ Len(message) \in Nat
  BY MessageText DEF IInv
<1>2. \A i \in 1 .. Len(message) : buffer[i] # "nul"
  BY <1>1, ErrnoAssumption DEF IInv, StepInv, Text
<1>3. Len(message) < Size /\ buffer[Len(message) + 1] = "nul"
  BY DEF IInv, StepInv
<1> DEFINE P(n) == /\ n + 1 \in {i \in 1 .. Size : buffer[i] = "nul"}
                   /\ \A i \in 1 .. n : buffer[i] # "nul"
<1>4. Size \in Nat
  BY ErrnoAssumption
<1>5. Len(message) \in 0 .. Size /\ P(Len(message))
  BY <1>1, <1>2, <1>3, <1>4
<1>6. ASSUME NEW n \in 0 .. Size, P(n) PROVE n = Len(message)
  <2>1. ~(n < Len(message))
    <3> SUFFICES ASSUME n < Len(message) PROVE FALSE
      OBVIOUS
    <3>1. n + 1 \in 1 .. Len(message)
      BY <1>1, <1>4
    <3> QED
      BY <3>1, <1>2, <1>6
  <2>2. ~(Len(message) < n)
    <3> SUFFICES ASSUME Len(message) < n PROVE FALSE
      OBVIOUS
    <3>1. Len(message) + 1 \in 1 .. n
      BY <1>1, <1>4
    <3> QED
      BY <3>1, <1>3, <1>6
  <2> QED
    BY <2>1, <2>2, <1>1, <1>4
<1>7. CountBytes = CHOOSE n \in 0 .. Size : P(n)
  BY DEF CountBytes
<1> HIDE DEF P
<1>8. CountBytes = Len(message)
  BY <1>5, <1>6, <1>7
<1>9. SubSeq(buffer, 1, Len(message)) = message
  <2>1. buffer \in [1 .. Size -> Bytes] /\ \A i \in 1 .. Len(message) : buffer[i] = message[i]
    BY DEF IInv, TypeOK, StepInv
  <2>2. \A i \in 1 .. Len(message) : buffer[i] \in Text
    BY <2>1, <1>1
  <2>3. /\ SubSeq(buffer, 1, Len(message)) \in Seq(Text)
        /\ Len(SubSeq(buffer, 1, Len(message))) = Len(message)
        /\ \A i \in 1 .. Len(message) : SubSeq(buffer, 1, Len(message))[i] = buffer[i]
    BY <1>1, <2>2, SubSeqProperties
  <2> QED
    BY <1>1, <2>1, <2>3, SeqEqual
<1> QED
  BY <1>8, <1>9

(* A write within the scratch buffer extends what is initialised of it. *)
LEMMA WriteExtends ==
  ASSUME IInv, NEW bytes \in Seq(Letters \cup {"sub"}),
         index + Len(bytes) <= Size, Write(bytes)
  PROVE  /\ scratch' \in [1 .. Size -> Bytes]
         /\ index' \in 0 .. Size
         /\ \A i \in 1 .. index' : scratch'[i] \in Letters \cup {"sub"}
<1>1. Len(bytes) \in Nat /\ index \in 0 .. Size /\ Size \in Nat
  BY ErrnoAssumption DEF IInv, TypeOK
<1>2. index' = index + Len(bytes) /\ index' \in 0 .. Size
  BY <1>1 DEF Write
<1>3. \A i \in 1 .. Size :
        scratch'[i] = IF i \in (index + 1) .. (index + Len(bytes)) THEN bytes[i - index]
                      ELSE scratch[i]
  BY DEF Write
<1>4. \A i \in (index + 1) .. (index + Len(bytes)) : bytes[i - index] \in Letters \cup {"sub"}
  <2> TAKE i \in (index + 1) .. (index + Len(bytes))
  <2>1. i - index \in 1 .. Len(bytes)
    BY <1>1
  <2> QED
    BY <2>1, ElementOfSeq
<1>5. \A i \in 1 .. index : scratch[i] \in Letters \cup {"sub"}
  BY DEF IInv, OnlyInitialised
<1>6. \A i \in 1 .. index' : scratch'[i] \in Letters \cup {"sub"}
  <2> TAKE i \in 1 .. index'
  <2>1. i \in 1 .. Size /\ i \in Nat
    BY <1>1, <1>2
  <2>2. CASE i <= index
    <3>1. i \in 1 .. index /\ i \notin (index + 1) .. (index + Len(bytes))
      BY <1>1, <2>1, <2>2
    <3> QED
      BY <1>3, <1>5, <2>1, <3>1
  <2>3. CASE ~(i <= index)
    <3>1. i \in (index + 1) .. (index + Len(bytes))
      BY <1>1, <1>2, <2>1, <2>3
    <3> QED
      BY <1>3, <1>4, <2>1, <3>1
  <2> QED
    BY <2>2, <2>3
<1>7. \A i \in 1 .. Size : scratch'[i] \in Bytes
  BY <1>3, <1>4 DEF IInv, TypeOK, Bytes
<1>8. scratch' \in [1 .. Size -> Bytes]
  BY <1>7 DEF Write
<1> QED
  BY <1>2, <1>6, <1>8

(* A step out of the loop: nothing but the answer changes. *)
LEMMA OutOfRangeKeeps ==
  ASSUME IInv, pc \in {"valid", "substitute"}, OutOfRange,
         UNCHANGED <<message, said, errno, buffer, shown>>
  PROVE  IInv'
  BY DEF IInv, TypeOK, StepInv, OnlyInitialised, OutOfRange, Errors

(* What is written of the buffer: nothing in it stays uninitialised. *)
LEMMA WrittenInitialised ==
  ASSUME IInv, pc = "strerror"
  PROVE  /\ Written \in [1 .. Size -> Bytes]
         /\ \A i \in 1 .. Size : Written[i] # "uninit"
<1>1. message \in Seq(Text)
  BY MessageText DEF IInv
<1>2. \A i \in 1 .. Len(message) : message[i] \in Bytes \ {"uninit"}
  BY <1>1, ErrnoAssumption DEF Text, Bytes
<1>3. \A i \in 1 .. Size : buffer[i] \in Bytes \ {"uninit"}
  BY DEF IInv, TypeOK, OnlyInitialised
<1>4. ASSUME NEW i \in 1 .. Size PROVE Written[i] \in Bytes \ {"uninit"}
  <2>1. i <= Len(message) => message[i] \in Bytes \ {"uninit"}
    BY <1>1, <1>2
  <2> QED
    BY <1>3, <2>1 DEF Written, Bytes
<1>5. Written \in [1 .. Size -> Bytes]
  BY <1>4 DEF Written
<1> QED
  BY <1>4, <1>5

(* The invariant is inductive.  Only StepInv needs more than its own step: *)
(* strerror_r's message is in the buffer when the chunks are taken.        *)
LEMMA IInvInductive == IInv /\ [Next]_vars => IInv'
<1> SUFFICES ASSUME IInv, [Next]_vars PROVE IInv'
  OBVIOUS
<1> USE DEF IInv, TypeOK, StepInv, OnlyInitialised
<1>1. CASE OtherCall
  BY <1>1 DEF OtherCall
<1>2. CASE Call
  BY <1>2 DEF Call
<1>3. CASE Return
  <2>1. Uninit \in [1 .. Size -> Bytes]
    BY DEF Uninit, Bytes
  <2>2. <<>> \in Seq(Text) /\ <<>> \in Seq(Bytes)
    OBVIOUS
  <2> QED
    BY <1>3, <2>1, <2>2, ErrnoAssumption DEF Return
<1>4. CASE Fill
  BY <1>4 DEF Fill, Bytes
<1>5. CASE StrerrorOk
  <2>1. /\ buffer' = Written /\ Len(message) < Size
        /\ UNCHANGED <<message, rest, scratch, index>>
    BY <1>5 DEF StrerrorOk
  <2>2. \A i \in 1 .. Size : buffer'[i] # "uninit"
    BY <1>5, <2>1, WrittenInitialised DEF StrerrorOk
  <2>3. Len(message) \in Nat /\ Size \in Nat
    BY MessageText, ErrnoAssumption
  <2>4. /\ \A i \in 1 .. Len(message) : buffer'[i] = message[i]
        /\ buffer'[Len(message) + 1] = "nul"
    BY <2>1, <2>3 DEF Written
  <2> QED
    BY <1>5, <2>1, <2>2, <2>4, WrittenInitialised DEF StrerrorOk
<1>6. CASE StrerrorFails
  <2>1. /\ pc = "strerror" /\ pc' = "done" /\ buffer' = Written
        /\ said' \in Errors /\ errno' \in Errors /\ result' \in Errors
        /\ UNCHANGED <<message, rest, scratch, index, shown>>
    BY <1>6 DEF StrerrorFails, StrerrorSays
  <2> QED
    BY <2>1, WrittenInitialised
<1>7. CASE Chunks
  <2>1. SubSeq(buffer, 1, CountBytes) = message
    BY <1>7, CountsMessage DEF Chunks
  <2>2. message \in Seq(Text) /\ message \in Seq(Bytes)
    <3>1. Text \subseteq Bytes
      BY DEF Text, Bytes
    <3> QED
      BY <3>1, MessageText, SeqMonotonic
  <2> QED
    BY <1>7, <2>1, <2>2 DEF Chunks, Answer
<1>8. CASE WriteValid
  <2>1. PICK n \in 0 .. Len(rest) :
          /\ IsValid(n)
          /\ IF index + n > Size THEN OutOfRange
             ELSE /\ Write(SubSeq(rest, 1, n))
                  /\ rest' = SubSeq(rest, n + 1, Len(rest))
                  /\ pc' = IF n = Len(rest) THEN "finish" ELSE "substitute"
                  /\ UNCHANGED result
    BY <1>8 DEF WriteValid
  <2>2. UNCHANGED <<message, said, errno, buffer, shown>>
    BY <1>8 DEF WriteValid
  <2>3. CASE index + n > Size
    BY <1>8, <2>1, <2>2, <2>3, OutOfRangeKeeps DEF WriteValid
  <2>4. CASE index + n <= Size
    <3> DEFINE bytes == SubSeq(rest, 1, n)
    <3>1. ~(index + n > Size) /\ Len(rest) \in Nat
      BY <2>4, ErrnoAssumption
    <3>2. \A i \in 1 .. n : rest[i] \in Letters \cup {"sub"}
      BY <2>1 DEF IsValid, Text
    <3>3. bytes \in Seq(Letters \cup {"sub"}) /\ Len(bytes) = n
      BY <3>1, <3>2, SubSeqProperties
    <3>4. Write(bytes) /\ rest' = SubSeq(rest, n + 1, Len(rest))
      BY <2>1, <3>1
    <3> HIDE DEF bytes
    <3>5. /\ scratch' \in [1 .. Size -> Bytes] /\ index' \in 0 .. Size
          /\ \A i \in 1 .. index' : scratch'[i] \in Letters \cup {"sub"}
      BY <2>4, <3>3, <3>4, WriteExtends
    <3>6. \A i \in (n + 1) .. Len(rest) : rest[i] \in Text
      BY <3>1
    <3>7. rest' \in Seq(Text) /\ Len(rest') = Len(rest) - n
      BY <3>1, <3>4, <3>6, SubSeqProperties
    <3>8. rest' \in Seq(Bytes)
      <4>1. Text \subseteq Bytes
        BY DEF Text, Bytes
      <4> QED
        BY <3>7, <4>1, SeqMonotonic
    <3>9. pc' \in {"finish", "substitute"} /\ (pc' = "substitute" => rest' # <<>>)
      BY <2>1, <3>1, <3>7
    <3> QED
      BY <2>1, <2>2, <3>1, <3>5, <3>7, <3>8, <3>9, <1>8 DEF WriteValid
  <2> QED
    BY <2>3, <2>4, ErrnoAssumption
<1>9. CASE Substitute
  <2>1. CASE index + Len(Replacement) > Size
    BY <1>9, <2>1, OutOfRangeKeeps DEF Substitute
  <2>2. CASE index + Len(Replacement) <= Size
    <3>1. ~(index + Len(Replacement) > Size)
      BY <2>2, ErrnoAssumption DEF Replacement
    <3>2. Replacement \in Seq(Letters \cup {"sub"})
      BY DEF Replacement
    <3>3. Write(Replacement) /\ rest' = Tail(rest) /\ UNCHANGED result
      BY <1>9, <3>1 DEF Substitute
    <3>4. /\ scratch' \in [1 .. Size -> Bytes] /\ index' \in 0 .. Size
          /\ \A i \in 1 .. index' : scratch'[i] \in Letters \cup {"sub"}
      BY <2>2, <3>2, <3>3, WriteExtends
    <3>5. rest' \in Seq(Text) /\ rest' \in Seq(Bytes)
      BY <1>9, <3>3, HeadTailProperties DEF Substitute
    <3>6. /\ pc' \in {"finish", "valid"}
          /\ UNCHANGED <<message, said, errno, buffer, shown>>
      BY <1>9, <3>1 DEF Substitute
    <3> QED
      BY <1>9, <3>3, <3>4, <3>5, <3>6 DEF Substitute
  <2> QED
    BY <2>1, <2>2, ErrnoAssumption DEF Replacement
<1>10. CASE Finish
  <2>1. \A i \in 1 .. index : scratch[i] \in Bytes
    BY ErrnoAssumption
  <2>2. SubSeq(scratch, 1, index) \in Seq(Bytes)
    BY <2>1, SubSeqProperties
  <2> QED
    BY <1>10, <2>2 DEF Finish, Answer
<1>11. CASE UNCHANGED vars
  BY <1>11 DEF vars
<1> QED
  BY <1>1, <1>2, <1>3, <1>4, <1>5, <1>6, <1>7, <1>8, <1>9, <1>10, <1>11 DEF Next

THEOREM IInvHolds == Spec => []IInv
<1>1. Init => IInv
  <2>1. Uninit \in [1 .. Size -> Bytes]
    BY DEF Uninit, Bytes
  <2> QED
    BY <2>1, ErrnoAssumption DEF Init, IInv, TypeOK, StepInv, OnlyInitialised, Errors
<1> QED
  BY <1>1, IInvInductive, PTL DEF Spec

(* No write leaves the scratch buffer (format_message). *)
THEOREM TypeHolds == Spec => []TypeOK
  BY IInvHolds, PTL DEF IInv

(* Every byte that is taken for written was, and what is taken for UTF-8   *)
(* has no malformed part (write_message, format_message).                  *)
THEOREM InitialisedHolds == Spec => []OnlyInitialised
  BY IInvHolds, PTL DEF IInv

-----------------------------------------------------------------------------
(***************************************************************************)
(* What Lossy answers.  FlattenSeq takes it from a recursive function that *)
(* is chosen; the function is there, and is the only one, because a least  *)
(* place at which this were wrong does not exist.                          *)
(***************************************************************************)
(* Every set of naturals but the empty one has a least element. *)
LEMMA LeastElement ==
  ASSUME NEW S, S \subseteq Nat, S # {}
  PROVE  \E m \in S : \A k \in S : m <= k
<1>1. PICK m \in S : \A k \in S : ~ (<<k, m>> \in OpToRel(<, Nat))
  <2>1. IsWellFoundedOn(OpToRel(<, Nat), Nat)
    BY NatLessThanWellFounded
  <2> QED
    BY <2>1, WFMin
<1>2. \A k \in S : ~ (k < m)
  BY <1>1, Zenon DEF OpToRel
<1> QED
  BY <1>2

(* f[i] is the first i sequences in one. *)
Flattens(seqs, n, f) ==
  f = [i \in 1 .. n |-> IF i = 1 THEN seqs[i] ELSE f[i - 1] \o seqs[i]]

LEMMA FlattensExists ==
  ASSUME NEW seqs, NEW n \in Nat
  PROVE  \E f : Flattens(seqs, n, f)
<1> DEFINE Bad == {m \in Nat : ~ \E f : Flattens(seqs, m, f)}
<1> SUFFICES ASSUME Bad # {} PROVE FALSE
  OBVIOUS
<1>1. Bad \subseteq Nat
  OBVIOUS
<1> HIDE DEF Bad
<1>2. PICK m \in Bad : \A k \in Bad : m <= k
  BY <1>1, LeastElement
<1>3. m \in Nat /\ ~ \E f : Flattens(seqs, m, f)
  BY <1>2 DEF Bad
<1>4. m # 0
  <2>1. [i \in 1 .. 0 |-> seqs[i]] =
          [i \in 1 .. 0 |-> IF i = 1 THEN seqs[i]
                            ELSE [j \in 1 .. 0 |-> seqs[j]][i - 1] \o seqs[i]]
    OBVIOUS
  <2>2. Flattens(seqs, 0, [i \in 1 .. 0 |-> seqs[i]])
    BY <2>1 DEF Flattens
  <2> QED
    BY <1>3, <2>2
<1>5. m - 1 \in Nat /\ m - 1 \notin Bad
  BY <1>2, <1>3, <1>4
<1>6. PICK f : Flattens(seqs, m - 1, f)
  BY <1>5 DEF Bad
<1> DEFINE g == [i \in 1 .. m |-> IF i = 1 THEN seqs[i] ELSE f[i - 1] \o seqs[i]]
<1>7. \A i \in 1 .. (m - 1) : f[i] = IF i = 1 THEN seqs[i] ELSE f[i - 1] \o seqs[i]
  BY <1>6 DEF Flattens
<1>8. \A i \in 1 .. m : i # 1 => g[i - 1] = f[i - 1]
  <2> SUFFICES ASSUME NEW i \in 1 .. m, i # 1 PROVE g[i - 1] = f[i - 1]
    OBVIOUS
  <2>1. i - 1 \in 1 .. (m - 1) /\ i - 1 \in 1 .. m
    BY <1>3
  <2> QED
    BY <1>7, <2>1
<1>9. g = [i \in 1 .. m |-> IF i = 1 THEN seqs[i] ELSE g[i - 1] \o seqs[i]]
  BY <1>8
<1>10. Flattens(seqs, m, g)
  BY <1>9 DEF Flattens
<1> QED
  BY <1>3, <1>10

(* Two that agree on the sequences agree. *)
LEMMA FlattensOnce ==
  \A n, l \in Nat : \A seqs, more, f, g :
    /\ n <= l
    /\ \A i \in 1 .. n : seqs[i] = more[i]
    /\ Flattens(seqs, n, f) /\ Flattens(more, l, g)
    => \A i \in 1 .. n : f[i] = g[i]
<1> SUFFICES ASSUME NEW n \in Nat, NEW l \in Nat, NEW seqs, NEW more, NEW f, NEW g,
                    n <= l,
                    \A i \in 1 .. n : seqs[i] = more[i],
                    Flattens(seqs, n, f), Flattens(more, l, g)
             PROVE  \A i \in 1 .. n : f[i] = g[i]
  OBVIOUS
<1> DEFINE Bad == {i \in 1 .. n : f[i] # g[i]}
<1> SUFFICES ASSUME Bad # {} PROVE FALSE
  OBVIOUS
<1>1. Bad \subseteq Nat
  OBVIOUS
<1> HIDE DEF Bad
<1>2. PICK m \in Bad : \A k \in Bad : m <= k
  BY <1>1, LeastElement
<1>3. m \in 1 .. n /\ m \in 1 .. l /\ f[m] # g[m] /\ seqs[m] = more[m]
  BY <1>2 DEF Bad
<1>4. f[m] = IF m = 1 THEN seqs[m] ELSE f[m - 1] \o seqs[m]
  BY <1>3 DEF Flattens
<1>5. g[m] = IF m = 1 THEN more[m] ELSE g[m - 1] \o more[m]
  BY <1>3 DEF Flattens
<1>6. m # 1
  BY <1>3, <1>4, <1>5
<1>7. m - 1 \in 1 .. n /\ m - 1 \notin Bad
  BY <1>2, <1>3, <1>6
<1>8. f[m - 1] = g[m - 1]
  BY <1>7 DEF Bad
<1> QED
  BY <1>3, <1>4, <1>5, <1>8

LEMMA FlattenSeqIs ==
  ASSUME NEW seqs, Len(seqs) \in Nat \ {0}
  PROVE  \E f : Flattens(seqs, Len(seqs), f) /\ FlattenSeq(seqs) = f[Len(seqs)]
<1> DEFINE h == CHOOSE f : Flattens(seqs, Len(seqs), f)
<1>1. Flattens(seqs, Len(seqs), h)
  BY FlattensExists
<1>2. FlattenSeq(seqs) = h[Len(seqs)]
  BY DEF FlattenSeq, Flattens
<1> QED
  BY <1>1, <1>2

(* One sequence more, at the end. *)
LEMMA FlattenAppend ==
  ASSUME NEW S, NEW seqs \in Seq(Seq(S)), NEW last \in Seq(S)
  PROVE  /\ FlattenSeq(<<>>) = <<>>
         /\ FlattenSeq(Append(seqs, last)) = FlattenSeq(seqs) \o last
<1> DEFINE n == Len(seqs)
           more == Append(seqs, last)
<1>1. FlattenSeq(<<>>) = <<>>
  BY EmptySeq DEF FlattenSeq
<1>2. /\ n \in Nat /\ Len(more) = n + 1 /\ more[n + 1] = last
      /\ \A i \in 1 .. n : seqs[i] = more[i]
  BY AppendProperties, LenProperties
<1> HIDE DEF more
<1>3. PICK g : Flattens(more, n + 1, g) /\ FlattenSeq(more) = g[n + 1]
  BY <1>2, FlattenSeqIs
<1>4. g[n + 1] = IF n + 1 = 1 THEN more[n + 1] ELSE g[(n + 1) - 1] \o more[n + 1]
  <2>1. n + 1 \in 1 .. (n + 1)
    BY <1>2
  <2> HIDE DEF n
  <2> QED
    BY <1>3, <2>1 DEF Flattens
<1>5. CASE n = 0
  <2>1. seqs = <<>>
    BY <1>5, EmptySeq
  <2>2. FlattenSeq(more) = last
    BY <1>2, <1>3, <1>4, <1>5
  <2> QED
    BY <1>1, <2>1, <2>2, ConcatEmptySeq DEF more
<1>6. CASE n # 0
  <2>1. PICK f : Flattens(seqs, n, f) /\ FlattenSeq(seqs) = f[n]
    BY <1>2, <1>6, FlattenSeqIs
  <2>2. \A i \in 1 .. n : f[i] = g[i]
    <3> DEFINE l == n + 1
    <3>1. l \in Nat /\ n <= l /\ n \in Nat
      BY <1>2
    <3>2. \A i \in 1 .. n : seqs[i] = more[i]
      BY <1>2
    <3>3. Flattens(more, l, g) /\ Flattens(seqs, n, f)
      BY <1>3, <2>1
    <3> HIDE DEF n, l
    <3> QED
      BY <3>1, <3>2, <3>3, FlattensOnce
  <2>3. n \in 1 .. n /\ (n + 1) - 1 = n /\ n + 1 # 1
    BY <1>2, <1>6
  <2> HIDE DEF n
  <2> QED
    BY <1>1, <1>2, <1>3, <1>4, <2>1, <2>2, <2>3 DEF more
<1> QED
  BY <1>5, <1>6

Utf8 == Letters \cup {"sub"}

(* What is shown of one byte, or of one malformed part. *)
Piece(byte) == IF byte = "bad" THEN Replacement ELSE <<byte>>

LEMMA PieceType == \A byte \in Text : Piece(byte) \in Seq(Utf8)
<1> SUFFICES ASSUME NEW byte \in Text PROVE Piece(byte) \in Seq(Utf8)
  OBVIOUS
<1>1. CASE byte = "bad"
  BY <1>1 DEF Piece, Replacement, Utf8
<1>2. CASE byte # "bad"
  <2>1. byte \in Utf8 /\ Piece(byte) = <<byte>>
    BY <1>2 DEF Text, Piece, Utf8
  <2> QED
    BY <2>1
<1> QED
  BY <1>1, <1>2

LEMMA LossyAppend ==
  ASSUME NEW string \in Seq(Text), NEW byte \in Text
  PROVE  /\ Lossy(<<>>) = <<>>
         /\ Lossy(Append(string, byte)) = Lossy(string) \o Piece(byte)
<1> DEFINE Pieces(s) == [i \in 1 .. Len(s) |-> Piece(s[i])]
           n == Len(string)
           more == Append(string, byte)
<1>1. \A s : Lossy(s) = FlattenSeq(Pieces(s))
  BY DEF Lossy, Piece
<1>2. \A s \in Seq(Text) : Pieces(s) \in Seq(Seq(Utf8)) /\ Len(Pieces(s)) = Len(s)
  <2> SUFFICES ASSUME NEW s \in Seq(Text)
               PROVE  Pieces(s) \in Seq(Seq(Utf8)) /\ Len(Pieces(s)) = Len(s)
    OBVIOUS
  <2>1. Len(s) \in Nat /\ \A i \in 1 .. Len(s) : Piece(s[i]) \in Seq(Utf8)
    BY PieceType, ElementOfSeq, LenProperties
  <2> QED
    BY <2>1
<1>3. /\ more \in Seq(Text) /\ n \in Nat /\ Len(more) = n + 1 /\ more[n + 1] = byte
      /\ \A i \in 1 .. n : more[i] = string[i]
  BY AppendProperties, LenProperties
<1> HIDE DEF more
<1>4. Pieces(more) = Append(Pieces(string), Piece(byte))
  <2> DEFINE p == Pieces(string)
             q == Pieces(more)
             e == Append(p, Piece(byte))
  <2>1. /\ p \in Seq(Seq(Utf8)) /\ Len(p) = n
        /\ q \in Seq(Seq(Utf8)) /\ Len(q) = n + 1
    BY <1>2, <1>3
  <2>2. \A i \in 1 .. n : p[i] = Piece(string[i])
    OBVIOUS
  <2>3. \A i \in 1 .. (n + 1) : q[i] = Piece(more[i])
    BY <1>3
  <2> HIDE DEF p, q, n
  <2>4. /\ e \in Seq(Seq(Utf8)) /\ Len(e) = n + 1 /\ e[n + 1] = Piece(byte)
        /\ \A i \in 1 .. n : e[i] = p[i]
    BY <2>1, PieceType, AppendProperties
  <2> HIDE DEF e
  <2>5. \A i \in 1 .. (n + 1) : q[i] = e[i]
    <3> SUFFICES ASSUME NEW i \in 1 .. (n + 1) PROVE q[i] = e[i]
      OBVIOUS
    <3>1. CASE i = n + 1
      BY <1>3, <2>3, <2>4, <3>1
    <3>2. CASE i # n + 1
      <4>1. i \in 1 .. n
        BY <1>3, <3>2
      <4> QED
        BY <1>3, <2>2, <2>3, <2>4, <4>1
    <3> QED
      BY <3>1, <3>2
  <2>6. q = e
    BY <2>1, <2>4, <2>5, SeqEqual
  <2> QED
    BY <2>6 DEF p, q, e
<1>5. Pieces(<<>>) = <<>>
  OBVIOUS
<1> HIDE DEF Pieces
<1>6. FlattenSeq(Append(Pieces(string), Piece(byte))) = FlattenSeq(Pieces(string)) \o Piece(byte)
  BY <1>2, PieceType, FlattenAppend
<1>7. FlattenSeq(<<>>) = <<>>
  BY <1>2, PieceType, FlattenAppend
<1> QED
  BY <1>1, <1>4, <1>5, <1>6, <1>7 DEF more

(* Lossy answers what is UTF-8, and keeps what is. *)
LEMMA LossyType == \A s \in Seq(Text) : Lossy(s) \in Seq(Utf8)
<1> DEFINE Bad == {n \in Nat : \E s \in Seq(Text) : Len(s) = n /\ Lossy(s) \notin Seq(Utf8)}
<1>1. SUFFICES Bad = {}
  BY LenProperties
<1>2. SUFFICES ASSUME Bad # {} PROVE FALSE
  OBVIOUS
<1>3. Bad \subseteq Nat
  OBVIOUS
<1> HIDE DEF Bad
<1>4. PICK m \in Bad : \A k \in Bad : m <= k
  BY <1>2, <1>3, LeastElement
<1>5. PICK s \in Seq(Text) : m \in Nat /\ Len(s) = m /\ Lossy(s) \notin Seq(Utf8)
  BY <1>4 DEF Bad
<1>6. "bad" \in Text /\ <<>> \in Seq(Text) /\ <<>> \in Seq(Utf8)
  BY DEF Text
<1>7. s # <<>>
  BY <1>5, <1>6, LossyAppend
<1>8. PICK t \in Seq(Text), b \in Text : s = Append(t, b)
  BY <1>7, SequenceEmptyOrAppend
<1>9. Len(t) \in Nat /\ Len(t) < m
  BY <1>5, <1>8, AppendProperties, LenProperties
<1>10. Len(t) \notin Bad
  BY <1>4, <1>5, <1>9
<1>11. Lossy(t) \in Seq(Utf8)
  BY <1>9, <1>10 DEF Bad
<1>12. Lossy(s) = Lossy(t) \o Piece(b)
  BY <1>8, LossyAppend
<1> QED
  BY <1>5, <1>11, <1>12, PieceType, ConcatProperties

LEMMA LossyOfUtf8 == \A s \in Seq(Text) :
  (\A i \in 1 .. Len(s) : s[i] # "bad") => Lossy(s) = s
<1> DEFINE Good(s) == \A i \in 1 .. Len(s) : s[i] # "bad"
           Bad == {n \in Nat : \E s \in Seq(Text) : Len(s) = n /\ Good(s) /\ Lossy(s) # s}
<1>1. SUFFICES Bad = {}
  BY LenProperties
<1>2. SUFFICES ASSUME Bad # {} PROVE FALSE
  OBVIOUS
<1>3. Bad \subseteq Nat
  OBVIOUS
<1> HIDE DEF Bad
<1>4. PICK m \in Bad : \A k \in Bad : m <= k
  BY <1>2, <1>3, LeastElement
<1>5. PICK s \in Seq(Text) : m \in Nat /\ Len(s) = m /\ Good(s) /\ Lossy(s) # s
  BY <1>4 DEF Bad
<1>6. "bad" \in Text /\ <<>> \in Seq(Text)
  BY DEF Text
<1>7. s # <<>>
  BY <1>5, <1>6, LossyAppend
<1>8. PICK t \in Seq(Text), b \in Text : s = Append(t, b)
  BY <1>7, SequenceEmptyOrAppend
<1>9. /\ Len(t) \in Nat /\ m = Len(t) + 1 /\ s[Len(t) + 1] = b
      /\ \A i \in 1 .. Len(t) : s[i] = t[i]
  BY <1>5, <1>8, AppendProperties, LenProperties
<1>10. Good(t) /\ b # "bad"
  <2>1. \A i \in 1 .. Len(t) : i \in 1 .. Len(s)
    BY <1>5, <1>9
  <2>2. Len(t) + 1 \in 1 .. Len(s)
    BY <1>5, <1>9
  <2> QED
    BY <1>5, <1>9, <2>1, <2>2
<1> HIDE DEF Good
<1>11. Len(t) \notin Bad
  BY <1>4, <1>5, <1>9
<1>12. Lossy(t) = t
  BY <1>9, <1>10, <1>11 DEF Bad
<1>13. Lossy(s) = Lossy(t) \o Piece(b)
  BY <1>8, LossyAppend
<1>14. Lossy(s) = t \o <<b>> /\ s = t \o <<b>>
  BY <1>8, <1>10, <1>12, <1>13, AppendIsConcat DEF Piece
<1> QED
  BY <1>5, <1>14

LEMMA LossyConcat == \A s, t \in Seq(Text) : Lossy(s \o t) = Lossy(s) \o Lossy(t)
<1> SUFFICES ASSUME NEW s \in Seq(Text)
             PROVE  \A t \in Seq(Text) : Lossy(s \o t) = Lossy(s) \o Lossy(t)
  OBVIOUS
<1> DEFINE Bad == {n \in Nat : \E t \in Seq(Text) :
                      Len(t) = n /\ Lossy(s \o t) # Lossy(s) \o Lossy(t)}
<1>1. SUFFICES Bad = {}
  BY LenProperties
<1>2. SUFFICES ASSUME Bad # {} PROVE FALSE
  OBVIOUS
<1>3. Bad \subseteq Nat
  OBVIOUS
<1> HIDE DEF Bad
<1>4. PICK m \in Bad : \A k \in Bad : m <= k
  BY <1>2, <1>3, LeastElement
<1>5. PICK t \in Seq(Text) : m \in Nat /\ Len(t) = m /\ Lossy(s \o t) # Lossy(s) \o Lossy(t)
  BY <1>4 DEF Bad
<1>6. "bad" \in Text
  BY DEF Text
<1>7. t # <<>>
  <2>1. Lossy(<<>>) = <<>> /\ s \o <<>> = s /\ Lossy(s) \o <<>> = Lossy(s)
    BY <1>6, LossyAppend, LossyType, ConcatEmptySeq
  <2> QED
    BY <1>5, <2>1
<1>8. PICK u \in Seq(Text), b \in Text : t = Append(u, b)
  BY <1>7, SequenceEmptyOrAppend
<1>9. Len(u) \in Nat /\ m = Len(u) + 1
  BY <1>5, <1>8, AppendProperties, LenProperties
<1>10. Len(u) \notin Bad
  BY <1>4, <1>5, <1>9
<1>11. Lossy(s \o u) = Lossy(s) \o Lossy(u)
  BY <1>9, <1>10 DEF Bad
<1>12. s \o u \in Seq(Text) /\ s \o t = Append(s \o u, b)
  <2>1. <<b>> \in Seq(Text)
    OBVIOUS
  <2>2. s \o u \in Seq(Text)
    BY ConcatProperties
  <2>3. s \o (u \o <<b>>) = (s \o u) \o <<b>>
    BY <2>1, SMTT(30)
  <2> QED
    BY <1>8, <2>2, <2>3, AppendIsConcat
<1>13. Lossy(s \o t) = (Lossy(s) \o Lossy(u)) \o Piece(b)
  BY <1>11, <1>12, LossyAppend
<1>14. Lossy(t) = Lossy(u) \o Piece(b)
  BY <1>8, LossyAppend
<1>15. (Lossy(s) \o Lossy(u)) \o Piece(b) = Lossy(s) \o (Lossy(u) \o Piece(b))
  <2> DEFINE x == Lossy(s)
             y == Lossy(u)
             z == Piece(b)
  <2>1. x \in Seq(Utf8) /\ y \in Seq(Utf8) /\ z \in Seq(Utf8)
    BY LossyType, PieceType
  <2> HIDE DEF x, y, z
  <2>2. x \o (y \o z) = (x \o y) \o z
    BY <2>1, SMTT(30)
  <2> QED
    BY <2>2 DEF x, y, z
<1> QED
  BY <1>5, <1>13, <1>14, <1>15

-----------------------------------------------------------------------------
(* What format_message has written stands for the part of the message that *)
(* is no longer in the chunks, and its answer is still to come.            *)
Progress ==
  /\ pc \in {"idle", "fill", "strerror", "chunks"} => index = 0
  /\ pc \in {"chunks", "valid", "substitute", "finish"} => said = "Ok"
  /\ pc \in {"valid", "substitute", "finish"} =>
       \E done \in Seq(Text) : /\ message = done \o rest
                               /\ SubSeq(scratch, 1, index) = Lossy(done)
  /\ pc = "substitute" => Head(rest) = "bad"
  /\ pc = "finish" => rest = <<>>
  /\ pc # "done" => result = "none"

AnswerInv == Progress /\ WholeOrError

LEMMA ScratchText ==
  ASSUME IInv
  PROVE  SubSeq(scratch, 1, index) \in Seq(Utf8) /\ Len(SubSeq(scratch, 1, index)) = index
<1>1. index \in Nat /\ \A i \in 1 .. index : scratch[i] \in Utf8
  BY ErrnoAssumption DEF IInv, TypeOK, OnlyInitialised, Utf8
<1> QED
  BY <1>1, SubSeqProperties

(* A write within the buffer appends to what is written of it. *)
LEMMA WriteAppends ==
  ASSUME IInv, NEW bytes \in Seq(Utf8), index + Len(bytes) <= Size, Write(bytes)
  PROVE  SubSeq(scratch', 1, index') = SubSeq(scratch, 1, index) \o bytes
<1> DEFINE old == SubSeq(scratch, 1, index)
           new == SubSeq(scratch', 1, index')
           m == Len(bytes)
<1>1. m \in Nat /\ index \in Nat /\ Size \in Nat /\ index' = index + m
  BY LenProperties, ErrnoAssumption DEF IInv, TypeOK, Write
<1>2. \A i \in 1 .. Size :
        scratch'[i] = IF i \in (index + 1) .. (index + m) THEN bytes[i - index] ELSE scratch[i]
  BY DEF Write
<1>3. /\ old \in Seq(Utf8) /\ Len(old) = index
      /\ \A i \in 1 .. index : old[i] = scratch[i]
  <2>1. \A i \in 1 .. index : scratch[i] \in Utf8
    BY DEF IInv, OnlyInitialised, Utf8
  <2> QED
    BY <1>1, <2>1, SubSeqProperties
<1>4. \A i \in 1 .. index' : scratch'[i] \in Utf8
  <2> USE DEF Utf8
  <2> QED
    BY WriteExtends
<1>5. /\ new \in Seq(Utf8) /\ Len(new) = index + m
      /\ \A i \in 1 .. (index + m) : new[i] = scratch'[i]
  BY <1>1, <1>4, SubSeqProperties
<1> HIDE DEF old, new, m
<1>6. /\ old \o bytes \in Seq(Utf8) /\ Len(old \o bytes) = index + m
      /\ \A i \in 1 .. (index + m) :
           (old \o bytes)[i] = IF i <= index THEN old[i] ELSE bytes[i - index]
  BY <1>3, ConcatProperties DEF m
<1>7. ASSUME NEW i \in 1 .. (index + m) PROVE new[i] = (old \o bytes)[i]
  <2>1. i \in 1 .. Size /\ i \in Nat
    BY <1>1 DEF m
  <2>2. CASE i <= index
    <3>1. i \in 1 .. index /\ i \notin (index + 1) .. (index + m)
      BY <1>1, <2>1, <2>2
    <3> QED
      BY <1>2, <1>3, <1>5, <1>6, <2>1, <2>2, <3>1
  <2>3. CASE ~ (i <= index)
    <3>1. i \in (index + 1) .. (index + m)
      BY <1>1, <2>1, <2>3
    <3> QED
      BY <1>2, <1>5, <1>6, <2>1, <2>3, <3>1
  <2> QED
    BY <2>2, <2>3
<1>8. new = old \o bytes
  BY <1>5, <1>6, <1>7, SeqEqual
<1> QED
  BY <1>8 DEF old, new

(* Where the next write does not fit, the whole text does not. *)
LEMMA TooLong ==
  ASSUME NEW done \in Seq(Text), NEW bytes \in Seq(Text), NEW more \in Seq(Text),
         index \in Nat, Len(Lossy(done)) = index, Size \in Nat,
         index + Len(Lossy(bytes)) > Size
  PROVE  Len(Lossy(done \o (bytes \o more))) > Size
<1>1. bytes \o more \in Seq(Text)
  BY ConcatProperties
<1>2. Lossy(done \o (bytes \o more)) = Lossy(done) \o (Lossy(bytes) \o Lossy(more))
  BY <1>1, LossyConcat
<1>3. Lossy(done) \in Seq(Utf8) /\ Lossy(bytes) \in Seq(Utf8) /\ Lossy(more) \in Seq(Utf8)
  BY LossyType
<1>4. /\ Lossy(bytes) \o Lossy(more) \in Seq(Utf8)
      /\ Len(Lossy(bytes) \o Lossy(more)) = Len(Lossy(bytes)) + Len(Lossy(more))
  BY <1>3, ConcatProperties
<1>5. Len(Lossy(done \o (bytes \o more))) = index + (Len(Lossy(bytes)) + Len(Lossy(more)))
  BY <1>2, <1>3, <1>4, ConcatProperties
<1>6. Len(Lossy(bytes)) \in Nat /\ Len(Lossy(more)) \in Nat
  BY <1>3, LenProperties
<1> QED
  BY <1>5, <1>6

(* A malformed part is replaced. *)
LEMMA LossyOfBad == <<"bad">> \in Seq(Text) /\ Lossy(<<"bad">>) = Replacement
<1>1. "bad" \in Text /\ <<>> \in Seq(Text) /\ <<"bad">> = Append(<<>>, "bad")
  BY DEF Text
<1>2. Lossy(<<"bad">>) = <<>> \o Piece("bad")
  BY <1>1, LossyAppend
<1>3. Piece("bad") \in Seq(Utf8) /\ Piece("bad") = Replacement
  BY <1>1, PieceType DEF Piece
<1> QED
  BY <1>1, <1>2, <1>3, ConcatEmptySeq

(* What WriteValid takes of a chunk: it stays as it is, and what is left   *)
(* of the chunk starts with its malformed part.                            *)
LEMMA ValidPart ==
  ASSUME NEW chunk \in Seq(Text), NEW n \in 0 .. Len(chunk),
         \A i \in 1 .. n : chunk[i] # "bad",
         n < Len(chunk) => chunk[n + 1] = "bad"
  PROVE  LET bytes == SubSeq(chunk, 1, n)
             more == SubSeq(chunk, n + 1, Len(chunk))
         IN  /\ bytes \in Seq(Text) /\ bytes \in Seq(Utf8) /\ more \in Seq(Text)
             /\ Len(bytes) = n /\ Lossy(bytes) = bytes
             /\ chunk = bytes \o more
             /\ IF n = Len(chunk) THEN more = <<>> ELSE more # <<>> /\ Head(more) = "bad"
<1> DEFINE bytes == SubSeq(chunk, 1, n)
           more == SubSeq(chunk, n + 1, Len(chunk))
<1>1. Len(chunk) \in Nat /\ n \in Nat /\ \A i \in 1 .. Len(chunk) : chunk[i] \in Text
  BY LenProperties, ElementOfSeq
<1>2. \A i \in 1 .. n : chunk[i] \in Text /\ chunk[i] \in Utf8
  BY <1>1 DEF Text, Utf8
<1>3. /\ bytes \in Seq(Text) /\ Len(bytes) = n
      /\ \A i \in 1 .. n : bytes[i] = chunk[i]
  BY <1>1, <1>2, SubSeqProperties
<1>4. bytes \in Seq(Utf8)
  BY <1>1, <1>2, SubSeqProperties
<1>5. \A i \in (n + 1) .. Len(chunk) : chunk[i] \in Text
  BY <1>1
<1>6. more \in Seq(Text) /\ Len(more) = Len(chunk) - n
  BY <1>1, <1>5, SubSeqProperties
<1>7. chunk = bytes \o more
  <2>1. 1 \in 1 .. (Len(chunk) + 1) /\ n \in (1 - 1) .. Len(chunk) /\ Len(chunk) \in n .. Len(chunk)
    BY <1>1
  <2>2. bytes \o more = SubSeq(chunk, 1, Len(chunk))
    BY <2>1, ConcatAdjacentSubSeq
  <2> QED
    BY <2>2, SubSeqFull
<1>8. CASE n = Len(chunk)
  <2>1. more = <<>>
    BY <1>1, <1>8, SubSeqEmpty
  <2> HIDE DEF bytes, more
  <2>2. Lossy(bytes) = bytes
    BY <1>3, LossyOfUtf8
  <2> QED
    BY <1>3, <1>4, <1>6, <1>7, <1>8, <2>1, <2>2 DEF bytes, more
<1>9. CASE n # Len(chunk)
  <2>1. n + 1 \in 1 .. Len(chunk) /\ Len(chunk) \in (n + 1) .. Len(chunk) /\ n < Len(chunk)
    BY <1>1, <1>9
  <2>2. Head(more) = chunk[n + 1]
    BY <2>1, HeadTailOfSubSeq
  <2>3. Head(more) = "bad"
    BY <2>1, <2>2
  <2> HIDE DEF bytes, more
  <2>4. more # <<>>
    BY <1>1, <1>6, <2>1
  <2>5. Lossy(bytes) = bytes
    BY <1>3, LossyOfUtf8
  <2> QED
    BY <1>3, <1>4, <1>6, <1>7, <1>9, <2>3, <2>4, <2>5 DEF bytes, more
<1> QED
  BY <1>8, <1>9

(* The answer of a message that fits: all of it was written. *)
LEMMA AnswerInductive == IInv /\ AnswerInv /\ [Next]_vars => AnswerInv'
<1> SUFFICES ASSUME IInv, AnswerInv, [Next]_vars PROVE AnswerInv'
  OBVIOUS
<1> USE DEF AnswerInv, Progress, WholeOrError
<1>1. CASE OtherCall \/ Call \/ Fill
  BY <1>1 DEF OtherCall, Call, Fill, Errors
<1>2. CASE Return
  BY <1>2 DEF Return, Errors
<1>3. CASE StrerrorOk
  BY <1>3 DEF StrerrorOk, Errors
<1>4. CASE StrerrorFails
  <2>1. /\ pc' = "done" /\ result' = said' /\ result' \in Errors
    BY <1>4 DEF StrerrorFails, StrerrorSays
  <2>2. "Ok" \notin Errors
    BY DEF Errors
  <2> QED
    BY <2>1, <2>2
<1>5. CASE Chunks
  <2>1. SubSeq(buffer, 1, CountBytes) = message /\ message \in Seq(Text)
    BY <1>5, CountsMessage, MessageText DEF Chunks, IInv
  <2>2. /\ pc = "chunks" /\ index = 0 /\ said = "Ok" /\ result = "none"
        /\ UNCHANGED <<message, said, scratch, index>>
    BY <1>5 DEF Chunks
  <2>3. CASE "bad" \notin {message[i] : i \in 1 .. Len(message)}
    <3>1. pc' = "done" /\ result' = "Ok" /\ shown' = message
      BY <1>5, <2>1, <2>3 DEF Chunks, Answer
    <3>2. Lossy(message) = message
      BY <2>1, <2>3, LossyOfUtf8
    <3> QED
      BY <2>2, <3>1, <3>2 DEF Errors, Lossy
  <2>4. CASE "bad" \in {message[i] : i \in 1 .. Len(message)}
    <3>1. pc' = "valid" /\ rest' = message /\ UNCHANGED <<result, shown>>
      BY <1>5, <2>1, <2>4 DEF Chunks
    <3>2. <<>> \in Seq(Text) /\ message = <<>> \o message
      BY <2>1, ConcatEmptySeq
    <3>3. SubSeq(scratch, 1, 0) = <<>>
      BY SubSeqEmpty
    <3>4. Lossy(<<>>) = <<>>
      BY <3>2, LossyAppend DEF Text
    <3>5. \E done \in Seq(Text) : /\ message' = done \o rest'
                                  /\ SubSeq(scratch', 1, index') = Lossy(done)
      BY <2>2, <3>1, <3>2, <3>3, <3>4
    <3> QED
      BY <2>2, <3>1, <3>5 DEF Errors
  <2> QED
    BY <2>3, <2>4
<1>6. CASE WriteValid
  <2>1. PICK n \in 0 .. Len(rest) :
          /\ IsValid(n)
          /\ IF index + n > Size THEN OutOfRange
             ELSE /\ Write(SubSeq(rest, 1, n))
                  /\ rest' = SubSeq(rest, n + 1, Len(rest))
                  /\ pc' = IF n = Len(rest) THEN "finish" ELSE "substitute"
                  /\ UNCHANGED result
    BY <1>6 DEF WriteValid
  <2>2. pc = "valid" /\ said = "Ok" /\ result = "none" /\ UNCHANGED <<message, said>>
    BY <1>6 DEF WriteValid
  <2>3. PICK done \in Seq(Text) : /\ message = done \o rest
                                  /\ SubSeq(scratch, 1, index) = Lossy(done)
    BY <2>2
  <2> DEFINE bytes == SubSeq(rest, 1, n)
             more == SubSeq(rest, n + 1, Len(rest))
  <2>4. rest \in Seq(Text) /\ index \in Nat /\ Size \in Nat /\ Len(rest) \in Nat /\ n \in Nat
    BY LenProperties, ErrnoAssumption DEF IInv, TypeOK, StepInv
  <2>5. /\ bytes \in Seq(Text) /\ bytes \in Seq(Utf8) /\ more \in Seq(Text)
        /\ Len(bytes) = n /\ Lossy(bytes) = bytes
        /\ rest = bytes \o more
        /\ IF n = Len(rest) THEN more = <<>> ELSE more # <<>> /\ Head(more) = "bad"
    BY <2>1, <2>4, ValidPart DEF IsValid
  <2>6. Write(bytes) \/ index + n > Size
    BY <2>1
  <2>7. Len(Lossy(done)) = index
    BY <2>3, ScratchText
  <2>8. rest' = more \/ index + n > Size
    BY <2>1
  <2> HIDE DEF bytes, more
  <2>9. CASE index + n > Size
    <3>1. OutOfRange
      BY <2>1, <2>9
    <3>2. Len(Lossy(message)) > Size
      <4>1. index + Len(Lossy(bytes)) > Size
        BY <2>5, <2>9
      <4> QED
        BY <2>3, <2>4, <2>5, <2>7, <4>1, TooLong
    <3>3. Len(Lossy(message))' > Size
      BY <2>2, <3>2
    <3> QED
      BY <2>2, <3>1, <3>3 DEF OutOfRange, Errors
  <2>10. CASE ~ (index + n > Size)
    <3>1. /\ Write(bytes) /\ rest' = more /\ UNCHANGED result
          /\ pc' = IF n = Len(rest) THEN "finish" ELSE "substitute"
      BY <2>1, <2>6, <2>8, <2>10
    <3>2. SubSeq(scratch', 1, index') = Lossy(done) \o Lossy(bytes)
      <4>1. index + Len(bytes) <= Size
        BY <2>4, <2>5, <2>10
      <4> QED
        BY <2>3, <2>5, <3>1, <4>1, WriteAppends
    <3>3. done \o bytes \in Seq(Text) /\ Lossy(done \o bytes) = Lossy(done) \o Lossy(bytes)
      BY <2>5, LossyConcat, ConcatProperties
    <3>4. message = (done \o bytes) \o more
      <4>0. bytes \in Seq(Text) /\ more \in Seq(Text)
        BY <2>5
      <4>1. (done \o bytes) \o more = done \o (bytes \o more)
        BY <4>0, SMTT(30)
      <4> QED
        BY <2>3, <2>5, <4>1
    <3>5. \E d \in Seq(Text) : /\ message' = d \o rest'
                               /\ SubSeq(scratch', 1, index') = Lossy(d)
      BY <2>2, <3>1, <3>2, <3>3, <3>4
    <3>6. (pc' = "substitute" => Head(rest') = "bad") /\ (pc' = "finish" => rest' = <<>>)
      BY <2>5, <3>1
    <3> QED
      BY <2>2, <3>1, <3>5, <3>6 DEF Errors
  <2> QED
    BY <2>9, <2>10
<1>7. CASE Substitute
  <2>1. /\ pc = "substitute" /\ said = "Ok" /\ result = "none" /\ Head(rest) = "bad"
        /\ UNCHANGED <<message, said>>
    BY <1>7 DEF Substitute
  <2>2. PICK done \in Seq(Text) : /\ message = done \o rest
                                  /\ SubSeq(scratch, 1, index) = Lossy(done)
    BY <2>1
  <2>3. rest \in Seq(Text) /\ rest # <<>> /\ index \in Nat /\ Size \in Nat
    BY <2>1, ErrnoAssumption DEF IInv, TypeOK, StepInv
  <2>4. Tail(rest) \in Seq(Text) /\ rest = <<"bad">> \o Tail(rest)
    <3>1. 1 \in 1 .. Len(rest) /\ Len(rest) \in 1 .. Len(rest)
      BY <2>3, EmptySeq
    <3>2. SubSeq(rest, 1, Len(rest)) = <<rest[1]>> \o SubSeq(rest, 1 + 1, Len(rest))
      BY <2>3, <3>1, SubSeqRecursiveFirst
    <3>3. SubSeq(rest, 1, Len(rest)) = rest /\ Tail(rest) = SubSeq(rest, 2, Len(rest))
      BY <2>3, SubSeqFull, TailIsSubSeq
    <3>4. Head(rest) = rest[1] /\ Tail(rest) \in Seq(Text)
      BY <2>3, HeadTailProperties
    <3> QED
      BY <2>1, <3>2, <3>3, <3>4
  <2>5. <<"bad">> \in Seq(Text) /\ Lossy(<<"bad">>) = Replacement
    BY LossyOfBad
  <2>6. Replacement \in Seq(Utf8) /\ Len(Replacement) = 3
    BY DEF Replacement, Utf8
  <2>7. Len(Lossy(done)) = index
    BY <2>2, ScratchText
  <2>8. CASE index + Len(Replacement) > Size
    <3>1. OutOfRange
      BY <1>7, <2>8 DEF Substitute
    <3>2. Len(Lossy(message)) > Size
      BY <2>2, <2>3, <2>4, <2>5, <2>7, <2>8, TooLong
    <3>3. Len(Lossy(message))' > Size
      BY <2>1, <3>2
    <3> QED
      BY <2>1, <3>1, <3>3 DEF OutOfRange, Errors
  <2>9. CASE ~ (index + Len(Replacement) > Size)
    <3>1. /\ Write(Replacement) /\ rest' = Tail(rest) /\ UNCHANGED result
          /\ pc' = IF Tail(rest) = <<>> THEN "finish" ELSE "valid"
      BY <1>7, <2>9 DEF Substitute
    <3>2. SubSeq(scratch', 1, index') = Lossy(done) \o Lossy(<<"bad">>)
      <4>1. index + Len(Replacement) <= Size
        BY <2>3, <2>6, <2>9
      <4> QED
        BY <2>2, <2>5, <2>6, <3>1, <4>1, WriteAppends
    <3> DEFINE d == done \o <<"bad">>
    <3>3. d \in Seq(Text) /\ Lossy(d) = Lossy(done) \o Lossy(<<"bad">>)
      BY <2>5, LossyConcat, ConcatProperties
    <3>4. message = d \o Tail(rest)
      BY <2>2, <2>4, <2>5, ConcatAssociative, SMTT(30)
    <3> HIDE DEF d
    <3>5. message' = d \o rest' /\ SubSeq(scratch', 1, index') = Lossy(d)
      BY <2>1, <3>1, <3>2, <3>3, <3>4
    <3> QED
      BY <2>1, <3>1, <3>3, <3>5 DEF Errors
  <2> QED
    BY <2>8, <2>9
<1>8. CASE Finish
  <2>1. /\ pc = "finish" /\ said = "Ok" /\ rest = <<>> /\ UNCHANGED <<message, said>>
        /\ shown' = SubSeq(scratch, 1, index) /\ result' = "Ok" /\ pc' = "done"
    BY <1>8 DEF Finish, Answer
  <2>2. PICK done \in Seq(Text) : /\ message = done \o rest
                                  /\ SubSeq(scratch, 1, index) = Lossy(done)
    BY <2>1
  <2>3. message = done
    BY <2>1, <2>2, ConcatEmptySeq
  <2>4. shown' = Lossy(message')
    BY <2>1, <2>2, <2>3
  <2> QED
    BY <2>1, <2>4 DEF Errors, Lossy
<1>9. CASE UNCHANGED vars
  BY <1>9 DEF vars, Lossy
<1> QED
  BY <1>1, <1>2, <1>3, <1>4, <1>5, <1>6, <1>7, <1>8, <1>9 DEF Next

(* Whatever libc says and however long its message: all of it is shown,    *)
(* with a replacement for each malformed part, or the answer is the error  *)
(* that strerror_r reported, or ERANGE where the text does not fit.        *)
THEOREM WholeHolds == Spec => []WholeOrError
<1>1. Init => AnswerInv
  BY DEF Init, AnswerInv, Progress, WholeOrError, Errors
<1>2. AnswerInv => WholeOrError
  BY DEF AnswerInv
<1> QED
  BY <1>1, <1>2, IInvHolds, AnswerInductive, PTL DEF Spec
=============================================================================

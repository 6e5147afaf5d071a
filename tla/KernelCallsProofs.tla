------------------------- MODULE KernelCallsProofs -------------------------
(***************************************************************************)
(* What holds for every set of threads, errors, descriptors and systems,   *)
(* and words of every width.                                               *)
(***************************************************************************)
EXTENDS KernelCalls, WellFoundedInduction, TLAPS

(* No power of two is zero: a least one that was would be twice another.   *)
LEMMA NoAlignIsZero == 0 \notin Aligns
<1> DEFINE Bad == {i \in 0 .. Bits : Pow[i] = 0}
<1>0. Bits \in Nat
  BY PowAssumption
<1> SUFFICES Bad = {}
  BY <1>0 DEF Aligns
<1> SUFFICES ASSUME Bad # {} PROVE FALSE
  OBVIOUS
<1>1. Bad \subseteq Nat
  BY PowAssumption
<1> HIDE DEF Bad
<1>2. PICK m \in Bad : \A i \in Bad : ~ (<<i, m>> \in OpToRel(<, Nat))
  <2>1. IsWellFoundedOn(OpToRel(<, Nat), Nat)
    BY NatLessThanWellFounded
  <2> QED
    BY <1>1, <2>1, WFMin
<1>3. \A i \in Bad : ~ (i < m)
  BY <1>1, <1>2, Zenon DEF OpToRel
<1>4. m \in 1 .. Bits /\ Pow[m] = 0
  BY PowAssumption DEF Bad
<1>5. Pow[m] = 2 * Pow[m - 1] /\ m - 1 \in 0 .. Bits /\ Pow[m - 1] \in Nat
  BY <1>4, PowAssumption
<1>6. m - 1 \in Bad
  BY <1>4, <1>5 DEF Bad
<1> QED
  BY <1>3, <1>4, <1>6, PowAssumption

(* Align::new and Align::try_from answer the word itself, or nothing. *)
LEMMA AlignNewIs ==
  \A x : /\ x \in Aligns => AlignNew(x) = {x}
         /\ x \notin Aligns => AlignNew(x) = {}
BY DEF AlignNew, IsPowerOfTwo

LEMMA ZeroIsAWord == 0 \in Words
<1>1. Modulus # 0 /\ Modulus \in Nat
  <2>1. Pow[Bits] = 2 * Pow[Bits - 1] /\ Pow[Bits - 1] \in Nat /\ Pow[Bits - 1] # 0
    BY PowAssumption, NoAlignIsZero DEF Aligns
  <2> QED
    BY <2>1 DEF Modulus
<1> QED
  BY <1>1 DEF Words

-----------------------------------------------------------------------------
LEMMA InvInit == Init => Inv
<1> SUFFICES ASSUME Init PROVE Inv
  OBVIOUS
<1> USE DEF Init, ErrnoInit, PageInit, DmaInit
<1>1. TypeOK
  BY ZeroIsAWord
  DEF TypeOK, PageTypeOK, DmaTypeOK, Steps, AllErrors, Options, Rights
<1>2. AnswersAreOwn /\ ErrnoKept
  BY DEF AnswersAreOwn, ErrnoKept
<1>3. PageSizeAgreed
  BY DEF PageSizeAgreed
<1>4. FilesOwnedOnce
  BY FilesAssumption DEF FilesOwnedOnce
<1> QED
  BY <1>1, <1>2, <1>3, <1>4 DEF Inv

(***************************************************************************)
(* A step of page_size.  Only its own thread's errno and answer change;    *)
(* CACHE is written with what sysconf reports.                             *)
(***************************************************************************)
LEMMA PageStepInv ==
  ASSUME Inv, NEW t \in Threads, PageStep(t), UNCHANGED dmaVars
  PROVE  Inv'
<1> USE ErrorsAssumption, SystemsAssumption, FilesAssumption
    DEF Inv, TypeOK, PageTypeOK, DmaTypeOK, AnswersAreOwn, ErrnoKept,
        PageSizeAgreed, FilesOwnedOnce, Steps, AllErrors, pageVars, dmaVars,
        optionsVars, filesVars, Return, Goto, Succeeds, Fails
<1>1. CASE LoadPage(t)
  <2>1. PICK word \in Loads(t) :
          IF AlignNew(word) = {}
          THEN /\ Goto(t, "sysconf")
               /\ page' = [page EXCEPT ![t] = 0]
               /\ UNCHANGED <<errno, failed, knows>>
          ELSE /\ Return(t, NoError)
               /\ Succeeds(t)
               /\ page' = [page EXCEPT ![t] = word]
               /\ knows' = knows \cup {t}
    BY <1>1 DEF LoadPage
  <2>2. UNCHANGED <<system, cache>> /\ at[t] = "idle"
    BY <1>1 DEF LoadPage
  <2>3. CASE word \notin Aligns
    <3>1. t \notin knows
      BY <2>3 DEF Loads
    <3>2. /\ Goto(t, "sysconf")
          /\ page' = [page EXCEPT ![t] = 0]
          /\ UNCHANGED <<errno, failed, knows>>
      BY <2>1, <2>3, AlignNewIs
    <3> HIDE <2>1
    <3> QED
      BY <2>2, <3>1, <3>2, ZeroIsAWord
  <2>4. CASE word \in Aligns
    <3>1. word = cache /\ word # 0
      BY <2>4, NoAlignIsZero DEF Loads
    <3>2. /\ Return(t, NoError)
          /\ Succeeds(t)
          /\ page' = [page EXCEPT ![t] = word]
          /\ knows' = knows \cup {t}
      BY <2>1, <2>4, AlignNewIs
    <3> HIDE <2>1
    <3> QED
      BY <2>2, <3>1, <3>2
  <2> QED
    BY <2>3, <2>4
<1>2. CASE AskSystem(t)
  BY <1>2 DEF AskSystem
<1>3. CASE PageUnknown(t)
  BY <1>3 DEF PageUnknown, Last
<1>4. CASE ConvertPage(t)
  BY <1>4, AlignNewIs DEF ConvertPage, ToPage
<1>5. CASE StorePage(t)
  <2>1. cache' = system /\ system # 0
    BY <1>5, AlignNewIs, NoAlignIsZero DEF StorePage, ToPage
  <2> QED
    BY <1>5, <2>1 DEF StorePage
<1> QED
  BY <1>1, <1>2, <1>3, <1>4, <1>5 DEF PageStep

(***************************************************************************)
(* A step on a DMA buffer.  An export moves a descriptor from the kernel   *)
(* to the payload and on to its owner.                                     *)
(***************************************************************************)
LEMMA OrIsOptions ==
  \A a, b \in Options : OrOptions(a, b) \subseteq Options
<1> SUFFICES ASSUME NEW a \in Options, NEW b \in Options
             PROVE  OrOptions(a, b) \subseteq Options
  OBVIOUS
<1>1. OrRights(a.rights, b.rights) \subseteq Rights
  BY DEF OrRights, FromBits, Rights, RightsBits
<1>2. a.end \in BOOLEAN /\ b.end \in BOOLEAN
  BY DEF Options
<1> QED
  BY <1>1, <1>2 DEF OrOptions, Options

LEMMA RightsAre == Rights = {{"read"}, {"write"}, {"read", "write"}}
<1> DEFINE All == {{"read"}, {"write"}, {"read", "write"}}
<1>1. Rights \subseteq All
  BY DEF Rights, FromBits
<1>2. ASSUME NEW b \in All PROVE b \in SUBSET RightsBits /\ FromBits(b) = {b}
  BY DEF FromBits, RightsBits
<1>3. All \subseteq Rights
  <2> SUFFICES ASSUME NEW b \in All PROVE b \in Rights
    OBVIOUS
  <2>1. b \in SUBSET RightsBits /\ b \in FromBits(b)
    BY <1>2
  <2> HIDE DEF All
  <2> QED
    BY <2>1 DEF Rights
<1> QED
  BY <1>1, <1>3

LEMMA DmaStepInv ==
  ASSUME Inv, DmaStep, UNCHANGED pageVars
  PROVE  Inv'
<1> USE ErrorsAssumption, FilesAssumption
    DEF Inv, TypeOK, PageTypeOK, DmaTypeOK, AnswersAreOwn, ErrnoKept,
        PageSizeAgreed, FilesOwnedOnce, Steps, AllErrors, pageVars, dmaVars,
        errnoVars, optionsVars, filesVars, Return, Goto, Succeeds, Fails, Ioctl
<1>1. CASE MakeOptions \/ JoinOptions \/ JoinRights
  <2>1. options' \subseteq Options /\ wanted' \subseteq {"end", "read", "write"}
    <3>1. CASE MakeOptions
      <4>1. \A read, write : RightsNew(read, write) \subseteq Rights
        BY RightsAre DEF RightsNew, FromBits
      <4> QED
        BY <3>1, <4>1 DEF MakeOptions, Options
    <3>2. CASE JoinOptions
      <4>1. \A o \in Options : ToFlags(o) \subseteq {"end", "read", "write"}
        BY RightsAre DEF ToFlags, Options
      <4> QED
        BY <3>2, <4>1, OrIsOptions DEF JoinOptions
    <3>3. CASE JoinRights
      <4>1. \A a, b : OrRights(a, b) \subseteq Rights
        BY RightsAre DEF OrRights, FromBits
      <4>2. \A o \in Options, r \in Rights : AddRights(o, r) \subseteq Options
        BY <4>1 DEF AddRights, Options
      <4>3. PICK o \in options, r \in Rights :
              options' = AddRights(o, r) /\ wanted' = wanted \cup r
        BY <3>3 DEF JoinRights
      <4>4. r \subseteq {"end", "read", "write"}
        BY RightsAre
      <4> QED
        BY <4>2, <4>3, <4>4
    <3> QED
      BY <1>1, <3>1, <3>2, <3>3
  <2>2. UNCHANGED <<errnoVars, filesVars>>
    BY <1>1 DEF MakeOptions, JoinOptions, JoinRights
  <2> QED
    BY <2>1, <2>2
<1>2. ASSUME NEW t \in Threads, Sync(t) \/ Import(t) PROVE Inv'
  <2>1. at[t] = "idle" /\ UNCHANGED dmaVars /\ UNCHANGED pageVars
    BY <1>2 DEF Sync, Import
  <2>2. CASE Succeeds(t) /\ Return(t, NoError)
    BY <2>1, <2>2
  <2>3. ASSUME NEW e \in OsErrors, Fails(t, e), Goto(t, "failed") PROVE Inv'
    BY <2>1, <2>3
  <2> QED
    BY <1>2, <2>2, <2>3 DEF Sync, Import
<1>3. ASSUME NEW t \in Threads, Export(t) PROVE Inv'
  BY <1>3 DEF Export
<1>4. ASSUME NEW t \in Threads, TakeExported(t) PROVE Inv'
  <2> USE <1>4 DEF TakeExported
  <2>1. TypeOK' /\ AnswersAreOwn' /\ ErrnoKept'
    OBVIOUS
  <2>2. PageSizeAgreed'
    OBVIOUS
  <2>3. FilesOwnedOnce'
    OBVIOUS
  <2> QED
    BY <2>1, <2>2, <2>3
<1>5. ASSUME NEW t \in Threads, AnswerErrno(t) PROVE Inv'
  BY <1>5 DEF AnswerErrno, Last
<1>6. ASSUME NEW t \in Threads, DropSyncFile(t) PROVE Inv'
  BY <1>6 DEF DropSyncFile
<1> QED
  BY <1>1, <1>2, <1>3, <1>4, <1>5, <1>6 DEF DmaStep

(***************************************************************************)
(* However the calls of the threads interleave.                            *)
(***************************************************************************)
THEOREM InvHolds == Spec => []Inv
<1>1. Inv /\ UNCHANGED vars => Inv'
  BY DEF vars, errnoVars, pageVars, dmaVars, optionsVars, filesVars, Inv, TypeOK,
         PageTypeOK, DmaTypeOK, AnswersAreOwn, ErrnoKept, PageSizeAgreed,
         FilesOwnedOnce
<1>2. Inv /\ [Next]_vars => Inv'
  BY <1>1, PageStepInv, DmaStepInv DEF Next
<1> QED
  BY <1>2, InvInit, PTL DEF Spec

(* A call answers Ok if nothing went wrong in it, and otherwise the error  *)
(* of this very call.                                                      *)
THEOREM AnswersHold == Spec => []AnswersAreOwn
BY InvHolds, PTL DEF Inv

(* All threads agree on the page size, and CACHE never holds another word. *)
THEOREM PageSizeHolds == Spec => []PageSizeAgreed
BY InvHolds, PTL DEF Inv

(* An exported sync file has one owner; an error has none. *)
THEOREM FilesHold == Spec => []FilesOwnedOnce
BY InvHolds, PTL DEF Inv

-----------------------------------------------------------------------------
(***************************************************************************)
(* Rights are closed under |, so joining options joins their bits.         *)
(***************************************************************************)
LEMMA OrRightsIs ==
  ASSUME NEW a \in Rights, NEW b \in Rights
  PROVE  OrRights(a, b) = {a \cup b}
<1>1. a \cup b \in {{"read"}, {"write"}, {"read", "write"}}
  BY RightsAre
<1> QED
  BY <1>1 DEF OrRights, FromBits

(* What FlagsAsWanted says of one value of options. *)
HasFlags(o, flags) ==
  /\ o \in Options
  /\ ToFlags(o) = flags

(* The | of two options is one, with the flags of both. *)
LEMMA JoinedFlags ==
  ASSUME NEW a \in Options, NEW b \in Options
  PROVE  \E o : OrOptions(a, b) = {o} /\ HasFlags(o, ToFlags(a) \cup ToFlags(b))
<1> DEFINE o == [end |-> a.end \/ b.end, rights |-> a.rights \cup b.rights]
<1>1. a.rights \in Rights /\ b.rights \in Rights
  BY DEF Options
<1>2. OrOptions(a, b) = {o}
  BY <1>1, OrRightsIs DEF OrOptions
<1>3. o \in Options
  BY <1>2, OrIsOptions
<1>4. ToFlags(o) = ToFlags(a) \cup ToFlags(b)
  BY DEF ToFlags
<1> QED
  BY <1>2, <1>3, <1>4 DEF HasFlags

(* A set of records whose fields are given has one. *)
LEMMA OnlyOptions ==
  ASSUME NEW e, NEW s
  PROVE  [end : {e}, rights : {s}] = {[end |-> e, rights |-> s]}
<1>1. [end |-> e, rights |-> s] \in [end : {e}, rights : {s}]
  OBVIOUS
<1>2. ASSUME NEW x \in [end : {e}, rights : {s}]
      PROVE  x = [end |-> e, rights |-> s]
  OBVIOUS
<1> QED
  BY <1>1, <1>2

(* The | of options and rights is one, with the flags of both. *)
LEMMA AddedFlags ==
  ASSUME NEW a \in Options, NEW r \in Rights
  PROVE  \E o : AddRights(a, r) = {o} /\ HasFlags(o, ToFlags(a) \cup r)
<1> DEFINE o == [a EXCEPT !.rights = a.rights \cup r]
<1>1. a.rights \in Rights /\ a.rights \cup r \in Rights
  BY RightsAre DEF Options
<1>2. AddRights(a, r) = {o}
  <2>1. OrRights(a.rights, r) = {a.rights \cup r}
    BY <1>1, OrRightsIs
  <2>2. AddRights(a, r) = {[a EXCEPT !.rights = x] : x \in {a.rights \cup r}}
    BY <2>1 DEF AddRights
  <2> QED
    BY <2>2
<1>3. o \in Options /\ o.end = a.end /\ o.rights = a.rights \cup r
  BY <1>1 DEF Options
<1>4. ToFlags(o) = ToFlags(a) \cup r
  BY <1>3 DEF ToFlags
<1> QED
  BY <1>2, <1>3, <1>4 DEF HasFlags

(* Bits tell the rights. *)
LEMMA FlagsTell ==
  ASSUME NEW o, NEW flags, HasFlags(o, flags)
  PROVE  /\ ToFlags(o) = flags
         /\ CanRead(o.rights) <=> "read" \in flags
         /\ CanWrite(o.rights) <=> "write" \in flags
         /\ o.rights # {}
<1>1. o.rights \in {{"read"}, {"write"}, {"read", "write"}} /\ o.end \in BOOLEAN
  BY RightsAre DEF HasFlags, Options
<1>2. "read" \in flags <=> "read" \in o.rights
  BY DEF HasFlags, ToFlags
<1>3. "write" \in flags <=> "write" \in o.rights
  BY DEF HasFlags, ToFlags
<1> QED
  BY <1>1, <1>2, <1>3 DEF CanRead, CanWrite, HasFlags

(* The flags of a request are the bits of all that was joined into them.   *)
THEOREM FlagsHold == Spec => []FlagsAsWanted
<1>1. Init => FlagsAsWanted
  BY DEF Init, DmaInit, FlagsAsWanted
<1>2. Inv /\ FlagsAsWanted /\ [Next]_vars => FlagsAsWanted'
  <2> SUFFICES ASSUME Inv, FlagsAsWanted, [Next]_vars PROVE FlagsAsWanted'
    OBVIOUS
  <2>0. options \subseteq Options
    BY DEF Inv, TypeOK, DmaTypeOK
  <2>1. ASSUME NEW o, options' = {o}, HasFlags(o, wanted') PROVE FlagsAsWanted'
    BY <2>1, FlagsTell DEF FlagsAsWanted
  <2>2. CASE MakeOptions
    <3>1. PICK end \in BOOLEAN, read \in BOOLEAN, write \in BOOLEAN :
            /\ options' = [end : {end}, rights : RightsNew(read, write)]
            /\ wanted' = IF options' = {} THEN {}
                         ELSE {b \in {"end", "read", "write"} :
                                 \/ b = "end" /\ end
                                 \/ b = "read" /\ read
                                 \/ b = "write" /\ write}
      BY <2>2 DEF MakeOptions
    <3>2. CASE ~read /\ ~write
      <4>1. RightsNew(read, write) = {}
        BY <3>2 DEF RightsNew, FromBits
      <4>2. options' = {} /\ wanted' = {}
        BY <3>1, <4>1
      <4> QED
        BY <4>2 DEF FlagsAsWanted
    <3>3. CASE read \/ write
      <4> DEFINE bits == (IF read THEN {"read"} ELSE {}) \cup (IF write THEN {"write"} ELSE {})
                 o == [end |-> end, rights |-> bits]
      <4>1. RightsNew(read, write) = {bits} /\ bits \in Rights
        BY <3>3, RightsAre DEF RightsNew, FromBits
      <4>2. options' = {o} /\ o \in Options
        BY <3>1, <4>1, OnlyOptions DEF Options
      <4>3. wanted' = ToFlags(o)
        BY <3>1, <4>2 DEF ToFlags
      <4> QED
        BY <2>1, <4>2, <4>3 DEF HasFlags
    <3> QED
      BY <3>2, <3>3
  <2>3. CASE JoinOptions
    <3>1. PICK o \in options, other \in Options :
            /\ options' \in {OrOptions(o, other), OrOptions(other, o)}
            /\ wanted' = wanted \cup ToFlags(other)
      BY <2>3 DEF JoinOptions
    <3>2. o \in Options /\ ToFlags(o) = wanted
      BY <2>0, <3>1 DEF FlagsAsWanted
    <3>3. PICK j : OrOptions(o, other) = {j} /\ HasFlags(j, ToFlags(o) \cup ToFlags(other))
      BY <3>2, JoinedFlags
    <3>4. PICK k : OrOptions(other, o) = {k} /\ HasFlags(k, ToFlags(other) \cup ToFlags(o))
      BY <3>2, JoinedFlags
    <3>5. ToFlags(other) \cup ToFlags(o) = wanted' /\ ToFlags(o) \cup ToFlags(other) = wanted'
      BY <3>1, <3>2
    <3> QED
      BY <2>1, <3>1, <3>3, <3>4, <3>5
  <2>4. CASE JoinRights
    <3>1. PICK o \in options, r \in Rights :
            options' = AddRights(o, r) /\ wanted' = wanted \cup r
      BY <2>4 DEF JoinRights
    <3>2. o \in Options /\ ToFlags(o) = wanted
      BY <2>0, <3>1 DEF FlagsAsWanted
    <3> QED
      BY <2>1, <3>1, <3>2, AddedFlags
  <2>5. CASE UNCHANGED optionsVars
    BY <2>5 DEF optionsVars, FlagsAsWanted
  <2>6. UNCHANGED vars => UNCHANGED optionsVars
    BY DEF vars, dmaVars
  <2> QED
    BY <2>2, <2>3, <2>4, <2>5, <2>6
    DEF Next, DmaStep, Sync, Import, Export, TakeExported, AnswerErrno,
        DropSyncFile, dmaVars
<1> QED
  BY <1>1, <1>2, InvHolds, PTL DEF Spec
=============================================================================

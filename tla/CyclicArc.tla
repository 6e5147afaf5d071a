----------------------------- MODULE CyclicArc -----------------------------
(***************************************************************************)
(* The fallible constructors of cyclic reference-counted values:           *)
(* TryNewCyclic (crates/core/src/arc.rs) in its three strategies, and      *)
(* rc::try_new_cyclic (crates/core/src/rc.rs).  init gets a Weak<T> of a   *)
(* value that is not there yet and may hand clones of it out; when init    *)
(* fails, nobody may come to hold an Arc<T> of what was never written.     *)
(*                                                                         *)
(* Arc::new_cyclic, Weak::upgrade and the drops of Arc and Weak are those  *)
(* of the standard library: one step per change of a count.                *)
(***************************************************************************)
EXTENDS Naturals, FiniteSets

CONSTANTS
  Threads,    (* Who may be handed a Weak<T> while init runs, or later.     *)
  Caller,     (* Who calls the constructor.                                 *)
  Strategies  (* Which constructors are considered, see AllStrategies.      *)

AllStrategies == {"catch_unwind", "panic_on_error", "unchecked", "rc"}
Owners == Threads \cup {Caller}

ASSUME CyclicArcAssumption ==
  /\ IsFiniteSet(Threads)
  /\ Caller \notin Threads
  /\ Strategies \subseteq AllStrategies

VARIABLES
  strategy,   (* The constructor called.                                    *)
  pc,         (* Where the call is, see Running and Over.                   *)
  strong,     (* The strong count.                                          *)
  weak,       (* The weak count, with the one that all the Arcs share.      *)
  memory,     (* "none", "allocated" or "freed".                            *)
  value,      (* "uninit", "init" or "dropped".                             *)
  inner,      (* Does the value hold a Weak<T> to itself?                   *)
  error,      (* The place of the error: "unset", "set" or "returned".      *)
  payload,    (* What unwinds: "none", "InitError" or "panic".              *)
  weaks,      (* The owners that hold a Weak<T>.                            *)
  arcs,       (* The owners that hold an Arc<T>.                            *)
  finishing,  (* What the owner of the last Arc is about to do: "no" one,   *)
              (* drop the "value", or give up the shared "weak".            *)
  undefined   (* Was a T read or dropped that is not there, or an error     *)
              (* taken that was never written?                              *)

counts == <<strong, weak, memory>>
held == <<weaks, arcs, finishing>>
vars == <<strategy, pc, counts, value, inner, error, payload, held, undefined>>

(* The call, until it returns (ok, err), panics, or aborts the process. *)
Running == {"call", "init", "okTemp", "okWrite", "errTemp", "errWrite", "check",
            "drop", "dropShared", "unwindTemp", "unwindWeak", "catch"}
Over == {"ok", "err", "panicked", "aborted"}

Init ==
  /\ strategy \in Strategies
  /\ pc = "call"
  /\ strong = 0 /\ weak = 0 /\ memory = "none"
  /\ value = "uninit" /\ inner = FALSE
  /\ error = "unset" /\ payload = "none"
  /\ weaks = {} /\ arcs = {} /\ finishing = "no"
  /\ undefined = FALSE

(* A Weak is dropped: the last one frees the allocation. *)
GiveUpWeak ==
  /\ weak' = weak - 1
  /\ memory' = IF weak = 1 THEN "freed" ELSE memory
  /\ UNCHANGED strong

-----------------------------------------------------------------------------
(* Arc::new_cyclic allocates with no strong reference and one weak one;    *)
(* the closure clones it into temp, a Weak<T>, and calls init.             *)
Begin ==
  /\ pc = "call"
  /\ pc' = "init"
  /\ weak' = 2 /\ memory' = "allocated"
  /\ UNCHANGED <<strategy, strong, value, inner, error, payload, held, undefined>>

(* init hands out a clone of its Weak<T>. *)
HandOut(t) ==
  /\ pc = "init"
  /\ t \notin weaks
  /\ weak' = weak + 1
  /\ weaks' = weaks \cup {t}
  /\ UNCHANGED <<strategy, pc, strong, memory, value, inner, error, payload,
                 arcs, finishing, undefined>>

(* init succeeds, with a value that may keep a clone of the Weak<T>. *)
InitOk ==
  /\ pc = "init"
  /\ pc' = "okTemp"
  /\ inner' \in BOOLEAN
  /\ weak' = IF inner' THEN weak + 1 ELSE weak
  /\ UNCHANGED <<strategy, strong, memory, value, error, payload, held, undefined>>

(* Mutant: no panic; every strategy goes on with an uninitialised value. *)
InitErrGoesOn ==
  /\ pc = "init"
  /\ pc' = "errTemp" /\ error' = "set"
  /\ UNCHANGED <<strategy, counts, value, inner, payload, held, undefined>>

(* init fails.  catch_unwind keeps the error and panics with InitError,    *)
(* panic_on_error panics, the others keep the error and go on.             *)
InitErr ==
  /\ pc = "init"
  /\ \/ /\ strategy = "catch_unwind"
        /\ pc' = "unwindTemp" /\ error' = "set" /\ payload' = "InitError"
     \/ /\ strategy = "panic_on_error"
        /\ pc' = "unwindTemp" /\ payload' = "panic" /\ UNCHANGED error
     \/ /\ strategy \in {"unchecked", "rc"}
        /\ pc' = "errTemp" /\ error' = "set" /\ UNCHANGED payload
  /\ UNCHANGED <<strategy, counts, value, inner, held, undefined>>

(* init panics of its own. *)
InitPanics ==
  /\ pc = "init"
  /\ pc' = "unwindTemp"
  /\ payload' = "panic"
  /\ UNCHANGED <<strategy, counts, value, inner, error, held, undefined>>

(* Mutant: temp was made of the pointer of a Weak that is dropped as well. *)
DropTempTwice ==
  /\ \/ pc = "okTemp" /\ pc' = "okWrite"
     \/ pc = "errTemp" /\ pc' = "errWrite"
     \/ pc = "unwindTemp" /\ pc' = "unwindWeak"
  /\ weak' = weak - 2
  /\ memory' = IF weak = 2 THEN "freed" ELSE memory
  /\ UNCHANGED <<strategy, strong, value, inner, error, payload, held, undefined>>

(* temp goes out of scope, by the end of the closure or by unwinding. *)
DropTemp ==
  /\ \/ pc = "okTemp" /\ pc' = "okWrite"
     \/ pc = "errTemp" /\ pc' = "errWrite"
     \/ pc = "unwindTemp" /\ pc' = "unwindWeak"
  /\ GiveUpWeak
  /\ UNCHANGED <<strategy, value, inner, error, payload, held, undefined>>

(* new_cyclic writes what the closure returned and only then makes the     *)
(* strong count one.  The value is there, and the call returns its Arc<T>. *)
WriteValue ==
  /\ pc = "okWrite"
  /\ pc' = "ok"
  /\ value' = "init"
  /\ strong' = strong + 1
  /\ arcs' = arcs \cup {Caller}
  /\ UNCHANGED <<strategy, weak, memory, inner, error, payload, weaks,
                 finishing, undefined>>

(* After a failure, MaybeUninit::uninit() is what is written, and the      *)
(* strong count becomes one all the same.                                  *)
WriteUninit ==
  /\ pc = "errWrite"
  /\ pc' = IF strategy = "unchecked" THEN "check" ELSE "drop"
  /\ strong' = strong + 1
  /\ UNCHANGED <<strategy, weak, memory, value, inner, error, payload, held,
                 undefined>>

(* Mutant: >= for >. *)
CheckAloneOffByOne ==
  /\ pc = "check"
  /\ pc' = IF strong >= 1 THEN "aborted" ELSE "drop"
  /\ UNCHANGED <<strategy, counts, value, inner, error, payload, held, undefined>>

(* With debug assertions, _unchecked aborts if others have an Arc<T>. *)
CheckAlone ==
  /\ pc = "check"
  /\ pc' = IF strong > 1 THEN "aborted" ELSE "drop"
  /\ UNCHANGED <<strategy, counts, value, inner, error, payload, held, undefined>>

(* The Arc<MaybeUninit<T>> is dropped: it drops no T. *)
DropUninit ==
  /\ pc = "drop"
  /\ strong' = strong - 1
  /\ pc' = IF strong = 1 THEN "dropShared" ELSE "err"
  /\ error' = IF strong = 1 THEN error ELSE "returned"
  /\ UNCHANGED <<strategy, weak, memory, value, inner, payload, held, undefined>>

DropShared ==
  /\ pc = "dropShared"
  /\ pc' = "err"
  /\ error' = "returned"
  /\ GiveUpWeak
  /\ UNCHANGED <<strategy, value, inner, payload, held, undefined>>

(* Unwinding through new_cyclic drops its Weak. *)
UnwindWeak ==
  /\ pc = "unwindWeak"
  /\ pc' = IF strategy = "catch_unwind" THEN "catch" ELSE "panicked"
  /\ GiveUpWeak
  /\ UNCHANGED <<strategy, value, inner, error, payload, held, undefined>>

(* Mutant: any payload is taken for an InitError. *)
IsAnyPayload == payload # "none"

(* Mutant: no payload is recognised. *)
IsNeverInitError == payload = "unknown"

(* catch_unwind takes the error out if the payload is InitError, and       *)
(* resumes the unwinding otherwise.                                        *)
IsInitError == payload = "InitError"

Catch ==
  /\ pc = "catch"
  /\ pc' = IF IsInitError THEN "err" ELSE "panicked"
  /\ error' = IF IsInitError THEN "returned" ELSE error
  /\ undefined' = (undefined \/ (IsInitError /\ error # "set"))
  /\ UNCHANGED <<strategy, counts, value, inner, payload, held>>

-----------------------------------------------------------------------------
(* The others run at any time if they are threads; an Rc stays on the      *)
(* thread of the call, where they run when init does or after the call.    *)
OthersRun ==
  /\ pc # "aborted"
  /\ strategy = "rc" => pc \in Over \cup {"init"}

(* The contract of unchecked(): no Arc<T> is made while the call lasts. *)
MayUpgrade == strategy = "unchecked" => pc \in Over

(* Weak::upgrade; with no strong reference it returns None. *)
Upgrade(t) ==
  /\ OthersRun /\ MayUpgrade
  /\ t \in weaks /\ t \notin arcs
  /\ strong > 0
  /\ strong' = strong + 1
  /\ arcs' = arcs \cup {t}
  /\ UNCHANGED <<strategy, pc, weak, memory, value, inner, error, payload, weaks,
                 finishing, undefined>>

(* The owner of an Arc<T> looks at the value. *)
Read(t) ==
  /\ OthersRun
  /\ t \in arcs
  /\ undefined' = (undefined \/ value # "init" \/ memory # "allocated")
  /\ UNCHANGED <<strategy, pc, counts, value, inner, error, payload, held>>

(* Arc::downgrade, by the owner of an Arc<T> for itself. *)
Downgrade(t) ==
  /\ OthersRun
  /\ t \in arcs /\ t \notin weaks
  /\ weak' = weak + 1
  /\ weaks' = weaks \cup {t}
  /\ UNCHANGED <<strategy, pc, strong, memory, value, inner, error, payload,
                 arcs, finishing, undefined>>

DropWeak(t) ==
  /\ OthersRun
  /\ t \in weaks
  /\ weaks' = weaks \ {t}
  /\ GiveUpWeak
  /\ UNCHANGED <<strategy, pc, value, inner, error, payload, arcs, finishing,
                 undefined>>

(* Arc::drop: the last one goes on to drop the value. *)
DropArc(t) ==
  /\ OthersRun
  /\ t \in arcs
  /\ arcs' = arcs \ {t}
  /\ strong' = strong - 1
  /\ finishing' = IF strong = 1 THEN "value" ELSE finishing
  /\ UNCHANGED <<strategy, pc, weak, memory, value, inner, error, payload, weaks,
                 undefined>>

(* The T is dropped, and with it the Weak<T> it may hold. *)
DropValue ==
  /\ OthersRun
  /\ finishing = "value"
  /\ finishing' = "weak"
  /\ value' = "dropped" /\ inner' = FALSE
  /\ undefined' = (undefined \/ value # "init")
  /\ IF inner THEN GiveUpWeak ELSE UNCHANGED counts
  /\ UNCHANGED <<strategy, pc, error, payload, weaks, arcs>>

(* The Weak that the Arcs share. *)
DropLastWeak ==
  /\ OthersRun
  /\ finishing = "weak"
  /\ finishing' = "no"
  /\ GiveUpWeak
  /\ UNCHANGED <<strategy, pc, value, inner, error, payload, weaks, arcs, undefined>>

(* Nobody has anything left, or the process aborted. *)
Terminated ==
  /\ pc \in Over
  /\ pc = "aborted" \/ (weaks = {} /\ arcs = {} /\ finishing = "no")
  /\ UNCHANGED vars

Call ==
  \/ Begin \/ InitOk \/ InitErr \/ InitPanics
  \/ \E t \in Threads : HandOut(t)
  \/ DropTemp \/ WriteValue \/ WriteUninit \/ CheckAlone
  \/ DropUninit \/ DropShared \/ UnwindWeak \/ Catch

Others ==
  \/ \E t \in Owners : Upgrade(t) \/ Read(t) \/ Downgrade(t)
  \/ \E t \in Owners : DropWeak(t) \/ DropArc(t)
  \/ DropValue \/ DropLastWeak

Next == Call \/ Others \/ Terminated

Spec == Init /\ [][Next]_vars

-----------------------------------------------------------------------------
(* Shapes of the state. *)
TypeOK ==
  /\ strategy \in Strategies
  /\ pc \in Running \cup Over
  /\ strong \in Nat /\ weak \in Nat
  /\ memory \in {"none", "allocated", "freed"}
  /\ value \in {"uninit", "init", "dropped"}
  /\ inner \in BOOLEAN
  /\ error \in {"unset", "set", "returned"}
  /\ payload \in {"none", "InitError", "panic"}
  /\ weaks \subseteq Owners
  /\ arcs \subseteq Owners
  /\ finishing \in {"no", "value", "weak"}
  /\ undefined \in BOOLEAN

(* What the call itself counts for. *)
One(b) == IF b THEN 1 ELSE 0

CallStrong == One(pc \in {"check", "drop", "aborted"})

CallWeak ==
  One(pc \in {"init", "okTemp", "errTemp", "unwindTemp"})
  + One(pc \in {"init", "okTemp", "okWrite", "errTemp", "errWrite", "unwindTemp",
                "unwindWeak", "dropShared"})

(* The counts are those of the references there are; the Arcs together     *)
(* count for one Weak until the last of them has dropped the value.        *)
CountsExact ==
  /\ strong = Cardinality(arcs) + CallStrong
  /\ weak = Cardinality(weaks) + CallWeak + One(inner)
              + One(strong > 0 \/ finishing # "no")

(* The allocation is freed with its last reference, and not before. *)
FreedIffUnreferenced ==
  /\ memory = "none" <=> pc = "call"
  /\ memory = "freed" <=> weak = 0 /\ pc # "call"

(* An Arc<T> is made of a value that was written and not dropped, or the   *)
(* call still holds an Arc of a value that was never written and no other  *)
(* has one.                                                                *)
ArcsHaveAValue ==
  /\ arcs # {} => value = "init" /\ pc = "ok"
  /\ finishing = "value" => value = "init" /\ arcs = {} /\ pc = "ok"
  /\ finishing = "weak" => value = "dropped" /\ arcs = {} /\ pc = "ok"

(* How far the call went, and what of it was written. *)
CallShape ==
  /\ pc = "call" => weaks = {}
  /\ pc \in {"call", "init", "okTemp", "okWrite", "ok"} =>
       error = "unset" /\ payload = "none"
  /\ pc \in {"errTemp", "errWrite", "check", "drop", "dropShared"} =>
       error = "set" /\ strategy \in {"unchecked", "rc"}
  /\ pc = "check" => strategy = "unchecked"
  /\ pc \in {"unwindTemp", "unwindWeak", "catch"} =>
       /\ payload = "InitError" <=> error = "set"
       /\ error # "returned"
       /\ error = "set" => strategy = "catch_unwind"
  /\ pc = "err" => error = "returned"
  /\ pc = "panicked" => error = "unset"
  /\ pc = "ok" <=> value # "uninit"
  /\ inner => pc \in {"okTemp", "okWrite", "ok"} /\ value # "dropped"
  /\ value = "init" => strong > 0 \/ finishing = "value"

(* The inductive invariant. *)
Inv ==
  /\ TypeOK
  /\ CountsExact
  /\ FreedIffUnreferenced
  /\ ArcsHaveAValue
  /\ CallShape
  /\ ~undefined
  /\ pc # "aborted"

-----------------------------------------------------------------------------
(* No T is read or dropped that is not there, and no error is taken that   *)
(* init did not return: the SAFETY comments of the three strategies.       *)
NoUndefined == ~undefined

(* In _unchecked, "the strong count should be equal exactly to one" after  *)
(* an error (arc.rs): with its contract kept, the check never aborts.      *)
NeverAborts == pc # "aborted"

(* The call returns an error only if init did, and loses none unless the   *)
(* strategy turns it into a panic.                                         *)
ErrorsDelivered ==
  /\ pc = "err" <=> error = "returned"
  /\ error = "set" => pc \notin {"ok", "panicked"}

(* However the call ends, the owners of an Arc<T>, the value and the        *)
(* memory go through what CyclicLifetime promises: an Arc<T> is only made   *)
(* of a value that is there, one that was written is dropped before its     *)
(* memory is freed, and after a failure there never is one.                 *)
Lifetime == INSTANCE CyclicLifetime
              WITH outcome <- IF pc \in Over THEN pc ELSE "none"

ImplementsLifetime == Lifetime!Spec
=============================================================================

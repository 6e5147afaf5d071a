------------------------------ MODULE PageSize ------------------------------
(***************************************************************************)
(* page_size (crates/capture-linux/src/memory.rs): the page size of the    *)
(* system, asked for until it is known and kept in a static word, where 0  *)
(* stands for unknown.  Threads that find it unknown all ask and all store. *)
(***************************************************************************)
EXTENDS MemLayout, ThreadErrno

CONSTANTS
  Systems,     (* The page sizes that a system may report.                  *)
  InvalidData  (* ErrorKind::InvalidData                                    *)

ASSUME SystemsAssumption == Systems \subseteq Words /\ InvalidData # NoError

VARIABLES
  system,  (* What sysconf reports, for as long as the process runs.        *)
  cache,   (* CACHE                                                         *)
  knows,   (* The threads that have seen CACHE set, or set it.              *)
  page     (* What each thread's last page_size() answered, or 0.           *)

pageVars == <<system, cache, knows, page>>

PageInit ==
  /\ system \in Systems
  /\ cache = 0
  /\ knows = {}
  /\ page = [t \in Threads |-> 0]

(* CACHE.load: a thread that does not know of a store may miss it.         *)
Loads(t) == IF t \in knows THEN {cache} ELSE {0, cache}

(* page_size() looks into CACHE, and answers if an Align is there. *)
LoadPage(t) ==
  /\ at[t] = "idle"
  /\ \E word \in Loads(t) :
       IF AlignNew(word) = {}
       THEN /\ Goto(t, "sysconf")
            /\ page' = [page EXCEPT ![t] = 0]
            /\ UNCHANGED <<errno, failed, knows>>
       ELSE /\ Return(t, NoError)
            /\ Succeeds(t)
            /\ page' = [page EXCEPT ![t] = word]
            /\ knows' = knows \cup {t}
  /\ UNCHANGED <<system, cache>>

(* sysconf(_SC_PAGESIZE) reports the page size, or fails. *)
AskSystem(t) ==
  /\ at[t] = "sysconf"
  /\ \/ /\ Goto(t, "convert")
        /\ Succeeds(t)
     \/ /\ Goto(t, "negative")
        /\ \E e \in OsErrors : Fails(t, e)
  /\ UNCHANGED pageVars

(* usize::try_from finds -1. *)
PageUnknown(t) ==
  /\ at[t] = "negative"
  /\ Return(t, Last(t))
  /\ UNCHANGED <<errno, failed, pageVars>>

(* Mutant: the largest alignment of the number is taken. *)
ToPageFromAddr(word) == AlignFromAddr(word)

(* Align::try_from *)
ToPage(word) == AlignNew(word)

(* A page size that is no power of two is an error, which the system's     *)
(* answer is to blame for.                                                 *)
ConvertPage(t) ==
  /\ at[t] = "convert"
  /\ IF ToPage(system) = {} THEN Return(t, InvalidData) ELSE Goto(t, "store")
  /\ failed' = [failed EXCEPT ![t] = IF system \in Aligns THEN NoError ELSE InvalidData]
  /\ UNCHANGED <<errno, pageVars>>

(* CACHE.store *)
StorePage(t) ==
  /\ at[t] = "store"
  /\ cache' \in ToPage(system)
  /\ page' = [page EXCEPT ![t] = cache']
  /\ knows' = knows \cup {t}
  /\ Return(t, NoError)
  /\ UNCHANGED <<errno, failed, system>>

PageStep(t) ==
  \/ LoadPage(t)
  \/ AskSystem(t)
  \/ PageUnknown(t)
  \/ ConvertPage(t)
  \/ StorePage(t)

-----------------------------------------------------------------------------
PageTypeOK ==
  /\ system \in Systems
  /\ cache \in Words
  /\ knows \subseteq Threads
  /\ page \in [Threads -> Words]

(* Threads that ask at once, or miss what another stored, all answer the   *)
(* page size of the system; CACHE never holds anything else; and a thread  *)
(* that has been answered is answered from CACHE ever after, though        *)
(* sysconf would fail now.                                                 *)
PageSizeAgreed ==
  /\ cache # 0 => cache = system /\ system \in Aligns
  /\ \A t \in Threads :
       /\ page[t] # 0 => page[t] = system /\ system \in Aligns
       /\ t \in knows =>
            cache # 0 /\ at[t] \notin {"sysconf", "negative", "convert", "store"}
=============================================================================

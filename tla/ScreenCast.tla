----------------------------- MODULE ScreenCast -----------------------------
(***************************************************************************)
(* SelectSources (crates/capture-linux/src/screen.rs): futures that ask    *)
(* the desktop portal for a screen cast, each a chain of requests that may *)
(* fail, or whose future may be dropped at any await.  They share one      *)
(* static cache of the cursor modes that the portal offers.                *)
(***************************************************************************)
EXTENDS Naturals

CONSTANTS
  Calls,   (* The futures; one that is over may be run again.               *)
  Offers   (* The sets of cursor modes that a portal may offer.             *)

Modes == {"hidden", "embedded", "metadata"}

ASSUME ScreenCastAssumption == Offers \subseteq SUBSET Modes

VARIABLES
  offer,    (* The cursor modes the portal offers now.                      *)
  replaced, (* Was the portal replaced since the process started?           *)
  cache,    (* CACHE; no modes is 0, unset.                                 *)
  pc,       (* Which request of run_body each call comes to next.           *)
  show,     (* Its show_cursor.                                             *)
  modes,    (* The modes it goes by.                                        *)
  asked,    (* The mode it asked for, "none" before.                        *)
  session,  (* Its session, as the portal sees it.                          *)
  remotes   (* The calls that hold a PipeWire remote.                       *)

vars == <<offer, replaced, cache, pc, show, modes, asked, session, remotes>>

Waiting == {"connect", "create", "load", "query", "store", "select", "start", "open"}
Over == {"idle", "ok", "failed", "refused", "cancelled"}
Sessions == {"none", "created", "selected", "started", "closed"}

Init ==
  /\ offer \in Offers
  /\ replaced = FALSE
  /\ cache = {}
  /\ pc = [c \in Calls |-> "idle"]
  /\ show = [c \in Calls |-> TRUE]
  /\ modes = [c \in Calls |-> {}]
  /\ asked = [c \in Calls |-> "none"]
  /\ session = [c \in Calls |-> "none"]
  /\ remotes = {}

Goto(c, place) == pc' = [pc EXCEPT ![c] = place]

(* What CursorMode must not be: one that falls back to the embedded cursor. *)
CursorModeEager(shown, available) ==
  IF "metadata" \in available /\ ~shown THEN "metadata"
  ELSE IF "embedded" \in available THEN "embedded"
  ELSE "hidden"

(* What CursorMode must not be: one that goes by the wish alone. *)
CursorModeUnasked(shown, available) == IF shown THEN "embedded" ELSE "hidden"

(* SelectSources::cursor_mode, its choice. *)
CursorMode(shown, available) ==
  IF shown /\ "embedded" \in available THEN "embedded"
  ELSE IF "metadata" \in available THEN "metadata"
  ELSE "hidden"

-----------------------------------------------------------------------------
(* Awaiting a SelectSources; what an earlier run of the call got is dropped. *)
Run(c) ==
  /\ pc[c] \in Over
  /\ Goto(c, "connect")
  /\ \E b \in BOOLEAN : show' = [show EXCEPT ![c] = b]
  /\ modes' = [modes EXCEPT ![c] = {}]
  /\ asked' = [asked EXCEPT ![c] = "none"]
  /\ session' = [session EXCEPT ![c] = "none"]
  /\ remotes' = remotes \ {c}
  /\ UNCHANGED <<offer, replaced, cache>>

(* Screencast::new *)
Connect(c) ==
  /\ pc[c] = "connect"
  /\ Goto(c, "create")
  /\ UNCHANGED <<offer, replaced, cache, show, modes, asked, session, remotes>>

CreateSession(c) ==
  /\ pc[c] = "create"
  /\ Goto(c, "load")
  /\ session' = [session EXCEPT ![c] = "created"]
  /\ UNCHANGED <<offer, replaced, cache, show, modes, asked, remotes>>

(* What LoadCache must not do: take 0 for an answer. *)
LoadCacheZero(c) ==
  /\ pc[c] = "load"
  /\ modes' = [modes EXCEPT ![c] = cache]
  /\ Goto(c, "select")
  /\ UNCHANGED <<offer, replaced, cache, show, asked, session, remotes>>

(* cursor_modes: the cache, unless it is 0. *)
LoadCache(c) ==
  /\ pc[c] = "load"
  /\ modes' = [modes EXCEPT ![c] = cache]
  /\ Goto(c, IF cache = {} THEN "query" ELSE "select")
  /\ UNCHANGED <<offer, replaced, cache, show, asked, session, remotes>>

(* available_cursor_modes().await *)
Query(c) ==
  /\ pc[c] = "query"
  /\ modes' = [modes EXCEPT ![c] = offer]
  /\ Goto(c, "store")
  /\ UNCHANGED <<offer, replaced, cache, show, asked, session, remotes>>

(* What StoreCache must not do: read back what it stored, where 0 is unset. *)
StoreCacheRereads(c) ==
  /\ pc[c] = "store"
  /\ cache' = modes[c]
  /\ Goto(c, "load")
  /\ UNCHANGED <<offer, replaced, show, modes, asked, session, remotes>>

StoreCache(c) ==
  /\ pc[c] = "store"
  /\ cache' = modes[c]
  /\ Goto(c, "select")
  /\ UNCHANGED <<offer, replaced, show, modes, asked, session, remotes>>

(* select_sources.  The portal closes the session of a call that asks for  *)
(* a cursor mode it does not offer.                                        *)
SelectSources(c) ==
  /\ pc[c] = "select" /\ session[c] # "closed"
  /\ LET mode == CursorMode(show[c], modes[c]) IN
       /\ asked' = [asked EXCEPT ![c] = mode]
       /\ IF mode \in offer
          THEN Goto(c, "start") /\ session' = [session EXCEPT ![c] = "selected"]
          ELSE Goto(c, "refused") /\ session' = [session EXCEPT ![c] = "closed"]
  /\ UNCHANGED <<offer, replaced, cache, show, modes, remotes>>

Start(c) ==
  /\ pc[c] = "start" /\ session[c] # "closed"
  /\ Goto(c, "open")
  /\ session' = [session EXCEPT ![c] = "started"]
  /\ UNCHANGED <<offer, replaced, cache, show, modes, asked, remotes>>

OpenRemote(c) ==
  /\ pc[c] = "open" /\ session[c] # "closed"
  /\ Goto(c, "ok")
  /\ remotes' = remotes \cup {c}
  /\ UNCHANGED <<offer, replaced, cache, show, modes, asked, session>>

(* Any request may fail, or be denied by the user: the ? operator returns. *)
Fail(c) ==
  /\ pc[c] \in Waiting \ {"load", "store"}
  /\ Goto(c, "failed")
  /\ UNCHANGED <<offer, replaced, cache, show, modes, asked, session, remotes>>

(* The future is dropped at an await. *)
Cancel(c) ==
  /\ pc[c] \in Waiting \ {"load", "store"}
  /\ Goto(c, "cancelled")
  /\ UNCHANGED <<offer, replaced, cache, show, modes, asked, session, remotes>>

(* Another portal takes over: the sessions of the first are gone, and a     *)
(* request on one of them fails.                                           *)
Restart ==
  /\ replaced' = TRUE
  /\ offer' \in Offers
  /\ session' = [c \in Calls |-> IF session[c] = "none" THEN "none" ELSE "closed"]
  /\ UNCHANGED <<cache, pc, show, modes, asked, remotes>>

Step(c) ==
  \/ Connect(c) \/ CreateSession(c)
  \/ LoadCache(c) \/ Query(c) \/ StoreCache(c)
  \/ SelectSources(c) \/ Start(c) \/ OpenRemote(c)

Next ==
  \/ \E c \in Calls : Run(c) \/ Step(c) \/ Fail(c) \/ Cancel(c)
  \/ Restart

(* The portal answers a request, with a result or an error, and a future   *)
(* that was answered is polled.                                            *)
Fairness == \A c \in Calls : WF_vars(Step(c) \/ Fail(c))

Spec == Init /\ [][Next]_vars /\ Fairness

-----------------------------------------------------------------------------
TypeOK ==
  /\ offer \in Offers
  /\ replaced \in BOOLEAN
  /\ cache \in {{}} \cup Offers
  /\ pc \in [Calls -> Waiting \cup Over]
  /\ show \in [Calls -> BOOLEAN]
  /\ modes \in [Calls -> {{}} \cup Offers]
  /\ asked \in [Calls -> Modes \cup {"none"}]
  /\ session \in [Calls -> Sessions]
  /\ remotes \subseteq Calls

(* What makes the next ones hold: while one portal stays, CACHE is unset or *)
(* what it offers (cursor_modes), and so is what each call goes by.        *)
CallsGoByOffer ==
  ~replaced =>
    /\ cache \in {{}, offer}
    /\ \A c \in Calls :
         /\ pc[c] \in {"store", "select"} => modes[c] = offer
         /\ pc[c] \in {"start", "open"} => asked[c] # "none"
         /\ asked[c] # "none" => asked[c] = CursorMode(show[c], offer)
         /\ c \in remotes => asked[c] # "none"

(* The inductive invariant. *)
Inv == TypeOK /\ CallsGoByOffer

(* The modes that a call can do with: any, but for the embedded cursor     *)
(* where it is not to be shown.                                            *)
Acceptable(c) == Modes \ (IF show[c] THEN {} ELSE {"embedded"})

(* A portal that stays refuses a call only where it offers no mode that    *)
(* the call could do with (cursor_mode, run_body), however calls race      *)
(* through CACHE, fail or are dropped.  There the code has nothing better  *)
(* to ask for than the Hidden that it asks for without a look.             *)
RefusedIfNoneServes ==
  ~replaced => \A c \in Calls : pc[c] = "refused" => offer \cap Acceptable(c) = {}

(* Over a portal that stays, the cursor is in a stream exactly when the    *)
(* caller wanted it and the portal can draw it (cursor_mode), whichever    *)
(* call filled CACHE.                                                      *)
CursorAsWished ==
  ~replaced =>
    \A c \in remotes : asked[c] = "embedded" <=> show[c] /\ "embedded" \in offer

(* Even when CACHE is another portal's, no stream shows a cursor that its  *)
(* caller did not want (cursor_mode).                                      *)
NeverShownUnasked == \A c \in Calls : asked[c] = "embedded" => show[c]

(* A call comes to an end (run_body), also over a portal that offers no    *)
(* mode at all, whose answer CACHE cannot tell from none.                  *)
Answered == \A c \in Calls : pc[c] \in Waiting ~> pc[c] \in Over
=============================================================================

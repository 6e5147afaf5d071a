------------------------------- MODULE DmaBuf -------------------------------
(***************************************************************************)
(* The ioctls on DMA buffers (crates/platform-linux/src/dma_buf.rs): the   *)
(* flags that callers put together for them, the errors they answer, and   *)
(* the sync files they export.  A number of flags is the set of its bits.  *)
(***************************************************************************)
EXTENDS ThreadErrno

CONSTANTS
  Files,   (* The descriptors that an export may open.                      *)
  NoFile,  (* The -1 that is in a payload before the ioctl.                 *)
  EBADF    (* libc::EBADF                                                   *)

ASSUME FilesAssumption == NoFile \notin Files /\ EBADF # NoError

VARIABLES
  options,  (* The SyncOptions that a caller is putting together, if any.   *)
  wanted,   (* History: the bits of all that went into them.                *)
  open,     (* The sync files that are open.                                *)
  payload,  (* The fd in the payload of each thread's export.               *)
  syncFile  (* The OwnedFd that each thread got by an export, or NoFile.    *)

optionsVars == <<options, wanted>>
filesVars == <<open, payload, syncFile>>
dmaVars == <<optionsVars, filesVars>>

-----------------------------------------------------------------------------
(* SyncRights, SyncRights::from_bits; None is the empty set.               *)
RightsBits == {"read", "write"}
FromBits(bits) == {bits} \cap {{"read"}, {"write"}, {"read", "write"}}
Rights == UNION {FromBits(bits) : bits \in SUBSET RightsBits}

(* SyncRights::new *)
RightsNew(read, write) ==
  FromBits((IF read THEN {"read"} ELSE {}) \cup (IF write THEN {"write"} ELSE {}))

(* SyncRights::can_read, can_write *)
CanRead(rights) == rights \in {{"read"}, {"read", "write"}}
CanWrite(rights) == rights \in {{"write"}, {"read", "write"}}

(* The | of SyncRights, which is undefined where from_bits says None.      *)
OrRights(a, b) == FromBits(a \cup b)

(* SyncOptions::Start(rights) and SyncOptions::End(rights) *)
Options == [end : BOOLEAN, rights : Rights]

(* SyncOptions::to_flags *)
ToFlags(o) == (IF o.end THEN {"end"} ELSE {}) \cup o.rights

(* Mutant: the kind of the left operand. *)
OrOptionsLeft(a, b) ==
  {[end |-> a.end, rights |-> rights] : rights \in OrRights(a.rights, b.rights)}

(* The | of SyncOptions: Start of two Starts, and End of all others.       *)
OrOptions(a, b) ==
  {[end |-> a.end \/ b.end, rights |-> rights] : rights \in OrRights(a.rights, b.rights)}

(* The | of SyncOptions and SyncRights *)
AddRights(o, rights) ==
  {[o EXCEPT !.rights = r] : r \in OrRights(o.rights, rights)}

-----------------------------------------------------------------------------
DmaInit ==
  /\ options = {}
  /\ wanted = {}
  /\ open = {}
  /\ payload = [t \in Threads |-> NoFile]
  /\ syncFile = [t \in Threads |-> NoFile]

MakeOptions ==
  /\ \E end, read, write \in BOOLEAN :
       /\ options' = [end : {end}, rights : RightsNew(read, write)]
       /\ wanted' = IF options' = {} THEN {}
                    ELSE {b \in {"end", "read", "write"} :
                            \/ b = "end" /\ end
                            \/ b = "read" /\ read
                            \/ b = "write" /\ write}
  /\ UNCHANGED <<errnoVars, filesVars>>

(* options | other, and other | options *)
JoinOptions ==
  /\ \E o \in options, other \in Options :
       /\ options' \in {OrOptions(o, other), OrOptions(other, o)}
       /\ wanted' = wanted \cup ToFlags(other)
  /\ UNCHANGED <<errnoVars, filesVars>>

JoinRights ==
  /\ \E o \in options, rights \in Rights :
       /\ options' = AddRights(o, rights)
       /\ wanted' = wanted \cup rights
  /\ UNCHANGED <<errnoVars, filesVars>>

(* The result of an ioctl that leaves nothing behind: Ok, or Err of errno. *)
Ioctl(t) ==
  \/ /\ Succeeds(t)
     /\ Return(t, NoError)
  \/ /\ \E e \in OsErrors : Fails(t, e)
     /\ Goto(t, "failed")

(* SyncOptions::sync_raw *)
Sync(t) ==
  /\ at[t] = "idle"
  /\ options # {}
  /\ Ioctl(t)
  /\ UNCHANGED dmaVars

(* SyncRights::import_sync, of a sync file that the thread only lends.     *)
Import(t) ==
  /\ at[t] = "idle"
  /\ syncFile[t] # NoFile
  /\ Ioctl(t)
  /\ UNCHANGED dmaVars

(* SyncRights::export_sync_raw, up to the ioctl.  The kernel opens a sync  *)
(* file and puts it into the payload, or fails; one that says Ok and       *)
(* leaves the -1 there did what the function answers EBADF for.            *)
Export(t) ==
  /\ at[t] = "idle"
  /\ syncFile[t] = NoFile
  /\ \/ /\ \E file \in Files \ open :
             /\ open' = open \cup {file}
             /\ payload' = [payload EXCEPT ![t] = file]
        /\ Succeeds(t)
        /\ Goto(t, "exported")
     \/ /\ failed' = [failed EXCEPT ![t] = EBADF]
        /\ Goto(t, "exported")
        /\ UNCHANGED <<errno, open, payload>>
     \/ /\ \E e \in OsErrors : Fails(t, e)
        /\ Goto(t, "failed")
        /\ UNCHANGED <<open, payload>>
  /\ UNCHANGED <<syncFile, optionsVars>>

(* Mutant: the match looks at the fd that was put in before the ioctl. *)
TakeExportedBefore(t) ==
  /\ at[t] = "exported"
  /\ Return(t, EBADF)
  /\ payload' = [payload EXCEPT ![t] = NoFile]
  /\ UNCHANGED <<errno, failed, open, syncFile, optionsVars>>

(* export_sync_raw after the ioctl, and export_sync, that owns the result. *)
TakeExported(t) ==
  /\ at[t] = "exported"
  /\ Return(t, IF payload[t] = NoFile THEN EBADF ELSE NoError)
  /\ syncFile' = [syncFile EXCEPT ![t] = payload[t]]
  /\ payload' = [payload EXCEPT ![t] = NoFile]
  /\ UNCHANGED <<errno, failed, open, optionsVars>>

(* Err(Errno::last()) of each of the ioctls. *)
AnswerErrno(t) ==
  /\ at[t] = "failed"
  /\ Return(t, Last(t))
  /\ UNCHANGED <<errno, failed, dmaVars>>

(* OwnedFd::drop *)
DropSyncFile(t) ==
  /\ at[t] = "idle"
  /\ syncFile[t] # NoFile
  /\ open' = open \ {syncFile[t]}
  /\ syncFile' = [syncFile EXCEPT ![t] = NoFile]
  /\ UNCHANGED <<errnoVars, payload, optionsVars>>

DmaStep ==
  \/ MakeOptions \/ JoinOptions \/ JoinRights
  \/ \E t \in Threads :
       \/ Sync(t) \/ Import(t)
       \/ Export(t) \/ TakeExported(t)
       \/ AnswerErrno(t)
       \/ DropSyncFile(t)

-----------------------------------------------------------------------------
DmaTypeOK ==
  /\ options \subseteq Options
  /\ wanted \subseteq {"end", "read", "write"}
  /\ open \subseteq Files
  /\ payload \in [Threads -> Files \cup {NoFile}]
  /\ syncFile \in [Threads -> Files \cup {NoFile}]

(* However options are put together, the flags that to_flags gives the     *)
(* kernel are the bits of all that was joined, with a right among them;    *)
(* the | of two rights is never the None that is undefined there.          *)
FlagsAsWanted ==
  /\ \A o \in options :
       /\ ToFlags(o) = wanted
       /\ CanRead(o.rights) <=> "read" \in wanted
       /\ CanWrite(o.rights) <=> "write" \in wanted
       /\ o.rights # {}
  /\ wanted # {} => options # {}

(* Every sync file that an export opened is in the payload of one thread   *)
(* that is about to take it, or owned by one thread, and in no two places: *)
(* export_sync neither loses one nor owns the -1 as if it were one.        *)
FilesOwnedOnce ==
  /\ \A file \in Files :
       file \in open <=> \E t \in Threads : file \in {payload[t], syncFile[t]}
  /\ \A t, u \in Threads :
       /\ payload[t] # NoFile => at[t] = "exported"
       /\ at[t] = "exported" => syncFile[t] = NoFile
       /\ t # u => /\ payload[t] # NoFile => payload[t] \notin {payload[u], syncFile[u]}
                   /\ syncFile[t] # NoFile => syncFile[t] # syncFile[u]
  /\ \A t \in Threads : at[t] = "exported" /\ failed[t] = NoError => payload[t] # NoFile
=============================================================================

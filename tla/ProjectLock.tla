---------------------------- MODULE ProjectLock ----------------------------
(***************************************************************************)
(* The life of the daemon processes of one logical project: the lock file   *)
(* that lets one of them be its authority, the unix socket it listens on,   *)
(* the metadata file clients find it by, and its orderly shutdown.          *)
(*                                                                          *)
(* Every file operation is one action; between two of them any other        *)
(* process may run.  A process is started once and its pid is its own: the  *)
(* reuse of a pid by another program is left out.  A write goes to the file *)
(* that was created, wherever its name has gone in the meantime.            *)
(***************************************************************************)
EXTENDS Naturals, FiniteSets

CONSTANTS
    Processes,    \* the daemon processes ever started for the project
    Nobody        \* the owner of a file that is not there

ASSUME LockAssumption == Nobody \notin Processes

VARIABLES
    lock,         \* the process whose file is at the lock path
    written,      \* the processes whose lock record is written to their file
    socket,       \* the process whose socket is at the endpoint
    metadata,     \* the process whose health is in the metadata file
    pc,           \* where each process is
    attempt,      \* how often its acquisition loop has come round
    seen          \* the process of the record it has read

files == <<lock, written, socket, metadata>>
vars == <<files, pc, attempt, seen>>

Acquiring == {"open", "write", "read", "check", "unlink"}
Running == {"locked", "listen", "publish", "serving"}
Stopping == {"close", "forget", "release", "remove"}
Ended == {"stopped", "crashed"}

(* process.kill(pid, 0): the process has started and has not exited.        *)
Alive(p) == pc[p] \in Acquiring \cup Running \cup Stopping

(* It believes the project is its own, from the return of                   *)
(* acquireProjectLock until it releases the lock.                           *)
Authority(p) == pc[p] \in Running \cup Stopping

Attempts == 3

Init ==
    /\ lock = Nobody
    /\ written = {}
    /\ socket = Nobody
    /\ metadata = Nobody
    /\ pc = [p \in Processes |-> "off"]
    /\ attempt = [p \in Processes |-> 0]
    /\ seen = [p \in Processes |-> Nobody]

Goto(p, l) == pc' = [pc EXCEPT ![p] = l]

Start(p) ==
    /\ pc[p] = "off"
    /\ Goto(p, "open")
    /\ UNCHANGED <<files, attempt, seen>>

(***************************************************************************)
(* acquireProjectLock.                                                     *)
(***************************************************************************)
(* open with "wx": the file is created, empty, or was there.               *)
CreateLock(p) ==
    /\ pc[p] = "open"
    /\ lock = Nobody
    /\ lock' = p
    /\ Goto(p, "write")
    /\ UNCHANGED <<written, socket, metadata, attempt, seen>>

LockExists(p) ==
    /\ pc[p] = "open"
    /\ lock # Nobody
    /\ Goto(p, "read")
    /\ UNCHANGED <<files, attempt, seen>>

WriteLock(p) ==
    /\ pc[p] = "write"
    /\ written' = written \cup {p}
    /\ Goto(p, "locked")
    /\ UNCHANGED <<lock, socket, metadata, attempt, seen>>

(* The loop comes round for a last time, or gives up.                      *)
TryAgain(p) ==
    /\ attempt' = [attempt EXCEPT ![p] = @ + 1]
    /\ Goto(p, IF attempt[p] + 1 < Attempts THEN "open" ELSE "refused")

ReadMissing(p) ==
    /\ pc[p] = "read"
    /\ lock = Nobody
    /\ TryAgain(p)
    /\ UNCHANGED <<files, seen>>

ReadRecord(p) ==
    /\ pc[p] = "read"
    /\ lock \in written
    /\ seen' = [seen EXCEPT ![p] = lock]
    /\ Goto(p, "check")
    /\ UNCHANGED <<files, attempt>>

(* An unreadable record is read again for a while, then the start is refused. *)
(* It is not taken for a stale one, and not read for ever.                    *)
UnreadableRemoved == "unlink"
UnreadableReread == "read"
UnreadableRefused == "refused"

ReadUnreadable(p) ==
    /\ pc[p] = "read"
    /\ lock \notin written \cup {Nobody}
    /\ Goto(p, UnreadableRefused)
    /\ UNCHANGED <<files, attempt, seen>>

CheckOwner(p) ==
    /\ pc[p] = "check"
    /\ Goto(p, IF Alive(seen[p]) THEN "refused" ELSE "unlink")
    /\ UNCHANGED <<files, attempt, seen>>

(* Stale cleanup removes whatever file is at the path by now.              *)
UnlinkStale(p) ==
    /\ pc[p] = "unlink"
    /\ lock' = Nobody
    /\ TryAgain(p)
    /\ UNCHANGED <<written, socket, metadata, seen>>

(***************************************************************************)
(* Starting to serve: the endpoint is cleared and bound, the metadata file  *)
(* is written aside and renamed into place.                                 *)
(***************************************************************************)
ClearEndpoint(p) ==
    /\ pc[p] = "locked"
    /\ socket' = Nobody
    /\ Goto(p, "listen")
    /\ UNCHANGED <<lock, written, metadata, attempt, seen>>

Listen(p) ==
    /\ pc[p] = "listen"
    /\ socket = Nobody
    /\ socket' = p
    /\ Goto(p, "publish")
    /\ UNCHANGED <<lock, written, metadata, attempt, seen>>

(* Another socket has appeared: the start fails and is undone like a stop. *)
ListenFails(p) ==
    /\ pc[p] = "listen"
    /\ socket # Nobody
    /\ Goto(p, "close")
    /\ UNCHANGED <<files, attempt, seen>>

PublishMetadata(p) ==
    /\ pc[p] = "publish"
    /\ metadata' = p
    /\ Goto(p, "serving")
    /\ UNCHANGED <<lock, written, socket, attempt, seen>>

(***************************************************************************)
(* Stopping, on a signal.                                                  *)
(***************************************************************************)
Signal(p) ==
    /\ pc[p] = "serving"
    /\ Goto(p, "close")
    /\ UNCHANGED <<files, attempt, seen>>

CloseEndpoint(p) ==
    /\ pc[p] = "close"
    /\ socket' = Nobody
    /\ Goto(p, "forget")
    /\ UNCHANGED <<lock, written, metadata, attempt, seen>>

(* The metadata file is unlinked; or is left for the next daemon to replace.  *)
MetadataLeft == metadata' = metadata
MetadataRemoved == metadata' = Nobody

RemoveMetadata(p) ==
    /\ pc[p] = "forget"
    /\ MetadataRemoved
    /\ Goto(p, "release")
    /\ UNCHANGED <<lock, written, socket, attempt, seen>>

(* release reads the record and removes the file if the token is its own.  *)
ReadOwnLock(p) ==
    /\ pc[p] = "release"
    /\ Goto(p, IF lock = p THEN "remove" ELSE "stopped")
    /\ UNCHANGED <<files, attempt, seen>>

RemoveLock(p) ==
    /\ pc[p] = "remove"
    /\ lock' = Nobody
    /\ Goto(p, "stopped")
    /\ UNCHANGED <<written, socket, metadata, attempt, seen>>

(* The process is killed; its files stay.                                  *)
Crash(p) ==
    /\ Alive(p)
    /\ Goto(p, "crashed")
    /\ UNCHANGED <<files, attempt, seen>>

(***************************************************************************)
(* The specification.                                                      *)
(***************************************************************************)
Acquire(p) ==
    \/ CreateLock(p) \/ LockExists(p) \/ WriteLock(p)
    \/ ReadMissing(p) \/ ReadRecord(p) \/ ReadUnreadable(p)
    \/ CheckOwner(p) \/ UnlinkStale(p)

Serve(p) == ClearEndpoint(p) \/ Listen(p) \/ ListenFails(p) \/ PublishMetadata(p)

Stop(p) == CloseEndpoint(p) \/ RemoveMetadata(p) \/ ReadOwnLock(p) \/ RemoveLock(p)

Next ==
    \E p \in Processes :
        Start(p) \/ Acquire(p) \/ Serve(p) \/ Signal(p) \/ Stop(p) \/ Crash(p)

Spec == Init /\ [][Next]_vars

(* A process that is acquiring, starting to serve or stopping goes on.     *)
FairSpec == Spec /\ \A p \in Processes : WF_vars(Acquire(p) \/ Serve(p) \/ Stop(p))

(***************************************************************************)
(* Properties.                                                             *)
(***************************************************************************)
TypeOK ==
    /\ lock \in Processes \cup {Nobody}
    /\ written \in SUBSET Processes
    /\ socket \in Processes \cup {Nobody}
    /\ metadata \in Processes \cup {Nobody}
    /\ pc \in [Processes -> Acquiring \cup Running \cup Stopping \cup Ended
                              \cup {"off", "refused"}]
    /\ attempt \in [Processes -> 0..Attempts]
    /\ seen \in [Processes -> Processes \cup {Nobody}]

(* One local daemon is the coordination authority for one logical project  *)
(* (docs/adr/ADR-002-local-daemon-boundary.md).                            *)
OneAuthority == \A p, q \in Processes : Authority(p) /\ Authority(q) => p = q

(* As long as no daemon of the project has ended, its files need no stale     *)
(* cleanup and processes that start together have one authority among them,   *)
(* whose record is at the lock path and on whose socket nobody else listens.  *)
OneAuthorityUntilOneEnds ==
    (\A p \in Processes : pc[p] \notin Ended) =>
        /\ OneAuthority
        /\ \A p \in Processes : Authority(p) => lock = p /\ socket \in {p, Nobody}

(* Daemons that were all stopped in order leave nothing behind, however their *)
(* starts and stops overlapped: the next start meets no stale file.           *)
OrderlyStopLeavesNothing ==
    (\A p \in Processes : pc[p] \in {"off", "refused", "stopped"}) =>
        lock = Nobody /\ socket = Nobody /\ metadata = Nobody

(* A start is settled, one way or the other: no lock file keeps it reading.   *)
StartIsSettled ==
    \A p \in Processes : pc[p] \in Acquiring ~> pc[p] \notin Acquiring
=============================================================================

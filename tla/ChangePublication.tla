------------------------- MODULE ChangePublication -------------------------
(***************************************************************************)
(* The publication of file changes: ChangeRuntime.applyBytes and applyMany  *)
(* with the workspace lock, the precondition checks and the atomic replace  *)
(* they rest on.  Calls of one process share its workspace lock; calls of   *)
(* different processes share the files alone.                               *)
(*                                                                          *)
(* The bytes of a file are told apart by who published them; no two calls   *)
(* publish the same bytes.  Each file operation is one action.  The order   *)
(* in which waiting calls get the lock is left open.                        *)
(***************************************************************************)
EXTENDS Naturals

CONSTANTS
    Calls,        \* the calls of applyBytes or applyMany
    Paths,        \* the files, in the order applyMany sorts them
    Processes,
    ProcessOf,    \* the process each call runs in
    Batches,      \* bound: the sets of paths each call may change
    NoCall        \* the holder of a lock that is free

(* What a file may hold before any call: nothing, or bytes of no call.       *)
Originals == {"absent", "original"}

ASSUME PublicationAssumption ==
    /\ Paths \subseteq Nat
    /\ ProcessOf \in [Calls -> Processes]
    /\ Batches \in [Calls -> SUBSET ((SUBSET Paths) \ {{}})]
    /\ NoCall \notin Calls
    /\ Originals \cap Calls = {}

VARIABLES
    content,      \* the bytes of each file: absent, original or some call's
    holder,       \* the call that holds the workspace lock of each process
    pc,           \* where each call is
    targets,      \* the paths each call changes
    expect,       \* the content each call's preconditions name
    pending,      \* the paths each call has still to check or to publish
    applied,      \* the paths each call reports as APPLIED
    wrote,        \* the paths each call's bytes ever reached
    outcome       \* the receipt of each call, or the error it throws

vars == <<content, holder, pc, targets, expect, pending, applied, wrote, outcome>>

Contents == Originals \cup Calls

Init ==
    /\ content \in [Paths -> Originals]
    /\ holder = [s \in Processes |-> NoCall]
    /\ pc = [c \in Calls |-> "idle"]
    /\ targets = [c \in Calls |-> {}]
    /\ expect = [c \in Calls |-> content]
    /\ pending = [c \in Calls |-> {}]
    /\ applied = [c \in Calls |-> {}]
    /\ wrote = [c \in Calls |-> {}]
    /\ outcome = [c \in Calls |-> "none"]

Goto(c, l) == pc' = [pc EXCEPT ![c] = l]

(* The file a call publishes next, in path order.                          *)
IsNext(c, p) == p \in pending[c] /\ \A q \in pending[c] : p <= q

(* assertPrecondition                                                      *)
Met(c, p) == content[p] = expect[c][p]

Unlocked(c) == [holder EXCEPT ![ProcessOf[c]] = NoCall]

(***************************************************************************)
(* Preparation.  The caller names the versions it has read.                *)
(***************************************************************************)
Propose(c, ts) ==
    /\ pc[c] = "idle"
    /\ targets' = [targets EXCEPT ![c] = ts]
    /\ pending' = [pending EXCEPT ![c] = ts]
    /\ expect' = [expect EXCEPT ![c] = content]
    /\ Goto(c, "preflight")
    /\ UNCHANGED <<content, holder, applied, wrote, outcome>>

(* Every precondition is checked once before anything is written.          *)
Preflight(c, p) ==
    /\ pc[c] = "preflight"
    /\ p \in pending[c]
    /\ Met(c, p)
    /\ IF pending[c] = {p}
       THEN Goto(c, "waiting") /\ pending' = [pending EXCEPT ![c] = targets[c]]
       ELSE pc' = pc /\ pending' = [pending EXCEPT ![c] = @ \ {p}]
    /\ UNCHANGED <<content, holder, targets, expect, applied, wrote, outcome>>

PreflightFails(c, p) ==
    /\ pc[c] = "preflight"
    /\ p \in pending[c]
    /\ ~Met(c, p)
    /\ Goto(c, "ended")
    /\ outcome' = [outcome EXCEPT ![c] = "THROWN"]
    /\ UNCHANGED <<content, holder, targets, expect, pending, applied, wrote>>

(***************************************************************************)
(* publishOne, file by file, each under the workspace lock.                *)
(***************************************************************************)
Lock(c) ==
    /\ pc[c] = "waiting"
    /\ holder[ProcessOf[c]] = NoCall
    /\ holder' = [holder EXCEPT ![ProcessOf[c]] = c]
    /\ Goto(c, "locked")
    /\ UNCHANGED <<content, targets, expect, pending, applied, wrote, outcome>>

(* An error after some file was published yields a PARTIAL receipt, one before *)
(* that is thrown; and the mistake that throws whenever something failed.      *)
ThrownOutcome(c) == "THROWN"
FailureOutcome(c) == IF applied[c] = {} THEN "THROWN" ELSE "PARTIAL"

(* Lock release is in a finally block; or after the last statement.            *)
HeldOnFailure(c) == holder' = holder
FreedOnFailure(c) == holder' = Unlocked(c)

Fail(c) ==
    /\ Goto(c, "ended")
    /\ FreedOnFailure(c)
    /\ outcome' = [outcome EXCEPT ![c] = FailureOutcome(c)]
    /\ UNCHANGED <<targets, expect, pending, applied>>

(* The precondition is checked again under the lock; or the preflight is       *)
(* trusted.                                                                    *)
PreflightTrusted(c, p) == TRUE
StillMet(c, p) == Met(c, p)

Revalidate(c, p) ==
    /\ pc[c] = "locked"
    /\ IsNext(c, p)
    /\ StillMet(c, p)
    /\ Goto(c, "publish")
    /\ UNCHANGED <<content, holder, targets, expect, pending, applied, wrote, outcome>>

RevalidateFails(c, p) ==
    /\ pc[c] = "locked"
    /\ IsNext(c, p)
    /\ ~StillMet(c, p)
    /\ Fail(c)
    /\ UNCHANGED <<content, wrote>>

(* link() creates a file only where there is none; rename() replaces whatever  *)
(* there is.  The mistake renames in both cases.                               *)
RenameAlways(c, p) == TRUE
MayPublish(c, p) == expect[c][p] = "absent" => content[p] = "absent"

Publish(c, p) ==
    /\ pc[c] = "publish"
    /\ IsNext(c, p)
    /\ MayPublish(c, p)
    /\ content' = [content EXCEPT ![p] = c]
    /\ wrote' = [wrote EXCEPT ![c] = @ \cup {p}]
    /\ Goto(c, "verify")
    /\ UNCHANGED <<holder, targets, expect, pending, applied, outcome>>

(* The target has appeared, or the file stays busy.                        *)
PublishFails(c, p) ==
    /\ pc[c] = "publish"
    /\ IsNext(c, p)
    /\ Fail(c)
    /\ UNCHANGED <<content, wrote>>

(* The committed bytes are read back.  The call goes on with its next file,*)
(* and waits for the lock again.                                           *)
Verify(c, p) ==
    /\ pc[c] = "verify"
    /\ IsNext(c, p)
    /\ content[p] = c
    /\ holder' = Unlocked(c)
    /\ applied' = [applied EXCEPT ![c] = @ \cup {p}]
    /\ pending' = [pending EXCEPT ![c] = @ \ {p}]
    /\ IF pending[c] = {p}
       THEN Goto(c, "ended") /\ outcome' = [outcome EXCEPT ![c] = "APPLIED"]
       ELSE Goto(c, "waiting") /\ outcome' = outcome
    /\ UNCHANGED <<content, targets, expect, wrote>>

(* Other bytes are there by now, or the reading itself fails, and the call's   *)
(* own bytes stay in place.                                                    *)
VerifyFails(c, p) ==
    /\ pc[c] = "verify"
    /\ IsNext(c, p)
    /\ Fail(c)
    /\ UNCHANGED <<content, wrote>>

(***************************************************************************)
(* The specification.                                                      *)
(***************************************************************************)
Apply(c) ==
    \/ Lock(c)
    \/ \E p \in Paths :
          \/ Preflight(c, p) \/ PreflightFails(c, p)
          \/ Revalidate(c, p) \/ RevalidateFails(c, p)
          \/ Publish(c, p) \/ PublishFails(c, p)
          \/ Verify(c, p) \/ VerifyFails(c, p)

Next == \E c \in Calls : Apply(c) \/ \E ts \in Batches[c] : Propose(c, ts)

Spec == Init /\ [][Next]_vars

(* The lock is a FIFO queue of promises: a call that waits gets its turn.  Every *)
(* other step is a file operation the call awaits.                               *)
FairSpec == Spec /\ \A c \in Calls : WF_vars(Apply(c)) /\ SF_vars(Lock(c))

(***************************************************************************)
(* Properties.                                                             *)
(***************************************************************************)
TypeOK ==
    /\ content \in [Paths -> Contents]
    /\ holder \in [Processes -> Calls \cup {NoCall}]
    /\ pc \in [Calls -> {"idle", "preflight", "waiting", "locked", "publish",
                         "verify", "ended"}]
    /\ targets \in [Calls -> SUBSET Paths]
    /\ expect \in [Calls -> [Paths -> Contents]]
    /\ pending \in [Calls -> SUBSET Paths]
    /\ applied \in [Calls -> SUBSET Paths]
    /\ wrote \in [Calls -> SUBSET Paths]
    /\ outcome \in [Calls -> {"none", "APPLIED", "PARTIAL", "THROWN"}]

(* A stale writer is rejected instead of silently overwriting the winner's     *)
(* bytes: no file goes from bytes its publisher's precondition does not name   *)
(* (workspace-runtime/src/mutation-mutex.ts).                                  *)
StaleWriterRejected ==
    [][\A p \in Paths : content'[p] # content[p] =>
          \A c \in Calls : content'[p] = c => Met(c, p)]_vars

(* What the lock and the second check are for: no call overwrites the bytes of *)
(* another call of its process without having named them.                      *)
NoLostUpdateInProcess ==
    [][\A c, d \in Calls, p \in Paths :
          /\ content[p] = d /\ content'[p] = c /\ c # d
          /\ ProcessOf[c] = ProcessOf[d]
          => expect[c][p] = d]_vars

(* No-clobber creation: a call that expects no file never replaces one, not    *)
(* even one another process has just created.                                  *)
CreationNeverClobbers ==
    [][\A p \in Paths : content'[p] # content[p] =>
          \A c \in Calls : content'[p] = c /\ expect[c][p] = "absent" =>
              content[p] = "absent"]_vars

(* The paths a call tells its caller it has changed: a thrown error tells of   *)
(* none, a receipt of those it lists as APPLIED.                               *)
Reported(c) == IF outcome[c] = "THROWN" THEN {} ELSE applied[c]

(* What a caller is told of a call: nothing is reported that was not written,  *)
(* APPLIED is all of its paths and PARTIAL a part, and bytes of a call that    *)
(* has ended are only where it reported them.  The one exception is the file a *)
(* call failed on: if it could not be read back, the bytes are there and the   *)
(* caller is told that they are not.                                           *)
ReceiptTellsTruth ==
    \A c \in Calls : outcome[c] # "none" =>
        /\ Reported(c) \subseteq wrote[c]
        /\ \A p \in Paths : content[p] = c =>
              p \in Reported(c) \/ (outcome[c] # "APPLIED" /\ IsNext(c, p))
        /\ outcome[c] = "APPLIED" <=> Reported(c) = targets[c]
        /\ outcome[c] = "PARTIAL" => Reported(c) # {}

(* Every call ends with a receipt or an error, whatever the others do.         *)
EveryCallEnds ==
    \A c \in Calls : pc[c] = "preflight" ~> outcome[c] # "none"
=============================================================================

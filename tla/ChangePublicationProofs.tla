---------------------- MODULE ChangePublicationProofs ----------------------
(***************************************************************************)
(* Proofs about the publication of file changes, for any number of calls,   *)
(* processes and files.                                                     *)
(***************************************************************************)
EXTENDS ChangePublication, TLAPS

InLock(c) == pc[c] \in {"locked", "publish", "verify"}

(* A call between Lock and its end has the lock of its process. *)
LockHeld == \A c \in Calls : InLock(c) => holder[ProcessOf[c]] = c

(* The bytes of p are those of a call of another process than c's. *)
Foreign(c, p) == content[p] \in Calls /\ ProcessOf[content[p]] # ProcessOf[c]

(* What the lock protects: the precondition found to hold still holds when   *)
(* the file is replaced, unless another process has replaced it.              *)
CheckedUnderLock ==
    \A c \in Calls, p \in Paths :
        pc[c] = "publish" /\ IsNext(c, p) => Met(c, p) \/ Foreign(c, p)

(* The books of a call: nothing is written before it has the lock for the    *)
(* first time; then its files are those applied and those pending, and its    *)
(* bytes are in the applied ones and, before they are read back, in the next. *)
Unwritten ==
    \A c \in Calls : pc[c] \in {"idle", "preflight"} =>
        /\ applied[c] = {} /\ wrote[c] = {}
        /\ pc[c] = "preflight" => targets[c] # {}

Books ==
    \A c \in Calls : InLock(c) \/ pc[c] = "waiting" =>
        /\ applied[c] \cap pending[c] = {}
        /\ applied[c] \cup pending[c] = targets[c]
        /\ targets[c] # {}
        /\ wrote[c] = applied[c] \cup
              {p \in pending[c] : pc[c] = "verify" /\ IsNext(c, p)}

NotReported == \A c \in Calls : pc[c] # "ended" => outcome[c] = "none"

(* The bytes of a call are only where it wrote them. *)
BytesKnown == \A c \in Calls, p \in Paths : content[p] = c => p \in wrote[c]

(* The inductive invariant. *)
IInv == /\ TypeOK /\ LockHeld /\ CheckedUnderLock
        /\ Unwritten /\ Books /\ NotReported /\ BytesKnown /\ ReceiptTellsTruth

LEMMA StepCases ==
    ASSUME [Next]_vars
    PROVE  \/ \E c \in Calls :
                 \/ Lock(c)
                 \/ \E ts \in Batches[c] : Propose(c, ts)
                 \/ \E p \in Paths :
                       \/ Preflight(c, p) \/ PreflightFails(c, p)
                       \/ Revalidate(c, p) \/ RevalidateFails(c, p)
                       \/ Publish(c, p) \/ PublishFails(c, p)
                       \/ Verify(c, p) \/ VerifyFails(c, p)
           \/ UNCHANGED vars
  BY DEF Next, Apply

(* One file is next, and none but a call that has the lock writes it. *)
LEMMA NextIsOne ==
    ASSUME NEW c \in Calls, NEW p \in Paths, NEW q \in Paths, IsNext(c, p), IsNext(c, q),
           TypeOK
    PROVE  p = q
  BY PublicationAssumption DEF IsNext, TypeOK

LEMMA TypeStep ==
    ASSUME TypeOK, [Next]_vars
    PROVE  TypeOK'
<1> USE PublicationAssumption DEF TypeOK, Goto, Unlocked, Contents, Originals
<1>1. ASSUME NEW c \in Calls, NEW ts \in Batches[c], Propose(c, ts)
      PROVE  TypeOK'
  BY <1>1 DEF Propose
<1>2. ASSUME NEW c \in Calls, Lock(c)
      PROVE  TypeOK'
  BY <1>2 DEF Lock
<1>3. ASSUME NEW c \in Calls, NEW p \in Paths, Preflight(c, p) \/ PreflightFails(c, p)
      PROVE  TypeOK'
  <2>1. CASE Preflight(c, p)
    <3>1. pc' = pc \/ pc' = [pc EXCEPT ![c] = "waiting"]
      BY <2>1 DEF Preflight
    <3>2. \/ pending' = [pending EXCEPT ![c] = targets[c]]
          \/ pending' = [pending EXCEPT ![c] = @ \ {p}]
      BY <2>1 DEF Preflight
    <3>3. UNCHANGED <<content, holder, targets, expect, applied, wrote, outcome>>
      BY <2>1 DEF Preflight
    <3>4. pc' \in [Calls -> {"idle", "preflight", "waiting", "locked", "publish",
                              "verify", "ended"}]
      BY <3>1
    <3>5. pending' \in [Calls -> SUBSET Paths]
      <4>1. targets[c] \in SUBSET Paths /\ pending[c] \ {p} \in SUBSET Paths
        OBVIOUS
      <4> QED
        BY <3>2, <4>1
    <3> QED
      BY <3>3, <3>4, <3>5
  <2>2. CASE PreflightFails(c, p)
    BY <2>2 DEF PreflightFails
  <2> QED
    BY <1>3, <2>1, <2>2
<1>4. ASSUME NEW c \in Calls, NEW p \in Paths, Revalidate(c, p)
      PROVE  TypeOK'
  BY <1>4 DEF Revalidate
<1>5. ASSUME NEW c \in Calls, NEW p \in Paths, Publish(c, p)
      PROVE  TypeOK'
  BY <1>5 DEF Publish
<1>6. ASSUME NEW c \in Calls, NEW p \in Paths, Verify(c, p)
      PROVE  TypeOK'
  <2>1. pc' = [pc EXCEPT ![c] = "ended"] \/ pc' = [pc EXCEPT ![c] = "waiting"]
    BY <1>6 DEF Verify
  <2>2. outcome' = outcome \/ outcome' = [outcome EXCEPT ![c] = "APPLIED"]
    BY <1>6 DEF Verify
  <2>3. /\ content' = content /\ targets' = targets /\ expect' = expect /\ wrote' = wrote
        /\ holder' = [holder EXCEPT ![ProcessOf[c]] = NoCall]
        /\ applied' = [applied EXCEPT ![c] = @ \cup {p}]
        /\ pending' = [pending EXCEPT ![c] = @ \ {p}]
    BY <1>6 DEF Verify
  <2>4. /\ pc' \in [Calls -> {"idle", "preflight", "waiting", "locked", "publish", "verify", "ended"}]
        /\ outcome' \in [Calls -> {"none", "APPLIED", "PARTIAL", "THROWN"}]
    BY <2>1, <2>2
  <2>5. applied' \in [Calls -> SUBSET Paths] /\ pending' \in [Calls -> SUBSET Paths]
    BY <2>3
  <2>6. holder' \in [Processes -> Calls \cup {NoCall}]
    BY <2>3
  <2> QED
    BY <2>3, <2>4, <2>5, <2>6
<1>7. ASSUME NEW c \in Calls, Fail(c), UNCHANGED <<content, wrote>>
      PROVE  TypeOK'
  BY <1>7 DEF Fail, FreedOnFailure, FailureOutcome
<1>8. CASE UNCHANGED vars
  BY <1>8 DEF vars
<1> QED
  BY StepCases, <1>1, <1>2, <1>3, <1>4, <1>5, <1>6, <1>7, <1>8
     DEF RevalidateFails, PublishFails, VerifyFails

(* The lock excludes. *)
LEMMA Excluded ==
    ASSUME LockHeld, NEW c \in Calls, NEW d \in Calls, InLock(c), InLock(d),
           ProcessOf[c] = ProcessOf[d]
    PROVE  c = d
  BY DEF LockHeld

LEMMA LockStep ==
    ASSUME TypeOK, LockHeld, [Next]_vars
    PROVE  LockHeld'
<1> USE PublicationAssumption DEF TypeOK, LockHeld, InLock, Goto, Unlocked
<1>1. ASSUME NEW c \in Calls, NEW ts \in Batches[c], Propose(c, ts)
      PROVE  LockHeld'
  BY <1>1 DEF Propose
<1>2. ASSUME NEW c \in Calls, Lock(c)
      PROVE  LockHeld'
  BY <1>2 DEF Lock
<1>3. ASSUME NEW c \in Calls, NEW p \in Paths,
             \/ Preflight(c, p) \/ PreflightFails(c, p) \/ Revalidate(c, p) \/ Publish(c, p)
      PROVE  LockHeld'
  BY <1>3 DEF Preflight, PreflightFails, Revalidate, Publish
<1>4. ASSUME NEW c \in Calls, InLock(c), holder' = Unlocked(c),
             pc' = [pc EXCEPT ![c] = "ended"] \/ pc' = [pc EXCEPT ![c] = "waiting"]
      PROVE  LockHeld'
  BY <1>4, Excluded
<1>5. ASSUME NEW c \in Calls, NEW p \in Paths,
             Verify(c, p) \/ RevalidateFails(c, p) \/ PublishFails(c, p) \/ VerifyFails(c, p)
      PROVE  LockHeld'
  BY <1>4, <1>5 DEF Verify, RevalidateFails, PublishFails, VerifyFails, Fail, FreedOnFailure
<1>6. CASE UNCHANGED vars
  BY <1>6 DEF vars
<1> QED
  BY StepCases, <1>1, <1>2, <1>3, <1>5, <1>6

(* A precondition that was found to hold is safe from the steps of the calls  *)
(* of the same process.                                                        *)
LEMMA CheckedStep ==
    ASSUME TypeOK, LockHeld, CheckedUnderLock, [Next]_vars
    PROVE  CheckedUnderLock'
<1> USE PublicationAssumption DEF TypeOK, CheckedUnderLock, InLock, Goto, IsNext, Met, Foreign
<1>1. ASSUME content' = content, UNCHANGED expect,
             \A d \in Calls : pc'[d] = "publish" =>
                 pc'[d] = pc[d] /\ pending'[d] = pending[d]
      PROVE  CheckedUnderLock'
  BY <1>1
<1>2. ASSUME NEW c \in Calls, NEW ts \in Batches[c], Propose(c, ts)
      PROVE  CheckedUnderLock'
  BY <1>2 DEF Propose
<1>3. ASSUME NEW c \in Calls, NEW p \in Paths,
             \/ Preflight(c, p) \/ PreflightFails(c, p) \/ RevalidateFails(c, p)
             \/ PublishFails(c, p) \/ VerifyFails(c, p) \/ Verify(c, p) \/ Lock(c)
      PROVE  CheckedUnderLock'
  <2>1. content' = content /\ expect' = expect
    BY <1>3 DEF Preflight, PreflightFails, RevalidateFails, PublishFails, VerifyFails, Verify,
                Lock, Fail
  <2>2. \A d \in Calls : d # c => pc'[d] = pc[d] /\ pending'[d] = pending[d]
    BY <1>3 DEF Preflight, PreflightFails, RevalidateFails, PublishFails, VerifyFails, Verify,
                Lock, Fail
  <2>3. pc'[c] # "publish"
    BY <1>3 DEF Preflight, PreflightFails, RevalidateFails, PublishFails, VerifyFails, Verify,
                Lock, Fail
  <2> QED
    BY <1>1, <2>1, <2>2, <2>3
<1>4. ASSUME NEW c \in Calls, NEW p \in Paths, Revalidate(c, p)
      PROVE  CheckedUnderLock'
  BY <1>4, NextIsOne DEF Revalidate, StillMet
<1>5. ASSUME NEW c \in Calls, NEW p \in Paths, Publish(c, p)
      PROVE  CheckedUnderLock'
  <2>1. ASSUME NEW d \in Calls, NEW q \in Paths, pc'[d] = "publish", IsNext(d, q)'
        PROVE  Met(d, q)' \/ Foreign(d, q)'
    <3>1. d # c /\ pc[d] = "publish" /\ IsNext(d, q)
      BY <1>5, <2>1 DEF Publish
    <3>2. ProcessOf[d] # ProcessOf[c]
      BY <1>5, <3>1, Excluded DEF Publish
    <3>3. CASE q = p
      BY <1>5, <3>2, <3>3 DEF Publish
    <3>4. CASE q # p
      BY <1>5, <3>1, <3>4 DEF Publish
    <3> QED
      BY <3>3, <3>4
  <2> QED
    BY <2>1
<1>6. CASE UNCHANGED vars
  BY <1>6 DEF vars
<1> QED
  BY StepCases, <1>2, <1>3, <1>4, <1>5, <1>6

(* The bytes of a call get to a file by its own Publish alone. *)
LEMMA BytesStep ==
    ASSUME TypeOK, BytesKnown, [Next]_vars
    PROVE  /\ BytesKnown'
           /\ \A c \in Calls, p \in Paths :
                 content'[p] = c => content[p] = c \/ pc'[c] = "verify"
<1> USE DEF TypeOK, BytesKnown
<1>1. ASSUME NEW c \in Calls, NEW p \in Paths, Publish(c, p)
      PROVE  /\ BytesKnown'
             /\ \A d \in Calls, q \in Paths :
                   content'[q] = d => content[q] = d \/ pc'[d] = "verify"
  BY <1>1 DEF Publish, Goto
<1>2. ASSUME UNCHANGED <<content, wrote>>
      PROVE  /\ BytesKnown'
             /\ \A d \in Calls, q \in Paths :
                   content'[q] = d => content[q] = d \/ pc'[d] = "verify"
  BY <1>2
<1>3. ASSUME NEW c \in Calls, NEW p \in Paths,
             \/ Preflight(c, p) \/ PreflightFails(c, p) \/ Revalidate(c, p)
             \/ RevalidateFails(c, p) \/ PublishFails(c, p) \/ VerifyFails(c, p)
             \/ Verify(c, p)
      PROVE  UNCHANGED <<content, wrote>>
  BY <1>3 DEF Preflight, PreflightFails, Revalidate, RevalidateFails, PublishFails,
              VerifyFails, Verify
<1>4. ASSUME NEW c \in Calls, Lock(c) \/ \E ts \in Batches[c] : Propose(c, ts)
      PROVE  UNCHANGED <<content, wrote>>
  BY <1>4 DEF Lock, Propose
<1>5. CASE UNCHANGED vars
  BY <1>2, <1>5 DEF vars
<1> QED
  BY StepCases, <1>1, <1>2, <1>3, <1>4, <1>5

(* The files a call has written are those it has applied and the one it is   *)
(* about to read back; what it reports in the end follows from that.          *)
LEMMA BooksStep ==
    ASSUME TypeOK, BytesKnown, Unwritten, Books, NotReported, ReceiptTellsTruth, [Next]_vars
    PROVE  Unwritten' /\ Books' /\ NotReported' /\ ReceiptTellsTruth'
<1> DEFINE Account(d) ==
             /\ pc[d] \in {"idle", "preflight"} =>
                   /\ applied[d] = {} /\ wrote[d] = {}
                   /\ pc[d] = "preflight" => targets[d] # {}
             /\ InLock(d) \/ pc[d] = "waiting" =>
                   /\ applied[d] \cap pending[d] = {}
                   /\ applied[d] \cup pending[d] = targets[d]
                   /\ targets[d] # {}
                   /\ wrote[d] = applied[d] \cup
                         {p \in pending[d] : pc[d] = "verify" /\ IsNext(d, p)}
             /\ pc[d] # "ended" => outcome[d] = "none"
             /\ outcome[d] # "none" =>
                   /\ Reported(d) \subseteq wrote[d]
                   /\ \A p \in Paths : content[p] = d =>
                         p \in Reported(d) \/ (outcome[d] # "APPLIED" /\ IsNext(d, p))
                   /\ outcome[d] = "APPLIED" <=> Reported(d) = targets[d]
                   /\ outcome[d] = "PARTIAL" => Reported(d) # {}
<1>1. \A d \in Calls : Account(d)
  BY DEF Unwritten, Books, NotReported, ReceiptTellsTruth
<1>2. SUFFICES \A d \in Calls : Account(d)'
  BY DEF Unwritten, Books, NotReported, ReceiptTellsTruth
<1>3. ASSUME NEW d \in Calls,
             pc'[d] = pc[d], targets'[d] = targets[d], pending'[d] = pending[d],
             applied'[d] = applied[d], wrote'[d] = wrote[d], outcome'[d] = outcome[d]
      PROVE  Account(d)'
  <2>1. outcome[d] # "none" => \A p \in Paths : content'[p] = d => content[p] = d
    BY <1>1, <1>3, BytesStep
  <2>2. Reported(d)' = Reported(d)
    BY <1>3 DEF Reported
  <2> QED
    BY <1>1, <1>3, <2>1, <2>2 DEF InLock, IsNext
<1>4. ASSUME NEW c \in Calls, NEW ts \in Batches[c], Propose(c, ts)
      PROVE  Account(c)'
  <2>1. ts # {}
    BY PublicationAssumption
  <2> QED
    BY <1>1, <1>4, <2>1 DEF Propose, Goto, TypeOK, InLock
<1>5. ASSUME NEW c \in Calls,
             Lock(c) \/ \E p \in Paths : Preflight(c, p) \/ Revalidate(c, p)
      PROVE  Account(c)'
  BY <1>1, <1>5 DEF Preflight, Lock, Revalidate, Goto, TypeOK, InLock, IsNext
<1>6. ASSUME NEW c \in Calls, NEW p \in Paths, Publish(c, p)
      PROVE  Account(c)'
  <2>1. /\ pc[c] = "publish" /\ pc'[c] = "verify"
        /\ pending'[c] = pending[c] /\ applied'[c] = applied[c] /\ targets'[c] = targets[c]
        /\ outcome'[c] = outcome[c] /\ wrote'[c] = wrote[c] \cup {p}
    BY <1>6 DEF Publish, Goto, TypeOK
  <2>2. {q \in pending[c] : IsNext(c, q)} = {p}
    BY <1>6, NextIsOne DEF Publish, TypeOK, IsNext
  <2>3. {q \in pending[c] : IsNext(c, q)}' = {p}
    BY <2>1, <2>2 DEF IsNext
  <2>4. wrote[c] = applied[c]
    <3>1. wrote[c] = applied[c] \cup {q \in pending[c] : pc[c] = "verify" /\ IsNext(c, q)}
      BY <1>1, <2>1 DEF InLock
    <3> QED
      BY <2>1, <3>1
  <2>5. outcome[c] = "none"
    BY <1>1, <2>1
  <2>6. /\ applied[c] \cap pending[c] = {} /\ applied[c] \cup pending[c] = targets[c]
        /\ targets[c] # {}
    BY <1>1, <2>1 DEF InLock
  <2> QED
    BY <2>1, <2>3, <2>4, <2>5, <2>6 DEF InLock
<1>7. ASSUME NEW c \in Calls, NEW p \in Paths, Verify(c, p)
      PROVE  Account(c)'
  <2>1. /\ pc[c] = "verify" /\ p \in pending[c] /\ wrote'[c] = wrote[c]
        /\ applied'[c] = applied[c] \cup {p} /\ pending'[c] = pending[c] \ {p}
        /\ targets'[c] = targets[c] /\ content' = content
    BY <1>7 DEF Verify, TypeOK, IsNext
  <2>2. \/ pending[c] = {p} /\ pc'[c] = "ended" /\ outcome'[c] = "APPLIED"
        \/ pending[c] # {p} /\ pc'[c] = "waiting" /\ outcome'[c] = outcome[c]
    BY <1>7 DEF Verify, Goto, TypeOK
  <2>3. {q \in pending[c] : IsNext(c, q)} = {p}
    BY <1>7, NextIsOne DEF Verify, TypeOK, IsNext
  <2>4. wrote[c] = applied[c] \cup {p}
    BY <1>1, <2>1, <2>3 DEF InLock
  <2>5. outcome[c] = "none"
    BY <1>1, <2>1
  <2>6. /\ applied[c] \cap pending[c] = {} /\ applied[c] \cup pending[c] = targets[c]
        /\ targets[c] # {}
    BY <1>1, <2>1 DEF InLock
  <2>7. \A q \in Paths : content'[q] = c => q \in wrote[c]
    BY <2>1 DEF BytesKnown
  <2> QED
    BY <2>1, <2>2, <2>4, <2>5, <2>6, <2>7 DEF InLock, Reported
(* A failure: bytes the caller is not told about are in the file that failed. *)
<1>8. ASSUME NEW c \in Calls, NEW p \in Paths,
             RevalidateFails(c, p) \/ PublishFails(c, p) \/ VerifyFails(c, p)
      PROVE  Account(c)'
  <2>1. /\ InLock(c) /\ p \in pending[c] /\ pc'[c] = "ended"
        /\ applied'[c] = applied[c] /\ targets'[c] = targets[c] /\ wrote'[c] = wrote[c]
        /\ content' = content /\ pending' = pending /\ IsNext(c, p)
        /\ outcome'[c] = FailureOutcome(c)
    BY <1>8 DEF RevalidateFails, PublishFails, VerifyFails, Fail, Goto, TypeOK, IsNext, InLock
  <2>2. /\ applied[c] \cap pending[c] = {} /\ applied[c] \cup pending[c] = targets[c]
        /\ targets[c] # {}
    BY <1>1, <2>1
  <2>3. \/ wrote[c] = applied[c]
        \/ wrote[c] = applied[c] \cup {p}
    <3>1. CASE pc[c] # "verify"
      <4>1. wrote[c] = applied[c] \cup {q \in pending[c] : pc[c] = "verify" /\ IsNext(c, q)}
        BY <1>1, <2>1
      <4> QED
        BY <3>1, <4>1
    <3>2. CASE pc[c] = "verify"
      <4>1. VerifyFails(c, p)
        BY <1>8, <3>2 DEF RevalidateFails, PublishFails
      <4>2. {q \in pending[c] : IsNext(c, q)} = {p}
        BY <4>1, NextIsOne DEF VerifyFails, TypeOK, IsNext
      <4>3. wrote[c] = applied[c] \cup {p}
        BY <1>1, <2>1, <3>2, <4>2
      <4> QED
        BY <4>3
    <3> QED
      BY <3>1, <3>2
  <2>4. \A q \in Paths : content'[q] = c => q \in applied[c] \/ IsNext(c, q)'
    BY <2>1, <2>3 DEF BytesKnown, IsNext
  <2>5. Reported(c)' = applied[c]
    BY <2>1 DEF Reported, FailureOutcome
  <2>6. applied[c] \subseteq wrote[c] /\ applied[c] # targets[c] /\ outcome'[c] # "APPLIED"
    BY <2>1, <2>2, <2>3 DEF FailureOutcome
  <2> QED
    BY <2>1, <2>4, <2>5, <2>6 DEF FailureOutcome, InLock
<1>9. ASSUME NEW c \in Calls, NEW p \in Paths, PreflightFails(c, p)
      PROVE  Account(c)'
  <2>1. /\ pc[c] = "preflight" /\ pc'[c] = "ended" /\ outcome'[c] = "THROWN"
        /\ applied'[c] = applied[c] /\ targets'[c] = targets[c] /\ wrote'[c] = wrote[c]
        /\ content' = content
    BY <1>9 DEF PreflightFails, Goto, TypeOK
  <2>2. applied[c] = {} /\ wrote[c] = {} /\ targets[c] # {}
    BY <1>1, <2>1
  <2>3. \A q \in Paths : content'[q] # c
    BY <2>1, <2>2 DEF BytesKnown
  <2> QED
    BY <2>1, <2>2, <2>3 DEF Reported, InLock
<1>10. ASSUME NEW c \in Calls, NEW d \in Calls, d # c,
              \/ Lock(c) \/ \E ts \in Batches[c] : Propose(c, ts)
              \/ \E p \in Paths :
                    \/ Preflight(c, p) \/ PreflightFails(c, p) \/ Revalidate(c, p)
                    \/ Publish(c, p) \/ Verify(c, p) \/ RevalidateFails(c, p)
                    \/ PublishFails(c, p) \/ VerifyFails(c, p)
       PROVE  Account(d)'
  <2>1. /\ pc'[d] = pc[d] /\ targets'[d] = targets[d] /\ pending'[d] = pending[d]
        /\ applied'[d] = applied[d] /\ wrote'[d] = wrote[d] /\ outcome'[d] = outcome[d]
    BY <1>10 DEF Propose, Preflight, PreflightFails, Lock, Revalidate, Publish, Verify,
                 RevalidateFails, PublishFails, VerifyFails, Fail, Goto, TypeOK
  <2> QED
    BY <1>3, <2>1
<1>11. CASE UNCHANGED vars
  BY <1>3, <1>11 DEF vars
<1> HIDE DEF Account
<1>12. ASSUME NEW c \in Calls, NEW d \in Calls,
              \/ Lock(c) \/ \E ts \in Batches[c] : Propose(c, ts)
              \/ \E p \in Paths :
                    \/ Preflight(c, p) \/ PreflightFails(c, p) \/ Revalidate(c, p)
                    \/ Publish(c, p) \/ Verify(c, p) \/ RevalidateFails(c, p)
                    \/ PublishFails(c, p) \/ VerifyFails(c, p)
       PROVE  Account(d)'
  <2>1. CASE d = c
    BY <1>12, <2>1, <1>4, <1>5, <1>6, <1>7, <1>8, <1>9
  <2>2. CASE d # c
    BY <1>12, <2>2, <1>10
  <2> QED
    BY <2>1, <2>2
<1> QED
  BY StepCases, <1>11, <1>12

LEMMA Invariance == Spec => []IInv
<1>1. Init => IInv
  BY PublicationAssumption
     DEF Init, IInv, TypeOK, Contents, Originals, LockHeld, InLock, CheckedUnderLock, Unwritten,
         Books, NotReported, BytesKnown, ReceiptTellsTruth
<1>2. IInv /\ [Next]_vars => IInv'
  BY TypeStep, LockStep, CheckedStep, BytesStep, BooksStep DEF IInv
<1> QED
  BY <1>1, <1>2, PTL DEF Spec

(* Only Publish changes a file, and it writes its own bytes. *)
LEMMA OnlyPublishWrites ==
    ASSUME TypeOK, [Next]_vars, NEW p \in Paths, NEW c \in Calls,
           content'[p] # content[p], content'[p] = c
    PROVE  Publish(c, p)
<1> DEFINE Other(d, q) ==
             \/ Preflight(d, q) \/ PreflightFails(d, q) \/ Revalidate(d, q)
             \/ RevalidateFails(d, q) \/ PublishFails(d, q) \/ Verify(d, q) \/ VerifyFails(d, q)
             \/ Lock(d) \/ \E ts \in Batches[d] : Propose(d, ts)
<1>1. PICK d \in Calls, q \in Paths : Publish(d, q)
  <2>1. \A d \in Calls, q \in Paths : ~Other(d, q)
    BY DEF Preflight, PreflightFails, Revalidate, RevalidateFails, PublishFails, Verify,
           VerifyFails, Lock, Propose
  <2>2. ~UNCHANGED vars
    BY DEF vars
  <2> QED
    BY StepCases, <2>1, <2>2
<1>2. q = p /\ d = c
  BY <1>1 DEF Publish, TypeOK
<1> QED
  BY <1>1, <1>2

(* No call overwrites what another call of its process has published, without *)
(* having named it, whatever other processes do.                               *)
THEOREM NoLostUpdate == Spec => NoLostUpdateInProcess
<1>1. IInv /\ [Next]_vars =>
        \A c, d \in Calls, p \in Paths :
          /\ content[p] = d /\ content'[p] = c /\ c # d
          /\ ProcessOf[c] = ProcessOf[d]
          => expect[c][p] = d
  BY OnlyPublishWrites DEF IInv, CheckedUnderLock, Foreign, Met, Publish
<1>2. IInv /\ [Next]_vars =>
        [\A c, d \in Calls, p \in Paths :
          /\ content[p] = d /\ content'[p] = c /\ c # d
          /\ ProcessOf[c] = ProcessOf[d]
          => expect[c][p] = d]_vars
  BY <1>1
<1> QED
  BY <1>2, Invariance, PTL DEF Spec, NoLostUpdateInProcess

(* A creation never replaces a file. *)
THEOREM NoClobber == Spec => CreationNeverClobbers
<1>1. IInv /\ [Next]_vars =>
        \A p \in Paths : content'[p] # content[p] =>
          \A c \in Calls : content'[p] = c /\ expect[c][p] = "absent" =>
              content[p] = "absent"
  BY OnlyPublishWrites DEF IInv, Publish, MayPublish
<1>2. IInv /\ [Next]_vars =>
        [\A p \in Paths : content'[p] # content[p] =>
          \A c \in Calls : content'[p] = c /\ expect[c][p] = "absent" =>
              content[p] = "absent"]_vars
  BY <1>1
<1> QED
  BY <1>2, Invariance, PTL DEF Spec, CreationNeverClobbers

(* What a call tells its caller is true, whatever the calls of its own and of  *)
(* other processes did, but for the file whose read-back failed.               *)
THEOREM ReceiptsAreTrue == Spec => []ReceiptTellsTruth
<1>1. IInv => ReceiptTellsTruth
  BY DEF IInv
<1> QED
  BY <1>1, Invariance, PTL
=============================================================================

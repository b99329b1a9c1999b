------------------------------ MODULE MCDaemon ------------------------------
(* The parts of the daemon that do not share state, in one run: a behaviour is one
   of one part, and the others stay where they begin. *)
EXTENDS ProjectLock, DaemonRequests, CodeState, SyncFeed, FileTools, ChangeAdmission, ObservedEvidence

VARIABLE part

lockVars == vars
Parts == {"lock", "requests", "code", "sync", "files", "admission", "evidence"}
(* Where the calls, the code state, the file tools and the observations stay when they are not the
   part.  Of the observations the tasks of PN8 begin with different kinds, and those of PN6 with
   the same one: an edit turns either into the other. *)
NoRequests == \A k \in Requests : client[k].method = "read"
NoCodeState == disk = Nothing /\ index = Nothing
NoFileTools == policy = [mode |-> "read-only", path |-> "outside"] /\ file = NoFile
NoObservations == hypothesis = "PN6" /\ worktree = [task |-> [t \in ObservedTasks |-> FirstKey], receipt |-> [t \in ObservedTasks |-> NoReceipt], code |-> 0]

DifferentKinds == IsInjective(worktree.task)

DaemonInit ==
    /\ part \in Parts /\ Init /\ RequestsInit /\ CodeStateInit /\ SyncInit /\ FilesInit /\ AdmissionInit /\ EvidenceInit
    /\ part = "requests" \/ NoRequests
    /\ part = "code" \/ NoCodeState
    /\ part = "files" \/ NoFileTools
    /\ IF part = "evidence" THEN DifferentKinds <=> hypothesis = "PN8" ELSE NoObservations

LockStep == part = "lock" /\ Next /\ UNCHANGED <<part, requestVars, codeVars, syncVars, fileVars, admissionVars, evidenceVars>>
RequestStep == part = "requests" /\ RequestsNext /\ UNCHANGED <<part, lockVars, codeVars, syncVars, fileVars, admissionVars, evidenceVars>>
CodeStep == part = "code" /\ CodeStateNext /\ UNCHANGED <<part, lockVars, requestVars, syncVars, fileVars, admissionVars, evidenceVars>>
SyncStep == part = "sync" /\ SyncNext /\ UNCHANGED <<part, lockVars, requestVars, codeVars, fileVars, admissionVars, evidenceVars>>
FileStep == part = "files" /\ FilesNext /\ UNCHANGED <<part, lockVars, requestVars, codeVars, syncVars, admissionVars, evidenceVars>>
AdmissionStep == part = "admission" /\ AdmissionNext
                 /\ UNCHANGED <<part, lockVars, requestVars, codeVars, syncVars, fileVars, evidenceVars>>
EvidenceStep == part = "evidence" /\ EvidenceNext
                /\ UNCHANGED <<part, lockVars, requestVars, codeVars, syncVars, fileVars, admissionVars>>
DaemonNext == LockStep \/ RequestStep \/ CodeStep \/ SyncStep \/ FileStep \/ AdmissionStep \/ EvidenceStep

daemonVars == <<part, lockVars, requestVars, codeVars, syncVars, fileVars, admissionVars, evidenceVars>>

(* The fairness of the parts: that of FairSpec, RequestsFairness and CodeStateFairness. *)
LockWork(p) == part = "lock" /\ (Acquire(p) \/ Serve(p) \/ Stop(p)) /\ UNCHANGED part
RequestWork(k) == part = "requests" /\ ClientTimers(k) /\ UNCHANGED part
CodeWork == part = "code" /\ Work /\ UNCHANGED part
CodeFlush == part = "code" /\ Flush /\ UNCHANGED part
CodeReconcile == part = "code" /\ ReconcileDue /\ UNCHANGED part

DaemonSpec ==
    /\ DaemonInit /\ [][DaemonNext]_daemonVars
    /\ \A p \in Processes : WF_lockVars(LockWork(p))
    /\ \A k \in Requests : WF_requestVars(RequestWork(k))
    /\ WF_codeVars(CodeWork) /\ WF_codeVars(CodeFlush) /\ WF_codeVars(CodeReconcile)

(* The types of all parts, that of the lock first. *)
DaemonTypesOK == TypeOK /\ RequestsTypeOK /\ CodeStateTypeOK /\ SyncTypeOK /\ FilesTypeOK /\ AdmissionTypeOK
                 /\ EvidenceTypeOK

(* Once the files stand still the index becomes them, its imports are theirs, and the
   impacts follow. *)
CodeStateConverges == IndexConverges /\ EdgesConverge /\ ImpactsFollow

(* What lets a change through was earned: an admission by the sealed record of exactly its files,
   a release by the observations of the commit it is made of. *)
AdmissionsAreEarned == AllowedIsSealed /\ ReleasedIsObserved

MCDependsOn == {<<1, 2>>}
(* The first file imports the second, in its first content. *)
MCImports == {<<1, 1, 2>>}
=============================================================================

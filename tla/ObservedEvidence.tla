--------------------------- MODULE ObservedEvidence ---------------------------
(* How the observations of tasks become a release.  A task is defined and registered in
   git by a receipt of its definition; a script runs its two arms in fresh worktrees and
   writes a result; another one aggregates the results into evidence for the candidate;
   the last one demands that evidence of the release.  Developers edit and commit in
   between, and a script may fail at every step.
   One of the hypotheses PN6 and PN8 is observed in a behaviour, and the evidence for
   the other gates is taken for accepted.  A definition stands for what the validators
   and the gates tell apart: its heterogeneityKey, or that it is malformed.  History is
   linear, and the result files are written by the scripts alone. *)
EXTENDS Integers, FiniteSets, Sequences, FiniteSetsExt

CONSTANTS
    NumTasks,           \* the tasks, in the order of their names
    Keys,               \* values of heterogeneityKey
    MinQualified,       \* minQualified of the aggregation
    MaxEdits,           \* bound: edits of the worktree
    MaxHistory,         \* bound
    MaxObservations     \* bound: runs of a pair of arms

ASSUME EvidenceAssumption == {NumTasks, MaxHistory} \subseteq Nat

VARIABLES
    hypothesis,     \* "PN6" or "PN8": taskClass and primaryHypothesis of the tasks
    worktree,       \* the definitions, the definitions the receipts are of, and the code
    history,        \* the commits: each the worktree it holds
    observation,    \* the run under way
    results,        \* the result file of every task
    aggregation,    \* aggregate-observed-evidence-v2 at work
    evidence,       \* evidence/PN6.json or PN8.json
    release,        \* create-production-next-manifest at work, and what it has released
    observed,       \* the complete observations there were
    done            \* the bounded things done so far

evidenceVars == <<hypothesis, worktree, history, observation, results, aggregation, evidence,
                  release, observed, done>>

ObservedTasks == 1..NumTasks
Malformed == "malformed"
NoReceipt == "no receipt"
Definitions == Keys \union {Malformed}
Trees == [task : [ObservedTasks -> Definitions], receipt : [ObservedTasks -> Definitions \union {NoReceipt}], code : 0..1]

(* What the two arms come to, control and then treatment: an arm of PN6 may pass without
   a repair, one of PN8 has failed first and was repaired once. *)
ArmOutcomes == [repairs : IF hypothesis = "PN6" THEN 0..1 ELSE {1}, accepted : BOOLEAN]
ArmPairs == ArmOutcomes \X ArmOutcomes

NotRunning == [at |-> "idle", task |-> 1, read |-> Malformed, def |-> Malformed, commit |-> 0, started |-> 0]
(* The result of a pair that has not completed is not looked at any further. *)
NoResult == [completed |-> FALSE, blob |-> Malformed, commit |-> 0, started |-> 0, arms |-> <<>>]
NotAggregating == [at |-> "idle", next |-> 1, qualified |-> {}, head |-> 0]
NoEvidence == [accepted |-> FALSE, head |-> 0, source |-> "none"]
NotReleasing == [at |-> "idle", head |-> 0]

(* The keys are interchangeable. *)
FirstKey == CHOOSE k \in Keys : TRUE

EvidenceInit ==
    /\ hypothesis \in {"PN6", "PN8"}
    /\ worktree \in {w \in Trees : w.code = 0 /\ w.task \in [ObservedTasks -> Keys] /\ w.task[1] = FirstKey
                         /\ w.receipt \in {w.task, [t \in ObservedTasks |-> NoReceipt]}}
    /\ history = <<worktree>>
    /\ observation = NotRunning /\ results = [t \in ObservedTasks |-> NoResult]
    /\ aggregation = NotAggregating /\ evidence = NoEvidence /\ release = NotReleasing
    /\ observed = {} /\ done = [edits |-> 0, observations |-> 0]

-----------------------------------------------------------------------------
(* Developers. *)
Tip == Len(history)
CandidateClean == worktree = history[Tip]

Edit(w) ==
    /\ done.edits < MaxEdits /\ w # worktree
    /\ worktree' = w /\ done' = [done EXCEPT !.edits = @ + 1]
    /\ UNCHANGED <<hypothesis, history, observation, results, aggregation, evidence, release, observed>>

(* Revise does both at once, which saves the model an edit. *)
Define(t, d) == Edit([worktree EXCEPT !.task[t] = d])
Revise(t, d) == Edit([worktree EXCEPT !.task[t] = d, !.receipt[t] = d])
WriteReceipt(t) == Edit([worktree EXCEPT !.receipt[t] = worktree.task[t]])
ChangeCode == Edit([worktree EXCEPT !.code = 1 - @])

CommitCandidate ==
    /\ Tip <= MaxHistory /\ ~CandidateClean
    /\ history' = Append(history, worktree)
    /\ UNCHANGED <<hypothesis, worktree, observation, results, aggregation, evidence, release, observed, done>>

-----------------------------------------------------------------------------
(* verifyObservedRegistration of the definition d of task t, for a run that started when
   there were the first `started' commits: the commit that changed the receipt last
   holds this definition and a receipt of it, and so does the worktree.
   The mistake is content with a receipt. *)
ReceiptCommits(t) ==
    {n \in 1..Tip : history[n].receipt[t] # IF n = 1 THEN NoReceipt ELSE history[n - 1].receipt[t]}
RegistrationCommit(t) == IF ReceiptCommits(t) = {} THEN 0 ELSE Max(ReceiptCommits(t))

ReceiptExists(t, d, started) == RegistrationCommit(t) \in 1..started
Preregistered(t, d, started) ==
    /\ RegistrationCommit(t) \in 1..started
    /\ history[RegistrationCommit(t)].task[t] = d
    /\ history[RegistrationCommit(t)].receipt[t] = d
    /\ worktree.task[t] = d

(* validateObservedTask *)
WellFormed(d) == d # Malformed

-----------------------------------------------------------------------------
(* run-real-track-a-pair and run-live-repair-pair-v2.  A run that throws leaves the
   result of an earlier one where it is. *)
Abandoned == observation' = NotRunning /\ UNCHANGED <<results, observed>>
OthersStay == UNCHANGED <<hypothesis, worktree, history, aggregation, evidence, release>>

ReadTask(t) ==
    /\ observation.at = "idle" /\ done.observations < MaxObservations
    /\ observation' = [NotRunning EXCEPT !.at = "verify", !.task = t,
                                         !.read = worktree.task[t], !.started = Tip]
    /\ done' = [done EXCEPT !.observations = @ + 1]
    /\ UNCHANGED <<results, observed>> /\ OthersStay

(* The run of PN6 leaves it to dogfood-observed-paired-v2, which reads the task again,
   takes the time again, and refuses a definition that is not valid. *)
VerifyRegistration ==
    /\ observation.at = "verify"
    /\ LET t == observation.task
           d == IF hypothesis = "PN6" THEN worktree.task[t] ELSE observation.read
           started == IF hypothesis = "PN6" THEN Tip ELSE observation.started
       IN IF Preregistered(t, d, started) /\ (hypothesis = "PN6" => WellFormed(d))
          THEN /\ observation' = [observation EXCEPT !.at = "arms", !.def = d, !.started = started,
                                                     !.commit = RegistrationCommit(t)]
               /\ UNCHANGED <<results, observed>>
          ELSE Abandoned
    /\ UNCHANGED done /\ OthersStay

Control(arms) == arms[1]
Treatment(arms) == arms[2]

(* PN6 needs both arms accepted; PN8 records what they came to. *)
Completed(arms) == hypothesis = "PN8" \/ (Control(arms).accepted /\ Treatment(arms).accepted)

(* The arms run in worktrees of their own, and the result is validated and written.  A
   worktree that is not fresh, a setup that fails, output that is not captured, a
   failure that is not reproduced or a regression ends the run without a result. *)
RunArms ==
    /\ observation.at = "arms"
    /\ LET o == observation IN
       \/ \E arms \in ArmPairs :
             /\ WellFormed(o.read)
             /\ results' = [results EXCEPT ![o.task] =
                   IF Completed(arms)
                   THEN [completed |-> TRUE, blob |-> history[o.commit].task[o.task],
                         commit |-> o.commit, started |-> o.started, arms |-> arms]
                   ELSE NoResult]
             /\ observed' = IF Completed(arms)
                            THEN observed \union {[task |-> o.task, def |-> o.def, started |-> o.started, arms |-> arms]}
                            ELSE observed
             /\ observation' = NotRunning
       \/ Abandoned
    /\ UNCHANGED done /\ OthersStay

-----------------------------------------------------------------------------
(* aggregate-observed-evidence-v2.  assessPair of a task and its result as they are
   now. *)
Qualified(t) ==
    LET r == results[t] IN
    /\ r.completed /\ WellFormed(worktree.task[t])
    /\ Preregistered(t, worktree.task[t], r.started)
    /\ r.commit = RegistrationCommit(t)
    /\ history[r.commit].task[t] = r.blob

AsPair(t) == [task |-> t, def |-> worktree.task[t], started |-> results[t].started, arms |-> results[t].arms]

Aggregates == UNCHANGED <<hypothesis, worktree, history, observation, results, release, observed, done>>

LoadPair ==
    /\ aggregation.next \in ObservedTasks
    /\ LET t == aggregation.next
       IN aggregation' = [aggregation EXCEPT !.at = "loading", !.next = @ + 1,
                             !.qualified = IF Qualified(t) THEN @ \union {AsPair(t)} ELSE @]
    /\ UNCHANGED evidence /\ Aggregates

(* The evidence is bound to HEAD, and refused for a candidate that is not clean... *)
BindCandidate ==
    /\ aggregation.at = "loading" /\ aggregation.next \notin ObservedTasks
    /\ aggregation' = IF CandidateClean THEN [aggregation EXCEPT !.at = "bound", !.head = Tip]
                      ELSE NotAggregating
    /\ UNCHANGED evidence /\ Aggregates

KeysOf(pairs) == {pair.def : pair \in pairs}
RepairsOf(pairs, Arm(_)) == MapThenSumSet(LAMBDA pair : Arm(pair.arms).repairs, pairs)
AcceptedBy(pairs, Arm(_)) == Cardinality({pair \in pairs : Arm(pair.arms).accepted})

(* byHypothesis.targetMet; the mistake counts the tasks alone. *)
EnoughTasks(pairs) == Cardinality(pairs) >= MinQualified
TargetMet(pairs) == Cardinality(pairs) >= MinQualified /\ Cardinality(KeysOf(pairs)) >= MinQualified

(* outcomeMet of the envelopes: recall is an outcome of the routes of the tasks. *)
OutcomeMet(pairs, recallKept) ==
    IF hypothesis = "PN6" THEN recallKept /\ RepairsOf(pairs, Treatment) < RepairsOf(pairs, Control)
    ELSE /\ AcceptedBy(pairs, Treatment) > AcceptedBy(pairs, Control)
         /\ AcceptedBy(pairs, Treatment) = Cardinality(pairs)

(* ... before the state of the sources is digested, and the envelope written. *)
EmitEvidence(recallKept) ==
    /\ aggregation.at = "bound"
    /\ evidence' = IF TargetMet(aggregation.qualified) /\ OutcomeMet(aggregation.qualified, recallKept)
                   THEN [accepted |-> TRUE, head |-> aggregation.head, source |-> worktree]
                   ELSE NoEvidence
    /\ aggregation' = NotAggregating
    /\ Aggregates

-----------------------------------------------------------------------------
(* create-production-next-manifest: the candidate is clean; the promotion gate, a process
   of its own, accepts the evidence for HEAD; and the script accepts it once more, for
   the commit it releases: HEAD, or the one the environment names. *)
BoundTo(commit) == evidence.accepted /\ evidence.head = commit /\ evidence.source = worktree

Releases == UNCHANGED <<hypothesis, worktree, history, observation, results, aggregation, evidence, observed, done>>

BeginRelease ==
    /\ release.at = "idle" /\ CandidateClean
    /\ release' = [release EXCEPT !.at = "promote"] /\ Releases

Promote ==
    /\ release.at = "promote"
    /\ release' = IF BoundTo(Tip) THEN [release EXCEPT !.at = "write"] ELSE NotReleasing
    /\ Releases

WriteManifest(commit) ==
    /\ release.at = "write"
    /\ release' = IF BoundTo(commit) THEN [at |-> "released", head |-> commit] ELSE NotReleasing
    /\ Releases

EvidenceNext ==
    \/ \E t \in ObservedTasks : \E d \in Definitions : Define(t, d) \/ Revise(t, d)
    \/ \E t \in ObservedTasks : WriteReceipt(t) \/ ReadTask(t)
    \/ ChangeCode \/ CommitCandidate
    \/ VerifyRegistration \/ RunArms
    \/ LoadPair \/ BindCandidate \/ \E recallKept \in BOOLEAN : EmitEvidence(recallKept)
    \/ BeginRelease \/ Promote \/ \E commit \in 1..Tip : WriteManifest(commit)

EvidenceSpec == EvidenceInit /\ [][EvidenceNext]_evidenceVars

-----------------------------------------------------------------------------
Results == [completed : BOOLEAN, blob : Definitions, commit : 0..(MaxHistory + 1),
            started : 0..(MaxHistory + 1), arms : {<<>>} \union ArmPairs]

EvidenceTypeOK ==
    /\ worktree \in Trees /\ \A n \in 1..Tip : history[n] \in Trees
    /\ observation.at \in {"idle", "verify", "arms"}
    /\ results \in [ObservedTasks -> Results]
    /\ \A pair \in aggregation.qualified \union observed : pair.task \in ObservedTasks /\ pair.arms \in ArmPairs
    /\ aggregation.head \in 0..Tip /\ evidence.head \in 0..Tip
    /\ release.at \in {"idle", "promote", "write", "released"} /\ release.head \in 0..Tip

(* What is released was observed: there are enough tasks of different kinds, each of them
   run to its end after a commit before the release had registered exactly what was
   run, and the treatment did better in them.  Whatever was edited, committed, run
   again and aggregated in between (docs/production-next/OBSERVED_EVIDENCE.md). *)
RegisteredBefore(pair) ==
    \E n \in 1..pair.started :
        history[n].task[pair.task] = pair.def /\ history[n].receipt[pair.task] = pair.def

ReleasedIsObserved ==
    release.at = "released" =>
        \E pairs \in SUBSET observed :
            /\ Cardinality({pair.task : pair \in pairs}) = Cardinality(pairs)
            /\ Cardinality(KeysOf(pairs)) >= MinQualified
            /\ \A pair \in pairs : pair.started <= release.head /\ RegisteredBefore(pair)
            /\ OutcomeMet(pairs, TRUE)
=============================================================================

---------------------------- MODULE ChangeAdmission ----------------------------
(* How a change of source files is admitted.  The change runtime publishes files and
   hands out receipts; clients record receipts with the daemon (change_record); the
   daemon classifies what it observes of the files against the recorded receipts; the
   report is exported, the tree committed, and two scripts seal and verify a range of
   commits.  The scripts, the daemon and the editors run in any order.
   The worktree, the project and the authority key are one; a content has one
   fingerprint, a commit is its place in the history, a digest of a receipt its place
   among the receipts. *)
EXTENDS Integers, FiniteSets, Sequences

CONSTANTS
    Sources,            \* source files of the worktree
    MaxContent,         \* bound: contents a file can have, which may come back
    MaxPublications,    \* bound
    MaxForeignEdits,    \* bound: edits made outside of the change runtime
    MaxCommits, MaxSeals, MaxReports,   \* bounds
    MaxAge              \* maxAgeMs: ticks for which an attestation is good

ASSUME AdmissionAssumption == {MaxContent, MaxAge} \subseteq Nat

VARIABLES
    tree,       \* the files
    indexed,    \* the fingerprints in the code-state index
    previous,   \* ProvenanceReconciler.previous
    issued,     \* the receipts the change runtime has handed out
    receipts,   \* ProvenanceReconciler.receipts: numbers of those that were recorded
    classified,     \* ProvenanceReconciler.classified
    report,     \* the exported report
    heads,      \* the commits: each the files it holds
    stray,      \* the files of the last seal are not committed
    seal,       \* admission-attestation.json
    sealed,     \* the attestations made so far
    allowed,    \* what the verification that has just ended has allowed, if it has
    spent       \* the bounded things done so far

admissionVars == <<tree, indexed, previous, issued, receipts, classified, report, heads, stray,
                   seal, sealed, allowed, spent>>

Contained == 0..MaxContent
Unread == -1
Seen == Contained \union {Unread}
Statuses == {"managed", "unmanaged", "stale_lineage", "unknown"}
NoSeal == [base |-> 0, head |-> 0, covered |-> {}, age |-> 0]
NoRange == [base |-> 0, head |-> 0, covered |-> {}]

AdmissionInit ==
    /\ tree = [f \in Sources |-> 0] /\ indexed = tree
    /\ previous = [f \in Sources |-> Unread]
    /\ issued = <<>> /\ receipts = {}
    /\ classified = [f \in {} |-> "unknown"] /\ report = classified
    /\ heads = <<tree>> /\ stray = FALSE
    /\ seal = NoSeal /\ sealed = {} /\ allowed = NoRange
    /\ spent = [edits |-> 0, reports |-> 0]

-----------------------------------------------------------------------------
(* ChangeRuntime: a file is published, and makeReceipt describes it.  A file of an
   applyMany that stopped half way has a receipt, too, which says PARTIAL. *)
Publish(f, content, status) ==
    /\ Len(issued) < MaxPublications /\ content # tree[f]
    /\ tree' = [tree EXCEPT ![f] = content]
    /\ issued' = Append(issued, [path |-> f, input |-> tree[f], output |-> content, status |-> status])
    /\ allowed' = NoRange /\ UNCHANGED <<indexed, previous, receipts, classified, report, heads, stray, seal, sealed, spent>>

(* An editor, or git. *)
ForeignEdit(f, content) ==
    /\ spent.edits < MaxForeignEdits /\ content # tree[f]
    /\ tree' = [tree EXCEPT ![f] = content]
    /\ spent' = [spent EXCEPT !.edits = @ + 1]
    /\ allowed' = NoRange /\ UNCHANGED <<indexed, previous, issued, receipts, classified, report, heads, stray, seal, sealed>>

(* verifyReceiptState: what a receipt has put out is in the worktree now. *)
OutputsMatch(n) == tree[issued[n].path] = issued[n].output

(* change_record, then registerReceipt. *)
RecordReceipt(n) ==
    /\ n \notin receipts /\ OutputsMatch(n)
    /\ receipts' = receipts \union {n}
    /\ allowed' = NoRange /\ UNCHANGED <<tree, indexed, previous, issued, classified, report, heads, stray, seal, sealed, spent>>

-----------------------------------------------------------------------------
(* classifyMutationObservation of a content of f.  Of the receipts that end in it the
   newest decides, and its input has to be what was seen before. *)
ForPath(f) == {n \in receipts : issued[n].path = f}
Applied(f) == {n \in ForPath(f) : issued[n].status = "APPLIED"}
Ending(f, current) == {n \in Applied(f) : issued[n].output = current}
Newest(ns) == CHOOSE n \in ns : \A m \in ns : m <= n

Classified(f, current) ==
    IF previous[f] = current THEN "unknown"
    ELSE IF Applied(f) = {} THEN IF ForPath(f) # {} THEN "unknown" ELSE "unmanaged"
    ELSE IF Ending(f, current) = {} THEN "unmanaged"
    ELSE IF previous[f] \notin {Unread, issued[Newest(Ending(f, current))].input} THEN "stale_lineage"
    ELSE "managed"

(* The code state reads a file again, and ProvenanceReconciler.observe hears of it if
   the fingerprint in the index has changed. *)
Observe(f) ==
    /\ indexed[f] # tree[f]
    /\ indexed' = [indexed EXCEPT ![f] = tree[f]]
    /\ classified' = [g \in DOMAIN classified \union {f} |-> IF g = f THEN Classified(f, tree[f]) ELSE classified[g]]
    /\ previous' = [previous EXCEPT ![f] = tree[f]]
    /\ allowed' = NoRange /\ UNCHANGED <<tree, issued, receipts, report, heads, stray, seal, sealed, spent>>

(* provenance_report, saved to a file. *)
Export ==
    /\ spent.reports < MaxReports /\ report # classified
    /\ report' = classified
    /\ spent' = [spent EXCEPT !.reports = @ + 1]
    /\ allowed' = NoRange /\ UNCHANGED <<tree, indexed, previous, issued, receipts, classified, heads, stray, seal, sealed>>

(* git commit -a, which takes the files of the seal with it. *)
Clean == tree = heads[Len(heads)] /\ ~stray

CommitFiles ==
    /\ Len(heads) <= MaxCommits /\ ~Clean
    /\ heads' = Append(heads, tree) /\ stray' = FALSE
    /\ allowed' = NoRange /\ UNCHANGED <<tree, indexed, previous, issued, receipts, classified, report, seal, sealed, spent>>

-----------------------------------------------------------------------------
(* gitChangeSet and canonicalizeAdmissionSubject: the files of the provenance itself do
   not count as changes. *)
Changed(b, h) == {f \in Sources : heads[b][f] # heads[h][f]}

(* The coverage files there can be: at most one receipt for a path. *)
Coverages == {ns \in SUBSET (DOMAIN issued) :
                 \A m, n \in ns : issued[m].path = issued[n].path => m = n}
PathsOf(ns) == {issued[n].path : n \in ns}

(* seal-my-pi-admission asks for a receipt for every changed path, and for no other; it
   does not look at the receipts themselves. *)
Seal(b, h, ns) ==
    /\ Cardinality(sealed) < MaxSeals /\ ns # {} /\ PathsOf(ns) = Changed(b, h)
    /\ seal' = [base |-> b, head |-> h, covered |-> ns, age |-> 0]
    /\ sealed' = sealed \union {[base |-> b, head |-> h, covered |-> ns]}
    /\ stray' = TRUE
    /\ allowed' = NoRange /\ UNCHANGED <<tree, indexed, previous, issued, receipts, classified, report, heads, spent>>

Tick ==
    /\ seal # NoSeal /\ seal.age <= MaxAge
    /\ seal' = [seal EXCEPT !.age = @ + 1]
    /\ allowed' = NoRange /\ UNCHANGED <<tree, indexed, previous, issued, receipts, classified, report, heads, stray, sealed, spent>>

-----------------------------------------------------------------------------
(* evaluateLocalAdmission over the exported report. *)
LocalAdmission(b, h, strict) ==
    IF \A f \in Changed(b, h) : f \in DOMAIN report /\ report[f] = "managed" THEN "allowed"
    ELSE IF strict THEN "rejected" ELSE "review_required"

(* verifyAdmissionAttestation; the mistake compares what is covered by the paths. *)
SamePaths(ns) == PathsOf(ns) = PathsOf(seal.covered)
SameCoverage(ns) == ns = seal.covered
Attested(b, h, ns) ==
    /\ PathsOf(ns) = Changed(b, h)
    /\ seal.base = b /\ seal.head = h
    /\ SameCoverage(ns)
    /\ seal.age <= MaxAge

(* verify-my-pi-admission with the coverage ns, given as a file; without one it expects
   digests which the report does not hold, and no attestation matches.  Unless it only
   reports, the worktree has to be clean. *)
Verify(b, h, ns, strict, reportOnly) ==
    /\ seal # NoSeal /\ (reportOnly \/ Clean)
    /\ allowed' = IF LocalAdmission(b, h, strict) = "allowed" /\ Attested(b, h, ns)
                  THEN [base |-> b, head |-> h, covered |-> ns] ELSE NoRange
    /\ UNCHANGED <<tree, indexed, previous, issued, receipts, classified, report, heads, stray, seal, sealed, spent>>

AdmissionNext ==
    \/ \E f \in Sources, c \in Contained :
          ForeignEdit(f, c) \/ \E status \in {"APPLIED", "PARTIAL"} : Publish(f, c, status)
    \/ \E n \in DOMAIN issued : RecordReceipt(n)
    \/ \E f \in Sources : Observe(f)
    \/ Export \/ CommitFiles \/ Tick
    \/ \E b, h \in DOMAIN heads, ns \in Coverages :
          \/ Seal(b, h, ns)
          \/ \E strict, reportOnly \in BOOLEAN : Verify(b, h, ns, strict, reportOnly)

AdmissionSpec == AdmissionInit /\ [][AdmissionNext]_admissionVars

-----------------------------------------------------------------------------
AdmissionTypeOK ==
    /\ tree \in [Sources -> Contained] /\ indexed \in [Sources -> Contained]
    /\ previous \in [Sources -> Seen]
    /\ issued \in Seq([path : Sources, input : Contained, output : Contained, status : {"APPLIED", "PARTIAL"}])
    /\ receipts \subseteq DOMAIN issued
    /\ \A r \in {classified, report} : DOMAIN r \subseteq Sources /\ \A f \in DOMAIN r : r[f] \in Statuses
    /\ \A n \in DOMAIN heads : heads[n] \in [Sources -> Contained]
    /\ stray \in BOOLEAN /\ seal.age \in 0..(MaxAge + 1)

(* A range of commits is only ever allowed when exactly it was sealed before, with
   exactly the receipts the verifier expects, and when each of its files was published
   by the change runtime, completely, and recorded with the daemon: whatever was
   observed, exported, sealed, edited and committed in between. *)
AllowedIsSealed ==
    allowed # NoRange =>
        /\ allowed \in sealed
        /\ \A f \in Changed(allowed.base, allowed.head) : Applied(f) # {}
=============================================================================

----------------------------- MODULE CodeState -----------------------------
(***************************************************************************)
(* The daemon's index of one worktree: code-state-manager.ts of the daemon  *)
(* with the watcher and the indexer of packages/code-state.  File events    *)
(* and a periodic reconciliation put tasks into a queue; a task reads files *)
(* one after the other, keeps their fingerprints in memory and in the       *)
(* store with the imports between them, and announces what changed, which   *)
(* brings the impacts up to date.                                           *)
(* A fingerprint is the version of the file it was taken from, 0 for none;  *)
(* the order of the files is that in which a scan finds them.               *)
(***************************************************************************)
EXTENDS Naturals, Sequences, FiniteSets, SequencesExt, Ascending

CONSTANTS
    MaxFile,            \* the files are 1..MaxFile
    InitialFileLimit, ReconcileFileLimit,   \* options of the manager
    MaxPendingPaths,    \* option of the watcher
    Imports,            \* <<f, v, g>>: the content v of file f imports file g
    MaxVersion,         \* bound: contents a file may have
    MaxChanges,         \* bound: changes of files
    MaxQueue,           \* bound: tasks that wait
    MaxFailures,        \* bound: tasks and providers that fail
    MaxStarts           \* bound: starts of the daemon

ASSUME CodeStateAssumption ==
    /\ {MaxFile, InitialFileLimit, MaxPendingPaths, MaxVersion, MaxChanges, MaxQueue, MaxStarts} \subseteq Nat \ {0}
    /\ MaxFailures \in Nat /\ ReconcileFileLimit \in InitialFileLimit..2000
    /\ Imports \subseteq (1..MaxFile) \X (1..MaxVersion) \X (1..MaxFile)

VARIABLES
    disk,       \* the files of the worktree
    index,      \* getCodeState: the store's fingerprint of each file
    edges,      \* getCodeState: the imports between files, as <<importer, imported>>
    impacts,    \* the index the impacts were last computed from
    manager,    \* the ManagedWorktree: phase, state, knownPaths, indexer
    watcher,    \* the CodeStateWatcher: pending, overflowed, timer, alive
    queue,      \* the tasks enqueued, the first of them running
    task,       \* where the running task is
    changes, failures, starts

codeVars == <<disk, index, edges, impacts, manager, watcher, queue, task, changes, failures, starts>>

Files == 1..MaxFile
Versions == 0..MaxVersion
Absent == 0
Nothing == [f \in Files |-> Absent]

NoManager == [phase |-> "none", state |-> "starting", known |-> {}, memory |-> Nothing]
NoWatcher == [alive |-> FALSE, pending |-> {}, overflowed |-> FALSE, timer |-> FALSE]
NoTask == [stage |-> "none", files |-> <<>>, scan |-> {}, read |-> Absent, stays |-> FALSE,
           imports |-> {}]

(* What the contents of some files import of one another. *)
ImportsOf(snapshot) ==
    {e \in Files \X Files : <<e[1], snapshot[e[1]], e[2]>> \in Imports /\ snapshot[e[2]] # Absent}

CodeStateInit ==
    /\ disk \in [Files -> {Absent, 1}]
    /\ index \in {Nothing, disk}
    /\ edges = ImportsOf(index)
    /\ impacts = index
    /\ manager = NoManager /\ watcher = NoWatcher
    /\ queue = <<>> /\ task = NoTask
    /\ changes = 0 /\ failures = 0 /\ starts = 1

-----------------------------------------------------------------------------
(* The listener of the watch: the path is kept, or the overflow noted. *)
Noted(w, f) ==
    IF Cardinality(w.pending) >= MaxPendingPaths /\ f \notin w.pending
    THEN [w EXCEPT !.overflowed = TRUE, !.timer = TRUE]
    ELSE [w EXCEPT !.pending = @ \union {f}, !.timer = TRUE]

(* A file is written or deleted by anyone; its event may be lost. *)
Change(f, v) ==
    /\ changes < MaxChanges /\ v # disk[f]
    /\ changes' = changes + 1
    /\ disk' = [disk EXCEPT ![f] = v]
    /\ \/ watcher.alive /\ watcher' = Noted(watcher, f)
       \/ UNCHANGED watcher
    /\ UNCHANGED <<index, edges, impacts, manager, queue, task, failures, starts>>

(* What the manager knows of the worktree at the start; the mistake forgets the stored index. *)
NoPaths == {}
LoadedPaths == {f \in Files : index[f] # Absent}
(* register: the index is loaded and a first scan enqueued, which announces nothing. *)
Register ==
    /\ manager.phase = "none"
    /\ manager' = [phase |-> "starting", state |-> "starting", memory |-> index,
                   known |-> LoadedPaths]
    /\ queue' = <<[kind |-> "reconcile", limit |-> InitialFileLimit, notify |-> FALSE, paths |-> {}]>>
    /\ UNCHANGED <<disk, index, edges, impacts, watcher, task, changes, failures, starts>>

(* Nothing is refreshed. *)
NotRefreshed == UNCHANGED <<impacts, failures>>

(* refreshImpactsForWorktree: emitImpact recomputes the impacts of the intents, unless
   nothing is indexed any more; a failure of its own it swallows. *)
Refreshed ==
    \/ impacts' = (IF index' = Nothing THEN impacts ELSE index') /\ UNCHANGED failures
    \/ failures < MaxFailures /\ failures' = failures + 1 /\ UNCHANGED impacts

(* register, once the first scan has ended: ready unless it failed, with the impacts
   refreshed by onReady, and the watcher starts. *)
Registered(watches) ==
    /\ manager.phase = "starting" /\ queue = <<>>
    /\ UNCHANGED index
    /\ IF manager.state = "degraded" THEN NotRefreshed ELSE Refreshed
    /\ manager' = [manager EXCEPT !.phase = "watching",
                                  !.state = IF watches /\ @ # "degraded" THEN "ready" ELSE "degraded"]
    /\ watcher' = [NoWatcher EXCEPT !.alive = watches]
    /\ UNCHANGED <<disk, edges, queue, task, changes, starts>>

(* The interval of startReconciliation, which runs whether the watch works or not. *)
OnlyWithoutWatch == manager.phase = "watching" /\ ~watcher.alive
Reconciles == manager.phase = "watching"

ReconcileDue ==
    /\ Reconciles /\ ~watcher.overflowed
    /\ watcher' = [watcher EXCEPT !.overflowed = TRUE, !.timer = TRUE]
    /\ UNCHANGED <<disk, index, edges, impacts, manager, queue, task, changes, failures, starts>>

(* handleError: the watch is given up, and a reconciliation makes up for it. *)
WatchError ==
    /\ watcher.alive
    /\ watcher' = [watcher EXCEPT !.alive = FALSE, !.overflowed = TRUE, !.timer = TRUE]
    /\ manager' = [manager EXCEPT !.state = "degraded"]
    /\ UNCHANGED <<disk, index, edges, impacts, queue, task, changes, failures, starts>>

(* scheduleFlush: after the debounce an overflow is one reconciliation, and the paths one task. *)
Flushed(w) ==
    (IF w.overflowed
     THEN <<[kind |-> "reconcile", limit |-> ReconcileFileLimit, notify |-> TRUE, paths |-> {}]>> ELSE <<>>)
    \o (IF w.pending # {}
        THEN <<[kind |-> "paths", limit |-> ReconcileFileLimit, notify |-> TRUE, paths |-> w.pending]>> ELSE <<>>)

Flush ==
    /\ watcher.timer /\ Len(queue) < MaxQueue
    /\ queue' = queue \o Flushed(watcher)
    /\ watcher' = [watcher EXCEPT !.pending = {}, !.overflowed = FALSE, !.timer = FALSE]
    /\ UNCHANGED <<disk, index, edges, impacts, manager, task, changes, failures, starts>>

-----------------------------------------------------------------------------
(* discoverFiles: the first files that exist, at most so many. *)
Discovered(limit) ==
    LET found == InOrder({f \in Files : disk[f] # Absent})
    IN  SubSeq(found, 1, IF Len(found) < limit THEN Len(found) ELSE limit)

(* indexer.invalidate of some files, in memory and in the store. *)
Without(fs, snapshot) == [f \in Files |-> IF f \in fs THEN Absent ELSE snapshot[f]]

(* applyCodeStateDelta deletes the edges of what it had of a file, in both directions;
   the mistake deletes none. *)
EdgesLeft(fs) == edges
EdgesAround(fs) == {e \in edges : {e[1], e[2]} \cap {f \in fs : index[f] # Absent} = {}}

(* A task starts. A reconciliation scans, and drops what is known and was not found. *)
BeginTask ==
    /\ queue # <<>> /\ task.stage = "none"
    /\ LET t == Head(queue)
           files == IF t.kind = "reconcile" THEN Discovered(t.limit) ELSE InOrder(t.paths)
           gone == IF t.kind = "reconcile" THEN manager.known \ Range(files) ELSE {}
       IN  /\ manager' = [manager EXCEPT !.memory = Without(gone, @)]
           /\ index' = Without(gone, index)
           /\ edges' = EdgesAround(gone)
           /\ IF t.notify /\ gone # {} THEN Refreshed ELSE NotRefreshed
           /\ task' = [NoTask EXCEPT !.stage = "next", !.files = files,
                                     !.scan = IF t.kind = "reconcile" THEN Range(files) ELSE {}]
    /\ UNCHANGED <<disk, watcher, queue, changes, starts>>

(* applyPaths looks at the next path, and the file system provider reads the file: the
   file may not be there, vanish in between, or not be readable. *)
ReadFile(how) ==
    LET there == disk[Head(task.files)] # Absent
        bytes == IF how = "failed" THEN Absent ELSE disk[Head(task.files)]
    IN  /\ task.stage = "next" /\ task.files # <<>>
        /\ how = "vanished" => ~there
        /\ how = "failed" => there /\ failures < MaxFailures
        /\ failures' = IF how = "failed" THEN failures + 1 ELSE failures
        /\ task' = [task EXCEPT !.stage = IF there \/ how = "vanished" THEN "parse" ELSE "store",
                                !.read = bytes, !.stays = there \/ how = "vanished"]
        /\ UNCHANGED <<disk, index, edges, impacts, manager, watcher, queue, changes, starts>>

(* The AST provider reads the file again, and resolves what it imports to the files that
   are there; or it fails. *)
ParseFile(fails) ==
    LET f == Head(task.files)
    IN  /\ task.stage = "parse"
        /\ fails => failures < MaxFailures
        /\ failures' = IF fails THEN failures + 1 ELSE failures
        /\ task' = [task EXCEPT !.stage = "store",
                                !.imports = IF fails THEN {} ELSE {e \in ImportsOf(disk) : e[1] = f}]
        /\ UNCHANGED <<disk, index, edges, impacts, manager, watcher, queue, changes, starts>>

(* What was read goes into memory and into the store; a change is one of memory.  A file
   the look has found stays known until a scan. *)
StoreFile ==
    LET f == Head(task.files)
    IN  /\ task.stage = "store"
        /\ manager' = [manager EXCEPT !.memory[f] = task.read,
                                      !.known = IF task.stays THEN @ \union {f} ELSE @ \ {f}]
        /\ index' = [index EXCEPT ![f] = task.read]
        /\ edges' = EdgesAround({f}) \union task.imports
        /\ task' = [task EXCEPT !.stage = IF Head(queue).notify /\ (~task.stays \/ manager.memory[f] # task.read)
                                          THEN "announce" ELSE "next",
                                !.files = Tail(@), !.read = Absent, !.stays = FALSE, !.imports = {}]
        /\ UNCHANGED <<disk, impacts, watcher, queue, changes, failures, starts>>

(* emitDelta: CodeGraphUpdated is appended, and the impacts refreshed. *)
Announce ==
    /\ task.stage = "announce"
    /\ UNCHANGED index /\ Refreshed
    /\ task' = [task EXCEPT !.stage = "next"]
    /\ UNCHANGED <<disk, edges, manager, watcher, queue, changes, starts>>

EndTask ==
    /\ task.stage = "next" /\ task.files = <<>>
    /\ manager' = [manager EXCEPT !.known = IF Head(queue).kind = "reconcile" THEN task.scan ELSE @]
    /\ task' = NoTask /\ queue' = Tail(queue)
    /\ UNCHANGED <<disk, index, edges, impacts, watcher, changes, failures, starts>>

(* A read, the store or the announcement fails: the task ends, the state is degraded.
   The fingerprint is in memory before the store is asked. *)
TaskFails ==
    /\ task.stage \in {"parse", "store", "announce"} /\ failures < MaxFailures
    /\ \/ manager' = [manager EXCEPT !.state = "degraded"]
       \/ /\ task.stage = "store"
          /\ manager' = [manager EXCEPT !.state = "degraded", !.memory[Head(task.files)] = task.read]
    /\ task' = NoTask /\ queue' = Tail(queue)
    /\ failures' = failures + 1
    /\ UNCHANGED <<disk, index, edges, impacts, watcher, changes, starts>>

(* The daemon stops or dies: what is in memory is gone, the store stays. *)
DaemonRestarts ==
    /\ starts < MaxStarts /\ manager.phase # "none"
    /\ manager' = NoManager /\ watcher' = NoWatcher
    /\ queue' = <<>> /\ task' = NoTask
    /\ starts' = starts + 1
    /\ UNCHANGED <<disk, index, edges, impacts, changes, failures>>

CodeStateNext ==
    \/ \E f \in Files, v \in Versions : Change(f, v)
    \/ Register \/ \E watches \in BOOLEAN : Registered(watches)
    \/ ReconcileDue \/ WatchError \/ Flush
    \/ BeginTask \/ (\E how \in {"seen", "vanished", "failed"} : ReadFile(how))
    \/ (\E fails \in BOOLEAN : ParseFile(fails)) \/ StoreFile \/ Announce \/ EndTask
    \/ TaskFails \/ DaemonRestarts

CodeStateSpec == CodeStateInit /\ [][CodeStateNext]_codeVars

Work == \/ Register \/ \E watches \in BOOLEAN : Registered(watches)
        \/ BeginTask \/ (\E how \in {"seen", "vanished", "failed"} : ReadFile(how))
        \/ (\E fails \in BOOLEAN : ParseFile(fails)) \/ StoreFile \/ Announce \/ EndTask
(* Promises resolve, and timers fire: the debounce and the interval. *)
CodeStateFairness ==
    WF_codeVars(Work) /\ WF_codeVars(Flush) /\ WF_codeVars(ReconcileDue)

-----------------------------------------------------------------------------
Tasks == [kind : {"reconcile", "paths"}, limit : {InitialFileLimit, ReconcileFileLimit},
          notify : BOOLEAN, paths : SUBSET Files]

(* The types of the index and of what keeps it. *)
CodeStateTypeOK ==
    /\ {disk, index, impacts, manager.memory} \subseteq [Files -> Versions]
    /\ edges \subseteq Files \X Files
    /\ manager.phase \in {"none", "starting", "watching"}
    /\ manager.state \in {"starting", "ready", "degraded"} /\ manager.known \subseteq Files
    /\ watcher.pending \subseteq Files /\ {watcher.alive, watcher.overflowed, watcher.timer} \subseteq BOOLEAN
    /\ \A i \in DOMAIN queue : queue[i] \in Tasks
    /\ task.stage \in {"none", "next", "parse", "store", "announce"} /\ Range(task.files) \subseteq Files

(* Every file the store has a fingerprint of is known to the manager, so that a
   scan that does not find it drops it: known paths are kept by three operations
   and replaced by a fourth, while tasks fail and the daemon restarts. *)
IndexedIsKnown ==
    manager.phase # "none" => {f \in Files : index[f] # Absent} \subseteq manager.known

(* Once files stop changing, the index becomes the state of the disk, whatever
   events were lost or dropped, after failed tasks, failed watches and restarts
   (watcher.ts: "index fingerprints remain authoritative"). *)
IndexConverges == <>[](disk = index)

(* And the index then has no import that the files do not have, although a file is
   resolved against the others at one time and they are indexed at another. *)
EdgesConverge == <>[](edges \subseteq ImportsOf(disk))

(* The impacts do not stay behind the index, when nothing fails: every change of the index
   is announced, or part of a first scan that ends with a refresh.  Those of an index
   that has become empty stay as they are. *)
ImpactsFollow ==
    failures = 0 /\ impacts # index ~> impacts = index \/ index = Nothing \/ failures # 0
=============================================================================

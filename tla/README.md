# A TLA+ verification of my-pi

`my-pi` is a local runtime for coding agents. Several agents work in one project; a daemon keeps
their shared state (sessions, work items, intents, evaluation runs, the index of the code) in an
SQLite event store, an MCP server per agent host reads, searches and changes the files they work on,
and scripts decide what is admitted and released. This directory holds TLA+ models of the parts where
agents, processes and handlers meet and of the algorithms whose limits are easy to get wrong, the TLC
configurations that check them on small instances, and proofs, checked by TLAPS, of what must hold for
any number of sessions, items, handlers, processes, calls, files and events. Source paths below are
relative to `src/`.

Contents: [inventory](#1-inventory) · [modules](#2-modules-and-how-they-follow-the-code) ·
[runs](#3-runs) · [fairness](#4-fairness) · [proofs](#5-proofs) · [findings](#6-findings) ·
[not modelled](#7-not-modelled) · [plan](#8-plan)

## 1. Inventory

How the parts interact: a client (`packages/coordination-client`) opens one connection per request
to the daemon's socket (`apps/my-pi-daemon/src/ipc-server.ts`). The router (`request-router.ts`)
dispatches the request to `CoordinationRuntime`, `EvaluationRuntime` or the daemon's own services.
All of them write through `SqliteCoordinationStore.transact`, one *synchronous* SQLite transaction,
and yield only between transactions. The daemon owns the project through a lock file, and keeps an
index of each worktree's code with its own watcher. File changes do not go through the daemon: every
MCP process has its own `ChangeRuntime` and shares the file system, and nothing else, with the others;
what it published it reports to the daemon as receipts. What the transactions append to the event log
is given to agents page by page (`coord_sync`), paged out to the portal (`graph_events`), polled there
(`apps/my-pi-ui/src/server.ts`) and streamed to the pages that show the project. The scripts read the
daemon's exported report and git.

| component | state | operations | what is hard | what makes it correct |
|---|---|---|---|---|
| Work graph: `packages/coordination-runtime/src/{runtime,work-graph,session-leases}.ts` | sessions and leases, work items (state, assignee, version, accepted run), dependencies, intents | join, createWorkItem, claim, declareIntent, complete, applyEvaluationDecision, publish, sync | calls of any client in any order and any number of times; old decisions; a claim that fails and writes | a gated item is done only on an accepted run of its own; no lost wake-up; no dependency deadlock; versions tell states apart |
| Evaluation: `packages/evaluation-runtime/src/*` | runs, result rows, decisions, feedback packets | registerSpec, requestRun, recordExternalResult, evaluateRun, completeRun | handlers that overlap at every await; a list of results read once and used later; a crash between decision and application | evidence is never implicit; one verdict, drawn from all evidence; overlapping requests do no harm |
| Project lock and daemon life cycle: `apps/my-pi-daemon/src/{project-lock,main,bootstrap,ipc-server}.ts` | lock file, socket, metadata file | acquire, clean up, listen, publish metadata, close, release | every file operation is a step; kill at any step; stale files | one authority per project; an orderly stop leaves nothing; a start ends |
| Request loop: `packages/coordination-client/src/*`, `ipc-server.ts`, `request-router.ts` | connections, attempts, handlers in flight, the audit trail | call, retry, timeout, cancel, dispatch, shutdown | a timeout on either side does not stop the handler; a retry of what was done; a daemon that stops between two transactions | what is answered was done completely and is in the audit trail; a call returns |
| Sync and context router: `packages/context-router/src/router.ts`, `coordination-runtime/src/sync.ts`, `coordination-store` | an agent's cursor (its own) | publish, sync, route | pages bounded twice, by number and bytes; lost answers; superseded artifacts | an event that did not fit is delivered later |
| Coordination store: `packages/coordination-store/src/*` | event log, projection tables, idempotency table | transact, append, listEvents, migrations | projections beside the log | a reader that follows the cursor sees every event once |
| Code state: `packages/code-state/src/*`, `apps/my-pi-daemon/src/code-state-manager.ts` | file index in memory and in the store, imports, pending events, queue of tasks, watcher, impacts | register, watch, flush, reconcile, index, announce, refresh of impacts | dropped events; bounded scans; failed tasks and providers; restarts | the index converges to the files, and the impacts to the index |
| Change publication: `packages/change-runtime/src/*`, `packages/workspace-runtime/src/{atomic-replace,mutation-mutex,workspace-runtime}.ts` | files, workspace lock of a process, receipts | applyBytes, applyMany, applyTransform | check and replace are two steps; other processes share no lock; a batch may fail half way | no lost update; no clobbered creation; receipts are true; the lock is always freed |
| File tools: `packages/fs/src/*`, `packages/hashline`, `packages/workspace-runtime/src/*`, `packages/policy` | the snapshot store; what an agent has read | fs_read, fs_write, fs_patch; path resolution, sensitivity, capabilities | three reads and a wait for the lock between the hash an agent names and the replacement | no edit of another agent or of an editor is lost; windows put together are the file |
| Search and VCS: `packages/{search,vcs,ast}`, artifact store `packages/artifact-store` | a child process, a collector, temporary and finished artifacts | search, vcs_diff, put, expire | limits in bytes and lines that are met in the middle of a chunk | what is not marked as cut is whole |
| MCP server: `packages/mcp-adapter`, `apps/my-pi-mcp` | running and queued calls | tools/call, cancel | a slot that is handed on to a call that is being cancelled; a daemon that hangs | a queued call is served or fails |
| Language servers: `packages/lsp/src/*` | clients by key, processes, request tables, open documents, diagnostics | getClient, start, openDocument, request, diagnostics, restart, idle shutdown | late answers, processes that die, two starts | every call ends, with its own answer |
| Impact engine, graph model and projection: `packages/{impact-engine,graph-model,graph-projection}` | none: searches over rows | impact, trace, expand, bound | several bounds in one search; cycles | an answer that is not marked as cut is complete |
| Live theater and portal: `apps/my-pi-ui/src/*`, `apps/my-pi-daemon/src/graph-events.ts` | the page's cursor, list of events, graph, event source and timer; the stream's cursor in the portal; the cursor in the session storage | render, poll, receive, reconnect, refresh the graph, switch the kind, replay, reload | four readers of one cursor; streams lost and opened again; graph answers that overtake each other or fail | no event twice, none skipped; the stored cursor moves forward; the graph catches up; stale is said |
| Change admission and provenance: `packages/change-runtime/src/attestation.ts`, `packages/code-state/src/provenance.ts`, `scripts/{seal,verify}-my-pi-admission.mjs` | receipts, classifications, the exported report, the attestation | change_record, observe, export, seal, verify (local and strict) | receipts, observations, commits and seals are made by different programs at different times | what is admitted was sealed for this range, of changes the runtime published and recorded |
| Observed evidence and release: `scripts/*observed*`, `scripts/*production-next*` | task definitions, receipts, results, evidence files in the worktree and in git | register, run both arms, validate, aggregate, bind, promote, manifest | edits and commits between any two steps of any script | what is released was observed, for the definitions registered before the observation |
| Other scripts, observability, host profiles, native loader, contracts, testing | none that outlives a run; counters; types | — | — | — |

The behaviours that are hard to test are listed one by one, with their lines and the properties that
watch over them, under `hazards` in `PROJECT.json`.

## 2. Modules and how they follow the code

`PROJECT.json` (`map`) names the source lines of every definition. What abstracts what:

**WorkGraph** – `CoordinationRuntime`. One handler is one action, since a handler does all of its
work in one synchronous transaction; a handler that throws before it writes is no action. `Claim` is
split in the two ways it writes: `BlockClaim` (open dependencies: the item is blocked *and assigned
to the claimer*, then the call fails) and `GrantClaim`. `Complete` is `SubmitForEvaluation` (a gated
item, two version steps in one transaction) or `Finish` (done, the session's intents on the item are
closed, and the blocked items that waited for it alone are ready, with a new version each).
`RequestRun`/`CompleteRun`/`ApplyEvaluationDecision` are the outside of an evaluation: the decision
of any completed run may be applied at any later time, because eval_complete may be called again.
Time is the action `LeaseLapses`. The expected version of a claim is any value: views may be old.

**StaleAcceptance** – WorkGraph with history variables that count how often an item was sent back
and at which count a run was requested.

**EvaluationPromise** – the abstract specification of one run: evidence is gathered while there is
no verdict, the verdict is what the evidence says, it is given once, and only it moves the item.

**Evaluation** – the same run inside the daemon: several handlers of `eval_evaluate` and
`eval_complete` in flight, one action per transaction, with what a handler read before an await
(`todo`, the criteria that had no result) kept in its own state. A provider may answer anything in
`Answers` at any time in `Stamps` (a repeated answer has another `observedAt` and hence another
digest), throw, or be missing; results may conflict. A row's identity is the `providerResultId` of
whoever records it, so a caller of `eval_record` may take any of the four in `Keys`: the one a provider
will answer under, the ones under which the runtime records an evaluator's error or absence, or another.
What wants to be recorded there afterwards has another digest and conflicts. `Crash` loses all handlers
in flight and nothing that was committed. `ImplementsPromise` is
`EvaluationPromise!Spec` under the mapping `evidence <- results, verdict <- decision`, `item` by
itself. With today's `DeterministicProvider` an evaluation awaits microtasks only; handlers really
overlap inside `evaluateRun` with a provider that waits, which is what the asynchronous
`EvaluatorProvider` interface is for. The crash between two transactions needs no such provider.

**ProjectLock** – `acquireProjectLock`, `IpcServer.listen`/`close`, `writeMetadata` and the order of
`runDaemon`, one file operation per action. `lock`, `socket` and `metadata` hold the process whose
file is at the path; `written` the processes whose record has been written (a created file is empty
first). The owner of a record is alive until it exits or is killed. Pids are not reused.

**ChangePublication** – `ChangeRuntime.applyBytes` and `applyMany` (an `applyBytes` is a batch of
one), with `publishOne`, `withWorkspaceLock`, `atomicReplaceBytes` and `atomicCreateNoReplace`: the
preconditions are checked once before the lock and once under it, then the file is linked (creation)
or or renamed into place, then read back; the reading may find other bytes or fail by itself
(`VerifyFails`). Bytes are told apart by the call that published them. Calls of
one process share a lock; other processes share the files. `PublishFails` stands for every way
`rename`/`link` may fail. `outcome` is the receipt, or THROWN where the code throws.

**TheaterFeed** – the event log (`appendEventInTransaction`), `listEvents` with its limits in number
and bytes, the daemon's `graph_events` (kinds by the table of event types, then the filter by
worktree), the portal (`createPortalServer`: the first load page by page, then the graph, and the
polling loop of the stream) and the page (`theater-client.ts`). An event is its sequence number and
one of four classes: a structural event of the work graph, another work event, a code event of the
portal's worktree, one of another worktree. The number of events a page holds depends on where it
starts (`PageLength`), which is what a limit in bytes comes to. A graph is its kind and the length of
the log it was read at. Requests for graphs are a set, since neither the page nor the portal orders
them: `ReadGraph` is the daemon's read, `ShowRefresh`/`ShowKind` the answer's arrival, `FetchFails`
any failure. `Connect` and `Disconnect` are the two functions of that name; because closing an
`EventSource` discards what it has not delivered (and every handler compares `source` with
`liveSource`), `channel` is emptied with it. `Reload` forgets the page and keeps the session storage.
`since` and `disturbed` are history variables the properties speak about.

**DaemonRequests** – a call of `CoordinationClient` with its attempts, the connection of the attempt,
and the handlers `handleSocket` starts. An operation is one of three kinds: it reads, it commits one
transaction, or it commits two (`eval_evaluate` and `eval_complete`: `Decide`, `ApplyDecision`).
`applied` counts commits. An operation that throws is refused for good, or fails with an error that the
client retries, the store being open or closed (`Throws`). After the dispatch the handler writes the
audit record, whose failure is swallowed (`Audit`; `unwritten` are the calls whose record the open store
failed to write), and answers on a socket that may be gone. `StopServing`, `CloseStore` and
`DaemonEnded` are the `finally` of `runDaemon` in its order; `reset` are the connections whose request
was not yet read, which fail in a way the client retries; the others see the end of the stream only.

**SyncFeed** – `coord_publish`, `coord_sync` and `ContextRouter.route`: a page of `listEvents`, bounded
by `PageEvents` and `PageBytes`, is bounded again by the router, which picks what concerns the agent
(its own events, its items, and the items those depend on), drops an artifact another event of the
page supersedes, and says how far the agent has read. An event that is no artifact has one byte. `sync`
reads the rows (`ReadRows`) and, another await later, the page it routes by them (`ReadPage`). A claim
may take an item from its assignee (`allowShared`, the blocked branch), so what concerns the agent
changes both ways; `due` are the events that have concerned it since they were appended. `LoseAnswer` is
an answer that never arrives; the cursor is the agent's own.

**CodeState** – `CodeStateManager`, `CodeStateWatcher`, `CodeStateIndexer` and the store's
`applyCodeStateDelta` for one worktree. Tasks run one at a time, in the order of the queue; a task
looks at a path, the file-system provider reads the file (`ReadFile`), the AST provider reads it
*again* (`ParseFile`), and what both have found is stored (`StoreFile`), so that a change may fall in
between. A fingerprint is the version of the content. What the code does with imports is kept: storing
a file deletes the edges in both directions (`EdgesAround`) and puts back the file's own. A refresh of
the impacts (`Refreshed`) does nothing when the index is empty, and swallows its own failure.

**FileTools** – `fs_read`, `fs_write` and `fs_patch` of the agents of one MCP server on one path, with
an editor beside them. A content is the set of edits it carries, so that a lost edit is seen; each read
of the file is a step. `policy` is the mode of the workspace and whether the path is inside it and
sensitive. Publishing is what `publishOne` does under the lock of the server: the check (`CheckAgain`),
the link or rename (`PublishBytes`) and the read-back (`VerifyBytes`), each of which may fail, with the
editor in between.

**ChangeAdmission** – from publication to verification: `Publish` hands out a receipt, `RecordReceipt`
is `change_record`, `Observe` the daemon's classification against the recorded receipts (managed,
unmanaged, of a stale lineage, or unknown), `Export` writes the report, `Seal` and `Verify` are the two
scripts over a range of commits. A seal leaves files in the tree that make it unclean (`stray`).
`allowed` is what the verification that has just ended has allowed, `sealed` and `spent` are the
attestations made and the bounded things done.

**ObservedEvidence** – `observed-registration-v2` (`WriteReceipt`, `VerifyRegistration`), the pair of
arms of `dogfood-observed-paired-v2`/`run-real-track-a-pair` (`ReadTask`, `RunArms`),
`validate-observed-task-v2` and `aggregate-observed-evidence-v2` (`LoadPair`, `BindCandidate`,
`EmitEvidence`), `verify-production-next-promotion` and `create-production-next-manifest` (`Promote`,
`WriteManifest`). Git is a sequence of committed worktrees; `Define`, `Revise`, `ChangeCode` and
`CommitCandidate` are the developers. `observed` is the history of complete observations.

**LspClient** – the registry, `LspClient` and its processes for one registry key. A server process
keeps the requests it was sent and may answer them in any order, send diagnostics, a bad frame, hang,
exit, and close later than it exits. Every await of the client is a state of its call (`call[k].pc`);
restart and idle timers may fire at any time after they are set. `openedDocuments`, pushed
diagnostics and the residue of the decoder survive a restart, as in the code.

**McpServer** – `serveStdio` with `RequestLimiter`, the permissions by trust and profile, and the two
kinds of tools: those that end by themselves and those that call the daemon without a signal.

**BoundedRead** – the window of `fs_read`: detection of the encoding, the cut at code units and
characters, `next_offset`, over texts of characters of 1 to 4 bytes, some of them U+FEFF, which the
decoder of a window drops if the window begins with it (`Decoded`). **VcsDiff** – `DiffCollector` fed
with chunks of any size, the two limits of what it keeps inline, the spill to an artifact with its own
limit, abort and failure; what is kept, inline or in the artifact, is the sequence of its bytes' numbers,
and a temporary file that cannot be removed stays. **SearchFiles** – the line scanner across chunks with its two limits.
**GraphViews** – the projection of the work graph, its bounding, `traceGraph` and `expandGraph`.
**ImpactReach** – the engine's traversal. In these five the steps are iterations of the code's loop,
and the properties compare the result with a definition that has no loop (`Output`, `Hits`,
`Around`, `Affected`, the text itself). **Ascending** holds what the scans share: the members of a set
of numbers in ascending order (`InOrder`), and where parts of given widths end (`EndsOf`).

**MCWorkGraph, MCEvaluation, MCChangePublication, MCTheaterFeed** – symmetry and values for TLC.
**MCDaemon** and **MCTools** check seven modules each in one run. Their modules share no state: they
model programs, or parts of one, that meet only where another module already abstracts the meeting. So
the variable `part` says which of them moves, a behaviour is a behaviour of that part, and the others
stay in one of their initial states. Nothing is lost by that, and the conjunction of fairness is that
of each part while it moves. What several parts have in common is stated as one property of the
composition, from the parts' own: `AdmissionsAreEarned`, `AnswersFit`, `AnswersAreWhole`, `ViewsAreHonest`
and `CodeStateConverges`; the conjuncts are named in the part's row below.

Definitions named for a mistake (`FreedByStale`, `PreflightTrusted`, `SamePaths`, ...) are plausible
bugs of the code, at least one for each checked property; none is used by a specification.

## 3. Runs

All instances are exhaustive. "States" are distinct states.

| run | instance | states | shows |
|---|---|---|---|
| WorkGraph_deps | 3 items, 2 sessions, no run, versions ≤ 4, intents on one item | 1.75 M | `BlockedHasBlocker`, `NoDependencyDeadlock`, `EveryChangeIsANewVersion`, `IntentClosedOnlyByItsCompletion` |
| WorkGraph_gated | 2 items, 2 sessions, 2 runs, versions ≤ 8 | 0.60 M | `TypeOK`, `DoneNeedsAcceptedRun`, `GatedDoneIsFinal` |
| WorkGraph_steal | 2 items, 2 sessions, allowShared never set | violation | `ActiveAssignmentIsKept` fails |
| StaleAcceptance | 1 item, 1 session, 2 runs | violation | `AcceptedRunIsFresh` fails |
| Evaluation | 2 handlers, a required criterion with a provider, an optional one without, 3 answers, 2 times, at most 2 rows of callers | 0.21 M | `TypeOK`, `PassIsNeverImplicit`, `FailsOnlyAfterDecision`, `ImplementsPromise`, `RequestLeadsToDecision`, `DecisionReachesItem` |
| Daemon | seven parts, below | 0.48 M | see below |
| ProjectLock_race | 3 processes | violation | `OneAuthority` fails |
| ChangePublication | 2 calls of one process, 1 of another, 2 files | 0.21 M | `ReceiptTellsTruth`, `NoLostUpdateInProcess`, `CreationNeverClobbers`, `EveryCallEnds` |
| ChangePublication_stale | the same | violation | `StaleWriterRejected` fails |
| TheaterFeed | 3 events, 4 moves (events, clicks, replays and reloads together), 1 lost stream, pages of 1 or 2 | 0.51 M | `TypeOK`, `TimelineIsExact`, `GraphCatchesUp`, `PersistedMovesForward`, `EventsReachTheater` |
| TheaterFeed_stale | 3 events, 3 moves, no lost stream | violation | `StaleIsSurfaced` fails |
| Tools | seven parts, below | 0.53 M | see below |

| part | instance | shows |
|---|---|---|
| Daemon: lock | 3 processes | `OneAuthorityUntilOneEnds`, `OrderlyStopLeavesNothing`, `StartIsSettled` |
| requests | 1 call of any kind, 3 attempts, 2 daemons | `AnsweredIsAudited`, `CallsReturn` |
| code | 2 files, the first imports the second in one version, 2 versions, 1 change, 1 failure, 2 starts, scan limits 1 and 2, 1 pending path, 1 waiting task | `IndexedIsKnown`, `CodeStateConverges` |
| sync | 2 items, one depends on the other, 3 events of 1 to 3 bytes, pages of 2 events and 2 bytes | `NothingIsSkipped` |
| files | 2 agents with 2 calls each, 1 edit in the editor, every policy | `EditsAreKept` |
| admission | 2 sources of 2 contents, 2 publications, 1 foreign edit, 1 commit, 1 seal, 1 report, attestations good for 1 tick | `AdmissionsAreEarned` (`AllowedIsSealed`) |
| evidence | 2 tasks, 2 keys, 2 qualified keys required, 1 edit, 1 commit, 2 observations, either hypothesis | `AdmissionsAreEarned` (`ReleasedIsObserved`) |
| Tools: lsp | 2 calls (navigation, diagnostics) on one document, 2 clients, 2 servers, 1 restart | `AnswersFit` (`AnswersAreOwn`, `QueriesFollowOpen`), `CallsSettle` |
| mcp | 3 calls (a local, two of the daemon), 1 slot, 1 queued, every start-up | `AnswersFit` (`SlotsAreCounted`), `QueuedAreServed` |
| read | texts of up to 3 characters in 3 encodings, windows of 1 to 5 bytes | `AnswersAreWhole` (`PagesAreTheFile`) |
| vcs | 2 diffs of up to 3 lines of up to 3 bytes, inline limits 2 lines and 4 bytes, output 7, artifact 6 | `AnswersAreWhole` (`DiffIsWhole`, `ArtifactIsWhole`) |
| search | 2 files of up to 2 lines of 3 kinds and the empty one, line limit 1, 1 match kept | `AnswersAreWhole` (`MatchesAreTheirs`) |
| graph | 3 items, 1 session, 1 intent, 3 possible dependencies (one a cycle), answers of 3 nodes and 2 edges, depth 2, in a snapshot of 4 and 3 | `TraceIsHonest`, `ViewsAreHonest` (`ExpansionIsHonest`) |
| impact | 4 entities, any subset of 5 edges, any targets, depth 2, 3 entities | `ViewsAreHonest` (`ImpactIsWhole`) |

`DaemonTypesOK` and `ToolsTypesOK` are the conjunctions of the parts' types.

Why the bounds are enough. *WorkGraph*: three items make a chain and a fork of dependencies and an
item that waits for two; with versions up to 4 an item is claimed, completed, claimed anew and
completed again, so that dependencies open again under items that use them. With versions up to 8 a
gated item is claimed (1), submitted (3), rejected (4), submitted again (6), accepted (7) and done
(8), with a second item and a second run to confuse it with. `SharedClaims = {TRUE}` loses nothing:
a claim with allowShared may do whatever one without may do. *Evaluation*: two handlers show every
pairwise overlap, a third would only repeat what one of them does; one required criterion is enough
to have evidence that is missing, failed, conflicting or of the wrong provenance, and the optional
one without a provider adds the rows the runtime records itself; two rows of callers can stand in the
way of both criteria, or of one under two identities. *Lock*: a stale owner and two
that clean up. *Requests*: calls share nothing but the daemon, so one is enough; three attempts leave
handlers of two earlier ones in flight, over a stop or a kill. *Code*: with one pending path the
second event overflows, and with a limit of one the first scan misses a file the store knows.
*Sync*: an artifact of the largest size does not fit a page, two of the smaller one do not fit
together. *Files*: two agents and an editor may change the file at each of the three reads of a
call, and the editor between the last of them and the rename. *Admission*: a file comes back to its first content, a receipt is recorded late, a range is
verified that was not sealed. *Evidence*: one edit changes a definition or the code between any two
steps, one commit may or may not hold it; the tasks of one hypothesis begin with different kinds, those
of the other with one kind; a larger instance (`MaxEdits` and `MaxHistory` 2, 7.1 M
states) holds as well. *LSP*: a process is replaced while calls wait in it, and a second
client is made for the key. *MCP*: one call runs, one waits, one is refused. *Read*: every position of
a cut within a character, a pair of code units and a byte-order mark, and U+FEFF at any place. *VCS*: every order in which the
four limits are met, in every chunking. *Search*: a line on both sides of a chunk and too long in
either. *Graph* and *impact*: a cycle, an edge of each direction, and more nodes than each bound.
*ChangePublication*: two calls queue at one lock, one with two files so that it may
fail half way, and a third call changes either file under them. *TheaterFeed*: three events fill a
page, overflow it (a page after 1 holds one event, any other two) and leave one to come while the
page is live, and with one of another worktree among them a page can be empty after the filter; four
moves let one user action (a switch, a replay or a reload) meet all three events, and two or more
actions meet fewer; one lost stream shows the reconnection from the cursor. None of the safety
properties rests on its bounds alone: every invariant and every action property of a passing run is
proved for all sizes as well (section 5).

Bounds that are constants, beside the limits of the code: `MaxVersion`, `SharedClaims`,
`IntentItems` (work graph); `Answers`, `CallerAnswers`, `MaxCallerRows`, `Stamps`; `Batches`; `MaxLog`, `MaxMoves`, `MaxBreaks`;
`MaxDaemons`; `MaxChanges`, `MaxQueue`, `MaxFailures`, `MaxStarts` and `MaxVersion` (code state);
`MaxEvents`, `Sizes`; `MaxFileCalls`, `MaxSaves`; `MaxContent`, `MaxPublications`, `MaxForeignEdits`,
`MaxCommits`, `MaxSeals`, `MaxReports`; `MaxEdits`, `MaxHistory`, `MaxObservations`; `MaxClients`,
`MaxServers`; `MaxChars`, `MaxWindow`; `MaxLines`, `MaxLine`, `MaxDiffs`; `MaxFiles`, `MaxFileLines`,
`LineKinds`; `MaxDepth`. The pools of sessions, items, runs, processes and calls are finite and each
member is used once; a system that has used them up stops, which is why these runs do not look for
deadlocks. Evaluation never stops and is checked for deadlock.

## 4. Fairness

*Evaluation*: weak fairness of each handler's next step. The event loop resumes a handler whose await
has settled; a provider answers or throws. Nothing is assumed of clients, of agents, or of a daemon
that was killed: the liveness properties end in "or its handler was lost", and a handler that a
client sends again is a new request, and the second half of `RequestLeadsToDecision` supposes in its
antecedent that clients go on asking. *ChangePublication*: weak fairness of each call's next step (every
step is a file operation the call awaits) and strong fairness of taking the lock, because
`withWorkspaceLock` chains the callers' promises in FIFO order: a lock that is freed again and again
comes to each caller in turn. *TheaterFeed*: weak fairness of rendering (the portal answers a request
for the page), of the poll (a loop with a pause of 750 ms), of the delivery of what was sent, of the
reconnection timer (1500 ms), and of the settlement of graph requests, which end in an answer or a
failure. No fairness of events, users and lost streams; streams are lost `MaxBreaks` times, so that the
liveness property does not ask for a stream that is lost before every poll to deliver.

*Daemon*. Lock: weak fairness of a process that acquires, starts to serve or stops, since its file
operations return; none of starts, signals and kills. Requests: weak fairness of the client's timers, of
each call; no handler is assumed to end and no daemon to start again. `CallsReturn` excepts a connection
that the daemon ended, see below. Code state: weak fairness of the running task (its promises resolve,
one way or another), of the debounce and of the reconciliation interval; none of changes, events of the
watcher, failures and restarts, which are bounded in number (a task that failed for ever would never
converge). The other parts have safety properties only. *Tools*. Language servers: weak fairness of the
client's own timers and rejections; nothing of a server, which may never answer, exit or close. MCP: weak
fairness of each step of a call in the server; no daemon is assumed to answer, and `QueuedAreServed`
excepts a server all of whose slots wait for one that does not. The fairness of a part is stated of the
step together with `part`, so that it asks nothing of a part that does not move.

## 5. Proofs

Every invariant and every action property that a passing run checks, and the refinement
`ImplementsPromise`, is a theorem of its specification, for all values of the constants that satisfy the
named `ASSUME`s of the modules. These ask for no more than the code does: the sentinel values are none
of the identities, sets are finite where the code enumerates them, required criteria are criteria,
batches are not empty, limits are numbers, and those the code caps stay below its cap (`MaxAttempts`,
`PageEvents`, `ReconcileFileLimit`, `MaxImpactDepth`). TLC evaluates each of them in a run.

Each `*Proofs` module extends the modules it is about and TLAPS. The shape is the same everywhere: an
inductive invariant (`IInv`, or `SyncInv`, `LspInv`, ... where a module has several), lemmas for the
actions or the conjuncts, and theorems that follow by `PTL`. What the invariants add to the property,
and why:

- **WorkGraphProofs** – `TypeCorrect`, `DoneAuthorized`, `NoLostUnblock`, `NoDeadlock`,
  `VersionsTellStatesApart`, `GatedDoneStaysDone`, `IntentsKept`. `DoneNeedsAcceptedRun` is inductive
  once it is known that decisions and the items of runs never change and that a gated item reaches
  "accepted" through a decided run only. `BlockedHasBlocker` survives `Finish` because the freed items
  are exactly those whose blockers were the finished item alone. For `NoDependencyDeadlock` no variable
  records the order of creation; the invariant (`DependenciesOrdered`) says instead that every non-empty
  set of created items has a member that depends on none of the set: an item depends on items that were
  created before it, so the newest one is nobody's dependency.
- **EvaluationProofs** – `EvaluationTypeCorrect`, `NoImplicitPass`, `NoMutualFailure`,
  `EvaluationKeepsPromise` (the refinement). The invariant adds: the run is completed exactly when it
  has a decision; a handler applies only after that, and fails only after that or on a caller's row; rows the
  runtime itself records are the same whoever records them (which is why overlapping handlers do not conflict on them); the decision
  still is what the results say; an item is accepted or done only under an accepting decision.
- **ChangePublicationProofs** – `NoLostUpdate`, `NoClobber`, `ReceiptsAreTrue`, for any processes. The
  invariant says: a call between `Lock` and its end holds the lock of its process; a precondition found
  to hold under the lock still holds unless a call of *another* process has replaced the file
  (`CheckedUnderLock`); the written files are the applied ones and, before the read-back, the next one
  (`Books`); the bytes of a call are only in files it wrote (`BytesKnown`). So bytes that are not reported
  can only be in the one file whose read-back failed.
- **TheaterFeedProofs** – `TypeCorrect`, `TimelineExact`, `StoredCursorForward`, `GraphFollows`, for any
  log and any lengths of pages. Two lemmas carry it: a set of sequence numbers has a last one, and a
  filtered page is *exactly* the events in scope between its cursor and its end, whatever the limits.
  The invariant says that the messages under way continue the page's list without a gap or an overlap up
  to the portal's cursor (`StreamFollows`), that no cursor is ahead of the log nor the stored one ahead
  of a live page's (`CursorsBounded`), and that an answer is read no earlier than the event that asked
  for it (`RequestsFollow`).
- **DaemonProofs**, part by part:
  - *Lock* (`LockTypes`, `SafeUntilOneEnds`, `NothingLeft`): who may own the file at each path (`FilesOwned`), that
    only written records are ever checked (`RecordsWritten`), that the loop of a start has rounds left,
    and that while nobody has ended nobody cleans up and creators find their lock in place (`LockKept`).
  - *Requests* (`RequestTypes`, `AnswersAreAudited`, `CommittedOncePerAttempt`): a handler that
    succeeded reads or has committed, and once it is past the audit it is in the audit trail, or among
    the records the open store failed to write, or the store is closed (`HandlersReport`). What is committed or still may be is never more than the
    attempts that were sent (`OncePerAttempt`): an attempt whose handler has not committed yet counts as
    pending, so that timeouts, kills and retries move a unit from one place of the sum to another or
    lose it.
  - *Files* (`FileTypes`, `NoEditIsLost`): the bytes a call is about to publish carry every edit of the
    bytes it expects (`BytesCarry`), one call at a time is in `publishOne` (`OneInLock`), and from its last
    check to its rename its bytes have all that is to be kept (`SwapKeeps`). Calls
    and saves are counted (`CallsCounted`), so that no two publish the same edit.
  - *Code state* (`CodeStateTypes`, `IndexIsKnown`): nothing watches before the first scan has ended
    (`NotYetWatching`), and while a scan runs it has every file that is indexed or about to be read, so
    that what it becomes at its end, the known files, has them too (`ScanHasAll`).
  - *Sync* (`SyncTypes`, `SyncSkipsNothing`): whatever is due concerns the agent, now and by the rows of a
    sync on its way (`DueConcerns`), and an answer that moves the cursor carries all that is due up to
    there or a successor of it (`AnswerCarriesAll`). A page and a route are both prefixes; that a budget
    cuts a prefix is a fact about the fold `Fitting` (`FittingBounds`).
  - *Admission* (`AdmissionTypesKept`, `AdmittedIsSealed`): a change is classified managed only with a
    complete receipt that was recorded (`ManagedIsApplied`), and the attestation was made by the sealing
    of its own range (`SealWasMade`).
  - *Evidence* (`EvidenceTypesKept`, `ReleaseIsObserved`): what a result, an aggregate, the committed
    candidate and the accepted envelope say was observed, each in an invariant of its own
    (`ObservedIsRegistered` up to `HeadIsObserved`). Commits are only added, so that a registration that
    preceded an observation precedes it for good.
  - *Together*: a behaviour of the composition is one of every part (`PartsAreKept`), hence
    `DaemonTypes` and `AdmissionsEarned`, and every other theorem of a part.
- **ToolsProofs**:
  - *Language servers* (`LspTypes`, `OwnAnswers`, `OpenedFirst`): request numbers of one client are
    never used twice (`Numbered`), a process belongs to the client that started it, and until a restart
    it knows the documents it is asked about (`Fits`). Most steps touch one client and its process: the
    frame lemmas (`KeptByClient`, `KeptByServer`, ...) prove `Fits` once per kind of change, not once
    per action.
  - *MCP* (`McpTypes`, `NoSlotIsLost`): the queue holds each waiting call once (`QueueFits`), and slots
    handed on are counted with the call that takes them.
  - *VCS* (`VcsTypes`, `DiffsAreWhole`, `ArtifactsAreWhole`): an open writer has all the bytes that were
    read, in their order, a closed one leaves them in the prefix, and what is inline are the lines up to the last one
    consumed (`Collects`). What the folds over lines and bytes compute is proved by the least
    counterexample.
- **ViewsProofs**:
  - *Graph views* (`GraphViewTypes`, `TracesAreHonest`, `ExpansionsAreHonest`): breadth first, in any
    graph. The invariant of a trace (`Trek`) says that depths are the exact distances (`Nearest`), that
    the queue holds two levels at most, the nearer one first (`InStep`), that parents lead back to the
    start (`Parented`), and that who was visited has all its neighbours reached (`Closed`). When the
    queue is empty and the bound was not met, what is reached is closed under edges: nothing else can be
    reached (`AllIsReached`).
  - *Impact* (`ImpactTypes`, `ImpactsAreWhole`): the same argument on undirected edges with a bound on
    the number of entities (`Levelled`, `Passed`), and bands of scores: the least score at a distance is
    no less than the greatest at the next (`LevelScores`).
  - *Windows* (`WindowsAreTheFile`): the next offset is where a character begins, or within one that is
    wider than the window (`ReadFits`), and the windows so far have all but some U+FEFF of what fits into
    one (`Shown`); what a window then adds is computed for bytes and for code units
    apart (`WindowOfBytes`, `WindowOfUnits`).
  - *Search* (`MatchesAreAnswered`): the scanner is after the last whole line of what it has read, or
    within one that is too long (`ScanFits`), and what was found are the hits of every file read so far,
    some of those of a file that failed, and nothing that does not match, in order and up to the limit
    (`ShownAre`).
  - *Together*: `ToolsAreKept`, `ToolsTypes`, `AnswersAreFit`, `NothingIsLeftOut`, `AllViewsAreHonest`.
- **OrderLemmas** – what the others share: a non-empty set of numbers has a least and, if bounded, a
  greatest member; `InOrder` lists a finite set in ascending order; sums exist and ascend. Recursive
  functions are defined by `CHOOSE`, so that a definition says nothing until some function satisfies it:
  `SumsExist` and its likes (`FoldExists`, `NearExists`, `FollowExists`, `RingsExist`, `WayExists`)
  prove that one does. Where an argument needs induction, it takes the least number for which the claim
  fails (`LeastNumber`) and refutes it.

Only model-checked: the liveness properties, which the prover does not reach (fairness needs `ENABLED`),
and the violations.

## 6. Findings

- **A failed claim steals the assignment** (`WorkGraph_steal`). `claim` writes `blocked` and the new
  assignee (`runtime.ts:131-139`) before it reaches the check "work item is already assigned to another
  agent" (`:140`). A dependency that was done can be claimed anew; then the claim of a dependent item
  somebody works on fails *and* takes the item from that agent, which can no longer complete it.
- **Stale evidence accepts reworked work** (`StaleAcceptance`). `applyEvaluationDecision` looks at
  the item's state only (`:298`). A run requested for a first submission and completed after the item
  was rejected, reworked and submitted again accepts the new work; ADR-007 says that "missing or
  stale evidence is never implicit success".
- **Two daemons after a crash** (`ProjectLock_race`). Two starts read the same stale record; the
  second unlinks the lock the first has created in between (`project-lock.ts:89`), and both serve;
  ADR-002 promises one authority for a project.
- **Replacement is not compare-and-swap across processes** (`ChangePublication_stale`). The check
  and the rename are two steps; the comment of `mutation-mutex.ts:11-14` says that a stale writer is
  rejected "instead of silently overwriting the winner's bytes". Creation, by `link`, does keep that
  promise (`CreationNeverClobbers`).

- **Stale is never surfaced** (`TheaterFeed_stale`). The README promises that `stale` is "always
  surfaced". `createTheaterFrame` computes the quality without `isStale` (`graph-model/src/model.ts:616`,
  `:640`), the page never sets it, and `refreshGraph` ignores a failed answer: the page then lists a
  structural event its graph does not show, with no sign of it until the next structural event.

Met while modelling and not stated as a property, since no document of the repository promises
otherwise, or since the models take it as it is:

- *Theater*. Behind a full page of other worktrees' code events the stream repeats that page for ever
  (`server.ts:300`, named `Starved` in `EventsReachTheater`); a failed read of the history opens the
  page without any mark of it (`server.ts:150`); after a switch of kind, events of the new kind that the
  cursor has passed under the old one are not listed; the list of structural event types names
  `WorkItemEvaluationRequested`, which nothing emits, and not `WorkItemAwaitingEvaluation`
  (`theater-state.ts:98`).
- *Evaluation*. A caller of `eval_record` chooses the `providerResultId` of its row. One that takes the
  identity under which a provider will answer turns that answer into an error; one that takes the
  runtime's own makes `evaluateRun` fail with the run undecided (`evaluation-runtime/src/runtime.ts:93`),
  once: asked again, it passes over a criterion that has any row, and decides without the evidence.
  `FailsOnlyAfterDecision` and `RequestLeadsToDecision` name these cases (`IdentityTaken`).
- *Work graph*. `review_required` is a dead end but for another completed run; `complete` looks at no
  lease; it releases scopes, which no operation creates; every lease has the default length, whatever is
  configured (`session-leases.ts:16`).
- *Requests*. `callOnce` listens to "data" and "error" only: a call that waits when the daemon stops
  ends by its own timeout. The idempotency key of a call is consulted by nobody, so that a call that timed
  out may be executed once per attempt (`applied` in DaemonRequests); an audit record that the open store fails
  to write is dropped and the call answered all the same (`request-router.ts:409`, `unwritten`); a result too large for a frame is
  answered as an error after it was committed and audited.
- *Sync*. An event larger than the reader's page makes the request fail at that cursor every time; an
  artifact superseded by one that does not concern the reader reaches nobody; relevance is judged when
  the log is read, so that an event about an item that is claimed away before the agent has read so far is
  passed unread, and one about an item that becomes the agent's while a sync is between its two reads, too;
  the empty page of an inclusive query reports its start as read.
- *Code state*. Indexing a file again deletes the imports *into* it with those out of it, and puts back
  only its own (`indexer.ts:50`, `projections.ts:203`): "A imports B" is lost whenever B is indexed after
  A, without an announcement, and the impact engine follows incoming imports. That is why `EdgesConverge`
  states an inclusion. A first scan stops at 200 files and drops, on a restart, the entries of the
  others until the next reconciliation, which stops at its own limit: a worktree beyond it does not
  converge (`ReconcileFileLimit` is at least `MaxFile` in the run). An announcement that failed is not
  repeated, so `ImpactsFollow` excepts failures; and when the index becomes empty the impacts of what it was
  stay (`coordination-runtime/src/runtime.ts:318`), which it excepts as well. A degraded worktree never becomes ready again.
- *Provenance*. A receipt recorded after the daemon has seen the file leaves the change "unmanaged"; a
  transition that was published once is "managed" whoever repeats it; local admission compares no
  content with the head; with the default coverage no attestation is valid.
- *Evidence*. `verify-production-next-evidence` wants PN12 a candidate that is not eligible,
  `verify-production-next-promotion` wants it accepted and eligible: `verify-production-next --strict`,
  which runs both, cannot succeed.
- *Language servers*. Open documents, pushed diagnostics and the decoder's residue outlive a restart; a
  client that is still starting is handed out; two calls may both send didOpen; the timeout of one
  waiter for diagnostics forgets the other waiters; `shutdownAll` is called by nobody.
- *MCP*. The tools of the daemon pass no signal on: a call that hangs keeps its slot when it is
  cancelled, and eight of them stop all tools.
- *Reading, search, VCS, graphs*. A file appended to during a request gets a whole-file hash and no mark
  of truncation; a window smaller than a character drops the character or fails; a window that begins with
  U+FEFF drops it, since each has a `TextDecoder` of its own (`bounded-read.ts:172`); an oversized line is
  matched as the empty line (`search/src/fallback.ts:249`); a file that fails in the middle of a search
  keeps its matches without a mark; an artifact store that could not be made is not tried again; the
  names and the text of a diff come from two runs of git; a temporary file that cannot be removed stays
  (`local-artifact-store.ts:76`); a node beyond the bounded snapshot is answered as if there were none; a
  session that an intent names is shown as
  missing even when it exists; an impact cut by `maxDepth` is not marked as cut, and neither is one of a
  worktree with more than the 100000 entities or 200000 edges that `getCodeState` reads. The properties
  state these exceptions: `Fitting` and `dropped` in `PagesAreTheFile`, `unread` and `TooLong` in
  `MatchesAreTheirs`, `store.left` in `ArtifactIsWhole`, the second half of `ExpansionIsHonest`, the depth
  in `ImpactIsWhole`.
- *Publication*. The read-back behind the rename may itself fail: the receipt then says that nothing was
  published where the call's own bytes are (`atomic-replace.ts:95`, `:147`), the one exception of
  `ReceiptTellsTruth`.
- *File tools*. `fs_write` may answer with the hash of another writer's content, read back after the lock
  was freed; one with a hash creates a file that is missing. `EditsAreKept` takes an agent's hash for
  `fs_write` from `fs_read`, as the tool's description asks. What an editor saves between `publishOne`'s
  check and the rename is lost, as is another process's publication (`ChangePublication_stale`);
  `EditsAreKept` counts an editor's edit only if it was saved before that check.

## 7. Not modelled

Left out for good, because they are tables or pure functions of one input, or keep no state that
outlives a run: the policy decision point and the approval flow, AST search, globs, git log and status,
the ripgrep backend, schemas of tools and the translation of their arguments, validation, diffs and
layout of graphs, the code, impact and evaluation projections, observability, host profiles, the native
loader, and the scripts for bootstrap, packaging, release verification and review.

Left out inside the modelled parts: proposals and canonical encodings of changes, digests (a content is
its fingerprint), feedback packets and retry cycles (written with the decision, read by no operation of
the models), `registerSpec`, scopes of the work graph, the idempotency table and the replay of the log
(which nothing calls), a criterion whose id has a ":" in it and shares the key of another's row, migrations, the discovery of the daemon and the encoding of frames, the byte
budget and the pins of the snapshot store (called by nobody outside of it), symbols and the providers of
the code state other than files and imports, `put` and the total size of the artifact store, the gates
of the hypotheses other than PN6 and PN8, the reuse of pids and the power failure of the machine; of the
theater, the cut of the history at its last 200 events and 100 pages, redaction (which changes no sequence
number), motion cues, rendering, filters, the two-dimensional portal, and the graphs of impact and
lineage, which are read and streamed like the two that are modelled.

## 8. Plan

Done: the components whose handlers, processes, calls and readers meet on shared state (work graph,
evaluation, lock, publication, live view, requests, sync, code state, file tools, language servers, MCP
server, admission, evidence), and the algorithms with limits (windows, diffs, searches, graph views,
impact). Proved: all safety properties of the passing runs, for all sizes. Next, in this order:

1. **Composition** – Evaluation as the inside of WorkGraph's runs (`RequestRun`, `CompleteRun`), by a
   refinement of the run variables, and its proof.
2. **Abstract specifications** – a reader that sees every event once, which SyncFeed and TheaterFeed
   both implement; a registry that answers each call once, which LspClient implements.
3. **Action properties** that the invariants now make cheap: the agent's cursor never moves back
   (SyncFeed), an audited operation is never undone (DaemonRequests), a sealed attestation is never
   changed in place.

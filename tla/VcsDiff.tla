------------------------------ MODULE VcsDiff ------------------------------
(***************************************************************************)
(* vcs_diff: git prints a diff, the collector reads it chunk by chunk and    *)
(* answers with the first lines of it; what is too long for an answer goes  *)
(* to an artifact, a file written under a temporary name and renamed when   *)
(* it is complete.  The diff is a sequence of lines, a line its bytes with   *)
(* its newline; what is kept of it is the numbers of its bytes, in the order *)
(* in which they are kept; the artifact store belongs to the process.       *)
(***************************************************************************)
EXTENDS Naturals, Sequences, FiniteSets, SequencesExt, FiniteSetsExt

CONSTANTS
    InlineLines, InlineBytes,   \* INLINE_HUNK_LINES, INLINE_HUNK_BYTES
    MaxOutput, MaxArtifact,     \* MAX_GIT_DIFF_BYTES, maxBytes of the store
    MaxLines, MaxLine,          \* bound: lines of a diff, bytes of a line
    MaxDiffs                    \* bound: calls of vcs_diff, one after the other

ASSUME VcsAssumption ==
    {InlineLines, InlineBytes, MaxOutput, MaxArtifact, MaxLines, MaxLine, MaxDiffs} \subseteq Nat

VARIABLES
    diff,       \* the lines git prints for this call
    git,        \* the process, whether its last line lacks a newline, how much of its
                \* output was read, and the signal
    collector,  \* DiffCollector: inline, the bytes in rawPrefix, truncated, writer
    result,     \* how the call ended, and its diffArtifact
    store,      \* the artifact store: temporary files left behind, artifacts with their bytes
    diffs       \* calls so far

vcsVars == <<diff, git, collector, result, store, diffs>>

NoWriter == [open |-> FALSE, bytes |-> <<>>]
NewCollector == [inline |-> <<>>, seen |-> 0, prefix |-> <<>>, truncated |-> FALSE, writer |-> NoWriter]
Idle == [at |-> "idle", unended |-> FALSE, read |-> 0, aborted |-> FALSE]
NoAnswerYet == [at |-> "none", artifact |-> 0]

VcsInit ==
    /\ diff = <<>> /\ diffs = 0
    /\ git = Idle
    /\ collector = NewCollector
    /\ result = NoAnswerYet
    /\ store = [at |-> "none", left |-> 0, artifacts |-> <<>>]

-----------------------------------------------------------------------------
Bytes(lines) == FoldLeft(+, 0, lines)
Output == Bytes(diff) - (IF git.unended THEN 1 ELSE 0)
LinesIn(read) == Max({n \in 0..Len(diff) : Bytes(SubSeq(diff, 1, n)) <= read})

(* getProcessArtifactStore: made by the first call; one that cannot be made is never
   tried again. *)
OpenStore ==
    /\ git.at = "idle" /\ diffs < MaxDiffs /\ store.at = "none"
    /\ \E at \in {"ready", "broken"} : store' = [store EXCEPT !.at = at]
    /\ UNCHANGED <<diff, git, collector, result, diffs>>

(* execute and diff: the names first; when none of them may be shown, or the first git
   fails, that is the answer. What the second git prints need not be what the first saw. *)
AskForNames ==
    /\ git.at = "idle" /\ diffs < MaxDiffs /\ store.at # "none"
    /\ diffs' = diffs + 1
    /\ collector' = NewCollector
    /\ \/ /\ store.at = "ready"
          /\ diff' \in BoundedSeq(1..MaxLine, MaxLines)
          /\ git' \in [at : {"diff"}, unended : BOOLEAN, read : {0}, aborted : {FALSE}]
          /\ git'.unended => Len(diff') > 0 /\ Last(diff') > 1
          /\ result' = NoAnswerYet
       \/ /\ \E at \in {"nothing", "failed"} : result' = [NoAnswerYet EXCEPT !.at = at]
          /\ store.at = "broken" => result'.at = "failed"
          /\ diff' = <<>> /\ git' = Idle
    /\ UNCHANGED store

Abort ==
    /\ git.at \in {"diff", "ended"} /\ ~git.aborted
    /\ git' = [git EXCEPT !.aborted = TRUE]
    /\ UNCHANGED <<diff, collector, result, store, diffs>>

-----------------------------------------------------------------------------
(* consumeLine: a line goes into the answer while it is one of the first and fits; the
   answer is truncated when one is left out. *)
ConsumeLine(shown, n) ==
    IF n > InlineLines \/ Bytes([k \in DOMAIN shown |-> diff[shown[k]]]) + diff[n] > InlineBytes
    THEN shown ELSE Append(shown, n)

Consumed(c, to) ==
    LET inline == FoldLeft(ConsumeLine, c.inline, [n \in 1..(to - c.seen) |-> c.seen + n])
    IN  [c EXCEPT !.seen = to, !.inline = inline, !.truncated = @ \/ Len(inline) # to]

(* startWriter: what was kept goes into the artifact first. *)
WithWriter(c) == [c EXCEPT !.writer = [open |-> TRUE, bytes |-> c.prefix], !.prefix = <<>>]
StartWriter(c) == IF c.writer.open THEN c ELSE WithWriter(c)

(* append: the raw bytes are kept, or written, before the lines are looked at. The mistake
   writes what was kept after the chunk. *)
Chunk(read, size) == [k \in 1..size |-> read + k]
WrittenFirst(c, chunk) ==
    [StartWriter(c) EXCEPT !.writer.bytes = IF c.writer.open THEN @ \o chunk ELSE chunk \o @]
Written(c, chunk) == [StartWriter(c) EXCEPT !.writer.bytes = @ \o chunk]
Kept(c, chunk) ==
    IF ~c.writer.open /\ Len(c.prefix) + Len(chunk) <= InlineBytes THEN [c EXCEPT !.prefix = @ \o chunk]
    ELSE Written([c EXCEPT !.truncated = c.truncated \/ ~c.writer.open], chunk)

Appended(size) ==
    LET c == Consumed(Kept(collector, Chunk(git.read, size)), LinesIn(git.read + size))
    IN  IF c.truncated THEN StartWriter(c) ELSE c

(* The limits of the output, and of the writer's append. *)
Storable(c) == Len(c.writer.bytes) <= MaxArtifact
Accepts(size) == git.read + size <= MaxOutput /\ Storable(Appended(size))

ReadChunk(size) ==
    /\ git.at = "diff" /\ ~git.aborted
    /\ size \in 1..(Output - git.read) /\ Accepts(size)
    /\ git' = [git EXCEPT !.read = @ + size]
    /\ collector' = Appended(size)
    /\ UNCHANGED <<diff, result, store, diffs>>

(* abort of the collector, and of its writer, which there is when it was open, or the failing
   step opens it: the temporary file goes, or stays when it cannot be closed or removed, which
   nobody is told. *)
CollectorAborts(opens) ==
    /\ collector' = [collector EXCEPT !.writer = NoWriter, !.prefix = <<>>]
    /\ \/ UNCHANGED store
       \/ (collector.writer.open \/ opens) /\ store' = [store EXCEPT !.left = @ + 1]
    /\ result' = [NoAnswerYet EXCEPT !.at = "failed"]
    /\ git' = [git EXCEPT !.at = "idle"]
    /\ UNCHANGED <<diff, diffs>>

(* A chunk past a limit, a disk that fails, and an aborted signal end the call. *)
ChunkFails ==
    /\ git.at = "diff"
    /\ \/ git.aborted
       \/ git.read < Output
    /\ CollectorAborts(\E size \in 1..(Output - git.read) : Appended(size).writer.open)

(* git closes: normally, or as a failure, perhaps before it printed everything. *)
GitCloses ==
    /\ git.at = "diff" /\ ~git.aborted /\ git.read = Output
    /\ git' = [git EXCEPT !.at = "ended"]
    /\ UNCHANGED <<diff, collector, result, store, diffs>>

GitFails ==
    /\ git.at = "diff" /\ ~git.aborted
    /\ CollectorAborts(FALSE)

(* finish: a last line without a newline, which the mistake forgets, then sync, close and
   rename; the signal is not looked at again. *)
FinishedAtNewline == IF collector.truncated THEN StartWriter(collector) ELSE collector
Finished ==
    LET c == Consumed(collector, Len(diff))
    IN  IF c.truncated THEN StartWriter(c) ELSE c

Finish ==
    /\ git.at = "ended" /\ Storable(Finished)
    /\ git' = [git EXCEPT !.at = "idle"]
    /\ collector' = [Finished EXCEPT !.writer = NoWriter]
    /\ IF Finished.writer.open
       THEN /\ result' = [at |-> "answered", artifact |-> Len(store.artifacts) + 1]
            /\ store' = [store EXCEPT !.artifacts = Append(@, Finished.writer.bytes)]
       ELSE /\ result' = [at |-> "answered", artifact |-> 0]
            /\ UNCHANGED store
    /\ UNCHANGED <<diff, diffs>>

FinishFails == git.at = "ended" /\ CollectorAborts(Finished.writer.open)

(* cleanupExpired: an artifact is removed after its time. *)
ExpireArtifact(n) ==
    /\ n \in DOMAIN store.artifacts /\ store.artifacts[n] # <<>>
    /\ store' = [store EXCEPT !.artifacts[n] = <<>>]
    /\ result' = [result EXCEPT !.artifact = IF @ = n THEN 0 ELSE @,
                                !.at = IF result.artifact = n THEN "expired" ELSE @]
    /\ UNCHANGED <<diff, git, collector, diffs>>

VcsNext ==
    \/ OpenStore \/ AskForNames \/ Abort \/ ChunkFails \/ GitCloses \/ GitFails
    \/ Finish \/ FinishFails
    \/ \E size \in 1..(MaxLines * MaxLine) : ReadChunk(size)
    \/ \E n \in 1..MaxDiffs : ExpireArtifact(n)

VcsSpec == VcsInit /\ [][VcsNext]_vcsVars

-----------------------------------------------------------------------------
(* The types of the call, its collector and the store. *)
VcsTypeOK ==
    /\ git.at \in {"idle", "diff", "ended"} /\ git.read \in 0..Output /\ git.aborted \in BOOLEAN
    /\ Range(collector.inline) \subseteq DOMAIN diff /\ collector.seen \in 0..Len(diff)
    /\ Len(collector.prefix) <= InlineBytes /\ collector.truncated \in BOOLEAN
    /\ result.at \in {"none", "nothing", "failed", "answered", "expired"}
    /\ store.at \in {"none", "ready", "broken"} /\ store.left \in Nat
    /\ Storable(collector) /\ \A n \in DOMAIN store.artifacts : Len(store.artifacts[n]) <= MaxArtifact

(* An answer that is not truncated shows every line of the diff, wherever chunks began
   and ended, and leaves no artifact. *)
DiffIsWhole ==
    result.at = "answered" /\ ~collector.truncated =>
        result.artifact = 0 /\ collector.inline = [n \in DOMAIN diff |-> n]

(* One that is truncated has an artifact with every byte of the diff in its place, whenever the
   artifact was begun, until it expires: what was kept comes before what was read after it. A call
   leaves one file at most, its artifact or, when it failed and could not remove it, the temporary
   one. *)
ArtifactIsWhole ==
    /\ result.at = "answered" /\ collector.truncated =>
         result.artifact # 0 /\ store.artifacts[result.artifact] = Chunk(0, Output)
    /\ store.left + Len(store.artifacts) <= diffs
=============================================================================

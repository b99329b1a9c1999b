----------------------------- MODULE FileTools -----------------------------
(* fs_read, fs_write and fs_patch of the agents of one MCP server on one file, which an
   editor outside of it changes too.  A content is the set of the edits it carries, and
   its hash is the content; every call that changes the file adds an edit of its own.
   An agent takes the expected_hash of fs_write from fs_read, as the tool asks for, and
   writes what it has read with its edit; that of fs_patch may come from any answer.
   The lock of the workspace keeps the agents of this server apart while one publishes,
   and not the editor. *)
EXTENDS Naturals

CONSTANTS
    Callers,
    MaxFileCalls,   \* bound: the calls of an agent
    MaxSaves        \* bound: what the editor does

ASSUME FileToolsAssumption == {MaxFileCalls, MaxSaves} \subseteq Nat

VARIABLES
    policy,         \* the mode of the workspace, and what the path is to it
    file,           \* the file
    agent,          \* per agent: its call, what it has read and the hash it was told
    latest,         \* the snapshot latestByPath has of the file
    saves,          \* what the editor has done
    kept            \* the edits that were made and that nobody meant to remove

fileVars == <<policy, file, agent, latest, saves, kept>>

Editor == "editor"
Edits == (Callers \X (1..MaxFileCalls)) \union ({Editor} \X (1..MaxSaves))
NoFile == [exists |-> FALSE, edits |-> {}]
Contents == {NoFile} \union [exists : {TRUE}, edits : SUBSET Edits]
(* No content was read, or no hash told. *)
Unknown == [exists |-> FALSE, edits |-> {}]

Resting == [at |-> "idle", tool |-> "none", n |-> 0, read |-> Unknown, told |-> Unknown,
            expects |-> NoFile, bytes |-> {}]

Modes == {"read-only", "workspace-write", "review-required"}
Paths == {"outside", "ordinary", "sensitive", "listed"}

FilesInit ==
    /\ policy \in [mode : Modes, path : Paths]
    /\ file \in {NoFile, [exists |-> TRUE, edits |-> {}]}
    /\ agent = [a \in Callers |-> Resting]
    /\ latest = Unknown /\ saves = 0 /\ kept = {}

Own(a) == <<a, agent[a].n>>

(* The call of a is refused, or throws: its agent learns nothing. *)
Refused(a) ==
    /\ agent' = [agent EXCEPT ![a].at = "idle"]
    /\ UNCHANGED <<file, latest, saves, kept>>

Moves(a, to) == [agent EXCEPT ![a].at = to]

-----------------------------------------------------------------------------
(* classAllowedInMode: a workspace that is not open for writing is read only. *)
ClassAllowed(tool) == tool = "read" \/ policy.mode = "workspace-write"

(* canonicalizeWithinRoots: links resolved, the path is below a root of the workspace. *)
Inside == policy.path # "outside"

(* isSensitive: a part of the path's name, or the path, matches a sensitive pattern. *)
Sensitive == policy.path \in {"sensitive", "listed"}

(* A sensitive path is denied, unless the workspace lists it. *)
PathAllowed == Sensitive => policy.path = "listed"

(* resolveForRead and resolveForWrite: the path has to be inside of the workspace, and
   allowed; only a write may name a file that is missing. *)
Authorized(tool) ==
    /\ Inside
    /\ tool = "read" => file.exists
    /\ ClassAllowed(tool) /\ PathAllowed

BeginCall(a, tool) ==
    /\ agent[a].at = "idle" /\ agent[a].n < MaxFileCalls
    /\ tool = "patch" => agent[a].told # Unknown
    /\ agent' = [agent EXCEPT ![a].at = IF Authorized(tool) THEN "resolved" ELSE "idle",
                              ![a].tool = tool, ![a].n = @ + 1]
    /\ UNCHANGED <<file, latest, saves, kept>>

(* fs_read: the file is read, and then recorded in the snapshot store. *)
ReadBytes(a) ==
    /\ agent[a].at = "resolved" /\ agent[a].tool = "read"
    /\ IF file.exists
       THEN agent' = [Moves(a, "record") EXCEPT ![a].read = file]
            /\ UNCHANGED <<file, latest, saves, kept>>
       ELSE Refused(a)

(* SnapshotStore.record. *)
Record(a) ==
    /\ agent[a].at = "record"
    /\ latest' = agent[a].read
    /\ agent' = [Moves(a, "idle") EXCEPT ![a].told = agent[a].read]
    /\ UNCHANGED <<file, saves, kept>>

-----------------------------------------------------------------------------
(* fs_write on a file that is there needs the hash of what is there; the mistake
   compares a hash only when it is given. *)
GivenHashMatches(a) == agent[a].read \in {file, Unknown}
HashMatches(a) == agent[a].read = file

CheckWrite(a) ==
    /\ agent[a].at = "resolved" /\ agent[a].tool = "write"
    /\ IF file.exists => HashMatches(a)
       THEN agent' = [Moves(a, "apply") EXCEPT ![a].expects = file,
                                              ![a].bytes = agent[a].read.edits \union {Own(a)}]
            /\ UNCHANGED <<file, latest, saves, kept>>
       ELSE Refused(a)

(* fs_patch needs the file and its hash ... *)
CheckPatch(a) ==
    /\ agent[a].at = "resolved" /\ agent[a].tool = "patch"
    /\ IF file.exists /\ agent[a].told = file
       THEN agent' = [Moves(a, "transform") EXCEPT ![a].expects = file]
            /\ UNCHANGED <<file, latest, saves, kept>>
       ELSE Refused(a)

Expected(a) == file = agent[a].expects

(* ... and applyTransform reads it again, to put the hunks in. *)
Transform(a) ==
    /\ agent[a].at = "transform" /\ Expected(a)
    /\ agent' = [Moves(a, "apply") EXCEPT ![a].bytes = file.edits \union {Own(a)}]
    /\ UNCHANGED <<file, latest, saves, kept>>

(* A hunk whose anchor is missing or ambiguous. *)
HunkFails(a) == agent[a].at = "transform" /\ Refused(a)

(* applyBytes reads the file and checks the precondition, before it waits for the lock. *)
Prepare(a) ==
    /\ agent[a].at = "apply"
    /\ IF Expected(a) THEN agent' = Moves(a, "publish") /\ UNCHANGED <<file, latest, saves, kept>>
       ELSE Refused(a)

(* withWorkspaceLock: who is inside of publishOne. *)
HoldsLock(a) == agent[a].at \in {"swap", "verify"}

(* publishOne, under the lock, checks the precondition on what it reads, ... *)
CheckAgain(a) ==
    /\ agent[a].at = "publish" /\ \A b \in Callers : ~HoldsLock(b)
    /\ IF Expected(a) THEN agent' = Moves(a, "swap") /\ UNCHANGED <<file, latest, saves, kept>>
       ELSE Refused(a)

(* ... writes a file aside, and puts it in place: a new file by a link, which fails if
   there is one by now, and another by a rename over whatever is there. *)
PublishBytes(a) ==
    /\ agent[a].at = "swap" /\ (file.exists => agent[a].expects.exists)
    /\ file' = [exists |-> TRUE, edits |-> agent[a].bytes]
    /\ kept' = kept \union {Own(a)}
    /\ agent' = Moves(a, "verify")
    /\ UNCHANGED <<latest, saves>>

(* It reads back what it has published; mutatePath forgets the snapshot. *)
VerifyBytes(a) ==
    /\ agent[a].at = "verify" /\ file = [exists |-> TRUE, edits |-> agent[a].bytes]
    /\ latest' = Unknown
    /\ agent' = Moves(a, "after")
    /\ UNCHANGED <<file, saves, kept>>

(* The call is aborted, an operation on the file fails, the read-back among them, or
   finds other bytes: the lock is free, and the snapshot not forgotten. *)
PublishFails(a) == HoldsLock(a) /\ Refused(a)

(* The answer names what is read back after the lock is free, which may be more than
   the call has published; fs_write records it, too. *)
ReadBack(a) ==
    /\ agent[a].at = "after"
    /\ IF file.exists
       THEN /\ agent' = [Moves(a, "idle") EXCEPT ![a].told = file, ![a].read = Unknown]
            /\ latest' = IF agent[a].tool = "write" THEN file ELSE latest
            /\ UNCHANGED <<file, saves, kept>>
       ELSE Refused(a)

-----------------------------------------------------------------------------
(* A call is past its last check of the file and about to rename over it. *)
AboutToReplace == \E a \in Callers : agent[a].at = "swap" /\ agent[a].expects.exists

(* The editor saves the file with an edit of its own, which may be a new file, or deletes
   it.  An edit that comes behind the last check of a call is not counted as kept. *)
EditorSaves ==
    /\ saves < MaxSaves
    /\ saves' = saves + 1
    /\ file' = [exists |-> TRUE, edits |-> file.edits \union {<<Editor, saves'>>}]
    /\ kept' = IF AboutToReplace THEN kept ELSE kept \union {<<Editor, saves'>>}
    /\ UNCHANGED <<agent, latest>>

EditorDeletes ==
    /\ saves < MaxSaves /\ file.exists
    /\ saves' = saves + 1
    /\ file' = NoFile /\ kept' = {}
    /\ UNCHANGED <<agent, latest>>

FilesNext ==
    /\ UNCHANGED policy
    /\ \/ EditorSaves \/ EditorDeletes
       \/ \E a \in Callers :
             \/ \E tool \in {"read", "write", "patch"} : BeginCall(a, tool)
             \/ ReadBytes(a) \/ Record(a)
             \/ CheckWrite(a) \/ CheckPatch(a) \/ Transform(a) \/ HunkFails(a)
             \/ Prepare(a) \/ CheckAgain(a) \/ PublishBytes(a) \/ VerifyBytes(a)
             \/ PublishFails(a) \/ ReadBack(a)

FilesSpec == FilesInit /\ [][FilesNext]_fileVars

-----------------------------------------------------------------------------
FilesTypeOK ==
    /\ policy \in [mode : Modes, path : Paths]
    /\ file \in Contents /\ latest \in Contents
    /\ agent \in [Callers -> [at : {"idle", "resolved", "record", "transform", "apply", "publish",
                                   "swap", "verify", "after"},
                             tool : {"none", "read", "write", "patch"}, n : 0..MaxFileCalls,
                             read : Contents, told : Contents, expects : Contents, bytes : SUBSET Edits]]
    /\ saves \in 0..MaxSaves /\ kept \subseteq Edits

(* No call loses the edit of another agent, nor one the editor has saved before the last
   check of the call: between its checks files are read three times and a lock is waited
   for, and a patch may go on from the answer of a call the file has changed after.
   What the editor saves between that check and the rename is lost. *)
EditsAreKept == kept \subseteq file.edits
=============================================================================

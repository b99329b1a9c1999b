---------------------------- MODULE SearchFiles ----------------------------
(***************************************************************************)
(* search, mode grep: the files of the walk are read one after the other,   *)
(* chunk by chunk, and matched line by line; a line longer than the limit   *)
(* is not matched, and not kept in memory either.  A line is its bytes with  *)
(* its newline and whether the pattern matches it; the pattern may match    *)
(* the empty line.  The first matches are kept, all of them are counted.    *)
(***************************************************************************)
EXTENDS Naturals, Sequences, FiniteSets, SequencesExt, FiniteSetsExt, Ascending

CONSTANTS
    MaxFiles, MaxFileLines,     \* bound: files of a walk, lines of a file
    LineKinds,                  \* bound: lines that are not empty: bytes, and whether they match
    LineLimit,                  \* MAX_SEARCH_LINE_BYTES
    MatchLimit                  \* limit

ASSUME SearchAssumption ==
    /\ {MaxFiles, MaxFileLines, LineLimit, MatchLimit} \subseteq Nat
    /\ LineKinds \subseteq [bytes : Nat \ {0, 1}, hit : BOOLEAN]

VARIABLES
    pattern,    \* whether it matches the empty line, and whether files end without a newline
    files,      \* the files the walk yields, as sequences of lines
    scan,       \* the file being read, and what is kept of it between chunks
    found,      \* matches, as pairs of file and line number, and totalCount
    unread      \* history: the files that could not be read to the end

searchVars == <<pattern, files, scan, found, unread>>

(* The newline is the last byte: a line of one byte is empty. *)
Lines == LineKinds \union {[bytes |-> 1, hit |-> pattern.empty]}
Ends(file) == pattern.unended /\ Len(file) > 0 => Last(file).bytes > 1

NextFile(n) == [file |-> n, read |-> 0, line |-> 0, dropped |-> 0, discarding |-> FALSE]

SearchInit ==
    /\ pattern \in [empty : BOOLEAN, unended : BOOLEAN]
    /\ files \in BoundedSeq({f \in BoundedSeq(Lines, MaxFileLines) : Ends(f)}, MaxFiles)
    /\ scan = NextFile(1)
    /\ found = [matches |-> <<>>, total |-> 0, fate |-> "searching"]
    /\ unread = {}

-----------------------------------------------------------------------------
File == files[scan.file]
LineEnd(n) == EndsOf([k \in DOMAIN File |-> File[k].bytes])[n]
FileSize == LineEnd(Len(File)) - (IF pattern.unended /\ File # <<>> THEN 1 ELSE 0)

(* consumeLine: number n of the file; a line that was dropped from memory comes as
   the empty line. *)
MatchesLong(n) == IF n = scan.dropped THEN pattern.empty ELSE File[n].hit
Matches(n) == IF n = scan.dropped THEN pattern.empty ELSE File[n].hit /\ File[n].bytes - 1 <= LineLimit

Consume(to) ==
    LET hits == InOrder({n \in (scan.line + 1)..to : Matches(n)})
        room == MatchLimit - Len(found.matches)
        kept == SubSeq(hits, 1, IF Len(hits) < room THEN Len(hits) ELSE room)
    IN  found' = [found EXCEPT
                    !.matches = @ \o [k \in DOMAIN kept |-> <<scan.file, kept[k]>>],
                    !.total = @ + Len(hits)]

(* A chunk of a file: its whole lines, and a rest that is kept unless it is too long.
   While a long line is dropped, a chunk without its newline is passed over. *)
SearchChunk(size) ==
    /\ found.fate = "searching" /\ scan.file \in DOMAIN files
    /\ size \in 1..(FileSize - scan.read)
    /\ LET to == Max({n \in 0..Len(File) : LineEnd(n) <= scan.read + size})
           rest == scan.read + size - LineEnd(to)
           kept == to > scan.line \/ ~scan.discarding
           drops == IF kept THEN rest > LineLimit ELSE TRUE
       IN  /\ Consume(to)
           /\ scan' = [scan EXCEPT !.read = @ + size, !.line = to, !.discarding = drops,
                                   !.dropped = IF drops THEN to + 1 ELSE 0]
    /\ UNCHANGED <<pattern, files, unread>>

(* The end of a file: what is kept is its last line. Or an error: the search goes on
   with the next file and with what this one gave. *)
FileEnds ==
    /\ found.fate = "searching" /\ scan.file \in DOMAIN files /\ scan.read = FileSize
    /\ IF scan.discarding THEN UNCHANGED found ELSE Consume(Len(File))
    /\ scan' = NextFile(scan.file + 1)
    /\ UNCHANGED <<pattern, files, unread>>

FileFails ==
    /\ found.fate = "searching" /\ scan.file \in DOMAIN files
    /\ scan' = NextFile(scan.file + 1)
    /\ unread' = unread \union {scan.file}
    /\ UNCHANGED <<pattern, files, found>>

(* The walk yields no more files, or the request is cancelled. *)
SearchEnds ==
    /\ found.fate = "searching"
    /\ \/ scan.file \notin DOMAIN files /\ found' = [found EXCEPT !.fate = "answered"]
       \/ found' = [found EXCEPT !.fate = "cancelled"]
    /\ UNCHANGED <<pattern, files, scan, unread>>

SearchNext ==
    \/ \E size \in 1..(MaxFileLines * Max({l.bytes : l \in LineKinds})) : SearchChunk(size)
    \/ FileEnds \/ FileFails \/ SearchEnds

SearchSpec == SearchInit /\ [][SearchNext]_searchVars

-----------------------------------------------------------------------------
(* The lines of the files that the pattern matches, file by file. *)
Hits == UNION {{<<f, n>> : n \in {m \in DOMAIN files[f] : files[f][m].hit /\ files[f][m].bytes - 1 <= LineLimit}}
                 : f \in DOMAIN files}
Precedes(at, other) == at[1] < other[1] \/ (at[1] = other[1] /\ at[2] < other[2])

(* The types of the scan and of what it found. *)
SearchTypeOK ==
    /\ pattern \in [empty : BOOLEAN, unended : BOOLEAN]
    /\ files \in Seq(Seq(Lines)) /\ \A f \in DOMAIN files : Ends(files[f])
    /\ scan \in [file : 1..(Len(files) + 1), read : Nat, line : Nat, dropped : Nat, discarding : BOOLEAN]
    /\ found \in [matches : Seq(Nat \X Nat), total : Nat, fate : {"searching", "answered", "cancelled"}]
    /\ Len(found.matches) <= MatchLimit /\ unread \subseteq DOMAIN files

(* A long line comes as the empty line if a chunk ends within it, and the pattern may match that. *)
TooLong == UNION {{<<f, n>> : n \in {m \in DOMAIN files[f] : files[f][m].bytes - 1 > LineLimit}} : f \in DOMAIN files}
MayMatch == Hits \union (IF pattern.empty THEN TooLong ELSE {})

(* What an answer shows of some matching lines: it counts them and has the first of them, in
   their order and under their own numbers. *)
Answers(hits, matches, total) ==
    /\ IsFiniteSet(hits) /\ total = Cardinality(hits)
    /\ Len(matches) = IF total < MatchLimit THEN total ELSE MatchLimit
    /\ \A k \in DOMAIN matches :
         /\ matches[k] \in hits
         /\ Cardinality({hit \in hits : Precedes(hit, matches[k])}) = k - 1

(* An answer is about every matching line of every file that was read to its end, wherever chunks
   begin and end, about no line that does not match, and about what was read of the other files,
   which it does not name; a line over the limit is as if it did not match, unless the pattern
   matches the empty line. *)
MatchesAreTheirs ==
    found.fate = "answered" =>
        \E hits \in SUBSET MayMatch :
            /\ \A hit \in Hits : hit[1] \notin unread => hit \in hits
            /\ Answers(hits, found.matches, found.total)
=============================================================================

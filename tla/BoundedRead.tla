---------------------------- MODULE BoundedRead ----------------------------
(***************************************************************************)
(* fs_read: a text file is read window by window.  The reader asks for the  *)
(* next_offset of the last answer with the same max_bytes until there is    *)
(* none.  A window is given in bytes and cut at characters; a character is  *)
(* its width in bytes, and whether it is U+FEFF, the byte-order mark, which *)
(* means something else where a text begins.  The file may grow while it is *)
(* read.                                                                    *)
(***************************************************************************)
EXTENDS Naturals, Sequences, FiniteSets, SequencesExt, FiniteSetsExt, Ascending

CONSTANTS
    MaxChars,       \* bound: characters of the file
    MaxWindow       \* bound: max_bytes of a request

ASSUME ReadAssumption == {MaxChars, MaxWindow} \subseteq Nat \ {0}

VARIABLES
    text,       \* the file: encoding, the widths of its characters, and which of them are U+FEFF
    window,     \* max_bytes of every request
    reading,    \* the request in flight and what the reader has so far
    grew        \* history: the file grew while a request was reading it

readVars == <<text, window, reading, grew>>

(* detectEncoding: width of the byte-order mark, and of a code unit. *)
Encodings == {[unit |-> 1, bom |-> 0], [unit |-> 1, bom |-> 3], [unit |-> 2, bom |-> 2]}
Widths(encoding) == IF encoding.unit = 1 THEN 1..4 ELSE {2, 4}

(* The characters that may be U+FEFF. One that begins the file is its byte-order mark, no character. *)
MarkWidth(encoding) == IF encoding.unit = 1 THEN 3 ELSE 2
MarksOf(encoding, chars) == {n \in DOMAIN chars : chars[n] = MarkWidth(encoding) /\ (n = 1 => encoding.bom > 0)}

TextInit ==
    /\ \E e \in Encodings : \E chars \in BoundedSeq(Widths(e), MaxChars) : \E marks \in SUBSET MarksOf(e, chars) :
         text = [encoding |-> e, chars |-> chars, marks |-> marks]
    /\ window \in 1..MaxWindow
    /\ reading = [at |-> "idle", offset |-> 0, size |-> 0, pages |-> <<>>]
    /\ grew = FALSE

-----------------------------------------------------------------------------
Lesser(a, b) == IF a < b THEN a ELSE b
Greater(a, b) == IF a > b THEN a ELSE b

(* Where character n ends; a mark counts as one that ends where the first begins. *)
EndOf(n) == text.encoding.bom + EndsOf(text.chars)[n]
Size == EndOf(Len(text.chars))
Boundaries == {0} \union {EndOf(n) : n \in 0..Len(text.chars)}
LastBoundary(limit) == Max({b \in Boundaries : b <= limit})

(* The characters that lie within some bytes. *)
Within(from, to) == {n \in DOMAIN text.chars : EndOf(n - 1) >= from /\ EndOf(n) <= to}

(* safeUtf8Range and safeUtf16Range: the start moves back, to the character or to the
   code unit, and the end is cut before a character that does not fit. What was not
   retained, at retained and after, is not looked at. *)
Start(offset) ==
    IF text.encoding.unit = 1 THEN (IF offset >= Size THEN offset ELSE LastBoundary(offset))
    ELSE LET from == Greater(offset, text.encoding.bom)
         IN  from - ((from - text.encoding.bom) % 2)

WindowEnd(offset, limit) ==
    LET start == Start(offset)
    IN  IF text.encoding.unit = 1 THEN Lesser(limit, start + (limit - offset))
        ELSE LET end == Lesser(Greater(start, limit), start + (limit - offset))
             IN  Greater(start, end - ((end - text.encoding.bom) % 2))

(* safeUtf8Range: no character is cut in two, which the mistake does. *)
NotCut(start, end) == end
CutAtCharacter(start, end) == Greater(start, LastBoundary(end))
End(offset, limit, retained) ==
    LET end == WindowEnd(offset, limit)
    IN  IF end > retained THEN end ELSE CutAtCharacter(Start(offset), end)

-----------------------------------------------------------------------------
(* The request opens the file and asks for its size. *)
OpenWindow ==
    /\ reading.at = "idle"
    /\ reading' = [reading EXCEPT !.at = "open", !.size = Size]
    /\ UNCHANGED <<text, window, grew>>

(* Anyone appends to the file. *)
Grow(width) ==
    /\ Len(text.chars) < MaxChars /\ width \in Widths(text.encoding)
    /\ reading.at \in {"idle", "open"}
    /\ \E marks \in {text.marks, text.marks \union {Len(text.chars) + 1}} :
         /\ marks \subseteq MarksOf(text.encoding, Append(text.chars, width))
         /\ text' = [text EXCEPT !.chars = Append(@, width), !.marks = marks]
    /\ grew' = (grew \/ reading.at = "open")
    /\ UNCHANGED <<window, reading>>

(* The window of a request that found the given size at first, and its next_offset. *)
Requested == Lesser(reading.offset, reading.size)
Retained == Lesser(reading.size, Lesser(reading.size, Requested + window) + 4)
Limit == Lesser(Size, Requested + window)
RangeEnd == End(Requested, Limit, Retained)

(* A window of UTF-16 that starts within a character cannot be decoded. *)
Undecodable == text.encoding.unit = 2 /\ Start(Requested) \notin Boundaries /\ Start(Requested) < RangeEnd

(* What the window shows. Each window has a TextDecoder of its own, which takes a U+FEFF that
   its bytes begin with for a byte-order mark and drops it. *)
InWindow == Within(Start(Requested), Lesser(RangeEnd, Retained))
Decoded == {n \in InWindow : n \in text.marks => \E m \in InWindow : m < n}

ReadWindow ==
    /\ reading.at = "open" /\ ~Undecodable
    /\ reading' = [at |-> IF RangeEnd < Size THEN "idle" ELSE "done",
                   offset |-> IF RangeEnd < Size THEN Lesser(Size, Greater(Requested + 1, RangeEnd)) ELSE Size,
                   size |-> 0,
                   pages |-> reading.pages \o InOrder(Decoded)]
    /\ UNCHANGED <<text, window, grew>>

(* Undecodable, or (isLikelyBinary, or an I/O error) refused for other reasons. *)
ReadFails ==
    /\ reading.at = "open"
    /\ reading' = [reading EXCEPT !.at = "failed"]
    /\ UNCHANGED <<text, window, grew>>

ReadNext == OpenWindow \/ ReadWindow \/ ReadFails \/ \E width \in 1..4 : Grow(width)

ReadSpec == TextInit /\ [][ReadNext]_readVars

-----------------------------------------------------------------------------
(* The types of the file and of the reading. *)
ReadTypeOK ==
    /\ text \in [encoding : Encodings, chars : Seq(1..4), marks : SUBSET Nat]
    /\ text.chars \in Seq(Widths(text.encoding)) /\ text.marks \subseteq MarksOf(text.encoding, text.chars)
    /\ window \in 1..MaxWindow /\ grew \in BOOLEAN
    /\ reading \in [at : {"idle", "open", "done", "failed"}, offset : Nat, size : Nat, pages : Seq(Nat)]
    /\ {reading.offset, reading.size} \subseteq 0..Size /\ Range(reading.pages) \subseteq DOMAIN text.chars

(* The windows put together are the file up to the next offset, each character once and in order,
   wherever windows begin and end, but for two kinds of characters, which no answer marks: those
   wider than the window, and U+FEFF, which a window that begins with it drops. Only a file that
   grew during a request may come out otherwise. *)
Fitting == {n \in Within(0, reading.offset) : text.chars[n] <= window}
PagesAreTheFile ==
    ~grew => \E dropped \in SUBSET text.marks : reading.pages = InOrder(Fitting \ dropped)
=============================================================================

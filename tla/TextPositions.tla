--------------------------- MODULE TextPositions ---------------------------
(* Places in a document: internal/analysis/position.go and offsetAt of       *)
(* internal/lsp/server.go. The protocol counts lines and UTF-16 code units;  *)
(* the server counts in its own text. A text is a sequence of characters,    *)
(* and an offset the number of characters before a place: both scanning      *)
(* loops of the code advance by whole characters, so that the bytes of one   *)
(* never come apart. "nl" ends a line; "wide" takes two code units.          *)
EXTENDS Integers, SequencesExt, FiniteSetsExt

Position == [line : Nat, character : Nat]

\* utf16Len: every character is one code unit, or two from U+10000 on.
Utf16Len(text) == Len(text) + Quantify(DOMAIN text, LAMBDA i : text[i] = "wide")

\* The numbers of a set, in ascending order.
Ascending(S) == [n \in 1 .. Cardinality(S) |-> CHOOSE k \in S : Quantify(S, LAMBDA j : j <= k) = n]

\* indexLines: the offsets at which the lines begin.
LineStarts(text) == Ascending({0} \cup {i \in DOMAIN text : text[i] = "nl"})

\* PositionOf: the last line that begins at or before the offset, and the code
\* units from its beginning.
PositionOf(text, offset) ==
    LET starts == LineStarts(text)
        line == Quantify(DOMAIN starts, LAMBDA l : starts[l] <= offset)
    IN [line |-> line - 1, character |-> Utf16Len(SubSeq(text, starts[line] + 1, offset))]

RangeOf(text, start, end) ==
    [start |-> PositionOf(text, start), end |-> PositionOf(text, end)]

\* A slip: characters are counted, not code units.
ColumnOfChars(text, start, character) ==
    Min({i \in start .. Len(text) :
            \/ i = Len(text)
            \/ text[i + 1] = "nl"
            \/ i - start >= character})
\* The column loop of both scans: it stops at the end of the text or of the line, or as
\* soon as the units counted reach the column.
Column(text, start, character) ==
    Min({i \in start .. Len(text) :
            \/ i = Len(text)
            \/ text[i + 1] = "nl"
            \/ Utf16Len(SubSeq(text, start + 1, i)) >= character})

\* offsetAt: a line past the end is the end of the text.
OffsetAt(text, pos) ==
    LET starts == LineStarts(text)
    IN IF pos.line >= Len(starts) THEN Len(text)
       ELSE Column(text, starts[pos.line + 1], pos.character)

\* OffsetOf: the same for the parsed text, by the line index.
OffsetOf(text, pos) ==
    IF pos.line >= Len(LineStarts(text)) THEN Len(text)
    ELSE Column(text, LineStarts(text)[pos.line + 1], pos.character)
=============================================================================

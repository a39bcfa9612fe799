----------------------------- MODULE OutputText -----------------------------
(***************************************************************************)
(* How text taken from packets is written: the quoted cells of             *)
(* src/csv_logger.c and the terminal and JSON text of src/output.c, as     *)
(* functions from octets to octets, and the readers they are meant for.    *)
(* Numbers and addresses, which the program formats itself, and the fixed  *)
(* words around the values are left out.                                   *)
(***************************************************************************)
EXTENDS Integers, FiniteSets, Sequences, SequencesExt

Quote == 34
Apostrophe == 39
Comma == 44
Backslash == 92
Newline == 10
FormulaStarts == {61, 43, 45, 64}       \* = + - @
Printable == 32..126

HexDigit(n) == IF n < 10 THEN 48 + n ELSE 87 + n
Hex(o) == <<HexDigit(o \div 16), HexDigit(o % 16)>>
EscapedOctet(o) == <<Backslash, 120>> \o Hex(o)

Separated(parts, separator) ==
    FlattenSeq([i \in 1..Len(parts) |-> IF i = 1 THEN parts[i] ELSE separator \o parts[i]])
----------------------------------------------------------------------------
(* csv_logger.c.                                                           *)

\* Leading spaces do not hide a formula.
csv_text_needs_formula_prefix(t) ==
    \E i \in 1..Len(t) : t[i] \in FormulaStarts /\ \A j \in 1..(i - 1) : t[j] = 32

\* Mutant of Prefix: only the very first octet is looked at.
PrefixFirstOctet(t) == IF t # <<>> /\ t[1] \in FormulaStarts THEN <<Apostrophe>> ELSE <<>>

Prefix(t) == IF csv_text_needs_formula_prefix(t) THEN <<Apostrophe>> ELSE <<>>

CsvOctet(o) ==
    IF o = Quote THEN <<Quote, Quote>>
    ELSE IF o \in Printable THEN <<o>> ELSE EscapedOctet(o)

write_csv_text(t) ==
    <<Quote>> \o Prefix(t) \o FlattenSeq([i \in 1..Len(t) |-> CsvOctet(t[i])]) \o <<Quote>>

\* The payload column shows what is not printable as a dot.
PayloadOctet(o) ==
    IF o = Quote THEN <<Quote, Quote>> ELSE IF o \in Printable THEN <<o>> ELSE <<46>>

write_payload_ascii(t) ==
    <<Quote>> \o Prefix(t) \o FlattenSeq([i \in 1..Len(t) |-> PayloadOctet(t[i])]) \o <<Quote>>

write_payload_hex(t) ==
    <<Quote>> \o Separated([i \in 1..Len(t) |-> Hex(t[i])], <<32>>) \o <<Quote>>

\* The text columns of a row with app columns, in their order.
AppColumns == <<"method", "host", "path", "query", "sni", "alpn", "dcid", "scid">>

FieldOf(app, name) == IF name \in DOMAIN app.fields THEN app.fields[name] ELSE <<>>

(* write_app_packet: columns a protocol does not have are empty; the       *)
(* connection ids of QUIC are kept in hexadecimal (format_hex).            *)
Column(app, name) ==
    IF name \in {"dcid", "scid"}
    THEN FlattenSeq([i \in 1..Len(FieldOf(app, name)) |-> Hex(FieldOf(app, name)[i])])
    ELSE FieldOf(app, name)

write_app_packet(app) ==
    Append(Separated([i \in 1..Len(AppColumns) |-> write_csv_text(Column(app, AppColumns[i]))],
                   <<Comma>>), Newline)

\* write_legacy_packet with payload columns: the preview twice.
write_legacy_packet(preview) ==
    Append(Separated(<<write_payload_hex(preview), write_payload_ascii(preview)>>, <<Comma>>),
           Newline)
----------------------------------------------------------------------------
(* output.c.                                                               *)

print_escaped_text(t) ==
    FlattenSeq([i \in 1..Len(t) |->
        IF t[i] = Backslash THEN <<Backslash, Backslash>>
        ELSE IF t[i] \in Printable THEN <<t[i]>> ELSE EscapedOctet(t[i])])

\* The octets that have a short escape: \b \t \n \f \r.
ShortEscapes == {8, 9, 10, 12, 13}
ShortLetter(o) ==
    CASE o = 8 -> 98 [] o = 9 -> 116 [] o = 10 -> 110 [] o = 12 -> 102 [] o = 13 -> 114

\* Mutant of JsonOctet: a backslash is printed as it is.
JsonOctetPlain(o) ==
    IF o = Quote THEN <<Backslash, o>>
    ELSE IF o < 32 \/ o = 127 THEN <<Backslash, 117, 48, 48>> \o Hex(o)
    ELSE <<o>>

JsonOctet(o) ==
    IF o \in {Quote, Backslash} THEN <<Backslash, o>>
    ELSE IF o \in ShortEscapes THEN <<Backslash, ShortLetter(o)>>
    ELSE IF o < 32 \/ o = 127 THEN <<Backslash, 117, 48, 48>> \o Hex(o)
    ELSE <<o>>

print_json_string(t) ==
    <<Quote>> \o FlattenSeq([i \in 1..Len(t) |-> JsonOctet(t[i])]) \o <<Quote>>

print_json_payload_ascii(t) ==
    <<Quote>> \o FlattenSeq([i \in 1..Len(t) |->
        IF t[i] \in {Quote, Backslash} THEN <<Backslash, t[i]>>
        ELSE IF t[i] \in Printable THEN <<t[i]>> ELSE <<46>>]) \o <<Quote>>
----------------------------------------------------------------------------
(* Readers: what a CSV reader (RFC 4180) makes of a line, a JSON reader of *)
(* a string, and a person of the escapes on a terminal.                    *)

\* A position is zero-based, and what is not well-formed reads as Malformed.
Malformed == <<-1>>

Preceded(o, rest) == [text |-> <<o>> \o rest.text, end |-> rest.end]

(* From inside a quoted cell at p: its text up to the closing quote, where *)
(* two quotes mean one, and the position behind that quote.                *)
QuotedFrom(row, from, p) ==
    IF p = Len(row) THEN [text |-> Malformed, end |-> p]
    ELSE IF row[p + 1] # Quote
    THEN Preceded(row[p + 1], from[p + 1])
    ELSE IF p + 1 < Len(row) /\ row[p + 2] = Quote
    THEN Preceded(Quote, from[p + 2])
    ELSE [text |-> <<>>, end |-> p + 1]

Quoted(row) ==
    LET from[p \in 0..Len(row)] == QuotedFrom(row, from, p)
    IN  from

\* The cells from p on: a comma leads to the next one, the newline ends the row.
CellsFrom(row, from, p) ==
    IF p = Len(row) \/ row[p + 1] # Quote THEN <<Malformed>>
    ELSE LET cell == Quoted(row)[p + 1]
         IN  IF cell.end + 1 = Len(row) /\ row[cell.end + 1] = Newline THEN <<cell.text>>
             ELSE IF cell.end + 1 < Len(row) /\ row[cell.end + 1] = Comma
             THEN <<cell.text>> \o from[cell.end + 1]
             ELSE <<cell.text, Malformed>>

CsvCells(row) ==
    LET from[p \in 0..Len(row)] == CellsFrom(row, from, p)
    IN  from[0]

HexValue(o) == IF o \in 48..57 THEN o - 48 ELSE o - 87

\* What a letter behind a backslash means: a short escape, or itself.
ShortOctet(l) ==
    IF \E o \in ShortEscapes : ShortLetter(o) = l
    THEN CHOOSE o \in ShortEscapes : ShortLetter(o) = l ELSE l

\* Reading escapes: \xHH, \uHHHH, the short ones, and a backslash itself.
UnescapedFrom(t, from, p) ==
    IF p = Len(t) THEN <<>>
    ELSE IF t[p + 1] # Backslash \/ p + 1 = Len(t) THEN <<t[p + 1]>> \o from[p + 1]
    ELSE IF t[p + 2] = 120 /\ p + 4 <= Len(t)
    THEN <<HexValue(t[p + 3]) * 16 + HexValue(t[p + 4])>> \o from[p + 4]
    ELSE IF t[p + 2] = 117 /\ p + 6 <= Len(t)
    THEN <<HexValue(t[p + 5]) * 16 + HexValue(t[p + 6])>> \o from[p + 6]
    ELSE <<ShortOctet(t[p + 2])>> \o from[p + 2]

Unescaped(t) ==
    LET from[p \in 0..Len(t)] == UnescapedFrom(t, from, p)
    IN  from[0]

\* Where a JSON string that is read from p ends: at the first bare quote.
StringEndFrom(t, from, p) ==
    IF p = Len(t) \/ t[p + 1] = Quote THEN p
    ELSE IF t[p + 1] # Backslash THEN from[p + 1]
    ELSE IF p + 1 < Len(t) THEN from[p + 2] ELSE p

\* What is between the two quotes, if no quote inside ends the string.
JsonContent(s) ==
    LET inner == SubSeq(s, 2, Len(s) - 1)
        end[p \in 0..Len(inner)] == StringEndFrom(inner, end, p)
    IN  IF end[0] = Len(inner) THEN Unescaped(inner) ELSE Malformed
=============================================================================

----------------------------- MODULE TableText -----------------------------
(***************************************************************************)
(* The text of a table file: how db/storage.c writes values and rows as CSV *)
(* and reads them back line by line, and how common/utils.c orders values.  *)
(* A text, a value and a column name are sequences of characters over the   *)
(* small alphabet Characters.                                               *)
(***************************************************************************)
EXTENDS Integers, Sequences, FiniteSets, FiniteSetsExt, SequencesExt

Newline == "\n"
Quote   == "\""
Comma   == ","
Digits  == <<"0", "1", "2", "3", "4", "5", "6", "7", "8", "9">>

\* In the order of their codes.
Characters == <<Newline, Quote, "+", Comma, "-",
                "0", "1", "2", "3", "4", "5", "6", "7", "8", "9",
                "a", "b", "d", "e", "i", "m", "n">>
Code(c) == CHOOSE k \in DOMAIN Characters : Characters[k] = c

Chars == ToSet(Characters)
Texts == Seq(Chars)
Plain == Seq(Chars \ {Newline})   \* the texts within one line

Id == <<"i", "d">>

\* A finite set of numbers in increasing order: the n-th has n - 1 below it.
InOrder(S) ==
  [n \in 1 .. Cardinality(S) |->
     CHOOSE k \in S : Cardinality({l \in S : l < k}) = n - 1]

\* The elements of a sequence at the given positions, in order.
At(seq, S) == [n \in 1 .. Cardinality(S) |-> seq[InOrder(S)[n]]]

-----------------------------------------------------------------------------
(* Values: utils_is_integer, utils_parse_integer, utils_compare_values *)

Unsigned(v) == IF v # <<>> /\ Head(v) \in {"-", "+"} THEN Tail(v) ELSE v

IsInteger(v) == Unsigned(v) # <<>> /\ ToSet(Unsigned(v)) \subseteq ToSet(Digits)

ParseInteger(v) ==
  LET u == Unsigned(v)
      number[k \in 0 .. Len(u)] ==
        IF k = 0 THEN 0 ELSE 10 * number[k - 1] + (Code(u[k]) - Code("0"))
  IN  (IF Head(v) = "-" THEN -1 ELSE 1) * number[Len(u)]

\* What snprintf prints for %lld, for what an id can be.
Decimal(n) ==
  LET digits[m \in 0 .. n] ==
        (IF m < 10 THEN <<>> ELSE digits[m \div 10]) \o <<Digits[(m % 10) + 1]>>
  IN  digits[n]

Sign(n) == IF n < 0 THEN -1 ELSE IF n > 0 THEN 1 ELSE 0

\* The sign of strcmp: the first difference decides, the end being less than
\* any character.
StrCmp(l, r) ==
  LET at(s, k) == IF k \in DOMAIN s THEN Code(s[k]) ELSE 0
      last     == Max({Len(l), Len(r)}) + 1
      first    == Min({k \in 1 .. last : k = last \/ at(l, k) # at(r, k)})
  IN  Sign(at(l, first) - at(r, first))

\* Two integers are compared as numbers, anything else as text.
CompareValues(l, r) ==
  IF IsInteger(l) /\ IsInteger(r) THEN Sign(ParseInteger(l) - ParseInteger(r))
                                  ELSE StrCmp(l, r)

\* storage_compare_with_operator
Holds(l, op, r) ==
  LET c == CompareValues(l, r)
  IN  CASE op = "="  -> c = 0  [] op = "!=" -> c # 0
        [] op = ">"  -> c > 0  [] op = "<"  -> c < 0
        [] op = ">=" -> c >= 0 [] op = "<=" -> c <= 0

Operators == {"=", "!=", ">", "<", ">=", "<="}

-----------------------------------------------------------------------------
(* Writing: storage_write_csv_value and storage_write_csv_row *)

NeedsQuotes(v) == ToSet(v) \cap {Comma, Quote, Newline} # {}

\* Deviation: quotes inside a quoted value are not doubled.
WriteValueUndoubled(v) ==
  IF NeedsQuotes(v) THEN <<Quote>> \o v \o <<Quote>> ELSE v

WriteValue(v) ==
  IF NeedsQuotes(v)
    THEN <<Quote>>
           \o FlattenSeq([k \in DOMAIN v |->
                            IF v[k] = Quote THEN <<Quote, Quote>> ELSE <<v[k]>>])
           \o <<Quote>>
    ELSE v

WriteRow(values) ==
  FlattenSeq([k \in DOMAIN values |->
                (IF k > 1 THEN <<Comma>> ELSE <<>>) \o WriteValue(values[k])])
    \o <<Newline>>

-----------------------------------------------------------------------------
(* Reading: fgets and storage_parse_csv_line *)

\* What fgets returns at an offset: the rest of the line, newline included.
LineAt(text, offset) ==
  LET ends == {k \in offset + 1 .. Len(text) : text[k] = Newline}
  IN  SubSeq(text, offset + 1, IF ends = {} THEN Len(text) ELSE Min(ends))

\* The offsets of the lines after the header that are not blank.
RowOffsets(text) ==
  {k \in 1 .. Len(text) - 1 : text[k] = Newline /\ text[k + 1] # Newline}

\* One character of storage_parse_csv_line; mode is "second" at the second of two
\* quotes, which the code steps over.
ParseChar(line, s, k) ==
  CASE s.mode = "second" -> [s EXCEPT !.mode = "inside"]
    [] s.mode = "inside" /\ line[k] = Quote /\ line[k + 1] = Quote ->
         [s EXCEPT !.field = Append(@, Quote), !.mode = "second"]
    [] s.mode = "inside" /\ line[k] = Quote /\ line[k + 1] # Quote ->
         [s EXCEPT !.mode = "outside"]
    [] s.mode = "inside" /\ line[k] = Newline -> [s EXCEPT !.mode = "malformed"]
    [] s.mode = "outside" /\ line[k] = Quote -> [s EXCEPT !.mode = "inside"]
    [] s.mode = "outside" /\ line[k] \in {Comma, Newline} ->
         [s EXCEPT !.fields = Append(@, s.field), !.field = <<>>]
    [] s.mode = "malformed" -> s
    [] OTHER -> [s EXCEPT !.field = Append(@, line[k])]

\* The fields of a line; a line that ends inside quotes is malformed.
ParseLine(line) ==
  LET whole == IF line # <<>> /\ Last(line) = Newline THEN line
                                                      ELSE Append(line, Newline)
      start == [fields |-> <<>>, field |-> <<>>, mode |-> "outside"]
      state[k \in 0 .. Len(whole)] ==
        IF k = 0 THEN start ELSE ParseChar(whole, state[k - 1], k)
      end   == state[Len(whole)]
  IN  [ok |-> end.mode # "malformed", fields |-> end.fields]

\* storage_read_header; an empty file has no columns.
ReadHeader(text) ==
  IF text = <<>> THEN [ok |-> TRUE, fields |-> <<>>] ELSE ParseLine(LineAt(text, 0))

\* Deviation: a row with too many fields is taken for a row.
RowParsesUncounted(line, col_count) ==
  ParseLine(line).ok /\ Len(ParseLine(line).fields) >= col_count

\* The test every reader applies to a line that is not blank.
RowParses(line, col_count) ==
  ParseLine(line).ok /\ Len(ParseLine(line).fields) = col_count

\* storage_load_table_from_fp: the columns, the rows and their offsets, or a
\* failure that leaves nothing.
ReadTable(text) ==
  LET header  == ReadHeader(text)
      offsets == InOrder(RowOffsets(text))
      n       == Len(header.fields)
  IN  IF header.ok /\ \A o \in RowOffsets(text) : RowParses(LineAt(text, o), n)
        THEN [ok |-> TRUE, columns |-> header.fields, offsets |-> offsets,
              rows |-> [k \in DOMAIN offsets |->
                          ParseLine(LineAt(text, offsets[k])).fields]]
        ELSE [ok |-> FALSE, columns |-> <<>>, offsets |-> <<>>, rows |-> <<>>]

\* Deviation: expected_col_count is not looked at.
RowAtOffsetUncounted(text, offset, col_count) ==
  IF offset < Len(text) /\ ParseLine(LineAt(text, offset)).ok
    THEN [ok |-> TRUE, row |-> ParseLine(LineAt(text, offset)).fields]
    ELSE [ok |-> FALSE, row |-> <<>>]

\* storage_read_row_at_offset: fgets at the end of the file is an error.
RowAtOffset(text, offset, col_count) ==
  IF offset < Len(text) /\ RowParses(LineAt(text, offset), col_count)
    THEN [ok |-> TRUE, row |-> ParseLine(LineAt(text, offset)).fields]
    ELSE [ok |-> FALSE, row |-> <<>>]

\* storage_find_column_index, for names in lower case; 0 for none.
ColumnIndex(columns, name) ==
  LET found == {k \in DOMAIN columns : columns[k] = name}
  IN  IF found = {} THEN 0 ELSE Min(found)
=============================================================================

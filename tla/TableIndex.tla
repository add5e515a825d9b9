----------------------------- MODULE TableIndex -----------------------------
(***************************************************************************)
(* The index of db/index.c over one column of a loaded table: a hash table  *)
(* from texts to offsets and an array of entries sorted by value, searched  *)
(* by bisection.  The hash table is a function on the texts that occur; the *)
(* chains of its buckets and the hash itself do not show.                   *)
(***************************************************************************)
EXTENDS TableText

\* index_build: the offsets of every text, in the order of the rows.
EqualityIndex(table, col) ==
  [text \in {table.rows[k][col] : k \in DOMAIN table.rows} |->
     At(table.offsets, {k \in DOMAIN table.rows : table.rows[k][col] = text})]

\* index_compare_range_entries
EntryBefore(e, f) ==
  LET c == CompareValues(e.key, f.key)
  IN  c < 0 \/ (c = 0 /\ e.offset < f.offset)

\* index_build: qsort of the entries; the n-th has n - 1 before it.
RangeEntries(table, col) ==
  LET entries == {[key |-> table.rows[k][col], offset |-> table.offsets[k]] :
                    k \in DOMAIN table.rows}
  IN  [n \in 1 .. Cardinality(entries) |->
         CHOOSE e \in entries :
           Cardinality({f \in entries : EntryBefore(f, e)}) = n - 1]

\* The loop that index_lower_bound and index_upper_bound share: bisection for
\* how many of the n entries come first, being in the set before.
Bisect(n, before) ==
  LET search[range \in (0 .. n) \X (0 .. n)] ==
        LET left   == range[1]
            right  == range[2]
            middle == left + ((right - left) \div 2)
        IN  IF left >= right THEN left
            ELSE IF middle + 1 \in before THEN search[<<middle + 1, right>>]
                                           ELSE search[<<left, middle>>]
  IN  search[<<0, n>>]

Less(entries, value) ==
  {k \in DOMAIN entries : CompareValues(entries[k].key, value) < 0}
Same(entries, value) ==
  {k \in DOMAIN entries : CompareValues(entries[k].key, value) = 0}

LowerBound(entries, value) == Bisect(Len(entries), Less(entries, value))

\* Deviation: equal keys are left to the right of the bound.
UpperBoundStrict(entries, value) == Bisect(Len(entries), Less(entries, value))

UpperBound(entries, value) ==
  Bisect(Len(entries), Less(entries, value) \cup Same(entries, value))

\* index_query_equals
QueryEquals(table, col, value) ==
  LET index == EqualityIndex(table, col)
  IN  IF value \in DOMAIN index THEN index[value] ELSE <<>>

\* index_query_range
QueryRange(table, col, op, value) ==
  LET entries == RangeEntries(table, col)
      offset(es) == [k \in DOMAIN es |-> es[k].offset]
      lower == LowerBound(entries, value)
      upper == UpperBound(entries, value)
  IN  CASE op = "!=" -> offset(At(entries, DOMAIN entries \ Same(entries, value)))
        [] op = ">"  -> offset(SubSeq(entries, upper + 1, Len(entries)))
        [] op = ">=" -> offset(SubSeq(entries, lower + 1, Len(entries)))
        [] op = "<"  -> offset(SubSeq(entries, 1, lower))
        [] op = "<=" -> offset(SubSeq(entries, 1, upper))

Query(table, col, op, value) ==
  IF op = "=" THEN QueryEquals(table, col, value) ELSE QueryRange(table, col, op, value)

-----------------------------------------------------------------------------
(* What an index answers is compared with a scan of the rows. *)

Scan(table, col, op, value) ==
  {table.offsets[k] : k \in {i \in DOMAIN table.rows :
                               Holds(table.rows[i][col], op, value)}}

\* The values are all numbers, or none of them is: only then does
\* CompareValues order them ("2" < "10" < "1a" < "2").
Ordered(values) ==
  (\A v \in values : IsInteger(v)) \/ (\A v \in values : ~IsInteger(v))

\* No number is spelled in two ways, as 2 and 02.
SpelledAlike(values) == \A v, w \in values : CompareValues(v, w) = 0 => v = w

IndexAgreesWithScan(table, col, value) ==
  LET values == {table.rows[k][col] : k \in DOMAIN table.rows} \cup {value}
  IN  \A op \in Operators :
        (IF op = "=" THEN SpelledAlike(values) ELSE Ordered(values))
          => LET answer == Query(table, col, op, value)
             IN  /\ ToSet(answer) = Scan(table, col, op, value)
                 /\ IsInjective(answer)
=============================================================================

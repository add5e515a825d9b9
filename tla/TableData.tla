----------------------------- MODULE TableData -----------------------------
(***************************************************************************)
(* What a table's CSV file holds and what can be read from it.  Shared by  *)
(* the query engine and by the abstract database it implements.            *)
(***************************************************************************)
EXTENDS Integers, Sequences, FiniteSets

CONSTANTS Names,       \* table names as the SQL text spells them
          Schemas,     \* column lists that do not mention id
          Values,      \* values of the columns after id
          Unreadable,  \* values whose CSV row cannot be read back (a line
                       \* break in the value, a row beyond the line buffer)
          MaxId        \* INT_MAX, the largest key of the id index

ASSUME MaxIdAssumption == MaxId \in Nat \ {0}
ASSUME UnreadableAssumption == Unreadable \subseteq Values

\* Headers that are no schema: no file, a file of zero bytes, a header line
\* without an id column (and with columns no statement uses).
Absent    == "absent"
Empty     == "empty"
WithoutId == "without id"
ASSUME SchemasAssumption == Schemas \cap {Absent, Empty, WithoutId} = {}

\* A column list that names id: the statement tries to choose the id.
ExplicitId == "explicit id"
ASSUME ExplicitIdAssumption == ExplicitId \notin Schemas

Rows  == [id : Int, val : Values]
Files == [cols : Schemas \cup {Absent, Empty, WithoutId}, rows : Seq(Rows)]

NoFile   == [cols |-> Absent, rows |-> <<>>]
ZeroFile == [cols |-> Empty,  rows |-> <<>>]

\* The conditions of a WHERE clause: none, id = key, value column = value, and
\* a reference to a column the table lacks; NoSelected stands for any condition
\* behind a select list that names such a column.
All        == <<"all">>
ById(key)  == <<"id", key>>
ByVal(val) == <<"val", val>>
NoColumn   == <<"no column">>
NoSelected == <<"no selected">>

\* storage_load_table_from_fp gets past every line of the file.
ReadableRows(rows) == \A k \in 1 .. Len(rows) : rows[k].val \notin Unreadable

\* The ids can be put into the id index: in range and without duplicates.
IndexableRows(rows) ==
  /\ \A k \in 1 .. Len(rows) : rows[k].id \in 0 .. MaxId
  /\ \A k, l \in 1 .. Len(rows) : rows[k].id = rows[l].id => k = l

Loadable(file) == /\ file.cols \in Schemas
                  /\ ReadableRows(file.rows)
                  /\ IndexableRows(file.rows)

\* One more than the largest id, at least 1: the result of the scans of
\* storage_get_next_auto_id and table_load_from_storage_if_needed.
Ids(rows) == {0} \cup {rows[k].id : k \in 1 .. Len(rows)}
NextId(rows) == 1 + CHOOSE m \in Ids(rows) : \A n \in Ids(rows) : n <= m

Holds(row, where) == CASE where[1] = "all" -> TRUE
                       [] where[1] = "id"  -> row.id = where[2]
                       [] where[1] = "val" -> row.val = where[2]
                       [] OTHER            -> FALSE

\* The rows that satisfy a condition, in the order of the file: the n-th comes
\* from the slot that is the n-th of the matching ones.  This is SelectSeq, in a
\* form that the proofs can look into.
Matching(rows, where) ==
  LET slots == {k \in 1 .. Len(rows) : Holds(rows[k], where)}
  IN  [n \in 1 .. Cardinality(slots) |->
         rows[CHOOSE k \in slots : Cardinality({l \in slots : l <= k}) = n]]
=============================================================================

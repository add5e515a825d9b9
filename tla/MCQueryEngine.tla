--------------------------- MODULE MCQueryEngine ---------------------------
(* Small instances of QueryEngine for TLC. *)
EXTENDS QueryEngine, TLC

ThreadSymmetry == Permutations(Threads)

\* Every name is its own lower case form.
DistinctNames == [n \in Names |-> n]

\* "Users" is "users" in upper case.
CaseVariants == [n \in Names |-> IF n = "Users" THEN "users" ELSE n]

MCWheres == {All, ById(1), ByVal("x"), NoColumn, NoSelected}
OneWhere == {All}

Table(ids) == [cols |-> "a", rows |-> [k \in 1 .. Len(ids) |->
                                         [id |-> ids[k], val |-> "x"]]]

\* No file, a header without rows, ids with a gap or in decreasing order, the
\* largest id in use, and the files that cannot be loaded: zero bytes, no id
\* column, a duplicate id.
StartFiles == {NoFile, Table(<<>>), Table(<<1>>), Table(<<1, 0>>), Table(<<MaxId>>),
               ZeroFile, [cols |-> WithoutId, rows |-> <<>>],
               Table(<<1, 1>>)}

\* "orders" has one row or is missing, "users" is anything.
MCInitialFiles == {[n \in Names |-> IF n = "users" THEN f ELSE g] :
                     f \in StartFiles, g \in {NoFile, Table(<<1>>)}}

EmptyDirectory == {[n \in Names |-> NoFile]}

\* Matching is SelectSeq.
SmallTables == UNION {[1 .. n -> [id : 1 .. 2, val : {"x", "y"}]] : n \in 0 .. 3}
ASSUME MatchingSelects ==
  \A rows \in SmallTables, where \in MCWheres :
    Matching(rows, where) = SelectSeq(rows, LAMBDA row : Holds(row, where))
=============================================================================

--------------------------- MODULE MCStorageFiles ---------------------------
(* A small instance of StorageFiles for TLC. *)
EXTENDS StorageFiles

Name == <<"n", "m">>

InsertName(value) == [columns |-> <<Name>>, values |-> <<value>>]
InsertBoth(id, value) == [columns |-> <<Name, Id>>, values |-> <<value, id>>]
DeleteAll == [has_where |-> FALSE, column |-> <<>>, op |-> "=", value |-> <<>>]
DeleteWhere(column, op, value) ==
  [has_where |-> TRUE, column |-> column, op |-> op, value |-> value]

MCExisting == {WriteRow(<<Id, Name>>) \o WriteRow(<<<<"1", "0">>, <<"b">>>>)
                                     \o WriteRow(<<<<"2">>, <<"a", Comma>>>>)}
MCInserts == {InsertName(<<"b", Quote>>), InsertBoth(<<"2">>, <<"a">>)}
MCDeletes == {DeleteWhere(Id, "<", <<"9">>), DeleteWhere(<<"m">>, "=", <<"a">>)}
MCProbes  == {<<"0", "2">>, <<"1", "0">>, <<"b">>}

\* What the proofs assume of statements and files holds of these.
ASSUME HypothesesHold == PlainStatements /\ WellFormedExisting

\* InOrder and At are sorting and selecting.
ASSUME InOrderSorts ==
  \A S \in SUBSET (1 .. 4) :
    /\ InOrder(S) = SetToSortSeq(S, <)
    /\ At(<<11, 12, 13, 14>>, S) = SelectSeq(<<11, 12, 13, 14>>, LAMBDA e : e - 10 \in S)
=============================================================================

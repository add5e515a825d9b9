---------------------------- MODULE MCApiServer ----------------------------
(* A small instance of ApiServer for TLC. *)
EXTENDS ApiServer

Bodiless(path, method, cuts) ==
  [path |-> path, method |-> method, cuts |-> cuts, length |-> 3, has_sql |-> FALSE]

\* A query whose Content-Length announces that many pieces.
Query(length, cuts) ==
  [path |-> "/query", method |-> "POST", cuts |-> cuts, length |-> length,
   has_sql |-> TRUE]

MCRequests == {Bodiless("/health", "GET", {1, 2, 3}), Bodiless("/HEALTH", "POST", {2, 3}),
               Bodiless("other", "GET", {3}), Bodiless("/query", "GET", {3}),
               Query(4, {3, 4, 5}), Query(6, {1, 4, 5})}
=============================================================================

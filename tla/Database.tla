------------------------------ MODULE Database ------------------------------
(***************************************************************************)
(* What execute_query_with_lock promises its callers: every statement      *)
(* takes effect at one instant between its call and its return, on tables  *)
(* that are exactly the rows in the CSV files.                             *)
(***************************************************************************)
EXTENDS TableData

CONSTANTS Threads,       \* the threads that execute statements
          Requests,      \* the statements
          InitialFiles,  \* contents of the data directory at the start
          Faulty         \* TRUE if the storage may refuse an operation

VARIABLES db,    \* the contents of every table's file
          req,   \* per thread: its latest statement
          res,   \* per thread: the result of its latest statement
          phase  \* per thread: "idle", "called" or "done"

vars == <<db, req, res, phase>>

Error    == [ok |-> FALSE, rows |-> <<>>]
Ok(rows) == [ok |-> TRUE, rows |-> rows]

Init == /\ db \in InitialFiles
        /\ req = [t \in Threads |-> <<>>]
        /\ res = [t \in Threads |-> Error]
        /\ phase = [t \in Threads |-> "idle"]

Call(t, r) == /\ phase[t] = "idle"
              /\ phase' = [phase EXCEPT ![t] = "called"]
              /\ req' = [req EXCEPT ![t] = r]
              /\ UNCHANGED <<db, res>>

\* The statement can be executed on the present contents of its table.  A
\* WHERE on an unknown column is noticed at the first row only.
Acceptable(r) ==
  LET file == db[r.table] IN
  CASE r.kind = "insert" ->
         /\ file = NoFile \/ Loadable(file)
         /\ r.cols \in Schemas
         /\ file = NoFile \/ file.cols = r.cols
         /\ NextId(file.rows) <= MaxId
    [] r.kind = "select" ->
         /\ Loadable(file)
         /\ r.where # NoSelected
         /\ r.where = NoColumn => file.rows = <<>>
    [] OTHER -> FALSE

Inserted(file, r) ==
  [cols |-> r.cols,
   rows |-> Append(file.rows, [id |-> NextId(file.rows), val |-> r.val])]

\* The instant at which the statement takes effect.
Succeed(t) ==
  LET r == req[t] IN
  /\ phase[t] = "called"
  /\ Acceptable(r)
  /\ IF r.kind = "insert"
       THEN /\ db' = [db EXCEPT ![r.table] = Inserted(@, r)]
            /\ res' = [res EXCEPT ![t] = Ok(<<>>)]
       ELSE /\ db' = db
            /\ res' = [res EXCEPT ![t] = Ok(Matching(db[r.table].rows, r.where))]
  /\ phase' = [phase EXCEPT ![t] = "done"]
  /\ req' = req

\* A statement that fails has no effect at all.
Fail(t) == /\ phase[t] = "called"
           /\ ~Acceptable(req[t]) \/ Faulty
           /\ res' = [res EXCEPT ![t] = Error]
           /\ phase' = [phase EXCEPT ![t] = "done"]
           /\ UNCHANGED <<db, req>>

Return(t) == /\ phase[t] = "done"
             /\ phase' = [phase EXCEPT ![t] = "idle"]
             /\ UNCHANGED <<db, req, res>>

Next == \E t \in Threads : \/ \E r \in Requests : Call(t, r)
                           \/ Succeed(t) \/ Fail(t) \/ Return(t)

Spec == Init /\ [][Next]_vars
=============================================================================

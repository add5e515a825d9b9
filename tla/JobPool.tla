------------------------------ MODULE JobPool ------------------------------
(***************************************************************************)
(* What the thread pool promises the API server, without rings, condition  *)
(* variables or workers: a bounded FIFO of accepted client descriptors,    *)
(* of which at most MaxRunning are being handled at a time.                *)
(***************************************************************************)
EXTENDS Naturals, Sequences, FiniteSets, SequencesExt

CONSTANTS Jobs,        \* the client descriptors
          Capacity,    \* bound on the number of accepted jobs that wait
          MaxRunning   \* bound on the number of jobs handled at once

VARIABLES pending,     \* accepted jobs that no worker has taken, oldest first
          running,     \* the jobs taken by workers
          closed,      \* the pool accepts no more jobs
          outcome      \* <<job, accepted>> of the latest submission

vars == <<pending, running, closed, outcome>>

NoOutcome == <<>>

Init == /\ pending = <<>>
        /\ running = {}
        /\ closed = FALSE
        /\ outcome = NoOutcome

\* A submission is refused exactly when the pool is closed or full.
Submit(j) ==
  LET accepted == ~closed /\ Len(pending) < Capacity
  IN  /\ j \notin ToSet(pending) \cup running
      /\ pending' = IF accepted THEN Append(pending, j) ELSE pending
      /\ outcome' = <<j, accepted>>
      /\ UNCHANGED <<running, closed>>

\* The oldest pending job is the next one to be handled.
Start == /\ pending # <<>>
         /\ Cardinality(running) < MaxRunning
         /\ running' = running \cup {Head(pending)}
         /\ pending' = Tail(pending)
         /\ UNCHANGED <<closed, outcome>>

Finish(j) == /\ j \in running
             /\ running' = running \ {j}
             /\ UNCHANGED <<pending, closed, outcome>>

Close == /\ closed' = TRUE
         /\ UNCHANGED <<pending, running, outcome>>

Next == \/ \E j \in Jobs : Submit(j) \/ Finish(j)
        \/ Start
        \/ Close

Spec == Init /\ [][Next]_vars

\* A pending job is not left waiting while a worker is free.
FairSpec == Spec /\ WF_vars(Start)
=============================================================================

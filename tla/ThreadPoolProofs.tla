-------------------------- MODULE ThreadPoolProofs --------------------------
(***************************************************************************)
(* Proofs about ThreadPool for every number of workers, every capacity and  *)
(* every set of jobs, and that ThreadPool implements JobPool: every step of *)
(* the ring, the condition variable and the workers is a step of the        *)
(* bounded FIFO or none at all.                                             *)
(***************************************************************************)
EXTENDS ThreadPool, SequenceTheorems, FiniteSetTheorems, TLAPS

\* The workers that a program counter function p puts at state a.
Where(p, a) == {w \in Workers : p[w] = a}

\* The owner's bookkeeping: which workers exist, and what the flag, the loop
\* index and worker_count say about them.
OwnerInv ==
  /\ shutting_down <=> owner \in {"joining", "destroyed"}
  /\ owner = "init" => i \in Workers /\ worker_count = N
  /\ owner = "init" => \A w \in Workers : pc[w] = "none" <=> w >= i
  /\ owner = "running" => worker_count = N
  /\ owner = "running" => \A w \in Workers : pc[w] # "none"
  /\ owner \in {"failed", "joining"} =>
       \A w \in Workers : w > worker_count => pc[w] = "none"
  /\ owner = "joining" =>
       \A w \in Workers : w < i => pc[w] \in {"none", "exited"}

\* Where jobs can be: none before the pool runs, none left when a worker exits.
JobsInv ==
  /\ count > 0 => \A w \in Workers : pc[w] \notin {"none", "exited"}
  /\ (\E w \in Workers : pc[w] = "exited") => shutting_down
  /\ owner \in {"init", "failed"} \/ worker_count # N =>
       count = 0 /\ \A w \in Workers : pc[w] \notin {"popped", "handling"}

\* The inductive invariant.
IndInv == /\ TypeOK /\ RingConsistent /\ NoLostWakeup /\ BusyCountExact
          /\ NoWorkerOutlivesPool /\ OwnerInv /\ JobsInv

-----------------------------------------------------------------------------
\* The set of workers at a state is finite and no larger than N.
LEMMA WhereFinite ==
  ASSUME NEW p, NEW a
  PROVE  /\ IsFiniteSet(Where(p, a))
         /\ Cardinality(Where(p, a)) \in 0 .. N
<1>1. IsFiniteSet(Workers) /\ Cardinality(Workers) = N
  BY NAssumption, FS_Interval DEF Workers
<1>2. Where(p, a) \in SUBSET Workers
  BY DEF Where
<1>3. IsFiniteSet(Where(p, a)) /\ Cardinality(Where(p, a)) <= N
  BY <1>1, <1>2, FS_Subset
<1>4. Cardinality(Where(p, a)) \in Nat
  BY <1>3, FS_CardinalityType
<1> QED BY <1>3, <1>4, NAssumption

\* q differs from p at w only, and there it is b.
Moved(p, q, w, b) == /\ w \in Workers
                     /\ p[w] # b /\ q[w] = b
                     /\ \A v \in Workers \ {w} : q[v] = p[v]

\* A worker enters state b: one more there.
LEMMA Enter ==
  ASSUME NEW p, NEW q, NEW w, NEW b, Moved(p, q, w, b)
  PROVE  Cardinality(Where(q, b)) = Cardinality(Where(p, b)) + 1
<1>1. Where(q, b) = Where(p, b) \cup {w} /\ w \notin Where(p, b)
  BY DEF Where, Moved
<1> QED BY <1>1, WhereFinite, FS_AddElement

\* It leaves the state it was in: one less there.
LEMMA Leave ==
  ASSUME NEW p, NEW q, NEW w, NEW b, Moved(p, q, w, b)
  PROVE  Cardinality(Where(q, p[w])) = Cardinality(Where(p, p[w])) - 1
<1>1. Where(q, p[w]) = Where(p, p[w]) \ {w} /\ w \in Where(p, p[w])
  BY DEF Where, Moved
<1> QED BY <1>1, WhereFinite, FS_RemoveElement

\* Nothing changes at the other states.
LEMMA Stay ==
  ASSUME NEW p, NEW q, NEW w, NEW b, Moved(p, q, w, b),
         NEW c, c # b, c # p[w]
  PROVE  Where(q, c) = Where(p, c)
  BY DEF Where, Moved

\* Advancing an index of the ring.
LEMMA RingStep ==
  ASSUME NEW h \in Slots
  PROVE  /\ (h + 1) % Capacity \in Slots
         /\ (h + 1) % Capacity = IF h + 1 = Capacity THEN 0 ELSE h + 1
  BY CapacityAssumption, Z3 DEF Slots

\* The head and the number of jobs determine the tail without a modulus.
LEMMA RingSum ==
  ASSUME NEW h \in Slots, NEW c \in 0 .. Capacity
  PROVE  (h + c) % Capacity = IF h + c >= Capacity THEN h + c - Capacity
                                                   ELSE h + c
  BY CapacityAssumption, Z3 DEF Slots

\* The counts of IndInv in terms of Where.
LEMMA AtIsWhere == \A a : At(a) = Where(pc, a) /\ At(a)' = Where(pc', a)
  BY DEF At, Where

\* A set of workers is empty exactly if its cardinality is 0.
LEMMA WhereEmpty ==
  ASSUME NEW p, NEW a
  PROVE  Where(p, a) = {} <=> Cardinality(Where(p, a)) = 0
  BY WhereFinite, FS_EmptySet

-----------------------------------------------------------------------------
\* The initial state satisfies the invariant: the ring is empty, nobody exists.
LEMMA InitIndInv == Init => IndInv
<1> SUFFICES ASSUME Init PROVE IndInv
  OBVIOUS
<1> USE NAssumption, CapacityAssumption
<1>1. TypeOK
  <2>1. 0 \in Slots /\ 0 \in 0 .. N /\ 0 \in 0 .. Capacity
    BY DEF Slots
  <2> QED BY <2>1 DEF Init, TypeOK, Slots, Workers, WorkerPc, OwnerPc
<1>2. RingConsistent
  BY Z3 DEF Init, RingConsistent
<1>3. \A a : a # "none" => At(a) = {}
  BY DEF Init, At
<1>4. NoLostWakeup
  BY <1>3 DEF NoLostWakeup
<1>5. BusyCountExact
  BY <1>3, FS_EmptySet DEF Init, BusyCountExact
<1>6. NoWorkerOutlivesPool /\ OwnerInv /\ JobsInv
  BY DEF Init, NoWorkerOutlivesPool, OwnerInv, JobsInv, Workers
<1> QED BY <1>1, <1>2, <1>4, <1>5, <1>6 DEF IndInv

\* Types, by action.
LEMMA TypeStep ==
  ASSUME IndInv, [Next]_vars
  PROVE  TypeOK'
<1> USE NAssumption, CapacityAssumption
<1>0. TypeOK BY DEF IndInv
<1>1. ASSUME NEW w \in Workers, WorkerStep(w) \/ EndJob(w) \/ SpuriousWakeup(w)
      PROVE  TypeOK'
  <2>1. CASE PopWait(w) \/ PopExit(w) \/ SpuriousWakeup(w)
    BY <1>0, <2>1
       DEF TypeOK, PopWait, PopExit, SpuriousWakeup, WorkerPc, queueVars, poolVars
  <2>2. CASE PopJob(w)
    BY <1>0, <2>2, RingStep DEF TypeOK, PopJob, WorkerPc, poolVars
  <2>3. CASE BeginJob(w)
    <3>1. Cardinality(Where(pc', "handling")) \in 0 .. N
      BY WhereFinite
    <3>2. Cardinality(Where(pc', "handling")) = Cardinality(Where(pc, "handling")) + 1
      <4>1. Moved(pc, pc', w, "handling")
        BY <1>0, <2>3 DEF TypeOK, BeginJob, Moved
      <4> QED BY <4>1, Enter
    <3>3. owner # "destroyed" => active_worker_count = Cardinality(Where(pc, "handling"))
      BY AtIsWhere DEF IndInv, BusyCountExact
    <3>4. owner # "destroyed"
      BY <2>3 DEF IndInv, NoWorkerOutlivesPool, BeginJob
    <3>5. active_worker_count' \in 0 .. N
      BY <1>0, <2>3, <3>1, <3>2, <3>3, <3>4 DEF BeginJob, TypeOK
    <3> QED BY <1>0, <2>3, <3>5 DEF TypeOK, BeginJob, WorkerPc, queueVars
  <2>4. CASE EndJob(w)
    <3>1. Cardinality(Where(pc, "handling")) # 0
      BY <2>4, WhereEmpty DEF EndJob, Where
    <3>2. owner # "destroyed"
      BY <2>4 DEF IndInv, NoWorkerOutlivesPool, EndJob
    <3>3. active_worker_count # 0
      BY <3>1, <3>2, AtIsWhere DEF IndInv, BusyCountExact
    <3> QED BY <1>0, <2>4, <3>3 DEF TypeOK, EndJob, WorkerPc, queueVars
  <2> QED BY <1>1, <2>1, <2>2, <2>3, <2>4 DEF WorkerStep
<1>2. ASSUME NEW j \in Jobs, Submit(j)
      PROVE  TypeOK'
  <2>1. submitted' \in {<<>>} \cup (Jobs \X BOOLEAN)
    BY <1>0, <1>2 DEF Submit, HasRoom, TypeOK
  <2>2. CASE PushJob(j)
    <3>1. pc' \in [Workers -> WorkerPc]
      BY <1>0, <2>2 DEF PushJob, Signal, TypeOK, WorkerPc, At
    <3> QED BY <1>0, <1>2, <2>1, <2>2, <3>1, RingStep
            DEF TypeOK, Submit, PushJob, HasRoom, poolVars
  <2>3. CASE UNCHANGED <<queueVars, pc>>
    BY <1>0, <1>2, <2>1, <2>3 DEF TypeOK, Submit, queueVars, poolVars
  <2> QED BY <1>2, <2>2, <2>3 DEF Submit
<1>3. ASSUME OwnerStep
      PROVE  TypeOK'
  <2>1. CASE CreateWorker
    BY <1>0, <2>1 DEF IndInv, TypeOK, OwnerInv, CreateWorker, WorkerPc, OwnerPc,
                      Workers, queueVars, poolVars
  <2>2. CASE CreateFails \/ ArgsAllocationFails
    BY <1>0, <2>2 DEF IndInv, TypeOK, OwnerInv, CreateFails, ArgsAllocationFails,
                      OwnerPc, Workers, queueVars, poolVars
  <2>3. CASE QueueShutdown
    BY <1>0, <2>3 DEF TypeOK, QueueShutdown, Broadcast, WorkerPc, OwnerPc, poolVars
  <2>4. CASE JoinWorker
    BY <1>0, <2>4 DEF TypeOK, JoinWorker, queueVars, poolVars
  <2>5. CASE DestroyPool
    BY <1>0, <2>5 DEF TypeOK, DestroyPool, OwnerPc
  <2> QED BY <1>3, <2>1, <2>2, <2>3, <2>4, <2>5 DEF OwnerStep
<1>4. CASE UNCHANGED vars
  BY <1>0, <1>4 DEF TypeOK, vars
<1> QED BY <1>1, <1>2, <1>3, <1>4 DEF Next

\* Every step of one worker moves it, and it alone.
LEMMA WorkerMoves ==
  ASSUME TypeOK, NEW w \in Workers
  PROVE  /\ PopWait(w)  => Moved(pc, pc', w, "waiting") /\ pc[w] = "popping"
         /\ PopExit(w)  => Moved(pc, pc', w, "exited") /\ pc[w] = "popping"
         /\ PopJob(w)   => Moved(pc, pc', w, "popped") /\ pc[w] = "popping"
         /\ BeginJob(w) => Moved(pc, pc', w, "handling") /\ pc[w] = "popped"
         /\ EndJob(w)   => Moved(pc, pc', w, "popping") /\ pc[w] = "handling"
         /\ SpuriousWakeup(w) =>
              Moved(pc, pc', w, "popping") /\ pc[w] = "waiting"
  BY DEF TypeOK, Moved, PopWait, PopExit, PopJob, BeginJob, EndJob, SpuriousWakeup

\* pthread_cond_signal moves one waiter, if there is one.
LEMMA SignalMoves ==
  ASSUME TypeOK, Signal
  PROVE  \/ Where(pc, "waiting") = {} /\ pc' = pc
         \/ \E w \in Workers : Moved(pc, pc', w, "popping") /\ pc[w] = "waiting"
  BY DEF TypeOK, Signal, At, Where, Moved

\* The ring, by the two actions that touch it.
LEMMA RingStepInv ==
  ASSUME IndInv, [Next]_vars
  PROVE  RingConsistent'
<1> USE CapacityAssumption
<1>0. TypeOK /\ tail = (head + count) % Capacity
  BY DEF IndInv, RingConsistent
<1>1. head \in Slots /\ tail \in Slots /\ count \in 0 .. Capacity
  BY <1>0 DEF TypeOK
<1>2. tail = IF head + count >= Capacity THEN head + count - Capacity
                                         ELSE head + count
  BY <1>0, <1>1, RingSum
<1>3. ASSUME NEW j \in Jobs, PushJob(j)
      PROVE  RingConsistent'
  <2>1. count + 1 \in 0 .. Capacity /\ head' = head /\ count' = count + 1
    BY <1>1, <1>3 DEF PushJob, HasRoom
  <2>2. tail' = IF tail + 1 = Capacity THEN 0 ELSE tail + 1
    BY <1>1, <1>3, RingStep DEF PushJob
  <2>3. (head + (count + 1)) % Capacity
          = IF head + (count + 1) >= Capacity THEN head + (count + 1) - Capacity
                                              ELSE head + (count + 1)
    BY <1>1, <2>1, RingSum
  <2>4. tail' = (head + (count + 1)) % Capacity
    BY <1>1, <1>2, <2>1, <2>2, <2>3 DEF Slots
  <2> QED BY <2>1, <2>4 DEF RingConsistent
<1>4. ASSUME NEW w \in Workers, PopJob(w)
      PROVE  RingConsistent'
  <2>1. count - 1 \in 0 .. Capacity /\ tail' = tail /\ count' = count - 1
    BY <1>1, <1>4 DEF PopJob
  <2>2. head' = IF head + 1 = Capacity THEN 0 ELSE head + 1
    BY <1>1, <1>4, RingStep DEF PopJob
  <2>3. head' \in Slots
    BY <1>1, <1>4, RingStep DEF PopJob
  <2>4. (head' + (count - 1)) % Capacity
          = IF head' + (count - 1) >= Capacity THEN head' + (count - 1) - Capacity
                                               ELSE head' + (count - 1)
    BY <2>1, <2>3, RingSum
  <2>5. tail = (head' + (count - 1)) % Capacity
    BY <1>1, <1>2, <2>1, <2>2, <2>4 DEF Slots
  <2> QED BY <2>1, <2>5 DEF RingConsistent
<1>5. ASSUME DestroyPool
      PROVE  RingConsistent'
  <2>1. count = 0
    BY <1>1, <1>5, NAssumption
       DEF IndInv, TypeOK, DestroyPool, JobsInv, OwnerInv, Workers
  <2> QED BY <1>0, <1>5, <2>1 DEF RingConsistent, DestroyPool
<1>6. CASE UNCHANGED <<head, tail, count>>
  BY <1>0, <1>6 DEF RingConsistent
<1>7. ASSUME NEW w \in Workers,
             PopWait(w) \/ PopExit(w) \/ BeginJob(w) \/ EndJob(w) \/ SpuriousWakeup(w)
      PROVE  UNCHANGED <<head, tail, count>>
  BY <1>7 DEF PopWait, PopExit, BeginJob, EndJob, SpuriousWakeup, queueVars
<1>8. ASSUME NEW j \in Jobs, Submit(j)
      PROVE  PushJob(j) \/ UNCHANGED <<head, tail, count>>
  BY <1>8 DEF Submit, queueVars
<1>9. ASSUME OwnerStep
      PROVE  DestroyPool \/ UNCHANGED <<head, tail, count>>
  BY <1>9 DEF OwnerStep, CreateWorker, CreateFails, ArgsAllocationFails,
              QueueShutdown, JoinWorker, queueVars
<1>10. CASE UNCHANGED vars
  BY <1>6, <1>10 DEF vars
<1> QED BY <1>3, <1>4, <1>5, <1>6, <1>7, <1>8, <1>9, <1>10 DEF Next, WorkerStep

\* Wake-ups: a push adds a job and, if anybody sleeps, an awake worker.
LEMMA WakeupStep ==
  ASSUME IndInv, [Next]_vars
  PROVE  NoLostWakeup'
<1>0. TypeOK BY DEF IndInv
<1> DEFINE Awake == Cardinality(Where(pc, "popping"))
           Asleep == Where(pc, "waiting")
<1>1. Asleep # {} => ~shutting_down /\ count <= Awake
  BY AtIsWhere DEF IndInv, NoLostWakeup
<1>2. Awake \in Nat /\ Awake' \in Nat /\ count \in Nat
  BY <1>0, WhereFinite, CapacityAssumption DEF TypeOK
<1>3. (Asleep' # {} => ~shutting_down' /\ count' <= Awake') => NoLostWakeup'
  BY AtIsWhere DEF NoLostWakeup
<1> HIDE DEF Awake, Asleep
<1>4. ASSUME NEW w \in Workers, PopWait(w)
      PROVE  NoLostWakeup'
  BY <1>2, <1>3, <1>4 DEF PopWait, queueVars
<1>5. ASSUME NEW w \in Workers, PopExit(w)
      PROVE  NoLostWakeup'
  <2>1. Asleep' = Asleep
    BY <1>0, <1>5, WorkerMoves, Stay DEF Asleep
  <2>2. shutting_down
    BY <1>5 DEF PopExit
  <2> QED BY <1>1, <1>3, <2>1, <2>2
<1>6. ASSUME NEW w \in Workers, PopJob(w)
      PROVE  NoLostWakeup'
  <2>1. Asleep' = Asleep
    BY <1>0, <1>6, WorkerMoves, Stay DEF Asleep
  <2>2. Moved(pc, pc', w, "popped") /\ pc[w] = "popping"
    BY <1>0, <1>6, WorkerMoves
  <2>3. Awake' = Awake - 1
    BY <2>2, Leave DEF Awake
  <2>4. count' = count - 1 /\ shutting_down' = shutting_down
    BY <1>6 DEF PopJob
  <2> QED BY <1>1, <1>2, <1>3, <2>1, <2>3, <2>4
<1>7. ASSUME NEW w \in Workers, BeginJob(w)
      PROVE  NoLostWakeup'
  <2>1. Moved(pc, pc', w, "handling") /\ pc[w] = "popped"
    BY <1>0, <1>7, WorkerMoves
  <2>2. Asleep' = Asleep /\ Awake' = Awake
    BY <2>1, Stay DEF Asleep, Awake
  <2>3. count' = count /\ shutting_down' = shutting_down
    BY <1>7 DEF BeginJob, queueVars
  <2> QED BY <1>1, <1>3, <2>2, <2>3
<1>8. ASSUME NEW w \in Workers, EndJob(w)
      PROVE  NoLostWakeup'
  <2>1. Moved(pc, pc', w, "popping") /\ pc[w] = "handling"
    BY <1>0, <1>8, WorkerMoves
  <2>2. Asleep' = Asleep
    BY <2>1, Stay DEF Asleep
  <2>3. Awake' = Awake + 1
    BY <2>1, Enter DEF Awake
  <2>4. count' = count /\ shutting_down' = shutting_down
    BY <1>8 DEF EndJob, queueVars
  <2> QED BY <1>1, <1>2, <1>3, <2>2, <2>3, <2>4
<1>9. ASSUME NEW w \in Workers, SpuriousWakeup(w)
      PROVE  NoLostWakeup'
  <2>1. Moved(pc, pc', w, "popping") /\ pc[w] = "waiting"
    BY <1>0, <1>9, WorkerMoves
  <2>2. Asleep # {}
    BY <2>1 DEF Asleep, Where
  <2>3. Awake' = Awake + 1
    BY <2>1, Enter DEF Awake
  <2>4. count' = count /\ shutting_down' = shutting_down
    BY <1>9 DEF SpuriousWakeup, queueVars
  <2> QED BY <1>1, <1>2, <1>3, <2>2, <2>3, <2>4
<1>10. ASSUME NEW j \in Jobs, Submit(j)
       PROVE  NoLostWakeup'
  <2>1. CASE PushJob(j)
    <3>1. count' = count + 1 /\ shutting_down' = shutting_down /\ Signal
      BY <2>1 DEF PushJob
    <3>2. CASE Where(pc, "waiting") = {} /\ pc' = pc
      <4>1. Asleep' = {}
        BY <3>2 DEF Asleep
      <4> QED BY <1>3, <4>1
    <3>3. ASSUME NEW w \in Workers, Moved(pc, pc', w, "popping"), pc[w] = "waiting"
          PROVE  NoLostWakeup'
      <4>1. Asleep # {}
        BY <3>3 DEF Asleep, Where
      <4>2. Awake' = Awake + 1
        BY <3>3, Enter DEF Awake
      <4> QED BY <1>1, <1>2, <1>3, <3>1, <4>1, <4>2
    <3> QED BY <1>0, <3>1, <3>2, <3>3, SignalMoves
  <2>2. CASE UNCHANGED <<queueVars, pc>>
    BY <2>2 DEF IndInv, NoLostWakeup, At, queueVars
  <2> QED BY <1>10, <2>1, <2>2 DEF Submit
<1>11. ASSUME OwnerStep
       PROVE  NoLostWakeup'
  <2>1. CASE CreateWorker
    <3>1. Moved(pc, pc', i, "popping") /\ pc[i] = "none"
      BY <1>0, <2>1 DEF IndInv, OwnerInv, CreateWorker, TypeOK, Moved, Workers
    <3>2. Asleep' = Asleep
      BY <3>1, Stay DEF Asleep
    <3>3. Awake' = Awake + 1
      BY <3>1, Enter DEF Awake
    <3>4. count' = count /\ shutting_down' = shutting_down
      BY <2>1 DEF CreateWorker, queueVars
    <3> QED BY <1>1, <1>2, <1>3, <3>2, <3>3, <3>4
  <2>2. CASE QueueShutdown
    <3>1. Asleep' = {}
      BY <1>0, <2>2 DEF QueueShutdown, Broadcast, Asleep, Where, TypeOK
    <3> QED BY <1>3, <3>1
  <2>3. CASE DestroyPool
    <3>1. Asleep = {}
      BY <1>0, <1>1, <2>3 DEF DestroyPool, IndInv, OwnerInv
    <3>2. Asleep' = Asleep
      BY <2>3 DEF DestroyPool, Asleep
    <3> QED BY <1>3, <3>1, <3>2
  <2>4. CASE CreateFails \/ ArgsAllocationFails \/ JoinWorker
    BY <2>4 DEF IndInv, NoLostWakeup, At, CreateFails, ArgsAllocationFails,
                JoinWorker, queueVars
  <2> QED BY <1>11, <2>1, <2>2, <2>3, <2>4 DEF OwnerStep
<1>12. CASE UNCHANGED vars
  BY <1>12 DEF IndInv, NoLostWakeup, At, vars
<1> QED BY <1>4, <1>5, <1>6, <1>7, <1>8, <1>9, <1>10, <1>11, <1>12
        DEF Next, WorkerStep

\* The busy counter follows the workers in and out of the handler.
LEMMA BusyStep ==
  ASSUME IndInv, [Next]_vars
  PROVE  BusyCountExact'
<1>0. TypeOK BY DEF IndInv
<1> DEFINE Busy == Cardinality(Where(pc, "handling"))
<1>1. owner # "destroyed" => active_worker_count = Busy
  BY AtIsWhere DEF IndInv, BusyCountExact
<1>2. worker_count # N => \A w \in Workers : pc[w] \notin {"popped", "handling"}
  BY DEF IndInv, JobsInv
<1>3. ASSUME owner' # "destroyed" => active_worker_count' = Busy',
             owner' # "destroyed" /\ worker_count' # N =>
               \A w \in Workers : pc'[w] \notin {"popped", "handling"}
      PROVE  BusyCountExact'
  BY <1>3, AtIsWhere DEF BusyCountExact, Where
<1>4. Busy \in Nat
  BY WhereFinite
<1> HIDE DEF Busy
<1>5. ASSUME NEW w \in Workers, WorkerStep(w) \/ EndJob(w) \/ SpuriousWakeup(w)
      PROVE  BusyCountExact'
  <2>1. owner' = owner /\ worker_count' = worker_count
    BY <1>5 DEF WorkerStep, PopWait, PopExit, PopJob, BeginJob, EndJob,
                SpuriousWakeup, poolVars
  <2>2. worker_count' # N => \A v \in Workers : pc'[v] \notin {"popped", "handling"}
    BY <1>0, <1>2, <1>5, <2>1
       DEF IndInv, JobsInv, TypeOK, WorkerStep, PopWait, PopExit, PopJob, BeginJob,
           EndJob, SpuriousWakeup
  <2>3. CASE PopWait(w) \/ PopExit(w) \/ PopJob(w) \/ SpuriousWakeup(w)
    <3>1. Busy' = Busy
      BY <1>0, <2>3, WorkerMoves, Stay DEF Busy
    <3>2. active_worker_count' = active_worker_count
      BY <2>3 DEF PopWait, PopExit, PopJob, SpuriousWakeup, poolVars
    <3> QED BY <1>1, <1>3, <2>1, <2>2, <3>1, <3>2
  <2>4. CASE BeginJob(w)
    <3>1. Moved(pc, pc', w, "handling")
      BY <1>0, <2>4, WorkerMoves
    <3>2. Busy' = Busy + 1
      BY <3>1, Enter DEF Busy
    <3> QED BY <1>1, <1>3, <2>1, <2>2, <2>4, <3>2 DEF BeginJob
  <2>5. CASE EndJob(w)
    <3>1. Moved(pc, pc', w, "popping") /\ pc[w] = "handling"
      BY <1>0, <2>5, WorkerMoves
    <3>2. Busy' = Busy - 1
      BY <3>1, Leave DEF Busy
    <3> QED BY <1>1, <1>3, <2>1, <2>2, <2>5, <3>2 DEF EndJob
  <2> QED BY <1>5, <2>3, <2>4, <2>5 DEF WorkerStep
<1>6. ASSUME NEW j \in Jobs, Submit(j)
      PROVE  BusyCountExact'
  <2>1. UNCHANGED <<owner, worker_count, active_worker_count>>
    BY <1>6 DEF Submit, poolVars
  <2>2. Busy' = Busy
    <3>1. CASE pc' = pc
      BY <3>1 DEF Busy
    <3>2. ASSUME NEW w \in Workers, Moved(pc, pc', w, "popping"), pc[w] = "waiting"
          PROVE  Busy' = Busy
      BY <3>2, Stay DEF Busy
    <3> QED BY <1>0, <1>6, <3>1, <3>2, SignalMoves DEF Submit, PushJob
  <2>3. worker_count' # N => \A v \in Workers : pc'[v] \notin {"popped", "handling"}
    BY <1>0, <1>2, <1>6, <2>1 DEF Submit, PushJob, Signal, At, TypeOK
  <2> QED BY <1>1, <1>3, <2>1, <2>2, <2>3
<1>7. ASSUME OwnerStep
      PROVE  BusyCountExact'
  <2>1. CASE CreateWorker
    <3>1. Moved(pc, pc', i, "popping") /\ pc[i] = "none"
      BY <1>0, <2>1 DEF IndInv, OwnerInv, CreateWorker, TypeOK, Moved, Workers
    <3>2. Busy' = Busy
      BY <3>1, Stay DEF Busy
    <3>3. UNCHANGED <<worker_count, active_worker_count>> /\ owner = "init"
      BY <2>1 DEF CreateWorker, poolVars
    <3>4. \A v \in Workers : pc'[v] \notin {"popped", "handling"}
      BY <1>0, <2>1 DEF CreateWorker, IndInv, JobsInv, TypeOK
    <3> QED BY <1>1, <1>3, <3>2, <3>3, <3>4
  <2>2. CASE CreateFails \/ ArgsAllocationFails
    <3>1. Busy' = Busy /\ UNCHANGED <<pc, active_worker_count>> /\ owner = "init"
      BY <2>2 DEF CreateFails, ArgsAllocationFails, poolVars, Busy
    <3>2. \A v \in Workers : pc'[v] \notin {"popped", "handling"}
      BY <3>1 DEF IndInv, JobsInv
    <3> QED BY <1>1, <1>3, <3>1, <3>2
  <2>3. CASE QueueShutdown
    <3>1. Where(pc', "handling") = Where(pc, "handling")
      BY <1>0, <2>3 DEF QueueShutdown, Broadcast, Where, TypeOK
    <3>2. UNCHANGED <<worker_count, active_worker_count>> /\ owner # "destroyed"
      BY <2>3 DEF QueueShutdown, poolVars
    <3>3. worker_count' # N => \A v \in Workers : pc'[v] \notin {"popped", "handling"}
      BY <1>0, <1>2, <2>3, <3>2 DEF QueueShutdown, Broadcast, TypeOK
    <3> QED BY <1>1, <1>3, <3>1, <3>2, <3>3 DEF Busy
  <2>4. CASE JoinWorker
    BY <2>4 DEF IndInv, BusyCountExact, At, JoinWorker, poolVars
  <2>5. CASE DestroyPool
    BY <2>5 DEF BusyCountExact, DestroyPool
  <2> QED BY <1>7, <2>1, <2>2, <2>3, <2>4, <2>5 DEF OwnerStep
<1>8. CASE UNCHANGED vars
  BY <1>8 DEF IndInv, BusyCountExact, At, vars
<1> QED BY <1>5, <1>6, <1>7, <1>8 DEF Next

\* Owner, workers and jobs.
LEMMA LifecycleStep ==
  ASSUME IndInv, [Next]_vars
  PROVE  NoWorkerOutlivesPool' /\ OwnerInv' /\ JobsInv'
<1> USE NAssumption
<1>0. TypeOK /\ OwnerInv /\ JobsInv /\ NoWorkerOutlivesPool
  BY DEF IndInv
<1>1. ASSUME NEW w \in Workers, WorkerStep(w) \/ EndJob(w) \/ SpuriousWakeup(w)
      PROVE  NoWorkerOutlivesPool' /\ OwnerInv' /\ JobsInv'
  <2>1. UNCHANGED <<owner, i, worker_count, shutting_down>>
    BY <1>1 DEF WorkerStep, PopWait, PopExit, PopJob, BeginJob, EndJob,
                SpuriousWakeup, poolVars, queueVars
  <2>2. pc[w] \notin {"none", "exited"} /\ pc'[w] # "none"
        /\ \A v \in Workers \ {w} : pc'[v] = pc[v]
    BY <1>0, <1>1 DEF WorkerStep, PopWait, PopExit, PopJob, BeginJob, EndJob,
                      SpuriousWakeup, TypeOK
  <2>3. count' \in 0 .. Capacity
    BY TypeStep DEF TypeOK
  <2>4. count' > 0 => count > 0 /\ pc'[w] # "exited"
    BY <1>0, <1>1, <2>3, CapacityAssumption
       DEF WorkerStep, PopWait, PopExit, PopJob, BeginJob, EndJob, SpuriousWakeup,
           queueVars, TypeOK
  <2>5. pc'[w] = "exited" => shutting_down
    BY <1>0, <1>1 DEF WorkerStep, PopWait, PopExit, PopJob, BeginJob, EndJob,
                      SpuriousWakeup, TypeOK
  <2>6. NoWorkerOutlivesPool'
    BY <1>0, <2>1, <2>2 DEF NoWorkerOutlivesPool
  <2>7. OwnerInv'
    BY <1>0, <2>1, <2>2 DEF OwnerInv, TypeOK, Workers
  <2>8. pc'[w] \in {"popped", "handling"} => count > 0 \/ pc[w] = "popped"
    BY <1>0, <1>1 DEF WorkerStep, PopWait, PopExit, PopJob, BeginJob, EndJob,
                      SpuriousWakeup, TypeOK
  <2>9. count = 0 => count' = 0
    BY <1>1 DEF WorkerStep, PopWait, PopExit, PopJob, BeginJob, EndJob,
                SpuriousWakeup, queueVars
  <2>10. JobsInv'
    <3>1. count' > 0 => \A v \in Workers : pc'[v] \notin {"none", "exited"}
      BY <1>0, <2>2, <2>4 DEF JobsInv
    <3>2. (\E v \in Workers : pc'[v] = "exited") => shutting_down'
      BY <1>0, <2>1, <2>2, <2>5 DEF JobsInv
    <3>3. owner' \in {"init", "failed"} \/ worker_count' # N =>
            count' = 0 /\ \A v \in Workers : pc'[v] \notin {"popped", "handling"}
      BY <1>0, <2>1, <2>2, <2>8, <2>9 DEF JobsInv
    <3> QED BY <3>1, <3>2, <3>3 DEF JobsInv
  <2> QED BY <2>6, <2>7, <2>10
<1>2. ASSUME NEW j \in Jobs, Submit(j)
      PROVE  NoWorkerOutlivesPool' /\ OwnerInv' /\ JobsInv'
  <2>1. UNCHANGED <<owner, i, worker_count, shutting_down>>
    BY <1>2 DEF Submit, PushJob, poolVars, queueVars
  <2>2. \A v \in Workers : pc'[v] = pc[v] \/ (pc[v] = "waiting" /\ pc'[v] = "popping")
    <3>1. pc' = pc \/ (\E u \in Workers : pc[u] = "waiting" /\ pc' = [pc EXCEPT ![u] = "popping"])
      BY <1>2 DEF Submit, PushJob, Signal, At
    <3>2. pc \in [Workers -> WorkerPc]
      BY <1>0 DEF TypeOK
    <3>3. CASE pc' = pc
      BY <3>3
    <3>4. ASSUME NEW u \in Workers, pc[u] = "waiting", pc' = [pc EXCEPT ![u] = "popping"]
          PROVE  \A v \in Workers :
                   pc'[v] = pc[v] \/ (pc[v] = "waiting" /\ pc'[v] = "popping")
      BY <3>2, <3>4
    <3> QED BY <3>1, <3>3, <3>4
  <2>3. count' # count => owner = "running" /\ ~shutting_down
    BY <1>0, <1>2 DEF Submit, PushJob, HasRoom, OwnerInv, queueVars
  <2>4. NoWorkerOutlivesPool'
    BY <1>0, <2>1, <2>2 DEF NoWorkerOutlivesPool
  <2>5. OwnerInv'
    BY <1>0, <2>1, <2>2 DEF OwnerInv
  <2>6. JobsInv'
    BY <1>0, <2>1, <2>2, <2>3 DEF JobsInv, OwnerInv
  <2> QED BY <2>4, <2>5, <2>6
<1>3. CASE CreateWorker
  <2>1. i \in Workers /\ pc' = [pc EXCEPT ![i] = "popping"] /\ i' = i + 1
        /\ owner = "init" /\ owner' = (IF i = N THEN "running" ELSE "init")
        /\ UNCHANGED <<count, shutting_down, worker_count>>
    BY <1>0, <1>3 DEF CreateWorker, OwnerInv, queueVars, poolVars
  <2>2. OwnerInv'
    BY <1>0, <2>1 DEF OwnerInv, TypeOK, Workers
  <2>3. JobsInv'
    BY <1>0, <2>1 DEF JobsInv, TypeOK
  <2> QED BY <2>1, <2>2, <2>3 DEF NoWorkerOutlivesPool
<1>4. CASE CreateFails \/ ArgsAllocationFails
  <2>1. owner = "init" /\ owner' = "failed" /\ UNCHANGED <<pc, count, shutting_down, i>>
        /\ worker_count' \in {i - 1, worker_count}
    BY <1>4 DEF CreateFails, ArgsAllocationFails, queueVars, poolVars
  <2>2. OwnerInv'
    BY <1>0, <2>1 DEF OwnerInv, TypeOK, Workers
  <2>3. JobsInv'
    BY <1>0, <2>1 DEF JobsInv
  <2> QED BY <2>1, <2>2, <2>3 DEF NoWorkerOutlivesPool
<1>5. CASE QueueShutdown
  <2>1. owner' = "joining" /\ i' = 1 /\ shutting_down' /\ UNCHANGED <<count, worker_count>>
        /\ \A v \in Workers : pc'[v] = pc[v] \/ (pc[v] = "waiting" /\ pc'[v] = "popping")
    <3>1. \A v \in Workers : pc'[v] = IF pc[v] = "waiting" THEN "popping" ELSE pc[v]
      BY <1>5 DEF QueueShutdown, Broadcast
    <3>2. owner' = "joining" /\ i' = 1 /\ shutting_down' /\ UNCHANGED <<count, worker_count>>
      BY <1>5 DEF QueueShutdown, poolVars
    <3> QED BY <3>1, <3>2
  <2>2. OwnerInv'
    BY <1>0, <1>5, <2>1 DEF OwnerInv, QueueShutdown, TypeOK, Workers
  <2>3. JobsInv'
    BY <1>0, <2>1 DEF JobsInv
  <2> QED BY <2>1, <2>2, <2>3 DEF NoWorkerOutlivesPool
<1>6. CASE JoinWorker
  BY <1>0, <1>6 DEF JoinWorker, OwnerInv, JobsInv, NoWorkerOutlivesPool, TypeOK,
                    Workers, queueVars, poolVars
<1>7. CASE DestroyPool
  <2>1. \A v \in Workers : pc[v] \in {"none", "exited"}
    BY <1>0, <1>7 DEF DestroyPool, OwnerInv, TypeOK, Workers
  <2> QED BY <1>0, <1>7, <2>1
          DEF DestroyPool, OwnerInv, JobsInv, NoWorkerOutlivesPool
<1>8. CASE UNCHANGED vars
  BY <1>0, <1>8 DEF vars, OwnerInv, JobsInv, NoWorkerOutlivesPool
<1> QED BY <1>1, <1>2, <1>3, <1>4, <1>5, <1>6, <1>7, <1>8 DEF Next, OwnerStep

-----------------------------------------------------------------------------
\* IndInv is an invariant of the thread pool.
THEOREM Invariance == Spec => []IndInv
<1>1. IndInv /\ [Next]_vars => IndInv'
  BY TypeStep, RingStepInv, WakeupStep, BusyStep, LifecycleStep DEF IndInv
<1> QED BY <1>1, InitIndInv, PTL DEF Spec

\* Every variable of the queue, the pool and its threads keeps its type; in
\* particular count and active_worker_count never leave 0 .. Capacity, 0 .. N.
THEOREM TypeCorrect == Spec => []TypeOK
  BY Invariance, PTL DEF IndInv

\* queue_push and queue_pop lose no wake-up, for any number of workers.
THEOREM WakeupsKept == Spec => []NoLostWakeup
  BY Invariance, PTL DEF IndInv

\* thread_pool_get_stats reports the number of workers inside a handler.
THEOREM BusyCount == Spec => []BusyCountExact
  BY Invariance, PTL DEF IndInv

\* thread_pool_shutdown destroys the queue after its last user is gone.
THEOREM PoolOutlivesWorkers == Spec => []NoWorkerOutlivesPool
  BY Invariance, PTL DEF IndInv

-----------------------------------------------------------------------------
(* The jobs of the workers *)

\* The workers that have a job.
Holders == At("popped") \cup At("handling")

\* The inductive invariant of the refinement: what a worker took out of the
\* ring is a job, never the content of a slot that was not filled.
JobInv == IndInv /\ EachJobOnce /\ Taken \subseteq Jobs

-----------------------------------------------------------------------------
(* The ring as a sequence *)

\* The slot of the k-th queued job, without a modulus.
LEMMA SlotOf ==
  ASSUME NEW h \in Slots, NEW k \in 1 .. Capacity
  PROVE  /\ (h + k - 1) % Capacity \in Slots
         /\ (h + k - 1) % Capacity = IF h + k - 1 >= Capacity THEN h + k - 1 - Capacity
                                                             ELSE h + k - 1
<1>1. k - 1 \in 0 .. Capacity /\ h + (k - 1) = h + k - 1
  BY CapacityAssumption DEF Slots
<1>2. (h + (k - 1)) % Capacity = IF h + (k - 1) >= Capacity THEN h + (k - 1) - Capacity
                                                            ELSE h + (k - 1)
  BY <1>1, RingSum
<1> QED BY <1>1, <1>2, CapacityAssumption DEF Slots

\* The jobs of a ring are a sequence.
LEMMA RingIsSequence ==
  ASSUME NEW h \in Slots, NEW c \in 0 .. Capacity, NEW S, NEW fds \in [Slots -> S]
  PROVE  LET q == [k \in 1 .. c |-> fds[(h + k - 1) % Capacity]]
         IN  q \in Seq(S) /\ Len(q) = c
<1> DEFINE q == [k \in 1 .. c |-> fds[(h + k - 1) % Capacity]]
<1>1. \A k \in 1 .. c : (h + k - 1) % Capacity \in Slots
  BY SlotOf, CapacityAssumption
<1>2. q \in [1 .. c -> S]
  BY <1>1
<1>3. q \in Seq(S)
  BY <1>2, SeqDef, CapacityAssumption
<1>4. Len(q) = c
  BY <1>2, <1>3, LenProperties, CapacityAssumption
<1> QED BY <1>3, <1>4

\* The queued jobs are a sequence of length count, before and after a step.
LEMMA QueuedIsSequence ==
  /\ TypeOK => /\ Queued \in Seq(Jobs \cup {NoJob}) /\ Len(Queued) = count
               /\ \A k \in 1 .. count :
                    Queued[k] = client_fds[(head + k - 1) % Capacity]
  /\ TypeOK' => /\ Queued' \in Seq(Jobs \cup {NoJob}) /\ Len(Queued') = count'
                /\ \A k \in 1 .. count' :
                     Queued'[k] = client_fds'[(head' + k - 1) % Capacity]
<1>1. ASSUME TypeOK
      PROVE  /\ Queued \in Seq(Jobs \cup {NoJob}) /\ Len(Queued) = count
             /\ \A k \in 1 .. count : Queued[k] = client_fds[(head + k - 1) % Capacity]
  <2>1. head \in Slots /\ count \in 0 .. Capacity /\ client_fds \in [Slots -> Jobs \cup {NoJob}]
    BY <1>1 DEF TypeOK
  <2> QED BY <2>1, RingIsSequence DEF Queued
<1>2. ASSUME TypeOK'
      PROVE  /\ Queued' \in Seq(Jobs \cup {NoJob}) /\ Len(Queued') = count'
             /\ \A k \in 1 .. count' : Queued'[k] = client_fds'[(head' + k - 1) % Capacity]
  <2>1. /\ head' \in Slots /\ count' \in 0 .. Capacity
        /\ client_fds' \in [Slots -> Jobs \cup {NoJob}]
    BY <1>2 DEF TypeOK
  <2> QED BY <2>1, RingIsSequence DEF Queued
<1> QED BY <1>1, <1>2

\* queue_push appends, whether or not the ring wraps around.
LEMMA PushAppends ==
  ASSUME IndInv, NEW j \in Jobs, PushJob(j), TypeOK'
  PROVE  Queued' = Append(Queued, j)
<1>1. /\ head \in Slots /\ tail \in Slots /\ count \in 0 .. Capacity
      /\ client_fds \in [Slots -> Jobs \cup {NoJob}] /\ Capacity \in Nat \ {0}
      /\ TypeOK
  BY CapacityAssumption DEF IndInv, TypeOK
<1>2. /\ count < Capacity /\ head' = head /\ count' = count + 1
      /\ client_fds' = [client_fds EXCEPT ![tail] = j]
  BY DEF PushJob, HasRoom
<1>3. tail = IF head + count >= Capacity THEN head + count - Capacity ELSE head + count
  BY <1>1, RingSum DEF IndInv, RingConsistent
<1>4. /\ Queued \in Seq(Jobs \cup {NoJob}) /\ Len(Queued) = count
      /\ \A k \in 1 .. count : Queued[k] = client_fds[(head + k - 1) % Capacity]
  BY <1>1, QueuedIsSequence
<1>5. /\ Queued' \in Seq(Jobs \cup {NoJob}) /\ Len(Queued') = count + 1
      /\ \A k \in 1 .. count + 1 : Queued'[k] = client_fds'[(head + k - 1) % Capacity]
  <2>1. /\ Queued' \in Seq(Jobs \cup {NoJob}) /\ Len(Queued') = count'
        /\ \A k \in 1 .. count' : Queued'[k] = client_fds'[(head' + k - 1) % Capacity]
    BY QueuedIsSequence
  <2> QED BY <1>2, <2>1
<1> DEFINE q == Append(Queued, j)
<1>6. /\ q \in Seq(Jobs \cup {NoJob}) /\ Len(q) = count + 1
      /\ \A k \in 1 .. count : q[k] = Queued[k]
      /\ q[count + 1] = j
  BY <1>4, AppendProperties
<1> HIDE DEF q
<1>7. ASSUME NEW k \in 1 .. count + 1 PROVE Queued'[k] = q[k]
  <2> DEFINE s == (head + k - 1) % Capacity
  <2>1. k \in 1 .. Capacity
    BY <1>1, <1>2
  <2>2. /\ s \in Slots
        /\ s = IF head + k - 1 >= Capacity THEN head + k - 1 - Capacity ELSE head + k - 1
    BY <1>1, <2>1, SlotOf
  <2>3. Queued'[k] = client_fds'[s] /\ (k \in 1 .. count => Queued[k] = client_fds[s])
    BY <1>4, <1>5
  <2> HIDE DEF s
  <2>4. CASE k = count + 1
    <3>1. s = tail
      BY <1>1, <1>3, <2>2, <2>4 DEF Slots
    <3> QED BY <1>1, <1>2, <1>6, <2>3, <2>4, <3>1
  <2>5. CASE k # count + 1
    <3>1. k \in 1 .. count
      BY <1>1, <2>5
    <3>2. s # tail
      BY <1>1, <1>2, <1>3, <2>2, <3>1 DEF Slots
    <3> QED BY <1>1, <1>2, <1>6, <2>2, <2>3, <3>1, <3>2
  <2> QED BY <2>4, <2>5
<1>8. Queued' = q
  BY <1>5, <1>6, <1>7, SeqEqual
<1> QED BY <1>8 DEF q

\* queue_pop takes the head and leaves the tail of the sequence.
LEMMA PopTakesHead ==
  ASSUME IndInv, NEW w \in Workers, PopJob(w), TypeOK'
  PROVE  /\ Queued # <<>>
         /\ Head(Queued) = client_fds[head] /\ Head(Queued) = Queued[1]
         /\ Queued' = Tail(Queued)
<1>1. /\ head \in Slots /\ count \in 1 .. Capacity /\ Capacity \in Nat \ {0}
      /\ TypeOK
  BY CapacityAssumption DEF IndInv, TypeOK, PopJob
<1>2. head' = (head + 1) % Capacity /\ count' = count - 1 /\ client_fds' = client_fds
  BY DEF PopJob
<1>3. /\ Queued \in Seq(Jobs \cup {NoJob}) /\ Len(Queued) = count
      /\ \A k \in 1 .. count : Queued[k] = client_fds[(head + k - 1) % Capacity]
  BY <1>1, QueuedIsSequence
<1>4. /\ Queued' \in Seq(Jobs \cup {NoJob}) /\ Len(Queued') = count'
      /\ \A k \in 1 .. count' : Queued'[k] = client_fds'[(head' + k - 1) % Capacity]
  BY QueuedIsSequence
<1>5. Queued # <<>>
  BY <1>1, <1>3, EmptySeq
<1>6. Head(Queued) = Queued[1]
  OBVIOUS
<1>7. Queued[1] = client_fds[head]
  <2>1. (head + 1 - 1) % Capacity = head
    BY <1>1, SlotOf DEF Slots
  <2> QED BY <1>1, <1>3, <2>1
<1> DEFINE q == Tail(Queued)
<1>8. /\ q \in Seq(Jobs \cup {NoJob}) /\ Len(q) = count - 1
      /\ \A k \in 1 .. count - 1 : q[k] = Queued[k + 1]
  BY <1>3, <1>5, HeadTailProperties
<1> HIDE DEF q
<1>9. ASSUME NEW k \in 1 .. count - 1 PROVE Queued'[k] = q[k]
  <2>1. k \in 1 .. Capacity /\ k + 1 \in 1 .. Capacity /\ k + 1 \in 1 .. count
    BY <1>1
  <2>2. head' \in Slots /\ head' = IF head + 1 = Capacity THEN 0 ELSE head + 1
    BY <1>1, <1>2, RingStep
  <2>3. (head' + k - 1) % Capacity
          = IF head' + k - 1 >= Capacity THEN head' + k - 1 - Capacity ELSE head' + k - 1
    BY <2>1, <2>2, SlotOf
  <2>4. (head + (k + 1) - 1) % Capacity
          = IF head + (k + 1) - 1 >= Capacity THEN head + (k + 1) - 1 - Capacity
                                              ELSE head + (k + 1) - 1
    BY <1>1, <2>1, SlotOf
  <2>5. (head' + k - 1) % Capacity = (head + (k + 1) - 1) % Capacity
    BY <1>1, <2>1, <2>2, <2>3, <2>4 DEF Slots
  <2>6. Queued'[k] = client_fds[(head' + k - 1) % Capacity]
    BY <1>2, <1>4
  <2>7. Queued[k + 1] = client_fds[(head + (k + 1) - 1) % Capacity]
    BY <1>3, <2>1
  <2> QED BY <1>8, <2>5, <2>6, <2>7
<1>10. Queued' = q
  BY <1>2, <1>4, <1>8, <1>9, SeqEqual
<1> QED BY <1>5, <1>6, <1>7, <1>10 DEF q

-----------------------------------------------------------------------------
(* The workers as the set of running jobs *)

\* Steps that neither give a worker a job nor take it away.
Quiet == \/ \E j \in Jobs : Submit(j)
         \/ \E w \in Workers : PopWait(w) \/ PopExit(w) \/ BeginJob(w) \/ SpuriousWakeup(w)
         \/ OwnerStep
         \/ UNCHANGED vars

\* They leave the workers' jobs alone.
LEMMA QuietKeepsTaken ==
  ASSUME IndInv, Quiet
  PROVE  Holders' = Holders /\ client_fd' = client_fd /\ Taken' = Taken
<1>1. TypeOK /\ OwnerInv
  BY DEF IndInv
<1>2. pc \in [Workers -> WorkerPc]
  BY <1>1 DEF TypeOK
<1>3. client_fd' = client_fd
  BY DEF Quiet, Submit, PopWait, PopExit, BeginJob, SpuriousWakeup, OwnerStep,
         CreateWorker, CreateFails, ArgsAllocationFails, QueueShutdown, JoinWorker,
         DestroyPool, vars
<1> DEFINE Same == \A v \in Workers :
             pc[v] \in {"popped", "handling"} <=> pc'[v] \in {"popped", "handling"}
<1>4. Same
  <2>1. ASSUME NEW w \in Workers, PopWait(w) \/ PopExit(w) \/ BeginJob(w) \/ SpuriousWakeup(w)
        PROVE  Same
    BY <1>2, <2>1 DEF PopWait, PopExit, BeginJob, SpuriousWakeup
  <2>2. ASSUME NEW j \in Jobs, Submit(j) PROVE Same
    <3>1. Signal \/ pc' = pc
      BY <2>2 DEF Submit, PushJob
    <3> QED BY <1>2, <3>1 DEF Signal, At
  <2>3. CASE CreateWorker
    <3>1. i \in Workers /\ pc[i] = "none" /\ pc' = [pc EXCEPT ![i] = "popping"]
      BY <1>1, <2>3, NAssumption DEF CreateWorker, OwnerInv, Workers
    <3> QED BY <1>2, <3>1
  <2>4. CASE QueueShutdown
    BY <1>2, <2>4 DEF QueueShutdown, Broadcast
  <2>5. CASE \/ CreateFails \/ ArgsAllocationFails \/ JoinWorker \/ DestroyPool
             \/ UNCHANGED vars
    BY <2>5 DEF CreateFails, ArgsAllocationFails, JoinWorker, DestroyPool, vars
  <2> QED BY <2>1, <2>2, <2>3, <2>4, <2>5 DEF Quiet, OwnerStep
<1>5. Holders' = Holders
  BY <1>4 DEF Holders, At
<1> QED BY <1>3, <1>5 DEF Taken, Holders

\* All of them but an accepted submission leave the queue alone, too; when the
\* queue is destroyed it is empty.
LEMMA QuietKeepsQueued ==
  ASSUME IndInv, Quiet
  PROVE  Queued' = Queued \/ \E j \in Jobs : Submit(j) /\ PushJob(j)
<1>1. ASSUME UNCHANGED <<client_fds, head, count>> PROVE Queued' = Queued
  BY <1>1 DEF Queued
<1>2. ASSUME NEW w \in Workers, PopWait(w) \/ PopExit(w) \/ BeginJob(w) \/ SpuriousWakeup(w)
      PROVE  UNCHANGED <<client_fds, head, count>>
  BY <1>2 DEF PopWait, PopExit, BeginJob, SpuriousWakeup, queueVars
<1>3. ASSUME NEW j \in Jobs, Submit(j), ~PushJob(j)
      PROVE  UNCHANGED <<client_fds, head, count>>
  BY <1>3 DEF Submit, queueVars
<1>4. CASE DestroyPool
  <2>1. count = 0
    BY <1>4, NAssumption, CapacityAssumption
       DEF IndInv, TypeOK, DestroyPool, JobsInv, OwnerInv, Workers
  <2> QED BY <1>1, <1>4, <2>1 DEF DestroyPool
<1>5. CASE \/ CreateWorker \/ CreateFails \/ ArgsAllocationFails
           \/ QueueShutdown \/ JoinWorker \/ UNCHANGED vars
  <2>1. UNCHANGED <<client_fds, head, count>>
    BY <1>5 DEF CreateWorker, CreateFails, ArgsAllocationFails, QueueShutdown,
                JoinWorker, queueVars, vars
  <2> QED BY <1>1, <2>1
<1> QED BY <1>1, <1>2, <1>3, <1>4, <1>5 DEF Quiet, OwnerStep

\* Taking a job, and being done with it.
LEMMA HoldersMove ==
  ASSUME TypeOK, NEW w \in Workers
  PROVE  /\ PopJob(w) => /\ w \notin Holders /\ Holders' = Holders \cup {w}
                         /\ client_fd' = [client_fd EXCEPT ![w] = client_fds[head]]
         /\ EndJob(w) => /\ w \in Holders /\ Holders' = Holders \ {w}
                         /\ client_fd' = client_fd
  BY DEF TypeOK, PopJob, EndJob, Holders, At

\* EachJobOnce in terms of Holders.
LEMMA EachJobOnceHolders ==
  ASSUME EachJobOnce
  PROVE  /\ Taken = {client_fd[v] : v \in Holders}
         /\ \A v, w \in Holders : client_fd[v] = client_fd[w] => v = w
  BY DEF EachJobOnce, Taken, Holders

\* A worker takes the job at the head of the queue.
LEMMA PopTaken ==
  ASSUME JobInv, NEW w \in Workers, PopJob(w)
  PROVE  Taken' = Taken \cup {client_fds[head]}
<1>1. TypeOK /\ EachJobOnce
  BY DEF JobInv, IndInv
<1>2. /\ w \notin Holders /\ Holders' = Holders \cup {w}
      /\ client_fd' = [client_fd EXCEPT ![w] = client_fds[head]]
  BY <1>1, HoldersMove
<1>3. Holders \subseteq Workers /\ client_fd \in [Workers -> Jobs \cup {NoJob}]
  BY <1>1 DEF Holders, At, TypeOK
<1>4. client_fd'[w] = client_fds[head] /\ \A v \in Holders : client_fd'[v] = client_fd[v]
  BY <1>2, <1>3
<1>5. Taken' = {client_fd'[v] : v \in Holders'}
  BY DEF Taken, Holders
<1> QED BY <1>1, <1>2, <1>4, <1>5, EachJobOnceHolders

\* It is done with its job, which nobody else has.
LEMMA EndTaken ==
  ASSUME JobInv, NEW w \in Workers, EndJob(w)
  PROVE  client_fd[w] \in Taken /\ Taken' = Taken \ {client_fd[w]}
<1>1. TypeOK /\ EachJobOnce
  BY DEF JobInv, IndInv
<1>2. w \in Holders /\ Holders' = Holders \ {w} /\ client_fd' = client_fd
  BY <1>1, HoldersMove
<1>3. Taken' = {client_fd[v] : v \in Holders \ {w}}
  BY <1>2 DEF Taken, Holders
<1> QED BY <1>1, <1>2, <1>3, EachJobOnceHolders

\* A worker about to pop is free, so fewer than N jobs are running.
LEMMA FreeWorker ==
  ASSUME JobInv, NEW w \in Workers, pc[w] = "popping"
  PROVE  Cardinality(Taken) < N
<1>1. w \notin Holders /\ Holders \in SUBSET Workers /\ EachJobOnce
  BY DEF Holders, At, JobInv
<1>2. IsFiniteSet(Workers) /\ Cardinality(Workers) = N
  BY NAssumption, FS_Interval DEF Workers
<1>3. IsFiniteSet(Workers \ {w}) /\ Cardinality(Workers \ {w}) = N - 1
  BY <1>2, FS_RemoveElement
<1>4. Holders \in SUBSET (Workers \ {w})
  BY <1>1
<1>5. IsFiniteSet(Holders) /\ Cardinality(Holders) <= N - 1
  BY <1>3, <1>4, FS_Subset
<1> DEFINE f == [v \in Holders |-> client_fd[v]]
<1>6. f \in Surjection(Holders, Taken)
  <2>1. Taken = {client_fd[v] : v \in Holders}
    BY <1>1, EachJobOnceHolders
  <2>2. f \in [Holders -> Taken]
    BY <2>1
  <2>3. \A j \in Taken : \E v \in Holders : f[v] = j
    BY <2>1
  <2> QED BY <2>2, <2>3 DEF Surjection
<1>7. IsFiniteSet(Taken) /\ Cardinality(Taken) <= Cardinality(Holders)
  BY <1>5, <1>6, FS_Surjection
<1> QED BY <1>5, <1>7, FS_CardinalityType, NAssumption

-----------------------------------------------------------------------------
(* Every job once *)

\* EachJobOnce as a fact about the sequence and the set.
Once(q, taken) ==
  /\ \A k, l \in 1 .. Len(q) : q[k] = q[l] => k = l
  /\ \A k \in 1 .. Len(q) : q[k] \in Jobs \ taken

\* EachJobOnce and its next value.
LEMMA OnceIsEachJobOnce ==
  /\ TypeOK => (EachJobOnce <=>
       /\ Once(Queued, Taken)
       /\ \A v, w \in Holders : client_fd[v] = client_fd[w] => v = w)
  /\ TypeOK' => (EachJobOnce' <=>
       /\ Once(Queued', Taken')
       /\ \A v, w \in Holders' : client_fd'[v] = client_fd'[w] => v = w)
  BY QueuedIsSequence DEF EachJobOnce, Once, Holders

\* A submission brings a descriptor the pool does not have, a worker takes one
\* out of the queue, and a handler returns one for good.
LEMMA EachJobOnceStep ==
  ASSUME JobInv, [Next]_vars
  PROVE  EachJobOnce'
<1>1. IndInv /\ TypeOK /\ TypeOK' /\ EachJobOnce
  BY TypeStep DEF JobInv, IndInv
<1>2. /\ Once(Queued, Taken)
      /\ \A v, w \in Holders : client_fd[v] = client_fd[w] => v = w
  BY <1>1, OnceIsEachJobOnce
<1>3. Queued \in Seq(Jobs \cup {NoJob}) /\ Len(Queued) = count /\ count \in Nat
  BY <1>1, QueuedIsSequence, CapacityAssumption DEF TypeOK
<1>4. CASE Quiet
  <2>1. Holders' = Holders /\ client_fd' = client_fd /\ Taken' = Taken
    BY <1>1, <1>4, QuietKeepsTaken
  <2>2. CASE Queued' = Queued
    BY <1>1, <1>2, <2>1, <2>2, OnceIsEachJobOnce
  <2>3. ASSUME NEW j \in Jobs, Submit(j), PushJob(j) PROVE EachJobOnce'
    <3>1. Queued' = Append(Queued, j)
      BY <1>1, <2>3, PushAppends
    <3>2. j \notin Taken /\ \A k \in 1 .. Len(Queued) : Queued[k] # j
      BY <1>3, <2>3 DEF Submit
    <3>3. /\ Len(Queued') = Len(Queued) + 1
          /\ \A k \in 1 .. Len(Queued) : Queued'[k] = Queued[k]
          /\ Queued'[Len(Queued) + 1] = j
      BY <1>3, <3>1, AppendProperties
    <3>4. Once(Queued', Taken')
      <4>1. \A k \in 1 .. Len(Queued') : k \in 1 .. Len(Queued) \/ k = Len(Queued) + 1
        BY <1>3, <3>3
      <4> QED BY <1>2, <2>1, <3>2, <3>3, <4>1 DEF Once
    <3> QED BY <1>1, <1>2, <2>1, <3>4, OnceIsEachJobOnce
  <2> QED BY <1>1, <1>4, <2>2, <2>3, QuietKeepsQueued
<1>5. ASSUME NEW w \in Workers, PopJob(w) PROVE EachJobOnce'
  <2>1. /\ Queued # <<>> /\ Queued[1] = client_fds[head] /\ Queued' = Tail(Queued)
    BY <1>1, <1>5, PopTakesHead
  <2>2. Taken' = Taken \cup {Queued[1]}
    BY <1>5, <2>1, PopTaken
  <2>3. /\ Len(Queued) \in Nat \ {0} /\ Len(Queued') = Len(Queued) - 1
        /\ \A k \in 1 .. Len(Queued') : Queued'[k] = Queued[k + 1]
    BY <1>3, <2>1, HeadTailProperties, EmptySeq
  <2>4. Once(Queued', Taken')
    <3>1. \A k \in 1 .. Len(Queued') : k + 1 \in 1 .. Len(Queued) /\ k + 1 # 1
      BY <2>3
    <3>2. 1 \in 1 .. Len(Queued)
      BY <2>3
    <3>3. \A k, l \in 1 .. Len(Queued') : k + 1 = l + 1 => k = l
      BY <2>3
    <3> QED BY <1>2, <2>2, <2>3, <3>1, <3>2, <3>3 DEF Once
  <2>5. \A v, u \in Holders' : client_fd'[v] = client_fd'[u] => v = u
    <3>1. /\ w \notin Holders /\ Holders' = Holders \cup {w}
          /\ client_fd' = [client_fd EXCEPT ![w] = client_fds[head]]
      BY <1>1, <1>5, HoldersMove
    <3>2. Holders \subseteq Workers /\ client_fd \in [Workers -> Jobs \cup {NoJob}]
      BY <1>1 DEF Holders, At, TypeOK
    <3>3. client_fd'[w] = Queued[1] /\ \A v \in Holders : client_fd'[v] = client_fd[v]
      BY <2>1, <3>1, <3>2
    <3>4. \A v \in Holders : client_fd[v] # Queued[1]
      <4>1. Queued[1] \notin Taken
        BY <1>2, <2>3 DEF Once
      <4> QED BY <1>1, <4>1, EachJobOnceHolders
    <3> QED BY <1>2, <3>1, <3>3, <3>4
  <2> QED BY <1>1, <2>4, <2>5, OnceIsEachJobOnce
<1>6. ASSUME NEW w \in Workers, EndJob(w) PROVE EachJobOnce'
  <2>1. Taken' \subseteq Taken
    BY <1>6, EndTaken
  <2>2. Holders' \subseteq Holders /\ client_fd' = client_fd
    BY <1>1, <1>6, HoldersMove
  <2>3. Queued' = Queued
    BY <1>6 DEF EndJob, queueVars, Queued
  <2>4. Once(Queued', Taken')
    BY <1>2, <2>1, <2>3 DEF Once
  <2> QED BY <1>1, <1>2, <2>2, <2>4, OnceIsEachJobOnce
<1> QED BY <1>4, <1>5, <1>6 DEF Next, WorkerStep, Quiet

\* What is taken comes from the queue, which holds jobs only.
LEMMA TakenStep ==
  ASSUME JobInv, [Next]_vars
  PROVE  Taken' \subseteq Jobs
<1>1. IndInv /\ TypeOK /\ TypeOK' /\ EachJobOnce /\ Taken \subseteq Jobs
  BY TypeStep DEF JobInv, IndInv
<1>2. CASE Quiet
  BY <1>1, <1>2, QuietKeepsTaken
<1>3. ASSUME NEW w \in Workers, PopJob(w) PROVE Taken' \subseteq Jobs
  <2>1. Queued[1] = client_fds[head] /\ Taken' = Taken \cup {client_fds[head]}
    BY <1>1, <1>3, PopTakesHead, PopTaken
  <2>2. 1 \in 1 .. count
    BY <1>1, <1>3, CapacityAssumption DEF TypeOK, PopJob
  <2> QED BY <1>1, <2>1, <2>2 DEF EachJobOnce
<1>4. ASSUME NEW w \in Workers, EndJob(w) PROVE Taken' \subseteq Jobs
  BY <1>1, <1>4, EndTaken
<1> QED BY <1>2, <1>3, <1>4 DEF Next, WorkerStep, Quiet

\* The invariant holds initially, and every step preserves it.
LEMMA JobInvariance == Spec => []JobInv
<1>1. Init => JobInv
  <2> SUFFICES ASSUME Init PROVE EachJobOnce /\ Taken \subseteq Jobs
    BY InitIndInv DEF JobInv
  <2>1. count = 0 /\ At("popped") = {} /\ At("handling") = {}
    BY DEF Init, At
  <2> QED BY <2>1 DEF EachJobOnce, Taken
<1>2. JobInv /\ [Next]_vars => JobInv'
  BY EachJobOnceStep, TakenStep, TypeStep, RingStepInv, WakeupStep, BusyStep, LifecycleStep
     DEF JobInv, IndInv
<1> QED BY <1>1, <1>2, PTL DEF Spec

\* No descriptor is ever queued twice, held by two workers, or queued and held,
\* for every number of workers and every capacity: queue_push and queue_pop
\* hand each accepted client to exactly one worker.
THEOREM JobsAreHandledOnce == Spec => []EachJobOnce
  BY JobInvariance, PTL DEF JobInv

-----------------------------------------------------------------------------
(* The refinement *)

\* A quiet step is a submission, the shutdown, or invisible.
LEMMA QuietSimulates ==
  ASSUME JobInv, Quiet, TypeOK'
  PROVE  [Pool!Next]_(Pool!vars)
<1>1. IndInv /\ TypeOK
  BY DEF JobInv, IndInv
<1>2. Taken' = Taken
  BY <1>1, QuietKeepsTaken
<1>3. /\ Queued \in Seq(Jobs \cup {NoJob}) /\ Len(Queued) = count
      /\ DOMAIN Queued = 1 .. count
  BY <1>1, QueuedIsSequence, LenProperties
<1>4. ASSUME NEW j \in Jobs, Submit(j) PROVE Pool!Next
  <2> DEFINE accepted == ~shutting_down /\ Len(Queued) < Capacity
  <2>1. HasRoom <=> accepted
    BY <1>3 DEF HasRoom
  <2>2. submitted' = <<j, accepted>>
    BY <1>4, <2>1 DEF Submit, HasRoom
  <2>3. shutting_down' = shutting_down
    BY <1>4 DEF Submit, PushJob, queueVars
  <2>4. j \notin Pool!ToSet(Queued) \cup Taken
    BY <1>3, <1>4 DEF Submit, Pool!ToSet
  <2>5. Queued' = IF accepted THEN Append(Queued, j) ELSE Queued
    <3>1. CASE PushJob(j)
      BY <1>1, <2>1, <3>1, PushAppends DEF PushJob
    <3>2. CASE ~PushJob(j)
      BY <1>4, <2>1, <3>2 DEF Submit, queueVars, Queued
    <3> QED BY <3>1, <3>2
  <2>6. Pool!Submit(j)
    BY <1>2, <2>2, <2>3, <2>4, <2>5 DEF Pool!Submit
  <2> QED BY <2>6 DEF Pool!Next
<1>5. ASSUME ~\E j \in Jobs : Submit(j) PROVE Queued' = Queued
  BY <1>1, <1>5, QuietKeepsQueued
<1>6. CASE QueueShutdown
  <2>1. shutting_down' = TRUE /\ submitted' = submitted /\ Queued' = Queued
    BY <1>6 DEF QueueShutdown, Queued
  <2>2. Pool!Close
    BY <1>2, <2>1 DEF Pool!Close
  <2> QED BY <2>2 DEF Pool!Next
<1>7. ASSUME ~\E j \in Jobs : Submit(j), ~QueueShutdown PROVE UNCHANGED Pool!vars
  <2>1. submitted' = submitted /\ shutting_down' = shutting_down
    BY <1>7 DEF Quiet, PopWait, PopExit, BeginJob, SpuriousWakeup, OwnerStep,
            CreateWorker, CreateFails, ArgsAllocationFails, JoinWorker, DestroyPool,
            queueVars, vars
  <2> QED BY <1>2, <1>5, <1>7, <2>1 DEF Pool!vars
<1> QED BY <1>4, <1>6, <1>7

\* Every step of the thread pool is a step of JobPool or changes nothing that
\* JobPool shows.
LEMMA StepSimulates ==
  ASSUME JobInv, [Next]_vars
  PROVE  [Pool!Next]_(Pool!vars)
<1>1. IndInv /\ TypeOK /\ TypeOK'
  BY TypeStep DEF JobInv, IndInv
<1>2. CASE Quiet
  BY <1>1, <1>2, QuietSimulates
<1>3. ASSUME NEW w \in Workers, PopJob(w) PROVE Pool!Next
  <2>1. /\ Queued # <<>> /\ Queued' = Tail(Queued)
        /\ Taken' = Taken \cup {Head(Queued)}
    BY <1>1, <1>3, PopTakesHead, PopTaken
  <2>2. Cardinality(Taken) < N
    BY <1>3, FreeWorker DEF PopJob
  <2>3. Pool!Cardinality(Taken) < N
    BY <2>2, Zenon DEF Pool!Cardinality, Cardinality
  <2>4. shutting_down' = shutting_down /\ submitted' = submitted
    BY <1>3 DEF PopJob
  <2>5. Pool!Start
    BY <2>1, <2>3, <2>4, Zenon DEF Pool!Start
  <2> QED BY <2>5 DEF Pool!Next
<1>4. ASSUME NEW w \in Workers, EndJob(w) PROVE Pool!Next
  <2>1. client_fd[w] \in Taken /\ Taken' = Taken \ {client_fd[w]}
    BY <1>4, EndTaken
  <2>2. Queued' = Queued /\ shutting_down' = shutting_down /\ submitted' = submitted
    BY <1>4 DEF EndJob, queueVars, Queued
  <2>3. Pool!Finish(client_fd[w])
    BY <2>1, <2>2 DEF Pool!Finish
  <2>4. client_fd[w] \in Jobs
    BY <2>1 DEF JobInv
  <2> QED BY <2>3, <2>4 DEF Pool!Next
<1> QED BY <1>2, <1>3, <1>4 DEF Next, WorkerStep, Quiet

\* The thread pool implements the bounded FIFO that ApiServer relies on: jobs
\* are started in the order in which thread_pool_submit accepted them, at most
\* worker_count at a time, a submission is refused exactly when the queue is
\* full or shut down, and no accepted job disappears.  (That a waiting job is
\* not left alone while a worker is free, the fairness part of FairSpec, is
\* beyond this proof.)
THEOREM ImplementsJobPool == Spec => Pool!Spec
<1>1. Init => Pool!Init
  <2> SUFFICES ASSUME Init PROVE Pool!Init
    OBVIOUS
  <2>1. TypeOK /\ count = 0
    BY InitIndInv DEF IndInv, Init
  <2>2. Queued \in Seq(Jobs \cup {NoJob}) /\ Len(Queued) = 0
    BY <2>1, QueuedIsSequence
  <2>3. Queued = <<>>
    BY <2>2, EmptySeq
  <2>4. Taken = {}
    BY DEF Init, Taken, At
  <2> QED BY <2>3, <2>4 DEF Init, Pool!Init, Pool!NoOutcome
<1>2. JobInv /\ [Next]_vars => [Pool!Next]_(Pool!vars)
  BY StepSimulates
<1> QED BY <1>1, <1>2, JobInvariance, PTL DEF Spec, Pool!Spec
=============================================================================

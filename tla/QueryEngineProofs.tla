------------------------- MODULE QueryEngineProofs --------------------------
(***************************************************************************)
(* Proofs about QueryEngine, for every number of threads, every set of      *)
(* tables, values and statements, both lock policies and every fault: its   *)
(* locking first, then its data, the active table, its id index and the CSV *)
(* files, with any ids in the files, and last the refinement of Database.   *)
(***************************************************************************)
EXTENDS QueryEngine, SequenceTheorems, FiniteSetTheorems, TLAPS

\* The part of the type invariant that the locking depends on.
LockTypes == /\ readers \subseteq Threads
             /\ writer \in Threads \cup {NoThread}
             /\ pc \in [Threads -> PcValues]
             /\ lock_mode \in [Threads -> {"read", "write"}]
             /\ req \in [Threads -> Requests \cup {<<>>}]

\* A thread outside its locked region holds nothing.
NoStrayLock == \A t \in Threads : ~Holding(t) => t \notin readers /\ writer # t

\* Only SELECT runs under the read lock, and it stays on the SELECT path.
ReadersSelect ==
  \A t \in Threads :
    lock_mode[t] = "read" /\ pc[t] # "idle"
      => req[t].kind = "select" /\ pc[t] \notin {"insert", "store", "reload"}

\* The inductive invariant.
LockInv == /\ LockTypes /\ LockDiscipline /\ NoStrayLock /\ ReadersSelect
           /\ ReadLockSuffices

\* The steps inside the locked region.
Work(t) == \/ KeepReadLock(t) \/ Refuse(t) \/ OutOfMemory(t) \/ GetOrLoad(t)
           \/ LoadForInsert(t) \/ LoadForSelect(t) \/ LoadError(t)
           \/ AddRow(t) \/ RejectRow(t) \/ AddRowOutOfMemory(t)
           \/ IndexSplitFails(t)
           \/ StoreRow(t) \/ StoreRowUnflushed(t) \/ StoreFails(t) \/ Reload(t)
           \/ Collect(t)

Locked == PcValues \ {"idle", "lock"}

-----------------------------------------------------------------------------
\* A step inside the locked region moves its own thread and touches no lock.
LEMMA WorkFrame ==
  ASSUME NEW u \in Threads, Work(u)
  PROVE  /\ UNCHANGED <<readers, writer, lock_mode, req>>
         /\ pc[u] \in Locked
         /\ \E label \in Locked : pc' = [pc EXCEPT ![u] = label]
<1> USE DEF Locked, PcValues
<1>1. CASE KeepReadLock(u)
  BY <1>1 DEF KeepReadLock, lockVars
<1>2. CASE Refuse(u) \/ OutOfMemory(u) \/ Collect(u)
  BY <1>2 DEF Refuse, OutOfMemory, Collect, Finish, lockVars
<1>3. CASE GetOrLoad(u) \/ LoadForInsert(u) \/ LoadForSelect(u) \/ LoadError(u)
  BY <1>3 DEF GetOrLoad, LoadForInsert, LoadForSelect, LoadError, Finish, Goto, lockVars
<1>4. CASE AddRow(u) \/ RejectRow(u) \/ AddRowOutOfMemory(u) \/ IndexSplitFails(u)
  BY <1>4 DEF AddRow, RejectRow, AddRowOutOfMemory, IndexSplitFails, Finish, Goto, lockVars
<1>5. CASE StoreRow(u) \/ StoreRowUnflushed(u) \/ StoreFails(u) \/ Reload(u)
  BY <1>5 DEF StoreRow, StoreRowUnflushed, StoreFails, Reload, Finish, Goto, lockVars
<1> QED BY <1>1, <1>2, <1>3, <1>4, <1>5 DEF Work

\* Under the read lock a statement changes neither the table nor a file, and
\* it does not enter the INSERT path.
LEMMA ReadersChangeNothing ==
  ASSUME LockInv, NEW u \in Threads, Work(u), lock_mode[u] = "read"
  PROVE  /\ UNCHANGED <<table, files>>
         /\ pc'[u] \notin {"insert", "store", "reload"}
<1>0. pc \in [Threads -> PcValues]
  BY DEF LockInv, LockTypes
<1>1. req[u].kind = "select" /\ pc[u] \notin {"insert", "store", "reload"}
  BY WorkFrame DEF LockInv, ReadersSelect, Locked
<1>2. pc[u] \in {"execute", "load", "collect", "unlock"} => IsLoadedFor(req[u].table)
  BY DEF LockInv, ReadLockSuffices
<1>3. CASE KeepReadLock(u)
  BY <1>0, <1>3 DEF KeepReadLock
<1>4. CASE Refuse(u) \/ OutOfMemory(u) \/ Collect(u)
  BY <1>0, <1>4 DEF Refuse, OutOfMemory, Collect, Finish
<1>5. CASE GetOrLoad(u)
  BY <1>0, <1>2, <1>5 DEF GetOrLoad, Goto, IsLoadedFor
<1>6. CASE LoadForInsert(u)
  BY <1>1, <1>6 DEF LoadForInsert
<1>7. CASE LoadForSelect(u)
  <2>1. table.loaded
    BY <1>2, <1>7 DEF LoadForSelect, IsLoadedFor
  <2>2. table' = table
    BY <1>7, <2>1 DEF LoadForSelect, LoadSucceeds
  <2> QED BY <1>0, <1>7, <2>2 DEF LoadForSelect, Goto, Finish
<1>8. CASE LoadError(u)
  BY <1>2, <1>8 DEF LoadError, LoadFails, IsLoadedFor
<1>9. CASE AddRow(u) \/ RejectRow(u) \/ AddRowOutOfMemory(u) \/ IndexSplitFails(u)
  BY <1>1, <1>9 DEF AddRow, RejectRow, AddRowOutOfMemory, IndexSplitFails
<1>10. CASE StoreRow(u) \/ StoreRowUnflushed(u) \/ StoreFails(u) \/ Reload(u)
  BY <1>1, <1>10 DEF StoreRow, StoreRowUnflushed, StoreFails, Reload
<1> QED BY <1>3, <1>4, <1>5, <1>6, <1>7, <1>8, <1>9, <1>10 DEF Work

\* A thread in its locked region that may not be a sharing reader is alone.
LEMMA WriterIsAlone ==
  ASSUME LockInv, NEW u \in Threads, Holding(u),
         lock_mode[u] # "read" \/ Policy # "SPLIT_RWLOCK"
  PROVE  /\ readers = {} /\ writer = u
         /\ \A t \in Threads \ {u} : ~Holding(t)
<1>1. writer = u /\ writer # NoThread
  BY ThreadAssumption DEF LockInv, LockDiscipline
<1>2. readers = {}
  BY <1>1 DEF LockInv, LockDiscipline
<1> QED BY <1>1, <1>2 DEF LockInv, LockDiscipline

\* Inside the locked region the invariant is kept.
LEMMA WorkStep ==
  ASSUME LockInv, NEW u \in Threads, Work(u)
  PROVE  LockInv'
<1>0. LockTypes /\ LockDiscipline /\ NoStrayLock /\ ReadersSelect /\ ReadLockSuffices
  BY DEF LockInv
<1>1. PICK label \in Locked : pc' = [pc EXCEPT ![u] = label]
  BY WorkFrame
<1>2. UNCHANGED <<readers, writer, lock_mode, req>> /\ pc[u] \in Locked
  BY WorkFrame
<1>3. \A t \in Threads : /\ pc'[t] = (IF t = u THEN label ELSE pc[t])
                         /\ Holding(t)' <=> Holding(t)
  BY <1>0, <1>1, <1>2 DEF LockTypes, Holding, Locked
<1>4. LockTypes'
  BY <1>0, <1>1, <1>2 DEF LockTypes, Locked
<1>5. LockDiscipline' /\ NoStrayLock'
  BY <1>0, <1>2, <1>3 DEF LockDiscipline, NoStrayLock
<1>6. ReadersSelect'
  BY <1>0, <1>2, <1>3, ReadersChangeNothing DEF ReadersSelect, Locked
<1>7. ReadLockSuffices'
  <2> SUFFICES ASSUME NEW t \in Threads, lock_mode'[t] = "read",
                      pc'[t] \in {"execute", "load", "collect", "unlock"}
               PROVE  IsLoadedFor(req[t].table)'
    BY DEF ReadLockSuffices
  <2>1. lock_mode[t] = "read" /\ req'[t] = req[t]
    BY <1>2
  <2>2. CASE t = u
    <3>1. table' = table
      BY <2>1, <2>2, ReadersChangeNothing
    <3>2. CASE pc[u] \in {"execute", "load", "collect", "unlock"}
      BY <1>0, <2>1, <2>2, <3>1, <3>2 DEF ReadLockSuffices, IsLoadedFor, IsActive
    <3>3. CASE pc[u] = "check"
      <4>1. KeepReadLock(u)
        BY <3>3 DEF Work, Refuse, OutOfMemory, GetOrLoad, LoadForInsert, LoadForSelect,
                    LoadError, AddRow, RejectRow, AddRowOutOfMemory, IndexSplitFails,
                    StoreRow, StoreRowUnflushed, StoreFails, Reload, Collect
      <4> QED BY <2>1, <2>2, <3>1, <4>1 DEF KeepReadLock, IsLoadedFor, IsActive
    <3>4. pc[u] \notin {"insert", "store", "reload"}
      BY <1>0, <1>2, <2>1, <2>2 DEF ReadersSelect, Locked
    <3> QED BY <1>2, <3>2, <3>3, <3>4 DEF Locked, PcValues
  <2>3. CASE t # u
    <3>1. pc[t] = pc'[t] /\ Holding(t) /\ Holding(u)
      BY <1>2, <1>3, <2>3 DEF Holding, Locked
    <3>2. IsLoadedFor(req[t].table)
      BY <1>0, <2>1, <3>1 DEF ReadLockSuffices
    <3>3. table' = table
      BY <2>3, <3>1, WriterIsAlone, ReadersChangeNothing
    <3> QED BY <2>1, <3>2, <3>3 DEF IsLoadedFor, IsActive
  <2> QED BY <2>2, <2>3
<1> QED BY <1>4, <1>5, <1>6, <1>7 DEF LockInv

\* Taking and giving back the lock.
LEMMA LockStep ==
  ASSUME LockInv, NEW u \in Threads,
         AcquireForRead(u) \/ AcquireForWrite(u) \/ UpgradeLock(u) \/ Return(u)
  PROVE  LockInv'
<1> USE DEF LockInv
<1>1. UNCHANGED <<table, files, req>>
      /\ \A t \in Threads \ {u} : pc'[t] = pc[t] /\ lock_mode'[t] = lock_mode[t]
  BY DEF AcquireForRead, AcquireForWrite, UpgradeLock, Return, LockTypes
<1>2. LockTypes'
  BY DEF AcquireForRead, AcquireForWrite, UpgradeLock, Return, LockDb, UnlockDb,
         LockTypes, PcValues
<1>3. CASE AcquireForRead(u)
  <2>1. lock_mode' = lock_mode /\ lock_mode[u] = "read" /\ pc[u] = "lock" /\ pc'[u] = "check"
    BY <1>3 DEF AcquireForRead, LockTypes
  <2>2. LockDb(u)
    BY <1>3 DEF AcquireForRead
  <2>3. LockDiscipline' /\ NoStrayLock'
    BY <1>1, <2>1, <2>2, ThreadAssumption
       DEF LockDb, LockDiscipline, NoStrayLock, Holding, LockTypes
  <2>4. ReadersSelect' /\ ReadLockSuffices'
    BY <1>1, <2>1 DEF ReadersSelect, ReadLockSuffices, IsLoadedFor, IsActive
  <2> QED BY <1>2, <2>3, <2>4
<1>4. CASE AcquireForWrite(u)
  <2>1. lock_mode' = lock_mode /\ lock_mode[u] = "write" /\ pc[u] = "lock" /\ pc'[u] = "execute"
    BY <1>4 DEF AcquireForWrite, LockTypes
  <2>2. writer = NoThread /\ readers = {} /\ readers' = {} /\ writer' = u
    BY <1>4, <2>1 DEF AcquireForWrite, LockDb
  <2>3. LockDiscipline' /\ NoStrayLock'
    BY <1>1, <2>1, <2>2, ThreadAssumption
       DEF LockDiscipline, NoStrayLock, Holding, LockTypes
  <2>4. ReadersSelect' /\ ReadLockSuffices'
    BY <1>1, <2>1 DEF ReadersSelect, ReadLockSuffices, IsLoadedFor, IsActive
  <2> QED BY <1>2, <2>3, <2>4
<1>5. CASE UpgradeLock(u)
  <2>1. lock_mode'[u] = "write" /\ pc[u] = "check" /\ pc'[u] = "lock" /\ UnlockDb(u)
    BY <1>5 DEF UpgradeLock, LockTypes
  <2>2. LockDiscipline' /\ NoStrayLock'
    BY <1>1, <2>1, ThreadAssumption
       DEF UnlockDb, LockDiscipline, NoStrayLock, Holding, LockTypes
  <2>3. ReadersSelect' /\ ReadLockSuffices'
    BY <1>1, <2>1 DEF ReadersSelect, ReadLockSuffices, IsLoadedFor, IsActive
  <2> QED BY <1>2, <2>2, <2>3
<1>6. CASE Return(u)
  <2>1. lock_mode' = lock_mode /\ pc[u] = "unlock" /\ pc'[u] = "idle" /\ UnlockDb(u)
    BY <1>6 DEF Return, LockTypes
  <2>2. LockDiscipline' /\ NoStrayLock'
    BY <1>1, <2>1, ThreadAssumption
       DEF UnlockDb, LockDiscipline, NoStrayLock, Holding, LockTypes
  <2>3. ReadersSelect' /\ ReadLockSuffices'
    BY <1>1, <2>1 DEF ReadersSelect, ReadLockSuffices, IsLoadedFor, IsActive
  <2> QED BY <1>2, <2>2, <2>3
<1> QED BY <1>3, <1>4, <1>5, <1>6

\* A new statement, and a restart of the engine.
LEMMA CallStep ==
  ASSUME LockInv, NEW u \in Threads, NEW r \in Requests, Call(u, r)
  PROVE  LockInv'
<1> USE DEF LockInv
<1>1. /\ UNCHANGED <<table, readers, writer>>
      /\ pc[u] = "idle" /\ pc'[u] = "lock" /\ req'[u] = r
      /\ lock_mode'[u] \in {"read", "write"}
      /\ lock_mode'[u] = "read" => r.kind = "select"
      /\ \A t \in Threads \ {u} : pc'[t] = pc[t] /\ lock_mode'[t] = lock_mode[t]
                                  /\ req'[t] = req[t]
  BY DEF Call, InitialLockMode, LockTypes, lockVars
<1>2. LockTypes'
  BY DEF Call, InitialLockMode, LockTypes, PcValues, lockVars
<1>3. LockDiscipline' /\ NoStrayLock'
  BY <1>1 DEF LockDiscipline, NoStrayLock, Holding, LockTypes
<1>4. ReadersSelect' /\ ReadLockSuffices'
  BY <1>1 DEF ReadersSelect, ReadLockSuffices, IsLoadedFor, IsActive
<1> QED BY <1>2, <1>3, <1>4

\* Every step keeps the invariant.
LEMMA LockNext ==
  ASSUME LockInv, [Next]_vars
  PROVE  LockInv'
<1>1. ASSUME NEW t \in Threads, Step(t) PROVE LockInv'
  BY <1>1, WorkStep, LockStep DEF Step, Work
<1>2. ASSUME NEW t \in Threads, NEW r \in Requests, Call(t, r) PROVE LockInv'
  BY <1>2, CallStep
<1>3. CASE Reopen
  BY <1>3 DEF Reopen, lockVars, threadVars, LockInv, LockTypes, LockDiscipline,
              NoStrayLock, ReadersSelect, ReadLockSuffices, Holding
<1>4. CASE UNCHANGED vars
  BY <1>4 DEF vars, LockInv, LockTypes, LockDiscipline, NoStrayLock,
              ReadersSelect, ReadLockSuffices, Holding, IsLoadedFor, IsActive
<1> QED BY <1>1, <1>2, <1>3, <1>4 DEF Next

\* LockInv is an invariant of the engine.
THEOREM LockInvariance == Spec => []LockInv
<1>1. Init => LockInv
  BY ThreadAssumption
     DEF Init, LockInv, LockTypes, LockDiscipline, NoStrayLock, ReadersSelect,
         ReadLockSuffices, Holding, PcValues
<1> QED BY <1>1, LockNext, PTL DEF Spec

\* Both policies of the lock manager exclude what they should exclude: a writer
\* is alone and every thread in execute_query_with_lock's locked region holds
\* the lock it asked for, also across the exchange of a read for a write lock.
THEOREM LocksExclude == Spec => []LockDiscipline
  BY LockInvariance, PTL DEF LockInv

\* The check of table_runtime_is_loaded_for outlives the time of check: while a
\* SELECT holds the read lock its table stays the active, loaded one.
THEOREM ReadLockIsEnough == Spec => []ReadLockSuffices
  BY LockInvariance, PTL DEF LockInv

\* The active table and the CSV files are changed by a lone writer only.
THEOREM LoneWriter == Spec => OnlyWriterChanges
<1>1. ASSUME LockInv, [Next]_vars, table' # table \/ files' # files
      PROVE  readers = {} /\ (writer # NoThread \/ \A t \in Threads : ~Holding(t))
  <2>1. ASSUME NEW u \in Threads, Work(u)
        PROVE  readers = {} /\ writer # NoThread
    <3>1. lock_mode[u] # "read"
      BY <1>1, <2>1, ReadersChangeNothing
    <3>2. Holding(u)
      BY <2>1, WorkFrame DEF Holding, Locked
    <3> QED BY <1>1, <3>1, <3>2, WriterIsAlone, ThreadAssumption
  <2>2. ASSUME NEW u \in Threads,
               AcquireForRead(u) \/ AcquireForWrite(u) \/ UpgradeLock(u) \/ Return(u)
        PROVE  FALSE
    BY <1>1, <2>2 DEF AcquireForRead, AcquireForWrite, UpgradeLock, Return
  <2>3. ASSUME NEW u \in Threads, NEW r \in Requests, Call(u, r)
        PROVE  FALSE
    BY <1>1, <2>3 DEF Call
  <2>4. CASE Reopen
    BY <1>1, <2>4 DEF Reopen, LockInv, LockTypes, NoStrayLock, Holding
  <2>5. CASE UNCHANGED vars
    BY <1>1, <2>5 DEF vars
  <2> QED BY <1>1, <2>1, <2>2, <2>3, <2>4, <2>5 DEF Next, Step, Work
<1>2. LockInv /\ [Next]_vars =>
        [table' # table \/ files' # files =>
           /\ readers = {}
           /\ writer # NoThread \/ \A t \in Threads : ~Holding(t)]_vars
  BY <1>1
<1> QED BY <1>2, LockInvariance, PTL DEF Spec, OnlyWriterChanges

-----------------------------------------------------------------------------
(* NextId *)

IsMaximum(m, S) == m \in S /\ \A n \in S : n <= m

\* A finite set of integers has a maximum: of the nonempty subsets without one
\* take a minimal one, and remove an element.
LEMMA MaximumExists ==
  ASSUME NEW S \in SUBSET Int, IsFiniteSet(S), S # {}
  PROVE  \E m \in S : IsMaximum(m, S)
<1> DEFINE Bad == {T \in FiniteSubsetsOf(S) : T # {} /\ ~\E m \in T : IsMaximum(m, T)}
<1> SUFFICES ASSUME Bad # {} PROVE FALSE
  BY DEF FiniteSubsetsOf
<1>1. IsWellFoundedOn(StrictSubsetOrdering(S), FiniteSubsetsOf(S))
  BY FS_StrictSubsetOrderingWellFounded
<1>2. PICK T \in Bad : \A U \in Bad : ~(<<U, T>> \in StrictSubsetOrdering(S))
  <2> HIDE DEF Bad
  <2>1. Bad \subseteq FiniteSubsetsOf(S)
    BY DEF Bad
  <2> QED BY <1>1, <2>1, WFMin
<1>3. PICK x \in T : TRUE
  OBVIOUS
<1> DEFINE U == T \ {x}
<1>4. T \in SUBSET S /\ IsFiniteSet(T) /\ x \in Int
  BY DEF FiniteSubsetsOf
<1>5. U \in SUBSET S /\ IsFiniteSet(U)
  BY <1>4, FS_RemoveElement
<1>6. CASE U = {}
  BY <1>4, <1>6 DEF IsMaximum
<1>7. CASE U # {}
  <2>1. <<U, T>> \in StrictSubsetOrdering(S)
    BY <1>3, <1>4, <1>5 DEF StrictSubsetOrdering
  <2>2. U \notin Bad
    BY <1>2, <2>1
  <2>3. U \in FiniteSubsetsOf(S)
    BY <1>5 DEF FiniteSubsetsOf
  <2>4. PICK m \in U : IsMaximum(m, U)
    BY <1>7, <2>2, <2>3
  <2>5. IF m <= x THEN IsMaximum(x, T) ELSE IsMaximum(m, T)
    BY <1>3, <1>4, <2>4 DEF IsMaximum
  <2> QED BY <2>4, <2>5
<1> QED BY <1>6, <1>7

\* The ids of a file are finitely many integers.
LEMMA IdsType ==
  ASSUME NEW rows \in Seq(Rows)
  PROVE  Ids(rows) \in SUBSET Int /\ IsFiniteSet(Ids(rows)) /\ 0 \in Ids(rows)
<1> DEFINE n == Len(rows)
           T == {rows[k].id : k \in 1 .. n}
           f == [k \in 1 .. n |-> rows[k].id]
<1>1. n \in Nat /\ \A k \in 1 .. n : rows[k].id \in Int
  <2>1. n \in Nat
    BY LenProperties
  <2>2. \A k \in 1 .. n : rows[k] \in Rows
    BY ElementOfSeq
  <2> QED BY <2>1, <2>2 DEF Rows
<1>2. IsFiniteSet(1 .. n)
  <2> HIDE DEF n
  <2>1. 1 \in Int /\ n \in Int
    BY <1>1
  <2> QED BY <2>1, FS_Interval
<1>3. f \in Surjection(1 .. n, T)
  BY DEF Surjection
<1>4. IsFiniteSet(T)
  BY <1>2, <1>3, FS_Surjection
<1>5. Ids(rows) = T \cup {0}
  BY DEF Ids
<1>6. T \cup {0} \subseteq Int
  BY <1>1
<1>7. IsFiniteSet(T \cup {0})
  BY <1>4, FS_AddElement
<1> QED BY <1>5, <1>6, <1>7

\* NextId is one above every id and above 0, and no smaller than it must be.
LEMMA NextIdIsAbove ==
  ASSUME NEW rows \in Seq(Rows)
  PROVE  /\ NextId(rows) \in Nat \ {0}
         /\ \A k \in 1 .. Len(rows) : rows[k].id < NextId(rows)
         /\ NextId(rows) = 1 \/ \E k \in 1 .. Len(rows) : NextId(rows) = 1 + rows[k].id
<1>1. \E m \in Ids(rows) : IsMaximum(m, Ids(rows))
  BY IdsType, MaximumExists
<1> DEFINE top == CHOOSE m \in Ids(rows) : \A n \in Ids(rows) : n <= m
<1>2. top \in Ids(rows) /\ \A n \in Ids(rows) : n <= top
  BY <1>1 DEF IsMaximum
<1>3. NextId(rows) = 1 + top
  BY DEF NextId
<1>4. top \in Int /\ 0 <= top
  BY <1>2, IdsType
<1>5. \A k \in 1 .. Len(rows) : rows[k].id \in Ids(rows) /\ rows[k].id \in Int
  BY IdsType DEF Ids
<1> HIDE DEF top
<1>6. top = 0 \/ \E k \in 1 .. Len(rows) : top = rows[k].id
  BY <1>2 DEF Ids
<1>7. ASSUME NEW k \in 1 .. Len(rows) PROVE rows[k].id < 1 + top
  BY <1>2, <1>4, <1>5
<1>8. 1 + top \in Nat \ {0}
  BY <1>4
<1> QED BY <1>3, <1>6, <1>7, <1>8

\* ... and it is determined by that.
LEMMA NextIdIsUnique ==
  ASSUME NEW rows \in Seq(Rows), NEW i \in Nat \ {0},
         \A k \in 1 .. Len(rows) : rows[k].id < i,
         i = 1 \/ \E k \in 1 .. Len(rows) : i = 1 + rows[k].id
  PROVE  NextId(rows) = i
<1>1. \A k \in 1 .. Len(rows) : rows[k].id \in Int
  BY IdsType DEF Ids
<1> QED BY <1>1, NextIdIsAbove

\* A row with the next id moves the next id up by one.
LEMMA NextIdAfterAppend ==
  ASSUME NEW rows \in Seq(Rows), NEW val \in Values
  PROVE  LET row == [id |-> NextId(rows), val |-> val]
         IN  /\ Append(rows, row) \in Seq(Rows)
             /\ NextId(Append(rows, row)) = NextId(rows) + 1
<1> DEFINE row == [id |-> NextId(rows), val |-> val]
           more == Append(rows, row)
<1>1. NextId(rows) \in Nat \ {0} /\ \A k \in 1 .. Len(rows) : rows[k].id < NextId(rows)
  BY NextIdIsAbove
<1>2. row \in Rows /\ row.id = NextId(rows)
  BY <1>1 DEF Rows
<1> HIDE DEF row
<1>3. /\ more \in Seq(Rows) /\ Len(more) = Len(rows) + 1
      /\ \A k \in 1 .. Len(rows) : more[k] = rows[k]
      /\ more[Len(rows) + 1] = row
  BY <1>2, AppendProperties
<1>4. Len(rows) \in Nat /\ \A k \in 1 .. Len(rows) : rows[k].id \in Int
  BY IdsType, LenProperties DEF Ids
<1>5. \A k \in 1 .. Len(more) : more[k].id < NextId(rows) + 1
  BY <1>1, <1>2, <1>3, <1>4
<1>6. \E k \in 1 .. Len(more) : NextId(rows) + 1 = 1 + more[k].id
  BY <1>1, <1>2, <1>3, <1>4
<1>7. NextId(more) = NextId(rows) + 1
  <2> DEFINE i == NextId(rows) + 1
  <2>1. i \in Nat \ {0}
    BY <1>1
  <2> HIDE DEF more, i
  <2> SUFFICES NextId(more) = i
    BY DEF i
  <2>2. \A k \in 1 .. Len(more) : more[k].id < i
    BY <1>5 DEF i
  <2>3. \E k \in 1 .. Len(more) : i = 1 + more[k].id
    BY <1>6 DEF i
  <2> QED BY <1>3, <2>1, <2>2, <2>3, NextIdIsUnique
<1> QED BY <1>3, <1>7 DEF row

LEMMA NextIdOfNone == NextId(<<>>) = 1
<1> DEFINE none == <<>>
<1>1. none \in Seq(Rows) /\ Len(none) = 0
  BY EmptySeq
<1> HIDE DEF none
<1>2. \A k \in 1 .. Len(none) : FALSE
  BY <1>1
<1>3. NextId(none) = 1
  BY <1>1, <1>2, NextIdIsAbove
<1> QED BY <1>3 DEF none

-----------------------------------------------------------------------------
(* Matching *)

\* Among finitely many slots there is an n-th one: counting the slots up to a
\* slot is an injection into as many numbers, hence a surjection.
LEMMA NthSlot ==
  ASSUME NEW m \in Nat, NEW slots \in SUBSET (1 .. m)
  PROVE  /\ IsFiniteSet(slots) /\ Cardinality(slots) \in Nat
         /\ \A n \in 1 .. Cardinality(slots) :
              \E k \in slots : Cardinality({l \in slots : l <= k}) = n
<1> DEFINE UpTo(k) == {l \in slots : l <= k}
           size == Cardinality(slots)
           rank == [k \in slots |-> Cardinality(UpTo(k))]
<1>1. IsFiniteSet(slots) /\ size \in Nat
  <2>1. IsFiniteSet(1 .. m)
    BY FS_Interval
  <2>2. IsFiniteSet(slots)
    BY <2>1, FS_Subset
  <2> QED BY <2>2, FS_CardinalityType
<1>2. ASSUME NEW k \in slots
      PROVE  IsFiniteSet(UpTo(k)) /\ Cardinality(UpTo(k)) \in 1 .. size
  <2>1. UpTo(k) \in SUBSET slots /\ k \in UpTo(k)
    OBVIOUS
  <2> HIDE DEF UpTo
  <2>2. IsFiniteSet(UpTo(k)) /\ Cardinality(UpTo(k)) <= size
    BY <1>1, <2>1, FS_Subset
  <2>3. Cardinality(UpTo(k)) \in Nat /\ Cardinality(UpTo(k)) # 0
    BY <2>1, <2>2, FS_CardinalityType, FS_EmptySet
  <2> QED BY <1>1, <2>2, <2>3
<1>3. ASSUME NEW k \in slots, NEW j \in slots, k < j,
             Cardinality(UpTo(k)) = Cardinality(UpTo(j))
      PROVE  FALSE
  <2>1. UpTo(k) \in SUBSET UpTo(j) /\ j \in UpTo(j) /\ j \notin UpTo(k)
    <3>1. k \in Int /\ j \in Int /\ \A l \in slots : l \in Int
      OBVIOUS
    <3>2. \A l \in slots : l <= k => l <= j
      BY <1>3, <3>1
    <3>3. j <= j /\ ~(j <= k)
      BY <1>3, <3>1
    <3> QED BY <3>2, <3>3, Zenon
  <2> HIDE DEF UpTo
  <2> QED BY <1>2, <1>3, <2>1, FS_Subset
<1>4. rank \in Injection(slots, 1 .. size)
  <2>1. rank \in [slots -> 1 .. size]
    BY <1>2
  <2>2. ASSUME NEW k \in slots, NEW j \in slots, rank[k] = rank[j] PROVE k = j
    <3>1. Cardinality(UpTo(k)) = Cardinality(UpTo(j))
      BY <2>2
    <3>2. k \in Int /\ j \in Int
      OBVIOUS
    <3> HIDE DEF UpTo
    <3>3. ~(k < j) /\ ~(j < k)
      BY <1>3, <3>1, Zenon
    <3> QED BY <3>2, <3>3
  <2> HIDE DEF rank
  <2> QED BY <2>1, <2>2 DEF Injection, IsInjective
<1>5. IsFiniteSet(1 .. size) /\ Cardinality(1 .. size) = size
  BY <1>1, FS_Interval
<1>6. rank \in Surjection(slots, 1 .. size)
  <2> HIDE DEF rank
  <2> QED BY <1>4, <1>5, FS_Injection
<1>7. \A n \in 1 .. size : \E k \in slots : Cardinality(UpTo(k)) = n
  <2> HIDE DEF UpTo
  <2> QED BY <1>6 DEF Surjection
<1> QED BY <1>1, <1>7

\* The slots of the rows that satisfy a condition.
MatchingSlots(rows, where) == {k \in 1 .. Len(rows) : Holds(rows[k], where)}

\* The result of a scan is a sequence of rows, one for each matching slot.
LEMMA MatchingType ==
  ASSUME NEW rows \in Seq(Rows), NEW where
  PROVE  /\ Matching(rows, where) \in Seq(Rows)
         /\ Len(Matching(rows, where)) = Cardinality(MatchingSlots(rows, where))
         /\ \A n \in 1 .. Len(Matching(rows, where)) :
              \E k \in MatchingSlots(rows, where) : Matching(rows, where)[n] = rows[k]
<1> DEFINE slots == MatchingSlots(rows, where)
           size == Cardinality(slots)
           Slot(n) == CHOOSE k \in slots : Cardinality({l \in slots : l <= k}) = n
           result == [n \in 1 .. size |-> rows[Slot(n)]]
<1>1. Matching(rows, where) = result
  BY DEF Matching, MatchingSlots
<1>2. Len(rows) \in Nat /\ slots \in SUBSET (1 .. Len(rows))
  BY LenProperties DEF MatchingSlots
<1> HIDE DEF slots
<1>3. size \in Nat /\ \A n \in 1 .. size : Slot(n) \in slots
  BY <1>2, NthSlot
<1> HIDE DEF Slot
<1>4. \A n \in 1 .. size : rows[Slot(n)] \in Rows
  BY <1>2, <1>3, ElementOfSeq
<1> HIDE DEF size
<1>5. result \in [1 .. size -> Rows]
  BY <1>4
<1>6. result \in Seq(Rows)
  BY <1>3, <1>5, SeqDef
<1>7. Len(result) = size
  BY <1>3, <1>5, <1>6, LenProperties
<1> QED BY <1>1, <1>3, <1>6, <1>7 DEF slots, size

\* If the ids are unique, the condition id = key holds for one row or none.
LEMMA MatchingById ==
  ASSUME NEW rows \in Seq(Rows), NEW where, where[1] = "id",
         \A k, l \in 1 .. Len(rows) : rows[k].id = rows[l].id => k = l
  PROVE  /\ (\A k \in 1 .. Len(rows) : rows[k].id # where[2]) => Matching(rows, where) = <<>>
         /\ \A k \in 1 .. Len(rows) :
              rows[k].id = where[2] => Matching(rows, where) = <<rows[k]>>
<1> DEFINE slots == MatchingSlots(rows, where)
           found == Matching(rows, where)
<1>1. \A k \in 1 .. Len(rows) : k \in slots <=> rows[k].id = where[2]
  BY DEF MatchingSlots, Holds
<1>2. slots \subseteq 1 .. Len(rows)
  BY DEF MatchingSlots
<1>3. /\ found \in Seq(Rows) /\ Len(found) = Cardinality(slots)
      /\ \A n \in 1 .. Len(found) : \E k \in slots : found[n] = rows[k]
  BY MatchingType
<1> HIDE DEF slots, found
<1>4. ASSUME \A k \in 1 .. Len(rows) : rows[k].id # where[2] PROVE found = <<>>
  <2>1. slots = {}
    BY <1>1, <1>2, <1>4
  <2>2. Len(found) = 0
    BY <1>3, <2>1, FS_EmptySet
  <2> QED BY <1>3, <2>2, EmptySeq
<1>5. ASSUME NEW k \in 1 .. Len(rows), rows[k].id = where[2] PROVE found = <<rows[k]>>
  <2>1. slots = {k}
    <3>1. k \in slots
      BY <1>1, <1>5
    <3>2. \A j \in slots : j = k
      BY <1>1, <1>2, <1>5
    <3> QED BY <3>1, <3>2
  <2>2. Len(found) = 1
    BY <1>3, <2>1, FS_Singleton
  <2>3. 1 \in 1 .. Len(found)
    BY <2>2
  <2>4. PICK j \in slots : found[1] = rows[j]
    BY <1>3, <2>3
  <2>5. found[1] = rows[k]
    BY <2>1, <2>4
  <2> QED BY <1>3, <2>2, <2>5
<1> QED BY <1>4, <1>5 DEF found

-----------------------------------------------------------------------------
(* The invariant that holds under every fault *)

TableType == [table_name : Names \cup {NoName}, loaded : BOOLEAN,
              cols : Schemas \cup {Absent}, rows : Seq(Rows),
              index : SUBSET (Nat \X Nat), next_id : 1 .. MaxId + 1]

DataTypes == table \in TableType /\ files \in [Names -> Files]

\* A table that is not loaded has nothing in it, a loaded one has a schema.
TableState ==
  IF table.loaded
    THEN table.table_name \in Names /\ table.cols \in Schemas
    ELSE table.rows = <<>> /\ table.index = {} /\ table.next_id = 1

\* An index entry names the slot of a row with that id, also after
\* IndexSplitFails.
IndexSound ==
  \A e \in table.index : e[2] \in 1 .. Len(table.rows) /\ e[1] = table.rows[e[2]].id

\* What a statement has established when it arrives at a step: the kind of
\* statement, that the active table is its table, and for an INSERT about to
\* be stored that memory has the columns of the statement.
Stage(t) ==
  /\ pc[t] # "idle" => req[t] \in Requests
  /\ pc[t] = "load" => req[t] \in InsertRequests \cup SelectRequests
  /\ pc[t] \in {"insert", "store", "reload"} => req[t] \in InsertRequests
  /\ pc[t] = "collect" => req[t] \in SelectRequests /\ table.loaded
  /\ pc[t] \in {"load", "insert", "store", "reload", "collect"} => IsActive(req[t].table)
  /\ pc[t] = "store" => table.loaded /\ req[t].cols = table.cols

Stages == \A t \in Threads : Stage(t)

DataInv == LockInv /\ DataTypes /\ TableState /\ IndexSound /\ Stages

-----------------------------------------------------------------------------
(* What a step does to the table *)

Evicts(u) == table' = Unloaded(req[u].table)

Loads(u) == /\ ~table.loaded /\ Loadable(files[req[u].table])
            /\ table' = LoadedFrom(req[u].table)

\* Except in the steps of an INSERT the table is kept, emptied or loaded.
LEMMA TableOutcome ==
  ASSUME NEW u \in Threads, Work(u)
  PROVE  \/ files' = files /\ pc[u] # "store" /\ table' = table
         \/ files' = files /\ pc[u] # "store" /\ (Evicts(u) \/ Loads(u))
         \/ AddRow(u) \/ AddRowOutOfMemory(u) \/ IndexSplitFails(u)
         \/ StoreRow(u) \/ StoreRowUnflushed(u) \/ StoreFails(u)
<1> USE DEF Evicts, Loads
<1>1. CASE KeepReadLock(u) \/ Refuse(u) \/ OutOfMemory(u) \/ Collect(u) \/ RejectRow(u)
  BY <1>1 DEF KeepReadLock, Refuse, OutOfMemory, Collect, RejectRow
<1>2. CASE GetOrLoad(u)
  BY <1>2 DEF GetOrLoad
<1>3. CASE LoadForInsert(u) \/ LoadForSelect(u) \/ LoadError(u) \/ Reload(u)
  BY <1>3 DEF LoadForInsert, LoadForSelect, LoadError, Reload, LoadSucceeds, LoadFails
<1> QED BY <1>1, <1>2, <1>3 DEF Work

\* A thread that changes the table or a file finds all others outside.
LEMMA OthersWait ==
  ASSUME LockInv, NEW u \in Threads, Work(u)
  PROVE  UNCHANGED <<table, files>> \/ \A t \in Threads \ {u} : pc[t] \in {"idle", "lock"}
<1>1. Holding(u)
  BY WorkFrame DEF Holding, Locked
<1> QED BY <1>1, ReadersChangeNothing, WriterIsAlone DEF Holding

\* The table with the schema of an INSERT.
LEMMA WithSchemaFields ==
  ASSUME table \in TableType, NEW r, r.cols \in Schemas
  PROVE  LET new == WithSchema(r) IN
         /\ new \in TableType /\ new.loaded /\ new.cols = r.cols
         /\ new.table_name = table.table_name /\ new.rows = table.rows
         /\ new.index = table.index /\ new.next_id = table.next_id
  BY DEF WithSchema, TableType

\* A row that is built is a row, and is appended behind the others.
LEMMA BuiltRowIsRow ==
  ASSUME table \in TableType, NEW r \in InsertRequests
  PROVE  LET more == Append(table.rows, BuiltRow(r)) IN
         /\ BuiltRow(r) \in Rows /\ BuiltRow(r).id = table.next_id
         /\ more \in Seq(Rows) /\ Len(more) = Len(table.rows) + 1
         /\ Len(table.rows) \in Nat
         /\ \A k \in 1 .. Len(table.rows) : more[k] = table.rows[k]
         /\ more[Len(table.rows) + 1] = BuiltRow(r)
<1>1. table.rows \in Seq(Rows) /\ table.next_id \in Int
  BY MaxIdAssumption DEF TableType
<1>2. BuiltRow(r) \in Rows /\ BuiltRow(r).id = table.next_id
  BY <1>1 DEF BuiltRow, InsertRequests, Rows
<1> QED BY <1>1, <1>2, AppendProperties, LenProperties

\* The table with the row of an INSERT.
LEMMA AddedRow ==
  ASSUME table \in TableType, NEW u \in Threads, AddRow(u),
         req[u] \in InsertRequests, req[u].cols \in Schemas
  PROVE  /\ table' \in TableType /\ table'.loaded /\ table'.cols = req[u].cols
         /\ table'.table_name = table.table_name
         /\ table'.rows = Append(table.rows, BuiltRow(req[u]))
         /\ table'.index = table.index \cup {<<table.next_id, Len(table.rows) + 1>>}
         /\ table'.next_id = table.next_id + 1
<1> DEFINE old == WithSchema(req[u])
           rows == Append(old.rows, BuiltRow(req[u]))
           index == old.index \cup {<<table.next_id, Len(table.rows) + 1>>}
           next == old.next_id + 1
<1>1. table' = [old EXCEPT !.rows = rows, !.index = index, !.next_id = next]
  BY DEF AddRow
<1>2. /\ old \in TableType /\ old.loaded /\ old.cols = req[u].cols
      /\ old.table_name = table.table_name /\ old.rows = table.rows
      /\ old.index = table.index /\ old.next_id = table.next_id
  BY WithSchemaFields
<1>3. rows \in Seq(Rows) /\ Len(table.rows) + 1 \in Nat
  BY <1>2, BuiltRowIsRow
<1>4. table.next_id \in Nat /\ next \in 1 .. MaxId + 1
  BY <1>2, MaxIdAssumption DEF AddRow, RowFits, TableType
<1>5. index \in SUBSET (Nat \X Nat)
  BY <1>2, <1>3, <1>4 DEF TableType
<1> HIDE DEF old, rows, index, next
<1>6. table' \in TableType
  BY <1>1, <1>2, <1>3, <1>4, <1>5 DEF TableType
<1>7. /\ table'.rows = rows /\ table'.index = index /\ table'.next_id = next
      /\ table'.table_name = old.table_name /\ table'.cols = old.cols
      /\ table'.loaded = old.loaded
  BY <1>1, <1>2 DEF TableType
<1> QED BY <1>2, <1>6, <1>7 DEF rows, index, next

\* A row can be added: the table has the columns of the INSERT, and they are a
\* schema.
LEMMA AcceptedSchema ==
  ASSUME TableState, NEW r \in InsertRequests, SchemaAccepts(r)
  PROVE  r.cols \in Schemas
  BY DEF TableState, SchemaAccepts, InsertRequests

\* A loaded table is a table, and its index is exact.
LEMMA LoadedTable ==
  ASSUME files \in [Names -> Files], NEW name \in Names, Loadable(files[name])
  PROVE  LET new == LoadedFrom(name) IN
         /\ new \in TableType /\ new.loaded /\ new.table_name = name
         /\ new.cols \in Schemas /\ new.cols = files[name].cols
         /\ new.rows = files[name].rows /\ new.next_id = NextId(new.rows)
         /\ new.index = {<<new.rows[k].id, k>> : k \in 1 .. Len(new.rows)}
<1> DEFINE rows == files[name].rows
           new == LoadedFrom(name)
<1>1. rows \in Seq(Rows) /\ files[name].cols \in Schemas
  BY DEF Files, Loadable
<1>2. Len(rows) \in Nat /\ \A k \in 1 .. Len(rows) : rows[k].id \in 0 .. MaxId
  BY <1>1, LenProperties DEF Loadable, IndexableRows
<1>3. NextId(rows) \in 1 .. MaxId + 1
  BY <1>1, <1>2, NextIdIsAbove, MaxIdAssumption
<1>4. {<<rows[k].id, k>> : k \in 1 .. Len(rows)} \in SUBSET (Nat \X Nat)
  BY <1>2, MaxIdAssumption
<1>5. new = [table_name |-> name, loaded |-> TRUE, cols |-> files[name].cols,
             rows |-> rows, index |-> {<<rows[k].id, k>> : k \in 1 .. Len(rows)},
             next_id |-> NextId(rows)]
  BY DEF LoadedFrom
<1> HIDE DEF rows, new
<1>6. new \in TableType
  BY <1>1, <1>3, <1>4, <1>5 DEF TableType
<1>7. /\ new.loaded /\ new.table_name = name /\ new.cols = files[name].cols
      /\ new.rows = rows /\ new.next_id = NextId(rows)
      /\ new.index = {<<rows[k].id, k>> : k \in 1 .. Len(rows)}
  BY <1>5
<1> QED BY <1>1, <1>6, <1>7 DEF rows, new

\* The same for a table that was emptied.
LEMMA UnloadedTable ==
  ASSUME NEW name \in Names \cup {NoName}
  PROVE  LET new == Unloaded(name) IN
         /\ new \in TableType /\ ~new.loaded /\ new.table_name = name
         /\ new.rows = <<>> /\ new.index = {} /\ new.next_id = 1
  BY MaxIdAssumption DEF Unloaded, TableType

\* storage_insert leaves a file behind.
LEMMA StoredFile ==
  ASSUME files \in [Names -> Files], NEW name \in Names, NEW r \in InsertRequests
  PROVE  /\ Created(files[name]) \in Files /\ Created(files[name]) # NoFile
         /\ r.cols \in Schemas => /\ StoredRow(files[name], r) \in Files
                                  /\ StoredRow(files[name], r) # NoFile
<1> DEFINE rows == files[name].rows
<1>1. files[name] \in Files /\ rows \in Seq(Rows) /\ r.val \in Values
  BY DEF Files, InsertRequests
<1>2. Append(rows, [id |-> NextId(rows), val |-> r.val]) \in Seq(Rows)
  BY <1>1, NextIdAfterAppend
<1>3. ZeroFile \in Files /\ ZeroFile # NoFile
  BY DEF ZeroFile, NoFile, Files, Empty, Absent
<1> QED BY <1>1, <1>2, <1>3, SchemasAssumption
         DEF Created, StoredRow, NoFile, Files

-----------------------------------------------------------------------------
(* The invariant is kept *)

\* A statement that works on a table names one, and its table is the active one.
LEMMA StatementNamesTable ==
  ASSUME DataInv, NEW u \in Threads,
         \/ pc[u] \in {"load", "insert", "store", "reload", "collect"}
         \/ pc[u] = "execute" /\ req[u].kind \in {"insert", "select"}
  PROVE  /\ req[u].table \in Names
         /\ pc[u] # "execute" => table.table_name \in Names
<1>1. Stage(u) /\ table.table_name \in Names \cup {NoName}
  BY DEF DataInv, Stages, DataTypes, TableType
<1>2. req[u] \in InsertRequests \cup SelectRequests
  BY <1>1 DEF Stage, Requests, InsertRequests, SelectRequests, OtherRequests
<1> QED BY <1>1, <1>2 DEF Stage, IsActive, InsertRequests, SelectRequests

LEMMA StatementOfOutcome ==
  ASSUME DataInv, NEW u \in Threads, Work(u), Evicts(u) \/ Loads(u) \/ StoreFails(u),
         table' # table
  PROVE  req[u].table \in Names
<1>1. \/ pc[u] \in {"load", "insert", "store", "reload", "collect"}
      \/ pc[u] = "execute" /\ req[u].kind \in {"insert", "select"}
  <2>1. CASE KeepReadLock(u) \/ Refuse(u) \/ OutOfMemory(u) \/ Collect(u) \/ RejectRow(u)
    BY <2>1 DEF KeepReadLock, Refuse, OutOfMemory, Collect, RejectRow
  <2>2. CASE GetOrLoad(u) \/ LoadForInsert(u) \/ LoadForSelect(u) \/ LoadError(u) \/ Reload(u)
    BY <2>2 DEF GetOrLoad, LoadForInsert, LoadForSelect, LoadError, Reload
  <2>3. CASE AddRow(u) \/ AddRowOutOfMemory(u) \/ IndexSplitFails(u)
    BY <2>3 DEF AddRow, AddRowOutOfMemory, IndexSplitFails
  <2>4. CASE StoreRow(u) \/ StoreRowUnflushed(u) \/ StoreFails(u)
    BY <2>4 DEF StoreRow, StoreRowUnflushed, StoreFails
  <2> QED BY <2>1, <2>2, <2>3, <2>4 DEF Work
<1> QED BY <1>1, StatementNamesTable

LEMMA IndexSoundAfterLoad ==
  ASSUME NEW rows, NEW index, index = {<<rows[k].id, k>> : k \in 1 .. Len(rows)}
  PROVE  \A e \in index : e[2] \in 1 .. Len(rows) /\ e[1] = rows[e[2]].id
  OBVIOUS

\* ... by every step inside the locked region, as far as table and files go.
LEMMA DataStep ==
  ASSUME DataInv, NEW u \in Threads, Work(u)
  PROVE  DataTypes' /\ TableState' /\ IndexSound'
<1>0. /\ DataTypes /\ TableState /\ IndexSound /\ Stage(u)
      /\ table \in TableType /\ files \in [Names -> Files]
  BY DEF DataInv, Stages, DataTypes
<1>1. CASE UNCHANGED <<table, files>>
  BY <1>0, <1>1 DEF DataTypes, TableState, IndexSound
<1>2. CASE files' = files /\ Evicts(u) /\ table' # table
  <2>1. req[u].table \in Names
    BY <1>2, StatementOfOutcome
  <2> QED BY <1>0, <1>2, <2>1, UnloadedTable DEF Evicts, DataTypes, TableState, IndexSound
<1>3. CASE files' = files /\ Loads(u) /\ table' # table
  <2>1. req[u].table \in Names
    BY <1>3, StatementOfOutcome
  <2>2. /\ table' \in TableType /\ table'.loaded /\ table'.table_name \in Names
        /\ table'.cols \in Schemas
        /\ table'.index = {<<table'.rows[k].id, k>> : k \in 1 .. Len(table'.rows)}
    BY <1>0, <1>3, <2>1, LoadedTable DEF Loads
  <2>3. IndexSound'
    BY <2>2, IndexSoundAfterLoad DEF IndexSound
  <2> QED BY <1>0, <1>3, <2>2, <2>3 DEF DataTypes, TableState
<1>4. CASE AddRow(u) \/ AddRowOutOfMemory(u)
  <2>1. /\ req[u] \in InsertRequests /\ table.table_name \in Names
        /\ SchemaAccepts(req[u]) /\ files' = files
    <3>1. pc[u] = "insert" /\ SchemaAccepts(req[u]) /\ files' = files
      BY <1>4 DEF AddRow, AddRowOutOfMemory
    <3> QED BY <1>0, <3>1, StatementNamesTable DEF Stage
  <2>2. req[u].cols \in Schemas
    BY <1>0, <2>1, AcceptedSchema
  <2>3. CASE AddRowOutOfMemory(u)
    <3>1. table' = WithSchema(req[u])
      BY <2>3 DEF AddRowOutOfMemory
    <3> QED BY <1>0, <2>1, <2>2, <3>1, WithSchemaFields DEF DataTypes, TableState, IndexSound
  <2>4. CASE AddRow(u)
    <3>1. /\ table' \in TableType /\ table'.loaded /\ table'.cols = req[u].cols
          /\ table'.table_name = table.table_name
          /\ table'.rows = Append(table.rows, BuiltRow(req[u]))
          /\ table'.index = table.index \cup {<<table.next_id, Len(table.rows) + 1>>}
      BY <1>0, <2>1, <2>2, <2>4, AddedRow
    <3>2. /\ BuiltRow(req[u]).id = table.next_id
          /\ Len(table'.rows) = Len(table.rows) + 1 /\ Len(table.rows) \in Nat
          /\ \A k \in 1 .. Len(table.rows) : table'.rows[k] = table.rows[k]
          /\ table'.rows[Len(table.rows) + 1] = BuiltRow(req[u])
      BY <1>0, <2>1, <3>1, BuiltRowIsRow
    <3>3. IndexSound'
      BY <1>0, <3>1, <3>2 DEF IndexSound
    <3> QED BY <1>0, <2>1, <2>2, <3>1, <3>3 DEF DataTypes, TableState
  <2> QED BY <1>4, <2>3, <2>4
<1>5. CASE IndexSplitFails(u)
  <2>1. PICK last \in table.index :
          table' = [table EXCEPT !.index = {e \in table.index : e[1] <= last[1]}]
    BY <1>5 DEF IndexSplitFails
  <2> DEFINE index == {e \in table.index : e[1] <= last[1]}
  <2>2. index \subseteq table.index
    OBVIOUS
  <2> HIDE DEF index
  <2>3. table' = [table EXCEPT !.index = index]
    BY <2>1 DEF index
  <2>4. /\ table' \in TableType
        /\ table'.index = index /\ table'.rows = table.rows /\ table'.loaded = table.loaded
        /\ table'.cols = table.cols /\ table'.table_name = table.table_name
        /\ table'.next_id = table.next_id
    BY <1>0, <2>2, <2>3 DEF TableType
  <2>5. files' = files /\ (~table.loaded => table'.index = {})
    BY <1>0, <1>5, <2>2, <2>4 DEF IndexSplitFails, TableState
  <2> QED BY <1>0, <2>2, <2>4, <2>5 DEF DataTypes, TableState, IndexSound
<1>6. CASE StoreRow(u) \/ StoreRowUnflushed(u) \/ StoreFails(u)
  <2>1. /\ req[u] \in InsertRequests /\ req[u].table \in Names
        /\ table.table_name \in Names /\ req[u].cols \in Schemas
    <3>1. pc[u] = "store"
      BY <1>6 DEF StoreRow, StoreRowUnflushed, StoreFails
    <3> QED BY <1>0, <3>1, StatementNamesTable DEF Stage, TableState
  <2>2. files' \in [Names -> Files]
    <3> DEFINE name == table.table_name
    <3>1. Created(files[name]) \in Files /\ StoredRow(files[name], req[u]) \in Files
      BY <1>0, <2>1, StoredFile
    <3>2. \/ files' = files
          \/ files' = [files EXCEPT ![name] = Created(files[name])]
          \/ files' = [files EXCEPT ![name] = StoredRow(files[name], req[u])]
      BY <1>6 DEF StoreRow, StoreRowUnflushed, StoreFails
    <3> HIDE DEF name
    <3> QED BY <1>0, <3>1, <3>2
  <2>3. table' = table \/ table' = Unloaded(req[u].table)
    BY <1>6 DEF StoreRow, StoreRowUnflushed, StoreFails
  <2> QED BY <1>0, <2>1, <2>2, <2>3, UnloadedTable DEF DataTypes, TableState, IndexSound
<1> QED BY <1>1, <1>2, <1>3, <1>4, <1>5, <1>6, TableOutcome

\* The table that a statement empties or loads is its own.
LEMMA NamedTableIsActive ==
  ASSUME NEW name \in Names, table'.table_name = name
  PROVE  IsActive(name)'
  BY NoNameAssumption DEF IsActive

\* The thread that takes the step arrives where it may be.
LEMMA OwnStage ==
  ASSUME DataInv, NEW u \in Threads, Work(u)
  PROVE  Stage(u)'
<1>0. /\ Stage(u) /\ TableState /\ table \in TableType /\ files \in [Names -> Files]
      /\ pc \in [Threads -> PcValues]
  BY DEF DataInv, Stages, DataTypes, LockInv, LockTypes
<1>1. req' = req /\ req[u] \in Requests
  BY <1>0, WorkFrame DEF Stage, Locked
<1>2. ASSUME pc'[u] \in {"execute", "unlock"} PROVE Stage(u)'
  BY <1>1, <1>2 DEF Stage
<1>3. CASE KeepReadLock(u) \/ Refuse(u) \/ OutOfMemory(u) \/ Collect(u) \/ RejectRow(u)
  BY <1>0, <1>2, <1>3 DEF KeepReadLock, Refuse, OutOfMemory, Collect, RejectRow, Finish
<1>4. CASE LoadError(u) \/ AddRowOutOfMemory(u) \/ IndexSplitFails(u)
  BY <1>0, <1>2, <1>4 DEF LoadError, AddRowOutOfMemory, IndexSplitFails, Finish
<1>5. CASE StoreRow(u) \/ StoreRowUnflushed(u) \/ Reload(u)
  BY <1>0, <1>2, <1>5 DEF StoreRow, StoreRowUnflushed, Reload, Finish
<1>6. CASE GetOrLoad(u)
  <2>1. pc[u] = "execute" /\ req[u].kind \in {"insert", "select"} /\ pc'[u] = "load"
    BY <1>0, <1>6 DEF GetOrLoad, Goto
  <2>2. req[u] \in InsertRequests \cup SelectRequests
    BY <1>1, <2>1 DEF Requests, InsertRequests, SelectRequests, OtherRequests
  <2>3. IsActive(req[u].table)'
    <3>1. CASE IsActive(req[u].table)
      BY <1>1, <1>6, <3>1 DEF GetOrLoad, IsActive
    <3>2. CASE ~IsActive(req[u].table)
      <4>1. req[u].table \in Names /\ table'.table_name = req[u].table
        BY <1>6, <2>1, <3>2, StatementNamesTable DEF GetOrLoad, Unloaded
      <4> QED BY <1>1, <4>1, NamedTableIsActive
    <3> QED BY <3>1, <3>2
  <2> QED BY <1>1, <2>1, <2>2, <2>3 DEF Stage
<1>7. CASE LoadForInsert(u) \/ LoadForSelect(u)
  <2>1. /\ pc[u] = "load" /\ LoadSucceeds(req[u].table)
        /\ req[u] \in InsertRequests \cup SelectRequests
        /\ IsActive(req[u].table) /\ req[u].table \in Names
    BY <1>0, <1>7, StatementNamesTable DEF LoadForInsert, LoadForSelect, Stage
  <2>2. IsActive(req[u].table)'
    <3>1. CASE table' = table
      BY <1>1, <2>1, <3>1 DEF IsActive
    <3>2. CASE table' = LoadedFrom(req[u].table)
      BY <1>1, <2>1, <3>2, NamedTableIsActive DEF LoadedFrom
    <3> QED BY <2>1, <3>1, <3>2 DEF LoadSucceeds
  <2>3. \/ req[u].kind = "insert" /\ pc'[u] = "insert"
        \/ req[u].kind = "select" /\ pc'[u] = "collect" /\ table'.loaded
        \/ pc'[u] = "unlock"
    BY <1>0, <1>7 DEF LoadForInsert, LoadForSelect, Goto, Finish
  <2> QED BY <1>1, <2>1, <2>2, <2>3 DEF Stage, InsertRequests, SelectRequests
<1>8. CASE AddRow(u)
  <2>1. /\ req[u] \in InsertRequests /\ SchemaAccepts(req[u]) /\ IsActive(req[u].table)
        /\ pc'[u] = "store"
    BY <1>0, <1>8 DEF AddRow, Stage, Goto
  <2>2. /\ table'.loaded /\ table'.cols = req[u].cols
        /\ table'.table_name = table.table_name
    BY <1>0, <1>8, <2>1, AcceptedSchema, AddedRow
  <2> QED BY <1>1, <2>1, <2>2 DEF Stage, IsActive
<1>9. CASE StoreFails(u)
  <2>1. req[u] \in InsertRequests /\ pc'[u] = "reload" /\ req[u].table \in Names
    BY <1>0, <1>9, StatementNamesTable DEF StoreFails, Stage, Goto
  <2>2. table'.table_name = req[u].table
    BY <1>9 DEF StoreFails, Unloaded
  <2> QED BY <1>1, <2>1, <2>2, NamedTableIsActive DEF Stage
<1> QED BY <1>3, <1>4, <1>5, <1>6, <1>7, <1>8, <1>9 DEF Work

LEMMA DataWorkStep ==
  ASSUME DataInv, NEW u \in Threads, Work(u)
  PROVE  DataInv'
<1>1. LockInv' /\ DataTypes' /\ TableState' /\ IndexSound' /\ Stage(u)'
  BY WorkStep, DataStep, OwnStage DEF DataInv
<1>2. ASSUME NEW t \in Threads \ {u} PROVE Stage(t)'
  <2>1. Stage(t) /\ pc \in [Threads -> PcValues]
    BY DEF DataInv, Stages, LockInv, LockTypes
  <2>2. pc'[t] = pc[t] /\ req' = req
    BY <2>1, WorkFrame
  <2>3. table' = table \/ pc[t] \in {"idle", "lock"}
    BY OthersWait DEF DataInv
  <2> QED BY <2>1, <2>2, <2>3 DEF Stage, IsActive
<1> QED BY <1>1, <1>2 DEF DataInv, Stages

\* Steps that leave table and files alone.
LEMMA DataLockStep ==
  ASSUME DataInv, NEW u \in Threads,
         AcquireForRead(u) \/ AcquireForWrite(u) \/ UpgradeLock(u) \/ Return(u)
  PROVE  DataInv'
<1>1. UNCHANGED <<table, files, req>>
  BY DEF AcquireForRead, AcquireForWrite, UpgradeLock, Return
<1>2. LockInv'
  BY LockStep DEF DataInv
<1>3. /\ pc[u] # "idle" /\ pc'[u] \in {"check", "execute", "lock", "idle"}
      /\ \A t \in Threads \ {u} : pc'[t] = pc[t]
  BY DEF DataInv, LockInv, LockTypes, AcquireForRead, AcquireForWrite, UpgradeLock, Return
<1>4. Stages'
  BY <1>1, <1>3 DEF DataInv, Stages, Stage, IsActive
<1> QED BY <1>1, <1>2, <1>4 DEF DataInv, DataTypes, TableState, IndexSound

LEMMA DataCallStep ==
  ASSUME DataInv, NEW u \in Threads, NEW r \in Requests, Call(u, r)
  PROVE  DataInv'
<1>1. UNCHANGED <<table, files>>
  BY DEF Call
<1>2. LockInv'
  BY CallStep DEF DataInv
<1>3. /\ pc'[u] = "lock" /\ req'[u] = r
      /\ \A t \in Threads \ {u} : pc'[t] = pc[t] /\ req'[t] = req[t]
  BY DEF DataInv, LockInv, LockTypes, Call
<1>4. Stages'
  BY <1>1, <1>3 DEF DataInv, Stages, Stage, IsActive
<1> QED BY <1>1, <1>2, <1>4 DEF DataInv, DataTypes, TableState, IndexSound

\* Every step keeps the invariant.
LEMMA DataNext ==
  ASSUME DataInv, [Next]_vars
  PROVE  DataInv'
<1>1. ASSUME NEW t \in Threads, Step(t) PROVE DataInv'
  BY <1>1, DataWorkStep, DataLockStep DEF Step, Work
<1>2. ASSUME NEW t \in Threads, NEW r \in Requests, Call(t, r) PROVE DataInv'
  BY <1>2, DataCallStep
<1>3. CASE Reopen
  <2>1. /\ table' = Unloaded(NoName) /\ UNCHANGED <<files, pc, req>>
        /\ \A t \in Threads : pc[t] = "idle"
    BY <1>3 DEF Reopen, threadVars
  <2>2. LockInv'
    BY LockNext DEF DataInv
  <2>3. DataTypes' /\ TableState' /\ IndexSound'
    BY <2>1, UnloadedTable DEF DataInv, DataTypes, TableState, IndexSound
  <2>4. Stages'
    BY <2>1 DEF DataInv, Stages, Stage
  <2> QED BY <2>2, <2>3, <2>4 DEF DataInv
<1>4. CASE UNCHANGED vars
  <2>1. LockInv'
    BY LockNext DEF DataInv
  <2> QED BY <1>4, <2>1 DEF vars, DataInv, DataTypes, TableState, IndexSound, Stages, Stage,
                            IsActive
<1> QED BY <1>1, <1>2, <1>3, <1>4 DEF Next

\* DataInv is an invariant of the engine.
THEOREM DataInvariance == Spec => []DataInv
<1>1. Init => DataInv
  <2> SUFFICES ASSUME Init PROVE DataInv
    OBVIOUS
  <2>1. LockInv
    BY ThreadAssumption
       DEF Init, LockInv, LockTypes, LockDiscipline, NoStrayLock, ReadersSelect,
           ReadLockSuffices, Holding, PcValues
  <2>2. table = Unloaded(NoName) /\ files \in [Names -> Files]
    BY InitialFilesAssumption DEF Init
  <2>3. DataTypes /\ TableState /\ IndexSound
    BY <2>2, UnloadedTable DEF DataTypes, TableState, IndexSound
  <2>4. Stages
    BY DEF Init, Stages, Stage
  <2> QED BY <2>1, <2>3, <2>4 DEF DataInv
<1> QED BY <1>1, DataNext, PTL DEF Spec

-----------------------------------------------------------------------------
(* Types *)

ResultType == [ok : BOOLEAN, rows : Seq(Rows)]

\* What a SELECT returns is a sequence of rows: the slot found in the index is
\* the slot of a row.
LEMMA RowsByIdType ==
  ASSUME DataInv, NEW key
  PROVE  RowsById(key) \in Seq(Rows)
<1> DEFINE slots == {entry[2] : entry \in {e \in table.index : e[1] = key}}
<1>1. table.rows \in Seq(Rows) /\ IndexSound
  BY DEF DataInv, DataTypes, TableType
<1>2. \A s \in slots : s \in 1 .. Len(table.rows)
  BY <1>1 DEF IndexSound
<1>3. RowsById(key) = IF slots = {} THEN <<>> ELSE <<table.rows[CHOOSE s \in slots : TRUE]>>
  BY DEF RowsById
<1> HIDE DEF slots
<1>4. slots # {} => table.rows[CHOOSE s \in slots : TRUE] \in Rows
  BY <1>1, <1>2, ElementOfSeq
<1> QED BY <1>3, <1>4

LEMMA ResultIsTyped ==
  /\ Error \in ResultType
  /\ \A rows \in Seq(Rows) : Ok(rows) \in ResultType
<1>1. <<>> \in Seq(Rows)
  OBVIOUS
<1>2. FALSE \in BOOLEAN /\ TRUE \in BOOLEAN
  OBVIOUS
<1> QED BY <1>1, <1>2 DEF Error, Ok, ResultType

\* A step inside the locked region keeps res typed.
LEMMA ResultStep ==
  ASSUME DataInv, NEW u \in Threads, Work(u), res \in [Threads -> ResultType]
  PROVE  res' \in [Threads -> ResultType] /\ calls' = calls
<1>1. ASSUME NEW result \in ResultType, Finish(u, result)
      PROVE  res' \in [Threads -> ResultType] /\ calls' = calls
  BY <1>1 DEF Finish
<1>2. ASSUME NEW label, Goto(u, label)
      PROVE  res' \in [Threads -> ResultType] /\ calls' = calls
  BY <1>2 DEF Goto
<1>3. Error \in ResultType /\ Ok(<<>>) \in ResultType
  BY ResultIsTyped, EmptySeq
<1>4. CASE KeepReadLock(u)
  BY <1>4 DEF KeepReadLock
<1>5. CASE Refuse(u) \/ OutOfMemory(u) \/ RejectRow(u) \/ LoadError(u) \/ AddRowOutOfMemory(u)
           \/ IndexSplitFails(u) \/ Reload(u)
  BY <1>1, <1>3, <1>5 DEF Refuse, OutOfMemory, RejectRow, LoadError, AddRowOutOfMemory,
                          IndexSplitFails, Reload
<1>6. CASE GetOrLoad(u) \/ LoadForInsert(u) \/ AddRow(u) \/ StoreFails(u)
  BY <1>2, <1>6 DEF GetOrLoad, LoadForInsert, AddRow, StoreFails
<1>7. CASE LoadForSelect(u)
  BY <1>1, <1>2, <1>3, <1>7 DEF LoadForSelect
<1>8. CASE StoreRow(u) \/ StoreRowUnflushed(u)
  BY <1>1, <1>3, <1>8 DEF StoreRow, StoreRowUnflushed
<1>9. CASE Collect(u)
  <2> DEFINE where == req[u].where
  <2>1. Finish(u, Selected(where))
    BY <1>9 DEF Collect
  <2>2. table.rows \in Seq(Rows)
    BY DEF DataInv, DataTypes, TableType
  <2>3. RowsById(where[2]) \in Seq(Rows) /\ RowsByScan(where) \in Seq(Rows)
    BY <2>2, RowsByIdType, MatchingType DEF RowsByScan
  <2>4. Ok(RowsById(where[2])) \in ResultType /\ Ok(RowsByScan(where)) \in ResultType
    BY <2>3, ResultIsTyped
  <2>5. Selected(where) \in ResultType
    BY <1>3, <2>4 DEF Selected
  <2> QED BY <1>1, <2>1, <2>5
<1> QED BY <1>4, <1>5, <1>6, <1>7, <1>8, <1>9 DEF Work

\* The engine's state is typed under every fault; in particular a key taken
\* from next_id never leaves the range of the id index, and the slots that a
\* SELECT follows are slots of rows, also after IndexSplitFails.
THEOREM TypeCorrect == Spec => []TypeOK
<1> DEFINE Rest == res \in [Threads -> ResultType] /\ calls \in 0 .. MaxCalls
<1>1. Init => Rest
  BY ResultIsTyped, MaxCallsAssumption DEF Init
<1>2. ASSUME DataInv, Rest, [Next]_vars PROVE Rest'
  <2>1. ASSUME NEW t \in Threads, Work(t) PROVE Rest'
    BY <1>2, <2>1, ResultStep
  <2>2. ASSUME NEW t \in Threads,
               AcquireForRead(t) \/ AcquireForWrite(t) \/ UpgradeLock(t) \/ Return(t)
        PROVE  Rest'
    BY <1>2, <2>2 DEF AcquireForRead, AcquireForWrite, UpgradeLock, Return
  <2>3. ASSUME NEW t \in Threads, NEW r \in Requests, Call(t, r) PROVE Rest'
    BY <1>2, <2>3, MaxCallsAssumption DEF Call
  <2>4. CASE Reopen
    BY <1>2, <2>4 DEF Reopen, threadVars
  <2>5. CASE UNCHANGED vars
    BY <1>2, <2>5 DEF vars
  <2> QED BY <1>2, <2>1, <2>2, <2>3, <2>4, <2>5 DEF Next, Step, Work
<1>3. DataInv /\ Rest => TypeOK
  BY DEF DataInv, DataTypes, TableType, ResultType, LockInv, LockTypes, TypeOK
<1> HIDE DEF Rest
<1> QED BY <1>1, <1>2, <1>3, DataInvariance, PTL DEF Spec

-----------------------------------------------------------------------------
(* Rows have a file *)

\* RowsHaveFile for one step inside the locked region.
LEMMA RowsKeepFile ==
  ASSUME DataInv, RowsHaveFile, NEW u \in Threads, Work(u), DataInv'
  PROVE  RowsHaveFile'
<1> SUFFICES ASSUME table'.loaded, table'.rows # <<>>, \A t \in Threads : pc'[t] # "store"
             PROVE  files'[table'.table_name] # NoFile
  BY DEF RowsHaveFile
<1>0. /\ Stage(u) /\ TableState /\ table \in TableType /\ files \in [Names -> Files]
      /\ pc \in [Threads -> PcValues] /\ LockInv
  BY DEF DataInv, Stages, DataTypes, LockInv, LockTypes
<1>1. \A t \in Threads \ {u} : pc[t] # "store"
  BY <1>0, WorkFrame
<1>2. CASE files' = files /\ pc[u] # "store" /\ table' = table
  BY <1>1, <1>2 DEF RowsHaveFile
<1>3. CASE Evicts(u) \/ StoreFails(u)
  BY <1>3 DEF Evicts, StoreFails, Unloaded
<1>4. CASE files' = files /\ Loads(u)
  BY <1>4, SchemasAssumption DEF Loads, Loadable, LoadedFrom, NoFile
<1>5. CASE AddRow(u)
  BY <1>0, <1>5 DEF AddRow, Goto
<1>6. CASE AddRowOutOfMemory(u)
  <2>1. req[u] \in InsertRequests /\ pc[u] = "insert" /\ files' = files
    BY <1>0, <1>6 DEF AddRowOutOfMemory, Stage
  <2>2. table'.rows = table.rows /\ table'.table_name = table.table_name
    BY <1>0, <1>6, <2>1, AcceptedSchema, WithSchemaFields DEF AddRowOutOfMemory
  <2> QED BY <1>0, <1>1, <2>1, <2>2 DEF TableState, RowsHaveFile
<1>7. CASE IndexSplitFails(u)
  <2>1. /\ table'.rows = table.rows /\ table'.table_name = table.table_name
        /\ table'.loaded = table.loaded /\ files' = files /\ pc[u] = "insert"
    BY <1>0, <1>7 DEF IndexSplitFails, TableType
  <2> QED BY <1>1, <2>1 DEF RowsHaveFile
<1>8. CASE StoreRow(u) \/ StoreRowUnflushed(u)
  <2> DEFINE name == table.table_name
  <2>1. pc[u] = "store" /\ table' = table
    BY <1>8 DEF StoreRow, StoreRowUnflushed
  <2>2. req[u] \in InsertRequests /\ name \in Names /\ req[u].cols \in Schemas
    BY <1>0, <2>1, StatementNamesTable DEF Stage, TableState
  <2>3. files'[name] = StoredRow(files[name], req[u]) \/ files'[name] = Created(files[name])
    BY <1>0, <1>8, <2>2 DEF StoreRow, StoreRowUnflushed
  <2> QED BY <1>0, <2>1, <2>2, <2>3, StoredFile
<1> QED BY <1>2, <1>3, <1>4, <1>5, <1>6, <1>7, <1>8, TableOutcome

\* Under every fault, and for table names that differ only in case, memory
\* holds rows only of a table that has a CSV file, unless an INSERT is about to
\* write the first one.
THEOREM RowsAlwaysHaveFile == Spec => []RowsHaveFile
<1>1. Init => RowsHaveFile
  BY DEF Init, Unloaded, RowsHaveFile
<1>2. ASSUME DataInv, RowsHaveFile, [Next]_vars, DataInv' PROVE RowsHaveFile'
  <2>1. ASSUME NEW t \in Threads, Work(t) PROVE RowsHaveFile'
    BY <1>2, <2>1, RowsKeepFile
  <2>2. ASSUME NEW t \in Threads,
               AcquireForRead(t) \/ AcquireForWrite(t) \/ UpgradeLock(t) \/ Return(t)
        PROVE  RowsHaveFile'
    BY <1>2, <2>2 DEF AcquireForRead, AcquireForWrite, UpgradeLock, Return, RowsHaveFile,
                      DataInv, LockInv, LockTypes
  <2>3. ASSUME NEW t \in Threads, NEW r \in Requests, Call(t, r) PROVE RowsHaveFile'
    BY <1>2, <2>3 DEF Call, RowsHaveFile, DataInv, LockInv, LockTypes
  <2>4. CASE Reopen
    BY <2>4 DEF Reopen, Unloaded, RowsHaveFile
  <2>5. CASE UNCHANGED vars
    BY <1>2, <2>5 DEF vars, RowsHaveFile
  <2> QED BY <1>2, <2>1, <2>2, <2>3, <2>4, <2>5 DEF Next, Step, Work
<1> QED BY <1>1, <1>2, DataInvariance, PTL DEF Spec

\* Under every fault and for every mixture of names, what storage_insert writes
\* goes to a file whose name is, up to case, that of the INSERT in progress: the
\* active table is still the statement's when its row is stored.
THEOREM WritesNamedTable == Spec => OnlyNamedTableIsWritten
<1>1. ASSUME DataInv, [Next]_vars, NEW n \in Names, files'[n] # files[n]
      PROVE  \E t \in Threads : /\ writer = t /\ req[t].kind = "insert"
                                /\ Fold[req[t].table] = Fold[n]
  <2>1. ASSUME NEW u \in Threads, Work(u)
        PROVE  writer = u /\ req[u].kind = "insert" /\ Fold[req[u].table] = Fold[n]
    <3>1. StoreRow(u) \/ StoreRowUnflushed(u) \/ StoreFails(u)
      <4>1. AddRow(u) \/ AddRowOutOfMemory(u) \/ IndexSplitFails(u) => files' = files
        BY DEF AddRow, AddRowOutOfMemory, IndexSplitFails
      <4> QED BY <1>1, <2>1, <4>1, TableOutcome
    <3>2. pc[u] = "store" /\ n = table.table_name
      BY <1>1, <3>1 DEF StoreRow, StoreRowUnflushed, StoreFails, DataInv, DataTypes
    <3>3. req[u].kind = "insert" /\ IsActive(req[u].table)
      BY <1>1, <3>2 DEF DataInv, Stages, Stage, InsertRequests
    <3>4. lock_mode[u] # "read" /\ Holding(u)
      BY <1>1, <2>1, <3>2, ReadersChangeNothing DEF DataInv, Holding
    <3>5. writer = u
      BY <1>1, <3>4, WriterIsAlone DEF DataInv
    <3> QED BY <3>2, <3>3, <3>5 DEF IsActive
  <2>2. ASSUME NEW u \in Threads,
               AcquireForRead(u) \/ AcquireForWrite(u) \/ UpgradeLock(u) \/ Return(u)
        PROVE  FALSE
    BY <1>1, <2>2 DEF AcquireForRead, AcquireForWrite, UpgradeLock, Return
  <2>3. ASSUME NEW u \in Threads, NEW r \in Requests, Call(u, r)
        PROVE  FALSE
    BY <1>1, <2>3 DEF Call
  <2>4. CASE Reopen \/ UNCHANGED vars
    BY <1>1, <2>4 DEF Reopen, vars
  <2> QED BY <1>1, <2>1, <2>2, <2>3, <2>4 DEF Next, Step, Work
<1>2. DataInv /\ [Next]_vars =>
        [\A n \in Names :
           files'[n] # files[n] =>
             \E t \in Threads : /\ writer = t /\ req[t].kind = "insert"
                                /\ Fold[req[t].table] = Fold[n]]_vars
  BY <1>1
<1> QED BY <1>2, DataInvariance, PTL DEF Spec, OnlyNamedTableIsWritten

-----------------------------------------------------------------------------
(* The id index *)

\* IndexMatchesRows for one step inside the locked region.
LEMMA IndexKept ==
  ASSUME "index" \notin Faults, DataInv, IndexMatchesRows, NEW u \in Threads, Work(u)
  PROVE  IndexMatchesRows'
<1>0. /\ Stage(u) /\ TableState /\ table \in TableType /\ files \in [Names -> Files]
  BY DEF DataInv, Stages, DataTypes
<1>1. CASE table' = table
  BY <1>1 DEF IndexMatchesRows
<1>2. CASE Evicts(u) \/ StoreFails(u)
  <2>1. table'.rows = <<>> /\ table'.index = {}
    BY <1>2 DEF Evicts, StoreFails, Unloaded
  <2> QED BY <2>1 DEF IndexMatchesRows, IndexableRows
<1>3. CASE Loads(u) /\ table' # table
  <2> DEFINE name == req[u].table
  <2>1. name \in Names /\ Loadable(files[name]) /\ table' = LoadedFrom(name)
    BY <1>3, StatementOfOutcome DEF Loads
  <2>2. /\ table' \in TableType
        /\ table'.rows = files[name].rows /\ table'.next_id = NextId(table'.rows)
        /\ table'.index = {<<table'.rows[k].id, k>> : k \in 1 .. Len(table'.rows)}
    BY <1>0, <2>1, LoadedTable
  <2>3. IndexableRows(table'.rows)
    BY <2>1, <2>2 DEF Loadable
  <2>4. table'.rows \in Seq(Rows)
    BY <2>2 DEF TableType
  <2>5. \A k \in 1 .. Len(table'.rows) : table'.rows[k].id < table'.next_id
    BY <2>2, <2>4, NextIdIsAbove
  <2> QED BY <2>2, <2>3, <2>5 DEF IndexMatchesRows
<1>4. CASE AddRowOutOfMemory(u)
  <2>1. req[u] \in InsertRequests
    BY <1>0, <1>4 DEF AddRowOutOfMemory, Stage
  <2>2. /\ table'.rows = table.rows /\ table'.index = table.index
        /\ table'.next_id = table.next_id
    BY <1>0, <1>4, <2>1, AcceptedSchema, WithSchemaFields DEF AddRowOutOfMemory
  <2> QED BY <2>2 DEF IndexMatchesRows
<1>5. CASE AddRow(u)
  <2> DEFINE n == Len(table.rows)
  <2>1. req[u] \in InsertRequests /\ table.next_id \in 1 .. MaxId
    BY <1>0, <1>5, MaxIdAssumption DEF AddRow, Stage, RowFits, TableType
  <2>2. /\ table'.rows = Append(table.rows, BuiltRow(req[u]))
        /\ table'.index = table.index \cup {<<table.next_id, n + 1>>}
        /\ table'.next_id = table.next_id + 1
    BY <1>0, <1>5, <2>1, AcceptedSchema, AddedRow DEF AddRow
  <2>3. /\ n \in Nat /\ Len(table'.rows) = n + 1
        /\ \A k \in 1 .. n : table'.rows[k] = table.rows[k]
        /\ table'.rows[n + 1].id = table.next_id
    BY <1>0, <2>1, <2>2, BuiltRowIsRow
  <2>4. /\ table.index = {<<table.rows[k].id, k>> : k \in 1 .. n}
        /\ \A k \in 1 .. n : table.rows[k].id \in 0 .. MaxId
        /\ \A k, l \in 1 .. n : table.rows[k].id = table.rows[l].id => k = l
        /\ \A k \in 1 .. n : table.rows[k].id < table.next_id
    BY DEF IndexMatchesRows, IndexableRows
  <2> HIDE DEF n
  <2>5. table'.index = {<<table'.rows[k].id, k>> : k \in 1 .. n + 1}
    BY <2>2, <2>3, <2>4
  <2>6. \A k \in 1 .. n + 1 : /\ table'.rows[k].id \in 0 .. MaxId
                              /\ table'.rows[k].id < table'.next_id
    BY <2>1, <2>2, <2>3, <2>4, MaxIdAssumption
  <2>7. ASSUME NEW k \in 1 .. n + 1, NEW l \in 1 .. n + 1,
               table'.rows[k].id = table'.rows[l].id
        PROVE  k = l
    <3>1. \A i \in 1 .. n : /\ table'.rows[i].id = table.rows[i].id
                            /\ table'.rows[i].id # table'.rows[n + 1].id
      BY <2>1, <2>3, <2>4, MaxIdAssumption
    <3>2. k \in 1 .. n /\ l \in 1 .. n => k = l
      BY <2>4, <2>7, <3>1
    <3>3. (k \in 1 .. n \/ k = n + 1) /\ (l \in 1 .. n \/ l = n + 1)
      BY <2>3
    <3> QED BY <2>7, <3>1, <3>2, <3>3
  <2> QED BY <2>3, <2>5, <2>6, <2>7 DEF IndexMatchesRows, IndexableRows
<1>6. CASE StoreRow(u) \/ StoreRowUnflushed(u)
  BY <1>1, <1>6 DEF StoreRow, StoreRowUnflushed
<1>7. ~IndexSplitFails(u)
  BY DEF IndexSplitFails
<1> QED BY <1>1, <1>2, <1>3, <1>4, <1>5, <1>6, <1>7, TableOutcome

\* As long as no allocation fails inside bptree_insert, the id index lists
\* exactly the rows of memory, ids are unique and next_id is above them, so
\* that bptree_insert never meets a duplicate; whatever else fails.
THEOREM IndexIsExact ==
  ASSUME "index" \notin Faults
  PROVE  Spec => []IndexMatchesRows
<1>1. Init => IndexMatchesRows
  BY DEF Init, Unloaded, IndexMatchesRows, IndexableRows
<1>2. ASSUME DataInv, IndexMatchesRows, [Next]_vars PROVE IndexMatchesRows'
  <2>1. ASSUME NEW t \in Threads, Work(t) PROVE IndexMatchesRows'
    BY <1>2, <2>1, IndexKept
  <2>2. ASSUME table' = table PROVE IndexMatchesRows'
    BY <1>2, <2>2 DEF IndexMatchesRows
  <2>3. ASSUME NEW t \in Threads,
               AcquireForRead(t) \/ AcquireForWrite(t) \/ UpgradeLock(t) \/ Return(t)
        PROVE  IndexMatchesRows'
    BY <2>2, <2>3 DEF AcquireForRead, AcquireForWrite, UpgradeLock, Return
  <2>4. ASSUME NEW t \in Threads, NEW r \in Requests, Call(t, r) PROVE IndexMatchesRows'
    BY <2>2, <2>4 DEF Call
  <2>5. CASE Reopen
    BY <2>5 DEF Reopen, Unloaded, IndexMatchesRows, IndexableRows
  <2>6. CASE UNCHANGED vars
    BY <2>2, <2>6 DEF vars
  <2> QED BY <1>2, <2>1, <2>3, <2>4, <2>5, <2>6 DEF Next, Step, Work
<1> QED BY <1>1, <1>2, DataInvariance, PTL DEF Spec

-----------------------------------------------------------------------------
(* Memory and file *)

\* The row that memory already has is the one that storage_insert will append,
\* with the id that storage_get_next_auto_id will compute.
Pending(t) ==
  LET file == files[table.table_name] IN
  /\ table.rows = Append(file.rows, [id |-> NextId(file.rows), val |-> req[t].val])
  /\ file = NoFile \/ file.cols = table.cols

\* MemoryMatchesFile made inductive: next_id is what a scan of the rows would
\* give, an INSERT that creates the table has found no file, and between the
\* two halves of an INSERT memory is one row ahead.
FileInv ==
  /\ table.next_id = NextId(table.rows)
  /\ MemoryMatchesFile
  /\ \A t \in Threads :
       /\ pc[t] = "insert" /\ ~table.loaded => files[table.table_name] = NoFile
       /\ pc[t] = "store" => Pending(t)

\* Without case variants the active table's name is the statement's.
LEMMA ActiveName ==
  ASSUME NoCaseVariants, table \in TableType, NEW name \in Names, IsActive(name)
  PROVE  table.table_name = name
  BY DEF NoCaseVariants, IsActive, TableType

\* In the steps of an INSERT the thread is alone.
LEMMA InsertIsAlone ==
  ASSUME LockInv, NEW u \in Threads, pc[u] \in {"insert", "store", "reload"}
  PROVE  \A t \in Threads \ {u} : pc[t] \in {"idle", "lock"}
<1>1. Holding(u) /\ lock_mode[u] # "read"
  BY DEF LockInv, ReadersSelect, Holding
<1> QED BY <1>1, WriterIsAlone DEF Holding

\* FileInv when no statement is in an INSERT.
LEMMA FileInvOutsideInsert ==
  ASSUME \A t \in Threads : pc'[t] \notin {"insert", "store"},
         table'.next_id = NextId(table'.rows),
         table'.loaded => files'[table'.table_name] = [cols |-> table'.cols, rows |-> table'.rows]
  PROVE  FileInv'
  BY DEF FileInv, MemoryMatchesFile

LEMMA UnloadedFileInv ==
  ASSUME NEW name, table' = Unloaded(name),
         \A t \in Threads : pc'[t] \notin {"insert", "store"}
  PROVE  FileInv'
<1>1. ~table'.loaded /\ table'.next_id = 1 /\ table'.rows = <<>>
  BY DEF Unloaded
<1> QED BY <1>1, NextIdOfNone, FileInvOutsideInsert

\* A step that changes neither the table nor a file and does not begin or end
\* a half of an INSERT.
LEMMA FileInvUnchanged ==
  ASSUME FileInv, UNCHANGED <<table, files>>,
         \A t \in Threads : pc[t] = "store" => pc'[t] = "store",
         \A t \in Threads : pc'[t] \in {"insert", "store"} => pc'[t] = pc[t] /\ req'[t] = req[t]
  PROVE  FileInv'
  BY DEF FileInv, MemoryMatchesFile, Pending

\* FileInv for one step inside the locked region.
LEMMA FileKept ==
  ASSUME NoCaseVariants, "memory" \notin Faults, "flush" \notin Faults,
         DataInv, FileInv, NEW u \in Threads, Work(u)
  PROVE  FileInv'
<1>0. /\ Stage(u) /\ TableState /\ table \in TableType /\ files \in [Names -> Files]
      /\ pc \in [Threads -> PcValues] /\ LockInv /\ req' = req
      /\ \A t \in Threads \ {u} : pc'[t] = pc[t]
  BY WorkFrame DEF DataInv, Stages, DataTypes, LockInv, LockTypes
<1>1. CASE KeepReadLock(u) \/ Refuse(u) \/ Collect(u) \/ RejectRow(u) \/ LoadError(u)
           \/ GetOrLoad(u) \/ Reload(u)
  <2>1. pc[u] # "store" /\ pc'[u] \notin {"insert", "store"} /\ files' = files
    BY <1>0, <1>1 DEF KeepReadLock, Refuse, Collect, RejectRow, LoadError, GetOrLoad, Reload,
                      Finish, Goto
  <2>2. CASE table' = table
    BY <1>0, <2>1, <2>2, FileInvUnchanged
  <2>3. CASE table' # table
    <3>1. \A t \in Threads : pc'[t] \notin {"insert", "store"}
      BY <1>0, <2>1, <2>3, OthersWait
    <3>2. CASE Evicts(u)
      BY <3>1, <3>2, UnloadedFileInv DEF Evicts
    <3>3. CASE Loads(u)
      <4>1. req[u].table \in Names
        BY <2>3, <3>3, StatementOfOutcome
      <4>2. /\ table'.table_name = req[u].table /\ table'.cols = files[req[u].table].cols
            /\ table'.rows = files[req[u].table].rows /\ table'.next_id = NextId(table'.rows)
        BY <1>0, <3>3, <4>1, LoadedTable DEF Loads
      <4>3. files[req[u].table] \in Files
        BY <1>0, <4>1
      <4>4. files'[table'.table_name] = [cols |-> table'.cols, rows |-> table'.rows]
        BY <2>1, <4>2, <4>3 DEF Files
      <4> QED BY <3>1, <4>2, <4>4, FileInvOutsideInsert
    <3> QED BY <1>1, <2>3, <3>2, <3>3, TableOutcome
               DEF KeepReadLock, Refuse, Collect, RejectRow, LoadError, GetOrLoad, Reload,
                   AddRow, AddRowOutOfMemory, IndexSplitFails, StoreRow, StoreRowUnflushed,
                   StoreFails
  <2> QED BY <2>2, <2>3
<1>2. CASE LoadForInsert(u) \/ LoadForSelect(u)
  <2> DEFINE name == req[u].table
  <2>1. /\ pc[u] = "load" /\ LoadSucceeds(name) /\ files' = files
        /\ name \in Names /\ IsActive(name)
    BY <1>0, <1>2, StatementNamesTable DEF LoadForInsert, LoadForSelect, Stage
  <2>2. pc'[u] \in {"insert", "collect", "unlock"}
    BY <1>0, <1>2 DEF LoadForInsert, LoadForSelect, Goto, Finish
  <2>3. table.table_name = name
    BY <1>0, <2>1, ActiveName
  <2>4. CASE table' = table
    <3>1. ~table.loaded => files[name] = NoFile
      <4>1. CASE table' = LoadedFrom(name)
        BY <2>4, <4>1 DEF LoadedFrom
      <4> QED BY <2>1, <4>1 DEF LoadSucceeds
    <3>2. FileInv' <=> /\ table.next_id = NextId(table.rows)
                       /\ MemoryMatchesFile'
                       /\ \A t \in Threads :
                            /\ pc'[t] = "insert" /\ ~table.loaded => files[name] = NoFile
                            /\ pc'[t] = "store" => Pending(t)
      BY <1>0, <2>1, <2>3, <2>4 DEF FileInv, Pending
    <3>3. MemoryMatchesFile'
      BY <1>0, <2>1, <2>4 DEF FileInv, MemoryMatchesFile
    <3> QED BY <1>0, <2>2, <3>1, <3>2, <3>3 DEF FileInv
  <2>5. CASE table' # table
    <3>1. \A t \in Threads : pc'[t] # "store"
      BY <1>0, <2>2, <2>5, OthersWait
    <3>2. Loadable(files[name]) /\ table' = LoadedFrom(name)
      BY <2>1, <2>5 DEF LoadSucceeds
    <3>3. /\ table'.table_name = name /\ table'.cols = files[name].cols /\ table'.loaded
          /\ table'.rows = files[name].rows /\ table'.next_id = NextId(table'.rows)
      BY <1>0, <2>1, <3>2, LoadedTable
    <3>4. files'[table'.table_name] = [cols |-> table'.cols, rows |-> table'.rows]
      BY <1>0, <2>1, <3>3 DEF Files
    <3> QED BY <3>1, <3>3, <3>4 DEF FileInv, MemoryMatchesFile
  <2> QED BY <2>4, <2>5
<1>3. CASE AddRow(u)
  <2> DEFINE name == table.table_name
             val == req[u].val
  <2>1. pc[u] = "insert" /\ pc'[u] = "store" /\ files' = files
    BY <1>0, <1>3 DEF AddRow, Goto
  <2>2. req[u] \in InsertRequests /\ val \in Values /\ SchemaAccepts(req[u])
    BY <1>0, <1>3, <2>1 DEF AddRow, Stage, InsertRequests
  <2>3. /\ table'.table_name = name /\ table'.cols = req[u].cols
        /\ table'.rows = Append(table.rows, BuiltRow(req[u]))
        /\ table'.next_id = table.next_id + 1
    BY <1>0, <1>3, <2>2, AcceptedSchema, AddedRow
  <2>4. BuiltRow(req[u]) = [id |-> NextId(table.rows), val |-> val]
    BY DEF BuiltRow, FileInv
  <2>5. table.rows \in Seq(Rows)
    BY <1>0 DEF TableType
  <2>6. table'.next_id = NextId(table'.rows)
    BY <2>2, <2>3, <2>4, <2>5, NextIdAfterAppend DEF FileInv
  <2>7. \A t \in Threads : pc'[t] # "insert" /\ (pc'[t] = "store" => t = u)
    BY <1>0, <2>1, InsertIsAlone
  <2>8. \A t \in Threads : pc[t] # "store"
    BY <1>0, <2>1, InsertIsAlone
  <2>9. files[name].rows = table.rows /\ (files[name] = NoFile \/ files[name].cols = req[u].cols)
    <3>1. CASE table.loaded
      BY <2>2, <2>8, <3>1 DEF FileInv, MemoryMatchesFile, SchemaAccepts
    <3>2. CASE ~table.loaded
      BY <1>0, <2>1, <3>2 DEF FileInv, TableState, NoFile
    <3> QED BY <3>1, <3>2
  <2>10. Pending(u)'
    BY <1>0, <2>1, <2>3, <2>4, <2>9 DEF Pending
  <2> QED BY <2>1, <2>6, <2>7, <2>10 DEF FileInv, MemoryMatchesFile
<1>4. CASE IndexSplitFails(u)
  <2>1. /\ pc[u] = "insert" /\ pc'[u] = "unlock" /\ files' = files
        /\ table'.rows = table.rows /\ table'.table_name = table.table_name
        /\ table'.loaded = table.loaded /\ table'.cols = table.cols
        /\ table'.next_id = table.next_id
    BY <1>0, <1>4 DEF IndexSplitFails, Finish, TableType
  <2>2. \A t \in Threads : pc[t] # "store" /\ pc'[t] \notin {"insert", "store"}
    BY <1>0, <2>1, InsertIsAlone
  <2> QED BY <2>1, <2>2, FileInvOutsideInsert DEF FileInv, MemoryMatchesFile
<1>5. CASE StoreRow(u)
  <2> DEFINE name == table.table_name
  <2>1. /\ pc[u] = "store" /\ pc'[u] = "unlock" /\ table' = table
        /\ files' = [files EXCEPT ![name] = StoredRow(files[name], req[u])]
    BY <1>0, <1>5 DEF StoreRow, Finish
  <2>2. name \in Names /\ req[u].cols = table.cols
    BY <1>0, <2>1, StatementNamesTable DEF Stage
  <2>3. files'[name] = [cols |-> table.cols, rows |-> table.rows]
    BY <1>0, <2>1, <2>2 DEF StoredRow, FileInv, Pending
  <2>4. \A t \in Threads : pc'[t] \notin {"insert", "store"}
    BY <1>0, <2>1, InsertIsAlone
  <2> QED BY <2>1, <2>3, <2>4, FileInvOutsideInsert DEF FileInv
<1>6. CASE StoreFails(u)
  <2>1. pc[u] = "store" /\ pc'[u] = "reload" /\ table' = Unloaded(req[u].table)
    BY <1>0, <1>6 DEF StoreFails, Goto
  <2>2. \A t \in Threads : pc'[t] \notin {"insert", "store"}
    BY <1>0, <2>1, InsertIsAlone
  <2> QED BY <2>1, <2>2, UnloadedFileInv
<1>7. ~OutOfMemory(u) /\ ~AddRowOutOfMemory(u) /\ ~StoreRowUnflushed(u)
  BY DEF OutOfMemory, AddRowOutOfMemory, StoreRowUnflushed
<1> QED BY <1>1, <1>2, <1>3, <1>4, <1>5, <1>6, <1>7 DEF Work

\* FileInv is an invariant within these limits.
THEOREM FileInvariance ==
  ASSUME NoCaseVariants, "memory" \notin Faults, "flush" \notin Faults
  PROVE  Spec => []FileInv
<1>1. Init => FileInv
  BY NextIdOfNone DEF Init, Unloaded, FileInv, MemoryMatchesFile
<1>2. ASSUME DataInv, FileInv, [Next]_vars PROVE FileInv'
  <2>1. ASSUME NEW t \in Threads, Work(t) PROVE FileInv'
    BY <1>2, <2>1, FileKept
  <2>2. ASSUME NEW t \in Threads,
               AcquireForRead(t) \/ AcquireForWrite(t) \/ UpgradeLock(t) \/ Return(t)
        PROVE  FileInv'
    <3>1. UNCHANGED <<table, files, req>>
      BY <2>2 DEF AcquireForRead, AcquireForWrite, UpgradeLock, Return
    <3>2. /\ pc[t] # "store" /\ pc'[t] \notin {"insert", "store"}
          /\ \A s \in Threads \ {t} : pc'[s] = pc[s]
      BY <1>2, <2>2 DEF AcquireForRead, AcquireForWrite, UpgradeLock, Return, DataInv, LockInv,
                        LockTypes
    <3> QED BY <1>2, <3>1, <3>2, FileInvUnchanged
  <2>3. ASSUME NEW t \in Threads, NEW r \in Requests, Call(t, r) PROVE FileInv'
    <3>1. /\ pc[t] = "idle" /\ pc'[t] = "lock" /\ UNCHANGED <<table, files>>
          /\ \A s \in Threads \ {t} : pc'[s] = pc[s] /\ req'[s] = req[s]
      BY <1>2, <2>3 DEF Call, DataInv, LockInv, LockTypes
    <3> QED BY <1>2, <3>1, FileInvUnchanged
  <2>4. CASE Reopen
    BY <2>4, UnloadedFileInv DEF Reopen, threadVars
  <2>5. CASE UNCHANGED vars
    BY <1>2, <2>5, FileInvUnchanged DEF vars
  <2> QED BY <1>2, <2>1, <2>2, <2>3, <2>4, <2>5 DEF Next, Step, Work
<1> QED BY <1>1, <1>2, DataInvariance, PTL DEF Spec

\* Memory and CSV agree whenever no INSERT is between the two, and the ids that
\* table_insert_row and storage_get_next_auto_id compute are the same: for
\* table names without case variants, as long as no allocation of the executor
\* and no fflush fails.
THEOREM MemoryAgreesWithFile ==
  ASSUME NoCaseVariants, "memory" \notin Faults, "flush" \notin Faults
  PROVE  Spec => []MemoryMatchesFile
<1>1. FileInv => MemoryMatchesFile
  BY DEF FileInv
<1> QED BY <1>1, FileInvariance, PTL

-----------------------------------------------------------------------------
(* QueryEngine implements Database: the locks, the single active table, the id *)
(* index and the two halves of an INSERT together look to the callers like     *)
(* tables that are read and changed in one instant.                            *)

\* What the refinement rests on.  Outside these limits the engine is no
\* Database: MCQueryEngineFlush and MCQueryEngineUnreadable show two of the ways.
Limits == /\ NoCaseVariants
          /\ Faults \subseteq {"load", "open"}
          /\ Unreadable = {}

\* A reload follows a storage_insert that could not open the file.
ReloadAfterFault == \A t \in Threads : pc[t] = "reload" => "open" \in Faults

\* The invariant of the refinement.
RefinementInv == DataInv /\ IndexMatchesRows /\ FileInv /\ ReloadAfterFault

Phase == [t \in Threads |-> IF pc[t] = "idle" THEN "idle"
                           ELSE IF pc[t] = "unlock" THEN "done"
                           ELSE "called"]

-----------------------------------------------------------------------------
(* The operators of Database are those of QueryEngine *)

LEMMA SameOperators ==
  /\ DB!Error = Error /\ DB!NoFile = NoFile
  /\ DB!NoColumn = NoColumn /\ DB!NoSelected = NoSelected
  /\ \A rows : DB!Ok(rows) = Ok(rows)
  /\ \A rows : DB!NextId(rows) = NextId(rows)
  /\ \A file : DB!Loadable(file) <=> Loadable(file)
<1>1. /\ DB!Error = Error /\ DB!NoFile = NoFile
      /\ DB!NoColumn = NoColumn /\ DB!NoSelected = NoSelected
  BY DEF DB!Error, Error, DB!NoFile, NoFile, DB!Absent, Absent, DB!NoColumn, NoColumn,
         DB!NoSelected, NoSelected
<1>2. \A rows : DB!Ok(rows) = Ok(rows)
  BY DEF DB!Ok, Ok
<1>3. \A rows : DB!NextId(rows) = NextId(rows)
  BY DEF DB!NextId, NextId, DB!Ids, Ids
<1>4. \A file : DB!Loadable(file) <=> Loadable(file)
  BY DEF DB!Loadable, Loadable, DB!ReadableRows, ReadableRows, DB!IndexableRows, IndexableRows
<1> QED BY <1>1, <1>2, <1>3, <1>4

LEMMA SameMatching ==
  \A rows, where : DB!Matching(rows, where) = Matching(rows, where)
  BY Zenon DEF DB!Matching, Matching, DB!Holds, Holds, DB!Cardinality, Cardinality

-----------------------------------------------------------------------------
(* When Database accepts a statement *)

LEMMA AcceptableInsert ==
  ASSUME NEW r \in InsertRequests
  PROVE  LET file == files[r.table] IN
         DB!Acceptable(r) <=> /\ file = NoFile \/ Loadable(file)
                              /\ r.cols \in Schemas
                              /\ file = NoFile \/ file.cols = r.cols
                              /\ NextId(file.rows) <= MaxId
<1>1. r.kind = "insert"
  BY DEF InsertRequests
<1> QED BY <1>1, SameOperators DEF DB!Acceptable

LEMMA AcceptableSelect ==
  ASSUME NEW r \in SelectRequests
  PROVE  DB!Acceptable(r) <=> /\ Loadable(files[r.table])
                              /\ r.where # NoSelected
                              /\ r.where = NoColumn => files[r.table].rows = <<>>
<1>1. r.kind = "select"
  BY DEF SelectRequests
<1> QED BY <1>1, SameOperators DEF DB!Acceptable

LEMMA AcceptableOther ==
  ASSUME NEW r, r.kind \in {"delete", "unparsable"}
  PROVE  ~DB!Acceptable(r)
  BY DEF DB!Acceptable

-----------------------------------------------------------------------------
(* Steps of Database *)

\* Whatever leaves files, statements and results alone and moves no thread
\* across the instant of its effect is no step.
LEMMA Stutter ==
  ASSUME UNCHANGED <<files, req, res>>, Phase' = Phase
  PROVE  UNCHANGED DB!vars
  BY DEF DB!vars, Phase

\* A thread that gets its result.
LEMMA FinishPhase ==
  ASSUME pc \in [Threads -> PcValues], NEW u \in Threads, pc[u] \in Locked \ {"unlock"},
         NEW result, Finish(u, result)
  PROVE  /\ Phase[u] = "called" /\ Phase' = [Phase EXCEPT ![u] = "done"]
         /\ req' = req /\ res' = [res EXCEPT ![u] = result]
  BY DEF Finish, Phase, Locked

LEMMA FailStep ==
  ASSUME pc \in [Threads -> PcValues], NEW u \in Threads, pc[u] \in Locked \ {"unlock"},
         Finish(u, Error), files' = files, ~DB!Acceptable(req[u]) \/ Faults # {}
  PROVE  DB!Next
<1>1. /\ Phase[u] = "called" /\ Phase' = [Phase EXCEPT ![u] = "done"]
      /\ req' = req /\ res' = [res EXCEPT ![u] = DB!Error]
  BY FinishPhase, SameOperators
<1>2. DB!Fail(u)
  BY <1>1 DEF DB!Fail, Phase
<1> QED BY <1>2 DEF DB!Next

LEMMA SelectStep ==
  ASSUME pc \in [Threads -> PcValues], NEW u \in Threads, pc[u] \in Locked \ {"unlock"},
         req[u] \in SelectRequests, DB!Acceptable(req[u]), files' = files,
         Finish(u, Ok(Matching(files[req[u].table].rows, req[u].where)))
  PROVE  DB!Next
<1>1. req[u].kind # "insert"
  BY DEF SelectRequests
<1>2. /\ Phase[u] = "called" /\ Phase' = [Phase EXCEPT ![u] = "done"] /\ req' = req
      /\ res' = [res EXCEPT ![u] = DB!Ok(DB!Matching(files[req[u].table].rows, req[u].where))]
  BY FinishPhase, SameOperators, SameMatching
<1>3. DB!Succeed(u)
  BY <1>1, <1>2 DEF DB!Succeed, Phase
<1> QED BY <1>3 DEF DB!Next

LEMMA InsertStep ==
  ASSUME pc \in [Threads -> PcValues], NEW u \in Threads, pc[u] \in Locked \ {"unlock"},
         req[u] \in InsertRequests, DB!Acceptable(req[u]),
         files' = [files EXCEPT ![req[u].table] = StoredRow(files[req[u].table], req[u])],
         Finish(u, Ok(<<>>))
  PROVE  DB!Next
<1>1. req[u].kind = "insert"
  BY DEF InsertRequests
<1>2. /\ Phase[u] = "called" /\ Phase' = [Phase EXCEPT ![u] = "done"]
      /\ req' = req /\ res' = [res EXCEPT ![u] = DB!Ok(<<>>)]
  BY FinishPhase, SameOperators
<1>3. \A file, r : DB!Inserted(file, r) = StoredRow(file, r)
  BY SameOperators DEF DB!Inserted, StoredRow
<1>4. files' = [files EXCEPT ![req[u].table] = DB!Inserted(files[req[u].table], req[u])]
  BY <1>3
<1>5. DB!Succeed(u)
  BY <1>1, <1>2, <1>4 DEF DB!Succeed, Phase
<1> QED BY <1>5 DEF DB!Next

-----------------------------------------------------------------------------
(* The facts behind the steps *)

\* Nobody is between the halves of an INSERT while another thread works.
LEMMA NoHalfInsert ==
  ASSUME LockInv, NEW u \in Threads, pc[u] \in Locked \ {"store"}
  PROVE  \A t \in Threads : pc[t] # "store"
  BY InsertIsAlone DEF Locked

\* A loaded table is the loadable file of its name.
LEMMA LoadedIsFile ==
  ASSUME Limits, RefinementInv, table.loaded, \A t \in Threads : pc[t] # "store"
  PROVE  LET file == files[table.table_name] IN
         file.rows = table.rows /\ file.cols = table.cols /\ Loadable(file)
<1>1. files[table.table_name] = [cols |-> table.cols, rows |-> table.rows]
  BY DEF RefinementInv, FileInv, MemoryMatchesFile
<1>2. table.cols \in Schemas /\ IndexableRows(table.rows)
  BY DEF RefinementInv, DataInv, TableState, IndexMatchesRows
<1> QED BY <1>1, <1>2 DEF Loadable, ReadableRows, Limits

\* The file that an INSERT is about to be stored in accepts the row.
LEMMA PendingIsAcceptable ==
  ASSUME Limits, RefinementInv, NEW u \in Threads, pc[u] = "store"
  PROVE  /\ req[u] \in InsertRequests /\ table.table_name = req[u].table
         /\ StorageAccepts(files[table.table_name], req[u]) /\ DB!Acceptable(req[u])
<1> DEFINE file == files[req[u].table]
           row == [id |-> NextId(file.rows), val |-> req[u].val]
<1>0. /\ DataInv /\ Stage(u) /\ TableState /\ table \in TableType
      /\ files \in [Names -> Files]
  BY DEF RefinementInv, DataInv, Stages, DataTypes
<1>1. /\ req[u] \in InsertRequests /\ table.loaded /\ req[u].cols = table.cols
      /\ IsActive(req[u].table) /\ req[u].table \in Names /\ req[u].val \in Values
      /\ table.cols \in Schemas
  BY <1>0 DEF Stage, InsertRequests, TableState
<1>2. table.table_name = req[u].table
  BY <1>0, <1>1, ActiveName DEF Limits
<1>3. table.rows = Append(file.rows, row) /\ (file = NoFile \/ file.cols = table.cols)
  BY <1>2 DEF RefinementInv, FileInv, Pending
<1>4. file.rows \in Seq(Rows) /\ NextId(file.rows) \in Nat
  <2>1. file \in Files
    BY <1>0, <1>1
  <2>2. file.rows \in Seq(Rows)
    BY <2>1 DEF Files
  <2> QED BY <2>2, NextIdIsAbove
<1>5. row \in Rows /\ row.id = NextId(file.rows)
  BY <1>1, <1>4 DEF Rows
<1> HIDE DEF row
<1>6. /\ Len(file.rows) \in Nat /\ Len(table.rows) = Len(file.rows) + 1
      /\ \A k \in 1 .. Len(file.rows) : table.rows[k] = file.rows[k]
      /\ table.rows[Len(file.rows) + 1] = row
  <2> HIDE DEF file
  <2> QED BY <1>3, <1>4, <1>5, AppendProperties, LenProperties
<1>7. /\ \A k \in 1 .. Len(table.rows) : table.rows[k].id \in 0 .. MaxId
      /\ \A k, l \in 1 .. Len(table.rows) : table.rows[k].id = table.rows[l].id => k = l
  BY DEF RefinementInv, IndexMatchesRows, IndexableRows
<1>8. IndexableRows(file.rows)
  <2> DEFINE n == Len(file.rows)
  <2>1. 1 .. n \subseteq 1 .. Len(table.rows)
    BY <1>6
  <2>2. \A k \in 1 .. n : file.rows[k].id \in 0 .. MaxId
    BY <1>6, <1>7, <2>1
  <2>3. \A k, l \in 1 .. n : file.rows[k].id = file.rows[l].id => k = l
    BY <1>6, <1>7, <2>1
  <2> QED BY <2>2, <2>3 DEF IndexableRows
<1>9. NextId(file.rows) <= MaxId
  BY <1>5, <1>6, <1>7, MaxIdAssumption
<1>10. file = NoFile \/ Loadable(file)
  BY <1>1, <1>3, <1>8 DEF Loadable, ReadableRows, Limits
<1>11. StorageAccepts(file, req[u])
  BY <1>1, <1>3 DEF StorageAccepts, NoFile, ReadableRows, Limits
<1>12. DB!Acceptable(req[u])
  BY <1>1, <1>3, <1>9, <1>10, AcceptableInsert
<1> QED BY <1>1, <1>2, <1>11, <1>12

\* An INSERT that is rejected is one that Database refuses.
LEMMA RejectedIsUnacceptable ==
  ASSUME Limits, RefinementInv, NEW u \in Threads, pc[u] = "insert",
         DB!Acceptable(req[u])
  PROVE  SchemaAccepts(req[u]) /\ RowFits
<1> DEFINE file == files[req[u].table]
<1>0. /\ DataInv /\ Stage(u) /\ TableState /\ table \in TableType /\ LockInv
      /\ files \in [Names -> Files]
  BY DEF RefinementInv, DataInv, Stages, DataTypes
<1>1. req[u] \in InsertRequests /\ IsActive(req[u].table) /\ req[u].table \in Names
  BY <1>0 DEF Stage, InsertRequests
<1>2. table.table_name = req[u].table
  BY <1>0, <1>1, ActiveName DEF Limits
<1>3. /\ req[u].cols \in Schemas /\ NextId(file.rows) <= MaxId
      /\ file = NoFile \/ file.cols = req[u].cols
  BY <1>1, AcceptableInsert
<1>4. \A t \in Threads : pc[t] # "store"
  BY <1>0, NoHalfInsert DEF Locked, PcValues
<1>5. table.next_id = NextId(table.rows)
  BY DEF RefinementInv, FileInv
<1>6. CASE table.loaded
  <2>1. file.rows = table.rows /\ file.cols = table.cols /\ Loadable(file)
    BY <1>2, <1>4, <1>6, LoadedIsFile
  <2>2. file # NoFile
    BY <2>1, SchemasAssumption DEF Loadable, NoFile
  <2>3. SchemaAccepts(req[u])
    BY <1>3, <1>6, <2>1, <2>2 DEF SchemaAccepts
  <2>4. \A e \in table.index : e[1] < table.next_id
    BY DEF RefinementInv, IndexMatchesRows
  <2>5. table.next_id <= MaxId /\ table.next_id \in Int
    BY <1>0, <1>3, <1>5, <2>1, MaxIdAssumption DEF TableType
  <2> QED BY <2>3, <2>4, <2>5 DEF RowFits
<1>7. CASE ~table.loaded
  <2>1. table.index = {} /\ table.next_id = 1
    BY <1>0, <1>7 DEF TableState
  <2>2. req[u].cols # ExplicitId
    BY <1>3, ExplicitIdAssumption
  <2> QED BY <1>7, <2>1, <2>2, MaxIdAssumption DEF SchemaAccepts, RowFits
<1> QED BY <1>6, <1>7

\* The search of the id index finds what a scan of the file would find.
LEMMA CollectedRows ==
  ASSUME RefinementInv, NEW where, UsesIdIndex(where)
  PROVE  RowsById(where[2]) = Matching(table.rows, where)
<1> DEFINE key == where[2]
           slots == {entry[2] : entry \in {e \in table.index : e[1] = key}}
<1>1. table.rows \in Seq(Rows) /\ where[1] = "id"
  BY DEF RefinementInv, DataInv, DataTypes, TableType, UsesIdIndex
<1>2. /\ table.index = {<<table.rows[k].id, k>> : k \in 1 .. Len(table.rows)}
      /\ \A k, l \in 1 .. Len(table.rows) : table.rows[k].id = table.rows[l].id => k = l
  BY DEF RefinementInv, IndexMatchesRows, IndexableRows
<1>3. \A k : k \in slots <=> k \in 1 .. Len(table.rows) /\ table.rows[k].id = key
  <2>1. \A e \in table.index : e = <<e[1], e[2]>> /\ e[2] \in 1 .. Len(table.rows)
                                /\ e[1] = table.rows[e[2]].id
    BY <1>2
  <2>2. \A k \in 1 .. Len(table.rows) : <<table.rows[k].id, k>> \in table.index
    BY <1>2
  <2>3. ASSUME NEW k \in slots
        PROVE  k \in 1 .. Len(table.rows) /\ table.rows[k].id = key
    BY <2>1
  <2>4. ASSUME NEW k \in 1 .. Len(table.rows), table.rows[k].id = key PROVE k \in slots
    <3>1. <<key, k>> \in {e \in table.index : e[1] = key}
      BY <2>2, <2>4
    <3> QED BY <3>1
  <2> QED BY <2>3, <2>4
<1>4. RowsById(key) = IF slots = {} THEN <<>> ELSE <<table.rows[CHOOSE s \in slots : TRUE]>>
  BY DEF RowsById
<1> HIDE DEF slots, key
<1>5. CASE slots = {}
  BY <1>1, <1>2, <1>3, <1>4, <1>5, MatchingById DEF key
<1>6. CASE slots # {}
  <2> DEFINE s == CHOOSE s \in slots : TRUE
  <2>1. s \in slots
    BY <1>6
  <2> HIDE DEF s
  <2>2. Matching(table.rows, where) = <<table.rows[s]>>
    BY <1>1, <1>2, <1>3, <2>1, MatchingById DEF key
  <2> QED BY <1>4, <1>6, <2>2 DEF s, key
<1> QED BY <1>5, <1>6 DEF key

\* A column the table lacks is never the id that the index is searched for.
LEMMA MissingColumns ==
  /\ ~UsesIdIndex(NoColumn) /\ ~UsesIdIndex(NoSelected)
  /\ NoColumn # NoSelected
<1>1. NoColumn[1] = "no column" /\ NoSelected[1] = "no selected"
  BY DEF NoColumn, NoSelected
<1> QED BY <1>1 DEF UsesIdIndex

\* The two ways in which a SELECT on a loaded table is refused.
LEMMA SelectedError ==
  ASSUME NEW where, where = NoSelected \/ (where = NoColumn /\ table.rows # <<>>)
  PROVE  Selected(where) = Error
  BY MissingColumns DEF Selected

\* In all other cases it returns the rows that satisfy the condition; on a table
\* without rows that is so for a condition on an unknown column as well.
LEMMA SelectedRows ==
  ASSUME RefinementInv, NEW where, where # NoSelected, where = NoColumn => table.rows = <<>>
  PROVE  Selected(where) = Ok(Matching(table.rows, where))
<1>1. CASE UsesIdIndex(where)
  <2>1. RowsById(where[2]) = Matching(table.rows, where)
    BY <1>1, CollectedRows
  <2> QED BY <1>1, <2>1, MissingColumns DEF Selected
<1>2. CASE ~UsesIdIndex(where)
  BY <1>2 DEF Selected, RowsByScan
<1> QED BY <1>1, <1>2

-----------------------------------------------------------------------------
(* The refinement *)

\* A load that fails without a fault is one of a file that Database refuses.
LEMMA FailedLoad ==
  ASSUME Limits, NEW r \in InsertRequests \cup SelectRequests, LoadFails(r.table)
  PROVE  ~DB!Acceptable(r) \/ Faults # {}
<1>1. files[r.table] # NoFile
  BY DEF LoadFails
<1>2. "load" \in Faults \/ ~Loadable(files[r.table])
  BY DEF LoadFails, ReadableRows, Limits
<1> QED BY <1>1, <1>2, AcceptableInsert, AcceptableSelect

\* Every step inside the locked region is a step of Database or none.
LEMMA WorkImplements ==
  ASSUME Limits, RefinementInv, NEW u \in Threads, Work(u)
  PROVE  DB!Next \/ UNCHANGED DB!vars
<1>0. /\ DataInv /\ LockInv /\ Stage(u) /\ TableState /\ table \in TableType
      /\ pc \in [Threads -> PcValues]
  BY DEF RefinementInv, DataInv, Stages, DataTypes, LockInv, LockTypes
<1>1. ASSUME NEW label \in Locked \ {"unlock"}, pc' = [pc EXCEPT ![u] = label],
             pc[u] \in Locked \ {"unlock"}, UNCHANGED <<files, req, res>>
      PROVE  UNCHANGED DB!vars
  <2>1. Phase' = Phase
    BY <1>0, <1>1 DEF Phase, Locked
  <2> QED BY <1>1, <2>1, Stutter
<1>2. CASE KeepReadLock(u) \/ GetOrLoad(u) \/ LoadForInsert(u) \/ AddRow(u)
  <2>1. UNCHANGED <<files, req, res>> /\ pc[u] \in Locked \ {"unlock"}
    BY <1>2 DEF KeepReadLock, GetOrLoad, LoadForInsert, AddRow, Goto, Locked, PcValues
  <2>2. \E label \in Locked \ {"unlock"} : pc' = [pc EXCEPT ![u] = label]
    BY <1>2 DEF KeepReadLock, GetOrLoad, LoadForInsert, AddRow, Goto, Locked, PcValues
  <2> QED BY <1>1, <2>1, <2>2
<1>3. CASE Refuse(u)
  <2>1. pc[u] \in Locked \ {"unlock"} /\ Finish(u, Error) /\ files' = files
    BY <1>3 DEF Refuse, Locked, PcValues
  <2>2. ~DB!Acceptable(req[u])
    BY <1>3, AcceptableOther DEF Refuse
  <2> QED BY <1>0, <2>1, <2>2, FailStep
<1>4. CASE LoadForSelect(u)
  <2>1. /\ pc[u] = "load" /\ req[u].kind = "select" /\ files' = files
        /\ LoadSucceeds(req[u].table)
        /\ IF table'.loaded THEN Goto(u, "collect") ELSE Finish(u, Error)
    BY <1>4 DEF LoadForSelect
  <2>2. req[u] \in SelectRequests
    BY <1>0, <2>1 DEF Stage, InsertRequests, SelectRequests
  <2>3. CASE table'.loaded
    BY <1>1, <2>1, <2>3 DEF Goto, Locked, PcValues
  <2>4. CASE ~table'.loaded
    <3>1. files[req[u].table] = NoFile
      BY <2>1, <2>4 DEF LoadSucceeds, LoadedFrom
    <3>2. ~DB!Acceptable(req[u])
      BY <2>2, <3>1, AcceptableSelect, SchemasAssumption DEF Loadable, NoFile
    <3>3. pc[u] \in Locked \ {"unlock"}
      BY <2>1 DEF Locked, PcValues
    <3> QED BY <1>0, <2>1, <2>4, <3>2, <3>3, FailStep
  <2> QED BY <2>3, <2>4
<1>5. CASE LoadError(u)
  <2>1. /\ pc[u] \in Locked \ {"unlock"} /\ Finish(u, Error) /\ files' = files
        /\ LoadFails(req[u].table) /\ req[u] \in InsertRequests \cup SelectRequests
    BY <1>0, <1>5 DEF LoadError, Stage, Locked, PcValues
  <2> QED BY <1>0, <2>1, FailedLoad, FailStep
<1>6. CASE RejectRow(u)
  <2>1. /\ pc[u] = "insert" /\ Finish(u, Error) /\ files' = files
        /\ ~(SchemaAccepts(req[u]) /\ RowFits)
    BY <1>6 DEF RejectRow
  <2>2. ~DB!Acceptable(req[u])
    BY <2>1, RejectedIsUnacceptable
  <2>3. pc[u] \in Locked \ {"unlock"}
    BY <2>1 DEF Locked, PcValues
  <2> QED BY <1>0, <2>1, <2>2, <2>3, FailStep
<1>7. CASE StoreRow(u)
  <2> DEFINE name == req[u].table
  <2>1. pc[u] = "store"
    BY <1>7 DEF StoreRow
  <2>2. /\ req[u] \in InsertRequests /\ table.table_name = name /\ DB!Acceptable(req[u])
    BY <2>1, PendingIsAcceptable
  <2>3. /\ files' = [files EXCEPT ![name] = StoredRow(files[name], req[u])]
        /\ Finish(u, Ok(<<>>)) /\ pc[u] \in Locked \ {"unlock"}
    BY <1>7, <2>2 DEF StoreRow, Locked, PcValues
  <2> QED BY <1>0, <2>2, <2>3, InsertStep
<1>8. CASE StoreFails(u)
  <2>1. pc[u] = "store" /\ Goto(u, "reload")
    BY <1>8 DEF StoreFails
  <2>2. StorageAccepts(files[table.table_name], req[u]) /\ "lock" \notin Faults
    BY <2>1, PendingIsAcceptable DEF Limits
  <2>3. files' = files
    BY <1>8, <2>2 DEF StoreFails
  <2> QED BY <1>1, <2>1, <2>3 DEF Goto, Locked, PcValues
<1>9. CASE Reload(u)
  <2>1. pc[u] \in Locked \ {"unlock"} /\ Finish(u, Error) /\ files' = files
    BY <1>9 DEF Reload, Locked, PcValues
  <2>2. Faults # {}
    BY <1>9 DEF Reload, RefinementInv, ReloadAfterFault
  <2> QED BY <1>0, <2>1, <2>2, FailStep
<1>10. CASE Collect(u)
  <2> DEFINE where == req[u].where
             name == req[u].table
  <2>1. pc[u] = "collect" /\ files' = files /\ Finish(u, Selected(where))
    BY <1>10 DEF Collect
  <2>2. pc[u] \in Locked \ {"unlock", "store"}
    BY <2>1 DEF Locked, PcValues
  <2>3. /\ req[u] \in SelectRequests /\ table.loaded /\ IsActive(name) /\ name \in Names
    BY <1>0, <2>1 DEF Stage, SelectRequests
  <2>4. table.table_name = name
    BY <1>0, <2>3, ActiveName DEF Limits
  <2>5. files[name].rows = table.rows /\ Loadable(files[name])
    BY <1>0, <2>2, <2>3, <2>4, NoHalfInsert, LoadedIsFile
  <2>6. CASE where = NoSelected \/ (where = NoColumn /\ table.rows # <<>>)
    <3>1. ~DB!Acceptable(req[u])
      BY <2>3, <2>5, <2>6, AcceptableSelect
    <3>2. Selected(where) = Error
      BY <2>6, SelectedError
    <3> QED BY <1>0, <2>1, <2>2, <3>1, <3>2, FailStep
  <2>7. CASE where # NoSelected /\ (where = NoColumn => table.rows = <<>>)
    <3>1. DB!Acceptable(req[u])
      BY <2>3, <2>5, <2>7, AcceptableSelect
    <3>2. Selected(where) = Ok(Matching(files[name].rows, where))
      BY <2>5, <2>7, SelectedRows DEF RefinementInv
    <3> QED BY <1>0, <2>1, <2>2, <2>3, <3>1, <3>2, SelectStep
  <2> QED BY <2>6, <2>7
<1>11. /\ ~OutOfMemory(u) /\ ~AddRowOutOfMemory(u) /\ ~StoreRowUnflushed(u)
       /\ ~IndexSplitFails(u)
  BY DEF OutOfMemory, AddRowOutOfMemory, StoreRowUnflushed, IndexSplitFails, Limits
<1> QED BY <1>2, <1>3, <1>4, <1>5, <1>6, <1>7, <1>8, <1>9, <1>10, <1>11 DEF Work

\* Every step of the engine is a step of Database or none.
LEMMA NextImplements ==
  ASSUME Limits, RefinementInv, [Next]_vars
  PROVE  [DB!Next]_(DB!vars)
<1>0. pc \in [Threads -> PcValues]
  BY DEF RefinementInv, DataInv, LockInv, LockTypes
<1>1. ASSUME NEW u \in Threads, Work(u) PROVE [DB!Next]_(DB!vars)
  BY <1>1, WorkImplements
<1>2. ASSUME NEW u \in Threads, AcquireForRead(u) \/ AcquireForWrite(u) \/ UpgradeLock(u)
      PROVE  UNCHANGED DB!vars
  <2>1. UNCHANGED <<files, req, res>>
    BY <1>2 DEF AcquireForRead, AcquireForWrite, UpgradeLock
  <2>2. Phase' = Phase
    BY <1>0, <1>2 DEF AcquireForRead, AcquireForWrite, UpgradeLock, Phase
  <2> QED BY <2>1, <2>2, Stutter
<1>3. ASSUME NEW u \in Threads, Return(u) PROVE DB!Next
  <2>1. Phase[u] = "done" /\ Phase' = [Phase EXCEPT ![u] = "idle"]
    BY <1>0, <1>3 DEF Return, Phase
  <2>2. DB!Return(u)
    BY <1>3, <2>1 DEF Return, DB!Return, Phase
  <2> QED BY <2>2 DEF DB!Next
<1>4. ASSUME NEW u \in Threads, NEW r \in Requests, Call(u, r) PROVE DB!Next
  <2>1. Phase[u] = "idle" /\ Phase' = [Phase EXCEPT ![u] = "called"]
    BY <1>0, <1>4 DEF Call, Phase
  <2>2. DB!Call(u, r)
    BY <1>4, <2>1 DEF Call, DB!Call, Phase
  <2> QED BY <2>2 DEF DB!Next
<1>5. CASE Reopen \/ UNCHANGED vars
  <2>1. UNCHANGED <<files, req, res>> /\ pc' = pc
    BY <1>5 DEF Reopen, threadVars, vars
  <2> QED BY <2>1, Stutter DEF Phase
<1> QED BY <1>1, <1>2, <1>3, <1>4, <1>5 DEF Next, Step, Work

\* A statement arrives at the reload only after a fault.
LEMMA ReloadKept ==
  ASSUME Limits, RefinementInv, [Next]_vars
  PROVE  ReloadAfterFault'
<1> SUFFICES ASSUME NEW t \in Threads, pc'[t] = "reload" PROVE "open" \in Faults
  BY DEF ReloadAfterFault
<1>0. pc \in [Threads -> PcValues]
  BY DEF RefinementInv, DataInv, LockInv, LockTypes
<1>1. CASE pc[t] = "reload"
  BY <1>1 DEF RefinementInv, ReloadAfterFault
<1>2. CASE pc[t] # "reload"
  <2>1. StoreFails(t)
    <3>1. ASSUME NEW u \in Threads, Work(u) PROVE StoreFails(t)
      <4>1. u = t
        BY <1>0, <1>2, <3>1, WorkFrame
      <4>2. CASE KeepReadLock(u)
        BY <1>0, <4>1, <4>2 DEF KeepReadLock
      <4>3. CASE Refuse(u) \/ OutOfMemory(u) \/ Collect(u) \/ RejectRow(u) \/ LoadError(u)
                 \/ AddRowOutOfMemory(u) \/ IndexSplitFails(u) \/ StoreRow(u)
                 \/ StoreRowUnflushed(u) \/ Reload(u)
        BY <1>0, <4>1, <4>3 DEF Refuse, OutOfMemory, Collect, RejectRow, LoadError,
             AddRowOutOfMemory, IndexSplitFails, StoreRow, StoreRowUnflushed, Reload, Finish
      <4>4. CASE GetOrLoad(u) \/ LoadForInsert(u) \/ AddRow(u)
        BY <1>0, <4>1, <4>4 DEF GetOrLoad, LoadForInsert, AddRow, Goto
      <4>5. CASE LoadForSelect(u)
        BY <1>0, <4>1, <4>5 DEF LoadForSelect, Goto, Finish
      <4> QED BY <3>1, <4>1, <4>2, <4>3, <4>4, <4>5 DEF Work
    <3>2. ASSUME NEW u \in Threads,
                 AcquireForRead(u) \/ AcquireForWrite(u) \/ UpgradeLock(u) \/ Return(u)
          PROVE  FALSE
      BY <1>0, <1>2, <3>2 DEF AcquireForRead, AcquireForWrite, UpgradeLock, Return
    <3>3. ASSUME NEW u \in Threads, NEW r \in Requests, Call(u, r) PROVE FALSE
      BY <1>0, <1>2, <3>3 DEF Call
    <3>4. ~Reopen /\ ~UNCHANGED vars
      BY <1>2 DEF Reopen, threadVars, vars
    <3> QED BY <3>1, <3>2, <3>3, <3>4 DEF Next, Step, Work
  <2>2. pc[t] = "store"
    BY <2>1 DEF StoreFails
  <2>3. StorageAccepts(files[table.table_name], req[t]) /\ "lock" \notin Faults
    BY <2>2, PendingIsAcceptable DEF Limits
  <2> QED BY <2>1, <2>3 DEF StoreFails
<1> QED BY <1>1, <1>2

\* As long as table names have no case variants, every value can be read back,
\* and only opening, locking or loading a file fails, execute_query_with_lock is
\* atomic: every statement takes effect at one instant between its call and its
\* return, reads exactly what the files hold at that instant, and has no effect
\* at all if it reports an error.
THEOREM EngineIsDatabase ==
  ASSUME Limits
  PROVE  Spec => ImplementsDatabase
<1>1. "index" \notin Faults /\ "memory" \notin Faults /\ "flush" \notin Faults /\ NoCaseVariants
  BY DEF Limits
<1>2. Spec => []IndexMatchesRows
  BY <1>1, IndexIsExact
<1>3. Spec => []FileInv
  BY <1>1, FileInvariance
<1>4. Init => ReloadAfterFault
  BY DEF Init, ReloadAfterFault
<1>5. DataInv /\ IndexMatchesRows /\ FileInv /\ ReloadAfterFault /\ [Next]_vars
        => ReloadAfterFault' /\ [DB!Next]_(DB!vars)
  BY ReloadKept, NextImplements DEF RefinementInv
<1>6. Init => DB!Init
  <2> SUFFICES ASSUME Init PROVE DB!Init
    OBVIOUS
  <2>1. Phase = [t \in Threads |-> "idle"]
    BY DEF Init, Phase
  <2> QED BY <2>1, SameOperators DEF Init, DB!Init, Phase
<1> QED BY <1>2, <1>3, <1>4, <1>5, <1>6, DataInvariance, PTL
        DEF Spec, DB!Spec, ImplementsDatabase
=============================================================================

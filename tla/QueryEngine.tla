---------------------------- MODULE QueryEngine ----------------------------
(***************************************************************************)
(* execute_query_with_lock (db/db_engine_facade.c) and what it runs: the    *)
(* lock manager, the executor, the single active table of                   *)
(* db/table_runtime.c and the CSV files of db/storage.c.  The steps of a    *)
(* statement interleave with those of the other threads; what keeps them    *)
(* apart is only the lock the code takes.                                   *)
(***************************************************************************)
EXTENDS TableData

CONSTANTS Threads,
          NoThread,
          Fold,          \* Fold[n]: the name n in lower case
          Policy,        \* the lock policy given to init_lock_manager
          Wheres,        \* the WHERE clauses that are tried
          Faults,        \* the failures the environment may produce
          InitialFiles,  \* contents of the data directory at the start
          MaxCalls       \* bound: statements executed in one behaviour

AllFaults == {"memory",  \* an allocation of the facade or the executor fails
              "index",   \* an allocation of bptree_insert fails in a split
              "load",    \* opening or locking the file, or an allocation,
                         \* fails during a load
              "open",    \* storage_insert fails and leaves no trace
              "lock",    \* storage_insert fails after fopen created the file
              "flush"}   \* the row never leaves the stdio buffer

ASSUME FoldAssumption == Fold \in [Names -> Names]
ASSUME PolicyAssumption == Policy \in {"SPLIT_RWLOCK", "GLOBAL_MUTEX"}
ASSUME FaultsAssumption == Faults \subseteq AllFaults
ASSUME ThreadAssumption == NoThread \notin Threads
ASSUME MaxCallsAssumption == MaxCalls \in Nat
ASSUME InitialFilesAssumption == InitialFiles \subseteq [Names -> Files]

VARIABLES
  table,           \* table_runtime_active
  files,           \* the files data/<name>.csv
  readers, writer, \* the holders of db_rwlock (of db_mutex: writer)
  pc,              \* per thread: where it is in execute_query_with_lock
  lock_mode,       \* per thread: its local lock_mode
  req, res,        \* per thread: statement and DbResult
  calls            \* statements begun so far

lockVars   == <<readers, writer>>
threadVars == <<pc, lock_mode, req, res, calls>>
vars == <<table, files, readers, writer, pc, lock_mode, req, res, calls>>

InsertRequests == [kind : {"insert"}, table : Names,
                   cols : Schemas \cup {ExplicitId}, val : Values]
SelectRequests == [kind : {"select"}, table : Names, where : Wheres]
\* DELETE, which the executor refuses, and text that does not parse.
OtherRequests  == [kind : {"delete", "unparsable"}]
Requests == InsertRequests \cup SelectRequests \cup OtherRequests

Error    == [ok |-> FALSE, rows |-> <<>>]
Ok(rows) == [ok |-> TRUE, rows |-> rows]

\* A name that is no table's: table_name is the empty string.
NoName == "no name"
ASSUME NoNameAssumption == NoName \notin Names

\* The runtime table that table_init and table_set_active_name leave behind.
Unloaded(name) == [table_name |-> name, loaded |-> FALSE, cols |-> Absent,
                   rows |-> <<>>, index |-> {}, next_id |-> 1]

\* utils_equals_ignore_case on the active table's name
IsActive(name) ==
  table.table_name # NoName /\ Fold[table.table_name] = Fold[name]

\* table_runtime_is_loaded_for
IsLoadedFor(name) == table.loaded /\ IsActive(name)

PcValues == {"idle", "lock", "check", "execute", "load", "insert", "store",
             "reload", "collect", "unlock"}

TypeOK ==
  /\ table \in [table_name : Names \cup {NoName}, loaded : BOOLEAN,
                cols : Schemas \cup {Absent}, rows : Seq(Rows),
                index : SUBSET (Nat \X Nat), next_id : 1 .. MaxId + 1]
  /\ files \in [Names -> Files]
  /\ readers \subseteq Threads
  /\ writer \in Threads \cup {NoThread}
  /\ pc \in [Threads -> PcValues]
  /\ lock_mode \in [Threads -> {"read", "write"}]
  /\ req \in [Threads -> Requests \cup {<<>>}]
  /\ res \in [Threads -> [ok : BOOLEAN, rows : Seq(Rows)]]
  /\ calls \in 0 .. MaxCalls

Init == /\ table = Unloaded(NoName)
        /\ files \in InitialFiles
        /\ readers = {} /\ writer = NoThread
        /\ pc = [t \in Threads |-> "idle"]
        /\ lock_mode = [t \in Threads |-> "read"]
        /\ req = [t \in Threads |-> <<>>]
        /\ res = [t \in Threads |-> Error]
        /\ calls = 0

-----------------------------------------------------------------------------
(* The facade and the lock manager *)

\* Deviation: an INSERT starts under the read lock as well.
InitialLockModeReadForInsert(r) ==
  IF r.kind \in {"select", "insert"} THEN "read" ELSE "write"

\* db_engine_choose_initial_lock_mode, after the parse that precedes the lock
InitialLockMode(r) == IF r.kind = "select" THEN "read" ELSE "write"

\* A thread calls execute_query_with_lock.  A parse that runs out of memory
\* leaves no statement to look at, so that the write lock is taken.
Call(t, r) ==
  /\ pc[t] = "idle" /\ calls < MaxCalls
  /\ req' = [req EXCEPT ![t] = r]
  /\ \/ lock_mode' = [lock_mode EXCEPT ![t] = InitialLockMode(r)]
     \/ "memory" \in Faults /\ lock_mode' = [lock_mode EXCEPT ![t] = "write"]
  /\ pc' = [pc EXCEPT ![t] = "lock"]
  /\ calls' = calls + 1
  /\ UNCHANGED <<table, files, lockVars, res>>

\* Deviation: the writer does not wait for the readers.
LockDbIgnoresReaders(t) ==
  IF Policy = "SPLIT_RWLOCK" /\ lock_mode[t] = "read"
    THEN writer = NoThread /\ readers' = readers \cup {t} /\ writer' = writer
    ELSE writer = NoThread /\ readers' = readers /\ writer' = t

\* lock_db_for_query
LockDb(t) ==
  IF Policy = "SPLIT_RWLOCK" /\ lock_mode[t] = "read"
    THEN writer = NoThread /\ readers' = readers \cup {t} /\ writer' = writer
    ELSE writer = NoThread /\ readers = {} /\ readers' = {} /\ writer' = t

\* unlock_db_for_query
UnlockDb(t) ==
  /\ readers' = readers \ {t}
  /\ writer' = IF writer = t THEN NoThread ELSE writer

\* The read lock, or the mutex, for a SELECT: the table is examined next.
AcquireForRead(t) ==
  /\ pc[t] = "lock" /\ lock_mode[t] = "read"
  /\ LockDb(t)
  /\ pc' = [pc EXCEPT ![t] = "check"]
  /\ UNCHANGED <<table, files, lock_mode, req, res, calls>>

AcquireForWrite(t) ==
  /\ pc[t] = "lock" /\ lock_mode[t] = "write"
  /\ LockDb(t)
  /\ pc' = [pc EXCEPT ![t] = "execute"]
  /\ UNCHANGED <<table, files, lock_mode, req, res, calls>>

\* Deviation: the table is not examined.
KeepReadLockUnchecked(t) ==
  /\ pc[t] = "check"
  /\ pc' = [pc EXCEPT ![t] = "execute"]
  /\ UNCHANGED <<table, files, lockVars, lock_mode, req, res, calls>>

\* The SELECT's table is in memory: it keeps the read lock.
KeepReadLock(t) ==
  /\ pc[t] = "check"
  /\ IsLoadedFor(req[t].table)
  /\ pc' = [pc EXCEPT ![t] = "execute"]
  /\ UNCHANGED <<table, files, lockVars, lock_mode, req, res, calls>>

\* Deviation: the write lock is requested with the read lock still held.
UpgradeLockInPlace(t) ==
  /\ pc[t] = "check"
  /\ ~IsLoadedFor(req[t].table)
  /\ lock_mode' = [lock_mode EXCEPT ![t] = "write"]
  /\ pc' = [pc EXCEPT ![t] = "lock"]
  /\ UNCHANGED <<table, files, lockVars, req, res, calls>>

\* It is not: the read lock is given back before the write lock is requested.
UpgradeLock(t) ==
  /\ pc[t] = "check"
  /\ ~IsLoadedFor(req[t].table)
  /\ UnlockDb(t)
  /\ lock_mode' = [lock_mode EXCEPT ![t] = "write"]
  /\ pc' = [pc EXCEPT ![t] = "lock"]
  /\ UNCHANGED <<table, files, req, res, calls>>

\* The statement has its result; the lock is released next.
Finish(t, result) ==
  /\ res' = [res EXCEPT ![t] = result]
  /\ pc' = [pc EXCEPT ![t] = "unlock"]
  /\ UNCHANGED <<lockVars, lock_mode, req, calls>>

Goto(t, label) ==
  /\ pc' = [pc EXCEPT ![t] = label]
  /\ UNCHANGED <<lockVars, lock_mode, req, res, calls>>

\* db_execute_sql refuses what does not parse, the executor a DELETE.
Refuse(t) ==
  /\ pc[t] = "execute"
  /\ req[t].kind \in {"delete", "unparsable"}
  /\ Finish(t, Error)
  /\ UNCHANGED <<table, files>>

\* No memory for the text, its tokens or the rows of the result.
OutOfMemory(t) ==
  /\ "memory" \in Faults
  /\ pc[t] \in {"execute", "collect"}
  /\ Finish(t, Error)
  /\ UNCHANGED <<table, files>>

\* execute_query_with_lock unlocks and returns.
Return(t) ==
  /\ pc[t] = "unlock"
  /\ UnlockDb(t)
  /\ pc' = [pc EXCEPT ![t] = "idle"]
  /\ UNCHANGED <<table, files, lock_mode, req, res, calls>>

\* db_engine_shutdown followed by db_engine_init, with no statement running.
Reopen ==
  /\ \A t \in Threads : pc[t] = "idle"
  /\ table' = Unloaded(NoName)
  /\ UNCHANGED <<files, lockVars, threadVars>>

-----------------------------------------------------------------------------
(* The active table *)

\* Deviation: a loaded table is taken for the statement's without a look at its
\* name.
GetOrLoadKeepsLoaded(t) ==
  /\ pc[t] = "execute"
  /\ req[t].kind \in {"insert", "select"}
  /\ table' = IF table.loaded \/ IsActive(req[t].table) THEN table
                                                        ELSE Unloaded(req[t].table)
  /\ Goto(t, "load")
  /\ files' = files

\* table_get_or_load: another table's name evicts the active table.
GetOrLoad(t) ==
  /\ pc[t] = "execute"
  /\ req[t].kind \in {"insert", "select"}
  /\ table' = IF IsActive(req[t].table) THEN table
                                        ELSE Unloaded(req[t].table)
  /\ Goto(t, "load")
  /\ files' = files

\* Deviation: next_id counts the rows instead of following the largest id.
LoadedFromCountsRows(name) ==
  LET rows == files[name].rows IN
  [table_name |-> name, loaded |-> TRUE, cols |-> files[name].cols,
   rows |-> rows, index |-> {<<rows[k].id, k>> : k \in 1 .. Len(rows)},
   next_id |-> Len(rows) + 1]

\* The runtime table built from a file that can be loaded.
LoadedFrom(name) ==
  LET rows == files[name].rows IN
  [table_name |-> name, loaded |-> TRUE, cols |-> files[name].cols,
   rows |-> rows, index |-> {<<rows[k].id, k>> : k \in 1 .. Len(rows)},
   next_id |-> NextId(rows)]

\* table_load_from_storage_if_needed: nothing is done for a loaded table or a
\* missing file; a file that storage_load_table cannot read leaves the table
\* as it is, one whose header or ids are unusable resets it.
LoadSucceeds(name) ==
  \/ table.loaded /\ table' = table
  \/ ~table.loaded /\ files[name] = NoFile /\ table' = table
  \/ ~table.loaded /\ Loadable(files[name]) /\ table' = LoadedFrom(name)

LoadFails(name) ==
  /\ ~table.loaded /\ files[name] # NoFile
  /\ \/ "load" \in Faults /\ table' \in {table, Unloaded(name)}
     \/ ~ReadableRows(files[name].rows) /\ table' = table
     \/ /\ ReadableRows(files[name].rows) /\ ~Loadable(files[name])
        /\ table' = Unloaded(name)

LoadForInsert(t) ==
  /\ pc[t] = "load" /\ req[t].kind = "insert"
  /\ LoadSucceeds(req[t].table)
  /\ Goto(t, "insert")
  /\ files' = files

\* Deviation: a SELECT goes on although there is no table.
LoadForSelectUnchecked(t) ==
  /\ pc[t] = "load" /\ req[t].kind = "select"
  /\ LoadSucceeds(req[t].table)
  /\ Goto(t, "collect")
  /\ files' = files

\* A SELECT goes on only if there is a table.
LoadForSelect(t) ==
  /\ pc[t] = "load" /\ req[t].kind = "select"
  /\ LoadSucceeds(req[t].table)
  /\ IF table'.loaded THEN Goto(t, "collect") ELSE Finish(t, Error)
  /\ files' = files

LoadError(t) ==
  /\ pc[t] = "load"
  /\ LoadFails(req[t].table)
  /\ Finish(t, Error)
  /\ files' = files

-----------------------------------------------------------------------------
(* INSERT *)

\* table_validate_insert_schema on a loaded table, table_initialize_schema
\* otherwise
SchemaAccepts(r) == IF table.loaded THEN r.cols = table.cols
                                    ELSE r.cols # ExplicitId

\* The table with its schema, before the row is added.
WithSchema(r) == [table EXCEPT !.loaded = TRUE, !.cols = r.cols]

\* Deviation: off by one at INT_MAX.
RowFitsOffByOne == table.next_id <= MaxId + 1
             /\ \A entry \in table.index : entry[1] # table.next_id

\* The row can be added: its id is in range and bptree_insert knows no such id.
RowFits == table.next_id <= MaxId
             /\ \A entry \in table.index : entry[1] # table.next_id

\* table_build_row
BuiltRow(r) == [id |-> table.next_id, val |-> r.val]

\* table_insert_row up to the call of storage_insert: the new row goes to the
\* next slot and into the index.
AddRow(t) ==
  LET r == req[t] IN
  /\ pc[t] = "insert"
  /\ SchemaAccepts(r) /\ RowFits
  /\ table' = [WithSchema(r) EXCEPT
                 !.rows = Append(@, BuiltRow(r)),
                 !.index = @ \cup {<<table.next_id, Len(table.rows) + 1>>},
                 !.next_id = @ + 1]
  /\ Goto(t, "store")
  /\ files' = files

RejectRow(t) ==
  /\ pc[t] = "insert"
  /\ ~(SchemaAccepts(req[t]) /\ RowFits)
  /\ Finish(t, Error)
  /\ UNCHANGED <<table, files>>

\* An allocation fails after the schema was accepted.
AddRowOutOfMemory(t) ==
  /\ "memory" \in Faults
  /\ pc[t] = "insert"
  /\ SchemaAccepts(req[t])
  /\ table' = WithSchema(req[t])
  /\ Finish(t, Error)
  /\ files' = files

\* bptree_insert fails after it has halved a node: the index has lost the
\* entries above some id (BPTree shows how), and nobody puts them back.
IndexSplitFails(t) ==
  /\ "index" \in Faults
  /\ pc[t] = "insert"
  /\ SchemaAccepts(req[t]) /\ RowFits
  /\ \E last \in table.index :
       table' = [table EXCEPT !.index = {e \in @ : e[1] <= last[1]}]
  /\ Finish(t, Error)
  /\ files' = files

\* storage_insert into the active name's file: a missing or empty file gets a
\* header and the id 1; an existing one must have the same columns and be
\* readable to the end, for the scan of storage_get_next_auto_id.
StorageAccepts(file, r) ==
  \/ file.cols \in {Absent, Empty}
  \/ file.cols = r.cols /\ ReadableRows(file.rows)

\* Deviation: the file's next id is taken from its number of rows.
StoredRowCountsRows(file, r) ==
  [cols |-> r.cols,
   rows |-> Append(file.rows, [id |-> Len(file.rows) + 1, val |-> r.val])]

\* The file with its new row.
StoredRow(file, r) ==
  [cols |-> r.cols,
   rows |-> Append(file.rows, [id |-> NextId(file.rows), val |-> r.val])]

\* fopen in mode a+ creates the file.
Created(file) == IF file = NoFile THEN ZeroFile ELSE file

StoreRow(t) ==
  LET name == table.table_name IN
  /\ pc[t] = "store"
  /\ StorageAccepts(files[name], req[t])
  /\ files' = [files EXCEPT ![name] = StoredRow(@, req[t])]
  /\ table' = table
  /\ Finish(t, Ok(<<>>))

\* The return value of fflush is ignored: nothing was written, SUCCESS.
StoreRowUnflushed(t) ==
  LET name == table.table_name IN
  /\ "flush" \in Faults
  /\ pc[t] = "store"
  /\ StorageAccepts(files[name], req[t])
  /\ files' = [files EXCEPT ![name] = Created(@)]
  /\ table' = table
  /\ Finish(t, Ok(<<>>))

\* Deviation: the runtime table keeps the row that was not stored.
StoreFailsWithoutReset(t) ==
  LET name == table.table_name IN
  /\ pc[t] = "store"
  /\ \/ "open" \in Faults /\ files' = files
     \/ /\ "lock" \in Faults \/ ~StorageAccepts(files[name], req[t])
        /\ files' = [files EXCEPT ![name] = Created(@)]
  /\ table' = table
  /\ Goto(t, "reload")

\* storage_insert fails: the runtime table is reset under the statement's name.
StoreFails(t) ==
  LET name == table.table_name IN
  /\ pc[t] = "store"
  /\ \/ "open" \in Faults /\ files' = files
     \/ /\ "lock" \in Faults \/ ~StorageAccepts(files[name], req[t])
        /\ files' = [files EXCEPT ![name] = Created(@)]
  /\ table' = Unloaded(req[t].table)
  /\ Goto(t, "reload")

\* ... and is loaded again, whose outcome nobody looks at.
Reload(t) ==
  /\ pc[t] = "reload"
  /\ LoadSucceeds(req[t].table) \/ LoadFails(req[t].table)
  /\ Finish(t, Error)
  /\ files' = files

-----------------------------------------------------------------------------
(* SELECT *)

\* executor_collect_rows_by_id: one search of the id index, one row at most.
RowsById(key) ==
  LET slots == {entry[2] : entry \in {e \in table.index : e[1] = key}}
  IN  IF slots = {} THEN <<>> ELSE <<table.rows[CHOOSE s \in slots : TRUE]>>

\* executor_can_use_id_index, for a condition id = key
UsesIdIndex(where) == where[1] = "id" /\ table.index # {} /\ where[2] \in 0 .. MaxId

\* executor_collect_rows_by_scan and, without a condition,
\* executor_collect_all_rows
RowsByScan(where) == Matching(table.rows, where)

\* executor_execute_select once its table is loaded: the projection is prepared
\* first; table_linear_scan_by_field looks for the column of the condition only
\* if there is a row.
Selected(where) ==
  CASE where = NoSelected -> Error
    [] UsesIdIndex(where) -> Ok(RowsById(where[2]))
    [] where = NoColumn /\ table.rows # <<>> -> Error
    [] OTHER -> Ok(RowsByScan(where))

Collect(t) ==
  /\ pc[t] = "collect"
  /\ Finish(t, Selected(req[t].where))
  /\ UNCHANGED <<table, files>>

-----------------------------------------------------------------------------
Step(t) == \/ AcquireForRead(t) \/ AcquireForWrite(t)
           \/ KeepReadLock(t) \/ UpgradeLock(t)
           \/ Refuse(t) \/ OutOfMemory(t) \/ GetOrLoad(t)
           \/ LoadForInsert(t) \/ LoadForSelect(t) \/ LoadError(t)
           \/ AddRow(t) \/ RejectRow(t) \/ AddRowOutOfMemory(t)
           \/ IndexSplitFails(t)
           \/ StoreRow(t) \/ StoreRowUnflushed(t) \/ StoreFails(t) \/ Reload(t)
           \/ Collect(t) \/ Return(t)

Next == \/ \E t \in Threads : Step(t) \/ \E r \in Requests : Call(t, r)
        \/ Reopen

Spec == Init /\ [][Next]_vars

\* A thread that can run does run: it holds no lock while it waits for the
\* next one.
FairSpec == Spec /\ \A t \in Threads : WF_vars(Step(t))

-----------------------------------------------------------------------------
\* Table names that differ only in case are not used together.
NoCaseVariants == \A m, n \in Names : Fold[m] = Fold[n] => m = n

\* Holding the lock: the thread is past lock_db_for_query and has not yet
\* reached unlock_db_for_query.
Holding(t) == pc[t] \notin {"idle", "lock"}

\* The lock manager's promise to the executor: readers share, a writer is
\* alone, and a thread inside its locked region holds the lock of the mode it
\* asked for.
LockDiscipline ==
  /\ writer # NoThread => readers = {}
  /\ \A t \in Threads :
       Holding(t) => IF lock_mode[t] = "read" /\ Policy = "SPLIT_RWLOCK"
                       THEN t \in readers ELSE writer = t

\* What a SELECT found under the read lock stays true until it gives the lock
\* back: its table is in memory, so that table_get_or_load and
\* table_load_from_storage_if_needed have nothing to do.
ReadLockSuffices ==
  \A t \in Threads :
    lock_mode[t] = "read" /\ pc[t] \in {"execute", "load", "collect", "unlock"}
      => IsLoadedFor(req[t].table)

\* The active table and the files change only in the hands of the one thread
\* that holds the lock for writing, while nobody reads, or with no statement
\* in progress at all (db_engine_shutdown).
OnlyWriterChanges ==
  [][table' # table \/ files' # files =>
       /\ readers = {}
       /\ writer # NoThread \/ \A t \in Threads : ~Holding(t)]_vars

\* A file changes only while a statement that names its table, up to case, has
\* the write lock: storage_insert is given the name of the one active table,
\* which another statement has not replaced since table_get_or_load.
OnlyNamedTableIsWritten ==
  [][\A n \in Names :
       files'[n] # files[n] =>
         \E t \in Threads : /\ writer = t /\ req[t].kind = "insert"
                            /\ Fold[req[t].table] = Fold[n]]_vars

\* The id index lists exactly the rows of memory under their slots, ids are
\* unique, and next_id is above all of them: bptree_insert never meets a
\* duplicate and an id is never given out twice.  Not so after IndexSplitFails.
IndexMatchesRows ==
  /\ table.index = {<<table.rows[k].id, k>> : k \in 1 .. Len(table.rows)}
  /\ IndexableRows(table.rows)
  /\ \A k \in 1 .. Len(table.rows) : table.rows[k].id < table.next_id

\* Memory and CSV agree whenever no INSERT is between the two: same header,
\* same rows, and the ids that table_insert_row and storage_get_next_auto_id
\* computed independently are the same.
MemoryMatchesFile ==
  table.loaded /\ (\A t \in Threads : pc[t] # "store")
    => files[table.table_name] = [cols |-> table.cols, rows |-> table.rows]

\* Memory holds rows only for a table that has a file, whichever step of an
\* INSERT failed: a table that table_initialize_schema left loaded when a later
\* allocation failed is served without a file, but it is empty.
RowsHaveFile ==
  table.loaded /\ table.rows # <<>> /\ (\A t \in Threads : pc[t] # "store")
    => files[table.table_name] # NoFile

\* A table that statements are served from memory can be rebuilt from its CSV.
LoadedTableCanBeReloaded ==
  table.loaded /\ (\A t \in Threads : pc[t] # "store")
    => Loadable(files[table.table_name])

\* Through its locks, its single active table and its index the engine is a
\* Database: every statement is atomic, reads what the files hold, and has no
\* effect if it reports an error.
DB == INSTANCE Database WITH
        db <- files, Faulty <- Faults # {},
        phase <- [t \in Threads |-> IF pc[t] = "idle" THEN "idle"
                                   ELSE IF pc[t] = "unlock" THEN "done"
                                   ELSE "called"]
ImplementsDatabase == DB!Spec

\* Every statement gets its answer: no thread waits for a lock that is never
\* given back, also not between the two locks of UpgradeLock.
EveryCallReturns == \A t \in Threads : pc[t] # "idle" ~> pc[t] = "idle"
=============================================================================

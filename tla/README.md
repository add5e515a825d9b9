# Verification of mini_dbms

TLA+ modules, TLC runs and TLAPS proofs for the mini DBMS: a SQL engine over CSV
files with an in-memory table, a B+ tree on `id`, a tokenizer cache, and an HTTP
server that executes statements on a thread pool. Paths below are relative to the
repository root; the sources are in `src/`.

## 1. Inventory

| Component | State | Operations | Used by |
|---|---|---|---|
| job queue, `concurrency/job_queue.c` | ring `client_fds`, `head`, `tail`, `count`, `shutting_down`, one mutex, one condition variable | init, push, pop, shutdown, destroy | thread pool |
| thread pool, `concurrency/thread_pool.c` | worker threads, `worker_count`, `active_worker_count` | init, submit, stats, shutdown; the worker loop | API server, `/health` |
| lock manager, `concurrency/lock_manager.c` | policy, `db_rwlock`, `db_mutex`, cache mutex | lock/unlock for a query, lock/unlock the cache | facade, tokenizer |
| facade, `db/db_engine_facade.c` | `initialized` | `execute_query_with_lock`, `db_execute_sql`, init, shutdown | router, CLI |
| table runtime, `db/table_runtime.c` | one global active table: name, `loaded`, schema, rows, B+ tree root, `next_id` | activate, load, insert, scan, cleanup | executor |
| executor, `db/executor.c` | none | INSERT, SELECT, (refused) DELETE | facade |
| storage, `db/storage.c` | the files `data/<table>.csv`, `flock` | insert, load, exists, delete | table runtime |
| B+ tree, `db/bptree.c` | nodes with parent pointers and a leaf chain | insert, search, free | table runtime, executor |
| tokenizer and its cache, `db/tokenizer.c` | list of at most 64 entries, entry and hit counters | tokenize (lookup, scan, store), cleanup | facade |
| parser, `db/parser.c` | none | one function per statement | facade |
| range index, `db/index.c` | hash table and sorted array over one column | build, query equals, query range | tests only |
| API server, `api/*.c` | listening socket, the accept thread's descriptor, the descriptors in queue and workers | accept, health fast path, submit or refuse, read, route, answer, close | `api_main.c` |
| CLI, `cli/main.c` | text typed and not yet executed | execute a file, REPL | user |
| benchmark, `db/benchmark.c` | measurements | generate, time | user |

How they interact. The accept thread hands descriptors to the pool; workers read a
request and call `execute_query_with_lock` concurrently. That function parses the
text once without the DB lock to choose a lock mode (going through the tokenizer
cache and its mutex), takes the lock, and parses and executes the text again under
it. A SELECT whose table is not the active, loaded one *gives back* its read lock
and takes the write lock, because loading replaces the global active table. INSERT
changes memory and index first and then appends to the CSV file, where the row's id
is computed a second time; if that fails, the table is reset and loaded again.

What is hard here, and what each part has to guarantee:

* pool: one signal per push, spurious wake-ups, shutdown with queued jobs, failed
  initialisation. No wake-up and no job is lost, no job runs twice, FIFO order,
  the queue outlives its workers, shutdown ends.
* lock manager and facade: the window between the two locks; what was checked
  before must hold when it is used. No thread waits for ever.
* table runtime, executor, storage: two copies of the data with ids computed
  independently, failures between the two. Statements are atomic; memory, index
  and file agree.
* tokenizer cache: the lock is free between lookup and store; counter and list.
* B+ tree: index arithmetic of the splits, parent pointers, failing allocations.
* storage: several processes (server, CLI, tests) on the same files; a file replaced
  while others hold or await the lock of its predecessor; a crash or a full disk in
  the middle of a write. Ids stay unique, a row comes back as it was inserted, a torn
  line is not taken for a row.
* API server: one accept thread that waits for clients; requests in pieces, wrong
  lengths, clients that vanish; descriptors that change hands and are reused. Every
  connection has one owner and an end, and the answer tells what happened.
* range index: bisection with a comparison that is not always an order.
* CLI: statements cut out of text that arrives line by line.

`PROJECT.json` lists the hazards line by line with the properties that cover them.

## 2. Modules

| Module | Models | Remarks |
|---|---|---|
| `JobPool` | what the pool promises | bounded FIFO, no workers |
| `ThreadPool` | job queue and thread pool | implements `JobPool` |
| `TableData` | contents of a CSV file and what can be read from it | pure operators |
| `Database` | what the facade promises | atomic statements on the files |
| `QueryEngine` | facade, lock manager, table runtime, executor, storage | implements `Database` |
| `TokenizerCache` | the cache of `tokenizer.c` | |
| `BPTree` | `bptree.c` as operators on a heap | |
| `ApiServer` | accept loop, request handler, router | composed with `JobPool` |
| `TableText` | CSV text of `storage.c`, values of `utils.c` | pure operators |
| `TableIndex` | `index.c` | pure operators |
| `StorageFiles` | `storage.c` between processes | uses `TableText`, `TableIndex` |
| `Repl` | statement splitting of `cli/main.c` | |
| `MC*` | instances for TLC | symmetry, starting files |
| `ThreadPoolProofs` | theorems about the pool; the refinement of `JobPool` | TLAPS |
| `QueryEngineProofs` | theorems about the DB lock, about rows, index and files; the refinement of `Database` | TLAPS |
| `TokenizerCacheProofs` | theorems about the cache | TLAPS |
| `ApiServerProofs` | theorems about the server | TLAPS |
| `TableTextProofs` | theorems about the CSV text | TLAPS |
| `TableIndexProofs` | theorems about the range index | TLAPS, on `TableTextProofs` |
| `BPTreeProofs` | theorems about the id index | TLAPS, on `TableTextProofs` |
| `StorageFilesProofs` | theorems about files, `flock` and what the files say | TLAPS, on `TableIndexProofs` |

Operators whose comment begins with "Deviation" are not part of a model. They are
variants of the definition after them with a plausible mistake, kept to show that
a property notices it (`mutants` in `PROJECT.json`).

**ThreadPool.** Every critical section of the queue's mutex is one action;
`pc[w]` says where a worker is between two of them. `pthread_cond_wait` is
`PopWait` (unlock and sleep) followed by a wake-up that makes the worker compete for
the mutex again; `SpuriousWakeup` may happen at any time. `owner` is the thread that
runs `thread_pool_init` and `thread_pool_shutdown`, with its loop index `i`.
`CreateFails` and `ArgsAllocationFails` are the two error exits of the creation
loop, which differ in the `worker_count` they leave. A descriptor may be submitted
again once its worker has closed it. `Submit` is allowed from any thread until the
queue is destroyed; the API server itself submits from the owner's thread only.

**QueryEngine.** One thread's `execute_query_with_lock` is a sequence of actions:
`Call` (parse, choose the mode), `AcquireForRead`/`AcquireForWrite`, `KeepReadLock`
or `UpgradeLock`, then the executor: `GetOrLoad` (`table_get_or_load`),
`LoadFor...`/`LoadError` (`table_load_from_storage_if_needed`), `AddRow` up to the
call of `storage_insert`, `StoreRow`/`StoreFails` inside it, `Reload` after a failure,
`Collect` for SELECT, and `Return`. `Selected` is the result of `Collect`: an unknown column
in the select list (`NoSelected`) is refused, one in the condition (`NoColumn`) only if the
table has a row, since `table_linear_scan_by_field` returns before it looks for the column
otherwise. Between any two of them other threads may run:
nothing but the modelled lock keeps them apart, and this is what `LockDiscipline` and
its companions are about. `table` is `table_runtime_active`; its B+ tree is the set of
pairs (id, slot), which `BPTree` justifies. A row has an id and one value. Columns
beside `id` are one member of `Schemas`. Values in `Unreadable` are those the CSV
reader refuses (a line break, a row that outgrows the line buffer). `Fold` is
the comparison of names without case. `Matching` of `TableData`, the slots that
`table_linear_scan_by_field` collects, is `SelectSeq` written by rank (the k-th slot is
the matching one with k matching slots up to it), a form the proofs can look into;
TLC compares the two on all small tables (`MatchingSelects` in `MCQueryEngine`). `Faults` selects what may fail: `memory`
(allocations of facade and executor), `index` (an allocation in a B+ tree split),
`load`, `open` (storage fails without a trace), `lock` (it fails after `fopen` has
created the file), `flush` (buffered data is lost, which the code does not notice).
`Reopen` is shutdown and restart of the engine with no statement running.

**TokenizerCache.** The two critical sections of `tokenizer_tokenize`, and the scan
between them, are separate actions. The list is a sequence of texts. Copies and new
entries may fail to be allocated at any time; `copy_failed` remembers that a hit was
taken for a miss for that reason, which makes duplicates that have no other cause.

**BPTree.** Nodes live in a sequence, pointers are places in it, key arrays are
sequences. `budget` is the number of `calloc` calls that still succeed.
`bptree_insert_into_parent` and `bptree_split_internal` call each other, each as the
other's last step. The recursion is therefore an iteration over the pending call
(`Call`: the heap so far, `left`, the key and `right`), and `IntoParent` is one round of
it, a split of the parent included. `InsertIntoParent` iterates it, and `FindLeaf` its loop,
as often as there are nodes; a call that has returned stays as it is. That this is often enough is
part of what is proved.

**ApiServer.** The pool's variables are those of `JobPool`, and every step that submits,
starts or finishes a job is a step of `JobPool`: what `ThreadPool` is shown to
implement is what the server is given. A connection is a record at its descriptor: its
request, how many of its five pieces have been sent and read, whether the client still
sends, half closed or vanished, and where its handler is. `Receive` is one `recv`;
`cuts` of a request says where the network may cut it, and `length` what
Content-Length makes of it. The handler's actions are the same in a worker
(`fd \in running`) and in the accept thread (`Accepted`). `AcceptFails` is the only exit
of the loop; `JoinPool` the return of `thread_pool_shutdown` followed by the engine's
shutdown in `main`. The engine is two steps, call and return; `QueryEngine`
details them. `Sigpipe` ends the process: the answer is sent without `MSG_NOSIGNAL` and the
signal is not ignored.

**TableText, TableIndex.** Values and lines are short sequences of characters.
`ParseLine` is `storage_parse_csv_line` character by character, `CompareValues` is
`utils_compare_values`. Rows, offsets and index entries are put in order by rank (`InOrder`,
`At`, `RangeEntries`: the n-th has n - 1 before it), which is what reading line by line and `qsort`
yield; TLC compares `InOrder` with a sorted sequence (`InOrderSorts` in `MCStorageFiles`).
`Bisect` is the loop of the two bounds, on the set of entries that compare as less (`Less`), or
as less or equal (with `Same`). What is computed character by character is a recursive function
local to its operator. A carriage return, which the readers treat as the end of the line, and
limits on lengths are left out; numbers do not saturate as those of `strtoll` do.

**StorageFiles.** A file is an inode; `path` and `temp` say which inode the
two names denote, and a process keeps the one it opened. `storage_insert` is
`OpenForInsert` (which creates the file), `Lock`, `Insert` (header, checks, id and
row, into the stdio buffer) and `FlushInsert`; `storage_delete` is `OpenForRead`, `Lock`,
`Delete`, `FlushDelete`, `Rename`; loading is `OpenForRead`, `Lock`, `Load`. `view` is
what a process loaded last, with offsets, for `storage_read_row_at_offset` and the range
index. `Faults`: `short` (a flush writes a part, which the code does not notice),
`crash` (the process dies at any point, in the middle of a flush too), `rename`.
At most one write per behaviour is cut short.

**Repl.** `buffer`, the lines typed, and the statements given to the engine. `FileMode`
is `main_run_file_mode` as a function of the file's text, the reference for the REPL.

## 3. Runs

| Run | Instance | Shows |
|---|---|---|
| `pool` | 3 workers, 2 slots, 3 descriptors, fair workers | counters exact, no wake-up lost, every job once and in order, no worker outlives the pool; refinement of `JobPool` with its fairness: a queued job starts when a worker is free, whatever the handlers do; if they return, shutdown ends and accepted jobs are handled |
| `engine` | 2 threads, 2 tables, 3 statements, 16 starting directories, largest id 2, `load` and `open` faults | index, memory and file agree, also after failed loads and stores; refinement of `Database` |
| `engine_locks` | 2 threads, 3 names of which 2 differ in case, every fault, unreadable values, fair threads | lock discipline, stability of the check made under the read lock, only a lone writer changes shared state, a file is written only for a statement that names its table (up to case), rows in memory have a file, every statement returns |
| `token_cache` | 3 threads, 4 texts, limit 3, 6 calls | counter, eviction order, bound on duplicates, with failing allocations |
| `bptree` | 2 keys per node, 8 ids in any order | search equals a reference map, structure of the tree |
| `api_server` | 2 descriptors, 6 kinds of requests, 1 worker, 1 slot | one owner per descriptor, answers that match effects, `/health` without workers, every connection ends, the engine outlives its handlers |
| `storage_files` | 2 processes of which one deletes, 3 calls, every fault | what a writer computed is current when it is written, ids unique, rows read back as inserted, DELETE keeps the other rows, no row made of a torn line, offsets stay valid, index equals scan |
| `engine_flush` | `flush` fault | **violated**: memory and CSV differ after an INSERT that reports success |
| `engine_unreadable` | a value with a line break | **violated**: a loaded table that cannot be loaded again |
| `bptree_memory` | failing allocations | **violated**: ids vanish from the index |
| `storage_race` | 2 processes, 4 calls, no fault | **violated**: an INSERT that waits for the lock while `storage_delete` replaces the file is lost and reports success |
| `repl` | 7 lines, 3 of them typed | **violated**: the REPL glues the last word of an unfinished statement to the next line |

The five violations are documented under `findings` with the lines that promise
otherwise.

Bounds. Three workers are needed for one to be woken, one to overtake it and one to
sleep; two slots make the ring wrap and fill. Two threads suffice for the window
between two locks; with three, the lock properties are proved rather than checked
(section 4). `LOCK_POLICY_GLOBAL_MUTEX`, which `db_engine_init` never chooses, is
covered by those proofs only. Two tables make one evict the other. The starting files of
`engine` hold a header without rows, gaps and decreasing ids, the largest id, zero bytes,
no id column and a duplicate id. `MaxId` stands for `INT_MAX`, so that it is reached; `MaxCalls` only ends the
search. The code has 31 keys per node and 64 cache entries; the arithmetic is the same
with 2 and 3, and a tree of 8 ids then has three levels, so that internal nodes are split.
In `api_server` two clients suffice: the second one meets a worker that is busy, or a
queue that the first one fills because no worker has taken it, and either may get the
descriptor that the other gave back; the requests cover both spellings of `/health`, whole and in pieces, every refusal of
the router, and queries whose Content-Length is too small or too large. In
`storage_files` three calls let one process insert while the other deletes, dies or
leaves a torn line, and a third call meets the result; the existing file holds ids of
different lengths (10 sorts before 2 as text) and a value with a comma, the inserted values
a quote and an id in use. Deadlock is checked in `engine`, `token_cache` and `bptree`; in
the other runs the system may stop: a destroyed pool, a dead or returned server, the
bound on calls.

What the properties except. `IdsUnique`, `NoGluedRow` and `OffsetReadsLoadedRow` say which tables
a torn write may damage: with one column the halves of two rows are one value, and an id in the
last column may be cut to another id; a torn header that a row is glued to is another list of columns. `DeleteKeepsOthers` excludes the table whose copy
was cut short, since `storage_delete` does not look at the result of its flush and then loses rows, and a torn table
of one column, where an empty value is copied as a blank line.
`InsertIsReadBack` excludes the case that `storage_race` shows. `IndexMatchesScan` is
claimed for columns whose values are all numbers or none ("2" < "10" < "1a" < "2" is no
order), and equality for numbers with one spelling.

Fairness. `pool` assumes that a worker that can enter the queue's mutex
eventually does (the critical sections are bounded) and nothing of the handlers.
That handlers return, and that the owner runs on inside `thread_pool_shutdown`, are
premises of the two properties that need them. `engine_locks` assumes that a thread which
can take its next step eventually takes it; with a bounded number of statements this
asks nothing special of the rwlock. Whether a writer starves under an
unending flow of readers depends on the pthread implementation and is not claimed.
`api_server` assumes only that the accept thread runs when it can. That clients go on
sending or leave is a premise of both liveness properties (a silent client blocks the accept
loop in `recv(MSG_PEEK)`); that workers run, with the fairness `pool` shows, and that
statements return, which `engine_locks` shows, is a premise of `EveryConnectionEnds` and not
of `HealthNeedsNoWorker`.

## 4. Proofs

The theorems hold for every value of the constants that satisfies the named
assumptions, not only for the instances of section 3. Every theorem has its
inductive invariant, with one step for each action of the specification.

### Thread pool

`ThreadPoolProofs` holds for every number of workers, every capacity and every set of
descriptors, from `NAssumption`, `CapacityAssumption` (which `thread_pool_init`
enforces) and `NoJobAssumption`. `TypeOK`, `NoLostWakeup`, `BusyCountExact` and
`NoWorkerOutlivesPool` are not inductive. `IndInv` adds

* `RingConsistent`: the tail is `count` slots after the head;
* `OwnerInv`: which workers exist at each stage of creation and joining, and that
  the flag is set exactly while joining or after it. Without it a join of
  `worker_count` threads need not cover all that were created;
* `JobsInv`: no jobs before the pool runs, none left once a worker has exited.
  Without it a worker could be counted busy in a pool being shut down after a
  failed creation.

The counting arguments (`Enter`, `Leave`, `Stay`) say how the number of workers at a
program counter changes when one moves; `WakeupStep` is the core: a push adds one job
and wakes one sleeper, a worker goes to sleep only on an empty queue, and a worker that
takes a job removes one job and one awake worker.

Its second part proves `EachJobOnce` and `Spec => Pool!Spec`: the ring, its wrap-around,
the condition variable and the workers are a bounded FIFO. `JobInv` adds to `IndInv` and
`EachJobOnce` that a worker holds a job and never the content of an unfilled slot. The
lemmas on the ring say that a push appends to the sequence the ring stands for and
that a pop takes its tail; a sleep, a wake-up, a creation or a join is a stuttering step.
The fairness part of the refinement (`ImplementsFairJobPool`) stays with TLC.

### Query engine

`QueryEngineProofs` holds for every set of threads, names, statements, starting
files, both policies and every fault, from `ThreadAssumption`. `LockInv` adds to
`LockDiscipline` and `ReadLockSuffices` that a thread outside its locked region holds
no lock (`NoStrayLock`) and that only SELECT statements run under the read mode and
never reach the INSERT path (`ReadersSelect`). The key lemma `ReadersChangeNothing`:
with its table active and loaded, `table_get_or_load` and
`table_load_from_storage_if_needed` leave everything alone, so a reader cannot
invalidate what another reader checked. `LoneWriter` is the action property.

Its second part goes on from `LockInv` to the data, with the module's assumptions on
constants. `DataInv` adds the types of table and files, that a table which is not loaded is
empty, that an index entry leads to a row with its id, and, per thread, what a statement
has established by the step it is at (`Stage`: its kind, that the active table is its table,
that a row about to be stored has the table's columns). Another thread cannot take
this away: between its steps it has the lock, and by `LoneWriter`'s argument the
others change nothing. The theorems, with what each of them assumes beyond that:

| Theorem | Property | Assumes |
|---|---|---|
| `TypeCorrect` | `TypeOK` | nothing: every fault, names that differ in case |
| `RowsAlwaysHaveFile` | `RowsHaveFile` | nothing |
| `WritesNamedTable` | `OnlyNamedTableIsWritten` | nothing |
| `IndexIsExact` | `IndexMatchesRows` | no B+ tree split fails (`index`); `bptree_memory` shows why |
| `MemoryAgreesWithFile` | `MemoryMatchesFile` | no names that differ in case, no failing flush (`engine_flush`), no failing allocation after the schema was set (`memory`) |

`MemoryMatchesFile` becomes inductive as `FileInv`: `next_id` is one more than the largest id
in memory, which is what `storage_get_next_auto_id` finds in the file, and between the two
halves of an INSERT memory is exactly one row ahead. Both ids come from the maximum of a
finite set of integers. That it exists is proved from a smallest counterexample, by
cardinality (`MaximumExists`); `NextIdAfterAppend`
is the step that keeps the two computations together.

Its third part proves `EngineIsDatabase`: under `Limits` (no names that differ in case,
`load` and `open` faults, no value the reader refuses) every behaviour of the engine is one
of `Database`, where a statement takes effect in one instant. An INSERT takes effect when its
row reaches the file, a SELECT when its rows are collected; `Collect` needs that the index
and the linear scan find the same rows as `Database`'s definition (`MatchingById`, `SelectedRows` and the
lemmas on ranks), that both refuse the same unknown columns (`SelectedError`; on a table without rows the
condition's column is looked at by neither) and that memory is the file. A reload has no effect, since a failed store leaves
nothing behind (`ReloadAfterFault`). Outside `Limits` the refinement is false: `engine_flush` and
`engine_unreadable` show two of the ways.

### B+ tree

`BPTreeProofs` holds for every number of keys in a node from 2 on, every set of ids, every order of
insertions and every number of allocations that succeed (`MaxKeysAssumption`, `KeysAssumption`,
`BudgetsAssumption`), for trees of any height.
The invariant is `IndexGood`: as long as no insert has run out of memory, the heap is empty or a
whole tree of the reference (`WholeTree`). `Tree` says it with two functions on the nodes that the
program does not have: `span[n]`, the ids that belong under n, and `level[n]`, its height above the
leaves. The children of n divide its span as its keys say, the root's span is all of Nat, and the
chain of the leaves follows the order of their spans. The spans are what makes the
statement local: a split of n divides span[n] at one key, and nothing else moves.

During an insertion the tree is not whole: `right` has been cut off `left` and is nobody's child. `Tree`
therefore has the pending `left`, key and `right` as parameters; while they are there, left and right
together have the span that left has in its parent. The proof has one lemma for each way the nodes change
and one for the operator that makes the change:

| Change | What it preserves | Operator |
|---|---|---|
| a leaf takes a key | `LeafTakesTree`, `LeafTakesContents` | `InsertIntoLeafIs` |
| a leaf is halved | `LeafHalvedTree`, `LeafHalvedContents` | `SplitLeafIs` |
| `right` is linked into the parent | `LinkedTree` | `LinkIs` |
| a full internal node is halved | `InternalHalvedTree` | `SplitInternalIs` |
| a new root is put on top | `ToppedTree` | `NewRootIs` |

`NextCallIs`: a round of `bptree_insert_into_parent` ends the work, with a whole tree or without memory, or moves
it one level up. Levels do not exceed the root's, and that is less than the number of nodes,
so the iteration ends (`InsertIntoParentIs`); the same bound is why `FindLeaf` arrives at a leaf
(`FindLeafIs`). `SearchIs` then follows from `Contents`: an id in the span of a leaf is in no other leaf.

| Theorem | Property | From `IndexGood` by |
|---|---|---|
| `SearchIsCorrect` | `SearchMatchesReference` | `SearchIs` |
| `ParentsAgree` | `ParentPointersAgree` | the children and parents of `Tree` |
| `TreeIsBalanced` | `BalancedAndBounded` | `DepthIs`: the depth is the root's level less the node's, the only solution of its equation |
| `ChainIsSorted` | `LeafChainIsSorted` | the order of the spans |

After an insert that ran out of memory nothing is claimed: `bptree_memory` shows that ids are lost then.

### Tokenizer cache

`TokenizerCacheProofs` holds for every finite set of threads, every set of texts and every limit. Only
the range of `hit_count` in `TypeOK` needs strengthening: `HitsInv` counts the calls whose lookup is
still to come. `DuplicatesBounded` is inductive because a miss adds a thread to the creators of a
text only when the list has no entry of it, and a store trades a creator for an entry; the lemmas say how the places of a text in the list
change when an entry moves to the front, is pushed or is evicted. `TextsLeaveAtTheEnd` is the
action property.

### API server

`ApiServerProofs` holds for every set of descriptors and requests, every number of workers and every
capacity (`NAssumption`, `CapacityAssumption`, `NoFdAssumption`, `RequestsAssumption`).
`OneOwnerPerDescriptor` counts; its inductive form
`OwnershipInv` says instead that the open descriptors are the disjoint union of the queue, the
workers' and the accept thread's. `PhaseInv` adds that a connection without a handler has
not begun, and that the pool is empty once `api_server_run` has returned; `EffectInv` what a handler has done by
the place it is at, so that the status it will send is known to match. `SubmitsOnlyItsOwn` shows that
the guard of `JobPool`'s `Submit` (the descriptor is not in the pool) never holds the accept
thread back: the composition with `JobPool` excludes no behaviour of the server.

### CSV text

`TableTextProofs` is about what the writers and readers of `storage.c` compute for every text over the
alphabet. The prover has no induction principle for a predicate; the module makes its own for sets:
a non-empty set of naturals has a least element (`LeastExists`), so a set that holds 0 and is closed
under successor up to n holds 0 .. n (`IntervalInduction`), and a function with a given start and a given
step exists (`Recursion`). Each proof by induction then names the set of places where its
claim holds. That the local recursive functions of `ParseLine`, `ParseInteger` and `Decimal` are what their
equations say follows in the same way. The results:

* `RoundTrip`: `storage_parse_csv_line` returns the values `storage_write_csv_row` wrote, for all values
  without a line break. The induction runs over the characters of a value and over the values
  of a row, with the parser's mode at each place (`PlainRun`, `DoubledRun`, `RowRun`).
* `ReadAppended`, `ReadCopy`: a row appended to a whole file is read behind the others; a file written as
  a header and rows is read as just these. Both exclude the row that is written as a blank line (one
  column, empty value), which the readers skip.
* `CutText`, `GlueText` (lemmas): a file cut short has the rows of the whole file, at most the last value
  of the last row shorter; a row appended to an unfinished line makes one line with one field less than
  the two together.
* `DecimalIs`: the decimal text of a number is read back as that number.

### Range index

`TableIndexProofs` proves `IndexIsScan` for every table a load can return (`Indexable`) and every value:
`index_query_equals` and `index_query_range` return the offsets that a scan with
`storage_compare_with_operator` finds, each once, in the columns `IndexAgreesWithScan` names. `BisectIs`: on a
sorted array bisection returns the number of entries that come first; the recursive
function is given explicitly and its equation is checked, then it is shown to be the only solution by
induction on the width of the range. `PlaceSorts`: under a total order, ranks put a finite set in order.
`OrderedCompare`: on values that are all numbers, or all not, `utils_compare_values` is a total
preorder, for texts because `strcmp` is decided at the first difference.

### Storage files

`StorageFilesProofs` holds for every number of processes, statements, starting files and every fault, from
`MaxInodesAssumption`, `DeletersAssumption`, `MaxCallsAssumption`, `ProbesAssumption` and the hypothesis `OneDeleter`
(at most one process deletes, as in `storage_files`; with two the property fails). `CurrentWrites` is
`WritesAreCurrent`: what a process is about to flush was computed from the file as it still is, and the file
a DELETE is about to replace is the one it copied. `IndInv` adds `FilesInv` (names and
inodes), `ProcInv` (no process has the temporary file open as the table; the deleting
process has the present table open and its temporary file is the one with the name) and
`LocksInv` (two processes behind the lock of one inode both only read, the theorem
`LockExcludes`). Here the meaning of the texts is not looked into.

The second part does look into it, with two more hypotheses on what comes from outside:
`PlainStatements` (no inserted value has a line break, which `engine_unreadable` shows to be unreadable, and no
column is nameless) and `WellFormedExisting` (the starting files are such as `storage_insert` and
`storage_delete` leave, with unique ids). `MCStorageFiles` has TLC evaluate them on the instance
(`HypothesesHold`). `DataInv` adds to `IndInv`:

* `FilesOk`: every file is sound. As long as no write has been cut short it is well formed; afterwards it
  may end in an unfinished line, and what can be read from it still has unique ids and values that
  were given, the last one possibly cut short. The temporary file has the same property, since
  it becomes the table;
* `ProcData`: a process about to flush an INSERT passed every check of `storage_insert` on the text as it is; one that
  is deleting has read its table, its temporary file is empty until the flush and holds the
  copy afterwards;
* `ViewsInv`: the text a process loaded has become the present one by appending whole lines
  or by one row glued to its unfinished end (`Continues`), which is what makes its offsets good;
* `Counters`: the ranges of `torn`, which says what kind of write was cut short, and of `calls`.

| Theorem | Property | Rests on |
|---|---|---|
| `StorageTypes` | `TypeOK` | the types of text, offsets and parsed rows |
| `UniqueIds` | `IdsUnique` | `DecimalIs`: the next id is larger than all, so its text is new; `storage_validate_primary_key` for given ids |
| `NoRowIsGlued` | `NoGluedRow` | `CutText`, `GlueText`: a glued line has too many fields |
| `OffsetsStayValid` | `OffsetReadsLoadedRow` | `Continues` |
| `DeleteKeepsRows` | `DeleteKeepsOthers` | `WritesAreCurrent` and `ReadCopy` |
| `InsertReadBack` | `InsertIsReadBack` | `WritesAreCurrent` and `ReadAppended` |
| `IndexAnswers` | `IndexMatchesScan` | `IndexIsScan` |

### Only model-checked

* Liveness and fairness: `EveryCallReturns`, `ShutdownTerminates`, `AcceptedJobIsHandled`,
  `HealthNeedsNoWorker`, `EveryConnectionEnds`, the fairness of `ImplementsFairJobPool`.

## 5. Not modelled, and what is left out

* In `QueryEngine`: the values of several columns and what a projection picks of them (that it
  refuses an unknown column is modelled), messages and printing.
* A header whose `id` is not the first column in `QueryEngine`: the engine never writes
  one.
* A `stat` that fails although the file exists; ids beyond 64 bits.
* Failures of the pthread calls, and of `thread_pool_init` before its first worker.
* HTTP and JSON text, the escapes of the SQL string, the reason phrases of answers.
* Two processes that delete at the same time, and a second write cut short.
* The scanner and the parser beyond the outcome of a statement, the structs of `parser.h`
  and whether the text is accepted: they have no state, and what they compute is text by text. The same holds for the printing and display-width
  functions of `utils.c`.
* The hash function and the buckets of the range index.
* The benchmark, which only measures.

## 6. Plan

The safety properties within the prover's reach are proved. What would come next:

1. What holds of memory and files for names that differ in case, where an INSERT goes to the file of the
   active name.
2. The composition of `BPTree` with `QueryEngine`, where the index is a set of pairs: the theorems of
   `BPTreeProofs` say what its `Insert` needs, and the step from one to the other is an argument of this text.

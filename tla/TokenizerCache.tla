--------------------------- MODULE TokenizerCache ---------------------------
(***************************************************************************)
(* The token cache of db/tokenizer.c under LOCK_POLICY_SPLIT_RWLOCK: a      *)
(* most-recently-used list, searched and extended in two critical sections  *)
(* between which the caller tokenizes without the lock.                     *)
(***************************************************************************)
EXTENDS Integers, Sequences, FiniteSets

CONSTANTS Threads,
          Sqls,             \* trimmed, non-empty statement texts
          Invalid,          \* texts that tokenizer_tokenize_sql refuses
          Limit,            \* SOFT_PARSER_CACHE_LIMIT
          MaxCalls          \* bound: calls of tokenizer_tokenize

ASSUME ThreadsAssumption == IsFiniteSet(Threads)
ASSUME LimitAssumption == Limit \in Nat \ {0}
ASSUME MaxCallsAssumption == MaxCalls \in Nat

VARIABLES cache,        \* the list from tokenizer_cache_head, as its sql fields
          entry_count,  \* tokenizer_cache_entry_count
          hit_count,    \* tokenizer_cache_hit_count
          copy_failed,  \* history: a hit could not be copied
          pc, sql,      \* per thread: place in tokenizer_tokenize, working_sql
          calls

vars == <<cache, entry_count, hit_count, copy_failed, pc, sql, calls>>

PcValues == {"idle", "lookup", "tokenize", "store"}

TypeOK == /\ cache \in Seq(Sqls)
          /\ entry_count \in 0 .. Limit
          /\ hit_count \in 0 .. MaxCalls
          /\ copy_failed \in BOOLEAN
          /\ pc \in [Threads -> PcValues]
          /\ sql \in [Threads -> Sqls]
          /\ calls \in 0 .. MaxCalls

Init == /\ cache = <<>> /\ entry_count = 0 /\ hit_count = 0
        /\ copy_failed = FALSE
        /\ pc = [t \in Threads |-> "idle"]
        /\ sql \in [Threads -> Sqls]
        /\ calls = 0

Goto(t, label) == pc' = [pc EXCEPT ![t] = label]

Call(t, s) ==
  /\ pc[t] = "idle" /\ calls < MaxCalls
  /\ sql' = [sql EXCEPT ![t] = s]
  /\ calls' = calls + 1
  /\ Goto(t, "lookup")
  /\ UNCHANGED <<copy_failed, cache, entry_count, hit_count>>

\* The place of the first entry for s.
FirstAt(s, k) == cache[k] = s /\ \A l \in 1 .. k - 1 : cache[l] # s

\* Deviation: the moved entry overwrites the old head.
MovedToFrontOverwrites(k) ==
  [l \in 1 .. Len(cache) |-> IF l = 1 THEN cache[k] ELSE cache[l]]

\* The list with its k-th entry moved to the head.
MovedToFront(k) ==
  [l \in 1 .. Len(cache) |-> IF l = 1 THEN cache[k]
                             ELSE IF l <= k THEN cache[l - 1] ELSE cache[l]]

\* tokenizer_lookup_cache finds the text and returns a copy of its tokens.
LookupHit(t) ==
  /\ pc[t] = "lookup"
  /\ \E k \in 1 .. Len(cache) : FirstAt(sql[t], k) /\ cache' = MovedToFront(k)
  /\ hit_count' = hit_count + 1
  /\ Goto(t, "idle")
  /\ UNCHANGED <<copy_failed, entry_count, sql, calls>>

\* The copy fails after the entry was moved: the caller takes it for a miss.
LookupCopyFails(t) ==
  /\ pc[t] = "lookup"
  /\ \E k \in 1 .. Len(cache) : FirstAt(sql[t], k) /\ cache' = MovedToFront(k)
  /\ copy_failed' = TRUE
  /\ Goto(t, "tokenize")
  /\ UNCHANGED <<entry_count, hit_count, sql, calls>>

\* Deviation: only the head of the list is compared.
LookupMissHeadOnly(t) ==
  /\ pc[t] = "lookup"
  /\ \A k \in 1 .. Len(cache) : k = 1 => cache[k] # sql[t]
  /\ Goto(t, "tokenize")
  /\ UNCHANGED <<copy_failed, cache, entry_count, hit_count, sql, calls>>

\* No entry for the text.
LookupMiss(t) ==
  /\ pc[t] = "lookup"
  /\ \A k \in 1 .. Len(cache) : cache[k] # sql[t]
  /\ Goto(t, "tokenize")
  /\ UNCHANGED <<copy_failed, cache, entry_count, hit_count, sql, calls>>

\* tokenizer_tokenize_sql, without the lock; a refused text is not cached.
Tokenize(t) ==
  /\ pc[t] = "tokenize"
  /\ Goto(t, IF sql[t] \in Invalid THEN "idle" ELSE "store")
  /\ UNCHANGED <<copy_failed, cache, entry_count, hit_count, sql, calls>>

\* Deviation: an entry is evicted although the limit is just reached.
EvictedTooEarly(list) ==
  IF entry_count + 1 >= Limit THEN SubSeq(list, 1, Len(list) - 1) ELSE list

\* tokenizer_evict_oldest_cache_entry, when the list got too long
Evicted(list) ==
  IF entry_count + 1 > Limit THEN SubSeq(list, 1, Len(list) - 1) ELSE list

\* Deviation: the eviction does not decrement the counter.
StoreWithoutDecrement(t) ==
  /\ pc[t] = "store"
  /\ cache' = Evicted(<<sql[t]>> \o cache)
  /\ entry_count' = entry_count + 1
  /\ Goto(t, "idle")
  /\ UNCHANGED <<copy_failed, hit_count, sql, calls>>

\* tokenizer_store_cache: a new head, whatever is in the list already.
Store(t) ==
  /\ pc[t] = "store"
  /\ cache' = Evicted(<<sql[t]>> \o cache)
  /\ entry_count' = IF entry_count + 1 > Limit THEN entry_count
                                               ELSE entry_count + 1
  /\ Goto(t, "idle")
  /\ UNCHANGED <<copy_failed, hit_count, sql, calls>>

\* No memory for the entry: the caller still gets its tokens.
StoreFails(t) ==
  /\ pc[t] = "store"
  /\ Goto(t, "idle")
  /\ UNCHANGED <<copy_failed, cache, entry_count, hit_count, sql, calls>>

\* tokenizer_cleanup_cache, called by db_engine_shutdown after the last
\* statement
Cleanup ==
  /\ \A t \in Threads : pc[t] = "idle"
  /\ cache' = <<>> /\ entry_count' = 0 /\ hit_count' = 0
  /\ copy_failed' = FALSE
  /\ UNCHANGED <<pc, sql, calls>>

ThreadStep(t) == \/ LookupHit(t) \/ LookupCopyFails(t) \/ LookupMiss(t)
                 \/ Tokenize(t) \/ Store(t) \/ StoreFails(t)

Next == \/ \E t \in Threads : ThreadStep(t) \/ \E s \in Sqls : Call(t, s)
        \/ Cleanup

Spec == Init /\ [][Next]_vars

-----------------------------------------------------------------------------
\* The counter that decides about eviction is the length of the list, and the
\* list never outgrows SOFT_PARSER_CACHE_LIMIT, although store_cache counts
\* first and evicts afterwards.
CountMatchesList == entry_count = Len(cache) /\ Len(cache) <= Limit

\* The entries for s, and the threads about to add one.
EntriesFor(s)   == {k \in 1 .. Len(cache) : cache[k] = s}
CreatorsOf(s)   == {t \in Threads : pc[t] \in {"tokenize", "store"} /\ sql[t] = s}

\* Threads that miss the same text at the same time each store a copy; as long
\* as every hit can be copied that is the only source of duplicates, so there
\* are never more entries for a text than threads.
DuplicatesBounded ==
  ~copy_failed =>
    \A s \in Sqls :
      Cardinality(EntriesFor(s)) + Cardinality(CreatorsOf(s))
        <= Cardinality(Threads)

\* A text disappears from the list only by eviction from its very end, or with
\* the whole list: neither a lookup's relinking nor a store loses an entry.
OnlyOldestLeaves ==
  [][\A s \in Sqls :
       EntriesFor(s) # {} /\ EntriesFor(s)' = {}
         => cache' = <<>> \/ (EntriesFor(s) = {Limit} /\ Len(cache) = Limit)]_vars
=============================================================================

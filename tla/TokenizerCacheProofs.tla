------------------------ MODULE TokenizerCacheProofs ------------------------
(***************************************************************************)
(* Proofs about TokenizerCache for every number of threads, every set of    *)
(* statement texts and every limit of the list.                             *)
(***************************************************************************)
EXTENDS TokenizerCache, SequenceTheorems, FiniteSetTheorems, TLAPS

\* The threads whose lookup has not been counted yet, by program counter p.
LookingUp(p) == {t \in Threads : p[t] = "lookup"}

\* A hit is counted at most once for each call: this bounds hit_count.
HitsInv == hit_count + Cardinality(LookingUp(pc)) <= calls

\* The inductive invariant.
IndInv == TypeOK /\ CountMatchesList /\ HitsInv /\ DuplicatesBounded

\* The places of s in a list.
PlacesOf(s, list) == {k \in 1 .. Len(list) : list[k] = s}

-----------------------------------------------------------------------------
(* The list *)

\* The places of a text in a list are finitely many.
LEMMA PlacesFinite ==
  ASSUME NEW s, NEW list, Len(list) \in Nat
  PROVE  /\ IsFiniteSet(PlacesOf(s, list))
         /\ Cardinality(PlacesOf(s, list)) \in Nat
<1>1. IsFiniteSet(1 .. Len(list))
  BY FS_Interval
<1>2. PlacesOf(s, list) \in SUBSET (1 .. Len(list))
  BY DEF PlacesOf
<1> QED BY <1>1, <1>2, FS_Subset, FS_CardinalityType

\* Moving an entry to the front keeps the length; the head is that entry, the
\* entries before it move back by one.
LEMMA MovedToFrontList ==
  ASSUME cache \in Seq(Sqls), NEW k \in 1 .. Len(cache)
  PROVE  /\ MovedToFront(k) \in Seq(Sqls)
         /\ Len(MovedToFront(k)) = Len(cache)
         /\ \A l \in 1 .. Len(cache) :
              MovedToFront(k)[l] = IF l = 1 THEN cache[k]
                                   ELSE IF l <= k THEN cache[l - 1] ELSE cache[l]
<1> DEFINE m == MovedToFront(k)
<1>1. Len(cache) \in Nat /\ \A l \in 1 .. Len(cache) : cache[l] \in Sqls
  BY LenProperties, ElementOfSeq
<1>2. m \in [1 .. Len(cache) -> Sqls]
  BY <1>1 DEF MovedToFront
<1>3. m \in Seq(Sqls)
  BY <1>1, <1>2, SeqDef
<1>4. Len(m) = Len(cache)
  BY <1>1, <1>2, <1>3, LenProperties
<1> QED BY <1>3, <1>4 DEF MovedToFront

\* Every text keeps its number of entries when an entry moves to the front.
LEMMA MovedToFrontPlaces ==
  ASSUME cache \in Seq(Sqls), NEW k \in 1 .. Len(cache), NEW s
  PROVE  Cardinality(PlacesOf(s, MovedToFront(k))) <= Cardinality(PlacesOf(s, cache))
<1> DEFINE old == PlacesOf(s, cache)
           new == PlacesOf(s, MovedToFront(k))
           f == [l \in new |-> IF l = 1 THEN k ELSE IF l <= k THEN l - 1 ELSE l]
<1>1. Len(cache) \in Nat
  BY LenProperties
<1>2. IsFiniteSet(old)
  BY <1>1, PlacesFinite
<1>3. ASSUME NEW l \in new PROVE f[l] \in old
  BY <1>1, <1>3, MovedToFrontList DEF PlacesOf
<1>4. ASSUME NEW l \in new, NEW n \in new, f[l] = f[n] PROVE l = n
  <2>1. l \in 1 .. Len(cache) /\ n \in 1 .. Len(cache)
    BY MovedToFrontList DEF PlacesOf
  <2> QED BY <1>1, <1>4, <2>1
<1>5. f \in Injection(new, old)
  BY <1>3, <1>4 DEF Injection, IsInjective
<1> QED BY <1>2, <1>5, FS_Injection

\* What store_cache leaves: the new entry in front of the old ones, and the
\* last one gone if there were Limit already.
LEMMA EvictedList ==
  ASSUME cache \in Seq(Sqls), entry_count = Len(cache), Len(cache) <= Limit,
         NEW s \in Sqls
  PROVE  LET list == Evicted(<<s>> \o cache)
             len  == IF Len(cache) = Limit THEN Limit ELSE Len(cache) + 1
         IN  /\ list \in Seq(Sqls)
             /\ Len(list) = len
             /\ \A l \in 1 .. len : list[l] = IF l = 1 THEN s ELSE cache[l - 1]
<1> DEFINE long == <<s>> \o cache
<1>1. Len(cache) \in Nat /\ Limit \in Nat \ {0}
  BY LenProperties, LimitAssumption
<1>2. <<s>> \in Seq(Sqls) /\ Len(<<s>>) = 1 /\ <<s>>[1] = s
  OBVIOUS
<1>3. /\ long \in Seq(Sqls) /\ Len(long) = Len(cache) + 1
      /\ \A l \in 1 .. Len(cache) + 1 :
           long[l] = IF l = 1 THEN s ELSE cache[l - 1]
  BY <1>1, <1>2, ConcatProperties
<1> HIDE DEF long
<1>4. CASE Len(cache) = Limit
  <2>1. Evicted(long) = SubSeq(long, 1, Limit)
    BY <1>1, <1>3, <1>4 DEF Evicted
  <2>2. \A l \in 1 .. Limit : long[l] \in Sqls
    BY <1>1, <1>3, <1>4, ElementOfSeq
  <2>3. /\ SubSeq(long, 1, Limit) \in Seq(Sqls)
        /\ Len(SubSeq(long, 1, Limit)) = Limit
        /\ \A l \in 1 .. Limit : SubSeq(long, 1, Limit)[l] = long[l]
    BY <1>1, <2>2, SubSeqProperties
  <2> QED BY <1>1, <1>3, <1>4, <2>1, <2>3 DEF long
<1>5. CASE Len(cache) # Limit
  <2>1. Evicted(long) = long
    BY <1>1, <1>5 DEF Evicted
  <2> QED BY <1>1, <1>3, <1>5, <2>1 DEF long
<1> QED BY <1>4, <1>5

\* A store adds at most one entry, and only for its own text.
LEMMA EvictedPlaces ==
  ASSUME cache \in Seq(Sqls), entry_count = Len(cache), Len(cache) <= Limit,
         NEW x \in Sqls, NEW s
  PROVE  Cardinality(PlacesOf(s, Evicted(<<x>> \o cache)))
           <= Cardinality(PlacesOf(s, cache)) + (IF s = x THEN 1 ELSE 0)
<1> DEFINE list == Evicted(<<x>> \o cache)
           len  == IF Len(cache) = Limit THEN Limit ELSE Len(cache) + 1
           old  == PlacesOf(s, cache)
           new  == PlacesOf(s, list)
           f    == [l \in new \ {1} |-> l - 1]
<1>1. Len(cache) \in Nat /\ Limit \in Nat \ {0}
  BY LenProperties, LimitAssumption
<1>2. /\ Len(list) = len
      /\ \A l \in 1 .. len : list[l] = IF l = 1 THEN x ELSE cache[l - 1]
  BY EvictedList
<1> HIDE DEF list
<1>3. IsFiniteSet(old) /\ IsFiniteSet(new)
  BY <1>1, <1>2, PlacesFinite
<1>4. \A l \in new \ {1} : l \in 2 .. len /\ l - 1 \in old
  BY <1>1, <1>2 DEF PlacesOf
<1>5. f \in Injection(new \ {1}, old)
  <2>1. f \in [new \ {1} -> old]
    BY <1>4
  <2>2. \A l, n \in new \ {1} : f[l] = f[n] => l = n
    BY <1>1, <1>4
  <2> QED BY <2>1, <2>2 DEF Injection, IsInjective
<1>6. Cardinality(new \ {1}) <= Cardinality(old)
  BY <1>3, <1>5, FS_Injection
<1>7. 1 \in new => s = x
  BY <1>1, <1>2 DEF PlacesOf
<1>8. Cardinality(new) \in Nat /\ Cardinality(old) \in Nat
  BY <1>3, FS_CardinalityType
<1>9. Cardinality(new \ {1}) = IF 1 \in new THEN Cardinality(new) - 1 ELSE Cardinality(new)
  BY <1>3, FS_RemoveElement
<1> QED BY <1>6, <1>7, <1>8, <1>9 DEF list

-----------------------------------------------------------------------------
(* The threads *)

\* The sets of threads that the invariant counts are finite.
LEMMA ThreadSetsFinite ==
  ASSUME NEW S \in SUBSET Threads
  PROVE  /\ IsFiniteSet(S)
         /\ Cardinality(S) \in Nat
         /\ Cardinality(S) <= Cardinality(Threads)
         /\ Cardinality(Threads) \in Nat
  BY ThreadsAssumption, FS_Subset, FS_CardinalityType

\* A smaller set of threads counts for less.
LEMMA ThreadSetsMonotonic ==
  ASSUME NEW S \in SUBSET Threads, NEW T \in SUBSET S
  PROVE  Cardinality(T) <= Cardinality(S)
  BY ThreadSetsFinite, FS_Subset

\* CountMatchesList, HitsInv and DuplicatesBounded at the start.
LEMMA InitIndInv == Init => IndInv
<1> SUFFICES ASSUME Init PROVE IndInv
  OBVIOUS
<1> USE LimitAssumption, MaxCallsAssumption
<1>1. TypeOK
  <2>1. cache \in Seq(Sqls)
    BY EmptySeq DEF Init
  <2>2. copy_failed \in BOOLEAN
    BY Zenon DEF Init
  <2>3. pc \in [Threads -> PcValues] /\ sql \in [Threads -> Sqls]
    BY DEF Init, PcValues
  <2>4. entry_count \in 0 .. Limit /\ hit_count \in 0 .. MaxCalls /\ calls \in 0 .. MaxCalls
    BY DEF Init
  <2> QED BY <2>1, <2>2, <2>3, <2>4 DEF TypeOK
<1>2. CountMatchesList
  BY DEF Init, CountMatchesList
<1>3. HitsInv
  <2>1. LookingUp(pc) = {}
    BY DEF Init, LookingUp
  <2> QED BY <2>1, FS_EmptySet DEF Init, HitsInv
<1>4. DuplicatesBounded
  <2> SUFFICES ASSUME NEW s \in Sqls
               PROVE  Cardinality(EntriesFor(s)) + Cardinality(CreatorsOf(s))
                        <= Cardinality(Threads)
    BY DEF DuplicatesBounded
  <2>1. EntriesFor(s) = {} /\ CreatorsOf(s) = {}
    BY DEF Init, EntriesFor, CreatorsOf
  <2>2. Cardinality(Threads) \in Nat
    BY ThreadSetsFinite
  <2> QED BY <2>1, <2>2, FS_EmptySet
<1> QED BY <1>1, <1>2, <1>3, <1>4 DEF IndInv

\* hit_count and the thread's place, for each way a thread can move.
LEMMA NextHitsInv == TypeOK /\ HitsInv /\ [Next]_vars => HitsInv'
<1> SUFFICES ASSUME TypeOK, HitsInv, [Next]_vars PROVE HitsInv'
  OBVIOUS
<1> DEFINE new == LookingUp(pc')
           old == LookingUp(pc)
<1>1. old \in SUBSET Threads /\ new \in SUBSET Threads
  BY DEF LookingUp
<1>2. Cardinality(old) \in Nat /\ Cardinality(new) \in Nat /\ IsFiniteSet(old)
  BY <1>1, ThreadSetsFinite
<1>3. hit_count \in Nat /\ calls \in Nat /\ pc \in [Threads -> PcValues]
  BY MaxCallsAssumption DEF TypeOK
<1>4. ASSUME NEW t \in Threads, NEW s \in Sqls, Call(t, s) PROVE HitsInv'
  <2>1. new = old \cup {t} /\ t \notin old
    BY <1>3, <1>4 DEF Call, Goto, LookingUp, PcValues
  <2>2. Cardinality(new) = Cardinality(old) + 1
    BY <1>2, <2>1, FS_AddElement
  <2> QED BY <1>2, <1>3, <1>4, <2>2 DEF Call, HitsInv
<1>5. ASSUME NEW t \in Threads, LookupHit(t) PROVE HitsInv'
  <2>1. new = old \ {t} /\ t \in old
    BY <1>3, <1>5 DEF LookupHit, Goto, LookingUp, PcValues
  <2>2. Cardinality(new) = Cardinality(old) - 1
    BY <1>2, <2>1, FS_RemoveElement
  <2> QED BY <1>2, <1>3, <1>5, <2>2 DEF LookupHit, HitsInv
<1>6. ASSUME new \subseteq old, hit_count' = hit_count \/ hit_count' = 0,
             calls' = calls
      PROVE  HitsInv'
  <2>1. Cardinality(new) <= Cardinality(old)
    BY <1>1, <1>6, ThreadSetsMonotonic
  <2> QED BY <1>2, <1>3, <1>6, <2>1 DEF HitsInv
<1>7. ASSUME NEW t \in Threads,
             \/ LookupCopyFails(t) \/ LookupMiss(t) \/ Tokenize(t)
             \/ Store(t) \/ StoreFails(t)
      PROVE  HitsInv'
  <2>1. new \subseteq old
    BY <1>3, <1>7 DEF LookupCopyFails, LookupMiss, Tokenize, Store, StoreFails,
                      Goto, LookingUp, PcValues
  <2>2. hit_count' = hit_count /\ calls' = calls
    BY <1>7 DEF LookupCopyFails, LookupMiss, Tokenize, Store, StoreFails
  <2> QED BY <1>6, <2>1, <2>2
<1>8. CASE Cleanup \/ UNCHANGED vars
  BY <1>6, <1>8 DEF Cleanup, vars, LookingUp
<1> QED BY <1>4, <1>5, <1>7, <1>8 DEF Next, ThreadStep

\* A lookup's relinking and a store's eviction keep the counter equal to the
\* length of the list and the list within its limit.
LEMMA NextCountMatchesList ==
  TypeOK /\ CountMatchesList /\ [Next]_vars => CountMatchesList' /\ cache' \in Seq(Sqls)
<1> SUFFICES ASSUME TypeOK, CountMatchesList, [Next]_vars
             PROVE  CountMatchesList' /\ cache' \in Seq(Sqls)
  OBVIOUS
<1>1. /\ cache \in Seq(Sqls) /\ Len(cache) \in Nat /\ Limit \in Nat \ {0}
      /\ entry_count = Len(cache) /\ Len(cache) <= Limit
      /\ sql \in [Threads -> Sqls]
  BY LenProperties, LimitAssumption DEF TypeOK, CountMatchesList
<1>2. ASSUME NEW t \in Threads, LookupHit(t) \/ LookupCopyFails(t)
      PROVE  CountMatchesList' /\ cache' \in Seq(Sqls)
  <2>1. PICK k \in 1 .. Len(cache) : cache' = MovedToFront(k)
    BY <1>2 DEF LookupHit, LookupCopyFails
  <2>2. Len(cache') = Len(cache) /\ cache' \in Seq(Sqls)
    BY <1>1, <2>1, MovedToFrontList
  <2>3. entry_count' = entry_count
    BY <1>2 DEF LookupHit, LookupCopyFails
  <2> QED BY <1>1, <2>2, <2>3 DEF CountMatchesList
<1>3. ASSUME NEW t \in Threads, Store(t)
      PROVE  CountMatchesList' /\ cache' \in Seq(Sqls)
  <2>1. cache' = Evicted(<<sql[t]>> \o cache) /\ sql[t] \in Sqls
    BY <1>1, <1>3 DEF Store
  <2>2. /\ cache' \in Seq(Sqls)
        /\ Len(cache') = IF Len(cache) = Limit THEN Limit ELSE Len(cache) + 1
    BY <1>1, <2>1, EvictedList
  <2>3. entry_count' = IF entry_count + 1 > Limit THEN entry_count ELSE entry_count + 1
    BY <1>3 DEF Store
  <2> QED BY <1>1, <2>2, <2>3 DEF CountMatchesList
<1>4. CASE Cleanup
  <2>1. cache' = <<>> /\ entry_count' = 0
    BY <1>4 DEF Cleanup
  <2> QED BY <1>1, <2>1 DEF CountMatchesList
<1>5. ASSUME cache' = cache, entry_count' = entry_count
      PROVE  CountMatchesList' /\ cache' \in Seq(Sqls)
  BY <1>1, <1>5 DEF CountMatchesList
<1>6. ASSUME NEW t \in Threads,
             \/ \E s \in Sqls : Call(t, s)
             \/ LookupMiss(t) \/ Tokenize(t) \/ StoreFails(t)
      PROVE  cache' = cache /\ entry_count' = entry_count
  BY <1>6 DEF Call, LookupMiss, Tokenize, StoreFails
<1>7. CASE UNCHANGED vars
  BY <1>5, <1>7 DEF vars
<1> QED BY <1>2, <1>3, <1>4, <1>5, <1>6, <1>7 DEF Next, ThreadStep

\* The rest of the type invariant; hit_count needs HitsInv.
LEMMA NextTypeOK ==
  TypeOK /\ CountMatchesList /\ HitsInv /\ [Next]_vars => TypeOK'
<1> SUFFICES ASSUME TypeOK, CountMatchesList, HitsInv, [Next]_vars PROVE TypeOK'
  OBVIOUS
<1> USE LimitAssumption, MaxCallsAssumption
<1>1. cache' \in Seq(Sqls) /\ CountMatchesList' /\ HitsInv'
  BY NextCountMatchesList, NextHitsInv
<1>2. entry_count' \in 0 .. Limit
  BY <1>1, LenProperties DEF CountMatchesList
<1> DEFINE Moves == /\ pc' \in [Threads -> PcValues] /\ sql' \in [Threads -> Sqls]
                    /\ calls' \in 0 .. MaxCalls /\ hit_count' \in Nat
<1>3. Moves
  <2> USE DEF TypeOK
  <2>1. ASSUME NEW t \in Threads, NEW s \in Sqls, Call(t, s) PROVE Moves
    BY <2>1 DEF Call, Goto, PcValues
  <2>2. ASSUME NEW t \in Threads, LookupHit(t) \/ LookupCopyFails(t) \/ LookupMiss(t)
        PROVE  Moves
    BY <2>2 DEF LookupHit, LookupCopyFails, LookupMiss, Goto, PcValues
  <2>3. ASSUME NEW t \in Threads, Tokenize(t) \/ Store(t) \/ StoreFails(t) PROVE Moves
    BY <2>3 DEF Tokenize, Store, StoreFails, Goto, PcValues
  <2>4. CASE Cleanup \/ UNCHANGED vars
    BY <2>4 DEF Cleanup, vars
  <2> QED BY <2>1, <2>2, <2>3, <2>4 DEF Next, ThreadStep
<1>5. copy_failed' \in BOOLEAN
  <2>1. copy_failed' = copy_failed \/ copy_failed' = TRUE \/ copy_failed' = FALSE
    BY Zenon DEF Next, ThreadStep, Call, LookupHit, LookupCopyFails, LookupMiss,
           Tokenize, Store, StoreFails, Cleanup, vars
  <2> QED BY <2>1, Zenon DEF TypeOK
<1>4. hit_count' \in 0 .. MaxCalls
  <2>1. LookingUp(pc') \in SUBSET Threads
    BY DEF LookingUp
  <2>2. Cardinality(LookingUp(pc')) \in Nat
    BY <2>1, ThreadSetsFinite
  <2> QED BY <1>1, <1>3, <2>2 DEF HitsInv
<1> QED BY <1>1, <1>2, <1>3, <1>4, <1>5 DEF TypeOK

\* How many entries and creators a text has, step by step.
LEMMA NextDuplicatesBounded ==
  TypeOK /\ CountMatchesList /\ DuplicatesBounded /\ [Next]_vars => DuplicatesBounded'
<1> SUFFICES ASSUME TypeOK, CountMatchesList, DuplicatesBounded, [Next]_vars,
                    ~copy_failed', NEW s \in Sqls
             PROVE  Cardinality(EntriesFor(s)') + Cardinality(CreatorsOf(s)')
                      <= Cardinality(Threads)
  BY DEF DuplicatesBounded
<1> DEFINE e  == Cardinality(PlacesOf(s, cache))
           e1 == Cardinality(PlacesOf(s, cache'))
           c  == Cardinality(CreatorsOf(s))
           c1 == Cardinality(CreatorsOf(s)')
           n  == Cardinality(Threads)
<1>1. /\ cache \in Seq(Sqls) /\ Len(cache) \in Nat
      /\ entry_count = Len(cache) /\ Len(cache) <= Limit
      /\ pc \in [Threads -> PcValues] /\ sql \in [Threads -> Sqls]
  BY LenProperties DEF TypeOK, CountMatchesList
<1>2. cache' \in Seq(Sqls) /\ Len(cache') \in Nat
  BY NextCountMatchesList, LenProperties
<1>3. EntriesFor(s) = PlacesOf(s, cache) /\ EntriesFor(s)' = PlacesOf(s, cache')
  BY DEF EntriesFor, PlacesOf
<1>4. CreatorsOf(s) \in SUBSET Threads /\ CreatorsOf(s)' \in SUBSET Threads
  BY DEF CreatorsOf
<1>5. e \in Nat /\ e1 \in Nat /\ c \in Nat /\ c1 \in Nat /\ n \in Nat /\ c1 <= n
  BY <1>1, <1>2, <1>4, PlacesFinite, ThreadSetsFinite
<1>6. ~copy_failed => e + c <= n
  BY <1>3 DEF DuplicatesBounded
<1> HIDE DEF e, e1, c, c1, n
<1> SUFFICES e1 + c1 <= n
  BY <1>3 DEF e1, c1, n
<1>7. ASSUME CreatorsOf(s)' \subseteq CreatorsOf(s) PROVE c1 <= c
  BY <1>4, <1>7, ThreadSetsMonotonic DEF c, c1
<1>8. ASSUME NEW t \in Threads, LookupHit(t) PROVE e1 + c1 <= n
  <2>1. PICK k \in 1 .. Len(cache) : cache' = MovedToFront(k)
    BY <1>8 DEF LookupHit
  <2>2. e1 <= e
    BY <1>1, <2>1, MovedToFrontPlaces DEF e, e1
  <2>3. CreatorsOf(s)' \subseteq CreatorsOf(s)
    BY <1>1, <1>8 DEF LookupHit, Goto, CreatorsOf, PcValues
  <2>4. ~copy_failed
    BY <1>8 DEF LookupHit
  <2> QED BY <1>5, <1>6, <1>7, <2>2, <2>3, <2>4
<1>9. ASSUME NEW t \in Threads, LookupMiss(t) PROVE e1 + c1 <= n
  <2>1. cache' = cache /\ ~copy_failed
    BY <1>9 DEF LookupMiss
  <2>2. CASE sql[t] = s
    <3>1. PlacesOf(s, cache') = {}
      BY <1>9, <2>1, <2>2 DEF LookupMiss, PlacesOf
    <3>2. e1 = 0
      BY <3>1, FS_EmptySet DEF e1
    <3> QED BY <1>5, <3>2
  <2>3. CASE sql[t] # s
    <3>1. CreatorsOf(s)' \subseteq CreatorsOf(s)
      BY <1>1, <1>9, <2>3 DEF LookupMiss, Goto, CreatorsOf, PcValues
    <3>2. e1 = e
      BY <2>1 DEF e, e1
    <3> QED BY <1>5, <1>6, <1>7, <2>1, <3>1, <3>2
  <2> QED BY <2>2, <2>3
<1>10. ASSUME NEW t \in Threads, Store(t) PROVE e1 + c1 <= n
  <2>1. cache' = Evicted(<<sql[t]>> \o cache) /\ sql[t] \in Sqls /\ ~copy_failed
    BY <1>1, <1>10 DEF Store
  <2>2. e1 <= e + (IF s = sql[t] THEN 1 ELSE 0)
    BY <1>1, <2>1, EvictedPlaces DEF e, e1
  <2>3. CreatorsOf(s)' = CreatorsOf(s) \ {t} /\ (s = sql[t] => t \in CreatorsOf(s))
    BY <1>1, <1>10 DEF Store, Goto, CreatorsOf, PcValues
  <2>4. c1 = IF t \in CreatorsOf(s) THEN c - 1 ELSE c
    <3>1. IsFiniteSet(CreatorsOf(s))
      BY <1>4, ThreadSetsFinite
    <3> QED BY <2>3, <3>1, FS_RemoveElement DEF c, c1
  <2> QED BY <1>5, <1>6, <2>1, <2>2, <2>3, <2>4
<1>11. ASSUME NEW t \in Threads,
              \/ \E x \in Sqls : Call(t, x)
              \/ Tokenize(t) \/ StoreFails(t)
       PROVE  e1 + c1 <= n
  <2>1. cache' = cache /\ ~copy_failed
    BY <1>11 DEF Call, Tokenize, StoreFails
  <2>2. CreatorsOf(s)' \subseteq CreatorsOf(s)
    BY <1>1, <1>11 DEF Call, Tokenize, StoreFails, Goto, CreatorsOf, PcValues
  <2>3. e1 = e
    BY <2>1 DEF e, e1
  <2> QED BY <1>5, <1>6, <1>7, <2>1, <2>2, <2>3
<1>12. ASSUME NEW t \in Threads, LookupCopyFails(t) PROVE e1 + c1 <= n
  BY <1>12 DEF LookupCopyFails
<1>13. CASE Cleanup
  <2>1. PlacesOf(s, cache') = {}
    BY <1>13 DEF Cleanup, PlacesOf
  <2>2. e1 = 0
    BY <2>1, FS_EmptySet DEF e1
  <2> QED BY <1>5, <2>2
<1>14. CASE UNCHANGED vars
  <2>1. e1 = e /\ c1 = c /\ ~copy_failed
    BY <1>14 DEF vars, e, e1, c, c1, CreatorsOf
  <2> QED BY <1>5, <1>6, <2>1
<1> QED BY <1>8, <1>9, <1>10, <1>11, <1>12, <1>13, <1>14 DEF Next, ThreadStep

\* The invariant is inductive.
LEMMA Invariance == Spec => []IndInv
<1>1. IndInv /\ [Next]_vars => IndInv'
  BY NextTypeOK, NextCountMatchesList, NextHitsInv, NextDuplicatesBounded DEF IndInv
<1> QED BY InitIndInv, <1>1, PTL DEF Spec

-----------------------------------------------------------------------------
(* The results *)

\* Types of the cache's state: in particular entry_count stays within
\* SOFT_PARSER_CACHE_LIMIT and no call counts two hits.
THEOREM TypeCorrect == Spec => []TypeOK
  BY Invariance, PTL DEF IndInv

\* tokenizer_cache_entry_count is the length of the list, which never passes
\* SOFT_PARSER_CACHE_LIMIT, for every interleaving of lookups and stores.
THEOREM CounterExact == Spec => []CountMatchesList
  BY Invariance, PTL DEF IndInv

\* The window between the miss in tokenizer_lookup_cache and the insertion in
\* tokenizer_store_cache leaves at most one entry of a text for each thread.
THEOREM DuplicatesAreBounded == Spec => []DuplicatesBounded
  BY Invariance, PTL DEF IndInv

\* Relinking in tokenizer_lookup_cache loses no text, and a store loses at most
\* the one whose only entry is at the very end of a full list.
THEOREM TextsLeaveAtTheEnd == Spec => OnlyOldestLeaves
<1> DEFINE A == \A s \in Sqls :
                  EntriesFor(s) # {} /\ EntriesFor(s)' = {}
                    => cache' = <<>> \/ (EntriesFor(s) = {Limit} /\ Len(cache) = Limit)
<1>1. IndInv /\ [Next]_vars => [A]_vars
  <2> SUFFICES ASSUME IndInv, Next, NEW s \in Sqls,
                      EntriesFor(s) # {}, EntriesFor(s)' = {}
               PROVE  \/ cache' = <<>>
                      \/ EntriesFor(s) = {Limit} /\ Len(cache) = Limit
    OBVIOUS
  <2>1. /\ cache \in Seq(Sqls) /\ Len(cache) \in Nat /\ Limit \in Nat \ {0}
        /\ entry_count = Len(cache) /\ Len(cache) <= Limit
        /\ sql \in [Threads -> Sqls]
    BY LenProperties, LimitAssumption DEF IndInv, TypeOK, CountMatchesList
  <2>2. PICK p \in 1 .. Len(cache) : cache[p] = s
    BY DEF EntriesFor
  <2>3. \A l \in 1 .. Len(cache') : cache'[l] # s
    BY DEF EntriesFor
  <2>4. ASSUME NEW t \in Threads, LookupHit(t) \/ LookupCopyFails(t) PROVE FALSE
    <3>1. PICK k \in 1 .. Len(cache) : cache' = MovedToFront(k)
      BY <2>4 DEF LookupHit, LookupCopyFails
    <3>2. /\ Len(cache') = Len(cache)
          /\ \A l \in 1 .. Len(cache) :
               cache'[l] = IF l = 1 THEN cache[k]
                           ELSE IF l <= k THEN cache[l - 1] ELSE cache[l]
      BY <2>1, <3>1, MovedToFrontList
    <3>3. CASE p = k
      BY <2>1, <2>2, <2>3, <3>2, <3>3
    <3>4. CASE p < k
      <4>1. p + 1 \in 1 .. Len(cache) /\ p + 1 <= k /\ p + 1 # 1 /\ (p + 1) - 1 = p
        BY <2>1, <3>4
      <4>2. cache'[p + 1] = cache[p]
        BY <3>2, <4>1
      <4> QED BY <2>2, <2>3, <3>2, <4>1, <4>2
    <3>5. CASE p > k
      BY <2>1, <2>2, <2>3, <3>2, <3>5
    <3> QED BY <2>1, <3>3, <3>4, <3>5
  <2>5. ASSUME NEW t \in Threads, Store(t)
        PROVE  EntriesFor(s) = {Limit} /\ Len(cache) = Limit
    <3> DEFINE len == IF Len(cache) = Limit THEN Limit ELSE Len(cache) + 1
    <3>1. cache' = Evicted(<<sql[t]>> \o cache) /\ sql[t] \in Sqls
      BY <2>1, <2>5 DEF Store
    <3>2. /\ Len(cache') = len
          /\ \A l \in 1 .. len : cache'[l] = IF l = 1 THEN sql[t] ELSE cache[l - 1]
      BY <2>1, <3>1, EvictedList
    <3>3. \A q \in 1 .. Len(cache) : cache[q] = s => q + 1 \notin 1 .. len
      <4> SUFFICES ASSUME NEW q \in 1 .. Len(cache), cache[q] = s, q + 1 \in 1 .. len
                   PROVE  FALSE
        OBVIOUS
      <4>1. q + 1 # 1 /\ (q + 1) - 1 = q
        BY <2>1
      <4>2. cache'[q + 1] = s
        BY <3>2, <4>1
      <4> QED BY <2>3, <3>2, <4>2
    <3>4. Len(cache) = Limit /\ \A q \in 1 .. Len(cache) : cache[q] = s => q = Limit
      BY <2>1, <2>2, <3>3
    <3> QED BY <2>2, <3>4 DEF EntriesFor
  <2>6. ASSUME cache' = cache PROVE FALSE
    BY <2>2, <2>3, <2>6
  <2>7. ASSUME NEW t \in Threads,
               \/ \E x \in Sqls : Call(t, x)
               \/ LookupMiss(t) \/ Tokenize(t) \/ StoreFails(t)
        PROVE  FALSE
    BY <2>6, <2>7 DEF Call, LookupMiss, Tokenize, StoreFails
  <2>8. CASE Cleanup
    BY <2>8 DEF Cleanup
  <2> QED BY <2>4, <2>5, <2>7, <2>8 DEF Next, ThreadStep
<1> QED BY Invariance, <1>1, PTL DEF Spec, OnlyOldestLeaves
=============================================================================

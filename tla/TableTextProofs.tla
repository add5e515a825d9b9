-------------------------- MODULE TableTextProofs --------------------------
(***************************************************************************)
(* What the text of a table file means: proofs about TableText for every    *)
(* text, every value and every row.  Induction is over sets of numbers: a   *)
(* set with 0 that is closed under adding 1 up to n holds every number up   *)
(* to n.                                                                    *)
(***************************************************************************)
EXTENDS TableText, SequenceTheorems, FiniteSetTheorems, NaturalsInduction,
        WellFoundedInduction, TLAPS

-----------------------------------------------------------------------------
(* Induction and recursion *)

LEMMA LeastExists ==
  ASSUME NEW T, T \subseteq Nat, T # {}
  PROVE  \E m \in T : \A k \in T : m <= k
<1> DEFINE R == OpToRel(<, Nat)
<1>1. IsWellFoundedOn(R, Nat)
  BY NatLessThanWellFounded
<1>2. \A x, y \in Nat : <<x, y>> \in R <=> x < y
  BY DEF OpToRel
<1> HIDE DEF R
<1>3. PICK m \in T : \A k \in T : ~(<<k, m>> \in R)
  BY <1>1, WFMin
<1>4. \A k \in T : k \in Nat /\ m \in Nat /\ ~(k < m)
  BY <1>2, <1>3
<1>5. \A k \in T : m <= k
  BY <1>4
<1> QED BY <1>5

LEMMA IntervalInduction ==
  ASSUME NEW n \in Nat, NEW S, 0 \in S, \A m \in 0 .. n - 1 : m \in S => m + 1 \in S
  PROVE  \A m \in 0 .. n : m \in S
<1> DEFINE T == {m \in 0 .. n : m \notin S}
<1> SUFFICES ASSUME T # {} PROVE FALSE
  OBVIOUS
<1>1. T \subseteq Nat
  OBVIOUS
<1>2. PICK m \in T : \A k \in T : m <= k
  BY <1>1, LeastExists
<1>3. m # 0 /\ m - 1 \in 0 .. n - 1 /\ m - 1 \in S
  BY <1>2
<1> QED BY <1>2, <1>3

\* A set of positions that has with each position those before it.
LEMMA FirstOnes ==
  ASSUME NEW n \in Nat, NEW S \in SUBSET (1 .. n), \A j \in S, k \in 1 .. n : k < j => k \in S
  PROVE  \E c \in 0 .. n : S = 1 .. c
<1> DEFINE T == {k \in 0 .. n : k + 1 \notin S}
<1>1. T \subseteq Nat /\ n \in T
  OBVIOUS
<1>2. PICK c \in T : \A k \in T : c <= k
  BY <1>1, LeastExists
<1>3. \A k \in 1 .. c : k \in S
  <2> SUFFICES ASSUME NEW k \in 1 .. c PROVE k \in S
    OBVIOUS
  <2>1. k - 1 \in 0 .. n /\ ~(c <= k - 1) /\ k - 1 + 1 = k
    BY <1>2
  <2> QED BY <1>2, <2>1
<1>4. \A k \in S : k \in 1 .. c
  <2> SUFFICES ASSUME NEW k \in S, k > c PROVE FALSE
    BY <1>2
  <2>1. c + 1 \in 1 .. n /\ c + 1 \notin S /\ c + 1 # k
    BY <1>2
  <2> QED BY <1>2, <2>1
<1> QED BY <1>2, <1>3, <1>4

Steps(n, S) == [1 .. n -> [S -> S]]

\* f starts with a and follows the steps.
Follows(f, a, n, S, step) ==
  f \in [0 .. n -> S] /\ f[0] = a /\ \A k \in 0 .. n - 1 : f[k + 1] = step[k + 1][f[k]]

\* A function defined by recursion along an interval exists.
LEMMA Recursion ==
  ASSUME NEW S, NEW a \in S, NEW n \in Nat, NEW step \in Steps(n, S)
  PROVE  \E f : Follows(f, a, n, S, step)
<1> USE DEF Steps
<1> DEFINE Upto(f, m) == f[0] = a /\ \A k \in 0 .. m - 1 : f[k + 1] = step[k + 1][f[k]]
           M == {m \in 0 .. n : \E f \in [0 .. m -> S] : Upto(f, m)}
<1>1. 0 \in M
  <2>1. Upto([k \in 0 .. 0 |-> a], 0) /\ [k \in 0 .. 0 |-> a] \in [0 .. 0 -> S]
    OBVIOUS
  <2>2. \E f \in [0 .. 0 -> S] : Upto(f, 0)
    BY <2>1
  <2> QED BY <2>2
<1>2. ASSUME NEW m \in 0 .. n - 1, m \in M PROVE m + 1 \in M
  <2>1. PICK f \in [0 .. m -> S] : Upto(f, m)
    BY <1>2
  <2> DEFINE g == [k \in 0 .. m + 1 |-> IF k = m + 1 THEN step[m + 1][f[m]] ELSE f[k]]
  <2>2. g \in [0 .. m + 1 -> S]
    OBVIOUS
  <2>3. Upto(g, m + 1)
    <3>1. g[0] = a
      BY <2>1
    <3>2. ASSUME NEW k \in 0 .. m PROVE g[k + 1] = step[k + 1][g[k]]
      <4>1. CASE k = m
        BY <4>1
      <4>2. CASE k \in 0 .. m - 1
        <5>1. f[k + 1] = step[k + 1][f[k]]
          BY <2>1, <4>2
        <5>2. g[k + 1] = f[k + 1] /\ g[k] = f[k]
          BY <4>2
        <5> QED BY <5>1, <5>2
      <4> QED BY <4>1, <4>2
    <3>3. m + 1 - 1 = m
      OBVIOUS
    <3> HIDE DEF g
    <3> QED BY <3>1, <3>2, <3>3
  <2>4. m + 1 \in 0 .. n
    OBVIOUS
  <2> HIDE DEF g, Upto
  <2> QED BY <2>2, <2>3, <2>4
<1>3. n \in M
  <2> HIDE DEF M
  <2>1. \A m \in 0 .. n : m \in M
    BY <1>1, <1>2, IntervalInduction
  <2> QED BY <2>1
<1> QED BY <1>3 DEF Follows

-----------------------------------------------------------------------------
(* Reading a line *)

\* The states of storage_parse_csv_line over an alphabet.
States(C) == [fields : Seq(Seq(C)), field : Seq(C),
              mode : {"outside", "inside", "second", "malformed"}]

State(fields, field, mode) == [fields |-> fields, field |-> field, mode |-> mode]

StartState == State(<<>>, <<>>, "outside")

Whole(line) == IF line # <<>> /\ Last(line) = Newline THEN line
                                                      ELSE Append(line, Newline)

\* st goes on along a line as storage_parse_csv_line does, from any state or
\* from the start.
Runs(line, st) ==
  \A k \in 0 .. Len(line) - 1 : st[k + 1] = ParseChar(line, st[k], k + 1)

IsRun(line, st) == st[0] = StartState /\ Runs(line, st)

LEMMA CharactersDiffer ==
  Newline # Quote /\ Newline # Comma /\ Quote # Comma
  BY DEF Newline, Quote, Comma

\* One character at a time; a line break never becomes part of a field.
LEMMA ParseCharType ==
  ASSUME NEW C, NEW line \in Seq(C), NEW k \in 1 .. Len(line),
         NEW s \in States(C \ {Newline})
  PROVE  ParseChar(line, s, k) \in States(C \ {Newline})
<1> DEFINE D == C \ {Newline}
<1>1. line[k] \in C
  BY ElementOfSeq
<1>2. s.fields \in Seq(Seq(D)) /\ s.field \in Seq(D)
  BY DEF States
<1>3. line[k] = Quote => Append(s.field, Quote) \in Seq(D)
  BY <1>1, <1>2, CharactersDiffer, AppendProperties
<1>4. line[k] # Newline => Append(s.field, line[k]) \in Seq(D)
  BY <1>1, <1>2, AppendProperties
<1>5. Append(s.fields, s.field) \in Seq(Seq(D)) /\ <<>> \in Seq(D)
  BY <1>2, AppendProperties, EmptySeq
<1> HIDE DEF D
<1> SUFFICES ParseChar(line, s, k) \in States(D)
  BY DEF D
<1>6. s \in States(D)
  BY DEF D
<1> QED BY <1>3, <1>4, <1>5, <1>6 DEF ParseChar, States

LEMMA WholeProperties ==
  ASSUME NEW C, NEW line \in Seq(C)
  PROVE  /\ Whole(line) \in Seq(C \cup {Newline})
         /\ Len(Whole(line)) \in Nat \ {0}
         /\ Whole(line)[Len(Whole(line))] = Newline
         /\ \A k \in 1 .. Len(line) : Whole(line)[k] = line[k]
         /\ line # <<>> /\ Last(line) = Newline => Whole(line) = line
         /\ ~(line # <<>> /\ Last(line) = Newline) => Len(Whole(line)) = Len(line) + 1
<1>1. Append(line, Newline) \in Seq(C \cup {Newline}) /\ line \in Seq(C \cup {Newline})
  OBVIOUS
<1>2. line # <<>> => Len(line) \in Nat \ {0}
  BY EmptySeq, LenProperties
<1> QED BY <1>1, <1>2, AppendProperties DEF Whole, Last

\* The recursion of ParseLine is a run.
LEMMA ParseLineRuns ==
  ASSUME NEW C, Newline \in C, NEW line \in Seq(C)
  PROVE  \E st \in [0 .. Len(Whole(line)) -> States(C \ {Newline})] :
           /\ IsRun(Whole(line), st)
           /\ ParseLine(line) = [ok |-> st[Len(Whole(line))].mode # "malformed",
                                 fields |-> st[Len(Whole(line))].fields]
<1> DEFINE whole == Whole(line)
           S == States(C \ {Newline})
           n == Len(whole)
           Body(f) == [k \in 0 .. n |-> IF k = 0 THEN StartState ELSE ParseChar(whole, f[k - 1], k)]
           st == CHOOSE f : f = Body(f)
<1>1. whole \in Seq(C) /\ n \in Nat
  <2>1. C \cup {Newline} = C
    OBVIOUS
  <2> QED BY <2>1, WholeProperties
<1>2. StartState \in S
  BY EmptySeq DEF States, State, StartState
<1>3. \A s \in S, k \in 1 .. n : ParseChar(whole, s, k) \in S
  BY <1>1, ParseCharType
<1>4. ParseLine(line) = [ok |-> st[n].mode # "malformed", fields |-> st[n].fields]
  BY DEF ParseLine, Whole, StartState, State
<1> HIDE DEF whole, S
<1>5. \E f : f = Body(f)
  <2> DEFINE step == [k \in 1 .. n |-> [s \in S |-> ParseChar(whole, s, k)]]
  <2>1. step \in Steps(n, S)
    BY <1>3 DEF Steps
  <2> HIDE DEF step
  <2>0. PICK f : Follows(f, StartState, n, S, step)
    BY <1>1, <1>2, <2>1, Recursion
  <2>2. ASSUME NEW k \in 1 .. n PROVE f[k] = ParseChar(whole, f[k - 1], k)
    <3> DEFINE j == k - 1
    <3>1. j \in 0 .. n - 1 /\ j \in 0 .. n /\ j + 1 = k
      BY <1>1
    <3> HIDE DEF j
    <3>2. f[j] \in S /\ f[j + 1] = step[j + 1][f[j]]
      BY <2>0, <3>1 DEF Follows
    <3>3. f[k] = ParseChar(whole, f[j], k)
      BY <3>1, <3>2 DEF step
    <3> QED BY <3>3 DEF j
  <2>3. \A k \in 0 .. n : f[k] = IF k = 0 THEN StartState ELSE ParseChar(whole, f[k - 1], k)
    BY <1>1, <2>0, <2>2 DEF Follows
  <2>4. f = Body(f)
    BY <2>0, <2>3 DEF Follows
  <2> QED BY <2>4
<1>6. st = Body(st)
  BY <1>5
<1> HIDE DEF st
<1>7. IsRun(whole, st)
  <2>1. ASSUME NEW k \in 0 .. n - 1 PROVE st[k + 1] = ParseChar(whole, st[k], k + 1)
    <3> DEFINE j == k + 1
    <3>1. j \in 0 .. n /\ j # 0 /\ j - 1 = k
      BY <1>1
    <3> HIDE DEF j
    <3>2. st[j] = ParseChar(whole, st[j - 1], j)
      BY <1>6, <3>1
    <3> QED BY <3>1, <3>2 DEF j
  <2>2. st[0] = StartState
    BY <1>1, <1>6
  <2> QED BY <2>1, <2>2 DEF IsRun, Runs
<1>8. \A k \in 0 .. n : st[k] \in S
  <2> DEFINE G == {k \in 0 .. n : st[k] \in S}
  <2>1. 0 \in G
    BY <1>1, <1>2, <1>7 DEF IsRun, Runs
  <2>2. ASSUME NEW m \in 0 .. n - 1, m \in G PROVE m + 1 \in G
    <3>1. st[m + 1] = ParseChar(whole, st[m], m + 1) /\ m + 1 \in 1 .. n
      BY <1>1, <1>7 DEF IsRun, Runs
    <3> QED BY <1>3, <2>2, <3>1
  <2> HIDE DEF G
  <2>3. \A m \in 0 .. n : m \in G
    BY <1>1, <2>1, <2>2, IntervalInduction
  <2> QED BY <2>3 DEF G
<1>9. st \in [0 .. n -> S]
  BY <1>6, <1>8
<1> QED BY <1>4, <1>7, <1>9 DEF whole, S

-----------------------------------------------------------------------------
(* Concatenation *)

LEMMA ConcatFacts ==
  ASSUME NEW A, NEW s \in Seq(A), NEW t \in Seq(A)
  PROVE  /\ s \o t \in Seq(A) /\ Len(s) \in Nat /\ Len(t) \in Nat
         /\ Len(s \o t) = Len(s) + Len(t)
         /\ \A k \in 1 .. Len(s) : (s \o t)[k] = s[k]
         /\ \A k \in 1 .. Len(t) : (s \o t)[Len(s) + k] = t[k]
<1>1. Len(s) \in Nat /\ Len(t) \in Nat
  BY LenProperties
<1> QED BY <1>1, ConcatProperties

\* t begins with s.
Begins(s, t) == Len(s) <= Len(t) /\ \A k \in 1 .. Len(s) : t[k] = s[k]

LEMMA BeginsTransitive ==
  ASSUME NEW s, NEW t, NEW u, Len(s) \in Nat, Len(t) \in Nat, Len(u) \in Nat,
         Begins(s, t), Begins(t, u)
  PROVE  Begins(s, u)
  BY DEF Begins

LEMMA BeginsOfConcat ==
  ASSUME NEW A, NEW s \in Seq(A), NEW t \in Seq(A)
  PROVE  Begins(s, s \o t)
  BY ConcatFacts DEF Begins

\* f[i] is the concatenation of the first i sequences.
Joins(f, seqs, A) ==
  /\ f \in [0 .. Len(seqs) -> Seq(A)] /\ f[0] = <<>>
  /\ \A i \in 0 .. Len(seqs) - 1 : f[i + 1] = f[i] \o seqs[i + 1]

LEMMA FlattenJoins ==
  ASSUME NEW A, NEW seqs \in Seq(Seq(A))
  PROVE  \E f : Joins(f, seqs, A) /\ FlattenSeq(seqs) = f[Len(seqs)]
<1> DEFINE n == Len(seqs)
           step == [i \in 1 .. n |-> [s \in Seq(A) |-> s \o seqs[i]]]
<1>1. n \in Nat /\ \A i \in 1 .. n : seqs[i] \in Seq(A)
  BY LenProperties, ElementOfSeq
<1>2. \A i \in 1 .. n, s \in Seq(A) : s \o seqs[i] \in Seq(A)
  BY <1>1, ConcatProperties
<1>3. step \in Steps(n, Seq(A)) /\ <<>> \in Seq(A)
  BY <1>2, EmptySeq DEF Steps
<1> HIDE DEF step
<1>4. PICK f : Follows(f, <<>>, n, Seq(A), step)
  BY <1>1, <1>3, Recursion
<1>0. n = 0 => seqs = <<>>
  BY EmptySeq
<1>5. f[0] = <<>> /\ f \in [0 .. n -> Seq(A)]
  BY <1>4 DEF Follows
<1>6. ASSUME NEW i \in 0 .. n - 1 PROVE f[i + 1] = f[i] \o seqs[i + 1]
  <2>1. f[i + 1] = step[i + 1][f[i]]
    BY <1>4 DEF Follows
  <2> HIDE DEF n
  <2>2. i \in 0 .. n /\ i + 1 \in 1 .. n
    BY <1>1
  <2>3. f[i] \in Seq(A)
    BY <1>5, <2>2
  <2> QED BY <2>1, <2>2, <2>3 DEF step
<1>7. Joins(f, seqs, A)
  BY <1>5, <1>6 DEF Joins
<1>8. CASE n = 0
  <2>1. FlattenSeq(seqs) = seqs
    BY <1>8 DEF FlattenSeq
  <2> QED BY <1>0, <1>5, <1>7, <1>8, <2>1
<1>9. CASE n # 0
  <2> DEFINE Body(g) == [i \in 1 .. n |-> IF i = 1 THEN seqs[i] ELSE g[i - 1] \o seqs[i]]
             h == CHOOSE g : g = Body(g)
  <2>1. FlattenSeq(seqs) = h[n]
    BY <1>9 DEF FlattenSeq
  <2> HIDE DEF n
  <2>2. seqs[1] \in Seq(A) /\ 0 \in 0 .. n - 1
    BY <1>1, <1>9
  <2>3. f[1] = seqs[1]
    <3>1. f[0 + 1] = f[0] \o seqs[0 + 1]
      BY <1>6, <2>2
    <3>2. <<>> \o seqs[1] = seqs[1]
      BY <2>2, ConcatEmptySeq
    <3> QED BY <1>5, <3>1, <3>2
  <2>4. \E g : g = Body(g)
    <3> DEFINE g == [i \in 1 .. n |-> f[i]]
    <3>1. ASSUME NEW i \in 1 .. n PROVE g[i] = Body(g)[i]
      <4>1. CASE i = 1
        BY <2>3, <4>1
      <4>2. CASE i # 1
        <5> DEFINE j == i - 1
        <5>1. j \in 1 .. n /\ j \in 0 .. n - 1 /\ j + 1 = i
          BY <1>1, <4>2
        <5> HIDE DEF j
        <5>2. f[i] = f[j] \o seqs[i]
          BY <1>6, <5>1
        <5>3. g[j] = f[j] /\ g[i] = f[i]
          BY <5>1
        <5> HIDE DEF g
        <5>4. Body(g)[i] = g[j] \o seqs[i]
          BY <4>2 DEF j
        <5> QED BY <5>2, <5>3, <5>4
      <4> QED BY <4>1, <4>2
    <3>2. g = Body(g)
      BY <3>1
    <3> QED BY <3>2
  <2>5. h = Body(h)
    BY <2>4
  <2> HIDE DEF h
  <2> DEFINE G == {i \in 0 .. n : i # 0 => h[i] = f[i]}
  <2>6. 0 \in G
    BY <1>1
  <2>7. ASSUME NEW m \in 0 .. n - 1, m \in G PROVE m + 1 \in G
    <3>1. CASE m = 0
      <4>1. h[1] = seqs[1]
        BY <1>1, <1>9, <2>5
      <4> QED BY <1>1, <1>9, <2>3, <3>1, <4>1
    <3>2. CASE m # 0
      <4> DEFINE i == m + 1
      <4>1. i \in 1 .. n /\ i # 1 /\ i - 1 = m /\ m # 0
        BY <1>1, <3>2
      <4>2. f[i] = f[m] \o seqs[i]
        BY <1>6
      <4> HIDE DEF i
      <4>3. h[i] = h[i - 1] \o seqs[i]
        BY <2>5, <4>1
      <4>4. h[m] = f[m]
        BY <2>7, <3>2
      <4>5. h[i] = f[i]
        BY <4>1, <4>2, <4>3, <4>4
      <4>6. i \in G
        BY <4>1, <4>5
      <4> QED BY <4>6 DEF i
    <3> QED BY <3>1, <3>2
  <2> HIDE DEF G
  <2>8. \A m \in 0 .. n : m \in G
    BY <1>1, <2>6, <2>7, IntervalInduction
  <2>9. h[n] = f[n]
    BY <1>1, <1>9, <2>8 DEF G
  <2> QED BY <1>7, <2>1, <2>9 DEF n
<1> QED BY <1>8, <1>9

\* What has been put together stays at the front.
LEMMA JoinsGrow ==
  ASSUME NEW A, NEW seqs \in Seq(Seq(A)), NEW f, Joins(f, seqs, A),
         NEW i \in 0 .. Len(seqs), NEW j \in i .. Len(seqs)
  PROVE  f[i] \in Seq(A) /\ f[j] \in Seq(A) /\ Begins(f[i], f[j])
<1> DEFINE n == Len(seqs)
           G == {d \in 0 .. n - i : Begins(f[i], f[i + d])}
<1>1. n \in Nat /\ (\A m \in 1 .. n : seqs[m] \in Seq(A)) /\ i \in 0 .. n /\ j \in i .. n
  BY LenProperties, ElementOfSeq
<1>2. \A m \in 0 .. n : f[m] \in Seq(A) /\ Len(f[m]) \in Nat
  BY LenProperties DEF Joins
<1>3. \A m \in 0 .. n - 1 : f[m + 1] = f[m] \o seqs[m + 1]
  BY DEF Joins
<1> HIDE DEF n
<1>4. 0 \in G
  BY <1>1, <1>2 DEF Begins
<1>5. ASSUME NEW d \in 0 .. n - i - 1, d \in G PROVE d + 1 \in G
  <2> DEFINE m == i + d
  <2>1. m \in 0 .. n - 1 /\ m \in 0 .. n /\ m + 1 \in 0 .. n /\ m + 1 \in 1 .. n
        /\ i + (d + 1) = m + 1 /\ Begins(f[i], f[m]) /\ d + 1 \in 0 .. n - i
    BY <1>1, <1>5
  <2> HIDE DEF m
  <2>2. Begins(f[m], f[m + 1])
    BY <1>1, <1>2, <1>3, <2>1, BeginsOfConcat
  <2>3. Begins(f[i], f[m + 1])
    BY <1>1, <1>2, <2>1, <2>2, BeginsTransitive
  <2> QED BY <2>1, <2>3
<1>6. n - i \in Nat
  BY <1>1
<1>7. \A d \in 0 .. n - i : d \in G
  <2> HIDE DEF G
  <2> QED BY <1>4, <1>5, <1>6, IntervalInduction
<1>8. j - i \in 0 .. n - i /\ i + (j - i) = j /\ j \in 0 .. n
  BY <1>1
<1>9. Begins(f[i], f[i + (j - i)])
  BY <1>7, <1>8
<1> QED BY <1>1, <1>2, <1>8, <1>9

-----------------------------------------------------------------------------
(* The characters of a line, one at a time *)

LEMMA Outside ==
  ASSUME NEW line, NEW k, NEW F, NEW x
  PROVE  LET next == ParseChar(line, State(F, x, "outside"), k) IN
         /\ line[k] \notin {Quote, Comma, Newline} =>
              next = State(F, Append(x, line[k]), "outside")
         /\ line[k] = Quote => next = State(F, x, "inside")
         /\ line[k] \in {Comma, Newline} => next = State(Append(F, x), <<>>, "outside")
  BY CharactersDiffer DEF ParseChar, State

LEMMA Inside ==
  ASSUME NEW line, NEW k, NEW F, NEW x
  PROVE  LET next == ParseChar(line, State(F, x, "inside"), k) IN
         /\ line[k] \notin {Quote, Newline} => next = State(F, Append(x, line[k]), "inside")
         /\ line[k] = Quote /\ line[k + 1] = Quote => next = State(F, Append(x, Quote), "second")
         /\ line[k] = Quote /\ line[k + 1] # Quote => next = State(F, x, "outside")
         /\ line[k] = Newline => next = State(F, x, "malformed")
  BY CharactersDiffer DEF ParseChar, State

LEMMA Second ==
  ASSUME NEW line, NEW k, NEW F, NEW x
  PROVE  ParseChar(line, State(F, x, "second"), k) = State(F, x, "inside")
  BY DEF ParseChar, State

LEMMA Malformed ==
  ASSUME NEW line, NEW k, NEW F, NEW x
  PROVE  ParseChar(line, State(F, x, "malformed"), k) = State(F, x, "malformed")
  BY DEF ParseChar, State

-----------------------------------------------------------------------------
(* A value that storage_write_csv_value has written *)

\* w stands in the line after its first p characters.
Occurs(w, line, p) ==
  p + Len(w) <= Len(line) /\ \A k \in 1 .. Len(w) : line[p + k] = w[k]

LEMMA SubSeqFacts ==
  ASSUME NEW A, NEW s \in Seq(A), NEW m \in 1 .. Len(s) + 1, NEW n \in m - 1 .. Len(s)
  PROVE  /\ SubSeq(s, m, n) \in Seq(A) /\ Len(SubSeq(s, m, n)) = n - m + 1
         /\ \A i \in 1 .. n - m + 1 : SubSeq(s, m, n)[i] = s[m + i - 1]
<1>1. Len(s) \in Nat /\ m \in Int /\ n \in Int
  BY LenProperties
<1>2. \A i \in m .. n : s[i] \in A
  BY <1>1, ElementOfSeq
<1> QED BY <1>1, <1>2, SubSeqProperties

LEMMA ConcatPrefix ==
  ASSUME NEW A, NEW x \in Seq(A), NEW v \in Seq(A)
  PROVE  /\ x \o SubSeq(v, 1, 0) = x
         /\ x \o SubSeq(v, 1, Len(v)) = x \o v
         /\ \A i \in 0 .. Len(v) - 1 :
              x \o SubSeq(v, 1, i + 1) = Append(x \o SubSeq(v, 1, i), v[i + 1])
<1>0. Len(v) \in Nat
  BY LenProperties
<1>1. x \o SubSeq(v, 1, 0) = x
  BY SubSeqEmpty, ConcatEmptySeq
<1>2. x \o SubSeq(v, 1, Len(v)) = x \o v
  BY SubSeqFull
<1>3. ASSUME NEW i \in 0 .. Len(v) - 1
      PROVE  x \o SubSeq(v, 1, i + 1) = Append(x \o SubSeq(v, 1, i), v[i + 1])
  <2> DEFINE u == SubSeq(v, 1, i)
  <2>1. i \in Nat /\ i + 1 \in 1 .. Len(v) /\ v[i + 1] \in A
    BY <1>0, ElementOfSeq
  <2>2. u \in Seq(A)
    BY <1>0, <2>1, SubSeqFacts
  <2>3. SubSeq(v, 1, i + 1) = u \o <<v[i + 1]>>
    <3>1. 1 \in 1 .. Len(v) /\ i + 1 \in 1 .. Len(v) /\ i + 1 - 1 = i
      BY <1>0, <2>1
    <3> QED BY <3>1, SubSeqRecursiveSecond
  <2> HIDE DEF u
  <2>4. <<v[i + 1]>> \in Seq(A)
    BY <2>1
  <2>5. x \o (u \o <<v[i + 1]>>) = (x \o u) \o <<v[i + 1]>>
    BY <2>2, <2>4, ConcatAssociative
  <2>6. (x \o u) \o <<v[i + 1]>> = Append(x \o u, v[i + 1])
    BY <2>1, <2>2, ConcatProperties, AppendIsConcat
  <2> QED BY <2>3, <2>5, <2>6 DEF u
<1> QED BY <1>1, <1>2, <1>3

LEMMA RunStep ==
  ASSUME NEW line, Len(line) \in Nat, NEW st, Runs(line, st), NEW q \in Nat, q < Len(line)
  PROVE  st[q + 1] = ParseChar(line, st[q], q + 1)
  BY DEF Runs

\* A value without quotes, commas and line breaks is taken over as it is.
LEMMA PlainRun ==
  ASSUME NEW C, NEW line \in Seq(C), NEW st, Runs(line, st), NEW p \in Nat,
         NEW v \in Seq(C), Occurs(v, line, p),
         \A k \in 1 .. Len(v) : v[k] \notin {Quote, Comma, Newline},
         NEW F, NEW x \in Seq(C), st[p] = State(F, x, "outside")
  PROVE  st[p + Len(v)] = State(F, x \o v, "outside")
<1> DEFINE n == Len(v)
           G == {i \in 0 .. n : st[p + i] = State(F, x \o SubSeq(v, 1, i), "outside")}
<1>1. n \in Nat /\ Len(line) \in Nat /\ p + n <= Len(line)
  BY LenProperties DEF Occurs
<1>2. \A k \in 1 .. n : line[p + k] = v[k]
  BY DEF Occurs
<1>3. 0 \in G
  <2>1. x \o SubSeq(v, 1, 0) = x /\ p + 0 = p /\ 0 \in 0 .. n
    BY <1>1, ConcatPrefix
  <2> QED BY <2>1
<1>4. ASSUME NEW i \in 0 .. n - 1, i \in G PROVE i + 1 \in G
  <2> DEFINE q == p + i
             y == x \o SubSeq(v, 1, i)
  <2>1. q \in Nat /\ q < Len(line) /\ q + 1 = p + (i + 1) /\ i + 1 \in 1 .. n
    BY <1>1
  <2>2. st[q] = State(F, y, "outside")
    BY <1>4
  <2>3. line[q + 1] = v[i + 1] /\ line[q + 1] \notin {Quote, Comma, Newline}
    BY <1>2, <2>1
  <2>4. x \o SubSeq(v, 1, i + 1) = Append(y, v[i + 1])
    BY ConcatPrefix
  <2> HIDE DEF q, y
  <2>5. st[q + 1] = ParseChar(line, State(F, y, "outside"), q + 1)
    BY <1>1, <2>1, <2>2, RunStep
  <2>6. st[q + 1] = State(F, Append(y, v[i + 1]), "outside")
    BY <2>3, <2>5, Outside
  <2>7. st[q + 1] = State(F, x \o SubSeq(v, 1, i + 1), "outside")
    BY <2>4, <2>6
  <2>8. i + 1 \in 0 .. n
    BY <1>1
  <2> QED BY <2>1, <2>7, <2>8
<1>5. n \in G
  <2> HIDE DEF G
  <2>1. \A i \in 0 .. n : i \in G
    BY <1>1, <1>3, <1>4, IntervalInduction
  <2> QED BY <1>1, <2>1
<1> QED BY <1>5, ConcatPrefix

\* How a character of a quoted value is written.
Escaped(c) == IF c = Quote THEN <<Quote, Quote>> ELSE <<c>>

Doubled(v) == [k \in DOMAIN v |-> IF v[k] = Quote THEN <<Quote, Quote>> ELSE <<v[k]>>]

LEMMA DoubledType ==
  ASSUME NEW C, NEW v \in Seq(C)
  PROVE  /\ Doubled(v) \in Seq(Seq(C)) /\ Len(Doubled(v)) = Len(v)
         /\ \A k \in 1 .. Len(v) :
              Doubled(v)[k] = IF v[k] = Quote THEN <<Quote, Quote>> ELSE <<v[k]>>
<1>1. Len(v) \in Nat /\ DOMAIN v = 1 .. Len(v)
  BY LenProperties
<1>2. ASSUME NEW k \in 1 .. Len(v)
      PROVE  (IF v[k] = Quote THEN <<Quote, Quote>> ELSE <<v[k]>>) \in Seq(C)
  <2>1. v[k] \in C
    BY ElementOfSeq
  <2> QED BY <2>1
<1>3. Doubled(v) \in [1 .. Len(v) -> Seq(C)]
  BY <1>1, <1>2 DEF Doubled
<1>4. \A k \in 1 .. Len(v) :
        Doubled(v)[k] = IF v[k] = Quote THEN <<Quote, Quote>> ELSE <<v[k]>>
  BY <1>1 DEF Doubled
<1> HIDE DEF Doubled
<1>5. Doubled(v) \in Seq(Seq(C))
  BY <1>1, <1>3, SeqDef
<1>6. Len(Doubled(v)) = Len(v)
  BY <1>1, <1>3, <1>5, LenProperties
<1> QED BY <1>4, <1>5, <1>6

\* A part of what occurs in a line.
LEMMA OccursWithin ==
  ASSUME NEW C, NEW line \in Seq(C), NEW p \in Nat, NEW w \in Seq(C), Occurs(w, line, p),
         NEW s \in Seq(C), NEW t \in Seq(C), Begins(s \o t, w)
  PROVE  Occurs(t, line, p + Len(s)) /\ p + Len(s) \in Nat
<1>1. Len(line) \in Nat /\ Len(w) \in Nat /\ Len(s) \in Nat /\ Len(t) \in Nat
  BY LenProperties
<1>2. Len(s \o t) = Len(s) + Len(t) /\ \A k \in 1 .. Len(t) : (s \o t)[Len(s) + k] = t[k]
  BY ConcatFacts
<1>3. Len(s) + Len(t) <= Len(w) /\ p + Len(w) <= Len(line)
  BY <1>2 DEF Begins, Occurs
<1>4. ASSUME NEW k \in 1 .. Len(t) PROVE line[p + Len(s) + k] = t[k]
  <2> DEFINE j == Len(s) + k
  <2>1. j \in 1 .. Len(s) + Len(t) /\ j \in 1 .. Len(w) /\ p + j = p + Len(s) + k
    BY <1>1, <1>3
  <2>2. (s \o t)[j] = t[k]
    BY <1>2
  <2> HIDE DEF j
  <2>3. w[j] = (s \o t)[j]
    BY <1>2, <2>1 DEF Begins
  <2>4. line[p + j] = w[j]
    BY <2>1 DEF Occurs
  <2> QED BY <2>1, <2>2, <2>3, <2>4
<1>5. p + Len(s) + Len(t) <= Len(line) /\ p + Len(s) \in Nat
  BY <1>1, <1>3
<1> QED BY <1>4, <1>5 DEF Occurs

\* One character of a quoted value.
LEMMA QuotedStep ==
  ASSUME NEW line, Len(line) \in Nat, NEW st, Runs(line, st), NEW q \in Nat, NEW F, NEW y,
         st[q] = State(F, y, "inside"), NEW c, c # Newline, NEW d, d = Escaped(c),
         Occurs(d, line, q)
  PROVE  st[q + Len(d)] = State(F, Append(y, c), "inside")
<1>1. CASE c = Quote
  <2>1. Len(d) = 2 /\ d[1] = Quote /\ d[2] = Quote
    BY <1>1 DEF Escaped
  <2>2. q + 2 <= Len(line) /\ line[q + 1] = Quote /\ line[q + 2] = Quote
    BY <2>1 DEF Occurs
  <2>3. q < Len(line) /\ q + 1 + 1 = q + 2 /\ q + 1 \in Nat /\ q + 1 < Len(line)
    BY <2>2
  <2>4. st[q + 1] = ParseChar(line, State(F, y, "inside"), q + 1)
    BY <2>3, RunStep
  <2>5. st[q + 1] = State(F, Append(y, Quote), "second")
    BY <2>2, <2>3, <2>4, Inside
  <2>6. st[q + 1 + 1] = ParseChar(line, st[q + 1], q + 1 + 1)
    BY <2>3, RunStep
  <2>7. st[q + 2] = State(F, Append(y, Quote), "inside")
    BY <2>3, <2>5, <2>6, Second
  <2> QED BY <1>1, <2>1, <2>7
<1>2. CASE c # Quote
  <2>1. Len(d) = 1 /\ d[1] = c
    BY <1>2 DEF Escaped
  <2>2. q + 1 <= Len(line) /\ line[q + 1] = c
    BY <2>1 DEF Occurs
  <2>3. st[q + 1] = ParseChar(line, State(F, y, "inside"), q + 1)
    BY <2>2, RunStep
  <2>4. st[q + 1] = State(F, Append(y, c), "inside")
    BY <1>2, <2>2, <2>3, Inside
  <2> QED BY <2>1, <2>4
<1> QED BY <1>1, <1>2

\* Behind an opening quote: the value with its quotes doubled.
LEMMA DoubledRun ==
  ASSUME NEW C, NEW line \in Seq(C), NEW st, Runs(line, st), NEW p \in Nat,
         NEW v \in Seq(C), \A k \in 1 .. Len(v) : v[k] # Newline,
         NEW w \in Seq(C), w = FlattenSeq(Doubled(v)), Occurs(w, line, p),
         NEW F, NEW x \in Seq(C), st[p] = State(F, x, "inside")
  PROVE  st[p + Len(w)] = State(F, x \o v, "inside")
<1> DEFINE n == Len(v)
           d == Doubled(v)
<1>1. n \in Nat /\ Len(line) \in Nat
  BY LenProperties
<1>2. /\ d \in Seq(Seq(C)) /\ Len(d) = n
      /\ \A k \in 1 .. n : d[k] = IF v[k] = Quote THEN <<Quote, Quote>> ELSE <<v[k]>>
  BY DoubledType
<1> HIDE DEF d
<1>3. PICK f : Joins(f, d, C) /\ w = f[n]
  BY <1>2, FlattenJoins DEF d
<1> DEFINE G == {i \in 0 .. n : st[p + Len(f[i])] = State(F, x \o SubSeq(v, 1, i), "inside")}
<1>4. 0 \in G
  <2>1. x \o SubSeq(v, 1, 0) = x /\ f[0] = <<>> /\ p + Len(f[0]) = p /\ 0 \in 0 .. n
    BY <1>1, <1>3, ConcatPrefix, EmptySeq DEF Joins
  <2> QED BY <2>1
<1>5. ASSUME NEW i \in 0 .. n - 1, i \in G PROVE i + 1 \in G
  <2> DEFINE q == p + Len(f[i])
             y == x \o SubSeq(v, 1, i)
             c == v[i + 1]
             e == d[i + 1]
  <2>1. i \in 0 .. n /\ i + 1 \in 1 .. n /\ i + 1 \in 0 .. n /\ n \in i + 1 .. n
    BY <1>1
  <2>2. st[q] = State(F, y, "inside")
    BY <1>5
  <2>3. x \o SubSeq(v, 1, i + 1) = Append(y, c) /\ c # Newline
    BY <2>1, ConcatPrefix, SMTT(30)
  <2>4. f[i + 1] = f[i] \o e /\ f[i] \in Seq(C) /\ e \in Seq(C)
    BY <1>2, <1>3, <2>1, ElementOfSeq DEF Joins
  <2>5. Begins(f[i + 1], w)
    BY <1>2, <1>3, <2>1, JoinsGrow
  <2>6. Occurs(e, line, q) /\ q \in Nat
    BY <2>4, <2>5, OccursWithin
  <2>7. e = Escaped(c)
    BY <1>2, <2>1 DEF Escaped
  <2>8. p + Len(f[i + 1]) = q + Len(e)
    <3>1. Len(f[i]) \in Nat /\ Len(e) \in Nat /\ Len(f[i] \o e) = Len(f[i]) + Len(e)
      BY <2>4, ConcatFacts
    <3>2. Len(f[i + 1]) = Len(f[i]) + Len(e)
      BY <2>4, <3>1
    <3> HIDE DEF e
    <3> QED BY <3>1, <3>2
  <2> HIDE DEF q, y, c, e, G
  <2>9. st[q + Len(e)] = State(F, Append(y, c), "inside")
    <3> HIDE DEF n
    <3>1. Len(line) \in Nat
      BY <1>1
    <3> QED BY <3>1, <2>2, <2>3, <2>6, <2>7, QuotedStep
  <2> QED BY <2>1, <2>3, <2>8, <2>9 DEF G
<1>6. n \in G
  <2> HIDE DEF G
  <2>1. \A i \in 0 .. n : i \in G
    BY <1>1, <1>4, <1>5, IntervalInduction
  <2> QED BY <1>1, <2>1
<1> QED BY <1>3, <1>6, ConcatPrefix

\* ... and the closing quote, followed by something else.
LEMMA QuotedRun ==
  ASSUME NEW C, NEW line \in Seq(C), NEW st, Runs(line, st), NEW p \in Nat,
         NEW v \in Seq(C), \A k \in 1 .. Len(v) : v[k] # Newline,
         NEW w \in Seq(C), w = FlattenSeq(Doubled(v)), Occurs(w, line, p),
         NEW q \in Nat, q = p + Len(w), q + 1 < Len(line),
         line[q + 1] = Quote, line[q + 2] # Quote,
         NEW F, NEW x \in Seq(C), st[p] = State(F, x, "inside")
  PROVE  st[q + 1] = State(F, x \o v, "outside")
<1>1. Len(line) \in Nat /\ q < Len(line) /\ q + 1 + 1 = q + 2
  BY LenProperties
<1>2. st[q] = State(F, x \o v, "inside")
  BY DoubledRun
<1>3. st[q + 1] = ParseChar(line, State(F, x \o v, "inside"), q + 1)
  BY <1>1, <1>2, RunStep
<1> QED BY <1>1, <1>3, Inside

-----------------------------------------------------------------------------
(* The texts of the model *)

LEMMA CharsHold == Newline \in Chars /\ Quote \in Chars /\ Comma \in Chars
<1>1. /\ 1 \in DOMAIN Characters /\ Characters[1] = Newline
      /\ 2 \in DOMAIN Characters /\ Characters[2] = Quote
      /\ 4 \in DOMAIN Characters /\ Characters[4] = Comma
  BY DEF Characters
<1> QED BY <1>1 DEF Chars, ToSet

LEMMA PlainFacts ==
  ASSUME NEW v \in Plain
  PROVE  v \in Texts /\ Len(v) \in Nat /\ \A k \in 1 .. Len(v) : v[k] # Newline /\ v[k] \in Chars
<1>1. v \in Texts /\ Len(v) \in Nat
  BY LenProperties DEF Plain, Texts
<1>2. \A k \in 1 .. Len(v) : v[k] \in Chars \ {Newline}
  BY ElementOfSeq DEF Plain
<1> QED BY <1>1, <1>2

LEMMA TextConcat ==
  ASSUME NEW s \in Texts, NEW t \in Texts
  PROVE  /\ s \o t \in Texts /\ Len(s) \in Nat /\ Len(t) \in Nat
         /\ Len(s \o t) = Len(s) + Len(t) /\ Begins(s, s \o t)
         /\ \A k \in 1 .. Len(s) : (s \o t)[k] = s[k]
         /\ \A k \in 1 .. Len(t) : (s \o t)[Len(s) + k] = t[k]
  BY ConcatFacts, BeginsOfConcat DEF Texts

LEMMA TextAssociative ==
  ASSUME NEW a \in Texts, NEW b \in Texts, NEW c \in Texts
  PROVE  a \o (b \o c) = (a \o b) \o c
  BY ConcatAssociative DEF Texts

LEMMA FlattenType ==
  ASSUME NEW A, NEW seqs \in Seq(Seq(A))
  PROVE  FlattenSeq(seqs) \in Seq(A)
<1>1. PICK f : Joins(f, seqs, A) /\ FlattenSeq(seqs) = f[Len(seqs)]
  BY FlattenJoins
<1>2. Len(seqs) \in 0 .. Len(seqs)
  BY LenProperties
<1> QED BY <1>1, <1>2 DEF Joins

LEMMA WriteValueFacts ==
  ASSUME NEW v \in Plain
  PROVE  /\ WriteValue(v) \in Plain
         /\ FlattenSeq(Doubled(v)) \in Plain
         /\ ~NeedsQuotes(v) =>
              WriteValue(v) = v /\ \A k \in 1 .. Len(v) : v[k] \notin {Quote, Comma, Newline}
         /\ NeedsQuotes(v) =>
              WriteValue(v) = (<<Quote>> \o FlattenSeq(Doubled(v))) \o <<Quote>>
<1> DEFINE e == FlattenSeq(Doubled(v))
<1>1. e \in Plain
  BY DoubledType, FlattenType DEF Plain
<1>2. WriteValue(v) = IF NeedsQuotes(v) THEN (<<Quote>> \o e) \o <<Quote>> ELSE v
  BY DEF WriteValue, Doubled
<1>3. <<Quote>> \in Plain
  BY CharsHold, CharactersDiffer DEF Plain
<1>4. <<Quote>> \o e \in Plain
  BY <1>1, <1>3, ConcatProperties DEF Plain
<1>5. (<<Quote>> \o e) \o <<Quote>> \in Plain
  BY <1>3, <1>4, ConcatProperties DEF Plain
<1>6. DOMAIN v = 1 .. Len(v)
  BY PlainFacts, LenProperties DEF Texts
<1>7. ~NeedsQuotes(v) => \A k \in 1 .. Len(v) : v[k] \notin {Quote, Comma, Newline}
  BY <1>6 DEF NeedsQuotes, ToSet
<1> HIDE DEF e
<1> QED BY <1>1, <1>2, <1>5, <1>7 DEF e

LEMMA BetweenQuotes ==
  ASSUME NEW e \in Texts, NEW w, w = (<<Quote>> \o e) \o <<Quote>>
  PROVE  /\ Len(w) = Len(e) + 2 /\ w[1] = Quote /\ w[Len(e) + 2] = Quote
         /\ \A k \in 1 .. Len(e) : w[k + 1] = e[k]
<1> DEFINE a == <<Quote>>
           b == a \o e
<1>1. a \in Texts /\ Len(a) = 1 /\ a[1] = Quote
  BY CharsHold DEF Texts
<1>2. w = b \o a
  OBVIOUS
<1> HIDE DEF a
<1>3. /\ b \in Texts /\ Len(e) \in Nat /\ Len(b) = Len(a) + Len(e)
      /\ \A k \in 1 .. Len(a) : b[k] = a[k]
      /\ \A k \in 1 .. Len(e) : b[Len(a) + k] = e[k]
  BY <1>1, TextConcat
<1> HIDE DEF b
<1>4. /\ Len(w) = Len(b) + Len(a)
      /\ \A k \in 1 .. Len(b) : w[k] = b[k]
      /\ \A k \in 1 .. Len(a) : w[Len(b) + k] = a[k]
  <2>1. /\ Len(b \o a) = Len(b) + Len(a)
        /\ \A k \in 1 .. Len(b) : (b \o a)[k] = b[k]
        /\ \A k \in 1 .. Len(a) : (b \o a)[Len(b) + k] = a[k]
    BY <1>1, <1>3, TextConcat
  <2> QED BY <1>2, <2>1
<1>5. Len(b) = 1 + Len(e) /\ 1 \in 1 .. Len(b)
  BY <1>1, <1>3
<1>6. b[1] = Quote /\ \A k \in 1 .. Len(e) : b[1 + k] = e[k]
  BY <1>1, <1>3
<1>7. w[1] = Quote /\ w[Len(b) + 1] = Quote /\ \A k \in 1 .. Len(b) : w[k] = b[k]
  BY <1>1, <1>4, <1>5, <1>6
<1>8. ASSUME NEW k \in 1 .. Len(e) PROVE w[k + 1] = e[k]
  <2>1. k + 1 \in 1 .. Len(b) /\ k + 1 = 1 + k
    BY <1>3, <1>5
  <2> QED BY <1>6, <1>7, <2>1
<1>9. Len(w) = Len(e) + 2 /\ Len(b) + 1 = Len(e) + 2
  BY <1>1, <1>3, <1>4, <1>5
<1> QED BY <1>7, <1>8, <1>9

\* A value and what separates it from the next: it becomes, behind what was read
\* since the last separator, one field.
LEMMA ValueRun ==
  ASSUME NEW line \in Texts, NEW st, Runs(line, st), NEW p \in Nat, NEW v \in Plain,
         NEW w, w = WriteValue(v), Occurs(w, line, p),
         NEW q \in Nat, q = p + Len(w), q < Len(line), line[q + 1] \in {Comma, Newline},
         NEW F, NEW x \in Texts, st[p] = State(F, x, "outside")
  PROVE  st[q + 1] = State(Append(F, x \o v), <<>>, "outside")
<1> DEFINE e == FlattenSeq(Doubled(v))
<1>1. Len(line) \in Nat /\ v \in Texts /\ w \in Texts /\ e \in Texts /\ Len(w) \in Nat
  BY LenProperties, PlainFacts, WriteValueFacts DEF Texts
<1> SUFFICES st[q] = State(F, x \o v, "outside")
  <2>1. st[q + 1] = ParseChar(line, st[q], q + 1)
    BY <1>1, RunStep
  <2> QED BY <2>1, Outside
<1>2. CASE ~NeedsQuotes(v)
  <2>1. w = v /\ \A k \in 1 .. Len(v) : v[k] \notin {Quote, Comma, Newline}
    BY <1>2, WriteValueFacts
  <2> QED BY <1>1, <2>1, PlainRun, SMTT(30) DEF Texts
<1>3. CASE NeedsQuotes(v)
  <2>1. w = (<<Quote>> \o e) \o <<Quote>>
    BY <1>3, WriteValueFacts
  <2>2. /\ Len(w) = Len(e) + 2 /\ w[1] = Quote /\ w[Len(e) + 2] = Quote
        /\ \A k \in 1 .. Len(e) : w[k + 1] = e[k]
    BY <1>1, <2>1, BetweenQuotes
  <2> HIDE DEF e
  <2> DEFINE r == p + 1 + Len(e)
  <2>3. Len(e) \in Nat
    BY <1>1, LenProperties DEF Texts
  <2>4. /\ r \in Nat /\ r = (p + 1) + Len(e) /\ r + 1 = q /\ r + 2 = q + 1 /\ r + 1 < Len(line)
        /\ p + 1 \in Nat /\ p < Len(line)
    BY <1>1, <2>2, <2>3
  <2> HIDE DEF r
  <2>5. line[p + 1] = Quote
    BY <2>2, <2>3 DEF Occurs
  <2>6. line[r + 1] = Quote
    <3>1. line[p + Len(w)] = w[Len(w)]
      BY <2>2, <2>3 DEF Occurs
    <3> QED BY <2>2, <2>4, <3>1
  <2>7. Occurs(e, line, p + 1)
    <3>1. ASSUME NEW k \in 1 .. Len(e) PROVE line[p + 1 + k] = e[k]
      <4>1. k + 1 \in 1 .. Len(w) /\ p + (k + 1) = p + 1 + k
        BY <2>2, <2>3
      <4>2. line[p + (k + 1)] = w[k + 1]
        BY <4>1 DEF Occurs
      <4> QED BY <2>2, <4>1, <4>2
    <3>2. p + 1 + Len(e) <= Len(line)
      BY <1>1, <2>3, <2>4
    <3> QED BY <3>1, <3>2 DEF Occurs
  <2>9. st[p + 1] = State(F, x, "inside")
    <3>1. st[p + 1] = ParseChar(line, st[p], p + 1)
      BY <1>1, <2>4, RunStep
    <3> QED BY <2>5, <3>1, Outside
  <2>12. line[r + 2] # Quote
    BY <2>4, CharactersDiffer
  <2>13. \A k \in 1 .. Len(v) : v[k] # Newline
    BY PlainFacts
  <2>14. st[r + 1] = State(F, x \o v, "outside")
    <3>1. line \in Seq(Chars) /\ v \in Seq(Chars) /\ x \in Seq(Chars) /\ e \in Seq(Chars)
      BY <1>1 DEF Texts
    <3>2. e = FlattenSeq(Doubled(v))
      BY DEF e
    <3>3. /\ p + 1 \in Nat /\ r \in Nat /\ r = (p + 1) + Len(e) /\ r + 1 < Len(line)
      BY <2>4
    <3> QED BY <2>6, <2>7, <2>9, <2>12, <2>13, <3>1, <3>2, <3>3, QuotedRun, SMTT(30)
  <2> QED BY <2>4, <2>14
<1> QED BY <1>2, <1>3

-----------------------------------------------------------------------------
(* A row that storage_write_csv_row has written *)

Separator(k) == IF k > 1 THEN <<Comma>> ELSE <<>>

Pieces(values) == [k \in DOMAIN values |-> Separator(k) \o WriteValue(values[k])]

LEMMA PieceFacts ==
  ASSUME NEW values \in Seq(Plain)
  PROVE  /\ Pieces(values) \in Seq(Plain) /\ Len(Pieces(values)) = Len(values)
         /\ \A k \in 1 .. Len(values) :
              /\ values[k] \in Plain /\ Separator(k) \in Plain /\ WriteValue(values[k]) \in Plain
              /\ Pieces(values)[k] = Separator(k) \o WriteValue(values[k])
<1>1. Len(values) \in Nat /\ DOMAIN values = 1 .. Len(values)
  BY LenProperties
<1>2. ASSUME NEW k \in 1 .. Len(values)
      PROVE  /\ values[k] \in Plain /\ Separator(k) \in Plain /\ WriteValue(values[k]) \in Plain
             /\ Separator(k) \o WriteValue(values[k]) \in Plain
  <2>1. values[k] \in Plain
    BY ElementOfSeq
  <2>2. Separator(k) \in Plain
    <3>1. <<Comma>> \in Plain /\ <<>> \in Plain
      BY CharsHold, CharactersDiffer DEF Plain
    <3> QED BY <3>1 DEF Separator
  <2>3. WriteValue(values[k]) \in Plain
    BY <2>1, WriteValueFacts
  <2> HIDE DEF Separator
  <2> QED BY <2>1, <2>2, <2>3, ConcatProperties DEF Plain
<1>3. Pieces(values) \in [1 .. Len(values) -> Plain]
  BY <1>1, <1>2 DEF Pieces
<1>4. \A k \in 1 .. Len(values) : Pieces(values)[k] = Separator(k) \o WriteValue(values[k])
  BY <1>1 DEF Pieces
<1> HIDE DEF Pieces
<1>5. Pieces(values) \in Seq(Plain)
  BY <1>1, <1>3, SeqDef
<1>6. Len(Pieces(values)) = Len(values)
  BY <1>1, <1>3, <1>5, LenProperties
<1> QED BY <1>2, <1>4, <1>5, <1>6

LEMMA NewlineText == <<Newline>> \in Texts /\ Len(<<Newline>>) = 1 /\ <<Newline>>[1] = Newline
  BY CharsHold DEF Texts

Line(v) == v \o <<Newline>>

\* A written row is one line: it has one line break, at its end.
LEMMA OneLine ==
  ASSUME NEW v \in Plain, NEW w, w = Line(v)
  PROVE  /\ w \in Texts /\ Len(w) = Len(v) + 1 /\ Len(w) \in Nat \ {0} /\ w[Len(w)] = Newline
         /\ \A k \in 1 .. Len(v) : w[k] = v[k]
         /\ \A k \in 1 .. Len(w) - 1 : w[k] # Newline
<1> DEFINE a == <<Newline>>
<1>1. a \in Texts /\ Len(a) = 1 /\ a[1] = Newline
  BY NewlineText
<1>2. v \in Texts /\ Len(v) \in Nat /\ \A k \in 1 .. Len(v) : v[k] # Newline
  BY PlainFacts
<1>3. w = v \o a
  BY DEF Line
<1> HIDE DEF a
<1>4. /\ v \o a \in Texts /\ Len(v \o a) = Len(v) + Len(a)
      /\ \A k \in 1 .. Len(v) : (v \o a)[k] = v[k]
      /\ \A k \in 1 .. Len(a) : (v \o a)[Len(v) + k] = a[k]
  BY <1>1, <1>2, TextConcat
<1>5. /\ w \in Texts /\ Len(w) = Len(v) + 1 /\ w[Len(v) + 1] = Newline
      /\ \A k \in 1 .. Len(v) : w[k] = v[k]
  BY <1>1, <1>3, <1>4
<1> QED BY <1>2, <1>5

\* f[k] is a row up to its k-th value.
Spells(f, values) == Joins(f, Pieces(values), Chars \ {Newline})

LEMMA WriteRowFacts ==
  ASSUME NEW values \in Seq(Plain)
  PROVE  /\ \E f : Spells(f, values) /\ WriteRow(values) = Line(f[Len(values)])
         /\ WriteRow(values) \in Texts /\ Len(WriteRow(values)) \in Nat \ {0}
         /\ WriteRow(values)[Len(WriteRow(values))] = Newline
         /\ \A k \in 1 .. Len(WriteRow(values)) - 1 : WriteRow(values)[k] # Newline
<1> DEFINE pieces == Pieces(values)
<1>1. pieces \in Seq(Seq(Chars \ {Newline})) /\ Len(pieces) = Len(values)
  BY PieceFacts DEF Plain
<1>2. WriteRow(values) = Line(FlattenSeq(pieces))
  BY DEF WriteRow, Pieces, Separator, Line
<1> HIDE DEF pieces
<1>3. PICK f : Joins(f, pieces, Chars \ {Newline}) /\ FlattenSeq(pieces) = f[Len(values)]
  BY <1>1, FlattenJoins
<1>4. FlattenSeq(pieces) \in Plain
  BY <1>1, FlattenType DEF Plain
<1> QED BY <1>2, <1>3, <1>4, OneLine DEF pieces, Spells

\* Where the k-th value of a row at p stands: behind the comma.
ValueStart(f, p, k) == IF k = 1 THEN p ELSE p + Len(f[k - 1]) + 1

LEMMA RowShape ==
  ASSUME NEW values \in Seq(Plain), NEW f, Spells(f, values),
         NEW w, w = Line(f[Len(values)]),
         NEW line \in Texts, NEW p \in Nat, Occurs(w, line, p),
         NEW k \in 1 .. Len(values), NEW b, b = ValueStart(f, p, k), NEW e, e = p + Len(f[k])
  PROVE  /\ b \in Nat /\ e \in Nat /\ Occurs(WriteValue(values[k]), line, b)
         /\ b + Len(WriteValue(values[k])) = e
         /\ e < Len(line) /\ line[e + 1] \in {Comma, Newline}
<1> DEFINE n == Len(values)
           j == k - 1
           v == WriteValue(values[k])
           A == Chars \ {Newline}
<1>1. n \in Nat /\ Len(line) \in Nat /\ j \in 0 .. n - 1 /\ j + 1 = k /\ k \in 1 .. n
  BY LenProperties DEF Texts
<1>2. Pieces(values) \in Seq(Seq(A)) /\ Len(Pieces(values)) = n
  BY PieceFacts DEF Plain
<1>0. Joins(f, Pieces(values), A)
  BY DEF Spells
<1>3. f \in [0 .. n -> Seq(A)] /\ \A i \in 0 .. n - 1 : f[i + 1] = f[i] \o Pieces(values)[i + 1]
  BY <1>0, <1>2 DEF Joins
<1>4. \A i \in 0 .. n : f[i] \in Plain
  BY <1>3 DEF Plain
<1> HIDE DEF n, j, A
<1>5. w \in Texts /\ Len(w) = Len(f[n]) + 1 /\ w[Len(w)] = Newline /\ Len(f[n]) \in Nat
      /\ \A i \in 1 .. Len(f[n]) : w[i] = f[n][i]
  <2>1. n \in 0 .. n /\ w = Line(f[n])
    BY <1>1 DEF n
  <2>2. f[n] \in Plain
    BY <1>4, <2>1
  <2> QED BY <2>1, <2>2, OneLine, PlainFacts
<1>6. Begins(f[n], w)
  <2>1. Len(f[n]) <= Len(w)
    BY <1>5
  <2> QED BY <1>5, <2>1 DEF Begins
<1>7. ASSUME NEW i \in 0 .. n PROVE Begins(f[i], w) /\ f[i] \in Texts /\ Len(f[i]) \in Nat
  <2>1. f[i] \in Texts /\ Len(f[i]) \in Nat
    BY <1>4, PlainFacts
  <2>2. n \in i .. n
    BY <1>1
  <2>3. Begins(f[i], f[n])
    BY <1>0, <1>2, <2>2, JoinsGrow
  <2> QED BY <1>5, <1>6, <2>1, <2>3, BeginsTransitive
<1>8. ASSUME NEW i \in 0 .. n - 1
      PROVE  /\ Occurs(Pieces(values)[i + 1], line, p + Len(f[i]))
             /\ Len(f[i + 1]) = Len(f[i]) + Len(Pieces(values)[i + 1])
             /\ Pieces(values)[i + 1] = Separator(i + 1) \o WriteValue(values[i + 1])
             /\ Separator(i + 1) \in Texts /\ WriteValue(values[i + 1]) \in Texts
             /\ Pieces(values)[i + 1] \in Texts
  <2>1. i \in 0 .. n /\ i + 1 \in 0 .. n /\ i + 1 \in 1 .. n
    BY <1>1
  <2> DEFINE s == Pieces(values)[i + 1]
  <2>2. /\ s = Separator(i + 1) \o WriteValue(values[i + 1])
        /\ Separator(i + 1) \in Texts /\ WriteValue(values[i + 1]) \in Texts
    BY <2>1, PieceFacts, PlainFacts DEF n
  <2>3. s \in Texts
    BY <2>2, TextConcat
  <2>4. f[i + 1] = f[i] \o s
    BY <1>3
  <2>5. f[i] \in Texts /\ Begins(f[i] \o s, w)
    BY <1>7, <2>1, <2>4
  <2> HIDE DEF s
  <2>6. Occurs(s, line, p + Len(f[i]))
    BY <1>5, <2>3, <2>5, OccursWithin DEF Texts
  <2>7. Len(f[i + 1]) = Len(f[i]) + Len(s)
    BY <2>3, <2>4, <2>5, TextConcat
  <2> QED BY <2>2, <2>3, <2>6, <2>7 DEF s
<1>9. ASSUME NEW i \in 1 .. n - 1 PROVE line[p + Len(f[i]) + 1] = Comma
  <2> DEFINE s == Pieces(values)[i + 1]
             a == <<Comma>>
             u == WriteValue(values[i + 1])
  <2>1. i \in 0 .. n - 1 /\ i + 1 > 1
    BY <1>1
  <2>2. s = a \o u /\ u \in Texts /\ Occurs(s, line, p + Len(f[i])) /\ s \in Texts
    BY <1>8, <2>1 DEF Separator
  <2>3. a \in Texts /\ Len(a) = 1 /\ a[1] = Comma
    BY CharsHold DEF Texts
  <2> HIDE DEF s, a, u
  <2>4. Len(s) = Len(a) + Len(u) /\ Len(u) \in Nat /\ \A m \in 1 .. Len(a) : (a \o u)[m] = a[m]
    BY <2>2, <2>3, TextConcat
  <2>5. s[1] = Comma /\ 1 \in 1 .. Len(s)
    BY <2>2, <2>3, <2>4
  <2> QED BY <2>2, <2>5 DEF Occurs
<1>10. e < Len(line) /\ line[e + 1] \in {Comma, Newline}
  <2>1. p + Len(w) <= Len(line) /\ line[p + Len(w)] = w[Len(w)]
    <3>1. Len(w) \in 1 .. Len(w) /\ Len(line) \in Nat
      BY <1>1, <1>5
    <3> QED BY <3>1 DEF Occurs
  <2>2. CASE k = n
    BY <1>1, <1>5, <2>1, <2>2
  <2>3. CASE k # n
    <3>1. k \in 1 .. n - 1 /\ k \in 0 .. n
      BY <1>1, <2>3
    <3>2. Begins(f[k], w) /\ Len(f[k]) \in Nat /\ Len(f[k]) <= Len(w)
      BY <1>7, <3>1 DEF Begins
    <3>3. line[e + 1] = Comma
      BY <1>9, <3>1
    <3>4. k \in 0 .. n - 1 /\ k + 1 \in 0 .. n
      BY <1>1, <3>1
    <3>5. Len(f[k + 1]) <= Len(w) /\ Len(f[k + 1]) = Len(f[k]) + Len(Pieces(values)[k + 1])
          /\ Len(f[k + 1]) \in Nat
      BY <1>7, <1>8, <3>4 DEF Begins
    <3>6. e < Len(line)
      <4>1. Len(f[k]) <= Len(f[n])
        <5>1. n \in k .. n /\ k \in 0 .. n
          BY <1>1, <3>1
        <5>2. Begins(f[k], f[n])
          BY <1>0, <1>2, <5>1, JoinsGrow
        <5> QED BY <5>2 DEF Begins
      <4> QED BY <1>1, <1>5, <2>1, <3>2, <4>1
    <3> QED BY <3>3, <3>6
  <2> QED BY <2>2, <2>3
<1> DEFINE s == Separator(k)
<1>11. /\ Occurs(s \o v, line, p + Len(f[j])) /\ Len(f[k]) = Len(f[j]) + Len(s \o v)
       /\ s \in Texts /\ v \in Texts /\ s \o v \in Texts
  BY <1>1, <1>8
<1>12. Len(f[j]) \in Nat /\ (k = 1 => Len(f[j]) = 0) /\ Len(f[k]) \in Nat
  <2>1. j \in 0 .. n /\ (k = 1 => j = 0) /\ k \in 0 .. n
    BY <1>1
  <2>2. f[0] = <<>>
    BY <1>0 DEF Joins
  <2> QED BY <1>7, <2>1, <2>2, EmptySeq
<1>13. Len(s) = IF k = 1 THEN 0 ELSE 1
  BY <1>1 DEF Separator
<1> HIDE DEF s, v
<1>14. Len(s \o v) = Len(s) + Len(v) /\ Len(s) \in Nat /\ Len(v) \in Nat
  BY <1>11, TextConcat
<1>15. Begins(s \o v, s \o v)
  BY <1>11, <1>14 DEF Begins
<1>16. p + Len(f[j]) \in Nat
  BY <1>12
<1>17. Occurs(v, line, p + Len(f[j]) + Len(s))
  BY <1>11, <1>15, <1>16, OccursWithin DEF Texts
<1>18. b = p + Len(f[j]) + Len(s)
  <2> DEFINE c == Len(f[j])
             m == Len(s)
  <2>1. c \in Nat /\ m \in Nat /\ (k = 1 => c = 0 /\ m = 0) /\ (k # 1 => m = 1)
    BY <1>12, <1>13, <1>14
  <2>2. b = IF k = 1 THEN p ELSE p + c + 1
    BY DEF j, ValueStart
  <2> HIDE DEF c, m
  <2>3. b = p + c + m
    BY <2>1, <2>2
  <2> QED BY <2>3 DEF c, m
<1>19. b + Len(v) = e /\ b \in Nat /\ e \in Nat
  <2> DEFINE c == Len(f[j])
             m == Len(s)
             d == Len(v)
  <2>1. e = p + (c + (m + d)) /\ b = p + c + m /\ c \in Nat /\ m \in Nat /\ d \in Nat
    BY <1>11, <1>12, <1>14, <1>18
  <2> HIDE DEF c, m, d
  <2>2. b + d = e /\ b \in Nat /\ e \in Nat
    BY <2>1
  <2> QED BY <2>2 DEF d
<1> QED BY <1>10, <1>17, <1>18, <1>19 DEF v

\* The fields of a row when x stood before it on its line.
Glued(x, values) == [k \in 1 .. Len(values) |-> IF k = 1 THEN x \o values[1] ELSE values[k]]

LEMMA GluedFacts ==
  ASSUME NEW x \in Texts, NEW values \in Seq(Plain)
  PROVE  /\ Glued(x, values) \in Seq(Texts) /\ Len(Glued(x, values)) = Len(values)
         /\ \A k \in 1 .. Len(values) :
              Glued(x, values)[k] = IF k = 1 THEN x \o values[1] ELSE values[k]
<1>1. Len(values) \in Nat
  BY LenProperties
<1>2. ASSUME NEW k \in 1 .. Len(values)
      PROVE  (IF k = 1 THEN x \o values[1] ELSE values[k]) \in Texts
  <2>1. values[k] \in Texts
    BY ElementOfSeq, PlainFacts
  <2> QED BY <2>1, TextConcat
<1>3. Glued(x, values) \in [1 .. Len(values) -> Texts]
  BY <1>2 DEF Glued
<1>4. \A k \in 1 .. Len(values) :
        Glued(x, values)[k] = IF k = 1 THEN x \o values[1] ELSE values[k]
  BY DEF Glued
<1> HIDE DEF Glued
<1>5. Glued(x, values) \in Seq(Texts)
  BY <1>1, <1>3, SeqDef
<1>6. Len(Glued(x, values)) = Len(values)
  BY <1>1, <1>3, <1>5, LenProperties
<1> QED BY <1>4, <1>5, <1>6

LEMMA EmptyText ==
  <<>> \in Texts /\ \A v \in Texts : <<>> \o v = v /\ v \o <<>> = v
  BY EmptySeq, ConcatEmptySeq DEF Texts

\* A whole row, behind x.
LEMMA RowRun ==
  ASSUME NEW line \in Texts, NEW st, Runs(line, st), NEW p \in Nat,
         NEW values \in Seq(Plain), values # <<>>,
         NEW w, w = WriteRow(values), Occurs(w, line, p),
         NEW F \in Seq(Texts), NEW x \in Texts, st[p] = State(F, x, "outside")
  PROVE  st[p + Len(w)] = State(F \o Glued(x, values), <<>>, "outside")
<1> DEFINE n == Len(values)
           H == Glued(x, values)
<1>1. n \in Nat /\ n # 0 /\ Len(line) \in Nat
  BY LenProperties, EmptySeq DEF Texts
<1>2. H \in Seq(Texts) /\ Len(H) = n
  BY GluedFacts
<1>3. \A k \in 1 .. n : H[k] = IF k = 1 THEN x \o values[1] ELSE values[k]
  BY GluedFacts
<1>4. PICK f : Spells(f, values) /\ w = Line(f[n])
  BY WriteRowFacts
<1> DEFINE Done(i) == st[p + Len(f[i]) + 1] = State(F \o SubSeq(H, 1, i), <<>>, "outside")
           G == {i \in 0 .. n : i = 0 \/ Done(i)}
<1>5. 0 \in G
  BY <1>1
<1> HIDE DEF H, n
<1>6. F \o SubSeq(H, 1, 0) = F /\ F \o SubSeq(H, 1, n) = F \o H
      /\ \A i \in 0 .. n - 1 : F \o SubSeq(H, 1, i + 1) = Append(F \o SubSeq(H, 1, i), H[i + 1])
  <2> HIDE DEF G, Done
  <2>1. F \o SubSeq(H, 1, 0) = F /\ F \o SubSeq(H, 1, Len(H)) = F \o H
    BY <1>2, ConcatPrefix
  <2>2. ASSUME NEW i \in 0 .. Len(H) - 1
        PROVE  F \o SubSeq(H, 1, i + 1) = Append(F \o SubSeq(H, 1, i), H[i + 1])
    BY <1>2, ConcatPrefix, SMTT(30)
  <2> QED BY <1>2, <2>1, <2>2
<1>7. ASSUME NEW i \in 0 .. n - 1, i \in G PROVE i + 1 \in G
  <2> DEFINE k == i + 1
             b == ValueStart(f, p, k)
             e == p + Len(f[k])
             y == IF i = 0 THEN x ELSE <<>>
             v == values[k]
             K == F \o SubSeq(H, 1, i)
  <2>1. k \in 1 .. n /\ k \in 0 .. n /\ k - 1 = i /\ (k = 1 <=> i = 0)
    BY <1>1
  <2>2. /\ b \in Nat /\ e \in Nat /\ Occurs(WriteValue(v), line, b)
        /\ b + Len(WriteValue(v)) = e /\ e < Len(line) /\ line[e + 1] \in {Comma, Newline}
    <3> HIDE DEF k, G, Done
    <3>1. k \in 1 .. Len(values) /\ w = Line(f[Len(values)])
      BY <1>4, <2>1 DEF n
    <3>2. /\ b \in Nat /\ e \in Nat /\ Occurs(WriteValue(values[k]), line, b)
          /\ b + Len(WriteValue(values[k])) = e
          /\ e < Len(line) /\ line[e + 1] \in {Comma, Newline}
      <4> HIDE DEF v, y, K
      <4>1. b = ValueStart(f, p, k) /\ e = p + Len(f[k])
        OBVIOUS
      <4> HIDE DEF b, e
      <4> QED BY <1>4, <3>1, <4>1, RowShape, SMTT(30)
    <3> QED BY <3>2
  <2>3. st[b] = State(K, y, "outside")
    <3>1. CASE i = 0
      <4>1. b = p /\ K = F
        BY <1>6, <3>1 DEF ValueStart
      <4> QED BY <3>1, <4>1
    <3>2. CASE i # 0
      <4>1. b = p + Len(f[i]) + 1
        BY <2>1, <3>2 DEF ValueStart
      <4> QED BY <1>7, <3>2, <4>1
    <3> QED BY <3>1, <3>2
  <2>4. v \in Plain /\ y \in Texts /\ v \in Texts
    BY <2>1, ElementOfSeq, PlainFacts, EmptyText DEF n
  <2>5. y \o v = H[k]
    <3>1. CASE i = 0
      BY <1>3, <2>1, <3>1
    <3>2. CASE i # 0
      BY <1>3, <2>1, <2>4, <3>2, EmptyText
    <3> QED BY <3>1, <3>2
  <2>6. F \o SubSeq(H, 1, k) = Append(K, H[k])
    BY <1>6
  <2>7. i + 1 = k
    OBVIOUS
  <2> HIDE DEF k, b, e, y, v, K, G
  <2>8. st[e + 1] = State(Append(K, y \o v), <<>>, "outside")
    BY <2>2, <2>3, <2>4, ValueRun
  <2>9. st[e + 1] = State(F \o SubSeq(H, 1, k), <<>>, "outside")
    BY <2>5, <2>6, <2>8
  <2> QED BY <2>1, <2>7, <2>9 DEF G, e
<1>8. n \in G
  <2> HIDE DEF G
  <2>1. \A i \in 0 .. n : i \in G
    BY <1>1, <1>5, <1>7, IntervalInduction
  <2> QED BY <1>1, <2>1
<1>9. Len(w) = Len(f[n]) + 1 /\ Len(f[n]) \in Nat
  <2>1. n \in 0 .. n /\ Len(Pieces(values)) = n
    BY <1>1, PieceFacts DEF n
  <2>2. f[n] \in Plain
    BY <1>4, <2>1 DEF Joins, Plain, Spells
  <2> QED BY <1>4, <2>2, OneLine, PlainFacts
<1>10. p + Len(w) = p + Len(f[n]) + 1
  BY <1>9
<1> QED BY <1>1, <1>6, <1>8, <1>10 DEF H

\* What ParseLine returns, in terms of the run.
LEMMA ParseResult ==
  ASSUME NEW line \in Texts
  PROVE  \E st \in [0 .. Len(Whole(line)) -> States(Chars \ {Newline})] :
           /\ IsRun(Whole(line), st)
           /\ ParseLine(line).ok <=> st[Len(Whole(line))].mode # "malformed"
           /\ ParseLine(line).fields = st[Len(Whole(line))].fields
<1>1. PICK st \in [0 .. Len(Whole(line)) -> States(Chars \ {Newline})] :
           /\ IsRun(Whole(line), st)
           /\ ParseLine(line) = [ok |-> st[Len(Whole(line))].mode # "malformed",
                                 fields |-> st[Len(Whole(line))].fields]
  BY CharsHold, ParseLineRuns DEF Texts
<1> QED BY <1>1

LEMMA GluedToNothing ==
  ASSUME NEW values \in Seq(Plain)
  PROVE  Glued(<<>>, values) = values
<1>1. \A k \in 1 .. Len(values) : values[k] \in Texts /\ <<>> \o values[k] = values[k]
  BY ElementOfSeq, PlainFacts, EmptyText
<1>2. DOMAIN values = 1 .. Len(values) /\ Len(values) \in Nat
  BY LenProperties
<1>3. values = [k \in 1 .. Len(values) |-> values[k]]
  BY <1>2
<1>4. Glued(<<>>, values) = [k \in 1 .. Len(values) |-> values[k]]
  BY <1>1 DEF Glued
<1> QED BY <1>3, <1>4

\* A line: one line break, at its end.
IsLine(w) ==
  /\ w \in Texts /\ Len(w) \in Nat \ {0} /\ w[Len(w)] = Newline
  /\ \A k \in 1 .. Len(w) - 1 : w[k] # Newline

LEMMA RowIsLine ==
  ASSUME NEW values \in Seq(Plain)
  PROVE  IsLine(WriteRow(values))
  BY WriteRowFacts DEF IsLine

LEMMA WholeLine ==
  ASSUME NEW w, IsLine(w)
  PROVE  Whole(w) = w /\ w \in Texts /\ Len(w) \in Nat
<1>1. w # <<>>
  BY EmptySeq DEF IsLine
<1> QED BY <1>1 DEF IsLine, Whole, Last

\* storage_parse_csv_line reads back what storage_write_csv_row wrote.
THEOREM RoundTrip ==
  ASSUME NEW values \in Seq(Plain), values # <<>>
  PROVE  ParseLine(WriteRow(values)).ok /\ ParseLine(WriteRow(values)).fields = values
<1> DEFINE w == WriteRow(values)
<1>1. Whole(w) = w /\ w \in Texts /\ Len(w) \in Nat
  BY RowIsLine, WholeLine
<1> HIDE DEF w
<1>2. PICK st : /\ IsRun(w, st)
                /\ ParseLine(w).ok <=> st[Len(w)].mode # "malformed"
                /\ ParseLine(w).fields = st[Len(w)].fields
  BY <1>1, ParseResult
<1>3. Occurs(w, w, 0)
  BY <1>1 DEF Occurs
<1>4. st[0] = State(<<>>, <<>>, "outside")
  BY <1>2 DEF IsRun, Runs, StartState
<1>5. <<>> \in Seq(Texts) /\ <<>> \in Texts /\ 0 \in Nat
  BY EmptySeq, EmptyText
<1>6. st[0 + Len(w)] = State(<<>> \o Glued(<<>>, values), <<>>, "outside")
  <2> DEFINE none == <<>>
  <2>1. st[0] = State(none, none, "outside") /\ none \in Seq(Texts) /\ none \in Texts
    BY <1>4, <1>5
  <2> HIDE DEF none
  <2>2. st[0 + Len(w)] = State(none \o Glued(none, values), <<>>, "outside")
    <3>1. Runs(w, st)
      BY <1>2 DEF IsRun
    <3> QED BY <1>1, <1>3, <2>1, <3>1, RowRun DEF w
  <2> QED BY <2>2 DEF none
<1>7. <<>> \o values = values
  BY ConcatEmptySeq
<1>8. st[Len(w)] = State(values, <<>>, "outside")
  BY <1>1, <1>6, <1>7, GluedToNothing
<1>9. st[Len(w)].mode = "outside" /\ st[Len(w)].fields = values
  BY <1>8 DEF State
<1> QED BY <1>2, <1>9 DEF w

-----------------------------------------------------------------------------
(* The lines of a text *)

\* The line at offset o ends at e.
LineTo(text, o, e) ==
  /\ e \in o + 1 .. Len(text)
  /\ \A k \in o + 1 .. e - 1 : text[k] # Newline
  /\ text[e] = Newline \/ e = Len(text)

LEMMA LineEnds ==
  ASSUME NEW text \in Texts, NEW o \in Nat, o < Len(text)
  PROVE  \E e \in Nat : LineTo(text, o, e)
<1> DEFINE T == {k \in o + 1 .. Len(text) : text[k] = Newline \/ k = Len(text)}
<1>1. Len(text) \in Nat
  BY LenProperties DEF Texts
<1>2. T \subseteq Nat /\ Len(text) \in T
  BY <1>1
<1>3. PICK e \in T : \A k \in T : e <= k
  BY <1>2, LeastExists
<1>4. e \in Nat /\ e \in o + 1 .. Len(text) /\ (text[e] = Newline \/ e = Len(text))
  BY <1>1, <1>3
<1>5. ASSUME NEW k \in o + 1 .. e - 1 PROVE text[k] # Newline
  <2>1. k \in o + 1 .. Len(text) /\ ~(e <= k)
    BY <1>1, <1>4
  <2> QED BY <1>3, <2>1
<1> QED BY <1>4, <1>5 DEF LineTo

LEMMA LineAtIs ==
  ASSUME NEW text \in Texts, NEW o \in Nat, NEW e \in Nat, LineTo(text, o, e)
  PROVE  /\ LineAt(text, o) \in Texts /\ Len(LineAt(text, o)) = e - o
         /\ \A i \in 1 .. e - o : LineAt(text, o)[i] = text[o + i]
<1> DEFINE ends == {k \in o + 1 .. Len(text) : text[k] = Newline}
<1>1. Len(text) \in Nat /\ e \in o + 1 .. Len(text)
  BY LenProperties DEF LineTo, Texts
<1>2. LineAt(text, o) = SubSeq(text, o + 1, e)
  <2>1. CASE text[e] = Newline
    <3>1. e \in ends /\ \A k \in ends : e <= k
      <4>1. ASSUME NEW k \in ends PROVE e <= k
        <5>1. k \in o + 1 .. Len(text) /\ text[k] = Newline
          OBVIOUS
        <5>2. k \notin o + 1 .. e - 1
          BY <5>1 DEF LineTo
        <5> QED BY <1>1, <5>1, <5>2
      <4> QED BY <1>1, <2>1, <4>1
    <3>2. \A m \in ends : (\A k \in ends : m <= k) => m = e
      BY <1>1, <3>1
    <3>3. ends # {} /\ Min(ends) = e
      <4> HIDE DEF ends
      <4> QED BY <3>1, <3>2 DEF Min
    <3> QED BY <3>3 DEF LineAt
  <2>2. CASE text[e] # Newline
    <3>1. e = Len(text)
      BY <2>2 DEF LineTo
    <3>2. ends = {}
      <4>1. ASSUME NEW k \in ends PROVE FALSE
        <5>1. k \in o + 1 .. Len(text) /\ text[k] = Newline
          OBVIOUS
        <5>2. k \notin o + 1 .. e - 1 /\ k # e
          BY <2>2, <5>1 DEF LineTo
        <5> QED BY <1>1, <3>1, <5>1, <5>2
      <4> QED BY <4>1
    <3> QED BY <3>1, <3>2 DEF LineAt
  <2> QED BY <2>1, <2>2
<1> DEFINE m == o + 1
<1>3. m \in 1 .. Len(text) + 1 /\ e \in m - 1 .. Len(text) /\ e - m + 1 = e - o
      /\ \A i \in 1 .. e - o : m + i - 1 = o + i
  BY <1>1
<1>4. LineAt(text, o) = SubSeq(text, m, e)
  BY <1>2
<1> HIDE DEF m
<1>5. /\ SubSeq(text, m, e) \in Texts /\ Len(SubSeq(text, m, e)) = e - m + 1
      /\ \A i \in 1 .. e - m + 1 : SubSeq(text, m, e)[i] = text[m + i - 1]
  BY <1>3, SubSeqFacts DEF Texts
<1>6. ASSUME NEW i \in 1 .. e - o PROVE LineAt(text, o)[i] = text[o + i]
  <2>1. i \in 1 .. e - m + 1 /\ m + i - 1 = o + i
    BY <1>3
  <2> QED BY <1>4, <1>5, <2>1
<1> QED BY <1>3, <1>4, <1>5, <1>6

LEMMA LineIs ==
  ASSUME NEW text \in Texts, NEW o \in Nat, NEW e \in Nat, LineTo(text, o, e),
         NEW w \in Texts, Len(w) = e - o, \A i \in 1 .. e - o : w[i] = text[o + i]
  PROVE  LineAt(text, o) = w
<1>1. /\ LineAt(text, o) \in Texts /\ Len(LineAt(text, o)) = e - o
      /\ \A i \in 1 .. e - o : LineAt(text, o)[i] = text[o + i]
  BY LineAtIs
<1> QED BY <1>1, SeqEqual DEF Texts

\* A line that is complete stays when something is appended to the text.
LEMMA LineStays ==
  ASSUME NEW P \in Texts, NEW T \in Texts, Begins(P, T), NEW o \in Nat,
         NEW k \in o + 1 .. Len(P), P[k] = Newline
  PROVE  LineAt(T, o) = LineAt(P, o)
<1>1. Len(P) \in Nat /\ Len(T) \in Nat /\ o < Len(P) /\ Len(P) <= Len(T)
  BY LenProperties DEF Texts, Begins
<1>2. PICK e \in Nat : LineTo(P, o, e)
  BY <1>1, LineEnds
<1>3. e \in o + 1 .. Len(P) /\ P[e] = Newline
  BY <1>1, <1>2 DEF LineTo
<1>4. LineTo(T, o, e)
  <2>1. e \in o + 1 .. Len(T) /\ e \in 1 .. Len(P)
    BY <1>1, <1>3
  <2>2. T[e] = Newline
    BY <1>3, <2>1 DEF Begins
  <2>3. ASSUME NEW i \in o + 1 .. e - 1 PROVE T[i] # Newline
    <3>1. i \in 1 .. Len(P)
      BY <1>1, <1>3
    <3> QED BY <1>2, <3>1 DEF LineTo, Begins
  <2> QED BY <2>1, <2>2, <2>3 DEF LineTo
<1>5. /\ LineAt(P, o) \in Texts /\ Len(LineAt(P, o)) = e - o
      /\ \A i \in 1 .. e - o : LineAt(P, o)[i] = P[o + i]
  BY <1>2, LineAtIs
<1>6. ASSUME NEW i \in 1 .. e - o PROVE LineAt(P, o)[i] = T[o + i]
  <2>1. o + i \in 1 .. Len(P)
    BY <1>1, <1>3
  <2> QED BY <1>5, <2>1 DEF Begins
<1> QED BY <1>4, <1>5, <1>6, LineIs

\* What a complete line becomes that is appended to an unfinished one.
LEMMA LineGlued ==
  ASSUME NEW P \in Texts, NEW w, IsLine(w), NEW o \in Nat, NEW g \in Nat, g + o = Len(P),
         \A k \in o + 1 .. Len(P) : P[k] # Newline
  PROVE  LET L == LineAt(P \o w, o) IN
         /\ IsLine(L) /\ Len(L) = g + Len(w) /\ Occurs(w, L, g)
         /\ \A i \in 1 .. g : L[i] = P[o + i]
<1> DEFINE T == P \o w
           e == Len(P) + Len(w)
           L == LineAt(T, o)
<1>1. w \in Texts /\ Len(w) \in Nat /\ Len(w) > 0 /\ w[Len(w)] = Newline
      /\ \A k \in 1 .. Len(w) - 1 : w[k] # Newline
  BY DEF IsLine
<1>2. /\ T \in Texts /\ Len(P) \in Nat /\ Len(T) = e
      /\ \A k \in 1 .. Len(P) : T[k] = P[k]
      /\ \A k \in 1 .. Len(w) : T[Len(P) + k] = w[k]
  BY <1>1, TextConcat
<1> HIDE DEF T
<1>3. e \in Nat /\ e - o = g + Len(w) /\ e \in o + 1 .. Len(T)
  <2> DEFINE c == Len(w)
             d == Len(P)
  <2>1. c \in Nat /\ c > 0 /\ d \in Nat /\ g + o = d /\ Len(T) = d + c
    BY <1>1, <1>2
  <2> HIDE DEF c, d
  <2>2. d + c \in Nat /\ (d + c) - o = g + c /\ d + c \in o + 1 .. d + c
    BY <2>1
  <2> QED BY <2>1, <2>2 DEF c, d
<1>4. T[e] = Newline
  BY <1>1, <1>2
<1>5. ASSUME NEW k \in o + 1 .. e - 1 PROVE T[k] # Newline
  <2>1. CASE k <= Len(P)
    BY <1>2, <2>1
  <2>2. CASE k > Len(P)
    <3> DEFINE j == k - Len(P)
    <3>1. j \in 1 .. Len(w) - 1 /\ j \in 1 .. Len(w) /\ Len(P) + j = k
      BY <1>1, <1>2, <1>3, <2>2
    <3> HIDE DEF j
    <3> QED BY <1>1, <1>2, <3>1
  <2> QED BY <1>2, <2>1, <2>2
<1>6. LineTo(T, o, e)
  BY <1>3, <1>4, <1>5 DEF LineTo
<1> HIDE DEF e
<1>7. L \in Texts /\ Len(L) = e - o /\ \A i \in 1 .. e - o : L[i] = T[o + i]
  BY <1>2, <1>3, <1>6, LineAtIs
<1> HIDE DEF L
<1>8. Len(L) = g + Len(w) /\ Len(L) \in Nat \ {0}
  BY <1>1, <1>3, <1>7
<1>9. ASSUME NEW i \in 1 .. g PROVE L[i] = P[o + i]
  <2>1. i \in 1 .. e - o /\ o + i \in 1 .. Len(P)
    BY <1>1, <1>2, <1>3
  <2> QED BY <1>2, <1>7, <2>1
<1>10. ASSUME NEW i \in 1 .. Len(w) PROVE L[g + i] = w[i]
  <2>1. g + i \in 1 .. e - o /\ o + (g + i) = Len(P) + i
    <3> DEFINE c == Len(w)
               d == Len(P)
    <3>1. c \in Nat /\ d \in Nat /\ g + o = d /\ e - o = g + c /\ i \in 1 .. c
      BY <1>1, <1>2, <1>3
    <3> HIDE DEF c, d
    <3>2. g + i \in 1 .. g + c /\ o + (g + i) = d + i
      BY <3>1
    <3> QED BY <3>1, <3>2 DEF d
  <2>2. L[g + i] = T[o + (g + i)]
    BY <1>7, <2>1
  <2> QED BY <1>2, <2>1, <2>2
<1>11. Occurs(w, L, g)
  BY <1>8, <1>10 DEF Occurs
<1>12. IsLine(L)
  <2>1. L[Len(L)] = Newline
    BY <1>1, <1>8, <1>10
  <2>2. ASSUME NEW k \in 1 .. Len(L) - 1 PROVE L[k] # Newline
    <3>1. k \in 1 .. e - o /\ o + k \in o + 1 .. e - 1
      BY <1>1, <1>3, <1>8
    <3>2. L[k] = T[o + k]
      BY <1>7, <3>1
    <3> QED BY <1>5, <3>1, <3>2
  <2> QED BY <1>7, <1>8, <2>1, <2>2 DEF IsLine
<1> QED BY <1>8, <1>9, <1>11, <1>12 DEF L, T

LEMMA LineAppended ==
  ASSUME NEW P \in Texts, NEW w, IsLine(w)
  PROVE  LineAt(P \o w, Len(P)) = w
<1> DEFINE L == LineAt(P \o w, Len(P))
<1>1. Len(P) \in Nat /\ w \in Texts /\ Len(w) \in Nat
  BY LenProperties DEF Texts, IsLine
<1>2. \A k \in Len(P) + 1 .. Len(P) : P[k] # Newline
  BY <1>1
<1>3. IsLine(L) /\ Len(L) = 0 + Len(w) /\ Occurs(w, L, 0)
  BY <1>1, <1>2, LineGlued
<1> HIDE DEF L
<1>4. L \in Texts /\ Len(L) = Len(w) /\ \A i \in 1 .. Len(w) : L[i] = w[i]
  BY <1>1, <1>3 DEF Occurs, IsLine
<1> SUFFICES L = w
  BY DEF L
<1> QED BY <1>1, <1>4, SeqEqual DEF Texts

-----------------------------------------------------------------------------
(* Sets of positions in order *)

Below(S, k) == {l \in S : l < k}

LEMMA BelowFacts ==
  ASSUME NEW m \in Nat, NEW S \in SUBSET (1 .. m)
  PROVE  /\ IsFiniteSet(S) /\ Cardinality(S) \in Nat
         /\ \A k \in S : Cardinality(Below(S, k)) \in 0 .. Cardinality(S) - 1
         /\ \A k, j \in S : k < j => Cardinality(Below(S, k)) < Cardinality(Below(S, j))
<1>1. IsFiniteSet(S) /\ Cardinality(S) \in Nat
  <2>1. IsFiniteSet(1 .. m)
    BY FS_Interval
  <2>2. IsFiniteSet(S)
    BY <2>1, FS_Subset
  <2> QED BY <2>2, FS_CardinalityType
<1>2. ASSUME NEW T \in SUBSET S, NEW k \in S, k \notin T
      PROVE  /\ IsFiniteSet(T) /\ Cardinality(T) \in Nat
             /\ Cardinality(T) < Cardinality(S)
  <2>1. T # S /\ IsFiniteSet(T) /\ Cardinality(T) <= Cardinality(S)
        /\ (Cardinality(S) = Cardinality(T) => S = T)
    BY <1>1, <1>2, FS_Subset
  <2>2. Cardinality(T) \in Nat
    BY <2>1, FS_CardinalityType
  <2> QED BY <1>1, <2>1, <2>2
<1>3. ASSUME NEW k \in S PROVE Cardinality(Below(S, k)) \in 0 .. Cardinality(S) - 1
  <2>1. Below(S, k) \in SUBSET S /\ k \notin Below(S, k)
    BY DEF Below
  <2>2. Cardinality(Below(S, k)) \in Nat /\ Cardinality(Below(S, k)) < Cardinality(S)
    BY <1>2, <2>1
  <2> QED BY <1>1, <2>2
<1>4. ASSUME NEW k \in S, NEW j \in S, k < j
      PROVE  Cardinality(Below(S, k)) < Cardinality(Below(S, j))
  <2>1. Below(S, k) \in SUBSET Below(S, j) /\ k \in Below(S, j) /\ k \notin Below(S, k)
    <3>1. k \in Int /\ j \in Int /\ \A l \in S : l \in Int
      OBVIOUS
    <3>2. (\A l \in S : l < k => l < j) /\ ~(k < k)
      BY <1>4, <3>1
    <3> QED BY <1>4, <3>2, Zenon DEF Below
  <2>2. IsFiniteSet(Below(S, j))
    BY <1>1, FS_Subset DEF Below
  <2> QED BY <2>1, <2>2, FS_Subset, FS_CardinalityType
<1> QED BY <1>1, <1>3, <1>4

\* In a finite set of numbers there is an n-th one: counting those below an
\* element is an injection into as many numbers, hence a surjection.
LEMMA InOrderFacts ==
  ASSUME NEW m \in Nat, NEW S \in SUBSET (1 .. m)
  PROVE  /\ \A n \in 1 .. Cardinality(S) :
              InOrder(S)[n] \in S /\ Cardinality(Below(S, InOrder(S)[n])) = n - 1
         /\ \A k \in S : /\ Cardinality(Below(S, k)) + 1 \in 1 .. Cardinality(S)
                         /\ InOrder(S)[Cardinality(Below(S, k)) + 1] = k
<1> DEFINE size == Cardinality(S)
           Rank(k) == Cardinality(Below(S, k))
           rank == [k \in S |-> Rank(k) + 1]
<1>1. IsFiniteSet(S) /\ size \in Nat
  BY BelowFacts
<1>2. \A k \in S : Rank(k) \in 0 .. size - 1
  BY BelowFacts
<1>3. \A k, j \in S : k < j => Rank(k) < Rank(j)
  BY BelowFacts
<1>4. \A n \in 1 .. size : InOrder(S)[n] = CHOOSE k \in S : Rank(k) = n - 1
  BY DEF InOrder, Below
<1> HIDE DEF size, Rank
<1>5. ASSUME NEW k \in S, NEW j \in S, Rank(k) = Rank(j) PROVE k = j
  <2>1. k \in Int /\ j \in Int /\ Rank(k) \in Int /\ Rank(j) \in Int
    BY <1>1, <1>2
  <2>2. ~(k < j) /\ ~(j < k)
    BY <1>3, <1>5, <2>1
  <2> QED BY <2>1, <2>2
<1>6. rank \in Injection(S, 1 .. size)
  <2>1. rank \in [S -> 1 .. size]
    BY <1>1, <1>2
  <2>2. ASSUME NEW k \in S, NEW j \in S, rank[k] = rank[j] PROVE k = j
    <3>1. Rank(k) + 1 = Rank(j) + 1 /\ Rank(k) \in Int /\ Rank(j) \in Int
      BY <1>1, <1>2, <2>2
    <3>2. Rank(k) = Rank(j)
      BY <3>1
    <3> QED BY <1>5, <3>2
  <2> HIDE DEF rank
  <2> QED BY <2>1, <2>2 DEF Injection, IsInjective
<1>7. IsFiniteSet(1 .. size) /\ Cardinality(1 .. size) = size
  BY <1>1, FS_Interval
<1>8. rank \in Surjection(S, 1 .. size)
  <2> HIDE DEF rank
  <2> QED BY <1>1, <1>6, <1>7, FS_Injection DEF size
<1>9. ASSUME NEW n \in 1 .. size PROVE InOrder(S)[n] \in S /\ Rank(InOrder(S)[n]) = n - 1
  <2>1. PICK k \in S : rank[k] = n
    <3> HIDE DEF rank
    <3> QED BY <1>8 DEF Surjection
  <2>2. Rank(k) = n - 1
    BY <1>1, <1>2, <2>1
  <2> QED BY <1>4, <2>2
<1>10. ASSUME NEW k \in S PROVE Rank(k) + 1 \in 1 .. size /\ InOrder(S)[Rank(k) + 1] = k
  <2> DEFINE n == Rank(k) + 1
  <2>1. n \in 1 .. size /\ n - 1 = Rank(k)
    BY <1>1, <1>2
  <2> HIDE DEF n
  <2>2. InOrder(S)[n] \in S /\ Rank(InOrder(S)[n]) = Rank(k)
    BY <1>9, <2>1
  <2>3. InOrder(S)[n] = k
    BY <1>5, <2>2
  <2> QED BY <2>1, <2>3 DEF n
<1> QED BY <1>9, <1>10 DEF Rank, size

LEMMA InOrderSeq ==
  ASSUME NEW m \in Nat, NEW S \in SUBSET (1 .. m)
  PROVE  InOrder(S) \in Seq(S) /\ Len(InOrder(S)) = Cardinality(S) /\ Cardinality(S) \in Nat
<1>1. Cardinality(S) \in Nat
  BY BelowFacts
<1>2. \A n \in 1 .. Cardinality(S) : InOrder(S)[n] \in S
  BY InOrderFacts
<1>3. InOrder(S) \in [1 .. Cardinality(S) -> S]
  BY <1>2 DEF InOrder
<1> HIDE DEF InOrder
<1>4. InOrder(S) \in Seq(S)
  BY <1>1, <1>3, SeqDef
<1> QED BY <1>1, <1>3, <1>4, LenProperties

LEMMA InOrderAppend ==
  ASSUME NEW m \in Nat, NEW S \in SUBSET (1 .. m), NEW j \in Nat \ {0}, \A l \in S : l < j
  PROVE  InOrder(S \cup {j}) = Append(InOrder(S), j)
<1> DEFINE U == S \cup {j}
           c == Cardinality(S)
<1>0. ~(j < j)
  OBVIOUS
<1>1. j \notin S /\ IsFiniteSet(S) /\ c \in Nat
  <2>1. j \notin S
    BY <1>0, Zenon
  <2> QED BY <2>1, BelowFacts
<1>2. Cardinality(U) = c + 1
  BY <1>1, FS_AddElement
<1>3. m + j \in Nat /\ U \in SUBSET (1 .. m + j)
  OBVIOUS
<1>4. Below(U, j) = S
  BY <1>0, Zenon DEF Below
<1>5. ASSUME NEW k \in S PROVE Below(U, k) = Below(S, k)
  <2>1. ~(j < k)
    OBVIOUS
  <2> QED BY <2>1 DEF Below
<1>6. j \in U /\ \A k \in S : k \in U
  OBVIOUS
<1> HIDE DEF U
<1>7. InOrder(U) \in Seq(U) /\ Len(InOrder(U)) = c + 1
  BY <1>2, <1>3, InOrderSeq
<1>8. InOrder(S) \in Seq(S) /\ Len(InOrder(S)) = c
  BY InOrderSeq
<1>9. InOrder(U)[c + 1] = j
  BY <1>3, <1>4, <1>6, InOrderFacts
<1>10. ASSUME NEW n \in 1 .. c PROVE InOrder(U)[n] = InOrder(S)[n]
  <2> DEFINE k == InOrder(S)[n]
  <2>1. k \in S /\ Cardinality(Below(S, k)) = n - 1
    BY InOrderFacts
  <2> HIDE DEF k
  <2>2. Cardinality(Below(U, k)) + 1 = n
    BY <1>1, <1>5, <2>1
  <2>3. InOrder(U)[Cardinality(Below(U, k)) + 1] = k
    BY <1>3, <1>6, <2>1, InOrderFacts
  <2> QED BY <2>2, <2>3 DEF k
<1>11. /\ Append(InOrder(S), j) \in Seq(U) /\ Len(Append(InOrder(S), j)) = c + 1
       /\ Append(InOrder(S), j)[c + 1] = j
       /\ \A n \in 1 .. c : Append(InOrder(S), j)[n] = InOrder(S)[n]
  <2>1. InOrder(S) \in Seq(U)
    BY <1>6, <1>8, SeqMonotonic
  <2> QED BY <1>1, <1>6, <1>8, <2>1, AppendProperties
<1>12. \A n \in 1 .. c + 1 : InOrder(U)[n] = Append(InOrder(S), j)[n]
  BY <1>1, <1>9, <1>10, <1>11
<1>13. InOrder(U) = Append(InOrder(S), j)
  BY <1>7, <1>11, <1>12, SeqEqual
<1> QED BY <1>13 DEF U

LEMMA AtFacts ==
  ASSUME NEW A, NEW s \in Seq(A), NEW S \in SUBSET (1 .. Len(s))
  PROVE  /\ At(s, S) \in Seq(A) /\ Len(At(s, S)) = Cardinality(S) /\ Cardinality(S) \in Nat
         /\ \A n \in 1 .. Cardinality(S) : InOrder(S)[n] \in S /\ At(s, S)[n] = s[InOrder(S)[n]]
<1>1. Len(s) \in Nat
  BY LenProperties
<1>2. Cardinality(S) \in Nat /\ \A n \in 1 .. Cardinality(S) : InOrder(S)[n] \in S
  BY <1>1, BelowFacts, InOrderFacts
<1>3. \A n \in 1 .. Cardinality(S) : s[InOrder(S)[n]] \in A
  BY <1>2, ElementOfSeq
<1>4. At(s, S) \in [1 .. Cardinality(S) -> A]
  BY <1>3 DEF At
<1>5. \A n \in 1 .. Cardinality(S) : At(s, S)[n] = s[InOrder(S)[n]]
  BY DEF At
<1> HIDE DEF At
<1>6. At(s, S) \in Seq(A)
  BY <1>2, <1>4, SeqDef
<1> QED BY <1>2, <1>4, <1>5, <1>6, LenProperties

\* The same position is not taken twice.
LEMMA InOrderOnce ==
  ASSUME NEW m \in Nat, NEW S \in SUBSET (1 .. m),
         NEW a \in 1 .. Cardinality(S), NEW b \in 1 .. Cardinality(S),
         InOrder(S)[a] = InOrder(S)[b]
  PROVE  a = b
<1>1. Cardinality(S) \in Nat
  BY BelowFacts
<1>2. /\ Cardinality(Below(S, InOrder(S)[a])) = a - 1
      /\ Cardinality(Below(S, InOrder(S)[b])) = b - 1
  BY InOrderFacts
<1>3. a - 1 = b - 1
  BY <1>2
<1> QED BY <1>1, <1>3

-----------------------------------------------------------------------------
(* Reading a line to its end *)

LEMMA FieldsType ==
  ASSUME NEW line \in Texts
  PROVE  ParseLine(line).fields \in Seq(Plain) /\ Len(ParseLine(line).fields) \in Nat
<1>1. PICK st \in [0 .. Len(Whole(line)) -> States(Chars \ {Newline})] :
        ParseLine(line).fields = st[Len(Whole(line))].fields
  BY ParseResult
<1>2. Len(Whole(line)) \in 0 .. Len(Whole(line))
  BY WholeProperties DEF Texts
<1>3. st[Len(Whole(line))] \in States(Chars \ {Newline})
  BY <1>1, <1>2
<1>4. ParseLine(line).fields \in Seq(Plain)
  BY <1>1, <1>3 DEF States, Plain
<1> QED BY <1>4, LenProperties

\* The second of two quotes is a quote.
LEMMA SecondIsQuote ==
  ASSUME NEW C, NEW line, NEW s \in States(C), NEW k, ParseChar(line, s, k).mode = "second"
  PROVE  line[k + 1] = Quote
  BY DEF ParseChar, States

\* A line that is not malformed ends outside quotes, and its last field with it.
LEMMA LastStep ==
  ASSUME NEW C, NEW line, NEW n \in Nat, n + 1 = Len(line), line[n + 1] = Newline,
         NEW st \in [0 .. n + 1 -> States(C)], IsRun(line, st), st[n + 1].mode # "malformed"
  PROVE  /\ st[n].mode = "outside" /\ st[n + 1].mode = "outside"
         /\ st[n + 1].fields = Append(st[n].fields, st[n].field)
<1>1. st[n] \in States(C)
  OBVIOUS
<1>2. st[n + 1] = ParseChar(line, st[n], n + 1)
  BY DEF IsRun, Runs
<1>3. st[n].mode # "second"
  <2>1. CASE n = 0
    <3>1. st[0] = StartState
      BY DEF IsRun, Runs
    <3> QED BY <2>1, <3>1 DEF StartState, State
  <2>2. CASE n # 0
    <3> DEFINE j == n - 1
    <3>1. j \in 0 .. n + 1 /\ j \in 0 .. Len(line) - 1 /\ j + 1 = n
      BY <2>2
    <3> HIDE DEF j
    <3>2. st[j] \in States(C) /\ st[j + 1] = ParseChar(line, st[j], j + 1)
      BY <3>1 DEF IsRun, Runs
    <3>3. st[n] = ParseChar(line, st[j], n)
      BY <3>1, <3>2
    <3>4. line[n + 1] # Quote
      BY CharactersDiffer
    <3> QED BY <3>2, <3>3, <3>4, SecondIsQuote
  <2> QED BY <2>1, <2>2
<1> QED BY <1>1, <1>2, <1>3, CharactersDiffer DEF ParseChar, States

-----------------------------------------------------------------------------
(* Reading a text *)

Row(text, o) == ParseLine(LineAt(text, o)).fields

\* Every row parses and has as many fields as the header.
Readable(text) ==
  /\ ReadHeader(text).ok
  /\ \A o \in RowOffsets(text) : RowParses(LineAt(text, o), Len(ReadHeader(text).fields))

LEMMA OffsetsFacts ==
  ASSUME NEW text \in Texts
  PROVE  /\ Len(text) \in Nat /\ RowOffsets(text) \in SUBSET (1 .. Len(text))
         /\ \A o \in RowOffsets(text) :
              /\ o \in Nat \ {0} /\ o < Len(text) /\ LineAt(text, o) \in Texts
              /\ Row(text, o) \in Seq(Plain)
<1>1. Len(text) \in Nat
  BY LenProperties DEF Texts
<1>2. ASSUME NEW o \in RowOffsets(text)
      PROVE  /\ o \in Nat \ {0} /\ o < Len(text) /\ LineAt(text, o) \in Texts
             /\ Row(text, o) \in Seq(Plain)
  <2>1. o \in Nat \ {0} /\ o < Len(text)
    BY <1>1 DEF RowOffsets
  <2>2. LineAt(text, o) \in Texts
    BY <2>1, LineEnds, LineAtIs
  <2> QED BY <2>1, <2>2, FieldsType DEF Row
<1> QED BY <1>1, <1>2 DEF RowOffsets

LEMMA HeaderType ==
  ASSUME NEW text \in Texts
  PROVE  /\ ReadHeader(text).fields \in Seq(Plain) /\ Len(ReadHeader(text).fields) \in Nat
         /\ text # <<>> => LineAt(text, 0) \in Texts /\ ReadHeader(text).fields = Row(text, 0)
                          /\ (ReadHeader(text).ok <=> ParseLine(LineAt(text, 0)).ok)
         /\ text = <<>> => ReadHeader(text).fields = <<>> /\ ReadHeader(text).ok
<1>1. CASE text = <<>>
  <2>1. ReadHeader(text).fields = <<>> /\ ReadHeader(text).ok
    BY <1>1 DEF ReadHeader
  <2> QED BY <1>1, <2>1, EmptySeq
<1>2. CASE text # <<>>
  <2>1. 0 < Len(text) /\ Len(text) \in Nat
    BY <1>2, LenProperties, EmptySeq DEF Texts
  <2>2. LineAt(text, 0) \in Texts
    BY <2>1, LineEnds, LineAtIs
  <2>3. ReadHeader(text) = ParseLine(LineAt(text, 0))
    BY <1>2 DEF ReadHeader
  <2> QED BY <1>2, <2>2, <2>3, FieldsType DEF Row
<1> QED BY <1>1, <1>2

LEMMA ReadTableFacts ==
  ASSUME NEW text \in Texts
  PROVE  LET t == ReadTable(text)
             S == RowOffsets(text)
         IN  /\ t.ok <=> Readable(text)
             /\ t.columns \in Seq(Plain) /\ t.rows \in Seq(Seq(Plain))
             /\ ~t.ok => t.columns = <<>> /\ t.rows = <<>> /\ t.offsets = <<>>
             /\ t.ok => /\ t.columns = ReadHeader(text).fields /\ t.offsets = InOrder(S)
                        /\ Len(t.rows) = Cardinality(S) /\ Cardinality(S) \in Nat
                        /\ \A k \in 1 .. Len(t.rows) :
                             /\ InOrder(S)[k] \in S
                             /\ t.rows[k] = Row(text, InOrder(S)[k])
                             /\ Len(t.rows[k]) = Len(t.columns)
<1> DEFINE S == RowOffsets(text)
           c == Cardinality(S)
           t == ReadTable(text)
           rows == [k \in DOMAIN InOrder(S) |-> Row(text, InOrder(S)[k])]
<1>1. Len(text) \in Nat /\ S \in SUBSET (1 .. Len(text))
  BY OffsetsFacts
<1>2. \A o \in S : LineAt(text, o) \in Texts /\ Row(text, o) \in Seq(Plain)
  BY OffsetsFacts
<1>3. CASE Readable(text)
  <2>1. t = [ok |-> TRUE, columns |-> ReadHeader(text).fields, offsets |-> InOrder(S), rows |-> rows]
    BY <1>3 DEF ReadTable, Readable, Row
  <2>2. t.ok /\ t.columns = ReadHeader(text).fields /\ t.offsets = InOrder(S) /\ t.rows = rows
    BY <2>1
  <2> HIDE DEF t, S
  <2>3. c \in Nat /\ InOrder(S) \in Seq(S) /\ Len(InOrder(S)) = c
    BY <1>1, InOrderSeq
  <2>4. DOMAIN InOrder(S) = 1 .. c /\ \A k \in 1 .. c : InOrder(S)[k] \in S
    BY <2>3, LenProperties, ElementOfSeq
  <2>5. rows \in [1 .. c -> Seq(Plain)] /\ \A k \in 1 .. c : rows[k] = Row(text, InOrder(S)[k])
    BY <1>2, <2>4
  <2> HIDE DEF c, rows
  <2>6. rows \in Seq(Seq(Plain))
    BY <2>3, <2>5, SeqDef DEF c
  <2>7. Len(rows) = c
    BY <2>3, <2>5, <2>6, LenProperties DEF c
  <2>8. ASSUME NEW k \in 1 .. c PROVE Len(rows[k]) = Len(ReadHeader(text).fields)
    <3>1. RowParses(LineAt(text, InOrder(S)[k]), Len(ReadHeader(text).fields))
      BY <1>3, <2>4 DEF Readable, S
    <3> QED BY <2>5, <3>1 DEF RowParses, Row
  <2> QED BY <1>3, <2>2, <2>3, <2>4, <2>5, <2>6, <2>7, <2>8, HeaderType DEF c, S, t
<1>4. CASE ~Readable(text)
  <2>1. t = [ok |-> FALSE, columns |-> <<>>, offsets |-> <<>>, rows |-> <<>>]
    BY <1>4 DEF ReadTable, Readable
  <2>2. ~t.ok /\ t.columns = <<>> /\ t.offsets = <<>> /\ t.rows = <<>>
    BY <2>1
  <2> HIDE DEF t
  <2>3. t.columns \in Seq(Plain) /\ t.rows \in Seq(Seq(Plain))
    BY <2>2, EmptySeq
  <2> QED BY <1>4, <2>2, <2>3 DEF t
<1> QED BY <1>3, <1>4

-----------------------------------------------------------------------------
(* Appending a row to a text that ends with a line break *)

EndsLine(text) == text \in Texts /\ Len(text) \in Nat \ {0} /\ text[Len(text)] = Newline

LEMMA AppendedLine ==
  ASSUME NEW T, EndsLine(T), NEW w, IsLine(w)
  PROVE  /\ EndsLine(T \o w) /\ Len(T \o w) = Len(T) + Len(w) /\ Begins(T, T \o w)
         /\ LineAt(T \o w, Len(T)) = w
         /\ \A o \in 0 .. Len(T) - 1 : LineAt(T \o w, o) = LineAt(T, o)
<1> DEFINE N == T \o w
<1>1. T \in Texts /\ w \in Texts /\ Len(T) \in Nat \ {0} /\ Len(w) \in Nat \ {0}
      /\ T[Len(T)] = Newline /\ w[Len(w)] = Newline
  BY DEF EndsLine, IsLine
<1>2. /\ N \in Texts /\ Len(N) = Len(T) + Len(w) /\ Begins(T, N)
      /\ \A k \in 1 .. Len(w) : N[Len(T) + k] = w[k]
  BY <1>1, TextConcat
<1>3. LineAt(N, Len(T)) = w
  BY <1>1, LineAppended
<1> HIDE DEF N
<1>4. EndsLine(N)
  BY <1>1, <1>2 DEF EndsLine
<1>5. ASSUME NEW o \in 0 .. Len(T) - 1 PROVE LineAt(N, o) = LineAt(T, o)
  <2>1. o \in Nat /\ Len(T) \in o + 1 .. Len(T)
    BY <1>1
  <2> QED BY <1>1, <1>2, <2>1, LineStays
<1> QED BY <1>2, <1>3, <1>4, <1>5 DEF N

LEMMA AppendedOffsets ==
  ASSUME NEW T, EndsLine(T), NEW w, IsLine(w)
  PROVE  RowOffsets(T \o w) =
           IF Len(w) = 1 THEN RowOffsets(T) ELSE RowOffsets(T) \cup {Len(T)}
<1> DEFINE N == T \o w
<1>1. T \in Texts /\ w \in Texts /\ Len(T) \in Nat \ {0} /\ Len(w) \in Nat \ {0}
      /\ T[Len(T)] = Newline /\ w[Len(w)] = Newline
      /\ \A k \in 1 .. Len(w) - 1 : w[k] # Newline
  BY DEF EndsLine, IsLine
<1>2. /\ N \in Texts /\ Len(N) = Len(T) + Len(w)
      /\ \A k \in 1 .. Len(T) : N[k] = T[k]
      /\ \A k \in 1 .. Len(w) : N[Len(T) + k] = w[k]
  BY <1>1, TextConcat
<1> HIDE DEF N
<1> DEFINE IsOffset(k) == N[k] = Newline /\ N[k + 1] # Newline
<1>3. ASSUME NEW k \in 1 .. Len(T) - 1 PROVE IsOffset(k) <=> k \in RowOffsets(T)
  <2>1. k \in 1 .. Len(T) /\ k + 1 \in 1 .. Len(T)
    BY <1>1
  <2> QED BY <1>2, <2>1 DEF RowOffsets
<1>4. IsOffset(Len(T)) <=> Len(w) # 1
  <2>1. N[Len(T)] = Newline /\ N[Len(T) + 1] = w[1]
    BY <1>1, <1>2
  <2>2. w[1] = Newline <=> Len(w) = 1
    <3>1. CASE Len(w) = 1
      BY <1>1, <3>1
    <3>2. CASE Len(w) # 1
      <4>1. 1 \in 1 .. Len(w) - 1
        BY <1>1, <3>2
      <4> QED BY <1>1, <3>2, <4>1
    <3> QED BY <3>1, <3>2
  <2> QED BY <2>1, <2>2
<1>5. ASSUME NEW k \in Len(T) + 1 .. Len(N) - 1 PROVE ~IsOffset(k)
  <2> DEFINE j == k - Len(T)
  <2>1. j \in 1 .. Len(w) - 1 /\ j \in 1 .. Len(w) /\ Len(T) + j = k
    BY <1>1, <1>2
  <2> HIDE DEF j
  <2> QED BY <1>1, <1>2, <2>1
<1>6. RowOffsets(N) = {k \in 1 .. Len(N) - 1 : IsOffset(k)} /\ RowOffsets(T) \subseteq 1 .. Len(T) - 1
  BY DEF RowOffsets
<1>7. ASSUME NEW k
      PROVE  k \in 1 .. Len(N) - 1 <=>
               k \in 1 .. Len(T) - 1 \/ k = Len(T) \/ k \in Len(T) + 1 .. Len(N) - 1
  BY <1>1, <1>2
<1>8. Len(T) \notin 1 .. Len(T) - 1 /\ \A k \in Len(T) + 1 .. Len(N) - 1 : k \notin 1 .. Len(T) - 1
  BY <1>1
<1> HIDE DEF IsOffset
<1>9. ASSUME NEW k
      PROVE  k \in RowOffsets(N) <=> k \in RowOffsets(T) \/ (k = Len(T) /\ Len(w) # 1)
  BY <1>3, <1>4, <1>5, <1>6, <1>7, <1>8, Zenon
<1>10. RowOffsets(N) = IF Len(w) = 1 THEN RowOffsets(T) ELSE RowOffsets(T) \cup {Len(T)}
  BY <1>9
<1> QED BY <1>10 DEF N

\* The header is the first line, once that is complete.
LEMMA HeaderStays ==
  ASSUME NEW P \in Texts, NEW T \in Texts, Begins(P, T), NEW k \in 1 .. Len(P), P[k] = Newline
  PROVE  /\ ReadHeader(T).fields = ReadHeader(P).fields
         /\ ReadHeader(T).ok <=> ReadHeader(P).ok
<1>1. Len(P) \in Nat /\ Len(T) \in Nat /\ Len(P) <= Len(T)
  BY LenProperties DEF Texts, Begins
<1>2. P # <<>> /\ T # <<>>
  BY <1>1, EmptySeq
<1>3. k \in 0 + 1 .. Len(P)
  BY <1>1
<1>4. LineAt(T, 0) = LineAt(P, 0)
  BY <1>3, LineStays
<1> QED BY <1>2, <1>4, HeaderType DEF Row

\* A row is a line of its own that is not blank, unless it is one empty value.
LEMMA RowNotBlank ==
  ASSUME NEW values \in Seq(Plain), values # <<>>, Len(values) > 1 \/ values[1] # <<>>
  PROVE  Len(WriteRow(values)) > 1
<1> DEFINE w == WriteRow(values)
           n == Len(values)
<1>1. w \in Texts /\ Len(w) \in Nat /\ n \in Nat /\ n # 0
  BY WriteRowFacts, LenProperties, EmptySeq
<1>2. PICK f : Spells(f, values) /\ w = Line(f[n])
  BY WriteRowFacts
<1>3. Occurs(w, w, 0)
  BY <1>1 DEF Occurs
<1> HIDE DEF w
<1> DEFINE b == ValueStart(f, 0, n)
           e == 0 + Len(f[n])
           v == WriteValue(values[n])
<1>4. n \in 1 .. Len(values)
  BY <1>1
<1>5. b \in Nat /\ e \in Nat /\ b + Len(v) = e /\ e < Len(w)
  <2> HIDE DEF n
  <2>1. n \in 1 .. Len(values) /\ w = Line(f[Len(values)])
    BY <1>2, <1>4 DEF n
  <2>2. b = ValueStart(f, 0, n) /\ e = 0 + Len(f[n])
    OBVIOUS
  <2> HIDE DEF b, e
  <2> QED BY <1>1, <1>2, <1>3, <2>1, <2>2, RowShape
<1>6. values[n] \in Plain /\ v \in Texts /\ Len(v) \in Nat
  BY <1>4, ElementOfSeq, WriteValueFacts, PlainFacts
<1>7. CASE n > 1
  <2>1. n - 1 \in 0 .. n /\ f \in [0 .. n -> Seq(Chars \ {Newline})]
    BY <1>1, <1>2, PieceFacts DEF Spells, Joins
  <2>2. Len(f[n - 1]) \in Nat
    BY <2>1, LenProperties
  <2>3. b = 0 + Len(f[n - 1]) + 1
    <3> HIDE DEF n
    <3>1. n # 1
      BY <1>1, <1>7
    <3> QED BY <3>1 DEF ValueStart
  <2> HIDE DEF b, e, n, v
  <2>4. b > 0
    BY <2>2, <2>3
  <2>5. Len(w) > 1
    BY <1>1, <1>5, <1>6, <2>4
  <2> QED BY <2>5 DEF w
<1>8. CASE n = 1
  <2>1. values[1] # <<>> /\ values[1] \in Plain /\ v = WriteValue(values[1])
    BY <1>6, <1>8
  <2> DEFINE u == values[1]
             d == FlattenSeq(Doubled(u))
  <2>2. u # <<>> /\ u \in Plain /\ v = WriteValue(u)
    BY <2>1
  <2> HIDE DEF u, v
  <2>3. CASE ~NeedsQuotes(u)
    <3>1. v = u
      BY <2>2, <2>3, WriteValueFacts
    <3>2. Len(v) # 0
      BY <2>2, <3>1, EmptySeq, PlainFacts DEF Texts
    <3> HIDE DEF b, e, n
    <3>3. Len(w) > 1
      BY <1>1, <1>5, <1>6, <3>2
    <3> QED BY <3>3 DEF w
  <2>4. CASE NeedsQuotes(u)
    <3>1. v = (<<Quote>> \o d) \o <<Quote>> /\ d \in Texts
      BY <2>2, <2>4, WriteValueFacts, PlainFacts
    <3> HIDE DEF d
    <3>2. Len(v) = Len(d) + 2
      BY <3>1, BetweenQuotes
    <3>3. Len(d) \in Nat
      BY <3>1, LenProperties DEF Texts
    <3> HIDE DEF b, e, n
    <3>4. Len(w) > 1
      BY <1>1, <1>5, <1>6, <3>2, <3>3
    <3> QED BY <3>4 DEF w
  <2> QED BY <2>3, <2>4
<1>9. n = 1 \/ n > 1
  <2> HIDE DEF n
  <2> QED BY <1>1
<1> QED BY <1>7, <1>8, <1>9

\* What is read is the table with these columns and rows.
Reads(text, columns, rows) ==
  ReadTable(text).ok /\ ReadTable(text).columns = columns /\ ReadTable(text).rows = rows

\* A row appended to a table is read back behind the others.
THEOREM ReadAppended ==
  ASSUME NEW T, EndsLine(T), NEW columns, NEW rows, Reads(T, columns, rows),
         NEW values \in Seq(Plain), values # <<>>, Len(values) = Len(columns),
         Len(WriteRow(values)) > 1
  PROVE  EndsLine(T \o WriteRow(values)) /\ Reads(T \o WriteRow(values), columns, Append(rows, values))
<1> DEFINE w == WriteRow(values)
           N == T \o w
           S == RowOffsets(T)
           U == S \cup {Len(T)}
           c == Cardinality(S)
<1>0. T \in Texts /\ Len(T) \in Nat \ {0} /\ T[Len(T)] = Newline
  BY DEF EndsLine
<1>1. IsLine(w) /\ Len(w) # 1
  BY RowIsLine DEF IsLine
<1>2. ParseLine(w).ok /\ ParseLine(w).fields = values
  BY RoundTrip
<1> HIDE DEF w
<1>3. /\ EndsLine(N) /\ Begins(T, N) /\ LineAt(N, Len(T)) = w
      /\ \A o \in 0 .. Len(T) - 1 : LineAt(N, o) = LineAt(T, o)
  BY <1>1, AppendedLine
<1>4. RowOffsets(N) = U
  BY <1>1, AppendedOffsets
<1>5. N \in Texts
  BY <1>3 DEF EndsLine
<1> HIDE DEF N
<1>6. ReadHeader(N).fields = ReadHeader(T).fields /\ (ReadHeader(N).ok <=> ReadHeader(T).ok)
  BY <1>0, <1>3, <1>5, HeaderStays
<1>7. /\ Readable(T) /\ columns = ReadHeader(T).fields /\ rows \in Seq(Seq(Plain))
      /\ Len(rows) = c /\ c \in Nat
      /\ \A k \in 1 .. c : InOrder(S)[k] \in S /\ rows[k] = Row(T, InOrder(S)[k])
  BY <1>0, ReadTableFacts DEF Reads
<1>8. S \in SUBSET (1 .. Len(T)) /\ \A o \in S : o \in 0 .. Len(T) - 1 /\ o < Len(T)
  BY <1>0, OffsetsFacts
<1> HIDE DEF S
<1>9. Readable(N)
  <2>1. ASSUME NEW o \in S PROVE RowParses(LineAt(N, o), Len(ReadHeader(N).fields))
    BY <1>3, <1>6, <1>7, <1>8 DEF Readable, S
  <2>2. RowParses(LineAt(N, Len(T)), Len(ReadHeader(N).fields))
    BY <1>2, <1>3, <1>6, <1>7 DEF RowParses
  <2> QED BY <1>4, <1>6, <1>7, <2>1, <2>2 DEF Readable
<1>10. InOrder(U) = Append(InOrder(S), Len(T))
  BY <1>0, <1>8, InOrderAppend
<1>11. /\ ReadTable(N).ok /\ ReadTable(N).columns = columns
       /\ ReadTable(N).rows \in Seq(Seq(Plain)) /\ Len(ReadTable(N).rows) = Cardinality(U)
       /\ \A k \in 1 .. Len(ReadTable(N).rows) : ReadTable(N).rows[k] = Row(N, InOrder(U)[k])
  BY <1>4, <1>5, <1>6, <1>7, <1>9, ReadTableFacts
<1>12. /\ InOrder(S) \in Seq(Nat) /\ Len(InOrder(S)) = c
       /\ InOrder(U) \in Seq(Nat) /\ Len(InOrder(U)) = Cardinality(U)
  <2>1. InOrder(S) \in Seq(S) /\ Len(InOrder(S)) = c
    BY <1>0, <1>8, InOrderSeq
  <2>2. U \in SUBSET (1 .. Len(T))
    <3>1. Len(T) \in 1 .. Len(T)
      BY <1>0
    <3> QED BY <1>8, <3>1, Zenon
  <2> HIDE DEF U
  <2>3. InOrder(U) \in Seq(U) /\ Len(InOrder(U)) = Cardinality(U)
    BY <1>0, <2>2, InOrderSeq
  <2>4. S \subseteq Nat /\ U \subseteq Nat
    BY <1>0, <1>8, <2>2
  <2> QED BY <2>1, <2>3, <2>4, SeqMonotonic
<1> HIDE DEF U
<1>13. /\ Cardinality(U) = c + 1 /\ InOrder(U)[c + 1] = Len(T)
       /\ \A k \in 1 .. c : InOrder(U)[k] = InOrder(S)[k]
  BY <1>0, <1>10, <1>12, AppendProperties
<1>14. /\ Append(rows, values) \in Seq(Seq(Plain)) /\ Len(Append(rows, values)) = c + 1
       /\ Append(rows, values)[c + 1] = values
       /\ \A k \in 1 .. c : Append(rows, values)[k] = rows[k]
  BY <1>7, AppendProperties
<1> DEFINE new == ReadTable(N).rows
<1>15. ASSUME NEW k \in 1 .. c + 1 PROVE new[k] = Append(rows, values)[k]
  <2>1. new[k] = Row(N, InOrder(U)[k])
    BY <1>11, <1>13
  <2>2. CASE k = c + 1
    <3>1. new[k] = Row(N, Len(T))
      BY <1>13, <2>1, <2>2
    <3> QED BY <1>2, <1>3, <1>14, <2>2, <3>1 DEF Row
  <2>3. CASE k \in 1 .. c
    <3>1. InOrder(S)[k] \in S /\ rows[k] = Row(T, InOrder(S)[k]) /\ InOrder(U)[k] = InOrder(S)[k]
      BY <1>7, <1>13, <2>3
    <3>2. Row(N, InOrder(S)[k]) = Row(T, InOrder(S)[k])
      BY <1>3, <1>8, <3>1 DEF Row
    <3> QED BY <1>14, <2>1, <2>3, <3>1, <3>2
  <2> QED BY <1>7, <2>2, <2>3
<1>16. new = Append(rows, values)
  <2> HIDE DEF new
  <2>1. new \in Seq(Seq(Plain)) /\ Len(new) = c + 1
    BY <1>11, <1>13 DEF new
  <2> QED BY <1>14, <1>15, <2>1, SeqEqual
<1> QED BY <1>3, <1>11, <1>16 DEF Reads, N, w

\* The header alone.
LEMMA ReadLine ==
  ASSUME NEW w, IsLine(w), ParseLine(w).ok
  PROVE  EndsLine(w) /\ Reads(w, ParseLine(w).fields, <<>>)
<1>1. w \in Texts /\ Len(w) \in Nat \ {0} /\ w[Len(w)] = Newline
      /\ \A k \in 1 .. Len(w) - 1 : w[k] # Newline
  BY DEF IsLine
<1>2. RowOffsets(w) = {}
  BY <1>1 DEF RowOffsets
<1>3. LineAt(w, 0) = w
  <2> DEFINE e == Len(w)
  <2>1. e \in Nat /\ e \in 0 + 1 .. Len(w) /\ e - 0 = Len(w)
    BY <1>1
  <2>2. LineTo(w, 0, e)
    BY <1>1, <2>1 DEF LineTo
  <2>3. \A i \in 1 .. e - 0 : w[i] = w[0 + i]
    BY <1>1
  <2> HIDE DEF e
  <2> QED BY <1>1, <2>1, <2>2, <2>3, LineIs
<1>4. w # <<>>
  BY <1>1, EmptySeq
<1>5. ReadHeader(w).ok /\ ReadHeader(w).fields = ParseLine(w).fields
  BY <1>1, <1>3, <1>4, HeaderType DEF Row
<1>6. Readable(w)
  BY <1>2, <1>5 DEF Readable
<1>7. /\ ReadTable(w).ok /\ ReadTable(w).columns = ParseLine(w).fields
      /\ ReadTable(w).rows \in Seq(Seq(Plain)) /\ Len(ReadTable(w).rows) = Cardinality(RowOffsets(w))
  BY <1>1, <1>5, <1>6, ReadTableFacts
<1>8. Len(ReadTable(w).rows) = 0
  BY <1>2, <1>7, FS_EmptySet
<1>9. ReadTable(w).rows = <<>>
  BY <1>7, <1>8, EmptySeq
<1> QED BY <1>1, <1>7, <1>9 DEF EndsLine, Reads

-----------------------------------------------------------------------------
(* A copy: a header and rows written one after the other *)

LEMMA PrefixGrows ==
  ASSUME NEW A, NEW v \in Seq(A)
  PROVE  /\ SubSeq(v, 1, 0) = <<>> /\ SubSeq(v, 1, Len(v)) = v
         /\ \A i \in 0 .. Len(v) - 1 : SubSeq(v, 1, i + 1) = Append(SubSeq(v, 1, i), v[i + 1])
<1>0. Len(v) \in Nat
  BY LenProperties
<1>1. SubSeq(v, 1, 0) = <<>> /\ SubSeq(v, 1, Len(v)) = v
  BY SubSeqEmpty, SubSeqFull
<1>2. ASSUME NEW i \in 0 .. Len(v) - 1
      PROVE  SubSeq(v, 1, i + 1) = Append(SubSeq(v, 1, i), v[i + 1])
  <2>1. 1 \in 1 .. Len(v) /\ i + 1 \in 1 .. Len(v) /\ i + 1 - 1 = i /\ v[i + 1] \in A
    BY <1>0, ElementOfSeq
  <2>2. SubSeq(v, 1, i) \in Seq(A)
    BY <1>0, SubSeqFacts
  <2>3. SubSeq(v, 1, i + 1) = SubSeq(v, 1, i) \o <<v[i + 1]>>
    BY <2>1, SubSeqRecursiveSecond
  <2> QED BY <2>1, <2>2, <2>3, AppendIsConcat
<1> QED BY <1>1, <1>2

Copied(kept) == [k \in DOMAIN kept |-> WriteRow(kept[k])]

LEMMA CopiedType ==
  ASSUME NEW kept \in Seq(Seq(Plain))
  PROVE  /\ Copied(kept) \in Seq(Texts) /\ Len(Copied(kept)) = Len(kept)
         /\ \A k \in 1 .. Len(kept) : kept[k] \in Seq(Plain) /\ Copied(kept)[k] = WriteRow(kept[k])
<1>1. Len(kept) \in Nat /\ DOMAIN kept = 1 .. Len(kept)
  BY LenProperties
<1>2. \A k \in 1 .. Len(kept) : kept[k] \in Seq(Plain) /\ WriteRow(kept[k]) \in Texts
  BY ElementOfSeq, WriteRowFacts
<1>3. Copied(kept) \in [1 .. Len(kept) -> Texts]
  BY <1>1, <1>2 DEF Copied
<1>4. \A k \in 1 .. Len(kept) : Copied(kept)[k] = WriteRow(kept[k])
  BY <1>1 DEF Copied
<1> HIDE DEF Copied
<1>5. Copied(kept) \in Seq(Texts)
  BY <1>1, <1>3, SeqDef
<1> QED BY <1>1, <1>2, <1>3, <1>4, <1>5, LenProperties

\* Rows that the file of a table with these columns keeps apart.
Storable(columns, row) ==
  row \in Seq(Plain) /\ Len(row) = Len(columns) /\ (Len(columns) > 1 \/ row[1] # <<>>)

LEMMA StorableRow ==
  ASSUME NEW columns \in Seq(Plain), columns # <<>>, NEW row, Storable(columns, row)
  PROVE  row # <<>> /\ Len(WriteRow(row)) > 1
<1>1. row \in Seq(Plain) /\ Len(row) = Len(columns) /\ (Len(columns) > 1 \/ row[1] # <<>>)
  BY DEF Storable
<1>2. Len(columns) # 0 /\ Len(columns) \in Nat
  BY LenProperties, EmptySeq
<1>3. row # <<>>
  BY <1>1, <1>2, EmptySeq
<1> QED BY <1>1, <1>3, RowNotBlank

\* The file that storage_delete writes, a header and the rows it keeps, is read
\* as these columns and these rows, in their order.
THEOREM ReadCopy ==
  ASSUME NEW columns \in Seq(Plain), columns # <<>>, NEW kept \in Seq(Seq(Plain)),
         \A k \in 1 .. Len(kept) : Storable(columns, kept[k])
  PROVE  LET copy == WriteRow(columns) \o FlattenSeq(Copied(kept))
         IN  EndsLine(copy) /\ Reads(copy, columns, kept)
<1> DEFINE h == WriteRow(columns)
           n == Len(kept)
           Good(i, f) == EndsLine(h \o f[i]) /\ Reads(h \o f[i], columns, SubSeq(kept, 1, i))
<1>1. n \in Nat
  BY LenProperties
<1>2. IsLine(h) /\ ParseLine(h).ok /\ ParseLine(h).fields = columns /\ h \in Texts
  BY RowIsLine, RoundTrip DEF IsLine
<1>3. Copied(kept) \in Seq(Seq(Chars)) /\ Len(Copied(kept)) = n
  BY CopiedType DEF Texts
<1>4. PICK f : Joins(f, Copied(kept), Chars) /\ FlattenSeq(Copied(kept)) = f[n]
  BY <1>3, FlattenJoins
<1>5. f \in [0 .. n -> Texts] /\ f[0] = <<>> /\ \A i \in 0 .. n - 1 : f[i + 1] = f[i] \o Copied(kept)[i + 1]
  BY <1>3, <1>4 DEF Joins, Texts
<1>6. SubSeq(kept, 1, 0) = <<>> /\ SubSeq(kept, 1, n) = kept
  BY PrefixGrows
<1>7. \A i \in 0 .. n - 1 : SubSeq(kept, 1, i + 1) = Append(SubSeq(kept, 1, i), kept[i + 1])
  <2> TAKE i \in 0 .. n - 1
  <2> QED BY PrefixGrows
<1> HIDE DEF h, n
<1> DEFINE G == {i \in 0 .. n : Good(i, f)}
<1>8. 0 \in G
  <2>1. h \o f[0] = h
    BY <1>2, <1>5, EmptyText
  <2>2. EndsLine(h) /\ Reads(h, columns, <<>>)
    BY <1>2, ReadLine
  <2>3. Good(0, f)
    BY <1>6, <2>1, <2>2
  <2> HIDE DEF Good
  <2> QED BY <1>1, <2>3
<1>9. ASSUME NEW i \in 0 .. n - 1, i \in G PROVE i + 1 \in G
  <2> DEFINE T == h \o f[i]
             row == kept[i + 1]
             w == WriteRow(row)
             rows == SubSeq(kept, 1, i)
  <2>1. i \in 0 .. n /\ i + 1 \in 1 .. n /\ i + 1 \in 0 .. n
    BY <1>1
  <2>2. EndsLine(T) /\ Reads(T, columns, rows)
    BY <1>9
  <2>3. Storable(columns, row) /\ row \in Seq(Plain) /\ Len(row) = Len(columns)
    BY <2>1 DEF Storable, n
  <2>4. row # <<>> /\ Len(w) > 1
    BY <2>3, StorableRow
  <2>5. f[i + 1] = f[i] \o w /\ f[i] \in Texts /\ w \in Texts
    BY <1>5, <2>1, <2>3, CopiedType, WriteRowFacts DEF n
  <2>6. h \o f[i + 1] = T \o w
    <3> DEFINE a == f[i]
    <3>1. h \in Texts /\ a \in Texts /\ w \in Texts /\ f[i + 1] = a \o w
      BY <1>2, <2>5
    <3> HIDE DEF w, a, G
    <3>2. h \o (a \o w) = (h \o a) \o w
      BY <3>1, TextAssociative
    <3> QED BY <3>1, <3>2 DEF a
  <2>7. SubSeq(kept, 1, i + 1) = Append(rows, row)
    BY <1>7
  <2> HIDE DEF T, row, rows, G
  <2>8. EndsLine(T \o w) /\ Reads(T \o w, columns, Append(rows, row))
    BY <2>2, <2>3, <2>4, ReadAppended
  <2> QED BY <2>1, <2>6, <2>7, <2>8 DEF G
<1>10. n \in G
  <2> HIDE DEF G
  <2>1. \A i \in 0 .. n : i \in G
    BY <1>1, <1>8, <1>9, IntervalInduction
  <2> QED BY <1>1, <2>1
<1> QED BY <1>4, <1>6, <1>10 DEF h

-----------------------------------------------------------------------------
(* Lines that agree up to a point *)

LEMMA SameStep ==
  ASSUME NEW line, NEW other, NEW s, NEW k, NEW j, line[k] = other[j],
         line[k] = Quote /\ s.mode = "inside" => line[k + 1] = other[j + 1]
  PROVE  ParseChar(line, s, k) = ParseChar(other, s, j)
<1>1. line[k] = Quote /\ s.mode = "inside" => (line[k + 1] = Quote <=> other[j + 1] = Quote)
  OBVIOUS
<1> QED BY <1>1 DEF ParseChar

\* Two lines with the same first m characters are read alike up to the last
\* of them, where the character behind it may matter, but not for the fields.
LEMMA RunsAgree ==
  ASSUME NEW line, NEW other, NEW st, NEW su, NEW m \in Nat,
         IsRun(line, st), IsRun(other, su), Len(line) \in Nat, Len(other) \in Nat,
         m < Len(line), m < Len(other), \A k \in 1 .. m + 1 : line[k] = other[k]
  PROVE  st[m] = su[m]
<1> DEFINE G == {i \in 0 .. m : st[i] = su[i]}
<1>1. 0 \in G
  BY DEF IsRun
<1>2. ASSUME NEW i \in 0 .. m - 1, i \in G PROVE i + 1 \in G
  <2>1. i \in 0 .. Len(line) - 1 /\ i \in 0 .. Len(other) - 1
        /\ i + 1 \in 1 .. m + 1 /\ i + 1 + 1 \in 1 .. m + 1 /\ i + 1 \in 0 .. m
    OBVIOUS
  <2>2. /\ st[i + 1] = ParseChar(line, st[i], i + 1)
        /\ su[i + 1] = ParseChar(other, su[i], i + 1)
    BY <2>1 DEF IsRun, Runs
  <2>3. line[i + 1] = other[i + 1] /\ line[i + 1 + 1] = other[i + 1 + 1]
    BY <2>1
  <2>4. ParseChar(line, st[i], i + 1) = ParseChar(other, st[i], i + 1)
    BY <2>3, SameStep
  <2>5. st[i + 1] = su[i + 1]
    BY <1>2, <2>2, <2>4
  <2> QED BY <2>1, <2>5
<1>3. \A i \in 0 .. m : i \in G
  <2> HIDE DEF G
  <2> QED BY <1>1, <1>2, IntervalInduction
<1> QED BY <1>3

\* What has been read stays: fields are appended, the field is appended to, or
\* becomes the next field.
Grows(s, t) ==
  /\ Begins(s.fields, t.fields)
  /\ Len(t.fields) = Len(s.fields) => Begins(s.field, t.field)
  /\ Len(t.fields) > Len(s.fields) => Begins(s.field, t.fields[Len(s.fields) + 1])

LEMMA StateFacts ==
  ASSUME NEW C, NEW s \in States(C)
  PROVE  /\ s.fields \in Seq(Seq(C)) /\ s.field \in Seq(C)
         /\ Len(s.fields) \in Nat /\ Len(s.field) \in Nat
         /\ \A i \in 1 .. Len(s.fields) : s.fields[i] \in Seq(C) /\ Len(s.fields[i]) \in Nat
<1>1. s.fields \in Seq(Seq(C)) /\ s.field \in Seq(C)
  BY DEF States
<1>2. \A i \in 1 .. Len(s.fields) : s.fields[i] \in Seq(C)
  BY <1>1, ElementOfSeq
<1> QED BY <1>1, <1>2, LenProperties

LEMMA BeginsAppend ==
  ASSUME NEW A, NEW s \in Seq(A), NEW c
  PROVE  /\ Begins(s, s) /\ Len(s) \in Nat
         /\ Begins(s, Append(s, c)) /\ Len(Append(s, c)) = Len(s) + 1
         /\ Append(s, c)[Len(s) + 1] = c
<1>1. s \in Seq(A \cup {c}) /\ c \in A \cup {c}
  BY SeqMonotonic
<1>2. Len(s) \in Nat
  BY LenProperties
<1>3. /\ Len(Append(s, c)) = Len(s) + 1 /\ Append(s, c)[Len(s) + 1] = c
      /\ \A k \in 1 .. Len(s) : Append(s, c)[k] = s[k]
  BY <1>1, AppendProperties
<1> QED BY <1>2, <1>3 DEF Begins

LEMMA StepGrows ==
  ASSUME NEW C, NEW s \in States(C), NEW line, NEW k
  PROVE  Grows(s, ParseChar(line, s, k))
<1> DEFINE t == ParseChar(line, s, k)
<1>1. \/ t.fields = s.fields /\ t.field = s.field
      \/ t.fields = s.fields /\ t.field = Append(s.field, Quote)
      \/ t.fields = s.fields /\ t.field = Append(s.field, line[k])
      \/ t.fields = Append(s.fields, s.field)
  BY DEF ParseChar, States
<1>2. s.fields \in Seq(Seq(C)) /\ s.field \in Seq(C) /\ Len(s.fields) \in Nat
  BY StateFacts
<1> HIDE DEF t
<1>3. CASE t.fields = s.fields /\ \/ t.field = s.field \/ t.field = Append(s.field, Quote)
                                  \/ t.field = Append(s.field, line[k])
  <2>1. Begins(s.fields, t.fields) /\ Len(t.fields) = Len(s.fields)
    BY <1>2, <1>3, BeginsAppend
  <2>2. /\ Begins(s.field, s.field) /\ Begins(s.field, Append(s.field, Quote))
        /\ Begins(s.field, Append(s.field, line[k]))
    BY <1>2, BeginsAppend
  <2>3. Begins(s.field, t.field)
    BY <1>3, <2>2
  <2>4. ~(Len(t.fields) > Len(s.fields))
    BY <1>2, <2>1
  <2> QED BY <2>1, <2>3, <2>4 DEF Grows, t
<1>4. CASE t.fields = Append(s.fields, s.field)
  <2>1. /\ Begins(s.fields, t.fields) /\ Len(t.fields) = Len(s.fields) + 1
        /\ t.fields[Len(s.fields) + 1] = s.field /\ Begins(s.field, s.field)
    BY <1>2, <1>4, BeginsAppend
  <2>2. Len(t.fields) # Len(s.fields)
    BY <1>2, <2>1
  <2> QED BY <2>1, <2>2 DEF Grows, t
<1> QED BY <1>1, <1>3, <1>4

LEMMA GrowsTransitive ==
  ASSUME NEW C, NEW s \in States(C), NEW t \in States(C), NEW u \in States(C),
         Grows(s, t), Grows(t, u)
  PROVE  Grows(s, u)
<1> DEFINE a == Len(s.fields)
           b == Len(t.fields)
           c == Len(u.fields)
<1>1. a \in Nat /\ b \in Nat /\ c \in Nat /\ a <= b /\ b <= c
  BY StateFacts DEF Grows, Begins
<1>2. Begins(s.fields, u.fields)
  BY <1>1, BeginsTransitive DEF Grows
<1>3. Len(s.field) \in Nat /\ Len(t.field) \in Nat /\ Len(u.field) \in Nat
  BY StateFacts
<1>4. \A i \in 1 .. b : u.fields[i] = t.fields[i] /\ Len(t.fields[i]) \in Nat
  BY StateFacts DEF Grows, Begins
<1>5. \A i \in 1 .. c : Len(u.fields[i]) \in Nat
  BY StateFacts
<1>6. /\ b = a => Begins(s.field, t.field)
      /\ b > a => Begins(s.field, t.fields[a + 1])
      /\ c = b => Begins(t.field, u.field)
      /\ c > b => Begins(t.field, u.fields[b + 1])
  BY DEF Grows
<1> HIDE DEF a, b, c
<1>7. CASE c = a
  <2>1. Begins(s.field, t.field) /\ Begins(t.field, u.field)
    BY <1>1, <1>6, <1>7
  <2>2. Begins(s.field, u.field)
    BY <1>3, <2>1, BeginsTransitive
  <2>3. ~(c > a)
    BY <1>1, <1>7
  <2> QED BY <1>2, <2>2, <2>3 DEF Grows, a, c
<1>8. CASE c > a /\ b = a
  <2>1. Begins(s.field, t.field) /\ Begins(t.field, u.fields[a + 1]) /\ a + 1 \in 1 .. c
    BY <1>1, <1>6, <1>8
  <2>2. Begins(s.field, u.fields[a + 1])
    BY <1>3, <1>5, <2>1, BeginsTransitive
  <2>3. c # a
    BY <1>1, <1>8
  <2> QED BY <1>2, <2>2, <2>3 DEF Grows, a, c
<1>9. CASE c > a /\ b # a
  <2>1. Begins(s.field, t.fields[a + 1]) /\ a + 1 \in 1 .. b
    BY <1>1, <1>6, <1>9
  <2>2. Begins(s.field, u.fields[a + 1])
    BY <1>4, <2>1
  <2>3. c # a
    BY <1>1, <1>9
  <2> QED BY <1>2, <2>2, <2>3 DEF Grows, a, c
<1> QED BY <1>1, <1>7, <1>8, <1>9

LEMMA RunGrows ==
  ASSUME NEW C, NEW line, Len(line) \in Nat, NEW st \in [0 .. Len(line) -> States(C)],
         Runs(line, st), NEW i \in 0 .. Len(line), NEW j \in i .. Len(line)
  PROVE  Grows(st[i], st[j])
<1> DEFINE n == Len(line)
           G == {d \in 0 .. n - i : Grows(st[i], st[i + d])}
<1>0. n \in Nat /\ i \in 0 .. n /\ j \in i .. n
  OBVIOUS
<1>1. \A k \in 0 .. n : st[k] \in States(C)
  OBVIOUS
<1>2. \A k \in 0 .. n - 1 : st[k + 1] = ParseChar(line, st[k], k + 1)
  BY DEF Runs
<1> HIDE DEF n
<1>3. 0 \in G
  <2>1. st[i] \in States(C) /\ i + 0 = i /\ 0 \in 0 .. n - i
    BY <1>0, <1>1
  <2>2. Begins(st[i].fields, st[i].fields) /\ Begins(st[i].field, st[i].field) /\ Len(st[i].fields) \in Nat
    BY <2>1, StateFacts DEF Begins
  <2>3. Grows(st[i], st[i])
    BY <2>2 DEF Grows
  <2> QED BY <2>1, <2>3
<1>4. ASSUME NEW d \in 0 .. (n - i) - 1, d \in G PROVE d + 1 \in G
  <2> DEFINE m == i + d
  <2>1. m \in 0 .. n - 1 /\ m \in 0 .. n /\ m + 1 \in 0 .. n /\ m + 1 = i + (d + 1)
        /\ d + 1 \in 0 .. n - i
    BY <1>0
  <2>2. Grows(st[i], st[m])
    BY <1>4
  <2> HIDE DEF m
  <2>3. Grows(st[m], st[m + 1])
    BY <1>1, <1>2, <2>1, StepGrows
  <2>4. Grows(st[i], st[m + 1])
    BY <1>0, <1>1, <2>1, <2>2, <2>3, GrowsTransitive
  <2> QED BY <2>1, <2>4
<1>5. \A d \in 0 .. n - i : d \in G
  <2>1. n - i \in Nat
    BY <1>0
  <2> HIDE DEF G
  <2> QED BY <1>3, <1>4, <2>1, IntervalInduction
<1>6. j - i \in 0 .. n - i /\ i + (j - i) = j
  BY <1>0
<1>7. Grows(st[i], st[i + (j - i)])
  BY <1>5, <1>6
<1> QED BY <1>6, <1>7

-----------------------------------------------------------------------------
(* A line that was cut short, and a row appended to it *)

\* Read as the end of a file, the first m characters of a line give the fields
\* F and x; within the line they leave the reader there, or behind a quote that
\* the character after them turns into one of two.
LEMMA Unfinished ==
  ASSUME NEW P \in Texts, NEW m \in Nat \ {0}, Len(P) = m,
         \A k \in 1 .. m : P[k] # Newline, ParseLine(P).ok,
         NEW L, IsLine(L), m < Len(L), \A k \in 1 .. m : L[k] = P[k],
         NEW st \in [0 .. Len(L) -> States(Chars \ {Newline})], IsRun(L, st)
  PROVE  \E F \in Seq(Plain), x \in Plain :
           /\ ParseLine(P).fields = Append(F, x)
           /\ \/ st[m] = State(F, x, "outside")
              \/ st[m] = State(F, Append(x, Quote), "second") /\ L[m + 1] = Quote
<1> DEFINE W == Whole(P)
           C == Chars \ {Newline}
<1>1. /\ W[m + 1] = Newline /\ Len(W) = m + 1 /\ \A k \in 1 .. m : W[k] = P[k]
  <2>1. ~(P # <<>> /\ Last(P) = Newline)
    BY DEF Last
  <2>2. /\ Len(W) = Len(P) + 1 /\ W[Len(W)] = Newline
        /\ \A k \in 1 .. Len(P) : W[k] = P[k]
    BY <2>1, WholeProperties DEF Texts
  <2> HIDE DEF W
  <2> QED BY <2>2
<1>2. PICK su \in [0 .. Len(W) -> States(C)] :
        /\ IsRun(W, su)
        /\ ParseLine(P).ok <=> su[Len(W)].mode # "malformed"
        /\ ParseLine(P).fields = su[Len(W)].fields
  BY ParseResult
<1> HIDE DEF W, C
<1>3. su \in [0 .. m + 1 -> States(C)] /\ su[m + 1].mode # "malformed"
  BY <1>1, <1>2
<1>4. su[m].mode = "outside" /\ ParseLine(P).fields = Append(su[m].fields, su[m].field)
  BY <1>1, <1>2, <1>3, LastStep
<1> DEFINE j == m - 1
<1>5. /\ j \in Nat /\ j + 1 = m /\ j < Len(L) /\ j < Len(W) /\ Len(L) \in Nat /\ Len(W) \in Nat
      /\ j \in 0 .. m + 1 /\ m \in 0 .. m + 1 /\ j \in 0 .. Len(L) - 1 /\ j \in 0 .. Len(W) - 1
  BY <1>1 DEF IsLine
<1>6. \A k \in 1 .. j + 1 : L[k] = W[k]
  BY <1>1, <1>5
<1> HIDE DEF j
<1>7. st[j] = su[j]
  BY <1>2, <1>5, <1>6, RunsAgree
<1>8. st[m] = ParseChar(L, st[j], m) /\ su[m] = ParseChar(W, st[j], m)
  BY <1>2, <1>5, <1>7 DEF IsRun, Runs
<1>9. su[m] \in States(C) /\ su[j] \in States(C) /\ st[j] \in States(C)
  BY <1>3, <1>5, <1>7
<1>10. L[m] = W[m]
  BY <1>1
<1> DEFINE F == su[m].fields
           x == su[m].field
<1>11. F \in Seq(Plain) /\ x \in Plain
  BY <1>9 DEF States, Plain, C
<1>12. su[m] = State(F, x, "outside")
  BY <1>4, <1>9 DEF States, State
<1>13. CASE ~(L[m] = Quote /\ st[j].mode = "inside")
  <2>1. st[m] = su[m]
    BY <1>8, <1>10, <1>13, SameStep
  <2> QED BY <1>4, <1>11, <1>12, <2>1
<1>14. CASE L[m] = Quote /\ st[j].mode = "inside" /\ L[m + 1] # Quote
  <2>1. W[m + 1] # Quote
    BY <1>1, CharactersDiffer
  <2>2. st[m] = su[m]
    BY <1>8, <1>10, <1>14, <2>1 DEF ParseChar
  <2> QED BY <1>4, <1>11, <1>12, <2>2
<1>15. CASE L[m] = Quote /\ st[j].mode = "inside" /\ L[m + 1] = Quote
  <2>1. W[m + 1] # Quote
    BY <1>1, CharactersDiffer
  <2>2. st[j] = State(st[j].fields, st[j].field, "inside")
    BY <1>9, <1>15 DEF States, State
  <2>3. su[m] = State(st[j].fields, st[j].field, "outside")
    BY <1>8, <1>10, <1>15, <2>1, <2>2, Inside
  <2>4. st[m] = State(st[j].fields, Append(st[j].field, Quote), "second")
    BY <1>8, <1>15, <2>2, Inside
  <2>5. F = st[j].fields /\ x = st[j].field
    BY <2>3 DEF State
  <2> QED BY <1>4, <1>11, <1>15, <2>4, <2>5, ZenonT(30)
<1> QED BY <1>13, <1>14, <1>15

\* The fields of a line that was cut short: the last one may be shorter.
Cut(G, F) ==
  /\ Len(G) \in Nat \ {0} /\ Len(G) <= Len(F)
  /\ \A k \in 1 .. Len(G) - 1 : F[k] = G[k]
  /\ Begins(G[Len(G)], F[Len(G)])

LEMMA CutLine ==
  ASSUME NEW P \in Texts, NEW m \in Nat \ {0}, Len(P) = m, ParseLine(P).ok,
         NEW L, IsLine(L), ParseLine(L).ok, m < Len(L), \A k \in 1 .. m : L[k] = P[k]
  PROVE  Cut(ParseLine(P).fields, ParseLine(L).fields)
<1> DEFINE C == Chars \ {Newline}
           n == Len(L) - 1
<1>1. Whole(L) = L /\ n \in Nat /\ n + 1 = Len(L) /\ L[n + 1] = Newline /\ m <= n
  BY WholeLine DEF IsLine
<1>2. \A k \in 1 .. m : P[k] # Newline
  BY <1>1 DEF IsLine
<1>3. PICK st \in [0 .. Len(L) -> States(C)] :
        /\ IsRun(L, st) /\ st[Len(L)].mode # "malformed"
        /\ ParseLine(L).fields = st[Len(L)].fields
  <2>1. L \in Texts
    BY WholeLine
  <2> QED BY <1>1, <2>1, ParseResult
<1> HIDE DEF n
<1>4. PICK F \in Seq(Plain), x \in Plain :
           /\ ParseLine(P).fields = Append(F, x)
           /\ \/ st[m] = State(F, x, "outside")
              \/ st[m] = State(F, Append(x, Quote), "second") /\ L[m + 1] = Quote
  BY <1>2, <1>3, Unfinished
<1>5. st \in [0 .. n + 1 -> States(C)] /\ m \in 0 .. n + 1 /\ n \in 0 .. n + 1 /\ n + 1 \in 0 .. n + 1
  <2>1. 0 .. Len(L) = 0 .. n + 1
    BY <1>1
  <2>2. st \in [0 .. n + 1 -> States(C)]
    BY <2>1, Zenon
  <2>3. m \in 0 .. n + 1 /\ n \in 0 .. n + 1 /\ n + 1 \in 0 .. n + 1
    BY <1>1
  <2> QED BY <2>2, <2>3
<1>6. st[n + 1].fields = Append(st[n].fields, st[n].field)
  <2>1. st[n + 1].mode # "malformed"
    BY <1>1, <1>3
  <2> QED BY <1>1, <1>3, <1>5, <2>1, LastStep
<1>7. Grows(st[m], st[n]) /\ Grows(st[m], st[n + 1])
  <2>1. n \in m .. n + 1 /\ n + 1 \in m .. n + 1
    BY <1>1
  <2>2. Len(L) \in Nat /\ Runs(L, st)
    BY <1>1, <1>3 DEF IsRun
  <2> QED BY <1>1, <1>3, <1>5, <2>1, <2>2, RunGrows
<1>8. st[m].fields = F /\ Begins(x, st[m].field)
  <2>1. x \in Seq(C)
    BY DEF Plain
  <2>2. Begins(x, x) /\ Begins(x, Append(x, Quote))
    BY <2>1, BeginsAppend
  <2>3. \/ st[m].fields = F /\ st[m].field = x
        \/ st[m].fields = F /\ st[m].field = Append(x, Quote)
    BY <1>4 DEF State
  <2> QED BY <2>2, <2>3
<1>9. /\ st[m].fields \in Seq(Seq(C)) /\ Len(st[m].fields) \in Nat /\ Len(st[m].field) \in Nat
      /\ st[n].fields \in Seq(Seq(C)) /\ Len(st[n].fields) \in Nat /\ Len(st[n + 1].fields) \in Nat
      /\ \A i \in 1 .. Len(st[n + 1].fields) : Len(st[n + 1].fields[i]) \in Nat
  BY <1>5, StateFacts
<1> DEFINE a == Len(F)
           E == st[n + 1].fields
           G == Append(F, x)
<1>10. Len(E) = Len(st[n].fields) + 1 /\ a <= Len(st[n].fields) /\ a \in Nat
  <2>1. Len(E) = Len(st[n].fields) + 1
    BY <1>6, <1>9, BeginsAppend
  <2> QED BY <1>7, <1>8, <1>9, <2>1 DEF Grows, Begins
<1>11. Begins(F, E) /\ Begins(st[m].field, E[a + 1])
  <2>1. Len(E) > a
    BY <1>9, <1>10
  <2> QED BY <1>7, <1>8, <2>1 DEF Grows
<1>12. Len(G) = a + 1 /\ Begins(F, G) /\ G[a + 1] = x
  BY BeginsAppend
<1>13. Begins(x, E[a + 1])
  <2>1. a + 1 \in 1 .. Len(E)
    BY <1>9, <1>10
  <2>2. Len(x) \in Nat /\ Len(st[m].field) \in Nat /\ Len(E[a + 1]) \in Nat
    BY <1>9, <2>1, PlainFacts
  <2> QED BY <1>8, <1>11, <2>2, BeginsTransitive
<1> HIDE DEF a, E, G
<1>14. Len(G) - 1 = a /\ Len(G) \in Nat \ {0} /\ Len(G) <= Len(E)
  BY <1>9, <1>10, <1>12 DEF E
<1>15. \A k \in 1 .. a : E[k] = G[k]
  BY <1>11, <1>12 DEF Begins, a
<1>16. Cut(G, E)
  BY <1>12, <1>13, <1>14, <1>15 DEF Cut
<1> QED BY <1>1, <1>3, <1>4, <1>16 DEF G, E

\* A row appended to an unfinished line: the value at the end of the line and
\* the first value of the row become one field.
LEMMA GlueLine ==
  ASSUME NEW P \in Texts, NEW m \in Nat \ {0}, Len(P) = m,
         \A k \in 1 .. m : P[k] # Newline, ParseLine(P).ok,
         NEW values \in Seq(Plain), values # <<>>, NEW w, w = WriteRow(values),
         NEW L, IsLine(L), Len(L) = m + Len(w), Occurs(w, L, m), \A k \in 1 .. m : L[k] = P[k]
  PROVE  Len(ParseLine(L).fields) = (Len(ParseLine(P).fields) - 1) + Len(values)
<1> DEFINE C == Chars \ {Newline}
           l == Len(w)
<1>1. Whole(L) = L /\ L \in Texts /\ Len(L) \in Nat
  BY WholeLine
<1>2. IsLine(w) /\ w \in Texts /\ l \in Nat \ {0}
  BY RowIsLine DEF IsLine
<1>3. PICK st \in [0 .. Len(L) -> States(C)] :
        IsRun(L, st) /\ ParseLine(L).fields = st[Len(L)].fields
  BY <1>1, ParseResult
<1>4. m < Len(L)
  BY <1>2
<1>5. PICK F \in Seq(Plain), x \in Plain :
           /\ ParseLine(P).fields = Append(F, x)
           /\ \/ st[m] = State(F, x, "outside")
              \/ st[m] = State(F, Append(x, Quote), "second") /\ L[m + 1] = Quote
  BY <1>3, <1>4, Unfinished, ZenonT(30)
<1>6. F \in Seq(Texts) /\ x \in Texts /\ Append(x, Quote) \in Texts
  <2>1. F \in Seq(Texts)
    <3>1. Plain \subseteq Texts
      BY PlainFacts
    <3> QED BY <3>1, SeqMonotonic
  <2>2. x \in Texts /\ Quote \in Chars
    BY PlainFacts, CharsHold
  <2>3. Append(x, Quote) \in Texts
    BY <2>2, AppendProperties DEF Texts
  <2> QED BY <2>1, <2>2, <2>3
<1> HIDE DEF C, l
<1>7. PICK y \in Texts : st[m + l] = State(F \o Glued(y, values), <<>>, "outside")
  <2>1. CASE st[m] = State(F, x, "outside")
    <3>1. Runs(L, st) /\ m \in Nat
      BY <1>3 DEF IsRun
    <3>2. st[m + Len(w)] = State(F \o Glued(x, values), <<>>, "outside")
      BY <1>1, <1>6, <2>1, <3>1, RowRun
    <3> QED BY <1>6, <3>2 DEF l
  <2>2. CASE st[m] = State(F, Append(x, Quote), "second") /\ L[m + 1] = Quote
    <3> DEFINE y == Append(x, Quote)
               su == [i \in 0 .. l |-> IF i = 0 THEN State(F, y, "outside") ELSE st[m + i]]
    <3>1. \A i \in 1 .. l : L[m + i] = w[i]
      BY DEF Occurs, l
    <3>2. \A i \in 0 .. l - 1 : st[m + i + 1] = ParseChar(L, st[m + i], m + i + 1)
      BY <1>2, <1>3 DEF IsRun, Runs, l
    <3>3. su[0] = State(F, y, "outside") /\ \A i \in 1 .. l : su[i] = st[m + i]
      BY <1>2
    <3> HIDE DEF su
    <3>4. su[0 + 1] = ParseChar(w, su[0], 0 + 1)
      <4>1. w[1] = Quote /\ 1 \in 1 .. l /\ 0 \in 0 .. l - 1
        BY <1>2, <2>2, <3>1
      <4>2. ParseChar(w, State(F, y, "outside"), 1) = State(F, y, "inside")
        BY <4>1, Outside
      <4>3. st[m + 1] = ParseChar(L, st[m], m + 1)
        BY <3>2, <4>1
      <4>4. st[m + 1] = State(F, y, "inside")
        BY <2>2, <4>3, Second
      <4> QED BY <3>3, <4>1, <4>2, <4>4
    <3>5. ASSUME NEW i \in 1 .. l - 1 PROVE su[i + 1] = ParseChar(w, su[i], i + 1)
      <4>1. i \in 1 .. l /\ i + 1 \in 1 .. l /\ m + (i + 1) = m + i + 1 /\ i \in 0 .. l - 1
        BY <1>2
      <4>2. su[i + 1] = ParseChar(L, su[i], m + i + 1) /\ L[m + i + 1] = w[i + 1]
        BY <3>1, <3>2, <3>3, <4>1
      <4>3. CASE i + 1 = l
        <5>1. w[i + 1] = Newline
          BY <1>2, <4>3 DEF IsLine, l
        <5>2. L[m + i + 1] # Quote
          BY <4>2, <5>1, CharactersDiffer
        <5> DEFINE k == m + i + 1
                   j == i + 1
        <5> HIDE DEF k, j
        <5>3. L[k] = w[j] /\ L[k] # Quote
          BY <4>2, <5>2 DEF k, j
        <5>4. ParseChar(L, su[i], k) = ParseChar(w, su[i], j)
          BY <5>3, SameStep
        <5> QED BY <4>2, <5>4 DEF k, j
      <4>4. CASE i + 1 # l
        <5>1. i + 1 + 1 \in 1 .. l /\ m + (i + 1 + 1) = m + i + 1 + 1
          BY <1>2, <4>4
        <5>2. L[m + i + 1 + 1] = w[i + 1 + 1]
          BY <3>1, <5>1
        <5> DEFINE k == m + i + 1
                   j == i + 1
        <5> HIDE DEF k, j
        <5>3. L[k] = w[j] /\ L[k + 1] = w[j + 1]
          BY <4>2, <5>2 DEF k, j
        <5>4. ParseChar(L, su[i], k) = ParseChar(w, su[i], j)
          BY <5>3, SameStep
        <5> QED BY <4>2, <5>4 DEF k, j
      <4> QED BY <4>3, <4>4
    <3>6. Runs(w, su)
      <4>1. ASSUME NEW i \in 0 .. l - 1 PROVE su[i + 1] = ParseChar(w, su[i], i + 1)
        <5>1. i = 0 \/ i \in 1 .. l - 1
          BY <1>2
        <5> QED BY <3>4, <3>5, <5>1
      <4> QED BY <4>1 DEF Runs, l
    <3>7. Occurs(w, w, 0)
      BY <1>2 DEF Occurs, l
    <3>8. su[0 + Len(w)] = State(F \o Glued(y, values), <<>>, "outside")
      <4> HIDE DEF y
      <4>1. 0 \in Nat /\ y \in Texts
        BY <1>6 DEF y
      <4> QED BY <1>2, <1>6, <3>3, <3>6, <3>7, <4>1, RowRun
    <3>9. 0 + Len(w) = l /\ l \in 1 .. l
      BY <1>2 DEF l
    <3>10. st[m + l] = State(F \o Glued(y, values), <<>>, "outside")
      BY <3>3, <3>8, <3>9
    <3> QED BY <1>6, <3>10
  <2> QED BY <1>5, <2>1, <2>2
<1>8. ParseLine(L).fields = F \o Glued(y, values)
  BY <1>3, <1>7 DEF State, l
<1>9. Glued(y, values) \in Seq(Texts) /\ Len(Glued(y, values)) = Len(values)
  BY GluedFacts
<1>10. Len(F \o Glued(y, values)) = Len(F) + Len(values) /\ Len(F) \in Nat
  <2> DEFINE H == Glued(y, values)
  <2> HIDE DEF H
  <2>1. H \in Seq(Texts) /\ Len(H) = Len(values)
    BY <1>9 DEF H
  <2>2. Len(F \o H) = Len(F) + Len(H) /\ Len(F) \in Nat
    BY <1>6, <2>1, ConcatFacts
  <2> QED BY <2>1, <2>2 DEF H
<1>11. Len(Append(F, x)) = Len(F) + 1
  BY BeginsAppend
<1> QED BY <1>5, <1>8, <1>10, <1>11

LEMMA SomeField ==
  ASSUME NEW line \in Texts, ParseLine(line).ok
  PROVE  Len(ParseLine(line).fields) \in Nat \ {0}
<1> DEFINE W == Whole(line)
           c == Len(W) - 1
           C == Chars \ {Newline}
<1>1. Len(W) \in Nat \ {0} /\ W[Len(W)] = Newline
  BY WholeProperties DEF Texts
<1>2. PICK st \in [0 .. Len(W) -> States(C)] :
        /\ IsRun(W, st) /\ st[Len(W)].mode # "malformed"
        /\ ParseLine(line).fields = st[Len(W)].fields
  BY ParseResult
<1> HIDE DEF W, C
<1>3. /\ c \in Nat /\ c + 1 = Len(W) /\ 0 .. Len(W) = 0 .. c + 1 /\ c \in 0 .. c + 1
      /\ W[c + 1] = Newline
  BY <1>1
<1> HIDE DEF c
<1>4. st \in [0 .. c + 1 -> States(C)]
  BY <1>3, Zenon
<1>5. st[c + 1].mode # "malformed" /\ ParseLine(line).fields = st[c + 1].fields
  BY <1>2, <1>3
<1>6. ParseLine(line).fields = Append(st[c].fields, st[c].field)
  BY <1>2, <1>3, <1>4, <1>5, LastStep
<1>7. st[c].fields \in Seq(Seq(C)) /\ Len(st[c].fields) \in Nat
  BY <1>3, <1>4, StateFacts
<1> QED BY <1>6, <1>7, BeginsAppend

\* The rest of a text's line, up to a newline.
LEMMA WholeLineAt ==
  ASSUME NEW text \in Texts, NEW o \in Nat, NEW e \in Nat, LineTo(text, o, e), text[e] = Newline
  PROVE  IsLine(LineAt(text, o)) /\ Len(LineAt(text, o)) = e - o
<1> DEFINE L == LineAt(text, o)
<1>1. /\ L \in Texts /\ Len(L) = e - o /\ \A i \in 1 .. e - o : L[i] = text[o + i]
  BY LineAtIs
<1>2. e \in o + 1 .. Len(text) /\ \A k \in o + 1 .. e - 1 : text[k] # Newline
  BY DEF LineTo
<1> HIDE DEF L
<1>3. e - o \in Nat \ {0} /\ e - o \in 1 .. e - o /\ o + (e - o) = e
  BY <1>2
<1>4. L[e - o] = Newline
  BY <1>1, <1>3
<1>5. ASSUME NEW k \in 1 .. (e - o) - 1 PROVE L[k] # Newline
  <2>1. k \in 1 .. e - o /\ o + k \in o + 1 .. e - 1
    BY <1>2
  <2> QED BY <1>1, <1>2, <2>1
<1> QED BY <1>1, <1>3, <1>4, <1>5 DEF IsLine, L

\* A text cut short has the lines of the whole text, the last one cut short.
LEMMA CutText ==
  ASSUME NEW T, EndsLine(T), ReadTable(T).ok, NEW P \in Texts, Begins(P, T), ReadTable(P).ok,
         NEW o \in RowOffsets(P), NEW n, n = Len(ReadTable(T).columns)
  PROVE  /\ o \in RowOffsets(T) /\ ReadTable(P).columns = ReadTable(T).columns
         /\ Len(Row(T, o)) = n /\ Len(Row(P, o)) = n /\ n \in Nat \ {0}
         /\ \A k \in 1 .. n - 1 : Row(P, o)[k] = Row(T, o)[k]
         /\ Begins(Row(P, o)[n], Row(T, o)[n])
<1>1. /\ T \in Texts /\ Len(T) \in Nat /\ Len(P) \in Nat /\ T[Len(T)] = Newline /\ Len(P) <= Len(T)
      /\ \A k \in 1 .. Len(P) : T[k] = P[k]
  BY OffsetsFacts DEF EndsLine, Begins
<1>2. /\ o \in Nat \ {0} /\ o < Len(P) /\ o \in 1 .. Len(P) - 1 /\ P[o] = Newline /\ P[o + 1] # Newline
  BY <1>1 DEF RowOffsets
<1>3. o \in RowOffsets(T) /\ o \in 1 .. Len(P)
  <2>1. o \in 1 .. Len(T) - 1 /\ o \in 1 .. Len(P) /\ o + 1 \in 1 .. Len(P)
    BY <1>1, <1>2
  <2>2. T[o] = Newline /\ T[o + 1] # Newline
    BY <1>1, <1>2, <2>1
  <2> QED BY <2>1, <2>2 DEF RowOffsets
<1>4. ReadHeader(T).fields = ReadHeader(P).fields
  BY <1>1, <1>2, <1>3, HeaderStays
<1>5. /\ ReadTable(P).columns = ReadHeader(P).fields /\ ReadTable(T).columns = ReadHeader(T).fields
      /\ Readable(P) /\ Readable(T)
  BY <1>1, ReadTableFacts
<1>6. ReadTable(P).columns = ReadTable(T).columns /\ n = Len(ReadHeader(P).fields)
  BY <1>4, <1>5
<1>7. /\ RowParses(LineAt(P, o), n) /\ RowParses(LineAt(T, o), n)
  BY <1>3, <1>4, <1>5, <1>6 DEF Readable
<1>8. /\ ParseLine(LineAt(P, o)).ok /\ ParseLine(LineAt(T, o)).ok
      /\ Len(Row(P, o)) = n /\ Len(Row(T, o)) = n
  BY <1>7 DEF RowParses, Row
<1>9. PICK e \in Nat : LineTo(P, o, e)
  BY <1>2, LineEnds
<1>10. Cut(Row(P, o), Row(T, o))
  <2>0. PICK E \in Nat : LineTo(T, o, E)
    <3>1. o < Len(T)
      BY <1>1, <1>2
    <3> QED BY <1>1, <1>2, <3>1, LineEnds
  <2>1. T[E] = Newline /\ E \in o + 1 .. Len(T)
    BY <1>1, <2>0 DEF LineTo
  <2>2. /\ e \in o + 1 .. Len(P) /\ (P[e] = Newline \/ e = Len(P))
        /\ \A k \in o + 1 .. e - 1 : P[k] # Newline
    BY <1>9 DEF LineTo
  <2>3. IsLine(LineAt(T, o)) /\ Len(LineAt(T, o)) = E - o
    BY <1>1, <1>2, <2>0, <2>1, WholeLineAt
  <2>4. CASE P[e] = Newline
    <3>1. LineAt(T, o) = LineAt(P, o)
      BY <1>1, <1>2, <2>2, <2>4, LineStays
    <3>2. Row(P, o) = Row(T, o)
      BY <3>1 DEF Row
    <3>3. Row(T, o) \in Seq(Plain) /\ Len(Row(T, o)) \in Nat \ {0}
      BY <1>8, <2>3, FieldsType, SomeField DEF Row, IsLine
    <3>11. Begins(Row(T, o)[Len(Row(T, o))], Row(T, o)[Len(Row(T, o))])
      <4>1. Row(T, o)[Len(Row(T, o))] \in Plain
        BY <3>3, ElementOfSeq
      <4>2. Len(Row(T, o)[Len(Row(T, o))]) \in Nat
        BY <4>1, PlainFacts
      <4> QED BY <4>2 DEF Begins
    <3> QED BY <3>2, <3>3, <3>11 DEF Cut
  <2>5. CASE P[e] # Newline
    <3>1. e = Len(P) /\ \A k \in o + 1 .. e : P[k] # Newline
      BY <2>2, <2>5
    <3>2. e < E
      <4>1. ASSUME E \in o + 1 .. e PROVE FALSE
        <5>1. E \in 1 .. Len(P) /\ P[E] # Newline
          BY <1>1, <1>2, <3>1, <4>1
        <5> QED BY <1>1, <2>1, <5>1
      <4> QED BY <1>2, <2>1, <4>1
    <3> DEFINE Q == LineAt(P, o)
               L == LineAt(T, o)
               m == e - o
    <3>3. Q \in Texts /\ Len(Q) = m /\ \A i \in 1 .. m : Q[i] = P[o + i]
      BY <1>2, <1>9, LineAtIs
    <3>4. \A i \in 1 .. E - o : L[i] = T[o + i]
      BY <1>1, <1>2, <2>0, LineAtIs
    <3> HIDE DEF Q, L
    <3>5. m \in Nat \ {0} /\ m < Len(L)
      <4>1. Len(L) = E - o
        BY <2>3 DEF L
      <4> QED BY <1>2, <2>2, <3>2, <4>1
    <3>6. ASSUME NEW i \in 1 .. m PROVE L[i] = Q[i]
      <4>1. i \in 1 .. E - o /\ o + i \in 1 .. Len(P)
        BY <1>1, <1>2, <2>2, <3>1, <3>2
      <4> QED BY <1>1, <3>3, <3>4, <4>1
    <3> HIDE DEF m
    <3>7. IsLine(L) /\ ParseLine(L).ok /\ ParseLine(Q).ok
      BY <1>8, <2>3 DEF L, Q
    <3>8. Cut(ParseLine(Q).fields, ParseLine(L).fields)
      BY <3>3, <3>5, <3>6, <3>7, CutLine
    <3> QED BY <3>8 DEF Row, Q, L
  <2> QED BY <2>4, <2>5
<1> QED BY <1>3, <1>6, <1>8, <1>10 DEF Cut

\* A text that does not end in a newline: there is none, or a last one.
LEMMA LastNewline ==
  ASSUME NEW T \in Texts, \E k \in 1 .. Len(T) : T[k] = Newline
  PROVE  \E j \in 1 .. Len(T) : T[j] = Newline /\ \A k \in j + 1 .. Len(T) : T[k] # Newline
<1> DEFINE n == Len(T)
           D == {d \in 0 .. n - 1 : T[n - d] = Newline}
<1>1. n \in Nat
  BY LenProperties DEF Texts
<1>2. PICK i \in 1 .. n : T[i] = Newline
  OBVIOUS
<1> HIDE DEF n
<1>3. n - i \in D
  <2>1. n - i \in 0 .. n - 1 /\ n - (n - i) = i
    BY <1>1
  <2> QED BY <1>2, <2>1
<1>4. PICK d \in D : \A k \in D : d <= k
  <2>1. D \subseteq Nat /\ D # {}
    <3>1. 0 .. n - 1 \subseteq Nat
      BY <1>1
    <3>2. D \subseteq 0 .. n - 1
      OBVIOUS
    <3> QED BY <1>3, <3>1, <3>2, Zenon
  <2> HIDE DEF D
  <2> QED BY <2>1, LeastExists
<1>5. d \in 0 .. n - 1 /\ T[n - d] = Newline
  OBVIOUS
<1>6. ASSUME NEW k \in (n - d) + 1 .. n, T[k] = Newline PROVE FALSE
  <2>1. n - k \in 0 .. n - 1 /\ n - (n - k) = k /\ ~(d <= n - k)
    BY <1>1, <1>5
  <2>2. n - k \in D
    BY <1>6, <2>1
  <2> QED BY <1>4, <2>1, <2>2
<1>7. n - d \in 1 .. n
  BY <1>1, <1>5
<1> QED BY <1>5, <1>6, <1>7 DEF n

\* A row appended to a text whose last line is unfinished: the last line, with
\* the row behind it, has a field less than the two together.
Unended(T, j) ==
  /\ j \in 1 .. Len(T) - 1 /\ T[j] = Newline
  /\ \A k \in j + 1 .. Len(T) : T[k] # Newline

Appended(T, values) == T \o WriteRow(values)

LEMMA GlueText ==
  ASSUME NEW T \in Texts, NEW j, Unended(T, j), ParseLine(LineAt(T, j)).ok,
         NEW values \in Seq(Plain), values # <<>>, NEW N, N = Appended(T, values)
  PROVE  /\ N \in Texts /\ Begins(T, N) /\ EndsLine(N) /\ j \in RowOffsets(T) /\ j \in RowOffsets(N)
         /\ Len(Row(N, j)) = (Len(Row(T, j)) - 1) + Len(values)
<1> DEFINE w == WriteRow(values)
           g == Len(T) - j
           L == LineAt(N, j)
           P == LineAt(T, j)
<1>1. IsLine(w) /\ w \in Texts /\ Len(w) \in Nat \ {0} /\ w[Len(w)] = Newline
  BY RowIsLine DEF IsLine
<1> HIDE DEF w
<1>2. /\ N \in Texts /\ Len(T) \in Nat /\ Len(N) = Len(T) + Len(w) /\ Begins(T, N)
      /\ \A k \in 1 .. Len(T) : N[k] = T[k]
      /\ \A k \in 1 .. Len(w) : N[Len(T) + k] = w[k]
  BY <1>1, TextConcat DEF w, Appended
<1>3. EndsLine(N)
  <2>1. Len(N) \in Nat \ {0} /\ Len(w) \in 1 .. Len(w) /\ Len(T) + Len(w) = Len(N)
    BY <1>1, <1>2
  <2>2. N[Len(N)] = Newline
    BY <1>1, <1>2, <2>1
  <2> QED BY <1>2, <2>1, <2>2 DEF EndsLine
<1>4. /\ j \in Nat /\ j < Len(T) /\ g \in Nat \ {0} /\ g + j = Len(T)
      /\ j \in 1 .. Len(T) - 1 /\ T[j] = Newline
  BY <1>2 DEF Unended
<1> HIDE DEF g, L, P
<1>0. \A k \in j + 1 .. Len(T) : T[k] # Newline
  BY DEF Unended
<1>5. j \in RowOffsets(T) /\ j \in RowOffsets(N)
  <2>1. j \in 1 .. Len(T) /\ j + 1 \in 1 .. Len(T) /\ j + 1 \in j + 1 .. Len(T) /\ j \in 1 .. Len(N) - 1
    <3> DEFINE n == Len(T)
               l == Len(w)
               c == Len(N)
    <3>1. n \in Nat /\ l \in Nat \ {0} /\ c = n + l /\ j \in Nat /\ j \in 1 .. n - 1
      BY <1>1, <1>2, <1>4
    <3> HIDE DEF n, l, c
    <3>2. j \in 1 .. n /\ j + 1 \in 1 .. n /\ j + 1 \in j + 1 .. n /\ j \in 1 .. c - 1
      BY <3>1
    <3> QED BY <3>2 DEF n, c
  <2>2. T[j + 1] # Newline /\ N[j] = Newline /\ N[j + 1] # Newline
    BY <1>0, <1>2, <1>4, <2>1
  <2> QED BY <1>4, <2>1, <2>2 DEF RowOffsets
<1>6. /\ IsLine(L) /\ Len(L) = g + Len(w) /\ Occurs(w, L, g)
      /\ \A i \in 1 .. g : L[i] = T[j + i]
  <2>1. N = T \o w
    BY DEF w, Appended
  <2>2. LET M == LineAt(T \o w, j) IN
        /\ IsLine(M) /\ Len(M) = g + Len(w) /\ Occurs(w, M, g)
        /\ \A i \in 1 .. g : M[i] = T[j + i]
    <3>1. g \in Nat /\ j \in Nat /\ g + j = Len(T)
      BY <1>4
    <3> QED BY <1>0, <1>1, <3>1, LineGlued, ZenonT(30)
  <2> QED BY <2>1, <2>2 DEF L
<1>7. LineTo(T, j, Len(T))
  <2> DEFINE n == Len(T)
  <2>1. n \in Nat /\ j \in Nat /\ j < n
    BY <1>2, <1>4
  <2> HIDE DEF n
  <2>2. n \in j + 1 .. n /\ \A k \in j + 1 .. n - 1 : k \in j + 1 .. n
    BY <2>1
  <2> QED BY <1>0, <2>2 DEF LineTo, n
<1>8. P \in Texts /\ Len(P) = g /\ \A i \in 1 .. g : P[i] = T[j + i]
  <2>1. Len(T) - j = g
    BY DEF g
  <2> QED BY <1>2, <1>4, <1>7, <2>1, LineAtIs DEF P
<1>9. ASSUME NEW k \in 1 .. g PROVE P[k] # Newline /\ L[k] = P[k]
  <2>1. j + k \in j + 1 .. Len(T)
    BY <1>4
  <2> QED BY <1>0, <1>6, <1>8, <2>1
<1>10. ParseLine(P).ok
  BY DEF P
<1>11. Len(ParseLine(L).fields) = (Len(ParseLine(P).fields) - 1) + Len(values)
  <2>1. /\ w = WriteRow(values) /\ \A k \in 1 .. g : P[k] # Newline
        /\ \A k \in 1 .. g : L[k] = P[k]
    BY <1>9 DEF w
  <2>2. g \in Nat \ {0} /\ P \in Texts /\ Len(P) = g /\ Len(L) = g + Len(w)
    BY <1>4, <1>6, <1>8
  <2>3. IsLine(L) /\ Occurs(w, L, g)
    BY <1>6
  <2>4. \A k \in 1 .. g : P[k] # Newline
    BY <2>1
  <2>5. w = WriteRow(values)
    BY <2>1
  <2>6. \A k \in 1 .. g : L[k] = P[k]
    BY <2>1
  <2> QED BY <1>10, <2>2, <2>3, <2>4, <2>5, <2>6, GlueLine, SMTT(30)
<1> QED BY <1>2, <1>3, <1>5, <1>11 DEF L, P, Row

\* A row appended to a text of one unfinished line makes no row.
LEMMA GlueHeader ==
  ASSUME NEW T \in Texts, \A k \in 1 .. Len(T) : T[k] # Newline, NEW w, IsLine(w)
  PROVE  T \o w \in Texts /\ RowOffsets(T \o w) = {}
<1> DEFINE N == T \o w
<1>1. w \in Texts /\ Len(w) \in Nat \ {0} /\ \A k \in 1 .. Len(w) - 1 : w[k] # Newline
  BY DEF IsLine
<1>2. /\ N \in Texts /\ Len(T) \in Nat /\ Len(N) = Len(T) + Len(w)
      /\ \A k \in 1 .. Len(T) : N[k] = T[k]
      /\ \A k \in 1 .. Len(w) : N[Len(T) + k] = w[k]
  BY <1>1, TextConcat
<1> HIDE DEF N
<1>3. ASSUME NEW k \in 1 .. Len(N) - 1 PROVE N[k] # Newline
  <2>1. CASE k <= Len(T)
    BY <1>2, <2>1
  <2>2. CASE k > Len(T)
    <3> DEFINE i == k - Len(T)
    <3>1. i \in 1 .. Len(w) - 1 /\ i \in 1 .. Len(w) /\ Len(T) + i = k
      BY <1>1, <1>2, <2>2
    <3> HIDE DEF i
    <3>2. N[Len(T) + i] = w[i] /\ w[i] # Newline
      BY <1>1, <1>2, <3>1
    <3> QED BY <3>1, <3>2
  <2> QED BY <1>2, <2>1, <2>2
<1>4. RowOffsets(N) = {}
  BY <1>3 DEF RowOffsets
<1> QED BY <1>2, <1>4 DEF N

\* The header of a text that begins with a row.
LEMMA HeaderWritten ==
  ASSUME NEW columns \in Seq(Plain), columns # <<>>, NEW t \in Texts
  PROVE  /\ WriteRow(columns) \o t \in Texts
         /\ ReadHeader(WriteRow(columns) \o t).ok
         /\ ReadHeader(WriteRow(columns) \o t).fields = columns
<1> DEFINE h == WriteRow(columns)
<1>1. IsLine(h) /\ h \in Texts /\ Len(h) \in Nat \ {0} /\ h[Len(h)] = Newline
  BY RowIsLine DEF IsLine
<1>2. ParseLine(h).ok /\ ParseLine(h).fields = columns
  BY RoundTrip
<1>3. Reads(h, ParseLine(h).fields, <<>>)
  BY <1>1, <1>2, ReadLine
<1>4. ReadTable(h).ok /\ ReadTable(h).columns = columns
  BY <1>2, <1>3 DEF Reads
<1> HIDE DEF h
<1>5. ReadHeader(h).fields = columns /\ ReadHeader(h).ok
  BY <1>1, <1>4, ReadTableFacts DEF Readable
<1>6. h \o t \in Texts /\ Begins(h, h \o t)
  BY <1>1, TextConcat
<1>7. Len(h) \in 1 .. Len(h)
  BY <1>1
<1>8. ReadHeader(h \o t).fields = ReadHeader(h).fields /\ (ReadHeader(h \o t).ok <=> ReadHeader(h).ok)
  BY <1>1, <1>6, <1>7, HeaderStays
<1> QED BY <1>5, <1>6, <1>8 DEF h

-----------------------------------------------------------------------------
(* Numbers: what utils_parse_integer makes of a text of digits, and what
   snprintf prints *)

LEMMA StrongInduction ==
  ASSUME NEW n \in Nat, NEW S, \A m \in 0 .. n : (\A k \in 0 .. m - 1 : k \in S) => m \in S
  PROVE  \A m \in 0 .. n : m \in S
<1> DEFINE T == {m \in 0 .. n : m \notin S}
<1> SUFFICES ASSUME T # {} PROVE FALSE
  OBVIOUS
<1>1. T \subseteq Nat
  OBVIOUS
<1>2. PICK m \in T : \A k \in T : m <= k
  BY <1>1, LeastExists
<1>3. \A k \in 0 .. m - 1 : k \in S
  BY <1>2
<1> QED BY <1>2, <1>3

LEMMA CharacterList ==
  /\ DOMAIN Characters = 1 .. 22
  /\ Characters[1] = Newline /\ Characters[2] = Quote /\ Characters[3] = "+"
  /\ Characters[4] = Comma /\ Characters[5] = "-" /\ Characters[6] = "0" /\ Characters[7] = "1"
  /\ Characters[8] = "2" /\ Characters[9] = "3" /\ Characters[10] = "4" /\ Characters[11] = "5"
  /\ Characters[12] = "6" /\ Characters[13] = "7" /\ Characters[14] = "8" /\ Characters[15] = "9"
  /\ Characters[16] = "a" /\ Characters[17] = "b" /\ Characters[18] = "d" /\ Characters[19] = "e"
  /\ Characters[20] = "i" /\ Characters[21] = "m" /\ Characters[22] = "n"
  BY DEF Characters

LEMMA CodeOfDigit ==
  ASSUME NEW j \in 6 .. 15
  PROVE  Code(Characters[j]) = j
<1>1. \A k \in 1 .. 22 :
        k = 1 \/ k = 2 \/ k = 3 \/ k = 4 \/ k = 5 \/ k = 6 \/ k = 7 \/ k = 8 \/ k = 9 \/ k = 10
        \/ k = 11 \/ k = 12 \/ k = 13 \/ k = 14 \/ k = 15 \/ k = 16 \/ k = 17 \/ k = 18
        \/ k = 19 \/ k = 20 \/ k = 21 \/ k = 22
  OBVIOUS
<1>2. \A c \in {"0", "1", "2", "3", "4", "5", "6", "7", "8", "9"} :
        c # Newline /\ c # Quote /\ c # Comma
  BY DEF Newline, Quote, Comma
<1>3. ASSUME NEW k \in 1 .. 22, Characters[k] = Characters[j] PROVE k = j
  BY <1>1, <1>2, <1>3, CharacterList
<1> QED BY <1>3, CharacterList DEF Code

\* The digits and their codes.
DigitChars == ToSet(Digits)
DigitTexts == Seq(DigitChars)

LEMMA DigitFacts ==
  ASSUME NEW d \in 0 .. 9
  PROVE  /\ Digits[d + 1] \in DigitChars /\ Digits[d + 1] \in Chars \ {Newline}
         /\ Code(Digits[d + 1]) - Code("0") = d
         /\ Digits[d + 1] \notin {"-", "+"}
<1>1. /\ DOMAIN Digits = 1 .. 10
      /\ Digits[1] = "0" /\ Digits[2] = "1" /\ Digits[3] = "2" /\ Digits[4] = "3" /\ Digits[5] = "4"
      /\ Digits[6] = "5" /\ Digits[7] = "6" /\ Digits[8] = "7" /\ Digits[9] = "8" /\ Digits[10] = "9"
  BY DEF Digits
<1>2. d = 0 \/ d = 1 \/ d = 2 \/ d = 3 \/ d = 4 \/ d = 5 \/ d = 6 \/ d = 7 \/ d = 8 \/ d = 9
  OBVIOUS
<1>3. Digits[d + 1] = Characters[d + 6] /\ Characters[6] = "0"
  BY <1>1, <1>2, CharacterList
<1>4. d + 6 \in 6 .. 15 /\ 6 \in 6 .. 15 /\ d + 6 \in 1 .. 22 /\ d + 1 \in 1 .. 10
  OBVIOUS
<1>5. Code(Characters[d + 6]) = d + 6 /\ Code(Characters[6]) = 6
  BY <1>4, CodeOfDigit
<1>6. Digits[d + 1] # Newline /\ Digits[d + 1] \notin {"-", "+"}
  BY <1>1, <1>2 DEF Newline
<1>7. Digits[d + 1] \in DigitChars
  BY <1>1, <1>4 DEF DigitChars, ToSet
<1>8. Digits[d + 1] \in Chars
  BY <1>3, <1>4, CharacterList DEF Chars, ToSet
<1> QED BY <1>3, <1>5, <1>6, <1>7, <1>8

LEMMA DigitOf ==
  ASSUME NEW c \in DigitChars
  PROVE  \E d \in 0 .. 9 : c = Digits[d + 1]
<1>1. DOMAIN Digits = 1 .. 10
  BY DEF Digits
<1>2. PICK k \in 1 .. 10 : c = Digits[k]
  BY <1>1 DEF DigitChars, ToSet
<1>3. k - 1 \in 0 .. 9 /\ (k - 1) + 1 = k
  OBVIOUS
<1> QED BY <1>2, <1>3

LEMMA CodeType ==
  ASSUME NEW c \in DigitChars
  PROVE  Code(c) - Code("0") \in 0 .. 9
  BY DigitOf, DigitFacts

LEMMA DigitTextFacts ==
  ASSUME NEW u \in DigitTexts
  PROVE  u \in Plain /\ Len(u) \in Nat /\ \A k \in 1 .. Len(u) : u[k] \in DigitChars
<1>1. DigitChars \subseteq Chars \ {Newline}
  BY DigitOf, DigitFacts
<1>2. u \in Seq(Chars \ {Newline})
  BY <1>1, SeqMonotonic DEF DigitTexts
<1> QED BY <1>2, LenProperties, ElementOfSeq DEF DigitTexts, Plain

\* The value of every beginning of u.
Numbers(g, u) ==
  /\ g \in [0 .. Len(u) -> Int] /\ g[0] = 0
  /\ \A k \in 0 .. Len(u) - 1 : g[k + 1] = 10 * g[k] + (Code(u[k + 1]) - Code("0"))

LEMMA ParseIntegerIs ==
  ASSUME NEW v, NEW u \in DigitTexts, Unsigned(v) = u
  PROVE  \E g : /\ Numbers(g, u)
                /\ ParseInteger(v) = (IF Head(v) = "-" THEN -1 ELSE 1) * g[Len(u)]
<1> DEFINE n == Len(u)
           Digit(k) == Code(u[k]) - Code("0")
           Body(f) == [k \in 0 .. n |-> IF k = 0 THEN 0 ELSE 10 * f[k - 1] + Digit(k)]
           st == CHOOSE f : f = Body(f)
<1>1. n \in Nat /\ \A k \in 1 .. n : Digit(k) \in Int
  <2>1. n \in Nat /\ \A k \in 1 .. n : u[k] \in DigitChars
    BY DigitTextFacts
  <2> QED BY <2>1, CodeType
<1>4. ParseInteger(v) = (IF Head(v) = "-" THEN -1 ELSE 1) * st[n]
  BY DEF ParseInteger
<1> HIDE DEF Digit, n
<1>5. \E f : f = Body(f)
  <2> DEFINE step == [k \in 1 .. n |-> [s \in Int |-> 10 * s + Digit(k)]]
  <2>1. step \in Steps(n, Int)
    BY <1>1 DEF Steps
  <2> HIDE DEF step
  <2>0. PICK f : Follows(f, 0, n, Int, step)
    BY <1>1, <2>1, Recursion
  <2>2. ASSUME NEW k \in 1 .. n PROVE f[k] = 10 * f[k - 1] + Digit(k)
    <3> DEFINE j == k - 1
    <3>1. j \in 0 .. n - 1 /\ j \in 0 .. n /\ j + 1 = k
      BY <1>1
    <3> HIDE DEF j
    <3>2. f[j] \in Int /\ f[j + 1] = step[j + 1][f[j]]
      BY <2>0, <3>1 DEF Follows
    <3>3. f[k] = 10 * f[j] + Digit(k)
      BY <3>1, <3>2 DEF step
    <3> QED BY <3>3 DEF j
  <2>3. \A k \in 0 .. n : f[k] = IF k = 0 THEN 0 ELSE 10 * f[k - 1] + Digit(k)
    BY <1>1, <2>0, <2>2 DEF Follows
  <2>4. f = Body(f)
    BY <2>0, <2>3 DEF Follows
  <2> QED BY <2>4
<1>6. st = Body(st)
  BY <1>5
<1> HIDE DEF st
<1>7. ASSUME NEW k \in 0 .. n - 1 PROVE st[k + 1] = 10 * st[k] + Digit(k + 1)
  <2> DEFINE j == k + 1
  <2>1. j \in 0 .. n /\ j # 0 /\ j - 1 = k
    BY <1>1
  <2> HIDE DEF j
  <2>2. st[j] = 10 * st[j - 1] + Digit(j)
    BY <1>6, <2>1
  <2> QED BY <2>1, <2>2 DEF j
<1>8. st[0] = 0
  BY <1>1, <1>6
<1>9. \A k \in 0 .. n : st[k] \in Int
  <2> DEFINE G == {k \in 0 .. n : st[k] \in Int}
  <2>1. 0 \in G
    BY <1>1, <1>8
  <2>2. ASSUME NEW m \in 0 .. n - 1, m \in G PROVE m + 1 \in G
    <3>1. st[m + 1] = 10 * st[m] + Digit(m + 1) /\ m + 1 \in 1 .. n
      BY <1>1, <1>7
    <3> QED BY <1>1, <2>2, <3>1
  <2> HIDE DEF G
  <2>3. \A m \in 0 .. n : m \in G
    BY <1>1, <2>1, <2>2, IntervalInduction
  <2> QED BY <2>3 DEF G
<1>10. st \in [0 .. n -> Int]
  BY <1>6, <1>9
<1>11. Numbers(st, u)
  BY <1>7, <1>8, <1>10 DEF Numbers, n, Digit
<1> QED BY <1>4, <1>11 DEF n

\* utils_parse_integer gives a number.
LEMMA ParseIntegerType ==
  ASSUME NEW v \in Texts, IsInteger(v)
  PROVE  ParseInteger(v) \in Int
<1> DEFINE u == Unsigned(v)
<1>1. u \in Texts
  <2>1. v # <<>> => Tail(v) \in Texts
    BY HeadTailProperties DEF Texts
  <2> QED BY <2>1 DEF Unsigned
<1>2. ToSet(u) \subseteq DigitChars
  BY DEF IsInteger, DigitChars
<1> HIDE DEF u
<1>3. u \in DigitTexts
  <2>1. u \in [1 .. Len(u) -> Chars] /\ Len(u) \in Nat
    BY <1>1, LenProperties DEF Texts
  <2>2. \A k \in 1 .. Len(u) : u[k] \in DigitChars
    BY <1>2, <2>1 DEF ToSet
  <2>3. u \in [1 .. Len(u) -> DigitChars]
    BY <2>1, <2>2
  <2> QED BY <2>1, <2>3, SeqDef DEF DigitTexts
<1>4. PICK g : /\ Numbers(g, u)
               /\ ParseInteger(v) = (IF Head(v) = "-" THEN -1 ELSE 1) * g[Len(u)]
  BY <1>3, ParseIntegerIs DEF u
<1>5. g[Len(u)] \in Int
  BY <1>3, <1>4, DigitTextFacts DEF Numbers
<1> QED BY <1>4, <1>5

LEMMA DivMod ==
  ASSUME NEW m \in Nat
  PROVE  /\ m % 10 \in 0 .. 9 /\ m \div 10 \in Nat /\ 10 * (m \div 10) + (m % 10) = m
         /\ m >= 1 => m \div 10 < m
  OBVIOUS

\* s spells m.
Valued(m, s) == s \in DigitTexts /\ \A g : Numbers(g, s) => g[Len(s)] = m

LEMMA DigitConcat ==
  ASSUME NEW p \in DigitTexts, NEW a \in DigitTexts
  PROVE  /\ p \o a \in DigitTexts /\ Len(p \o a) = Len(p) + Len(a)
         /\ \A k \in 1 .. Len(p) : (p \o a)[k] = p[k]
         /\ \A k \in 1 .. Len(a) : (p \o a)[Len(p) + k] = a[k]
  BY ConcatFacts DEF DigitTexts

LEMMA AppendDigit ==
  ASSUME NEW p, NEW c \in Nat, Valued(c, p), NEW d \in 0 .. 9
  PROVE  /\ Valued(10 * c + d, p \o <<Digits[d + 1]>>)
         /\ Len(p \o <<Digits[d + 1]>>) \in Nat \ {0}
<1> DEFINE a == <<Digits[d + 1]>>
           s == p \o a
           n == Len(p)
<1>1. p \in DigitTexts /\ n \in Nat
  BY DigitTextFacts DEF Valued
<1>2. a \in DigitTexts /\ Len(a) = 1 /\ a[1] = Digits[d + 1]
  BY DigitFacts DEF DigitTexts
<1> HIDE DEF a
<1>3. s \in DigitTexts /\ Len(s) = n + 1 /\ s[n + 1] = a[1] /\ \A k \in 1 .. n : s[k] = p[k]
  <2>1. /\ s \in DigitTexts /\ Len(s) = Len(p) + Len(a)
        /\ \A k \in 1 .. Len(p) : s[k] = p[k]
        /\ \A k \in 1 .. Len(a) : s[Len(p) + k] = a[k]
    BY <1>1, <1>2, DigitConcat
  <2> HIDE DEF s
  <2>2. s[Len(p) + 1] = a[1]
    <3>1. 1 \in 1 .. Len(a)
      BY <1>2
    <3> QED BY <2>1, <3>1
  <2> QED BY <1>2, <2>1, <2>2
<1> HIDE DEF s
<1>4. ASSUME NEW g, Numbers(g, s) PROVE g[n + 1] = 10 * c + d
  <2> DEFINE h == [k \in 0 .. n |-> g[k]]
  <2>1. /\ g \in [0 .. n + 1 -> Int] /\ g[0] = 0
        /\ \A k \in 0 .. n : g[k + 1] = 10 * g[k] + (Code(s[k + 1]) - Code("0"))
    BY <1>1, <1>3, <1>4 DEF Numbers
  <2>2. h \in [0 .. n -> Int] /\ h[0] = 0 /\ \A k \in 0 .. n : h[k] = g[k]
    BY <1>1, <2>1
  <2> HIDE DEF h
  <2>3. ASSUME NEW k \in 0 .. n - 1
        PROVE  h[k + 1] = 10 * h[k] + (Code(p[k + 1]) - Code("0"))
    <3>1. k \in 0 .. n /\ k + 1 \in 0 .. n /\ k + 1 \in 1 .. n
      BY <1>1
    <3>2. s[k + 1] = p[k + 1]
      BY <1>3, <3>1
    <3> QED BY <2>1, <2>2, <3>1, <3>2
  <2>4. Numbers(h, p)
    BY <2>2, <2>3 DEF Numbers
  <2>5. h[n] = c
    BY <2>4 DEF Valued
  <2>6. g[n + 1] = 10 * g[n] + (Code(s[n + 1]) - Code("0")) /\ n \in 0 .. n
    BY <1>1, <2>1
  <2>7. Code(s[n + 1]) - Code("0") = d
    BY <1>2, <1>3, DigitFacts
  <2> QED BY <2>2, <2>5, <2>6, <2>7
<1>5. Valued(10 * c + d, s)
  BY <1>1, <1>3, <1>4 DEF Valued
<1> QED BY <1>1, <1>3, <1>5 DEF s, a

\* The last step of the recursion of Decimal.
Printed(f, m) == (IF m < 10 THEN <<>> ELSE f[m \div 10]) \o <<Digits[(m % 10) + 1]>>

LEMMA PrintedType ==
  ASSUME NEW m \in Nat, NEW f, m >= 10 => f[m \div 10] \in DigitTexts
  PROVE  Printed(f, m) \in DigitTexts
<1> DEFINE p == IF m < 10 THEN <<>> ELSE f[m \div 10]
           a == <<Digits[(m % 10) + 1]>>
<1>1. p \in DigitTexts
  <2>1. <<>> \in DigitTexts
    BY EmptySeq DEF DigitTexts
  <2> QED BY <2>1
<1>2. a \in DigitTexts
  <2>1. m % 10 \in 0 .. 9
    BY DivMod
  <2>2. Digits[(m % 10) + 1] \in DigitChars
    BY <2>1, DigitFacts
  <2> QED BY <2>2 DEF DigitTexts
<1> HIDE DEF p, a
<1>3. p \o a \in DigitTexts
  BY <1>1, <1>2, DigitConcat
<1> QED BY <1>3 DEF p, a, Printed

LEMMA DecimalExists ==
  ASSUME NEW n \in Nat
  PROVE  \E f : f = [m \in 0 .. n |-> Printed(f, m)]
<1> DEFINE Upto(f, m) == \A k \in 0 .. m : f[k] = Printed(f, k)
           M == {m \in 0 .. n : \E f \in [0 .. m -> DigitTexts] : Upto(f, m)}
<1>1. 0 \in M
  <2> DEFINE f == [k \in 0 .. 0 |-> Printed(<<>>, k)]
  <2>1. Printed(<<>>, 0) \in DigitTexts
    BY PrintedType
  <2>2. f \in [0 .. 0 -> DigitTexts]
    BY <2>1
  <2>3. Printed(f, 0) = Printed(<<>>, 0)
    BY DEF Printed
  <2>4. Upto(f, 0)
    BY <2>3
  <2> HIDE DEF f, Upto
  <2> QED BY <2>2, <2>4
<1>2. ASSUME NEW m \in 0 .. n - 1, m \in M PROVE m + 1 \in M
  <2>1. PICK f \in [0 .. m -> DigitTexts] : Upto(f, m)
    BY <1>2
  <2> DEFINE g == [k \in 0 .. m + 1 |-> IF k = m + 1 THEN Printed(f, m + 1) ELSE f[k]]
  <2>2. ASSUME NEW k \in 0 .. m + 1, k >= 10 PROVE k \div 10 \in 0 .. m
    <3>1. k \in Nat /\ k >= 1
      BY <2>2
    <3>2. k \div 10 \in Nat /\ k \div 10 < k
      BY <3>1, DivMod
    <3> QED BY <3>1, <3>2
  <2>3. Printed(f, m + 1) \in DigitTexts
    <3>1. m + 1 \in 0 .. m + 1 /\ m + 1 \in Nat
      OBVIOUS
    <3>2. m + 1 >= 10 => f[(m + 1) \div 10] \in DigitTexts
      BY <2>2, <3>1
    <3> QED BY <3>1, <3>2, PrintedType
  <2>4. g \in [0 .. m + 1 -> DigitTexts] /\ \A k \in 0 .. m : g[k] = f[k]
    BY <2>3
  <2>5. g[m + 1] = Printed(f, m + 1)
    OBVIOUS
  <2> HIDE DEF g
  <2>6. ASSUME NEW k \in 0 .. m + 1 PROVE Printed(g, k) = Printed(f, k)
    <3>1. k >= 10 => g[k \div 10] = f[k \div 10]
      BY <2>2, <2>4
    <3>2. k < 10 \/ k >= 10
      OBVIOUS
    <3>3. (IF k < 10 THEN <<>> ELSE g[k \div 10]) = (IF k < 10 THEN <<>> ELSE f[k \div 10])
      BY <3>1, <3>2
    <3> QED BY <3>3, Zenon DEF Printed
  <2>7. ASSUME NEW k \in 0 .. m + 1 PROVE g[k] = Printed(g, k)
    <3>1. k = m + 1 \/ k \in 0 .. m
      OBVIOUS
    <3>2. CASE k = m + 1
      BY <2>5, <2>6, <3>2
    <3>3. CASE k \in 0 .. m
      BY <2>1, <2>4, <2>6, <3>3
    <3> QED BY <3>1, <3>2, <3>3
  <2>8. m + 1 \in 0 .. n /\ Upto(g, m + 1)
    BY <2>7
  <2> HIDE DEF Upto
  <2> QED BY <2>4, <2>8
<1>3. n \in M
  <2> HIDE DEF M
  <2>1. \A m \in 0 .. n : m \in M
    BY <1>1, <1>2, IntervalInduction
  <2> QED BY <2>1
<1>4. PICK f \in [0 .. n -> DigitTexts] : \A k \in 0 .. n : f[k] = Printed(f, k)
  BY <1>3
<1>5. f = [m \in 0 .. n |-> Printed(f, m)]
  BY <1>4
<1> QED BY <1>5

\* The number that storage_get_next_auto_id prints is the one that is read back.
THEOREM DecimalIs ==
  ASSUME NEW n \in Nat
  PROVE  /\ Decimal(n) \in DigitTexts /\ Len(Decimal(n)) \in Nat \ {0}
         /\ ParseInteger(Decimal(n)) = n
<1> DEFINE st == CHOOSE f : f = [m \in 0 .. n |-> Printed(f, m)]
<1>1. Decimal(n) = st[n]
  BY DEF Decimal, Printed
<1>2. st = [m \in 0 .. n |-> Printed(st, m)]
  BY DecimalExists
<1> HIDE DEF st
<1>3. \A m \in 0 .. n : st[m] = Printed(st, m)
  BY <1>2
<1> DEFINE K == {m \in 0 .. n : Valued(m, st[m]) /\ Len(st[m]) \in Nat \ {0}}
<1>4. ASSUME NEW m \in 0 .. n, \A k \in 0 .. m - 1 : k \in K PROVE m \in K
  <2> DEFINE p == IF m < 10 THEN <<>> ELSE st[m \div 10]
             c == IF m < 10 THEN 0 ELSE m \div 10
             d == m % 10
  <2>1. m \in Nat /\ d \in 0 .. 9 /\ m \div 10 \in Nat /\ 10 * (m \div 10) + d = m
    BY DivMod
  <2>2. c \in Nat /\ 10 * c + d = m
    <3>1. m < 10 => m \div 10 = 0
      BY <2>1
    <3> QED BY <2>1, <3>1
  <2>3. Valued(c, p)
    <3>1. CASE m < 10
      <4>1. <<>> \in DigitTexts /\ Len(<<>>) = 0
        BY EmptySeq DEF DigitTexts
      <4>2. \A g : Numbers(g, <<>>) => g[Len(<<>>)] = 0
        BY <4>1 DEF Numbers
      <4>3. Valued(0, <<>>)
        BY <4>1, <4>2 DEF Valued
      <4> QED BY <3>1, <4>3
    <3>2. CASE m >= 10
      <4>1. m \div 10 < m
        BY <2>1, <3>2, DivMod
      <4>2. m \div 10 \in 0 .. m - 1
        BY <2>1, <4>1
      <4>3. Valued(m \div 10, st[m \div 10])
        BY <1>4, <4>2
      <4>4. ~(m < 10)
        BY <2>1, <3>2
      <4> QED BY <4>3, <4>4
    <3> QED BY <2>1, <3>1, <3>2
  <2>4. st[m] = p \o <<Digits[d + 1]>>
    BY <1>3 DEF Printed
  <2> HIDE DEF p, c, d
  <2>5. Valued(m, st[m]) /\ Len(st[m]) \in Nat \ {0}
    BY <2>1, <2>2, <2>3, <2>4, AppendDigit
  <2> QED BY <2>5
<1>5. n \in K
  <2> HIDE DEF K
  <2>1. \A m \in 0 .. n : m \in K
    BY <1>4, StrongInduction
  <2> QED BY <2>1
<1> DEFINE u == st[n]
<1>6. u \in DigitTexts /\ Len(u) \in Nat \ {0} /\ Valued(n, u)
  BY <1>5 DEF Valued
<1> HIDE DEF u
<1>7. u # <<>> /\ Head(u) \notin {"-", "+"}
  <2>1. u # <<>> /\ u[1] \in DigitChars
    <3>1. 1 \in 1 .. Len(u)
      BY <1>6
    <3>2. u[1] \in DigitChars
      BY <1>6, <3>1, DigitTextFacts
    <3>3. Len(<<>>) = 0
      OBVIOUS
    <3> QED BY <1>6, <3>2, <3>3
  <2>2. u[1] \notin {"-", "+"}
    BY <2>1, DigitOf, DigitFacts
  <2>3. Head(u) = u[1]
    BY <1>6, <2>1, HeadTailProperties DEF DigitTexts
  <2> QED BY <2>1, <2>2, <2>3
<1>8. Unsigned(u) = u
  BY <1>7 DEF Unsigned
<1>9. PICK g : /\ Numbers(g, u)
               /\ ParseInteger(u) = (IF Head(u) = "-" THEN -1 ELSE 1) * g[Len(u)]
  BY <1>6, <1>8, ParseIntegerIs
<1>10. g[Len(u)] = n
  BY <1>6, <1>9 DEF Valued
<1>11. ParseInteger(u) = n
  BY <1>7, <1>9, <1>10
<1> QED BY <1>1, <1>6, <1>11 DEF u
=============================================================================

-------------------------- MODULE TableIndexProofs --------------------------
(***************************************************************************)
(* Proofs about TableIndex, for every table that storage.c can load, every  *)
(* column, every operator and every value asked for.                        *)
(***************************************************************************)
EXTENDS TableIndex, TableTextProofs

-----------------------------------------------------------------------------
(* Bisection *)

\* Where the search from left to right ends if the first c entries come before.
Clamp(c, left, right) ==
  IF left >= right \/ c <= left THEN left ELSE IF c >= right THEN right ELSE c

Middle(left, right) == left + ((right - left) \div 2)

Bounds(n) == (0 .. n) \X (0 .. n)

\* One pass of the loop, f being what the rest of the search returns.
Pass(before, f, range) ==
  IF range[1] >= range[2] THEN range[1]
  ELSE IF Middle(range[1], range[2]) + 1 \in before
    THEN f[<<Middle(range[1], range[2]) + 1, range[2]>>]
    ELSE f[<<range[1], Middle(range[1], range[2])>>]

LEMMA MiddleIs ==
  ASSUME NEW left \in Nat, NEW right \in Nat, left < right
  PROVE  Middle(left, right) \in Nat /\ left <= Middle(left, right) /\ Middle(left, right) < right
  BY DEF Middle

\* What is known of f where a search from left to right goes on.
Narrows(f, c, left, right, m) ==
  /\ m = Middle(left, right) /\ left <= m /\ m < right
  /\ f[<<m + 1, right>>] = Clamp(c, m + 1, right) /\ f[<<left, m>>] = Clamp(c, left, m)

LEMMA PassIs ==
  ASSUME NEW c \in Nat, NEW left \in Nat, NEW right \in Nat, left < right,
         NEW f, NEW m \in Nat, Narrows(f, c, left, right, m)
  PROVE  Pass(1 .. c, f, <<left, right>>) = Clamp(c, left, right)
<1> DEFINE g == Pass(1 .. c, f, <<left, right>>)
<1>1. g = IF m + 1 \in 1 .. c THEN Clamp(c, m + 1, right) ELSE Clamp(c, left, m)
  BY DEF Pass, Narrows
<1>2. left <= m /\ m < right
  BY DEF Narrows
<1> HIDE DEF g
<1>3. g = Clamp(c, left, right)
  BY <1>1, <1>2 DEF Clamp
<1> QED BY <1>3 DEF g

\* f is right about every range of at most d entries.
Known(f, c, n, d) ==
  \A l, r \in 0 .. n : r <= l + d => f[<<l, r>>] = Clamp(c, l, r)

\* The search over a range follows from the searches over smaller ones.
LEMMA SearchStep ==
  ASSUME NEW n \in Nat, NEW c \in 0 .. n, NEW f, NEW d \in Nat, Known(f, c, n, d),
         NEW left \in 0 .. n, NEW right \in 0 .. n, right <= left + (d + 1)
  PROVE  Pass(1 .. c, f, <<left, right>>) = Clamp(c, left, right)
<1>1. CASE left >= right
  BY <1>1 DEF Pass, Clamp
<1>2. CASE left < right
  <2>1. PICK m \in Nat : m = Middle(left, right) /\ left <= m /\ m < right
    BY <1>2, MiddleIs
  <2>2. m \in 0 .. n /\ m + 1 \in 0 .. n /\ m <= left + d /\ right <= m + 1 + d
    BY <2>1
  <2>3. f[<<m + 1, right>>] = Clamp(c, m + 1, right) /\ f[<<left, m>>] = Clamp(c, left, m)
    BY <2>2 DEF Known
  <2>4. Narrows(f, c, left, right, m)
    BY <2>1, <2>3 DEF Narrows
  <2>5. c \in Nat /\ left \in Nat /\ right \in Nat
    OBVIOUS
  <2> QED BY <1>2, <2>4, <2>5, PassIs
<1> QED BY <1>1, <1>2

\* The bisection of index_lower_bound and index_upper_bound finds how many
\* entries come before when those that do are the first ones.
LEMMA BisectIs ==
  ASSUME NEW n \in Nat, NEW c \in 0 .. n
  PROVE  Bisect(n, 1 .. c) = c
<1> DEFINE Is(f) == f = [range \in Bounds(n) |-> Pass(1 .. c, f, range)]
           g == [range \in Bounds(n) |-> Clamp(c, range[1], range[2])]
<1>0. \A left, right \in 0 .. n : <<left, right>> \in Bounds(n)
  BY DEF Bounds
<1>1. Is(g)
  <2>1. ASSUME NEW left \in 0 .. n, NEW right \in 0 .. n
        PROVE  Clamp(c, left, right) = Pass(1 .. c, g, <<left, right>>)
    <3>1. Known(g, c, n, n)
      BY <1>0 DEF Known
    <3>2. right <= left + (n + 1)
      OBVIOUS
    <3> HIDE DEF g
    <3> QED BY <3>1, <3>2, SearchStep
  <2>2. ASSUME NEW range \in Bounds(n)
        PROVE  Clamp(c, range[1], range[2]) = Pass(1 .. c, g, range)
    <3>1. range[1] \in 0 .. n /\ range[2] \in 0 .. n /\ range = <<range[1], range[2]>>
      BY DEF Bounds
    <3> QED BY <2>1, <3>1
  <2> QED BY <2>2
<1>2. ASSUME NEW f, Is(f) PROVE f[<<0, n>>] = c
  <2> DEFINE G == {d \in 0 .. n : Known(f, c, n, d)}
  <2>1. ASSUME NEW left \in 0 .. n, NEW right \in 0 .. n
        PROVE  f[<<left, right>>] = Pass(1 .. c, f, <<left, right>>)
    <3>1. <<left, right>> \in Bounds(n)
      BY <1>0
    <3>2. f[<<left, right>>] = [range \in Bounds(n) |-> Pass(1 .. c, f, range)][<<left, right>>]
      BY <1>2
    <3> QED BY <3>1, <3>2
  <2>2. 0 \in G
    <3>1. ASSUME NEW left \in 0 .. n, NEW right \in 0 .. n, right <= left + 0
          PROVE  f[<<left, right>>] = Clamp(c, left, right)
      <4>1. left >= right
        BY <3>1
      <4> QED BY <2>1, <4>1 DEF Pass, Clamp
    <3> QED BY <3>1 DEF Known
  <2>3. ASSUME NEW d \in 0 .. n - 1, d \in G PROVE d + 1 \in G
    <3>1. d \in Nat /\ Known(f, c, n, d) /\ d + 1 \in 0 .. n
      BY <2>3
    <3> HIDE DEF G
    <3>2. ASSUME NEW left \in 0 .. n, NEW right \in 0 .. n, right <= left + (d + 1)
          PROVE  f[<<left, right>>] = Clamp(c, left, right)
      <4>1. Pass(1 .. c, f, <<left, right>>) = Clamp(c, left, right)
        BY <3>1, <3>2, SearchStep
      <4> QED BY <2>1, <4>1
    <3>3. Known(f, c, n, d + 1)
      BY <3>2 DEF Known
    <3> QED BY <3>1, <3>3 DEF G
  <2> HIDE DEF G
  <2>4. n \in G
    BY <2>2, <2>3, IntervalInduction
  <2>5. f[<<0, n>>] = Clamp(c, 0, n)
    BY <2>4 DEF G, Known
  <2> QED BY <2>5 DEF Clamp
<1>3. Bisect(n, 1 .. c) = (CHOOSE f : Is(f))[<<0, n>>]
  BY DEF Bisect, Bounds, Pass, Middle
<1> HIDE DEF Is, g
<1> QED BY <1>1, <1>2, <1>3

-----------------------------------------------------------------------------
(* Sorting *)

\* A strict total order on S, as a set of pairs.
Orders(R, S) ==
  /\ \A a \in S : <<a, a>> \notin R
  /\ \A a, b \in S : a # b => <<a, b>> \in R \/ <<b, a>> \in R
  /\ \A a, b, c \in S : <<a, b>> \in R /\ <<b, c>> \in R => <<a, c>> \in R

Preceding(R, S, a) == {b \in S : <<b, a>> \in R}
Place(R, S, a) == Cardinality(Preceding(R, S, a))

LEMMA PlaceGrows ==
  ASSUME NEW S, IsFiniteSet(S), NEW R, Orders(R, S)
  PROVE  /\ Cardinality(S) \in Nat
         /\ \A a \in S : Place(R, S, a) \in 0 .. Cardinality(S) - 1
         /\ \A a, b \in S : <<a, b>> \in R => Place(R, S, a) < Place(R, S, b)
<1>1. Cardinality(S) \in Nat
  BY FS_CardinalityType
<1>2. ASSUME NEW U, IsFiniteSet(U), NEW T \in SUBSET U, NEW a \in U, a \notin T
      PROVE  Cardinality(T) \in Nat /\ Cardinality(T) < Cardinality(U)
  <2>1. T # U /\ IsFiniteSet(T) /\ Cardinality(T) <= Cardinality(U)
        /\ (Cardinality(U) = Cardinality(T) => U = T)
    BY <1>2, FS_Subset
  <2>2. Cardinality(T) \in Nat /\ Cardinality(U) \in Nat
    BY <1>2, <2>1, FS_CardinalityType
  <2> QED BY <2>1, <2>2
<1>3. ASSUME NEW a \in S PROVE Place(R, S, a) \in 0 .. Cardinality(S) - 1
  <2>1. Preceding(R, S, a) \in SUBSET S /\ a \notin Preceding(R, S, a)
    BY DEF Preceding, Orders
  <2>2. Place(R, S, a) \in Nat /\ Place(R, S, a) < Cardinality(S)
    BY <1>2, <2>1 DEF Place
  <2> QED BY <1>1, <2>2
<1>4. ASSUME NEW a \in S, NEW b \in S, <<a, b>> \in R
      PROVE  Place(R, S, a) < Place(R, S, b)
  <2>1. /\ Preceding(R, S, a) \in SUBSET Preceding(R, S, b)
        /\ a \in Preceding(R, S, b) /\ a \notin Preceding(R, S, a)
    BY <1>4 DEF Preceding, Orders
  <2>2. IsFiniteSet(Preceding(R, S, b))
    BY FS_Subset DEF Preceding
  <2> QED BY <1>2, <2>1, <2>2 DEF Place
<1> QED BY <1>1, <1>3, <1>4

\* s holds every element of S once, in the order R.
Sorts(s, R, S) ==
  /\ s \in Seq(S) /\ Len(s) \in Nat /\ DOMAIN s = 1 .. Len(s)
  /\ \A a \in S : \E n \in 1 .. Len(s) : s[n] = a
  /\ \A m, n \in 1 .. Len(s) : s[m] = s[n] => m = n
  /\ \A m, n \in 1 .. Len(s) : m < n => <<s[m], s[n]>> \in R

LEMMA PlacedSorts ==
  ASSUME NEW S, NEW R, Orders(R, S), NEW size \in Nat, NEW s \in [1 .. size -> S],
         \A a \in S : Place(R, S, a) \in 0 .. size - 1,
         \A a, b \in S : <<a, b>> \in R => Place(R, S, a) < Place(R, S, b),
         \A a, b \in S : Place(R, S, a) = Place(R, S, b) => a = b,
         \A n \in 1 .. size : Place(R, S, s[n]) = n - 1
  PROVE  Sorts(s, R, S)
<1>10. \A n \in 1 .. size : s[n] \in S
  OBVIOUS
<1>11. ASSUME NEW a \in S PROVE \E n \in 1 .. size : s[n] = a
  <2> DEFINE n == Place(R, S, a) + 1
  <2>1. n \in 1 .. size /\ n - 1 = Place(R, S, a)
    OBVIOUS
  <2> HIDE DEF n
  <2>2. s[n] \in S /\ Place(R, S, s[n]) = Place(R, S, a)
    BY <1>10, <2>1
  <2> QED BY <2>1, <2>2
<1>12. ASSUME NEW m \in 1 .. size, NEW n \in 1 .. size, s[m] = s[n] PROVE m = n
  BY <1>12
<1>13. ASSUME NEW m \in 1 .. size, NEW n \in 1 .. size, m < n PROVE <<s[m], s[n]>> \in R
  <2>1. s[m] \in S /\ s[n] \in S /\ Place(R, S, s[m]) < Place(R, S, s[n])
    BY <1>10, <1>13
  <2>2. s[m] # s[n]
    BY <1>12, <1>13
  <2>3. Place(R, S, s[m]) \in Int /\ Place(R, S, s[n]) \in Int
    BY <2>1
  <2>4. <<s[n], s[m]>> \notin R
    BY <2>1, <2>3
  <2> QED BY <2>1, <2>2, <2>4 DEF Orders
<1>14. s \in Seq(S) /\ DOMAIN s = 1 .. size
  BY SeqDef
<1>15. Len(s) = size
  BY <1>14, LenProperties
<1> QED BY <1>11, <1>12, <1>13, <1>14, <1>15 DEF Sorts

\* Choosing for n an element that has n - 1 before it is sorting.
LEMMA PlaceSorts ==
  ASSUME NEW S, IsFiniteSet(S), NEW R, Orders(R, S), NEW s,
         s = [n \in 1 .. Cardinality(S) |-> s[n]],
         \A n \in 1 .. Cardinality(S) :
           (\E a \in S : Place(R, S, a) = n - 1) => s[n] \in S /\ Place(R, S, s[n]) = n - 1
  PROVE  Sorts(s, R, S)
<1> DEFINE size == Cardinality(S)
           place == [a \in S |-> Place(R, S, a) + 1]
<1>1. size \in Nat /\ \A a \in S : Place(R, S, a) \in 0 .. size - 1
  BY PlaceGrows
<1>2. \A a, b \in S : <<a, b>> \in R => Place(R, S, a) < Place(R, S, b)
  BY PlaceGrows
<1>3. \A n \in 1 .. size : (\E a \in S : Place(R, S, a) = n - 1) =>
                           s[n] \in S /\ Place(R, S, s[n]) = n - 1
  OBVIOUS
<1>5. s = [n \in 1 .. size |-> s[n]]
  OBVIOUS
<1> HIDE DEF size
<1>6. ASSUME NEW a \in S, NEW b \in S, Place(R, S, a) = Place(R, S, b) PROVE a = b
  <2>1. Place(R, S, a) \in Int /\ Place(R, S, b) \in Int
    BY <1>1
  <2>2. <<a, b>> \notin R /\ <<b, a>> \notin R
    BY <1>2, <1>6, <2>1
  <2> QED BY <2>2 DEF Orders
<1>7. place \in Injection(S, 1 .. size)
  <2>1. place \in [S -> 1 .. size]
    BY <1>1
  <2>2. ASSUME NEW a \in S, NEW b \in S, place[a] = place[b] PROVE a = b
    <3>1. Place(R, S, a) + 1 = Place(R, S, b) + 1 /\ Place(R, S, a) \in Int /\ Place(R, S, b) \in Int
      BY <1>1, <2>2
    <3>2. Place(R, S, a) = Place(R, S, b)
      BY <3>1
    <3> QED BY <1>6, <3>2
  <2> HIDE DEF place
  <2> QED BY <2>1, <2>2 DEF Injection, IsInjective
<1>8. IsFiniteSet(1 .. size) /\ Cardinality(1 .. size) = size
  BY <1>1, FS_Interval
<1>9. place \in Surjection(S, 1 .. size)
  <2> HIDE DEF place
  <2> QED BY <1>1, <1>7, <1>8, FS_Injection DEF size
<1>10. ASSUME NEW n \in 1 .. size PROVE s[n] \in S /\ Place(R, S, s[n]) = n - 1
  <2>1. PICK a \in S : place[a] = n
    <3> HIDE DEF place
    <3> QED BY <1>9 DEF Surjection
  <2>2. Place(R, S, a) = n - 1
    BY <1>1, <2>1
  <2> QED BY <1>3, <2>2
<1>11. s \in [1 .. size -> S]
  BY <1>5, <1>10
<1>12. \A a, b \in S : Place(R, S, a) = Place(R, S, b) => a = b
  BY <1>6
<1>13. \A n \in 1 .. size : Place(R, S, s[n]) = n - 1
  BY <1>10
<1> QED BY <1>1, <1>2, <1>11, <1>12, <1>13, PlacedSorts

-----------------------------------------------------------------------------
(* The order of values *)

\* strcmp looks at the code of the k-th character, 0 behind the last one.
CodeAt(s, k) == IF k \in DOMAIN s THEN Code(s[k]) ELSE 0

LEMMA CodeAtType ==
  ASSUME NEW s \in Texts, NEW k \in Nat \ {0}
  PROVE  CodeAt(s, k) \in Int /\ (k > Len(s) => CodeAt(s, k) = 0)
<1>1. Len(s) \in Nat /\ DOMAIN s = 1 .. Len(s)
  BY LenProperties DEF Texts
<1>2. CASE k \in 1 .. Len(s)
  <2>1. s[k] \in ToSet(Characters)
    BY <1>2, ElementOfSeq DEF Texts, Chars
  <2>2. \E c \in DOMAIN Characters : Characters[c] = s[k]
    BY <2>1 DEF ToSet
  <2>3. Code(s[k]) \in DOMAIN Characters
    BY <2>2 DEF Code
  <2>4. DOMAIN Characters = 1 .. 22
    BY DEF Characters
  <2>5. Code(s[k]) \in Int
    BY <2>3, <2>4
  <2> QED BY <1>1, <1>2, <2>5 DEF CodeAt
<1>3. CASE k \notin 1 .. Len(s)
  BY <1>1, <1>3 DEF CodeAt
<1> QED BY <1>2, <1>3

LEMMA SignIs ==
  ASSUME NEW n \in Int
  PROVE  /\ Sign(n) \in {-1, 0, 1} /\ (Sign(n) < 0 <=> n < 0)
         /\ (Sign(n) = 0 <=> n = 0) /\ (Sign(n) > 0 <=> n > 0)
  BY DEF Sign

\* The two texts are the same up to k.
Agree(l, r, k) == \A j \in Nat \ {0} : j < k => CodeAt(l, j) = CodeAt(r, j)
StrLess(l, r)  == \E k \in Nat \ {0} : Agree(l, r, k) /\ CodeAt(l, k) < CodeAt(r, k)
StrSame(l, r)  == \A k \in Nat \ {0} : CodeAt(l, k) = CodeAt(r, k)

LEMMA LargerLength ==
  ASSUME NEW m \in Nat, NEW n \in Nat
  PROVE  Max({m, n}) \in Nat /\ Max({m, n}) >= m /\ Max({m, n}) >= n
<1>1. \E x \in {m, n} : \A y \in {m, n} : x >= y
  OBVIOUS
<1>2. Max({m, n}) \in {m, n} /\ \A y \in {m, n} : Max({m, n}) >= y
  BY <1>1 DEF Max
<1> QED BY <1>2

LEMMA StrCmpStops ==
  ASSUME NEW l \in Texts, NEW r \in Texts
  PROVE  \E k \in Nat \ {0} :
           /\ Agree(l, r, k) /\ StrCmp(l, r) = Sign(CodeAt(l, k) - CodeAt(r, k))
           /\ CodeAt(l, k) = CodeAt(r, k) => StrSame(l, r)
<1> DEFINE last  == Max({Len(l), Len(r)}) + 1
           D     == {k \in 1 .. last : k = last \/ CodeAt(l, k) # CodeAt(r, k)}
           first == Min(D)
<1>1. StrCmp(l, r) = Sign(CodeAt(l, first) - CodeAt(r, first))
  BY DEF StrCmp, CodeAt
<1>2. Len(l) \in Nat /\ Len(r) \in Nat
  BY LenProperties DEF Texts
<1>3. last \in Nat \ {0} /\ last > Len(l) /\ last > Len(r)
  <2> DEFINE m == Max({Len(l), Len(r)})
  <2>1. m \in Nat /\ m >= Len(l) /\ m >= Len(r)
    BY <1>2, LargerLength
  <2> HIDE DEF m
  <2>2. m + 1 \in Nat \ {0} /\ m + 1 > Len(l) /\ m + 1 > Len(r)
    BY <1>2, <2>1
  <2> QED BY <2>2 DEF m
<1> HIDE DEF last
<1>4. last \in D /\ D \subseteq 1 .. last
  BY <1>3
<1>5. first \in D /\ \A k \in D : first <= k
  <2> HIDE DEF D
  <2>1. D \subseteq Nat /\ D # {}
    BY <1>3, <1>4
  <2>2. \E m \in D : \A k \in D : m <= k
    BY <2>1, LeastExists
  <2> QED BY <2>2 DEF Min
<1> HIDE DEF first
<1>6. first \in Nat \ {0} /\ first <= last
  BY <1>3, <1>5
<1>7. ASSUME NEW j \in Nat \ {0}, j < first PROVE CodeAt(l, j) = CodeAt(r, j)
  <2>1. ~(first <= j) /\ j \in 1 .. last
    BY <1>3, <1>6, <1>7
  <2>2. j \notin D
    BY <1>5, <2>1
  <2> QED BY <2>1, <2>2
<1>8. Agree(l, r, first)
  BY <1>7 DEF Agree
<1>9. ASSUME CodeAt(l, first) = CodeAt(r, first), NEW k \in Nat \ {0}
      PROVE  CodeAt(l, k) = CodeAt(r, k)
  <2>1. first = last
    BY <1>5, <1>9
  <2>2. CASE k < last
    BY <1>7, <2>1, <2>2
  <2>3. CASE k >= last
    <3>1. k > Len(l) /\ k > Len(r)
      BY <1>2, <1>3, <2>3
    <3> QED BY <3>1, CodeAtType
  <2> QED BY <1>3, <2>2, <2>3
<1> QED BY <1>1, <1>6, <1>8, <1>9 DEF StrSame

LEMMA StrCmpIs ==
  ASSUME NEW l \in Texts, NEW r \in Texts
  PROVE  /\ StrCmp(l, r) \in {-1, 0, 1}
         /\ StrCmp(l, r) < 0 <=> StrLess(l, r)
         /\ StrCmp(l, r) = 0 <=> StrSame(l, r)
         /\ StrCmp(l, r) > 0 <=> StrLess(r, l)
<1>1. PICK k \in Nat \ {0} :
        /\ Agree(l, r, k) /\ StrCmp(l, r) = Sign(CodeAt(l, k) - CodeAt(r, k))
        /\ CodeAt(l, k) = CodeAt(r, k) => StrSame(l, r)
  BY StrCmpStops
<1> DEFINE a == CodeAt(l, k)
           b == CodeAt(r, k)
           c == StrCmp(l, r)
<1>2. a \in Int /\ b \in Int
  BY CodeAtType
<1>3. /\ c \in {-1, 0, 1} /\ (c < 0 <=> a - b < 0)
      /\ (c = 0 <=> a - b = 0) /\ (c > 0 <=> a - b > 0)
  <2> HIDE DEF a, b
  <2>1. a - b \in Int /\ c = Sign(a - b)
    BY <1>1, <1>2 DEF a, b
  <2> HIDE DEF c
  <2> QED BY <2>1, SignIs
<1> HIDE DEF c
<1>4. (c < 0 <=> a < b) /\ (c = 0 <=> a = b) /\ (c > 0 <=> b < a)
  <2> HIDE DEF a, b
  <2> QED BY <1>2, <1>3
<1>5. a < b => StrLess(l, r)
  BY <1>1 DEF StrLess
<1>6. b < a => StrLess(r, l)
  BY <1>1 DEF StrLess, Agree
<1>7. a = b => StrSame(l, r)
  BY <1>1
<1>8. ~(StrLess(l, r) /\ StrSame(l, r)) /\ ~(StrLess(r, l) /\ StrSame(l, r))
  BY CodeAtType DEF StrLess, StrSame
<1>9. ~(StrLess(l, r) /\ StrLess(r, l))
  <2> SUFFICES ASSUME NEW i \in Nat \ {0}, NEW j \in Nat \ {0},
                      Agree(l, r, i), CodeAt(l, i) < CodeAt(r, i),
                      Agree(r, l, j), CodeAt(r, j) < CodeAt(l, j)
               PROVE  FALSE
    BY DEF StrLess
  <2>1. /\ CodeAt(l, i) \in Int /\ CodeAt(r, i) \in Int
        /\ CodeAt(l, j) \in Int /\ CodeAt(r, j) \in Int
    BY CodeAtType
  <2>2. ~(i < j) /\ ~(j < i)
    BY <2>1 DEF Agree
  <2>3. i = j
    BY <2>2
  <2> QED BY <2>1, <2>3
<1> HIDE DEF a, b
<1>10. (c < 0 <=> StrLess(l, r)) /\ (c = 0 <=> StrSame(l, r)) /\ (c > 0 <=> StrLess(r, l))
  BY <1>2, <1>4, <1>5, <1>6, <1>7, <1>8, <1>9
<1> QED BY <1>3, <1>10 DEF c

LEMMA StrLessTransitive ==
  ASSUME NEW u \in Texts, NEW v \in Texts, NEW w \in Texts, StrLess(u, v), StrLess(v, w)
  PROVE  StrLess(u, w)
<1>1. PICK i \in Nat \ {0} : Agree(u, v, i) /\ CodeAt(u, i) < CodeAt(v, i)
  BY DEF StrLess
<1>2. PICK j \in Nat \ {0} : Agree(v, w, j) /\ CodeAt(v, j) < CodeAt(w, j)
  BY DEF StrLess
<1>3. \A k \in Nat \ {0} : CodeAt(u, k) \in Int /\ CodeAt(v, k) \in Int /\ CodeAt(w, k) \in Int
  BY CodeAtType
<1>4. CASE i <= j
  <2>1. Agree(u, w, i)
    BY <1>1, <1>2, <1>4 DEF Agree
  <2>2. CodeAt(v, i) <= CodeAt(w, i)
    BY <1>2, <1>3, <1>4 DEF Agree
  <2>3. CodeAt(u, i) < CodeAt(w, i)
    BY <1>1, <1>3, <2>2
  <2> QED BY <2>1, <2>3 DEF StrLess
<1>5. CASE j < i
  <2>1. Agree(u, w, j)
    BY <1>1, <1>2, <1>5 DEF Agree
  <2>2. CodeAt(u, j) = CodeAt(v, j)
    BY <1>1, <1>5 DEF Agree
  <2> QED BY <1>2, <2>1, <2>2 DEF StrLess
<1> QED BY <1>4, <1>5

\* CompareValues is a total preorder on V.
Compares(V) ==
  \A u, v \in V : /\ CompareValues(u, v) \in {-1, 0, 1}
                  /\ CompareValues(v, u) = 0 - CompareValues(u, v)
                  /\ \A w \in V : CompareValues(u, v) <= 0 /\ CompareValues(v, w) <= 0
                                    => CompareValues(u, w) <= 0

LEMMA NumbersCompare ==
  ASSUME NEW V \in SUBSET Texts, \A v \in V : IsInteger(v)
  PROVE  Compares(V)
<1>1. \A v \in V : ParseInteger(v) \in Int
  BY ParseIntegerType
<1>2. ASSUME NEW u \in V, NEW v \in V
      PROVE  /\ CompareValues(u, v) \in {-1, 0, 1}
             /\ CompareValues(u, v) < 0 <=> ParseInteger(u) < ParseInteger(v)
             /\ CompareValues(u, v) > 0 <=> ParseInteger(v) < ParseInteger(u)
  <2>1. PICK a \in Int, b \in Int : a = ParseInteger(u) /\ b = ParseInteger(v)
    BY <1>1
  <2>2. a - b \in Int /\ CompareValues(u, v) = Sign(a - b)
    BY <2>1 DEF CompareValues
  <2>3. /\ Sign(a - b) \in {-1, 0, 1} /\ (Sign(a - b) < 0 <=> a - b < 0)
        /\ (Sign(a - b) > 0 <=> a - b > 0)
    BY <2>2, SignIs
  <2>4. (a - b < 0 <=> a < b) /\ (a - b > 0 <=> b < a)
    OBVIOUS
  <2> QED BY <2>1, <2>2, <2>3, <2>4
<1>3. ASSUME NEW u \in V, NEW v \in V PROVE CompareValues(v, u) = 0 - CompareValues(u, v)
  BY <1>1, <1>2
<1>4. ASSUME NEW u \in V, NEW v \in V, NEW w \in V,
             CompareValues(u, v) <= 0, CompareValues(v, w) <= 0
      PROVE  CompareValues(u, w) <= 0
  <2>1. ~(ParseInteger(v) < ParseInteger(u)) /\ ~(ParseInteger(w) < ParseInteger(v))
    BY <1>2, <1>4
  <2>2. ~(ParseInteger(w) < ParseInteger(u))
    BY <1>1, <2>1
  <2> QED BY <1>2, <2>2
<1> QED BY <1>2, <1>3, <1>4 DEF Compares

LEMMA TextsCompare ==
  ASSUME NEW V \in SUBSET Texts, \A v \in V : ~IsInteger(v)
  PROVE  Compares(V)
<1>1. ASSUME NEW u \in V, NEW v \in V
      PROVE  /\ CompareValues(u, v) \in {-1, 0, 1}
             /\ CompareValues(u, v) < 0 <=> StrLess(u, v)
             /\ CompareValues(u, v) = 0 <=> StrSame(u, v)
             /\ CompareValues(u, v) > 0 <=> StrLess(v, u)
  <2>1. CompareValues(u, v) = StrCmp(u, v)
    BY DEF CompareValues
  <2> QED BY <2>1, StrCmpIs
<1>2. \A u, v \in V : StrSame(u, v) <=> StrSame(v, u)
  BY DEF StrSame
<1>3. ASSUME NEW u \in V, NEW v \in V PROVE CompareValues(v, u) = 0 - CompareValues(u, v)
  BY <1>1, <1>2
<1>4. ASSUME NEW u \in V, NEW v \in V, NEW w \in V,
             StrLess(u, v) \/ StrSame(u, v), StrLess(v, w) \/ StrSame(v, w)
      PROVE  StrLess(u, w) \/ StrSame(u, w)
  <2>1. CASE StrLess(u, v) /\ StrLess(v, w)
    BY <2>1, StrLessTransitive
  <2>2. CASE StrSame(u, v)
    BY <1>4, <2>2 DEF StrSame, StrLess, Agree
  <2>3. CASE StrSame(v, w)
    BY <1>4, <2>3 DEF StrSame, StrLess, Agree
  <2> QED BY <1>4, <2>1, <2>2, <2>3
<1>5. \A u, v \in V : CompareValues(u, v) <= 0 <=> StrLess(u, v) \/ StrSame(u, v)
  BY <1>1
<1>6. ASSUME NEW u \in V, NEW v \in V, NEW w \in V,
             CompareValues(u, v) <= 0, CompareValues(v, w) <= 0
      PROVE  CompareValues(u, w) <= 0
  BY <1>4, <1>5, <1>6
<1> QED BY <1>1, <1>3, <1>6 DEF Compares

\* utils_compare_values orders values that are all numbers or all not.
LEMMA OrderedCompare ==
  ASSUME NEW V \in SUBSET Texts, Ordered(V)
  PROVE  Compares(V)
  BY NumbersCompare, TextsCompare DEF Ordered

\* A value equals itself, however it is compared.
LEMMA CompareSelf ==
  ASSUME NEW v \in Texts
  PROVE  CompareValues(v, v) = 0
<1>1. StrSame(v, v)
  BY DEF StrSame
<1>2. StrCmp(v, v) = 0
  BY <1>1, StrCmpIs
<1>3. CASE IsInteger(v)
  <2>1. PICK a \in Int : a = ParseInteger(v)
    BY <1>3, ParseIntegerType
  <2>2. a - a \in Int /\ a - a = 0
    OBVIOUS
  <2>3. Sign(a - a) = 0
    BY <2>2, SignIs
  <2> QED BY <1>3, <2>1, <2>3 DEF CompareValues
<1>4. CASE ~IsInteger(v)
  BY <1>2, <1>4 DEF CompareValues
<1> QED BY <1>3, <1>4

-----------------------------------------------------------------------------
(* The sorted entries of index_build *)

\* What index_build needs of a loaded table: as many offsets as rows, all of
\* them different, and texts in the column.
Indexable(table, col, n) ==
  /\ n \in Nat /\ DOMAIN table.rows = 1 .. n
  /\ table.offsets \in Seq(Nat) /\ Len(table.offsets) = n
  /\ \A k \in 1 .. n : table.rows[k][col] \in Texts /\ table.offsets[k] \in Nat
  /\ \A j, k \in 1 .. n : table.offsets[j] = table.offsets[k] => j = k

Entry(table, col, k) == [key |-> table.rows[k][col], offset |-> table.offsets[k]]
Entries(table, col)  == {Entry(table, col, k) : k \in DOMAIN table.rows}
Keys(table, col)     == {table.rows[k][col] : k \in DOMAIN table.rows}
Before(E) == {pair \in E \X E : EntryBefore(pair[1], pair[2])}

\* Elements of the order, apart from tables.
EntrySet(E, V) ==
  /\ \A e \in E : e.key \in V /\ e.offset \in Nat
  /\ \A e, f \in E : e.offset = f.offset => e = f

LEMMA EntriesFacts ==
  ASSUME NEW table, NEW col, NEW n, Indexable(table, col, n)
  PROVE  IsFiniteSet(Entries(table, col)) /\ EntrySet(Entries(table, col), Keys(table, col))
<1> DEFINE E == Entries(table, col)
           V == Keys(table, col)
<1>1. n \in Nat /\ DOMAIN table.rows = 1 .. n
  BY DEF Indexable
<1>2. IsFiniteSet(E)
  <2> DEFINE f == [k \in 1 .. n |-> Entry(table, col, k)]
  <2>1. f \in Surjection(1 .. n, E)
    <3>1. f \in [1 .. n -> E]
      BY <1>1 DEF Entries
    <3>2. \A e \in E : \E k \in 1 .. n : f[k] = e
      BY <1>1 DEF Entries
    <3> HIDE DEF f, E
    <3> QED BY <3>1, <3>2 DEF Surjection
  <2>2. IsFiniteSet(1 .. n)
    BY <1>1, FS_Interval
  <2> HIDE DEF f, E
  <2> QED BY <2>1, <2>2, FS_Surjection
<1>3. ASSUME NEW e \in E
      PROVE  \E k \in 1 .. n : e = Entry(table, col, k) /\ e.key = table.rows[k][col]
                               /\ e.offset = table.offsets[k]
  BY <1>1 DEF Entries, Entry
<1>4. ASSUME NEW e \in E PROVE e.key \in V /\ e.offset \in Nat
  BY <1>1, <1>3 DEF Keys, Indexable
<1>5. ASSUME NEW e \in E, NEW f \in E, e.offset = f.offset PROVE e = f
  <2>1. PICK j \in 1 .. n : e = Entry(table, col, j) /\ e.offset = table.offsets[j]
    BY <1>3
  <2>2. PICK k \in 1 .. n : f = Entry(table, col, k) /\ f.offset = table.offsets[k]
    BY <1>3
  <2>3. j = k
    BY <1>5, <2>1, <2>2 DEF Indexable
  <2> QED BY <2>1, <2>2, <2>3
<1> QED BY <1>2, <1>4, <1>5 DEF EntrySet

\* index_compare_range_entries is a strict total order.
LEMMA EntriesOrdered ==
  ASSUME NEW V, Compares(V), NEW E, EntrySet(E, V)
  PROVE  Orders(Before(E), E)
<1> DEFINE C(e, f) == CompareValues(e.key, f.key)
<1>1. \A e, f \in E : <<e, f>> \in Before(E) <=> C(e, f) < 0 \/ (C(e, f) = 0 /\ e.offset < f.offset)
  BY DEF Before, EntryBefore
<1>2. \A e \in E : e.key \in V /\ e.offset \in Nat
  BY DEF EntrySet
<1>3. \A e, f \in E : C(e, f) \in {-1, 0, 1} /\ C(f, e) = 0 - C(e, f)
  BY <1>2 DEF Compares
<1>4. \A e, f, g \in E : C(e, f) <= 0 /\ C(f, g) <= 0 => C(e, g) <= 0
  BY <1>2 DEF Compares
<1> HIDE DEF C
<1>5. ASSUME NEW e \in E PROVE <<e, e>> \notin Before(E)
  <2>1. C(e, e) \in {-1, 0, 1} /\ C(e, e) = 0 - C(e, e) /\ ~(e.offset < e.offset)
    BY <1>2, <1>3
  <2> QED BY <1>1, <2>1
<1>6. ASSUME NEW e \in E, NEW f \in E, e # f PROVE <<e, f>> \in Before(E) \/ <<f, e>> \in Before(E)
  <2>1. e.offset # f.offset /\ e.offset \in Nat /\ f.offset \in Nat
    BY <1>2, <1>6 DEF EntrySet
  <2>2. C(e, f) \in {-1, 0, 1} /\ C(f, e) = 0 - C(e, f)
    BY <1>3
  <2>3. \/ C(e, f) < 0 \/ (C(e, f) = 0 /\ e.offset < f.offset)
        \/ C(f, e) < 0 \/ (C(f, e) = 0 /\ f.offset < e.offset)
    BY <2>1, <2>2
  <2> QED BY <1>1, <2>3
<1>7. ASSUME NEW e \in E, NEW f \in E, NEW g \in E, <<e, f>> \in Before(E), <<f, g>> \in Before(E)
      PROVE  <<e, g>> \in Before(E)
  <2>1. /\ C(e, f) < 0 \/ (C(e, f) = 0 /\ e.offset < f.offset)
        /\ C(f, g) < 0 \/ (C(f, g) = 0 /\ f.offset < g.offset)
    BY <1>1, <1>7
  <2>2. /\ C(e, f) \in {-1, 0, 1} /\ C(f, g) \in {-1, 0, 1} /\ C(e, g) \in {-1, 0, 1}
        /\ C(g, f) = 0 - C(f, g) /\ C(f, e) = 0 - C(e, f) /\ C(g, e) = 0 - C(e, g)
    BY <1>3
  <2>3. e.offset \in Nat /\ f.offset \in Nat /\ g.offset \in Nat
    BY <1>2
  <2>4. C(e, g) <= 0
    BY <1>4, <2>1, <2>2
  <2>5. C(g, e) <= 0 => C(f, e) <= 0 /\ C(g, f) <= 0
    BY <1>4, <2>1, <2>2
  <2>6. C(e, g) < 0 \/ (C(e, g) = 0 /\ e.offset < g.offset)
    BY <2>1, <2>2, <2>3, <2>4, <2>5
  <2> QED BY <1>1, <2>6
<1> QED BY <1>5, <1>6, <1>7 DEF Orders

\* qsort sorts.
LEMMA RangeEntriesSorted ==
  ASSUME NEW table, NEW col, NEW n, Indexable(table, col, n), Compares(Keys(table, col))
  PROVE  Sorts(RangeEntries(table, col), Before(Entries(table, col)), Entries(table, col))
<1> DEFINE E == Entries(table, col)
           R == Before(E)
           s == RangeEntries(table, col)
<1>1. IsFiniteSet(E) /\ Orders(R, E)
  BY EntriesFacts, EntriesOrdered
<1>2. s = [m \in 1 .. Cardinality(E) |->
             CHOOSE e \in E : Cardinality({f \in E : EntryBefore(f, e)}) = m - 1]
  BY DEF RangeEntries, Entries, Entry
<1>3. \A e \in E : {f \in E : EntryBefore(f, e)} = Preceding(R, E, e)
  BY DEF Preceding, Before
<1> HIDE DEF E, R, s
<1>4. s = [m \in 1 .. Cardinality(E) |-> s[m]]
  <2> DEFINE x(m) == CHOOSE e \in E : Cardinality({f \in E : EntryBefore(f, e)}) = m - 1
  <2>1. s = [m \in 1 .. Cardinality(E) |-> x(m)]
    BY <1>2
  <2> HIDE DEF x
  <2> QED BY <2>1
<1>5. ASSUME NEW m \in 1 .. Cardinality(E), NEW a \in E, Place(R, E, a) = m - 1
      PROVE  s[m] \in E /\ Place(R, E, s[m]) = m - 1
  <2>1. s[m] = CHOOSE e \in E : Cardinality({f \in E : EntryBefore(f, e)}) = m - 1
    BY <1>2
  <2>2. \A e \in E : Cardinality({f \in E : EntryBefore(f, e)}) = Place(R, E, e)
    BY <1>3 DEF Place
  <2>3. Cardinality({f \in E : EntryBefore(f, a)}) = m - 1
    BY <1>5, <2>2
  <2>4. s[m] \in E /\ Cardinality({f \in E : EntryBefore(f, s[m])}) = m - 1
    BY <2>1, <2>3
  <2> QED BY <2>2, <2>4
<1>6. Sorts(s, R, E)
  BY <1>1, <1>4, <1>5, PlaceSorts
<1> QED BY <1>6 DEF s, R, E

-----------------------------------------------------------------------------
(* What a query answers *)

\* es holds the elements of s at the positions K, each once.
Selects(es, s, K) ==
  /\ \A i \in DOMAIN es : \E k \in K : es[i] = s[k]
  /\ \A k \in K : \E i \in DOMAIN es : es[i] = s[k]
  /\ \A i, j \in DOMAIN es : es[i] = es[j] => i = j

Offsets(es) == [i \in DOMAIN es |-> es[i].offset]

LEMMA SubSeqSelects ==
  ASSUME NEW A, NEW s \in Seq(A), \A j, k \in 1 .. Len(s) : s[j] = s[k] => j = k,
         NEW m \in 1 .. Len(s) + 1, NEW n \in m - 1 .. Len(s)
  PROVE  Selects(SubSeq(s, m, n), s, m .. n)
<1> DEFINE es == SubSeq(s, m, n)
<1>1. Len(s) \in Nat /\ m \in Nat \ {0} /\ n \in Nat
  BY LenProperties
<1>2. es \in Seq(A) /\ Len(es) = n - m + 1 /\ \A i \in 1 .. n - m + 1 : es[i] = s[m + i - 1]
  BY SubSeqFacts
<1>3. DOMAIN es = 1 .. n - m + 1
  BY <1>2, LenProperties
<1> HIDE DEF es
<1>4. ASSUME NEW i \in DOMAIN es PROVE m + i - 1 \in m .. n /\ es[i] = s[m + i - 1]
  BY <1>1, <1>2, <1>3
<1>5. ASSUME NEW k \in m .. n PROVE \E i \in DOMAIN es : es[i] = s[k]
  <2>1. k - m + 1 \in 1 .. n - m + 1 /\ m + (k - m + 1) - 1 = k
    BY <1>1
  <2>2. es[k - m + 1] = s[k]
    BY <1>2, <2>1
  <2> QED BY <1>3, <2>1, <2>2
<1>6. ASSUME NEW i \in DOMAIN es, NEW j \in DOMAIN es, es[i] = es[j] PROVE i = j
  <2>1. i \in Int /\ j \in Int /\ m + i - 1 \in 1 .. Len(s) /\ m + j - 1 \in 1 .. Len(s)
    BY <1>1, <1>3
  <2>2. m + i - 1 = m + j - 1
    BY <1>4, <1>6, <2>1
  <2> QED BY <1>1, <2>1, <2>2
<1>7. Selects(es, s, m .. n)
  BY <1>4, <1>5, <1>6 DEF Selects
<1> QED BY <1>7 DEF es

LEMMA AtSelects ==
  ASSUME NEW A, NEW s \in Seq(A), \A j, k \in 1 .. Len(s) : s[j] = s[k] => j = k,
         NEW K \in SUBSET (1 .. Len(s))
  PROVE  Selects(At(s, K), s, K)
<1> DEFINE es == At(s, K)
           c  == Cardinality(K)
<1>1. Len(s) \in Nat
  BY LenProperties
<1>2. /\ es \in Seq(A) /\ Len(es) = c /\ c \in Nat
      /\ \A i \in 1 .. c : InOrder(K)[i] \in K /\ es[i] = s[InOrder(K)[i]]
  BY AtFacts
<1>3. DOMAIN es = 1 .. c
  BY <1>2, LenProperties
<1>4. \A k \in K : \E i \in 1 .. c : InOrder(K)[i] = k
  BY <1>1, InOrderFacts
<1>5. \A i, j \in 1 .. c : InOrder(K)[i] = InOrder(K)[j] => i = j
  BY <1>1, InOrderOnce
<1> HIDE DEF es, c
<1>6. \A i \in DOMAIN es : \E k \in K : es[i] = s[k]
  BY <1>2, <1>3
<1>7. \A k \in K : \E i \in DOMAIN es : es[i] = s[k]
  BY <1>2, <1>3, <1>4
<1>8. ASSUME NEW i \in DOMAIN es, NEW j \in DOMAIN es, es[i] = es[j] PROVE i = j
  <2>1. InOrder(K)[i] \in 1 .. Len(s) /\ InOrder(K)[j] \in 1 .. Len(s)
    BY <1>2, <1>3
  <2>2. InOrder(K)[i] = InOrder(K)[j]
    BY <1>2, <1>3, <1>8, <2>1
  <2> QED BY <1>3, <1>5, <2>2
<1>9. Selects(es, s, K)
  BY <1>6, <1>7, <1>8 DEF Selects
<1> QED BY <1>9 DEF es

\* The offsets of the entries whose keys hold are what a scan finds.
LEMMA AnswerIsScan ==
  ASSUME NEW table, NEW col, NEW n, Indexable(table, col, n), NEW op, NEW value,
         NEW s, Sorts(s, Before(Entries(table, col)), Entries(table, col)),
         NEW K \in SUBSET (1 .. Len(s)),
         \A k \in 1 .. Len(s) : k \in K <=> Holds(s[k].key, op, value),
         NEW es, Selects(es, s, K)
  PROVE  ToSet(Offsets(es)) = Scan(table, col, op, value) /\ IsInjective(Offsets(es))
<1> DEFINE E == Entries(table, col)
           a == Offsets(es)
<1>1. DOMAIN table.rows = 1 .. n
  BY DEF Indexable
<1>2. ASSUME NEW k \in 1 .. n
      PROVE  /\ Entry(table, col, k) \in E /\ Entry(table, col, k).key = table.rows[k][col]
             /\ Entry(table, col, k).offset = table.offsets[k]
  BY <1>1 DEF Entries, Entry
<1>3. \A e \in E : \E k \in 1 .. n : e = Entry(table, col, k)
  BY <1>1 DEF Entries
<1>4. \A e, f \in E : e.offset = f.offset => e = f
  BY EntriesFacts DEF EntrySet
<1>5. /\ \A k \in 1 .. Len(s) : s[k] \in E
      /\ \A e \in E : \E k \in 1 .. Len(s) : s[k] = e
  BY ElementOfSeq DEF Sorts
<1>6. DOMAIN a = DOMAIN es /\ \A i \in DOMAIN es : a[i] = es[i].offset
  BY DEF Offsets
<1>7. \A x : x \in Scan(table, col, op, value) <=>
             \E k \in 1 .. n : x = table.offsets[k] /\ Holds(table.rows[k][col], op, value)
  BY <1>1 DEF Scan
<1>8. \A x : x \in ToSet(a) <=> \E i \in DOMAIN es : x = es[i].offset
  BY <1>6 DEF ToSet
<1> HIDE DEF E, a
<1>9. ASSUME NEW i \in DOMAIN es PROVE es[i].offset \in Scan(table, col, op, value)
  <2>1. PICK k \in K : es[i] = s[k]
    BY DEF Selects
  <2>2. s[k] \in E /\ Holds(s[k].key, op, value)
    BY <1>5, <2>1
  <2>3. PICK l \in 1 .. n : s[k] = Entry(table, col, l)
    BY <1>3, <2>2
  <2>4. s[k].key = table.rows[l][col] /\ s[k].offset = table.offsets[l]
    BY <1>2, <2>3
  <2> QED BY <1>7, <2>1, <2>2, <2>4
<1>10. ASSUME NEW l \in 1 .. n, Holds(table.rows[l][col], op, value)
       PROVE  table.offsets[l] \in ToSet(a)
  <2>1. PICK k \in 1 .. Len(s) : s[k] = Entry(table, col, l)
    BY <1>2, <1>5
  <2>2. s[k].key = table.rows[l][col] /\ s[k].offset = table.offsets[l]
    BY <1>2, <2>1
  <2>3. k \in K
    BY <1>10, <2>2
  <2>4. PICK i \in DOMAIN es : es[i] = s[k]
    BY <2>3 DEF Selects
  <2> QED BY <1>8, <2>2, <2>4
<1>11. ToSet(a) = Scan(table, col, op, value)
  BY <1>7, <1>8, <1>9, <1>10
<1>12. ASSUME NEW i \in DOMAIN es, NEW j \in DOMAIN es, es[i].offset = es[j].offset PROVE i = j
  <2>1. es[i] \in E /\ es[j] \in E
    BY <1>5 DEF Selects
  <2>2. es[i] = es[j]
    BY <1>4, <1>12, <2>1
  <2> QED BY <2>2 DEF Selects
<1>13. IsInjective(a)
  BY <1>6, <1>12 DEF IsInjective
<1> QED BY <1>11, <1>13 DEF a

\* In the sorted entries those with a lesser key come first, then those with
\* the same key.
LEMMA BoundsExist ==
  ASSUME NEW table, NEW col, NEW n, Indexable(table, col, n),
         NEW value \in Texts, Compares(Keys(table, col) \cup {value}),
         NEW s, Sorts(s, Before(Entries(table, col)), Entries(table, col))
  PROVE  /\ \A k \in 1 .. Len(s) : CompareValues(s[k].key, value) \in {-1, 0, 1}
         /\ \E c \in 0 .. Len(s) : Less(s, value) = 1 .. c
         /\ \E c \in 0 .. Len(s) : Less(s, value) \cup Same(s, value) = 1 .. c
<1> DEFINE V == Keys(table, col) \cup {value}
           E == Entries(table, col)
           N == Len(s)
           C(k) == CompareValues(s[k].key, value)
<1>1. /\ N \in Nat /\ DOMAIN s = 1 .. N
      /\ \A j, k \in 1 .. N : j < k => <<s[j], s[k]>> \in Before(E)
  BY DEF Sorts
<1>2. \A k \in 1 .. N : s[k] \in E
  BY ElementOfSeq DEF Sorts
<1>3. \A k \in 1 .. N : s[k].key \in V
  BY <1>2, EntriesFacts DEF EntrySet
<1>4. \A j, k \in 1 .. N : j < k => CompareValues(s[j].key, s[k].key) <= 0
  <2> SUFFICES ASSUME NEW j \in 1 .. N, NEW k \in 1 .. N, j < k
               PROVE  CompareValues(s[j].key, s[k].key) <= 0
    OBVIOUS
  <2>1. EntryBefore(s[j], s[k])
    BY <1>1 DEF Before
  <2>2. CompareValues(s[j].key, s[k].key) \in {-1, 0, 1}
    BY <1>3 DEF Compares
  <2> QED BY <2>1, <2>2 DEF EntryBefore
<1>5. \A k \in 1 .. N : C(k) \in {-1, 0, 1}
  BY <1>3 DEF Compares
<1>6. ASSUME NEW j \in 1 .. N, NEW k \in 1 .. N, k < j
      PROVE  (C(j) <= 0 => C(k) <= 0) /\ (C(j) < 0 => C(k) < 0)
  <2> DEFINE a == s[k].key
             b == s[j].key
  <2>1. a \in V /\ b \in V /\ value \in V
    BY <1>3
  <2>2. CompareValues(a, b) <= 0
    BY <1>4, <1>6
  <2> HIDE DEF a, b, V
  <2>3. /\ CompareValues(a, value) \in {-1, 0, 1} /\ CompareValues(b, value) \in {-1, 0, 1}
        /\ CompareValues(value, a) = 0 - CompareValues(a, value)
        /\ CompareValues(value, b) = 0 - CompareValues(b, value)
    BY <2>1 DEF Compares, V
  <2>4. CompareValues(b, value) <= 0 => CompareValues(a, value) <= 0
    BY <2>1, <2>2 DEF Compares, V
  <2>5. CompareValues(value, a) <= 0 => CompareValues(value, b) <= 0
    BY <2>1, <2>2 DEF Compares, V
  <2>6. /\ CompareValues(b, value) <= 0 => CompareValues(a, value) <= 0
        /\ CompareValues(b, value) < 0 => CompareValues(a, value) < 0
    BY <2>3, <2>4, <2>5
  <2> QED BY <2>6 DEF a, b
<1>7. /\ \A k : k \in Less(s, value) <=> k \in 1 .. N /\ C(k) < 0
      /\ \A k : k \in Same(s, value) <=> k \in 1 .. N /\ C(k) = 0
  BY <1>1 DEF Less, Same
<1> HIDE DEF C, N
<1>8. \E c \in 0 .. N : Less(s, value) = 1 .. c
  <2> DEFINE S == Less(s, value)
  <2>1. S \in SUBSET (1 .. N) /\ \A j \in S, k \in 1 .. N : k < j => k \in S
    BY <1>6, <1>7
  <2> HIDE DEF S
  <2>2. \E c \in 0 .. N : S = 1 .. c
    BY <1>1, <2>1, FirstOnes
  <2> QED BY <2>2 DEF S
<1>9. \E c \in 0 .. N : Less(s, value) \cup Same(s, value) = 1 .. c
  <2> DEFINE S == Less(s, value) \cup Same(s, value)
  <2>1. \A k : k \in S <=> k \in 1 .. N /\ C(k) <= 0
    BY <1>5, <1>7
  <2> HIDE DEF S
  <2>2. S \in SUBSET (1 .. N) /\ \A j \in S, k \in 1 .. N : k < j => k \in S
    BY <1>6, <2>1
  <2>3. \E c \in 0 .. N : S = 1 .. c
    BY <1>1, <2>2, FirstOnes
  <2> QED BY <2>3 DEF S
<1> QED BY <1>5, <1>8, <1>9 DEF N, C

\* index_query_range finds what a scan finds.
LEMMA RangeIsScan ==
  ASSUME NEW table, NEW col, NEW n, Indexable(table, col, n),
         NEW value \in Texts, Compares(Keys(table, col) \cup {value}),
         NEW op \in Operators \ {"="}
  PROVE  /\ ToSet(QueryRange(table, col, op, value)) = Scan(table, col, op, value)
         /\ IsInjective(QueryRange(table, col, op, value))
<1> DEFINE s == RangeEntries(table, col)
           E == Entries(table, col)
           N == Len(s)
           C(k) == CompareValues(s[k].key, value)
           Good(es) == /\ ToSet(Offsets(es)) = Scan(table, col, op, value)
                       /\ IsInjective(Offsets(es))
<1>1. Compares(Keys(table, col))
  BY DEF Compares
<1>2. Sorts(s, Before(E), E)
  BY <1>1, RangeEntriesSorted
<1>3. QueryRange(table, col, op, value) =
        CASE op = "!=" -> Offsets(At(s, DOMAIN s \ Same(s, value)))
          [] op = ">"  -> Offsets(SubSeq(s, UpperBound(s, value) + 1, N))
          [] op = ">=" -> Offsets(SubSeq(s, LowerBound(s, value) + 1, N))
          [] op = "<"  -> Offsets(SubSeq(s, 1, LowerBound(s, value)))
          [] op = "<=" -> Offsets(SubSeq(s, 1, UpperBound(s, value)))
  BY DEF QueryRange, Offsets
<1> HIDE DEF s, E
<1>4. /\ s \in Seq(E) /\ N \in Nat /\ DOMAIN s = 1 .. N
      /\ \A j, k \in 1 .. N : s[j] = s[k] => j = k
  BY <1>2 DEF Sorts
<1>5. /\ \A k \in 1 .. N : C(k) \in {-1, 0, 1}
      /\ \E c \in 0 .. N : Less(s, value) = 1 .. c
      /\ \E c \in 0 .. N : Less(s, value) \cup Same(s, value) = 1 .. c
  BY <1>2, BoundsExist DEF E
<1>6. PICK lower \in 0 .. N : Less(s, value) = 1 .. lower
  BY <1>5
<1>7. PICK upper \in 0 .. N : Less(s, value) \cup Same(s, value) = 1 .. upper
  BY <1>5
<1>8. LowerBound(s, value) = lower /\ UpperBound(s, value) = upper
  BY <1>4, <1>6, <1>7, BisectIs DEF LowerBound, UpperBound
<1>9. /\ \A k \in 1 .. N : k \in Less(s, value) <=> C(k) < 0
      /\ \A k \in 1 .. N : k \in Same(s, value) <=> C(k) = 0
  BY <1>4 DEF Less, Same
<1>10. \A k \in 1 .. N : (k <= lower <=> C(k) < 0) /\ (k <= upper <=> C(k) <= 0)
  <2> HIDE DEF C, N
  <2>1. ASSUME NEW k \in 1 .. N PROVE k <= lower <=> C(k) < 0
    BY <1>4, <1>6, <1>9
  <2>2. ASSUME NEW k \in 1 .. N PROVE k <= upper <=> C(k) <= 0
    BY <1>4, <1>5, <1>7, <1>9
  <2> QED BY <2>1, <2>2
<1>11. ASSUME NEW K \in SUBSET (1 .. N), \A k \in 1 .. N : k \in K <=> Holds(s[k].key, op, value),
              NEW es, Selects(es, s, K)
       PROVE  Good(es)
  BY <1>2, <1>11, AnswerIsScan DEF E
<1>12. ASSUME NEW k \in 1 .. N
       PROVE  Holds(s[k].key, op, value) <=> CASE op = "!=" -> C(k) # 0
                                               [] op = ">"  -> C(k) > 0
                                               [] op = "<"  -> C(k) < 0
                                               [] op = ">=" -> C(k) >= 0
                                               [] op = "<=" -> C(k) <= 0
  BY DEF Holds, Operators
<1> HIDE DEF C, N, Good
<1>13. CASE op = "!="
  <2> DEFINE K == 1 .. N \ Same(s, value)
  <2>1. \A k \in 1 .. N : k \in K <=> Holds(s[k].key, op, value)
    BY <1>9, <1>12, <1>13
  <2>2. K \in SUBSET (1 .. N)
    OBVIOUS
  <2> HIDE DEF K
  <2>3. Selects(At(s, K), s, K)
    BY <1>4, <2>2, AtSelects DEF N
  <2>4. Good(At(s, K))
    BY <1>11, <2>1, <2>2, <2>3
  <2>5. QueryRange(table, col, op, value) = Offsets(At(s, K))
    BY <1>3, <1>4, <1>13 DEF K
  <2> QED BY <2>4, <2>5 DEF Good
<1>14. CASE op = ">"
  <2> DEFINE K == upper + 1 .. N
  <2>1. \A k \in 1 .. N : k \in K <=> Holds(s[k].key, op, value)
    BY <1>4, <1>5, <1>10, <1>12, <1>14
  <2>2. K \in SUBSET (1 .. N) /\ upper + 1 \in 1 .. N + 1 /\ N \in upper + 1 - 1 .. N
    BY <1>4
  <2> HIDE DEF K
  <2>3. Selects(SubSeq(s, upper + 1, N), s, K)
    BY <1>4, <2>2, SubSeqSelects DEF N, K
  <2>4. Good(SubSeq(s, upper + 1, N))
    BY <1>11, <2>1, <2>2, <2>3
  <2>5. QueryRange(table, col, op, value) = Offsets(SubSeq(s, upper + 1, N))
    BY <1>3, <1>8, <1>14
  <2> QED BY <2>4, <2>5 DEF Good
<1>15. CASE op = ">="
  <2> DEFINE K == lower + 1 .. N
  <2>1. \A k \in 1 .. N : k \in K <=> Holds(s[k].key, op, value)
    BY <1>4, <1>5, <1>10, <1>12, <1>15
  <2>2. K \in SUBSET (1 .. N) /\ lower + 1 \in 1 .. N + 1 /\ N \in lower + 1 - 1 .. N
    BY <1>4
  <2> HIDE DEF K
  <2>3. Selects(SubSeq(s, lower + 1, N), s, K)
    BY <1>4, <2>2, SubSeqSelects DEF N, K
  <2>4. Good(SubSeq(s, lower + 1, N))
    BY <1>11, <2>1, <2>2, <2>3
  <2>5. QueryRange(table, col, op, value) = Offsets(SubSeq(s, lower + 1, N))
    BY <1>3, <1>8, <1>15
  <2> QED BY <2>4, <2>5 DEF Good
<1>16. CASE op = "<"
  <2> DEFINE K == 1 .. lower
  <2>1. \A k \in 1 .. N : k \in K <=> Holds(s[k].key, op, value)
    BY <1>4, <1>5, <1>10, <1>12, <1>16
  <2>2. K \in SUBSET (1 .. N) /\ 1 \in 1 .. N + 1 /\ lower \in 1 - 1 .. N
    BY <1>4
  <2> HIDE DEF K
  <2>3. Selects(SubSeq(s, 1, lower), s, K)
    BY <1>4, <2>2, SubSeqSelects DEF N, K
  <2>4. Good(SubSeq(s, 1, lower))
    BY <1>11, <2>1, <2>2, <2>3
  <2>5. QueryRange(table, col, op, value) = Offsets(SubSeq(s, 1, lower))
    BY <1>3, <1>8, <1>16
  <2> QED BY <2>4, <2>5 DEF Good
<1>17. CASE op = "<="
  <2> DEFINE K == 1 .. upper
  <2>1. \A k \in 1 .. N : k \in K <=> Holds(s[k].key, op, value)
    BY <1>4, <1>5, <1>10, <1>12, <1>17
  <2>2. K \in SUBSET (1 .. N) /\ 1 \in 1 .. N + 1 /\ upper \in 1 - 1 .. N
    BY <1>4
  <2> HIDE DEF K
  <2>3. Selects(SubSeq(s, 1, upper), s, K)
    BY <1>4, <2>2, SubSeqSelects DEF N, K
  <2>4. Good(SubSeq(s, 1, upper))
    BY <1>11, <2>1, <2>2, <2>3
  <2>5. QueryRange(table, col, op, value) = Offsets(SubSeq(s, 1, upper))
    BY <1>3, <1>8, <1>17
  <2> QED BY <2>4, <2>5 DEF Good
<1> QED BY <1>13, <1>14, <1>15, <1>16, <1>17 DEF Operators

\* index_query_equals finds what a scan finds where a number has one spelling.
LEMMA EqualsIsScan ==
  ASSUME NEW table, NEW col, NEW n, Indexable(table, col, n), NEW value \in Texts,
         SpelledAlike(Keys(table, col) \cup {value})
  PROVE  /\ ToSet(QueryEquals(table, col, value)) = Scan(table, col, "=", value)
         /\ IsInjective(QueryEquals(table, col, value))
<1> DEFINE K == {k \in 1 .. n : table.rows[k][col] = value}
           a == QueryEquals(table, col, value)
<1>1. /\ n \in Nat /\ DOMAIN table.rows = 1 .. n
      /\ table.offsets \in Seq(Nat) /\ Len(table.offsets) = n
      /\ \A j, k \in 1 .. n : table.offsets[j] = table.offsets[k] => j = k
  BY DEF Indexable
<1>2. ASSUME NEW k \in 1 .. n PROVE Holds(table.rows[k][col], "=", value) <=> k \in K
  <2>1. table.rows[k][col] \in Keys(table, col) \cup {value}
    BY <1>1 DEF Keys
  <2>2. CompareValues(table.rows[k][col], value) = 0 => table.rows[k][col] = value
    BY <2>1 DEF SpelledAlike
  <2>3. CompareValues(value, value) = 0
    BY CompareSelf
  <2>4. CompareValues(table.rows[k][col], value) = 0 <=> table.rows[k][col] = value
    BY <2>2, <2>3
  <2>5. Holds(table.rows[k][col], "=", value) <=> CompareValues(table.rows[k][col], value) = 0
    BY DEF Holds
  <2> QED BY <2>4, <2>5
<1>3. \A x : x \in Scan(table, col, "=", value) <=> \E k \in K : x = table.offsets[k]
  BY <1>1, <1>2 DEF Scan
<1>4. Selects(At(table.offsets, K), table.offsets, K)
  <2>1. K \in SUBSET (1 .. Len(table.offsets))
    BY <1>1
  <2> HIDE DEF K
  <2> QED BY <1>1, <2>1, AtSelects
<1>5. CASE K # {}
  <2>1. a = At(table.offsets, K)
    <3>1. K = {k \in DOMAIN table.rows : table.rows[k][col] = value}
      BY <1>1
    <3>2. value \in {table.rows[k][col] : k \in DOMAIN table.rows}
      BY <1>1, <1>5
    <3> QED BY <3>1, <3>2 DEF QueryEquals, EqualityIndex
  <2> HIDE DEF K, a
  <2>2. ToSet(a) = Scan(table, col, "=", value)
    BY <1>3, <1>4, <2>1 DEF Selects, ToSet
  <2>3. IsInjective(a)
    BY <1>4, <2>1 DEF Selects, IsInjective
  <2> QED BY <2>2, <2>3 DEF a
<1>6. CASE K = {}
  <2>1. a = <<>>
    <3>1. value \notin {table.rows[k][col] : k \in DOMAIN table.rows}
      BY <1>1, <1>6
    <3> QED BY <3>1 DEF QueryEquals, EqualityIndex
  <2>2. Scan(table, col, "=", value) = {}
    BY <1>3, <1>6
  <2> HIDE DEF a, K
  <2>3. ToSet(a) = {} /\ IsInjective(a)
    BY <2>1 DEF ToSet, IsInjective
  <2> QED BY <2>2, <2>3 DEF a
<1> QED BY <1>5, <1>6

\* An index over a column of a loaded table answers every query as a scan of
\* the rows does: the hash table in the columns where a number has one
\* spelling, the bisection in the columns that CompareValues orders.
THEOREM IndexIsScan ==
  ASSUME NEW table, NEW col, NEW n, Indexable(table, col, n), NEW value \in Texts
  PROVE  IndexAgreesWithScan(table, col, value)
<1> DEFINE V == Keys(table, col) \cup {value}
           Good(op) == /\ ToSet(Query(table, col, op, value)) = Scan(table, col, op, value)
                       /\ IsInjective(Query(table, col, op, value))
<1>1. ASSUME SpelledAlike(V) PROVE Good("=")
  <2>1. Query(table, col, "=", value) = QueryEquals(table, col, value)
    BY DEF Query
  <2> QED BY <1>1, <2>1, EqualsIsScan
<1>2. ASSUME NEW op \in Operators \ {"="}, Ordered(V) PROVE Good(op)
  <2>1. Query(table, col, op, value) = QueryRange(table, col, op, value)
    BY DEF Query
  <2>2. V \in SUBSET Texts
    BY DEF Keys, Indexable
  <2>3. Compares(V)
    BY <1>2, <2>2, OrderedCompare
  <2> QED BY <2>1, <2>3, RangeIsScan
<1>3. \A op \in Operators : (IF op = "=" THEN SpelledAlike(V) ELSE Ordered(V)) => Good(op)
  <2> HIDE DEF V, Good
  <2> QED BY <1>1, <1>2
<1> QED BY <1>3 DEF IndexAgreesWithScan, Keys
=============================================================================

---------------------------- MODULE BPTreeProofs ----------------------------
(***************************************************************************)
(* Proofs about BPTree, for every number of keys in a node, every set of    *)
(* ids, every order of insertions and allocations that fail.  The lemmas    *)
(* on induction, recursion and sequences are those of TableTextProofs.      *)
(***************************************************************************)
EXTENDS BPTree, TableTextProofs

-----------------------------------------------------------------------------
(* Positions in the keys of a node *)

Ascending(keys) == \A i, j \in 1 .. Len(keys) : i < j => keys[i] < keys[j]

\* x belongs under the p-th child of a node with these keys.
InSlot(keys, p, x) ==
  (p > 1 => keys[p - 1] <= x) /\ (p <= Len(keys) => x < keys[p])

\* t is s with e put in, the first h elements of s, the elements after these.
Extends(t, s, pos, e) ==
  /\ Len(t) = Len(s) + 1 /\ t[pos] = e
  /\ \A i \in 1 .. pos - 1 : t[i] = s[i]
  /\ \A i \in pos + 1 .. Len(s) + 1 : t[i] = s[i - 1]
Starts(t, s, h) == Len(t) = h /\ \A i \in 1 .. h : t[i] = s[i]
Ends(t, s, h) == Len(t) = Len(s) - h /\ \A i \in 1 .. Len(s) - h : t[i] = s[h + i]

LEMMA InsertAtIs ==
  ASSUME NEW A, NEW s \in Seq(A), NEW pos \in 1 .. Len(s) + 1, NEW e \in A
  PROVE  InsertAt(s, pos, e) \in Seq(A) /\ Extends(InsertAt(s, pos, e), s, pos, e)
<1> DEFINE a == SubSeq(s, 1, pos - 1)
           b == SubSeq(s, pos, Len(s))
           t == a \o <<e>>
<1>0. Len(s) \in Nat /\ pos \in Nat
  BY LenProperties
<1>1. /\ a \in Seq(A) /\ Len(a) = pos - 1 /\ \A i \in 1 .. pos - 1 : a[i] = s[i]
  <2>1. 1 \in 1 .. Len(s) + 1 /\ pos - 1 \in 1 - 1 .. Len(s) /\ (pos - 1) - 1 + 1 = pos - 1
    BY <1>0
  <2>2. /\ a \in Seq(A) /\ Len(a) = (pos - 1) - 1 + 1
        /\ \A i \in 1 .. (pos - 1) - 1 + 1 : a[i] = s[1 + i - 1]
    BY <2>1, SubSeqFacts
  <2>3. \A i \in 1 .. pos - 1 : 1 + i - 1 = i
    OBVIOUS
  <2> HIDE DEF a
  <2> QED BY <2>1, <2>2, <2>3
<1>2. /\ b \in Seq(A) /\ Len(b) = Len(s) - pos + 1
      /\ \A i \in 1 .. Len(s) - pos + 1 : b[i] = s[pos + i - 1]
  <2>1. Len(s) \in pos - 1 .. Len(s)
    BY <1>0
  <2> QED BY <2>1, SubSeqFacts
<1>3. <<e>> \in Seq(A) /\ Len(<<e>>) = 1 /\ <<e>>[1] = e
  OBVIOUS
<1> HIDE DEF a, b
<1>4. /\ t \in Seq(A) /\ Len(t) = pos
      /\ \A i \in 1 .. pos : t[i] = IF i <= pos - 1 THEN a[i] ELSE <<e>>[i - (pos - 1)]
  BY <1>0, <1>1, <1>3, ConcatProperties
<1>5. \A i \in 1 .. pos - 1 : t[i] = s[i]
  BY <1>0, <1>1, <1>4
<1>6. t[pos] = e
  <2>1. pos \in 1 .. pos /\ ~(pos <= pos - 1) /\ pos - (pos - 1) = 1
    BY <1>0
  <2> QED BY <1>3, <1>4, <2>1
<1> HIDE DEF t
<1>7. /\ t \o b \in Seq(A) /\ Len(t \o b) = Len(s) + 1
      /\ \A i \in 1 .. Len(s) + 1 : (t \o b)[i] = IF i <= pos THEN t[i] ELSE b[i - pos]
  <2>1. Len(t) + Len(b) = Len(s) + 1
    BY <1>0, <1>2, <1>4
  <2>2. t \in Seq(A) /\ b \in Seq(A) /\ Len(t) = pos
    BY <1>2, <1>4
  <2>3. /\ t \o b \in Seq(A) /\ Len(t \o b) = Len(t) + Len(b)
        /\ \A i \in 1 .. Len(t) + Len(b) :
             (t \o b)[i] = IF i <= Len(t) THEN t[i] ELSE b[i - Len(t)]
    BY <2>2, ConcatProperties
  <2> QED BY <2>1, <2>2, <2>3
<1>8. InsertAt(s, pos, e) = t \o b
  BY DEF InsertAt, t, a, b
<1>9. \A i \in pos + 1 .. Len(s) + 1 : (t \o b)[i] = s[i - 1]
  <2> SUFFICES ASSUME NEW i \in pos + 1 .. Len(s) + 1 PROVE (t \o b)[i] = s[i - 1]
    OBVIOUS
  <2>1. i \in 1 .. Len(s) + 1 /\ ~(i <= pos) /\ i - pos \in 1 .. Len(s) - pos + 1
        /\ pos + (i - pos) - 1 = i - 1
    BY <1>0
  <2>2. (t \o b)[i] = b[i - pos]
    BY <1>7, <2>1
  <2>3. b[i - pos] = s[pos + (i - pos) - 1]
    BY <1>2, <2>1
  <2> QED BY <2>1, <2>2, <2>3
<1>10. \A i \in 1 .. pos : (t \o b)[i] = t[i]
  BY <1>0, <1>7
<1>11. pos \in 1 .. pos /\ \A i \in 1 .. pos - 1 : i \in 1 .. pos
  BY <1>0
<1> QED BY <1>5, <1>6, <1>7, <1>8, <1>9, <1>10, <1>11 DEF Extends

\* How many keys come first
LEMMA CountFirst ==
  ASSUME NEW n \in Nat, NEW S \in SUBSET (1 .. n), \A j \in S, k \in 1 .. n : k < j => k \in S
  PROVE  Cardinality(S) \in 0 .. n /\ S = 1 .. Cardinality(S)
<1>1. PICK c \in 0 .. n : S = 1 .. c
  BY FirstOnes
<1>2. Cardinality(1 .. c) = c
  BY FS_Interval
<1> QED BY <1>1, <1>2

LEMMA ChildPositionIs ==
  ASSUME NEW keys \in Seq(Nat), Ascending(keys), NEW x \in Nat
  PROVE  /\ ChildPosition(keys, x) \in 1 .. Len(keys) + 1
         /\ InSlot(keys, ChildPosition(keys, x), x)
         /\ \A p \in 1 .. Len(keys) + 1 : InSlot(keys, p, x) => p = ChildPosition(keys, x)
<1> DEFINE n == Len(keys)
           S == {k \in 1 .. n : keys[k] <= x}
           c == Cardinality(S)
<1>0. n \in Nat /\ \A k \in 1 .. n : keys[k] \in Nat
  BY LenProperties, ElementOfSeq
<1>1. \A j \in S, k \in 1 .. n : k < j => k \in S
  <2> SUFFICES ASSUME NEW j \in S, NEW k \in 1 .. n, k < j PROVE keys[k] <= x
    OBVIOUS
  <2>1. keys[k] < keys[j] /\ keys[j] <= x
    BY DEF Ascending
  <2> QED BY <1>0, <2>1
<1>2. c \in 0 .. n /\ S = 1 .. c
  <2> HIDE DEF n
  <2>1. S \in SUBSET (1 .. n)
    OBVIOUS
  <2> QED BY <1>0, <1>1, <2>1, CountFirst
<1>3. ChildPosition(keys, x) = 1 + c
  BY DEF ChildPosition
<1>4. \A k \in 1 .. n : keys[k] <= x <=> k \in 1 .. c
  BY <1>2
<1> HIDE DEF c, S
<1>5. InSlot(keys, 1 + c, x)
  BY <1>0, <1>2, <1>4 DEF InSlot
<1>6. ASSUME NEW p \in 1 .. n + 1, InSlot(keys, p, x) PROVE p = 1 + c
  <2>1. p > 1 => p - 1 \in 1 .. n /\ p - 1 \in 1 .. c
    BY <1>0, <1>4, <1>6 DEF InSlot
  <2>2. p <= n => p \in 1 .. n /\ ~(p \in 1 .. c)
    BY <1>0, <1>4, <1>6 DEF InSlot
  <2> HIDE DEF n
  <2> QED BY <1>0, <1>2, <2>1, <2>2
<1> QED BY <1>0, <1>2, <1>3, <1>5, <1>6

LEMMA LeafPositionIs ==
  ASSUME NEW keys \in Seq(Nat), Ascending(keys), NEW x \in Nat
  PROVE  /\ LeafPosition(keys, x) \in 1 .. Len(keys) + 1
         /\ \A k \in 1 .. Len(keys) : keys[k] < x <=> k < LeafPosition(keys, x)
<1> DEFINE n == Len(keys)
           S == {k \in 1 .. n : keys[k] < x}
           c == Cardinality(S)
<1>0. n \in Nat /\ \A k \in 1 .. n : keys[k] \in Nat
  BY LenProperties, ElementOfSeq
<1>1. \A j \in S, k \in 1 .. n : k < j => k \in S
  <2> SUFFICES ASSUME NEW j \in S, NEW k \in 1 .. n, k < j PROVE keys[k] < x
    OBVIOUS
  <2>1. keys[k] < keys[j] /\ keys[j] < x
    BY DEF Ascending
  <2> QED BY <1>0, <2>1
<1>2. c \in 0 .. n /\ S = 1 .. c
  <2> HIDE DEF n
  <2>1. S \in SUBSET (1 .. n)
    OBVIOUS
  <2> QED BY <1>0, <1>1, <2>1, CountFirst
<1>3. LeafPosition(keys, x) = 1 + c
  BY DEF LeafPosition
<1>4. \A k \in 1 .. n : keys[k] < x <=> k \in 1 .. c
  BY <1>2
<1> HIDE DEF c, S
<1> QED BY <1>0, <1>2, <1>3, <1>4

LEMMA PrefixIs ==
  ASSUME NEW A, NEW s \in Seq(A), NEW h \in 0 .. Len(s)
  PROVE  SubSeq(s, 1, h) \in Seq(A) /\ Starts(SubSeq(s, 1, h), s, h)
<1> DEFINE t == SubSeq(s, 1, h)
<1>0. Len(s) \in Nat
  BY LenProperties
<1>1. 1 \in 1 .. Len(s) + 1 /\ h \in 1 - 1 .. Len(s) /\ h - 1 + 1 = h
  BY <1>0
<1>2. t \in Seq(A) /\ Len(t) = h - 1 + 1 /\ \A i \in 1 .. h - 1 + 1 : t[i] = s[1 + i - 1]
  BY <1>1, SubSeqFacts
<1>3. \A i \in 1 .. h : 1 + i - 1 = i
  OBVIOUS
<1> HIDE DEF t
<1> QED BY <1>1, <1>2, <1>3 DEF t, Starts

LEMMA SuffixIs ==
  ASSUME NEW A, NEW s \in Seq(A), NEW h \in 0 .. Len(s), NEW m, m = h + 1
  PROVE  SubSeq(s, m, Len(s)) \in Seq(A) /\ Ends(SubSeq(s, m, Len(s)), s, h)
<1> DEFINE n == Len(s)
           t == SubSeq(s, m, n)
<1>0. n \in Nat
  BY LenProperties
<1>1. m \in 1 .. n + 1 /\ n \in m - 1 .. n /\ n - m + 1 = n - h
  BY <1>0
<1>2. t \in Seq(A) /\ Len(t) = n - m + 1 /\ \A i \in 1 .. n - m + 1 : t[i] = s[m + i - 1]
  BY <1>1, SubSeqFacts
<1>3. \A i \in 1 .. n - h : m + i - 1 = h + i
  BY <1>0
<1> HIDE DEF t, n
<1> QED BY <1>1, <1>2, <1>3 DEF t, n, Ends

LEMMA InsertAscending ==
  ASSUME NEW keys \in Seq(Nat), Ascending(keys), NEW x \in Nat, NEW pos \in 1 .. Len(keys) + 1,
         \A k \in 1 .. pos - 1 : keys[k] < x, \A k \in pos .. Len(keys) : x < keys[k],
         NEW t, Extends(t, keys, pos, x)
  PROVE  Ascending(t)
<1> DEFINE n == Len(keys)
<1>0. n \in Nat /\ \A k \in 1 .. n : keys[k] \in Nat
  BY LenProperties, ElementOfSeq
<1>1. /\ Len(t) = n + 1 /\ \A i \in 1 .. pos - 1 : t[i] = keys[i]
      /\ t[pos] = x /\ \A i \in pos + 1 .. n + 1 : t[i] = keys[i - 1]
  BY DEF Extends
<1>2. \A i, j \in 1 .. n : i < j => keys[i] < keys[j]
  BY DEF Ascending
<1> HIDE DEF n
<1>3. pos \in 1 .. n + 1 /\ \A k \in pos .. n : x < keys[k]
  BY DEF n
<1> SUFFICES ASSUME NEW i \in 1 .. n + 1, NEW j \in 1 .. n + 1, i < j PROVE t[i] < t[j]
  BY <1>1 DEF Ascending
<1>4. CASE j < pos
  <2>1. i \in 1 .. pos - 1 /\ j \in 1 .. pos - 1 /\ i \in 1 .. n /\ j \in 1 .. n
    BY <1>0, <1>3, <1>4
  <2> QED BY <1>1, <1>2, <2>1
<1>5. CASE j = pos
  <2>1. i \in 1 .. pos - 1
    BY <1>0, <1>3, <1>5
  <2> QED BY <1>1, <1>5, <2>1
<1>6. CASE i = pos
  <2>1. j \in pos + 1 .. n + 1 /\ j - 1 \in pos .. n
    BY <1>0, <1>3, <1>6
  <2> QED BY <1>1, <1>3, <1>6, <2>1
<1>7. CASE i < pos /\ pos < j
  <2>1. i \in 1 .. pos - 1 /\ j \in pos + 1 .. n + 1 /\ i \in 1 .. n /\ j - 1 \in 1 .. n /\ i < j - 1
    BY <1>0, <1>3, <1>7
  <2> QED BY <1>1, <1>2, <2>1
<1>8. CASE pos < i
  <2>1. i \in pos + 1 .. n + 1 /\ j \in pos + 1 .. n + 1 /\ i - 1 \in 1 .. n /\ j - 1 \in 1 .. n /\ i - 1 < j - 1
    BY <1>0, <1>3, <1>8
  <2> QED BY <1>1, <1>2, <2>1
<1> QED BY <1>3, <1>4, <1>5, <1>6, <1>7, <1>8

\* A key put between the keys of an internal node divides one slot.
LEMMA SlotsInserted ==
  ASSUME NEW keys \in Seq(Nat), NEW x \in Nat, NEW pos \in 1 .. Len(keys) + 1,
         InSlot(keys, pos, x), NEW t, Extends(t, keys, pos, x), NEW y \in Nat
  PROVE  /\ \A i \in 1 .. pos - 1 : InSlot(t, i, y) <=> InSlot(keys, i, y)
         /\ InSlot(t, pos, y) <=> InSlot(keys, pos, y) /\ y < x
         /\ InSlot(t, pos + 1, y) <=> InSlot(keys, pos, y) /\ x <= y
         /\ \A i \in pos + 2 .. Len(keys) + 2 : InSlot(t, i, y) <=> InSlot(keys, i - 1, y)
<1> DEFINE n == Len(keys)
<1>0. n \in Nat /\ \A k \in 1 .. n : keys[k] \in Nat
  BY LenProperties, ElementOfSeq
<1>1. /\ Len(t) = n + 1 /\ \A i \in 1 .. pos - 1 : t[i] = keys[i]
      /\ t[pos] = x /\ \A i \in pos + 1 .. n + 1 : t[i] = keys[i - 1]
  BY DEF Extends
<1>2. pos \in 1 .. n + 1
  OBVIOUS
<1>3. Len(keys) = n
  OBVIOUS
<1> HIDE DEF n
<1>4. ASSUME NEW i \in 1 .. pos - 1 PROVE InSlot(t, i, y) <=> InSlot(keys, i, y)
  <2>1. i <= n /\ i <= n + 1 /\ (i > 1 => i - 1 \in 1 .. pos - 1)
    BY <1>0, <1>2
  <2> QED BY <1>1, <1>3, <2>1 DEF InSlot
<1>5. /\ InSlot(t, pos, y) <=> InSlot(keys, pos, y) /\ y < x
      /\ InSlot(t, pos + 1, y) <=> InSlot(keys, pos, y) /\ x <= y
  <2>1. pos > 1 => pos - 1 \in 1 .. pos - 1 /\ pos - 1 \in 1 .. n
    BY <1>0, <1>2
  <2>2. pos <= n => pos \in 1 .. n /\ pos + 1 \in pos + 1 .. n + 1
    BY <1>0, <1>2
  <2>3. pos > 1 => keys[pos - 1] \in Nat /\ keys[pos - 1] <= x /\ t[pos - 1] = keys[pos - 1]
    BY <1>0, <1>1, <2>1 DEF InSlot
  <2>4. pos <= n => keys[pos] \in Nat /\ x < keys[pos] /\ t[pos + 1] = keys[pos]
    <3>1. pos + 1 - 1 = pos
      BY <1>2
    <3> QED BY <1>0, <1>1, <1>3, <2>2, <3>1 DEF InSlot
  <2>5. pos + 1 > 1 /\ pos + 1 - 1 = pos /\ (pos + 1 <= n + 1 <=> pos <= n) /\ pos <= n + 1
    BY <1>0, <1>2
  <2>6. InSlot(t, pos, y) <=> (pos > 1 => keys[pos - 1] <= y) /\ y < x
    BY <1>1, <2>3, <2>5 DEF InSlot
  <2>7. InSlot(t, pos + 1, y) <=> x <= y /\ (pos <= n => y < keys[pos])
    BY <1>1, <2>4, <2>5 DEF InSlot
  <2>8. InSlot(keys, pos, y) <=> (pos > 1 => keys[pos - 1] <= y) /\ (pos <= n => y < keys[pos])
    BY <1>3 DEF InSlot
  <2>9. (pos > 1 => keys[pos - 1] <= x) /\ (pos <= n => x < keys[pos])
    BY <1>3 DEF InSlot
  <2> QED BY <1>2, <2>3, <2>4, <2>6, <2>7, <2>8, <2>9
<1>6. ASSUME NEW i \in pos + 2 .. n + 2 PROVE InSlot(t, i, y) <=> InSlot(keys, i - 1, y)
  <2>1. /\ i > 1 /\ i - 1 > 1 /\ i - 1 \in pos + 1 .. n + 1 /\ (i <= n + 1 <=> i - 1 <= n)
        /\ (i <= n + 1 => i \in pos + 1 .. n + 1)
    BY <1>0, <1>2
  <2> QED BY <1>1, <1>3, <2>1 DEF InSlot
<1> QED BY <1>3, <1>4, <1>5, <1>6

\* The key in the middle of an internal node divides its slots.
LEMMA SlotsCut ==
  ASSUME NEW keys \in Seq(Nat), Ascending(keys), NEW h \in 1 .. Len(keys) - 1,
         NEW a, Starts(a, keys, h), NEW b, Ends(b, keys, h + 1), NEW y \in Nat
  PROVE  /\ \A p \in 1 .. h + 1 : InSlot(keys, p, y) <=> y < keys[h + 1] /\ InSlot(a, p, y)
         /\ \A q \in 1 .. Len(keys) - h :
              InSlot(keys, h + 1 + q, y) <=> keys[h + 1] <= y /\ InSlot(b, q, y)
<1> DEFINE n == Len(keys)
           x == keys[h + 1]
<1>0. n \in Nat /\ \A k \in 1 .. n : keys[k] \in Nat
  BY LenProperties, ElementOfSeq
<1>1. Len(a) = h /\ \A i \in 1 .. h : a[i] = keys[i]
  BY DEF Starts
<1>2. Len(b) = n - h - 1 /\ \A i \in 1 .. n - h - 1 : b[i] = keys[h + 1 + i]
  <2>1. n - (h + 1) = n - h - 1
    BY <1>0
  <2> QED BY <2>1 DEF Ends
<1>3. \A i, j \in 1 .. n : i < j => keys[i] < keys[j]
  BY DEF Ascending
<1>4. h \in 1 .. n - 1 /\ Len(keys) = n
  OBVIOUS
<1> HIDE DEF n
<1>5. h + 1 \in 1 .. n /\ x \in Nat
  BY <1>0, <1>4
<1>6. ASSUME NEW p \in 1 .. h + 1 PROVE InSlot(keys, p, y) <=> y < x /\ InSlot(a, p, y)
  <2>1. /\ p \in 1 .. n /\ p <= n /\ (p > 1 => p - 1 \in 1 .. h) /\ (p <= h => p \in 1 .. h /\ p < h + 1)
        /\ p <= h \/ p = h + 1
    BY <1>0, <1>4
  <2>2. p <= h => keys[p] < x
    BY <1>3, <1>5, <2>1
  <2>3. InSlot(keys, p, y) <=> (p > 1 => keys[p - 1] <= y) /\ y < keys[p]
    BY <1>4, <2>1 DEF InSlot
  <2>4. InSlot(a, p, y) <=> (p > 1 => keys[p - 1] <= y) /\ (p <= h => y < keys[p])
    BY <1>1, <2>1 DEF InSlot
  <2>5. keys[p] \in Nat
    BY <1>0, <2>1
  <2>6. CASE p <= h
    BY <1>5, <2>2, <2>3, <2>4, <2>5, <2>6
  <2>7. CASE p = h + 1
    <3>1. ~(p <= h)
      BY <2>7
    <3> QED BY <2>3, <2>4, <2>7, <3>1
  <2> QED BY <2>1, <2>6, <2>7
<1>7. ASSUME NEW q \in 1 .. n - h PROVE InSlot(keys, h + 1 + q, y) <=> x <= y /\ InSlot(b, q, y)
  <2> DEFINE r == h + 1 + q
  <2>1. /\ r > 1 /\ r - 1 \in 1 .. n /\ r - 1 = h + q /\ (r <= n <=> q <= n - h - 1)
        /\ (q <= n - h - 1 => q \in 1 .. n - h - 1)
        /\ (q > 1 => q - 1 \in 1 .. n - h - 1 /\ h + 1 + (q - 1) = r - 1 /\ h + 1 < r - 1)
        /\ (q > 1 \/ q = 1) /\ (q = 1 => r - 1 = h + 1)
    BY <1>0, <1>4
  <2>2. InSlot(keys, r, y) <=> keys[r - 1] <= y /\ (r <= n => y < keys[r])
    BY <1>4, <2>1 DEF InSlot
  <2>3. InSlot(b, q, y) <=> (q > 1 => keys[r - 1] <= y) /\ (r <= n => y < keys[r])
    BY <1>2, <2>1 DEF InSlot
  <2>4. q > 1 => x < keys[r - 1]
    BY <1>3, <1>5, <2>1
  <2>5. keys[r - 1] \in Nat
    BY <1>0, <2>1
  <2> HIDE DEF r, x
  <2>6. ASSUME q > 1 PROVE InSlot(keys, r, y) <=> x <= y /\ InSlot(b, q, y)
    BY <1>5, <2>2, <2>3, <2>4, <2>5, <2>6
  <2>7. ASSUME q = 1 PROVE InSlot(keys, r, y) <=> x <= y /\ InSlot(b, q, y)
    <3>1. keys[r - 1] = x /\ ~(q > 1)
      BY <2>1, <2>7 DEF x
    <3> QED BY <2>2, <2>3, <3>1
  <2>8. InSlot(keys, r, y) <=> x <= y /\ InSlot(b, q, y)
    BY <2>1, <2>6, <2>7
  <2> QED BY <2>8 DEF r
<1> QED BY <1>4, <1>6, <1>7

-----------------------------------------------------------------------------
(* What a tree is.  span[n] is the set of the ids that belong under the node n, *)
(* level[n] its height above the leaves.  While right has yet to be linked, it  *)
(* shares the slot of left, which is what right holds from the key s on; left   *)
(* and right are Nil when there is no such node.                                *)

NodeType == [is_leaf : BOOLEAN, keys : Seq(Nat), row_indices : Seq(Nat),
             children : Seq(Nat), parent : Nat, next : Nat]

LeavesOf(nodes) == {n \in 1 .. Len(nodes) : nodes[n].is_leaf}

Shaped(node) ==
  /\ Len(node.keys) > 0 /\ Ascending(node.keys)
  /\ node.is_leaf => Len(node.row_indices) = Len(node.keys)
  /\ ~node.is_leaf =>
       /\ Len(node.children) = Len(node.keys) + 1
       /\ \A p, q \in 1 .. Len(node.keys) + 1 : node.children[p] = node.children[q] => p = q

Typed(nodes, root, span, level) ==
  /\ nodes \in Seq(NodeType) /\ root \in 1 .. Len(nodes)
  /\ span \in [1 .. Len(nodes) -> SUBSET Nat] /\ level \in [1 .. Len(nodes) -> Nat]
  /\ level[root] < Len(nodes)

NodeGood(nodes, root, span, level, n) ==
  /\ Shaped(nodes[n]) /\ level[n] <= level[root]
  /\ nodes[n].is_leaf <=> level[n] = 0
  /\ \A k \in 1 .. Len(nodes[n].keys) : nodes[n].keys[k] \in span[n]

Covers(span, left, right, c, x) == x \in span[c] \/ (c = left /\ x \in span[right])

\* The p-th child of n
ChildGood(nodes, span, level, left, right, n, p) ==
  LET c == nodes[n].children[p] IN
  /\ c \in 1 .. Len(nodes) /\ c # right
  /\ nodes[c].parent = n /\ level[n] = level[c] + 1
  /\ \A x \in Nat : Covers(span, left, right, c, x) <=> x \in span[n] /\ InSlot(nodes[n].keys, p, x)

ChildrenGood(nodes, span, level, left, right) ==
  \A n \in 1 .. Len(nodes) : ~nodes[n].is_leaf =>
    \A p \in 1 .. Len(nodes[n].keys) + 1 : ChildGood(nodes, span, level, left, right, n, p)

IsChild(nodes, n) ==
  LET m == nodes[n].parent IN
  /\ m \in 1 .. Len(nodes) /\ ~nodes[m].is_leaf
  /\ \E p \in 1 .. Len(nodes[m].keys) + 1 : nodes[m].children[p] = n

ParentsGood(nodes, root, right) ==
  \A n \in 1 .. Len(nodes) : n # root /\ n # right => IsChild(nodes, n)

RootGood(nodes, root, span, left, right) ==
  /\ nodes[root].parent = Nil /\ root # right
  /\ \A x \in Nat : Covers(span, left, right, root, x)

\* The chain of the leaves follows their order.
Precedes(span, m, n) == \A x \in span[m], y \in span[n] : x < y

ChainGood(nodes, span, n) ==
  LET m == nodes[n].next IN
  IF m = Nil THEN \A l \in LeavesOf(nodes) : l # n => Precedes(span, l, n)
  ELSE /\ m \in LeavesOf(nodes) /\ m # n /\ Precedes(span, n, m)
       /\ \A l \in LeavesOf(nodes) :
            l # n /\ l # m => Precedes(span, l, n) \/ Precedes(span, m, l)

LeavesGood(nodes, span) ==
  /\ \A m, n \in LeavesOf(nodes) : m # n => Precedes(span, m, n) \/ Precedes(span, n, m)
  /\ \A n \in LeavesOf(nodes) : ChainGood(nodes, span, n)

\* What the call that is left to do knows.
PendingGood(nodes, span, level, left, s, right) ==
  IF left = Nil THEN right = Nil
  ELSE /\ left \in 1 .. Len(nodes) /\ right \in 1 .. Len(nodes) /\ left # right
       /\ level[left] = level[right] /\ s \in Nat /\ s \in span[right]
       /\ \A x \in span[left] : x < s
       /\ \A x \in span[right] : s <= x

Tree(nodes, root, span, level, left, s, right) ==
  /\ Typed(nodes, root, span, level)
  /\ \A n \in 1 .. Len(nodes) : NodeGood(nodes, root, span, level, n)
  /\ ChildrenGood(nodes, span, level, left, right)
  /\ ParentsGood(nodes, root, right)
  /\ RootGood(nodes, root, span, left, right)
  /\ LeavesGood(nodes, span)
  /\ PendingGood(nodes, span, level, left, s, right)

\* The leaves hold the ids of ref, with their rows.
Contents(nodes, ref) ==
  /\ \A n \in LeavesOf(nodes) : \A k \in 1 .. Len(nodes[n].keys) :
       nodes[n].keys[k] \in DOMAIN ref /\ nodes[n].row_indices[k] = ref[nodes[n].keys[k]]
  /\ \A x \in DOMAIN ref : \E n \in LeavesOf(nodes) :
       \E k \in 1 .. Len(nodes[n].keys) : nodes[n].keys[k] = x

LEMMA NodeIs ==
  ASSUME NEW nodes \in Seq(NodeType), NEW n \in 1 .. Len(nodes)
  PROVE  /\ nodes[n] \in NodeType /\ nodes[n].is_leaf \in BOOLEAN
         /\ nodes[n].keys \in Seq(Nat) /\ nodes[n].row_indices \in Seq(Nat)
         /\ nodes[n].children \in Seq(Nat) /\ nodes[n].parent \in Nat /\ nodes[n].next \in Nat
         /\ Len(nodes[n].keys) \in Nat
         /\ \A k \in 1 .. Len(nodes[n].keys) : nodes[n].keys[k] \in Nat
<1>1. nodes[n] \in NodeType
  BY ElementOfSeq
<1>2. nodes[n].keys \in Seq(Nat)
  BY <1>1 DEF NodeType
<1>3. Len(nodes[n].keys) \in Nat /\ \A k \in 1 .. Len(nodes[n].keys) : nodes[n].keys[k] \in Nat
  BY <1>2, LenProperties, ElementOfSeq
<1> QED BY <1>1, <1>2, <1>3 DEF NodeType

-----------------------------------------------------------------------------
(* Finding a leaf *)

\* One pass of bptree_find_leaf goes to the child under which key belongs.
LEMMA DescendIs ==
  ASSUME NEW h, NEW span, NEW level, NEW s, Tree(h.nodes, h.root, span, level, Nil, s, Nil),
         NEW key \in Nat, NEW n \in 1 .. Len(h.nodes), NEW m, m = Descend(h, n, key)
  PROVE  /\ m \in 1 .. Len(h.nodes)
         /\ h.nodes[n].is_leaf => m = n
         /\ ~h.nodes[n].is_leaf => /\ level[n] = level[m] + 1
                                   /\ key \in span[n] => key \in span[m]
<1> DEFINE p == ChildPosition(h.nodes[n].keys, key)
<1>1. n # Nil
  BY DEF Nil
<1>2. h.nodes \in Seq(NodeType) /\ NodeGood(h.nodes, h.root, span, level, n)
  BY DEF Tree, Typed
<1>3. h.nodes[n].keys \in Seq(Nat) /\ Ascending(h.nodes[n].keys)
  BY <1>2, NodeIs DEF NodeGood, Shaped
<1>4. p \in 1 .. Len(h.nodes[n].keys) + 1 /\ InSlot(h.nodes[n].keys, p, key)
  BY <1>3, ChildPositionIs
<1>5. CASE h.nodes[n].is_leaf
  BY <1>5 DEF Descend
<1>6. CASE ~h.nodes[n].is_leaf
  <2>1. m = h.nodes[n].children[p]
    BY <1>1, <1>6 DEF Descend
  <2> HIDE DEF p
  <2>2. ChildGood(h.nodes, span, level, Nil, Nil, n, p)
    BY <1>4, <1>6 DEF Tree, ChildrenGood
  <2>3. /\ m \in 1 .. Len(h.nodes) /\ level[n] = level[m] + 1
        /\ Covers(span, Nil, Nil, m, key) <=> key \in span[n] /\ InSlot(h.nodes[n].keys, p, key)
    BY <2>1, <2>2 DEF ChildGood
  <2>4. m # Nil
    BY <2>3 DEF Nil
  <2> QED BY <1>4, <1>6, <2>3, <2>4 DEF Covers
<1> QED BY <1>5, <1>6

\* The equation of the recursive function in FindLeaf
Path(f, h, key) ==
  f = [k \in 0 .. Len(h.nodes) |-> IF k = 0 THEN h.root ELSE Descend(h, f[k - 1], key)]

LEMMA PathExists ==
  ASSUME NEW h, NEW span, NEW level, NEW s, Tree(h.nodes, h.root, span, level, Nil, s, Nil),
         NEW key \in Nat
  PROVE  \E f : Path(f, h, key)
<1> DEFINE L == Len(h.nodes)
           N == 1 .. L
           step == [k \in 1 .. L |-> [n \in N |-> Descend(h, n, key)]]
<1>1. L \in Nat /\ h.root \in N
  BY LenProperties DEF Tree, Typed
<1>2. \A n \in N : Descend(h, n, key) \in N
  BY DescendIs
<1>3. step \in Steps(L, N)
  BY <1>2 DEF Steps
<1> HIDE DEF step
<1>4. PICK f : Follows(f, h.root, L, N, step)
  BY <1>1, <1>3, Recursion
<1>5. f \in [0 .. L -> N] /\ f[0] = h.root /\ \A k \in 0 .. L - 1 : f[k + 1] = step[k + 1][f[k]]
  BY <1>4 DEF Follows
<1>6. \A k \in 0 .. L : f[k] = IF k = 0 THEN h.root ELSE Descend(h, f[k - 1], key)
  <2> SUFFICES ASSUME NEW k \in 0 .. L, k # 0 PROVE f[k] = Descend(h, f[k - 1], key)
    BY <1>5
  <2>1. k - 1 \in 0 .. L - 1 /\ (k - 1) + 1 = k /\ k \in 1 .. L /\ k - 1 \in 0 .. L
    BY <1>1
  <2>2. f[k] = step[k][f[k - 1]] /\ f[k - 1] \in N
    BY <1>5, <2>1
  <2> QED BY <2>1, <2>2 DEF step
<1>7. Path(f, h, key)
  BY <1>5, <1>6 DEF Path
<1> QED BY <1>7

\* bptree_find_leaf ends at the leaf where the key belongs.
LEMMA FindLeafIs ==
  ASSUME NEW h, NEW span, NEW level, NEW s, Tree(h.nodes, h.root, span, level, Nil, s, Nil),
         NEW key \in Nat
  PROVE  FindLeaf(h, key) \in LeavesOf(h.nodes) /\ key \in span[FindLeaf(h, key)]
<1> DEFINE L == Len(h.nodes)
           f == CHOOSE g : Path(g, h, key)
           Reached(k) == /\ f[k] \in 1 .. L /\ key \in span[f[k]]
                         /\ level[f[k]] + k = level[h.root] \/ level[f[k]] = 0
           S == {k \in 0 .. L : Reached(k)}
<1>1. FindLeaf(h, key) = f[L]
  BY DEF FindLeaf, Path
<1>2. Path(f, h, key)
  BY PathExists
<1> HIDE DEF f
<1>3. f[0] = h.root /\ \A k \in 1 .. L : f[k] = Descend(h, f[k - 1], key)
  <2>1. L \in Nat
    BY LenProperties DEF Tree, Typed
  <2>2. \A k \in 0 .. L : f[k] = IF k = 0 THEN h.root ELSE Descend(h, f[k - 1], key)
    BY <1>2 DEF Path
  <2> QED BY <2>1, <2>2
<1>4. /\ L \in Nat /\ h.root \in 1 .. L /\ level \in [1 .. L -> Nat] /\ level[h.root] < L
      /\ \A n \in 1 .. L : h.nodes[n].is_leaf <=> level[n] = 0
  BY LenProperties DEF Tree, Typed, NodeGood
<1>5. \A n \in 1 .. L :
         /\ Descend(h, n, key) \in 1 .. L
         /\ h.nodes[n].is_leaf => Descend(h, n, key) = n
         /\ ~h.nodes[n].is_leaf => /\ level[n] = level[Descend(h, n, key)] + 1
                                   /\ key \in span[n] => key \in span[Descend(h, n, key)]
  BY DescendIs
<1>6. 0 \in S
  <2>1. key \in span[h.root]
    <3>1. h.root # Nil /\ Covers(span, Nil, Nil, h.root, key)
      BY <1>4 DEF Tree, RootGood, Nil
    <3> QED BY <3>1 DEF Covers
  <2> QED BY <1>3, <1>4, <2>1
<1>7. ASSUME NEW k \in 0 .. L - 1, k \in S PROVE k + 1 \in S
  <2>1. k + 1 \in 1 .. L /\ k + 1 \in 0 .. L /\ (k + 1) - 1 = k
    BY <1>4
  <2>2. f[k + 1] = Descend(h, f[k], key)
    BY <1>3, <2>1
  <2>3. f[k] \in 1 .. L /\ key \in span[f[k]] /\ (level[f[k]] + k = level[h.root] \/ level[f[k]] = 0)
    BY <1>7
  <2>4. /\ f[k + 1] \in 1 .. L
        /\ h.nodes[f[k]].is_leaf => f[k + 1] = f[k]
        /\ ~h.nodes[f[k]].is_leaf => level[f[k]] = level[f[k + 1]] + 1 /\ key \in span[f[k + 1]]
    <3> DEFINE a == f[k]
               b == f[k + 1]
    <3>1. a \in 1 .. L /\ b = Descend(h, a, key) /\ key \in span[a]
      BY <2>2, <2>3
    <3> HIDE DEF a, b
    <3>2. /\ b \in 1 .. L
          /\ h.nodes[a].is_leaf => b = a
          /\ ~h.nodes[a].is_leaf => level[a] = level[b] + 1 /\ key \in span[b]
      BY <1>5, <3>1
    <3> QED BY <3>2 DEF a, b
  <2>5. level[f[k]] \in Nat /\ level[f[k + 1]] \in Nat /\ level[h.root] \in Nat
    BY <1>4, <2>3, <2>4
  <2>6. CASE h.nodes[f[k]].is_leaf
    <3>1. level[f[k + 1]] = 0
      BY <1>4, <2>3, <2>4, <2>6
    <3> QED BY <2>1, <2>3, <2>4, <2>6, <3>1
  <2>7. CASE ~h.nodes[f[k]].is_leaf
    <3>1. level[f[k]] # 0
      BY <1>4, <2>3, <2>7
    <3>2. level[f[k + 1]] + (k + 1) = level[h.root]
      BY <2>3, <2>4, <2>5, <2>7, <3>1
    <3> QED BY <2>1, <2>4, <2>7, <3>2
  <2> QED BY <2>6, <2>7
<1>8. L \in S
  <2> HIDE DEF S, L
  <2>1. \A k \in 0 .. L : k \in S
    BY <1>4, <1>6, <1>7, IntervalInduction
  <2> QED BY <1>4, <2>1
<1>9. f[L] \in 1 .. L /\ key \in span[f[L]] /\ (level[f[L]] + L = level[h.root] \/ level[f[L]] = 0)
  BY <1>8
<1>10. level[f[L]] = 0
  <2>1. level[f[L]] \in Nat /\ level[h.root] \in Nat
    BY <1>4, <1>9
  <2> HIDE DEF L
  <2> QED BY <1>4, <1>9, <2>1
<1>11. h.nodes[f[L]].is_leaf
  BY <1>4, <1>9, <1>10
<1> QED BY <1>1, <1>9, <1>11 DEF LeavesOf

\* A key is in no other leaf than the one where it belongs.
LEMMA LeafOfKey ==
  ASSUME NEW nodes, NEW root, NEW span, NEW level, NEW left, NEW s, NEW right,
         Tree(nodes, root, span, level, left, s, right),
         NEW n \in LeavesOf(nodes), NEW m \in LeavesOf(nodes),
         NEW k \in 1 .. Len(nodes[m].keys), nodes[m].keys[k] \in span[n]
  PROVE  m = n
<1>1. nodes[m].keys[k] \in span[m]
  BY DEF Tree, NodeGood, LeavesOf
<1>2. m # n => Precedes(span, m, n) \/ Precedes(span, n, m)
  BY DEF Tree, LeavesGood
<1>3. nodes[m].keys[k] \in Nat
  BY NodeIs DEF Tree, Typed, LeavesOf
<1> QED BY <1>1, <1>2, <1>3 DEF Precedes

LEMMA SearchIs ==
  ASSUME NEW h, NEW span, NEW level, NEW s, Tree(h.nodes, h.root, span, level, Nil, s, Nil),
         NEW ref, Contents(h.nodes, ref), NEW key \in Nat
  PROVE  Search(h, key) = IF key \in DOMAIN ref THEN {ref[key]} ELSE {}
<1> DEFINE n == FindLeaf(h, key)
           K == {k \in 1 .. Len(h.nodes[n].keys) : h.nodes[n].keys[k] = key}
<1>1. n \in LeavesOf(h.nodes) /\ key \in span[n]
  BY FindLeafIs
<1>2. h.root # Nil
  BY DEF Tree, Typed, Nil
<1>3. Search(h, key) = {h.nodes[n].row_indices[k] : k \in K}
  BY <1>2 DEF Search
<1> HIDE DEF n
<1>4. \A k \in K : key \in DOMAIN ref /\ h.nodes[n].row_indices[k] = ref[key]
  BY <1>1 DEF Contents
<1>5. key \in DOMAIN ref => K # {}
  <2> SUFFICES ASSUME key \in DOMAIN ref PROVE \E k \in 1 .. Len(h.nodes[n].keys) : h.nodes[n].keys[k] = key
    OBVIOUS
  <2>1. PICK m \in LeavesOf(h.nodes) : \E k \in 1 .. Len(h.nodes[m].keys) : h.nodes[m].keys[k] = key
    BY DEF Contents
  <2>2. m = n
    BY <1>1, <2>1, LeafOfKey
  <2> QED BY <2>1, <2>2
<1> HIDE DEF K
<1> QED BY <1>3, <1>4, <1>5

-----------------------------------------------------------------------------
(* A leaf takes a key *)

\* Where an element of the longer sequence was, and where one of the shorter goes.
Earlier(pos, i) == IF i < pos THEN i ELSE i - 1
Later(pos, j) == IF j < pos THEN j ELSE j + 1

LEMMA ExtendsElements ==
  ASSUME NEW s, Len(s) \in Nat, NEW pos \in 1 .. Len(s) + 1, NEW e, NEW t, Extends(t, s, pos, e)
  PROVE  /\ Len(t) = Len(s) + 1 /\ t[pos] = e /\ pos \in 1 .. Len(t)
         /\ \A i \in 1 .. Len(t) : i # pos =>
              Earlier(pos, i) \in 1 .. Len(s) /\ t[i] = s[Earlier(pos, i)]
         /\ \A j \in 1 .. Len(s) :
              Later(pos, j) \in 1 .. Len(t) /\ Later(pos, j) # pos /\ t[Later(pos, j)] = s[j]
<1> DEFINE n == Len(s)
<1>1. /\ Len(t) = n + 1 /\ t[pos] = e /\ \A i \in 1 .. pos - 1 : t[i] = s[i]
      /\ \A i \in pos + 1 .. n + 1 : t[i] = s[i - 1]
  BY DEF Extends
<1>2. n \in Nat /\ pos \in 1 .. n + 1 /\ Len(s) = n
  OBVIOUS
<1> HIDE DEF n
<1>3. ASSUME NEW i \in 1 .. n + 1, i # pos
      PROVE  Earlier(pos, i) \in 1 .. n /\ t[i] = s[Earlier(pos, i)]
  <2>1. CASE i < pos
    <3>1. i \in 1 .. pos - 1 /\ i \in 1 .. n
      BY <1>2, <2>1
    <3> QED BY <1>1, <2>1, <3>1 DEF Earlier
  <2>2. CASE ~(i < pos)
    <3>1. i \in pos + 1 .. n + 1 /\ i - 1 \in 1 .. n
      BY <1>2, <1>3, <2>2
    <3> QED BY <1>1, <2>2, <3>1 DEF Earlier
  <2> QED BY <2>1, <2>2
<1>4. ASSUME NEW j \in 1 .. n
      PROVE  Later(pos, j) \in 1 .. n + 1 /\ Later(pos, j) # pos /\ t[Later(pos, j)] = s[j]
  <2>1. CASE j < pos
    <3>1. j \in 1 .. pos - 1 /\ j \in 1 .. n + 1 /\ j # pos
      BY <1>2, <2>1
    <3> QED BY <1>1, <2>1, <3>1 DEF Later
  <2>2. CASE ~(j < pos)
    <3>1. j + 1 \in pos + 1 .. n + 1 /\ (j + 1) - 1 = j /\ j + 1 \in 1 .. n + 1 /\ j + 1 # pos
      BY <1>2, <2>2
    <3>2. Later(pos, j) = j + 1
      BY <2>2 DEF Later
    <3> QED BY <1>1, <3>1, <3>2
  <2> QED BY <2>1, <2>2
<1> QED BY <1>1, <1>2, <1>3, <1>4

\* The nodes but n are left alone, n keeps its place.
OthersKept(new, nodes, n) ==
  /\ new \in Seq(NodeType) /\ Len(new) = Len(nodes)
  /\ \A m \in 1 .. Len(nodes) : m # n => new[m] = nodes[m]
  /\ new[n].is_leaf = nodes[n].is_leaf /\ new[n].parent = nodes[n].parent
  /\ new[n].next = nodes[n].next

\* The leaf n has taken the key.
LeafTook(new, nodes, n, key, row) ==
  LET pos == LeafPosition(nodes[n].keys, key) IN
  /\ Extends(new[n].keys, nodes[n].keys, pos, key)
  /\ Extends(new[n].row_indices, nodes[n].row_indices, pos, row)

LEMMA LeafTakes ==
  ASSUME NEW nodes, NEW root, NEW span, NEW level, NEW s,
         Tree(nodes, root, span, level, Nil, s, Nil), NEW n \in LeavesOf(nodes),
         NEW key \in Nat, key \in span[n], NEW row, NEW new,
         \A k \in 1 .. Len(nodes[n].keys) : nodes[n].keys[k] # key,
         OthersKept(new, nodes, n), LeafTook(new, nodes, n, key, row)
  PROVE  NodeGood(new, root, span, level, n) /\ Len(new[n].keys) = Len(nodes[n].keys) + 1
<1> DEFINE pos == LeafPosition(nodes[n].keys, key)
           K == nodes[n].keys
           R == nodes[n].row_indices
<1>1. n \in 1 .. Len(nodes) /\ nodes[n].is_leaf /\ nodes \in Seq(NodeType)
  BY DEF LeavesOf, Tree, Typed
<1>2. K \in Seq(Nat) /\ Len(K) \in Nat /\ \A k \in 1 .. Len(K) : K[k] \in Nat
  BY <1>1, NodeIs
<1>3. NodeGood(nodes, root, span, level, n)
  BY <1>1 DEF Tree
<1>4. Ascending(K) /\ Len(K) > 0 /\ Len(R) = Len(K)
  BY <1>1, <1>3 DEF NodeGood, Shaped
<1>5. pos \in 1 .. Len(K) + 1 /\ \A k \in 1 .. Len(K) : K[k] < key <=> k < pos
  BY <1>2, <1>4, LeafPositionIs
<1>6. Extends(new[n].keys, K, pos, key) /\ Extends(new[n].row_indices, R, pos, row)
  BY DEF LeafTook
<1>7. \A k \in 1 .. Len(K) : K[k] # key
  OBVIOUS
<1>8. \A k \in 1 .. Len(K) : K[k] \in span[n]
  BY <1>3 DEF NodeGood
<1> HIDE DEF pos, K, R
<1>9. Ascending(new[n].keys)
  <2>1. \A k \in 1 .. pos - 1 : K[k] < key
    <3> SUFFICES ASSUME NEW k \in 1 .. pos - 1 PROVE K[k] < key
      OBVIOUS
    <3>1. k \in 1 .. Len(K) /\ k < pos
      BY <1>2, <1>5
    <3> QED BY <1>5, <3>1
  <2>2. \A k \in pos .. Len(K) : key < K[k]
    <3> SUFFICES ASSUME NEW k \in pos .. Len(K) PROVE key < K[k]
      OBVIOUS
    <3>1. k \in 1 .. Len(K) /\ ~(k < pos)
      BY <1>2, <1>5
    <3> QED BY <1>2, <1>5, <1>7, <3>1
  <2> QED BY <1>2, <1>4, <1>5, <1>6, <2>1, <2>2, InsertAscending
<1>10. /\ Len(new[n].keys) = Len(K) + 1 /\ new[n].keys[pos] = key
       /\ \A i \in 1 .. Len(new[n].keys) : i # pos =>
            Earlier(pos, i) \in 1 .. Len(K) /\ new[n].keys[i] = K[Earlier(pos, i)]
  BY <1>2, <1>5, <1>6, ExtendsElements
<1>11. Len(new[n].row_indices) = Len(R) + 1
  BY <1>6 DEF Extends
<1>12. \A i \in 1 .. Len(new[n].keys) : new[n].keys[i] \in span[n]
  BY <1>8, <1>10
<1>13. new[n].is_leaf /\ Len(new[n].keys) > 0 /\ Len(new[n].row_indices) = Len(new[n].keys)
  BY <1>1, <1>2, <1>4, <1>10, <1>11 DEF OthersKept
<1>14. level[n] <= level[root] /\ level[n] = 0
  BY <1>1, <1>3 DEF NodeGood
<1>15. Shaped(new[n])
  BY <1>9, <1>13 DEF Shaped
<1>16. NodeGood(new, root, span, level, n)
  BY <1>12, <1>13, <1>14, <1>15 DEF NodeGood
<1> QED BY <1>10, <1>16 DEF K

LEMMA LeafTakesTree ==
  ASSUME NEW nodes, NEW root, NEW span, NEW level, NEW s,
         Tree(nodes, root, span, level, Nil, s, Nil), NEW n \in LeavesOf(nodes),
         NEW new, NodeGood(new, root, span, level, n), OthersKept(new, nodes, n)
  PROVE  Tree(new, root, span, level, Nil, s, Nil) /\ LeavesOf(new) = LeavesOf(nodes)
<1>1. n \in 1 .. Len(nodes) /\ nodes[n].is_leaf
  BY DEF LeavesOf
<1>2. /\ new \in Seq(NodeType) /\ Len(new) = Len(nodes)
      /\ \A m \in 1 .. Len(nodes) : new[m].is_leaf = nodes[m].is_leaf
      /\ \A m \in 1 .. Len(nodes) : new[m].parent = nodes[m].parent
      /\ \A m \in 1 .. Len(nodes) : new[m].next = nodes[m].next
      /\ \A m \in 1 .. Len(nodes) : ~nodes[m].is_leaf => new[m] = nodes[m]
  BY <1>1 DEF OthersKept
<1>3. LeavesOf(new) = LeavesOf(nodes)
  BY <1>2 DEF LeavesOf
<1>4. Typed(new, root, span, level)
  BY <1>2 DEF Tree, Typed
<1>5. \A m \in 1 .. Len(new) : NodeGood(new, root, span, level, m)
  <2> SUFFICES ASSUME NEW m \in 1 .. Len(nodes), m # n PROVE NodeGood(new, root, span, level, m)
    BY <1>2
  <2>1. new[m] = nodes[m] /\ NodeGood(nodes, root, span, level, m)
    BY DEF OthersKept, Tree
  <2> QED BY <2>1 DEF NodeGood
<1>6. ChildrenGood(new, span, level, Nil, Nil)
  <2> SUFFICES ASSUME NEW m \in 1 .. Len(new), ~new[m].is_leaf, NEW p \in 1 .. Len(new[m].keys) + 1
               PROVE  ChildGood(new, span, level, Nil, Nil, m, p)
    BY DEF ChildrenGood
  <2>1. m \in 1 .. Len(nodes) /\ new[m] = nodes[m] /\ ~nodes[m].is_leaf
    BY <1>2
  <2>2. ChildGood(nodes, span, level, Nil, Nil, m, p)
    BY <2>1 DEF Tree, ChildrenGood
  <2> QED BY <1>2, <2>1, <2>2 DEF ChildGood
<1>7. ParentsGood(new, root, Nil)
  <2> SUFFICES ASSUME NEW m \in 1 .. Len(new), m # root, m # Nil PROVE IsChild(new, m)
    BY DEF ParentsGood
  <2>1. IsChild(nodes, m)
    BY <1>2 DEF Tree, ParentsGood
  <2> QED BY <1>2, <2>1 DEF IsChild
<1>8. RootGood(new, root, span, Nil, Nil)
  <2>1. root \in 1 .. Len(nodes) /\ RootGood(nodes, root, span, Nil, Nil)
    BY DEF Tree, Typed
  <2> QED BY <1>2, <2>1 DEF RootGood
<1>9. LeavesGood(new, span)
  <2>1. LeavesGood(nodes, span)
    BY DEF Tree
  <2>2. \A m \in LeavesOf(nodes) : new[m].next = nodes[m].next
    BY <1>2 DEF LeavesOf
  <2>3. \A m \in LeavesOf(nodes) : ChainGood(new, span, m)
    BY <1>3, <2>1, <2>2 DEF LeavesGood, ChainGood
  <2> QED BY <1>3, <2>1, <2>3 DEF LeavesGood
<1>10. PendingGood(new, span, level, Nil, s, Nil)
  BY DEF PendingGood
<1> QED BY <1>3, <1>4, <1>5, <1>6, <1>7, <1>8, <1>9, <1>10 DEF Tree

\* The reference has the key as well.
Recorded(new, ref, key, row) ==
  /\ DOMAIN new = DOMAIN ref \cup {key} /\ new[key] = row
  /\ \A x \in DOMAIN ref : x # key => new[x] = ref[x]

LEMMA LeafTakesContents ==
  ASSUME NEW nodes, NEW root, NEW span, NEW level, NEW s,
         Tree(nodes, root, span, level, Nil, s, Nil), NEW n \in LeavesOf(nodes),
         NEW key \in Nat, NEW row, NEW new, OthersKept(new, nodes, n), LeafTook(new, nodes, n, key, row),
         NEW ref, Contents(nodes, ref), key \notin DOMAIN ref, NEW after, Recorded(after, ref, key, row)
  PROVE  Contents(new, after)
<1> DEFINE pos == LeafPosition(nodes[n].keys, key)
           K == nodes[n].keys
           R == nodes[n].row_indices
<1>1. n \in 1 .. Len(nodes) /\ nodes[n].is_leaf /\ nodes \in Seq(NodeType)
  BY DEF LeavesOf, Tree, Typed
<1>2. K \in Seq(Nat) /\ Len(K) \in Nat
  BY <1>1, NodeIs
<1>3. NodeGood(nodes, root, span, level, n)
  BY <1>1 DEF Tree
<1>4. Ascending(K) /\ Len(R) = Len(K)
  BY <1>1, <1>3 DEF NodeGood, Shaped
<1>5. pos \in 1 .. Len(K) + 1
  BY <1>2, <1>4, LeafPositionIs
<1>6. Extends(new[n].keys, K, pos, key) /\ Extends(new[n].row_indices, R, pos, row)
  BY DEF LeafTook
<1>7. LeavesOf(new) = LeavesOf(nodes)
  BY <1>1 DEF OthersKept, LeavesOf
<1>8. \A m \in LeavesOf(nodes) : m # n => new[m] = nodes[m]
  BY DEF OthersKept, LeavesOf
<1>9. \A k \in 1 .. Len(K) : K[k] \in DOMAIN ref /\ R[k] = ref[K[k]]
  BY DEF Contents
<1> HIDE DEF pos, K, R
<1>10. /\ Len(new[n].keys) = Len(K) + 1 /\ new[n].keys[pos] = key /\ pos \in 1 .. Len(new[n].keys)
       /\ \A i \in 1 .. Len(new[n].keys) : i # pos =>
            Earlier(pos, i) \in 1 .. Len(K) /\ new[n].keys[i] = K[Earlier(pos, i)]
       /\ \A j \in 1 .. Len(K) :
            Later(pos, j) \in 1 .. Len(new[n].keys) /\ new[n].keys[Later(pos, j)] = K[j]
  BY <1>2, <1>5, <1>6, ExtendsElements
<1>11. /\ new[n].row_indices[pos] = row
       /\ \A i \in 1 .. Len(new[n].keys) : i # pos => new[n].row_indices[i] = R[Earlier(pos, i)]
  <2>1. Len(R) \in Nat /\ pos \in 1 .. Len(R) + 1
    BY <1>2, <1>4, <1>5
  <2>2. /\ Len(new[n].row_indices) = Len(R) + 1 /\ new[n].row_indices[pos] = row
        /\ \A i \in 1 .. Len(new[n].row_indices) : i # pos => new[n].row_indices[i] = R[Earlier(pos, i)]
    BY <1>6, <2>1, ExtendsElements
  <2> QED BY <1>4, <1>10, <2>2
<1>12. ASSUME NEW i \in 1 .. Len(new[n].keys)
       PROVE  new[n].keys[i] \in DOMAIN after /\ new[n].row_indices[i] = after[new[n].keys[i]]
  <2>1. CASE i = pos
    BY <1>10, <1>11, <2>1 DEF Recorded
  <2>2. CASE i # pos
    <3> DEFINE j == Earlier(pos, i)
    <3>1. j \in 1 .. Len(K) /\ new[n].keys[i] = K[j] /\ new[n].row_indices[i] = R[j]
      BY <1>10, <1>11, <2>2
    <3> HIDE DEF j
    <3>2. K[j] \in DOMAIN ref /\ R[j] = ref[K[j]] /\ K[j] # key
      BY <1>9, <3>1
    <3> QED BY <3>1, <3>2 DEF Recorded
  <2> QED BY <2>1, <2>2
<1>13. ASSUME NEW m \in LeavesOf(nodes), m # n, NEW k \in 1 .. Len(nodes[m].keys)
       PROVE  nodes[m].keys[k] \in DOMAIN after /\ nodes[m].row_indices[k] = after[nodes[m].keys[k]]
  <2>1. nodes[m].keys[k] \in DOMAIN ref /\ nodes[m].row_indices[k] = ref[nodes[m].keys[k]]
    BY DEF Contents
  <2> QED BY <2>1 DEF Recorded
<1>14. ASSUME NEW x \in DOMAIN after
       PROVE  \E m \in LeavesOf(nodes) : \E k \in 1 .. Len(new[m].keys) : new[m].keys[k] = x
  <2>1. CASE x = key
    BY <1>10, <2>1
  <2>2. CASE x # key
    <3>1. x \in DOMAIN ref
      BY <2>2 DEF Recorded
    <3>2. PICK m \in LeavesOf(nodes), k \in Nat : k \in 1 .. Len(nodes[m].keys) /\ nodes[m].keys[k] = x
      BY <3>1 DEF Contents
    <3>3. CASE m = n
      <4>1. k \in 1 .. Len(K) /\ K[k] = x
        BY <3>2, <3>3 DEF K
      <4>2. Later(pos, k) \in 1 .. Len(new[n].keys) /\ new[n].keys[Later(pos, k)] = x
        BY <1>10, <4>1
      <4> QED BY <4>2
    <3>4. CASE m # n
      BY <1>8, <3>2, <3>4
    <3> QED BY <3>3, <3>4
  <2> QED BY <2>1, <2>2
<1>15. \A m \in LeavesOf(nodes) : \A k \in 1 .. Len(new[m].keys) :
         new[m].keys[k] \in DOMAIN after /\ new[m].row_indices[k] = after[new[m].keys[k]]
  <2> SUFFICES ASSUME NEW m \in LeavesOf(nodes), NEW k \in 1 .. Len(new[m].keys)
               PROVE  new[m].keys[k] \in DOMAIN after /\ new[m].row_indices[k] = after[new[m].keys[k]]
    OBVIOUS
  <2>1. CASE m = n
    BY <1>12, <2>1
  <2>2. CASE m # n
    BY <1>8, <1>13, <2>2
  <2> QED BY <2>1, <2>2
<1> QED BY <1>7, <1>14, <1>15 DEF Contents

-----------------------------------------------------------------------------
(* A node is halved: the new node has the place after the others and the upper *)
(* part of the span.                                                           *)

SpanHalved(span, L, n, s) ==
  [m \in 1 .. L + 1 |-> IF m = n THEN {x \in span[n] : x < s}
                        ELSE IF m = L + 1 THEN {x \in span[n] : s <= x} ELSE span[m]]
LevelHalved(level, L, n) == [m \in 1 .. L + 1 |-> IF m = L + 1 THEN level[n] ELSE level[m]]

Halves(half, height, span, level, L, n, s) ==
  /\ L \in Nat /\ L + 1 \notin 1 .. L /\ L + 1 # Nil /\ L + 1 \in 1 .. L + 1
  /\ half \in [1 .. L + 1 -> SUBSET Nat] /\ height \in [1 .. L + 1 -> Nat]
  /\ \A m \in 1 .. L : m \in 1 .. L + 1 /\ m # L + 1 /\ height[m] = level[m]
  /\ \A m \in 1 .. L : m # n => half[m] = span[m]
  /\ half[n] = {x \in span[n] : x < s} /\ half[L + 1] = {x \in span[n] : s <= x}
  /\ height[L + 1] = level[n]

LEMMA SpansHalved ==
  ASSUME NEW L \in Nat, NEW span \in [1 .. L -> SUBSET Nat], NEW level \in [1 .. L -> Nat],
         NEW n \in 1 .. L, NEW s \in Nat
  PROVE  \E half, height : Halves(half, height, span, level, L, n, s)
<1> DEFINE half == SpanHalved(span, L, n, s)
           height == LevelHalved(level, L, n)
<1>2. /\ L + 1 \notin 1 .. L /\ L + 1 # Nil /\ L + 1 \in 1 .. L + 1 /\ n \in 1 .. L + 1
      /\ n # L + 1 /\ \A m \in 1 .. L : m \in 1 .. L + 1 /\ m # L + 1
  BY DEF Nil
<1>3. \A m \in 1 .. L + 1 : m \in 1 .. L \/ m = L + 1
  OBVIOUS
<1>4. height \in [1 .. L + 1 -> Nat]
  BY <1>3 DEF LevelHalved
<1>5. half \in [1 .. L + 1 -> SUBSET Nat]
  BY <1>3 DEF SpanHalved
<1>6. \A m \in 1 .. L : height[m] = level[m]
  BY <1>2 DEF LevelHalved
<1>7. \A m \in 1 .. L : m # n => half[m] = span[m]
  BY <1>2 DEF SpanHalved
<1>8. half[n] = {x \in span[n] : x < s} /\ half[L + 1] = {x \in span[n] : s <= x}
  BY <1>2 DEF SpanHalved
<1>9. height[L + 1] = level[n]
  BY <1>2 DEF LevelHalved
<1> HIDE DEF half, height
<1>10. Halves(half, height, span, level, L, n, s)
  BY <1>2, <1>4, <1>5, <1>6, <1>7, <1>8, <1>9 DEF Halves
<1> QED BY <1>10

\* What the two kinds of nodes have in common
NewNode(new, nodes, root, span, L, n, s) ==
  /\ L = Len(nodes) /\ n \in 1 .. L /\ s \in Nat /\ s \in span[n]
  /\ new \in Seq(NodeType) /\ Len(new) = L + 1 /\ new[root].parent = nodes[root].parent

LEMMA HalvedTogether ==
  ASSUME NEW nodes, NEW root, NEW span, NEW level, NEW t, Tree(nodes, root, span, level, Nil, t, Nil),
         NEW n, NEW s, NEW L, NEW half, NEW height, Halves(half, height, span, level, L, n, s),
         NEW new, NewNode(new, nodes, root, span, L, n, s)
  PROVE  /\ Typed(new, root, half, height)
         /\ RootGood(new, root, half, n, L + 1)
         /\ PendingGood(new, half, height, n, s, L + 1)
         /\ \A c \in 1 .. L, x \in Nat : Covers(half, n, L + 1, c, x) <=> Covers(span, Nil, Nil, c, x)
<1>1. /\ L \in Nat /\ L + 1 \notin 1 .. L /\ L + 1 # Nil /\ L + 1 \in 1 .. L + 1
      /\ half \in [1 .. L + 1 -> SUBSET Nat] /\ height \in [1 .. L + 1 -> Nat]
      /\ \A m \in 1 .. L : m \in 1 .. L + 1 /\ m # L + 1 /\ height[m] = level[m]
      /\ \A m \in 1 .. L : m # n => half[m] = span[m]
      /\ half[n] = {x \in span[n] : x < s} /\ half[L + 1] = {x \in span[n] : s <= x}
      /\ height[L + 1] = level[n]
  BY DEF Halves
<1>0. /\ L = Len(nodes) /\ n \in 1 .. L /\ s \in Nat /\ s \in span[n]
      /\ new \in Seq(NodeType) /\ Len(new) = L + 1 /\ new[root].parent = nodes[root].parent
  BY DEF NewNode
<1>2. /\ root \in 1 .. L /\ level[root] < L /\ span \in [1 .. L -> SUBSET Nat]
      /\ level \in [1 .. L -> Nat]
  BY <1>0 DEF Tree, Typed
<1>3. Typed(new, root, half, height)
  <2>1. height[root] < L + 1 /\ root \in 1 .. L + 1
    BY <1>1, <1>2
  <2> QED BY <1>0, <1>1, <2>1 DEF Typed
<1>4. ASSUME NEW c \in 1 .. L, NEW x \in Nat
      PROVE  Covers(half, n, L + 1, c, x) <=> Covers(span, Nil, Nil, c, x)
  <2>1. c # Nil
    BY DEF Nil
  <2>2. CASE c = n
    <3>1. x \in half[n] \/ x \in half[L + 1] <=> x \in span[n]
      BY <1>0, <1>1
    <3> QED BY <2>1, <2>2, <3>1 DEF Covers
  <2>3. CASE c # n
    BY <1>1, <2>1, <2>3 DEF Covers
  <2> QED BY <2>2, <2>3
<1>5. RootGood(new, root, half, n, L + 1)
  <2>1. RootGood(nodes, root, span, Nil, Nil)
    BY DEF Tree
  <2> QED BY <1>0, <1>1, <1>2, <1>4, <2>1 DEF RootGood
<1>6. PendingGood(new, half, height, n, s, L + 1)
  <2>1. n # Nil /\ n \in 1 .. L + 1 /\ L + 1 \in 1 .. L + 1 /\ n # L + 1
    BY <1>0, <1>1 DEF Nil
  <2>2. height[n] = height[L + 1] /\ s \in half[L + 1]
    BY <1>0, <1>1
  <2>3. (\A x \in half[n] : x < s) /\ (\A x \in half[L + 1] : s <= x)
    BY <1>1
  <2> QED BY <1>0, <2>1, <2>2, <2>3 DEF PendingGood
<1> QED BY <1>3, <1>4, <1>5, <1>6

\* The leaf n has given its keys after the first h to the new leaf.
LeafHalved(new, nodes, n, h) ==
  LET L == Len(nodes) IN
  /\ new \in Seq(NodeType) /\ Len(new) = L + 1
  /\ \A m \in 1 .. L : m # n => new[m] = nodes[m]
  /\ new[n].is_leaf = nodes[n].is_leaf /\ new[n].parent = nodes[n].parent /\ new[n].next = L + 1
  /\ Starts(new[n].keys, nodes[n].keys, h) /\ Starts(new[n].row_indices, nodes[n].row_indices, h)
  /\ new[L + 1].is_leaf /\ new[L + 1].next = nodes[n].next
  /\ Ends(new[L + 1].keys, nodes[n].keys, h)
  /\ Ends(new[L + 1].row_indices, nodes[n].row_indices, h)

LEMMA LeafHalvedNodes ==
  ASSUME NEW nodes, NEW root, NEW span, NEW level, NEW t, Tree(nodes, root, span, level, Nil, t, Nil),
         NEW n \in LeavesOf(nodes), NEW h \in 1 .. Len(nodes[n].keys) - 1, NEW new, LeafHalved(new, nodes, n, h),
         NEW L, L = Len(nodes), NEW s, s = nodes[n].keys[h + 1],
         NEW half, NEW height, Halves(half, height, span, level, L, n, s)
  PROVE  /\ s \in Nat /\ s \in span[n]
         /\ \A m \in 1 .. L + 1 : NodeGood(new, root, half, height, m)
<1> DEFINE K == nodes[n].keys
           R == nodes[n].row_indices
<1>1. n \in 1 .. L /\ nodes[n].is_leaf /\ nodes \in Seq(NodeType) /\ root \in 1 .. L
  BY DEF LeavesOf, Tree, Typed
<1>2. Len(K) \in Nat /\ \A k \in 1 .. Len(K) : K[k] \in Nat
  BY <1>1, NodeIs
<1>3. NodeGood(nodes, root, span, level, n)
  BY <1>1 DEF Tree
<1>4. Len(R) = Len(K) /\ \A i, j \in 1 .. Len(K) : i < j => K[i] < K[j]
  BY <1>1, <1>3 DEF NodeGood, Shaped, Ascending
<1>5. \A k \in 1 .. Len(K) : K[k] \in span[n]
  BY <1>3 DEF NodeGood
<1>6. level[n] = 0 /\ level[n] <= level[root]
  BY <1>1, <1>3 DEF NodeGood
<1>7. h \in 1 .. Len(K) - 1 /\ s = K[h + 1]
  OBVIOUS
<1>8. /\ Len(new[n].keys) = h /\ \A i \in 1 .. h : new[n].keys[i] = K[i]
      /\ Len(new[n].row_indices) = h /\ new[n].is_leaf
  BY <1>1 DEF LeafHalved, Starts
<1>9. /\ Len(new[L + 1].keys) = Len(K) - h /\ \A i \in 1 .. Len(K) - h : new[L + 1].keys[i] = K[h + i]
      /\ Len(new[L + 1].row_indices) = Len(R) - h /\ new[L + 1].is_leaf
  BY DEF LeafHalved, Ends
<1> HIDE DEF K, R
<1>10. s \in Nat /\ s \in span[n]
  <2>1. h + 1 \in 1 .. Len(K)
    BY <1>2, <1>7
  <2> QED BY <1>2, <1>5, <1>7, <2>1
<1>11. /\ L \in Nat /\ \A m \in 1 .. L + 1 : m \in 1 .. L \/ m = L + 1
       /\ \A m \in 1 .. L : height[m] = level[m]
       /\ \A m \in 1 .. L : m # n => half[m] = span[m]
       /\ half[n] = {x \in span[n] : x < s} /\ half[L + 1] = {x \in span[n] : s <= x}
       /\ height[L + 1] = level[n]
  <2>1. /\ L \in Nat
        /\ \A m \in 1 .. L : m \in 1 .. L + 1 /\ m # L + 1 /\ height[m] = level[m]
        /\ \A m \in 1 .. L : m # n => half[m] = span[m]
        /\ half[n] = {x \in span[n] : x < s} /\ half[L + 1] = {x \in span[n] : s <= x}
        /\ height[L + 1] = level[n]
    BY DEF Halves
  <2>2. \A m \in 1 .. L + 1 : m \in 1 .. L \/ m = L + 1
    BY <2>1
  <2> QED BY <2>1, <2>2
<1>12. NodeGood(new, root, half, height, n)
  <2>1. ASSUME NEW i \in 1 .. h PROVE new[n].keys[i] \in half[n]
    <3>1. i \in 1 .. Len(K) /\ h + 1 \in 1 .. Len(K) /\ i < h + 1
      BY <1>2, <1>7
    <3> QED BY <1>4, <1>5, <1>7, <1>8, <1>11, <3>1
  <2>2. Ascending(new[n].keys)
    <3> SUFFICES ASSUME NEW i \in 1 .. h, NEW j \in 1 .. h, i < j PROVE new[n].keys[i] < new[n].keys[j]
      BY <1>8 DEF Ascending
    <3>1. i \in 1 .. Len(K) /\ j \in 1 .. Len(K)
      BY <1>2, <1>7
    <3> QED BY <1>4, <1>8, <3>1
  <2>3. Shaped(new[n])
    BY <1>7, <1>8, <2>2 DEF Shaped
  <2> QED BY <1>1, <1>6, <1>8, <1>11, <2>1, <2>3 DEF NodeGood
<1>13. NodeGood(new, root, half, height, L + 1)
  <2>1. ASSUME NEW i \in 1 .. Len(K) - h PROVE new[L + 1].keys[i] \in half[L + 1]
    <3>1. h + i \in 1 .. Len(K) /\ h + 1 \in 1 .. Len(K) /\ (h + 1 < h + i \/ h + 1 = h + i)
      BY <1>2, <1>7
    <3>2. s <= K[h + i]
      BY <1>2, <1>4, <1>7, <3>1
    <3> QED BY <1>5, <1>9, <1>11, <3>1, <3>2
  <2>2. Ascending(new[L + 1].keys)
    <3> SUFFICES ASSUME NEW i \in 1 .. Len(K) - h, NEW j \in 1 .. Len(K) - h, i < j
                 PROVE  new[L + 1].keys[i] < new[L + 1].keys[j]
      BY <1>9 DEF Ascending
    <3>1. h + i \in 1 .. Len(K) /\ h + j \in 1 .. Len(K) /\ h + i < h + j
      BY <1>2, <1>7
    <3> QED BY <1>4, <1>9, <3>1
  <2>3. Len(K) - h > 0
    BY <1>2, <1>7
  <2>4. Shaped(new[L + 1])
    BY <1>4, <1>9, <2>2, <2>3 DEF Shaped
  <2> QED BY <1>1, <1>6, <1>9, <1>11, <2>1, <2>4 DEF NodeGood
<1>14. ASSUME NEW m \in 1 .. L, m # n PROVE NodeGood(new, root, half, height, m)
  <2>1. new[m] = nodes[m]
    BY <1>14 DEF LeafHalved
  <2>2. NodeGood(nodes, root, span, level, m)
    BY DEF Tree
  <2> QED BY <1>1, <1>11, <1>14, <2>1, <2>2 DEF NodeGood
<1> QED BY <1>10, <1>11, <1>12, <1>13, <1>14

\* Parts of the spans keep the order of the spans.
LEMMA PrecedesHalved ==
  ASSUME NEW span, NEW half, NEW a, NEW b, NEW c, NEW d,
         half[a] \subseteq span[c], half[b] \subseteq span[d], Precedes(span, c, d)
  PROVE  Precedes(half, a, b)
  BY DEF Precedes

\* The new leaf follows n in the chain.
Chained(new, nodes, half, span, L, n) ==
  /\ L \in Nat /\ L = Len(nodes) /\ Len(new) = L + 1
  /\ \A m \in 1 .. L : new[m].is_leaf = nodes[m].is_leaf
  /\ new[L + 1].is_leaf /\ new[n].next = L + 1 /\ new[L + 1].next = nodes[n].next
  /\ \A m \in 1 .. L : m # n => new[m].next = nodes[m].next
  /\ half[n] \subseteq span[n] /\ half[L + 1] \subseteq span[n] /\ Precedes(half, n, L + 1)
  /\ \A m \in 1 .. L : m # n => half[m] = span[m]

LEMMA LeafHalvedChain ==
  ASSUME NEW nodes, NEW span, LeavesGood(nodes, span), NEW n \in LeavesOf(nodes),
         NEW L, NEW new, NEW half, Chained(new, nodes, half, span, L, n)
  PROVE  LeavesGood(new, half)
<1> SUFFICES ASSUME L \in Nat, L = Len(nodes), Len(new) = L + 1,
                    \A m \in 1 .. L : new[m].is_leaf = nodes[m].is_leaf,
                    new[L + 1].is_leaf, new[n].next = L + 1, new[L + 1].next = nodes[n].next,
                    \A m \in 1 .. L : m # n => new[m].next = nodes[m].next,
                    half[n] \subseteq span[n], half[L + 1] \subseteq span[n], Precedes(half, n, L + 1),
                    \A m \in 1 .. L : m # n => half[m] = span[m]
             PROVE  LeavesGood(new, half)
  BY DEF Chained
<1> DEFINE N == LeavesOf(nodes)
           o == L + 1
           was(m) == IF m = o THEN n ELSE m
<1>1. LeavesOf(new) = N \cup {o} /\ N \subseteq 1 .. L /\ o \notin N /\ o # Nil
  BY DEF LeavesOf, Nil
<1>2. \A m \in N \cup {o} : was(m) \in N /\ half[m] \subseteq span[was(m)]
  BY <1>1
<1>3. ASSUME NEW a \in N \cup {o}, NEW b \in N \cup {o}, Precedes(span, was(a), was(b)) PROVE Precedes(half, a, b)
  <2>1. half[a] \subseteq span[was(a)] /\ half[b] \subseteq span[was(b)]
    BY <1>2
  <2> HIDE DEF was
  <2> QED BY <1>3, <2>1, PrecedesHalved
<1>4. \A a, b \in N : a # b => Precedes(span, a, b) \/ Precedes(span, b, a)
  BY DEF LeavesGood
<1>5. Precedes(half, n, o)
  OBVIOUS
<1>6. ASSUME NEW a \in N \cup {o}, NEW b \in N \cup {o}, a # b PROVE Precedes(half, a, b) \/ Precedes(half, b, a)
  <2>1. CASE was(a) # was(b)
    <3>1. Precedes(span, was(a), was(b)) \/ Precedes(span, was(b), was(a))
      BY <1>2, <1>4, <2>1
    <3> HIDE DEF was
    <3> QED BY <1>3, <3>1
  <2>2. CASE was(a) = was(b)
    <3>1. (a = n /\ b = o) \/ (a = o /\ b = n)
      BY <1>1, <1>6, <2>2
    <3> QED BY <1>5, <3>1
  <2> QED BY <2>1, <2>2
<1>7. \A a \in N : ChainGood(nodes, span, a)
  BY DEF LeavesGood
<1>8. ChainGood(new, half, n)
  <2>1. ASSUME NEW l \in N \cup {o}, l # n, l # o PROVE Precedes(half, l, n) \/ Precedes(half, o, l)
    <3>1. l \in N /\ was(l) = l /\ was(n) = n /\ was(o) = n /\ n \in N \cup {o} /\ o \in N \cup {o}
      BY <1>1, <2>1
    <3>2. Precedes(span, l, n) \/ Precedes(span, n, l)
      BY <1>4, <2>1, <3>1
    <3> HIDE DEF was, o
    <3> QED BY <1>3, <3>1, <3>2
  <2> QED BY <1>1, <1>5, <2>1 DEF ChainGood
<1>9. ChainGood(new, half, o)
  <2> DEFINE m == nodes[n].next
  <2>0. was(o) = n /\ o \in N \cup {o} /\ n \in N \cup {o} /\ was(n) = n /\ \A l \in N : was(l) = l /\ l \in N \cup {o}
    BY <1>1
  <2>1. CASE m = Nil
    <3>1. \A l \in N : l # n => Precedes(span, l, n)
      BY <1>7, <2>1 DEF ChainGood
    <3>2. ASSUME NEW l \in N \cup {o}, l # o PROVE Precedes(half, l, o)
      <4>1. l \in N
        BY <3>2
      <4>2. CASE l = n
        BY <1>5, <4>2
      <4>3. CASE l # n
        <5>1. Precedes(span, was(l), was(o))
          BY <2>0, <3>1, <4>1, <4>3
        <5> HIDE DEF was, o
        <5> QED BY <1>3, <2>0, <4>1, <5>1
      <4> QED BY <4>2, <4>3
    <3> QED BY <1>1, <2>1, <3>2 DEF ChainGood
  <2>2. CASE m # Nil
    <3>1. /\ m \in N /\ m # n /\ Precedes(span, n, m)
          /\ \A l \in N : l # n /\ l # m => Precedes(span, l, n) \/ Precedes(span, m, l)
      BY <1>7, <2>2 DEF ChainGood
    <3> HIDE DEF m
    <3>2. Precedes(half, o, m) /\ m # o
      <4>1. Precedes(span, was(o), was(m)) /\ m # o
        BY <1>1, <2>0, <3>1
      <4> HIDE DEF was, o
      <4> QED BY <1>3, <2>0, <3>1, <4>1
    <3>3. ASSUME NEW l \in N \cup {o}, l # o, l # m PROVE Precedes(half, l, o) \/ Precedes(half, m, l)
      <4>1. l \in N
        BY <3>3
      <4>2. CASE l = n
        BY <1>5, <4>2
      <4>3. CASE l # n
        <5>1. Precedes(span, was(l), was(o)) \/ Precedes(span, was(m), was(l))
          BY <2>0, <3>1, <3>3, <4>1, <4>3
        <5> HIDE DEF was, o
        <5> QED BY <1>3, <2>0, <3>1, <4>1, <5>1
      <4> QED BY <4>2, <4>3
    <3> HIDE DEF o
    <3>4. new[o].next = m
      BY DEF o, m
    <3> QED BY <1>1, <2>2, <3>1, <3>2, <3>3, <3>4 DEF ChainGood
  <2> QED BY <2>1, <2>2
<1>10. ASSUME NEW a \in N, a # n PROVE ChainGood(new, half, a)
  <2> DEFINE m == nodes[a].next
  <2>0. /\ was(o) = n /\ o \in N \cup {o} /\ was(n) = n /\ was(a) = a /\ a # o
        /\ \A l \in N : was(l) = l /\ l \in N \cup {o}
    BY <1>1
  <2>1. new[a].next = m /\ ChainGood(nodes, span, a)
    BY <1>1, <1>7, <1>10
  <2>2. CASE m = Nil
    <3>1. \A l \in N : l # a => Precedes(span, l, a)
      BY <2>1, <2>2 DEF ChainGood
    <3>2. ASSUME NEW l \in N \cup {o}, l # a PROVE Precedes(half, l, a)
      <4>1. Precedes(span, was(l), was(a))
        BY <1>2, <1>10, <2>0, <3>1, <3>2
      <4> HIDE DEF was, o
      <4> QED BY <1>3, <2>0, <4>1
    <3> QED BY <1>1, <2>1, <2>2, <3>2 DEF ChainGood
  <2>3. CASE m # Nil
    <3>1. /\ m \in N /\ m # a /\ Precedes(span, a, m)
          /\ \A l \in N : l # a /\ l # m => Precedes(span, l, a) \/ Precedes(span, m, l)
      BY <2>1, <2>3 DEF ChainGood
    <3> HIDE DEF m
    <3>2. Precedes(half, a, m)
      <4>1. Precedes(span, was(a), was(m))
        BY <2>0, <3>1
      <4> HIDE DEF was, o
      <4> QED BY <1>3, <2>0, <3>1, <4>1
    <3>3. ASSUME NEW l \in N \cup {o}, l # a, l # m PROVE Precedes(half, l, a) \/ Precedes(half, m, l)
      <4>1. CASE l = o /\ m = n
        BY <1>5, <4>1
      <4>2. CASE ~(l = o /\ m = n)
        <5>1. was(l) \in N /\ was(l) # a /\ was(l) # m
          BY <1>1, <1>2, <1>10, <2>0, <3>1, <3>3, <4>2
        <5>2. Precedes(span, was(l), was(a)) \/ Precedes(span, was(m), was(l))
          BY <2>0, <3>1, <5>1
        <5> HIDE DEF was, o
        <5> QED BY <1>3, <2>0, <3>1, <5>2
      <4> QED BY <4>1, <4>2
    <3> HIDE DEF o
    <3> QED BY <1>1, <2>1, <2>3, <3>1, <3>2, <3>3 DEF ChainGood
  <2> QED BY <2>2, <2>3
<1> HIDE DEF N, o
<1>11. \A a \in N \cup {o} : ChainGood(new, half, a)
  BY <1>8, <1>9, <1>10
<1> QED BY <1>1, <1>6, <1>11 DEF LeavesGood

LEMMA LeafHalvedTree ==
  ASSUME NEW nodes, NEW root, NEW span, NEW level, NEW t, Tree(nodes, root, span, level, Nil, t, Nil),
         NEW n \in LeavesOf(nodes), NEW h \in 1 .. Len(nodes[n].keys) - 1, NEW new, LeafHalved(new, nodes, n, h),
         NEW L, L = Len(nodes), NEW s, s = nodes[n].keys[h + 1],
         NEW half, NEW height, Halves(half, height, span, level, L, n, s)
  PROVE  Tree(new, root, half, height, n, s, L + 1)
<1>1. n \in 1 .. L /\ nodes[n].is_leaf /\ root \in 1 .. L
  BY DEF LeavesOf, Tree, Typed
<1>2. s \in Nat /\ s \in span[n] /\ \A m \in 1 .. L + 1 : NodeGood(new, root, half, height, m)
  BY LeafHalvedNodes
<1>3. /\ new \in Seq(NodeType) /\ Len(new) = L + 1
      /\ \A m \in 1 .. L : m # n => new[m] = nodes[m]
      /\ new[n].is_leaf = nodes[n].is_leaf /\ new[n].parent = nodes[n].parent /\ new[n].next = L + 1
      /\ new[L + 1].is_leaf /\ new[L + 1].next = nodes[n].next
  BY DEF LeafHalved
<1>4. /\ \A m \in 1 .. L : new[m].is_leaf = nodes[m].is_leaf
      /\ \A m \in 1 .. L : new[m].parent = nodes[m].parent
      /\ \A m \in 1 .. L : ~nodes[m].is_leaf => new[m] = nodes[m]
      /\ \A m \in 1 .. L : m # n => new[m].next = nodes[m].next
  <2>1. \A m \in 1 .. L : new[m].is_leaf = nodes[m].is_leaf
    BY <1>3, Zenon
  <2>2. \A m \in 1 .. L : new[m].parent = nodes[m].parent
    BY <1>3
  <2>3. \A m \in 1 .. L : ~nodes[m].is_leaf => new[m] = nodes[m]
    BY <1>1, <1>3, Zenon
  <2>4. \A m \in 1 .. L : m # n => new[m].next = nodes[m].next
    BY <1>3
  <2> QED BY <2>1, <2>2, <2>3, <2>4
<1>5. /\ Typed(new, root, half, height)
      /\ RootGood(new, root, half, n, L + 1)
      /\ PendingGood(new, half, height, n, s, L + 1)
      /\ \A c \in 1 .. L, x \in Nat : Covers(half, n, L + 1, c, x) <=> Covers(span, Nil, Nil, c, x)
  <2>1. new[root].parent = nodes[root].parent
    BY <1>1, <1>4
  <2>2. NewNode(new, nodes, root, span, L, n, s)
    BY <1>1, <1>2, <1>3, <2>1 DEF NewNode
  <2> QED BY <2>2, HalvedTogether
<1>6. /\ L \in Nat /\ \A m \in 1 .. L : m \in 1 .. L + 1 /\ m # L + 1 /\ height[m] = level[m]
      /\ \A m \in 1 .. L : m # n => half[m] = span[m]
      /\ half[n] = {x \in span[n] : x < s} /\ half[L + 1] = {x \in span[n] : s <= x}
  BY DEF Halves
<1>7. \A m \in 1 .. L + 1 : ~new[m].is_leaf => m \in 1 .. L /\ m # n
  <2>1. \A m \in 1 .. L + 1 : m \in 1 .. L \/ m = L + 1
    BY <1>6
  <2> QED BY <1>1, <1>3, <2>1
<1>8. ChildrenGood(new, half, height, n, L + 1)
  <2> SUFFICES ASSUME NEW m \in 1 .. L + 1, ~new[m].is_leaf, NEW p \in 1 .. Len(new[m].keys) + 1
               PROVE  ChildGood(new, half, height, n, L + 1, m, p)
    BY <1>3 DEF ChildrenGood
  <2> DEFINE c == nodes[m].children[p]
  <2>1. m \in 1 .. L /\ m # n /\ new[m] = nodes[m]
    BY <1>3, <1>7
  <2>2. ChildGood(nodes, span, level, Nil, Nil, m, p)
    BY <2>1 DEF Tree, ChildrenGood
  <2>3. /\ c \in 1 .. L /\ nodes[c].parent = m /\ level[m] = level[c] + 1
        /\ \A x \in Nat : Covers(span, Nil, Nil, c, x) <=> x \in span[m] /\ InSlot(nodes[m].keys, p, x)
    BY <2>2 DEF ChildGood
  <2>4. new[m].children[p] = c
    BY <2>1
  <2> HIDE DEF c
  <2>5. c \in 1 .. L + 1 /\ c # L + 1 /\ new[c].parent = m /\ height[m] = height[c] + 1 /\ half[m] = span[m]
    BY <1>4, <1>6, <2>1, <2>3
  <2>6. \A x \in Nat : Covers(half, n, L + 1, c, x) <=> x \in half[m] /\ InSlot(new[m].keys, p, x)
    BY <1>5, <2>1, <2>3, <2>5
  <2> QED BY <1>3, <2>4, <2>5, <2>6 DEF ChildGood
<1>9. ParentsGood(new, root, L + 1)
  <2> SUFFICES ASSUME NEW m \in 1 .. L + 1, m # root, m # L + 1 PROVE IsChild(new, m)
    BY <1>3 DEF ParentsGood
  <2>1. m \in 1 .. L /\ m # Nil
    BY <1>6 DEF Nil
  <2>2. IsChild(nodes, m)
    BY <2>1 DEF Tree, ParentsGood
  <2> QED BY <1>3, <1>4, <1>6, <2>1, <2>2 DEF IsChild
<1>10. LeavesGood(new, half)
  <2>1. half[n] \subseteq span[n] /\ half[L + 1] \subseteq span[n]
    BY <1>6
  <2>2. Precedes(half, n, L + 1)
    <3>1. span[n] \subseteq Nat
      BY <1>1 DEF Tree, Typed
    <3> QED BY <1>2, <1>6, <3>1 DEF Precedes
  <2>3. LeavesGood(nodes, span)
    BY DEF Tree
  <2>4. /\ Len(new) = L + 1 /\ \A m \in 1 .. L : new[m].is_leaf = nodes[m].is_leaf
    BY <1>3, <1>4, Zenon
  <2>5. /\ new[L + 1].is_leaf /\ new[n].next = L + 1 /\ new[L + 1].next = nodes[n].next
        /\ \A m \in 1 .. L : m # n => new[m].next = nodes[m].next
    BY <1>3, <1>4, Zenon
  <2>6. L \in Nat /\ \A m \in 1 .. L : m # n => half[m] = span[m]
    BY <1>6, Zenon
  <2>7. Chained(new, nodes, half, span, L, n)
    BY <2>1, <2>2, <2>4, <2>5, <2>6, Zenon DEF Chained
  <2> QED BY <2>3, <2>7, LeafHalvedChain
<1> QED BY <1>2, <1>3, <1>5, <1>8, <1>9, <1>10 DEF Tree

LEMMA LeafHalvedContents ==
  ASSUME NEW nodes, NEW root, NEW span, NEW level, NEW t, Tree(nodes, root, span, level, Nil, t, Nil),
         NEW n \in LeavesOf(nodes), NEW h \in 1 .. Len(nodes[n].keys) - 1, NEW new, LeafHalved(new, nodes, n, h),
         NEW ref, Contents(nodes, ref)
  PROVE  Contents(new, ref)
<1> DEFINE L == Len(nodes)
           K == nodes[n].keys
           R == nodes[n].row_indices
<1>1. n \in 1 .. L /\ nodes[n].is_leaf /\ nodes \in Seq(NodeType) /\ L \in Nat
  BY LenProperties DEF LeavesOf, Tree, Typed
<1>2. Len(K) \in Nat /\ NodeGood(nodes, root, span, level, n)
  BY <1>1, NodeIs DEF Tree
<1>3. Len(R) = Len(K)
  BY <1>1, <1>2 DEF NodeGood, Shaped
<1>4. /\ Len(new) = L + 1 /\ \A m \in 1 .. L : m # n => new[m] = nodes[m]
      /\ new[n].is_leaf = nodes[n].is_leaf /\ new[L + 1].is_leaf
  BY DEF LeafHalved
<1>5. /\ Len(new[n].keys) = h /\ \A i \in 1 .. h : new[n].keys[i] = K[i]
      /\ \A i \in 1 .. h : new[n].row_indices[i] = R[i]
  BY DEF LeafHalved, Starts
<1>6. /\ Len(new[L + 1].keys) = Len(K) - h /\ \A i \in 1 .. Len(K) - h : new[L + 1].keys[i] = K[h + i]
      /\ \A i \in 1 .. Len(R) - h : new[L + 1].row_indices[i] = R[h + i]
  BY DEF LeafHalved, Ends
<1>7. h \in 1 .. Len(K) - 1 /\ \A k \in 1 .. Len(K) : K[k] \in DOMAIN ref /\ R[k] = ref[K[k]]
  BY DEF Contents
<1>8. LeavesOf(new) = LeavesOf(nodes) \cup {L + 1} /\ L + 1 \notin LeavesOf(nodes)
  <2> HIDE DEF K, R
  <2>1. \A m \in 1 .. L : new[m].is_leaf = nodes[m].is_leaf
    BY <1>4, Zenon
  <2>2. \A m \in 1 .. L + 1 : m \in 1 .. L \/ m = L + 1
    BY <1>1
  <2>3. 1 .. L \subseteq 1 .. L + 1 /\ L + 1 \in 1 .. L + 1 /\ L + 1 \notin 1 .. L
    BY <1>1
  <2> HIDE DEF L
  <2>4. LeavesOf(nodes) = {m \in 1 .. L : nodes[m].is_leaf}
    BY DEF LeavesOf, L
  <2> QED BY <1>4, <2>1, <2>2, <2>3, <2>4, Zenon DEF LeavesOf
<1>9. \A m \in LeavesOf(nodes) : m # n => new[m] = nodes[m]
  BY <1>4 DEF LeavesOf
<1> HIDE DEF K, R, L
<1>10. ASSUME NEW m \in LeavesOf(new), NEW k \in 1 .. Len(new[m].keys)
       PROVE  new[m].keys[k] \in DOMAIN ref /\ new[m].row_indices[k] = ref[new[m].keys[k]]
  <2>1. CASE m = n
    <3>1. k \in 1 .. h /\ k \in 1 .. Len(K)
      BY <1>2, <1>5, <1>7, <2>1
    <3> QED BY <1>5, <1>7, <2>1, <3>1
  <2>2. CASE m = L + 1
    <3>1. k \in 1 .. Len(K) - h /\ h + k \in 1 .. Len(K)
      BY <1>2, <1>6, <1>7, <2>2
    <3> QED BY <1>3, <1>6, <1>7, <2>2, <3>1
  <2>3. CASE m # n /\ m # L + 1
    <3>1. m \in LeavesOf(nodes) /\ new[m] = nodes[m]
      BY <1>8, <1>9, <2>3
    <3> QED BY <3>1 DEF Contents
  <2> QED BY <2>1, <2>2, <2>3
<1>11. ASSUME NEW x \in DOMAIN ref
       PROVE  \E m \in LeavesOf(new) : \E k \in 1 .. Len(new[m].keys) : new[m].keys[k] = x
  <2>1. PICK m \in LeavesOf(nodes) : \E k \in 1 .. Len(nodes[m].keys) : nodes[m].keys[k] = x
    BY DEF Contents
  <2>2. CASE m = n
    <3>1. PICK k \in 1 .. Len(K) : K[k] = x
      BY <2>1, <2>2 DEF K
    <3>2. CASE k <= h
      <4>1. k \in 1 .. Len(new[n].keys) /\ new[n].keys[k] = x
        BY <1>5, <1>7, <3>1, <3>2
      <4> QED BY <1>8, <4>1
    <3>3. CASE ~(k <= h)
      <4>1. k - h \in 1 .. Len(K) - h /\ h + (k - h) = k
        BY <1>2, <1>7, <3>3
      <4>2. k - h \in 1 .. Len(new[L + 1].keys) /\ new[L + 1].keys[k - h] = x
        BY <1>6, <3>1, <4>1
      <4> QED BY <1>8, <4>2
    <3> QED BY <3>2, <3>3
  <2>3. CASE m # n
    BY <1>8, <1>9, <2>1, <2>3
  <2> QED BY <2>2, <2>3
<1> QED BY <1>10, <1>11 DEF Contents

-----------------------------------------------------------------------------
(* Steps above the leaves *)

SameLeaves(new, nodes) ==
  /\ LeavesOf(new) = LeavesOf(nodes)
  /\ \A m \in LeavesOf(nodes) : new[m].keys = nodes[m].keys
  /\ \A m \in LeavesOf(nodes) : new[m].row_indices = nodes[m].row_indices
  /\ \A m \in LeavesOf(nodes) : new[m].next = nodes[m].next

LEMMA SameLeavesContents ==
  ASSUME NEW new, NEW nodes, SameLeaves(new, nodes), NEW ref, Contents(nodes, ref)
  PROVE  Contents(new, ref)
<1> DEFINE N == LeavesOf(nodes)
<1>1. /\ LeavesOf(new) = N
      /\ \A m \in N : new[m].keys = nodes[m].keys /\ new[m].row_indices = nodes[m].row_indices
  BY DEF SameLeaves
<1>2. \A m \in N : \A k \in 1 .. Len(nodes[m].keys) :
        nodes[m].keys[k] \in DOMAIN ref /\ nodes[m].row_indices[k] = ref[nodes[m].keys[k]]
  BY DEF Contents
<1>3. \A x \in DOMAIN ref : \E m \in N : \E k \in 1 .. Len(nodes[m].keys) : nodes[m].keys[k] = x
  BY DEF Contents
<1> HIDE DEF N
<1>4. \A m \in N : \A k \in 1 .. Len(new[m].keys) :
        new[m].keys[k] \in DOMAIN ref /\ new[m].row_indices[k] = ref[new[m].keys[k]]
  BY <1>1, <1>2
<1>5. \A x \in DOMAIN ref : \E m \in N : \E k \in 1 .. Len(new[m].keys) : new[m].keys[k] = x
  BY <1>1, <1>3
<1> QED BY <1>1, <1>4, <1>5 DEF Contents

LEMMA SameLeavesChain ==
  ASSUME NEW new, NEW nodes, SameLeaves(new, nodes), NEW span, NEW half,
         \A m \in LeavesOf(nodes) : half[m] = span[m], LeavesGood(nodes, span)
  PROVE  LeavesGood(new, half)
<1> DEFINE N == LeavesOf(nodes)
<1>1. LeavesOf(new) = N /\ \A m \in N : new[m].next = nodes[m].next
  BY DEF SameLeaves
<1>2. \A a, b \in N : Precedes(half, a, b) <=> Precedes(span, a, b)
  BY DEF Precedes
<1>3. /\ \A a, b \in N : a # b => Precedes(span, a, b) \/ Precedes(span, b, a)
      /\ \A a \in N : ChainGood(nodes, span, a)
  BY DEF LeavesGood
<1> HIDE DEF N
<1>4. ASSUME NEW a \in N PROVE ChainGood(new, half, a)
  <2> DEFINE m == nodes[a].next
  <2>1. ChainGood(nodes, span, a) /\ new[a].next = m
    BY <1>1, <1>3
  <2>2. CASE m = Nil
    <3>1. \A l \in N : l # a => Precedes(span, l, a)
      BY <2>1, <2>2 DEF ChainGood, N
    <3> QED BY <1>1, <1>2, <2>1, <2>2, <3>1 DEF ChainGood
  <2>3. CASE m # Nil
    <3>1. /\ m \in N /\ m # a /\ Precedes(span, a, m)
          /\ \A l \in N : l # a /\ l # m => Precedes(span, l, a) \/ Precedes(span, m, l)
      BY <2>1, <2>3 DEF ChainGood, N
    <3> HIDE DEF m
    <3> QED BY <1>1, <1>2, <2>1, <2>3, <3>1 DEF ChainGood
  <2> QED BY <2>2, <2>3
<1> QED BY <1>1, <1>2, <1>3, <1>4 DEF LeavesGood

\* right has become the child after left, the pos-th one, of their parent.
Linked(new, nodes, parent, pos, s, right) ==
  /\ new \in Seq(NodeType) /\ Len(new) = Len(nodes)
  /\ \A m \in 1 .. Len(nodes) : new[m].is_leaf = nodes[m].is_leaf
  /\ \A m \in 1 .. Len(nodes) : new[m].row_indices = nodes[m].row_indices
  /\ \A m \in 1 .. Len(nodes) : new[m].next = nodes[m].next
  /\ \A m \in 1 .. Len(nodes) : m # parent => new[m].keys = nodes[m].keys
  /\ \A m \in 1 .. Len(nodes) : m # parent => new[m].children = nodes[m].children
  /\ \A m \in 1 .. Len(nodes) : m # right => new[m].parent = nodes[m].parent
  /\ new[right].parent = parent
  /\ Extends(new[parent].keys, nodes[parent].keys, pos, s)
  /\ Extends(new[parent].children, nodes[parent].children, pos + 1, right)

\* left is the pos-th child of the parent.
Parting(nodes, left, parent, pos) ==
  /\ left # Nil /\ parent = nodes[left].parent /\ nodes[parent].children[pos] = left
  /\ pos \in 1 .. Len(nodes[parent].keys) + 1

\* What is known of the place of left and right
PlaceGood(nodes, span, level, left, s, right, parent, pos) ==
  /\ parent \in 1 .. Len(nodes) /\ ~nodes[parent].is_leaf /\ parent # right /\ left # right
  /\ right \in 1 .. Len(nodes) /\ left \in 1 .. Len(nodes) /\ left # Nil
  /\ level[parent] = level[left] + 1 /\ level[right] = level[left] /\ s \in Nat
  /\ s \in span[parent] /\ InSlot(nodes[parent].keys, pos, s)
  /\ pos > 1 => nodes[parent].keys[pos - 1] < s
  /\ \A x \in Nat : x \in span[left] <=> x \in span[parent] /\ InSlot(nodes[parent].keys, pos, x) /\ x < s
  /\ \A x \in Nat : x \in span[right] <=> x \in span[parent] /\ InSlot(nodes[parent].keys, pos, x) /\ s <= x

LEMMA PlaceIs ==
  ASSUME NEW nodes, NEW root, NEW span, NEW level, NEW left, NEW s, NEW right,
         Tree(nodes, root, span, level, left, s, right), left # root,
         NEW parent, NEW pos, Parting(nodes, left, parent, pos)
  PROVE  PlaceGood(nodes, span, level, left, s, right, parent, pos)
<1> DEFINE K == nodes[parent].keys
<1>1. /\ left # Nil /\ parent = nodes[left].parent /\ nodes[parent].children[pos] = left
      /\ pos \in 1 .. Len(K) + 1
  BY DEF Parting
<1>2. /\ left \in 1 .. Len(nodes) /\ right \in 1 .. Len(nodes) /\ left # right
      /\ level[left] = level[right] /\ s \in Nat /\ s \in span[right]
      /\ \A x \in span[left] : x < s
      /\ \A x \in span[right] : s <= x
  BY <1>1 DEF Tree, PendingGood
<1>3. /\ nodes \in Seq(NodeType) /\ level \in [1 .. Len(nodes) -> Nat]
      /\ span \in [1 .. Len(nodes) -> SUBSET Nat]
  BY DEF Tree, Typed
<1>4. parent \in 1 .. Len(nodes) /\ ~nodes[parent].is_leaf
  <2>1. IsChild(nodes, left)
    BY <1>2 DEF Tree, ParentsGood
  <2> QED BY <1>1, <2>1 DEF IsChild
<1>5. ChildGood(nodes, span, level, left, right, parent, pos)
  BY <1>1, <1>4 DEF Tree, ChildrenGood
<1>6. /\ level[parent] = level[left] + 1
      /\ \A x \in Nat : Covers(span, left, right, left, x) <=> x \in span[parent] /\ InSlot(K, pos, x)
  BY <1>1, <1>5 DEF ChildGood
<1>7. parent # right
  <2>1. level[left] \in Nat
    BY <1>2, <1>3
  <2> QED BY <1>2, <1>6, <2>1
<1>8. Len(K) \in Nat /\ \A k \in 1 .. Len(K) : K[k] \in Nat
  BY <1>3, <1>4, NodeIs
<1> HIDE DEF K
<1>9. \A x \in Nat : x \in span[left] \/ x \in span[right] <=> x \in span[parent] /\ InSlot(K, pos, x)
  BY <1>6 DEF Covers
<1>10. s \in span[parent] /\ InSlot(K, pos, s)
  BY <1>2, <1>9
<1>11. pos > 1 => K[pos - 1] < s
  <2> SUFFICES ASSUME pos > 1 PROVE K[pos - 1] < s
    OBVIOUS
  <2> DEFINE k == nodes[left].keys[1]
  <2>1. k \in span[left] /\ k \in Nat
    <3>1. NodeGood(nodes, root, span, level, left) /\ Len(nodes[left].keys) \in Nat
      BY <1>2, <1>3, NodeIs DEF Tree
    <3>2. 1 \in 1 .. Len(nodes[left].keys)
      BY <3>1 DEF NodeGood, Shaped
    <3>3. k \in span[left]
      BY <3>1, <3>2 DEF NodeGood
    <3> QED BY <1>2, <1>3, <3>3
  <2>2. k < s /\ InSlot(K, pos, k)
    BY <1>2, <1>9, <2>1
  <2>3. K[pos - 1] <= k
    BY <2>2 DEF InSlot
  <2>4. K[pos - 1] \in Nat
    BY <1>1, <1>8
  <2> HIDE DEF k
  <2> QED BY <1>2, <2>1, <2>2, <2>3, <2>4
<1>12. \A x \in Nat : x \in span[left] <=> x \in span[parent] /\ InSlot(K, pos, x) /\ x < s
  BY <1>2, <1>9
<1>13. \A x \in Nat : x \in span[right] <=> x \in span[parent] /\ InSlot(K, pos, x) /\ s <= x
  BY <1>2, <1>9
<1> QED BY <1>1, <1>2, <1>4, <1>6, <1>7, <1>10, <1>11, <1>12, <1>13 DEF PlaceGood, K

LEMMA LinkedNode ==
  ASSUME NEW nodes, NEW root, NEW span, NEW level, NEW left, NEW s, NEW right,
         Tree(nodes, root, span, level, left, s, right),
         NEW parent, NEW pos, Parting(nodes, left, parent, pos),
         PlaceGood(nodes, span, level, left, s, right, parent, pos),
         NEW new, Linked(new, nodes, parent, pos, s, right)
  PROVE  NodeGood(new, root, span, level, parent)
<1> DEFINE K == nodes[parent].keys
           C == nodes[parent].children
           T == new[parent].keys
           D == new[parent].children
<1>1. /\ parent \in 1 .. Len(nodes) /\ ~nodes[parent].is_leaf /\ s \in Nat
      /\ s \in span[parent] /\ InSlot(K, pos, s) /\ (pos > 1 => K[pos - 1] < s)
  BY DEF PlaceGood
<1>2. pos \in 1 .. Len(K) + 1
  BY DEF Parting
<1>3. nodes \in Seq(NodeType) /\ NodeGood(nodes, root, span, level, parent)
  BY <1>1 DEF Tree, Typed
<1>4. K \in Seq(Nat) /\ Len(K) \in Nat /\ \A k \in 1 .. Len(K) : K[k] \in Nat
  BY <1>1, <1>3, NodeIs
<1>5. /\ Len(K) > 0 /\ Ascending(K) /\ Len(C) = Len(K) + 1
      /\ \A p, q \in 1 .. Len(C) : C[p] = C[q] => p = q
  BY <1>1, <1>3 DEF NodeGood, Shaped
<1>6. /\ level[parent] <= level[root] /\ level[parent] # 0
      /\ \A k \in 1 .. Len(K) : K[k] \in span[parent]
  BY <1>1, <1>3 DEF NodeGood
<1>7. /\ Extends(T, K, pos, s) /\ Extends(D, C, pos + 1, right)
      /\ new[parent].is_leaf = nodes[parent].is_leaf
  BY <1>1 DEF Linked
<1>8. \A p \in 1 .. Len(C) : C[p] # right
  <2> SUFFICES ASSUME NEW p \in 1 .. Len(C) PROVE C[p] # right
    OBVIOUS
  <2>1. ChildGood(nodes, span, level, left, right, parent, p)
    BY <1>1, <1>5 DEF Tree, ChildrenGood
  <2> QED BY <2>1 DEF ChildGood
<1>9. ~new[parent].is_leaf
  BY <1>1, <1>7
<1> HIDE DEF K, C, T, D
<1>10. Ascending(T)
  <2>1. \A i, j \in 1 .. Len(K) : i < j => K[i] < K[j]
    BY <1>5 DEF Ascending
  <2>2. \A k \in 1 .. pos - 1 : K[k] < s
    <3> SUFFICES ASSUME NEW k \in 1 .. pos - 1 PROVE K[k] < s
      OBVIOUS
    <3>1. pos > 1 /\ k \in 1 .. Len(K) /\ pos - 1 \in 1 .. Len(K) /\ (k < pos - 1 \/ k = pos - 1)
      BY <1>2, <1>4
    <3>2. K[k] <= K[pos - 1]
      BY <1>4, <2>1, <3>1
    <3> QED BY <1>1, <1>4, <3>1, <3>2
  <2>3. \A k \in pos .. Len(K) : s < K[k]
    <3> SUFFICES ASSUME NEW k \in pos .. Len(K) PROVE s < K[k]
      OBVIOUS
    <3>1. pos <= Len(K) /\ k \in 1 .. Len(K) /\ pos \in 1 .. Len(K) /\ (pos < k \/ k = pos)
      BY <1>2, <1>4
    <3>2. K[pos] <= K[k]
      BY <1>4, <2>1, <3>1
    <3>3. s < K[pos]
      BY <1>1, <3>1 DEF InSlot
    <3> QED BY <1>1, <1>4, <3>1, <3>2, <3>3
  <2> QED BY <1>1, <1>2, <1>4, <1>5, <1>7, <2>2, <2>3, InsertAscending
<1>11. /\ Len(T) = Len(K) + 1 /\ T[pos] = s
       /\ \A i \in 1 .. Len(T) : i # pos => Earlier(pos, i) \in 1 .. Len(K) /\ T[i] = K[Earlier(pos, i)]
  BY <1>2, <1>4, <1>7, ExtendsElements
<1>12. \A i \in 1 .. Len(T) : T[i] \in span[parent]
  BY <1>1, <1>6, <1>11
<1>13. /\ Len(D) = Len(C) + 1 /\ D[pos + 1] = right
       /\ \A i \in 1 .. Len(D) : i # pos + 1 =>
            Earlier(pos + 1, i) \in 1 .. Len(C) /\ D[i] = C[Earlier(pos + 1, i)]
  <2>1. Len(C) \in Nat /\ pos + 1 \in 1 .. Len(C) + 1
    BY <1>2, <1>4, <1>5
  <2> QED BY <1>7, <2>1, ExtendsElements
<1>14. \A i, j \in 1 .. Len(D) : i # pos + 1 /\ j # pos + 1 /\ Earlier(pos + 1, i) = Earlier(pos + 1, j) => i = j
  <2>1. pos \in Nat /\ Len(D) \in Nat
    BY <1>2, <1>4, <1>5, <1>13
  <2> QED BY <2>1 DEF Earlier
<1>15. ASSUME NEW i \in 1 .. Len(D), NEW j \in 1 .. Len(D), D[i] = D[j] PROVE i = j
  <2>1. CASE i = pos + 1
    BY <1>8, <1>13, <1>15, <2>1
  <2>2. CASE j = pos + 1
    BY <1>8, <1>13, <1>15, <2>2
  <2>3. CASE i # pos + 1 /\ j # pos + 1
    <3> DEFINE p == Earlier(pos + 1, i)
               q == Earlier(pos + 1, j)
    <3>1. p \in 1 .. Len(C) /\ q \in 1 .. Len(C) /\ C[p] = C[q]
      BY <1>13, <1>15, <2>3
    <3> HIDE DEF p, q
    <3>2. p = q
      BY <1>5, <3>1
    <3> QED BY <1>14, <2>3, <3>2 DEF p, q
  <2> QED BY <2>1, <2>2, <2>3
<1>16. Len(T) > 0 /\ Len(D) = Len(T) + 1
  BY <1>4, <1>5, <1>11, <1>13
<1>17. Shaped(new[parent])
  BY <1>9, <1>10, <1>15, <1>16 DEF Shaped, T, D
<1> QED BY <1>6, <1>9, <1>12, <1>17 DEF NodeGood, T

LEMMA LinkedChildren ==
  ASSUME NEW nodes, NEW root, NEW span, NEW level, NEW left, NEW s, NEW right,
         Tree(nodes, root, span, level, left, s, right),
         NEW parent, NEW pos, Parting(nodes, left, parent, pos),
         PlaceGood(nodes, span, level, left, s, right, parent, pos),
         NEW new, Linked(new, nodes, parent, pos, s, right)
  PROVE  ChildrenGood(new, span, level, Nil, Nil)
<1> DEFINE K == nodes[parent].keys
           C == nodes[parent].children
           T == new[parent].keys
           D == new[parent].children
<1>1. /\ parent \in 1 .. Len(nodes) /\ ~nodes[parent].is_leaf /\ s \in Nat /\ left \in 1 .. Len(nodes)
      /\ right \in 1 .. Len(nodes) /\ left # right /\ InSlot(K, pos, s)
      /\ level[parent] = level[left] + 1 /\ level[right] = level[left]
      /\ \A x \in Nat : x \in span[left] <=> x \in span[parent] /\ InSlot(K, pos, x) /\ x < s
      /\ \A x \in Nat : x \in span[right] <=> x \in span[parent] /\ InSlot(K, pos, x) /\ s <= x
  BY DEF PlaceGood
<1>2. pos \in 1 .. Len(K) + 1 /\ C[pos] = left /\ nodes[left].parent = parent
  BY DEF Parting
<1>3. nodes \in Seq(NodeType) /\ NodeGood(nodes, root, span, level, parent)
  BY <1>1 DEF Tree, Typed
<1>4. K \in Seq(Nat) /\ Len(K) \in Nat
  BY <1>1, <1>3, NodeIs
<1>5. Len(C) = Len(K) + 1 /\ \A p, q \in 1 .. Len(K) + 1 : C[p] = C[q] => p = q
  BY <1>1, <1>3 DEF NodeGood, Shaped
<1>6. /\ Len(new) = Len(nodes)
      /\ \A m \in 1 .. Len(nodes) : new[m].is_leaf = nodes[m].is_leaf
      /\ \A m \in 1 .. Len(nodes) : m # parent => new[m].keys = nodes[m].keys
      /\ \A m \in 1 .. Len(nodes) : m # parent => new[m].children = nodes[m].children
      /\ \A m \in 1 .. Len(nodes) : m # right => new[m].parent = nodes[m].parent
      /\ new[right].parent = parent /\ Extends(T, K, pos, s) /\ Extends(D, C, pos + 1, right)
  BY DEF Linked
<1>7. \A c \in 1 .. Len(nodes), x \in Nat : c # left =>
        (Covers(span, left, right, c, x) <=> Covers(span, Nil, Nil, c, x))
  BY DEF Covers, Nil
<1>8. \A c \in 1 .. Len(nodes), x \in Nat : Covers(span, Nil, Nil, c, x) <=> x \in span[c]
  BY DEF Covers, Nil
<1>9. \A m \in 1 .. Len(nodes) : ~nodes[m].is_leaf => \A p \in 1 .. Len(nodes[m].keys) + 1 :
        ChildGood(nodes, span, level, left, right, m, p)
  BY DEF Tree, ChildrenGood
<1>10. ASSUME NEW m \in 1 .. Len(nodes), m # parent, ~nodes[m].is_leaf, NEW p \in 1 .. Len(nodes[m].keys) + 1
       PROVE  ChildGood(new, span, level, Nil, Nil, m, p)
  <2> DEFINE c == nodes[m].children[p]
  <2>1. /\ c \in 1 .. Len(nodes) /\ c # right /\ nodes[c].parent = m /\ level[m] = level[c] + 1
        /\ \A x \in Nat : Covers(span, left, right, c, x) <=> x \in span[m] /\ InSlot(nodes[m].keys, p, x)
    BY <1>9, <1>10 DEF ChildGood
  <2>2. new[m].children[p] = c /\ new[m].keys = nodes[m].keys
    BY <1>6, <1>10
  <2> HIDE DEF c
  <2>3. c # left /\ c # Nil /\ new[c].parent = m
    BY <1>2, <1>6, <1>10, <2>1 DEF Nil
  <2>4. \A x \in Nat : Covers(span, Nil, Nil, c, x) <=> x \in span[m] /\ InSlot(new[m].keys, p, x)
    BY <1>7, <2>1, <2>2, <2>3
  <2> QED BY <1>6, <2>1, <2>2, <2>3, <2>4 DEF ChildGood
<1> HIDE DEF K, C, T, D
<1>11. \A y \in Nat :
         /\ \A i \in 1 .. pos - 1 : InSlot(T, i, y) <=> InSlot(K, i, y)
         /\ InSlot(T, pos, y) <=> InSlot(K, pos, y) /\ y < s
         /\ InSlot(T, pos + 1, y) <=> InSlot(K, pos, y) /\ s <= y
         /\ \A i \in pos + 2 .. Len(K) + 2 : InSlot(T, i, y) <=> InSlot(K, i - 1, y)
  BY <1>1, <1>2, <1>4, <1>6, SlotsInserted
<1>12. /\ Len(T) = Len(K) + 1 /\ Len(D) = Len(K) + 2 /\ D[pos + 1] = right
       /\ \A i \in 1 .. pos : D[i] = C[i]
       /\ \A i \in pos + 2 .. Len(K) + 2 : D[i] = C[i - 1]
  <2>1. Len(T) = Len(K) + 1
    BY <1>6 DEF Extends
  <2>2. /\ Len(D) = Len(C) + 1 /\ D[pos + 1] = right
        /\ \A i \in 1 .. (pos + 1) - 1 : D[i] = C[i]
        /\ \A i \in (pos + 1) + 1 .. Len(C) + 1 : D[i] = C[i - 1]
    BY <1>6 DEF Extends
  <2>3. (pos + 1) - 1 = pos /\ (pos + 1) + 1 = pos + 2 /\ Len(C) + 1 = Len(K) + 2
    BY <1>2, <1>4, <1>5
  <2> QED BY <2>1, <2>2, <2>3
<1>13. ASSUME NEW p \in 1 .. Len(K) + 2, NEW q \in 1 .. Len(K) + 1, q # pos, D[p] = C[q],
              \A y \in Nat : InSlot(T, p, y) <=> InSlot(K, q, y)
       PROVE  ChildGood(new, span, level, Nil, Nil, parent, p)
  <2> DEFINE c == C[q]
  <2>1. ChildGood(nodes, span, level, left, right, parent, q)
    BY <1>1, <1>9 DEF K
  <2>2. /\ c \in 1 .. Len(nodes) /\ c # right /\ nodes[c].parent = parent /\ level[parent] = level[c] + 1
        /\ \A x \in Nat : Covers(span, left, right, c, x) <=> x \in span[parent] /\ InSlot(K, q, x)
    BY <2>1 DEF ChildGood, K, C
  <2>3. c # left
    BY <1>2, <1>5, <1>13
  <2> HIDE DEF c
  <2>4. c # Nil /\ new[c].parent = parent /\ new[parent].children[p] = c
    BY <1>6, <1>13, <2>2 DEF Nil, D, c
  <2>5. \A x \in Nat : Covers(span, Nil, Nil, c, x) <=> x \in span[parent] /\ InSlot(T, p, x)
    BY <1>7, <1>13, <2>2, <2>3
  <2> QED BY <1>6, <2>2, <2>4, <2>5 DEF ChildGood, T
<1>14. ChildGood(new, span, level, Nil, Nil, parent, pos)
  <2>1. new[parent].children[pos] = left
    BY <1>2, <1>12 DEF D
  <2>2. new[left].parent = parent /\ left # Nil
    BY <1>1, <1>2, <1>6 DEF Nil
  <2>3. \A x \in Nat : Covers(span, Nil, Nil, left, x) <=> x \in span[parent] /\ InSlot(T, pos, x)
    BY <1>1, <1>8, <1>11
  <2> QED BY <1>1, <1>6, <2>1, <2>2, <2>3 DEF ChildGood, T
<1>15. ChildGood(new, span, level, Nil, Nil, parent, pos + 1)
  <2>1. new[parent].children[pos + 1] = right
    BY <1>12 DEF D
  <2>2. new[right].parent = parent /\ right # Nil
    BY <1>1, <1>6 DEF Nil
  <2>3. \A x \in Nat : Covers(span, Nil, Nil, right, x) <=> x \in span[parent] /\ InSlot(T, pos + 1, x)
    BY <1>1, <1>8, <1>11
  <2> QED BY <1>1, <1>6, <2>1, <2>2, <2>3 DEF ChildGood, T
<1>16. ASSUME NEW p \in 1 .. Len(K) + 2 PROVE ChildGood(new, span, level, Nil, Nil, parent, p)
  <2>1. CASE p < pos
    <3>1. p \in 1 .. pos - 1 /\ p \in 1 .. Len(K) + 1 /\ p # pos /\ p \in 1 .. pos
      BY <1>2, <1>4, <2>1
    <3> QED BY <1>11, <1>12, <1>13, <3>1
  <2>2. CASE p = pos
    BY <1>14, <2>2
  <2>3. CASE p = pos + 1
    BY <1>15, <2>3
  <2>4. CASE p > pos + 1
    <3>1. p \in pos + 2 .. Len(K) + 2 /\ p - 1 \in 1 .. Len(K) + 1 /\ p - 1 # pos
      BY <1>2, <1>4, <2>4
    <3>2. D[p] = C[p - 1] /\ \A y \in Nat : InSlot(T, p, y) <=> InSlot(K, p - 1, y)
      BY <1>11, <1>12, <3>1
    <3> QED BY <1>13, <3>1, <3>2
  <2> QED BY <1>2, <1>4, <2>1, <2>2, <2>3, <2>4
<1>17. ASSUME NEW m \in 1 .. Len(new), ~new[m].is_leaf, NEW p \in 1 .. Len(new[m].keys) + 1
       PROVE  ChildGood(new, span, level, Nil, Nil, m, p)
  <2>1. m \in 1 .. Len(nodes) /\ ~nodes[m].is_leaf
    BY <1>6, <1>17
  <2>2. CASE m = parent
    <3>1. p \in 1 .. Len(K) + 2
      BY <1>4, <1>12, <2>2 DEF T
    <3> QED BY <1>16, <2>2, <3>1
  <2>3. CASE m # parent
    BY <1>6, <1>10, <2>1, <2>3
  <2> QED BY <2>2, <2>3
<1> QED BY <1>17 DEF ChildrenGood

LEMMA LinkedTree ==
  ASSUME NEW nodes, NEW root, NEW span, NEW level, NEW left, NEW s, NEW right,
         Tree(nodes, root, span, level, left, s, right), left # root,
         NEW parent, NEW pos, Parting(nodes, left, parent, pos),
         NEW new, Linked(new, nodes, parent, pos, s, right), NEW t
  PROVE  Tree(new, root, span, level, Nil, t, Nil) /\ SameLeaves(new, nodes)
<1> DEFINE L == Len(nodes)
           K == nodes[parent].keys
           C == nodes[parent].children
<1>1. PlaceGood(nodes, span, level, left, s, right, parent, pos)
  BY PlaceIs
<1>2. /\ parent \in 1 .. L /\ ~nodes[parent].is_leaf /\ right \in 1 .. L
  BY <1>1 DEF PlaceGood
<1>3. /\ new \in Seq(NodeType) /\ Len(new) = L
      /\ \A m \in 1 .. L : new[m].is_leaf = nodes[m].is_leaf
      /\ \A m \in 1 .. L : new[m].row_indices = nodes[m].row_indices
      /\ \A m \in 1 .. L : new[m].next = nodes[m].next
      /\ \A m \in 1 .. L : m # parent => new[m].keys = nodes[m].keys
      /\ \A m \in 1 .. L : m # parent => new[m].children = nodes[m].children
      /\ \A m \in 1 .. L : m # right => new[m].parent = nodes[m].parent
      /\ new[right].parent = parent
  BY DEF Linked
<1>4. pos \in 1 .. Len(K) + 1 /\ Extends(new[parent].keys, K, pos, s) /\ Extends(new[parent].children, C, pos + 1, right)
  BY DEF Linked, Parting
<1>5. Len(K) \in Nat /\ Len(C) = Len(K) + 1
  <2>1. nodes \in Seq(NodeType) /\ NodeGood(nodes, root, span, level, parent)
    BY <1>2 DEF Tree, Typed
  <2> QED BY <1>2, <2>1, NodeIs DEF NodeGood, Shaped
<1>6. SameLeaves(new, nodes)
  <2>1. LeavesOf(new) = LeavesOf(nodes)
    BY <1>3 DEF LeavesOf
  <2>2. \A m \in LeavesOf(nodes) : m \in 1 .. L /\ m # parent
    BY <1>2 DEF LeavesOf
  <2> QED BY <1>3, <2>1, <2>2 DEF SameLeaves
<1>7. Typed(new, root, span, level)
  BY <1>3 DEF Tree, Typed
<1>8. ASSUME NEW m \in 1 .. L PROVE NodeGood(new, root, span, level, m)
  <2>1. CASE m = parent
    BY <1>1, <2>1, LinkedNode
  <2>2. CASE m # parent
    <3>1. NodeGood(nodes, root, span, level, m)
      BY DEF Tree
    <3>2. /\ new[m].is_leaf = nodes[m].is_leaf /\ new[m].row_indices = nodes[m].row_indices
          /\ new[m].keys = nodes[m].keys /\ new[m].children = nodes[m].children
      BY <1>3, <2>2
    <3>3. Shaped(new[m])
      BY <3>1, <3>2 DEF NodeGood, Shaped
    <3> QED BY <3>1, <3>2, <3>3 DEF NodeGood
  <2> QED BY <2>1, <2>2
<1>9. ChildrenGood(new, span, level, Nil, Nil)
  BY <1>1, LinkedChildren
<1>10. ASSUME NEW m \in 1 .. L, m # root PROVE IsChild(new, m)
  <2> HIDE DEF L, K, C
  <2>1. /\ Len(new[parent].keys) = Len(K) + 1
        /\ new[parent].children[pos + 1] = right /\ pos + 1 \in 1 .. Len(K) + 2
        /\ \A j \in 1 .. Len(K) + 1 :
             Later(pos + 1, j) \in 1 .. Len(K) + 2 /\ new[parent].children[Later(pos + 1, j)] = C[j]
    <3>1. Len(C) \in Nat /\ pos + 1 \in 1 .. Len(C) + 1 /\ Len(C) + 1 = Len(K) + 2
      BY <1>4, <1>5
    <3>2. /\ Len(new[parent].children) = Len(C) + 1 /\ new[parent].children[pos + 1] = right
          /\ \A j \in 1 .. Len(C) :
               /\ Later(pos + 1, j) \in 1 .. Len(new[parent].children)
               /\ new[parent].children[Later(pos + 1, j)] = C[j]
      BY <1>4, <3>1, ExtendsElements
    <3> QED BY <1>4, <1>5, <3>1, <3>2 DEF Extends
  <2>2. ~new[parent].is_leaf /\ parent \in 1 .. Len(new)
    BY <1>2, <1>3
  <2>3. Len(new[parent].keys) + 1 = Len(K) + 2
    BY <1>5, <2>1
  <2>4. CASE m = right
    BY <1>3, <2>1, <2>2, <2>3, <2>4 DEF IsChild
  <2>5. CASE m # right
    <3> DEFINE M == nodes[m].parent
    <3>1. IsChild(nodes, m)
      BY <1>10, <2>5 DEF Tree, ParentsGood, L
    <3>2. M \in 1 .. L /\ ~nodes[M].is_leaf /\ new[m].parent = M
      BY <1>3, <2>5, <3>1 DEF IsChild, L
    <3>3. PICK p \in 1 .. Len(nodes[M].keys) + 1 : nodes[M].children[p] = m
      BY <3>1 DEF IsChild
    <3> HIDE DEF M
    <3>4. CASE M = parent
      <4>1. p \in 1 .. Len(K) + 1 /\ C[p] = m
        BY <3>3, <3>4 DEF K, C
      <4>2. Later(pos + 1, p) \in 1 .. Len(K) + 2 /\ new[parent].children[Later(pos + 1, p)] = m
        BY <2>1, <4>1
      <4> QED BY <2>2, <2>3, <3>2, <3>4, <4>2 DEF IsChild
    <3>5. CASE M # parent
      <4>1. /\ new[M].keys = nodes[M].keys /\ new[M].children = nodes[M].children /\ ~new[M].is_leaf
        BY <1>3, <3>2, <3>5
      <4> QED BY <1>3, <3>2, <3>3, <4>1 DEF IsChild
    <3> QED BY <3>4, <3>5
  <2> QED BY <2>4, <2>5
<1>11. ParentsGood(new, root, Nil)
  BY <1>3, <1>10 DEF ParentsGood
<1>12. RootGood(new, root, span, Nil, Nil)
  <2>1. RootGood(nodes, root, span, left, right) /\ root \in 1 .. L
    BY DEF Tree, Typed
  <2>2. root # Nil /\ root # right /\ new[root].parent = Nil
    BY <1>3, <2>1 DEF RootGood, Nil
  <2>3. \A x \in Nat : Covers(span, Nil, Nil, root, x)
    BY <2>1 DEF RootGood, Covers
  <2> QED BY <2>2, <2>3 DEF RootGood
<1>13. LeavesGood(new, span)
  <2>1. LeavesGood(nodes, span) /\ \A m \in LeavesOf(nodes) : span[m] = span[m]
    BY DEF Tree
  <2> QED BY <1>6, <2>1, SameLeavesChain
<1>14. PendingGood(new, span, level, Nil, t, Nil)
  BY DEF PendingGood
<1> QED BY <1>3, <1>6, <1>7, <1>8, <1>9, <1>11, <1>12, <1>13, <1>14 DEF Tree

\* The internal node n has given its keys after the h + 1st, and the children that
\* belong to them, to the new node.
InternalHalved(new, nodes, n, h) ==
  LET L == Len(nodes)
      K == nodes[n].keys
      C == nodes[n].children
  IN  /\ new \in Seq(NodeType) /\ Len(new) = L + 1
      /\ \A m \in 1 .. L : new[m].is_leaf = nodes[m].is_leaf
      /\ \A m \in 1 .. L : new[m].row_indices = nodes[m].row_indices
      /\ \A m \in 1 .. L : new[m].next = nodes[m].next
      /\ \A m \in 1 .. L : m # n => new[m].keys = nodes[m].keys
      /\ \A m \in 1 .. L : m # n => new[m].children = nodes[m].children
      /\ \A m \in 1 .. L : (\A q \in h + 2 .. Len(C) : C[q] # m) => new[m].parent = nodes[m].parent
      /\ \A q \in h + 2 .. Len(C) : new[C[q]].parent = L + 1
      /\ Starts(new[n].keys, K, h) /\ Starts(new[n].children, C, h + 1)
      /\ ~new[L + 1].is_leaf
      /\ Ends(new[L + 1].keys, K, h + 1) /\ Ends(new[L + 1].children, C, h + 1)

LEMMA InternalHalvedNodes ==
  ASSUME NEW nodes, NEW root, NEW span, NEW level, NEW t, Tree(nodes, root, span, level, Nil, t, Nil),
         NEW n \in 1 .. Len(nodes), ~nodes[n].is_leaf, NEW h \in 1 .. Len(nodes[n].keys) - 2,
         NEW new, InternalHalved(new, nodes, n, h), NEW L, L = Len(nodes), NEW s, s = nodes[n].keys[h + 1],
         NEW half, NEW height, Halves(half, height, span, level, L, n, s)
  PROVE  /\ s \in Nat /\ s \in span[n]
         /\ \A m \in 1 .. L + 1 : NodeGood(new, root, half, height, m)
<1> DEFINE K == nodes[n].keys
           C == nodes[n].children
<1>1. n \in 1 .. L /\ nodes \in Seq(NodeType) /\ root \in 1 .. L /\ NodeGood(nodes, root, span, level, n)
  BY DEF Tree, Typed
<1>2. Len(K) \in Nat /\ \A k \in 1 .. Len(K) : K[k] \in Nat
  BY <1>1, NodeIs
<1>3. \A i, j \in 1 .. Len(K) : i < j => K[i] < K[j]
  BY <1>1 DEF NodeGood, Shaped, Ascending
<1>4. Len(C) = Len(K) + 1 /\ \A p, q \in 1 .. Len(K) + 1 : C[p] = C[q] => p = q
  BY <1>1 DEF NodeGood, Shaped
<1>5. \A k \in 1 .. Len(K) : K[k] \in span[n]
  BY <1>1 DEF NodeGood
<1>6. level[n] # 0 /\ level[n] <= level[root]
  BY <1>1 DEF NodeGood
<1>7. h \in 1 .. Len(K) - 2 /\ s = K[h + 1]
  OBVIOUS
<1>8. /\ Len(new[n].keys) = h /\ \A i \in 1 .. h : new[n].keys[i] = K[i]
      /\ Len(new[n].children) = h + 1 /\ \A i \in 1 .. h + 1 : new[n].children[i] = C[i]
      /\ ~new[n].is_leaf
  BY <1>1 DEF InternalHalved, Starts
<1>9. /\ Len(new[L + 1].keys) = Len(K) - (h + 1)
      /\ \A i \in 1 .. Len(K) - (h + 1) : new[L + 1].keys[i] = K[h + 1 + i]
      /\ Len(new[L + 1].children) = Len(C) - (h + 1)
      /\ \A i \in 1 .. Len(C) - (h + 1) : new[L + 1].children[i] = C[h + 1 + i]
      /\ ~new[L + 1].is_leaf
  BY DEF InternalHalved, Ends
<1> HIDE DEF K, C
<1>10. s \in Nat /\ s \in span[n]
  <2>1. h + 1 \in 1 .. Len(K)
    BY <1>2, <1>7
  <2> QED BY <1>2, <1>5, <1>7, <2>1
<1>11. /\ L \in Nat /\ \A m \in 1 .. L + 1 : m \in 1 .. L \/ m = L + 1
       /\ \A m \in 1 .. L : height[m] = level[m]
       /\ \A m \in 1 .. L : m # n => half[m] = span[m]
       /\ half[n] = {x \in span[n] : x < s} /\ half[L + 1] = {x \in span[n] : s <= x}
       /\ height[L + 1] = level[n]
  <2>1. /\ L \in Nat
        /\ \A m \in 1 .. L : m \in 1 .. L + 1 /\ m # L + 1 /\ height[m] = level[m]
        /\ \A m \in 1 .. L : m # n => half[m] = span[m]
        /\ half[n] = {x \in span[n] : x < s} /\ half[L + 1] = {x \in span[n] : s <= x}
        /\ height[L + 1] = level[n]
    BY DEF Halves
  <2>2. \A m \in 1 .. L + 1 : m \in 1 .. L \/ m = L + 1
    BY <2>1
  <2> QED BY <2>1, <2>2
<1>12. NodeGood(new, root, half, height, n)
  <2>1. ASSUME NEW i \in 1 .. h PROVE new[n].keys[i] \in half[n]
    <3>1. i \in 1 .. Len(K) /\ h + 1 \in 1 .. Len(K) /\ i < h + 1
      BY <1>2, <1>7
    <3> QED BY <1>3, <1>5, <1>7, <1>8, <1>11, <3>1
  <2>2. Ascending(new[n].keys)
    <3> SUFFICES ASSUME NEW i \in 1 .. h, NEW j \in 1 .. h, i < j PROVE new[n].keys[i] < new[n].keys[j]
      BY <1>8 DEF Ascending
    <3>1. i \in 1 .. Len(K) /\ j \in 1 .. Len(K)
      BY <1>2, <1>7
    <3> QED BY <1>3, <1>8, <3>1
  <2>3. ASSUME NEW i \in 1 .. h + 1, NEW j \in 1 .. h + 1, new[n].children[i] = new[n].children[j] PROVE i = j
    <3>1. i \in 1 .. Len(K) + 1 /\ j \in 1 .. Len(K) + 1
      BY <1>2, <1>7
    <3> QED BY <1>4, <1>8, <2>3, <3>1
  <2>4. Shaped(new[n])
    BY <1>7, <1>8, <2>2, <2>3 DEF Shaped
  <2> QED BY <1>1, <1>6, <1>8, <1>11, <2>1, <2>4 DEF NodeGood
<1>13. NodeGood(new, root, half, height, L + 1)
  <2> DEFINE g == Len(K) - (h + 1)
  <2>0. g \in Nat /\ g > 0 /\ Len(C) - (h + 1) = g + 1
    BY <1>2, <1>4, <1>7
  <2>1. ASSUME NEW i \in 1 .. g PROVE new[L + 1].keys[i] \in half[L + 1]
    <3>1. h + 1 + i \in 1 .. Len(K) /\ h + 1 \in 1 .. Len(K) /\ h + 1 < h + 1 + i
      BY <1>2, <1>7
    <3>2. s <= K[h + 1 + i]
      BY <1>2, <1>3, <1>7, <3>1
    <3> QED BY <1>5, <1>9, <1>11, <3>1, <3>2
  <2>2. Ascending(new[L + 1].keys)
    <3> SUFFICES ASSUME NEW i \in 1 .. g, NEW j \in 1 .. g, i < j
                 PROVE  new[L + 1].keys[i] < new[L + 1].keys[j]
      BY <1>9 DEF Ascending
    <3>1. h + 1 + i \in 1 .. Len(K) /\ h + 1 + j \in 1 .. Len(K) /\ h + 1 + i < h + 1 + j
      BY <1>2, <1>7
    <3> QED BY <1>3, <1>9, <3>1
  <2>3. ASSUME NEW i \in 1 .. g + 1, NEW j \in 1 .. g + 1, new[L + 1].children[i] = new[L + 1].children[j]
        PROVE  i = j
    <3>1. /\ h + 1 + i \in 1 .. Len(K) + 1 /\ h + 1 + j \in 1 .. Len(K) + 1
          /\ (h + 1 + i = h + 1 + j => i = j)
      BY <1>2, <1>7
    <3>2. C[h + 1 + i] = C[h + 1 + j]
      BY <1>9, <2>0, <2>3
    <3> QED BY <1>4, <3>1, <3>2
  <2> HIDE DEF g
  <2>4. Len(new[L + 1].keys) = g /\ Len(new[L + 1].children) = g + 1
    BY <1>9, <2>0 DEF g
  <2>5. Shaped(new[L + 1])
    BY <1>9, <2>0, <2>2, <2>3, <2>4 DEF Shaped
  <2> QED BY <1>1, <1>6, <1>9, <1>11, <2>1, <2>4, <2>5 DEF NodeGood
<1>14. ASSUME NEW m \in 1 .. L, m # n PROVE NodeGood(new, root, half, height, m)
  <2>1. /\ new[m].is_leaf = nodes[m].is_leaf /\ new[m].row_indices = nodes[m].row_indices
        /\ new[m].keys = nodes[m].keys /\ new[m].children = nodes[m].children
    BY <1>14 DEF InternalHalved
  <2>2. NodeGood(nodes, root, span, level, m)
    BY DEF Tree
  <2>3. Shaped(new[m])
    BY <2>1, <2>2 DEF NodeGood, Shaped
  <2> QED BY <1>1, <1>11, <1>14, <2>1, <2>2, <2>3 DEF NodeGood
<1> QED BY <1>10, <1>11, <1>12, <1>13, <1>14

LEMMA InternalHalvedTree ==
  ASSUME NEW nodes, NEW root, NEW span, NEW level, NEW t, Tree(nodes, root, span, level, Nil, t, Nil),
         NEW n \in 1 .. Len(nodes), ~nodes[n].is_leaf, NEW h \in 1 .. Len(nodes[n].keys) - 2,
         NEW new, InternalHalved(new, nodes, n, h), NEW L, L = Len(nodes), NEW s, s = nodes[n].keys[h + 1],
         NEW half, NEW height, Halves(half, height, span, level, L, n, s)
  PROVE  Tree(new, root, half, height, n, s, L + 1) /\ SameLeaves(new, nodes)
<1> DEFINE K == nodes[n].keys
           C == nodes[n].children
<1>1. n \in 1 .. L /\ nodes \in Seq(NodeType) /\ root \in 1 .. L /\ NodeGood(nodes, root, span, level, n)
  BY DEF Tree, Typed
<1>2. K \in Seq(Nat) /\ Len(K) \in Nat /\ \A k \in 1 .. Len(K) : K[k] \in Nat
  BY <1>1, NodeIs
<1>3. Ascending(K) /\ Len(C) = Len(K) + 1 /\ \A p, q \in 1 .. Len(K) + 1 : C[p] = C[q] => p = q
  BY <1>1 DEF NodeGood, Shaped
<1>4. s \in Nat /\ s \in span[n] /\ \A m \in 1 .. L + 1 : NodeGood(new, root, half, height, m)
  BY InternalHalvedNodes
<1>5. /\ new \in Seq(NodeType) /\ Len(new) = L + 1 /\ ~new[L + 1].is_leaf
      /\ \A m \in 1 .. L : new[m].is_leaf = nodes[m].is_leaf
      /\ \A m \in 1 .. L : new[m].row_indices = nodes[m].row_indices
      /\ \A m \in 1 .. L : new[m].next = nodes[m].next
      /\ \A m \in 1 .. L : m # n => new[m].keys = nodes[m].keys
      /\ \A m \in 1 .. L : m # n => new[m].children = nodes[m].children
      /\ \A m \in 1 .. L : (\A q \in h + 2 .. Len(C) : C[q] # m) => new[m].parent = nodes[m].parent
      /\ \A q \in h + 2 .. Len(C) : new[C[q]].parent = L + 1
  BY DEF InternalHalved
<1>6. /\ Starts(new[n].keys, K, h) /\ Ends(new[L + 1].keys, K, h + 1)
      /\ Len(new[n].keys) = h /\ Len(new[L + 1].keys) = Len(K) - (h + 1)
      /\ \A i \in 1 .. h + 1 : new[n].children[i] = C[i]
      /\ \A i \in 1 .. Len(C) - (h + 1) : new[L + 1].children[i] = C[h + 1 + i]
  BY DEF InternalHalved, Starts, Ends
<1>7. h \in 1 .. Len(K) - 2 /\ s = K[h + 1]
  OBVIOUS
<1>8. \A p \in 1 .. Len(K) + 1 : ChildGood(nodes, span, level, Nil, Nil, n, p)
  BY <1>1 DEF Tree, ChildrenGood
<1>9. \A p \in 1 .. Len(K) + 1 :
        /\ C[p] \in 1 .. L /\ nodes[C[p]].parent = n /\ level[n] = level[C[p]] + 1
        /\ \A x \in Nat : Covers(span, Nil, Nil, C[p], x) <=> x \in span[n] /\ InSlot(K, p, x)
  BY <1>8 DEF ChildGood
<1>10. /\ L \in Nat /\ L + 1 \in 1 .. L + 1 /\ L + 1 # Nil
       /\ \A m \in 1 .. L : m \in 1 .. L + 1 /\ m # L + 1 /\ height[m] = level[m]
       /\ \A m \in 1 .. L : m # n => half[m] = span[m]
       /\ half[n] = {x \in span[n] : x < s} /\ half[L + 1] = {x \in span[n] : s <= x}
       /\ height[L + 1] = level[n]
  BY DEF Halves
<1> HIDE DEF K, C
<1>11. \A m \in 1 .. L : nodes[m].parent # n => new[m].parent = nodes[m].parent
  <2> SUFFICES ASSUME NEW m \in 1 .. L, nodes[m].parent # n PROVE \A q \in h + 2 .. Len(C) : C[q] # m
    BY <1>5
  <2> SUFFICES ASSUME NEW q \in h + 2 .. Len(C) PROVE C[q] # m
    OBVIOUS
  <2>1. q \in 1 .. Len(K) + 1
    BY <1>2, <1>3, <1>7
  <2> QED BY <1>9, <2>1
<1>12. \A p \in 1 .. h + 1 : new[C[p]].parent = n
  <2> SUFFICES ASSUME NEW p \in 1 .. h + 1 PROVE new[C[p]].parent = n
    OBVIOUS
  <2>1. p \in 1 .. Len(K) + 1 /\ \A q \in h + 2 .. Len(C) : q \in 1 .. Len(K) + 1 /\ q # p
    BY <1>2, <1>3, <1>7
  <2>2. \A q \in h + 2 .. Len(C) : C[q] # C[p]
    BY <1>3, <2>1
  <2> QED BY <1>5, <1>9, <2>1, <2>2
<1>13. \A q \in 1 .. Len(K) - h : h + 1 + q \in 1 .. Len(K) + 1 /\ h + 1 + q \in h + 2 .. Len(C)
  BY <1>2, <1>3, <1>7
<1>14. /\ Typed(new, root, half, height)
       /\ RootGood(new, root, half, n, L + 1)
       /\ PendingGood(new, half, height, n, s, L + 1)
       /\ \A c \in 1 .. L, x \in Nat : Covers(half, n, L + 1, c, x) <=> Covers(span, Nil, Nil, c, x)
  <2>1. new[root].parent = nodes[root].parent
    <3>1. nodes[root].parent = Nil /\ n # Nil
      BY <1>1 DEF Tree, RootGood, Nil
    <3> QED BY <1>1, <1>11, <3>1
  <2>2. NewNode(new, nodes, root, span, L, n, s)
    BY <1>1, <1>4, <1>5, <2>1 DEF NewNode
  <2> QED BY <2>2, HalvedTogether
<1>15. \A y \in Nat :
         /\ \A p \in 1 .. h + 1 : InSlot(K, p, y) <=> y < s /\ InSlot(new[n].keys, p, y)
         /\ \A q \in 1 .. Len(K) - h : InSlot(K, h + 1 + q, y) <=> s <= y /\ InSlot(new[L + 1].keys, q, y)
  <2>1. h \in 1 .. Len(K) - 1
    BY <1>2, <1>7
  <2> SUFFICES ASSUME NEW y \in Nat
               PROVE  /\ \A p \in 1 .. h + 1 : InSlot(K, p, y) <=> y < s /\ InSlot(new[n].keys, p, y)
                      /\ \A q \in 1 .. Len(K) - h :
                           InSlot(K, h + 1 + q, y) <=> s <= y /\ InSlot(new[L + 1].keys, q, y)
    OBVIOUS
  <2> DEFINE a == new[n].keys
             b == new[L + 1].keys
  <2>2. Starts(a, K, h) /\ Ends(b, K, h + 1) /\ K \in Seq(Nat) /\ Ascending(K)
    BY <1>2, <1>3, <1>6
  <2> HIDE DEF a, b
  <2>3. /\ \A p \in 1 .. h + 1 : InSlot(K, p, y) <=> y < K[h + 1] /\ InSlot(a, p, y)
        /\ \A q \in 1 .. Len(K) - h : InSlot(K, h + 1 + q, y) <=> K[h + 1] <= y /\ InSlot(b, q, y)
    BY <2>1, <2>2, SlotsCut
  <2> QED BY <1>7, <2>3 DEF a, b
<1>16. ASSUME NEW p \in 1 .. h + 1 PROVE ChildGood(new, half, height, n, L + 1, n, p)
  <2> DEFINE c == C[p]
  <2>1. p \in 1 .. Len(K) + 1
    BY <1>2, <1>7
  <2>2. /\ c \in 1 .. L /\ level[n] = level[c] + 1 /\ new[c].parent = n /\ new[n].children[p] = c
        /\ \A x \in Nat : Covers(span, Nil, Nil, c, x) <=> x \in span[n] /\ InSlot(K, p, x)
    BY <1>6, <1>9, <1>12, <2>1
  <2> HIDE DEF c
  <2>3. \A x \in Nat : Covers(half, n, L + 1, c, x) <=> x \in half[n] /\ InSlot(new[n].keys, p, x)
    BY <1>10, <1>14, <1>15, <2>2
  <2> QED BY <1>1, <1>5, <1>10, <2>2, <2>3 DEF ChildGood
<1>17. ASSUME NEW q \in 1 .. Len(K) - h PROVE ChildGood(new, half, height, n, L + 1, L + 1, q)
  <2> DEFINE c == C[h + 1 + q]
  <2>1. Len(C) - (h + 1) = Len(K) - h
    BY <1>2, <1>3, <1>7
  <2>2. /\ c \in 1 .. L /\ level[n] = level[c] + 1 /\ new[c].parent = L + 1 /\ new[L + 1].children[q] = c
        /\ \A x \in Nat : Covers(span, Nil, Nil, c, x) <=> x \in span[n] /\ InSlot(K, h + 1 + q, x)
    BY <1>5, <1>6, <1>9, <1>13, <2>1
  <2> HIDE DEF c
  <2>3. \A x \in Nat : Covers(half, n, L + 1, c, x) <=> x \in half[L + 1] /\ InSlot(new[L + 1].keys, q, x)
    BY <1>10, <1>14, <1>15, <2>2
  <2> QED BY <1>1, <1>5, <1>10, <2>2, <2>3 DEF ChildGood
<1>18. ASSUME NEW m \in 1 .. L, m # n, ~nodes[m].is_leaf, NEW p \in 1 .. Len(nodes[m].keys) + 1
       PROVE  ChildGood(new, half, height, n, L + 1, m, p)
  <2> DEFINE c == nodes[m].children[p]
  <2>1. ChildGood(nodes, span, level, Nil, Nil, m, p)
    BY <1>18 DEF Tree, ChildrenGood
  <2>2. /\ c \in 1 .. L /\ nodes[c].parent = m /\ level[m] = level[c] + 1
        /\ \A x \in Nat : Covers(span, Nil, Nil, c, x) <=> x \in span[m] /\ InSlot(nodes[m].keys, p, x)
    BY <2>1 DEF ChildGood
  <2>3. new[m].children[p] = c /\ new[m].keys = nodes[m].keys
    BY <1>5, <1>18
  <2> HIDE DEF c
  <2>4. new[c].parent = m
    BY <1>11, <1>18, <2>2
  <2>5. \A x \in Nat : Covers(half, n, L + 1, c, x) <=> x \in half[m] /\ InSlot(new[m].keys, p, x)
    BY <1>10, <1>14, <1>18, <2>2, <2>3
  <2> QED BY <1>5, <1>10, <2>2, <2>3, <2>4, <2>5 DEF ChildGood
<1>19. \A m \in 1 .. L + 1 : m \in 1 .. L \/ m = L + 1
  BY <1>10
<1>20. ASSUME NEW m \in 1 .. L + 1, ~new[m].is_leaf, NEW p \in 1 .. Len(new[m].keys) + 1
       PROVE  ChildGood(new, half, height, n, L + 1, m, p)
  <2>1. CASE m = n
    BY <1>6, <1>16, <2>1
  <2>2. CASE m = L + 1
    <3>1. Len(new[m].keys) + 1 = Len(K) - h
      BY <1>2, <1>6, <1>7, <2>2
    <3> QED BY <1>17, <2>2, <3>1
  <2>3. CASE m # n /\ m # L + 1
    <3>1. m \in 1 .. L /\ ~nodes[m].is_leaf /\ p \in 1 .. Len(nodes[m].keys) + 1
      BY <1>5, <1>19, <1>20, <2>3
    <3> QED BY <1>18, <2>3, <3>1
  <2> QED BY <2>1, <2>2, <2>3
<1>21. ASSUME NEW m \in 1 .. L, m # root PROVE IsChild(new, m)
  <2> DEFINE M == nodes[m].parent
  <2>1. IsChild(nodes, m)
    <3>1. m # Nil
      BY DEF Nil
    <3> QED BY <1>21, <3>1 DEF Tree, ParentsGood
  <2>2. M \in 1 .. L /\ ~nodes[M].is_leaf
    BY <2>1 DEF IsChild
  <2>3. PICK p \in 1 .. Len(nodes[M].keys) + 1 : nodes[M].children[p] = m
    BY <2>1 DEF IsChild
  <2>4. CASE M # n
    <3>1. new[m].parent = M
      BY <1>11, <2>4
    <3> HIDE DEF M
    <3>2. new[M].keys = nodes[M].keys /\ new[M].children = nodes[M].children /\ ~new[M].is_leaf
      BY <1>5, <2>2, <2>4
    <3> QED BY <1>5, <1>10, <2>2, <2>3, <3>1, <3>2 DEF IsChild
  <2>5. CASE M = n
    <3> HIDE DEF M
    <3>1. p \in 1 .. Len(K) + 1 /\ C[p] = m
      BY <2>3, <2>5 DEF K, C
    <3>2. CASE p <= h + 1
      <4>1. p \in 1 .. h + 1
        BY <1>7, <3>1, <3>2
      <4>2. new[m].parent = n /\ new[n].children[p] = m /\ p \in 1 .. Len(new[n].keys) + 1 /\ ~new[n].is_leaf
        BY <1>1, <1>5, <1>6, <1>12, <3>1, <4>1
      <4> QED BY <1>1, <1>5, <1>10, <4>2 DEF IsChild
    <3>3. CASE ~(p <= h + 1)
      <4> DEFINE q == p - (h + 1)
      <4>1. /\ q \in 1 .. Len(C) - (h + 1) /\ h + 1 + q = p /\ p \in h + 2 .. Len(C)
            /\ q \in 1 .. (Len(K) - (h + 1)) + 1
        <5>1. Len(C) = Len(K) + 1 /\ Len(K) \in Nat
          BY <1>2, <1>3
        <5> QED BY <1>7, <3>1, <3>3, <5>1
      <4> HIDE DEF q
      <4>2. /\ new[m].parent = L + 1 /\ new[L + 1].children[q] = m /\ q \in 1 .. Len(new[L + 1].keys) + 1
        BY <1>5, <1>6, <3>1, <4>1
      <4> QED BY <1>5, <1>10, <4>2 DEF IsChild
    <3> QED BY <3>2, <3>3
  <2> QED BY <2>4, <2>5
<1>22. ChildrenGood(new, half, height, n, L + 1)
  BY <1>5, <1>20 DEF ChildrenGood
<1>23. ParentsGood(new, root, L + 1)
  BY <1>5, <1>19, <1>21 DEF ParentsGood
<1>24. SameLeaves(new, nodes)
  <2>1. LeavesOf(nodes) = {m \in 1 .. L : nodes[m].is_leaf}
    BY DEF LeavesOf
  <2>2. LeavesOf(new) = {m \in 1 .. L + 1 : new[m].is_leaf}
    BY <1>5 DEF LeavesOf
  <2>3. LeavesOf(new) = LeavesOf(nodes)
    BY <1>5, <1>10, <1>19, <2>1, <2>2
  <2>4. \A m \in LeavesOf(nodes) : m \in 1 .. L /\ m # n
    BY <2>1
  <2> QED BY <1>5, <2>3, <2>4 DEF SameLeaves
<1>25. LeavesGood(new, half)
  <2>1. \A m \in LeavesOf(nodes) : half[m] = span[m]
    BY <1>10 DEF LeavesOf
  <2>2. LeavesGood(nodes, span)
    BY DEF Tree
  <2> QED BY <1>24, <2>1, <2>2, SameLeavesChain
<1> QED BY <1>4, <1>5, <1>14, <1>22, <1>23, <1>24, <1>25 DEF Tree

\* left was the root; the new root is above left and right.
Topped(new, nodes, left, s, right) ==
  LET L == Len(nodes) IN
  /\ new \in Seq(NodeType) /\ Len(new) = L + 1
  /\ \A m \in 1 .. L : new[m].is_leaf = nodes[m].is_leaf
  /\ \A m \in 1 .. L : new[m].row_indices = nodes[m].row_indices
  /\ \A m \in 1 .. L : new[m].next = nodes[m].next
  /\ \A m \in 1 .. L : new[m].keys = nodes[m].keys
  /\ \A m \in 1 .. L : new[m].children = nodes[m].children
  /\ \A m \in 1 .. L : m # left /\ m # right => new[m].parent = nodes[m].parent
  /\ new[left].parent = L + 1 /\ new[right].parent = L + 1
  /\ ~new[L + 1].is_leaf /\ new[L + 1].keys = <<s>> /\ new[L + 1].children = <<left, right>>
  /\ new[L + 1].parent = Nil

Tops(wide, height, span, level, L, left) ==
  /\ wide \in [1 .. L + 1 -> SUBSET Nat] /\ height \in [1 .. L + 1 -> Nat]
  /\ \A m \in 1 .. L : wide[m] = span[m]
  /\ \A m \in 1 .. L : height[m] = level[m]
  /\ wide[L + 1] = Nat /\ height[L + 1] = level[left] + 1

LEMMA SpansTopped ==
  ASSUME NEW L \in Nat, NEW span \in [1 .. L -> SUBSET Nat], NEW level \in [1 .. L -> Nat], NEW left \in 1 .. L
  PROVE  \E wide, height : Tops(wide, height, span, level, L, left)
<1> DEFINE wide == [m \in 1 .. L + 1 |-> IF m = L + 1 THEN Nat ELSE span[m]]
           height == [m \in 1 .. L + 1 |-> IF m = L + 1 THEN level[left] + 1 ELSE level[m]]
<1>1. /\ L + 1 \in 1 .. L + 1 /\ \A m \in 1 .. L : m \in 1 .. L + 1 /\ m # L + 1
      /\ \A m \in 1 .. L + 1 : m \in 1 .. L \/ m = L + 1
  OBVIOUS
<1>2. wide \in [1 .. L + 1 -> SUBSET Nat]
  BY <1>1
<1>3. height \in [1 .. L + 1 -> Nat]
  BY <1>1
<1>4. Tops(wide, height, span, level, L, left)
  BY <1>1, <1>2, <1>3 DEF Tops
<1> QED BY <1>4

LEMMA ToppedTree ==
  ASSUME NEW nodes, NEW root, NEW span, NEW level, NEW left, NEW s, NEW right,
         Tree(nodes, root, span, level, left, s, right), left = root,
         NEW new, Topped(new, nodes, left, s, right), NEW L, L = Len(nodes),
         NEW wide, NEW height, Tops(wide, height, span, level, L, left), NEW t
  PROVE  Tree(new, L + 1, wide, height, Nil, t, Nil) /\ SameLeaves(new, nodes)
<1>1. /\ L \in Nat /\ L + 1 \in 1 .. L + 1 /\ L + 1 # Nil
      /\ \A m \in 1 .. L : m \in 1 .. L + 1 /\ m # L + 1 /\ m # Nil
      /\ \A m \in 1 .. L + 1 : m \in 1 .. L \/ m = L + 1
  <2>1. L \in Nat
    BY LenProperties DEF Tree, Typed
  <2> QED BY <2>1 DEF Nil
<1>2. /\ root \in 1 .. L /\ span \in [1 .. L -> SUBSET Nat] /\ level \in [1 .. L -> Nat]
      /\ level[left] < L
  BY DEF Tree, Typed
<1>3. /\ left \in 1 .. L /\ right \in 1 .. L /\ left # right /\ left # Nil
      /\ level[left] = level[right] /\ s \in Nat
      /\ \A x \in span[left] : x < s
      /\ \A x \in span[right] : s <= x
  <2>1. left # Nil
    BY <1>2 DEF Nil
  <2> QED BY <2>1 DEF Tree, PendingGood
<1>4. nodes[left].parent = Nil /\ \A x \in Nat : x \in span[left] \/ x \in span[right]
  BY DEF Tree, RootGood, Covers
<1>5. /\ new \in Seq(NodeType) /\ Len(new) = L + 1
      /\ \A m \in 1 .. L : new[m].is_leaf = nodes[m].is_leaf
      /\ \A m \in 1 .. L : new[m].row_indices = nodes[m].row_indices
      /\ \A m \in 1 .. L : new[m].next = nodes[m].next
      /\ \A m \in 1 .. L : new[m].keys = nodes[m].keys
      /\ \A m \in 1 .. L : new[m].children = nodes[m].children
      /\ \A m \in 1 .. L : m # left /\ m # right => new[m].parent = nodes[m].parent
      /\ new[left].parent = L + 1 /\ new[right].parent = L + 1
      /\ ~new[L + 1].is_leaf /\ new[L + 1].keys = <<s>> /\ new[L + 1].children = <<left, right>>
      /\ new[L + 1].parent = Nil
  BY DEF Topped
<1>6. /\ wide \in [1 .. L + 1 -> SUBSET Nat] /\ height \in [1 .. L + 1 -> Nat]
      /\ \A m \in 1 .. L : wide[m] = span[m]
      /\ \A m \in 1 .. L : height[m] = level[m]
      /\ wide[L + 1] = Nat /\ height[L + 1] = level[left] + 1
  BY DEF Tops
<1>7. /\ Len(<<s>>) = 1 /\ <<s>>[1] = s /\ Len(<<left, right>>) = 2
      /\ <<left, right>>[1] = left /\ <<left, right>>[2] = right
  OBVIOUS
<1>8. Typed(new, L + 1, wide, height)
  <2>1. height[L + 1] < L + 1
    BY <1>1, <1>2, <1>3, <1>6
  <2> QED BY <1>1, <1>5, <1>6, <2>1 DEF Typed
<1>9. NodeGood(new, L + 1, wide, height, L + 1)
  <2> DEFINE K == new[L + 1].keys
             C == new[L + 1].children
  <2>1. Len(K) = 1 /\ K[1] = s /\ Len(C) = 2 /\ C[1] = left /\ C[2] = right
    BY <1>5, <1>7
  <2> HIDE DEF K, C
  <2>2. Ascending(K) /\ \A p, q \in 1 .. Len(K) + 1 : C[p] = C[q] => p = q
    BY <1>3, <2>1 DEF Ascending
  <2>3. \A k \in 1 .. Len(K) : K[k] \in wide[L + 1]
    BY <1>3, <1>6, <2>1
  <2>4. height[L + 1] # 0 /\ height[L + 1] <= height[L + 1]
    BY <1>2, <1>3, <1>6
  <2>5. Shaped(new[L + 1])
    BY <1>5, <2>1, <2>2 DEF Shaped, K, C
  <2> QED BY <1>5, <2>3, <2>4, <2>5 DEF NodeGood, K
<1>10. ASSUME NEW m \in 1 .. L PROVE NodeGood(new, L + 1, wide, height, m)
  <2>1. /\ new[m].is_leaf = nodes[m].is_leaf /\ new[m].row_indices = nodes[m].row_indices
        /\ new[m].keys = nodes[m].keys /\ new[m].children = nodes[m].children
    BY <1>5
  <2>2. NodeGood(nodes, root, span, level, m)
    BY DEF Tree
  <2>3. Shaped(new[m])
    BY <2>1, <2>2 DEF NodeGood, Shaped
  <2>4. height[m] = level[m] /\ wide[m] = span[m] /\ height[m] <= height[L + 1]
    <3>1. level[m] <= level[root] /\ level[m] \in Nat /\ level[root] \in Nat
      BY <1>2, <2>2 DEF NodeGood
    <3> QED BY <1>6, <3>1
  <2> QED BY <2>1, <2>2, <2>3, <2>4 DEF NodeGood
<1>11. \A c \in 1 .. L, x \in Nat : Covers(wide, Nil, Nil, c, x) <=> x \in span[c]
  BY <1>1, <1>6 DEF Covers
<1>12. ASSUME NEW m \in 1 .. L, ~nodes[m].is_leaf, NEW p \in 1 .. Len(nodes[m].keys) + 1
       PROVE  ChildGood(new, wide, height, Nil, Nil, m, p)
  <2> DEFINE c == nodes[m].children[p]
  <2>1. ChildGood(nodes, span, level, left, right, m, p)
    BY <1>12 DEF Tree, ChildrenGood
  <2>2. /\ c \in 1 .. L /\ c # right /\ nodes[c].parent = m /\ level[m] = level[c] + 1
        /\ \A x \in Nat : Covers(span, left, right, c, x) <=> x \in span[m] /\ InSlot(nodes[m].keys, p, x)
    BY <2>1 DEF ChildGood
  <2>3. new[m].children[p] = c /\ new[m].keys = nodes[m].keys
    BY <1>5
  <2> HIDE DEF c
  <2>4. c # left /\ new[c].parent = m /\ c # Nil /\ c \in 1 .. L + 1
    BY <1>1, <1>4, <1>5, <2>2
  <2>5. \A x \in Nat : Covers(wide, Nil, Nil, c, x) <=> x \in wide[m] /\ InSlot(new[m].keys, p, x)
    <3>1. \A x \in Nat : Covers(span, left, right, c, x) <=> x \in span[c]
      BY <2>4 DEF Covers
    <3> QED BY <1>6, <1>11, <2>2, <2>3, <3>1
  <2>6. height[m] = height[c] + 1
    BY <1>6, <2>2
  <2> QED BY <1>5, <2>2, <2>3, <2>4, <2>5, <2>6 DEF ChildGood
<1>13. ASSUME NEW p \in 1 .. 2 PROVE ChildGood(new, wide, height, Nil, Nil, L + 1, p)
  <2>1. \A x \in Nat : InSlot(<<s>>, 1, x) <=> x < s
    BY <1>7 DEF InSlot
  <2>2. \A x \in Nat : InSlot(<<s>>, 2, x) <=> s <= x
    BY <1>7 DEF InSlot
  <2>3. \A x \in Nat : x \in span[left] <=> x < s
    BY <1>3, <1>4
  <2>4. \A x \in Nat : x \in span[right] <=> s <= x
    BY <1>3, <1>4
  <2>5. CASE p = 1
    <3>1. new[L + 1].children[p] = left
      BY <1>5, <1>7, <2>5
    <3>2. \A x \in Nat : Covers(wide, Nil, Nil, left, x) <=> x \in wide[L + 1] /\ InSlot(new[L + 1].keys, p, x)
      BY <1>3, <1>5, <1>6, <1>11, <2>1, <2>3, <2>5
    <3>3. height[L + 1] = height[left] + 1 /\ left \in 1 .. L + 1 /\ left # Nil
      BY <1>1, <1>3, <1>6
    <3> QED BY <1>5, <3>1, <3>2, <3>3 DEF ChildGood
  <2>6. CASE p = 2
    <3>1. new[L + 1].children[p] = right
      BY <1>5, <1>7, <2>6
    <3>2. \A x \in Nat : Covers(wide, Nil, Nil, right, x) <=> x \in wide[L + 1] /\ InSlot(new[L + 1].keys, p, x)
      BY <1>3, <1>5, <1>6, <1>11, <2>2, <2>4, <2>6
    <3>3. height[L + 1] = height[right] + 1 /\ right \in 1 .. L + 1 /\ right # Nil
      BY <1>1, <1>3, <1>6
    <3> QED BY <1>5, <3>1, <3>2, <3>3 DEF ChildGood
  <2> QED BY <2>5, <2>6
<1>14. ChildrenGood(new, wide, height, Nil, Nil)
  <2> SUFFICES ASSUME NEW m \in 1 .. L + 1, ~new[m].is_leaf, NEW p \in 1 .. Len(new[m].keys) + 1
               PROVE  ChildGood(new, wide, height, Nil, Nil, m, p)
    BY <1>5 DEF ChildrenGood
  <2>1. CASE m = L + 1
    <3>1. new[m].keys = <<s>> /\ Len(<<s>>) + 1 = 2
      BY <1>5, <2>1
    <3> QED BY <1>13, <2>1, <3>1
  <2>2. CASE m # L + 1
    <3>1. m \in 1 .. L /\ ~nodes[m].is_leaf /\ p \in 1 .. Len(nodes[m].keys) + 1
      BY <1>1, <1>5, <2>2
    <3> QED BY <1>12, <3>1
  <2> QED BY <2>1, <2>2
<1>15. ASSUME NEW m \in 1 .. L PROVE IsChild(new, m)
  <2>1. Len(new[L + 1].keys) + 1 = 2 /\ new[L + 1].children[1] = left /\ new[L + 1].children[2] = right
    BY <1>5, <1>7
  <2>2. CASE m = left \/ m = right
    <3>1. new[m].parent = L + 1 /\ 1 \in 1 .. 2 /\ 2 \in 1 .. 2
      BY <1>5, <2>2
    <3>2. \E p \in 1 .. Len(new[L + 1].keys) + 1 : new[L + 1].children[p] = m
      BY <2>1, <2>2, <3>1
    <3> QED BY <1>1, <1>5, <3>1, <3>2 DEF IsChild
  <2>3. CASE m # left /\ m # right
    <3> DEFINE M == nodes[m].parent
    <3>1. IsChild(nodes, m)
      BY <2>3 DEF Tree, ParentsGood
    <3>2. M \in 1 .. L /\ ~nodes[M].is_leaf /\ \E p \in 1 .. Len(nodes[M].keys) + 1 : nodes[M].children[p] = m
      BY <3>1 DEF IsChild
    <3>3. new[m].parent = M
      BY <1>5, <2>3
    <3> HIDE DEF M
    <3>4. new[M].keys = nodes[M].keys /\ new[M].children = nodes[M].children /\ ~new[M].is_leaf
      BY <1>5, <3>2
    <3> QED BY <1>1, <1>5, <3>2, <3>3, <3>4 DEF IsChild
  <2> QED BY <2>2, <2>3
<1>16. ParentsGood(new, L + 1, Nil)
  BY <1>1, <1>5, <1>15 DEF ParentsGood
<1>17. RootGood(new, L + 1, wide, Nil, Nil)
  BY <1>1, <1>5, <1>6 DEF RootGood, Covers
<1>18. SameLeaves(new, nodes)
  <2>1. LeavesOf(nodes) = {m \in 1 .. L : nodes[m].is_leaf}
    BY DEF LeavesOf
  <2>2. LeavesOf(new) = {m \in 1 .. L + 1 : new[m].is_leaf}
    BY <1>5 DEF LeavesOf
  <2>3. LeavesOf(new) = LeavesOf(nodes)
    BY <1>1, <1>5, <2>1, <2>2
  <2>4. \A m \in LeavesOf(nodes) : m \in 1 .. L
    BY <2>1
  <2> QED BY <1>5, <2>3, <2>4 DEF SameLeaves
<1>19. LeavesGood(new, wide)
  <2>1. \A m \in LeavesOf(nodes) : wide[m] = span[m]
    BY <1>6 DEF LeavesOf
  <2>2. LeavesGood(nodes, span)
    BY DEF Tree
  <2> QED BY <1>18, <2>1, <2>2, SameLeavesChain
<1>20. PendingGood(new, wide, height, Nil, t, Nil)
  BY DEF PendingGood
<1>21. \A m \in 1 .. Len(new) : NodeGood(new, L + 1, wide, height, m)
  BY <1>1, <1>5, <1>9, <1>10
<1> QED BY <1>8, <1>14, <1>16, <1>17, <1>18, <1>19, <1>20, <1>21 DEF Tree

-----------------------------------------------------------------------------
(* The operators of the heap *)

HeapType == [root : Nat, nodes : Seq(NodeType), budget : Nat, ok : BOOLEAN]

\* The node n is changed, and no other.
LEMMA NodeReplaced ==
  ASSUME NEW h \in HeapType, NEW n \in 1 .. Len(h.nodes), NEW node \in NodeType,
         NEW after, after = [h EXCEPT !.nodes[n] = node]
  PROVE  /\ after \in HeapType /\ after.root = h.root /\ after.budget = h.budget /\ after.ok = h.ok
         /\ Len(after.nodes) = Len(h.nodes) /\ after.nodes[n] = node
         /\ \A m \in 1 .. Len(h.nodes) : m # n => after.nodes[m] = h.nodes[m]
<1> DEFINE a == [h.nodes EXCEPT ![n] = node]
<1>1. h.nodes \in Seq(NodeType)
  BY DEF HeapType
<1>2. a \in Seq(NodeType) /\ Len(a) = Len(h.nodes) /\ \A m \in 1 .. Len(h.nodes) : a[m] = IF m = n THEN node ELSE h.nodes[m]
  BY <1>1, ExceptSeq
<1> HIDE DEF a
<1>3. after = [h EXCEPT !.nodes = a]
  BY DEF a
<1>4. /\ after \in HeapType /\ after.root = h.root /\ after.budget = h.budget /\ after.ok = h.ok
      /\ after.nodes = a
  BY <1>2, <1>3 DEF HeapType
<1> QED BY <1>2, <1>4

LEMMA CreateIs ==
  ASSUME NEW h \in HeapType, NEW node \in NodeType, NEW created, created = Create(h, node)
  PROVE  /\ created \in HeapType /\ created.root = h.root
         /\ h.budget = 0 => ~created.ok
         /\ h.budget # 0 => /\ created.ok = h.ok /\ Len(created.nodes) = Len(h.nodes) + 1
                            /\ created.nodes[Len(h.nodes) + 1] = node
                            /\ \A m \in 1 .. Len(h.nodes) : created.nodes[m] = h.nodes[m]
<1> DEFINE a == Append(h.nodes, node)
<1>1. h.nodes \in Seq(NodeType)
  BY DEF HeapType
<1>2. /\ a \in Seq(NodeType) /\ Len(a) = Len(h.nodes) + 1 /\ a[Len(h.nodes) + 1] = node
      /\ \A m \in 1 .. Len(h.nodes) : a[m] = h.nodes[m]
  BY <1>1, AppendProperties
<1>3. CASE h.budget = 0
  <2>1. created = [h EXCEPT !.ok = FALSE]
    BY <1>3 DEF Create, Fail
  <2> QED BY <1>3, <2>1 DEF HeapType
<1>4. CASE h.budget # 0
  <2>1. created = [h EXCEPT !.nodes = a, !.budget = h.budget - 1]
    BY <1>4 DEF Create
  <2> HIDE DEF a
  <2>2. h.budget - 1 \in Nat
    BY <1>4 DEF HeapType
  <2>3. created \in HeapType /\ created.root = h.root /\ created.ok = h.ok /\ created.nodes = a
    BY <1>2, <2>1, <2>2 DEF HeapType
  <2> QED BY <1>2, <1>4, <2>3
<1> QED BY <1>3, <1>4

\* The fields that change in none of the steps above the leaves, and those that
\* change in a node that takes a child
SameFields(a, b) == /\ a.is_leaf = b.is_leaf /\ a.row_indices = b.row_indices /\ a.next = b.next
SameButParent(a, b) == SameFields(a, b) /\ a.keys = b.keys /\ a.children = b.children

Adopted(after, h, n, children) ==
  /\ after \in HeapType /\ after.root = h.root /\ after.ok = h.ok /\ Len(after.nodes) = Len(h.nodes)
  /\ \A m \in 1 .. Len(h.nodes) : SameButParent(after.nodes[m], h.nodes[m])
  /\ \A m \in 1 .. Len(h.nodes) : m \in ToSet(children) => after.nodes[m].parent = n
  /\ \A m \in 1 .. Len(h.nodes) : m \notin ToSet(children) => after.nodes[m].parent = h.nodes[m].parent

LEMMA AdoptIs ==
  ASSUME NEW h \in HeapType, NEW n \in Nat, NEW children \in Seq(Nat), NEW after, after = Adopt(h, n, children)
  PROVE  Adopted(after, h, n, children)
<1> DEFINE L == Len(h.nodes)
           a == [m \in 1 .. L |-> IF m \in ToSet(children) THEN [h.nodes[m] EXCEPT !.parent = n] ELSE h.nodes[m]]
<1>1. h.nodes \in Seq(NodeType) /\ L \in Nat /\ DOMAIN h.nodes = 1 .. L
  BY LenProperties DEF HeapType
<1>2. \A m \in 1 .. L : h.nodes[m] \in NodeType
  BY <1>1, ElementOfSeq
<1>3. \A m \in 1 .. L : [h.nodes[m] EXCEPT !.parent = n] \in NodeType
  BY <1>2 DEF NodeType
<1>4. after = [h EXCEPT !.nodes = a]
  BY <1>1 DEF Adopt
<1>5. a \in [1 .. L -> NodeType]
  BY <1>2, <1>3
<1>6. a \in Seq(NodeType) /\ Len(a) = L
  <2>1. a \in Seq(NodeType)
    BY <1>1, <1>5, SeqDef
  <2>2. DOMAIN a = 1 .. L /\ Len(a) \in Nat /\ DOMAIN a = 1 .. Len(a)
    BY <1>5, <2>1, LenProperties
  <2> HIDE DEF a, L
  <2> QED BY <1>1, <2>1, <2>2
<1>7. ASSUME NEW m \in 1 .. L
      PROVE  /\ SameButParent(a[m], h.nodes[m])
             /\ m \in ToSet(children) => a[m].parent = n
             /\ m \notin ToSet(children) => a[m].parent = h.nodes[m].parent
  <2>1. h.nodes[m] \in NodeType
    BY <1>2
  <2>2. CASE m \in ToSet(children)
    <3>1. a[m] = [h.nodes[m] EXCEPT !.parent = n]
      BY <2>2
    <3> HIDE DEF a, L
    <3> QED BY <2>1, <2>2, <3>1 DEF NodeType, SameButParent, SameFields
  <2>3. CASE m \notin ToSet(children)
    <3>1. a[m] = h.nodes[m]
      BY <2>3
    <3> HIDE DEF a, L
    <3> QED BY <2>3, <3>1 DEF SameButParent, SameFields
  <2> QED BY <2>2, <2>3
<1> HIDE DEF a
<1>8. after \in HeapType /\ after.root = h.root /\ after.ok = h.ok /\ after.nodes = a
  BY <1>4, <1>6 DEF HeapType
<1> QED BY <1>6, <1>7, <1>8 DEF Adopted

\* after is h with the key in the leaf n.
LeafInserted(after, h, n, key, row) ==
  /\ after \in HeapType /\ after.root = h.root /\ after.ok = h.ok
  /\ OthersKept(after.nodes, h.nodes, n) /\ LeafTook(after.nodes, h.nodes, n, key, row)
  /\ after.nodes[n].keys = InsertAt(h.nodes[n].keys, LeafPosition(h.nodes[n].keys, key), key)
  /\ after.nodes[n].row_indices = InsertAt(h.nodes[n].row_indices, LeafPosition(h.nodes[n].keys, key), row)

\* bptree_insert_into_leaf
LEMMA InsertIntoLeafIs ==
  ASSUME NEW h \in HeapType, NEW n \in 1 .. Len(h.nodes), NEW key \in Nat, NEW row \in Nat,
         Ascending(h.nodes[n].keys), Len(h.nodes[n].row_indices) = Len(h.nodes[n].keys),
         NEW after, after = InsertIntoLeaf(h, n, key, row)
  PROVE  LeafInserted(after, h, n, key, row)
<1> DEFINE pos == LeafPosition(h.nodes[n].keys, key)
           K == InsertAt(h.nodes[n].keys, pos, key)
           R == InsertAt(h.nodes[n].row_indices, pos, row)
           node == [h.nodes[n] EXCEPT !.keys = K, !.row_indices = R]
<1>1. h.nodes \in Seq(NodeType)
  BY DEF HeapType
<1>2. /\ h.nodes[n] \in NodeType /\ h.nodes[n].keys \in Seq(Nat) /\ h.nodes[n].row_indices \in Seq(Nat)
      /\ h.nodes[n].is_leaf \in BOOLEAN
  BY <1>1, NodeIs
<1>3. pos \in 1 .. Len(h.nodes[n].keys) + 1
  BY <1>2, LeafPositionIs
<1>4. K \in Seq(Nat) /\ Extends(K, h.nodes[n].keys, pos, key)
  BY <1>2, <1>3, InsertAtIs
<1>5. R \in Seq(Nat) /\ Extends(R, h.nodes[n].row_indices, pos, row)
  BY <1>2, <1>3, InsertAtIs
<1>6. after = [h EXCEPT !.nodes[n] = node]
  BY DEF InsertIntoLeaf
<1> HIDE DEF K, R, pos
<1>7. /\ node \in NodeType /\ node.keys = K /\ node.row_indices = R /\ node.is_leaf = h.nodes[n].is_leaf
      /\ node.parent = h.nodes[n].parent /\ node.next = h.nodes[n].next
  BY <1>2, <1>4, <1>5 DEF NodeType
<1> HIDE DEF node
<1>8. /\ after \in HeapType /\ after.root = h.root /\ after.budget = h.budget /\ after.ok = h.ok
      /\ Len(after.nodes) = Len(h.nodes) /\ after.nodes[n] = node
      /\ \A m \in 1 .. Len(h.nodes) : m # n => after.nodes[m] = h.nodes[m]
  BY <1>6, <1>7, NodeReplaced
<1>9. after.nodes \in Seq(NodeType)
  BY <1>8 DEF HeapType
<1>10. OthersKept(after.nodes, h.nodes, n)
  BY <1>7, <1>8, <1>9 DEF OthersKept
<1>11. LeafTook(after.nodes, h.nodes, n, key, row)
  BY <1>4, <1>5, <1>7, <1>8 DEF LeafTook, pos
<1> QED BY <1>7, <1>8, <1>10, <1>11 DEF LeafInserted, K, R, pos

LEMMA HalfIs ==
  ASSUME NEW n \in Nat
  PROVE  /\ n \div 2 \in 0 .. n
         /\ n >= 2 => n \div 2 \in 1 .. n - 1
         /\ n >= 3 => n \div 2 \in 1 .. n - 2
  OBVIOUS

\* right becomes the child after the pos-th of the parent.
Link(h, parent, pos, key, right) ==
  [h EXCEPT !.nodes[parent].keys = InsertAt(@, pos, key),
            !.nodes[parent].children = InsertAt(@, pos + 1, right),
            !.nodes[right].parent = parent]

LinkGood(after, h, parent, pos, key, right) ==
  /\ after \in HeapType /\ after.root = h.root /\ after.ok = h.ok
  /\ Linked(after.nodes, h.nodes, parent, pos, key, right)
  /\ after.nodes[parent].keys = InsertAt(h.nodes[parent].keys, pos, key)
  /\ after.nodes[parent].children = InsertAt(h.nodes[parent].children, pos + 1, right)

LEMMA LinkIs ==
  ASSUME NEW h \in HeapType, NEW parent \in 1 .. Len(h.nodes), NEW right \in 1 .. Len(h.nodes), parent # right,
         NEW key \in Nat, NEW pos \in 1 .. Len(h.nodes[parent].keys) + 1,
         Len(h.nodes[parent].children) = Len(h.nodes[parent].keys) + 1,
         NEW after, after = Link(h, parent, pos, key, right)
  PROVE  LinkGood(after, h, parent, pos, key, right)
<1> DEFINE K == InsertAt(h.nodes[parent].keys, pos, key)
           C == InsertAt(h.nodes[parent].children, pos + 1, right)
           node == [h.nodes[parent] EXCEPT !.keys = K, !.children = C]
           first == [h EXCEPT !.nodes[parent] = node]
           other == [h.nodes[right] EXCEPT !.parent = parent]
<1>1. h.nodes \in Seq(NodeType)
  BY DEF HeapType
<1>2. /\ h.nodes[parent] \in NodeType /\ h.nodes[parent].keys \in Seq(Nat) /\ h.nodes[parent].children \in Seq(Nat)
      /\ h.nodes[right] \in NodeType /\ Len(h.nodes[parent].keys) \in Nat
      /\ parent \in Nat /\ right \in Nat
  <2>1. parent \in Nat /\ right \in Nat
    OBVIOUS
  <2> QED BY <1>1, <2>1, NodeIs
<1>3. K \in Seq(Nat) /\ Extends(K, h.nodes[parent].keys, pos, key)
  BY <1>2, InsertAtIs
<1>4. C \in Seq(Nat) /\ Extends(C, h.nodes[parent].children, pos + 1, right)
  <2>1. pos + 1 \in 1 .. Len(h.nodes[parent].children) + 1
    BY <1>2
  <2> QED BY <1>2, <2>1, InsertAtIs
<1>5. after = [first EXCEPT !.nodes[right].parent = parent]
  BY DEF Link
<1> HIDE DEF K, C
<1>6. /\ node \in NodeType /\ node.keys = K /\ node.children = C /\ SameFields(node, h.nodes[parent])
      /\ node.parent = h.nodes[parent].parent
  BY <1>2, <1>3, <1>4 DEF NodeType, SameFields
<1> HIDE DEF node
<1>7. /\ first \in HeapType /\ first.root = h.root /\ first.ok = h.ok
      /\ Len(first.nodes) = Len(h.nodes) /\ first.nodes[parent] = node
      /\ \A m \in 1 .. Len(h.nodes) : m # parent => first.nodes[m] = h.nodes[m]
  BY <1>6, NodeReplaced
<1> HIDE DEF first
<1>8. after = [first EXCEPT !.nodes[right] = other]
  BY <1>5, <1>7
<1>9. other \in NodeType /\ SameButParent(other, h.nodes[right]) /\ other.parent = parent
  <2> DEFINE r == h.nodes[right]
  <2>1. r \in NodeType /\ parent \in Nat
    BY <1>2
  <2> HIDE DEF r
  <2>2. /\ [r EXCEPT !.parent = parent] \in NodeType /\ SameButParent([r EXCEPT !.parent = parent], r)
        /\ [r EXCEPT !.parent = parent].parent = parent
    BY <2>1 DEF NodeType, SameFields, SameButParent
  <2> QED BY <2>2 DEF r
<1> HIDE DEF other
<1>10. /\ after \in HeapType /\ after.root = h.root /\ after.ok = h.ok
       /\ Len(after.nodes) = Len(h.nodes) /\ after.nodes[right] = other
       /\ \A m \in 1 .. Len(h.nodes) : m # right => after.nodes[m] = first.nodes[m]
  BY <1>7, <1>8, <1>9, NodeReplaced
<1>11. after.nodes[parent] = node /\ \A m \in 1 .. Len(h.nodes) : m # right /\ m # parent => after.nodes[m] = h.nodes[m]
  BY <1>7, <1>10
<1>12. after.nodes \in Seq(NodeType)
  BY <1>10 DEF HeapType
<1>13. \A m \in 1 .. Len(h.nodes) : SameFields(after.nodes[m], h.nodes[m])
  BY <1>6, <1>9, <1>10, <1>11 DEF SameFields, SameButParent
<1>14. \A m \in 1 .. Len(h.nodes) : m # parent =>
         after.nodes[m].keys = h.nodes[m].keys /\ after.nodes[m].children = h.nodes[m].children
  BY <1>9, <1>10, <1>11 DEF SameButParent
<1>15. \A m \in 1 .. Len(h.nodes) : m # right => after.nodes[m].parent = h.nodes[m].parent
  BY <1>6, <1>11
<1>16. Linked(after.nodes, h.nodes, parent, pos, key, right)
  BY <1>3, <1>4, <1>6, <1>9, <1>10, <1>11, <1>12, <1>13, <1>14, <1>15 DEF Linked, SameFields
<1> QED BY <1>6, <1>10, <1>11, <1>16 DEF K, C, LinkGood

\* What the halving of the leaf n leaves to do: nothing without memory
LeafSplitGood(after, h, mid, n, half) ==
  /\ h.budget = 0 => ~after.ok
  /\ h.budget # 0 /\ h.ok => \E split \in HeapType :
       /\ split.root = h.root /\ split.ok /\ LeafHalved(split.nodes, mid, n, half)
       /\ after = InsertIntoParent(split, n, mid[n].keys[half + 1], Len(h.nodes) + 1)

\* bptree_split_leaf, up to the call of bptree_insert_into_parent: a full leaf takes
\* the key and is halved.
LEMMA SplitLeafIs ==
  ASSUME NEW h \in HeapType, NEW n \in 1 .. Len(h.nodes), NEW key \in Nat, NEW row \in Nat,
         Ascending(h.nodes[n].keys), Len(h.nodes[n].row_indices) = Len(h.nodes[n].keys),
         NEW mid, mid = InsertIntoLeaf(h, n, key, row).nodes, NEW half, half = Len(mid[n].keys) \div 2,
         h.nodes[n].is_leaf, NEW after, after = SplitLeaf(h, n, key, row)
  PROVE  LeafSplitGood(after, h, mid, n, half)
<1> DEFINE L == Len(h.nodes)
           old == h.nodes[n]
           pos == LeafPosition(old.keys, key)
           keys == InsertAt(old.keys, pos, key)
           rows == InsertAt(old.row_indices, pos, row)
           g == Len(keys) \div 2
           upper == SubSeq(keys, g + 1, Len(keys))
           above == SubSeq(rows, g + 1, Len(rows))
           leaf == [Leaf(upper, above) EXCEPT !.next = old.next, !.parent = old.parent]
           created == Create(h, leaf)
           new == Len(created.nodes)
           lower == SubSeq(keys, 1, g)
           below == SubSeq(rows, 1, g)
           split == [created EXCEPT !.nodes[n].keys = lower, !.nodes[n].row_indices = below, !.nodes[n].next = new]
<1>1. h.nodes \in Seq(NodeType) /\ L \in Nat
  BY LenProperties DEF HeapType
<1>2. /\ mid[n].keys = keys /\ mid[n].row_indices = rows /\ OthersKept(mid, h.nodes, n)
      /\ LeafTook(mid, h.nodes, n, key, row)
  <2> DEFINE took == InsertIntoLeaf(h, n, key, row)
  <2> HIDE DEF took
  <2>1. LeafInserted(took, h, n, key, row)
    BY InsertIntoLeafIs DEF took
  <2>2. mid = took.nodes
    BY DEF took
  <2> QED BY <2>1, <2>2 DEF LeafInserted
<1>3. mid \in Seq(NodeType) /\ Len(mid) = L /\ n \in 1 .. Len(mid)
  BY <1>2 DEF OthersKept
<1>4. keys \in Seq(Nat) /\ rows \in Seq(Nat) /\ Len(keys) \in Nat /\ old.next \in Nat /\ old.parent \in Nat
      /\ old \in NodeType
  BY <1>1, <1>2, <1>3, NodeIs
<1>5. Len(rows) = Len(keys)
  BY <1>2 DEF LeafTook, Extends
<1>6. SplitLeaf(h, n, key, row) = IF ~created.ok THEN created ELSE InsertIntoParent(split, n, keys[g + 1], new)
  BY DEF SplitLeaf
<1>7. half = g
  BY <1>2
<1> HIDE DEF keys, rows, old
<1>8. g \in 0 .. Len(keys)
  BY <1>4, HalfIs
<1> HIDE DEF g
<1>9. upper \in Seq(Nat) /\ Ends(upper, keys, g) /\ above \in Seq(Nat) /\ Ends(above, rows, g)
  BY <1>4, <1>5, <1>8, SuffixIs
<1>10. lower \in Seq(Nat) /\ Starts(lower, keys, g) /\ below \in Seq(Nat) /\ Starts(below, rows, g)
  BY <1>4, <1>5, <1>8, PrefixIs
<1> HIDE DEF upper, above, lower, below
<1>11. /\ leaf \in NodeType /\ leaf.is_leaf /\ leaf.keys = upper /\ leaf.row_indices = above
       /\ leaf.next = old.next
  <2>1. Leaf(upper, above) \in NodeType /\ Leaf(upper, above).is_leaf /\ Leaf(upper, above).keys = upper
        /\ Leaf(upper, above).row_indices = above
    BY <1>9, EmptySeq DEF Leaf, NodeType, Nil
  <2> QED BY <1>4, <2>1 DEF NodeType
<1> HIDE DEF leaf
<1>12. /\ created \in HeapType /\ created.root = h.root
       /\ h.budget = 0 => ~created.ok
       /\ h.budget # 0 => /\ created.ok = h.ok /\ new = L + 1
                          /\ created.nodes[L + 1] = leaf
                          /\ \A m \in 1 .. L : created.nodes[m] = h.nodes[m]
  BY <1>11, CreateIs
<1> HIDE DEF created
<1>13. CASE h.budget = 0
  BY <1>6, <1>12, <1>13 DEF LeafSplitGood
<1>14. CASE h.budget # 0 /\ h.ok
  <2> DEFINE node == [old EXCEPT !.keys = lower, !.row_indices = below, !.next = new]
  <2>1. /\ new = L + 1 /\ created.ok /\ created.nodes[n] = old /\ n \in 1 .. Len(created.nodes) /\ n # L + 1
        /\ L + 1 \in Nat
    <3>1. /\ new = L + 1 /\ created.ok /\ created.nodes[n] = old
      BY <1>12, <1>14 DEF old
    <3>2. n \in 1 .. L + 1 /\ n # L + 1 /\ L + 1 \in Nat
      BY <1>1
    <3> QED BY <3>1, <3>2
  <2>2. split = [created EXCEPT !.nodes[n] = node]
    BY <2>1
  <2> HIDE DEF new, L, split
  <2>3. /\ node \in NodeType /\ node.keys = lower /\ node.row_indices = below /\ node.next = L + 1
        /\ node.is_leaf = old.is_leaf /\ node.parent = old.parent
    <3>1. old \in NodeType /\ lower \in Seq(Nat) /\ below \in Seq(Nat) /\ new \in Nat /\ new = L + 1
      BY <1>4, <1>10, <2>1
    <3> QED BY <3>1 DEF NodeType
  <2> HIDE DEF node
  <2>4. /\ split \in HeapType /\ split.root = created.root /\ split.ok = created.ok
        /\ Len(split.nodes) = Len(created.nodes) /\ split.nodes[n] = node
        /\ \A m \in 1 .. Len(created.nodes) : m # n => split.nodes[m] = created.nodes[m]
    <3>1. created \in HeapType /\ n \in 1 .. Len(created.nodes) /\ node \in NodeType
      BY <1>12, <2>1, <2>3
    <3> QED BY <2>2, <3>1, NodeReplaced
  <2>5. Len(created.nodes) = L + 1 /\ L + 1 \in 1 .. L + 1 /\ \A m \in 1 .. L : m \in 1 .. L + 1
    BY <1>1, <2>1 DEF new
  <2>6. split.nodes[L + 1] = leaf /\ \A m \in 1 .. L : m # n => split.nodes[m] = mid[m]
    BY <1>2, <1>12, <1>14, <2>1, <2>4, <2>5 DEF OthersKept, L
  <2>7. mid[n].is_leaf = old.is_leaf /\ mid[n].parent = old.parent /\ mid[n].next = old.next
    BY <1>2 DEF OthersKept, old, L
  <2>8. split.nodes \in Seq(NodeType) /\ Len(split.nodes) = L + 1
    BY <2>4, <2>5 DEF HeapType
  <2>9. LeafHalved(split.nodes, mid, n, half)
    BY <1>2, <1>3, <1>7, <1>9, <1>10, <1>11, <2>3, <2>4, <2>6, <2>7, <2>8 DEF LeafHalved
  <2>10. SplitLeaf(h, n, key, row) = InsertIntoParent(split, n, mid[n].keys[half + 1], L + 1)
    BY <1>2, <1>6, <1>7, <2>1
  <2>11. split \in HeapType /\ split.root = h.root /\ split.ok
    BY <1>12, <2>1, <2>4
  <2>12. LeafSplitGood(after, h, mid, n, half)
    <3>1. after = InsertIntoParent(split, n, mid[n].keys[half + 1], Len(h.nodes) + 1)
      BY <2>10 DEF L
    <3> QED BY <1>14, <2>9, <2>11, <3>1 DEF LeafSplitGood
  <2> QED BY <2>12
<1> QED BY <1>13, <1>14 DEF LeafSplitGood

LEMMA InSeq ==
  ASSUME NEW s \in Seq(Nat), NEW m
  PROVE  m \in ToSet(s) <=> \E q \in 1 .. Len(s) : s[q] = m
<1>1. DOMAIN s = 1 .. Len(s)
  BY LenProperties
<1> QED BY <1>1 DEF ToSet

\* mid is h with right linked into the node n, which is to be cut before g + 1.
SplitReady(h, n, pos, key, right, mid, g) ==
  /\ n \in 1 .. Len(h.nodes) /\ right \in 1 .. Len(h.nodes) /\ n # right
  /\ key \in Nat /\ pos \in 1 .. Len(h.nodes[n].keys) + 1
  /\ Len(h.nodes[n].children) = Len(h.nodes[n].keys) + 1
  /\ Linked(mid, h.nodes, n, pos, key, right)
  /\ mid[n].keys = InsertAt(h.nodes[n].keys, pos, key)
  /\ mid[n].children = InsertAt(h.nodes[n].children, pos + 1, right)
  /\ g = Len(mid[n].keys) \div 2
  /\ \A q \in 1 .. Len(mid[n].children) :
       mid[n].children[q] \in 1 .. Len(h.nodes) /\ mid[mid[n].children[q]].parent = n

\* The call c that the halving of n leaves: none without memory
SplitGood(c, h, mid, n, g) ==
  /\ h.budget = 0 => \E after \in HeapType : ~after.ok /\ c = Return(after)
  /\ h.budget # 0 /\ h.ok => \E after \in HeapType :
       /\ after.root = h.root /\ after.ok /\ InternalHalved(after.nodes, mid, n, g)
       /\ c = Call(after, n, mid[n].keys[g + 1], Len(h.nodes) + 1)

\* bptree_split_internal: a full node takes right and is halved.
LEMMA SplitInternalIs ==
  ASSUME NEW h \in HeapType, NEW n, NEW pos, NEW key, NEW right, NEW mid, NEW g,
         SplitReady(h, n, pos, key, right, mid, g), NEW c, c = SplitInternal(h, n, pos, key, right)
  PROVE  SplitGood(c, h, mid, n, g)
<1>0. /\ n \in 1 .. Len(h.nodes) /\ right \in 1 .. Len(h.nodes) /\ n # right
      /\ key \in Nat /\ pos \in 1 .. Len(h.nodes[n].keys) + 1
      /\ Len(h.nodes[n].children) = Len(h.nodes[n].keys) + 1
      /\ Linked(mid, h.nodes, n, pos, key, right)
      /\ mid[n].keys = InsertAt(h.nodes[n].keys, pos, key)
      /\ mid[n].children = InsertAt(h.nodes[n].children, pos + 1, right)
      /\ g = Len(mid[n].keys) \div 2
      /\ \A q \in 1 .. Len(mid[n].children) :
           mid[n].children[q] \in 1 .. Len(h.nodes) /\ mid[mid[n].children[q]].parent = n
  BY DEF SplitReady
<1> USE <1>0
<1> DEFINE L == Len(h.nodes)
           old == h.nodes[n]
           keys == InsertAt(old.keys, pos, key)
           children == InsertAt(old.children, pos + 1, right)
           promote == Len(keys) \div 2
           leftKids == SubSeq(children, 1, promote + 1)
           rightKids == SubSeq(children, promote + 2, Len(children))
           upper == SubSeq(keys, promote + 2, Len(keys))
           lower == SubSeq(keys, 1, promote)
           fresh == [Internal(upper, rightKids) EXCEPT !.parent = old.parent]
           created == Create(h, fresh)
           new == Len(created.nodes)
           split == [created EXCEPT !.nodes[n].keys = lower, !.nodes[n].children = leftKids]
           first == Adopt(split, n, leftKids)
           after == Adopt(first, new, rightKids)
<1>1. h.nodes \in Seq(NodeType) /\ L \in Nat
  BY LenProperties DEF HeapType
<1>2. Linked(mid, h.nodes, n, pos, key, right) /\ mid[n].keys = keys /\ mid[n].children = children
  OBVIOUS
<1>3. /\ mid \in Seq(NodeType) /\ Len(mid) = L
      /\ \A m \in 1 .. L : SameFields(mid[m], h.nodes[m])
      /\ \A m \in 1 .. L : m # n => mid[m].keys = h.nodes[m].keys
      /\ \A m \in 1 .. L : m # n => mid[m].children = h.nodes[m].children
      /\ \A m \in 1 .. L : m # right => mid[m].parent = h.nodes[m].parent
  BY <1>2 DEF Linked, SameFields
<1>4. keys \in Seq(Nat) /\ Len(keys) \in Nat /\ children \in Seq(Nat)
  BY <1>2, <1>3, NodeIs
<1>5. old \in NodeType /\ old.parent \in Nat /\ Len(old.keys) \in Nat
  BY <1>1, NodeIs
<1>6. Len(children) = Len(keys) + 1 /\ children[pos + 1] = right /\ pos + 1 \in 1 .. Len(children)
  <2>1. Len(keys) = Len(old.keys) + 1 /\ Len(children) = Len(old.children) + 1 /\ children[pos + 1] = right
    BY <1>2 DEF Linked, Extends
  <2> QED BY <1>5, <2>1
<1>7. c =
        IF ~created.ok THEN Return(created) ELSE Call(after, n, keys[promote + 1], new)
  BY DEF SplitInternal
<1>8. g = promote /\ \A q \in 1 .. Len(children) : children[q] \in 1 .. L /\ mid[children[q]].parent = n
  BY <1>2
<1> HIDE DEF keys, children, old
<1>9. promote \in 0 .. Len(keys) /\ promote + 1 \in 0 .. Len(children) /\ (promote + 1) + 1 = promote + 2
      /\ promote + 1 \in 0 .. Len(keys)
  <2>1. Len(keys) > 0
    BY <1>2, <1>5 DEF Linked, Extends, old
  <2>2. promote \in Nat /\ promote < Len(keys)
    BY <1>4, <2>1, HalfIs
  <2> HIDE DEF promote
  <2> HIDE <1>0
  <2> QED BY <1>4, <1>6, <2>2
<1> HIDE DEF promote
<1>10. upper \in Seq(Nat) /\ Ends(upper, keys, promote + 1)
  BY <1>4, <1>9, SuffixIs
<1>11. rightKids \in Seq(Nat) /\ Ends(rightKids, children, promote + 1)
  BY <1>4, <1>9, SuffixIs
<1>12. lower \in Seq(Nat) /\ Starts(lower, keys, promote)
  BY <1>4, <1>9, PrefixIs
<1>13. leftKids \in Seq(Nat) /\ Starts(leftKids, children, promote + 1)
  BY <1>4, <1>9, PrefixIs
<1> HIDE DEF upper, rightKids, lower, leftKids
<1>14. fresh \in NodeType /\ ~fresh.is_leaf /\ fresh.keys = upper /\ fresh.children = rightKids
  <2>1. /\ Internal(upper, rightKids) \in NodeType /\ ~Internal(upper, rightKids).is_leaf
        /\ Internal(upper, rightKids).keys = upper /\ Internal(upper, rightKids).children = rightKids
    BY <1>10, <1>11, EmptySeq DEF Internal, NodeType, Nil
  <2> QED BY <1>5, <2>1 DEF NodeType
<1> HIDE DEF fresh
<1>15. /\ created \in HeapType /\ created.root = h.root
       /\ h.budget = 0 => ~created.ok
       /\ h.budget # 0 => /\ created.ok = h.ok /\ new = L + 1
                          /\ created.nodes[L + 1] = fresh
                          /\ \A m \in 1 .. L : created.nodes[m] = h.nodes[m]
  BY <1>14, CreateIs
<1> HIDE DEF created
<1>16. h.budget = 0 => \E made \in HeapType : ~made.ok /\ c = Return(made)
  BY <1>7, <1>15
<1>17. ASSUME h.budget # 0 /\ h.ok
       PROVE  \E made \in HeapType :
                /\ made.root = h.root /\ made.ok /\ InternalHalved(made.nodes, mid, n, g)
                /\ c = Call(made, n, mid[n].keys[g + 1], Len(h.nodes) + 1)
  <2> DEFINE node == [old EXCEPT !.keys = lower, !.children = leftKids]
  <2>1. /\ new = L + 1 /\ created.ok /\ created.nodes[n] = old /\ n \in 1 .. Len(created.nodes) /\ n # L + 1
        /\ L + 1 \in Nat /\ n \in Nat
    <3>1. /\ new = L + 1 /\ created.ok /\ created.nodes[n] = old
      BY <1>15, <1>17 DEF old
    <3>2. n \in 1 .. L + 1 /\ n # L + 1 /\ L + 1 \in Nat /\ n \in Nat
      BY <1>1
    <3> QED BY <3>1, <3>2
  <2>2. split = [created EXCEPT !.nodes[n] = node]
    BY <2>1
  <2>3. /\ node \in NodeType /\ node.keys = lower /\ node.children = leftKids
        /\ SameFields(node, old) /\ node.parent = old.parent
    <3>1. old \in NodeType /\ lower \in Seq(Nat) /\ leftKids \in Seq(Nat)
      BY <1>5, <1>12, <1>13
    <3> HIDE DEF new, L, split
    <3> QED BY <3>1 DEF NodeType, SameFields
  <2> HIDE DEF node, split
  <2>4. /\ split \in HeapType /\ split.root = created.root /\ split.ok = created.ok
        /\ Len(split.nodes) = Len(created.nodes) /\ split.nodes[n] = node
        /\ \A m \in 1 .. Len(created.nodes) : m # n => split.nodes[m] = created.nodes[m]
    <3>1. created \in HeapType /\ n \in 1 .. Len(created.nodes) /\ node \in NodeType
      BY <1>15, <2>1, <2>3
    <3> QED BY <2>2, <3>1, NodeReplaced
  <2>5. Len(split.nodes) = L + 1 /\ L + 1 \in 1 .. L + 1 /\ \A m \in 1 .. L : m \in 1 .. L + 1 /\ m # L + 1
    <3>1. L + 1 \in 1 .. L + 1 /\ \A m \in 1 .. L : m \in 1 .. L + 1 /\ m # L + 1
      BY <1>1
    <3> QED BY <2>1, <2>4, <3>1
  <2>6. /\ first \in HeapType /\ first.root = split.root /\ first.ok = split.ok /\ Len(first.nodes) = L + 1
        /\ \A m \in 1 .. L + 1 : SameButParent(first.nodes[m], split.nodes[m])
        /\ \A m \in 1 .. L + 1 : m \in ToSet(leftKids) => first.nodes[m].parent = n
        /\ \A m \in 1 .. L + 1 : m \notin ToSet(leftKids) => first.nodes[m].parent = split.nodes[m].parent
    <3>1. Adopted(first, split, n, leftKids)
      BY <1>13, <2>1, <2>4, AdoptIs
    <3> HIDE DEF first, L
    <3> QED BY <2>5, <3>1 DEF Adopted
  <2> HIDE DEF first
  <2>7. /\ after \in HeapType /\ after.root = first.root /\ after.ok = first.ok /\ Len(after.nodes) = L + 1
        /\ \A m \in 1 .. L + 1 : SameButParent(after.nodes[m], first.nodes[m])
        /\ \A m \in 1 .. L + 1 : m \in ToSet(rightKids) => after.nodes[m].parent = new
        /\ \A m \in 1 .. L + 1 : m \notin ToSet(rightKids) => after.nodes[m].parent = first.nodes[m].parent
    <3>1. new \in Nat
      BY <2>1
    <3> HIDE DEF new, L
    <3>2. Adopted(after, first, new, rightKids)
      BY <1>11, <2>6, <3>1, AdoptIs
    <3> HIDE DEF after
    <3> QED BY <2>6, <3>2 DEF Adopted
  <2> HIDE DEF after, new, L
  <2>8. \A m \in 1 .. L + 1 : SameButParent(after.nodes[m], split.nodes[m])
    BY <2>6, <2>7 DEF SameButParent, SameFields
  <2>9. \A m \in 1 .. L : m # n => split.nodes[m] = h.nodes[m]
    BY <1>15, <1>17, <2>4, <2>5
  <2>10. split.nodes[L + 1] = fresh
    BY <1>15, <1>17, <2>1, <2>4, <2>5
  <2>11. n \in 1 .. L /\ right \in 1 .. L
    BY DEF L
  <2>12. \A m \in 1 .. L : SameFields(split.nodes[m], h.nodes[m]) /\ split.nodes[m].parent = h.nodes[m].parent
    BY <2>3, <2>4, <2>9 DEF SameFields, old
  <2>13. \A m \in 1 .. L : SameFields(after.nodes[m], mid[m])
    BY <1>3, <2>5, <2>8, <2>12 DEF SameFields, SameButParent
  <2>14. \A m \in 1 .. L : m # n => after.nodes[m].keys = mid[m].keys /\ after.nodes[m].children = mid[m].children
    <3> SUFFICES ASSUME NEW m \in 1 .. L, m # n
                 PROVE  after.nodes[m].keys = mid[m].keys /\ after.nodes[m].children = mid[m].children
      OBVIOUS
    <3>1. mid[m].keys = h.nodes[m].keys /\ mid[m].children = h.nodes[m].children
      BY <1>3
    <3>2. split.nodes[m] = h.nodes[m] /\ SameButParent(after.nodes[m], split.nodes[m])
      BY <2>5, <2>8, <2>9
    <3> QED BY <3>1, <3>2 DEF SameButParent
  <2>15. after.nodes[n].keys = lower /\ after.nodes[n].children = leftKids
    BY <2>3, <2>4, <2>5, <2>8, <2>11 DEF SameButParent
  <2>16. ~after.nodes[L + 1].is_leaf /\ after.nodes[L + 1].keys = upper /\ after.nodes[L + 1].children = rightKids
    BY <1>14, <2>5, <2>8, <2>10 DEF SameButParent, SameFields
  <2>17. ASSUME NEW q \in promote + 2 .. Len(children) PROVE children[q] \in ToSet(rightKids)
    <3>1. /\ Len(rightKids) = Len(children) - (promote + 1)
          /\ \A i \in 1 .. Len(children) - (promote + 1) : rightKids[i] = children[promote + 1 + i]
      BY <1>11 DEF Ends
    <3>2. q - (promote + 1) \in 1 .. Len(children) - (promote + 1) /\ promote + 1 + (q - (promote + 1)) = q
      BY <1>4, <1>6, <1>9
    <3>3. \E i \in 1 .. Len(rightKids) : rightKids[i] = children[q]
      BY <3>1, <3>2
    <3> QED BY <1>11, <3>3, InSeq
  <2>18. ASSUME NEW m \in ToSet(rightKids) PROVE \E q \in promote + 2 .. Len(children) : children[q] = m
    <3>1. /\ Len(rightKids) = Len(children) - (promote + 1)
          /\ \A i \in 1 .. Len(children) - (promote + 1) : rightKids[i] = children[promote + 1 + i]
      BY <1>11 DEF Ends
    <3>2. PICK i \in 1 .. Len(rightKids) : rightKids[i] = m
      BY <1>11, InSeq
    <3>3. promote + 1 + i \in promote + 2 .. Len(children)
      BY <1>4, <1>6, <1>9, <3>1
    <3>4. children[promote + 1 + i] = m
      BY <3>1, <3>2
    <3> QED BY <3>3, <3>4
  <2>19. ASSUME NEW m \in ToSet(leftKids) PROVE \E q \in 1 .. promote + 1 : children[q] = m
    <3>1. PICK i \in 1 .. Len(leftKids) : leftKids[i] = m
      BY <1>13, InSeq
    <3>2. Len(leftKids) = promote + 1 /\ \A j \in 1 .. promote + 1 : leftKids[j] = children[j]
      BY <1>13 DEF Starts
    <3> QED BY <3>1, <3>2
  <2>20. ASSUME NEW q \in 1 .. promote + 1 PROVE children[q] \in ToSet(leftKids)
    <3>1. Len(leftKids) = promote + 1 /\ \A j \in 1 .. promote + 1 : leftKids[j] = children[j]
      BY <1>13 DEF Starts
    <3> QED BY <1>13, <3>1, InSeq
  <2>21. \A q \in promote + 2 .. Len(children) : after.nodes[children[q]].parent = L + 1
    <3> SUFFICES ASSUME NEW q \in promote + 2 .. Len(children) PROVE after.nodes[children[q]].parent = L + 1
      OBVIOUS
    <3>1. q \in 1 .. Len(children)
      BY <1>9
    <3>2. children[q] \in 1 .. L /\ children[q] \in 1 .. L + 1 /\ children[q] \in ToSet(rightKids)
      BY <1>8, <2>5, <2>17, <3>1
    <3> QED BY <2>1, <2>7, <3>2
  <2>22. ASSUME NEW m \in 1 .. L, \A q \in promote + 2 .. Len(children) : children[q] # m
         PROVE  after.nodes[m].parent = mid[m].parent
    <3>1. m \notin ToSet(rightKids) /\ m \in 1 .. L + 1
      BY <2>5, <2>18, <2>22
    <3>2. CASE m \in ToSet(leftKids)
      <4>1. PICK q \in 1 .. promote + 1 : children[q] = m
        BY <2>19, <3>2
      <4>2. q \in 1 .. Len(children)
        BY <1>4, <1>6, <1>9
      <4>3. mid[m].parent = n
        BY <1>8, <4>1, <4>2
      <4> QED BY <2>6, <2>7, <3>1, <3>2, <4>3
    <3>3. CASE m \notin ToSet(leftKids)
      <4>1. m # right
        <5> SUFFICES ASSUME m = right PROVE FALSE
          OBVIOUS
        <5>1. CASE pos + 1 \in 1 .. promote + 1
          BY <1>6, <2>20, <3>3, <5>1
        <5>2. CASE pos + 1 \notin 1 .. promote + 1
          <6>1. pos + 1 \in promote + 2 .. Len(children)
            BY <1>6, <1>9, <5>2
          <6> QED BY <1>6, <2>22, <6>1
        <5> QED BY <5>1, <5>2
      <4>2. mid[m].parent = h.nodes[m].parent
        BY <1>3, <4>1
      <4> QED BY <2>6, <2>7, <2>12, <3>1, <3>3, <4>2
    <3> QED BY <3>2, <3>3
  <2>23. after.nodes \in Seq(NodeType)
    BY <2>7 DEF HeapType
  <2>24. InternalHalved(after.nodes, mid, n, promote)
    BY <1>2, <1>3, <1>10, <1>11, <1>12, <1>13, <2>7, <2>13, <2>14, <2>15, <2>16, <2>21, <2>22, <2>23
       DEF InternalHalved, SameFields
  <2>25. c = Call(after, n, mid[n].keys[promote + 1], L + 1)
    BY <1>2, <1>7, <2>1
  <2>26. after \in HeapType /\ after.root = h.root /\ after.ok
    BY <1>15, <2>1, <2>4, <2>6, <2>7
  <2> QED BY <1>8, <1>17, <2>24, <2>25, <2>26 DEF L
<1> QED BY <1>16, <1>17 DEF SplitGood

\* The new root of bptree_insert_into_parent
LEMMA NewRootIs ==
  ASSUME NEW h \in HeapType, NEW left \in 1 .. Len(h.nodes), NEW right \in 1 .. Len(h.nodes), NEW key \in Nat,
         h.nodes[left].parent = Nil
  PROVE  /\ h.budget = 0 => \E after \in HeapType : ~after.ok /\ IntoParent(h, left, key, right) = Return(after)
         /\ h.budget # 0 /\ h.ok => \E after \in HeapType :
              /\ after.root = Len(h.nodes) + 1 /\ after.ok /\ Topped(after.nodes, h.nodes, left, key, right)
              /\ IntoParent(h, left, key, right) = Return(after)
<1> DEFINE L == Len(h.nodes)
           kids == <<left, right>>
           node == Internal(<<key>>, kids)
           created == Create(h, node)
           top == Len(created.nodes)
           adopted == Adopt(created, top, kids)
           after == [adopted EXCEPT !.root = top]
<1>1. h.nodes \in Seq(NodeType) /\ L \in Nat /\ left \in Nat /\ right \in Nat
  <2>1. h.nodes \in Seq(NodeType)
    BY DEF HeapType
  <2> QED BY <2>1, LenProperties
<1>2. IntoParent(h, left, key, right) = Return(IF ~created.ok THEN created ELSE after)
  BY DEF IntoParent
<1>3. /\ kids \in Seq(Nat) /\ <<key>> \in Seq(Nat) /\ <<>> \in Seq(Nat) /\ Nil \in Nat
  BY <1>1 DEF Nil
<1>4. /\ node \in NodeType /\ ~node.is_leaf /\ node.keys = <<key>> /\ node.children = kids /\ node.parent = Nil
  <2> HIDE DEF kids
  <2> QED BY <1>3 DEF Internal, NodeType
<1>5. \A m : m \in ToSet(kids) <=> m = left \/ m = right
  <2>1. DOMAIN kids = 1 .. 2 /\ kids[1] = left /\ kids[2] = right
    OBVIOUS
  <2> HIDE DEF kids
  <2>2. 1 \in 1 .. 2 /\ 2 \in 1 .. 2 /\ \A i \in 1 .. 2 : i = 1 \/ i = 2
    OBVIOUS
  <2> QED BY <2>1, <2>2 DEF ToSet
<1> HIDE DEF node, kids
<1>6. /\ created \in HeapType /\ created.root = h.root
      /\ h.budget = 0 => ~created.ok
      /\ h.budget # 0 => /\ created.ok = h.ok /\ top = L + 1
                         /\ created.nodes[L + 1] = node
                         /\ \A m \in 1 .. L : created.nodes[m] = h.nodes[m]
  BY <1>4, CreateIs
<1> HIDE DEF created
<1>7. CASE h.budget = 0
  BY <1>2, <1>6, <1>7
<1>8. CASE h.budget # 0 /\ h.ok
  <2>1. top = L + 1 /\ created.ok /\ Len(created.nodes) = L + 1
    BY <1>6, <1>8
  <2>2. L + 1 \in 1 .. L + 1 /\ (\A m \in 1 .. L : m \in 1 .. L + 1 /\ m # L + 1) /\ L + 1 \in Nat
    BY <1>1
  <2> HIDE DEF top, L
  <2>3. Adopted(adopted, created, top, kids)
    BY <1>3, <1>6, <2>1, <2>2, AdoptIs
  <2> HIDE DEF adopted
  <2>4. /\ adopted \in HeapType /\ adopted.ok /\ Len(adopted.nodes) = L + 1
        /\ \A m \in 1 .. L + 1 : SameButParent(adopted.nodes[m], created.nodes[m])
        /\ \A m \in 1 .. L + 1 : m \in ToSet(kids) => adopted.nodes[m].parent = top
        /\ \A m \in 1 .. L + 1 : m \notin ToSet(kids) => adopted.nodes[m].parent = created.nodes[m].parent
    BY <2>1, <2>3 DEF Adopted
  <2>5. after \in HeapType /\ after.root = L + 1 /\ after.ok /\ after.nodes = adopted.nodes
    BY <2>1, <2>2, <2>4 DEF HeapType
  <2>6. after.nodes \in Seq(NodeType)
    BY <2>5 DEF HeapType
  <2> HIDE DEF after
  <2>7. left \in 1 .. L /\ right \in 1 .. L
    BY DEF L
  <2>8. \A m \in 1 .. L : SameButParent(after.nodes[m], h.nodes[m])
    BY <1>6, <1>8, <2>2, <2>4, <2>5 DEF L
  <2>9. \A m \in 1 .. L : m # left /\ m # right => after.nodes[m].parent = h.nodes[m].parent
    BY <1>5, <1>6, <1>8, <2>2, <2>4, <2>5 DEF L
  <2>10. after.nodes[left].parent = L + 1 /\ after.nodes[right].parent = L + 1
    BY <1>5, <2>1, <2>2, <2>4, <2>5, <2>7
  <2>11. SameButParent(after.nodes[L + 1], node) /\ after.nodes[L + 1].parent = node.parent
    <3>1. L + 1 \notin ToSet(kids) /\ created.nodes[L + 1] = node
      BY <1>5, <1>6, <1>8, <2>2, <2>7 DEF L
    <3> QED BY <2>2, <2>4, <2>5, <3>1
  <2>12. Topped(after.nodes, h.nodes, left, key, right)
    BY <1>4, <2>4, <2>5, <2>6, <2>8, <2>9, <2>10, <2>11 DEF Topped, SameButParent, SameFields, L, kids
  <2>13. IntoParent(h, left, key, right) = Return(after)
    BY <1>2, <2>1
  <2> QED BY <1>8, <2>5, <2>12, <2>13 DEF L
<1> QED BY <1>7, <1>8

-----------------------------------------------------------------------------
(* The calls up to the root *)

Bounded(nodes) == \A n \in 1 .. Len(nodes) : Len(nodes[n].keys) <= MaxKeys

\* A tree without work left, holding the ids of ref
WholeTree(h, ref) ==
  /\ \E span, level : Tree(h.nodes, h.root, span, level, Nil, 0, Nil)
  /\ Contents(h.nodes, ref) /\ Bounded(h.nodes)

CallType == [heap : HeapType, left : Nat, key : Nat, right : Nat]

\* There is a call to do, at the level k of a tree whose root has the level r.
Climbs(c, k, r, ref) ==
  /\ c.left # Nil /\ c.heap.ok /\ Contents(c.heap.nodes, ref) /\ Bounded(c.heap.nodes)
  /\ \E span, level : /\ Tree(c.heap.nodes, c.heap.root, span, level, c.left, c.key, c.right)
                      /\ level[c.left] = k /\ level[c.heap.root] = r
Ended(c, ref) == c.left = Nil /\ (c.heap.ok => WholeTree(c.heap, ref))

LEMMA CallIs ==
  ASSUME NEW h \in HeapType, NEW left \in Nat, NEW key \in Nat, NEW right \in Nat,
         NEW c, c = Call(h, left, key, right)
  PROVE  c \in CallType /\ c.heap = h /\ c.left = left /\ c.key = key /\ c.right = right
  BY DEF Call, CallType

LEMMA ReturnIs ==
  ASSUME NEW h \in HeapType, NEW c, c = Return(h), NEW ref, h.ok => WholeTree(h, ref)
  PROVE  c \in CallType /\ Ended(c, ref)
<1>1. c \in CallType /\ c.heap = h /\ c.left = Nil
  BY CallIs DEF Return, Nil
<1> QED BY <1>1 DEF Ended

\* left is found among the children of its parent.
LEMMA ParentIs ==
  ASSUME NEW nodes, NEW root, NEW span, NEW level, NEW left, NEW s, NEW right,
         Tree(nodes, root, span, level, left, s, right), left # Nil, left # root,
         NEW parent, parent = nodes[left].parent,
         NEW pos, pos = CHOOSE k \in 1 .. Len(nodes[parent].children) : nodes[parent].children[k] = left
  PROVE  /\ parent \in 1 .. Len(nodes) /\ parent # Nil /\ left \in ToSet(nodes[parent].children)
         /\ Len(nodes[parent].children) = Len(nodes[parent].keys) + 1
         /\ Parting(nodes, left, parent, pos)
<1> DEFINE C == nodes[parent].children
<1>1. left \in 1 .. Len(nodes) /\ left # right
  BY DEF Tree, PendingGood
<1>2. IsChild(nodes, left)
  BY <1>1 DEF Tree, ParentsGood
<1>3. /\ parent \in 1 .. Len(nodes) /\ ~nodes[parent].is_leaf
      /\ \E p \in 1 .. Len(nodes[parent].keys) + 1 : C[p] = left
  BY <1>2 DEF IsChild
<1>4. Len(C) = Len(nodes[parent].keys) + 1 /\ nodes \in Seq(NodeType)
  BY <1>3 DEF Tree, Typed, NodeGood, Shaped
<1>5. C \in Seq(Nat)
  BY <1>3, <1>4, NodeIs
<1>6. pos = CHOOSE k \in 1 .. Len(C) : C[k] = left
  OBVIOUS
<1> HIDE DEF C
<1>7. \E k \in 1 .. Len(C) : C[k] = left
  BY <1>3, <1>4
<1>8. pos \in 1 .. Len(C) /\ C[pos] = left
  BY <1>6, <1>7
<1>9. left \in ToSet(C)
  BY <1>5, <1>7, InSeq
<1>10. Parting(nodes, left, parent, pos)
  BY <1>4, <1>8 DEF Parting, C
<1>11. parent # Nil
  BY <1>3 DEF Nil
<1> QED BY <1>3, <1>4, <1>9, <1>10, <1>11 DEF C

\* The call in which left is the root
LEMMA RootCall ==
  ASSUME NEW h \in HeapType, NEW span, NEW level, NEW s, NEW right, NEW left, left = h.root,
         Tree(h.nodes, h.root, span, level, left, s, right), h.ok,
         NEW ref, Contents(h.nodes, ref), Bounded(h.nodes), NEW c, c = IntoParent(h, left, s, right)
  PROVE  c \in CallType /\ Ended(c, ref)
<1> DEFINE L == Len(h.nodes)
<1>1. /\ h.nodes \in Seq(NodeType) /\ L \in Nat /\ left \in 1 .. L
      /\ span \in [1 .. L -> SUBSET Nat] /\ level \in [1 .. L -> Nat]
  BY LenProperties DEF Tree, Typed
<1>2. left # Nil /\ h.nodes[left].parent = Nil
  BY <1>1 DEF Tree, RootGood, Nil
<1>3. right \in 1 .. L /\ s \in Nat
  BY <1>2 DEF Tree, PendingGood
<1>4. CASE h.budget = 0
  <2>1. PICK after \in HeapType : ~after.ok /\ c = Return(after)
    BY <1>1, <1>2, <1>3, <1>4, NewRootIs
  <2> QED BY <2>1, ReturnIs
<1>5. CASE h.budget # 0
  <2>1. PICK after \in HeapType :
          /\ after.root = L + 1 /\ after.ok /\ Topped(after.nodes, h.nodes, left, s, right)
          /\ c = Return(after)
    BY <1>1, <1>2, <1>3, <1>5, NewRootIs
  <2>2. PICK wide, height : Tops(wide, height, span, level, L, left)
    BY <1>1, SpansTopped
  <2>3. Tree(after.nodes, after.root, wide, height, Nil, 0, Nil) /\ SameLeaves(after.nodes, h.nodes)
    BY <2>1, <2>2, ToppedTree
  <2>4. Contents(after.nodes, ref)
    BY <2>3, SameLeavesContents
  <2>5. Bounded(after.nodes)
    <3>1. /\ Len(after.nodes) = L + 1 /\ after.nodes[L + 1].keys = <<s>>
          /\ \A m \in 1 .. L : after.nodes[m].keys = h.nodes[m].keys
      BY <2>1 DEF Topped
    <3>2. Len(<<s>>) = 1 /\ 1 <= MaxKeys
      BY MaxKeysAssumption
    <3>3. \A m \in 1 .. L + 1 : m \in 1 .. L \/ m = L + 1
      BY <1>1
    <3>4. Len(after.nodes[L + 1].keys) <= MaxKeys
      BY <3>1, <3>2
    <3> QED BY <3>1, <3>3, <3>4 DEF Bounded
  <2>6. WholeTree(after, ref)
    BY <2>3, <2>4, <2>5 DEF WholeTree
  <2> QED BY <2>1, <2>6, ReturnIs
<1> QED BY <1>4, <1>5

\* The call in which the parent has room
LEMMA RoomyCall ==
  ASSUME NEW h \in HeapType, NEW span, NEW level, NEW left, NEW s, NEW right,
         Tree(h.nodes, h.root, span, level, left, s, right), left # h.root,
         NEW ref, Contents(h.nodes, ref), NEW parent, NEW pos, Parting(h.nodes, left, parent, pos),
         NEW after, after = Link(h, parent, pos, s, right)
  PROVE  /\ LinkGood(after, h, parent, pos, s, right)
         /\ Tree(after.nodes, after.root, span, level, Nil, 0, Nil) /\ Contents(after.nodes, ref)
<1>1. PlaceGood(h.nodes, span, level, left, s, right, parent, pos)
  BY PlaceIs
<1>2. /\ parent \in 1 .. Len(h.nodes) /\ ~h.nodes[parent].is_leaf /\ right \in 1 .. Len(h.nodes)
      /\ parent # right /\ s \in Nat
  BY <1>1 DEF PlaceGood
<1>3. Len(h.nodes[parent].children) = Len(h.nodes[parent].keys) + 1
  BY <1>2 DEF Tree, NodeGood, Shaped
<1>4. pos \in 1 .. Len(h.nodes[parent].keys) + 1
  BY DEF Parting
<1>5. LinkGood(after, h, parent, pos, s, right)
  BY <1>2, <1>3, <1>4, LinkIs
<1>6. Tree(after.nodes, after.root, span, level, Nil, 0, Nil) /\ SameLeaves(after.nodes, h.nodes)
  <2>1. Linked(after.nodes, h.nodes, parent, pos, s, right) /\ after.root = h.root
    BY <1>5 DEF LinkGood
  <2> QED BY <2>1, LinkedTree
<1>7. Contents(after.nodes, ref)
  BY <1>6, SameLeavesContents
<1> QED BY <1>5, <1>6, <1>7

\* The call in which the parent is full and is halved
LEMMA FullCall ==
  ASSUME NEW h \in HeapType, NEW span, NEW level, NEW left, NEW s, NEW right,
         Tree(h.nodes, h.root, span, level, left, s, right), left # h.root, h.ok,
         NEW ref, Contents(h.nodes, ref), Bounded(h.nodes),
         NEW parent, NEW pos, Parting(h.nodes, left, parent, pos), ~(Len(h.nodes[parent].keys) < MaxKeys),
         NEW c, c = SplitInternal(h, parent, pos, s, right)
  PROVE  c \in CallType /\ (Ended(c, ref) \/ Climbs(c, level[left] + 1, level[h.root], ref))
<1> DEFINE L == Len(h.nodes)
           linked == Link(h, parent, pos, s, right)
           mid == linked.nodes
           g == Len(mid[parent].keys) \div 2
<1>1. PlaceGood(h.nodes, span, level, left, s, right, parent, pos)
  BY PlaceIs
<1>2. /\ parent \in 1 .. L /\ ~h.nodes[parent].is_leaf /\ right \in 1 .. L
      /\ parent # right /\ s \in Nat /\ level[parent] = level[left] + 1
  BY <1>1 DEF PlaceGood
<1>3. Len(h.nodes[parent].children) = Len(h.nodes[parent].keys) + 1
  BY <1>2 DEF Tree, NodeGood, Shaped
<1>4. pos \in 1 .. Len(h.nodes[parent].keys) + 1
  BY DEF Parting
<1>5. /\ LinkGood(linked, h, parent, pos, s, right)
      /\ Tree(linked.nodes, linked.root, span, level, Nil, 0, Nil) /\ Contents(linked.nodes, ref)
  BY RoomyCall
<1> HIDE DEF linked
<1>6. /\ Linked(mid, h.nodes, parent, pos, s, right) /\ linked.root = h.root
      /\ mid[parent].keys = InsertAt(h.nodes[parent].keys, pos, s)
      /\ mid[parent].children = InsertAt(h.nodes[parent].children, pos + 1, right)
  BY <1>5 DEF LinkGood
<1>7. /\ mid \in Seq(NodeType) /\ Len(mid) = L /\ ~mid[parent].is_leaf
      /\ Len(mid[parent].keys) = Len(h.nodes[parent].keys) + 1
      /\ \A m \in 1 .. L : m # parent => mid[m].keys = h.nodes[m].keys
  BY <1>2, <1>6 DEF Linked, Extends
<1>8. Tree(mid, h.root, span, level, Nil, 0, Nil) /\ Contents(mid, ref)
  BY <1>5, <1>6
<1> HIDE DEF mid
<1>9. Len(h.nodes[parent].keys) = MaxKeys /\ MaxKeys \in Nat /\ MaxKeys >= 2
  <2>1. h.nodes \in Seq(NodeType)
    BY DEF HeapType
  <2>2. Len(h.nodes[parent].keys) \in Nat /\ Len(h.nodes[parent].keys) <= MaxKeys
    BY <1>2, <2>1, NodeIs DEF Bounded
  <2> QED BY <2>2, MaxKeysAssumption
<1>10. Len(mid[parent].keys) = MaxKeys + 1 /\ g \in 1 .. Len(mid[parent].keys) - 2
  <2>1. Len(mid[parent].keys) = MaxKeys + 1 /\ Len(mid[parent].keys) \in Nat /\ Len(mid[parent].keys) >= 3
    BY <1>7, <1>9
  <2> QED BY <2>1, HalfIs
<1>11. \A q \in 1 .. Len(mid[parent].children) :
         mid[parent].children[q] \in 1 .. L /\ mid[mid[parent].children[q]].parent = parent
  <2> SUFFICES ASSUME NEW q \in 1 .. Len(mid[parent].children)
               PROVE  mid[parent].children[q] \in 1 .. L /\ mid[mid[parent].children[q]].parent = parent
    OBVIOUS
  <2>1. NodeGood(mid, h.root, span, level, parent)
    BY <1>2, <1>7, <1>8 DEF Tree
  <2>2. q \in 1 .. Len(mid[parent].keys) + 1
    BY <1>7, <2>1 DEF NodeGood, Shaped
  <2>3. ChildGood(mid, span, level, Nil, Nil, parent, q)
    BY <1>2, <1>7, <1>8, <2>2 DEF Tree, ChildrenGood
  <2> QED BY <1>7, <2>3 DEF ChildGood
<1> DEFINE t == mid[parent].keys[g + 1]
<1>12. /\ h.budget = 0 => \E after \in HeapType : ~after.ok /\ c = Return(after)
       /\ h.budget # 0 => \E after \in HeapType :
            /\ after.root = h.root /\ after.ok /\ InternalHalved(after.nodes, mid, parent, g)
            /\ c = Call(after, parent, t, L + 1)
  <2>1. SplitReady(h, parent, pos, s, right, mid, g)
    BY <1>2, <1>3, <1>4, <1>6, <1>11 DEF SplitReady
  <2>2. SplitGood(c, h, mid, parent, g)
    BY <2>1, SplitInternalIs
  <2> HIDE DEF g
  <2> QED BY <2>2 DEF SplitGood
<1>13. CASE h.budget = 0
  <2>1. PICK after \in HeapType : ~after.ok /\ c = Return(after)
    BY <1>12, <1>13
  <2> QED BY <2>1, ReturnIs
<1>14. CASE h.budget # 0
  <2>1. PICK after \in HeapType :
          /\ after.root = h.root /\ after.ok /\ InternalHalved(after.nodes, mid, parent, g)
          /\ c = Call(after, parent, t, L + 1)
    BY <1>12, <1>14
  <2>2. /\ L \in Nat /\ span \in [1 .. L -> SUBSET Nat] /\ level \in [1 .. L -> Nat] /\ h.root \in 1 .. L
    BY LenProperties DEF Tree, Typed
  <2>3. t \in Nat
    <3>1. g + 1 \in 1 .. Len(mid[parent].keys)
      BY <1>9, <1>10
    <3> HIDE DEF g
    <3> QED BY <1>2, <1>7, <3>1, NodeIs
  <2> HIDE DEF g
  <2>4. t = mid[parent].keys[g + 1]
    OBVIOUS
  <2> HIDE DEF t, L
  <2>5. PICK half, height : Halves(half, height, span, level, L, parent, t)
    BY <1>2, <2>2, <2>3, SpansHalved
  <2>6. Tree(after.nodes, h.root, half, height, parent, t, L + 1) /\ SameLeaves(after.nodes, mid)
    <3>1. parent \in 1 .. Len(mid) /\ L = Len(mid)
      BY <1>2, <1>7
    <3> QED BY <1>7, <1>8, <1>10, <2>1, <2>4, <2>5, <3>1, InternalHalvedTree
  <2>7. Contents(after.nodes, ref)
    BY <1>8, <2>6, SameLeavesContents
  <2>8. Bounded(after.nodes)
    <3>1. /\ Len(after.nodes) = L + 1 /\ Len(after.nodes[parent].keys) = g
          /\ Len(after.nodes[L + 1].keys) = Len(mid[parent].keys) - (g + 1)
          /\ \A m \in 1 .. L : m # parent => after.nodes[m].keys = h.nodes[m].keys
      BY <1>7, <2>1 DEF InternalHalved, Starts, Ends
    <3>2. g <= MaxKeys /\ Len(mid[parent].keys) - (g + 1) <= MaxKeys
      BY <1>9, <1>10
    <3>3. \A m \in 1 .. L + 1 : m \in 1 .. L \/ m = L + 1
      BY <2>2
    <3>4. \A m \in 1 .. L : Len(h.nodes[m].keys) <= MaxKeys
      BY DEF Bounded, L
    <3> QED BY <3>1, <3>2, <3>3, <3>4 DEF Bounded
  <2>9. height[parent] = level[left] + 1 /\ height[h.root] = level[h.root]
    BY <1>2, <2>2, <2>5 DEF Halves, L
  <2>10. c \in CallType /\ c.heap = after /\ c.left = parent /\ c.key = t /\ c.right = L + 1
    <3>1. parent \in Nat /\ L + 1 \in Nat
      BY <1>2, <2>2 DEF L
    <3>2. c = Call(after, parent, t, L + 1)
      BY <2>1
    <3> QED BY <2>3, <3>1, <3>2 DEF Call, CallType
  <2>11. parent # Nil
    BY <1>2 DEF Nil
  <2>12. Climbs(c, level[left] + 1, level[h.root], ref)
    BY <2>1, <2>6, <2>7, <2>8, <2>9, <2>10, <2>11 DEF Climbs
  <2> QED BY <2>10, <2>12
<1> QED BY <1>13, <1>14

\* One call of bptree_insert_into_parent ends the work or moves it one level up.
LEMMA NextCallIs ==
  ASSUME NEW c \in CallType, NEW ref, NEW k, NEW r, Climbs(c, k, r, ref),
         NEW d, d = IntoParent(c.heap, c.left, c.key, c.right)
  PROVE  d \in CallType /\ (Ended(d, ref) \/ Climbs(d, k + 1, r, ref))
<1> DEFINE h == c.heap
           left == c.left
           s == c.key
           right == c.right
           parent == h.nodes[left].parent
           pos == CHOOSE i \in 1 .. Len(h.nodes[parent].children) : h.nodes[parent].children[i] = left
<1>1. h \in HeapType /\ left # Nil /\ h.ok /\ Contents(h.nodes, ref) /\ Bounded(h.nodes)
  BY DEF CallType, Climbs
<1>2. PICK span, level : /\ Tree(h.nodes, h.root, span, level, left, s, right)
                         /\ level[left] = k /\ level[h.root] = r
  BY DEF Climbs
<1>3. d = IntoParent(h, left, s, right)
  OBVIOUS
<1> HIDE DEF h, left, s, right
<1>4. CASE left = h.root
  BY <1>1, <1>2, <1>3, <1>4, RootCall
<1>5. CASE left # h.root
  <2>1. /\ parent \in 1 .. Len(h.nodes) /\ parent # Nil /\ left \in ToSet(h.nodes[parent].children)
        /\ Len(h.nodes[parent].children) = Len(h.nodes[parent].keys) + 1
        /\ Parting(h.nodes, left, parent, pos)
    BY <1>1, <1>2, <1>5, ParentIs
  <2>2. d = IF Len(h.nodes[parent].keys) < MaxKeys THEN Return(Link(h, parent, pos, s, right))
            ELSE SplitInternal(h, parent, pos, s, right)
    BY <1>3, <2>1 DEF IntoParent, Link
  <2> HIDE DEF parent, pos
  <2>3. CASE Len(h.nodes[parent].keys) < MaxKeys
    <3> DEFINE after == Link(h, parent, pos, s, right)
    <3>1. /\ LinkGood(after, h, parent, pos, s, right)
          /\ Tree(after.nodes, after.root, span, level, Nil, 0, Nil) /\ Contents(after.nodes, ref)
      BY <1>1, <1>2, <1>5, <2>1, RoomyCall
    <3>2. d = Return(after)
      BY <2>2, <2>3
    <3> HIDE DEF after
    <3>3. Bounded(after.nodes)
      <4>1. /\ Len(after.nodes) = Len(h.nodes)
            /\ Len(after.nodes[parent].keys) = Len(h.nodes[parent].keys) + 1
            /\ \A m \in 1 .. Len(h.nodes) : m # parent => after.nodes[m].keys = h.nodes[m].keys
        BY <3>1 DEF LinkGood, Linked, Extends
      <4>2. \A m \in 1 .. Len(h.nodes) : Len(h.nodes[m].keys) <= MaxKeys
        BY <1>1 DEF Bounded
      <4>3. Len(h.nodes[parent].keys) + 1 <= MaxKeys
        <5>1. h.nodes \in Seq(NodeType)
          BY <1>1 DEF HeapType
        <5>2. Len(h.nodes[parent].keys) \in Nat
          BY <2>1, <5>1, NodeIs
        <5> QED BY <2>3, <5>2, MaxKeysAssumption
      <4> QED BY <4>1, <4>2, <4>3 DEF Bounded
    <3>4. WholeTree(after, ref) /\ after \in HeapType
      BY <3>1, <3>3 DEF WholeTree, LinkGood
    <3> QED BY <3>2, <3>4, ReturnIs
  <2>4. CASE ~(Len(h.nodes[parent].keys) < MaxKeys)
    <3>1. d = SplitInternal(h, parent, pos, s, right)
      BY <2>2, <2>4
    <3>2. d \in CallType /\ (Ended(d, ref) \/ Climbs(d, level[left] + 1, level[h.root], ref))
      BY <1>1, <1>2, <1>5, <2>1, <2>4, <3>1, FullCall
    <3> QED BY <1>2, <3>2
  <2> QED BY <2>3, <2>4
<1> QED BY <1>4, <1>5

\* The equation of the recursive function in InsertIntoParent
NextCall(c) == IF c.left = Nil THEN c ELSE IntoParent(c.heap, c.left, c.key, c.right)
Calls(f, h, left, key, right) ==
  f = [k \in 0 .. Len(h.nodes) |-> IF k = 0 THEN Call(h, left, key, right)
                                   ELSE NextCall(f[k - 1])]

\* A call of an insertion into a tree whose root has the level r
Sound(c, r, ref) == c \in CallType /\ (Ended(c, ref) \/ \E k \in Nat : Climbs(c, k, r, ref))

LEMMA SoundNext ==
  ASSUME NEW c, NEW r, NEW ref, Sound(c, r, ref)
  PROVE  /\ Sound(NextCall(c), r, ref) /\ (Ended(c, ref) => Ended(NextCall(c), ref))
         /\ \A k \in Nat : Climbs(c, k, r, ref) =>
              Ended(NextCall(c), ref) \/ Climbs(NextCall(c), k + 1, r, ref)
<1>1. c \in CallType
  BY DEF Sound
<1>2. CASE c.left = Nil
  <2>1. NextCall(c) = c
    BY <1>2 DEF NextCall
  <2>2. \A k \in Nat : ~Climbs(c, k, r, ref)
    BY <1>2 DEF Climbs
  <2> QED BY <2>1, <2>2 DEF Sound
<1>3. CASE c.left # Nil
  <2>1. NextCall(c) = IntoParent(c.heap, c.left, c.key, c.right)
    BY <1>3 DEF NextCall
  <2>2. ~Ended(c, ref)
    BY <1>3 DEF Ended
  <2>3. \A k \in Nat : Climbs(c, k, r, ref) =>
          NextCall(c) \in CallType /\ (Ended(NextCall(c), ref) \/ Climbs(NextCall(c), k + 1, r, ref))
    BY <1>1, <2>1, NextCallIs
  <2>4. PICK k \in Nat : Climbs(c, k, r, ref)
    BY <2>2 DEF Sound
  <2>5. k + 1 \in Nat
    OBVIOUS
  <2> QED BY <2>2, <2>3, <2>4, <2>5 DEF Sound
<1> QED BY <1>2, <1>3

LEMMA CallsExist ==
  ASSUME NEW h \in HeapType, NEW left, NEW key, NEW right, NEW r, NEW ref,
         Sound(Call(h, left, key, right), r, ref)
  PROVE  \E f : Calls(f, h, left, key, right)
<1> DEFINE L == Len(h.nodes)
           c0 == Call(h, left, key, right)
           S == {c \in CallType : Sound(c, r, ref)}
           step == [k \in 1 .. L |-> [c \in S |-> NextCall(c)]]
<1>1. L \in Nat
  BY LenProperties DEF HeapType
<1>2. \A c \in S : NextCall(c) \in S
  <2>1. \A c : Sound(c, r, ref) => c \in CallType
    BY DEF Sound
  <2> QED BY <2>1, SoundNext
<1>3. c0 \in S
  BY DEF Sound
<1> HIDE DEF c0, S
<1>4. step \in Steps(L, S)
  BY <1>2 DEF Steps
<1> HIDE DEF step
<1>5. PICK f : Follows(f, c0, L, S, step)
  BY <1>1, <1>3, <1>4, Recursion
<1>6. f \in [0 .. L -> S] /\ f[0] = c0 /\ \A k \in 0 .. L - 1 : f[k + 1] = step[k + 1][f[k]]
  BY <1>5 DEF Follows
<1>7. \A k \in 0 .. L : f[k] = IF k = 0 THEN c0 ELSE NextCall(f[k - 1])
  <2> SUFFICES ASSUME NEW k \in 0 .. L, k # 0 PROVE f[k] = NextCall(f[k - 1])
    BY <1>6
  <2>1. k - 1 \in 0 .. L - 1 /\ (k - 1) + 1 = k /\ k \in 1 .. L /\ k - 1 \in 0 .. L
    BY <1>1
  <2>2. f[k] = step[k][f[k - 1]] /\ f[k - 1] \in S
    BY <1>6, <2>1
  <2> QED BY <2>1, <2>2 DEF step
<1>8. Calls(f, h, left, key, right)
  BY <1>6, <1>7 DEF Calls, c0
<1> QED BY <1>8

\* bptree_insert_into_parent ends at the root: it leaves a whole tree, or has failed.
LEMMA InsertIntoParentIs ==
  ASSUME NEW h \in HeapType, NEW left, NEW key, NEW right, NEW r, NEW ref,
         Call(h, left, key, right) \in CallType, Climbs(Call(h, left, key, right), 0, r, ref),
         NEW after, after = InsertIntoParent(h, left, key, right)
  PROVE  after \in HeapType /\ (after.ok => WholeTree(after, ref))
<1> DEFINE L == Len(h.nodes)
           c0 == Call(h, left, key, right)
           f == CHOOSE g : Calls(g, h, left, key, right)
           S == {k \in 0 .. L : Sound(f[k], r, ref) /\ (Ended(f[k], ref) \/ Climbs(f[k], k, r, ref))}
<1>1. after = f[L].heap
  BY DEF InsertIntoParent, Calls, NextCall
<1>2. Sound(c0, r, ref)
  BY DEF Sound
<1>3. Calls(f, h, left, key, right)
  BY <1>2, CallsExist
<1> HIDE DEF f
<1>4. L \in Nat
  BY LenProperties DEF HeapType
<1>5. f[0] = c0 /\ \A k \in 1 .. L : f[k] = NextCall(f[k - 1])
  <2>1. \A k \in 0 .. L : f[k] = IF k = 0 THEN c0 ELSE NextCall(f[k - 1])
    BY <1>3 DEF Calls
  <2> QED BY <1>4, <2>1
<1>6. r \in Nat /\ r < L
  <2>1. c0.heap = h
    BY DEF Call
  <2>2. PICK span, level : Tree(h.nodes, h.root, span, level, c0.left, c0.key, c0.right) /\ level[h.root] = r
    BY <2>1 DEF Climbs
  <2> QED BY <2>2 DEF Tree, Typed
<1>7. 0 \in S
  BY <1>2, <1>4, <1>5
<1> HIDE DEF c0
<1>8. ASSUME NEW k \in 0 .. L - 1, k \in S PROVE k + 1 \in S
  <2>1. k + 1 \in 1 .. L /\ k + 1 \in 0 .. L /\ (k + 1) - 1 = k /\ k \in Nat
    BY <1>4
  <2>2. Sound(f[k], r, ref) /\ (Ended(f[k], ref) \/ Climbs(f[k], k, r, ref))
    BY <1>8
  <2>3. f[k + 1] = NextCall(f[k])
    BY <1>5, <2>1
  <2>4. Sound(f[k + 1], r, ref) /\ (Ended(f[k + 1], ref) \/ Climbs(f[k + 1], k + 1, r, ref))
    <3> DEFINE c == f[k]
               d == f[k + 1]
    <3>1. Sound(c, r, ref) /\ (Ended(c, ref) \/ Climbs(c, k, r, ref)) /\ d = NextCall(c) /\ k \in Nat
      BY <2>1, <2>2, <2>3
    <3> HIDE DEF c, d
    <3>2. Sound(d, r, ref) /\ (Ended(d, ref) \/ Climbs(d, k + 1, r, ref))
      BY <3>1, SoundNext
    <3> QED BY <3>2 DEF d
  <2> QED BY <2>1, <2>4
<1>9. L \in S
  <2> HIDE DEF S, L
  <2>1. \A k \in 0 .. L : k \in S
    BY <1>4, <1>7, <1>8, IntervalInduction
  <2> QED BY <1>4, <2>1
<1>10. f[L] \in CallType /\ (Ended(f[L], ref) \/ Climbs(f[L], L, r, ref))
  BY <1>9 DEF Sound
<1>11. ~Climbs(f[L], L, r, ref)
  <2> DEFINE c == f[L]
  <2> SUFFICES ASSUME Climbs(c, L, r, ref) PROVE FALSE
    OBVIOUS
  <2> HIDE DEF c
  <2>1. PICK span, level : /\ Tree(c.heap.nodes, c.heap.root, span, level, c.left, c.key, c.right)
                           /\ level[c.left] = L /\ level[c.heap.root] = r /\ c.left # Nil
    BY DEF Climbs
  <2>2. c.left \in 1 .. Len(c.heap.nodes)
    BY <2>1 DEF Tree, PendingGood
  <2>3. level[c.left] <= level[c.heap.root]
    BY <2>1, <2>2 DEF Tree, NodeGood
  <2> HIDE DEF L
  <2> QED BY <1>4, <1>6, <2>1, <2>3
<1>12. f[L] \in CallType /\ Ended(f[L], ref)
  BY <1>10, <1>11
<1> QED BY <1>1, <1>12 DEF Ended, CallType

-----------------------------------------------------------------------------
(* bptree_insert *)

\* What the index is between two insertions
Good(h, ref) == IF h.root = Nil THEN h.nodes = <<>> /\ DOMAIN ref = {} ELSE WholeTree(h, ref)

\* after is a tree to which (key, row) has been added, or memory has run out.
InsertGood(after, ref, key, row) ==
  after.ok => \A new : Recorded(new, ref, key, row) => after \in HeapType /\ WholeTree(after, new)

\* A tree of one leaf with one key
OneLeaf(nodes, key, row) ==
  /\ nodes \in Seq(NodeType) /\ Len(nodes) = 1
  /\ nodes[1].is_leaf /\ nodes[1].parent = Nil /\ nodes[1].next = Nil
  /\ Len(nodes[1].keys) = 1 /\ nodes[1].keys[1] = key
  /\ Len(nodes[1].row_indices) = 1 /\ nodes[1].row_indices[1] = row

LEMMA OneLeafTree ==
  ASSUME NEW nodes, NEW key \in Nat, NEW row, OneLeaf(nodes, key, row),
         NEW ref, DOMAIN ref = {}, NEW new, Recorded(new, ref, key, row)
  PROVE  /\ \E span, level : Tree(nodes, 1, span, level, Nil, 0, Nil)
         /\ Contents(nodes, new) /\ Bounded(nodes)
<1> DEFINE span == [n \in 1 .. 1 |-> Nat]
           level == [n \in 1 .. 1 |-> 0]
<1>1. /\ nodes \in Seq(NodeType) /\ Len(nodes) = 1
      /\ nodes[1].is_leaf /\ nodes[1].parent = Nil /\ nodes[1].next = Nil
      /\ Len(nodes[1].keys) = 1 /\ nodes[1].keys[1] = key
      /\ Len(nodes[1].row_indices) = 1 /\ nodes[1].row_indices[1] = row
  BY DEF OneLeaf
<1>2. (\A n \in 1 .. 1 : n = 1) /\ 1 \in 1 .. 1
  OBVIOUS
<1>3. /\ span \in [1 .. 1 -> SUBSET Nat] /\ level \in [1 .. 1 -> Nat] /\ span[1] = Nat /\ level[1] = 0
  OBVIOUS
<1> HIDE DEF span, level
<1>4. LeavesOf(nodes) = {1}
  BY <1>1, <1>2 DEF LeavesOf
<1>5. Typed(nodes, 1, span, level)
  BY <1>1, <1>2, <1>3 DEF Typed
<1>6. Ascending(nodes[1].keys)
  <2>1. \A i, j \in 1 .. 1 : ~(i < j)
    OBVIOUS
  <2> QED BY <1>1, <2>1 DEF Ascending
<1>7. Shaped(nodes[1])
  BY <1>1, <1>6 DEF Shaped
<1>8. NodeGood(nodes, 1, span, level, 1)
  BY <1>1, <1>2, <1>3, <1>7 DEF NodeGood
<1>9. ChildrenGood(nodes, span, level, Nil, Nil) /\ ParentsGood(nodes, 1, Nil)
  BY <1>1, <1>2 DEF ChildrenGood, ParentsGood
<1>10. RootGood(nodes, 1, span, Nil, Nil)
  BY <1>1, <1>3 DEF RootGood, Covers, Nil
<1>11. LeavesGood(nodes, span)
  BY <1>1, <1>4 DEF LeavesGood, ChainGood
<1>12. PendingGood(nodes, span, level, Nil, 0, Nil)
  BY DEF PendingGood
<1>13. \A n \in 1 .. Len(nodes) : NodeGood(nodes, 1, span, level, n)
  BY <1>1, <1>2, <1>8
<1>14. Tree(nodes, 1, span, level, Nil, 0, Nil)
  BY <1>5, <1>9, <1>10, <1>11, <1>12, <1>13 DEF Tree
<1>15. Contents(nodes, new)
  BY <1>1, <1>2, <1>4 DEF Contents, Recorded
<1>16. Bounded(nodes)
  <2>1. 1 <= MaxKeys
    BY MaxKeysAssumption
  <2> QED BY <1>1, <1>2, <2>1 DEF Bounded
<1> QED BY <1>14, <1>15, <1>16

LEMMA RootSet ==
  ASSUME NEW h \in HeapType, NEW r \in Nat
  PROVE  /\ [h EXCEPT !.root = r] \in HeapType
         /\ [h EXCEPT !.root = r].root = r /\ [h EXCEPT !.root = r].nodes = h.nodes
  BY DEF HeapType

\* The node of the first insertion
LEMMA FirstNode ==
  ASSUME NEW key \in Nat, NEW row \in Nat, NEW leaf, leaf = Leaf(<<key>>, <<row>>)
  PROVE  /\ leaf \in NodeType /\ leaf.is_leaf /\ leaf.parent = Nil /\ leaf.next = Nil
         /\ Len(leaf.keys) = 1 /\ leaf.keys[1] = key
         /\ Len(leaf.row_indices) = 1 /\ leaf.row_indices[1] = row
<1> DEFINE keys == <<key>>
           rows == <<row>>
<1>1. /\ keys \in Seq(Nat) /\ rows \in Seq(Nat) /\ <<>> \in Seq(Nat) /\ Nil \in Nat /\ Len(keys) = 1
      /\ keys[1] = key /\ Len(rows) = 1 /\ rows[1] = row
  BY DEF Nil
<1>2. leaf = Leaf(keys, rows)
  OBVIOUS
<1> HIDE DEF keys, rows
<1>3. /\ leaf \in NodeType /\ leaf.is_leaf /\ leaf.keys = keys /\ leaf.row_indices = rows
      /\ leaf.parent = Nil /\ leaf.next = Nil
  BY <1>1, <1>2 DEF Leaf, NodeType
<1> QED BY <1>1, <1>3

\* The first insertion
LEMMA FirstLeaf ==
  ASSUME NEW h \in HeapType, NEW key \in Nat, NEW row \in Nat, NEW ref, DOMAIN ref = {},
         NEW leaf, leaf = Leaf(<<key>>, <<row>>), NEW first, first = Create(h, leaf)
  PROVE  Len(h.nodes) = 0 /\ first.ok => InsertGood([first EXCEPT !.root = Len(first.nodes)], ref, key, row)
<1> DEFINE after == [first EXCEPT !.root = Len(first.nodes)]
           node == leaf
<1>1. /\ node \in NodeType /\ node.is_leaf /\ node.parent = Nil /\ node.next = Nil
      /\ Len(node.keys) = 1 /\ node.keys[1] = key
      /\ Len(node.row_indices) = 1 /\ node.row_indices[1] = row
  BY FirstNode
<1>2. first = Create(h, node)
  OBVIOUS
<1> HIDE DEF node
<1>3. /\ first \in HeapType /\ (h.budget = 0 => ~first.ok)
      /\ h.budget # 0 => Len(first.nodes) = Len(h.nodes) + 1 /\ first.nodes[Len(h.nodes) + 1] = node
  BY <1>1, <1>2, CreateIs
<1> SUFFICES ASSUME Len(h.nodes) = 0, first.ok PROVE InsertGood(after, ref, key, row)
  OBVIOUS
<1>4. Len(first.nodes) = 1 /\ first.nodes[1] = node
  <2>1. Len(h.nodes) + 1 = 1
    OBVIOUS
  <2> QED BY <1>3, <2>1
<1>5. after = [first EXCEPT !.root = 1]
  BY <1>4
<1> HIDE DEF after
<1>6. after \in HeapType /\ after.root = 1 /\ after.nodes = first.nodes
  BY <1>3, <1>5, RootSet
<1>7. OneLeaf(after.nodes, key, row)
  <2>1. first.nodes \in Seq(NodeType)
    BY <1>3 DEF HeapType
  <2> QED BY <1>1, <1>4, <1>6, <2>1 DEF OneLeaf
<1>8. \A new : Recorded(new, ref, key, row) => WholeTree(after, new)
  BY <1>6, <1>7, OneLeafTree DEF WholeTree
<1> QED BY <1>6, <1>8 DEF InsertGood

\* A whole tree with a leaf where a key that is not in it belongs
Awaits(h, span, level, n, ref, key) ==
  /\ Tree(h.nodes, h.root, span, level, Nil, 0, Nil) /\ n \in LeavesOf(h.nodes) /\ key \in span[n]
  /\ Contents(h.nodes, ref) /\ key \notin DOMAIN ref /\ Bounded(h.nodes)

\* mid is h with the key in the leaf n.
Took(mid, h, span, level, n, ref, key, row) ==
  /\ mid \in HeapType /\ mid.root = h.root /\ OthersKept(mid.nodes, h.nodes, n)
  /\ n \in LeavesOf(mid.nodes) /\ Len(mid.nodes[n].keys) = Len(h.nodes[n].keys) + 1
  /\ Tree(mid.nodes, mid.root, span, level, Nil, 0, Nil)
  /\ \A new : Recorded(new, ref, key, row) => Contents(mid.nodes, new)

LEMMA LeafShape ==
  ASSUME NEW h, NEW span, NEW level, NEW n, NEW ref, NEW key, Awaits(h, span, level, n, ref, key)
  PROVE  /\ n \in 1 .. Len(h.nodes) /\ h.nodes[n].is_leaf /\ h.nodes \in Seq(NodeType)
         /\ Ascending(h.nodes[n].keys) /\ Len(h.nodes[n].row_indices) = Len(h.nodes[n].keys)
         /\ Len(h.nodes[n].keys) \in Nat /\ Len(h.nodes[n].keys) <= MaxKeys
<1>1. n \in 1 .. Len(h.nodes) /\ h.nodes[n].is_leaf /\ h.nodes \in Seq(NodeType)
  BY DEF Awaits, LeavesOf, Tree, Typed
<1>2. Shaped(h.nodes[n])
  BY <1>1 DEF Awaits, Tree, NodeGood
<1> QED BY <1>1, <1>2, NodeIs DEF Shaped, Awaits, Bounded

LEMMA TookIs ==
  ASSUME NEW h \in HeapType, NEW span, NEW level, NEW n, NEW ref, NEW key \in Nat, NEW row \in Nat,
         Awaits(h, span, level, n, ref, key), NEW mid, mid = InsertIntoLeaf(h, n, key, row)
  PROVE  Took(mid, h, span, level, n, ref, key, row)
<1>1. /\ Tree(h.nodes, h.root, span, level, Nil, 0, Nil) /\ n \in LeavesOf(h.nodes) /\ key \in span[n]
      /\ Contents(h.nodes, ref) /\ key \notin DOMAIN ref
  BY DEF Awaits
<1>2. /\ n \in 1 .. Len(h.nodes) /\ Ascending(h.nodes[n].keys)
      /\ Len(h.nodes[n].row_indices) = Len(h.nodes[n].keys)
  BY LeafShape
<1>3. /\ mid \in HeapType /\ mid.root = h.root
      /\ OthersKept(mid.nodes, h.nodes, n) /\ LeafTook(mid.nodes, h.nodes, n, key, row)
  <2>1. LeafInserted(mid, h, n, key, row)
    BY <1>2, InsertIntoLeafIs
  <2> QED BY <2>1 DEF LeafInserted
<1>4. \A k \in 1 .. Len(h.nodes[n].keys) : h.nodes[n].keys[k] # key
  BY <1>1 DEF Contents
<1>5. NodeGood(mid.nodes, h.root, span, level, n) /\ Len(mid.nodes[n].keys) = Len(h.nodes[n].keys) + 1
  <2> DEFINE nodes == h.nodes
             new == mid.nodes
             root == h.root
  <2>1. /\ Tree(nodes, root, span, level, Nil, 0, Nil) /\ n \in LeavesOf(nodes) /\ key \in span[n]
        /\ \A k \in 1 .. Len(nodes[n].keys) : nodes[n].keys[k] # key
        /\ OthersKept(new, nodes, n) /\ LeafTook(new, nodes, n, key, row)
    BY <1>1, <1>3, <1>4
  <2> HIDE DEF nodes, new, root
  <2>2. NodeGood(new, root, span, level, n) /\ Len(new[n].keys) = Len(nodes[n].keys) + 1
    BY <2>1, LeafTakes
  <2> QED BY <2>2 DEF nodes, new, root
<1>6. Tree(mid.nodes, h.root, span, level, Nil, 0, Nil) /\ LeavesOf(mid.nodes) = LeavesOf(h.nodes)
  BY <1>1, <1>3, <1>5, LeafTakesTree
<1>7. \A new : Recorded(new, ref, key, row) => Contents(mid.nodes, new)
  BY <1>1, <1>3, LeafTakesContents
<1> QED BY <1>1, <1>3, <1>5, <1>6, <1>7 DEF Took

\* The insertion into a leaf with room
LEMMA RoomyLeaf ==
  ASSUME NEW h \in HeapType, NEW span, NEW level, NEW n, NEW ref, NEW key \in Nat, NEW row \in Nat,
         Awaits(h, span, level, n, ref, key), Len(h.nodes[n].keys) < MaxKeys,
         NEW after, after = InsertIntoLeaf(h, n, key, row)
  PROVE  InsertGood(after, ref, key, row)
<1>1. Took(after, h, span, level, n, ref, key, row)
  BY TookIs
<1>2. /\ after \in HeapType /\ Tree(after.nodes, after.root, span, level, Nil, 0, Nil)
      /\ \A new : Recorded(new, ref, key, row) => Contents(after.nodes, new)
  BY <1>1 DEF Took
<1>3. Bounded(after.nodes)
  <2>1. /\ Len(after.nodes) = Len(h.nodes) /\ Len(after.nodes[n].keys) = Len(h.nodes[n].keys) + 1
        /\ \A m \in 1 .. Len(h.nodes) : m # n => after.nodes[m] = h.nodes[m]
    BY <1>1 DEF Took, OthersKept
  <2>2. \A m \in 1 .. Len(h.nodes) : Len(h.nodes[m].keys) <= MaxKeys
    BY DEF Awaits, Bounded
  <2>3. Len(h.nodes[n].keys) + 1 <= MaxKeys
    <3>1. Len(h.nodes[n].keys) \in Nat
      BY LeafShape
    <3> QED BY <3>1, MaxKeysAssumption
  <2> QED BY <2>1, <2>2, <2>3 DEF Bounded
<1>4. \A new : Recorded(new, ref, key, row) => WholeTree(after, new)
  BY <1>2, <1>3 DEF WholeTree
<1> QED BY <1>2, <1>4 DEF InsertGood

\* The full leaf n of h, with the key in it, has been halved.
FullHalved(split, h, mid, n, half, s, right) ==
  /\ ~(Len(h.nodes[n].keys) < MaxKeys) /\ half = Len(mid.nodes[n].keys) \div 2
  /\ split \in HeapType /\ split.root = h.root /\ split.ok /\ LeafHalved(split.nodes, mid.nodes, n, half)
  /\ s = mid.nodes[n].keys[half + 1] /\ right = Len(h.nodes) + 1

\* The halved leaf leaves a call at the lowest level.
LEMMA LeafCall ==
  ASSUME NEW h \in HeapType, NEW span, NEW level, NEW n, NEW ref, NEW key \in Nat, NEW row \in Nat,
         Awaits(h, span, level, n, ref, key), NEW mid, Took(mid, h, span, level, n, ref, key, row),
         NEW split, NEW half, NEW s, NEW right, FullHalved(split, h, mid, n, half, s, right),
         NEW new, Recorded(new, ref, key, row), NEW c, c = Call(split, n, s, right)
  PROVE  c \in CallType /\ Climbs(c, 0, level[h.root], new)
<1> DEFINE L == Len(h.nodes)
           nodes == mid.nodes
<1>1. /\ n \in 1 .. L /\ h.nodes \in Seq(NodeType) /\ Len(h.nodes[n].keys) \in Nat
      /\ Len(h.nodes[n].keys) <= MaxKeys /\ L \in Nat
  BY LeafShape, LenProperties
<1>2. /\ Tree(nodes, h.root, span, level, Nil, 0, Nil) /\ n \in LeavesOf(nodes) /\ Contents(nodes, new)
      /\ Len(nodes) = L /\ nodes \in Seq(NodeType)
      /\ Len(nodes[n].keys) = Len(h.nodes[n].keys) + 1
      /\ \A m \in 1 .. L : m # n => nodes[m] = h.nodes[m]
  BY DEF Took, OthersKept
<1>3. /\ LeafHalved(split.nodes, nodes, n, half) /\ s = nodes[n].keys[half + 1]
      /\ split \in HeapType /\ split.root = h.root /\ split.ok
  BY DEF FullHalved
<1> HIDE DEF nodes
<1>4. Len(nodes[n].keys) = MaxKeys + 1 /\ MaxKeys \in Nat /\ MaxKeys >= 2
  BY <1>1, <1>2, MaxKeysAssumption DEF FullHalved
<1>5. half \in 1 .. Len(nodes[n].keys) - 1
  <2>1. Len(nodes[n].keys) \in Nat /\ Len(nodes[n].keys) >= 2
    BY <1>4
  <2>2. half = Len(nodes[n].keys) \div 2
    BY DEF FullHalved, nodes
  <2> QED BY <2>1, <2>2, HalfIs
<1> HIDE DEF L
<1>6. s \in Nat
  <2>1. half + 1 \in 1 .. Len(nodes[n].keys)
    BY <1>4, <1>5
  <2> QED BY <1>1, <1>2, <1>3, <2>1, NodeIs
<1>7. /\ span \in [1 .. L -> SUBSET Nat] /\ level \in [1 .. L -> Nat] /\ h.root \in 1 .. L
      /\ level[n] = 0
  BY <1>1, <1>2 DEF Tree, Typed, NodeGood, LeavesOf
<1>8. PICK part, height : Halves(part, height, span, level, L, n, s)
  BY <1>1, <1>6, <1>7, SpansHalved
<1>9. Tree(split.nodes, h.root, part, height, n, s, L + 1)
  BY <1>2, <1>3, <1>5, <1>8, LeafHalvedTree
<1>10. Contents(split.nodes, new)
  BY <1>2, <1>3, <1>5, LeafHalvedContents
<1>11. Bounded(split.nodes)
  <2>1. /\ Len(split.nodes) = L + 1 /\ Len(split.nodes[n].keys) = half
        /\ Len(split.nodes[L + 1].keys) = Len(nodes[n].keys) - half
        /\ \A m \in 1 .. L : m # n => split.nodes[m] = h.nodes[m]
    BY <1>2, <1>3 DEF LeafHalved, Starts, Ends
  <2>2. half <= MaxKeys /\ Len(nodes[n].keys) - half <= MaxKeys
    BY <1>4, <1>5
  <2>3. \A m \in 1 .. L + 1 : m \in 1 .. L \/ m = L + 1
    BY <1>1
  <2>4. \A m \in 1 .. L : Len(h.nodes[m].keys) <= MaxKeys
    BY DEF Awaits, Bounded, L
  <2> QED BY <2>1, <2>2, <2>3, <2>4 DEF Bounded
<1>12. height[n] = 0 /\ height[h.root] = level[h.root]
  BY <1>1, <1>7, <1>8 DEF Halves
<1>13. c \in CallType /\ c.heap = split /\ c.left = n /\ c.key = s /\ c.right = L + 1
  <2>1. n \in Nat /\ right = L + 1 /\ L + 1 \in Nat
    BY <1>1 DEF L, FullHalved
  <2>2. split \in HeapType /\ right \in Nat
    BY <1>3, <2>1
  <2>3. c \in CallType /\ c.heap = split /\ c.left = n /\ c.key = s /\ c.right = right
    <3>1. n \in Nat /\ s \in Nat
      BY <1>6, <2>1
    <3> QED BY <2>2, <3>1 DEF Call, CallType
  <2> QED BY <2>1, <2>3
<1>14. n # Nil
  BY <1>1 DEF Nil
<1>15. Climbs(c, 0, level[h.root], new)
  <2>1. c.left # Nil /\ c.heap.ok /\ Contents(c.heap.nodes, new) /\ Bounded(c.heap.nodes)
    BY <1>3, <1>10, <1>11, <1>13, <1>14
  <2>2. c.heap.root = h.root
    BY <1>3, <1>13
  <2>3. /\ Tree(c.heap.nodes, c.heap.root, part, height, c.left, c.key, c.right)
        /\ height[c.left] = 0 /\ height[c.heap.root] = level[h.root]
    BY <1>9, <1>12, <1>13, <2>2
  <2> QED BY <2>1, <2>3 DEF Climbs
<1> QED BY <1>13, <1>15

\* The insertion into a full leaf
LEMMA FullLeaf ==
  ASSUME NEW h \in HeapType, NEW span, NEW level, NEW n, NEW ref, NEW key \in Nat, NEW row \in Nat,
         Awaits(h, span, level, n, ref, key), ~(Len(h.nodes[n].keys) < MaxKeys), h.ok,
         NEW after, after = SplitLeaf(h, n, key, row)
  PROVE  InsertGood(after, ref, key, row)
<1> DEFINE mid == InsertIntoLeaf(h, n, key, row)
           half == Len(mid.nodes[n].keys) \div 2
           s == mid.nodes[n].keys[half + 1]
<1>1. Took(mid, h, span, level, n, ref, key, row)
  BY TookIs
<1>2. /\ n \in 1 .. Len(h.nodes) /\ h.nodes[n].is_leaf
      /\ Ascending(h.nodes[n].keys) /\ Len(h.nodes[n].row_indices) = Len(h.nodes[n].keys)
  BY LeafShape
<1>3. /\ h.budget = 0 => ~after.ok
      /\ h.budget # 0 => \E split \in HeapType :
           /\ split.root = h.root /\ split.ok /\ LeafHalved(split.nodes, mid.nodes, n, half)
           /\ after = InsertIntoParent(split, n, s, Len(h.nodes) + 1)
  <2> DEFINE nodes == mid.nodes
             g == half
  <2>1. nodes = InsertIntoLeaf(h, n, key, row).nodes /\ g = Len(nodes[n].keys) \div 2
    OBVIOUS
  <2> HIDE DEF nodes, g
  <2>2. /\ h.budget = 0 => ~after.ok
        /\ h.budget # 0 => \E split \in HeapType :
             /\ split.root = h.root /\ split.ok /\ LeafHalved(split.nodes, nodes, n, g)
             /\ after = InsertIntoParent(split, n, nodes[n].keys[g + 1], Len(h.nodes) + 1)
    <3>1. LeafSplitGood(after, h, nodes, n, g)
      BY <1>2, <2>1, SplitLeafIs
    <3> QED BY <3>1 DEF LeafSplitGood
  <2> QED BY <2>2 DEF nodes, g
<1> HIDE DEF mid
<1>4. half = Len(mid.nodes[n].keys) \div 2 /\ s = mid.nodes[n].keys[half + 1]
  OBVIOUS
<1> HIDE DEF half, s
<1>5. CASE h.budget = 0
  BY <1>3, <1>5 DEF InsertGood
<1>6. CASE h.budget # 0
  <2>1. PICK split \in HeapType :
          /\ split.root = h.root /\ split.ok /\ LeafHalved(split.nodes, mid.nodes, n, half)
          /\ after = InsertIntoParent(split, n, s, Len(h.nodes) + 1)
    BY <1>3, <1>6
  <2>2. ASSUME NEW new, Recorded(new, ref, key, row)
        PROVE  after \in HeapType /\ (after.ok => WholeTree(after, new))
    <3> DEFINE right == Len(h.nodes) + 1
    <3>1. FullHalved(split, h, mid, n, half, s, right)
      BY <1>4, <2>1 DEF FullHalved
    <3>2. after = InsertIntoParent(split, n, s, right)
      BY <2>1
    <3> HIDE DEF right
    <3>3. /\ Call(split, n, s, right) \in CallType
          /\ Climbs(Call(split, n, s, right), 0, level[h.root], new)
      BY <1>1, <2>2, <3>1, LeafCall
    <3> QED BY <2>1, <3>2, <3>3, InsertIntoParentIs
  <2> QED BY <2>2 DEF InsertGood
<1> QED BY <1>5, <1>6

\* bptree_insert refuses an id that is in the tree, and adds one that is not, unless
\* memory runs out.
LEMMA InsertKeyIs ==
  ASSUME NEW h \in HeapType, h.ok, NEW ref, Good(h, ref), NEW key \in Nat, NEW row \in Nat,
         NEW after, after = InsertKey(h, key, row)
  PROVE  /\ key \in DOMAIN ref => after = Fail(h)
         /\ key \notin DOMAIN ref => InsertGood(after, ref, key, row)
<1> DEFINE leaf == FindLeaf(h, key)
           node == Leaf(<<key>>, <<row>>)
           first == Create(h, node)
<1>1. after = IF h.root = Nil
                THEN IF first.ok THEN [first EXCEPT !.root = Len(first.nodes)] ELSE first
              ELSE IF Search(h, key) # {} THEN Fail(h)
              ELSE IF Len(h.nodes[leaf].keys) < MaxKeys THEN InsertIntoLeaf(h, leaf, key, row)
              ELSE SplitLeaf(h, leaf, key, row)
  BY DEF InsertKey
<1> HIDE DEF leaf
<1>2. CASE h.root = Nil
  <2>1. DOMAIN ref = {} /\ Len(h.nodes) = 0
    BY <1>2, EmptySeq DEF Good
  <2>2. first.ok => InsertGood([first EXCEPT !.root = Len(first.nodes)], ref, key, row)
    <3> DEFINE made == first
               new == node
    <3>1. new = Leaf(<<key>>, <<row>>) /\ made = Create(h, new)
      OBVIOUS
    <3> HIDE DEF made, new
    <3>2. Len(h.nodes) = 0 /\ made.ok => InsertGood([made EXCEPT !.root = Len(made.nodes)], ref, key, row)
      BY <2>1, <3>1, FirstLeaf
    <3> QED BY <2>1, <3>2 DEF made
  <2> HIDE DEF first
  <2>3. ~first.ok => InsertGood(first, ref, key, row)
    BY DEF InsertGood
  <2>4. CASE first.ok
    BY <1>1, <1>2, <2>1, <2>2, <2>4
  <2>5. CASE ~first.ok
    BY <1>1, <1>2, <2>1, <2>3, <2>5
  <2> QED BY <2>4, <2>5
<1> HIDE DEF first, node
<1>3. CASE h.root # Nil
  <2>1. PICK span, level : Tree(h.nodes, h.root, span, level, Nil, 0, Nil)
    BY <1>3 DEF Good, WholeTree
  <2>2. Contents(h.nodes, ref) /\ Bounded(h.nodes)
    BY <1>3 DEF Good, WholeTree
  <2>3. Search(h, key) = IF key \in DOMAIN ref THEN {ref[key]} ELSE {}
    BY <2>1, <2>2, SearchIs
  <2>4. CASE key \in DOMAIN ref
    BY <1>1, <1>3, <2>3, <2>4
  <2>5. CASE key \notin DOMAIN ref
    <3>1. leaf \in LeavesOf(h.nodes) /\ key \in span[leaf]
      BY <2>1, FindLeafIs DEF leaf
    <3>2. Awaits(h, span, level, leaf, ref, key)
      BY <2>1, <2>2, <2>5, <3>1 DEF Awaits
    <3>3. CASE Len(h.nodes[leaf].keys) < MaxKeys
      <4>1. after = InsertIntoLeaf(h, leaf, key, row)
        BY <1>1, <1>3, <2>3, <2>5, <3>3
      <4>2. InsertGood(after, ref, key, row)
        BY <3>2, <3>3, <4>1, RoomyLeaf
      <4> QED BY <2>5, <4>2
    <3>4. CASE ~(Len(h.nodes[leaf].keys) < MaxKeys)
      <4>1. after = SplitLeaf(h, leaf, key, row)
        BY <1>1, <1>3, <2>3, <2>5, <3>4
      <4>2. InsertGood(after, ref, key, row)
        BY <3>2, <3>4, <4>1, FullLeaf
      <4> QED BY <2>5, <4>2
    <3> QED BY <3>3, <3>4
  <2> QED BY <2>4, <2>5
<1> QED BY <1>2, <1>3

-----------------------------------------------------------------------------
(* The specification *)

\* Unless an insert has run out of memory, the index is a whole tree of the ids.
IndexGood == ~failed => heap \in HeapType /\ IsFiniteSet(DOMAIN reference) /\ Good(heap, reference)

LEMMA Readied ==
  ASSUME NEW h \in HeapType, NEW budget \in Nat, NEW ref, Good(h, ref),
         NEW ready, ready = [h EXCEPT !.budget = budget, !.ok = TRUE]
  PROVE  ready \in HeapType /\ ready.ok /\ Good(ready, ref)
<1>1. ready \in HeapType /\ ready.ok /\ ready.nodes = h.nodes /\ ready.root = h.root
  BY DEF HeapType
<1> QED BY <1>1 DEF Good, WholeTree

LEMMA Refused ==
  ASSUME NEW h \in HeapType, NEW ref, Good(h, ref), NEW after, after = Fail(h)
  PROVE  after \in HeapType /\ ~after.ok /\ Good(after, ref)
<1>1. after \in HeapType /\ ~after.ok /\ after.nodes = h.nodes /\ after.root = h.root
  BY DEF HeapType, Fail
<1> QED BY <1>1 DEF Good, WholeTree

LEMMA IndexInit ==
  Init => IndexGood
<1> SUFFICES ASSUME Init PROVE IndexGood
  OBVIOUS
<1>1. heap = EmptyHeap /\ DOMAIN reference = {}
  BY DEF Init
<1>2. EmptyHeap \in HeapType /\ EmptyHeap.root = Nil /\ EmptyHeap.nodes = <<>>
  BY EmptySeq DEF EmptyHeap, HeapType, Nil
<1>3. IsFiniteSet({})
  BY FS_EmptySet
<1> QED BY <1>1, <1>2, <1>3 DEF IndexGood, Good

LEMMA IndexStep ==
  IndexGood /\ [Next]_vars => IndexGood'
<1> SUFFICES ASSUME IndexGood, [Next]_vars PROVE IndexGood'
  OBVIOUS
<1>1. CASE UNCHANGED vars
  BY <1>1 DEF IndexGood, vars
<1>2. ASSUME NEW key \in Keys, NEW budget \in Budgets, Insert(key, budget) PROVE IndexGood'
  <2> DEFINE row == Cardinality(DOMAIN reference)
             ready == [heap EXCEPT !.budget = budget, !.ok = TRUE]
             after == InsertKey(ready, key, row)
  <2>1. /\ ~failed /\ heap' = after
        /\ reference' = IF after.ok THEN [k \in DOMAIN reference \cup {key} |->
                                            IF k = key THEN row ELSE reference[k]]
                        ELSE reference
        /\ failed' = (~after.ok /\ key \notin DOMAIN reference)
    BY <1>2 DEF Insert
  <2>2. heap \in HeapType /\ IsFiniteSet(DOMAIN reference) /\ Good(heap, reference)
    BY <2>1 DEF IndexGood
  <2>3. row \in Nat /\ key \in Nat /\ budget \in Nat
    BY <2>2, FS_CardinalityType, KeysAssumption, BudgetsAssumption
  <2> HIDE DEF row
  <2>4. ready \in HeapType /\ ready.ok /\ Good(ready, reference)
    BY <2>2, <2>3, Readied
  <2> HIDE DEF ready
  <2>5. /\ key \in DOMAIN reference => after = Fail(ready)
        /\ key \notin DOMAIN reference => InsertGood(after, reference, key, row)
    BY <2>3, <2>4, InsertKeyIs
  <2> HIDE DEF after
  <2>6. CASE key \in DOMAIN reference
    <3>1. after \in HeapType /\ ~after.ok /\ Good(after, reference)
      BY <2>4, <2>5, <2>6, Refused
    <3>2. reference' = reference
      BY <2>1, <3>1
    <3> QED BY <2>1, <2>2, <3>1, <3>2 DEF IndexGood
  <2>7. CASE key \notin DOMAIN reference /\ after.ok
    <3>1. reference' = [k \in DOMAIN reference \cup {key} |-> IF k = key THEN row ELSE reference[k]]
      BY <2>1, <2>7
    <3>2. Recorded(reference', reference, key, row) /\ DOMAIN reference' = DOMAIN reference \cup {key}
      BY <3>1 DEF Recorded
    <3>3. after \in HeapType /\ WholeTree(after, reference')
      BY <2>5, <2>7, <3>2 DEF InsertGood
    <3>4. after.root # Nil
      BY <3>3 DEF WholeTree, Tree, Typed, Nil
    <3>5. IsFiniteSet(DOMAIN reference')
      BY <2>2, <3>2, FS_AddElement
    <3> QED BY <2>1, <3>3, <3>4, <3>5 DEF IndexGood, Good
  <2>8. CASE key \notin DOMAIN reference /\ ~after.ok
    BY <2>1, <2>8 DEF IndexGood
  <2> QED BY <2>6, <2>7, <2>8
<1> QED BY <1>1, <1>2 DEF Next

\* In every state without a failure, unless nothing has been inserted yet
LEMMA IndexTree ==
  ASSUME IndexGood, ~failed
  PROVE  /\ heap \in HeapType /\ Nodes = 1 .. Len(heap.nodes) /\ Leaves = LeavesOf(heap.nodes)
         /\ heap.root = Nil => Nodes = {} /\ DOMAIN reference = {}
         /\ heap.root # Nil => WholeTree(heap, reference)
<1>1. heap \in HeapType /\ Good(heap, reference)
  BY DEF IndexGood
<1>2. heap.nodes \in Seq(NodeType)
  BY <1>1 DEF HeapType
<1>3. Nodes = 1 .. Len(heap.nodes)
  BY <1>2, LenProperties DEF Nodes
<1>4. Leaves = LeavesOf(heap.nodes)
  BY <1>3 DEF Leaves, LeavesOf
<1>5. heap.root = Nil => Nodes = {} /\ DOMAIN reference = {}
  BY <1>1 DEF Good, Nodes
<1>6. heap.root # Nil => WholeTree(heap, reference)
  BY <1>1 DEF Good
<1> QED BY <1>1, <1>3, <1>4, <1>5, <1>6

LEMMA IndexSearch ==
  IndexGood => SearchMatchesReference
<1> SUFFICES ASSUME IndexGood, ~failed, NEW key \in Keys
             PROVE  Search(heap, key) = IF key \in DOMAIN reference THEN {reference[key]} ELSE {}
  BY DEF SearchMatchesReference, FindsReference
<1>1. CASE heap.root = Nil
  <2>1. DOMAIN reference = {}
    BY <1>1, IndexTree
  <2>2. Search(heap, key) = {}
    BY <1>1 DEF Search
  <2> QED BY <2>1, <2>2
<1>2. CASE heap.root # Nil
  <2>1. WholeTree(heap, reference)
    BY <1>2, IndexTree
  <2>2. PICK span, level : Tree(heap.nodes, heap.root, span, level, Nil, 0, Nil)
    BY <2>1 DEF WholeTree
  <2>3. Contents(heap.nodes, reference) /\ key \in Nat
    BY <2>1, KeysAssumption DEF WholeTree
  <2> QED BY <2>2, <2>3, SearchIs
<1> QED BY <1>1, <1>2

LEMMA IndexParents ==
  IndexGood => ParentPointersAgree
<1> SUFFICES ASSUME IndexGood, ~failed, NEW n \in Nodes
             PROVE  /\ n = heap.root <=> heap.nodes[n].parent = Nil
                    /\ n # heap.root => n \in ToSet(heap.nodes[heap.nodes[n].parent].children)
                    /\ ~heap.nodes[n].is_leaf =>
                         /\ Len(heap.nodes[n].children) = Len(heap.nodes[n].keys) + 1
                         /\ \A c \in ToSet(heap.nodes[n].children) : heap.nodes[c].parent = n
  BY DEF ParentPointersAgree
<1> DEFINE nodes == heap.nodes
<1>1. heap.root # Nil /\ n \in 1 .. Len(nodes) /\ WholeTree(heap, reference)
  BY IndexTree
<1>2. PICK span, level : Tree(nodes, heap.root, span, level, Nil, 0, Nil)
  BY <1>1 DEF WholeTree
<1> HIDE DEF nodes
<1>3. nodes \in Seq(NodeType) /\ nodes[heap.root].parent = Nil
  BY <1>2 DEF Tree, Typed, RootGood
<1>4. \A m \in 1 .. Len(nodes) : ~nodes[m].is_leaf => Len(nodes[m].children) = Len(nodes[m].keys) + 1
  BY <1>2 DEF Tree, NodeGood, Shaped
<1>5. n # heap.root => IsChild(nodes, n)
  BY <1>1, <1>2 DEF Tree, ParentsGood, Nil
<1>6. ASSUME n # heap.root
      PROVE  nodes[n].parent # Nil /\ n \in ToSet(nodes[nodes[n].parent].children)
  <2> DEFINE m == nodes[n].parent
  <2>1. /\ m \in 1 .. Len(nodes) /\ ~nodes[m].is_leaf
        /\ \E p \in 1 .. Len(nodes[m].keys) + 1 : nodes[m].children[p] = n
    BY <1>5, <1>6 DEF IsChild
  <2> HIDE DEF m
  <2>2. nodes[m].children \in Seq(Nat) /\ Len(nodes[m].children) = Len(nodes[m].keys) + 1
    BY <1>3, <1>4, <2>1, NodeIs
  <2>3. n \in ToSet(nodes[m].children) /\ m # Nil
    BY <2>1, <2>2, InSeq DEF Nil
  <2> QED BY <2>3 DEF m
<1>7. ASSUME ~nodes[n].is_leaf, NEW c \in ToSet(nodes[n].children) PROVE nodes[c].parent = n
  <2>1. nodes[n].children \in Seq(Nat) /\ Len(nodes[n].children) = Len(nodes[n].keys) + 1
    BY <1>1, <1>3, <1>4, <1>7, NodeIs
  <2>2. PICK q \in 1 .. Len(nodes[n].keys) + 1 : nodes[n].children[q] = c
    BY <2>1, InSeq
  <2>3. ChildGood(nodes, span, level, Nil, Nil, n, q)
    BY <1>1, <1>2, <1>7 DEF Tree, ChildrenGood
  <2> QED BY <2>2, <2>3 DEF ChildGood
<1>8. n = heap.root <=> nodes[n].parent = Nil
  BY <1>3, <1>6
<1> QED BY <1>1, <1>4, <1>6, <1>7, <1>8 DEF nodes

LEMMA IndexChain ==
  IndexGood => LeafChainIsSorted
<1> SUFFICES ASSUME IndexGood, ~failed PROVE LeafChainIsSorted
  BY DEF LeafChainIsSorted
<1> DEFINE nodes == heap.nodes
           keys(n) == heap.nodes[n].keys
           next(n) == heap.nodes[n].next
           After(n) == {m \in Leaves : keys(m)[1] > keys(n)[1]}
<1>1. CASE heap.root = Nil
  <2>1. Nodes = {} /\ DOMAIN reference = {}
    BY <1>1, IndexTree
  <2>2. Leaves = {}
    BY <2>1 DEF Leaves
  <2> QED BY <2>1, <2>2 DEF LeafChainIsSorted
<1>2. CASE heap.root # Nil
  <2>1. Leaves = LeavesOf(nodes) /\ WholeTree(heap, reference)
    BY <1>2, IndexTree
  <2>2. Contents(nodes, reference)
    BY <2>1 DEF WholeTree
  <2>3. PICK span, level : Tree(nodes, heap.root, span, level, Nil, 0, Nil)
    BY <2>1 DEF WholeTree
  <2>4. /\ nodes \in Seq(NodeType) /\ span \in [1 .. Len(nodes) -> SUBSET Nat]
        /\ \A n \in Leaves : n \in 1 .. Len(nodes) /\ nodes[n].is_leaf
    BY <2>1, <2>3 DEF Tree, Typed, LeavesOf
  <2>5. ASSUME NEW n \in Leaves
        PROVE  /\ keys(n) \in Seq(Nat) /\ Len(keys(n)) \in Nat /\ Len(keys(n)) > 0 /\ Ascending(keys(n))
               /\ \A k \in 1 .. Len(keys(n)) : keys(n)[k] \in span[n] /\ keys(n)[k] \in Nat
               /\ 1 \in 1 .. Len(keys(n)) /\ Len(keys(n)) \in 1 .. Len(keys(n))
    <3>1. NodeGood(nodes, heap.root, span, level, n) /\ n \in 1 .. Len(nodes)
      BY <2>3, <2>4 DEF Tree
    <3>2. /\ keys(n) \in Seq(Nat) /\ Len(keys(n)) \in Nat
          /\ \A k \in 1 .. Len(keys(n)) : keys(n)[k] \in Nat
      BY <2>4, NodeIs
    <3>3. /\ Len(keys(n)) > 0 /\ Ascending(keys(n))
          /\ \A k \in 1 .. Len(keys(n)) : keys(n)[k] \in span[n]
      BY <3>1 DEF NodeGood, Shaped
    <3>4. 1 \in 1 .. Len(keys(n)) /\ Len(keys(n)) \in 1 .. Len(keys(n))
      BY <3>2, <3>3
    <3> QED BY <3>2, <3>3, <3>4
  <2>6. ASSUME NEW m \in Leaves, NEW n \in Leaves, Precedes(span, m, n)
        PROVE  /\ \A j \in 1 .. Len(keys(m)), k \in 1 .. Len(keys(n)) : keys(m)[j] < keys(n)[k]
               /\ keys(m)[1] < keys(n)[1] /\ ~(keys(m)[1] > keys(n)[1]) /\ keys(m)[Len(keys(m))] < keys(n)[1]
    <3>1. \A j \in 1 .. Len(keys(m)), k \in 1 .. Len(keys(n)) : keys(m)[j] < keys(n)[k]
      BY <2>5, <2>6 DEF Precedes
    <3>2. keys(m)[1] < keys(n)[1] /\ keys(m)[Len(keys(m))] < keys(n)[1] /\ keys(m)[1] \in Nat /\ keys(n)[1] \in Nat
      BY <2>5, <3>1
    <3> QED BY <3>1, <3>2
  <2>7. /\ \A m, n \in Leaves : m # n => Precedes(span, m, n) \/ Precedes(span, n, m)
        /\ \A n \in Leaves : ChainGood(nodes, span, n)
    BY <2>1, <2>3 DEF Tree, LeavesGood
  <2>8. UNION {ToSet(keys(n)) : n \in Leaves} = DOMAIN reference
    <3>1. \A n \in Leaves : \A x : x \in ToSet(keys(n)) <=> \E q \in 1 .. Len(keys(n)) : keys(n)[q] = x
      BY <2>5, InSeq
    <3>2. /\ \A n \in Leaves : \A k \in 1 .. Len(keys(n)) : keys(n)[k] \in DOMAIN reference
          /\ \A x \in DOMAIN reference : \E n \in Leaves : \E k \in 1 .. Len(keys(n)) : keys(n)[k] = x
      BY <2>1, <2>2 DEF Contents
    <3> HIDE DEF keys
    <3>3. \A n \in Leaves : \A x \in ToSet(keys(n)) : x \in DOMAIN reference
      BY <3>1, <3>2
    <3>4. \A x \in DOMAIN reference : \E n \in Leaves : x \in ToSet(keys(n))
      BY <3>1, <3>2
    <3> QED BY <3>3, <3>4, Zenon
  <2>9. ASSUME NEW n \in Leaves
        PROVE  /\ \A m \in Leaves : keys(m)[1] = keys(n)[1] => m = n
               /\ \A k \in 1 .. Len(keys(n)) - 1 : keys(n)[k] < keys(n)[k + 1]
               /\ next(n) = Nil <=> After(n) = {}
               /\ \A m \in After(n) : /\ keys(n)[Len(keys(n))] < keys(m)[1]
                                      /\ next(n) \in After(n)
                                      /\ keys(next(n))[1] <= keys(m)[1]
    <3>1. \A m \in Leaves : keys(m)[1] = keys(n)[1] => m = n
      <4> SUFFICES ASSUME NEW m \in Leaves, keys(m)[1] = keys(n)[1], m # n PROVE FALSE
        OBVIOUS
      <4>1. keys(m)[1] < keys(n)[1] \/ keys(n)[1] < keys(m)[1]
        BY <2>6, <2>7
      <4>2. keys(m)[1] \in Nat /\ keys(n)[1] \in Nat
        BY <2>5
      <4> QED BY <4>1, <4>2
    <3>2. \A k \in 1 .. Len(keys(n)) - 1 : keys(n)[k] < keys(n)[k + 1]
      <4> SUFFICES ASSUME NEW k \in 1 .. Len(keys(n)) - 1 PROVE keys(n)[k] < keys(n)[k + 1]
        OBVIOUS
      <4>1. k \in 1 .. Len(keys(n)) /\ k + 1 \in 1 .. Len(keys(n)) /\ k < k + 1
        BY <2>5
      <4> QED BY <2>5, <4>1 DEF Ascending
    <3>3. ASSUME NEW m \in After(n)
          PROVE  m \in Leaves /\ m # n /\ ~Precedes(span, m, n) /\ Precedes(span, n, m)
      <4>1. m \in Leaves /\ keys(m)[1] > keys(n)[1]
        BY <3>3
      <4>2. ~Precedes(span, m, n)
        BY <2>6, <4>1
      <4>3. m # n
        BY <2>5, <4>1
      <4> QED BY <2>7, <4>1, <4>2, <4>3
    <3>4. ASSUME next(n) # Nil PROVE next(n) \in After(n)
      <4>1. next(n) \in Leaves /\ Precedes(span, n, next(n))
        BY <2>1, <2>7, <3>4 DEF ChainGood
      <4>2. keys(n)[1] < keys(next(n))[1] /\ keys(n)[1] \in Nat /\ keys(next(n))[1] \in Nat
        BY <2>5, <2>6, <4>1
      <4> QED BY <4>1, <4>2
    <3>5. ASSUME next(n) = Nil PROVE After(n) = {}
      <4>1. \A l \in Leaves : l # n => Precedes(span, l, n)
        BY <2>1, <2>7, <3>5 DEF ChainGood
      <4> HIDE DEF After
      <4> QED BY <3>3, <4>1
    <3>6. ASSUME NEW m \in After(n)
          PROVE  /\ keys(n)[Len(keys(n))] < keys(m)[1] /\ next(n) \in After(n)
                 /\ keys(next(n))[1] <= keys(m)[1]
      <4>1. m \in Leaves /\ m # n /\ ~Precedes(span, m, n) /\ Precedes(span, n, m)
        BY <3>3
      <4>2. next(n) # Nil /\ next(n) \in After(n)
        BY <3>4, <3>5
      <4>3. m = next(n) \/ Precedes(span, next(n), m)
        BY <2>1, <2>7, <4>1, <4>2 DEF ChainGood
      <4>4. next(n) \in Leaves
        BY <4>2
      <4>5. keys(m)[1] \in Nat /\ keys(next(n))[1] \in Nat
        BY <2>5, <4>1, <4>4
      <4>6. m = next(n) \/ keys(next(n))[1] < keys(m)[1]
        BY <2>6, <4>1, <4>3, <4>4
      <4>7. keys(n)[Len(keys(n))] < keys(m)[1]
        BY <2>6, <4>1
      <4>8. keys(next(n))[1] <= keys(m)[1]
        BY <4>5, <4>6
      <4> QED BY <4>2, <4>7, <4>8
    <3> QED BY <3>1, <3>2, <3>4, <3>5, <3>6
  <2> QED BY <2>8, <2>9 DEF LeafChainIsSorted
<1> QED BY <1>1, <1>2

\* The equation of the recursive function in BalancedAndBounded
Depths(d) == d = [n \in Nodes |-> IF n = heap.root THEN 0 ELSE 1 + d[heap.nodes[n].parent]]

\* A node is as deep as its level is below that of the root, for every solution.
LEMMA DepthIs ==
  ASSUME NEW span, NEW level, Tree(heap.nodes, heap.root, span, level, Nil, 0, Nil),
         Nodes = 1 .. Len(heap.nodes)
  PROVE  /\ \E d : Depths(d)
         /\ \A d : Depths(d) => \A n \in Nodes : d[n] = level[heap.root] - level[n]
<1> DEFINE root == heap.root
           r == level[root]
           parent(n) == heap.nodes[n].parent
<1>1. r \in Nat /\ root \in Nodes /\ \A n \in Nodes : level[n] \in Nat /\ level[n] <= r
  BY DEF Tree, Typed, NodeGood
<1>2. ASSUME NEW n \in Nodes, n # root PROVE parent(n) \in Nodes /\ level[parent(n)] = level[n] + 1
  <2>1. IsChild(heap.nodes, n)
    BY <1>2 DEF Tree, ParentsGood, Nil
  <2> DEFINE m == parent(n)
  <2>2. /\ m \in Nodes /\ ~heap.nodes[m].is_leaf
        /\ \E p \in 1 .. Len(heap.nodes[m].keys) + 1 : heap.nodes[m].children[p] = n
    BY <2>1 DEF IsChild
  <2> HIDE DEF m
  <2>3. PICK p \in 1 .. Len(heap.nodes[m].keys) + 1 : heap.nodes[m].children[p] = n
    BY <2>2
  <2>4. ChildGood(heap.nodes, span, level, Nil, Nil, m, p)
    BY <2>2 DEF Tree, ChildrenGood
  <2>5. level[m] = level[n] + 1
    BY <2>3, <2>4 DEF ChildGood
  <2> QED BY <2>2, <2>5 DEF m
<1> HIDE DEF r, root, parent
<1>3. \E d : Depths(d)
  <2> DEFINE d == [n \in Nodes |-> r - level[n]]
  <2>1. \A n \in Nodes : d[n] = IF n = root THEN 0 ELSE 1 + d[parent(n)]
    <3> SUFFICES ASSUME NEW n \in Nodes PROVE d[n] = IF n = root THEN 0 ELSE 1 + d[parent(n)]
      OBVIOUS
    <3>1. CASE n = root
      BY <1>1, <3>1 DEF r
    <3>2. CASE n # root
      <4>1. d[parent(n)] = r - level[parent(n)] /\ level[parent(n)] = level[n] + 1
        BY <1>2, <3>2
      <4> QED BY <1>1, <3>2, <4>1
    <3> QED BY <3>1, <3>2
  <2>2. Depths(d)
    BY <2>1 DEF Depths, root, parent
  <2> QED BY <2>2
<1>4. ASSUME NEW d, Depths(d) PROVE \A n \in Nodes : d[n] = r - level[n]
  <2> DEFINE S == {j \in 0 .. r : \A n \in Nodes : r - level[n] = j => d[n] = j}
  <2>1. \A n \in Nodes : d[n] = IF n = root THEN 0 ELSE 1 + d[parent(n)]
    BY <1>4 DEF Depths, root, parent
  <2>2. 0 \in S
    <3> SUFFICES ASSUME NEW n \in Nodes, r - level[n] = 0 PROVE d[n] = 0
      BY <1>1
    <3>1. n = root
      <4> SUFFICES ASSUME n # root PROVE FALSE
        OBVIOUS
      <4>1. level[parent(n)] \in Nat /\ level[parent(n)] <= r /\ level[parent(n)] = level[n] + 1
        BY <1>1, <1>2
      <4> QED BY <1>1, <4>1
    <3> QED BY <2>1, <3>1
  <2>3. ASSUME NEW j \in 0 .. r - 1, j \in S PROVE j + 1 \in S
    <3>1. j + 1 \in 0 .. r
      BY <1>1
    <3> SUFFICES ASSUME NEW n \in Nodes, r - level[n] = j + 1 PROVE d[n] = j + 1
      BY <3>1
    <3>2. n # root
      BY <1>1 DEF r
    <3>3. parent(n) \in Nodes /\ level[parent(n)] = level[n] + 1
      BY <1>2, <3>2
    <3>4. r - level[parent(n)] = j
      <4>1. r \in Nat /\ level[n] \in Nat /\ j \in Nat
        BY <1>1
      <4>2. r - (level[n] + 1) = j
        BY <4>1
      <4> QED BY <3>3, <4>2
    <3>5. d[parent(n)] = j
      BY <2>3, <3>3, <3>4
    <3> QED BY <2>1, <3>2, <3>5
  <2>4. \A j \in 0 .. r : j \in S
    <3> HIDE DEF S
    <3> QED BY <1>1, <2>2, <2>3, IntervalInduction
  <2> SUFFICES ASSUME NEW n \in Nodes PROVE d[n] = r - level[n]
    OBVIOUS
  <2>5. r - level[n] \in 0 .. r
    BY <1>1
  <2> QED BY <2>4, <2>5
<1> QED BY <1>3, <1>4 DEF r, root

LEMMA IndexBalance ==
  IndexGood => BalancedAndBounded
<1> DEFINE depth == CHOOSE d : Depths(d)
<1> SUFFICES ASSUME IndexGood, ~failed
             PROVE  /\ \A n \in Nodes : Len(heap.nodes[n].keys) \in 1 .. MaxKeys
                    /\ \A m, n \in Leaves : depth[m] = depth[n]
  BY DEF BalancedAndBounded, Depths
<1>1. CASE heap.root = Nil
  BY <1>1, IndexTree DEF Leaves
<1>2. CASE heap.root # Nil
  <2>1. WholeTree(heap, reference) /\ Nodes = 1 .. Len(heap.nodes)
    BY <1>2, IndexTree
  <2>2. PICK span, level : Tree(heap.nodes, heap.root, span, level, Nil, 0, Nil)
    BY <2>1 DEF WholeTree
  <2>3. \A n \in Nodes : Len(heap.nodes[n].keys) \in 1 .. MaxKeys
    <3> SUFFICES ASSUME NEW n \in Nodes PROVE Len(heap.nodes[n].keys) \in 1 .. MaxKeys
      OBVIOUS
    <3>1. Len(heap.nodes[n].keys) > 0
      BY <2>1, <2>2 DEF Tree, NodeGood, Shaped
    <3>2. Len(heap.nodes[n].keys) <= MaxKeys
      BY <2>1 DEF WholeTree, Bounded
    <3>3. heap.nodes \in Seq(NodeType)
      BY <2>2 DEF Tree, Typed
    <3>4. Len(heap.nodes[n].keys) \in Nat
      BY <2>1, <3>3, NodeIs
    <3> QED BY <3>1, <3>2, <3>4, MaxKeysAssumption
  <2>4. Depths(depth)
    BY <2>1, <2>2, DepthIs
  <2> HIDE DEF depth
  <2>5. \A n \in Nodes : depth[n] = level[heap.root] - level[n]
    BY <2>1, <2>2, <2>4, DepthIs
  <2>6. \A n \in Leaves : n \in Nodes /\ level[n] = 0
    BY <2>1, <2>2 DEF Leaves, Tree, NodeGood
  <2>7. \A n \in Leaves : depth[n] = level[heap.root] - 0
    BY <2>5, <2>6
  <2> QED BY <2>3, <2>7
<1> QED BY <1>1, <1>2

-----------------------------------------------------------------------------
\* Insertions, the refused ones too, take a whole tree of the ids to a whole tree of
\* the ids.
THEOREM IndexAlwaysGood ==
  Spec => []IndexGood
<1>1. Init => IndexGood
  BY IndexInit
<1>2. IndexGood /\ [Next]_vars => IndexGood'
  BY IndexStep
<1> QED BY <1>1, <1>2, PTL DEF Spec

\* What SELECT by id relies on: bptree_search finds an id that was inserted with its
\* row, and no other id, after any order of insertions and any number of splits.
THEOREM SearchIsCorrect ==
  Spec => []SearchMatchesReference
BY IndexAlwaysGood, IndexSearch, PTL

\* The parent pointers by which bptree_insert_into_parent climbs are right.
THEOREM ParentsAgree ==
  Spec => []ParentPointersAgree
BY IndexAlwaysGood, IndexParents, PTL

\* No node overflows its arrays or is empty, and all leaves are equally deep.
THEOREM TreeIsBalanced ==
  Spec => []BalancedAndBounded
BY IndexAlwaysGood, IndexBalance, PTL

\* The chain of the leaves leads through all ids in ascending order.
THEOREM ChainIsSorted ==
  Spec => []LeafChainIsSorted
BY IndexAlwaysGood, IndexChain, PTL
=============================================================================

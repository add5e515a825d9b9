------------------------------- MODULE BPTree -------------------------------
(***************************************************************************)
(* The id index of db/bptree.c: nodes with parent pointers and a chain of   *)
(* leaves, insertion with leaf and internal splits, search.  A node is a    *)
(* place in the sequence of allocated nodes; its arrays keyed 0 .. n - 1    *)
(* are sequences, so that key_count is a length.  The operators work on a   *)
(* heap [root, nodes, budget, ok]: budget is how many more calloc calls     *)
(* succeed, ok the status the functions return.                             *)
(***************************************************************************)
EXTENDS Integers, Sequences, FiniteSets, SequencesExt

CONSTANTS MaxKeys,  \* BPTREE_MAX_KEYS
          Keys,     \* the ids that are inserted
          Budgets   \* numbers of allocations that may succeed in one insert

ASSUME MaxKeysAssumption == MaxKeys \in Nat \ {0, 1}
ASSUME KeysAssumption == Keys \subseteq Nat
ASSUME BudgetsAssumption == Budgets \subseteq Nat

Nil == 0   \* NULL; nodes are numbered from 1

VARIABLES heap,      \* the tree
          reference, \* what it should hold: inserted key -> row index
          failed     \* an insert ran out of memory

vars == <<heap, reference, failed>>

Leaf(keys, rows) == [is_leaf |-> TRUE, keys |-> keys, row_indices |-> rows,
                     children |-> <<>>, parent |-> Nil, next |-> Nil]
Internal(keys, children) == [is_leaf |-> FALSE, keys |-> keys,
                             row_indices |-> <<>>, children |-> children,
                             parent |-> Nil, next |-> Nil]

Fail(h) == [h EXCEPT !.ok = FALSE]

\* bptree_create_node, with the contents its caller gives the node
Create(h, node) == IF h.budget = 0 THEN Fail(h)
                   ELSE [h EXCEPT !.nodes = Append(@, node), !.budget = @ - 1]

\* Deviation: an id equal to a separator is sent to the left.
ChildPositionLeft(keys, key) == 1 + Cardinality({k \in 1 .. Len(keys) : keys[k] < key})

\* The position of the first element of keys that is greater than key (in an
\* internal node), or not smaller (in a leaf).
ChildPosition(keys, key) == 1 + Cardinality({k \in 1 .. Len(keys) : keys[k] <= key})
LeafPosition(keys, key)  == 1 + Cardinality({k \in 1 .. Len(keys) : keys[k] < key})

\* One pass of the loop of bptree_find_leaf
Descend(h, n, key) ==
  IF n = Nil \/ h.nodes[n].is_leaf THEN n
  ELSE h.nodes[n].children[ChildPosition(h.nodes[n].keys, key)]

\* bptree_find_leaf: no path is longer than there are nodes.
FindLeaf(h, key) ==
  LET current[k \in 0 .. Len(h.nodes)] ==
        IF k = 0 THEN h.root ELSE Descend(h, current[k - 1], key)
  IN  current[Len(h.nodes)]

\* bptree_search: the set of row indices found, empty or a singleton
Search(h, key) ==
  LET leaf == h.nodes[FindLeaf(h, key)] IN
  IF h.root = Nil THEN {}
  ELSE {leaf.row_indices[k] : k \in {k \in 1 .. Len(leaf.keys) : leaf.keys[k] = key}}

\* bptree_insert_into_leaf, on a leaf with room
InsertIntoLeaf(h, n, key, row) ==
  LET pos == LeafPosition(h.nodes[n].keys, key) IN
  [h EXCEPT !.nodes[n].keys = InsertAt(@, pos, key),
            !.nodes[n].row_indices = InsertAt(@, pos, row)]

\* Deviation: the children keep their old parent.
AdoptNothing(h, n, children) == h

\* Every node of children gets n as its parent.
Adopt(h, n, children) ==
  [h EXCEPT !.nodes = [m \in DOMAIN @ |->
     IF m \in ToSet(children) THEN [@[m] EXCEPT !.parent = n] ELSE @[m]]]

\* bptree_insert_into_parent and bptree_split_internal call each other, each as
\* the other's last step.  A call is a heap in which right, whose smallest key is
\* key, has yet to become the neighbour of left one level up; left is Nil when
\* the work is done.
Call(h, left, key, right) == [heap |-> h, left |-> left, key |-> key, right |-> right]
Return(h) == Call(h, Nil, 0, Nil)

\* bptree_split_internal: the key in the middle moves up.
SplitInternal(h, n, pos, key, right) ==
  LET keys     == InsertAt(h.nodes[n].keys, pos, key)
      children == InsertAt(h.nodes[n].children, pos + 1, right)
      promote  == Len(keys) \div 2
      leftKids  == SubSeq(children, 1, promote + 1)
      rightKids == SubSeq(children, promote + 2, Len(children))
      created  == Create(h, [Internal(SubSeq(keys, promote + 2, Len(keys)), rightKids)
                               EXCEPT !.parent = h.nodes[n].parent])
      new      == Len(created.nodes)
      split    == [created EXCEPT !.nodes[n].keys = SubSeq(keys, 1, promote),
                                  !.nodes[n].children = leftKids]
  IN  IF ~created.ok THEN Return(created)
      ELSE Call(Adopt(Adopt(split, n, leftKids), new, rightKids),
                n, keys[promote + 1], new)

\* One call of bptree_insert_into_parent
IntoParent(h, left, key, right) ==
  LET parent == h.nodes[left].parent
      pos    == CHOOSE k \in 1 .. Len(h.nodes[parent].children) :
                  h.nodes[parent].children[k] = left
      created == Create(h, Internal(<<key>>, <<left, right>>))
      top     == Len(created.nodes)
  IN  IF parent = Nil
        THEN Return(IF ~created.ok THEN created
                    ELSE [Adopt(created, top, <<left, right>>) EXCEPT !.root = top])
      ELSE IF left \notin ToSet(h.nodes[parent].children) THEN Return(Fail(h))
      ELSE IF Len(h.nodes[parent].keys) < MaxKeys
        THEN Return([h EXCEPT !.nodes[parent].keys = InsertAt(@, pos, key),
                              !.nodes[parent].children = InsertAt(@, pos + 1, right),
                              !.nodes[right].parent = parent])
      ELSE SplitInternal(h, parent, pos, key, right)

\* The calls up to the root, at most one for each node
InsertIntoParent(h, left, key, right) ==
  LET call[k \in 0 .. Len(h.nodes)] ==
        IF k = 0 THEN Call(h, left, key, right)
        ELSE LET c == call[k - 1]
             IN  IF c.left = Nil THEN c ELSE IntoParent(c.heap, c.left, c.key, c.right)
  IN  call[Len(h.nodes)].heap

\* Deviation: the new leaf is not linked into the chain.
SplitLeafUnlinked(h, n, key, row) ==
  LET old   == h.nodes[n]
      pos   == LeafPosition(old.keys, key)
      keys  == InsertAt(old.keys, pos, key)
      rows  == InsertAt(old.row_indices, pos, row)
      half  == Len(keys) \div 2
      created == Create(h, [Leaf(SubSeq(keys, half + 1, Len(keys)),
                                 SubSeq(rows, half + 1, Len(rows)))
                              EXCEPT !.next = old.next, !.parent = old.parent])
      new   == Len(created.nodes)
      split == [created EXCEPT !.nodes[n].keys = SubSeq(keys, 1, half),
                               !.nodes[n].row_indices = SubSeq(rows, 1, half)]
  IN  IF ~created.ok THEN created
      ELSE InsertIntoParent(split, n, keys[half + 1], new)

\* bptree_split_leaf: the upper half goes to a new leaf after this one.
SplitLeaf(h, n, key, row) ==
  LET old   == h.nodes[n]
      pos   == LeafPosition(old.keys, key)
      keys  == InsertAt(old.keys, pos, key)
      rows  == InsertAt(old.row_indices, pos, row)
      half  == Len(keys) \div 2
      created == Create(h, [Leaf(SubSeq(keys, half + 1, Len(keys)),
                                 SubSeq(rows, half + 1, Len(rows)))
                              EXCEPT !.next = old.next, !.parent = old.parent])
      new   == Len(created.nodes)
      split == [created EXCEPT !.nodes[n].keys = SubSeq(keys, 1, half),
                               !.nodes[n].row_indices = SubSeq(rows, 1, half),
                               !.nodes[n].next = new]
  IN  IF ~created.ok THEN created
      ELSE InsertIntoParent(split, n, keys[half + 1], new)

\* Deviation: a full leaf takes one more key.
InsertKeyOverfull(h, key, row) ==
  LET leaf  == FindLeaf(h, key)
      first == Create(h, Leaf(<<key>>, <<row>>))
  IN  IF h.root = Nil
        THEN IF first.ok THEN [first EXCEPT !.root = Len(first.nodes)] ELSE first
      ELSE IF Search(h, key) # {} THEN Fail(h)
      ELSE IF Len(h.nodes[leaf].keys) <= MaxKeys
        THEN InsertIntoLeaf(h, leaf, key, row)
      ELSE SplitLeaf(h, leaf, key, row)

\* bptree_insert
InsertKey(h, key, row) ==
  LET leaf  == FindLeaf(h, key)
      first == Create(h, Leaf(<<key>>, <<row>>))
  IN  IF h.root = Nil
        THEN IF first.ok THEN [first EXCEPT !.root = Len(first.nodes)] ELSE first
      ELSE IF Search(h, key) # {} THEN Fail(h)
      ELSE IF Len(h.nodes[leaf].keys) < MaxKeys
        THEN InsertIntoLeaf(h, leaf, key, row)
      ELSE SplitLeaf(h, leaf, key, row)

-----------------------------------------------------------------------------
EmptyHeap == [root |-> Nil, nodes |-> <<>>, budget |-> 0, ok |-> TRUE]

Init == heap = EmptyHeap /\ reference = [k \in {} |-> 0] /\ failed = FALSE

\* A row is appended to the table: its slot is the number of rows so far.
\* Duplicates are refused and change nothing.
Insert(key, budget) ==
  LET row   == Cardinality(DOMAIN reference)
      after == InsertKey([heap EXCEPT !.budget = budget, !.ok = TRUE], key, row)
  IN  /\ ~failed
      /\ heap' = after
      /\ reference' = IF after.ok
                        THEN [k \in DOMAIN reference \cup {key} |->
                                IF k = key THEN row ELSE reference[k]]
                        ELSE reference
      /\ failed' = (~after.ok /\ key \notin DOMAIN reference)

Next == \E key \in Keys, budget \in Budgets : Insert(key, budget)

Spec == Init /\ [][Next]_vars

-----------------------------------------------------------------------------
Nodes  == DOMAIN heap.nodes
Leaves == {n \in Nodes : heap.nodes[n].is_leaf}

\* Every id leads to its row, and no other id leads to a row.
FindsReference ==
  \A key \in Keys : Search(heap, key) =
    IF key \in DOMAIN reference THEN {reference[key]} ELSE {}

\* What SELECT by id relies on: an id that is searched is found with its row,
\* after any order of insertions and any number of splits.
SearchMatchesReference == ~failed => FindsReference

\* A refused duplicate and a failed insert leave the index as it was: ids that
\* were found before are found afterwards.
FailedInsertKeepsIndex == failed => FindsReference

\* The pointer used for the next split is right: every child knows its parent
\* and is one of its children, the root has none, and every internal node has
\* one child more than keys.
ParentPointersAgree ==
  ~failed => \A n \in Nodes :
    LET node == heap.nodes[n] IN
    /\ n = heap.root <=> node.parent = Nil
    /\ n # heap.root => n \in ToSet(heap.nodes[node.parent].children)
    /\ ~node.is_leaf => /\ Len(node.children) = Len(node.keys) + 1
                        /\ \A c \in ToSet(node.children) : heap.nodes[c].parent = n

\* No node overflows its arrays or runs empty, and all leaves are equally deep.
BalancedAndBounded ==
  LET depth[n \in Nodes] ==
        IF n = heap.root THEN 0 ELSE 1 + depth[heap.nodes[n].parent]
  IN  ~failed => /\ \A n \in Nodes : Len(heap.nodes[n].keys) \in 1 .. MaxKeys
                 /\ \A m, n \in Leaves : depth[m] = depth[n]

\* The leaves hold the inserted keys, each leaf in ascending order, and next leads
\* from a leaf to the one with the keys that come after its own.
LeafChainIsSorted ==
  LET keys(n)  == heap.nodes[n].keys
      next(n)  == heap.nodes[n].next
      after(n) == {m \in Leaves : keys(m)[1] > keys(n)[1]}
  IN  ~failed =>
        /\ UNION {ToSet(keys(n)) : n \in Leaves} = DOMAIN reference
        /\ \A n \in Leaves :
             /\ \A m \in Leaves : keys(m)[1] = keys(n)[1] => m = n
             /\ \A k \in 1 .. Len(keys(n)) - 1 : keys(n)[k] < keys(n)[k + 1]
             /\ next(n) = Nil <=> after(n) = {}
             /\ \A m \in after(n) : /\ keys(n)[Len(keys(n))] < keys(m)[1]
                                    /\ next(n) \in after(n)
                                    /\ keys(next(n))[1] <= keys(m)[1]
=============================================================================

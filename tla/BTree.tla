------------------------------- MODULE BTree -------------------------------
(***************************************************************************)
(* The B+ tree every table, registry and join of furious is kept in:       *)
(* src/common/btree.c.  Nodes live in a heap and are named by their place  *)
(* in it; a node that is destroyed goes to the head of the pool's free     *)
(* list, keeps its content and is the next one handed out.  The value      *)
(* under a key is the key itself.  Arrays are kept to their full width     *)
(* where the code may read an entry that is no longer in use (the keys),   *)
(* and as sequences of the entries in use elsewhere; positions start at 1. *)
(*                                                                         *)
(* Two fields of the tree are history: "dropped" after a merge that lost a *)
(* separator, "unlinked" after a leaf went away that another leaf's m_next *)
(* points to.                                                              *)
(***************************************************************************)
EXTENDS Integers, FiniteSets, Sequences, SequencesExt, FiniteSetsExt

CONSTANTS InternalMax,  \* FDB_BTREE_INTERNAL_MAX_ARITY
          LeafMax,      \* FDB_BTREE_LEAF_MAX_ARITY
          Keys,         \* the keys used, none of them zero
          KeepLinks     \* bound: FALSE forgets the links between leaves once one is wrong

ASSUME BTreeAssumption == /\ InternalMax \in Nat /\ InternalMax > 2
                          /\ LeafMax \in Nat /\ LeafMax > 1
                          /\ Keys \subseteq Nat \ {0} /\ IsFiniteSet(Keys)
                          /\ KeepLinks \in BOOLEAN

VARIABLES btree,     \* the heap of nodes, the free list, the root and the size
          present    \* the map the tree stands for: the keys it should hold

vars == <<btree, present>>

\* FDB_BTREE_INTERNAL_MIN_ARITY and FDB_BTREE_LEAF_MIN_ARITY
InternalMin == (InternalMax + 1) \div 2
LeafMin == (LeafMax + 1) \div 2

NULL == 0
Zeros(n) == [i \in 1..n |-> 0]
NewInternal == [type |-> "INTERNAL", keys |-> Zeros(InternalMax - 1), children |-> <<>>]
NewLeaf == [type |-> "LEAF", keys |-> Zeros(LeafMax), nleafs |-> 0, next |-> NULL]

Leafs(nd) == SubSeq(nd.keys, 1, nd.nleafs)
IsEmptyNode(nd) == IF nd.type = "LEAF" THEN nd.nleafs = 0 ELSE nd.children = <<>>

---------------------------------------------------------------------------
(* Nodes come from and go back to the tree's pool.                         *)

NewPlace(t) == IF t.free = <<>> THEN Len(t.heap) + 1 ELSE Head(t.free)

Create(t, nd) ==
  IF t.free = <<>> THEN [t EXCEPT !.heap = Append(@, nd)]
                   ELSE [t EXCEPT !.heap[Head(t.free)] = nd, !.free = Tail(@)]

\* fdb_btree_destroy_node: the children first, left to right.
RECURSIVE DestroyNode(_, _), DestroyNodes(_, _)
DestroyNodes(t, ns) == IF ns = <<>> THEN t ELSE DestroyNodes(DestroyNode(t, Head(ns)), Tail(ns))
DestroyNode(t, n) ==
  LET nd == t.heap[n]
      below == IF nd.type = "LEAF" THEN t
               ELSE [DestroyNodes(t, nd.children) EXCEPT !.heap[n].children = <<>>]
  IN [below EXCEPT !.free = <<n>> \o @]

EmptyTree == [heap |-> <<NewInternal>>, free |-> <<>>, root |-> 1, size |-> 0,
              dropped |-> FALSE, unlinked |-> FALSE]

\* fdb_btree_clear
Cleared(t) ==
  LET gone == DestroyNode(t, t.root)
  IN [Create(gone, NewInternal) EXCEPT !.root = NewPlace(gone), !.size = 0,
                                       !.dropped = FALSE, !.unlinked = FALSE]

---------------------------------------------------------------------------
(* Search.                                                                 *)

\* fdb_btree_next_internal: the child a key belongs to.
NextInternal(nd, key) ==
  Min({i \in 1..InternalMax : i >= Len(nd.children) \/ key < nd.keys[i]})

\* fdb_btree_next_leaf: the first entry not smaller than the key.
NextLeaf(nd, key) ==
  Min({i \in 1..(LeafMax + 1) : i > nd.nleafs \/ key <= nd.keys[i]})

RECURSIVE GetNode(_, _, _)
GetNode(t, n, key) ==
  LET nd == t.heap[n] IN
  IF nd.type = "INTERNAL"
    THEN nd.children # <<>> /\ GetNode(t, nd.children[NextInternal(nd, key)], key)
    ELSE LET i == NextLeaf(nd, key) IN i <= nd.nleafs /\ nd.keys[i] = key

Get(t, key) == GetNode(t, t.root, key)

---------------------------------------------------------------------------
(* Insertion splits every full node on its way down.                       *)

ShiftInsertInternal(nd, idx, child, key) ==
  [nd EXCEPT !.children = InsertAt(@, idx, child),
             !.keys = [i \in DOMAIN nd.keys |-> IF i < idx - 1 THEN nd.keys[i]
                                                ELSE IF i = idx - 1 THEN key ELSE nd.keys[i - 1]]]

ShiftInsertLeaf(nd, idx, key) ==
  [nd EXCEPT !.nleafs = @ + 1,
             !.keys = [i \in DOMAIN nd.keys |-> IF i < idx THEN nd.keys[i]
                                                ELSE IF i = idx THEN key ELSE nd.keys[i - 1]]]

\* The entries of an array from start on, moved to the front; and those before it.
Upper(keys, start) == [i \in DOMAIN keys |-> IF start + i \in DOMAIN keys THEN keys[start + i] ELSE 0]
Lower(keys, last) == [i \in DOMAIN keys |-> IF i <= last THEN keys[i] ELSE 0]

\* fdb_btree_split_internal: the lower half stays in n, the upper half goes to a new node.
SplitInternal(t, n) ==
  LET nd == t.heap[n]
      sibling == [NewInternal EXCEPT !.children = SubSeq(nd.children, InternalMin + 1, InternalMax),
                                     !.keys = Upper(nd.keys, InternalMin)]
  IN [t |-> Create([t EXCEPT !.heap[n].children = SubSeq(@, 1, InternalMin),
                             !.heap[n].keys = Lower(@, InternalMin - 1)], sibling),
      sibling |-> NewPlace(t), key |-> nd.keys[InternalMin]]

\* Mutant: the new leaf is not linked to the one after it.
NextOfSplit_None(nd) == NULL

\* Mutant: the separator is the last key that stays on the left.
SeparatorOfSplit_Left(nd) == nd.keys[LeafMin]

\* What the new leaf takes from the one it was split off, and the key that separates them.
NextOfSplit(nd) == nd.next
SeparatorOfSplit(nd) == nd.keys[LeafMin + 1]

\* fdb_btree_split_leaf, and the link the caller then sets.
SplitLeaf(t, n) ==
  LET nd == t.heap[n]
      sibling == [NewLeaf EXCEPT !.keys = Upper(nd.keys, LeafMin), !.nleafs = LeafMax - LeafMin,
                                 !.next = NextOfSplit(nd)]
  IN [t |-> [Create(t, sibling) EXCEPT !.heap[n].keys = Lower(@, LeafMin), !.heap[n].nleafs = LeafMin,
                                       !.heap[n].next = NewPlace(t)],
      sibling |-> NewPlace(t), key |-> SeparatorOfSplit(nd)]

IsFull(nd) == IF nd.type = "LEAF" THEN nd.nleafs = LeafMax ELSE Len(nd.children) = InternalMax

\* fdb_btree_split_child_full: the tree, and the child to go on with.
SplitChildFull(t, n, idx, key) ==
  LET child == t.heap[n].children[idx] IN
  IF ~IsFull(t.heap[child]) THEN [t |-> t, child |-> child]
  ELSE LET s == IF t.heap[child].type = "LEAF" THEN SplitLeaf(t, child) ELSE SplitInternal(t, child)
       IN [t |-> [s.t EXCEPT !.heap[n] = ShiftInsertInternal(@, idx + 1, s.sibling, s.key)],
           child |-> IF key >= s.key THEN s.sibling ELSE child]

\* The child the key goes to, made when the node has none, split when it is full.
ChildFor(t, n, key) ==
  IF t.heap[n].children = <<>>
    THEN [t |-> [Create(t, NewLeaf) EXCEPT !.heap[n].children = <<NewPlace(t)>>], child |-> NewPlace(t)]
    ELSE SplitChildFull(t, n, NextInternal(t.heap[n], key), key)

\* fdb_btree_insert_node
RECURSIVE InsertNode(_, _, _)
InsertNode(t, n, key) ==
  LET nd == t.heap[n] IN
  IF nd.type = "INTERNAL"
    THEN LET c == ChildFor(t, n, key) IN InsertNode(c.t, c.child, key)
    ELSE LET pos == NextLeaf(nd, key) IN
         IF pos <= nd.nleafs /\ nd.keys[pos] = key THEN t
         ELSE [t EXCEPT !.heap[n] = ShiftInsertLeaf(@, pos, key), !.size = @ + 1]

\* The tree grows at the root.
SplitRoot(t) ==
  LET s == SplitInternal(t, t.root)
      root == [NewInternal EXCEPT !.children = <<t.root, s.sibling>>, !.keys[1] = s.key]
  IN [Create(s.t, root) EXCEPT !.root = NewPlace(s.t)]

\* fdb_btree_insert
Inserted(t, key) ==
  LET grown == IF IsFull(t.heap[t.root]) THEN SplitRoot(t) ELSE t
  IN InsertNode(grown, grown.root, key)

---------------------------------------------------------------------------
(* Removal destroys a child that has become empty and merges a child with  *)
(* its right neighbour when both fit in one node.                          *)

ShiftedKeys(keys, start) == [i \in DOMAIN keys |-> IF i >= start /\ i < Len(keys) THEN keys[i + 1] ELSE keys[i]]

\* Mutant: the child is taken out of its parent and never given back to the pool.
RemoveShiftInternal_Leaks(t, n, idx) ==
  [t EXCEPT !.heap[n].children = RemoveAt(@, idx),
            !.heap[n].keys = ShiftedKeys(@, IF idx = 1 THEN 1 ELSE idx - 1)]

\* fdb_btree_remove_shift_internal
RemoveShiftInternal(t, n, idx) ==
  LET nd == t.heap[n] IN
  DestroyNode([t EXCEPT !.heap[n].children = RemoveAt(@, idx),
                        !.heap[n].keys = ShiftedKeys(@, IF idx = 1 THEN 1 ELSE idx - 1)],
              nd.children[idx])

\* fdb_btree_remove_shift_leaf
RemoveShiftLeaf(nd, idx) == [nd EXCEPT !.keys = ShiftedKeys(@, idx), !.nleafs = @ - 1]

\* fdb_btree_merge_internal: the separator comes down only if the right node has two children.
MergeInternal(t, n, idx) ==
  LET nd == t.heap[n]
      left == t.heap[nd.children[idx]]
      right == t.heap[nd.children[idx + 1]]
      n1 == Len(left.children)
      n2 == Len(right.children)
      keys == [i \in DOMAIN left.keys |-> IF n2 <= 1 \/ i < n1 \/ i >= n1 + n2 THEN left.keys[i]
                                          ELSE IF i = n1 THEN nd.keys[idx] ELSE right.keys[i - n1]]
  IN RemoveShiftInternal(
       [t EXCEPT !.heap[nd.children[idx]].children = @ \o right.children,
                 !.heap[nd.children[idx]].keys = keys,
                 !.heap[nd.children[idx + 1]].children = <<>>,
                 !.dropped = @ \/ n2 = 1],
       n, idx + 1)

\* fdb_btree_merge_leaf
MergeLeaf(t, n, idx) ==
  LET nd == t.heap[n]
      left == t.heap[nd.children[idx]]
      right == t.heap[nd.children[idx + 1]]
      both == Leafs(left) \o Leafs(right)
  IN RemoveShiftInternal(
       [t EXCEPT !.heap[nd.children[idx]] =
          [@ EXCEPT !.nleafs = Len(both), !.next = right.next,
                    !.keys = [i \in DOMAIN @ |-> IF i <= Len(both) THEN both[i] ELSE @[i]]]],
       n, idx + 1)

\* The children of n at idx and idx + 1 become one where that is possible.
MergeIfFits(t, n, idx) ==
  LET children == t.heap[n].children IN
  IF idx >= InternalMax \/ idx + 1 > Len(children) THEN t
  ELSE LET left == t.heap[children[idx]]
           right == t.heap[children[idx + 1]]
       IN CASE left.type = "INTERNAL" /\ Len(left.children) + Len(right.children) <= InternalMax
                 -> MergeInternal(t, n, idx)
            [] left.type = "LEAF" /\ left.nleafs + right.nleafs <= LeafMax -> MergeLeaf(t, n, idx)
            [] OTHER -> t

PointedTo(t, n) == \E m \in DOMAIN t.heap : t.heap[m].type = "LEAF" /\ t.heap[m].next = n

\* A separator follows the minimum of the subtree on its right.
MinimumMoved(r, n, idx) ==
  IF idx > 1 /\ r.min_changed THEN [r.t EXCEPT !.heap[n].keys[idx - 1] = r.new_min] ELSE r.t

\* Mutant: an internal node that has lost its last child stays.
MustGo_LeafOnly(nd) == nd.type = "LEAF" /\ nd.nleafs = 0

\* A child without entries is taken out of its parent.
MustGo(nd) == IsEmptyNode(nd)

\* The rest of fdb_btree_remove_node in an internal node, after the removal in its child idx
\* returned r: the tree, and the new minimum when the caller has to know it.
AfterChild(r, n, idx) ==
  LET moved == MinimumMoved(r, n, idx)
      child == moved.heap[n].children[idx]
      empty == MustGo(moved.heap[child])
      kept == IF empty THEN [RemoveShiftInternal(moved, n, idx) EXCEPT
                               !.unlinked = @ \/ PointedTo(moved, child)]
                       ELSE moved
  IN [t |-> MergeIfFits(kept, n, idx),
      min_changed |-> idx = 1 /\ (empty \/ r.min_changed),
      new_min |-> IF idx = 1 /\ empty THEN moved.heap[n].keys[1] ELSE r.new_min]

\* fdb_btree_remove_node
RECURSIVE RemoveNode(_, _, _)
RemoveNode(t, n, key) ==
  LET nd == t.heap[n] IN
  IF nd.type = "INTERNAL"
    THEN LET idx == NextInternal(nd, key) IN AfterChild(RemoveNode(t, nd.children[idx], key), n, idx)
    ELSE LET pos == NextLeaf(nd, key)
             left == RemoveShiftLeaf(nd, pos)
         IN IF pos > nd.nleafs \/ nd.keys[pos] # key
              THEN [t |-> t, min_changed |-> FALSE, new_min |-> 0]
              ELSE [t |-> [t EXCEPT !.heap[n] = left, !.size = @ - 1],
                    min_changed |-> pos = 1, new_min |-> left.keys[1]]

\* Mutant: a root with one child gives way to it even if it is a leaf.
RootGivesWay_ToLeaf(t, root) == Len(root.children) = 1

RootGivesWay(t, root) == Len(root.children) = 1 /\ t.heap[root.children[1]].type = "INTERNAL"

\* fdb_btree_remove: a root with one internal child gives way to it.
Removed(t, key) ==
  LET after == RemoveNode(t, t.root, key).t
      root == after.heap[after.root]
  IN IF RootGivesWay(after, root)
       THEN DestroyNode([after EXCEPT !.root = root.children[1],
                                      !.heap[after.root].children = <<>>], after.root)
       ELSE after

---------------------------------------------------------------------------
(* The iterator: a leaf and a place in it.                                 *)

RECURSIVE FirstLeaf(_, _)
FirstLeaf(t, n) ==
  IF n = NULL \/ t.heap[n].type = "LEAF" THEN n
  ELSE FirstLeaf(t, IF t.heap[n].children = <<>> THEN NULL ELSE t.heap[n].children[1])

IterInit(t) == [leaf |-> FirstLeaf(t, t.root), index |-> 0]

\* A leaf's m_next may lead to a node that has been handed out again as an internal one.
IsWild(t, it) == it.leaf # NULL /\ t.heap[it.leaf].type # "LEAF"

IterHasNext(t, it) ==
  /\ it.leaf # NULL
  /\ LET nd == t.heap[it.leaf] IN
     \/ it.index < nd.nleafs
     \/ nd.next # NULL /\ (t.heap[nd.next].type = "LEAF" => t.heap[nd.next].nleafs > 0)

\* The entry returned (NULL for the entry without a value), and the iterator after it.
IterNext(t, it) ==
  LET nd == t.heap[it.leaf] IN
  IF nd.nleafs = 0 THEN [entry |-> NULL, it |-> it]
  ELSE [entry |-> nd.keys[it.index + 1],
        it |-> IF it.index + 1 >= nd.nleafs THEN [leaf |-> nd.next, index |-> 0]
                                            ELSE [it EXCEPT !.index = @ + 1]]

\* What a loop over the tree sees, cut off after "most" entries.
RECURSIVE Entries(_, _, _)
Entries(t, it, most) ==
  IF most = 0 \/ IsWild(t, it) \/ ~IterHasNext(t, it) THEN <<>>
  ELSE LET next == IterNext(t, it) IN <<next.entry>> \o Entries(t, next.it, most - 1)

Iterated(t) == Entries(t, IterInit(t), Cardinality(Keys) + 1)

---------------------------------------------------------------------------
(* Addresses carry no meaning: between operations the nodes are numbered   *)
(* along the tree, then along the free list; what nothing reads again is   *)
(* blank: a free node that no m_next leads to, the entries of a leaf past  *)
(* its last one and, as a bound, the links once one of them is wrong.      *)

RECURSIVE Preorder(_, _)
Preorder(t, n) ==
  IF t.heap[n].type = "LEAF" THEN <<n>>
  ELSE <<n>> \o FlattenSeq([i \in DOMAIN t.heap[n].children |-> Preorder(t, t.heap[n].children[i])])

Renumbered(t) ==
  LET forget == t.unlinked /\ ~KeepLinks
      known == Preorder(t, t.root) \o t.free
      order == known \o SetToSeq(DOMAIN t.heap \ Range(known))
      new(n) == IF n = NULL THEN NULL ELSE CHOOSE i \in DOMAIN order : order[i] = n
      node(n) == LET nd == t.heap[n] IN
        CASE n \in Range(t.free) /\ (forget \/ ~PointedTo(t, n)) -> NewInternal
          [] nd.type = "LEAF" -> [nd EXCEPT !.next = IF forget THEN NULL ELSE new(@),
                                            !.keys = Lower(@, nd.nleafs)]
          [] OTHER -> [nd EXCEPT !.children = [i \in DOMAIN @ |-> new(@[i])]]
  IN [t EXCEPT !.heap = [i \in DOMAIN order |-> node(order[i])], !.root = new(@),
               !.free = [i \in DOMAIN @ |-> new(@[i])]]

---------------------------------------------------------------------------
Init == btree = EmptyTree /\ present = {}

\* An insertion of a key that is there leaves its value, but may split nodes on its way.
\* Bound: a history is followed until a merge has lost a separator.
InsertKey(key) ==
  /\ ~btree.dropped
  /\ btree' = Renumbered(Inserted(btree, key))
  /\ present' = present \cup {key}

\* Every caller has found the key first.
RemoveKey(key) ==
  /\ ~btree.dropped
  /\ Get(btree, key)
  /\ btree' = Renumbered(Removed(btree, key))
  /\ present' = present \ {key}

ClearTree == btree' = Renumbered(Cleared(btree)) /\ present' = {}

Next == (\E key \in Keys : InsertKey(key) \/ RemoveKey(key)) \/ ClearTree

Spec == Init /\ [][Next]_vars

---------------------------------------------------------------------------
RECURSIVE NodesBelow(_, _)
NodesBelow(t, n) ==
  IF t.heap[n].type = "LEAF" THEN {n}
  ELSE {n} \cup UNION {NodesBelow(t, c) : c \in Range(t.heap[n].children)}

RECURSIVE LeafDepths(_, _)
LeafDepths(t, n) ==
  IF t.heap[n].type = "LEAF" THEN {0}
  ELSE {d + 1 : d \in UNION {LeafDepths(t, c) : c \in Range(t.heap[n].children)}}

LiveNodes(t) == NodesBelow(t, t.root)

\* The sequence lists the keys in order, each once.
Lists(seq, keys) ==
  /\ Range(seq) = keys /\ Len(seq) = Cardinality(keys)
  /\ \A i \in 1..(Len(seq) - 1) : seq[i] < seq[i + 1]

\* Every node has the shape of its kind, in the bounds of its arrays.
BTreeTypeOK ==
  /\ present \subseteq Keys
  /\ btree.root \in DOMAIN btree.heap /\ btree.heap[btree.root].type = "INTERNAL"
  /\ btree.size \in Nat /\ btree.dropped \in BOOLEAN /\ btree.unlinked \in BOOLEAN
  /\ \A n \in DOMAIN btree.heap : LET nd == btree.heap[n] IN
       IF nd.type = "LEAF" THEN nd.nleafs \in 0..LeafMax /\ nd.next \in {NULL} \cup DOMAIN btree.heap
                           ELSE Range(nd.children) \subseteq DOMAIN btree.heap
                                /\ Len(nd.children) <= InternalMax

\* fdb_btree_get finds exactly the keys inserted and not removed, through every split and
\* merge, and the tree counts them: as long as no merge has lost a separator.
LookupIsTheMap ==
  ~btree.dropped => /\ \A key \in Keys : Get(btree, key) <=> key \in present
                    /\ btree.size = Cardinality(present)

\* A loop with the iterator returns the keys in order, each once: as long as no leaf was
\* taken out that a neighbour still points to, and no separator was lost.
IterationIsTheMap ==
  ~btree.dropped /\ ~btree.unlinked => Lists(Iterated(btree), present)

\* Every node of the pool is in the tree or on the free list, never both and never twice:
\* nothing leaks and nothing is freed twice, whatever is removed.
NodesAccountedFor ==
  /\ LiveNodes(btree) \cup Range(btree.free) = DOMAIN btree.heap
  /\ LiveNodes(btree) \cap Range(btree.free) = {}
  /\ IsInjective(btree.free)

\* All leaves are equally deep, and only the root may be without children.
Balanced ==
  /\ Cardinality(LeafDepths(btree, btree.root)) <= 1
  /\ \A n \in LiveNodes(btree) \ {btree.root} : ~IsEmptyNode(btree.heap[n])

\* The nodes form one tree of even depth, and those outside it are free.
NodesSound == NodesAccountedFor /\ Balanced

\* btree.h of fdb_btree_get: a pointer to the element with the key, nullptr if it does not
\* exist; after any removals, a merge that loses a separator included.
EveryKeyFound == \A key \in present : Get(btree, key)

\* btree.h of fdb_btree_iter_has_next: true if there are more items to iterate, false
\* otherwise; and every item is one of the tree's.
IterationReturnsItems == ~btree.dropped => Lists(Iterated(btree), present)
===========================================================================

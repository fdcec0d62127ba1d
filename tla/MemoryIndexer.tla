--------------------------- MODULE MemoryIndexer ---------------------------
(***************************************************************************)
(* The memory indexer (lib/memory_indexer): a map from addresses to        *)
(* pointers on the AVL tree of lib/avltree.                                *)
(*   tree    root, and for every key in the tree its node: p, l, r the     *)
(*           links (0 for NULL), bf the balance factor (height of the      *)
(*           right subtree less that of the left), value the pointer       *)
(*   items   history: what was set and not removed                         *)
(*   freed   the count memory_indexer_free has returned, and what was due  *)
(* A node is known by its key.  bf shares a word with the parent link and  *)
(* has two bits for bf + 1; fits tells that no other value was written.    *)
(***************************************************************************)
EXTENDS Integers, FiniteSets

CONSTANTS IndexKey,               \* keys, integers above 0
          IndexValue

VARIABLES tree, items, freed
indexerVars == <<tree, items, freed>>

Nil == 0
Absolute(n) == IF n < 0 THEN -n ELSE n
Larger(a, b) == IF a > b THEN a ELSE b

EmptyTree == [root |-> Nil, fits |-> TRUE, node |-> [k \in {} |-> Nil]]
InTree(t) == DOMAIN t.node

Link(t, n, side) == IF side = "l" THEN t.node[n].l ELSE t.node[n].r
SetLink(t, n, side, m) ==
    IF side = "l" THEN [t EXCEPT !.node[n].l = m] ELSE [t EXCEPT !.node[n].r = m]
SetParent(t, n, m) == IF n = Nil THEN t ELSE [t EXCEPT !.node[n].p = m]
SetBf(t, n, bf) == [t EXCEPT !.node[n].bf = bf, !.fits = @ /\ bf \in -1 .. 2]
Bf(t, n) == IF n = Nil THEN 0 ELSE t.node[n].bf
Opposite(side) == IF side = "l" THEN "r" ELSE "l"
Sign(side) == IF side = "l" THEN 1 ELSE -1
SideOf(t, p, n) == IF t.node[p].r = n THEN "r" ELSE "l"
IsLeaf(t, n) == t.node[n].l = Nil /\ t.node[n].r = Nil

-----------------------------------------------------------------------------
\* _rotate_LL (side "l") and _rotate_RR ("r"): the child on that side goes above
\* its parent.  Heights are relative; one of the child's subtrees gives the base.
Rotate(t, parent, side, parentBf, childBf) ==
    LET s == Sign(side)
        child == Link(t, parent, side)
        inner == Link(t, child, Opposite(side))
        base(n) == IF n = Nil THEN 0 ELSE 1
        lean == s * childBf
        far == IF lean < 0 THEN base(inner) ELSE base(Link(t, child, side)) + lean
        near == IF lean < 0 THEN base(inner) - lean ELSE base(Link(t, child, side))
        other == Larger(near, far) + 1 + s * parentBf
        below == Larger(far, other) + 1
        linked == SetLink(SetLink(SetParent(t, inner, parent), parent, side, inner),
                          child, Opposite(side), parent)
        moved == SetParent(SetParent(linked, child, t.node[parent].p), parent, child)
    IN  [t |-> SetBf(moved, parent, s * (other - far)), top |-> child,
         bf |-> s * (below - near),
         delta |-> Larger(near, below) - (Larger(near, far) + 1)]

\* The tree with the node on top of a rotation given its balance factor.
Settled(r) == [t |-> SetBf(r.t, r.top, r.bf), top |-> r.top]

RotateOnce(t, parent, side, parentBf) ==
    Settled(Rotate(t, parent, side, parentBf, Bf(t, Link(t, parent, side))))

\* _rotate_LR, _rotate_RL: the child is rotated the other way first.
RotateAfter(first, parent, side, parentBf) ==
    Rotate(SetLink(first.t, parent, side, first.top), parent, side,
           parentBf - Sign(side) * first.delta, first.bf)

RotateTwice(t, parent, side, parentBf) ==
    LET child == Link(t, parent, side)
        inner == Link(t, child, Opposite(side))
    IN  IF inner = Nil THEN RotateOnce(t, parent, side, parentBf)
        ELSE Settled(RotateAfter(Rotate(t, child, Opposite(side), Bf(t, child), Bf(t, inner)),
                                 parent, side, parentBf))

\* _balance_tree: node's subtrees have changed in height by bf.
Balance(t, node, bf) ==
    LET diff == Bf(t, node) + bf
        side == IF diff < -1 THEN "l" ELSE "r"
        heavy == Link(t, node, side)
    IN  IF diff \in -1 .. 1 \/ heavy = Nil
        THEN [t |-> SetBf(t, node, diff), top |-> node]
        ELSE IF Sign(side) * Bf(t, heavy) <= 0 THEN RotateOnce(t, node, side, diff)
        ELSE RotateTwice(t, node, side, diff)

\* The balancing loops of avl_insert (grown) and avl_remove: from node to the root
\* as long as the height changes.
\* Faulty variant of HeightChanged: a rotated subtree is taken to keep its height.
HeightChangedUnrotated(t, old, node, before, grown) ==
    \/ IsLeaf(t, node)
    \/ /\ node = old
       /\ IF grown THEN Absolute(before) < Absolute(Bf(t, node))
          ELSE Absolute(before) > Absolute(Bf(t, node))

HeightChanged(t, old, node, before, grown) ==
    \/ IsLeaf(t, node)
    \/ IF grown THEN Absolute(before) < Absolute(Bf(t, node))
       ELSE Absolute(before) > Absolute(Bf(t, node))

RECURSIVE Climb(_, _, _, _)
Climb(t, node, bf, grown) ==
    IF node = Nil THEN t
    ELSE LET p == t.node[node].p
             b == Balance(t, node, bf)
             side == SideOf(t, p, node)
             u == SetLink(b.t, p, side, b.top)
             up == IF grown THEN -Sign(side) ELSE Sign(side)
         IN  IF p = Nil THEN [b.t EXCEPT !.root = b.top]
             ELSE IF HeightChanged(u, node, b.top, Bf(t, node), grown)
             THEN Climb(u, p, up, grown)
             ELSE u

-----------------------------------------------------------------------------
\* avl_first, avl_last below a node; avl_next, avl_prev.
RECURSIVE Extreme(_, _, _)
Extreme(t, n, side) ==
    IF n = Nil \/ Link(t, n, side) = Nil THEN n ELSE Extreme(t, Link(t, n, side), side)

RECURSIVE FirstFrom(_, _, _)
FirstFrom(t, n, side) ==
    LET p == t.node[n].p
    IN  IF p = Nil THEN Nil ELSE IF Link(t, p, side) = n THEN p ELSE FirstFrom(t, p, side)

Neighbour(t, n, side) ==
    IF n = Nil THEN Nil
    ELSE IF Link(t, n, side) # Nil THEN Extreme(t, Link(t, n, side), Opposite(side))
    ELSE FirstFrom(t, n, Opposite(side))
avl_next(t, n) == Neighbour(t, n, "r")
avl_prev(t, n) == Neighbour(t, n, "l")

\* The last node on the way to a key: the key itself if it is there.
RECURSIVE Descend(_, _, _)
Descend(t, n, k) ==
    LET m == IF n > k THEN t.node[n].l ELSE t.node[n].r
    IN  IF n = k \/ m = Nil THEN n ELSE Descend(t, m, k)

LastOnWay(t, k) == IF t.root = Nil THEN Nil ELSE Descend(t, t.root, k)

avl_search(t, k) == IF LastOnWay(t, k) = k THEN k ELSE Nil
avl_search_greater(t, k) ==
    LET n == LastOnWay(t, k) IN IF n = Nil \/ n >= k THEN n ELSE avl_next(t, n)
avl_search_smaller(t, k) ==
    LET n == LastOnWay(t, k) IN IF n = Nil \/ n <= k THEN n ELSE avl_prev(t, n)

avl_insert(t, k, v) ==
    LET p == LastOnWay(t, k)
        fresh == [p |-> p, l |-> Nil, r |-> Nil, bf |-> 0, value |-> v]
        added == [t EXCEPT !.node = [x \in InTree(t) \cup {k} |->
                                         IF x = k THEN fresh ELSE t.node[x]]]
        hung == IF p = Nil THEN [added EXCEPT !.root = k]
                ELSE SetLink(added, p, IF p > k THEN "l" ELSE "r", k)
    IN  IF p = k THEN t ELSE Climb(hung, k, 0, TRUE)

-----------------------------------------------------------------------------
\* avl_remove: the smallest node of the right subtree takes the place of node.
Replace(t, node, new) ==
    LET p == t.node[node].p
        u == IF p = Nil THEN t ELSE SetLink(t, p, SideOf(t, p, node), new)
    IN  IF t.root = node THEN [u EXCEPT !.root = new] ELSE u

\* Faulty variant of TakeOut: what hangs below the successor is lost.
TakeOutAlone(t, next) == SetLink(t, t.node[next].p, "l", Nil)

\* The successor leaves its parent, of which it is the left child.
TakeOut(t, next) ==
    LET p == t.node[next].p
        below == t.node[next].r
    IN  SetParent(SetLink(t, p, "l", below), below, p)

WithoutNode(t, n) == [t EXCEPT !.node = [x \in InTree(t) \ {n} |-> t.node[x]]]

avl_remove(t, node) ==
    LET e == t.node[node]
        next == Extreme(t, e.r, "l")
        direct == next = e.r
        out == IF direct THEN t ELSE TakeOut(t, next)
        right == IF direct THEN out
                 ELSE SetParent(SetLink(out, next, "r", e.r), e.r, next)
        put == SetParent(SetLink(SetParent(Replace(right, node, next), e.l, next),
                                 next, "l", e.l), next, e.p)
        gone == SetParent(Replace(t, node, e.l), e.l, e.p)
    IN  IF next # Nil
        THEN Climb(WithoutNode(SetBf(put, next, e.bf), node),
                   IF direct THEN next ELSE t.node[next].p, IF direct THEN -1 ELSE 1, FALSE)
        ELSE Climb(WithoutNode(gone, node), e.p,
                   IF e.p = Nil THEN 0 ELSE Sign(SideOf(t, e.p, node)), FALSE)

-----------------------------------------------------------------------------
\* memory_indexer_free: the next node is looked up before a node is removed.
RECURSIVE FreeFrom(_, _, _)
FreeFrom(t, n, x) ==
    IF n = Nil THEN [tree |-> t, x |-> x]
    ELSE FreeFrom(avl_remove(t, n), avl_next(t, n), x + 1)

Removed(t, k) == IF avl_search(t, k) = Nil THEN t ELSE avl_remove(t, k)

IndexerInit == tree = EmptyTree /\ items = [k \in {} |-> Nil] /\ freed = [x |-> 0, due |-> 0]

memory_indexer_set(k, v) ==
    /\ tree' = avl_insert(Removed(tree, k), k, v)
    /\ items' = [x \in DOMAIN items \cup {k} |-> IF x = k THEN v ELSE items[x]]
    /\ UNCHANGED freed

memory_indexer_remove(k) ==
    /\ tree' = Removed(tree, k)
    /\ items' = [x \in DOMAIN items \ {k} |-> items[x]]
    /\ UNCHANGED freed

memory_indexer_free ==
    LET all == FreeFrom(tree, Extreme(tree, tree.root, "l"), 0)
    IN  /\ tree' = all.tree
        /\ items' = [k \in {} |-> Nil]
        /\ freed' = [x |-> all.x, due |-> Cardinality(DOMAIN items)]

IndexerNext ==
    \/ \E k \in IndexKey, v \in IndexValue : memory_indexer_set(k, v)
    \/ \E k \in IndexKey : memory_indexer_remove(k)
    \/ memory_indexer_free

-----------------------------------------------------------------------------
RECURSIVE Height(_, _)
Height(t, n) ==
    IF n = Nil THEN 0 ELSE 1 + Larger(Height(t, t.node[n].l), Height(t, t.node[n].r))

RECURSIVE Below(_, _)
Below(t, n) ==
    IF n = Nil THEN {} ELSE {n} \cup Below(t, t.node[n].l) \cup Below(t, t.node[n].r)

\* Whatever is set and removed, and in whatever order, the tree has every node once
\* and in its place, its links agree, every balance factor tells the heights of the
\* subtrees and stays within one, and no rotation writes one that two bits cannot
\* hold.  (avl_insert, avl_remove, the rotations)
BalancedSearchTree ==
    /\ Below(tree, tree.root) = InTree(tree)
    /\ tree.root # Nil => tree.node[tree.root].p = Nil
    /\ tree.fits
    /\ \A n \in InTree(tree) :
          LET e == tree.node[n]
          IN  /\ \A m \in {e.l, e.r} \ {Nil} : tree.node[m].p = n
              /\ \A m \in Below(tree, e.l) : m < n
              /\ \A m \in Below(tree, e.r) : m > n
              /\ e.bf = Height(tree, e.r) - Height(tree, e.l)
              /\ e.bf \in -1 .. 1

\* The indexer answers as the map of what was set: every key is found with its
\* value, the searches beside a key find its neighbours, and freeing it finds all.
AnswersLikeAMap ==
    LET Upper(k) == {x \in DOMAIN items : x >= k}
        Lower(k) == {x \in DOMAIN items : x <= k}
    IN  /\ InTree(tree) = DOMAIN items
        /\ \A k \in DOMAIN items : tree.node[k].value = items[k]
        /\ \A k \in IndexKey :
              /\ avl_search(tree, k) = IF k \in DOMAIN items THEN k ELSE Nil
              /\ \A x \in Upper(k) : avl_search_greater(tree, k) \in Upper(k)
                                     /\ avl_search_greater(tree, k) <= x
              /\ \A x \in Lower(k) : avl_search_smaller(tree, k) \in Lower(k)
                                     /\ avl_search_smaller(tree, k) >= x
        /\ freed.x = freed.due
=============================================================================

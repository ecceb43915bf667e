------------------------------- MODULE RbTree -------------------------------
(***************************************************************************)
(* The intrusive red-black tree of kernel/src/memory/rbtree.rs: nodes with *)
(* pointers to parent and children, a colour and an augmented value that   *)
(* is None while it is out of date.  insert_raw and remove_raw are steps   *)
(* of one iteration of their loops; what runs between the loops is one     *)
(* step.  The augmented value of a node is the term of its subtree, the    *)
(* value every Augment is a function of; a value is its key and whether    *)
(* pairwise_merge has changed it.  A node out of the tree keeps     *)
(* nothing: place() overwrites all of its fields.                          *)
(***************************************************************************)
EXTENDS Naturals, FiniteSets, Sequences

CONSTANTS
  MaxNodes,   \* bound: nodes there are
  MaxMerge,   \* bound: nodes of a tree that is merged, or has been
  Key,        \* Key[n]: what cmp compares; keys may be equal
  Merges(_, _),   \* merge_fn of pairwise_merge, on keys
  None        \* no augmented value

ASSUME RbTreeAssumption ==
  /\ MaxNodes \in Nat /\ MaxMerge \in Nat
  /\ \A n \in 1 .. MaxNodes : Key[n] \in Nat

Nil == 0
Node == 1 .. MaxNodes
Pointer == Node \cup {Nil}
Not(dir) == IF dir = "Left" THEN "Right" ELSE "Left"

VARIABLES
  tree,    \* the nodes' fields, and the RbTree's head
  inside,  \* the nodes whose ownership is the tree's
  pc,      \* "idle", or in the loop of recolor(), remove_fixup() or
           \* pairwise_merge(), or about to call update_augments()
  at,      \* recolor's node, remove_fixup's parent
  side,    \* remove_fixup's deficit_side
  merging  \* pairwise_merge's node

vars == <<tree, inside, pc, at, side, merging>>

Init ==
  /\ tree = [head   |-> Nil,
             color  |-> [n \in Node |-> "Red"],
             parent |-> [n \in Node |-> Nil],
             child  |-> [dir \in {"Left", "Right"} |-> [n \in Node |-> Nil]],
             value  |-> [n \in Node |-> "new"],
             aug    |-> [n \in Node |-> None]]
  /\ inside = {}
  /\ pc = "idle"
  /\ at = Nil
  /\ side = "Left"
  /\ merging = Nil

-----------------------------------------------------------------------------
(* RbNode *)

Color(t, n) == IF n = Nil THEN "Black" ELSE t.color[n]
Aug(t, n) == IF n = Nil THEN None ELSE t.aug[n]
Parent(t, n) == IF n = Nil THEN Nil ELSE t.parent[n]
Paint(t, n, color) == [t EXCEPT !.color[n] = color]
SwapColors(t, m, n) == [t EXCEPT !.color[m] = t.color[n], !.color[n] = t.color[m]]
ChildDir(t, n, child) == IF t.child["Left"][n] = child THEN "Left" ELSE "Right"

(* Bug: only the node itself is marked. *)
BugMarksOne(t, n) == [t EXCEPT !.aug = [m \in Node |-> IF m = n THEN None ELSE @[m]]]

(* mark_dirty: upwards, as far as the values are not out of date already. *)
MarkDirty(t, n) ==
  LET above[m \in Pointer] ==
        IF Aug(t, m) = None THEN {} ELSE {m} \cup above[t.parent[m]]
  IN  [t EXCEPT !.aug = [m \in Node |-> IF m \in above[n] THEN None ELSE @[m]]]

SetChild(t, n, dir, value) ==
  LET marked == MarkDirty([t EXCEPT !.child[dir][n] = value], n)
  IN  IF value = Nil THEN marked ELSE [marked EXCEPT !.parent[value] = n]

ReplaceNode(t, n, replacement) ==
  LET parent == t.parent[n]
      atHead == [t EXCEPT !.head = replacement]
  IN  CASE parent # Nil -> SetChild(t, parent, ChildDir(t, parent, n), replacement)
        [] parent = Nil /\ replacement = Nil -> atHead
        [] OTHER -> [atHead EXCEPT !.parent[replacement] = Nil]

(* update_augments: down to the values that are out of date through others *)
(* that are, and back up.                                                  *)
UpdateAugments(t) ==
  LET visited[n \in Pointer] ==
        n # Nil /\ Aug(t, n) = None /\ (n = t.head \/ visited[t.parent[n]])
      value[n \in Pointer] ==
        IF n # Nil /\ Aug(t, n) = None
        THEN <<value[t.child["Left"][n]], n, t.value[n], value[t.child["Right"][n]]>>
        ELSE Aug(t, n)
  IN  [t EXCEPT !.aug = [n \in Node |-> IF visited[n] THEN value[n] ELSE @[n]]]

-----------------------------------------------------------------------------
(* insert_raw *)

(* Where place() hangs the node: below the last node of the search path. *)
PlaceDir(n, parent) == IF Key[n] <= Key[parent] THEN "Left" ELSE "Right"

PlaceParent(t, n) ==
  LET last[m \in Node] ==
        LET next == t.child[PlaceDir(n, m)][m]
        IN  IF next = Nil THEN m ELSE last[next]
  IN  IF t.head = Nil THEN Nil ELSE last[t.head]

Place(t, n) ==
  LET parent == PlaceParent(t, n)
      linked == IF parent = Nil THEN [t EXCEPT !.head = n]
                ELSE [t EXCEPT !.child[PlaceDir(n, parent)][parent] = n]
  IN  [linked EXCEPT !.color[n] = "Red", !.child["Left"][n] = Nil,
                     !.child["Right"][n] = Nil, !.aug[n] = None, !.parent[n] = parent,
                     !.value[n] = "new"]

Insert(n) ==
  /\ pc = "idle"
  /\ n \notin inside
  /\ Cardinality(inside) < MaxMerge \/ \A m \in inside : tree.value[m] = "new"
  /\ LET placed == Place(tree, n) IN tree' = MarkDirty(placed, placed.parent[n])
  /\ inside' = inside \cup {n}
  /\ pc' = "recolor"
  /\ at' = n
  /\ UNCHANGED <<side, merging>>

(* rotate(): node and parent are red. *)
Rotate(t, n) ==
  LET parent      == t.parent[n]
      grandparent == t.parent[parent]
      s           == ChildDir(t, grandparent, parent)
      inner       == s # ChildDir(t, parent, n)
      (* node and parent change places when node is the inner grandchild *)
      t1 == SetChild(t, grandparent, s, n)
      t2 == SetChild(t1, n, s, parent)
      t3 == IF inner THEN SetChild(t2, parent, Not(s), t.child[s][n]) ELSE t
      top     == IF inner THEN n ELSE parent
      sibling == t3.child[Not(s)][top]
      t4 == ReplaceNode(t3, grandparent, top)
      t5 == SetChild(t4, top, Not(s), grandparent)
      t6 == SetChild(t5, grandparent, s, sibling)
  IN  IF grandparent = Nil THEN Paint(t, parent, "Black")
      ELSE Paint(Paint(t6, top, "Black"), grandparent, "Red")

Uncle(t, n) ==
  LET grandparent == Parent(t, Parent(t, n))
  IN  IF grandparent = Nil THEN Nil
      ELSE t.child[Not(ChildDir(t, grandparent, t.parent[n]))][grandparent]

(* An iteration of recolor(); the last one goes on to rotate(). *)
Recolor ==
  /\ pc = "recolor"
  /\ LET parent == tree.parent[at]
         uncle  == Uncle(tree, at)
     IN  \/ /\ Color(tree, parent) = "Red" /\ Color(tree, uncle) = "Red"
            /\ tree' = [tree EXCEPT !.color[tree.parent[parent]] = "Red",
                                    !.color[parent] = "Black", !.color[uncle] = "Black"]
            /\ at' = tree.parent[parent]
            /\ UNCHANGED pc
         \/ /\ ~ (Color(tree, parent) = "Red" /\ Color(tree, uncle) = "Red")
            /\ tree' = IF Color(tree, parent) = "Red" THEN Rotate(tree, at) ELSE tree
            /\ pc' = "augment"
            /\ UNCHANGED at
  /\ UNCHANGED <<inside, side, merging>>

-----------------------------------------------------------------------------
(* remove_raw *)

SuccessorChild(t, n) ==
  LET leftmost[m \in Node] ==
        IF t.child["Left"][m] = Nil THEN m ELSE leftmost[t.child["Left"][m]]
  IN  leftmost[t.child["Right"][n]]

(* unplace: the tree without the node, and where the invariants broke. *)
Unplace(t, n) ==
  LET left  == t.child["Left"][n]
      right == t.child["Right"][n]
      only  == IF left = Nil THEN right ELSE left
      succ  == SuccessorChild(t, n)
      below == t.child["Right"][succ]
      t1 == ReplaceNode(t, succ, below)
      t2 == ReplaceNode(t1, n, succ)
      t3 == SetChild(t2, succ, "Left", t2.child["Left"][n])
      t4 == SetChild(t3, succ, "Right", t3.child["Right"][n])
  IN  IF left = Nil \/ right = Nil
      THEN [tree |-> ReplaceNode(t, n, only), parent |-> t.parent[n],
            child |-> only, color |-> t.color[n]]
      ELSE [tree |-> SwapColors(t4, n, succ),
            parent |-> IF t.parent[succ] = n THEN succ ELSE t.parent[succ],
            child |-> below, color |-> t.color[succ]]

Forget(t, n) ==
  [t EXCEPT !.color[n] = "Red", !.parent[n] = Nil, !.child["Left"][n] = Nil,
            !.child["Right"][n] = Nil, !.aug[n] = None, !.value[n] = "new"]

(* remove_raw up to the loop of remove_fixup. *)
RemoveRaw(before, n) ==
  /\ inside' = inside \ {n}
  /\ LET u == Unplace(before, n)
         t == Forget(u.tree, n)
     IN  \/ /\ u.color = "Black" /\ u.child = Nil /\ u.parent # Nil
            /\ tree' = t
            /\ pc' = "fixup"
            /\ at' = u.parent
            /\ side' = IF t.child["Left"][u.parent] = Nil THEN "Left" ELSE "Right"
         \/ /\ u.color = "Red" \/ u.child # Nil \/ u.parent = Nil
            /\ tree' = IF u.color = "Black" /\ u.child # Nil
                       THEN Paint(t, u.child, "Black") ELSE t
            /\ pc' = "augment"
            /\ UNCHANGED <<at, side>>

Remove(n) == pc = "idle" /\ n \in inside /\ RemoveRaw(tree, n) /\ UNCHANGED merging

(* A red sibling is rotated above the parent, and its inner child becomes  *)
(* the sibling.                                                            *)
BlackSibling(t) ==
  LET sibling == t.child[Not(side)][at]
      t1 == ReplaceNode(t, at, sibling)
      t2 == SetChild(t1, sibling, side, at)
      t3 == SetChild(t2, at, Not(side), t.child[side][sibling])
  IN  IF Color(t, sibling) = "Red" THEN SwapColors(t3, sibling, at) ELSE t

(* Bug: the colour of the outer child is not looked at. *)
BugOuterStays(t) == t

(* A red inner child is rotated above a sibling whose outer child is black. *)
RedOuterChild(t) ==
  LET sibling == t.child[Not(side)][at]
      inner   == t.child[side][sibling]
      t1 == SetChild(t, at, Not(side), inner)
      t2 == SetChild(t1, inner, Not(side), sibling)
      t3 == SetChild(t2, sibling, side, t.child[Not(side)][inner])
  IN  IF Color(t, t.child[Not(side)][sibling]) = "Black"
      THEN SwapColors(t3, sibling, inner) ELSE t

(* The sibling is rotated to the top. *)
RotateSibling(t) ==
  LET sibling == t.child[Not(side)][at]
      t1 == ReplaceNode(t, at, sibling)
      t2 == SetChild(t1, sibling, side, at)
      t3 == SetChild(t2, at, Not(side), t.child[side][sibling])
  IN  [t3 EXCEPT !.color[sibling] = t.color[at], !.color[at] = "Black",
                 !.color[t.child[Not(side)][sibling]] = "Black"]

(* An iteration of remove_fixup(). *)
RemoveFixup ==
  /\ pc = "fixup"
  /\ LET t       == BlackSibling(tree)
         sibling == t.child[Not(side)][at]
         parent  == t.parent[at]
         childless == \A dir \in {"Left", "Right"} : Color(t, t.child[dir][sibling]) = "Black"
     IN  \/ /\ childless /\ t.color[at] = "Black" /\ parent # Nil
            /\ tree' = Paint(t, sibling, "Red")
            /\ side' = ChildDir(t, parent, at)
            /\ at' = parent
            /\ UNCHANGED pc
         \/ /\ childless /\ (t.color[at] = "Red" \/ parent = Nil)
            /\ tree' = Paint(Paint(t, sibling, "Red"), at, "Black")
            /\ pc' = "augment"
            /\ UNCHANGED <<at, side>>
         \/ /\ ~ childless
            /\ tree' = RotateSibling(RedOuterChild(t))
            /\ pc' = "augment"
            /\ UNCHANGED <<at, side>>
  /\ UNCHANGED <<inside, merging>>

(* The end of insert_raw and remove_raw; pairwise_merge then goes on at    *)
(* its node, whose value has changed.                                      *)
Augments ==
  /\ pc = "augment"
  /\ tree' = MarkDirty(UpdateAugments(tree), merging)
  /\ pc' = IF merging = Nil THEN "idle" ELSE "merge"
  /\ at' = Nil
  /\ side' = "Left"
  /\ UNCHANGED <<inside, merging>>

-----------------------------------------------------------------------------
(* Search and iteration *)

find(t, k) ==
  LET search[n \in Pointer] ==
        IF n = Nil \/ Key[n] = k THEN n
        ELSE search[t.child[IF Key[n] > k THEN "Left" ELSE "Right"][n]]
  IN  search[t.head]

(* Bug: the search stops at the first node that is large enough. *)
BugFirstCandidate(t, k) ==
  LET search[n \in Pointer] ==
        IF n = Nil \/ Key[n] >= k THEN n ELSE search[t.child["Right"][n]]
  IN  search[t.head]

(* lower_bound with a closure that holds from some key on. *)
lower_bound(t, k) ==
  LET search[n \in Pointer, candidate \in Pointer] ==
        CASE n = Nil -> candidate
          [] n # Nil /\ Key[n] >= k -> search[t.child["Left"][n], n]
          [] OTHER -> search[t.child["Right"][n], candidate]
  IN  search[t.head, Nil]

lowest_node(t) ==
  LET leftmost[n \in Node] ==
        IF t.child["Left"][n] = Nil THEN n ELSE leftmost[t.child["Left"][n]]
  IN  IF t.head = Nil THEN Nil ELSE leftmost[t.head]

successor(t, n) ==
  LET up[m \in Node] ==
        LET parent == t.parent[m]
        IN  IF parent = Nil \/ t.child["Left"][parent] = m THEN parent ELSE up[parent]
  IN  IF t.child["Right"][n] = Nil THEN up[n] ELSE SuccessorChild(t, n)

(* What iter() visits from a node on. *)
visits(t, n) ==
  LET from[m \in Pointer] == IF m = Nil THEN <<>> ELSE <<m>> \o from[successor(t, m)]
  IN  from[n]

-----------------------------------------------------------------------------
(* pairwise_merge *)

PairwiseMerge ==
  /\ pc = "idle" /\ tree.head # Nil
  /\ Cardinality(inside) <= MaxMerge
  /\ merging' = lowest_node(tree)
  /\ pc' = "merge"
  /\ UNCHANGED <<tree, inside, at, side>>

(* merge_fn returned true: it changed the left value, the right is removed *)
(* (and its node is not freed).                                            *)
Merge ==
  LET succ == successor(tree, merging)
  IN  /\ pc = "merge" /\ succ # Nil /\ Merges(Key[merging], Key[succ])
      /\ RemoveRaw([tree EXCEPT !.value[merging] = "merged"], succ)
      /\ UNCHANGED merging

MergeNext ==
  LET succ == successor(tree, merging)
  IN  /\ pc = "merge" /\ succ # Nil /\ ~ Merges(Key[merging], Key[succ])
      /\ merging' = succ
      /\ UNCHANGED <<tree, inside, pc, at, side>>

Merged ==
  /\ pc = "merge" /\ successor(tree, merging) = Nil
  /\ merging' = Nil
  /\ pc' = "augment"
  /\ UNCHANGED <<tree, inside, at, side>>

Next ==
  \/ \E n \in Node : Insert(n) \/ Remove(n)
  \/ Recolor \/ RemoveFixup \/ Augments
  \/ PairwiseMerge \/ Merge \/ MergeNext \/ Merged

Spec == Init /\ [][Next]_vars

-----------------------------------------------------------------------------
(* The node and those above it. *)
PathUp(n) ==
  LET path[m \in Pointer] == IF m = Nil THEN {} ELSE {m} \cup path[tree.parent[m]]
  IN  path[n]

(* Between calls the tree is a search tree of exactly the nodes given to   *)
(* it, no red node has a red child, and every way down passes the same     *)
(* number of black nodes: what tree_check of the tests looks at, for every *)
(* sequence of insertions and removals.  The loops that lead there find    *)
(* the sibling and the uncle they go on with.                              *)
TreeExact ==
  pc = "idle" =>
    LET black(n) == Cardinality({m \in PathUp(n) : tree.color[m] = "Black"})
        open == {n \in inside : \E dir \in {"Left", "Right"} : tree.child[dir][n] = Nil}
    IN  /\ inside = {n \in Node : tree.head \in PathUp(n)}
        /\ \A n \in inside : \A dir \in {"Left", "Right"} :
             LET c == tree.child[dir][n]
             IN  c # Nil => /\ tree.parent[c] = n
                            /\ tree.color[n] = "Red" => tree.color[c] = "Black"
        /\ \A n \in inside : \A m \in PathUp(n) \ {n} :
             LET under == tree.child["Left"][m] \in PathUp(n)
             IN  IF under THEN Key[n] <= Key[m] ELSE Key[n] >= Key[m]
        /\ \A m, n \in open : black(m) = black(n)

(* Between calls every augmented value is there and is the one of the      *)
(* subtree as it is now: mark_dirty, which stops early, and                *)
(* update_augments, which looks only below values out of date, leave none  *)
(* behind.                                                                 *)
AugmentsExact ==
  pc = "idle" =>
    \A n \in inside :
      tree.aug[n] = <<Aug(tree, tree.child["Left"][n]), n, tree.value[n],
                      Aug(tree, tree.child["Right"][n])>>

(* Between calls iter() visits every node once and in order, find() finds  *)
(* a node whenever there is one, and lower_bound() returns the first node  *)
(* in that order that is large enough, also among equal keys: what the     *)
(* users of the tree (BandedRegion, SpanAlloc) take a tree to be.  While   *)
(* pairwise_merge removes nodes, what it has yet to visit is what is left. *)
SearchExact ==
  LET order == visits(tree, lowest_node(tree))
  IN  /\ pc \in {"idle", "merge"} =>
           /\ Len(order) = Cardinality(inside) /\ {order[i] : i \in DOMAIN order} = inside
           /\ \A i \in 1 .. Len(order) - 1 : Key[order[i]] <= Key[order[i + 1]]
      /\ pc = "idle" =>
           \A k \in {Key[n] : n \in Node} :
             LET enough == {i \in DOMAIN order : Key[order[i]] >= k}
             IN  /\ IF \E n \in inside : Key[n] = k
                    THEN find(tree, k) \in inside /\ Key[find(tree, k)] = k
                    ELSE find(tree, k) = Nil
                 /\ IF enough = {} THEN lower_bound(tree, k) = Nil
                    ELSE \E i \in enough : order[i] = lower_bound(tree, k) /\ \A j \in enough : i <= j
      /\ pc = "merge" => merging \in inside
=============================================================================

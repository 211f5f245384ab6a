-------------------------------- MODULE MergeTree --------------------------------
(***************************************************************************)
(* The binary merge tree of sort's internal sort: how sort.c lays out the  *)
(* nodes of the tree, the lines each node is responsible for and the       *)
(* regions of the line table they are merged through.                      *)
(*                                                                         *)
(* sort.c keeps the lines in reverse order, below a pointer "just past the *)
(* end" of an array.  Here an address counts lines from that pointer       *)
(* downwards: address 0 is lines[-1], and "p - n" in C is p + n here.      *)
(***************************************************************************)
EXTENDS Integers, Sequences, FiniteSets

MERGE_END == 0     \* level of the end-of-merge node
MERGE_ROOT == 1    \* level of the root of the merge tree

EndNode == 0       \* index in the node array of the MERGE_END node
RootNode == 1      \* index of the root of the merge tree
NoNode == -1       \* the null pointer

\* The threads sortlines keeps for the hi child.
hi_threads(nthreads) == nthreads - nthreads \div 2

(***************************************************************************)
(* init_node: the nodes of the subtree at index node_pool, and the first   *)
(* index after them.  dest is the address its parent passes down and       *)
(* nlines the lines it is responsible for; total is the size of a region.  *)
(***************************************************************************)
Arguments == [parent : Nat, node_pool : Nat, dest : Nat, nthreads : Nat, total : Nat, nlines : Nat, level : Nat]

\* The nodes of f and of g.
Joined(f, g) == [n \in DOMAIN f \cup DOMAIN g |-> IF n \in DOMAIN f THEN f[n] ELSE g[n]]

init_node[c \in Arguments] ==
  LET nlo == c.nlines \div 2
      nhi == c.nlines - nlo
      lo  == c.dest + c.total
      hi  == lo + nlo
      me(l, h) == [n \in {c.node_pool} |->
                     [parent |-> c.parent, level |-> c.level,
                      lo |-> lo, hi |-> hi, nlo |-> nlo, nhi |-> nhi,
                      lo_child |-> l, hi_child |-> h, nthreads |-> c.nthreads]]
      child(pool, dest, nthreads, nlines) ==
        [parent |-> c.node_pool, node_pool |-> pool, dest |-> dest, nthreads |-> nthreads,
         total |-> c.total, nlines |-> nlines, level |-> c.level + 1]
  IN IF c.nthreads > 1
     THEN LET loTree == init_node[child(c.node_pool + 1, lo, c.nthreads \div 2, nlo)]
              hiTree == init_node[child(loTree.pool, hi, hi_threads(c.nthreads), nhi)]
          IN [nodes |-> Joined(me(c.node_pool + 1, loTree.pool), Joined(loTree.nodes, hiTree.nodes)),
              pool  |-> hiTree.pool]
     ELSE [nodes |-> me(NoNode, NoNode), pool |-> c.node_pool + 1]

\* merge_tree_init: the MERGE_END node followed by the tree proper.
merge_tree_init(nthreads, nlines) ==
  LET end == [n \in {EndNode} |->
                [parent |-> NoNode, level |-> MERGE_END,
                 lo |-> 0, hi |-> 0, nlo |-> nlines, nhi |-> nlines,
                 lo_child |-> NoNode, hi_child |-> NoNode, nthreads |-> nthreads]]
      root == init_node[[parent |-> EndNode, node_pool |-> RootNode, dest |-> 0, nthreads |-> nthreads,
                         total |-> nlines, nlines |-> nlines, level |-> MERGE_ROOT]]
  IN Joined(end, root.nodes)

\* The links of a tree: what the code that walks it relies on.
WellLinked(tree) ==
  LET regular  == DOMAIN tree \ {EndNode}
      interior == {n \in regular : tree[n].nthreads > 1}
  IN /\ {EndNode, RootNode} \subseteq DOMAIN tree
     /\ DOMAIN tree \subseteq Nat
     /\ \A n \in DOMAIN tree :
          tree[n] \in [parent : Nat \cup {NoNode}, level : Nat, lo : Nat, hi : Nat, nlo : Nat, nhi : Nat,
                      lo_child : Nat \cup {NoNode}, hi_child : Nat \cup {NoNode}, nthreads : Nat]
     /\ tree[EndNode].level = MERGE_END
     /\ tree[RootNode].level = MERGE_ROOT
     /\ \A n \in regular : /\ tree[n].parent \in DOMAIN tree
                           /\ tree[n].parent = EndNode <=> n = RootNode
                           /\ tree[n].level = tree[tree[n].parent].level + 1
     /\ \A n \in interior : /\ {tree[n].lo_child, tree[n].hi_child} \subseteq regular
                            /\ tree[n].lo_child # tree[n].hi_child
                            /\ tree[tree[n].lo_child].parent = n
                            /\ tree[tree[n].hi_child].parent = n
     /\ \A n \in regular \ {RootNode} :
          LET p == tree[n].parent IN p \in interior /\ n \in {tree[p].lo_child, tree[p].hi_child}

\* The lines of a tree: each node halves its lines, and its children have a half each.
WellSized(tree, nlines) ==
  LET regular  == DOMAIN tree \ {EndNode}
      interior == {n \in regular : tree[n].nthreads > 1}
      Total(n) == tree[n].nlo + tree[n].nhi
  IN /\ Total(RootNode) = nlines
     /\ \A n \in regular : Total(n) <= nlines /\ tree[n].nhi - tree[n].nlo \in {0, 1}
     /\ \A n \in interior : /\ Total(tree[n].lo_child) = tree[n].nlo
                            /\ Total(tree[n].hi_child) = tree[n].nhi

\* The places of a tree's lines: a child has its lines one region after the half of its
\* parent that it merges to, and what is merged is merged into the table.
WellPlaced(tree, nlines, room) ==
  LET regular  == DOMAIN tree \ {EndNode}
      interior == {n \in regular : tree[n].nthreads > 1}
  IN /\ tree[RootNode].lo = nlines
     /\ \A n \in regular : tree[n].hi = tree[n].lo + tree[n].nlo
     /\ \A n \in interior : /\ tree[tree[n].lo_child].lo = tree[n].lo + nlines
                            /\ tree[tree[n].hi_child].lo = tree[n].hi + nlines
                            /\ tree[n].hi + tree[n].nhi <= room

(***************************************************************************)
(* sort() gives every line of a buffer the room for its own slot and for   *)
(* the slots of the regions: one for each doubling of a thread until there *)
(* are nthreads, or half a slot when one thread does it all.               *)
(***************************************************************************)
mult(nthreads) ==
  LET from[tmp \in Nat \ {0}] == IF tmp < nthreads THEN 1 + from[tmp * 2] ELSE 1
  IN from[1]

\* Mutant: one region too few.
TableRoom_OneShort(nthreads, nlines) ==
  IF nthreads > 1 THEN (mult(nthreads) - 1) * nlines ELSE (3 * nlines) \div 2

\* The line slots a table of nlines lines has.
TableRoom(nthreads, nlines) ==
  IF nthreads > 1 THEN mult(nthreads) * nlines ELSE (3 * nlines) \div 2
=============================================================================

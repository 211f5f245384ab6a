------------------------------- MODULE TreeLayout -------------------------------
(***************************************************************************)
(* How sort's internal sort divides the lines and the line table among its *)
(* threads, for every number of threads and of lines up to a bound: the    *)
(* tree of merge_tree_init, and sortlines going down it as far as          *)
(* pthread_create lets it.  What the threads then do is ParallelMerge.     *)
(***************************************************************************)
EXTENDS MergeTree

CONSTANTS MaxThreads, MaxLines, SUBTHREAD_LINES_HEURISTIC

ASSUME BoundsAssumption ==
  /\ MaxThreads \in Nat \ {0} /\ MaxLines \in Nat
  /\ SUBTHREAD_LINES_HEURISTIC >= 4

VARIABLES nthreads,  \* the threads sort() may use
          nlines,    \* the lines in the buffer
          tree,      \* the merge tree
          calls      \* the nodes at which a sortlines has not split further

vars == <<nthreads, nlines, tree, calls>>

Init == /\ nthreads \in 1..MaxThreads
        /\ nlines \in 2..MaxLines
        /\ tree = merge_tree_init(nthreads, nlines)
        /\ calls = {RootNode}

\* sortlines gets a thread for the lo child and goes on with the hi child.
Split(n) ==
  /\ tree[n].nthreads > 1
  /\ SUBTHREAD_LINES_HEURISTIC <= tree[n].nlo + tree[n].nhi
  /\ calls' = (calls \ {n}) \cup {tree[n].lo_child, tree[n].hi_child}
  /\ UNCHANGED <<nthreads, nlines, tree>>

Next == \E n \in calls : Split(n)

Spec == Init /\ [][Next]_vars
-----------------------------------------------------------------------------
\* The slots of the table that the sort at node n uses: the lines, the scratch
\* arrays of its two calls of sequential_sort, and where the node merges to.
Source(n)  == LET first == tree[n].lo - nlines * tree[n].level IN
              first..(first + tree[n].nlo + tree[n].nhi - 1)
Scratches(n) ==
  LET temp == tree[n].lo - nlines * tree[n].level + nlines IN
  {temp + i : i \in (0..(tree[n].nlo \div 2 - 1))
                 \cup (tree[n].nlo \div 2 .. tree[n].nlo \div 2 + tree[n].nhi \div 2 - 1)}
Target(n) == LET dest == tree[n].lo - nlines IN
             IF tree[n].level > MERGE_ROOT THEN dest..(dest + tree[n].nlo + tree[n].nhi - 1)
             ELSE {}

\* merge_tree_init's links, numbers and places of lines are those the proofs
\* about ParallelMerge assume, and the nodes are exactly the array of 2 * nthreads that it
\* allocates and that queue_init gives the heap room for.
LinkedInPool == /\ WellLinked(tree) /\ WellSized(tree, nlines)
                /\ WellPlaced(tree, nlines, TableRoom(nthreads, nlines))
                /\ DOMAIN tree = 0..(2 * nthreads - 1)

\* A node merges to where its parent expects its child's lines, and what is
\* merged there by the two children does not overlap.
ChildrenAdjoin ==
  \A n \in DOMAIN tree \ {EndNode} : tree[n].nthreads > 1 =>
    LET l == tree[n].lo_child
        h == tree[n].hi_child
    IN /\ Target(l) = tree[n].lo..(tree[n].hi - 1)
       /\ Target(h) = tree[n].hi..(tree[n].hi + tree[n].nhi - 1)
       /\ tree[l].nthreads + tree[h].nthreads = tree[n].nthreads

\* The running sorts divide the lines among them, and no scratch array lies in
\* the lines or in the scratch arrays of another sort.
SortsDisjoint ==
  /\ UNION {Source(n) : n \in calls} = 0..(nlines - 1)
  /\ \A n, k \in calls :
       /\ Scratches(n) \cap Source(k) = {}
       /\ n # k => Source(n) \cap Source(k) = {} /\ Scratches(n) \cap Scratches(k) = {}

\* LinkedInPool, SortsDisjoint and ChildrenAdjoin; and whatever pthread_create does, no
\* thread touches a slot outside the table that sort() sized by the logarithm of nthreads,
\* or one that another sort uses, and merges find their lines.
RegionsFit ==
  /\ \A n \in calls :
       Source(n) \cup Scratches(n) \cup Target(n) \subseteq 0..(TableRoom(nthreads, nlines) - 1)
  /\ LinkedInPool /\ SortsDisjoint /\ ChildrenAdjoin
=============================================================================

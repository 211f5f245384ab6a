------------------------------ MODULE MCParallelMerge ------------------------------
(***************************************************************************)
(* Values for the constants of ParallelMerge: the trees sort() builds for  *)
(* a few threads and lines, the room it gives the table, and inputs with   *)
(* keys that differ and keys that are equal.  What a constant stands for   *)
(* is evaluated at each use, other definitions once; hence two of a tree.  *)
(***************************************************************************)
EXTENDS ParallelMerge

\* Two threads, sixteen lines: the root may merge two lines at a time.  The
\* keys are mixed, run against the order, or are equal across all its leaves.
LongThreads == merge_tree_init(2, 16)
LongTree == LongThreads
LongRoom == TableRoom(2, 16)
LongInputs == {<<2, 1, 2, 1, 3, 1, 2, 4, 1, 1, 3, 3, 2, 2, 1, 4>>,
               <<9, 8, 8, 7, 7, 7, 6, 6, 5, 5, 5, 4, 3, 3, 2, 1>>,
               <<1, 1, 2, 2, 1, 1, 1, 1, 1, 1, 1, 2, 1, 1, 2, 2>>}

\* Three threads, seven lines: the halves are uneven and the hi child splits again.
ThreeThreads == merge_tree_init(3, 7)
ThreeTree == ThreeThreads
ThreeRoom == TableRoom(3, 7)
ThreeInputs == {<<2, 1, 2, 1, 3, 1, 2>>}
=============================================================================

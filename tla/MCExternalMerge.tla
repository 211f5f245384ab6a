------------------------------ MODULE MCExternalMerge ------------------------------
(***************************************************************************)
(* Scenarios for the configurations of ExternalMerge.                      *)
(***************************************************************************)
EXTENDS ExternalMerge

Plain == [total |-> 1, nmerge |-> 2, fds |-> 99, sorting |-> TRUE, stdin |-> 0,
          same |-> {}, unreadable |-> {}, compress |-> FALSE, forkFails |-> FALSE,
          faulty |-> FALSE, fitsPipe |-> FALSE, strangers |-> 0]

\* Many bufferfuls and few descriptors.
Passes == {[Plain EXCEPT !.total = t, !.nmerge = b, !.fds = f] :
             t \in Users, b \in 2..5, f \in 2..6}

\* -m, where files 1 and 3 are the output, 2 is standard input and 6 vanishes.
MergeOnly == {[Plain EXCEPT !.total = t, !.nmerge = b, !.fds = f, !.sorting = FALSE,
                            !.stdin = 2, !.same = {1, 3}, !.unreadable = {6},
                            !.compress = TRUE, !.fitsPipe = TRUE] :
                t \in 1..6, b \in 2..6, f \in 3..6}

\* Children and forks that fail, and a child that sort did not start.
Children == {[Plain EXCEPT !.total = t, !.nmerge = b, !.fds = f, !.compress = TRUE,
                           !.forkFails = TRUE, !.faulty = TRUE, !.strangers = 1] :
               t \in 1..4, b \in 2..3, f \in {5, 99}}

AllScenarios == Passes \cup MergeOnly \cup Children

\* sort -m -o F F F with a compressor.
SharedCopy == {[Plain EXCEPT !.total = 2, !.sorting = FALSE, !.same = {1, 2}, !.compress = TRUE]}

\* Four bufferfuls with a compressor and five descriptors.
ShedInput == {[Plain EXCEPT !.total = 4, !.nmerge = 4, !.fds = 5, !.compress = TRUE]}
=============================================================================

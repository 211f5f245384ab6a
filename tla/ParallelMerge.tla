------------------------------ MODULE ParallelMerge ------------------------------
(***************************************************************************)
(* The internal sort of sort.c: sortlines starts a thread per leaf of the  *)
(* merge tree; each leaf is sorted on its own, and then all the threads    *)
(* merge the nodes they pop from one priority queue until the MERGE_END    *)
(* node comes out of it.                                                   *)
(*                                                                         *)
(* Shared state: the line table (mem), the nodes of the tree (node), a     *)
(* mutex per node (lock), the queue (heap, with queued the flag in each    *)
(* node and waiting the threads in pthread_cond_wait) and the output.      *)
(* Everything else belongs to one thread.                                  *)
(*                                                                         *)
(* A thread stores its node's dest, which is its parent's end_lo or        *)
(* end_hi, without the parent's lock, while another thread may be merging  *)
(* the parent: a data race.  A merging thread may therefore see such a     *)
(* store at once, late or not before the next lock (see Ends), but never   *)
(* an older value after a newer one, and the line it makes available is in *)
(* the table when the store is seen: the order of loads and of stores that *)
(* an x86-64 build keeps.                                                  *)
(***************************************************************************)
EXTENDS MergeTree, TLC

CONSTANTS
  Tree,        \* the merge tree, as merge_tree_init builds it
  NLines,      \* lines in the buffer, at least 2
  TableLines,  \* lines the line table has room for, the input included
  Inputs,      \* the sequences of NLines keys the buffer may hold
  Unique,      \* the -u option
  SUBTHREAD_LINES_HEURISTIC,  \* fewer lines than this get no thread of their own
  SIZE_MAX     \* the largest value of a size_t

Nodes   == DOMAIN Tree
Regular == Nodes \ {EndNode}
Interior == {n \in Regular : Tree[n].nthreads > 1}  \* the nodes with children

\* A thread is named after the node at which its first sortlines starts: the
\* main thread at the root, pthread_create's at a lo child.
Main    == RootNode
Threads == {Main} \cup {Tree[n].lo_child : n \in Interior}

Untouched == 0            \* a slot of the table that was never written
Scratch   == NLines + 1   \* a slot that sequential_sort is using
Lines     == 1..NLines    \* a line is its place in the input

Addresses == 0..(TableLines + NLines)  \* the table, and room beyond to see an overrun

ASSUME SizesAssumption ==
  /\ NLines \in Nat /\ NLines >= 2
  /\ TableLines \in Nat
  /\ SIZE_MAX \in Nat
  /\ SUBTHREAD_LINES_HEURISTIC \in Nat /\ SUBTHREAD_LINES_HEURISTIC >= 4
  /\ Unique \in BOOLEAN

ASSUME TreeAssumption == WellLinked(Tree)

ASSUME LinesAssumption == WellSized(Tree, NLines)

ASSUME PlacesAssumption == WellPlaced(Tree, NLines, TableLines)

ASSUME InputsAssumption == Inputs \subseteq [1..NLines -> Int]

VARIABLES
  input,    \* the key of each line
  mem,      \* the line table
  node,     \* of each node: lo, hi, end_lo, end_hi, nlo, nhi
  lock,     \* the holder of each node's mutex, or NoThread
  queued,   \* the queued flag of each node
  heap,     \* how many times each node is in the priority queue
  waiting,  \* threads blocked in pthread_cond_wait
  pc, at,   \* of each thread: where it is, and the node it is working on
  work,     \* of each thread: the sorted lines of a running sequential_sort
  m,        \* of each thread: the locals of mergelines_node
  saved,    \* saved_line, 0 when its text is null
  out       \* the lines written

vars == <<input, mem, node, lock, queued, heap, waiting, pc, at, work, m, saved, out>>
queueVars  == <<queued, heap, waiting>>
tableVars  == <<mem, node, saved, out>>

NoThread == 0

\* mergelines_node is not running: its lo_orig and hi_orig, to_merge, dest, and
\* the end_lo and end_hi that the thread found.
NoLocals == [lo |-> 0, hi |-> 0, to_merge |-> 0, dest |-> 0, end_lo |-> 0, end_hi |-> 0]

-----------------------------------------------------------------------------
\* The key of a line; what is not a line of the input compares as anything.
Key(a) == IF a \in Lines THEN input[a] ELSE 0

\* compare: negative, zero or positive as C's result is.
compare(a, b) == Key(a) - Key(b)

\* A stable sort puts a before b.
Before(a, b) == compare(a, b) < 0 \/ (compare(a, b) = 0 /\ a < b)

\* The arrangements of s in the order of a stable sort; there is one.  What a
\* permutation is, is spelled out for the provers.
Permutation(n) == {p \in Permutations(1..n) : /\ p \in [1..n -> 1..n]
                                              /\ \A j \in 1..n : \E i \in 1..n : p[i] = j}
StableSorts(s) ==
  {w \in {[i \in 1..Len(s) |-> s[p[i]]] : p \in Permutation(Len(s))} :
     \A i \in 1..(Len(s) - 1) : ~Before(w[i + 1], w[i])}

\* A read of the table; beyond it there is no line.
Read(a) == IF a \in Addresses THEN mem[a] ELSE Untouched

\* The lines at the n addresses from a.
Slice(a, n) == [i \in 1..n |-> Read(a + i - 1)]

\* mem with the lines s stored from address a on.
Store(f, a, s) == [x \in DOMAIN f |-> IF x \in a..(a + Len(s) - 1)
                                      THEN s[x - a + 1] ELSE f[x]]

Fill(n) == [i \in 1..n |-> Scratch]

Level(n)   == Tree[n].level
Parent(n)  == Tree[n].parent
IsLo(n)    == Tree[Parent(n)].lo_child = n
MAX_MERGE(total, level) == (total \div (4 ^ (level + 1))) + 1

\* *node->dest: a node other than the root merges to its parent's end_lo or end_hi.
Dest(n) == IF IsLo(n) THEN node[Parent(n)].end_lo ELSE node[Parent(n)].end_hi

\* A fact of arithmetic, named because the provers know nothing of ^.
ASSUME MergeAssumption == \A n \in Nodes : MAX_MERGE(NLines, Level(n)) \in Nat

Goto(t, label) == pc' = [pc EXCEPT ![t] = label]

-----------------------------------------------------------------------------
\* sort() calls merge_tree_init and then sortlines on the root in its own thread.
Init ==
  /\ input \in Inputs
  /\ mem = [a \in Addresses |-> IF a < NLines THEN a + 1 ELSE Untouched]
  /\ node = [n \in Nodes |-> [lo |-> Tree[n].lo, end_lo |-> Tree[n].lo,
                              hi |-> Tree[n].hi, end_hi |-> Tree[n].hi,
                              nlo |-> Tree[n].nlo, nhi |-> Tree[n].nhi]]
  /\ lock = [n \in Nodes |-> NoThread]
  /\ queued = [n \in Nodes |-> FALSE]
  /\ heap = [n \in Nodes |-> 0]
  /\ waiting = {}
  /\ pc = [t \in Threads |-> IF t = Main THEN "sortlines" ELSE "none"]
  /\ at = [t \in Threads |-> t]
  /\ work = [t \in Threads |-> <<>>]
  /\ m = [t \in Threads |-> NoLocals]
  /\ saved = 0
  /\ out = <<>>

-----------------------------------------------------------------------------
(* sortlines *)

\* Mutant: a leaf may split.
MaySplit_AnyNode(n) == SUBTHREAD_LINES_HEURISTIC <= node[n].nlo + node[n].nhi

MaySplit(n) == /\ n \in Interior
               /\ SUBTHREAD_LINES_HEURISTIC <= node[n].nlo + node[n].nhi

\* pthread_create succeeds: the new thread sorts the lo child, this one the hi child.
Create(t) ==
  LET n == at[t] IN
  /\ pc[t] = "sortlines"
  /\ MaySplit(n)
  /\ pc' = [pc EXCEPT ![Tree[n].lo_child] = "sortlines"]
  /\ at' = [at EXCEPT ![t] = Tree[n].hi_child]
  /\ UNCHANGED <<input, lock, work, m, tableVars, queueVars>>

\* lines: where the lines of node n are in the input region of the table.
LinesOf(n) == Tree[n].lo - NLines * Level(n)

\* A leaf, too few lines, or pthread_create failed, which it may always do: two
\* calls of sequential_sort, the one for the hi half first.  A half is sorted in
\* place with a scratch array of half its size in the next region of the table;
\* while this runs, both halves and both scratch arrays are in flux.  A half of
\* one line is left as it is, which is also what sorting would make of it.
BeginSort(t) ==
  LET n     == at[t]
      lines == LinesOf(n)
      nlo   == node[n].nlo
      nhi   == node[n].nhi
      temp  == lines + NLines
  IN /\ pc[t] = "sortlines"
     /\ \E lo \in StableSorts(Slice(lines, nlo)), hi \in StableSorts(Slice(lines + nlo, nhi)) :
          work' = [work EXCEPT ![t] = lo \o hi]
     /\ mem' = Store(Store(mem, lines, Fill(nlo + nhi)),
                     temp, Fill(nlo \div 2 + nhi \div 2))
     /\ Goto(t, "sorting")
     /\ UNCHANGED <<input, node, lock, at, m, saved, out, queueVars>>

-----------------------------------------------------------------------------
(* The queue.  Its mutex is held only inside one call, so a call is a step. *)

\* pthread_cond_signal wakes one waiting thread, if there is one.
Signal(t, label) ==
  \/ /\ waiting = {}
     /\ pc' = [pc EXCEPT ![t] = label]
     /\ UNCHANGED waiting
  \/ \E w \in waiting : /\ waiting' = waiting \ {w}
                        /\ pc' = [pc EXCEPT ![w] = "pop", ![t] = label]

queue_insert(t, n, label) ==
  /\ heap' = [heap EXCEPT ![n] = @ + 1]
  /\ queued' = [queued EXCEPT ![n] = TRUE]
  /\ Signal(t, label)

\* The sort ends; the two sorted halves are what the thread's own node has
\* available, and the node is queued.
EndSort(t) ==
  LET n     == at[t]
      lines == LinesOf(n)
      mid   == lines + node[n].nlo
  IN /\ pc[t] = "sorting"
     /\ mem' = Store(mem, lines, work[t])
     /\ work' = [work EXCEPT ![t] = <<>>]
     /\ node' = [node EXCEPT ![n].lo = lines, ![n].hi = mid, ![n].end_lo = mid,
                             ![n].end_hi = mid + node[n].nhi]
     /\ queue_insert(t, n, "pop")
     /\ at' = [at EXCEPT ![t] = EndNode]
     /\ UNCHANGED <<input, lock, m, saved, out>>

\* queue_pop up to lock_node: heap_remove_top, or wait on the condition.  The
\* order of the heap is left open: compare_nodes reads counts that other
\* threads change, and its result is never negative.
Pop(t) ==
  /\ pc[t] = "pop"
  /\ \E n \in Nodes : /\ heap[n] > 0
                      /\ heap' = [heap EXCEPT ![n] = @ - 1]
                      /\ at' = [at EXCEPT ![t] = n]
  /\ Goto(t, "lock")
  /\ UNCHANGED <<input, lock, queued, waiting, work, m, tableVars>>

Wait(t) ==
  /\ pc[t] = "pop"
  /\ \A n \in Nodes : heap[n] = 0
  /\ waiting' = waiting \cup {t}
  /\ Goto(t, "wait")
  /\ UNCHANGED <<input, lock, queued, heap, at, work, m, tableVars>>

\* pthread_cond_wait may return without a signal.
Spurious(t) ==
  /\ t \in waiting
  /\ waiting' = waiting \ {t}
  /\ Goto(t, "pop")
  /\ UNCHANGED <<input, lock, queued, heap, at, work, m, tableVars>>

\* The end of queue_pop and the beginning of the loop body of merge_loop.
LockNode(t) ==
  LET n == at[t] IN
  /\ pc[t] = "lock" /\ Level(n) # MERGE_END
  /\ lock[n] = NoThread
  /\ lock' = [lock EXCEPT ![n] = t]
  /\ queued' = [queued EXCEPT ![n] = FALSE]
  /\ m' = [m EXCEPT ![t] = [lo |-> node[n].lo, hi |-> node[n].hi,
                            to_merge |-> MAX_MERGE(NLines, Level(n)),
                            dest |-> IF Level(n) > MERGE_ROOT THEN Dest(n) ELSE 0,
                            end_lo |-> node[n].end_lo, end_hi |-> node[n].end_hi]]
  /\ Goto(t, "merge")
  /\ UNCHANGED <<input, heap, waiting, at, work, tableVars>>

\* Mutant: the MERGE_END node stays out of the queue.
PopEnd_KeepsEnd(t) ==
  /\ pc[t] = "lock" /\ Level(at[t]) = MERGE_END
  /\ Goto(t, "join")
  /\ UNCHANGED <<input, lock, at, work, m, tableVars, queueVars>>

\* The MERGE_END node: locked, unlocked at once, and inserted again, so that the
\* other threads can pop it.  This thread leaves merge_loop.
PopEnd(t) ==
  /\ pc[t] = "lock" /\ Level(at[t]) = MERGE_END
  /\ queue_insert(t, at[t], "join")
  /\ UNCHANGED <<input, lock, at, work, m, tableVars>>

-----------------------------------------------------------------------------
(* mergelines_node *)

\* What thread t may read as its node's end_lo and end_hi: what it read before
\* (first under the lock) or what is there now.  There are no other values, see
\* StoresOncePerHold.
Ends(t) == LET n == at[t] IN
           {m[t].end_lo, node[n].end_lo} \X {m[t].end_hi, node[n].end_hi}

\* The locals of thread t once it has read e; a load never yields an older value
\* than an earlier load of the same field did.
Seen_Forgets(t, e) == m   \* mutant: it may
Seen(t, e) == [m EXCEPT ![t].end_lo = e[1], ![t].end_hi = e[2]]

LoAvail(n, e) == node[n].lo # e[1]
HiAvail(n, e) == node[n].hi # e[2]

\* Both loops' exit: the pointers tell what was merged, and whether a side of
\* the node is exhausted, so that the other can be copied.
AfterLoop(t) ==
  LET n == at[t] IN
  CASE node[n].nhi = node[n].hi - m[t].hi -> "drainlo"
    [] node[n].nhi # node[n].hi - m[t].hi
         /\ node[n].nlo = node[n].lo - m[t].lo -> "drainhi"
    [] OTHER -> "store"

\* Mutant: the line is written and not saved.
write_unique_NotSaved(line) == out' = Append(out, line) /\ UNCHANGED saved

write_unique(line) ==
  IF Unique
  THEN IF saved # 0 /\ compare(line, saved) = 0
       THEN UNCHANGED <<saved, out>>
       ELSE saved' = line /\ out' = Append(out, line)
  ELSE out' = Append(out, line) /\ UNCHANGED saved

\* Move one line of thread t's node to its destination: a line of LO or of HI.
Move(t, fromLo, e) ==
  LET n    == at[t]
      line == Read(IF fromLo THEN node[n].lo ELSE node[n].hi)
  IN /\ node' = IF fromLo THEN [node EXCEPT ![n].lo = @ + 1]
                          ELSE [node EXCEPT ![n].hi = @ + 1]
     /\ IF Level(n) > MERGE_ROOT
        THEN /\ mem' = [mem EXCEPT ![m[t].dest] = line]
             /\ UNCHANGED <<saved, out>>
        ELSE /\ write_unique(line)
             /\ UNCHANGED mem
     /\ m' = [Seen(t, e) EXCEPT ![t].to_merge = @ - 1, ![t].dest = @ + 1]

TakeLo_Strict(n) == compare(Read(node[n].lo), Read(node[n].hi)) < 0  \* mutant: not stable
TakeLo(n) == compare(Read(node[n].lo), Read(node[n].hi)) <= 0

\* One evaluation of the condition of the first loop, and its body.
Merge(t) ==
  LET n == at[t] IN
  /\ pc[t] = "merge"
  /\ \E e \in Ends(t) :
       \/ /\ LoAvail(n, e) /\ HiAvail(n, e) /\ m[t].to_merge > 0
          /\ Move(t, TakeLo(n), e)
          /\ UNCHANGED pc
       \/ /\ LoAvail(n, e) /\ HiAvail(n, e) /\ m[t].to_merge = 0
          /\ m' = [Seen(t, e) EXCEPT ![t].to_merge = SIZE_MAX]   \* to_merge-- wraps
          /\ Goto(t, AfterLoop(t))
          /\ UNCHANGED tableVars
       \/ /\ ~(LoAvail(n, e) /\ HiAvail(n, e))
          /\ m' = Seen(t, e)
          /\ Goto(t, AfterLoop(t))
          /\ UNCHANGED tableVars
  /\ UNCHANGED <<input, lock, at, work, queueVars>>

\* One evaluation of the condition of the second loop, and its body.
Drain(t) ==
  LET n == at[t]
      fromLo == pc[t] = "drainlo"
      Avail(e) == IF fromLo THEN LoAvail(n, e) ELSE HiAvail(n, e)
  IN /\ pc[t] \in {"drainlo", "drainhi"}
     /\ \E e \in Ends(t) :
          \/ /\ Avail(e) /\ m[t].to_merge > 0
             /\ Move(t, fromLo, e)
             /\ UNCHANGED pc
          \/ /\ ~(Avail(e) /\ m[t].to_merge > 0)
             /\ m' = Seen(t, e)
             /\ Goto(t, "store")
             /\ UNCHANGED tableVars
     /\ UNCHANGED <<input, lock, at, work, queueVars>>

\* The nodes with the lines that thread t merged subtracted from its node's counts.
Counted_LoTwice(t) == LET n == at[t] IN   \* mutant: merged_lo in place of merged_hi
  [node EXCEPT ![n].nlo = @ - (node[n].lo - m[t].lo), ![n].nhi = @ - (node[n].lo - m[t].lo)]
Counted(t) == LET n == at[t] IN
  [node EXCEPT ![n].nlo = @ - (node[n].lo - m[t].lo), ![n].nhi = @ - (node[n].hi - m[t].hi)]

\* *node->dest = dest, which makes the merged lines available to the parent,
\* and the counts of the lines that remain.
StoreDest(t) ==
  LET n == at[t] IN
  /\ pc[t] = "store"
  /\ node' = IF Level(n) = MERGE_ROOT THEN Counted(t)
             ELSE IF IsLo(n) THEN [Counted(t) EXCEPT ![Parent(n)].end_lo = m[t].dest]
             ELSE [Counted(t) EXCEPT ![Parent(n)].end_hi = m[t].dest]
  /\ Goto(t, "check")
  /\ UNCHANGED <<input, mem, lock, at, work, m, saved, out, queueVars>>

-----------------------------------------------------------------------------
(* merge_loop after mergelines_node *)

\* The test of queue_check_insert.  Mutants: a queued node is inserted again; a
\* node of which one half is exhausted is never inserted.
Ready_Requeues(n, e) == \/ LoAvail(n, e) /\ (HiAvail(n, e) \/ node[n].nhi = 0)
                        \/ ~LoAvail(n, e) /\ HiAvail(n, e) /\ node[n].nlo = 0
Ready_BothHalves(n, e) == ~queued[n] /\ LoAvail(n, e) /\ HiAvail(n, e)
Ready(n, e) ==
  /\ ~queued[n]
  /\ \/ LoAvail(n, e) /\ (HiAvail(n, e) \/ node[n].nhi = 0)
     \/ ~LoAvail(n, e) /\ HiAvail(n, e) /\ node[n].nlo = 0

queue_check_insert(t, n, e, label) ==
  IF Ready(n, e) THEN queue_insert(t, n, label)
                 ELSE Goto(t, label) /\ UNCHANGED queueVars

Check(t) ==
  /\ pc[t] = "check"
  /\ \E e \in Ends(t) : queue_check_insert(t, at[t], e, "parent")
  /\ m' = [m EXCEPT ![t] = NoLocals]
  /\ UNCHANGED <<input, lock, at, work, tableVars>>

\* The parent's lock, which queue_check_insert_parent waits for.
ParentFree_NotAsked(n) == TRUE   \* mutant: it does not take the lock
ParentFree(n) == lock[Parent(n)] = NoThread

\* The root has finished merging.
Finished_LoOnly(n) == node[n].nlo = 0   \* mutant: the high half is forgotten
Finished(n) == node[n].nlo + node[n].nhi = 0

\* queue_check_insert_parent, which holds the parent's lock for its own length,
\* and then unlock_node.  Until the unlock no other thread can tell whether it
\* has happened, so it is part of this step.
CheckParent(t) ==
  LET n == at[t]
      p == Parent(n)
  IN /\ pc[t] = "parent"
     /\ \/ /\ Level(n) > MERGE_ROOT
           /\ ParentFree(n)
           /\ queue_check_insert(t, p, <<node[p].end_lo, node[p].end_hi>>, "pop")
        \/ /\ Level(n) = MERGE_ROOT
           /\ Finished(n)
           /\ queue_insert(t, p, "pop")
        \/ /\ Level(n) = MERGE_ROOT
           /\ ~Finished(n)
           /\ Goto(t, "pop")
           /\ UNCHANGED queueVars
     /\ lock' = [lock EXCEPT ![n] = NoThread]
     /\ at' = [at EXCEPT ![t] = EndNode]
     /\ UNCHANGED <<input, work, m, tableVars>>

-----------------------------------------------------------------------------
\* sortlines goes down hi children, so the thread of a node is the thread named
\* after the nearest ancestor that has one.
ThreadOf[n \in Regular] == IF n \in Threads THEN n ELSE ThreadOf[Parent(n)]

Created(t) == {c \in Threads \ {Main} : ThreadOf[Parent(c)] = t /\ pc[c] # "none"}

\* The frames of sortlines return, each joining the thread it created.
Join(t) ==
  /\ pc[t] = "join"
  /\ \A c \in Created(t) : pc[c] = "done"
  /\ Goto(t, "done")
  /\ UNCHANGED <<input, lock, at, work, m, tableVars, queueVars>>

Terminated == pc[Main] = "done"

Step(t) ==
  \/ Create(t) \/ BeginSort(t) \/ EndSort(t)
  \/ Pop(t) \/ Wait(t) \/ LockNode(t) \/ PopEnd(t)
  \/ Merge(t) \/ Drain(t) \/ StoreDest(t)
  \/ Check(t) \/ CheckParent(t)
  \/ Join(t)

\* The return of the main thread's sortlines: nothing more happens here.
Return == Terminated /\ UNCHANGED vars

Next == \/ \E t \in Threads : Step(t) \/ Spurious(t)
        \/ Return

Spec == Init /\ [][Next]_vars

\* A thread that can go on with its program goes on: it is scheduled, it gets a
\* mutex that stays free, and it is woken once it is signalled.
Fairness == \A t \in Threads : WF_vars(Step(t))

FairSpec == Spec /\ Fairness

-----------------------------------------------------------------------------
(* Properties *)

Labels == {"none", "sortlines", "sorting", "pop", "wait", "lock", "merge",
           "drainlo", "drainhi", "store", "check", "parent", "join", "done"}

Sorting  == {"sortlines", "sorting"}
Merging  == {"merge", "drainlo", "drainhi", "store"}
Holding  == Merging \cup {"check", "parent"}

Slots == Nat  \* Untouched, Scratch or a line

\* The variables have the types of the C objects; a pointer may point outside
\* the table and a count may be wrong, which other properties rule out.
TypeOK ==
  /\ input \in Inputs
  /\ mem \in [Addresses -> Slots]
  /\ node \in [Nodes -> [lo : Int, hi : Int, end_lo : Int, end_hi : Int,
                         nlo : Int, nhi : Int]]
  /\ lock \in [Nodes -> Threads \cup {NoThread}]
  /\ queued \in [Nodes -> BOOLEAN]
  /\ heap \in [Nodes -> Nat]
  /\ waiting \subseteq Threads
  /\ pc \in [Threads -> Labels]
  /\ at \in [Threads -> Nodes]
  /\ work \in [Threads -> Seq(Slots)]
  /\ m \in [Threads -> [lo : Int, hi : Int, to_merge : Int, dest : Int,
                        end_lo : Int, end_hi : Int]]
  /\ saved \in Slots
  /\ out \in Seq(Slots)

\* The threads that have popped node n and have yet to lock it.
Popped(n) == {t \in Threads : pc[t] = "lock" /\ at[t] = n}

\* A node is in the priority queue at most once, never while the thread that
\* popped it is still to lock it, and its queued flag, which is set under the
\* queue's mutex and cleared under the node's, says whether it is in either
\* place (queue_insert, queue_pop, queue_check_insert).
QueuedOnce ==
  \A n \in Regular :
    /\ heap[n] <= 1
    /\ \A s, t \in Popped(n) : s = t
    /\ heap[n] = 1 => Popped(n) = {}
    /\ queued[n] <=> (heap[n] = 1 \/ Popped(n) # {})

\* The lines a node has still to merge, of its low and of its high half; what
\* a running mergelines_node has merged is not yet subtracted from the counts.
MergedBy(n, side) ==
  LET t == lock[n] IN
  IF t # NoThread /\ pc[t] \in Merging
  THEN IF side = "lo" THEN node[n].lo - m[t].lo ELSE node[n].hi - m[t].hi
  ELSE 0
LeftLo(n) == node[n].nlo - MergedBy(n, "lo")
LeftHi(n) == node[n].nhi - MergedBy(n, "hi")

\* The addresses of the lines that node n can merge, and of the lines that
\* n's mergelines_node has merged and not yet made available to the parent.
AvailLo(n) == node[n].lo..(node[n].end_lo - 1)
AvailHi(n) == node[n].hi..(node[n].end_hi - 1)
NInFlight(n) == LET t == lock[n] IN
  IF t # NoThread /\ pc[t] \in Merging /\ Level(n) > MERGE_ROOT THEN m[t].dest - Dest(n) ELSE 0
InFlight(n) == Dest(n)..(Dest(n) + NInFlight(n) - 1)

\* An interior node whose lo child has a thread: its lines come from its children.
Split(n) == n \in Interior /\ pc[Tree[n].lo_child] # "none"

\* The leaves of what was really split, once their lines are sorted.
Sorted(n) == node[n].lo < Tree[n].lo
InUse(n) == Split(n) \/ Sorted(n)

\* A node's nlo and nhi are exactly the lines still to come through its two
\* halves, so the unsigned counts never wrap, and the node that reads 0 + 0
\* (queue_check_insert_parent's test for MERGE_END) or a count of 0
\* (queue_check_insert's test for an exhausted half) can trust it.  Nor does a
\* merge take more lines than the comment on MAX_MERGE says, though to_merge
\* wraps around at the end of the first loop and the second one tests it again.
CountsExact ==
  /\ \A n \in Regular :
       /\ node[n].lo <= node[n].end_lo /\ node[n].hi <= node[n].end_hi
       /\ Split(n) =>
            LET l == Tree[n].lo_child
                h == Tree[n].hi_child
            IN /\ LeftLo(n) = node[n].end_lo - node[n].lo + NInFlight(l) + LeftLo(l) + LeftHi(l)
               /\ LeftHi(n) = node[n].end_hi - node[n].hi + NInFlight(h) + LeftLo(h) + LeftHi(h)
       /\ Sorted(n) => /\ LeftLo(n) = node[n].end_lo - node[n].lo
                       /\ LeftHi(n) = node[n].end_hi - node[n].hi
  /\ \A t \in Threads : pc[t] \in Merging =>
       (node[at[t]].lo - m[t].lo) + (node[at[t]].hi - m[t].hi) <= MAX_MERGE(NLines, Level(at[t]))

\* The regions of the table are reused: a leaf's scratch space is the region its
\* parent merges to, and every level merges to the region of the level above.
\* Whatever the interleaving, the lines available to a node are sorted lines of
\* the input, in different slots for different nodes, and nothing but the
\* output and the leaves that are still to be sorted has the other lines.
Live == UNION {AvailLo(n) \cup AvailHi(n) \cup InFlight(n) : n \in Regular}
Unsorted == UNION {LET n == at[t] IN
                   (LinesOf(n) + 1)..(LinesOf(n) + node[n].nlo + node[n].nhi) :
                   t \in {s \in Threads : pc[s] \in Sorting}}

LinesKept ==
  /\ \A n \in Regular : \A run \in {AvailLo(n), AvailHi(n)} :
       \A a \in run : a + 1 \in run => Before(Read(a), Read(a + 1))
  /\ LET live    == Live
         lines   == {Read(a) : a \in live}
         written == NLines - LeftLo(RootNode) - LeftHi(RootNode)
     IN /\ lines \subseteq Lines \ (Unsorted \cup {out[i] : i \in DOMAIN out})
        /\ Cardinality(lines) = Cardinality(live)
        /\ Cardinality(live) + Cardinality(Unsorted) + written = NLines

\* A node that can be merged is queued, or a thread is about to see that it can
\* be: the thread that has the node, or one that just merged a child of it; and
\* once the root has merged everything, the MERGE_END node is queued, or about
\* to be.  While a node is queued, not every thread that has not left merge_loop
\* waits.  Otherwise the threads could wait for work that is there.
CanMerge(n) == /\ AvailLo(n) \cup AvailHi(n) # {}
               /\ AvailLo(n) # {} \/ LeftLo(n) = 0
               /\ AvailHi(n) # {} \/ LeftHi(n) = 0

AboutToCheck(n) ==
  \E t \in Threads :
    \/ at[t] = n /\ pc[t] \in Merging \cup {"check"}
    \/ at[t] # EndNode /\ Parent(at[t]) = n /\ pc[t] \in {"check", "parent"}

NeverStranded ==
  /\ \A n \in Regular :
       InUse(n) /\ ~queued[n] /\ CanMerge(n) => AboutToCheck(n)
  /\ LeftLo(RootNode) + LeftHi(RootNode) = 0
       => \/ heap[EndNode] = 1
          \/ AboutToCheck(RootNode)
          \/ AboutToCheck(EndNode)
          \/ \E t \in Threads : at[t] = EndNode /\ pc[t] = "lock"
  /\ waiting # {} /\ (\E n \in Nodes : heap[n] > 0)
       => \E t \in Threads : pc[t] \notin {"none", "wait", "join", "done"}

\* When the MERGE_END node is in the queue it is alone there, once, and no thread
\* sorts, merges or holds a node that has lines left: the threads that pop it
\* may all return from merge_loop.
EndMeansDone ==
  \/ /\ heap[EndNode] = 0
     /\ \A t \in Threads : pc[t] \notin {"join", "done"} /\ ~(pc[t] = "lock" /\ at[t] = EndNode)
  \/ /\ heap[EndNode] <= 1
     /\ \A n \in Regular : 
          /\ heap[n] = 0 /\ Popped(n) = {}
          /\ InUse(n) => LeftLo(n) + LeftHi(n) = 0
     /\ \A t \in Threads : pc[t] \notin Sorting \cup Merging

\* A child stores its parent's end_lo or end_hi without the parent's lock, but at
\* most once while another thread merges the parent: its next merge waits for the
\* lock in queue_check_insert_parent.  So a merging thread sees at most two values.
StoresOncePerHold ==
  [][\A t \in Threads :
       pc[t] \in Merging /\ pc'[t] \in Merging =>
         LET n == at[t] IN
         /\ node'[n].end_lo # node[n].end_lo => node[n].end_lo = m[t].end_lo
         /\ node'[n].end_hi # node[n].end_hi => node[n].end_hi = m[t].end_hi]_vars

\* What is written is always a beginning of what AbstractSort says: the stable
\* sort of the lines, under -u the first of equal lines.
Abstract == INSTANCE AbstractSort WITH
  NLines <- NLines, Inputs <- Inputs, Unique <- Unique, input <- input, out <- out
Implements == Abstract!Spec

\* All of it is written, and the main thread returns after the others.
ImplementsFairly == Abstract!FairSpec
Terminates == <>[](Terminated /\ \A t \in Threads : pc[t] \in {"none", "done"})
=============================================================================

--------------------------- MODULE ParallelMergeProofs ---------------------------
(***************************************************************************)
(* Theorems about ParallelMerge, for every well-linked merge tree, every   *)
(* number of lines and every input: types and the queue, then what rests   *)
(* on who holds the lock of a node, namely what a merging thread may see   *)
(* of its node, the exact counts of lines, and that threads neither leave  *)
(* early nor wait for work that is there.                                  *)
(***************************************************************************)
EXTENDS ParallelMerge, SequenceTheorems, WellFoundedInduction, TLAPS

\* What WellLinked says, in the terms of ParallelMerge.
LEMMA TreeFacts ==
  /\ Nodes \subseteq Nat /\ EndNode \in Nodes /\ RootNode \in Regular
  /\ Regular = Nodes \ {EndNode} /\ Interior \subseteq Regular
  /\ Main \in Threads /\ Threads \subseteq Regular /\ NoThread \notin Threads
  /\ Level(EndNode) = MERGE_END
  /\ \A n \in Regular : /\ Parent(n) \in Nodes
                        /\ Parent(n) = EndNode <=> n = RootNode
                        /\ Level(n) \in Nat /\ Level(n) # MERGE_END
                        /\ Level(n) # Level(Parent(n))
                        /\ Level(n) = MERGE_ROOT <=> n = RootNode
                        /\ Level(n) > MERGE_ROOT <=> n # RootNode
  /\ \A n \in Interior : /\ Tree[n].lo_child \in Regular \cap Threads
                         /\ Tree[n].hi_child \in Regular
                         /\ Tree[n].lo_child # Tree[n].hi_child
                         /\ Parent(Tree[n].lo_child) = n
                         /\ Parent(Tree[n].hi_child) = n
<1>1. /\ Nodes \subseteq Nat /\ EndNode \in Nodes /\ RootNode \in Regular
      /\ Regular = Nodes \ {EndNode} /\ Interior \subseteq Regular
      /\ Level(EndNode) = MERGE_END
  BY TreeAssumption DEF WellLinked, Nodes, Regular, Interior, EndNode, RootNode, Level
<1>2. \A n \in Interior : /\ Tree[n].lo_child \in Regular \cap Threads
                          /\ Tree[n].hi_child \in Regular
                          /\ Tree[n].lo_child # Tree[n].hi_child
                          /\ Parent(Tree[n].lo_child) = n
                          /\ Parent(Tree[n].hi_child) = n
  BY TreeAssumption DEF WellLinked, Nodes, Regular, Interior, Threads, Parent
<1>3. Main \in Threads /\ Threads \subseteq Regular
  BY <1>1, <1>2 DEF Threads, Main
<1>4. NoThread \notin Threads
  BY <1>1, <1>3 DEF NoThread, EndNode
<1>5. \A n \in Nodes : Level(n) \in Nat
  BY TreeAssumption DEF WellLinked, Nodes, Level
<1>6. \A n \in Regular : /\ Parent(n) \in Nodes
                         /\ Parent(n) = EndNode <=> n = RootNode
                         /\ Level(n) = Level(Parent(n)) + 1
  BY TreeAssumption DEF WellLinked, Nodes, Regular, Parent, Level
<1>7. \A n \in Regular : /\ Level(n) # MERGE_END
                         /\ Level(n) # Level(Parent(n))
  <2> TAKE n \in Regular
  <2>1. Level(n) \in Nat /\ Level(Parent(n)) \in Nat /\ Level(n) = Level(Parent(n)) + 1
    BY <1>1, <1>5, <1>6
  <2> QED BY <2>1 DEF MERGE_END
<1>8. \A n \in Regular : /\ Level(n) = MERGE_ROOT <=> n = RootNode
                         /\ Level(n) > MERGE_ROOT <=> n # RootNode
  <2> SUFFICES ASSUME NEW n \in Regular
               PROVE  /\ Level(n) = MERGE_ROOT <=> n = RootNode
                      /\ Level(n) > MERGE_ROOT <=> n # RootNode
    OBVIOUS
  <2>1. CASE n = RootNode
    BY <2>1, <1>1, <1>6 DEF MERGE_ROOT, MERGE_END
  <2>2. CASE n # RootNode
    <3>1. Parent(n) \in Regular
      BY <2>2, <1>1, <1>6
    <3>2. Level(Parent(n)) # 0 /\ Level(Parent(n)) \in Nat
      BY <3>1, <1>1, <1>5, <1>7 DEF MERGE_END
    <3> QED
      BY <2>2, <3>2, <1>6 DEF MERGE_ROOT
  <2> QED BY <2>1, <2>2
<1> QED
  BY <1>1, <1>2, <1>3, <1>4, <1>5, <1>6, <1>7, <1>8
-----------------------------------------------------------------------------
(* Type correctness *)

\* The arrays that the table is read to and written from.
LEMMA SliceType ==
  ASSUME TypeOK, NEW a \in Int, NEW n \in Int
  PROVE  Slice(a, n) \in Seq(Slots)
<1>1. \A x : Read(x) \in Slots
  BY DEF TypeOK, Read, Slots, Untouched
<1>2. CASE n \in Nat
  BY <1>1, <1>2 DEF Slice
<1>3. CASE n \notin Nat
  <2>1. 1..n = 1..0
    BY <1>3
  <2>2. Slice(a, n) = [i \in 1..0 |-> Read(a + i - 1)]
    BY <2>1 DEF Slice
  <2> QED BY <2>2, <1>1
<1> QED BY <1>2, <1>3

LEMMA FillType ==
  ASSUME NEW n \in Int
  PROVE  Fill(n) \in Seq(Slots)
<1>0. Scratch \in Slots
  BY SizesAssumption DEF Scratch, Slots
<1>1. CASE n \in Nat
  BY <1>0, <1>1 DEF Fill
<1>2. CASE n \notin Nat
  <2>1. 1..n = 1..0
    BY <1>2
  <2>2. Fill(n) = [i \in 1..0 |-> Scratch]
    BY <2>1 DEF Fill
  <2> QED BY <2>2, <1>0
<1> QED BY <1>1, <1>2

LEMMA StoreType ==
  ASSUME NEW f \in [Addresses -> Slots], NEW a \in Int, NEW s \in Seq(Slots)
  PROVE  Store(f, a, s) \in [Addresses -> Slots]
<1>1. ASSUME NEW x \in Addresses, x \in a..(a + Len(s) - 1)
      PROVE  s[x - a + 1] \in Slots
  <2>1. x - a + 1 \in 1..Len(s)
    BY <1>1 DEF Addresses
  <2> QED BY <2>1
<1> QED BY <1>1 DEF Store

LEMMA StableSortsType ==
  ASSUME NEW s \in Seq(Slots), NEW w \in StableSorts(s)
  PROVE  w \in Seq(Slots)
<1>1. PICK p \in Permutation(Len(s)) : w = [i \in 1..Len(s) |-> s[p[i]]]
  BY DEF StableSorts
<1>2. p \in [1..Len(s) -> 1..Len(s)]
  BY DEF Permutation
<1> QED BY <1>1, <1>2

NodeType   == [lo : Int, hi : Int, end_lo : Int, end_hi : Int, nlo : Int, nhi : Int]
LocalsType == [lo : Int, hi : Int, to_merge : Int, dest : Int, end_lo : Int, end_hi : Int]

LEMMA InitTypeOK == Init => TypeOK
<1> SUFFICES ASSUME Init PROVE TypeOK
  OBVIOUS
<1>1. \A n \in Nodes : /\ Tree[n].lo \in Int /\ Tree[n].hi \in Int
                       /\ Tree[n].nlo \in Int /\ Tree[n].nhi \in Int
  BY TreeAssumption DEF WellLinked, Nodes
<1>2. node \in [Nodes -> NodeType]
  BY <1>1 DEF Init, NodeType
<1>3. mem \in [Addresses -> Slots]
  BY SizesAssumption DEF Init, Addresses, Slots, Untouched
<1>4. /\ pc \in [Threads -> Labels] /\ at \in [Threads -> Nodes]
      /\ lock \in [Nodes -> Threads \cup {NoThread}] /\ m \in [Threads -> LocalsType]
  BY TreeFacts DEF Init, Labels, NoLocals, LocalsType
<1>5. work \in [Threads -> Seq(Slots)] /\ out \in Seq(Slots) /\ saved \in Slots
  BY DEF Init, Slots
<1> QED
  BY <1>2, <1>3, <1>4, <1>5 DEF Init, TypeOK, NodeType, LocalsType

\* What the steps that use the queue have in common.
LEMMA QueueTypes ==
  ASSUME TypeOK, NEW t \in Threads, NEW n \in Nodes, NEW label \in Labels
  PROVE  /\ Goto(t, label) => pc' \in [Threads -> Labels]
         /\ Signal(t, label) => pc' \in [Threads -> Labels] /\ waiting' \subseteq Threads
         /\ queue_insert(t, n, label)
              => /\ pc' \in [Threads -> Labels] /\ waiting' \subseteq Threads
                 /\ heap' \in [Nodes -> Nat] /\ queued' \in [Nodes -> BOOLEAN]
         /\ \A e : queue_check_insert(t, n, e, label)
              => /\ pc' \in [Threads -> Labels] /\ waiting' \subseteq Threads
                 /\ heap' \in [Nodes -> Nat] /\ queued' \in [Nodes -> BOOLEAN]
<1>1. Goto(t, label) => pc' \in [Threads -> Labels]
  BY DEF TypeOK, Goto
<1>2. Signal(t, label) => pc' \in [Threads -> Labels] /\ waiting' \subseteq Threads
  <2>1. "pop" \in Labels
    BY DEF Labels
  <2>2. ASSUME waiting = {}, pc' = [pc EXCEPT ![t] = label], UNCHANGED waiting
        PROVE  pc' \in [Threads -> Labels] /\ waiting' \subseteq Threads
    BY <2>2 DEF TypeOK
  <2>3. ASSUME NEW w \in waiting, waiting' = waiting \ {w},
               pc' = [pc EXCEPT ![w] = "pop", ![t] = label]
        PROVE  pc' \in [Threads -> Labels] /\ waiting' \subseteq Threads
    BY <2>1, <2>3 DEF TypeOK
  <2> QED BY <2>2, <2>3 DEF Signal
<1>3. queue_insert(t, n, label)
        => /\ pc' \in [Threads -> Labels] /\ waiting' \subseteq Threads
           /\ heap' \in [Nodes -> Nat] /\ queued' \in [Nodes -> BOOLEAN]
  <2>1. heap \in [Nodes -> Nat] /\ queued \in [Nodes -> BOOLEAN]
    BY DEF TypeOK
  <2>2. [heap EXCEPT ![n] = @ + 1] \in [Nodes -> Nat]
    BY <2>1
  <2>3. [queued EXCEPT ![n] = TRUE] \in [Nodes -> BOOLEAN]
    BY <2>1
  <2> QED BY <1>2, <2>2, <2>3 DEF queue_insert
<1>4. ASSUME NEW e
      PROVE  queue_check_insert(t, n, e, label)
              => /\ pc' \in [Threads -> Labels] /\ waiting' \subseteq Threads
                 /\ heap' \in [Nodes -> Nat] /\ queued' \in [Nodes -> BOOLEAN]
  BY <1>1, <1>3 DEF queue_check_insert, queueVars, TypeOK
<1> QED BY <1>1, <1>2, <1>3, <1>4

LEMMA SortTypes ==
  ASSUME TypeOK, NEW t \in Threads, BeginSort(t) \/ EndSort(t)
  PROVE  TypeOK'
<1> DEFINE n == at[t]
           lines == LinesOf(n)
           nlo == node[n].nlo
           nhi == node[n].nhi
<1>1. n \in Nodes /\ nlo \in Int /\ nhi \in Int
  BY DEF TypeOK
<1>2. lines \in Int
  BY <1>1, TreeAssumption, SizesAssumption DEF WellLinked, Nodes, LinesOf, Level
<1> HIDE DEF n, lines, nlo, nhi
<1>3. CASE BeginSort(t)
  <2>1. work' \in [Threads -> Seq(Slots)]
    <3>1. PICK lo \in StableSorts(Slice(lines, nlo)), hi \in StableSorts(Slice(lines + nlo, nhi)) :
            work' = [work EXCEPT ![t] = lo \o hi]
      BY <1>3 DEF BeginSort, n, lines, nlo, nhi
    <3>2. Slice(lines, nlo) \in Seq(Slots) /\ Slice(lines + nlo, nhi) \in Seq(Slots)
      BY <1>1, <1>2, SliceType
    <3>3. lo \in Seq(Slots) /\ hi \in Seq(Slots)
      BY <3>2, StableSortsType
    <3>4. lo \o hi \in Seq(Slots)
      BY <3>3
    <3> QED BY <3>1, <3>4 DEF TypeOK
  <2>2. mem' \in [Addresses -> Slots]
    <3> DEFINE filled == Store(mem, lines, Fill(nlo + nhi))
               scratch == Fill(nlo \div 2 + nhi \div 2)
    <3>1. mem' = Store(filled, lines + NLines, scratch)
      BY <1>3 DEF BeginSort, n, lines, nlo, nhi
    <3>2. Fill(nlo + nhi) \in Seq(Slots) /\ scratch \in Seq(Slots)
      BY <1>1, FillType
    <3>3. filled \in [Addresses -> Slots]
      BY <3>2, <1>2, StoreType DEF TypeOK
    <3> HIDE DEF filled, scratch
    <3>4. lines + NLines \in Int
      BY <1>2, SizesAssumption
    <3> QED BY <3>1, <3>2, <3>3, <3>4, StoreType
  <2>3. pc' \in [Threads -> Labels]
    BY <1>3, QueueTypes, <1>1 DEF BeginSort, Labels
  <2> QED
    BY <1>3, <2>1, <2>2, <2>3 DEF BeginSort, TypeOK, queueVars
<1>4. CASE EndSort(t)
  <2>1. work[t] \in Seq(Slots)
    BY DEF TypeOK
  <2>2. mem' \in [Addresses -> Slots]
    BY <1>4, <1>2, <2>1, StoreType DEF EndSort, TypeOK, n, lines
  <2>3. work' \in [Threads -> Seq(Slots)]
    BY <1>4 DEF EndSort, TypeOK
  <2>4. node' \in [Nodes -> NodeType]
    <3> DEFINE new == [node EXCEPT ![n].lo = lines, ![n].hi = lines + nlo,
                                   ![n].end_lo = lines + nlo, ![n].end_hi = lines + nlo + nhi]
    <3>1. node' = new
      BY <1>4 DEF EndSort, n, lines, nlo, nhi
    <3>2. node \in [Nodes -> NodeType]
      BY DEF TypeOK, NodeType
    <3>3. lines + nlo \in Int /\ lines + nlo + nhi \in Int
      BY <1>1, <1>2
    <3>4. ASSUME NEW i \in Nodes, NEW a \in Int, NEW b \in Int, NEW c \in Int
          PROVE  [node EXCEPT ![i].lo = a, ![i].hi = b, ![i].end_lo = b, ![i].end_hi = c]
                   \in [Nodes -> NodeType]
      BY <3>2, ZenonT(60) DEF NodeType
    <3>5. new \in [Nodes -> NodeType]
      BY <3>3, <3>4, <1>1, <1>2
    <3> QED BY <3>1, <3>5
  <2>5. /\ pc' \in [Threads -> Labels] /\ waiting' \subseteq Threads
        /\ heap' \in [Nodes -> Nat] /\ queued' \in [Nodes -> BOOLEAN]
    BY <1>4, <1>1, QueueTypes DEF EndSort, Labels, n
  <2>6. at' \in [Threads -> Nodes]
    BY <1>4, TreeFacts DEF EndSort, TypeOK
  <2> QED
    BY <1>4, <2>2, <2>3, <2>4, <2>5, <2>6 DEF EndSort, TypeOK, NodeType
<1> QED BY <1>3, <1>4

\* A thread in mergelines_node: what it reads and what it moves.
LEMMA ReadTypes ==
  ASSUME TypeOK, NEW t \in Threads, NEW e \in Ends(t)
  PROVE  /\ Seen(t, e) \in [Threads -> LocalsType]
         /\ [Seen(t, e) EXCEPT ![t].to_merge = SIZE_MAX] \in [Threads -> LocalsType]
         /\ [Seen(t, e) EXCEPT ![t].to_merge = @ - 1, ![t].dest = @ + 1]
              \in [Threads -> LocalsType]
<1>1. m \in [Threads -> LocalsType]
  BY DEF TypeOK, LocalsType
<1>2. node[at[t]].end_lo \in Int /\ node[at[t]].end_hi \in Int
  BY DEF TypeOK
<1>3. e[1] \in Int /\ e[2] \in Int
  BY <1>1, <1>2 DEF Ends, LocalsType
<1>4. Seen(t, e) \in [Threads -> LocalsType]
  BY <1>1, <1>3 DEF Seen, LocalsType
<1> DEFINE s == Seen(t, e)
<1> HIDE DEF s
<1>5. s \in [Threads -> LocalsType]
  BY <1>4 DEF s
<1>6. s[t].to_merge - 1 \in Int /\ s[t].dest + 1 \in Int /\ SIZE_MAX \in Int
  BY <1>5, SizesAssumption DEF LocalsType
<1>7. [s EXCEPT ![t].to_merge = SIZE_MAX] \in [Threads -> LocalsType]
  BY <1>5, <1>6 DEF LocalsType
<1>8. [s EXCEPT ![t].to_merge = @ - 1, ![t].dest = @ + 1] \in [Threads -> LocalsType]
  BY <1>5, <1>6 DEF LocalsType
<1> QED BY <1>4, <1>7, <1>8 DEF s

LEMMA MoveTypes ==
  ASSUME TypeOK, NEW t \in Threads, NEW e \in Ends(t), NEW fromLo \in BOOLEAN,
         Move(t, fromLo, e)
  PROVE  /\ mem' \in [Addresses -> Slots] /\ node' \in [Nodes -> NodeType]
         /\ m' \in [Threads -> LocalsType] /\ saved' \in Slots /\ out' \in Seq(Slots)
<1> DEFINE n == at[t]
           line == Read(IF fromLo THEN node[n].lo ELSE node[n].hi)
<1>1. n \in Nodes
  BY DEF TypeOK
<1>2. line \in Slots
  BY DEF TypeOK, Read, Slots, Untouched
<1> HIDE DEF n, line
<1>3. node' \in [Nodes -> NodeType]
  <2>1. node \in [Nodes -> NodeType]
    BY DEF TypeOK, NodeType
  <2>2. node[n].lo + 1 \in Int /\ node[n].hi + 1 \in Int
    BY <1>1, <2>1 DEF NodeType
  <2>3. node' = IF fromLo THEN [node EXCEPT ![n].lo = @ + 1] ELSE [node EXCEPT ![n].hi = @ + 1]
    BY DEF Move, n
  <2> QED BY <1>1, <2>1, <2>2, <2>3 DEF NodeType
<1>4. m' \in [Threads -> LocalsType]
  BY ReadTypes DEF Move
<1>5. mem' \in [Addresses -> Slots]
  <2>1. mem' = mem \/ mem' = [mem EXCEPT ![m[t].dest] = line]
    BY DEF Move, n, line
  <2> QED BY <1>2, <2>1 DEF TypeOK
<1>6. saved' \in Slots /\ out' \in Seq(Slots)
  <2>1. (saved' = saved \/ saved' = line) /\ (out' = out \/ out' = Append(out, line))
    BY DEF Move, write_unique, n, line
  <2>2. saved \in Slots /\ out \in Seq(Slots)
    BY DEF TypeOK
  <2>3. Append(out, line) \in Seq(Slots)
    BY <1>2, <2>2
  <2> QED BY <1>2, <2>1, <2>2, <2>3
<1> QED BY <1>3, <1>4, <1>5, <1>6

LEMMA MergeTypes ==
  ASSUME TypeOK, NEW t \in Threads, Merge(t) \/ Drain(t)
  PROVE  TypeOK'
<1>1. AfterLoop(t) \in Labels /\ "store" \in Labels
  BY DEF AfterLoop, Labels
<1>2. \A label \in Labels : Goto(t, label) => pc' \in [Threads -> Labels]
  BY DEF TypeOK, Goto
<1>3. /\ mem' \in [Addresses -> Slots] /\ node' \in [Nodes -> NodeType]
      /\ m' \in [Threads -> LocalsType] /\ saved' \in Slots /\ out' \in Seq(Slots)
      /\ pc' \in [Threads -> Labels]
  <2>0. /\ mem \in [Addresses -> Slots] /\ node \in [Nodes -> NodeType]
        /\ saved \in Slots /\ out \in Seq(Slots) /\ pc \in [Threads -> Labels]
    BY DEF TypeOK, NodeType
  <2>1. CASE Merge(t)
    <3>1. PICK e \in Ends(t) :
            \/ Move(t, TakeLo(at[t]), e) /\ UNCHANGED pc
            \/ /\ m' = [Seen(t, e) EXCEPT ![t].to_merge = SIZE_MAX]
               /\ Goto(t, AfterLoop(t)) /\ UNCHANGED tableVars
            \/ m' = Seen(t, e) /\ Goto(t, AfterLoop(t)) /\ UNCHANGED tableVars
      BY <2>1 DEF Merge
    <3>2. TakeLo(at[t]) \in BOOLEAN
      BY DEF TakeLo
    <3>3. CASE Move(t, TakeLo(at[t]), e) /\ UNCHANGED pc
      BY <3>2, <3>3, <2>0, MoveTypes
    <3>4. CASE /\ m' = [Seen(t, e) EXCEPT ![t].to_merge = SIZE_MAX]
               /\ Goto(t, AfterLoop(t)) /\ UNCHANGED tableVars
      BY <3>4, <2>0, <1>1, <1>2, ReadTypes DEF tableVars
    <3>5. CASE m' = Seen(t, e) /\ Goto(t, AfterLoop(t)) /\ UNCHANGED tableVars
      BY <3>5, <2>0, <1>1, <1>2, ReadTypes DEF tableVars
    <3> QED BY <3>1, <3>3, <3>4, <3>5
  <2>2. CASE Drain(t)
    <3>1. PICK e \in Ends(t) :
            \/ Move(t, pc[t] = "drainlo", e) /\ UNCHANGED pc
            \/ m' = Seen(t, e) /\ Goto(t, "store") /\ UNCHANGED tableVars
      BY <2>2 DEF Drain
    <3>2. CASE Move(t, pc[t] = "drainlo", e) /\ UNCHANGED pc
      BY <3>2, <2>0, MoveTypes
    <3>3. CASE m' = Seen(t, e) /\ Goto(t, "store") /\ UNCHANGED tableVars
      BY <3>3, <2>0, <1>1, <1>2, ReadTypes DEF tableVars
    <3> QED BY <3>1, <3>2, <3>3
  <2> QED BY <2>1, <2>2
<1>4. UNCHANGED <<input, lock, at, work, queueVars>>
  BY DEF Merge, Drain
<1> QED
  BY <1>3, <1>4 DEF TypeOK, NodeType, LocalsType, queueVars

LEMMA StoreDestTypes ==
  ASSUME TypeOK, NEW t \in Threads, StoreDest(t)
  PROVE  TypeOK'
<1>1. at[t] \in Nodes
  BY DEF TypeOK
<1>2. node \in [Nodes -> NodeType] /\ m \in [Threads -> LocalsType]
  BY DEF TypeOK, NodeType, LocalsType
<1>3. Counted(t) \in [Nodes -> NodeType]
  <2> DEFINE n == at[t]
             a == node[n].nlo - (node[n].lo - m[t].lo)
             b == node[n].nhi - (node[n].hi - m[t].hi)
  <2>1. a \in Int /\ b \in Int
    BY <1>1, <1>2 DEF NodeType, LocalsType
  <2>2. Counted(t) = [node EXCEPT ![n].nlo = a, ![n].nhi = b]
    BY <1>1, <1>2 DEF Counted, NodeType
  <2> HIDE DEF a, b
  <2> QED BY <1>1, <1>2, <2>1, <2>2 DEF NodeType
<1>4. node' \in [Nodes -> NodeType]
  <2> DEFINE c == Counted(t)
  <2>1. m[t].dest \in Int
    BY <1>2 DEF LocalsType
  <2>2. \/ node' = c
        \/ node' = [c EXCEPT ![Parent(at[t])].end_lo = m[t].dest]
        \/ node' = [c EXCEPT ![Parent(at[t])].end_hi = m[t].dest]
    BY DEF StoreDest
  <2>3. c \in [Nodes -> NodeType]
    BY <1>3
  <2> HIDE DEF c
  <2> QED BY <1>1, <2>1, <2>2, <2>3 DEF NodeType
<1>5. pc' \in [Threads -> Labels]
  BY DEF StoreDest, Goto, Labels, TypeOK
<1> QED
  BY <1>4, <1>5 DEF StoreDest, TypeOK, NodeType, queueVars

LEMMA LockTypes ==
  ASSUME TypeOK, NEW t \in Threads, LockNode(t)
  PROVE  TypeOK'
<1> DEFINE n == at[t]
<1>1. n \in Regular
  BY TreeFacts DEF LockNode, TypeOK
<1>2. node \in [Nodes -> NodeType] /\ m \in [Threads -> LocalsType]
  BY DEF TypeOK, NodeType, LocalsType
<1>3. (IF Level(n) > MERGE_ROOT THEN Dest(n) ELSE 0) \in Int
  <2>1. Parent(n) \in Nodes
    BY <1>1, TreeFacts
  <2>2. node[Parent(n)].end_lo \in Int /\ node[Parent(n)].end_hi \in Int
    BY <1>2, <2>1 DEF NodeType
  <2> QED BY <2>2 DEF Dest
<1>4. MAX_MERGE(NLines, Level(n)) \in Int
  <2>1. n \in Nodes
    BY <1>1, TreeFacts
  <2> HIDE DEF n
  <2>2. MAX_MERGE(NLines, Level(n)) \in Nat
    BY <2>1, MergeAssumption
  <2> QED BY <2>2
<1>5. m' \in [Threads -> LocalsType]
  <2> DEFINE d == IF Level(n) > MERGE_ROOT THEN Dest(n) ELSE 0
             l == [lo |-> node[n].lo, hi |-> node[n].hi,
                   to_merge |-> MAX_MERGE(NLines, Level(n)), dest |-> d,
                   end_lo |-> node[n].end_lo, end_hi |-> node[n].end_hi]
  <2>1. m' = [m EXCEPT ![t] = l]
    BY DEF LockNode
  <2>2. n \in Nodes /\ d \in Int
    BY <1>1, <1>3, TreeFacts
  <2>3. /\ node[n].lo \in Int /\ node[n].hi \in Int
        /\ node[n].end_lo \in Int /\ node[n].end_hi \in Int
    BY <1>2, <2>2 DEF NodeType
  <2> HIDE DEF d
  <2>4. l \in LocalsType
    BY <1>4, <2>2, <2>3 DEF LocalsType
  <2> QED BY <1>2, <2>1, <2>4
<1>6. /\ lock' \in [Nodes -> Threads \cup {NoThread}] /\ queued' \in [Nodes -> BOOLEAN]
      /\ pc' \in [Threads -> Labels]
  BY DEF LockNode, Goto, TypeOK, Labels
<1> QED
  BY <1>5, <1>6 DEF LockNode, TypeOK, LocalsType, tableVars

LEMMA CheckTypes ==
  ASSUME TypeOK, NEW t \in Threads, Check(t) \/ CheckParent(t) \/ PopEnd(t)
  PROVE  TypeOK'
<1>0. /\ waiting \subseteq Threads /\ heap \in [Nodes -> Nat] /\ queued \in [Nodes -> BOOLEAN]
      /\ at[t] \in Nodes /\ pc \in [Threads -> Labels]
  BY DEF TypeOK
<1>1. {"parent", "pop", "join"} \subseteq Labels
  BY DEF Labels
<1>2. CASE Check(t)
  <2>1. /\ pc' \in [Threads -> Labels] /\ waiting' \subseteq Threads
        /\ heap' \in [Nodes -> Nat] /\ queued' \in [Nodes -> BOOLEAN]
    BY <1>0, <1>1, <1>2, QueueTypes DEF Check
  <2>2. m' \in [Threads -> LocalsType]
    BY <1>2 DEF Check, TypeOK, NoLocals, LocalsType
  <2> QED BY <1>2, <2>1, <2>2 DEF Check, TypeOK, LocalsType, tableVars
<1>3. CASE CheckParent(t)
  <2> DEFINE n == at[t]
  <2>1. n \in Regular
    BY <1>0, <1>3, TreeFacts DEF CheckParent, MERGE_ROOT, MERGE_END
  <2>2. Parent(n) \in Nodes
    BY <2>1, TreeFacts
  <2>3. \/ \E e : queue_check_insert(t, Parent(n), e, "pop")
        \/ queue_insert(t, Parent(n), "pop")
        \/ Goto(t, "pop") /\ UNCHANGED queueVars
    BY <1>3 DEF CheckParent
  <2>4. /\ pc' \in [Threads -> Labels] /\ waiting' \subseteq Threads
        /\ heap' \in [Nodes -> Nat] /\ queued' \in [Nodes -> BOOLEAN]
    <3>1. CASE \E e : queue_check_insert(t, Parent(n), e, "pop")
      BY <3>1, <1>1, <2>2, QueueTypes
    <3>2. CASE queue_insert(t, Parent(n), "pop")
      BY <3>2, <1>1, <2>2, QueueTypes
    <3>3. CASE Goto(t, "pop") /\ UNCHANGED queueVars
      BY <3>3, <1>0, <1>1, <2>2, QueueTypes DEF queueVars
    <3> QED BY <2>3, <3>1, <3>2, <3>3
  <2>5. lock' \in [Nodes -> Threads \cup {NoThread}] /\ at' \in [Threads -> Nodes]
    BY <1>3, TreeFacts DEF CheckParent, TypeOK
  <2> QED BY <1>3, <2>4, <2>5 DEF CheckParent, TypeOK, tableVars
<1>4. CASE PopEnd(t)
  <2>1. /\ pc' \in [Threads -> Labels] /\ waiting' \subseteq Threads
        /\ heap' \in [Nodes -> Nat] /\ queued' \in [Nodes -> BOOLEAN]
    BY <1>0, <1>1, <1>4, QueueTypes DEF PopEnd
  <2> QED BY <1>4, <2>1 DEF PopEnd, TypeOK, tableVars
<1> QED BY <1>2, <1>3, <1>4

LEMMA OtherTypes ==
  ASSUME TypeOK, NEW t \in Threads,
         Create(t) \/ Pop(t) \/ Wait(t) \/ Join(t) \/ Spurious(t)
  PROVE  TypeOK'
<1>1. CASE Create(t)
  <2>1. at[t] \in Nodes
    BY DEF TypeOK
  <2>2. Tree[at[t]].hi_child \in Nodes
    BY <1>1, TreeFacts DEF Create, MaySplit
  <2>3. at' \in [Threads -> Nodes]
    BY <1>1, <2>2 DEF Create, TypeOK
  <2>4. pc' \in [Threads -> Labels]
    BY <1>1 DEF Create, TypeOK, Labels
  <2> QED BY <1>1, <2>3, <2>4 DEF Create, TypeOK, tableVars, queueVars
<1>2. CASE Pop(t)
  <2>1. PICK n \in Nodes : /\ heap[n] > 0 /\ heap' = [heap EXCEPT ![n] = @ - 1]
                           /\ at' = [at EXCEPT ![t] = n]
    BY <1>2 DEF Pop
  <2>2. heap \in [Nodes -> Nat] /\ at \in [Threads -> Nodes]
    BY DEF TypeOK
  <2>3. heap[n] - 1 \in Nat
    BY <2>1, <2>2
  <2>4. heap' \in [Nodes -> Nat] /\ at' \in [Threads -> Nodes]
    BY <2>1, <2>2, <2>3
  <2>5. pc' \in [Threads -> Labels]
    BY <1>2 DEF Pop, Goto, TypeOK, Labels
  <2> QED BY <1>2, <2>4, <2>5 DEF Pop, TypeOK, tableVars
<1>3. CASE Wait(t) \/ Spurious(t) \/ Join(t)
  <2>1. pc' \in [Threads -> Labels] /\ waiting' \subseteq Threads
    BY <1>3 DEF Wait, Spurious, Join, Goto, TypeOK, Labels, queueVars
  <2> QED BY <1>3, <2>1 DEF Wait, Spurious, Join, TypeOK, tableVars, queueVars
<1> QED BY <1>1, <1>2, <1>3

LEMMA StepTypes ==
  ASSUME TypeOK, NEW t \in Threads, Step(t) \/ Spurious(t)
  PROVE  TypeOK'
BY SortTypes, MergeTypes, StoreDestTypes, LockTypes, CheckTypes, OtherTypes DEF Step

LEMMA StutterTypes == TypeOK /\ UNCHANGED vars => TypeOK'
BY DEF TypeOK, vars

\* Every variable always has its type, for every tree, number of lines and input.
THEOREM TypeCorrect == Spec => []TypeOK
<1>1. TypeOK /\ [Next]_vars => TypeOK'
  BY StepTypes, StutterTypes DEF Next, Return
<1> QED
  BY <1>1, InitTypeOK, PTL DEF Spec
-----------------------------------------------------------------------------
(* The priority queue *)

\* QueuedOnce is not inductive: a leaf's thread inserts its node without a look at
\* the queued flag, so that nobody else must have touched the node before.  A node
\* is touched only when a sortlines has been called for it, and a node whose lines
\* are being sorted in one thread has no sortlines below it.
Called(n) == n = RootNode \/ Split(Parent(n))

Idle(n) == /\ heap[n] = 0 /\ ~queued[n]
           /\ \A t \in Threads : pc[t] # "none" => at[t] # n

WaitersWait == \A t \in waiting : pc[t] = "wait"
UncalledIdle == \A n \in Regular : ~Called(n) => Idle(n) /\ ~Split(n)
NotYetAtHome == \A t \in Threads : pc[t] = "none" => at[t] = t
SortersAlone ==
  \A t \in Threads : pc[t] \in Sorting =>
    /\ at[t] \in Regular /\ heap[at[t]] = 0 /\ ~queued[at[t]] /\ ~Split(at[t])
    /\ \A s \in Threads \ {t} : pc[s] # "none" => at[s] # at[t]

QueueInv == /\ WaitersWait /\ UncalledIdle /\ NotYetAtHome /\ SortersAlone
            /\ QueuedOnce

LEMMA InitQueueInv == Init => QueueInv
<1> SUFFICES ASSUME Init PROVE QueueInv
  OBVIOUS
<1>1. \A t \in Threads : pc[t] = IF t = Main THEN "sortlines" ELSE "none"
  BY DEF Init
<1>2. \A n \in Interior : pc[Tree[n].lo_child] = "none"
  <2> TAKE n \in Interior
  <2>1. Tree[n].lo_child \in Threads /\ Tree[n].lo_child # RootNode
    BY TreeFacts
  <2> QED BY <1>1, <2>1 DEF Main
<1>3. \A n \in Nodes : ~Split(n)
  BY <1>2 DEF Split
<1>4. WaitersWait /\ NotYetAtHome
  BY DEF Init, WaitersWait, NotYetAtHome
<1>5. UncalledIdle
  BY <1>1, <1>3, TreeFacts DEF Init, UncalledIdle, Called, Idle, Main
<1>6. SortersAlone
  BY <1>1, <1>3, TreeFacts DEF Init, SortersAlone, Main, Sorting
<1>7. QueuedOnce
  BY <1>1, TreeFacts DEF Init, QueuedOnce, Popped
<1> QED BY <1>4, <1>5, <1>6, <1>7 DEF QueueInv

\* What a step of thread t does to the other threads, Create apart: it may wake one.
OthersKeep(t) ==
  /\ pc[t] # "none" /\ pc'[t] # "none"
  /\ \A s \in Threads \ {t} :
       /\ at'[s] = at[s]
       /\ pc'[s] = pc[s] \/ (pc[s] = "wait" /\ pc'[s] = "pop")
  /\ \A s \in waiting' : pc'[s] = "wait"

LEMMA OthersKept ==
  ASSUME QueueInv, NEW t \in Threads, OthersKeep(t)
  PROVE  /\ WaitersWait' /\ NotYetAtHome'
         /\ \A s \in Threads : pc'[s] = "none" <=> pc[s] = "none"
         /\ \A n \in Nodes : /\ Split(n)' <=> Split(n)
                             /\ n \in Regular => (Called(n)' <=> Called(n))
<1>1. WaitersWait' /\ NotYetAtHome'
  BY DEF OthersKeep, QueueInv, WaitersWait, NotYetAtHome
<1>2. \A s \in Threads : pc'[s] = "none" <=> pc[s] = "none"
  BY DEF OthersKeep
<1>3. \A n \in Nodes : Split(n)' <=> Split(n)
  BY <1>2, TreeFacts DEF Split
<1>4. \A n \in Regular : Called(n)' <=> Called(n)
  BY <1>3, TreeFacts DEF Called
<1> QED BY <1>1, <1>2, <1>3, <1>4

\* A step after which the queue has the same nodes of the tree as before.
LEMMA QuietStep ==
  ASSUME QueueInv, NEW t \in Threads, OthersKeep(t),
         \A n \in Regular : heap'[n] = heap[n] /\ queued'[n] = queued[n],
         at'[t] \in {at[t], EndNode},
         pc[t] = "lock" => at[t] = EndNode,
         pc'[t] # "lock",
         pc'[t] \in Sorting => pc[t] \in Sorting /\ at'[t] = at[t]
  PROVE  QueueInv'
<1>0. /\ \A s \in Threads, n \in Regular : pc'[s] # "none" /\ at'[s] = n
           => pc[s] # "none" /\ at[s] = n
      /\ \A s \in Threads : pc'[s] \in Sorting => pc[s] \in Sorting /\ at'[s] = at[s]
      /\ \A s \in Threads : s # t => (pc'[s] = "lock" <=> pc[s] = "lock")
  BY TreeFacts DEF OthersKeep, Sorting
<1>1. UncalledIdle'
  <2> SUFFICES ASSUME NEW n \in Regular, ~Called(n)'
               PROVE  Idle(n)' /\ ~Split(n)'
    BY DEF UncalledIdle
  <2>1. Idle(n) /\ ~Split(n) /\ ~Split(n)'
    BY OthersKept, TreeFacts DEF QueueInv, UncalledIdle
  <2> QED BY <1>0, <2>1 DEF Idle
<1>2. SortersAlone'
  <2> SUFFICES ASSUME NEW s \in Threads, pc'[s] \in Sorting
               PROVE  /\ at'[s] \in Regular /\ heap'[at'[s]] = 0 /\ ~queued'[at'[s]]
                      /\ ~Split(at[s])' /\ at'[s] = at[s]
                      /\ \A r \in Threads \ {s} : pc'[r] # "none" => at'[r] # at'[s]
    BY DEF SortersAlone, Split
  <2>1. pc[s] \in Sorting /\ at'[s] = at[s]
    BY <1>0
  <2>2. /\ at[s] \in Regular /\ heap[at[s]] = 0 /\ ~queued[at[s]] /\ ~Split(at[s])
        /\ \A r \in Threads \ {s} : pc[r] # "none" => at[r] # at[s]
    BY <2>1 DEF QueueInv, SortersAlone
  <2>3. ~Split(at[s])'
    <3>1. \A k \in Regular : ~Split(k) => ~(k \in Interior /\ pc'[Tree[k].lo_child] # "none")
      BY OthersKept, TreeFacts DEF Split
    <3> QED BY <2>1, <2>2, <3>1 DEF Split
  <2>4. at'[s] \in Regular /\ heap'[at'[s]] = 0 /\ ~queued'[at'[s]]
    <3>1. heap'[at[s]] = 0
      BY <2>2
    <3>2. ~queued'[at[s]]
      BY <2>2
    <3> QED BY <2>1, <2>2, <3>1, <3>2
  <2>5. \A r \in Threads \ {s} : pc'[r] # "none" => at'[r] # at'[s]
    BY <1>0, <2>1, <2>2
  <2> QED BY <2>1, <2>3, <2>4, <2>5
<1>3. QueuedOnce'
  <2>1. \A n \in Regular : Popped(n)' = Popped(n)
    <3> TAKE n \in Regular
    <3>1. \A s \in Threads : pc'[s] = "lock" /\ at'[s] = n <=> pc[s] = "lock" /\ at[s] = n
      BY <1>0, TreeFacts DEF OthersKeep
    <3> QED BY <3>1 DEF Popped
  <2> QED BY <2>1 DEF QueueInv, QueuedOnce
<1> QED BY <1>1, <1>2, <1>3, OthersKept DEF QueueInv

\* A step that inserts node n of the tree, which is neither queued nor sorted.
LEMMA InsertStep ==
  ASSUME TypeOK, QueueInv, NEW t \in Threads, OthersKeep(t), NEW n \in Regular,
         Called(n), ~queued[n],
         \A s \in Threads \ {t} : pc[s] \in Sorting => at[s] # n,
         heap' = [heap EXCEPT ![n] = @ + 1], queued' = [queued EXCEPT ![n] = TRUE],
         at'[t] \in {at[t], EndNode}, pc[t] # "lock", pc'[t] \in {"pop", "parent"}
  PROVE  QueueInv'
<1>0. heap \in [Nodes -> Nat] /\ queued \in [Nodes -> BOOLEAN] /\ Regular \subseteq Nodes
  BY TreeFacts DEF TypeOK
<1>a. /\ \A s \in Threads, k \in Regular : pc'[s] # "none" /\ at'[s] = k
           => pc[s] # "none" /\ at[s] = k
      /\ \A s \in Threads : pc'[s] \in Sorting => s # t /\ pc[s] \in Sorting /\ at'[s] = at[s]
      /\ \A s \in Threads : pc'[s] = "lock" <=> pc[s] = "lock"
  BY TreeFacts DEF OthersKeep, Sorting
<1>1. UncalledIdle'
  <2> SUFFICES ASSUME NEW k \in Regular, ~Called(k)'
               PROVE  Idle(k)' /\ ~Split(k)'
    BY DEF UncalledIdle
  <2>1. Idle(k) /\ ~Split(k) /\ ~Split(k)' /\ k # n
    BY OthersKept, TreeFacts DEF QueueInv, UncalledIdle
  <2> QED BY <1>0, <1>a, <2>1 DEF Idle
<1>2. SortersAlone'
  <2> SUFFICES ASSUME NEW s \in Threads, pc'[s] \in Sorting
               PROVE  /\ at'[s] \in Regular /\ heap'[at'[s]] = 0 /\ ~queued'[at'[s]]
                      /\ ~Split(at[s])' /\ at'[s] = at[s]
                      /\ \A r \in Threads \ {s} : pc'[r] # "none" => at'[r] # at'[s]
    BY DEF SortersAlone, Split
  <2>1. s # t /\ pc[s] \in Sorting /\ at'[s] = at[s] /\ at[s] # n
    BY <1>a
  <2>2. /\ at[s] \in Regular /\ heap[at[s]] = 0 /\ ~queued[at[s]] /\ ~Split(at[s])
        /\ \A r \in Threads \ {s} : pc[r] # "none" => at[r] # at[s]
    BY <2>1 DEF QueueInv, SortersAlone
  <2>3. ~Split(at[s])'
    <3>1. \A k \in Regular : ~Split(k) => ~(k \in Interior /\ pc'[Tree[k].lo_child] # "none")
      BY OthersKept, TreeFacts DEF Split
    <3> QED BY <2>1, <2>2, <3>1 DEF Split
  <2>4. at'[s] \in Regular /\ heap'[at'[s]] = 0 /\ ~queued'[at'[s]]
    <3>1. heap'[at[s]] = 0
      BY <1>0, <2>1, <2>2
    <3>2. ~queued'[at[s]]
      BY <1>0, <2>1, <2>2
    <3> QED BY <2>1, <2>2, <3>1, <3>2
  <2>5. \A r \in Threads \ {s} : pc'[r] # "none" => at'[r] # at'[s]
    BY <1>a, <2>1, <2>2
  <2> QED BY <2>1, <2>3, <2>4, <2>5
<1>3. QueuedOnce'
  <2>1. \A k \in Regular : Popped(k)' = Popped(k)
    <3> TAKE k \in Regular
    <3>1. \A s \in Threads : pc'[s] = "lock" /\ at'[s] = k <=> pc[s] = "lock" /\ at[s] = k
      BY <1>a, TreeFacts DEF OthersKeep
    <3> QED BY <3>1 DEF Popped
  <2>2. heap[n] = 0 /\ Popped(n) = {}
    BY <1>0 DEF QueueInv, QueuedOnce
  <2>3. heap'[n] = 1 /\ queued'[n] = TRUE
    BY <1>0, <2>2
  <2>4. \A k \in Regular \ {n} : heap'[k] = heap[k] /\ queued'[k] = queued[k]
    BY <1>0
  <2> QED BY <2>1, <2>2, <2>3, <2>4 DEF QueueInv, QueuedOnce
<1> QED BY <1>1, <1>2, <1>3, OthersKept DEF QueueInv

\* The calls that may wake a waiting thread.
LEMMA SignalKeeps ==
  ASSUME TypeOK, QueueInv, NEW t \in Threads, NEW label,
         pc[t] \notin {"none", "wait"}, label # "none",
         Signal(t, label), \A s \in Threads \ {t} : at'[s] = at[s]
  PROVE  OthersKeep(t) /\ pc'[t] = label
<1>0. pc \in [Threads -> Labels] /\ waiting \subseteq Threads /\ \A s \in waiting : pc[s] = "wait"
  BY DEF TypeOK, QueueInv, WaitersWait
<1>1. CASE waiting = {} /\ pc' = [pc EXCEPT ![t] = label] /\ UNCHANGED waiting
  BY <1>0, <1>1 DEF OthersKeep
<1>2. ASSUME NEW w \in waiting, waiting' = waiting \ {w},
             pc' = [pc EXCEPT ![w] = "pop", ![t] = label]
      PROVE  OthersKeep(t) /\ pc'[t] = label
  <2>1. w # t /\ w \in Threads /\ pc[w] = "wait"
    BY <1>0
  <2>2. pc'[t] = label /\ pc'[w] = "pop" /\ \A s \in Threads \ {t, w} : pc'[s] = pc[s]
    BY <1>0, <1>2, <2>1
  <2> QED BY <1>0, <1>2, <2>1, <2>2 DEF OthersKeep
<1> QED BY <1>1, <1>2 DEF Signal

LEMMA GotoKeeps ==
  ASSUME TypeOK, QueueInv, NEW t \in Threads, NEW label,
         pc[t] \notin {"none", "wait"}, label # "none", Goto(t, label),
         UNCHANGED waiting, \A s \in Threads \ {t} : at'[s] = at[s]
  PROVE  OthersKeep(t) /\ pc'[t] = label
BY DEF OthersKeep, Goto, TypeOK, QueueInv, WaitersWait

\* A queue_insert of a node of the tree, or of the MERGE_END node.
LEMMA InsertKeeps ==
  ASSUME TypeOK, QueueInv, NEW t \in Threads, NEW n \in Nodes, NEW label \in {"pop", "parent"},
         pc[t] \notin {"none", "wait", "lock"}, queue_insert(t, n, label),
         n \in Regular => /\ Called(n) /\ ~queued[n]
                          /\ \A s \in Threads \ {t} : pc[s] \in Sorting => at[s] # n,
         at' = at \/ at' = [at EXCEPT ![t] = EndNode]
  PROVE  QueueInv'
<1>1. \A s \in Threads \ {t} : at'[s] = at[s]
  BY DEF TypeOK
<1>2. at'[t] \in {at[t], EndNode}
  BY DEF TypeOK
<1>3. OthersKeep(t) /\ pc'[t] = label
  BY <1>1, SignalKeeps DEF queue_insert
<1>4. CASE n \in Regular
  BY <1>2, <1>3, <1>4, InsertStep DEF queue_insert
<1>5. CASE n \notin Regular
  <2>1. \A k \in Regular : heap'[k] = heap[k] /\ queued'[k] = queued[k]
    BY <1>5, TreeFacts DEF queue_insert, TypeOK
  <2> QED BY <1>2, <1>3, <2>1, QuietStep DEF Sorting
<1> QED BY <1>4, <1>5

LEMMA CheckInsertKeeps ==
  ASSUME TypeOK, QueueInv, NEW t \in Threads, NEW n \in Nodes, NEW label \in {"pop", "parent"},
         NEW e, pc[t] \notin {"none", "wait", "lock"}, queue_check_insert(t, n, e, label),
         n \in Regular => /\ Called(n)
                          /\ \A s \in Threads \ {t} : pc[s] \in Sorting => at[s] # n,
         at' = at \/ at' = [at EXCEPT ![t] = EndNode]
  PROVE  QueueInv'
<1>1. CASE Ready(n, e)
  BY <1>1, InsertKeeps DEF queue_check_insert, Ready
<1>2. CASE ~Ready(n, e)
  <2>1. /\ \A s \in Threads \ {t} : at'[s] = at[s]
        /\ at'[t] \in {at[t], EndNode}
    BY DEF TypeOK
  <2>2. OthersKeep(t) /\ pc'[t] = label
    BY <1>2, <2>1, GotoKeeps DEF queue_check_insert, queueVars
  <2>3. \A k \in Regular : heap'[k] = heap[k] /\ queued'[k] = queued[k]
    BY <1>2 DEF queue_check_insert, queueVars
  <2> QED BY <2>1, <2>2, <2>3, QuietStep DEF Sorting
<1> QED BY <1>1, <1>2

\* Where a thread works, a sortlines has been called, and no other thread sorts.
LEMMA WorkerFacts ==
  ASSUME QueueInv, NEW t \in Threads, pc[t] # "none", at[t] \in Regular
  PROVE  /\ Called(at[t])
         /\ \A s \in Threads \ {t} : pc[s] \in Sorting => at[s] # at[t]
         /\ at[t] # RootNode =>
              /\ Called(Parent(at[t]))
              /\ \A s \in Threads : pc[s] \in Sorting => at[s] # Parent(at[t])
<1>1. Called(at[t])
  BY DEF QueueInv, UncalledIdle, Idle
<1>2. \A s \in Threads \ {t} : pc[s] \in Sorting => at[s] # at[t]
  BY DEF QueueInv, SortersAlone
<1>3. ASSUME at[t] # RootNode
      PROVE  /\ Called(Parent(at[t]))
             /\ \A s \in Threads : pc[s] \in Sorting => at[s] # Parent(at[t])
  <2>1. Split(Parent(at[t])) /\ Parent(at[t]) \in Regular
    BY <1>1, <1>3, TreeFacts DEF Called
  <2>2. Called(Parent(at[t]))
    BY <2>1 DEF QueueInv, UncalledIdle
  <2>3. \A s \in Threads : pc[s] \in Sorting => at[s] # Parent(at[t])
    BY <2>1 DEF QueueInv, SortersAlone
  <2> QED BY <2>2, <2>3
<1> QED BY <1>1, <1>2, <1>3

LEMMA QueueSteps ==
  ASSUME TypeOK, QueueInv, NEW t \in Threads,
         EndSort(t) \/ Check(t) \/ CheckParent(t) \/ PopEnd(t)
  PROVE  QueueInv'
<1>0. at[t] \in Nodes
  BY DEF TypeOK
<1>1. CASE EndSort(t)
  <2>1. pc[t] = "sorting" /\ queue_insert(t, at[t], "pop") /\ at' = [at EXCEPT ![t] = EndNode]
    BY <1>1 DEF EndSort
  <2>2. at[t] \in Regular /\ ~queued[at[t]]
    BY <2>1 DEF QueueInv, SortersAlone, Sorting
  <2> QED BY <1>0, <2>1, <2>2, WorkerFacts, InsertKeeps
<1>2. CASE Check(t)
  <2>1. PICK e : queue_check_insert(t, at[t], e, "parent")
    BY <1>2 DEF Check
  <2>2. pc[t] = "check" /\ at' = at
    BY <1>2 DEF Check
  <2> QED BY <1>0, <2>1, <2>2, WorkerFacts, CheckInsertKeeps
<1>3. CASE CheckParent(t)
  <2>0. /\ pc[t] = "parent" /\ at' = [at EXCEPT ![t] = EndNode]
        /\ Level(at[t]) > MERGE_ROOT \/ Level(at[t]) = MERGE_ROOT
    BY <1>3 DEF CheckParent
  <2>1. at[t] \in Regular
    BY <1>0, <2>0, TreeFacts DEF MERGE_ROOT, MERGE_END
  <2>2. Parent(at[t]) \in Nodes
    BY <2>1, TreeFacts
  <2>3. CASE Level(at[t]) > MERGE_ROOT
    <3>1. PICK e : queue_check_insert(t, Parent(at[t]), e, "pop")
      BY <1>3, <2>3, <2>1, TreeFacts DEF CheckParent
    <3>2. at[t] # RootNode
      BY <2>1, <2>3, TreeFacts
    <3> QED BY <2>0, <2>1, <2>2, <3>1, <3>2, WorkerFacts, CheckInsertKeeps
  <2>4. CASE Level(at[t]) = MERGE_ROOT /\ queue_insert(t, Parent(at[t]), "pop")
    <3>1. Parent(at[t]) \notin Regular
      BY <2>1, <2>4, TreeFacts
    <3> QED BY <2>0, <2>2, <2>4, <3>1, InsertKeeps
  <2>5. CASE Goto(t, "pop") /\ UNCHANGED queueVars
    <3>1. /\ \A s \in Threads \ {t} : at'[s] = at[s]
          /\ at'[t] = EndNode
      BY <2>0 DEF TypeOK
    <3>2. OthersKeep(t) /\ pc'[t] = "pop"
      BY <2>0, <2>5, <3>1, GotoKeeps DEF queueVars
    <3> QED BY <2>0, <2>5, <3>1, <3>2, QuietStep DEF queueVars, Sorting
  <2> QED
    BY <1>3, <2>1, <2>3, <2>4, <2>5, TreeFacts DEF CheckParent
<1>4. CASE PopEnd(t)
  <2>1. pc[t] = "lock" /\ at[t] = EndNode /\ queue_insert(t, EndNode, "join") /\ at' = at
    BY <1>0, <1>4, TreeFacts DEF PopEnd
  <2>2. OthersKeep(t) /\ pc'[t] = "join"
    BY <2>1, SignalKeeps DEF queue_insert
  <2>3. \A k \in Regular : heap'[k] = heap[k] /\ queued'[k] = queued[k]
    BY <2>1, TreeFacts DEF queue_insert, TypeOK
  <2> QED BY <2>1, <2>2, <2>3, QuietStep DEF Sorting
<1> QED BY <1>1, <1>2, <1>3, <1>4

LEMMA QuietSteps ==
  ASSUME TypeOK, QueueInv, NEW t \in Threads,
         \/ BeginSort(t) \/ Wait(t) \/ Spurious(t)
         \/ Merge(t) \/ Drain(t) \/ StoreDest(t) \/ Join(t)
  PROVE  QueueInv'
<1>0. pc \in [Threads -> Labels] /\ \A s \in waiting : pc[s] = "wait"
  BY DEF TypeOK, QueueInv, WaitersWait
<1>1. CASE BeginSort(t)
  <2>1. /\ pc[t] = "sortlines" /\ Goto(t, "sorting") /\ UNCHANGED <<at, queueVars>>
    BY <1>1 DEF BeginSort
  <2>2. OthersKeep(t) /\ pc'[t] = "sorting"
    BY <2>1, GotoKeeps DEF queueVars
  <2> QED BY <2>1, <2>2, QuietStep DEF queueVars, Sorting
<1>2. CASE Wait(t)
  <2>1. /\ pc[t] = "pop" /\ Goto(t, "wait") /\ waiting' = waiting \cup {t}
        /\ UNCHANGED <<at, heap, queued>>
    BY <1>2 DEF Wait
  <2>2. OthersKeep(t) /\ pc'[t] = "wait"
    BY <1>0, <2>1 DEF OthersKeep, Goto
  <2> QED BY <2>1, <2>2, QuietStep DEF Sorting
<1>3. CASE Spurious(t)
  <2>1. /\ pc[t] = "wait" /\ Goto(t, "pop") /\ waiting' = waiting \ {t}
        /\ UNCHANGED <<at, heap, queued>>
    BY <1>0, <1>3 DEF Spurious
  <2>2. OthersKeep(t) /\ pc'[t] = "pop"
    BY <1>0, <2>1 DEF OthersKeep, Goto
  <2> QED BY <2>1, <2>2, QuietStep DEF Sorting
<1>4. CASE Merge(t) \/ Drain(t)
  <2>1. /\ pc[t] \in {"merge", "drainlo", "drainhi"} /\ UNCHANGED <<at, queueVars>>
        /\ UNCHANGED pc \/ Goto(t, AfterLoop(t)) \/ Goto(t, "store")
    BY <1>4 DEF Merge, Drain
  <2>2. AfterLoop(t) \in {"drainlo", "drainhi", "store"}
    BY DEF AfterLoop
  <2>3. OthersKeep(t) /\ pc'[t] \in {"merge", "drainlo", "drainhi", "store"}
    <3>1. CASE UNCHANGED pc
      BY <1>0, <2>1, <3>1 DEF OthersKeep, queueVars
    <3>2. ASSUME NEW label \in {"drainlo", "drainhi", "store"}, Goto(t, label)
          PROVE  OthersKeep(t) /\ pc'[t] \in {"merge", "drainlo", "drainhi", "store"}
      BY <1>0, <2>1, <3>2 DEF OthersKeep, queueVars, Goto
    <3> QED BY <2>1, <2>2, <3>1, <3>2
  <2> QED BY <2>1, <2>3, QuietStep DEF queueVars, Sorting
<1>5. CASE StoreDest(t) \/ Join(t)
  <2>1. /\ pc[t] \in {"store", "join"} /\ UNCHANGED <<at, queueVars>>
        /\ Goto(t, "check") \/ Goto(t, "done")
    BY <1>5 DEF StoreDest, Join
  <2>2. OthersKeep(t) /\ pc'[t] \in {"check", "done"}
    <3>1. CASE Goto(t, "check")
      BY <2>1, <3>1, GotoKeeps DEF queueVars
    <3>2. CASE Goto(t, "done")
      BY <2>1, <3>2, GotoKeeps DEF queueVars
    <3> QED BY <2>1, <3>1, <3>2
  <2> QED BY <2>1, <2>2, QuietStep DEF queueVars, Sorting
<1> QED BY <1>1, <1>2, <1>3, <1>4, <1>5

LEMMA PopStep ==
  ASSUME TypeOK, QueueInv, NEW t \in Threads, Pop(t)
  PROVE  QueueInv'
<1>0. /\ pc \in [Threads -> Labels] /\ at \in [Threads -> Nodes]
      /\ heap \in [Nodes -> Nat]
  BY DEF TypeOK
<1>1. PICK n \in Nodes : /\ heap[n] > 0 /\ heap' = [heap EXCEPT ![n] = @ - 1]
                         /\ at' = [at EXCEPT ![t] = n]
  BY DEF Pop
<1>2. pc[t] = "pop" /\ pc' = [pc EXCEPT ![t] = "lock"] /\ UNCHANGED <<queued, waiting>>
  BY DEF Pop, Goto
<1>3. OthersKeep(t) /\ pc'[t] = "lock" /\ at'[t] = n
  BY <1>0, <1>1, <1>2 DEF OthersKeep, QueueInv, WaitersWait
<1>4. \A k \in Nodes \ {n} : heap'[k] = heap[k]
  BY <1>0, <1>1
<1>5. n \in Regular => heap[n] = 1 /\ heap'[n] = 0 /\ queued[n] /\ Popped(n) = {}
  BY <1>0, <1>1 DEF QueueInv, QueuedOnce
<1>6. UncalledIdle'
  <2> SUFFICES ASSUME NEW k \in Regular, ~Called(k)'
               PROVE  Idle(k)' /\ ~Split(k)'
    BY DEF UncalledIdle
  <2>1. Idle(k) /\ ~Split(k)'
    BY <1>3, OthersKept, TreeFacts DEF QueueInv, UncalledIdle
  <2>2. k # n
    BY <1>5, <2>1 DEF Idle
  <2> QED BY <1>2, <1>3, <1>4, <2>1, <2>2, TreeFacts DEF Idle, OthersKeep
<1>7. SortersAlone'
  <2> SUFFICES ASSUME NEW s \in Threads, pc'[s] \in Sorting
               PROVE  /\ at'[s] \in Regular /\ heap'[at'[s]] = 0 /\ ~queued'[at'[s]]
                      /\ ~Split(at[s])' /\ at'[s] = at[s]
                      /\ \A r \in Threads \ {s} : pc'[r] # "none" => at'[r] # at'[s]
    BY DEF SortersAlone, Split
  <2>1. s # t /\ pc[s] \in Sorting /\ at'[s] = at[s]
    BY <1>3 DEF Sorting, OthersKeep
  <2>2. /\ at[s] \in Regular /\ heap[at[s]] = 0 /\ ~queued[at[s]] /\ ~Split(at[s])
        /\ \A r \in Threads \ {s} : pc[r] # "none" => at[r] # at[s]
    BY <2>1 DEF QueueInv, SortersAlone
  <2>3. ~Split(at[s])'
    <3>1. \A k \in Regular : ~Split(k) => ~(k \in Interior /\ pc'[Tree[k].lo_child] # "none")
      BY <1>3, OthersKept, TreeFacts DEF Split
    <3> QED BY <2>1, <2>2, <3>1 DEF Split
  <2>4. at[s] # n
    BY <1>5, <2>2
  <2>5. heap'[at[s]] = 0 /\ ~queued'[at[s]]
    <3>1. heap'[at[s]] = 0
      BY <1>4, <2>2, <2>4, TreeFacts
    <3>2. ~queued'[at[s]]
      BY <1>2, <2>2
    <3> QED BY <3>1, <3>2
  <2>6. \A r \in Threads \ {s} : pc'[r] # "none" => at'[r] # at'[s]
    BY <1>3, <2>1, <2>2, <2>4 DEF OthersKeep
  <2> QED BY <2>1, <2>2, <2>3, <2>5, <2>6
<1>8. QueuedOnce'
  <2>1. \A k \in Regular \ {n} : Popped(k)' = Popped(k)
    <3> TAKE k \in Regular \ {n}
    <3>1. \A s \in Threads : pc'[s] = "lock" /\ at'[s] = k <=> pc[s] = "lock" /\ at[s] = k
      BY <1>2, <1>3 DEF OthersKeep
    <3> QED BY <3>1 DEF Popped
  <2>2. n \in Regular => Popped(n)' = {t}
    <3> SUFFICES ASSUME n \in Regular PROVE Popped(n)' = {t}
      OBVIOUS
    <3>1. \A s \in Threads : ~(pc[s] = "lock" /\ at[s] = n)
      BY <1>5 DEF Popped
    <3>2. \A s \in Threads : pc'[s] = "lock" /\ at'[s] = n <=> s = t
      BY <1>3, <3>1 DEF OthersKeep
    <3> QED BY <3>2 DEF Popped
  <2> SUFFICES ASSUME NEW k \in Regular
               PROVE  /\ heap'[k] <= 1
                      /\ \A r, s \in Popped(k)' : r = s
                      /\ heap'[k] = 1 => Popped(k)' = {}
                      /\ queued'[k] <=> (heap'[k] = 1 \/ Popped(k)' # {})
    BY DEF QueuedOnce
  <2>3. CASE k = n
    BY <1>2, <1>5, <2>2, <2>3
  <2>4. CASE k # n
    <3>1. heap'[k] = heap[k] /\ Popped(k)' = Popped(k) /\ queued' = queued
      BY <1>2, <1>4, <2>1, <2>4, TreeFacts
    <3> QED BY <3>1 DEF QueueInv, QueuedOnce
  <2> QED BY <2>3, <2>4
<1> QED BY <1>3, <1>6, <1>7, <1>8, OthersKept DEF QueueInv

LEMMA LockStep ==
  ASSUME TypeOK, QueueInv, NEW t \in Threads, LockNode(t)
  PROVE  QueueInv'
<1>a. PICK n : n = at[t]
  OBVIOUS
<1>0. /\ pc \in [Threads -> Labels] /\ n \in Nodes /\ queued \in [Nodes -> BOOLEAN]
  BY <1>a DEF TypeOK
<1>1. /\ pc[t] = "lock" /\ Level(n) # MERGE_END
      /\ pc' = [pc EXCEPT ![t] = "merge"] /\ queued' = [queued EXCEPT ![n] = FALSE]
      /\ UNCHANGED <<heap, waiting, at>>
  BY <1>a DEF LockNode, Goto
<1>2. n \in Regular
  BY <1>0, <1>1, TreeFacts
<1>3. OthersKeep(t) /\ pc'[t] = "merge"
  BY <1>0, <1>1 DEF OthersKeep, QueueInv, WaitersWait
<1>4. ~queued'[n] /\ \A k \in Nodes \ {n} : queued'[k] = queued[k]
  BY <1>0, <1>1
<1>5. UncalledIdle'
  <2> SUFFICES ASSUME NEW k \in Regular, ~Called(k)'
               PROVE  Idle(k)' /\ ~Split(k)'
    BY DEF UncalledIdle
  <2>1. Idle(k) /\ ~Split(k)'
    BY <1>3, OthersKept, TreeFacts DEF QueueInv, UncalledIdle
  <2>2. ~queued'[k]
    BY <1>4, <2>1, TreeFacts DEF Idle
  <2> QED BY <1>1, <1>3, <2>1, <2>2 DEF Idle, OthersKeep
<1>6. SortersAlone'
  <2> SUFFICES ASSUME NEW s \in Threads, pc'[s] \in Sorting
               PROVE  /\ at'[s] \in Regular /\ heap'[at'[s]] = 0 /\ ~queued'[at'[s]]
                      /\ ~Split(at[s])' /\ at'[s] = at[s]
                      /\ \A r \in Threads \ {s} : pc'[r] # "none" => at'[r] # at'[s]
    BY DEF SortersAlone, Split
  <2>1. s # t /\ pc[s] \in Sorting /\ at' = at /\ heap' = heap
    BY <1>1, <1>3 DEF Sorting, OthersKeep
  <2>2. /\ at[s] \in Regular /\ heap[at[s]] = 0 /\ ~queued[at[s]] /\ ~Split(at[s])
        /\ \A r \in Threads \ {s} : pc[r] # "none" => at[r] # at[s]
    BY <2>1 DEF QueueInv, SortersAlone
  <2>3. ~Split(at[s])'
    <3>1. \A k \in Regular : ~Split(k) => ~(k \in Interior /\ pc'[Tree[k].lo_child] # "none")
      BY <1>3, OthersKept, TreeFacts DEF Split
    <3> QED BY <2>1, <2>2, <3>1 DEF Split
  <2>4. ~queued'[at[s]]
    BY <1>4, <2>2, TreeFacts
  <2>5. \A r \in Threads \ {s} : pc'[r] # "none" => at'[r] # at'[s]
    BY <1>3, <2>1, <2>2 DEF OthersKeep
  <2> QED BY <2>1, <2>2, <2>3, <2>4, <2>5
<1>7. QueuedOnce'
  <2>1. \A k \in Regular \ {n} : Popped(k)' = Popped(k)
    <3> TAKE k \in Regular \ {n}
    <3>1. \A s \in Threads : pc'[s] = "lock" /\ at'[s] = k <=> pc[s] = "lock" /\ at[s] = k
      BY <1>a, <1>1, <1>3 DEF OthersKeep
    <3> QED BY <3>1 DEF Popped
  <2>2. Popped(n) = {t} /\ Popped(n)' = {}
    <3>1. t \in Popped(n)
      BY <1>a, <1>1 DEF Popped
    <3>2. \A s \in Popped(n) : s = t
      BY <1>2, <3>1 DEF QueueInv, QueuedOnce
    <3>3. \A s \in Threads : ~(pc'[s] = "lock" /\ at'[s] = n)
      BY <1>1, <1>3, <3>2 DEF OthersKeep, Popped
    <3> QED BY <3>1, <3>2, <3>3 DEF Popped
  <2>3. heap[n] # 1 /\ heap[n] <= 1
    BY <1>2, <2>2 DEF QueueInv, QueuedOnce
  <2> SUFFICES ASSUME NEW k \in Regular
               PROVE  /\ heap'[k] <= 1
                      /\ \A r, s \in Popped(k)' : r = s
                      /\ heap'[k] = 1 => Popped(k)' = {}
                      /\ queued'[k] <=> (heap'[k] = 1 \/ Popped(k)' # {})
    BY DEF QueuedOnce
  <2>4. CASE k = n
    BY <1>1, <1>4, <2>2, <2>3, <2>4
  <2>5. CASE k # n
    <3>1. heap'[k] = heap[k] /\ Popped(k)' = Popped(k) /\ queued'[k] = queued[k]
      BY <1>1, <1>4, <2>1, <2>5, TreeFacts
    <3> QED BY <3>1 DEF QueueInv, QueuedOnce
  <2> QED BY <2>4, <2>5
<1> QED BY <1>3, <1>5, <1>6, <1>7, OthersKept DEF QueueInv

\* A new thread: the two halves of its creator's node were idle until now.
LEMMA CreateStep ==
  ASSUME TypeOK, QueueInv, NEW t \in Threads, Create(t)
  PROVE  QueueInv'
<1>a. PICK n, l, h : n = at[t] /\ l = Tree[n].lo_child /\ h = Tree[n].hi_child
  OBVIOUS
<1>0. /\ pc \in [Threads -> Labels] /\ at \in [Threads -> Nodes]
  BY DEF TypeOK
<1>1. /\ pc[t] = "sortlines" /\ n \in Interior
      /\ pc' = [pc EXCEPT ![l] = "sortlines"] /\ at' = [at EXCEPT ![t] = h]
      /\ UNCHANGED <<queued, heap, waiting>>
  BY <1>a DEF Create, MaySplit, queueVars
<1>2. /\ n \in Regular /\ l \in Threads /\ l \in Regular /\ h \in Regular /\ l # h
      /\ Parent(l) = n /\ Parent(h) = n /\ l # RootNode /\ h # RootNode
  BY <1>a, <1>1, TreeFacts
<1>3. /\ ~Split(n) /\ Called(n)
      /\ \A s \in Threads \ {t} : pc[s] # "none" => at[s] # n
  BY <1>a, <1>1, <1>2, WorkerFacts DEF QueueInv, SortersAlone, Sorting
<1>4. pc[l] = "none"
  BY <1>a, <1>1, <1>3 DEF Split
<1>5. Idle(l) /\ Idle(h) /\ ~Split(l) /\ ~Split(h)
  BY <1>2, <1>3 DEF QueueInv, UncalledIdle, Called
<1>6. \A k \in Interior : k # n => Tree[k].lo_child # l
  BY <1>2, TreeFacts
<1>7. /\ l # t /\ pc'[l] = "sortlines" /\ at'[l] = l /\ at'[t] = h /\ pc'[t] = pc[t]
      /\ \A s \in Threads \ {t, l} : pc'[s] = pc[s] /\ at'[s] = at[s]
  BY <1>0, <1>1, <1>2, <1>4 DEF QueueInv, NotYetAtHome
<1>8. \A k \in Regular : k # n => (Split(k)' <=> Split(k))
  <2>1. \A k \in Interior : Tree[k].lo_child \in Threads
    BY TreeFacts
  <2> QED BY <1>0, <1>1, <1>6, <2>1 DEF Split
<1>9. Split(n)'
  BY <1>a, <1>1, <1>7 DEF Split
<1>10. \A k \in Regular : ~Called(k)' => ~Called(k) /\ k # l /\ k # h /\ k # n
  <2>1. \A k \in Regular : Called(k) => Called(k)'
    BY <1>8, <1>9, TreeFacts DEF Called, Split
  <2>2. Called(l)' /\ Called(h)'
    BY <1>2, <1>9 DEF Called
  <2> QED BY <1>2, <1>3, <2>1, <2>2
<1>11. WaitersWait' /\ NotYetAtHome'
  BY <1>0, <1>1, <1>4, <1>7 DEF QueueInv, WaitersWait, NotYetAtHome, TypeOK
<1>12. UncalledIdle'
  <2> SUFFICES ASSUME NEW k \in Regular, ~Called(k)'
               PROVE  Idle(k)' /\ ~Split(k)'
    BY DEF UncalledIdle
  <2>1. Idle(k) /\ ~Split(k) /\ k # l /\ k # h /\ k # n
    BY <1>10 DEF QueueInv, UncalledIdle
  <2>2. ~Split(k)'
    BY <1>8, <2>1
  <2> QED BY <1>1, <1>7, <2>1, <2>2 DEF Idle
<1>13. SortersAlone'
  <2> SUFFICES ASSUME NEW s \in Threads, pc'[s] \in Sorting, NEW k, k = at'[s]
               PROVE  /\ k \in Regular /\ heap[k] = 0 /\ ~queued[k]
                      /\ ~(k \in Interior /\ pc'[Tree[k].lo_child] # "none")
                      /\ \A r \in Threads \ {s} : pc'[r] # "none" => at'[r] # k
    BY <1>1 DEF SortersAlone, Split
  <2>0. \A i \in Regular : i # n /\ ~Split(i) => ~(i \in Interior /\ pc'[Tree[i].lo_child] # "none")
    BY <1>8 DEF Split
  <2>1. CASE s = l \/ s = t
    <3>1. k \in {l, h} /\ heap[k] = 0 /\ ~queued[k] /\ ~Split(k)
      BY <1>5, <1>7, <2>1 DEF Idle
    <3>2. k # n
      BY <1>3, <1>2, <1>5, <1>7, <1>1, <3>1, <1>a DEF Idle
    <3>3. \A r \in Threads \ {s} : pc'[r] # "none" => at'[r] # k
      BY <1>2, <1>5, <1>7, <2>1, <3>1 DEF Idle
    <3> QED BY <1>2, <2>0, <3>1, <3>2, <3>3
  <2>2. CASE s # l /\ s # t
    <3>1. pc[s] \in Sorting /\ at[s] = k /\ pc[s] # "none"
      BY <1>7, <2>2 DEF Sorting
    <3>2. /\ k \in Regular /\ heap[k] = 0 /\ ~queued[k] /\ ~Split(k)
          /\ \A r \in Threads \ {s} : pc[r] # "none" => at[r] # k
      BY <3>1 DEF QueueInv, SortersAlone
    <3>3. k # n /\ k # l /\ k # h
      BY <1>3, <1>5, <2>2, <3>1 DEF Idle
    <3>4. \A r \in Threads \ {s} : pc'[r] # "none" => at'[r] # k
      BY <1>7, <3>2, <3>3
    <3> QED BY <2>0, <3>2, <3>3, <3>4
  <2> QED BY <2>1, <2>2
<1>14. QueuedOnce'
  <2>1. \A k \in Regular : Popped(k)' = Popped(k)
    <3> TAKE k \in Regular
    <3>1. \A s \in Threads : pc'[s] = "lock" /\ at'[s] = k <=> pc[s] = "lock" /\ at[s] = k
      BY <1>1, <1>4, <1>7
    <3> QED BY <3>1 DEF Popped
  <2> QED BY <1>1, <2>1 DEF QueueInv, QueuedOnce
<1> QED BY <1>11, <1>12, <1>13, <1>14 DEF QueueInv

LEMMA StepQueueInv ==
  ASSUME TypeOK, QueueInv, NEW t \in Threads, Step(t) \/ Spurious(t)
  PROVE  QueueInv'
BY CreateStep, PopStep, LockStep, QueueSteps, QuietSteps DEF Step

LEMMA StutterQueueInv == QueueInv /\ UNCHANGED vars => QueueInv'
BY DEF vars, QueueInv, WaitersWait, UncalledIdle, Called, Idle, Split, NotYetAtHome,
   SortersAlone, QueuedOnce, Popped

\* The queue never holds a node twice, and queued always says whether it does or a
\* thread that popped the node has yet to lock it: for every tree, every schedule,
\* every failure of pthread_create and every return of pthread_cond_wait.
THEOREM QueuedOnceHolds == Spec => []QueuedOnce
<1>1. TypeOK /\ QueueInv /\ [Next]_vars => QueueInv'
  BY StepQueueInv, StutterQueueInv DEF Next, Return
<1>2. QueueInv => QueuedOnce
  BY DEF QueueInv
<1> QED
  BY <1>1, <1>2, InitQueueInv, TypeCorrect, PTL DEF Spec

-----------------------------------------------------------------------------
(* Threads, locks and counts *)

\* Where an action takes thread t; the others stay, or are woken.
Moves(t, from, to, place) ==
  /\ OthersKeep(t) /\ pc[t] \in from /\ pc'[t] \in to /\ at'[t] = place

LEMMA ActionMoves ==
  ASSUME TypeOK, QueueInv, NEW t \in Threads
  PROVE  /\ BeginSort(t) => Moves(t, {"sortlines"}, {"sorting"}, at[t])
         /\ EndSort(t) => Moves(t, {"sorting"}, {"pop"}, EndNode)
         /\ Pop(t) => Moves(t, {"pop"}, {"lock"}, at'[t])
         /\ Wait(t) => Moves(t, {"pop"}, {"wait"}, at[t])
         /\ Spurious(t) => Moves(t, {"wait"}, {"pop"}, at[t])
         /\ LockNode(t) => Moves(t, {"lock"}, {"merge"}, at[t])
         /\ PopEnd(t) => Moves(t, {"lock"}, {"join"}, at[t]) /\ at[t] = EndNode
         /\ Merge(t) => Moves(t, {"merge"}, Merging, at[t])
         /\ Drain(t) => Moves(t, {"drainlo", "drainhi"}, {pc[t], "store"}, at[t])
         /\ StoreDest(t) => Moves(t, {"store"}, {"check"}, at[t])
         /\ Check(t) => Moves(t, {"check"}, {"parent"}, at[t])
         /\ CheckParent(t) => Moves(t, {"parent"}, {"pop"}, EndNode)
         /\ Join(t) => Moves(t, {"join"}, {"done"}, at[t])
<1>0. /\ pc \in [Threads -> Labels] /\ at \in [Threads -> Nodes]
      /\ \A s \in waiting : pc[s] = "wait"
  BY DEF TypeOK, QueueInv, WaitersWait
<1>1. ASSUME NEW from, NEW to, from \notin {"none", "wait"}, to # "none",
             pc[t] = from, Goto(t, to), UNCHANGED waiting, UNCHANGED at
      PROVE  Moves(t, {from}, {to}, at[t])
  BY <1>1, GotoKeeps DEF Moves
<1>2. ASSUME NEW from, NEW to, from \notin {"none", "wait"}, to # "none", NEW place \in Nodes,
             pc[t] = from, Signal(t, to), at' = [at EXCEPT ![t] = place]
      PROVE  Moves(t, {from}, {to}, place)
  <2>1. \A s \in Threads \ {t} : at'[s] = at[s]
    BY <1>0, <1>2
  <2> QED BY <1>0, <1>2, <2>1, SignalKeeps DEF Moves
<1>3. BeginSort(t) => Moves(t, {"sortlines"}, {"sorting"}, at[t])
  BY <1>1 DEF BeginSort, queueVars
<1>4. EndSort(t) => Moves(t, {"sorting"}, {"pop"}, EndNode)
  BY <1>2, TreeFacts DEF EndSort, queue_insert
<1>5. Pop(t) => Moves(t, {"pop"}, {"lock"}, at'[t])
  <2> SUFFICES ASSUME Pop(t) PROVE OthersKeep(t) /\ pc[t] = "pop" /\ pc'[t] = "lock"
    BY DEF Moves
  <2>1. \A s \in Threads \ {t} : at'[s] = at[s]
    BY <1>0 DEF Pop
  <2> QED BY <2>1, GotoKeeps DEF Pop
<1>6. Wait(t) => Moves(t, {"pop"}, {"wait"}, at[t])
  BY <1>0 DEF Wait, Goto, Moves, OthersKeep
<1>7. Spurious(t) => Moves(t, {"wait"}, {"pop"}, at[t])
  BY <1>0 DEF Spurious, Goto, Moves, OthersKeep
<1>8. LockNode(t) => Moves(t, {"lock"}, {"merge"}, at[t])
  BY <1>1 DEF LockNode
<1>9. PopEnd(t) => Moves(t, {"lock"}, {"join"}, at[t]) /\ at[t] = EndNode
  <2> SUFFICES ASSUME PopEnd(t)
               PROVE  OthersKeep(t) /\ pc[t] = "lock" /\ pc'[t] = "join" /\ at' = at /\ at[t] = EndNode
    BY DEF Moves
  <2>1. pc[t] = "lock" /\ Signal(t, "join") /\ at' = at
    BY DEF PopEnd, queue_insert
  <2>2. at[t] = EndNode
    BY <1>0, TreeFacts DEF PopEnd
  <2> QED BY <2>1, <2>2, SignalKeeps
<1>10. Merge(t) => Moves(t, {"merge"}, Merging, at[t])
  <2> SUFFICES ASSUME Merge(t) PROVE Moves(t, {"merge"}, Merging, at[t])
    OBVIOUS
  <2>1. /\ pc[t] = "merge" /\ UNCHANGED <<at, waiting>>
        /\ UNCHANGED pc \/ Goto(t, AfterLoop(t))
    BY DEF Merge, queueVars
  <2>2. AfterLoop(t) \in {"drainlo", "drainhi", "store"}
    BY DEF AfterLoop
  <2>3. CASE UNCHANGED pc
    BY <1>0, <2>1, <2>3 DEF Moves, OthersKeep, Merging
  <2>4. CASE Goto(t, AfterLoop(t))
    BY <1>1, <2>1, <2>2, <2>4 DEF Moves, Merging
  <2> QED BY <2>1, <2>3, <2>4
<1>11. Drain(t) => Moves(t, {"drainlo", "drainhi"}, {pc[t], "store"}, at[t])
  <2> SUFFICES ASSUME Drain(t) PROVE Moves(t, {"drainlo", "drainhi"}, {pc[t], "store"}, at[t])
    OBVIOUS
  <2>1. /\ pc[t] \in {"drainlo", "drainhi"} /\ UNCHANGED <<at, waiting>>
        /\ UNCHANGED pc \/ Goto(t, "store")
    BY DEF Drain, queueVars
  <2>3. CASE UNCHANGED pc
    BY <1>0, <2>1, <2>3 DEF Moves, OthersKeep
  <2>4. CASE Goto(t, "store")
    BY <1>1, <2>1, <2>4 DEF Moves
  <2> QED BY <2>1, <2>3, <2>4
<1>12. StoreDest(t) => Moves(t, {"store"}, {"check"}, at[t])
  BY <1>1 DEF StoreDest, queueVars
<1>13. Check(t) => Moves(t, {"check"}, {"parent"}, at[t])
  <2> SUFFICES ASSUME Check(t) PROVE Moves(t, {"check"}, {"parent"}, at[t])
    OBVIOUS
  <2>1. /\ pc[t] = "check" /\ at' = at
        /\ Signal(t, "parent") \/ (Goto(t, "parent") /\ UNCHANGED waiting)
    BY DEF Check, queue_check_insert, queue_insert, queueVars
  <2> QED BY <2>1, SignalKeeps, GotoKeeps DEF Moves
<1>14. CheckParent(t) => Moves(t, {"parent"}, {"pop"}, EndNode)
  <2> SUFFICES ASSUME CheckParent(t) PROVE Moves(t, {"parent"}, {"pop"}, EndNode)
    OBVIOUS
  <2>1. /\ pc[t] = "parent" /\ at' = [at EXCEPT ![t] = EndNode]
        /\ Signal(t, "pop") \/ (Goto(t, "pop") /\ UNCHANGED waiting)
    BY DEF CheckParent, queue_check_insert, queue_insert, queueVars
  <2>2. at'[t] = EndNode /\ \A s \in Threads \ {t} : at'[s] = at[s]
    BY <1>0, <2>1
  <2> QED BY <2>1, <2>2, SignalKeeps, GotoKeeps DEF Moves
<1>15. Join(t) => Moves(t, {"join"}, {"done"}, at[t])
  BY <1>1 DEF Join, queueVars
<1> QED BY <1>3, <1>4, <1>5, <1>6, <1>7, <1>8, <1>9, <1>10, <1>11, <1>12, <1>13, <1>14, <1>15
-----------------------------------------------------------------------------
(* Locks *)

\* A child is its parent's lo or hi child, and which one its place in *dest tells.
LEMMA ChildFacts ==
  \A c \in Regular \ {RootNode} :
    /\ Parent(c) \in Interior /\ Parent(c) \in Regular /\ Parent(c) # c
    /\ IsLo(c) <=> c = Tree[Parent(c)].lo_child
    /\ ~IsLo(c) <=> c = Tree[Parent(c)].hi_child
<1> TAKE c \in Regular \ {RootNode}
<1>1. /\ Parent(c) \in Interior
      /\ c \in {Tree[Parent(c)].lo_child, Tree[Parent(c)].hi_child}
  BY TreeAssumption DEF WellLinked, Nodes, Regular, Interior, Parent
<1>2. Parent(c) \in Regular /\ Parent(c) # c
  BY <1>1, TreeFacts
<1> QED BY <1>1, <1>2, TreeFacts DEF IsLo

\* The holder of a node's lock is the thread that works on the node, from its lock
\* in merge_loop to its unlock.
LockInv ==
  /\ \A n \in Nodes, t \in Threads : lock[n] = t <=> pc[t] \in Holding /\ at[t] = n
  /\ \A t \in Threads : pc[t] \in Holding => at[t] \in Regular

LEMMA InitLockInv == Init => LockInv
<1> SUFFICES ASSUME Init PROVE LockInv
  OBVIOUS
<1>1. \A t \in Threads : pc[t] \notin Holding
  BY DEF Init, Holding, Merging
<1>2. \A n \in Nodes, t \in Threads : lock[n] # t
  BY TreeFacts DEF Init
<1> QED BY <1>1, <1>2 DEF LockInv

LEMMA OnlyHolder ==
  ASSUME LockInv, NEW s \in Threads, NEW t \in Threads,
         pc[s] \in Holding, pc[t] \in Holding, at[s] = at[t]
  PROVE  s = t
<1>1. at[t] \in Nodes
  BY TreeFacts DEF LockInv
<1>2. lock[at[t]] = s /\ lock[at[t]] = t
  BY <1>1 DEF LockInv
<1> QED BY <1>2

LEMMA LocksKept ==
  ASSUME LockInv, NEW t \in Threads, OthersKeep(t), lock' = lock,
         pc'[t] \in Holding <=> pc[t] \in Holding,
         pc[t] \in Holding => at'[t] = at[t]
  PROVE  LockInv'
<1>1. \A s \in Threads : /\ pc'[s] \in Holding <=> pc[s] \in Holding
                         /\ pc[s] \in Holding => at'[s] = at[s]
  BY DEF OthersKeep, Holding, Merging
<1> QED BY <1>1 DEF LockInv

LEMMA LockSteps ==
  ASSUME TypeOK, QueueInv, LockInv, NEW t \in Threads, Step(t) \/ Spurious(t)
  PROVE  LockInv'
<1>0. /\ pc \in [Threads -> Labels] /\ at \in [Threads -> Nodes]
      /\ lock \in [Nodes -> Threads \cup {NoThread}]
  BY DEF TypeOK
<1>1. CASE Create(t)
  <2> DEFINE l == Tree[at[t]].lo_child
  <2>1. /\ pc[t] = "sortlines" /\ at[t] \in Interior /\ l \in Threads /\ lock' = lock
        /\ pc' = [pc EXCEPT ![l] = "sortlines"]
        /\ \A s \in Threads \ {t} : at'[s] = at[s]
    <3>1. pc[t] = "sortlines" /\ at[t] \in Interior /\ lock' = lock
      BY <1>1 DEF Create, MaySplit
    <3>2. l \in Threads
      BY <3>1, TreeFacts
    <3>3. /\ pc' = [pc EXCEPT ![l] = "sortlines"]
          /\ at' = [at EXCEPT ![t] = Tree[at[t]].hi_child]
      BY <1>1 DEF Create
    <3>4. \A s \in Threads \ {t} : at'[s] = at[s]
      BY <1>0, <3>3
    <3> QED BY <3>1, <3>2, <3>3, <3>4
  <2>2. pc[l] = "none"
    <3>1. ~Split(at[t])
      BY <2>1 DEF QueueInv, SortersAlone, Sorting
    <3> QED BY <2>1, <3>1 DEF Split
  <2>3. \A s \in Threads : /\ pc'[s] \in Holding <=> pc[s] \in Holding
                           /\ pc[s] \in Holding => at'[s] = at[s]
    BY <1>0, <2>1, <2>2 DEF Holding, Merging
  <2> QED BY <2>1, <2>3 DEF LockInv
<1>2. CASE LockNode(t)
  <2>1. /\ OthersKeep(t) /\ pc[t] = "lock" /\ pc'[t] = "merge" /\ at'[t] = at[t]
        /\ lock[at[t]] = NoThread /\ lock' = [lock EXCEPT ![at[t]] = t]
        /\ at[t] \in Regular
    BY <1>0, <1>2, ActionMoves, TreeFacts DEF Moves, LockNode
  <2>2. \A s \in Threads \ {t} : /\ pc'[s] \in Holding <=> pc[s] \in Holding
                                 /\ pc[s] \in Holding => at'[s] = at[s]
    BY <2>1 DEF OthersKeep, Holding, Merging
  <2>3. pc'[t] \in Holding /\ pc[t] \notin Holding
    BY <2>1 DEF Holding, Merging
  <2>4. ASSUME NEW n \in Nodes, NEW s \in Threads
        PROVE  lock'[n] = s <=> pc'[s] \in Holding /\ at'[s] = n
    <3>1. NoThread # s /\ NoThread # t
      BY TreeFacts
    <3>2. CASE n = at[t]
      <4>1. lock'[n] = t /\ ~(pc[s] \in Holding /\ at[s] = n)
        BY <1>0, <2>1, <3>1, <3>2 DEF LockInv
      <4> QED BY <2>1, <2>2, <2>3, <3>2, <4>1
    <3>3. CASE n # at[t]
      <4>1. lock'[n] = lock[n]
        BY <1>0, <2>1, <3>3
      <4> QED BY <2>1, <2>2, <2>3, <3>3, <4>1 DEF LockInv
    <3> QED BY <3>2, <3>3
  <2> QED BY <2>1, <2>2, <2>4 DEF LockInv
<1>3. CASE CheckParent(t)
  <2>1. /\ OthersKeep(t) /\ pc[t] = "parent" /\ pc'[t] = "pop"
        /\ lock' = [lock EXCEPT ![at[t]] = NoThread]
    BY <1>3, ActionMoves DEF Moves, CheckParent
  <2>2. \A s \in Threads \ {t} : /\ pc'[s] \in Holding <=> pc[s] \in Holding
                                 /\ pc[s] \in Holding => at'[s] = at[s]
    BY <2>1 DEF OthersKeep, Holding, Merging
  <2>3. pc'[t] \notin Holding /\ pc[t] \in Holding
    BY <2>1 DEF Holding, Merging
  <2>4. ASSUME NEW n \in Nodes, NEW s \in Threads
        PROVE  lock'[n] = s <=> pc'[s] \in Holding /\ at'[s] = n
    <3>1. NoThread # s
      BY TreeFacts
    <3>2. CASE n = at[t]
      <4>1. lock'[n] = NoThread /\ (pc[s] \in Holding /\ at[s] = n => s = t)
        BY <1>0, <2>1, <2>3, <3>2, OnlyHolder
      <4> QED BY <2>2, <2>3, <3>1, <3>2, <4>1
    <3>3. CASE n # at[t]
      <4>1. lock'[n] = lock[n]
        BY <1>0, <2>1, <3>3
      <4> QED BY <2>2, <2>3, <3>3, <4>1 DEF LockInv
    <3> QED BY <3>2, <3>3
  <2> QED BY <2>2, <2>3, <2>4 DEF LockInv
<1>4. CASE Merge(t) \/ Drain(t) \/ StoreDest(t) \/ Check(t)
  <2>1. /\ OthersKeep(t) /\ pc[t] \in Holding /\ pc'[t] \in Holding
        /\ at'[t] = at[t] /\ lock' = lock
    BY <1>4, ActionMoves DEF Moves, Holding, Merging, Merge, Drain, StoreDest, Check
  <2> QED BY <2>1, LocksKept
<1>5. CASE \/ BeginSort(t) \/ EndSort(t) \/ Pop(t) \/ Wait(t) \/ Spurious(t)
           \/ PopEnd(t) \/ Join(t)
  <2>1. /\ OthersKeep(t) /\ pc[t] \notin Holding /\ pc'[t] \notin Holding
        /\ lock' = lock
    BY <1>5, ActionMoves
       DEF Moves, Holding, Merging, BeginSort, EndSort, Pop, Wait, Spurious, PopEnd, Join
  <2> QED BY <2>1, LocksKept
<1> QED BY <1>1, <1>2, <1>3, <1>4, <1>5 DEF Step
-----------------------------------------------------------------------------
(* What a merging thread sees *)

\* Where a thread may still use what it read of its node's end_lo and end_hi.
Seeing == Merging \cup {"check"}

\* The thread that has node c has stored *c->dest and not yet had the parent's lock.
Stored(c) == \E s \in Threads : pc[s] \in {"check", "parent"} /\ at[s] = c

\* If a thread has yet to see what is in its node's end_lo or end_hi, the
\* child's thread, which stored it, still waits for the node's lock.
SeenFresh ==
  \A t \in Threads : pc[t] \in Seeing =>
    /\ m[t].end_lo # node[at[t]].end_lo => at[t] \in Interior /\ Stored(Tree[at[t]].lo_child)
    /\ m[t].end_hi # node[at[t]].end_hi => at[t] \in Interior /\ Stored(Tree[at[t]].hi_child)

LEMMA CountedFields ==
  ASSUME TypeOK, NEW t \in Threads
  PROVE  /\ Counted(t) \in [Nodes -> NodeType]
         /\ \A n \in Nodes :
              /\ Counted(t)[n].lo = node[n].lo /\ Counted(t)[n].end_lo = node[n].end_lo
              /\ Counted(t)[n].hi = node[n].hi /\ Counted(t)[n].end_hi = node[n].end_hi
              /\ Counted(t)[n].nlo = IF n = at[t] THEN node[n].nlo - (node[n].lo - m[t].lo)
                                      ELSE node[n].nlo
              /\ Counted(t)[n].nhi = IF n = at[t] THEN node[n].nhi - (node[n].hi - m[t].hi)
                                      ELSE node[n].nhi
              /\ n # at[t] => Counted(t)[n] = node[n]
<1> DEFINE k == at[t]
           a == node[k].nlo - (node[k].lo - m[t].lo)
           b == node[k].nhi - (node[k].hi - m[t].hi)
<1>1. node \in [Nodes -> NodeType] /\ m[t] \in LocalsType /\ k \in Nodes
  BY DEF TypeOK, NodeType, LocalsType
<1>2. a \in Int /\ b \in Int
  BY <1>1 DEF NodeType, LocalsType
<1>3. Counted(t) = [node EXCEPT ![k].nlo = a, ![k].nhi = b]
  BY <1>1 DEF Counted, NodeType
<1>4. a = node[k].nlo - (node[k].lo - m[t].lo) /\ b = node[k].nhi - (node[k].hi - m[t].hi)
  OBVIOUS
<1> HIDE DEF a, b
<1>5. /\ Counted(t) \in [Nodes -> NodeType]
      /\ Counted(t)[k].nlo = a /\ Counted(t)[k].nhi = b
  BY <1>1, <1>2, <1>3 DEF NodeType
<1>6. \A n \in Nodes :
        /\ Counted(t)[n].lo = node[n].lo /\ Counted(t)[n].end_lo = node[n].end_lo
        /\ Counted(t)[n].hi = node[n].hi /\ Counted(t)[n].end_hi = node[n].end_hi
        /\ n # k => Counted(t)[n] = node[n]
  BY <1>1, <1>2, <1>3 DEF NodeType
<1> QED BY <1>4, <1>5, <1>6

\* A node's end_lo and end_hi change when its lines were sorted, and when a child
\* stores where it merged to.
LEMMA EndsChange ==
  ASSUME TypeOK, QueueInv, LockInv, NEW t \in Threads, Step(t) \/ Spurious(t), NEW n \in Regular
  PROVE  /\ node'[n].end_lo # node[n].end_lo =>
              \/ EndSort(t) /\ at[t] = n
              \/ StoreDest(t) /\ n \in Interior /\ at[t] = Tree[n].lo_child
         /\ node'[n].end_hi # node[n].end_hi =>
              \/ EndSort(t) /\ at[t] = n
              \/ StoreDest(t) /\ n \in Interior /\ at[t] = Tree[n].hi_child
<1>0. node \in [Nodes -> NodeType] /\ at[t] \in Nodes /\ n \in Nodes
  BY TreeFacts DEF TypeOK, NodeType
<1>1. CASE EndSort(t)
  <2>1. at[t] # n => node'[n] = node[n]
    BY <1>0, <1>1 DEF EndSort
  <2> QED BY <1>1, <2>1
<1>2. CASE StoreDest(t)
  <2>1. at[t] \in Regular
    BY <1>2 DEF LockInv, StoreDest, Holding, Merging
  <2> DEFINE c == Counted(t)
  <2>2. c \in [Nodes -> NodeType] /\ c[n].end_lo = node[n].end_lo /\ c[n].end_hi = node[n].end_hi
    BY <1>0, CountedFields
  <2>3. \/ node' = c
        \/ at[t] # RootNode /\ IsLo(at[t]) /\ node' = [c EXCEPT ![Parent(at[t])].end_lo = m[t].dest]
        \/ at[t] # RootNode /\ ~IsLo(at[t]) /\ node' = [c EXCEPT ![Parent(at[t])].end_hi = m[t].dest]
    BY <1>2, <2>1, TreeFacts DEF StoreDest
  <2> HIDE DEF c
  <2>4. CASE node' = c
    BY <2>2, <2>4
  <2>5. CASE at[t] # RootNode /\ IsLo(at[t]) /\ node' = [c EXCEPT ![Parent(at[t])].end_lo = m[t].dest]
    <3>1. Parent(at[t]) \in Interior /\ at[t] = Tree[Parent(at[t])].lo_child
      BY <2>1, <2>5, ChildFacts
    <3>2. node'[n].end_hi = c[n].end_hi /\ (n # Parent(at[t]) => node'[n].end_lo = c[n].end_lo)
      BY <1>0, <2>2, <2>5 DEF NodeType
    <3> QED BY <1>2, <2>2, <3>1, <3>2
  <2>6. CASE at[t] # RootNode /\ ~IsLo(at[t]) /\ node' = [c EXCEPT ![Parent(at[t])].end_hi = m[t].dest]
    <3>1. Parent(at[t]) \in Interior /\ at[t] = Tree[Parent(at[t])].hi_child
      BY <2>1, <2>6, ChildFacts
    <3>2. node'[n].end_lo = c[n].end_lo /\ (n # Parent(at[t]) => node'[n].end_hi = c[n].end_hi)
      BY <1>0, <2>2, <2>6 DEF NodeType
    <3> QED BY <1>2, <2>2, <3>1, <3>2
  <2> QED BY <2>3, <2>4, <2>5, <2>6
<1>3. CASE Merge(t) \/ Drain(t)
  <2>1. \/ \E fromLo \in BOOLEAN, e \in Ends(t) : Move(t, fromLo, e)
        \/ node' = node
    <3>1. TakeLo(at[t]) \in BOOLEAN
      BY DEF TakeLo
    <3> QED BY <1>3, <3>1 DEF Merge, Drain, tableVars
  <2>2. \/ node' = [node EXCEPT ![at[t]].lo = @ + 1]
        \/ node' = [node EXCEPT ![at[t]].hi = @ + 1]
        \/ node' = node
    BY <2>1 DEF Move
  <2> QED BY <1>0, <2>2 DEF NodeType
<1>4. CASE \/ Create(t) \/ BeginSort(t) \/ Pop(t) \/ Wait(t) \/ LockNode(t) \/ PopEnd(t)
           \/ Check(t) \/ CheckParent(t) \/ Join(t) \/ Spurious(t)
  BY <1>4 DEF Create, BeginSort, Pop, Wait, LockNode, PopEnd, Check, CheckParent, Join,
     Spurious, tableVars
<1> QED BY <1>1, <1>2, <1>3, <1>4 DEF Step

\* A thread that sees its node after a step has just locked it, or merged it before.
LEMMA MergerBefore ==
  ASSUME TypeOK, QueueInv, NEW t \in Threads, Step(t) \/ Spurious(t),
         NEW r \in Threads, pc'[r] \in Seeing
  PROVE  /\ at'[r] = at[r]
         /\ \/ r = t /\ LockNode(t)
            \/ r = t /\ pc[t] \in Merging /\ (Merge(t) \/ Drain(t) \/ StoreDest(t))
            \/ r # t /\ pc[r] = pc'[r] /\ ~(Create(t) /\ r = Tree[at[t]].lo_child)
<1>1. CASE Create(t)
  <2>1. /\ pc[t] = "sortlines" /\ pc' = [pc EXCEPT ![Tree[at[t]].lo_child] = "sortlines"]
        /\ \A s \in Threads \ {t} : at'[s] = at[s]
    BY <1>1 DEF Create, TypeOK
  <2>2. r # Tree[at[t]].lo_child /\ pc'[r] = pc[r]
    BY <2>1 DEF Seeing, Merging, TypeOK
  <2>3. r # t
    BY <2>1, <2>2 DEF Seeing, Merging
  <2> QED BY <2>1, <2>2, <2>3
<1>2. CASE ~Create(t) /\ r # t
  <2>1. OthersKeep(t)
    BY <1>2, ActionMoves DEF Moves, Step
  <2> QED BY <1>2, <2>1 DEF OthersKeep, Seeing, Merging
<1>3. CASE ~Create(t) /\ r = t
  BY <1>3, ActionMoves DEF Moves, Step, Seeing, Merging
<1> QED BY <1>1, <1>2, <1>3

\* What a thread has seen is what it saw before or what was there.
LEMMA SeenBefore ==
  ASSUME TypeOK, QueueInv, NEW t \in Threads, Step(t) \/ Spurious(t),
         NEW r \in Threads, pc'[r] \in Seeing, ~(r = t /\ LockNode(t))
  PROVE  /\ pc[r] \in Seeing /\ at'[r] = at[r]
         /\ m'[r].end_lo \in {m[r].end_lo, node[at[r]].end_lo}
         /\ m'[r].end_hi \in {m[r].end_hi, node[at[r]].end_hi}
<1>0. m \in [Threads -> LocalsType]
  BY DEF TypeOK, LocalsType
<1>1. pc[r] \in Seeing /\ at'[r] = at[r]
  BY MergerBefore DEF Seeing
<1>2. CASE r # t
  <2>1. m'[r] = m[r]
    BY <1>0, <1>2 DEF Step, Create, BeginSort, EndSort, Pop, Wait, LockNode, PopEnd, Merge, Drain,
       StoreDest, Check, CheckParent, Join, Spurious, Move, Seen
  <2> QED BY <1>1, <2>1
<1>3. CASE r = t
  <2>1. Merge(t) \/ Drain(t) \/ StoreDest(t)
    BY <1>3, MergerBefore
  <2> SUFFICES ASSUME ~StoreDest(t)
               PROVE  /\ m'[t].end_lo \in {m[t].end_lo, node[at[t]].end_lo}
                      /\ m'[t].end_hi \in {m[t].end_hi, node[at[t]].end_hi}
    BY <1>1, <1>3 DEF StoreDest
  <2>2. PICK e \in Ends(t) : \/ m' = [Seen(t, e) EXCEPT ![t].to_merge = @ - 1, ![t].dest = @ + 1]
                             \/ m' = [Seen(t, e) EXCEPT ![t].to_merge = SIZE_MAX]
                             \/ m' = Seen(t, e)
    BY <2>1 DEF Merge, Drain, Move
  <2>3. e[1] \in {m[t].end_lo, node[at[t]].end_lo} /\ e[2] \in {m[t].end_hi, node[at[t]].end_hi}
    BY <2>2 DEF Ends
  <2>4. m'[t].end_lo = e[1] /\ m'[t].end_hi = e[2]
    BY <1>0, <2>2 DEF Seen, LocalsType
  <2> QED BY <1>1, <1>3, <2>3, <2>4
<1> QED BY <1>2, <1>3

LEMMA InitSeenFresh == Init => SeenFresh
BY DEF Init, SeenFresh, Seeing, Merging

\* The thread that stored waits while the parent is merged.
LEMMA StoredStays ==
  ASSUME TypeOK, QueueInv, LockInv, NEW t \in Threads, Step(t) \/ Spurious(t),
         NEW r \in Threads, pc[r] \in Seeing,
         NEW c \in Regular, c # RootNode, Parent(c) = at[r], Stored(c)
  PROVE  Stored(c)'
<1>1. PICK s \in Threads : pc[s] \in {"check", "parent"} /\ at[s] = c
  BY DEF Stored
<1>2. at[r] \in Regular /\ lock[at[r]] = r /\ r # NoThread
  <2>1. pc[r] \in Holding
    BY DEF Seeing, Holding
  <2> QED BY <2>1, TreeFacts DEF LockInv
<1>3. CASE s # t
  <2>1. CASE Create(t)
    <3>1. /\ pc[t] = "sortlines" /\ at[t] \in Interior
          /\ pc' = [pc EXCEPT ![Tree[at[t]].lo_child] = "sortlines"]
          /\ at' = [at EXCEPT ![t] = Tree[at[t]].hi_child]
      BY <2>1 DEF Create, MaySplit
    <3>2. pc[Tree[at[t]].lo_child] = "none"
      BY <3>1, TreeFacts DEF QueueInv, SortersAlone, Sorting, Split
    <3>3. pc'[s] = pc[s] /\ at'[s] = at[s]
      BY <1>1, <1>3, <3>1, <3>2 DEF TypeOK
    <3> QED BY <1>1, <3>3 DEF Stored
  <2>2. CASE ~Create(t)
    <3>1. OthersKeep(t)
      BY <2>2, ActionMoves DEF Moves, Step
    <3> QED BY <1>1, <1>3, <3>1 DEF OthersKeep, Stored
  <2> QED BY <2>1, <2>2
<1>4. CASE s = t /\ Check(t)
  <2>1. pc'[s] = "parent" /\ at'[s] = c
    BY <1>1, <1>4, ActionMoves DEF Moves
  <2> QED BY <2>1 DEF Stored
<1>5. CASE s = t /\ ~Check(t)
  <2>1. ~Create(t)
    BY <1>1, <1>5 DEF Create
  <2>2. CheckParent(t)
    BY <1>1, <1>5, <2>1, ActionMoves DEF Moves, Step
  <2>3. Level(c) > MERGE_ROOT /\ Level(c) # MERGE_ROOT
    BY TreeFacts
  <2>4. lock[at[r]] = NoThread
    BY <1>1, <1>5, <2>2, <2>3 DEF CheckParent, ParentFree
  <2> QED BY <1>2, <2>4
<1> QED BY <1>3, <1>4, <1>5

LEMMA SeenFreshSteps ==
  ASSUME TypeOK, QueueInv, LockInv, SeenFresh, NEW t \in Threads, Step(t) \/ Spurious(t)
  PROVE  SeenFresh'
<1> SUFFICES ASSUME NEW r \in Threads, pc'[r] \in Seeing, NEW n, n = at'[r]
             PROVE  /\ m'[r].end_lo # node'[n].end_lo => n \in Interior /\ Stored(Tree[n].lo_child)'
                    /\ m'[r].end_hi # node'[n].end_hi => n \in Interior /\ Stored(Tree[n].hi_child)'
  BY DEF SeenFresh, Stored
<1>0. /\ node \in [Nodes -> NodeType] /\ m \in [Threads -> LocalsType]
      /\ at \in [Threads -> Nodes] /\ pc \in [Threads -> Labels]
  BY DEF TypeOK, NodeType, LocalsType
<1>1. CASE r = t /\ LockNode(t)
  <2>1. n = at[t] /\ node' = node
    BY <1>1, ActionMoves DEF Moves, LockNode, tableVars
  <2>2. m'[r].end_lo = node[n].end_lo /\ m'[r].end_hi = node[n].end_hi
    BY <1>0, <1>1, <2>1 DEF LockNode
  <2> QED BY <2>1, <2>2
<1>2. CASE ~(r = t /\ LockNode(t))
  <2>1. /\ pc[r] \in Seeing /\ n = at[r] /\ n \in Regular
        /\ m'[r].end_lo \in {m[r].end_lo, node[n].end_lo}
        /\ m'[r].end_hi \in {m[r].end_hi, node[n].end_hi}
    <3>1. /\ pc[r] \in Seeing /\ n = at[r]
          /\ m'[r].end_lo \in {m[r].end_lo, node[n].end_lo}
          /\ m'[r].end_hi \in {m[r].end_hi, node[n].end_hi}
      BY <1>2, SeenBefore
    <3>2. n \in Regular
      BY <3>1 DEF LockInv, Seeing, Holding
    <3> QED BY <3>1, <3>2
  <2>2. ~(EndSort(t) /\ at[t] = n)
    <3> SUFFICES ASSUME EndSort(t), at[t] = n PROVE FALSE
      OBVIOUS
    <3>1. pc[t] = "sorting"
      BY DEF EndSort
    <3>2. r # t
      BY <2>1, <3>1 DEF Seeing, Merging
    <3>3. pc[r] # "none"
      BY <2>1 DEF Seeing, Merging
    <3> QED BY <2>1, <3>1, <3>2, <3>3 DEF QueueInv, SortersAlone, Sorting
  <2>3. n \in Interior => /\ Tree[n].lo_child \in Regular \ {RootNode} /\ Parent(Tree[n].lo_child) = at[r]
                          /\ Tree[n].hi_child \in Regular \ {RootNode} /\ Parent(Tree[n].hi_child) = at[r]
    BY <2>1, TreeFacts
  <2>4. ASSUME NEW c \in Regular, StoreDest(t), at[t] = c
        PROVE  Stored(c)'
    <3>1. pc'[t] = "check" /\ at'[t] = c
      BY <2>4, ActionMoves DEF Moves
    <3> QED BY <3>1 DEF Stored
  <2>5. m'[r].end_lo # node'[n].end_lo => n \in Interior /\ Stored(Tree[n].lo_child)'
    <3>1. CASE node'[n].end_lo # node[n].end_lo
      <4>1. StoreDest(t) /\ n \in Interior /\ at[t] = Tree[n].lo_child
        BY <2>1, <2>2, <3>1, EndsChange
      <4> QED BY <2>3, <2>4, <4>1
    <3>2. CASE node'[n].end_lo = node[n].end_lo /\ m[r].end_lo # node[n].end_lo
      <4>1. n \in Interior /\ Stored(Tree[n].lo_child)
        BY <2>1, <3>2 DEF SeenFresh
      <4> QED BY <2>1, <2>3, <4>1, StoredStays
    <3> QED BY <2>1, <3>1, <3>2
  <2>6. m'[r].end_hi # node'[n].end_hi => n \in Interior /\ Stored(Tree[n].hi_child)'
    <3>1. CASE node'[n].end_hi # node[n].end_hi
      <4>1. StoreDest(t) /\ n \in Interior /\ at[t] = Tree[n].hi_child
        BY <2>1, <2>2, <3>1, EndsChange
      <4> QED BY <2>3, <2>4, <4>1
    <3>2. CASE node'[n].end_hi = node[n].end_hi /\ m[r].end_hi # node[n].end_hi
      <4>1. n \in Interior /\ Stored(Tree[n].hi_child)
        BY <2>1, <3>2 DEF SeenFresh
      <4> QED BY <2>1, <2>3, <4>1, StoredStays
    <3> QED BY <2>1, <3>1, <3>2
  <2> QED BY <2>5, <2>6
<1> QED BY <1>1, <1>2

SeenInv == TypeOK /\ QueueInv /\ LockInv /\ SeenFresh

\* Locks and what merging threads saw, together with the queue, are an invariant.
LEMMA SeenInvariant == Spec => []SeenInv
<1>1. SeenInv /\ [Next]_vars => SeenInv'
  <2> SUFFICES ASSUME SeenInv, [Next]_vars PROVE SeenInv'
    OBVIOUS
  <2>1. ASSUME NEW t \in Threads, Step(t) \/ Spurious(t)
        PROVE  SeenInv'
    BY <2>1, StepTypes, StepQueueInv, LockSteps, SeenFreshSteps DEF SeenInv
  <2>2. CASE UNCHANGED vars
    BY <2>2, StutterTypes, StutterQueueInv DEF SeenInv, LockInv, SeenFresh, Stored, vars
  <2> QED BY <2>1, <2>2 DEF Next, Return
<1> QED
  BY <1>1, InitTypeOK, InitQueueInv, InitLockInv, InitSeenFresh, PTL DEF Spec, SeenInv

\* A merging thread finds at most two values in its node's end_lo and in its end_hi:
\* what was there when it locked the node, and what the child may store once.
THEOREM StoresOnce == Spec => StoresOncePerHold
<1>1. SeenInv /\ [Next]_vars =>
        [\A t \in Threads :
           pc[t] \in Merging /\ pc'[t] \in Merging =>
             LET n == at[t] IN
             /\ node'[n].end_lo # node[n].end_lo => node[n].end_lo = m[t].end_lo
             /\ node'[n].end_hi # node[n].end_hi => node[n].end_hi = m[t].end_hi]_vars
  <2> SUFFICES ASSUME SeenInv, NEW t \in Threads, Step(t) \/ Spurious(t),
                      NEW r \in Threads, pc[r] \in Merging, NEW n, n = at[r]
               PROVE  /\ node'[n].end_lo # node[n].end_lo => node[n].end_lo = m[r].end_lo
                      /\ node'[n].end_hi # node[n].end_hi => node[n].end_hi = m[r].end_hi
    BY DEF Next, Return
  <2>1. n \in Regular
    BY DEF SeenInv, LockInv, Holding
  <2>2. ~(EndSort(t) /\ at[t] = n)
    <3> SUFFICES ASSUME EndSort(t), at[t] = n PROVE FALSE
      OBVIOUS
    <3>1. pc[t] = "sorting" /\ pc[r] # "none" /\ pc[r] # "sorting"
      BY DEF EndSort, Merging
    <3> QED BY <3>1 DEF SeenInv, QueueInv, SortersAlone, Sorting
  <2>3. ASSUME NEW c, StoreDest(t), at[t] = c PROVE ~Stored(c)
    <3> SUFFICES ASSUME NEW s \in Threads, pc[s] \in {"check", "parent"}, at[s] = c
                 PROVE  FALSE
      BY DEF Stored
    <3>1. pc[t] = "store" /\ pc[s] \in Holding /\ pc[t] \in Holding
      BY <2>3 DEF StoreDest, Holding, Merging
    <3> QED BY <2>3, <3>1, OnlyHolder DEF SeenInv
  <2> QED BY <2>1, <2>2, <2>3, EndsChange DEF SeenInv, SeenFresh, Seeing
<1> QED
  BY <1>1, SeenInvariant, PTL DEF Spec, StoresOncePerHold
-----------------------------------------------------------------------------
(* Counts of lines *)

Left(n) == LeftLo(n) + LeftHi(n)

\* The lines that are still to come to node n's parent through n.
Owed(n) == NInFlight(n) + Left(n)

\* The counts of a node in terms of the thread that merges it, if there is one.
Viewed(n) ==
  /\ {LeftLo(n), LeftHi(n), NInFlight(n)} \subseteq Int
  /\ \A t \in Threads : pc[t] \in Merging /\ at[t] = n =>
       /\ LeftLo(n) = node[n].nlo - (node[n].lo - m[t].lo)
       /\ LeftHi(n) = node[n].nhi - (node[n].hi - m[t].hi)
       /\ NInFlight(n) = IF n = RootNode THEN 0 ELSE m[t].dest - Dest(n)
  /\ (\A t \in Threads : ~(pc[t] \in Merging /\ at[t] = n)) =>
       LeftLo(n) = node[n].nlo /\ LeftHi(n) = node[n].nhi /\ NInFlight(n) = 0

LEMMA DestType ==
  ASSUME TypeOK, NEW n \in Regular \ {RootNode}
  PROVE  Dest(n) \in Int
<1>1. node[Parent(n)] \in NodeType
  BY TreeFacts DEF TypeOK, NodeType
<1> QED BY <1>1 DEF Dest, NodeType

LEMMA Views == TypeOK /\ LockInv => \A n \in Regular : Viewed(n)
<1> SUFFICES ASSUME TypeOK, LockInv, NEW n \in Regular PROVE Viewed(n)
  OBVIOUS
<1>0. /\ node[n] \in NodeType /\ m \in [Threads -> LocalsType] /\ n \in Nodes
      /\ lock[n] \in Threads \cup {NoThread}
      /\ Level(n) > MERGE_ROOT <=> n # RootNode
  BY TreeFacts DEF TypeOK, NodeType, LocalsType
<1>1. ASSUME NEW t \in Threads, pc[t] \in Merging, at[t] = n
      PROVE  /\ LeftLo(n) = node[n].nlo - (node[n].lo - m[t].lo)
             /\ LeftHi(n) = node[n].nhi - (node[n].hi - m[t].hi)
             /\ NInFlight(n) = IF n = RootNode THEN 0 ELSE m[t].dest - Dest(n)
  <2>1. lock[n] = t /\ t # NoThread
    BY <1>0, <1>1, TreeFacts DEF LockInv, Holding
  <2> QED BY <1>0, <1>1, <2>1 DEF LeftLo, LeftHi, MergedBy, NInFlight
<1>2. ASSUME \A t \in Threads : ~(pc[t] \in Merging /\ at[t] = n)
      PROVE  LeftLo(n) = node[n].nlo /\ LeftHi(n) = node[n].nhi /\ NInFlight(n) = 0
  <2>1. lock[n] = NoThread \/ pc[lock[n]] \notin Merging
    BY <1>0, <1>2 DEF LockInv
  <2>2. MergedBy(n, "lo") = 0 /\ MergedBy(n, "hi") = 0 /\ NInFlight(n) = 0
    BY <2>1 DEF MergedBy, NInFlight
  <2> QED BY <1>0, <2>2 DEF LeftLo, LeftHi, NodeType
<1>3. {LeftLo(n), LeftHi(n), NInFlight(n)} \subseteq Int
  <2>1. CASE \A t \in Threads : ~(pc[t] \in Merging /\ at[t] = n)
    BY <1>0, <1>2, <2>1 DEF NodeType
  <2>2. ASSUME NEW t \in Threads, pc[t] \in Merging, at[t] = n
        PROVE  {LeftLo(n), LeftHi(n), NInFlight(n)} \subseteq Int
    BY <1>0, <1>1, <2>2, DestType DEF NodeType, LocalsType
  <2> QED BY <2>1, <2>2
<1> QED BY <1>1, <1>2, <1>3 DEF Viewed

LEMMA ViewsNext == TypeOK' /\ LockInv' => (\A n \in Regular : Viewed(n))'
BY Views, PTL

SameView(n) == LeftLo(n)' = LeftLo(n) /\ LeftHi(n)' = LeftHi(n) /\ NInFlight(n)' = NInFlight(n)

\* A step that changes neither what a node's counts are made of nor its merger.
LEMMA ViewKept ==
  ASSUME TypeOK, LockInv, TypeOK', LockInv', NEW n \in Regular,
         /\ node'[n].lo = node[n].lo /\ node'[n].nlo = node[n].nlo
         /\ node'[n].hi = node[n].hi /\ node'[n].nhi = node[n].nhi,
         \A s \in Threads : pc'[s] \in Merging /\ at'[s] = n <=> pc[s] \in Merging /\ at[s] = n,
         \A s \in Threads : pc[s] \in Merging /\ at[s] = n =>
            /\ m'[s].lo = m[s].lo /\ m'[s].hi = m[s].hi
            /\ n # RootNode => m'[s].dest - Dest(n)' = m[s].dest - Dest(n)
  PROVE  SameView(n)
<1>1. Viewed(n) /\ Viewed(n)'
  BY Views, ViewsNext
<1>2. CASE \A s \in Threads : ~(pc[s] \in Merging /\ at[s] = n)
  BY <1>1, <1>2 DEF Viewed, SameView
<1>3. ASSUME NEW s \in Threads, pc[s] \in Merging, at[s] = n
      PROVE  SameView(n)
  <2>1. pc'[s] \in Merging /\ at'[s] = n
    BY <1>3
  <2>2. /\ m'[s].lo = m[s].lo /\ m'[s].hi = m[s].hi
        /\ n # RootNode => m'[s].dest - Dest(n)' = m[s].dest - Dest(n)
    BY <1>3
  <2> QED BY <1>1, <1>3, <2>1, <2>2 DEF Viewed, SameView
<1> QED BY <1>2, <1>3

\* The counts of one node agree with its lines and with what its children owe it.
CountOK(n) ==
  /\ LeftLo(n) >= 0 /\ LeftHi(n) >= 0
  /\ node[n].lo <= node[n].end_lo /\ node[n].hi <= node[n].end_hi
  /\ Split(n) =>
       /\ LeftLo(n) = node[n].end_lo - node[n].lo + Owed(Tree[n].lo_child)
       /\ LeftHi(n) = node[n].end_hi - node[n].hi + Owed(Tree[n].hi_child)
  /\ Sorted(n) => /\ LeftLo(n) = node[n].end_lo - node[n].lo
                  /\ LeftHi(n) = node[n].end_hi - node[n].hi

\* What thread t found as its node n's ends lies between the pointers and what is there.
SeenOK(t, n) ==
  /\ node[n].lo <= m[t].end_lo /\ m[t].end_lo <= node[n].end_lo
  /\ node[n].hi <= m[t].end_hi /\ m[t].end_hi <= node[n].end_hi

\* Thread t has merged at most what it may of node n.
MergeOK(t, n) ==
  LET moved == (node[n].lo - m[t].lo) + (node[n].hi - m[t].hi)
  IN /\ n # RootNode => m[t].dest >= Dest(n)
     /\ moved <= MAX_MERGE(NLines, Level(n))
     /\ pc[t] # "store" => moved + m[t].to_merge = MAX_MERGE(NLines, Level(n))

\* A node that no thread has merged or sorted is as init_node left it.
NewNode(n) == [lo |-> Tree[n].lo, hi |-> Tree[n].hi, end_lo |-> Tree[n].lo,
               end_hi |-> Tree[n].hi, nlo |-> Tree[n].nlo, nhi |-> Tree[n].nhi]

\* Thread t has a label of the set at node n.
In(t, labels, n) == pc[t] \in labels /\ at[t] = n

CountsOK    == \A n \in Regular : CountOK(n)
SeensOK     == \A t \in Threads, n \in Regular : In(t, Seeing, n) => SeenOK(t, n) /\ ~queued[n]
MergesOK    == \A t \in Threads, n \in Regular : In(t, Merging, n) => MergeOK(t, n)
MergersOwe  == \A t \in Threads, n \in Regular : In(t, Merging, n) /\ n # RootNode => Owed(n) > 0
UnusedNew   == \A n \in Regular : ~InUse(n) => node[n] = NewNode(n)
SortedApart == \A n \in Regular : Sorted(n) => Called(n) /\ ~Split(n) /\ node[n].end_lo < Tree[n].lo
CalledLarge == \A n \in Regular : Called(n) => Tree[n].nlo + Tree[n].nhi >= 2
SortersNew  == \A t \in Threads, n \in Regular : In(t, Sorting, n) => ~Sorted(n)
WorkersUse  == \A t \in Threads, n \in Regular : In(t, Holding, n) => InUse(n)
QueuedLeft  == \A n \in Regular : queued[n] => InUse(n) /\ Left(n) > 0

CountInv == /\ CountsOK /\ SeensOK /\ MergesOK /\ MergersOwe /\ UnusedNew /\ SortedApart
            /\ CalledLarge /\ SortersNew /\ WorkersUse /\ QueuedLeft

\* What WellSized says, in the terms of ParallelMerge.
LEMMA SizeFacts ==
  /\ Tree[RootNode].nlo + Tree[RootNode].nhi = NLines
  /\ \A n \in Regular :
       /\ Tree[n] \in [parent : Nat \cup {NoNode}, level : Nat, lo : Nat, hi : Nat, nlo : Nat, nhi : Nat,
                       lo_child : Nat \cup {NoNode}, hi_child : Nat \cup {NoNode}, nthreads : Nat]
       /\ Tree[n].nlo + Tree[n].nhi <= NLines
       /\ Tree[n].nhi = Tree[n].nlo \/ Tree[n].nhi = Tree[n].nlo + 1
       /\ Tree[n].nlo < NLines
  /\ \A n \in Interior :
       LET l == Tree[n].lo_child
           h == Tree[n].hi_child
       IN /\ Tree[l].nlo + Tree[l].nhi = Tree[n].nlo
          /\ Tree[h].nlo + Tree[h].nhi = Tree[n].nhi
<1>1. /\ Tree[RootNode].nlo + Tree[RootNode].nhi = NLines
      /\ \A n \in Interior :
           /\ Tree[Tree[n].lo_child].nlo + Tree[Tree[n].lo_child].nhi = Tree[n].nlo
           /\ Tree[Tree[n].hi_child].nlo + Tree[Tree[n].hi_child].nhi = Tree[n].nhi
      /\ \A n \in Regular : /\ Tree[n].nlo + Tree[n].nhi <= NLines
                            /\ Tree[n].nhi - Tree[n].nlo \in {0, 1}
  BY LinesAssumption DEF WellSized, Nodes, Regular, Interior
<1>2. ASSUME NEW n \in Regular
      PROVE  Tree[n] \in [parent : Nat \cup {NoNode}, level : Nat, lo : Nat, hi : Nat, nlo : Nat, nhi : Nat,
                          lo_child : Nat \cup {NoNode}, hi_child : Nat \cup {NoNode}, nthreads : Nat]
  BY TreeAssumption DEF WellLinked, Nodes, Regular
<1>3. ASSUME NEW n \in Regular
      PROVE  /\ Tree[n].nhi = Tree[n].nlo \/ Tree[n].nhi = Tree[n].nlo + 1
             /\ Tree[n].nlo < NLines
  <2>1. Tree[n].nlo \in Nat /\ Tree[n].nhi \in Nat
    BY <1>2
  <2> QED BY <1>1, <2>1, SizesAssumption
<1> QED BY <1>1, <1>2, <1>3

LEMMA Product == \A a, b \in Nat : b >= 1 => a * b \in Nat /\ a * b >= a
<1>1. \A a, b \in Nat : a * b \in Nat
  OBVIOUS
<1>2. \A a, c \in Nat : a * (c + 1) = a * c + a
  OBVIOUS
<1> SUFFICES ASSUME NEW a \in Nat, NEW b \in Nat, b >= 1 PROVE a * b >= a
  BY <1>1
<1> DEFINE x == a * (b - 1)
           y == a * b
<1>3. b - 1 \in Nat /\ (b - 1) + 1 = b
  OBVIOUS
<1>4. x \in Nat /\ y = x + a
  BY <1>1, <1>2, <1>3
<1> HIDE DEF x
<1>5. x + a >= a
  BY <1>4
<1> QED BY <1>4, <1>5

\* A sorted leaf's lines lie below the place where an unsorted node's would come.
LEMMA LeafRegion ==
  ASSUME NEW n \in Regular
  PROVE  /\ LinesOf(n) \in Int
         /\ LinesOf(n) + Tree[n].nlo < Tree[n].lo
<1> DEFINE x == NLines * Level(n)
           lo == Tree[n].lo
           nlo == Tree[n].nlo
<1>1. /\ Level(n) \in Nat /\ Level(n) >= 1 /\ NLines \in Nat
      /\ lo \in Nat /\ nlo \in Nat /\ nlo < NLines
  BY TreeFacts, SizeFacts, SizesAssumption DEF MERGE_END
<1>2. x \in Nat /\ x >= NLines
  BY <1>1, Product
<1>3. LinesOf(n) = lo - x
  BY DEF LinesOf
<1> HIDE DEF x, lo, nlo
<1>4. LinesOf(n) \in Int /\ LinesOf(n) + nlo < lo
  BY <1>1, <1>2, <1>3
<1> QED BY <1>4 DEF lo, nlo

LEMMA InitCountInv == Init => CountInv
<1> SUFFICES ASSUME Init PROVE CountInv
  OBVIOUS
<1>0. TypeOK /\ LockInv
  BY InitTypeOK, InitLockInv
<1>1. /\ \A t \in Threads : pc[t] \notin Holding
      /\ \A n \in Regular : ~queued[n]
  BY TreeFacts DEF Init, Holding, Merging
<1>2. \A n \in Regular : node[n] = NewNode(n)
  BY TreeFacts DEF Init, NewNode
<1>3. ASSUME NEW n \in Regular PROVE ~Sorted(n)
  <2>0. node[n] = NewNode(n)
    BY <1>2
  <2>1. node[n].lo = Tree[n].lo
    BY <2>0 DEF NewNode
  <2>2. Tree[n].lo \in Nat
    BY SizeFacts
  <2> QED BY <2>1, <2>2 DEF Sorted
<1>4. \A n \in Regular : ~Split(n)
  <2> SUFFICES ASSUME NEW n \in Interior PROVE pc[Tree[n].lo_child] = "none"
    BY DEF Split
  <2>1. Tree[n].lo_child \in Threads /\ Tree[n].lo_child # Main
    BY TreeFacts DEF Main
  <2> QED BY <2>1 DEF Init
<1>5. CountsOK
  <2> SUFFICES ASSUME NEW n \in Regular PROVE CountOK(n)
    BY DEF CountsOK
  <2>1. LeftLo(n) = node[n].nlo /\ LeftHi(n) = node[n].nhi
    <3>1. Viewed(n)
      BY <1>0, Views
    <3>2. \A t \in Threads : ~(pc[t] \in Merging /\ at[t] = n)
      BY <1>1 DEF Holding
    <3> QED BY <3>1, <3>2 DEF Viewed
  <2>2. /\ Tree[n].nlo \in Nat /\ Tree[n].nhi \in Nat /\ Tree[n].lo \in Nat /\ Tree[n].hi \in Nat
    BY SizeFacts
  <2>4. node[n] = NewNode(n)
    BY <1>2
  <2>3. /\ node[n].nlo = Tree[n].nlo /\ node[n].nhi = Tree[n].nhi
        /\ node[n].lo = Tree[n].lo /\ node[n].hi = Tree[n].hi
        /\ node[n].end_lo = Tree[n].lo /\ node[n].end_hi = Tree[n].hi
    BY <2>4 DEF NewNode
  <2> QED BY <1>3, <1>4, <2>1, <2>2, <2>3 DEF CountOK
<1>6. CalledLarge
  <2>1. \A n \in Regular : Called(n) => n = RootNode
    BY <1>4, ChildFacts DEF Called
  <2> QED BY <2>1, SizeFacts, SizesAssumption DEF CalledLarge
<1>7. SortersNew
  <2>1. \A t \in Threads : at[t] \in Regular
    BY TreeFacts DEF Init
  <2> QED BY <1>3, <2>1 DEF SortersNew
<1> QED
  BY <1>1, <1>2, <1>3, <1>5, <1>6, <1>7
     DEF CountInv, SeensOK, MergesOK, MergersOwe, UnusedNew, SortedApart, WorkersUse, QueuedLeft,
         In, Seeing, Holding

SafeInv == SeenInv /\ CountInv

\* What a node has is still to be merged, and what a node owes is not negative.
LEMMA OwedFacts ==
  ASSUME SafeInv, NEW n \in Regular
  PROVE  /\ NInFlight(n) \in Nat /\ LeftLo(n) \in Nat /\ LeftHi(n) \in Nat
         /\ Left(n) = LeftLo(n) + LeftHi(n) /\ Left(n) \in Nat
         /\ Owed(n) = NInFlight(n) + Left(n) /\ Owed(n) \in Nat
<1>1. Viewed(n) /\ CountOK(n)
  BY Views DEF SafeInv, SeenInv, CountInv, CountsOK
<1>2. LeftLo(n) \in Nat /\ LeftHi(n) \in Nat /\ NInFlight(n) \in Int
  BY <1>1 DEF Viewed, CountOK
<1>3. NInFlight(n) >= 0
  <2>1. CASE \A s \in Threads : ~(pc[s] \in Merging /\ at[s] = n)
    BY <1>1, <2>1 DEF Viewed
  <2>2. ASSUME NEW s \in Threads, pc[s] \in Merging, at[s] = n
        PROVE  NInFlight(n) >= 0
    <3>1. NInFlight(n) = IF n = RootNode THEN 0 ELSE m[s].dest - Dest(n)
      BY <1>1, <2>2 DEF Viewed
    <3>2. n # RootNode => m[s].dest >= Dest(n)
      BY <2>2 DEF SafeInv, CountInv, MergesOK, MergeOK, In
    <3>3. n # RootNode => m[s].dest \in Int /\ Dest(n) \in Int
      BY DestType DEF SafeInv, SeenInv, TypeOK
    <3> QED BY <3>1, <3>2, <3>3
  <2> QED BY <2>1, <2>2
<1> QED BY <1>2, <1>3 DEF Left, Owed

LEMMA AvailLeft ==
  ASSUME SafeInv, NEW n \in Regular, InUse(n)
  PROVE  /\ node[n].lo <= node[n].end_lo /\ node[n].end_lo - node[n].lo <= LeftLo(n)
         /\ node[n].hi <= node[n].end_hi /\ node[n].end_hi - node[n].hi <= LeftHi(n)
<1>1. CountOK(n) /\ node[n] \in NodeType /\ LeftLo(n) \in Nat /\ LeftHi(n) \in Nat
  BY OwedFacts, TreeFacts DEF SafeInv, SeenInv, CountInv, CountsOK, TypeOK, NodeType
<1>2. CASE Split(n)
  <2>1. Owed(Tree[n].lo_child) \in Nat /\ Owed(Tree[n].hi_child) \in Nat
    BY <1>2, OwedFacts, TreeFacts DEF Split
  <2> QED BY <1>1, <1>2, <2>1 DEF CountOK, NodeType
<1>3. CASE Sorted(n)
  BY <1>1, <1>3 DEF CountOK, NodeType
<1> QED BY <1>2, <1>3 DEF InUse

\* A step of thread t that leaves the nodes and their counts as they are.
LEMMA QuietCounts ==
  ASSUME SafeInv, NEW t \in Threads, OthersKeep(t), node' = node,
         \A n \in Regular : SameView(n),
         \A n \in Regular : queued'[n] =>
            \/ queued[n]
            \/ InUse(n) /\ Left(n) > 0 /\ \A s \in Threads : ~In(s, Seeing, n)',
         \A n \in Regular : In(t, Sorting, n)' => In(t, Sorting, n),
         \A n \in Regular : In(t, Holding, n)' => InUse(n),
         \A s \in Threads \ {t} : m'[s] = m[s],
         \A n \in Regular : In(t, Seeing, n)' => SeenOK(t, n)' /\ ~queued'[n],
         \A n \in Regular : In(t, Merging, n)' =>
            MergeOK(t, n)' /\ (n # RootNode => Owed(n) > 0)
  PROVE  CountInv'
<1>1. /\ \A n \in Nodes : Split(n)' <=> Split(n)
      /\ \A n \in Regular : /\ Called(n)' <=> Called(n)
                            /\ Sorted(n)' <=> Sorted(n)
                            /\ InUse(n)' <=> InUse(n)
  BY OthersKept, TreeFacts DEF SafeInv, SeenInv, Sorted, InUse
<1>2. \A n \in Regular : Owed(n)' = Owed(n) /\ Left(n)' = Left(n)
  BY DEF SameView, Owed, Left
<1>3. \A n \in Regular : Dest(n)' = Dest(n)
  BY DEF Dest
<1>4. \A s \in Threads \ {t}, n \in Regular :
        /\ In(s, Sorting, n)' => In(s, Sorting, n)
        /\ In(s, Holding, n)' => In(s, Holding, n)
        /\ In(s, Seeing, n)'  => In(s, Seeing, n)
        /\ In(s, Merging, n)' => In(s, Merging, n) /\ pc'[s] = pc[s]
  BY DEF OthersKeep, In, Sorting, Seeing, Holding, Merging
<1>5. CountsOK'
  <2> SUFFICES ASSUME NEW n \in Regular PROVE CountOK(n)'
    BY DEF CountsOK
  <2>1. /\ CountOK(n) /\ SameView(n) /\ (Split(n)' <=> Split(n)) /\ (Sorted(n)' <=> Sorted(n))
    BY <1>1, TreeFacts DEF SafeInv, CountInv, CountsOK
  <2>2. Split(n) => /\ Owed(Tree[n].lo_child)' = Owed(Tree[n].lo_child)
                    /\ Owed(Tree[n].hi_child)' = Owed(Tree[n].hi_child)
    <3> SUFFICES ASSUME n \in Interior,
                        NEW l, l = Tree[n].lo_child, NEW h, h = Tree[n].hi_child
                 PROVE  Owed(l)' = Owed(l) /\ Owed(h)' = Owed(h)
      BY DEF Split, Owed, NInFlight, Left, LeftLo, LeftHi, MergedBy, Dest, IsLo
    <3> QED BY <1>2, TreeFacts
  <2> QED BY <2>1, <2>2 DEF CountOK, SameView
<1>6. SeensOK'
  <2> SUFFICES ASSUME NEW s \in Threads, NEW n \in Regular, In(s, Seeing, n)'
               PROVE  SeenOK(s, n)' /\ ~queued'[n]
    BY DEF SeensOK
  <2>1. CASE s # t
    <3>1. In(s, Seeing, n)
      BY <1>4, <2>1
    <3>2. SeenOK(s, n) /\ ~queued[n]
      BY <3>1 DEF SafeInv, CountInv, SeensOK
    <3> QED BY <2>1, <3>2 DEF SeenOK
  <2> QED BY <2>1
<1>7. MergesOK' /\ MergersOwe'
  <2> SUFFICES ASSUME NEW s \in Threads, NEW n \in Regular, In(s, Merging, n)'
               PROVE  MergeOK(s, n)' /\ (n # RootNode => Owed(n)' > 0)
    BY DEF MergesOK, MergersOwe
  <2>1. CASE s # t
    <3>1. In(s, Merging, n) /\ pc'[s] = pc[s]
      BY <1>4, <2>1
    <3>2. MergeOK(s, n) /\ (n # RootNode => Owed(n) > 0)
      BY <3>1 DEF SafeInv, CountInv, MergesOK, MergersOwe
    <3> QED BY <1>2, <1>3, <2>1, <3>1, <3>2 DEF MergeOK
  <2>2. CASE s = t
    BY <1>2, <2>2
  <2> QED BY <2>1, <2>2
<1>8. UnusedNew' /\ SortedApart' /\ CalledLarge'
  BY <1>1, TreeFacts DEF SafeInv, CountInv, UnusedNew, SortedApart, CalledLarge, NewNode
<1>9. SortersNew' /\ WorkersUse'
  BY <1>1, <1>4 DEF SafeInv, CountInv, SortersNew, WorkersUse
<1>10. QueuedLeft'
  BY <1>1, <1>2 DEF SafeInv, CountInv, QueuedLeft
<1> QED BY <1>5, <1>6, <1>7, <1>8, <1>9, <1>10 DEF CountInv

\* The steps of a thread that has no node.
LEMMA FreeCounts ==
  ASSUME SafeInv, SeenInv', NEW t \in Threads,
         \/ BeginSort(t) \/ Pop(t) \/ Wait(t) \/ Spurious(t) \/ PopEnd(t) \/ Join(t)
  PROVE  CountInv'
<1>0. TypeOK /\ QueueInv /\ LockInv /\ TypeOK' /\ LockInv'
  BY DEF SafeInv, SeenInv
<1>1. /\ OthersKeep(t) /\ node' = node /\ m' = m
      /\ pc[t] \notin Holding /\ pc'[t] \notin Holding
      /\ pc'[t] \in Sorting => pc[t] \in Sorting /\ at'[t] = at[t]
      /\ \A n \in Regular : queued'[n] = queued[n]
  <2>1. /\ OthersKeep(t) /\ pc[t] \notin Holding /\ pc'[t] \notin Holding
        /\ pc'[t] \in Sorting => pc[t] \in Sorting /\ at'[t] = at[t]
    BY <1>0, ActionMoves DEF Moves, Holding, Merging, Sorting
  <2>2. node' = node /\ m' = m
    BY DEF BeginSort, Pop, Wait, Spurious, PopEnd, Join, tableVars
  <2>3. \A n \in Regular : queued'[n] = queued[n]
    <3>1. CASE PopEnd(t)
      <4>1. at[t] = EndNode /\ queued' = [queued EXCEPT ![at[t]] = TRUE]
        BY <1>0, <3>1, ActionMoves DEF PopEnd, queue_insert
      <4> QED BY <1>0, <4>1, TreeFacts DEF TypeOK
    <3>2. CASE ~PopEnd(t)
      BY <3>2 DEF BeginSort, Pop, Wait, Spurious, Join, queueVars
    <3> QED BY <3>1, <3>2
  <2> QED BY <2>1, <2>2, <2>3
<1>2. \A n \in Regular : SameView(n)
  <2> SUFFICES ASSUME NEW n \in Regular PROVE SameView(n)
    OBVIOUS
  <2>1. \A s \in Threads : pc'[s] \in Merging /\ at'[s] = n <=> pc[s] \in Merging /\ at[s] = n
    BY <1>1 DEF OthersKeep, Holding, Merging
  <2>2. Dest(n)' = Dest(n)
    BY <1>1 DEF Dest
  <2> QED BY <1>0, <1>1, <2>1, <2>2, ViewKept
<1>3. \A n \in Regular : /\ ~In(t, Holding, n)' /\ ~In(t, Seeing, n)' /\ ~In(t, Merging, n)'
                         /\ In(t, Sorting, n)' => In(t, Sorting, n)
  BY <1>1 DEF In, Holding, Seeing
<1> QED BY <1>1, <1>2, <1>3, QuietCounts

LEMMA LockCounts ==
  ASSUME SafeInv, SeenInv', NEW t \in Threads, LockNode(t)
  PROVE  CountInv'
<1>a. PICK k : k = at[t]
  OBVIOUS
<1>0. TypeOK /\ QueueInv /\ LockInv /\ TypeOK' /\ LockInv'
  BY DEF SafeInv, SeenInv
<1>1. /\ OthersKeep(t) /\ pc[t] = "lock" /\ pc'[t] = "merge" /\ at'[t] = k
      /\ k \in Regular /\ node' = node
      /\ lock[k] = NoThread
      /\ queued' = [queued EXCEPT ![k] = FALSE]
      /\ \A s \in Threads \ {t} : m'[s] = m[s]
  <2>1. OthersKeep(t) /\ pc[t] = "lock" /\ pc'[t] = "merge" /\ at'[t] = k
    BY <1>a, <1>0, ActionMoves DEF Moves
  <2>2. k \in Regular
    BY <1>a, <1>0, TreeFacts DEF LockNode, TypeOK
  <2>3. /\ node' = node /\ lock[k] = NoThread /\ queued' = [queued EXCEPT ![k] = FALSE]
        /\ \A s \in Threads \ {t} : m'[s] = m[s]
    BY <1>a, <1>0 DEF LockNode, tableVars, TypeOK
  <2> QED BY <2>1, <2>2, <2>3
<1>2. /\ m'[t].lo = node[k].lo /\ m'[t].hi = node[k].hi
      /\ m'[t].end_lo = node[k].end_lo /\ m'[t].end_hi = node[k].end_hi
      /\ m'[t].to_merge = MAX_MERGE(NLines, Level(k))
      /\ k # RootNode => m'[t].dest = Dest(k)
  <2>1. m'[t] = [lo |-> node[k].lo, hi |-> node[k].hi,
                 to_merge |-> MAX_MERGE(NLines, Level(k)),
                 dest |-> IF Level(k) > MERGE_ROOT THEN Dest(k) ELSE 0,
                 end_lo |-> node[k].end_lo, end_hi |-> node[k].end_hi]
    BY <1>a, <1>0 DEF LockNode, TypeOK
  <2>2. k # RootNode => Level(k) > MERGE_ROOT
    BY <1>1, TreeFacts
  <2> QED BY <2>1, <2>2
<1>3. k \in Nodes /\ node[k] \in NodeType /\ MAX_MERGE(NLines, Level(k)) \in Nat
  <2>1. k \in Nodes /\ Level(k) \in Nat
    BY <1>1, TreeFacts
  <2>2. node[k] \in NodeType
    BY <1>0, <2>1 DEF TypeOK, NodeType
  <2>3. MAX_MERGE(NLines, Level(k)) \in Nat
    BY <1>1, <2>1, MergeAssumption
  <2> QED BY <2>1, <2>2, <2>3
<1>4. queued[k] /\ InUse(k) /\ Left(k) > 0
  <2>1. t \in Popped(k)
    BY <1>a, <1>1 DEF Popped
  <2>2. queued[k]
    BY <1>0, <1>1, <2>1 DEF QueueInv, QueuedOnce
  <2> QED BY <1>1, <2>2 DEF SafeInv, CountInv, QueuedLeft
<1>5. \A n \in Regular : SameView(n)
  <2> SUFFICES ASSUME NEW n \in Regular PROVE SameView(n)
    OBVIOUS
  <2>0. Dest(n)' = Dest(n)
    BY <1>1 DEF Dest
  <2>1. CASE n # k
    <3>1. \A s \in Threads : pc'[s] \in Merging /\ at'[s] = n <=> pc[s] \in Merging /\ at[s] = n
      BY <1>a, <1>1, <2>1 DEF OthersKeep, Merging
    <3>2. \A s \in Threads : pc[s] \in Merging /\ at[s] = n => m'[s] = m[s]
      BY <1>1 DEF Merging
    <3> QED BY <1>0, <1>1, <2>0, <3>1, <3>2, ViewKept
  <2>2. CASE n = k
    <3>1. Viewed(k) /\ Viewed(k)'
      BY <1>0, <1>1, Views, ViewsNext
    <3>2. \A s \in Threads : ~(pc[s] \in Merging /\ at[s] = k)
      <4>1. lock[k] = NoThread /\ k \in Nodes /\ NoThread \notin Threads
        BY <1>1, TreeFacts
      <4>2. \A s \in Threads : lock[k] = s <=> pc[s] \in Holding /\ at[s] = k
        BY <1>0, <4>1 DEF LockInv
      <4> QED BY <4>1, <4>2 DEF Holding
    <3>3. LeftLo(k) = node[k].nlo /\ LeftHi(k) = node[k].nhi /\ NInFlight(k) = 0
      BY <3>1, <3>2 DEF Viewed
    <3>4. pc'[t] \in Merging /\ at'[t] = k
      BY <1>1 DEF Merging
    <3>5. /\ LeftLo(k)' = node'[k].nlo - (node'[k].lo - m'[t].lo)
          /\ LeftHi(k)' = node'[k].nhi - (node'[k].hi - m'[t].hi)
          /\ NInFlight(k)' = IF k = RootNode THEN 0 ELSE m'[t].dest - Dest(k)'
      BY <3>1, <3>4 DEF Viewed
    <3>6. k # RootNode => Dest(k) \in Int
      BY <1>0, <1>1, DestType
    <3>7. LeftLo(k)' = LeftLo(k) /\ LeftHi(k)' = LeftHi(k)
      BY <1>1, <1>2, <1>3, <3>3, <3>5 DEF NodeType
    <3>8. NInFlight(k)' = NInFlight(k)
      BY <1>1, <1>2, <2>0, <2>2, <3>3, <3>5, <3>6
    <3> QED BY <2>2, <3>7, <3>8 DEF SameView
  <2> QED BY <2>1, <2>2
<1>6. /\ \A n \in Regular : queued'[n] => queued[n]
      /\ ~queued'[k]
  BY <1>0, <1>1, TreeFacts DEF TypeOK
<1>7. \A n \in Regular : /\ ~In(t, Sorting, n)'
                         /\ In(t, Holding, n)' => n = k
                         /\ In(t, Seeing, n)' => n = k
                         /\ In(t, Merging, n)' => n = k
  BY <1>1 DEF In, Sorting
<1>8. SeenOK(t, k)'
  <2>1. CountOK(k)
    BY <1>1 DEF SafeInv, CountInv, CountsOK
  <2> QED BY <1>1, <1>2, <1>3, <2>1 DEF SeenOK, CountOK, NodeType
<1>9. MergeOK(t, k)'
  <2>1. (node'[k].lo - m'[t].lo) + (node'[k].hi - m'[t].hi) = 0
    BY <1>1, <1>2, <1>3 DEF NodeType
  <2>2. k # RootNode => Dest(k)' \in Int /\ m'[t].dest = Dest(k)'
    <3>1. Dest(k)' = Dest(k)
      BY <1>1 DEF Dest
    <3> QED BY <1>0, <1>1, <1>2, <3>1, DestType
  <2> QED BY <1>1, <1>2, <1>3, <2>1, <2>2 DEF MergeOK
<1>10. Owed(k) > 0
  BY <1>1, <1>4, OwedFacts
<1> QED BY <1>1, <1>4, <1>5, <1>6, <1>7, <1>8, <1>9, <1>10, QuietCounts

\* The node that queue_check_insert inserts can be merged.
LEMMA InsertedReady ==
  ASSUME TypeOK, NEW t \in Threads, NEW k \in Nodes, NEW e, NEW label,
         queue_check_insert(t, k, e, label), NEW n \in Regular, queued'[n]
  PROVE  queued[n] \/ (n = k /\ (LoAvail(k, e) \/ HiAvail(k, e)))
<1>1. queued' = queued \/ (Ready(k, e) /\ queued' = [queued EXCEPT ![k] = TRUE])
  BY DEF queue_check_insert, queue_insert, queueVars
<1>2. CASE Ready(k, e) /\ queued' = [queued EXCEPT ![k] = TRUE]
  <2>1. n # k => queued'[n] = queued[n]
    BY <1>2, TreeFacts DEF TypeOK
  <2>2. LoAvail(k, e) \/ HiAvail(k, e)
    BY <1>2 DEF Ready
  <2> QED BY <2>1, <2>2
<1> QED BY <1>1, <1>2

\* A step of thread t after mergelines_node that may insert node k.
LEMMA CheckCounts ==
  ASSUME SafeInv, SeenInv', NEW t \in Threads, Check(t) \/ CheckParent(t)
  PROVE  CountInv'
<1>a. PICK k : k = at[t]
  OBVIOUS
<1>0. TypeOK /\ QueueInv /\ LockInv /\ TypeOK' /\ LockInv'
  BY DEF SafeInv, SeenInv
<1>1. /\ OthersKeep(t) /\ pc[t] \in {"check", "parent"} /\ pc'[t] \in {"parent", "pop"}
      /\ pc'[t] = "parent" => at'[t] = k
      /\ k \in Regular /\ node' = node
      /\ \A s \in Threads \ {t} : m'[s] = m[s]
  <2>1. /\ OthersKeep(t) /\ pc[t] \in {"check", "parent"} /\ pc'[t] \in {"parent", "pop"}
        /\ pc'[t] = "parent" => at'[t] = k
    BY <1>a, <1>0, ActionMoves DEF Moves
  <2>2. node' = node /\ \A s \in Threads \ {t} : m'[s] = m[s]
    BY <1>0 DEF Check, CheckParent, tableVars, TypeOK
  <2>3. k \in Regular
    BY <1>a, <1>0, <2>1 DEF LockInv, Holding
  <2> QED BY <2>1, <2>2, <2>3
<1>2. InUse(k)
  BY <1>a, <1>1 DEF SafeInv, CountInv, WorkersUse, In, Holding
<1>3. \A n \in Regular : SameView(n)
  <2> SUFFICES ASSUME NEW n \in Regular PROVE SameView(n)
    OBVIOUS
  <2>1. \A s \in Threads : pc'[s] \in Merging /\ at'[s] = n <=> pc[s] \in Merging /\ at[s] = n
    BY <1>1 DEF OthersKeep, Merging
  <2>2. \A s \in Threads : pc[s] \in Merging /\ at[s] = n => m'[s] = m[s]
    BY <1>1 DEF Merging
  <2>3. Dest(n)' = Dest(n)
    BY <1>1 DEF Dest
  <2> QED BY <1>0, <1>1, <2>1, <2>2, <2>3, ViewKept
<1>4. \A n \in Regular : /\ ~In(t, Sorting, n)' /\ ~In(t, Seeing, n)' /\ ~In(t, Merging, n)'
                         /\ In(t, Holding, n)' => InUse(n)
  BY <1>1, <1>2 DEF In, Sorting, Seeing, Merging, Holding
<1>5. \A n \in Regular : queued'[n] =>
        \/ queued[n]
        \/ InUse(n) /\ Left(n) > 0 /\ \A s \in Threads : ~In(s, Seeing, n)'
  <2> SUFFICES ASSUME NEW n \in Regular, queued'[n], ~queued[n]
               PROVE  InUse(n) /\ Left(n) > 0 /\ \A s \in Threads : ~In(s, Seeing, n)'
    OBVIOUS
  <2>1. CASE Check(t)
    <3>1. PICK e \in Ends(t) : queue_check_insert(t, k, e, "parent")
      BY <1>a, <2>1 DEF Check
    <3>2. n = k /\ (LoAvail(k, e) \/ HiAvail(k, e))
      BY <1>0, <1>1, <3>1, InsertedReady, TreeFacts
    <3>3. pc[t] = "check" /\ In(t, Seeing, k)
      BY <1>a, <2>1 DEF Check, In, Seeing
    <3>4. SeenOK(t, k)
      BY <1>1, <3>3 DEF SafeInv, CountInv, SeensOK
    <3>5. e[1] \in {m[t].end_lo, node[k].end_lo} /\ e[2] \in {m[t].end_hi, node[k].end_hi}
      BY <1>a, <3>1 DEF Ends
    <3>6. node[k] \in NodeType /\ m[t] \in LocalsType
      BY <1>0, <1>1, TreeFacts DEF TypeOK, NodeType, LocalsType
    <3>7. Left(k) > 0
      <4>1. \/ node[k].end_lo - node[k].lo > 0 /\ node[k].end_hi - node[k].hi >= 0
            \/ node[k].end_lo - node[k].lo >= 0 /\ node[k].end_hi - node[k].hi > 0
        BY <3>2, <3>4, <3>5, <3>6 DEF SeenOK, LoAvail, HiAvail, NodeType, LocalsType
      <4> QED BY <1>1, <1>2, <3>6, <4>1, AvailLeft, OwedFacts DEF NodeType
    <3>8. ASSUME NEW s \in Threads, In(s, Seeing, k)' PROVE FALSE
      <4>1. s # t /\ pc[s] \in Holding /\ at[s] = k
        BY <1>1, <1>4, <3>8 DEF In, Seeing, Holding, Merging, OthersKeep
      <4>2. pc[t] \in Holding
        BY <3>3 DEF Holding
      <4> QED BY <1>a, <1>0, <4>1, <4>2, OnlyHolder
    <3> QED BY <1>2, <3>2, <3>7, <3>8
  <2>2. CASE CheckParent(t)
    <3> DEFINE p == Parent(k)
               e == <<node[p].end_lo, node[p].end_hi>>
    <3>1. p \in Nodes /\ (k = RootNode <=> p = EndNode)
      BY <1>1, TreeFacts
    <3>2. /\ k # RootNode /\ ParentFree(k) /\ queue_check_insert(t, p, e, "pop")
      <4>1. CASE k = RootNode
        <5>1. Level(k) = MERGE_ROOT /\ ~(Level(k) > MERGE_ROOT)
          BY <1>1, <4>1, TreeFacts
        <5>2. queued' = queued \/ queued' = [queued EXCEPT ![EndNode] = TRUE]
          BY <1>a, <2>2, <3>1, <4>1, <5>1 DEF CheckParent, queue_insert, queueVars
        <5>3. n \in Nodes /\ n # EndNode
          BY TreeFacts
        <5>4. queued \in [Nodes -> BOOLEAN]
          BY <1>0 DEF TypeOK
        <5> QED BY <5>2, <5>3, <5>4
      <4>2. CASE k # RootNode
        <5>1. Level(k) # MERGE_ROOT
          BY <1>1, <4>2, TreeFacts
        <5> QED BY <1>a, <2>2, <4>2, <5>1 DEF CheckParent
      <4> QED BY <4>1, <4>2
    <3>3. n = p /\ (LoAvail(p, e) \/ HiAvail(p, e))
      BY <1>0, <3>1, <3>2, InsertedReady
    <3>4. InUse(p)
      <4>1. Called(k)
        BY <1>a, <1>0, <1>1, WorkerFacts
      <4> QED BY <3>2, <4>1 DEF Called, InUse
    <3>5. Left(p) > 0
      <4>0. node[p] \in NodeType /\ p \in Regular
        BY <1>0, <3>1, <3>3 DEF TypeOK, NodeType
      <4>1. /\ node[p].lo <= node[p].end_lo /\ node[p].end_lo - node[p].lo <= LeftLo(p)
            /\ node[p].hi <= node[p].end_hi /\ node[p].end_hi - node[p].hi <= LeftHi(p)
        BY <3>4, <4>0, AvailLeft
      <4>2. node[p].lo # node[p].end_lo \/ node[p].hi # node[p].end_hi
        BY <3>3 DEF LoAvail, HiAvail
      <4> QED BY <4>0, <4>1, <4>2, OwedFacts DEF NodeType
    <3>6. ASSUME NEW s \in Threads, In(s, Seeing, p)' PROVE FALSE
      <4>1. s # t /\ pc[s] \in Holding /\ at[s] = p
        BY <1>1, <1>4, <3>3, <3>6 DEF In, Seeing, Holding, Merging, OthersKeep
      <4>2. lock[p] = s
        BY <1>0, <3>1, <4>1 DEF LockInv
      <4>3. lock[p] = NoThread
        BY <3>2 DEF ParentFree
      <4> QED BY <4>2, <4>3, TreeFacts
    <3> QED BY <3>3, <3>4, <3>5, <3>6
  <2> QED BY <2>1, <2>2
<1> QED BY <1>1, <1>3, <1>4, <1>5, QuietCounts

\* pthread_create succeeds: the children get the lines of a node that nobody has used.
LEMMA CreateCounts ==
  ASSUME SafeInv, SeenInv', NEW t \in Threads, Create(t)
  PROVE  CountInv'
<1>a. PICK n, l, h : n = at[t] /\ l = Tree[n].lo_child /\ h = Tree[n].hi_child
  OBVIOUS
<1>0. TypeOK /\ QueueInv /\ LockInv /\ TypeOK' /\ LockInv'
  BY DEF SafeInv, SeenInv
<1>1. /\ pc[t] = "sortlines" /\ n \in Interior
      /\ SUBTHREAD_LINES_HEURISTIC <= node[n].nlo + node[n].nhi
      /\ pc' = [pc EXCEPT ![l] = "sortlines"] /\ at' = [at EXCEPT ![t] = h]
      /\ node' = node /\ m' = m /\ queued' = queued
  BY <1>a DEF Create, MaySplit, queueVars, tableVars
<1>2. /\ n \in Regular /\ l \in Threads /\ l \in Regular /\ h \in Regular /\ l # h
      /\ Parent(l) = n /\ Parent(h) = n /\ l # RootNode /\ h # RootNode
  BY <1>a, <1>1, TreeFacts
<1>3. /\ ~Split(n) /\ Called(n) /\ ~Sorted(n)
      /\ \A s \in Threads \ {t} : pc[s] # "none" => at[s] # n
  BY <1>a, <1>0, <1>1, <1>2, WorkerFacts
     DEF QueueInv, SortersAlone, Sorting, SafeInv, CountInv, SortersNew, In
<1>4. pc[l] = "none" /\ Idle(l) /\ Idle(h) /\ ~Split(l) /\ ~Split(h) /\ ~Called(l) /\ ~Called(h)
  <2>1. pc[l] = "none"
    BY <1>a, <1>1, <1>3 DEF Split
  <2>2. ~Called(l) /\ ~Called(h)
    BY <1>2, <1>3 DEF Called
  <2> QED BY <1>0, <1>2, <2>1, <2>2 DEF QueueInv, UncalledIdle
<1>5. /\ l # t /\ pc'[l] = "sortlines" /\ at'[l] = l /\ at'[t] = h /\ pc'[t] = "sortlines"
      /\ \A s \in Threads \ {t, l} : pc'[s] = pc[s] /\ at'[s] = at[s]
  BY <1>0, <1>1, <1>2, <1>4 DEF QueueInv, NotYetAtHome, TypeOK
<1>6. /\ Split(n)'
      /\ \A k \in Regular \ {n} : Split(k)' <=> Split(k)
  <2>1. \A k \in Interior : k # n => Tree[k].lo_child # l
    BY <1>2, TreeFacts
  <2>2. \A k \in Interior : Tree[k].lo_child \in Threads
    BY TreeFacts
  <2>3. Split(n)'
    BY <1>a, <1>1, <1>5 DEF Split
  <2> QED BY <1>0, <1>1, <2>1, <2>2, <2>3 DEF Split, TypeOK
<1>7. /\ \A k \in Regular : Called(k) => Called(k)'
      /\ \A k \in Regular : Called(k)' => Called(k) \/ k \in {l, h}
      /\ Called(l)' /\ Called(h)'
  <2>1. \A k \in Regular : k # RootNode => Parent(k) \in Regular
    BY ChildFacts
  <2>2. \A k \in Regular : k # RootNode /\ Parent(k) = n => k \in {l, h}
    BY <1>a, ChildFacts
  <2> QED BY <1>2, <1>6, <2>1, <2>2 DEF Called
<1>8. \A k \in Regular : /\ Sorted(k)' <=> Sorted(k)
                         /\ InUse(k) => InUse(k)'
  BY <1>1, <1>6 DEF Sorted, InUse
<1>9. \A k \in Regular : SameView(k)
  <2> SUFFICES ASSUME NEW k \in Regular PROVE SameView(k)
    OBVIOUS
  <2>1. \A s \in Threads : pc'[s] \in Merging /\ at'[s] = k <=> pc[s] \in Merging /\ at[s] = k
    BY <1>1, <1>4, <1>5 DEF Merging
  <2>2. Dest(k)' = Dest(k)
    BY <1>1 DEF Dest
  <2> QED BY <1>0, <1>1, <2>1, <2>2, ViewKept
<1>10. \A k \in Regular : Owed(k)' = Owed(k) /\ Left(k)' = Left(k)
  BY <1>9 DEF SameView, Owed, Left
<1>11. \A s \in Threads, k \in Regular :
         /\ In(s, Seeing, k)' <=> In(s, Seeing, k)
         /\ In(s, Merging, k)' <=> In(s, Merging, k)
         /\ In(s, Holding, k)' <=> In(s, Holding, k)
         /\ In(s, Sorting, k)' => In(s, Sorting, k) \/ k \in {l, h}
         /\ In(s, Merging, k)' => pc'[s] = pc[s]
  BY <1>1, <1>4, <1>5 DEF In, Seeing, Holding, Merging, Sorting
<1>12. ~Sorted(l) /\ ~Sorted(h)
  BY <1>2, <1>4 DEF SafeInv, CountInv, SortedApart
<1>13. CountsOK'
  <2> SUFFICES ASSUME NEW k \in Regular PROVE CountOK(k)'
    BY DEF CountsOK
  <2>1. CountOK(k) /\ SameView(k) /\ (Sorted(k)' <=> Sorted(k))
    BY <1>8, <1>9 DEF SafeInv, CountInv, CountsOK
  <2>2. CASE k # n
    <3>1. Split(k)' <=> Split(k)
      BY <1>6, <2>2
    <3>2. Split(k) => /\ Owed(Tree[k].lo_child)' = Owed(Tree[k].lo_child)
                      /\ Owed(Tree[k].hi_child)' = Owed(Tree[k].hi_child)
      BY <1>10, TreeFacts DEF Split
    <3> QED BY <1>1, <2>1, <3>1, <3>2 DEF CountOK, SameView
  <2>3. CASE k = n
    <3>1. node[n] = NewNode(n) /\ node[l] = NewNode(l) /\ node[h] = NewNode(h)
      BY <1>2, <1>3, <1>4, <1>12 DEF SafeInv, CountInv, UnusedNew, InUse
    <3>2. ASSUME NEW i \in {n, l, h}
          PROVE  LeftLo(i) = node[i].nlo /\ LeftHi(i) = node[i].nhi /\ NInFlight(i) = 0
      <4>1. \A s \in Threads : ~(pc[s] \in Merging /\ at[s] = i)
        BY <1>1, <1>3, <1>4, <3>2 DEF Merging, Idle
      <4> QED BY <1>0, <1>2, <3>2, <4>1, Views DEF Viewed
    <3>3. /\ LeftLo(n) = Tree[n].nlo /\ LeftHi(n) = Tree[n].nhi
          /\ LeftLo(l) = Tree[l].nlo /\ LeftHi(l) = Tree[l].nhi /\ NInFlight(l) = 0
          /\ LeftLo(h) = Tree[h].nlo /\ LeftHi(h) = Tree[h].nhi /\ NInFlight(h) = 0
          /\ node[n].end_lo = Tree[n].lo /\ node[n].lo = Tree[n].lo
          /\ node[n].end_hi = Tree[n].hi /\ node[n].hi = Tree[n].hi
      BY <3>1, <3>2 DEF NewNode
    <3>4. /\ Tree[l].nlo + Tree[l].nhi = Tree[n].nlo
          /\ Tree[h].nlo + Tree[h].nhi = Tree[n].nhi
          /\ {Tree[n].lo, Tree[n].hi, Tree[n].nlo, Tree[n].nhi,
              Tree[l].nlo, Tree[l].nhi, Tree[h].nlo, Tree[h].nhi} \subseteq Nat
      BY <1>a, <1>1, <1>2, SizeFacts
    <3>5. /\ LeftLo(n) = node[n].end_lo - node[n].lo + Owed(l)
          /\ LeftHi(n) = node[n].end_hi - node[n].hi + Owed(h)
      BY <3>3, <3>4 DEF Owed, Left
    <3>6. Owed(l)' = Owed(l) /\ Owed(h)' = Owed(h)
      BY <1>2, <1>10
    <3>7. /\ LeftLo(n)' = node'[n].end_lo - node'[n].lo + Owed(Tree[n].lo_child)'
          /\ LeftHi(n)' = node'[n].end_hi - node'[n].hi + Owed(Tree[n].hi_child)'
      BY <1>a, <1>1, <2>1, <2>3, <3>5, <3>6 DEF SameView
    <3> QED BY <1>1, <1>3, <2>1, <2>3, <3>7 DEF CountOK, SameView
  <2> QED BY <2>2, <2>3
<1>14. SeensOK'
  BY <1>1, <1>11 DEF SafeInv, CountInv, SeensOK, SeenOK
<1>15. MergesOK' /\ MergersOwe'
  <2> SUFFICES ASSUME NEW s \in Threads, NEW k \in Regular, In(s, Merging, k)'
               PROVE  MergeOK(s, k)' /\ (k # RootNode => Owed(k)' > 0)
    BY DEF MergesOK, MergersOwe
  <2>1. In(s, Merging, k) /\ pc'[s] = pc[s]
    BY <1>11
  <2>2. MergeOK(s, k) /\ (k # RootNode => Owed(k) > 0)
    BY <2>1 DEF SafeInv, CountInv, MergesOK, MergersOwe
  <2>3. Dest(k)' = Dest(k)
    BY <1>1 DEF Dest
  <2> QED BY <1>1, <1>10, <2>1, <2>2, <2>3 DEF MergeOK
<1>16. UnusedNew' /\ WorkersUse' /\ QueuedLeft'
  BY <1>1, <1>8, <1>10, <1>11
     DEF SafeInv, CountInv, UnusedNew, WorkersUse, QueuedLeft, NewNode
<1>17. SortedApart'
  BY <1>1, <1>3, <1>6, <1>7, <1>8 DEF SafeInv, CountInv, SortedApart
<1>18. CalledLarge'
  <2>1. node[n] = NewNode(n)
    BY <1>2, <1>3 DEF SafeInv, CountInv, UnusedNew, InUse
  <2>2. node[n].nlo = Tree[n].nlo /\ node[n].nhi = Tree[n].nhi
    BY <2>1 DEF NewNode
  <2>3. /\ Tree[n].nlo \in Nat /\ Tree[n].nhi \in Nat
        /\ Tree[n].nhi = Tree[n].nlo \/ Tree[n].nhi = Tree[n].nlo + 1
        /\ Tree[l].nlo + Tree[l].nhi = Tree[n].nlo
        /\ Tree[h].nlo + Tree[h].nhi = Tree[n].nhi
    BY <1>a, <1>1, <1>2, SizeFacts
  <2>4. Tree[l].nlo + Tree[l].nhi >= 2 /\ Tree[h].nlo + Tree[h].nhi >= 2
    BY <1>1, <2>2, <2>3, SizesAssumption
  <2> QED BY <1>7, <2>4 DEF SafeInv, CountInv, CalledLarge
<1>19. SortersNew'
  BY <1>8, <1>11, <1>12 DEF SafeInv, CountInv, SortersNew
<1> QED BY <1>13, <1>14, <1>15, <1>16, <1>17, <1>18, <1>19 DEF CountInv

\* The sorted lines of a leaf are what its node has.
LEMMA SortCounts ==
  ASSUME SafeInv, SeenInv', NEW t \in Threads, EndSort(t)
  PROVE  CountInv'
<1>a. PICK n, lines : n = at[t] /\ lines = LinesOf(n)
  OBVIOUS
<1>0. TypeOK /\ QueueInv /\ LockInv /\ TypeOK' /\ LockInv'
  BY DEF SafeInv, SeenInv
<1>1. /\ OthersKeep(t) /\ pc[t] = "sorting" /\ pc'[t] = "pop" /\ at'[t] = EndNode
      /\ m' = m /\ queued' = [queued EXCEPT ![n] = TRUE]
  BY <1>a, <1>0, ActionMoves DEF Moves, EndSort, queue_insert
<1>2. /\ n \in Regular /\ ~queued[n] /\ ~Split(n) /\ ~Sorted(n) /\ Called(n)
      /\ \A s \in Threads \ {t} : pc[s] # "none" => at[s] # n
  BY <1>a, <1>0, <1>1, WorkerFacts
     DEF QueueInv, SortersAlone, Sorting, SafeInv, CountInv, SortersNew, In
<1>3. node[n] = NewNode(n)
  BY <1>2 DEF SafeInv, CountInv, UnusedNew, InUse
<1>4. /\ node[n].nlo = Tree[n].nlo /\ node[n].nhi = Tree[n].nhi
      /\ {Tree[n].lo, Tree[n].nlo, Tree[n].nhi} \subseteq Nat
      /\ lines \in Int /\ lines + Tree[n].nlo < Tree[n].lo
  BY <1>a, <1>2, <1>3, LeafRegion, SizeFacts DEF NewNode
<1>5. /\ \A k \in Nodes \ {n} : node'[k] = node[k]
      /\ node'[n].lo = lines /\ node'[n].hi = lines + Tree[n].nlo
      /\ node'[n].end_lo = lines + Tree[n].nlo
      /\ node'[n].end_hi = lines + Tree[n].nlo + Tree[n].nhi
      /\ node'[n].nlo = node[n].nlo /\ node'[n].nhi = node[n].nhi
  <2> DEFINE mid == lines + Tree[n].nlo
  <2>1. /\ node' = [node EXCEPT ![n].lo = lines, ![n].hi = mid, ![n].end_lo = mid,
                                ![n].end_hi = mid + Tree[n].nhi]
        /\ node \in [Nodes -> NodeType] /\ n \in Nodes
    BY <1>a, <1>0, <1>2, <1>4, TreeFacts DEF EndSort, TypeOK, NodeType
  <2> HIDE DEF mid
  <2>2. /\ \A k \in Nodes \ {n} : node'[k] = node[k]
        /\ node'[n].lo = lines /\ node'[n].hi = mid
        /\ node'[n].end_lo = mid /\ node'[n].end_hi = mid + Tree[n].nhi
        /\ node'[n].nlo = node[n].nlo /\ node'[n].nhi = node[n].nhi
    BY <2>1 DEF NodeType
  <2> QED BY <2>2 DEF mid
<1>6. \A s \in Threads : ~In(s, Holding, n)
  BY <1>1, <1>2 DEF In, Holding, Merging
<1>7. \A s \in Threads, k \in Regular :
        /\ In(s, Sorting, k)' => In(s, Sorting, k) /\ k # n
        /\ In(s, Holding, k)' <=> In(s, Holding, k)
        /\ In(s, Seeing, k)'  <=> In(s, Seeing, k)
        /\ In(s, Merging, k)' <=> In(s, Merging, k)
        /\ In(s, Merging, k)' => pc'[s] = pc[s]
  <2> TAKE s \in Threads, k \in Regular
  <2>1. CASE s = t
    BY <1>1, <2>1 DEF In, Sorting, Holding, Seeing, Merging
  <2>2. CASE s # t
    BY <1>1, <1>2, <2>2 DEF OthersKeep, In, Sorting, Holding, Seeing, Merging
  <2> QED BY <2>1, <2>2
<1>8. /\ \A k \in Nodes : Split(k)' <=> Split(k)
      /\ \A k \in Regular : /\ Called(k)' <=> Called(k)
                            /\ k # n => (Sorted(k)' <=> Sorted(k))
                            /\ InUse(k) => InUse(k)'
      /\ Sorted(n)'
  <2>1. /\ \A k \in Nodes : Split(k)' <=> Split(k)
        /\ \A k \in Regular : Called(k)' <=> Called(k)
    BY <1>0, <1>1, OthersKept, TreeFacts
  <2>2. Sorted(n)'
    <3>1. lines < Tree[n].lo
      BY <1>4
    <3> QED BY <1>5, <3>1 DEF Sorted
  <2>3. \A k \in Regular : k # n => (Sorted(k)' <=> Sorted(k))
    BY <1>5, TreeFacts DEF Sorted
  <2> QED BY <2>1, <2>2, <2>3, TreeFacts DEF InUse
<1>9. \A s \in Threads, k \in Regular : In(s, Holding, k) => k # n /\ Dest(k)' = Dest(k)
  <2> SUFFICES ASSUME NEW s \in Threads, NEW k \in Regular, In(s, Holding, k)
               PROVE  k # n /\ Dest(k)' = Dest(k)
    OBVIOUS
  <2>1. k # n
    BY <1>6
  <2>2. CASE k = RootNode
    <3>1. Parent(k) = EndNode /\ EndNode \in Nodes /\ EndNode # n
      BY <1>2, <2>2, TreeFacts
    <3>2. node'[Parent(k)] = node[Parent(k)]
      BY <1>5, <3>1
    <3> QED BY <2>1, <3>2 DEF Dest
  <2>3. CASE k # RootNode
    <3>1. Called(k)
      <4>1. pc[s] # "none" /\ at[s] = k
        BY DEF In, Holding, Merging
      <4> QED BY <1>0, <4>1, WorkerFacts
    <3>2. Parent(k) # n /\ Parent(k) \in Nodes
      BY <1>2, <2>3, <3>1, ChildFacts, TreeFacts DEF Called
    <3>3. node'[Parent(k)] = node[Parent(k)]
      BY <1>5, <3>2
    <3> QED BY <2>1, <3>3 DEF Dest
  <2> QED BY <2>1, <2>2, <2>3
<1>10. \A k \in Regular : SameView(k)
  <2> SUFFICES ASSUME NEW k \in Regular PROVE SameView(k)
    OBVIOUS
  <2>1. CASE k # n
    <3>1. \A s \in Threads : pc'[s] \in Merging /\ at'[s] = k <=> pc[s] \in Merging /\ at[s] = k
      BY <1>7 DEF In
    <3>2. \A s \in Threads : pc[s] \in Merging /\ at[s] = k => m'[s] = m[s] /\ Dest(k)' = Dest(k)
      BY <1>1, <1>9 DEF In, Holding
    <3>3. node'[k] = node[k]
      BY <1>5, <2>1, TreeFacts
    <3> QED BY <1>0, <3>1, <3>2, <3>3, ViewKept
  <2>2. CASE k = n
    <3>1. \A s \in Threads : ~(pc[s] \in Merging /\ at[s] = n)
      BY <1>6 DEF In, Holding
    <3>2. \A s \in Threads : ~(pc'[s] \in Merging /\ at'[s] = n)
      BY <1>2, <1>7, <3>1 DEF In
    <3>3. Viewed(n) /\ Viewed(n)'
      BY <1>0, <1>2, Views, ViewsNext
    <3> QED BY <1>5, <2>2, <3>1, <3>2, <3>3 DEF Viewed, SameView
  <2> QED BY <2>1, <2>2
<1>11. \A k \in Regular : Owed(k)' = Owed(k) /\ Left(k)' = Left(k)
  BY <1>10 DEF SameView, Owed, Left
<1>12. LeftLo(n) = Tree[n].nlo /\ LeftHi(n) = Tree[n].nhi
  <2>1. \A s \in Threads : ~(pc[s] \in Merging /\ at[s] = n)
    BY <1>6 DEF In, Holding
  <2> QED BY <1>0, <1>2, <1>4, <2>1, Views DEF Viewed
<1>13. CountsOK'
  <2> SUFFICES ASSUME NEW k \in Regular PROVE CountOK(k)'
    BY DEF CountsOK
  <2>1. CountOK(k) /\ SameView(k) /\ (Split(k)' <=> Split(k))
    BY <1>8, <1>10, TreeFacts DEF SafeInv, CountInv, CountsOK
  <2>2. CASE k # n
    <3>1. node'[k] = node[k] /\ (Sorted(k)' <=> Sorted(k))
      BY <1>5, <1>8, <2>2, TreeFacts
    <3>2. Split(k) => /\ Owed(Tree[k].lo_child)' = Owed(Tree[k].lo_child)
                      /\ Owed(Tree[k].hi_child)' = Owed(Tree[k].hi_child)
      BY <1>11, TreeFacts DEF Split
    <3> QED BY <2>1, <3>1, <3>2 DEF CountOK, SameView
  <2>3. CASE k = n
    BY <1>2, <1>4, <1>5, <1>12, <2>1, <2>3 DEF CountOK, SameView
  <2> QED BY <2>2, <2>3
<1>14. SeensOK'
  <2> SUFFICES ASSUME NEW s \in Threads, NEW k \in Regular, In(s, Seeing, k)'
               PROVE  SeenOK(s, k)' /\ ~queued'[k]
    BY DEF SeensOK
  <2>1. In(s, Seeing, k) /\ k # n
    BY <1>6, <1>7 DEF In, Seeing, Holding
  <2>2. SeenOK(s, k) /\ ~queued[k] /\ node'[k] = node[k] /\ queued'[k] = queued[k]
    BY <1>0, <1>1, <1>5, <2>1, TreeFacts DEF SafeInv, CountInv, SeensOK, TypeOK
  <2> QED BY <1>1, <2>2 DEF SeenOK
<1>15. MergesOK' /\ MergersOwe'
  <2> SUFFICES ASSUME NEW s \in Threads, NEW k \in Regular, In(s, Merging, k)'
               PROVE  MergeOK(s, k)' /\ (k # RootNode => Owed(k)' > 0)
    BY DEF MergesOK, MergersOwe
  <2>1. In(s, Merging, k) /\ pc'[s] = pc[s]
    BY <1>7
  <2>2. MergeOK(s, k) /\ (k # RootNode => Owed(k) > 0)
    BY <2>1 DEF SafeInv, CountInv, MergesOK, MergersOwe
  <2>3. Dest(k)' = Dest(k) /\ node'[k] = node[k]
    <3>1. In(s, Holding, k)
      BY <2>1 DEF In, Holding
    <3> QED BY <1>5, <1>9, <3>1, TreeFacts
  <2> QED BY <1>1, <1>11, <2>1, <2>2, <2>3 DEF MergeOK
<1>16. UnusedNew'
  <2> SUFFICES ASSUME NEW k \in Regular, ~InUse(k)' PROVE node'[k] = NewNode(k)
    BY DEF UnusedNew, NewNode
  <2>1. k # n /\ ~InUse(k)
    BY <1>8 DEF InUse
  <2> QED BY <1>5, <2>1, TreeFacts DEF SafeInv, CountInv, UnusedNew
<1>17. SortedApart'
  <2> SUFFICES ASSUME NEW k \in Regular, Sorted(k)'
               PROVE  Called(k)' /\ ~Split(k)' /\ node'[k].end_lo < Tree[k].lo
    BY DEF SortedApart
  <2>1. CASE k = n
    BY <1>2, <1>4, <1>5, <1>8, <2>1, TreeFacts
  <2>2. CASE k # n
    BY <1>5, <1>8, <2>2, TreeFacts DEF SafeInv, CountInv, SortedApart
  <2> QED BY <2>1, <2>2
<1>18. CalledLarge' /\ SortersNew' /\ WorkersUse'
  BY <1>7, <1>8 DEF SafeInv, CountInv, CalledLarge, SortersNew, WorkersUse
<1>19. QueuedLeft'
  <2> SUFFICES ASSUME NEW k \in Regular, queued'[k] PROVE InUse(k)' /\ Left(k)' > 0
    BY DEF QueuedLeft
  <2>1. CASE k = n
    <3>1. Tree[n].nlo + Tree[n].nhi >= 2
      BY <1>2 DEF SafeInv, CountInv, CalledLarge
    <3>2. Left(n) = Tree[n].nlo + Tree[n].nhi
      BY <1>12 DEF Left
    <3> QED BY <1>2, <1>4, <1>8, <1>11, <2>1, <3>1, <3>2 DEF InUse
  <2>2. CASE k # n
    <3>1. queued[k]
      BY <1>0, <1>1, <2>2, TreeFacts DEF TypeOK
    <3> QED BY <1>8, <1>11, <3>1 DEF SafeInv, CountInv, QueuedLeft
  <2> QED BY <2>1, <2>2
<1> QED BY <1>13, <1>14, <1>15, <1>16, <1>17, <1>18, <1>19 DEF CountInv

\* What a merging thread finds as its ends is at or beyond its pointers.
LEMMA EndsFacts ==
  ASSUME SafeInv, NEW t \in Threads, NEW n \in Regular, In(t, Merging, n), NEW e \in Ends(t)
  PROVE  /\ e[1] \in Int /\ node[n].lo <= e[1] /\ e[1] <= node[n].end_lo
         /\ e[2] \in Int /\ node[n].hi <= e[2] /\ e[2] <= node[n].end_hi
         /\ LoAvail(n, e) => LeftLo(n) > 0
         /\ HiAvail(n, e) => LeftHi(n) > 0
<1>1. e[1] \in {m[t].end_lo, node[n].end_lo} /\ e[2] \in {m[t].end_hi, node[n].end_hi}
  BY DEF In, Ends
<1>2. m[t] \in LocalsType /\ node[n] \in NodeType
  BY TreeFacts DEF SafeInv, SeenInv, TypeOK, LocalsType, NodeType
<1>3. SeenOK(t, n) /\ InUse(n)
  BY DEF SafeInv, CountInv, SeensOK, WorkersUse, In, Seeing, Holding
<1>4. /\ node[n].lo <= node[n].end_lo /\ node[n].end_lo - node[n].lo <= LeftLo(n)
      /\ node[n].hi <= node[n].end_hi /\ node[n].end_hi - node[n].hi <= LeftHi(n)
      /\ LeftLo(n) \in Nat /\ LeftHi(n) \in Nat
  BY <1>3, AvailLeft, OwedFacts
<1>5. /\ e[1] \in Int /\ node[n].lo <= e[1] /\ e[1] <= node[n].end_lo
      /\ e[2] \in Int /\ node[n].hi <= e[2] /\ e[2] <= node[n].end_hi
  BY <1>1, <1>2, <1>3, <1>4 DEF SeenOK, LocalsType, NodeType
<1>6. LoAvail(n, e) => LeftLo(n) > 0
  <2>1. LoAvail(n, e) => node[n].end_lo - node[n].lo > 0
    BY <1>2, <1>5 DEF LoAvail, NodeType
  <2> QED BY <1>2, <1>4, <2>1 DEF NodeType
<1>7. HiAvail(n, e) => LeftHi(n) > 0
  <2>1. HiAvail(n, e) => node[n].end_hi - node[n].hi > 0
    BY <1>2, <1>5 DEF HiAvail, NodeType
  <2> QED BY <1>2, <1>4, <2>1 DEF NodeType
<1> QED BY <1>5, <1>6, <1>7

\* A line moves from a node to what its thread has merged.
LEMMA MoveCounts ==
  ASSUME SafeInv, SeenInv', NEW t \in Threads, NEW n \in Regular, at[t] = n,
         pc[t] \in Merging \ {"store"}, UNCHANGED <<pc, at, queued>>,
         NEW fromLo \in BOOLEAN, NEW e \in Ends(t), Move(t, fromLo, e), m[t].to_merge > 0,
         IF fromLo THEN LoAvail(n, e) ELSE HiAvail(n, e)
  PROVE  CountInv'
<1>0. TypeOK /\ QueueInv /\ LockInv /\ TypeOK' /\ LockInv'
  BY DEF SafeInv, SeenInv
<1>1. /\ node[n] \in NodeType /\ m[t] \in LocalsType /\ n \in Nodes
      /\ node \in [Nodes -> NodeType] /\ m \in [Threads -> LocalsType]
  <2>1. node \in [Nodes -> NodeType] /\ m \in [Threads -> LocalsType]
    BY <1>0 DEF TypeOK, NodeType, LocalsType
  <2>2. n \in Nodes
    BY TreeFacts
  <2> QED BY <2>1, <2>2
<1>2. In(t, Merging, n) /\ In(t, Seeing, n) /\ In(t, Holding, n)
  BY DEF In, Seeing, Holding
<1>3. /\ SeenOK(t, n) /\ MergeOK(t, n) /\ ~queued[n] /\ InUse(n) /\ CountOK(n)
      /\ n # RootNode => Owed(n) > 0
  BY <1>2 DEF SafeInv, CountInv, SeensOK, MergesOK, MergersOwe, WorkersUse, CountsOK
<1> DEFINE lo == IF fromLo THEN 1 ELSE 0
           hi == IF fromLo THEN 0 ELSE 1
<1>4. lo \in {0, 1} /\ hi \in {0, 1} /\ lo + hi = 1
  OBVIOUS
<1>5. /\ node'[n].lo = node[n].lo + lo /\ node'[n].hi = node[n].hi + hi
      /\ node'[n].end_lo = node[n].end_lo /\ node'[n].end_hi = node[n].end_hi
      /\ node'[n].nlo = node[n].nlo /\ node'[n].nhi = node[n].nhi
      /\ \A k \in Nodes \ {n} : node'[k] = node[k]
  BY <1>1 DEF Move, NodeType
<1>6. /\ m'[t].lo = m[t].lo /\ m'[t].hi = m[t].hi
      /\ m'[t].end_lo = e[1] /\ m'[t].end_hi = e[2]
      /\ m'[t].to_merge = m[t].to_merge - 1 /\ m'[t].dest = m[t].dest + 1
      /\ \A s \in Threads \ {t} : m'[s] = m[s]
  BY <1>1 DEF Move, Seen, LocalsType
<1>7. /\ lo = 1 => LoAvail(n, e)
      /\ hi = 1 => HiAvail(n, e)
  OBVIOUS
<1> HIDE DEF lo, hi
<1>8. \A k \in Regular : Dest(k)' = Dest(k)
  <2> SUFFICES ASSUME NEW k \in Regular PROVE Dest(k)' = Dest(k)
    OBVIOUS
  <2>1. Parent(k) \in Nodes
    BY TreeFacts
  <2>2. /\ node'[Parent(k)].end_lo = node[Parent(k)].end_lo
        /\ node'[Parent(k)].end_hi = node[Parent(k)].end_hi
    BY <1>5, <2>1
  <2> QED BY <2>2 DEF Dest
<1>9. /\ LeftLo(n)' = LeftLo(n) - lo /\ LeftHi(n)' = LeftHi(n) - hi
      /\ NInFlight(n)' = IF n = RootNode THEN NInFlight(n) ELSE NInFlight(n) + 1
  <2>1. Viewed(n) /\ Viewed(n)'
    BY <1>0, Views, ViewsNext
  <2>2. pc[t] \in Merging /\ at[t] = n /\ pc'[t] \in Merging /\ at'[t] = n
    OBVIOUS
  <2>3. /\ LeftLo(n) = node[n].nlo - (node[n].lo - m[t].lo)
        /\ LeftHi(n) = node[n].nhi - (node[n].hi - m[t].hi)
        /\ NInFlight(n) = IF n = RootNode THEN 0 ELSE m[t].dest - Dest(n)
    BY <2>1, <2>2 DEF Viewed
  <2>4. /\ LeftLo(n)' = node'[n].nlo - (node'[n].lo - m'[t].lo)
        /\ LeftHi(n)' = node'[n].nhi - (node'[n].hi - m'[t].hi)
        /\ NInFlight(n)' = IF n = RootNode THEN 0 ELSE m'[t].dest - Dest(n)'
    BY <2>1, <2>2 DEF Viewed
  <2>5. n # RootNode => Dest(n) \in Int
    BY <1>0, DestType
  <2>6. LeftLo(n)' = LeftLo(n) - lo /\ LeftHi(n)' = LeftHi(n) - hi
    BY <1>1, <1>4, <1>5, <1>6, <2>3, <2>4 DEF NodeType, LocalsType
  <2>7. NInFlight(n)' = IF n = RootNode THEN NInFlight(n) ELSE NInFlight(n) + 1
    BY <1>1, <1>6, <1>8, <2>3, <2>4, <2>5 DEF LocalsType
  <2> QED BY <2>6, <2>7
<1>10. \A k \in Regular \ {n} : SameView(k)
  <2> SUFFICES ASSUME NEW k \in Regular \ {n} PROVE SameView(k)
    OBVIOUS
  <2>1. \A s \in Threads : pc[s] \in Merging /\ at[s] = k => m'[s] = m[s]
    BY <1>6
  <2>2. node'[k] = node[k]
    BY <1>5, TreeFacts
  <2> QED BY <1>0, <1>8, <2>1, <2>2, ViewKept
<1>11. /\ \A k \in Regular \ {n} : Owed(k)' = Owed(k) /\ Left(k)' = Left(k)
       /\ n # RootNode => Owed(n)' = Owed(n)
  <2>1. \A k \in Regular \ {n} : Owed(k)' = Owed(k) /\ Left(k)' = Left(k)
    BY <1>10 DEF SameView, Owed, Left
  <2>2. LeftLo(n) \in Nat /\ LeftHi(n) \in Nat /\ NInFlight(n) \in Nat
    BY OwedFacts
  <2>3. n # RootNode => Owed(n)' = Owed(n)
    BY <1>4, <1>9, <2>2 DEF Owed, Left
  <2> QED BY <2>1, <2>3
<1>12. /\ node[n].lo + lo <= e[1] /\ e[1] <= node[n].end_lo /\ e[1] \in Int
       /\ node[n].hi + hi <= e[2] /\ e[2] <= node[n].end_hi /\ e[2] \in Int
       /\ LeftLo(n) >= lo /\ LeftHi(n) >= hi
  <2>1. /\ e[1] \in Int /\ node[n].lo <= e[1] /\ e[1] <= node[n].end_lo
        /\ e[2] \in Int /\ node[n].hi <= e[2] /\ e[2] <= node[n].end_hi
        /\ LoAvail(n, e) => LeftLo(n) > 0
        /\ HiAvail(n, e) => LeftHi(n) > 0
    BY <1>2, EndsFacts
  <2>2. LeftLo(n) \in Nat /\ LeftHi(n) \in Nat
    BY OwedFacts
  <2>3. node[n].lo + lo <= e[1] /\ LeftLo(n) >= lo
    <3>1. CASE lo = 0
      BY <1>1, <2>1, <2>2, <3>1 DEF NodeType
    <3>2. CASE lo = 1
      BY <1>1, <1>7, <2>1, <2>2, <3>2 DEF LoAvail, NodeType
    <3> QED BY <1>4, <3>1, <3>2
  <2>4. node[n].hi + hi <= e[2] /\ LeftHi(n) >= hi
    <3>1. CASE hi = 0
      BY <1>1, <2>1, <2>2, <3>1 DEF NodeType
    <3>2. CASE hi = 1
      BY <1>1, <1>7, <2>1, <2>2, <3>2 DEF HiAvail, NodeType
    <3> QED BY <1>4, <3>1, <3>2
  <2> QED BY <2>1, <2>3, <2>4
<1>13. /\ \A k \in Nodes : Split(k)' <=> Split(k)
       /\ \A k \in Regular : /\ Called(k)' <=> Called(k)
                             /\ Sorted(k)' <=> Sorted(k)
                             /\ InUse(k)' <=> InUse(k)
  <2>1. \A k \in Nodes : Split(k)' <=> Split(k)
    BY DEF Split
  <2>2. \A k \in Regular : Called(k)' <=> Called(k)
    BY <2>1, TreeFacts DEF Called
  <2>3. Sorted(n)' <=> Sorted(n)
    <3>1. Tree[n].lo \in Nat
      BY SizeFacts
    <3>2. CASE Sorted(n)
      <4>1. node[n].end_lo < Tree[n].lo
        BY <3>2 DEF SafeInv, CountInv, SortedApart
      <4> QED BY <1>1, <1>4, <1>5, <1>12, <3>1, <3>2, <4>1 DEF Sorted, NodeType
    <3>3. CASE ~Sorted(n)
      BY <1>1, <1>4, <1>5, <3>1, <3>3 DEF Sorted, NodeType
    <3> QED BY <3>2, <3>3
  <2>4. \A k \in Regular \ {n} : Sorted(k)' <=> Sorted(k)
    BY <1>5, TreeFacts DEF Sorted
  <2>5. \A k \in Regular : Sorted(k)' <=> Sorted(k)
    BY <2>3, <2>4
  <2> QED BY <2>1, <2>2, <2>5, TreeFacts DEF InUse
<1>14. \A s \in Threads, k \in Regular :
         /\ In(s, Sorting, k)' <=> In(s, Sorting, k)
         /\ In(s, Holding, k)' <=> In(s, Holding, k)
         /\ In(s, Seeing, k)'  <=> In(s, Seeing, k)
         /\ In(s, Merging, k)' <=> In(s, Merging, k)
  BY DEF In
<1>15. CountsOK'
  <2> SUFFICES ASSUME NEW k \in Regular PROVE CountOK(k)'
    BY DEF CountsOK
  <2>1. CountOK(k) /\ (Split(k)' <=> Split(k)) /\ (Sorted(k)' <=> Sorted(k))
    BY <1>13, TreeFacts DEF SafeInv, CountInv, CountsOK
  <2>2. Split(k) => /\ Owed(Tree[k].lo_child)' = Owed(Tree[k].lo_child)
                    /\ Owed(Tree[k].hi_child)' = Owed(Tree[k].hi_child)
    <3> SUFFICES ASSUME NEW c \in Regular \ {RootNode} PROVE Owed(c)' = Owed(c)
      BY TreeFacts DEF Split
    <3> QED BY <1>11
  <2>3. CASE k # n
    <3>1. node'[k] = node[k]
      BY <1>5, <2>3, TreeFacts
    <3> QED BY <1>10, <2>1, <2>2, <2>3, <3>1 DEF CountOK, SameView
  <2>4. CASE k = n
    <3>1. LeftLo(n) \in Nat /\ LeftHi(n) \in Nat
      BY OwedFacts
    <3>2. Split(n) => Owed(Tree[n].lo_child) \in Nat /\ Owed(Tree[n].hi_child) \in Nat
      BY OwedFacts, TreeFacts DEF Split
    <3>3. LeftLo(n)' >= 0 /\ LeftHi(n)' >= 0
      BY <1>4, <1>9, <1>12, <3>1
    <3>4. node'[n].lo <= node'[n].end_lo /\ node'[n].hi <= node'[n].end_hi
      BY <1>1, <1>4, <1>5, <1>12 DEF NodeType
    <3>5. Split(n)' => /\ LeftLo(n)' = node'[n].end_lo - node'[n].lo + Owed(Tree[n].lo_child)'
                       /\ LeftHi(n)' = node'[n].end_hi - node'[n].hi + Owed(Tree[n].hi_child)'
      BY <1>1, <1>4, <1>5, <1>9, <2>1, <2>2, <2>4, <3>1, <3>2 DEF CountOK, NodeType
    <3>6. Sorted(n)' => /\ LeftLo(n)' = node'[n].end_lo - node'[n].lo
                        /\ LeftHi(n)' = node'[n].end_hi - node'[n].hi
      BY <1>1, <1>4, <1>5, <1>9, <2>1, <2>4, <3>1 DEF CountOK, NodeType
    <3> QED BY <2>4, <3>3, <3>4, <3>5, <3>6 DEF CountOK
  <2> QED BY <2>3, <2>4
<1>16. SeensOK'
  <2> SUFFICES ASSUME NEW s \in Threads, NEW k \in Regular, In(s, Seeing, k)'
               PROVE  SeenOK(s, k)' /\ ~queued'[k]
    BY DEF SeensOK
  <2>1. In(s, Seeing, k) /\ SeenOK(s, k) /\ ~queued'[k]
    BY <1>14 DEF SafeInv, CountInv, SeensOK
  <2>2. CASE s = t
    <3>1. k = n
      BY <2>1, <2>2 DEF In
    <3> QED BY <1>5, <1>6, <1>12, <2>1, <2>2, <3>1 DEF SeenOK
  <2>3. CASE s # t
    <3>1. k # n
      <4>1. pc[s] \in Holding /\ pc[t] \in Holding
        BY <1>2, <2>1 DEF In, Seeing, Holding
      <4> QED BY <1>0, <2>1, <2>3, <4>1, OnlyHolder DEF In
    <3>2. node'[k] = node[k] /\ m'[s] = m[s]
      BY <1>5, <1>6, <2>3, <3>1, TreeFacts
    <3> QED BY <2>1, <3>2 DEF SeenOK
  <2> QED BY <2>2, <2>3
<1>17. MergesOK' /\ MergersOwe'
  <2> SUFFICES ASSUME NEW s \in Threads, NEW k \in Regular, In(s, Merging, k)'
               PROVE  MergeOK(s, k)' /\ (k # RootNode => Owed(k)' > 0)
    BY DEF MergesOK, MergersOwe
  <2>1. In(s, Merging, k) /\ MergeOK(s, k) /\ (k # RootNode => Owed(k) > 0)
    BY <1>14 DEF SafeInv, CountInv, MergesOK, MergersOwe
  <2>2. k # RootNode => Owed(k)' > 0
    BY <1>11, <2>1
  <2>3. CASE s = t
    <3>1. k = n
      BY <2>1, <2>3 DEF In
    <3> DEFINE max == MAX_MERGE(NLines, Level(n))
               moved == (node[n].lo - m[t].lo) + (node[n].hi - m[t].hi)
               next == (node'[n].lo - m'[t].lo) + (node'[n].hi - m'[t].hi)
    <3>2. max \in Nat
      BY <1>1, MergeAssumption
    <3> HIDE DEF max
    <3>3. moved + m[t].to_merge = max /\ moved \in Int
      BY <1>1, <2>1, <2>3, <3>1 DEF MergeOK, max, NodeType, LocalsType
    <3>4. next = moved + 1
      BY <1>1, <1>4, <1>5, <1>6, SMTT(30) DEF NodeType, LocalsType
    <3> HIDE DEF moved, next
    <3>5. next <= max /\ next + m'[t].to_merge = max
      BY <1>1, <1>6, <3>2, <3>3, <3>4 DEF LocalsType
    <3>6. n # RootNode => m'[t].dest >= Dest(n)'
      <4>1. n # RootNode => Dest(n) \in Int /\ m[t].dest >= Dest(n)
        BY <1>0, <1>3, DestType DEF MergeOK
      <4> QED BY <1>1, <1>6, <1>8, <4>1 DEF LocalsType
    <3> QED BY <2>2, <2>3, <3>1, <3>5, <3>6 DEF MergeOK, max, next
  <2>4. CASE s # t
    <3>1. k # n
      <4>1. pc[s] \in Holding /\ pc[t] \in Holding
        BY <1>2, <2>1 DEF In, Seeing, Holding
      <4> QED BY <1>0, <2>1, <2>4, <4>1, OnlyHolder DEF In
    <3>2. node'[k] = node[k] /\ m'[s] = m[s]
      BY <1>5, <1>6, <2>4, <3>1, TreeFacts
    <3> QED BY <1>8, <2>1, <2>2, <3>2 DEF MergeOK
  <2> QED BY <2>3, <2>4
<1>18. UnusedNew' /\ SortedApart'
  <2>1. ASSUME NEW k \in Regular, ~InUse(k)' PROVE node'[k] = NewNode(k)
    <3>1. ~InUse(k) /\ k # n
      BY <1>3, <1>13, <2>1
    <3> QED BY <1>5, <3>1, TreeFacts DEF SafeInv, CountInv, UnusedNew
  <2>2. ASSUME NEW k \in Regular, Sorted(k)'
        PROVE  Called(k)' /\ ~Split(k)' /\ node'[k].end_lo < Tree[k].lo
    <3>1. node'[k].end_lo = node[k].end_lo
      BY <1>5, TreeFacts
    <3> QED BY <1>13, <2>2, <3>1, TreeFacts DEF SafeInv, CountInv, SortedApart
  <2> QED BY <2>1, <2>2 DEF UnusedNew, SortedApart, NewNode
<1>19. CalledLarge' /\ SortersNew' /\ WorkersUse'
  BY <1>13, <1>14 DEF SafeInv, CountInv, CalledLarge, SortersNew, WorkersUse
<1>20. QueuedLeft'
  BY <1>3, <1>11, <1>13 DEF SafeInv, CountInv, QueuedLeft
<1> QED BY <1>15, <1>16, <1>17, <1>18, <1>19, <1>20 DEF CountInv

\* The end of a loop of mergelines_node, at which the thread has read its ends once more.
LEMMA ExitCounts ==
  ASSUME SafeInv, SeenInv', NEW t \in Threads, NEW n \in Regular, In(t, Merging, n),
         OthersKeep(t), UNCHANGED <<node, at, queued>>, pc'[t] \in Merging,
         NEW e \in Ends(t),
         m'[t].lo = m[t].lo, m'[t].hi = m[t].hi, m'[t].dest = m[t].dest,
         m'[t].end_lo = e[1], m'[t].end_hi = e[2],
         pc'[t] # "store" => pc[t] # "store" /\ m'[t].to_merge = m[t].to_merge,
         \A s \in Threads \ {t} : m'[s] = m[s]
  PROVE  CountInv'
<1>0. TypeOK /\ QueueInv /\ LockInv /\ TypeOK' /\ LockInv'
  BY DEF SafeInv, SeenInv
<1>1. at[t] = n /\ at'[t] = n /\ pc[t] \in Merging
  BY DEF In
<1>2. In(t, Seeing, n) /\ In(t, Holding, n)
  BY <1>1 DEF In, Seeing, Holding
<1>3. /\ MergeOK(t, n) /\ ~queued[n] /\ InUse(n) /\ (n # RootNode => Owed(n) > 0)
  BY <1>2 DEF SafeInv, CountInv, SeensOK, MergesOK, MergersOwe, WorkersUse
<1>4. \A k \in Regular : Dest(k)' = Dest(k)
  BY DEF Dest
<1>5. \A k \in Regular : SameView(k)
  <2> SUFFICES ASSUME NEW k \in Regular PROVE SameView(k)
    OBVIOUS
  <2>1. \A s \in Threads : pc'[s] \in Merging /\ at'[s] = k <=> pc[s] \in Merging /\ at[s] = k
    BY <1>1 DEF OthersKeep, Merging
  <2>2. \A s \in Threads : m'[s].lo = m[s].lo /\ m'[s].hi = m[s].hi /\ m'[s].dest = m[s].dest
    OBVIOUS
  <2> QED BY <1>0, <1>4, <2>1, <2>2, ViewKept
<1>6. \A k \in Regular : /\ ~In(t, Sorting, k)'
                         /\ In(t, Holding, k)' => k = n
                         /\ In(t, Seeing, k)' => k = n
                         /\ In(t, Merging, k)' => k = n
  BY <1>1 DEF In, Sorting, Merging
<1>7. SeenOK(t, n)'
  BY EndsFacts DEF SeenOK
<1>8. MergeOK(t, n)'
  <2>1. n # RootNode => m'[t].dest >= Dest(n)'
    BY <1>3, <1>4 DEF MergeOK
  <2> QED BY <1>3, <2>1 DEF MergeOK
<1> QED BY <1>3, <1>5, <1>6, <1>7, <1>8, QuietCounts

LEMMA LoopCounts ==
  ASSUME SafeInv, SeenInv', NEW t \in Threads, Merge(t) \/ Drain(t)
  PROVE  CountInv'
<1>a. PICK n : n = at[t]
  OBVIOUS
<1>0. TypeOK /\ QueueInv /\ LockInv /\ TypeOK' /\ LockInv' /\ m \in [Threads -> LocalsType]
  BY DEF SafeInv, SeenInv, TypeOK, LocalsType
<1>1. /\ OthersKeep(t) /\ pc[t] \in Merging \ {"store"} /\ pc'[t] \in Merging
      /\ UNCHANGED <<at, queued>>
  <2>1. CASE Merge(t)
    BY <1>0, <2>1, ActionMoves DEF Moves, Merge, Merging, queueVars
  <2>2. CASE Drain(t)
    BY <1>0, <2>2, ActionMoves DEF Moves, Drain, Merging, queueVars
  <2> QED BY <2>1, <2>2
<1>2. n \in Regular /\ In(t, Merging, n)
  BY <1>a, <1>0, <1>1 DEF LockInv, Holding, In
<1>3. ASSUME NEW e \in Ends(t), node' = node,
             \/ m' = Seen(t, e)
             \/ m' = [Seen(t, e) EXCEPT ![t].to_merge = SIZE_MAX] /\ pc'[t] = "store"
      PROVE  CountInv'
  <2>1. /\ m'[t].lo = m[t].lo /\ m'[t].hi = m[t].hi /\ m'[t].dest = m[t].dest
        /\ m'[t].end_lo = e[1] /\ m'[t].end_hi = e[2]
        /\ pc'[t] # "store" => m'[t].to_merge = m[t].to_merge
        /\ \A s \in Threads \ {t} : m'[s] = m[s]
    BY <1>0, <1>3 DEF Seen, LocalsType
  <2> QED BY <1>1, <1>2, <1>3, <2>1, ExitCounts
<1>4. ASSUME NEW fromLo \in BOOLEAN, NEW e \in Ends(t), Move(t, fromLo, e), UNCHANGED pc,
             m[t].to_merge > 0, IF fromLo THEN LoAvail(n, e) ELSE HiAvail(n, e)
      PROVE  CountInv'
  BY <1>a, <1>1, <1>2, <1>4, MoveCounts
<1>5. CASE Merge(t)
  <2>1. PICK e \in Ends(t) :
         \/ /\ LoAvail(n, e) /\ HiAvail(n, e) /\ m[t].to_merge > 0
            /\ Move(t, TakeLo(n), e) /\ UNCHANGED pc
         \/ /\ LoAvail(n, e) /\ HiAvail(n, e)
            /\ m' = [Seen(t, e) EXCEPT ![t].to_merge = SIZE_MAX]
            /\ Goto(t, AfterLoop(t)) /\ node' = node
         \/ m' = Seen(t, e) /\ node' = node
    BY <1>a, <1>5 DEF Merge, tableVars
  <2>2. CASE LoAvail(n, e) /\ HiAvail(n, e) /\ m[t].to_merge > 0 /\ Move(t, TakeLo(n), e) /\ UNCHANGED pc
    <3>1. TakeLo(n) \in BOOLEAN
      BY DEF TakeLo
    <3> QED BY <1>4, <2>2, <3>1
  <2>3. CASE /\ LoAvail(n, e) /\ HiAvail(n, e)
             /\ m' = [Seen(t, e) EXCEPT ![t].to_merge = SIZE_MAX]
             /\ Goto(t, AfterLoop(t)) /\ node' = node
    <3>1. LeftLo(n) > 0 /\ LeftHi(n) > 0 /\ LeftLo(n) \in Nat /\ LeftHi(n) \in Nat
      BY <1>2, <2>3, EndsFacts, OwedFacts
    <3>2. /\ LeftLo(n) = node[n].nlo - (node[n].lo - m[t].lo)
          /\ LeftHi(n) = node[n].nhi - (node[n].hi - m[t].hi)
      <4>1. Viewed(n)
        BY <1>0, <1>2, Views
      <4> QED BY <1>2, <4>1 DEF Viewed, In
    <3>3. node[n] \in NodeType /\ m[t] \in LocalsType
      BY <1>0, <1>2, TreeFacts DEF TypeOK, NodeType
    <3>4. /\ node[n].nhi # node[n].hi - m[t].hi
          /\ node[n].nlo # node[n].lo - m[t].lo
      BY <3>1, <3>2, <3>3 DEF NodeType, LocalsType
    <3>5. AfterLoop(t) = "store"
      BY <1>a, <3>4 DEF AfterLoop
    <3>6. pc'[t] = "store"
      BY <1>0, <2>3, <3>5 DEF Goto, TypeOK
    <3> QED BY <1>3, <2>3, <3>6
  <2>4. CASE m' = Seen(t, e) /\ node' = node
    BY <1>3, <2>4
  <2> QED BY <2>1, <2>2, <2>3, <2>4
<1>6. CASE Drain(t)
  <2> DEFINE fromLo == pc[t] = "drainlo"
  <2>1. PICK e \in Ends(t) :
         \/ /\ IF fromLo THEN LoAvail(n, e) ELSE HiAvail(n, e)
            /\ m[t].to_merge > 0 /\ Move(t, fromLo, e) /\ UNCHANGED pc
         \/ m' = Seen(t, e) /\ node' = node
    BY <1>a, <1>6 DEF Drain, tableVars
  <2>2. fromLo \in BOOLEAN
    OBVIOUS
  <2> HIDE DEF fromLo
  <2> QED BY <1>3, <1>4, <2>1, <2>2
<1> QED BY <1>5, <1>6

\* The merged lines become available to the parent; the counts of what is left change
\* only in how they are written down.
LEMMA StoreCounts ==
  ASSUME SafeInv, SeenInv', NEW t \in Threads, StoreDest(t)
  PROVE  CountInv'
<1>a. PICK n, p : n = at[t] /\ p = Parent(n)
  OBVIOUS
<1>0. TypeOK /\ QueueInv /\ LockInv /\ TypeOK' /\ LockInv'
  BY DEF SafeInv, SeenInv
<1>1. /\ OthersKeep(t) /\ pc[t] = "store" /\ pc'[t] = "check" /\ at' = at
      /\ m' = m /\ queued' = queued
  BY <1>a, <1>0, ActionMoves DEF Moves, StoreDest, queueVars
<1>2. /\ n \in Regular /\ n \in Nodes /\ In(t, Merging, n) /\ In(t, Seeing, n) /\ In(t, Holding, n)
      /\ pc[t] \in Merging /\ at[t] = n /\ at'[t] = n
  <2>1. pc[t] \in Holding /\ pc[t] \in Merging /\ pc[t] \in Seeing
    BY <1>1 DEF Holding, Merging, Seeing
  <2> QED BY <1>a, <1>0, <1>1, <2>1, TreeFacts DEF LockInv, In
<1>3. /\ SeenOK(t, n) /\ MergeOK(t, n) /\ ~queued[n] /\ InUse(n) /\ Called(n)
  BY <1>0, <1>1, <1>2, WorkerFacts
     DEF SafeInv, CountInv, SeensOK, MergesOK, WorkersUse
<1>4. n # RootNode => /\ p \in Regular /\ p \in Interior /\ p # n /\ Split(p) /\ ~Sorted(p)
                      /\ IsLo(n) <=> n = Tree[p].lo_child
                      /\ ~IsLo(n) <=> n = Tree[p].hi_child
  BY <1>a, <1>2, <1>3, ChildFacts DEF Called, SafeInv, CountInv, SortedApart
<1>5. /\ \A k \in Nodes : /\ node'[k].lo = node[k].lo /\ node'[k].hi = node[k].hi
                          /\ k # n => node'[k].nlo = node[k].nlo /\ node'[k].nhi = node[k].nhi
                          /\ k # n /\ (n = RootNode \/ k # p) => node'[k] = node[k]
      /\ node'[n].nlo = node[n].nlo - (node[n].lo - m[t].lo)
      /\ node'[n].nhi = node[n].nhi - (node[n].hi - m[t].hi)
      /\ \A k \in Nodes :
           /\ node'[k].end_lo = IF n # RootNode /\ k = p /\ IsLo(n) THEN m[t].dest ELSE node[k].end_lo
           /\ node'[k].end_hi = IF n # RootNode /\ k = p /\ ~IsLo(n) THEN m[t].dest ELSE node[k].end_hi
  <2> DEFINE c == Counted(t)
  <2>1. /\ c \in [Nodes -> NodeType]
        /\ \A k \in Nodes :
              /\ c[k].lo = node[k].lo /\ c[k].end_lo = node[k].end_lo
              /\ c[k].hi = node[k].hi /\ c[k].end_hi = node[k].end_hi
              /\ c[k].nlo = IF k = n THEN node[k].nlo - (node[k].lo - m[t].lo) ELSE node[k].nlo
              /\ c[k].nhi = IF k = n THEN node[k].nhi - (node[k].hi - m[t].hi) ELSE node[k].nhi
    BY <1>a, <1>0, CountedFields
  <2>2. \A k \in Nodes \ {n} : c[k] = node[k]
    BY <1>a, <1>0, CountedFields
  <2>3. node' = IF n = RootNode THEN c
                ELSE IF IsLo(n) THEN [c EXCEPT ![p].end_lo = m[t].dest]
                ELSE [c EXCEPT ![p].end_hi = m[t].dest]
    BY <1>a, <1>2, TreeFacts DEF StoreDest
  <2> HIDE DEF c
  <2>4. CASE n = RootNode
    <3>1. node' = c
      BY <2>3, <2>4
    <3>2. /\ \A k \in Nodes : /\ node'[k].lo = node[k].lo /\ node'[k].hi = node[k].hi
                              /\ node'[k].end_lo = node[k].end_lo /\ node'[k].end_hi = node[k].end_hi
                              /\ k # n => node'[k] = node[k]
          /\ node'[n].nlo = node[n].nlo - (node[n].lo - m[t].lo)
          /\ node'[n].nhi = node[n].nhi - (node[n].hi - m[t].hi)
      BY <1>2, <2>1, <2>2, <3>1
    <3> QED BY <1>2, <2>4, <3>2
  <2>5. CASE n # RootNode
    <3>1. p \in Nodes /\ p # n
      BY <1>4, <2>5, TreeFacts
    <3>2. node' = IF IsLo(n) THEN [c EXCEPT ![p].end_lo = m[t].dest]
                  ELSE [c EXCEPT ![p].end_hi = m[t].dest]
      BY <2>3, <2>5
    <3>3. /\ \A k \in Nodes : /\ node'[k].lo = c[k].lo /\ node'[k].hi = c[k].hi
                              /\ node'[k].nlo = c[k].nlo /\ node'[k].nhi = c[k].nhi
                              /\ k # p => node'[k] = c[k]
          /\ node'[p].end_lo = IF IsLo(n) THEN m[t].dest ELSE c[p].end_lo
          /\ node'[p].end_hi = IF IsLo(n) THEN c[p].end_hi ELSE m[t].dest
      BY <2>1, <3>1, <3>2 DEF NodeType
    <3> QED BY <1>2, <2>1, <2>2, <2>5, <3>1, <3>3
  <2> QED BY <2>4, <2>5
<1>6. \A k \in Regular : k # n => Dest(k)' = Dest(k)
  <2> SUFFICES ASSUME NEW k \in Regular, k # n PROVE Dest(k)' = Dest(k)
    OBVIOUS
  <2>1. Parent(k) \in Nodes
    BY TreeFacts
  <2>2. CASE n = RootNode \/ Parent(k) # p
    <3>1. /\ node'[Parent(k)].end_lo = node[Parent(k)].end_lo
          /\ node'[Parent(k)].end_hi = node[Parent(k)].end_hi
      BY <1>5, <2>1, <2>2
    <3> QED BY <3>1 DEF Dest
  <2>3. CASE n # RootNode /\ Parent(k) = p
    <3>1. k # RootNode
      BY <1>4, <2>3, TreeFacts
    <3>2. IsLo(k) <=> ~IsLo(n)
      BY <1>2, <1>4, <2>3, <3>1, ChildFacts
    <3>3. IF IsLo(k) THEN node'[p].end_lo = node[p].end_lo ELSE node'[p].end_hi = node[p].end_hi
      BY <1>5, <2>1, <2>3, <3>2
    <3> QED BY <2>3, <3>3 DEF Dest
  <2> QED BY <2>2, <2>3
<1>7. \A s \in Threads, k \in Regular :
        /\ In(s, Sorting, k)' => In(s, Sorting, k)
        /\ In(s, Holding, k)' <=> In(s, Holding, k)
        /\ In(s, Seeing, k)'  => In(s, Seeing, k)
        /\ In(s, Merging, k)' <=> In(s, Merging, k) /\ s # t
        /\ In(s, Merging, k)' => pc'[s] = pc[s] /\ k # n
  <2> TAKE s \in Threads, k \in Regular
  <2>1. CASE s = t
    BY <1>1, <1>2, <2>1 DEF In, Sorting, Holding, Seeing, Merging
  <2>2. CASE s # t
    <3>1. /\ at'[s] = at[s]
          /\ pc'[s] = pc[s] \/ (pc[s] = "wait" /\ pc'[s] = "pop")
      BY <1>1, <2>2 DEF OthersKeep
    <3>2. In(s, Merging, k) => k # n
      <4>1. In(s, Merging, k) => pc[s] \in Holding /\ at[s] = k
        BY DEF In, Holding
      <4>2. pc[t] \in Holding
        BY <1>2 DEF Holding
      <4> QED BY <1>0, <1>2, <2>2, <4>1, <4>2, OnlyHolder
    <3> QED BY <2>2, <3>1, <3>2 DEF In, Sorting, Holding, Seeing, Merging
  <2> QED BY <2>1, <2>2
<1>8. \A k \in Regular : k # n => SameView(k)
  <2> SUFFICES ASSUME NEW k \in Regular, k # n PROVE SameView(k)
    OBVIOUS
  <2>1. \A s \in Threads : pc'[s] \in Merging /\ at'[s] = k <=> pc[s] \in Merging /\ at[s] = k
    BY <1>2, <1>7 DEF In
  <2>2. /\ node'[k].lo = node[k].lo /\ node'[k].nlo = node[k].nlo
        /\ node'[k].hi = node[k].hi /\ node'[k].nhi = node[k].nhi
    BY <1>5, TreeFacts
  <2> QED BY <1>0, <1>1, <1>6, <2>1, <2>2, ViewKept
<1>9. /\ LeftLo(n)' = LeftLo(n) /\ LeftHi(n)' = LeftHi(n) /\ NInFlight(n)' = 0
      /\ n # RootNode => NInFlight(n) = m[t].dest - Dest(n)
  <2>1. Viewed(n) /\ Viewed(n)'
    BY <1>0, <1>2, Views, ViewsNext
  <2>2. \A s \in Threads : ~(pc'[s] \in Merging /\ at'[s] = n)
    BY <1>2, <1>7 DEF In
  <2>3. LeftLo(n)' = node'[n].nlo /\ LeftHi(n)' = node'[n].nhi /\ NInFlight(n)' = 0
    BY <2>1, <2>2 DEF Viewed
  <2>4. /\ LeftLo(n) = node[n].nlo - (node[n].lo - m[t].lo)
        /\ LeftHi(n) = node[n].nhi - (node[n].hi - m[t].hi)
        /\ NInFlight(n) = IF n = RootNode THEN 0 ELSE m[t].dest - Dest(n)
    BY <1>2, <2>1 DEF Viewed
  <2> QED BY <1>5, <2>3, <2>4
<1>10. /\ \A k \in Regular : Left(k)' = Left(k)
       /\ \A k \in Regular : k # n => Owed(k)' = Owed(k)
       /\ Owed(n)' = Left(n) /\ Owed(n) = NInFlight(n) + Left(n)
  <2>1. \A k \in Regular : k # n => Left(k)' = Left(k) /\ Owed(k)' = Owed(k)
    BY <1>8 DEF SameView, Left, Owed
  <2>2. Left(n)' = Left(n)
    BY <1>9 DEF Left
  <2>3. Owed(n)' = NInFlight(n)' + Left(n)' /\ Owed(n) = NInFlight(n) + Left(n) /\ Left(n) \in Nat
    BY <1>2, OwedFacts DEF Owed
  <2> QED BY <1>9, <2>1, <2>2, <2>3
<1>11. /\ \A k \in Nodes : Split(k)' <=> Split(k)
       /\ \A k \in Regular : /\ Called(k)' <=> Called(k)
                             /\ Sorted(k)' <=> Sorted(k)
                             /\ InUse(k)' <=> InUse(k)
  <2>1. /\ \A k \in Nodes : Split(k)' <=> Split(k)
        /\ \A k \in Regular : Called(k)' <=> Called(k)
    BY <1>0, <1>1, OthersKept, TreeFacts
  <2>2. \A k \in Regular : Sorted(k)' <=> Sorted(k)
    BY <1>5, TreeFacts DEF Sorted
  <2> QED BY <2>1, <2>2, TreeFacts DEF InUse
\* The parent's ends grow by what was in flight.
<1>12. /\ \A k \in Nodes : n = RootNode \/ k # p =>
            node'[k].end_lo = node[k].end_lo /\ node'[k].end_hi = node[k].end_hi
       /\ n # RootNode =>
            /\ node'[p].end_lo = node[p].end_lo + (IF IsLo(n) THEN NInFlight(n) ELSE 0)
            /\ node'[p].end_hi = node[p].end_hi + (IF IsLo(n) THEN 0 ELSE NInFlight(n))
  <2>1. ASSUME n # RootNode
        PROVE  /\ node'[p].end_lo = node[p].end_lo + (IF IsLo(n) THEN NInFlight(n) ELSE 0)
               /\ node'[p].end_hi = node[p].end_hi + (IF IsLo(n) THEN 0 ELSE NInFlight(n))
    <3>1. p \in Nodes /\ node[p] \in NodeType /\ m[t].dest \in Int
      BY <1>0, <1>4, <2>1, TreeFacts DEF TypeOK, NodeType
    <3>2. Dest(n) = IF IsLo(n) THEN node[p].end_lo ELSE node[p].end_hi
      BY <1>a DEF Dest
    <3>3. NInFlight(n) = m[t].dest - Dest(n)
      BY <1>9, <2>1
    <3>4. /\ node'[p].end_lo = IF IsLo(n) THEN m[t].dest ELSE node[p].end_lo
          /\ node'[p].end_hi = IF IsLo(n) THEN node[p].end_hi ELSE m[t].dest
      BY <1>5, <2>1, <3>1
    <3>5. CASE IsLo(n)
      BY <3>1, <3>2, <3>3, <3>4, <3>5 DEF NodeType
    <3>6. CASE ~IsLo(n)
      BY <3>1, <3>2, <3>3, <3>4, <3>6 DEF NodeType
    <3> QED BY <3>5, <3>6
  <2> QED BY <1>5, <2>1
<1>13. NInFlight(n) \in Nat /\ Left(n) \in Nat
  BY <1>2, OwedFacts
<1>14. CountsOK'
  <2> SUFFICES ASSUME NEW k \in Regular PROVE CountOK(k)'
    BY DEF CountsOK
  <2>1. /\ CountOK(k) /\ (Split(k)' <=> Split(k)) /\ (Sorted(k)' <=> Sorted(k))
        /\ LeftLo(k)' = LeftLo(k) /\ LeftHi(k)' = LeftHi(k)
        /\ node'[k].lo = node[k].lo /\ node'[k].hi = node[k].hi
        /\ k \in Nodes /\ node[k] \in NodeType
    BY <1>0, <1>5, <1>8, <1>9, <1>11, TreeFacts
       DEF SafeInv, CountInv, CountsOK, SameView, TypeOK, NodeType
  <2>2. CASE n = RootNode \/ k # p
    <3>1. Split(k) => /\ Owed(Tree[k].lo_child)' = Owed(Tree[k].lo_child)
                      /\ Owed(Tree[k].hi_child)' = Owed(Tree[k].hi_child)
      <4>1. k \in Interior => /\ Tree[k].lo_child \in Regular \ {n}
                              /\ Tree[k].hi_child \in Regular \ {n}
        BY <1>a, <1>4, <2>2, TreeFacts
      <4> QED BY <1>10, <4>1 DEF Split
    <3>2. node'[k].end_lo = node[k].end_lo /\ node'[k].end_hi = node[k].end_hi
      BY <1>12, <2>1, <2>2
    <3> QED BY <2>1, <3>1, <3>2 DEF CountOK
  <2>3. CASE n # RootNode /\ k = p
    <3>0. PICK l, h : l = Tree[p].lo_child /\ h = Tree[p].hi_child
      OBVIOUS
    <3>1. /\ l \in Regular /\ h \in Regular /\ l # h
          /\ IF IsLo(n) THEN n = l /\ n # h ELSE n = h /\ n # l
      BY <1>4, <2>3, <3>0, TreeFacts
    <3>2. /\ Owed(l) \in Nat /\ Owed(h) \in Nat /\ LeftLo(p) \in Nat /\ LeftHi(p) \in Nat
      BY <1>4, <2>3, <3>1, OwedFacts
    <3>3. /\ LeftLo(p) = node[p].end_lo - node[p].lo + Owed(l)
          /\ LeftHi(p) = node[p].end_hi - node[p].hi + Owed(h)
          /\ node[p].lo <= node[p].end_lo /\ node[p].hi <= node[p].end_hi
      BY <1>4, <2>1, <2>3, <3>0 DEF CountOK
    <3>4. /\ node'[p].end_lo + Owed(l)' = node[p].end_lo + Owed(l)
          /\ node'[p].end_hi + Owed(h)' = node[p].end_hi + Owed(h)
          /\ node'[p].end_lo >= node[p].end_lo /\ node'[p].end_hi >= node[p].end_hi
          /\ node'[p].end_lo \in Int /\ node'[p].end_hi \in Int
          /\ Owed(l)' \in Nat /\ Owed(h)' \in Nat
      <4>1. CASE IsLo(n)
        <5>1. /\ n = l /\ Owed(h)' = Owed(h) /\ Owed(l)' = Left(l)
              /\ Owed(l) = NInFlight(l) + Left(l) /\ NInFlight(l) \in Nat /\ Left(l) \in Nat
              /\ node'[p].end_lo = node[p].end_lo + NInFlight(l)
              /\ node'[p].end_hi = node[p].end_hi + 0
          BY <1>10, <1>12, <1>13, <2>3, <3>1, <4>1
        <5> QED BY <2>1, <2>3, <3>2, <5>1 DEF NodeType
      <4>2. CASE ~IsLo(n)
        <5>1. /\ n = h /\ Owed(l)' = Owed(l) /\ Owed(h)' = Left(h)
              /\ Owed(h) = NInFlight(h) + Left(h) /\ NInFlight(h) \in Nat /\ Left(h) \in Nat
              /\ node'[p].end_lo = node[p].end_lo + 0
              /\ node'[p].end_hi = node[p].end_hi + NInFlight(h)
          BY <1>10, <1>12, <1>13, <2>3, <3>1, <4>2
        <5> QED BY <2>1, <2>3, <3>2, <5>1 DEF NodeType
      <4> QED BY <4>1, <4>2
    <3>5. /\ LeftLo(p)' = node'[p].end_lo - node'[p].lo + Owed(l)'
          /\ LeftHi(p)' = node'[p].end_hi - node'[p].hi + Owed(h)'
          /\ node'[p].lo <= node'[p].end_lo /\ node'[p].hi <= node'[p].end_hi
          /\ LeftLo(p)' >= 0 /\ LeftHi(p)' >= 0
      <4>1. /\ node'[p].lo = node[p].lo /\ node'[p].hi = node[p].hi
            /\ LeftLo(p)' = LeftLo(p) /\ LeftHi(p)' = LeftHi(p)
            /\ {node[p].lo, node[p].hi, node[p].end_lo, node[p].end_hi} \subseteq Int
        BY <2>1, <2>3 DEF NodeType
      <4> DEFINE Grows(left, end, next, ptr, owed, owes) ==
                   left = next - ptr + owes /\ ptr <= next /\ left >= 0
      <4>0. \A left, owed, owes \in Nat, end, next, ptr \in Int :
              /\ left = end - ptr + owed /\ ptr <= end /\ end <= next
              /\ next + owes = end + owed
              => Grows(left, end, next, ptr, owed, owes)
        OBVIOUS
      <4>2. Grows(LeftLo(p), node[p].end_lo, node'[p].end_lo, node[p].lo, Owed(l), Owed(l)')
        <5>1. node[p].end_lo <= node'[p].end_lo
          BY <3>4, <4>1
        <5> HIDE DEF Grows
        <5> QED BY <3>2, <3>3, <3>4, <4>0, <4>1, <5>1
      <4>3. Grows(LeftHi(p), node[p].end_hi, node'[p].end_hi, node[p].hi, Owed(h), Owed(h)')
        <5>1. node[p].end_hi <= node'[p].end_hi
          BY <3>4, <4>1
        <5> HIDE DEF Grows
        <5> QED BY <3>2, <3>3, <3>4, <4>0, <4>1, <5>1
      <4> QED BY <4>1, <4>2, <4>3
    <3>6. ~Sorted(k)'
      BY <1>4, <2>1, <2>3
    <3> QED BY <2>3, <3>0, <3>5, <3>6 DEF CountOK
  <2> QED BY <2>2, <2>3
<1>15. SeensOK'
  <2> SUFFICES ASSUME NEW s \in Threads, NEW k \in Regular, In(s, Seeing, k)'
               PROVE  SeenOK(s, k)' /\ ~queued'[k]
    BY DEF SeensOK
  <2>1. In(s, Seeing, k) /\ SeenOK(s, k) /\ ~queued'[k]
    BY <1>1, <1>7 DEF SafeInv, CountInv, SeensOK
  <2>2. /\ node[k] \in NodeType /\ m[s] \in LocalsType /\ k \in Nodes
        /\ node'[k].lo = node[k].lo /\ node'[k].hi = node[k].hi
    BY <1>0, <1>5, TreeFacts DEF TypeOK, NodeType, LocalsType
  <2>3. /\ node'[k].end_lo \in Int /\ node'[k].end_lo >= node[k].end_lo
        /\ node'[k].end_hi \in Int /\ node'[k].end_hi >= node[k].end_hi
    <3>1. CASE n = RootNode \/ k # p
      <4>1. node'[k].end_lo = node[k].end_lo /\ node'[k].end_hi = node[k].end_hi
        BY <1>12, <2>2, <3>1
      <4> QED BY <2>2, <4>1 DEF NodeType
    <3>2. CASE n # RootNode /\ k = p
      BY <1>12, <1>13, <2>2, <3>2 DEF NodeType
    <3> QED BY <3>1, <3>2
  <2> QED BY <1>1, <2>1, <2>2, <2>3 DEF SeenOK, NodeType, LocalsType
<1>16. MergesOK' /\ MergersOwe'
  <2> SUFFICES ASSUME NEW s \in Threads, NEW k \in Regular, In(s, Merging, k)'
               PROVE  MergeOK(s, k)' /\ (k # RootNode => Owed(k)' > 0)
    BY DEF MergesOK, MergersOwe
  <2>1. In(s, Merging, k) /\ pc'[s] = pc[s] /\ k # n /\ s # t
    BY <1>7
  <2>2. MergeOK(s, k) /\ (k # RootNode => Owed(k) > 0)
    BY <2>1 DEF SafeInv, CountInv, MergesOK, MergersOwe
  <2>3. Dest(k)' = Dest(k) /\ node'[k].lo = node[k].lo /\ node'[k].hi = node[k].hi
    BY <1>5, <1>6, <2>1, TreeFacts
  <2> QED BY <1>1, <1>10, <2>1, <2>2, <2>3 DEF MergeOK
<1>17. UnusedNew'
  <2> SUFFICES ASSUME NEW k \in Regular, ~InUse(k)' PROVE node'[k] = NewNode(k)
    BY DEF UnusedNew, NewNode
  <2>1. ~InUse(k)
    BY <1>11
  <2>2. k # n /\ (n = RootNode \/ k # p)
    BY <1>3, <1>4, <2>1 DEF InUse
  <2> QED BY <1>5, <2>1, <2>2, TreeFacts DEF SafeInv, CountInv, UnusedNew
<1>18. SortedApart'
  <2> SUFFICES ASSUME NEW k \in Regular, Sorted(k)'
               PROVE  Called(k)' /\ ~Split(k)' /\ node'[k].end_lo < Tree[k].lo
    BY DEF SortedApart
  <2>1. Sorted(k) /\ (n = RootNode \/ k # p)
    BY <1>4, <1>11
  <2> QED BY <1>11, <1>12, <2>1, TreeFacts DEF SafeInv, CountInv, SortedApart
<1>19. CalledLarge' /\ SortersNew' /\ WorkersUse' /\ QueuedLeft'
  BY <1>1, <1>7, <1>10, <1>11
     DEF SafeInv, CountInv, CalledLarge, SortersNew, WorkersUse, QueuedLeft
<1> QED BY <1>14, <1>15, <1>16, <1>17, <1>18, <1>19 DEF CountInv

\* The counts, the locks and the queue are an invariant together.
LEMMA SafeInvariant == Spec => []SafeInv
<1>1. ASSUME SafeInv, SeenInv', [Next]_vars
      PROVE  CountInv'
  <2>1. ASSUME NEW t \in Threads, Step(t) \/ Spurious(t)
        PROVE  CountInv'
    BY <1>1, <2>1, FreeCounts, LockCounts, CheckCounts, CreateCounts, SortCounts,
       LoopCounts, StoreCounts DEF Step
  <2>2. CASE UNCHANGED vars
    <3>1. CountInv /\ UNCHANGED <<node, lock, queued, pc, at, m>>
      BY <1>1, <2>2 DEF SafeInv, vars
    <3>2. \A n : /\ LeftLo(n)' = LeftLo(n) /\ LeftHi(n)' = LeftHi(n)
                 /\ NInFlight(n)' = NInFlight(n) /\ Dest(n)' = Dest(n)
                 /\ Split(n)' <=> Split(n)
                 /\ Sorted(n)' <=> Sorted(n)
      BY <3>1 DEF LeftLo, LeftHi, NInFlight, MergedBy, Split, Sorted, Dest
    <3>3. \A n : /\ Owed(n)' = Owed(n) /\ Left(n)' = Left(n)
                 /\ InUse(n)' <=> InUse(n)
                 /\ Called(n)' <=> Called(n)
      BY <3>2 DEF Owed, Left, InUse, Called
    <3>4. CountsOK'
      BY <3>1, <3>2, <3>3 DEF CountInv, CountsOK, CountOK
    <3>5. SeensOK' /\ MergesOK' /\ MergersOwe'
      BY <3>1, <3>2, <3>3 DEF CountInv, SeensOK, SeenOK, MergesOK, MergeOK, MergersOwe, In
    <3>6. UnusedNew' /\ SortedApart' /\ CalledLarge' /\ SortersNew' /\ WorkersUse' /\ QueuedLeft'
      BY <3>1, <3>2, <3>3
         DEF CountInv, UnusedNew, SortedApart, CalledLarge, SortersNew, WorkersUse, QueuedLeft,
             In, NewNode
    <3> QED BY <3>4, <3>5, <3>6 DEF CountInv
  <2> QED BY <1>1, <2>1, <2>2 DEF Next, Return
<1>2. SafeInv /\ SeenInv' /\ [Next]_vars => CountInv'
  BY <1>1
<1> QED
  BY <1>2, SeenInvariant, InitCountInv, PTL DEF Spec, SafeInv

\* A node's nlo and nhi are exactly the lines still to come through its halves, and no
\* merge takes more than MAX_MERGE lines: for every tree and every schedule.
THEOREM CountsExactHolds == Spec => []CountsExact
<1>1. SafeInv => CountsExact
  <2> SUFFICES ASSUME SafeInv PROVE CountsExact
    OBVIOUS
  <2>1. ASSUME NEW n \in Regular
        PROVE  /\ node[n].lo <= node[n].end_lo /\ node[n].hi <= node[n].end_hi
               /\ Split(n) =>
                    LET l == Tree[n].lo_child
                        h == Tree[n].hi_child
                    IN /\ LeftLo(n) = node[n].end_lo - node[n].lo + NInFlight(l) + LeftLo(l) + LeftHi(l)
                       /\ LeftHi(n) = node[n].end_hi - node[n].hi + NInFlight(h) + LeftLo(h) + LeftHi(h)
               /\ Sorted(n) => /\ LeftLo(n) = node[n].end_lo - node[n].lo
                               /\ LeftHi(n) = node[n].end_hi - node[n].hi
    <3>1. CountOK(n) /\ node[n] \in NodeType
      BY TreeFacts DEF SafeInv, SeenInv, CountInv, CountsOK, TypeOK, NodeType
    <3>2. ASSUME Split(n), NEW l \in Regular, NEW h \in Regular,
                 l = Tree[n].lo_child, h = Tree[n].hi_child
          PROVE  /\ LeftLo(n) = node[n].end_lo - node[n].lo + NInFlight(l) + LeftLo(l) + LeftHi(l)
                 /\ LeftHi(n) = node[n].end_hi - node[n].hi + NInFlight(h) + LeftLo(h) + LeftHi(h)
      <4>1. /\ Owed(l) = NInFlight(l) + (LeftLo(l) + LeftHi(l))
            /\ Owed(h) = NInFlight(h) + (LeftLo(h) + LeftHi(h))
            /\ {NInFlight(l), LeftLo(l), LeftHi(l), NInFlight(h), LeftLo(h), LeftHi(h)} \subseteq Nat
        BY <3>2, OwedFacts
      <4>2. /\ LeftLo(n) = node[n].end_lo - node[n].lo + Owed(l)
            /\ LeftHi(n) = node[n].end_hi - node[n].hi + Owed(h)
        BY <3>1, <3>2 DEF CountOK
      <4> QED BY <3>1, <4>1, <4>2 DEF NodeType
    <3>3. Split(n) => Tree[n].lo_child \in Regular /\ Tree[n].hi_child \in Regular
      BY TreeFacts DEF Split
    <3> QED BY <3>1, <3>2, <3>3 DEF CountOK
  <2>2. ASSUME NEW t \in Threads, pc[t] \in Merging
        PROVE  (node[at[t]].lo - m[t].lo) + (node[at[t]].hi - m[t].hi)
                 <= MAX_MERGE(NLines, Level(at[t]))
    <3>1. PICK n : n = at[t]
      OBVIOUS
    <3>2. n \in Regular /\ In(t, Merging, n)
      BY <2>2, <3>1 DEF SafeInv, SeenInv, LockInv, Holding, In
    <3>3. MergeOK(t, n)
      BY <3>2 DEF SafeInv, CountInv, MergesOK
    <3> QED BY <3>1, <3>3 DEF MergeOK
  <2> QED BY <2>1, <2>2 DEF CountsExact
<1> QED BY <1>1, SafeInvariant, PTL

-----------------------------------------------------------------------------
(* When the root is done *)

\* A set of natural numbers has a least element.
LEMMA LeastElement ==
  ASSUME NEW T \in SUBSET Nat, T # {}
  PROVE  \E x \in T : \A y \in T : x <= y
<1> DEFINE R == OpToRel(<, Nat)
<1>1. IsWellFoundedOn(R, Nat)
  BY NatLessThanWellFounded
<1>2. \A x, y \in Nat : <<x, y>> \in R <=> x < y
  BY DEF OpToRel
<1> HIDE DEF R
<1>3. PICK x \in T : \A y \in T : ~ (<<y, x>> \in R)
  <2>1. T \subseteq Nat
    OBVIOUS
  <2> QED BY <1>1, <2>1, WFMin, Zenon
<1>4. ASSUME NEW y \in T PROVE x <= y
  <2>1. x \in Nat /\ y \in Nat /\ ~(y < x)
    BY <1>2, <1>3
  <2> QED BY <2>1
<1> QED BY <1>4

\* A node that owes its parent nothing is done, and a parent that has nothing left is
\* owed nothing: when the root is done, so is every node that has been called.
LEMMA AllDone ==
  ASSUME SafeInv, Left(RootNode) = 0
  PROVE  \A n \in Regular : Called(n) => Left(n) = 0 /\ (n # RootNode => Owed(n) = 0)
<1>1. ASSUME NEW n \in Regular, n # RootNode, Called(n), Left(Parent(n)) = 0
      PROVE  Left(n) = 0 /\ Owed(n) = 0
  <2> DEFINE p == Parent(n)
  <2>1. /\ p \in Regular /\ Split(p) /\ p \in Interior
        /\ n = Tree[p].lo_child \/ n = Tree[p].hi_child
        /\ Tree[p].lo_child \in Regular /\ Tree[p].hi_child \in Regular
    BY <1>1, ChildFacts, TreeFacts DEF Called
  <2>2. LeftLo(p) = 0 /\ LeftHi(p) = 0
    <3>1. LeftLo(p) \in Nat /\ LeftHi(p) \in Nat /\ Left(p) = LeftLo(p) + LeftHi(p)
      BY <2>1, OwedFacts
    <3> QED BY <1>1, <3>1
  <2>3. /\ node[p] \in NodeType
        /\ LeftLo(p) = node[p].end_lo - node[p].lo + Owed(Tree[p].lo_child)
        /\ LeftHi(p) = node[p].end_hi - node[p].hi + Owed(Tree[p].hi_child)
        /\ node[p].lo <= node[p].end_lo /\ node[p].hi <= node[p].end_hi
    BY <2>1, TreeFacts DEF SafeInv, SeenInv, TypeOK, NodeType, CountInv, CountsOK, CountOK
  <2>4. Owed(Tree[p].lo_child) \in Nat /\ Owed(Tree[p].hi_child) \in Nat
    BY <2>1, OwedFacts
  <2>5. Owed(Tree[p].lo_child) = 0 /\ Owed(Tree[p].hi_child) = 0
    BY <2>2, <2>3, <2>4 DEF NodeType
  <2>6. Owed(n) = 0
    BY <2>1, <2>5
  <2>7. Owed(n) = NInFlight(n) + Left(n) /\ NInFlight(n) \in Nat /\ Left(n) \in Nat
    BY <1>1, OwedFacts
  <2> QED BY <2>6, <2>7
<1>2. ASSUME NEW n \in Regular, n # RootNode, Called(n)
      PROVE  /\ Parent(n) \in Regular /\ Called(Parent(n))
             /\ Level(n) \in Nat /\ Level(Parent(n)) \in Nat /\ Level(Parent(n)) < Level(n)
  <2>1. Parent(n) \in Regular /\ Split(Parent(n))
    BY <1>2, ChildFacts DEF Called
  <2>2. Called(Parent(n))
    BY <2>1 DEF SafeInv, SeenInv, QueueInv, UncalledIdle
  <2>3. Level(n) \in Nat /\ Level(Parent(n)) \in Nat
    BY <1>2, <2>1, TreeFacts
  <2>4. Level(n) = Level(Parent(n)) + 1
    BY <1>2, TreeAssumption DEF WellLinked, Nodes, Regular, Parent, Level
  <2> QED BY <2>1, <2>2, <2>3, <2>4
<1> DEFINE Undone == {n \in Regular : Called(n) /\ Left(n) # 0}
           T == {Level(n) : n \in Undone}
<1>3. Undone = {}
  <2> SUFFICES ASSUME Undone # {} PROVE FALSE
    OBVIOUS
  <2>1. T \in SUBSET Nat /\ T # {}
    <3>1. \A n \in Regular : Level(n) \in Nat
      BY TreeFacts
    <3> HIDE DEF Undone
    <3>2. \A n \in Undone : n \in Regular
      BY DEF Undone
    <3> QED BY <3>1, <3>2
  <2>2. PICK x \in T : \A y \in T : x <= y
    BY <2>1, LeastElement
  <2>3. PICK n \in Undone : x = Level(n)
    OBVIOUS
  <2>4. n \in Regular /\ Called(n) /\ Left(n) # 0 /\ n # RootNode
    BY <2>3
  <2>5. Left(Parent(n)) # 0
    BY <1>1, <2>4
  <2>6. Parent(n) \in Undone
    BY <1>2, <2>4, <2>5
  <2>7. Level(n) <= Level(Parent(n))
    BY <2>2, <2>3, <2>6
  <2> QED BY <1>2, <2>4, <2>7
<1>4. \A n \in Regular : Called(n) => Left(n) = 0
  BY <1>3
<1> QED BY <1>1, <1>2, <1>4
-----------------------------------------------------------------------------
(* The end *)

\* The MERGE_END node has been inserted.
Ended == \/ heap[EndNode] > 0
         \/ \E t \in Threads : pc[t] \in {"join", "done"} \/ In(t, {"lock"}, EndNode)

\* The node is inserted once the root is done, and is in one place from then on.
EndOnce ==
  Ended => /\ Left(RootNode) = 0
           /\ \A t \in Threads : ~In(t, Holding, RootNode)
           /\ heap[EndNode] <= 1
           /\ \A s, t \in Threads : In(s, {"lock"}, EndNode) /\ In(t, {"lock"}, EndNode) => s = t
           /\ heap[EndNode] = 1 => \A t \in Threads : ~In(t, {"lock"}, EndNode)

\* When the root is done, the thread that merged it has yet to insert the MERGE_END
\* node, or the node is where a thread will find it.
EndComes ==
  Left(RootNode) = 0 => \/ heap[EndNode] = 1
                        \/ \E t \in Threads : In(t, {"lock"}, EndNode) \/ In(t, Holding, RootNode)

LEMMA InitEnd == Init => EndOnce /\ EndComes
<1> SUFFICES ASSUME Init PROVE EndOnce /\ EndComes
  OBVIOUS
<1>1. ~Ended
  BY TreeFacts DEF Init, Ended, In
<1>2. Left(RootNode) # 0
  <2>1. SafeInv
    BY InitTypeOK, InitQueueInv, InitLockInv, InitSeenFresh, InitCountInv DEF SafeInv, SeenInv
  <2>2. \A t \in Threads : ~(pc[t] \in Merging /\ at[t] = RootNode)
    BY DEF Init, Merging
  <2>3. LeftLo(RootNode) = node[RootNode].nlo /\ LeftHi(RootNode) = node[RootNode].nhi
    BY <2>1, <2>2, Views, TreeFacts DEF Viewed, SafeInv, SeenInv
  <2>4. node[RootNode].nlo = Tree[RootNode].nlo /\ node[RootNode].nhi = Tree[RootNode].nhi
    BY TreeFacts DEF Init
  <2> QED BY <2>3, <2>4, SizeFacts, SizesAssumption DEF Left
<1> QED BY <1>1, <1>2 DEF EndOnce, EndComes

\* Who changes a node, and what of it.
LEMMA NodeChange ==
  ASSUME TypeOK, QueueInv, LockInv, NEW t \in Threads, Step(t) \/ Spurious(t), NEW n \in Regular
  PROVE  /\ node'[n] # node[n] =>
              \/ (EndSort(t) \/ Merge(t) \/ Drain(t) \/ StoreDest(t)) /\ at[t] = n
              \/ StoreDest(t) /\ n \in Interior /\ at[t] \in {Tree[n].lo_child, Tree[n].hi_child}
         /\ node'[n].nlo # node[n].nlo \/ node'[n].nhi # node[n].nhi => StoreDest(t) /\ at[t] = n
         /\ StoreDest(t) => node'[n].lo = node[n].lo /\ node'[n].hi = node[n].hi
<1>0. node \in [Nodes -> NodeType] /\ at[t] \in Nodes /\ n \in Nodes
  BY TreeFacts DEF TypeOK, NodeType
<1>1. CASE EndSort(t)
  <2>0. PICK k \in Nodes : k = at[t]
    BY <1>0
  <2>1. n # k => node'[n] = node[n]
    BY <1>0, <1>1, <2>0 DEF EndSort
  <2>2. node'[n].nlo = node[n].nlo /\ node'[n].nhi = node[n].nhi
    BY <1>0, <1>1, <2>0 DEF EndSort, NodeType
  <2>3. ~StoreDest(t)
    BY <1>1 DEF EndSort, StoreDest
  <2> QED BY <1>1, <2>0, <2>1, <2>2, <2>3
<1>2. CASE StoreDest(t)
  <2>0. PICK k, p : k = at[t] /\ p = Parent(k)
    OBVIOUS
  <2>1. k \in Regular
    BY <1>2, <2>0 DEF LockInv, StoreDest, Holding, Merging
  <2> DEFINE c == Counted(t)
  <2>2. /\ c \in [Nodes -> NodeType] /\ c[n].lo = node[n].lo /\ c[n].hi = node[n].hi
        /\ n # k => c[n] = node[n]
    BY <1>0, <2>0, CountedFields
  <2>3. \/ node' = c
        \/ k # RootNode /\ IsLo(k) /\ node' = [c EXCEPT ![p].end_lo = m[t].dest]
        \/ k # RootNode /\ ~IsLo(k) /\ node' = [c EXCEPT ![p].end_hi = m[t].dest]
    BY <1>2, <2>0, <2>1, TreeFacts DEF StoreDest
  <2> HIDE DEF c
  <2>4. /\ n # p => node'[n] = c[n]
        /\ node'[n].lo = c[n].lo /\ node'[n].hi = c[n].hi
        /\ node'[n].nlo = c[n].nlo /\ node'[n].nhi = c[n].nhi
    BY <1>0, <2>2, <2>3 DEF NodeType
  <2>5. node'[n] # c[n] => n = p /\ k # RootNode
    BY <2>3, <2>4
  <2>6. k # RootNode => p \in Interior /\ k \in {Tree[p].lo_child, Tree[p].hi_child}
    BY <2>0, <2>1, ChildFacts
  <2> QED BY <1>2, <2>0, <2>2, <2>4, <2>5, <2>6
<1>3. CASE Merge(t) \/ Drain(t)
  <2>0. PICK k \in Nodes : k = at[t]
    BY <1>0
  <2>1. \/ \E fromLo \in BOOLEAN, e \in Ends(t) : Move(t, fromLo, e)
        \/ node' = node
    <3>1. TakeLo(at[t]) \in BOOLEAN
      BY DEF TakeLo
    <3> QED BY <1>3, <3>1 DEF Merge, Drain, tableVars
  <2>2. \/ node' = [node EXCEPT ![k].lo = @ + 1]
        \/ node' = [node EXCEPT ![k].hi = @ + 1]
        \/ node' = node
    BY <2>0, <2>1 DEF Move
  <2>3. /\ n # k => node'[n] = node[n]
        /\ node'[n].nlo = node[n].nlo /\ node'[n].nhi = node[n].nhi
    BY <1>0, <2>2 DEF NodeType
  <2>4. ~StoreDest(t)
    BY <1>3 DEF Merge, Drain, StoreDest
  <2> QED BY <1>3, <2>0, <2>3, <2>4
<1>4. CASE \/ Create(t) \/ BeginSort(t) \/ Pop(t) \/ Wait(t) \/ LockNode(t) \/ PopEnd(t)
           \/ Check(t) \/ CheckParent(t) \/ Join(t) \/ Spurious(t)
  <2>1. node' = node
    BY <1>4 DEF Create, BeginSort, Pop, Wait, LockNode, PopEnd, Check, CheckParent, Join,
       Spurious, tableVars
  <2> QED BY <2>1
<1> QED BY <1>1, <1>2, <1>3, <1>4 DEF Step

\* Only the thread that merges a node changes what is left of it.
LEMMA LeftKept ==
  ASSUME SafeInv, SafeInv', NEW t \in Threads, Step(t) \/ Spurious(t), NEW n \in Regular,
         ~(In(t, Merging, n) /\ (Merge(t) \/ Drain(t)))
  PROVE  LeftLo(n)' = LeftLo(n) /\ LeftHi(n)' = LeftHi(n)
<1>0. TypeOK /\ QueueInv /\ LockInv /\ TypeOK' /\ LockInv'
  BY DEF SafeInv, SeenInv
<1>1. Viewed(n) /\ Viewed(n)'
  BY <1>0, Views, ViewsNext
<1>2. node[n] \in NodeType /\ node'[n] \in NodeType /\ m \in [Threads -> LocalsType]
  BY <1>0, TreeFacts DEF TypeOK, NodeType, LocalsType
<1>3. ASSUME NEW r \in Threads, In(r, Merging, n), r # t
      PROVE  LeftLo(n)' = LeftLo(n) /\ LeftHi(n)' = LeftHi(n)
  <2>1. pc[r] \in Merging /\ at[r] = n /\ pc[r] \in Holding
    BY <1>3 DEF In, Holding
  <2>2. pc[t] \in Holding \cup Sorting => at[t] # n
    <3>1. pc[t] \in Holding => at[t] # n
      BY <1>0, <1>3, <2>1, OnlyHolder
    <3>2. pc[t] \in Sorting => at[t] # n
      <4>1. pc[r] # "none"
        BY <2>1 DEF Merging
      <4> QED BY <1>0, <1>3, <2>1, <4>1 DEF QueueInv, SortersAlone
    <3> QED BY <3>1, <3>2
  <2>3. /\ node'[n].lo = node[n].lo /\ node'[n].nlo = node[n].nlo
        /\ node'[n].hi = node[n].hi /\ node'[n].nhi = node[n].nhi
    <3>1. (EndSort(t) \/ Merge(t) \/ Drain(t) \/ StoreDest(t)) => at[t] # n
      BY <2>2 DEF EndSort, Merge, Drain, StoreDest, Holding, Merging, Sorting
    <3>2. node'[n] # node[n] => StoreDest(t)
      BY <1>0, <3>1, NodeChange
    <3>3. /\ StoreDest(t) => node'[n].lo = node[n].lo /\ node'[n].hi = node[n].hi
          /\ node'[n].nlo = node[n].nlo /\ node'[n].nhi = node[n].nhi
      BY <1>0, <3>1, NodeChange
    <3> QED BY <3>2, <3>3
  <2>4. pc'[r] \in Merging /\ at'[r] = n /\ m'[r] = m[r]
    <3>1. CASE Create(t)
      <4>1. /\ pc' = [pc EXCEPT ![Tree[at[t]].lo_child] = "sortlines"]
            /\ at' = [at EXCEPT ![t] = Tree[at[t]].hi_child] /\ m' = m
            /\ at[t] \in Interior /\ pc[t] = "sortlines"
        BY <3>1 DEF Create, MaySplit
      <4>2. pc[Tree[at[t]].lo_child] = "none"
        BY <1>0, <4>1, TreeFacts DEF QueueInv, SortersAlone, Sorting, Split
      <4>3. r # Tree[at[t]].lo_child
        BY <2>1, <4>2 DEF Merging
      <4> QED BY <1>0, <1>3, <2>1, <4>1, <4>3 DEF TypeOK
    <3>2. CASE ~Create(t)
      <4>1. OthersKeep(t)
        BY <1>0, <3>2, ActionMoves DEF Moves, Step
      <4>2. m'[r] = m[r]
        BY <1>2, <1>3, <3>2 DEF Step, BeginSort, EndSort, Pop, Wait, LockNode, PopEnd, Merge,
           Drain, StoreDest, Check, CheckParent, Join, Spurious, Move, Seen
      <4> QED BY <1>3, <2>1, <4>1, <4>2 DEF OthersKeep, Merging
    <3> QED BY <3>1, <3>2
  <2>5. /\ LeftLo(n) = node[n].nlo - (node[n].lo - m[r].lo)
        /\ LeftHi(n) = node[n].nhi - (node[n].hi - m[r].hi)
    BY <1>1, <2>1 DEF Viewed
  <2>6. /\ LeftLo(n)' = node'[n].nlo - (node'[n].lo - m'[r].lo)
        /\ LeftHi(n)' = node'[n].nhi - (node'[n].hi - m'[r].hi)
    BY <1>1, <2>4 DEF Viewed
  <2> QED BY <2>3, <2>4, <2>5, <2>6
<1>4. CASE In(t, Merging, n)
  <2>1. StoreDest(t)
    <3>1. pc[t] \in Merging
      BY <1>4 DEF In
    <3>2. ~Create(t)
      BY <3>1 DEF Create, Merging
    <3> QED BY <1>0, <1>4, <3>1, <3>2, ActionMoves DEF Moves, Step, Merging
  <2>2. pc[t] \in Merging /\ at[t] = n
    BY <1>4 DEF In
  <2>3. /\ LeftLo(n) = node[n].nlo - (node[n].lo - m[t].lo)
        /\ LeftHi(n) = node[n].nhi - (node[n].hi - m[t].hi)
    BY <1>1, <2>2 DEF Viewed
  <2>4. \A r \in Threads : ~(pc'[r] \in Merging /\ at'[r] = n)
    <3>1. pc'[t] = "check" /\ OthersKeep(t)
      BY <1>0, <2>1, ActionMoves DEF Moves
    <3>2. \A r \in Threads \ {t} : ~(pc[r] \in Merging /\ at[r] = n)
      BY <1>0, <2>2, OnlyHolder DEF Holding
    <3> QED BY <3>1, <3>2 DEF OthersKeep, Merging
  <2>5. LeftLo(n)' = node'[n].nlo /\ LeftHi(n)' = node'[n].nhi
    BY <1>1, <2>4 DEF Viewed
  <2>6. /\ node'[n].nlo = node[n].nlo - (node[n].lo - m[t].lo)
        /\ node'[n].nhi = node[n].nhi - (node[n].hi - m[t].hi)
    <3> DEFINE c == Counted(t)
    <3>0. PICK p : p = Parent(n)
      OBVIOUS
    <3>1. /\ c \in [Nodes -> NodeType] /\ n \in Nodes
          /\ c[n].nlo = node[n].nlo - (node[n].lo - m[t].lo)
          /\ c[n].nhi = node[n].nhi - (node[n].hi - m[t].hi)
      BY <1>0, <2>2, TreeFacts, CountedFields
    <3>2. \/ node' = c
          \/ node' = [c EXCEPT ![p].end_lo = m[t].dest]
          \/ node' = [c EXCEPT ![p].end_hi = m[t].dest]
      BY <2>1, <2>2, <3>0 DEF StoreDest
    <3> HIDE DEF c
    <3>3. node'[n].nlo = c[n].nlo /\ node'[n].nhi = c[n].nhi
      BY <3>1, <3>2 DEF NodeType
    <3> QED BY <3>1, <3>3
  <2> QED BY <2>3, <2>5, <2>6
<1>5. CASE \A r \in Threads : ~In(r, Merging, n)
  <2>1. LeftLo(n) = node[n].nlo /\ LeftHi(n) = node[n].nhi
    BY <1>1, <1>5 DEF Viewed, In
  <2>2. node'[n].nlo = node[n].nlo /\ node'[n].nhi = node[n].nhi
    <3>1. StoreDest(t) => at[t] # n
      BY <1>5 DEF StoreDest, In, Merging
    <3> QED BY <1>0, <3>1, NodeChange
  <2>3. CASE \A r \in Threads : ~(pc'[r] \in Merging /\ at'[r] = n)
    BY <1>1, <2>1, <2>2, <2>3 DEF Viewed
  <2>4. ASSUME NEW r \in Threads, pc'[r] \in Merging, at'[r] = n
        PROVE  LeftLo(n)' = LeftLo(n) /\ LeftHi(n)' = LeftHi(n)
    <3>1. r = t /\ LockNode(t)
      <4>1. pc'[r] \in Seeing
        BY <2>4 DEF Seeing
      <4>2. /\ at'[r] = at[r]
            /\ \/ r = t /\ LockNode(t)
               \/ r = t /\ pc[t] \in Merging
               \/ r # t /\ pc[r] = pc'[r]
        BY <1>0, <4>1, MergerBefore
      <4> QED BY <1>5, <2>4, <4>2 DEF In
    <3>2. node' = node /\ m'[t].lo = node[n].lo /\ m'[t].hi = node[n].hi
      <4>1. at[t] = n
        BY <1>0, <2>4, <3>1, ActionMoves DEF Moves
      <4> QED BY <1>2, <3>1, <4>1 DEF LockNode, tableVars
    <3>3. /\ LeftLo(n)' = node'[n].nlo - (node'[n].lo - m'[r].lo)
          /\ LeftHi(n)' = node'[n].nhi - (node'[n].hi - m'[r].hi)
      BY <1>1, <2>4 DEF Viewed
    <3> QED BY <1>2, <2>1, <3>1, <3>2, <3>3 DEF NodeType
  <2> QED BY <2>3, <2>4
<1> QED BY <1>3, <1>4, <1>5

\* Where the MERGE_END node is, and who has left merge_loop.
Popped_End(t) == In(t, {"lock"}, EndNode)
Gone(t) == pc[t] \in {"join", "done"}

\* What a step does to the MERGE_END node: nothing, or it is popped, inserted again by
\* the thread that popped it, or inserted by the thread that finished the root.
LEMMA EndMoves ==
  ASSUME SafeInv, SafeInv', NEW t \in Threads, Step(t) \/ Spurious(t)
  PROVE  /\ \A s \in Threads : Popped_End(s)' => Popped_End(s) \/ (s = t /\ Pop(t) /\ at'[t] = EndNode)
         /\ \A s \in Threads : Popped_End(s) => Popped_End(s)' \/ (s = t /\ PopEnd(t))
         /\ \A s \in Threads : Gone(s)' => Gone(s) \/ (s = t /\ PopEnd(t))
         /\ \A s \in Threads : Gone(s) => Gone(s)'
         /\ \A s \in Threads, n \in Regular :
              In(s, Holding, n)' => In(s, Holding, n) \/ (s = t /\ LockNode(t) /\ at[t] = n)
         /\ \A s \in Threads, n \in Regular :
              In(s, Holding, n) => In(s, Holding, n)' \/ (s = t /\ CheckParent(t) /\ at[t] = n)
         /\ \/ heap'[EndNode] = heap[EndNode] /\ ~PopEnd(t) /\ ~(Pop(t) /\ at'[t] = EndNode)
               /\ ~(CheckParent(t) /\ at[t] = RootNode /\ Finished(RootNode))
            \/ heap'[EndNode] = heap[EndNode] - 1 /\ Pop(t) /\ at'[t] = EndNode
            \/ heap'[EndNode] = heap[EndNode] + 1 /\ PopEnd(t)
            \/ heap'[EndNode] = heap[EndNode] + 1 /\ CheckParent(t) /\ at[t] = RootNode /\ Finished(RootNode)
<1>0. /\ TypeOK /\ QueueInv /\ LockInv
      /\ heap \in [Nodes -> Nat] /\ EndNode \in Nodes /\ EndNode \notin Regular /\ at[t] \in Nodes
      /\ \A s \in waiting : pc[s] = "wait"
  BY TreeFacts DEF SafeInv, SeenInv, TypeOK, QueueInv, WaitersWait
<1>1. CASE Create(t)
  <2>1. /\ pc' = [pc EXCEPT ![Tree[at[t]].lo_child] = "sortlines"]
        /\ at' = [at EXCEPT ![t] = Tree[at[t]].hi_child]
        /\ at[t] \in Interior /\ pc[t] = "sortlines" /\ heap' = heap
    BY <1>1 DEF Create, MaySplit, queueVars
  <2>2. pc[Tree[at[t]].lo_child] = "none"
    BY <1>0, <2>1, TreeFacts DEF QueueInv, SortersAlone, Sorting, Split
  <2>3. \A s \in Threads : \/ pc'[s] = pc[s] /\ at'[s] = at[s]
                           \/ pc[s] \in {"none", "sortlines"} /\ pc'[s] = "sortlines"
    BY <1>0, <2>1, <2>2 DEF TypeOK
  <2>4. ~PopEnd(t) /\ ~Pop(t) /\ ~CheckParent(t)
    BY <2>1 DEF PopEnd, Pop, CheckParent
  <2> QED BY <2>1, <2>3, <2>4 DEF Popped_End, Gone, In, Holding, Merging
<1>2. CASE ~Create(t)
  <2>1. OthersKeep(t)
    BY <1>0, <1>2, ActionMoves DEF Moves, Step
  <2>2. \A s \in Threads \ {t} : /\ Popped_End(s)' <=> Popped_End(s)
                                 /\ Gone(s)' <=> Gone(s)
                                 /\ \A n \in Regular : In(s, Holding, n)' <=> In(s, Holding, n)
    BY <2>1 DEF OthersKeep, Popped_End, Gone, In, Holding, Merging
  <2>3. /\ Popped_End(t)' => Pop(t) /\ at'[t] = EndNode
        /\ Popped_End(t) => PopEnd(t)
        /\ Gone(t)' => Gone(t) \/ PopEnd(t)
        /\ Gone(t) => Gone(t)'
        /\ \A n \in Regular : /\ In(t, Holding, n)' => In(t, Holding, n) \/ (LockNode(t) /\ at[t] = n)
                              /\ In(t, Holding, n) => In(t, Holding, n)' \/ (CheckParent(t) /\ at[t] = n)
    <3>1. Popped_End(t) => ~LockNode(t)
      BY TreeFacts DEF Popped_End, In, LockNode
    <3>2. \/ \E from, to : /\ Moves(t, from, to, at[t])
                           /\ \/ from \cup to \subseteq Labels \ ({"lock", "join", "done"} \cup Holding)
                              \/ from \cup to \subseteq Holding
                              \/ LockNode(t) /\ from = {"lock"} /\ to = {"merge"}
                              \/ PopEnd(t) /\ from = {"lock"} /\ to = {"join"}
                              \/ from = {"join"} /\ to = {"done"}
          \/ EndSort(t) /\ Moves(t, {"sorting"}, {"pop"}, EndNode)
          \/ Pop(t) /\ Moves(t, {"pop"}, {"lock"}, at'[t])
          \/ CheckParent(t) /\ Moves(t, {"parent"}, {"pop"}, EndNode)
      <4>1. CASE BeginSort(t) \/ Wait(t) \/ Spurious(t)
        <5>1. PICK from, to : /\ Moves(t, from, to, at[t])
                              /\ from \in {{"sortlines"}, {"pop"}, {"wait"}}
                              /\ to \in {{"sorting"}, {"wait"}, {"pop"}}
          BY <1>0, <4>1, ActionMoves
        <5>2. from \cup to \subseteq Labels \ ({"lock", "join", "done"} \cup Holding)
          BY <5>1 DEF Labels, Holding, Merging
        <5> QED BY <5>1, <5>2
      <4>2. CASE Merge(t) \/ Drain(t) \/ StoreDest(t) \/ Check(t)
        <5>1. Moves(t, Holding, Holding, at[t])
          BY <1>0, <4>2, ActionMoves DEF Moves, Holding, Merging
        <5> QED BY <5>1
      <4>3. CASE LockNode(t) \/ PopEnd(t) \/ Join(t)
        BY <1>0, <4>3, ActionMoves
      <4>4. CASE EndSort(t) \/ Pop(t) \/ CheckParent(t)
        BY <1>0, <4>4, ActionMoves
      <4> QED BY <1>2, <4>1, <4>2, <4>3, <4>4 DEF Step
    <3>3. ASSUME NEW from, NEW to, Moves(t, from, to, at[t]),
                 from \cup to \subseteq Labels \ ({"lock", "join", "done"} \cup Holding)
          PROVE  /\ ~Popped_End(t)' /\ ~Popped_End(t) /\ ~Gone(t)' /\ ~Gone(t)
                 /\ \A n \in Regular : ~In(t, Holding, n)' /\ ~In(t, Holding, n)
      BY <3>3 DEF Moves, Popped_End, Gone, In
    <3>4. ASSUME NEW from, NEW to, Moves(t, from, to, at[t]), from \cup to \subseteq Holding
          PROVE  /\ ~Popped_End(t)' /\ ~Popped_End(t) /\ ~Gone(t)' /\ ~Gone(t)
                 /\ \A n \in Regular : In(t, Holding, n)' <=> In(t, Holding, n)
      BY <3>4 DEF Moves, Popped_End, Gone, In, Holding, Merging
    <3>5. CASE LockNode(t) /\ Moves(t, {"lock"}, {"merge"}, at[t])
      BY <3>1, <3>5 DEF Moves, Popped_End, Gone, In, Holding, Merging
    <3>6. CASE \/ PopEnd(t) /\ Moves(t, {"lock"}, {"join"}, at[t])
               \/ Moves(t, {"join"}, {"done"}, at[t])
      BY <3>6 DEF Moves, Popped_End, Gone, In, Holding, Merging
    <3>7. CASE \/ EndSort(t) /\ Moves(t, {"sorting"}, {"pop"}, EndNode)
               \/ Pop(t) /\ Moves(t, {"pop"}, {"lock"}, at'[t])
               \/ CheckParent(t) /\ Moves(t, {"parent"}, {"pop"}, EndNode)
      BY <3>7 DEF Moves, Popped_End, Gone, In, Holding, Merging
    <3> QED BY <3>2, <3>3, <3>4, <3>5, <3>6, <3>7
  <2>4. \/ heap'[EndNode] = heap[EndNode] /\ ~PopEnd(t) /\ ~(Pop(t) /\ at'[t] = EndNode)
           /\ ~(CheckParent(t) /\ at[t] = RootNode /\ Finished(RootNode))
        \/ heap'[EndNode] = heap[EndNode] - 1 /\ Pop(t) /\ at'[t] = EndNode
        \/ heap'[EndNode] = heap[EndNode] + 1 /\ PopEnd(t)
        \/ heap'[EndNode] = heap[EndNode] + 1 /\ CheckParent(t) /\ at[t] = RootNode /\ Finished(RootNode)
    <3>1. CASE Pop(t)
      <4>1. PICK n \in Nodes : heap' = [heap EXCEPT ![n] = @ - 1] /\ at' = [at EXCEPT ![t] = n]
        BY <3>1 DEF Pop
      <4>2. at'[t] = n /\ ~PopEnd(t) /\ ~CheckParent(t)
        BY <1>0, <3>1, <4>1 DEF TypeOK, Pop, PopEnd, CheckParent
      <4> QED BY <1>0, <3>1, <4>1, <4>2
    <3>2. CASE PopEnd(t)
      <4>1. at[t] = EndNode /\ heap' = [heap EXCEPT ![at[t]] = @ + 1]
        BY <1>0, <3>2, ActionMoves DEF PopEnd, queue_insert
      <4> QED BY <1>0, <3>2, <4>1
    <3>3. CASE CheckParent(t)
      <4>1. PICK n, p : n = at[t] /\ p = Parent(n)
        OBVIOUS
      <4>2. n \in Regular /\ p \in Nodes /\ (p = EndNode <=> n = RootNode)
            /\ (Level(n) = MERGE_ROOT <=> n = RootNode) /\ (Level(n) > MERGE_ROOT <=> n # RootNode)
        <5>1. pc[t] \in Holding
          BY <3>3 DEF CheckParent, Holding
        <5>2. n \in Regular
          BY <1>0, <4>1, <5>1 DEF LockInv
        <5> QED BY <4>1, <5>2, TreeFacts
      <4>3. ~Pop(t) /\ ~PopEnd(t)
        BY <3>3 DEF CheckParent, Pop, PopEnd
      <4>4. CASE n = RootNode /\ Finished(n)
        <5>1. heap' = [heap EXCEPT ![EndNode] = @ + 1]
          BY <3>3, <4>1, <4>2, <4>4 DEF CheckParent, queue_insert
        <5> QED BY <1>0, <3>3, <4>1, <4>4, <5>1
      <4>5. CASE n # RootNode \/ ~Finished(n)
        <5>1. heap' = heap \/ (p # EndNode /\ heap' = [heap EXCEPT ![p] = @ + 1])
          BY <3>3, <4>1, <4>2, <4>5 DEF CheckParent, queue_check_insert, queue_insert, queueVars
        <5> QED BY <1>0, <4>1, <4>3, <4>5, <5>1
      <4> QED BY <4>4, <4>5
    <3>4. CASE EndSort(t) \/ Check(t)
      <4>1. ~Pop(t) /\ ~PopEnd(t) /\ ~CheckParent(t)
        BY <3>4 DEF EndSort, Check, CheckParent, Pop, PopEnd
      <4>2. at[t] # EndNode
        <5>1. EndSort(t) => pc[t] \in Sorting
          BY DEF EndSort, Sorting
        <5>2. Check(t) => pc[t] \in Holding
          BY DEF Check, Holding
        <5> QED BY <1>0, <3>4, <5>1, <5>2 DEF LockInv, QueueInv, SortersAlone
      <4>3. heap' = heap \/ heap' = [heap EXCEPT ![at[t]] = @ + 1]
        BY <3>4 DEF EndSort, Check, queue_check_insert, queue_insert, queueVars
      <4> QED BY <1>0, <4>1, <4>2, <4>3
    <3>5. CASE ~(Pop(t) \/ PopEnd(t) \/ CheckParent(t) \/ EndSort(t) \/ Check(t))
      <4>1. heap' = heap
        BY <1>2, <3>5 DEF Step, BeginSort, Wait, Spurious, LockNode, Merge, Drain, StoreDest, Join,
           queueVars
      <4> QED BY <3>5, <4>1
    <3> QED BY <3>1, <3>2, <3>3, <3>4, <3>5
  <2> QED BY <2>2, <2>3, <2>4
<1> QED BY <1>1, <1>2

\* A node that is counted down to nothing is not locked again.
LEMMA DoneUnlocked ==
  ASSUME SafeInv, NEW t \in Threads, LockNode(t), at[t] \in Regular
  PROVE  Left(at[t]) > 0
<1>1. t \in Popped(at[t]) /\ at[t] \in Regular
  BY DEF LockNode, Popped
<1>2. queued[at[t]]
  BY <1>1 DEF SafeInv, SeenInv, QueueInv, QueuedOnce
<1> QED BY <1>2 DEF SafeInv, CountInv, QueuedLeft

\* The test of queue_check_insert_parent finds out whether the root is done.
LEMMA FinishedRoot ==
  ASSUME SafeInv, NEW t \in Threads, CheckParent(t), at[t] = RootNode
  PROVE  Finished(RootNode) <=> Left(RootNode) = 0
<1>1. RootNode \in Regular /\ TypeOK /\ LockInv
  BY TreeFacts DEF SafeInv, SeenInv
<1>2. \A s \in Threads : ~(pc[s] \in Merging /\ at[s] = RootNode)
  <2>1. pc[t] = "parent" /\ pc[t] \in Holding
    BY DEF CheckParent, Holding
  <2>2. \A s \in Threads : pc[s] \in Merging => pc[s] \in Holding /\ pc[s] # "parent"
    BY DEF Holding, Merging
  <2> QED BY <1>1, <2>1, <2>2, OnlyHolder
<1>3. LeftLo(RootNode) = node[RootNode].nlo /\ LeftHi(RootNode) = node[RootNode].nhi
  BY <1>1, <1>2, Views DEF Viewed
<1> QED BY <1>3 DEF Finished, Left

LEMMA EndSteps ==
  ASSUME SafeInv, SafeInv', EndOnce, EndComes, NEW t \in Threads, Step(t) \/ Spurious(t)
  PROVE  EndOnce' /\ EndComes'
<1>0. /\ TypeOK /\ LockInv /\ heap[EndNode] \in Nat /\ RootNode \in Regular
  BY TreeFacts DEF SafeInv, SeenInv, TypeOK
<1>1. Ended <=> heap[EndNode] > 0 \/ \E s \in Threads : Gone(s) \/ Popped_End(s)
  BY DEF Ended, Gone, Popped_End
<1>2. Ended' <=> heap'[EndNode] > 0 \/ \E s \in Threads : Gone(s)' \/ Popped_End(s)'
  BY DEF Ended, Gone, Popped_End
<1>3. EndOnce <=> (Ended => /\ Left(RootNode) = 0
                            /\ \A s \in Threads : ~In(s, Holding, RootNode)
                            /\ heap[EndNode] <= 1
                            /\ \A r, s \in Threads : Popped_End(r) /\ Popped_End(s) => r = s
                            /\ heap[EndNode] = 1 => \A s \in Threads : ~Popped_End(s))
  BY DEF EndOnce, Popped_End
<1>4. EndOnce' <=> (Ended' => /\ Left(RootNode)' = 0
                              /\ \A s \in Threads : ~In(s, Holding, RootNode)'
                              /\ heap'[EndNode] <= 1
                              /\ \A r, s \in Threads : Popped_End(r)' /\ Popped_End(s)' => r = s
                              /\ heap'[EndNode] = 1 => \A s \in Threads : ~Popped_End(s)')
  BY DEF EndOnce, Popped_End
<1>5. EndComes => (Left(RootNode) = 0 => \/ heap[EndNode] = 1
                                          \/ \E s \in Threads : Popped_End(s) \/ In(s, Holding, RootNode))
  BY DEF EndComes, Popped_End
<1>6. (Left(RootNode)' = 0 => \/ heap'[EndNode] = 1
                               \/ \E s \in Threads : Popped_End(s)' \/ In(s, Holding, RootNode)')
        => EndComes'
  BY DEF EndComes, Popped_End
<1>7. In(t, Merging, RootNode) \/ Left(RootNode)' = Left(RootNode)
  BY <1>0, LeftKept DEF Left
<1>8. LockNode(t) /\ at[t] = RootNode => Left(RootNode) > 0
  BY <1>0, DoneUnlocked
<1>9. CheckParent(t) /\ at[t] = RootNode => (Finished(RootNode) <=> Left(RootNode) = 0)
  BY FinishedRoot
<1>10. Left(RootNode) \in Nat
  BY <1>0, OwedFacts
<1>11. CheckParent(t) /\ at[t] = RootNode =>
         /\ In(t, Holding, RootNode) /\ ~In(t, Merging, RootNode)
         /\ \A s \in Threads : ~In(s, Holding, RootNode)'
  <2> SUFFICES ASSUME CheckParent(t), at[t] = RootNode
               PROVE  /\ In(t, Holding, RootNode) /\ ~In(t, Merging, RootNode)
                      /\ \A s \in Threads : ~In(s, Holding, RootNode)'
    OBVIOUS
  <2>1. OthersKeep(t) /\ pc[t] = "parent" /\ pc'[t] = "pop"
    BY <1>0, ActionMoves DEF Moves, SafeInv, SeenInv
  <2>2. In(t, Holding, RootNode) /\ ~In(t, Merging, RootNode) /\ ~In(t, Holding, RootNode)'
    BY <2>1 DEF In, Holding, Merging
  <2>3. \A s \in Threads \ {t} : In(s, Holding, RootNode)' => In(s, Holding, RootNode)
    BY <2>1 DEF In, OthersKeep, Holding, Merging
  <2>4. \A s \in Threads \ {t} : ~In(s, Holding, RootNode)
    BY <1>0, <2>2, OnlyHolder DEF In
  <2> QED BY <2>2, <2>3, <2>4
<1>12. PopEnd(t) => Popped_End(t) /\ ~Popped_End(t)'
  <2>1. PopEnd(t) => pc[t] = "lock" /\ pc'[t] = "join" /\ at[t] = EndNode
    BY <1>0, ActionMoves DEF Moves, SafeInv, SeenInv
  <2> QED BY <2>1 DEF Popped_End, In
<1>13. Pop(t) => /\ ~Popped_End(t)
                 /\ at'[t] = EndNode => heap[EndNode] > 0 /\ Popped_End(t)'
  <2>1. Pop(t) => pc[t] = "pop" /\ pc'[t] = "lock"
    BY <1>0, ActionMoves DEF Moves, SafeInv, SeenInv
  <2>2. Pop(t) => heap[at'[t]] > 0
    BY <1>0 DEF Pop, TypeOK
  <2> QED BY <2>1, <2>2 DEF Popped_End, In
<1>14. /\ \A s \in Threads : Popped_End(s)' => Popped_End(s) \/ (s = t /\ Pop(t) /\ at'[t] = EndNode)
       /\ \A s \in Threads : Popped_End(s) => Popped_End(s)' \/ (s = t /\ PopEnd(t))
       /\ \A s \in Threads : Gone(s)' => Gone(s) \/ (s = t /\ PopEnd(t))
       /\ \A s \in Threads : In(s, Holding, RootNode)' => 
            In(s, Holding, RootNode) \/ (s = t /\ LockNode(t) /\ at[t] = RootNode)
       /\ \A s \in Threads : In(s, Holding, RootNode) => 
            In(s, Holding, RootNode)' \/ (s = t /\ CheckParent(t) /\ at[t] = RootNode)
       /\ \/ heap'[EndNode] = heap[EndNode] /\ ~PopEnd(t) /\ ~(Pop(t) /\ at'[t] = EndNode)
             /\ ~(CheckParent(t) /\ at[t] = RootNode /\ Finished(RootNode))
          \/ heap'[EndNode] = heap[EndNode] - 1 /\ Pop(t) /\ at'[t] = EndNode
          \/ heap'[EndNode] = heap[EndNode] + 1 /\ PopEnd(t)
          \/ heap'[EndNode] = heap[EndNode] + 1 /\ CheckParent(t) /\ at[t] = RootNode /\ Finished(RootNode)
  BY <1>0, EndMoves
<1>15. In(t, Merging, RootNode) => In(t, Holding, RootNode) /\ In(t, Holding, RootNode)'
  <2>1. In(t, Merging, RootNode) => In(t, Holding, RootNode)
    BY DEF In, Holding
  <2> QED BY <1>11, <1>14, <2>1
<1> HIDE DEF Popped_End, Gone, Ended, EndOnce, EndComes
<1>16. CASE CheckParent(t) /\ at[t] = RootNode /\ Finished(RootNode)
  <2>1. ~Ended
    BY <1>3, <1>11, <1>16
  <2>2. heap[EndNode] = 0 /\ \A s \in Threads : ~Popped_End(s)
    BY <1>0, <1>1, <2>1
  <2>3. ~PopEnd(t) /\ ~Pop(t)
    BY <1>16 DEF CheckParent, PopEnd, Pop
  <2>4. heap'[EndNode] = 1 /\ \A s \in Threads : ~Popped_End(s)'
    BY <1>14, <1>16, <2>2, <2>3
  <2>5. Left(RootNode)' = 0
    BY <1>7, <1>9, <1>11, <1>16
  <2> QED BY <1>4, <1>6, <1>11, <1>16, <2>4, <2>5
<1>17. CASE ~(CheckParent(t) /\ at[t] = RootNode /\ Finished(RootNode))
  <2>1. /\ Ended' => Ended
        /\ Ended => Left(RootNode)' = 0 /\ \A s \in Threads : ~In(s, Holding, RootNode)'
    <3>1. Ended' => Ended
      BY <1>0, <1>1, <1>2, <1>12, <1>13, <1>14, <1>17
    <3>2. Ended => Left(RootNode)' = 0 /\ \A s \in Threads : ~In(s, Holding, RootNode)'
      BY <1>3, <1>7, <1>8, <1>10, <1>14, <1>15
    <3> QED BY <3>1, <3>2
  <2>2. EndOnce'
    <3> SUFFICES ASSUME Ended
                 PROVE  /\ heap'[EndNode] <= 1
                        /\ \A r, s \in Threads : Popped_End(r)' /\ Popped_End(s)' => r = s
                        /\ heap'[EndNode] = 1 => \A s \in Threads : ~Popped_End(s)'
      BY <1>4, <2>1
    <3>1. /\ heap[EndNode] \in {0, 1}
          /\ \A r, s \in Threads : Popped_End(r) /\ Popped_End(s) => r = s
          /\ heap[EndNode] = 1 => \A s \in Threads : ~Popped_End(s)
      BY <1>0, <1>3
    <3>2. CASE Pop(t) /\ at'[t] = EndNode
      <4>1. heap[EndNode] = 1 /\ heap'[EndNode] = 0
        <5>1. ~PopEnd(t) /\ ~CheckParent(t)
          BY <3>2 DEF Pop, PopEnd, CheckParent
        <5> QED BY <1>13, <1>14, <3>1, <3>2, <5>1
      <4>2. \A s \in Threads : Popped_End(s)' => s = t
        BY <1>14, <3>1, <4>1
      <4> QED BY <4>1, <4>2
    <3>3. CASE PopEnd(t)
      <4>1. heap[EndNode] = 0 /\ \A s \in Threads : Popped_End(s) => s = t
        BY <1>12, <3>1, <3>3
      <4>2. ~Pop(t) /\ ~CheckParent(t)
        BY <3>3 DEF Pop, PopEnd, CheckParent
      <4>3. heap'[EndNode] = 1 /\ \A s \in Threads : ~Popped_End(s)'
        BY <1>12, <1>14, <3>3, <4>1, <4>2
      <4> QED BY <4>3
    <3>4. CASE ~PopEnd(t) /\ ~(Pop(t) /\ at'[t] = EndNode)
      <4>1. heap'[EndNode] = heap[EndNode]
        BY <1>14, <1>17, <3>4
      <4>2. \A s \in Threads : Popped_End(s)' => Popped_End(s)
        BY <1>14, <3>4
      <4> QED BY <3>1, <4>1, <4>2
    <3> QED BY <3>2, <3>3, <3>4
  <2>3. EndComes'
    <3> SUFFICES ASSUME Left(RootNode)' = 0
                 PROVE  \/ heap'[EndNode] = 1
                        \/ \E s \in Threads : Popped_End(s)' \/ In(s, Holding, RootNode)'
      BY <1>6
    <3>1. CASE In(t, Merging, RootNode)
      BY <1>15, <3>1
    <3>2. CASE ~In(t, Merging, RootNode)
      <4>1. Left(RootNode) = 0
        BY <1>7, <3>2
      <4>2. \/ heap[EndNode] = 1
            \/ \E s \in Threads : Popped_End(s) \/ In(s, Holding, RootNode)
        BY <1>5, <4>1
      <4>3. CASE heap[EndNode] = 1
        <5>1. Ended /\ \A s \in Threads : ~Popped_End(s)
          BY <1>1, <1>3, <4>3
        <5>2. ~PopEnd(t)
          BY <1>12, <5>1
        <5>3. CASE Pop(t) /\ at'[t] = EndNode
          BY <1>13, <5>3
        <5>4. CASE ~(Pop(t) /\ at'[t] = EndNode)
          BY <1>14, <1>17, <4>3, <5>2, <5>4
        <5> QED BY <5>3, <5>4
      <4>4. ASSUME NEW s \in Threads, Popped_End(s)
            PROVE  heap'[EndNode] = 1 \/ Popped_End(s)'
        <5>1. CASE PopEnd(t)
          <6>1. Ended /\ heap[EndNode] = 0
            BY <1>0, <1>1, <1>3, <1>12, <4>4, <5>1
          <6>2. ~Pop(t) /\ ~CheckParent(t)
            BY <5>1 DEF Pop, PopEnd, CheckParent
          <6> QED BY <1>14, <5>1, <6>1, <6>2
        <5> QED BY <1>14, <4>4, <5>1
      <4>5. ASSUME NEW s \in Threads, In(s, Holding, RootNode)
            PROVE  In(s, Holding, RootNode)'
        BY <1>9, <1>14, <1>17, <4>1, <4>5
      <4> QED BY <4>2, <4>3, <4>4, <4>5
    <3> QED BY <3>1, <3>2
  <2> QED BY <2>2, <2>3
<1> QED BY <1>16, <1>17

EndInv == SafeInv /\ EndOnce /\ EndComes

\* The MERGE_END node, with all the rest, is an invariant.
LEMMA EndInvariant == Spec => []EndInv
<1>1. ASSUME SafeInv, SafeInv', EndOnce, EndComes, [Next]_vars
      PROVE  EndOnce' /\ EndComes'
  <2>1. ASSUME NEW t \in Threads, Step(t) \/ Spurious(t)
        PROVE  EndOnce' /\ EndComes'
    BY <1>1, <2>1, EndSteps
  <2>2. CASE UNCHANGED vars
    <3>1. UNCHANGED <<node, lock, heap, pc, at, m>>
      BY <2>2 DEF vars
    <3>2. \A n : LeftLo(n)' = LeftLo(n) /\ LeftHi(n)' = LeftHi(n)
      BY <3>1 DEF LeftLo, LeftHi, MergedBy
    <3> QED BY <1>1, <3>1, <3>2 DEF EndOnce, EndComes, Ended, In, Left
  <2> QED BY <1>1, <2>1, <2>2 DEF Next, Return
<1>2. SafeInv /\ SafeInv' /\ EndOnce /\ EndComes /\ [Next]_vars => EndOnce' /\ EndComes'
  BY <1>1
<1> QED
  BY <1>2, SafeInvariant, InitEnd, PTL DEF Spec, EndInv

\* The threads that pop the MERGE_END node may all leave: wherever the node is, in the
\* queue or popped, every node is done and no thread sorts or merges.
THEOREM EndMeansDoneHolds == Spec => []EndMeansDone
<1>1. ASSUME EndInv PROVE EndMeansDone
  <2>0. SafeInv /\ TypeOK /\ QueueInv /\ LockInv /\ CountInv
    BY <1>1 DEF EndInv, SafeInv, SeenInv
  <2>1. CASE ~Ended
    <3>0. heap[EndNode] \in Nat /\ ~(heap[EndNode] > 0)
      BY <2>0, <2>1, TreeFacts DEF Ended, TypeOK
    <3>1. heap[EndNode] = 0
      BY <3>0
    <3>2. \A t \in Threads : pc[t] \notin {"join", "done"} /\ ~(pc[t] = "lock" /\ at[t] = EndNode)
      BY <2>1 DEF Ended, In
    <3> QED BY <3>1, <3>2 DEF EndMeansDone
  <2>2. CASE Ended
    <3>1. /\ Left(RootNode) = 0 /\ heap[EndNode] <= 1
          /\ \A t \in Threads : ~In(t, Holding, RootNode)
      BY <1>1, <2>2 DEF EndInv, EndOnce
    <3>2. \A n \in Regular : Called(n) => Left(n) = 0 /\ (n # RootNode => Owed(n) = 0)
      BY <2>0, <3>1, AllDone
    <3>3. ASSUME NEW n \in Regular
          PROVE  heap[n] = 0 /\ Popped(n) = {}
      <4>1. ~queued[n]
        BY <2>0, <3>2 DEF CountInv, QueuedLeft, QueueInv, UncalledIdle, Idle
      <4>2. heap[n] \in Nat /\ heap[n] <= 1 /\ ~(heap[n] = 1 \/ Popped(n) # {})
        BY <2>0, <4>1, TreeFacts DEF QueueInv, QueuedOnce, TypeOK
      <4> QED BY <4>2
    <3>4. ASSUME NEW n \in Regular, InUse(n)
          PROVE  LeftLo(n) + LeftHi(n) = 0
      <4>1. Called(n)
        BY <2>0, <3>4 DEF InUse, CountInv, SortedApart, QueueInv, UncalledIdle
      <4> QED BY <3>2, <4>1 DEF Left
    <3>5. ASSUME NEW t \in Threads, pc[t] \in Merging
          PROVE  FALSE
      <4>1. PICK n \in Regular : n = at[t]
        BY <2>0, <3>5 DEF LockInv, Holding
      <4>2. In(t, Merging, n) /\ In(t, Holding, n) /\ pc[t] # "none"
        BY <3>5, <4>1 DEF In, Holding, Merging
      <4>3. Called(n) /\ n # RootNode
        BY <2>0, <3>1, <4>1, <4>2, WorkerFacts
      <4>4. Owed(n) > 0
        BY <2>0, <4>2, <4>3 DEF CountInv, MergersOwe
      <4> QED BY <3>2, <4>3, <4>4
    <3>6. ASSUME NEW t \in Threads, pc[t] \in Sorting
          PROVE  FALSE
      <4>1. PICK n \in Regular : n = at[t]
        BY <2>0, <3>6 DEF QueueInv, SortersAlone
      <4>2. pc[t] # "none" /\ In(t, Sorting, n)
        BY <3>6, <4>1 DEF Sorting, In
      <4>3. Called(n) /\ ~Split(n) /\ ~Sorted(n)
        BY <2>0, <3>6, <4>1, <4>2, WorkerFacts DEF QueueInv, SortersAlone, CountInv, SortersNew
      <4>4. node[n] = NewNode(n) /\ Tree[n].nlo + Tree[n].nhi >= 2
        BY <2>0, <4>3 DEF CountInv, UnusedNew, CalledLarge, InUse
      <4>5. \A s \in Threads : ~(pc[s] \in Merging /\ at[s] = n)
        <5>1. \A s \in Threads \ {t} : pc[s] # "none" => at[s] # n
          BY <2>0, <3>6, <4>1 DEF QueueInv, SortersAlone
        <5> QED BY <3>6, <5>1 DEF Merging, Sorting
      <4>6. LeftLo(n) = node[n].nlo /\ LeftHi(n) = node[n].nhi
        BY <2>0, <4>5, Views DEF Viewed
      <4>7. Left(n) = Tree[n].nlo + Tree[n].nhi
        BY <4>4, <4>6 DEF Left, NewNode
      <4> QED BY <3>2, <4>3, <4>4, <4>7
    <3> QED BY <3>1, <3>3, <3>4, <3>5, <3>6 DEF EndMeansDone
  <2> QED BY <2>1, <2>2
<1> QED BY <1>1, EndInvariant, PTL
-----------------------------------------------------------------------------
(* Nothing is left lying *)

\* What queue_check_insert tests, when it reads the node's ends as they are.
Mergeable(n) ==
  /\ node[n].lo # node[n].end_lo \/ node[n].hi # node[n].end_hi
  /\ node[n].lo # node[n].end_lo \/ node[n].nlo = 0
  /\ node[n].hi # node[n].end_hi \/ node[n].nhi = 0

\* It is what CanMerge says, unless a thread is merging the node.
LEMMA MergeableMeans ==
  SafeInv => \A n \in Regular :
               (\A s \in Threads : ~In(s, Merging, n)) => (CanMerge(n) <=> Mergeable(n))
<1> SUFFICES ASSUME SafeInv, NEW n \in Regular, \A s \in Threads : ~In(s, Merging, n)
             PROVE  CanMerge(n) <=> Mergeable(n)
  OBVIOUS
<1>1. LeftLo(n) = node[n].nlo /\ LeftHi(n) = node[n].nhi
  BY Views DEF SafeInv, SeenInv, Viewed, In
<1>2. node[n] \in NodeType /\ node[n].lo <= node[n].end_lo /\ node[n].hi <= node[n].end_hi
  BY TreeFacts DEF SafeInv, SeenInv, TypeOK, NodeType, CountInv, CountsOK, CountOK
<1>3. /\ AvailLo(n) # {} <=> node[n].lo # node[n].end_lo
      /\ AvailHi(n) # {} <=> node[n].hi # node[n].end_hi
  <2>1. ASSUME NEW a \in Int, NEW b \in Int, a <= b
        PROVE  a..(b - 1) # {} <=> a # b
    <3>1. a # b => a \in a..(b - 1)
      BY <2>1
    <3>2. a = b => a..(b - 1) = {}
      OBVIOUS
    <3> QED BY <3>1, <3>2
  <2> QED BY <1>2, <2>1 DEF AvailLo, AvailHi, NodeType
<1> QED BY <1>1, <1>3 DEF CanMerge, Mergeable

LEMMA MergeableNext ==
  SafeInv' => (\A n \in Regular :
                 (\A s \in Threads : ~In(s, Merging, n)) => (CanMerge(n) <=> Mergeable(n)))'
BY MergeableMeans, PTL

\* A thread that sees a node goes on until it checks it.
LEMMA SeeingStays ==
  ASSUME TypeOK, QueueInv, NEW t \in Threads, Step(t) \/ Spurious(t),
         NEW s \in Threads, NEW n \in Regular, In(s, Seeing, n)
  PROVE  In(s, Seeing, n)' \/ (s = t /\ Check(t) /\ at[t] = n)
<1>1. pc[s] \in Seeing /\ at[s] = n
  BY DEF In
<1>2. CASE Create(t)
  <2>1. /\ pc' = [pc EXCEPT ![Tree[at[t]].lo_child] = "sortlines"]
        /\ at' = [at EXCEPT ![t] = Tree[at[t]].hi_child]
        /\ at[t] \in Interior /\ pc[t] = "sortlines"
    BY <1>2 DEF Create, MaySplit
  <2>2. pc[Tree[at[t]].lo_child] = "none"
    BY <2>1, TreeFacts DEF QueueInv, SortersAlone, Sorting, Split
  <2>3. s # t /\ s # Tree[at[t]].lo_child
    BY <1>1, <2>1, <2>2 DEF Seeing, Merging
  <2>4. pc'[s] = pc[s] /\ at'[s] = at[s]
    BY <2>1, <2>3 DEF TypeOK
  <2> QED BY <1>1, <2>4 DEF In
<1>3. CASE ~Create(t) /\ s # t
  <2>1. OthersKeep(t)
    BY <1>3, ActionMoves DEF Moves, Step
  <2> QED BY <1>1, <1>3, <2>1 DEF OthersKeep, In, Seeing, Merging
<1>4. CASE ~Create(t) /\ s = t
  BY <1>1, <1>4, ActionMoves DEF Moves, Step, In, Seeing, Merging
<1> QED BY <1>2, <1>3, <1>4

\* Only merge_loop, which locks the node, takes back the queued flag.
LEMMA Unqueued ==
  ASSUME TypeOK, NEW t \in Threads, Step(t) \/ Spurious(t), NEW n \in Regular,
         queued[n], ~queued'[n]
  PROVE  LockNode(t) /\ at[t] = n
<1>1. queued \in [Nodes -> BOOLEAN] /\ n \in Nodes
  BY TreeFacts DEF TypeOK
<1>2. \/ queued' = queued
      \/ \E k \in Nodes : queued' = [queued EXCEPT ![k] = TRUE]
      \/ LockNode(t) /\ queued' = [queued EXCEPT ![at[t]] = FALSE]
  <2>1. at[t] \in Nodes
    BY DEF TypeOK
  <2>2. at[t] \in Regular => Parent(at[t]) \in Nodes
    BY TreeFacts
  <2>3. CheckParent(t) => \/ queued' = queued
                          \/ queued' = [queued EXCEPT ![Parent(at[t])] = TRUE]
    BY DEF CheckParent, queue_check_insert, queue_insert, queueVars
  <2>4. EndSort(t) \/ PopEnd(t) \/ Check(t) =>
          queued' = queued \/ queued' = [queued EXCEPT ![at[t]] = TRUE]
    BY DEF EndSort, PopEnd, Check, queue_check_insert, queue_insert, queueVars
  <2>5. ~(EndSort(t) \/ PopEnd(t) \/ Check(t) \/ CheckParent(t) \/ LockNode(t)) => queued' = queued
    BY DEF Step, Create, BeginSort, Pop, Wait, Spurious, Merge, Drain, StoreDest, Join, queueVars
  <2>6. CheckParent(t) => queued' = queued \/ \E k : queued' = [queued EXCEPT ![k] = TRUE]
    BY <2>3
  <2>7. LockNode(t) => queued' = [queued EXCEPT ![at[t]] = FALSE]
    BY DEF LockNode
  <2>8. ASSUME NEW k, queued' = [queued EXCEPT ![k] = TRUE] PROVE FALSE
    BY <1>1, <2>8
  <2> QED BY <2>1, <2>4, <2>5, <2>6, <2>7, <2>8
<1> QED BY <1>1, <1>2

\* No node of the tree lies there that could be merged and that nobody looks at.
Attended == \A n \in Regular : InUse(n) /\ ~queued[n] /\ CanMerge(n) => AboutToCheck(n)

LEMMA InitAttended == Init => Attended
<1> SUFFICES ASSUME Init, NEW n \in Regular PROVE ~CanMerge(n)
  BY DEF Attended
<1>1. SafeInv
  BY InitTypeOK, InitQueueInv, InitLockInv, InitSeenFresh, InitCountInv DEF SafeInv, SeenInv
<1>2. \A s \in Threads : ~In(s, Merging, n)
  BY DEF Init, Merging, In
<1>3. node[n].lo = node[n].end_lo /\ node[n].hi = node[n].end_hi
  BY TreeFacts DEF Init
<1> QED BY <1>1, <1>2, <1>3, MergeableMeans DEF Mergeable

LEMMA AttendedSteps ==
  ASSUME SafeInv, SafeInv', Attended, NEW t \in Threads, Step(t) \/ Spurious(t)
  PROVE  Attended'
<1> SUFFICES ASSUME NEW n \in Regular, InUse(n)', ~queued'[n], CanMerge(n)'
             PROVE  AboutToCheck(n)'
  BY DEF Attended
<1>0. TypeOK /\ QueueInv /\ LockInv /\ SeenFresh /\ CountInv /\ n # EndNode
  BY TreeFacts DEF SafeInv, SeenInv
<1>1. ASSUME NEW s \in Threads, In(s, Seeing, n)'
      PROVE  AboutToCheck(n)'
  BY <1>1 DEF In, Seeing, AboutToCheck
<1>2. ASSUME NEW c \in Regular, Parent(c) = n, Stored(c)'
      PROVE  AboutToCheck(n)'
  <2>1. c # EndNode
    BY TreeFacts
  <2>2. PICK s \in Threads : pc'[s] \in {"check", "parent"} /\ at'[s] = c
    BY <1>2 DEF Stored
  <2> QED BY <1>2, <2>1, <2>2 DEF AboutToCheck
<1>3. CASE \A s \in Threads : ~In(s, Seeing, n)'
  <2>1. CanMerge(n)' <=> Mergeable(n)'
    <3>1. \A s \in Threads : ~In(s, Merging, n)'
      BY <1>3 DEF In, Seeing
    <3> QED BY <3>1, MergeableNext
  <2>2. CASE Check(t) /\ at[t] = n
    <3>1. PICK e \in Ends(t) : queue_check_insert(t, n, e, "parent")
      BY <2>2 DEF Check
    <3>2. node' = node /\ pc[t] = "check" /\ pc[t] \in Seeing
      BY <2>2 DEF Check, tableVars, Seeing
    <3>3. e \in {m[t].end_lo, node[n].end_lo} \X {m[t].end_hi, node[n].end_hi}
      BY <2>2 DEF Ends
    <3>4. CASE e[1] = node[n].end_lo /\ e[2] = node[n].end_hi
      <4>1. ~queued[n]
        <5>1. In(t, Seeing, n)
          BY <2>2, <3>2 DEF In
        <5> QED BY <1>0, <5>1 DEF CountInv, SeensOK
      <4>2. Ready(n, e) => queued'[n]
        BY <1>0, <3>1, TreeFacts DEF queue_check_insert, queue_insert, TypeOK
      <4>3. ~Mergeable(n)
        BY <3>4, <4>1, <4>2 DEF Ready, LoAvail, HiAvail, Mergeable
      <4> QED BY <2>1, <3>2, <4>3 DEF Mergeable
    <3>5. CASE ~(e[1] = node[n].end_lo /\ e[2] = node[n].end_hi)
      <4>1. m[t].end_lo # node[n].end_lo \/ m[t].end_hi # node[n].end_hi
        BY <3>3, <3>5
      <4>2. PICK c \in {Tree[n].lo_child, Tree[n].hi_child} : n \in Interior /\ Stored(c)
        BY <1>0, <2>2, <3>2, <4>1 DEF SeenFresh
      <4>3. c \in Regular /\ c # RootNode /\ Parent(c) = n
        BY <4>2, TreeFacts
      <4>4. Stored(c)'
        BY <1>0, <2>2, <3>2, <4>2, <4>3, StoredStays
      <4> QED BY <1>2, <4>3, <4>4
    <3> QED BY <3>4, <3>5
  <2>3. CASE ~(Check(t) /\ at[t] = n)
    <3>1. \A s \in Threads : ~In(s, Seeing, n)
      BY <1>0, <1>3, <2>3, SeeingStays
    <3>2. CASE node'[n] # node[n]
      <4>1. ~(EndSort(t) /\ at[t] = n)
        <5>1. EndSort(t) /\ at[t] = n => queued'[n]
          BY <1>0, TreeFacts DEF EndSort, queue_insert, TypeOK
        <5> QED BY <5>1
      <4>2. ~((Merge(t) \/ Drain(t) \/ StoreDest(t)) /\ at[t] = n)
        BY <3>1 DEF Merge, Drain, StoreDest, In, Seeing, Merging
      <4>3. StoreDest(t) /\ n \in Interior /\ at[t] \in {Tree[n].lo_child, Tree[n].hi_child}
        BY <1>0, <3>2, <4>1, <4>2, NodeChange
      <4>4. at[t] \in Regular /\ Parent(at[t]) = n /\ at'[t] = at[t] /\ pc'[t] = "check"
        BY <1>0, <4>3, ActionMoves, TreeFacts DEF Moves
      <4>5. Stored(at[t])'
        <5>1. PICK c : c = at[t]
          OBVIOUS
        <5> QED BY <4>4 DEF Stored
      <4> QED BY <1>2, <4>4, <4>5
    <3>3. CASE node'[n] = node[n]
      <4>1. Mergeable(n) /\ CanMerge(n)
        <5>1. Mergeable(n)
          BY <2>1, <3>3 DEF Mergeable
        <5>2. \A s \in Threads : ~In(s, Merging, n)
          BY <3>1 DEF In, Seeing
        <5> QED BY <5>1, <5>2, MergeableMeans
      <4>2. InUse(n)
        <5>1. ~InUse(n) => node[n].lo = node[n].end_lo /\ node[n].hi = node[n].end_hi
          <6>1. ~InUse(n) => node[n] = NewNode(n)
            BY <1>0 DEF CountInv, UnusedNew
          <6> QED BY <6>1 DEF NewNode
        <5> QED BY <4>1, <5>1 DEF Mergeable
      <4>3. ~queued[n]
        <5> SUFFICES ASSUME queued[n] PROVE FALSE
          OBVIOUS
        <5>1. LockNode(t) /\ at[t] = n
          BY <1>0, Unqueued
        <5>2. pc'[t] = "merge" /\ at'[t] = n
          BY <1>0, <5>1, ActionMoves DEF Moves
        <5> QED BY <1>3, <5>2 DEF In, Seeing, Merging
      <4>4. AboutToCheck(n)
        BY <4>1, <4>2, <4>3 DEF Attended
      <4>5. PICK s \in Threads : at[s] # EndNode /\ Parent(at[s]) = n /\ pc[s] \in {"check", "parent"}
        BY <3>1, <4>4 DEF AboutToCheck, In, Seeing
      <4>6. at[s] \in Regular
        BY <1>0, <4>5 DEF LockInv, Holding
      <4>7. at[s] # RootNode /\ Level(at[s]) > MERGE_ROOT /\ Level(at[s]) # MERGE_ROOT
        BY <1>0, <4>5, <4>6, TreeFacts
      <4>8. CASE s = t /\ CheckParent(t)
        <5>1. queue_check_insert(t, n, <<node[n].end_lo, node[n].end_hi>>, "pop")
          BY <4>5, <4>7, <4>8 DEF CheckParent
        <5>2. Ready(n, <<node[n].end_lo, node[n].end_hi>>)
          BY <4>1, <4>3 DEF Ready, LoAvail, HiAvail, Mergeable
        <5>3. queued'[n]
          BY <1>0, <5>1, <5>2, TreeFacts DEF queue_check_insert, queue_insert, TypeOK
        <5> QED BY <5>3
      <4>9. CASE ~(s = t /\ CheckParent(t))
        <5>1. PICK c \in Regular : c = at[s]
          BY <4>6
        <5>2. In(s, Holding, c)
          BY <4>5, <5>1 DEF In, Holding
        <5>3. pc'[s] \in {"check", "parent"} /\ at'[s] = c
          <6>1. CASE Create(t)
            <7>1. /\ pc' = [pc EXCEPT ![Tree[at[t]].lo_child] = "sortlines"]
                  /\ at' = [at EXCEPT ![t] = Tree[at[t]].hi_child]
                  /\ at[t] \in Interior /\ pc[t] = "sortlines"
              BY <6>1 DEF Create, MaySplit
            <7>2. pc[Tree[at[t]].lo_child] = "none"
              BY <1>0, <7>1, TreeFacts DEF QueueInv, SortersAlone, Sorting, Split
            <7>3. s # t /\ s # Tree[at[t]].lo_child
              BY <4>5, <7>1, <7>2
            <7>4. pc'[s] = pc[s] /\ at'[s] = at[s]
              BY <1>0, <7>1, <7>3 DEF TypeOK
            <7> QED BY <4>5, <5>1, <7>4
          <6>2. CASE ~Create(t) /\ s # t
            <7>1. OthersKeep(t)
              BY <1>0, <6>2, ActionMoves DEF Moves, Step
            <7> QED BY <4>5, <5>1, <6>2, <7>1 DEF OthersKeep
          <6>3. CASE ~Create(t) /\ s = t
            <7>1. Check(t)
              BY <1>0, <4>5, <4>9, <6>3, ActionMoves DEF Moves, Step, Merging
            <7> QED BY <1>0, <5>1, <6>3, <7>1, ActionMoves DEF Moves
          <6> QED BY <6>1, <6>2, <6>3
        <5>4. Stored(c)'
          BY <5>3 DEF Stored
        <5> QED BY <1>2, <4>5, <5>1, <5>4
      <4> QED BY <4>8, <4>9
    <3> QED BY <3>2, <3>3
  <2> QED BY <2>2, <2>3
<1> QED BY <1>1, <1>3

\* While there is a node in the queue, somebody who may take it is not asleep.
Idlers == {"none", "wait", "join", "done"}
Woken == waiting # {} /\ (\E n \in Nodes : heap[n] > 0) => \E t \in Threads : pc[t] \notin Idlers

LEMMA WokenSteps ==
  ASSUME TypeOK, QueueInv, Woken, NEW t \in Threads, Step(t) \/ Spurious(t)
  PROVE  Woken'
<1> SUFFICES ASSUME waiting' # {}, NEW n \in Nodes, heap'[n] > 0
             PROVE  \E s \in Threads : pc'[s] \notin Idlers
  BY DEF Woken
<1>1. CASE Create(t)
  <2>1. pc' = [pc EXCEPT ![Tree[at[t]].lo_child] = "sortlines"] /\ pc[t] = "sortlines"
    BY <1>1 DEF Create
  <2>2. pc'[t] = "sortlines"
    BY <2>1 DEF TypeOK
  <2> QED BY <2>2 DEF Idlers
<1>2. CASE Wait(t)
  BY <1>2 DEF Wait
<1>3. CASE PopEnd(t)
  <2>1. pc[t] = "lock" /\ Signal(t, "join")
    BY <1>3 DEF PopEnd, queue_insert
  <2>2. PICK w \in waiting : pc' = [pc EXCEPT ![w] = "pop", ![t] = "join"]
    BY <2>1 DEF Signal
  <2>3. w \in Threads /\ w # t
    BY <2>1 DEF TypeOK, QueueInv, WaitersWait
  <2>4. pc'[w] = "pop"
    BY <2>2, <2>3 DEF TypeOK
  <2> QED BY <2>3, <2>4 DEF Idlers
<1>4. CASE Join(t)
  <2>1. pc[t] = "join" /\ pc' = [pc EXCEPT ![t] = "done"] /\ waiting' = waiting /\ heap' = heap
    BY <1>4 DEF Join, Goto, queueVars
  <2>2. PICK s \in Threads : pc[s] \notin Idlers
    BY <2>1 DEF Woken
  <2>3. s # t /\ pc'[s] = pc[s]
    BY <2>1, <2>2 DEF Idlers, TypeOK
  <2> QED BY <2>2, <2>3
<1>5. CASE ~(Create(t) \/ Wait(t) \/ PopEnd(t) \/ Join(t))
  <2>1. pc'[t] \notin Idlers
    BY <1>5, ActionMoves DEF Moves, Step, Idlers, Merging
  <2> QED BY <2>1
<1> QED BY <1>1, <1>2, <1>3, <1>4, <1>5

\* No work is forgotten: a node that can be merged is queued or about to be looked at,
\* the MERGE_END node comes after the root is done, and while a node is queued not all
\* threads wait.
THEOREM NeverStrandedHolds == Spec => []NeverStranded
<1>1. Init => Attended /\ Woken
  BY InitAttended DEF Init, Woken
<1>2. ASSUME SafeInv, SafeInv', Attended, Woken, [Next]_vars
      PROVE  Attended' /\ Woken'
  <2>1. ASSUME NEW t \in Threads, Step(t) \/ Spurious(t)
        PROVE  Attended' /\ Woken'
    BY <1>2, <2>1, AttendedSteps, WokenSteps DEF SafeInv, SeenInv
  <2>2. CASE UNCHANGED vars
    <3>1. UNCHANGED <<node, lock, queued, heap, waiting, pc, at, m>>
      BY <2>2 DEF vars
    <3>2. \A n : /\ CanMerge(n)' <=> CanMerge(n)
                 /\ InUse(n)' <=> InUse(n)
                 /\ AboutToCheck(n)' <=> AboutToCheck(n)
      BY <3>1 DEF CanMerge, AvailLo, AvailHi, LeftLo, LeftHi, MergedBy, InUse, Split, Sorted,
         AboutToCheck
    <3> QED BY <1>2, <3>1, <3>2 DEF Attended, Woken
  <2> QED BY <1>2, <2>1, <2>2 DEF Next, Return
<1>3. SafeInv /\ SafeInv' /\ Attended /\ Woken /\ [Next]_vars => Attended' /\ Woken'
  BY <1>2
<1>4. ASSUME EndInv, Attended, Woken
      PROVE  NeverStranded
  <2>1. LeftLo(RootNode) + LeftHi(RootNode) = 0
          => \/ heap[EndNode] = 1
             \/ AboutToCheck(RootNode)
             \/ AboutToCheck(EndNode)
             \/ \E t \in Threads : at[t] = EndNode /\ pc[t] = "lock"
    <3> SUFFICES ASSUME NEW t \in Threads, In(t, Holding, RootNode)
                 PROVE  AboutToCheck(RootNode) \/ AboutToCheck(EndNode)
      BY <1>4 DEF EndInv, EndComes, In, Left
    <3>1. at[t] = RootNode /\ (pc[t] \in Merging \cup {"check"} \/ pc[t] = "parent")
      BY DEF In, Holding
    <3>2. Parent(RootNode) = EndNode /\ RootNode # EndNode
      BY TreeFacts
    <3> QED BY <3>1, <3>2 DEF AboutToCheck
  <2> QED BY <1>4, <2>1 DEF NeverStranded, Attended, Woken, Idlers
<1>5. EndInv /\ Attended /\ Woken => NeverStranded
  BY <1>4
<1> QED
  BY <1>1, <1>3, <1>5, SafeInvariant, EndInvariant, PTL DEF Spec
=============================================================================

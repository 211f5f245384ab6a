---------------------------- MODULE ParallelMergeOrder ----------------------------
(***************************************************************************)
(* Theorems about ParallelMerge that rest on where each line is: that it   *)
(* implements AbstractSort, so that what is written is the stable sort of  *)
(* the lines, and that no line is lost or doubled on its way up the tree,  *)
(* whatever the tree, the input and the interleaving of the threads.       *)
(***************************************************************************)
EXTENDS ParallelMergeProofs, FiniteSetTheorems

-----------------------------------------------------------------------------
(* The lines of a node *)

\* A node has two sides, each with lines of its own: the lines of a node are consecutive
\* lines of the input, and a child has the lines of a side of its parent.
Sides == {"lo", "hi"}
Other(s) == IF s = "lo" THEN "hi" ELSE "lo"

Total(n)    == Tree[n].nlo + Tree[n].nhi
Count(n, s) == IF s = "lo" THEN Tree[n].nlo ELSE Tree[n].nhi
First(n, s) == IF s = "lo" THEN LinesOf(n) ELSE LinesOf(n) + Tree[n].nlo
Rng(n)      == (LinesOf(n) + 1)..(LinesOf(n) + Total(n))
Part(n, s)  == (First(n, s) + 1)..(First(n, s) + Count(n, s))
Child(n, s) == IF s = "lo" THEN Tree[n].lo_child ELSE Tree[n].hi_child

\* The slot of a region of the table that the b-th line has, if all are there in order.
Addr(region, b) == NLines * region + b - 1

LEMMA LevelFacts ==
  /\ \A n \in Regular : Level(n) \in Nat /\ Level(n) >= 1
  /\ \A n \in Regular \ {RootNode} : Level(n) = Level(Parent(n)) + 1
  /\ Level(RootNode) = 1
<1>1. \A n \in Regular : Level(n) = Level(Parent(n)) + 1
  BY TreeAssumption DEF WellLinked, Nodes, Regular, Parent, Level
<1>2. \A n \in Regular : Level(n) \in Nat /\ Level(n) # 0
  BY TreeFacts DEF MERGE_END
<1>3. Level(RootNode) = 1
  BY TreeFacts DEF MERGE_ROOT
<1> QED BY <1>1, <1>2, <1>3

\* Where the lines of a node and of its children are.
LEMMA PlaceFacts ==
  /\ LinesOf(RootNode) = 0 /\ Total(RootNode) = NLines
  /\ \A n \in Regular :
       /\ LinesOf(n) \in Int /\ Tree[n].nlo \in Nat /\ Tree[n].nhi \in Nat /\ Total(n) \in Nat
       /\ Tree[n].lo \in Nat /\ Tree[n].hi = Tree[n].lo + Tree[n].nlo
       /\ Tree[n].lo = NLines * Level(n) + LinesOf(n) /\ NLines * Level(n) \in Nat
       /\ Total(n) = Tree[n].nlo + Tree[n].nhi
  /\ \A n \in Interior :
       /\ LinesOf(Tree[n].lo_child) = LinesOf(n)
       /\ LinesOf(Tree[n].hi_child) = LinesOf(n) + Tree[n].nlo
       /\ Total(Tree[n].lo_child) = Tree[n].nlo
       /\ Total(Tree[n].hi_child) = Tree[n].nhi
       /\ Tree[n].hi + Tree[n].nhi <= TableLines
<1>0. NLines \in Nat /\ NLines >= 2 /\ TableLines \in Nat
  BY SizesAssumption
<1>1. /\ Tree[RootNode].lo = NLines
      /\ \A n \in Regular : Tree[n].hi = Tree[n].lo + Tree[n].nlo
      /\ \A n \in Interior : /\ Tree[Tree[n].lo_child].lo = Tree[n].lo + NLines
                             /\ Tree[Tree[n].hi_child].lo = Tree[n].hi + NLines
                             /\ Tree[n].hi + Tree[n].nhi <= TableLines
  BY PlacesAssumption DEF WellPlaced, Nodes, Regular, Interior
<1>2. ASSUME NEW n \in Regular
      PROVE  /\ Tree[n].nlo \in Nat /\ Tree[n].nhi \in Nat /\ Tree[n].lo \in Nat /\ Tree[n].hi \in Nat
  BY SizeFacts
<1>3. ASSUME NEW n \in Regular
      PROVE  /\ LinesOf(n) \in Int
             /\ Tree[n].lo = NLines * Level(n) + LinesOf(n) /\ NLines * Level(n) \in Nat
  <2> DEFINE x == NLines * Level(n)
  <2>1. x \in Nat
    BY <1>0, LevelFacts, Product
  <2>2. LinesOf(n) = Tree[n].lo - x
    BY DEF LinesOf
  <2> HIDE DEF x
  <2>3. LinesOf(n) \in Int /\ Tree[n].lo = x + LinesOf(n)
    BY <1>2, <2>1, <2>2
  <2> QED BY <2>1, <2>3 DEF x
<1>4. ASSUME NEW n \in Regular
      PROVE  Total(n) \in Nat /\ Total(n) = Tree[n].nlo + Tree[n].nhi
  BY <1>2 DEF Total
<1>5. LinesOf(RootNode) = 0
  BY <1>0, <1>1, LevelFacts DEF LinesOf
<1>6. ASSUME NEW n \in Interior, NEW c \in Regular, c # RootNode, Parent(c) = n
      PROVE  LinesOf(c) = Tree[c].lo - NLines - NLines * Level(n)
  <2> DEFINE x == NLines * Level(n)
  <2>1. n \in Regular /\ Level(n) \in Nat /\ Level(c) = Level(n) + 1
    BY <1>6, TreeFacts, LevelFacts
  <2>2. \A a, b \in Nat : a * (b + 1) = a * b + a
    OBVIOUS
  <2>3. NLines * Level(c) = x + NLines
    BY <1>0, <2>1, <2>2
  <2>4. x \in Nat /\ Tree[c].lo \in Nat
    BY <1>2, <1>3, <1>6, <2>1
  <2>5. LinesOf(c) = Tree[c].lo - (NLines * Level(c))
    BY DEF LinesOf
  <2> HIDE DEF x
  <2>6. LinesOf(c) = Tree[c].lo - NLines - x
    BY <1>0, <2>3, <2>4, <2>5
  <2> QED BY <2>6 DEF x
<1>7. ASSUME NEW n \in Interior
      PROVE  /\ LinesOf(Tree[n].lo_child) = LinesOf(n)
             /\ LinesOf(Tree[n].hi_child) = LinesOf(n) + Tree[n].nlo
             /\ Total(Tree[n].lo_child) = Tree[n].nlo
             /\ Total(Tree[n].hi_child) = Tree[n].nhi
  <2>1. PICK l, h : l = Tree[n].lo_child /\ h = Tree[n].hi_child
    OBVIOUS
  <2>2. /\ n \in Regular /\ l \in Regular /\ h \in Regular /\ Parent(l) = n /\ Parent(h) = n
        /\ l # RootNode /\ h # RootNode
    BY <2>1, TreeFacts
  <2>3. PICK x : x = NLines * Level(n)
    OBVIOUS
  <2>4. LinesOf(l) = Tree[l].lo - NLines - x /\ LinesOf(h) = Tree[h].lo - NLines - x
    BY <1>6, <2>2, <2>3
  <2>5. x \in Nat /\ LinesOf(n) \in Int /\ Tree[n].lo = x + LinesOf(n)
    BY <1>3, <2>2, <2>3
  <2>6. Tree[l].lo = Tree[n].lo + NLines /\ Tree[h].lo = Tree[n].lo + Tree[n].nlo + NLines
    BY <1>1, <2>1, <2>2
  <2>7. Tree[n].lo \in Nat /\ Tree[n].nlo \in Nat
    BY <1>2, <2>2
  <2>8. LinesOf(l) = LinesOf(n) /\ LinesOf(h) = LinesOf(n) + Tree[n].nlo
    BY <1>0, <2>4, <2>5, <2>6, <2>7
  <2>9. Total(l) = Tree[n].nlo /\ Total(h) = Tree[n].nhi
    BY <2>1, SizeFacts DEF Total
  <2> QED BY <2>1, <2>8, <2>9
<1>8. Total(RootNode) = NLines
  BY SizeFacts DEF Total
<1> QED BY <1>1, <1>2, <1>3, <1>4, <1>5, <1>7, <1>8

LEMMA SideFacts ==
  ASSUME NEW n \in Regular, NEW s \in Sides
  PROVE  /\ Other(s) \in Sides /\ Other(s) # s /\ Other(Other(s)) = s
         /\ First(n, s) \in Int /\ Count(n, s) \in Nat
         /\ Count(n, s) + Count(n, Other(s)) = Total(n)
         /\ Part(n, s) \cup Part(n, Other(s)) = Rng(n)
         /\ Part(n, s) \cap Part(n, Other(s)) = {}
         /\ Part(n, s) \subseteq Int
         /\ n \in Interior => /\ Child(n, s) \in Regular /\ Child(n, s) # RootNode
                              /\ Parent(Child(n, s)) = n /\ Level(Child(n, s)) = Level(n) + 1
                              /\ LinesOf(Child(n, s)) = First(n, s)
                              /\ Total(Child(n, s)) = Count(n, s)
                              /\ Rng(Child(n, s)) = Part(n, s)
<1>1. Other(s) \in Sides /\ Other(s) # s /\ Other(Other(s)) = s /\ s \in {"lo", "hi"}
  BY DEF Other, Sides
<1>2. PICK a, i, j : a = LinesOf(n) /\ i = Tree[n].nlo /\ j = Tree[n].nhi
  OBVIOUS
<1>3. a \in Int /\ i \in Nat /\ j \in Nat /\ Total(n) = i + j
  BY <1>2, PlaceFacts
<1>4. /\ First(n, "lo") = a /\ First(n, "hi") = a + i
      /\ Count(n, "lo") = i /\ Count(n, "hi") = j
      /\ Part(n, "lo") = (a + 1)..(a + i) /\ Part(n, "hi") = (a + i + 1)..(a + i + j)
      /\ Rng(n) = (a + 1)..(a + (i + j))
      /\ Other("lo") = "hi" /\ Other("hi") = "lo"
  BY <1>2, <1>3 DEF First, Count, Part, Rng, Other
<1>5. /\ First(n, s) \in Int /\ Count(n, s) \in Nat
      /\ Count(n, s) + Count(n, Other(s)) = Total(n)
      /\ Part(n, s) \cup Part(n, Other(s)) = Rng(n)
      /\ Part(n, s) \cap Part(n, Other(s)) = {}
      /\ Part(n, s) \subseteq Int
  <2>1. CASE s = "lo"
    BY <1>3, <1>4, <2>1
  <2>2. CASE s = "hi"
    BY <1>3, <1>4, <2>2
  <2> QED BY <1>1, <2>1, <2>2
<1>6. ASSUME n \in Interior
      PROVE  /\ Child(n, s) \in Regular /\ Child(n, s) # RootNode
             /\ Parent(Child(n, s)) = n /\ Level(Child(n, s)) = Level(n) + 1
             /\ LinesOf(Child(n, s)) = First(n, s)
             /\ Total(Child(n, s)) = Count(n, s)
  <2>1. Child(n, s) \in {Tree[n].lo_child, Tree[n].hi_child}
    BY DEF Child
  <2>2. Child(n, s) \in Regular /\ Child(n, s) # RootNode /\ Parent(Child(n, s)) = n
    BY <1>6, <2>1, TreeFacts
  <2>3. Level(Child(n, s)) = Level(n) + 1
    BY <2>2, LevelFacts
  <2>4. LinesOf(Child(n, s)) = First(n, s) /\ Total(Child(n, s)) = Count(n, s)
    BY <1>1, <1>6, PlaceFacts DEF Child, First, Count
  <2> QED BY <2>2, <2>3, <2>4
<1>7. n \in Interior => Rng(Child(n, s)) = Part(n, s)
  BY <1>6 DEF Rng, Part
<1> QED BY <1>1, <1>5, <1>6, <1>7

\* A node is the child of its parent on one side.
LEMMA SideOf ==
  \A c \in Regular \ {RootNode} :
    \E p \in Interior, s \in Sides : p = Parent(c) /\ p \in Regular /\ c = Child(p, s)
<1> SUFFICES ASSUME NEW c \in Regular \ {RootNode}
             PROVE  \E s \in Sides : c = Child(Parent(c), s)
  BY ChildFacts
<1>1. c = Child(Parent(c), "lo") \/ c = Child(Parent(c), "hi")
  BY ChildFacts DEF Child
<1> QED BY <1>1 DEF Sides

\* What holds of the root, and of a node if it holds of the parent, holds of every node.
LEMMA DownTree ==
  ASSUME NEW S, RootNode \in S, \A n \in Regular \ {RootNode} : Parent(n) \in S => n \in S
  PROVE  Regular \subseteq S
<1> DEFINE T == {Level(n) : n \in Regular \ S}
<1>1. T \subseteq Nat
  BY LevelFacts
<1> SUFFICES ASSUME T # {} PROVE FALSE
  OBVIOUS
<1>2. PICK k \in T : \A j \in T : k <= j
  BY <1>1, LeastElement
<1>3. PICK n \in Regular \ S : k = Level(n)
  BY <1>2
<1>4. n # RootNode /\ Parent(n) \notin S /\ Parent(n) \in Regular
  BY <1>3, SideOf
<1>5. Level(Parent(n)) \in T /\ Level(n) = Level(Parent(n)) + 1 /\ Level(Parent(n)) \in Nat
  BY <1>3, <1>4, LevelFacts
<1>6. k <= Level(Parent(n)) /\ k \in Nat
  BY <1>1, <1>2, <1>5
<1> HIDE DEF T
<1> QED BY <1>3, <1>5, <1>6

LEMMA RngInLines ==
  ASSUME NEW n \in Regular
  PROVE  /\ Rng(n) \subseteq Lines /\ LinesOf(n) \in Nat /\ LinesOf(n) + Total(n) <= NLines
<1> DEFINE S == {k \in Regular : LinesOf(k) >= 0 /\ LinesOf(k) + Total(k) <= NLines}
<1>0. NLines \in Nat
  BY SizesAssumption
<1>1. RootNode \in S
  BY <1>0, PlaceFacts, TreeFacts
<1>2. ASSUME NEW c \in Regular \ {RootNode}, Parent(c) \in S
      PROVE  c \in S
  <2>1. PICK p \in Interior, s \in Sides : p = Parent(c) /\ p \in Regular /\ c = Child(p, s)
    BY SideOf
  <2>2. LinesOf(c) = First(p, s) /\ Total(c) = Count(p, s)
    BY <2>1, SideFacts
  <2>3. \/ LinesOf(c) = LinesOf(p) /\ Total(c) = Tree[p].nlo
        \/ LinesOf(c) = LinesOf(p) + Tree[p].nlo /\ Total(c) = Tree[p].nhi
    BY <2>2 DEF First, Count
  <2>4. /\ LinesOf(p) \in Int /\ Tree[p].nlo \in Nat /\ Tree[p].nhi \in Nat
        /\ Total(p) = Tree[p].nlo + Tree[p].nhi
        /\ LinesOf(p) >= 0 /\ LinesOf(p) + Total(p) <= NLines
    BY <1>2, <2>1, PlaceFacts
  <2>5. LinesOf(c) >= 0 /\ LinesOf(c) + Total(c) <= NLines
    BY <1>0, <2>3, <2>4
  <2> QED BY <2>5
<1>3. n \in S
  BY <1>1, <1>2, DownTree
<1> QED BY <1>0, <1>3, PlaceFacts DEF Rng, Lines

LEMMA PartInLines ==
  ASSUME NEW n \in Regular, NEW s \in Sides
  PROVE  /\ Part(n, s) \subseteq Lines /\ Part(n, s) \subseteq Rng(n)
         /\ First(n, s) \in Nat /\ First(n, s) + Count(n, s) <= NLines
<1>1. Part(n, s) \subseteq Rng(n) /\ Rng(n) \subseteq Lines
  BY SideFacts, RngInLines
<1>2. PICK a, i, j : a = LinesOf(n) /\ i = Tree[n].nlo /\ j = Tree[n].nhi
  OBVIOUS
<1>3. a \in Nat /\ i \in Nat /\ j \in Nat /\ a + (i + j) <= NLines /\ NLines \in Nat
  BY <1>2, PlaceFacts, RngInLines, SizesAssumption
<1>4. \/ First(n, s) = a /\ Count(n, s) = i
      \/ First(n, s) = a + i /\ Count(n, s) = j
  BY <1>2 DEF First, Count
<1>5. First(n, s) \in Nat /\ First(n, s) + Count(n, s) <= NLines
  BY <1>3, <1>4
<1> QED BY <1>1, <1>5

\* Nodes have lines in common only if one of them is an ancestor of the other, which then
\* has all the other's lines on one side.
LEMMA Laminar ==
  ASSUME NEW n \in Regular, NEW x \in Regular
  PROVE  /\ Level(x) = Level(n) /\ n # x => Rng(n) \cap Rng(x) = {}
         /\ Level(x) < Level(n) => \/ Rng(n) \cap Rng(x) = {}
                                   \/ x \in Interior /\ \E s \in Sides : Rng(n) \subseteq Part(x, s)
<1> DEFINE Lam(k, y) ==
             /\ Level(y) = Level(k) /\ k # y => Rng(k) \cap Rng(y) = {}
             /\ Level(y) < Level(k) => \/ Rng(k) \cap Rng(y) = {}
                                       \/ y \in Interior /\ \E s \in Sides : Rng(k) \subseteq Part(y, s)
           S == {k \in Regular : \A y \in Regular : Lam(k, y)}
<1>1. RootNode \in S
  <2>1. \A y \in Regular : Level(y) >= 1 /\ (Level(y) = 1 => y = RootNode)
    BY LevelFacts, TreeFacts DEF MERGE_ROOT
  <2>2. \A y \in Regular : ~(Level(y) < Level(RootNode)) /\ (Level(y) = Level(RootNode) => y = RootNode)
    BY <2>1, LevelFacts
  <2> QED BY <2>2, TreeFacts
<1>2. ASSUME NEW c \in Regular \ {RootNode}, Parent(c) \in S
      PROVE  c \in S
  <2>1. PICK p \in Interior, s \in Sides : p = Parent(c) /\ p \in Regular /\ c = Child(p, s)
    BY SideOf
  <2>2. /\ Rng(c) = Part(p, s) /\ Part(p, s) \subseteq Rng(p) /\ Level(c) = Level(p) + 1
        /\ Level(p) \in Nat
    BY <2>1, SideFacts, PartInLines, LevelFacts
  <2> SUFFICES ASSUME NEW y \in Regular PROVE Lam(c, y)
    OBVIOUS
  <2>3. Lam(p, y)
    BY <1>2, <2>1
  <2>4. ASSUME Level(y) = Level(c), c # y PROVE Rng(c) \cap Rng(y) = {}
    <3>1. y # RootNode
      BY <2>2, <2>4, LevelFacts, TreeFacts
    <3>2. PICK q \in Interior, r \in Sides : q = Parent(y) /\ q \in Regular /\ y = Child(q, r)
      BY <3>1, SideOf
    <3>3. Rng(y) = Part(q, r) /\ Part(q, r) \subseteq Rng(q) /\ Level(y) = Level(q) + 1 /\ Level(q) \in Nat
      BY <3>2, SideFacts, PartInLines, LevelFacts
    <3>4. CASE p = q
      <4>1. r # s
        BY <2>1, <2>4, <3>2, <3>4
      <4>2. r = Other(s)
        BY <4>1 DEF Other, Sides
      <4> QED BY <2>1, <2>2, <3>3, <3>4, <4>2, SideFacts
    <3>5. CASE p # q
      <4>1. Level(q) = Level(p)
        BY <2>2, <2>4, <3>3
      <4>2. Rng(p) \cap Rng(q) = {}
        BY <1>2, <2>1, <3>2, <3>5, <4>1
      <4> QED BY <2>2, <3>3, <4>2
    <3> QED BY <3>4, <3>5
  <2>5. ASSUME Level(y) < Level(c), Rng(c) \cap Rng(y) # {}
        PROVE  y \in Interior /\ \E r \in Sides : Rng(c) \subseteq Part(y, r)
    <3>0. Level(y) \in Nat /\ Rng(p) \cap Rng(y) # {}
      BY <2>2, <2>5, LevelFacts
    <3>1. CASE Level(y) = Level(p)
      <4>1. y = p
        BY <2>3, <3>0, <3>1
      <4> QED BY <2>1, <2>2, <4>1
    <3>2. CASE Level(y) < Level(p)
      BY <2>2, <2>3, <3>0, <3>2
    <3> QED BY <2>2, <2>5, <3>0, <3>1, <3>2
  <2> QED BY <2>4, <2>5
<1>3. n \in S
  BY <1>1, <1>2, DownTree
<1> QED BY <1>3

\* Slots of different lines, or in different regions, are different slots.
LEMMA AddrFacts ==
  ASSUME NEW r \in Nat, NEW b \in Lines
  PROVE  /\ Addr(r, b) \in Int
         /\ \A q \in Nat, c \in Lines : Addr(r, b) = Addr(q, c) => r = q /\ b = c
<1>0. NLines \in Nat /\ NLines >= 2 /\ b \in Int /\ 1 <= b /\ b <= NLines
  BY SizesAssumption DEF Lines
<1>1. ASSUME NEW p \in Nat, NEW q \in Nat, p < q
      PROVE  NLines * p \in Nat /\ NLines * q \in Nat /\ NLines * p + NLines <= NLines * q
  <2> DEFINE d == q - p - 1
             x == NLines * p
             y == NLines * d
  <2>1. d \in Nat /\ q = p + d + 1
    BY <1>1
  <2>2. x \in Nat /\ y \in Nat /\ NLines * q \in Nat
    BY <1>0, <2>1, Product
  <2>3. \A i, j, k \in Nat : i * (j + k + 1) = i * j + i * k + i
    OBVIOUS
  <2>4. NLines * q = x + y + NLines
    BY <1>0, <2>1, <2>3
  <2> HIDE DEF x, y, d
  <2>5. x + NLines <= NLines * q
    BY <1>0, <2>2, <2>4
  <2> QED BY <2>2, <2>5 DEF x
<1>2. ASSUME NEW q \in Nat, NEW c \in Lines, Addr(r, b) = Addr(q, c)
      PROVE  r = q /\ b = c
  <2>0. c \in Int /\ 1 <= c /\ c <= NLines
    BY <1>0 DEF Lines
  <2>1. PICK x, y : x = NLines * r /\ y = NLines * q
    OBVIOUS
  <2>2. x \in Nat /\ y \in Nat
    BY <1>0, <2>1, Product
  <2>3. x + b - 1 = y + c - 1
    BY <1>2, <2>1 DEF Addr
  <2>4. ~(r < q)
    <3>1. r < q => x + NLines <= y
      BY <1>1, <2>1
    <3> QED BY <1>0, <2>0, <2>2, <2>3, <3>1
  <2>5. ~(q < r)
    <3>1. q < r => y + NLines <= x
      BY <1>1, <2>1
    <3> QED BY <1>0, <2>0, <2>2, <2>3, <3>1
  <2>6. r = q
    BY <2>4, <2>5
  <2> QED BY <1>0, <2>0, <2>1, <2>2, <2>3, <2>6
<1>3. Addr(r, b) \in Int
  <2>1. NLines * r \in Nat
    BY <1>0, Product
  <2> QED BY <1>0, <2>1 DEF Addr
<1> QED BY <1>2, <1>3

\* The slots that a node merges from are in the table.
LEMMA AddrIn ==
  /\ \A b \in Lines : Addr(0, b) = b - 1 /\ Addr(0, b) \in Addresses
  /\ \A n \in Interior, b \in Lines : b \in Rng(n) => Addr(Level(n), b) \in Addresses
<1>0. NLines \in Nat /\ NLines >= 2 /\ TableLines \in Nat
  BY SizesAssumption
<1>1. \A b \in Lines : Addr(0, b) = b - 1 /\ Addr(0, b) \in Addresses
  BY <1>0 DEF Addr, Lines, Addresses
<1>2. ASSUME NEW n \in Interior, NEW b \in Lines, b \in Rng(n)
      PROVE  Addr(Level(n), b) \in Addresses
  <2>1. PICK x : x = NLines * Level(n)
    OBVIOUS
  <2>2. /\ n \in Regular /\ x \in Nat /\ LinesOf(n) \in Nat /\ Tree[n].lo = x + LinesOf(n)
        /\ Tree[n].nlo \in Nat /\ Tree[n].nhi \in Nat /\ Total(n) = Tree[n].nlo + Tree[n].nhi
        /\ Tree[n].lo + Tree[n].nlo + Tree[n].nhi <= TableLines
    BY <2>1, TreeFacts, PlaceFacts, RngInLines
  <2>3. b \in Int /\ 1 <= b /\ b <= LinesOf(n) + Total(n)
    BY <1>2, <2>2 DEF Rng, Lines
  <2>4. Addr(Level(n), b) = x + b - 1
    BY <2>1 DEF Addr
  <2>5. x + b - 1 \in Int /\ x + b - 1 >= 0 /\ x + b - 1 <= TableLines + NLines
    BY <1>0, <2>2, <2>3
  <2> QED BY <2>4, <2>5 DEF Addresses
<1> QED BY <1>1, <1>2

-----------------------------------------------------------------------------
(* The order of the lines *)

\* The order of a stable sort of lines with the keys k, and the place of line c among the
\* lines R in this order.
Earlier(k, a, b)  == k[a] < k[b] \/ (k[a] = k[b] /\ a < b)
NotAfter(k, c, R) == {b \in R : b = c \/ Earlier(k, b, c)}
Rank(k, c, R)     == Cardinality(NotAfter(k, c, R))

Keyings == [Lines -> Int]

LEMMA EarlierOrder ==
  ASSUME NEW k \in Keyings, NEW a \in Lines, NEW b \in Lines, NEW c \in Lines
  PROVE  /\ ~Earlier(k, a, a)
         /\ ~(Earlier(k, a, b) /\ Earlier(k, b, a))
         /\ a = b \/ Earlier(k, a, b) \/ Earlier(k, b, a)
         /\ Earlier(k, a, b) /\ Earlier(k, b, c) => Earlier(k, a, c)
<1>1. k[a] \in Int /\ k[b] \in Int /\ k[c] \in Int /\ a \in Int /\ b \in Int /\ c \in Int
  BY DEF Keyings, Lines
<1> QED BY <1>1 DEF Earlier

LEMMA LinesFinite ==
  ASSUME NEW R \in SUBSET Lines
  PROVE  IsFiniteSet(R) /\ Cardinality(R) \in Nat
<1>1. IsFiniteSet(Lines)
  BY FS_Interval, SizesAssumption DEF Lines
<1>2. IsFiniteSet(R)
  BY <1>1, FS_Subset
<1> QED BY <1>2, FS_CardinalityType

\* Ranks tell lines apart, and are ordered as the lines are.
LEMMA RankFacts ==
  ASSUME NEW k \in Keyings, NEW R \in SUBSET Lines
  PROVE  /\ \A c \in Lines : Rank(k, c, R) \in Nat /\ Rank(k, c, R) <= Cardinality(R)
         /\ \A c \in R : Rank(k, c, R) >= 1
         /\ \A a, b \in R : /\ Earlier(k, a, b) <=> Rank(k, a, R) < Rank(k, b, R)
                            /\ a = b <=> Rank(k, a, R) = Rank(k, b, R)
<1>1. ASSUME NEW c \in Lines
      PROVE  /\ IsFiniteSet(NotAfter(k, c, R)) /\ NotAfter(k, c, R) \subseteq R
             /\ Rank(k, c, R) \in Nat /\ Rank(k, c, R) <= Cardinality(R)
  <2>1. NotAfter(k, c, R) \subseteq R
    BY DEF NotAfter
  <2> QED BY <2>1, LinesFinite, FS_Subset DEF Rank
<1>2. ASSUME NEW c \in R
      PROVE  /\ Rank(k, c, R) >= 1
             /\ Cardinality({b \in R : Earlier(k, b, c)}) = Rank(k, c, R) - 1
  <2>1. /\ c \in NotAfter(k, c, R)
        /\ {b \in R : Earlier(k, b, c)} = NotAfter(k, c, R) \ {c}
    BY EarlierOrder DEF NotAfter
  <2>2. /\ IsFiniteSet(NotAfter(k, c, R) \ {c})
        /\ Cardinality(NotAfter(k, c, R) \ {c}) = Rank(k, c, R) - 1
    BY <1>1, <2>1, FS_RemoveElement DEF Rank
  <2>3. Cardinality(NotAfter(k, c, R) \ {c}) \in Nat /\ Rank(k, c, R) \in Nat
    BY <1>1, <2>2, FS_CardinalityType
  <2>4. Rank(k, c, R) >= 1
    BY <2>2, <2>3
  <2> QED BY <2>1, <2>2, <2>4
<1>3. ASSUME NEW a \in R, NEW b \in R, Earlier(k, a, b)
      PROVE  Rank(k, a, R) < Rank(k, b, R)
  <2>1. NotAfter(k, a, R) \subseteq {c \in R : Earlier(k, c, b)}
    BY <1>3, EarlierOrder DEF NotAfter
  <2>2. IsFiniteSet({c \in R : Earlier(k, c, b)})
    BY LinesFinite
  <2>3. Rank(k, a, R) <= Cardinality({c \in R : Earlier(k, c, b)})
    BY <2>1, <2>2, FS_Subset DEF Rank
  <2>4. Rank(k, a, R) <= Rank(k, b, R) - 1 /\ Rank(k, a, R) \in Nat /\ Rank(k, b, R) \in Nat
    BY <1>1, <1>2, <2>3
  <2> QED BY <2>4
<1>4. ASSUME NEW a \in R, NEW b \in R
      PROVE  /\ Earlier(k, a, b) <=> Rank(k, a, R) < Rank(k, b, R)
             /\ a = b <=> Rank(k, a, R) = Rank(k, b, R)
  <2>1. a = b \/ Earlier(k, a, b) \/ Earlier(k, b, a)
    BY EarlierOrder
  <2>2. Rank(k, a, R) \in Nat /\ Rank(k, b, R) \in Nat
    BY <1>1
  <2>3. CASE a = b
    BY <2>2, <2>3, EarlierOrder
  <2>4. CASE Earlier(k, a, b)
    <3>1. Rank(k, a, R) < Rank(k, b, R)
      BY <1>3, <2>4
    <3> QED BY <2>2, <2>4, <3>1
  <2>5. CASE Earlier(k, b, a)
    <3>1. Rank(k, b, R) < Rank(k, a, R) /\ ~Earlier(k, a, b)
      BY <1>3, <2>5, EarlierOrder
    <3> QED BY <2>2, <2>5, <3>1
  <2> QED BY <2>1, <2>3, <2>4, <2>5
<1> QED BY <1>1, <1>2, <1>4

\* Every rank is some line's, and there are j lines of the first j ranks.
LEMMA RankCount ==
  ASSUME NEW k \in Keyings, NEW R \in SUBSET Lines
  PROVE  /\ \A j \in 1..Cardinality(R) : \E c \in R : Rank(k, c, R) = j
         /\ \A j \in 0..Cardinality(R) : Cardinality({c \in R : Rank(k, c, R) <= j}) = j
<1> DEFINE N == Cardinality(R)
           f == [c \in R |-> Rank(k, c, R)]
<1>0. IsFiniteSet(R) /\ N \in Nat
  BY LinesFinite
<1>1. \A c \in R : Rank(k, c, R) \in 1..N
  BY <1>0, RankFacts
<1>2. \A a, b \in R : Rank(k, a, R) = Rank(k, b, R) => a = b
  BY RankFacts
<1>3. IsFiniteSet(1..N) /\ Cardinality(1..N) = N
  <2>1. IsFiniteSet(1..N) /\ Cardinality(1..N) = IF 1 > N THEN 0 ELSE N - 1 + 1
    BY <1>0, FS_Interval
  <2> QED BY <1>0, <2>1
<1>4. f \in Injection(R, 1..N)
  BY <1>1, <1>2 DEF Injection, IsInjective
<1>5. f \in Surjection(R, 1..N)
  BY <1>0, <1>3, <1>4, FS_Injection
<1>6. ASSUME NEW j \in 1..N PROVE \E c \in R : Rank(k, c, R) = j
  <2>1. \E c \in R : f[c] = j
    BY <1>5 DEF Surjection
  <2> QED BY <2>1
<1>7. ASSUME NEW j \in 0..N PROVE Cardinality({c \in R : Rank(k, c, R) <= j}) = j
  <2> DEFINE T == {c \in R : Rank(k, c, R) <= j}
             g == [c \in T |-> Rank(k, c, R)]
  <2>1. g \in [T -> 1..j]
    BY <1>0, <1>1
  <2>2. g \in Injection(T, 1..j)
    BY <1>2, <2>1 DEF Injection, IsInjective
  <2>3. \A i \in 1..j : \E c \in T : g[c] = i
    BY <1>0, <1>6
  <2>4. g \in Surjection(T, 1..j)
    BY <2>1, <2>3 DEF Surjection
  <2>5. ExistsBijection(T, 1..j)
    BY <2>2, <2>4 DEF ExistsBijection, Bijection
  <2>6. IsFiniteSet(T)
    BY LinesFinite
  <2>7. Cardinality(T) = Cardinality(1..j)
    BY <2>5, <2>6, FS_Bijection
  <2>8. Cardinality(1..j) = IF 1 > j THEN 0 ELSE j - 1 + 1
    BY <1>0, FS_Interval
  <2> QED BY <1>0, <2>7, <2>8
<1> QED BY <1>6, <1>7

\* The first i lines of A come before all but the first j of B.
CutAt(k, A, B, i, j) ==
  \A a \in A, b \in B : Rank(k, a, A) <= i /\ Rank(k, b, B) > j => Earlier(k, a, b)

\* A merge that has taken the i first lines of A and the j first of B takes the next of A
\* if it comes before the rest of B: that is the next of both.
LEMMA MergeRank ==
  ASSUME NEW k \in Keyings, NEW A \in SUBSET Lines, NEW B \in SUBSET Lines, A \cap B = {},
         NEW i \in Nat, NEW j \in Nat, j <= Cardinality(B),
         CutAt(k, A, B, i, j), CutAt(k, B, A, j, i),
         NEW x \in A, Rank(k, x, A) = i + 1,
         \A b \in B : Rank(k, b, B) > j => Earlier(k, x, b)
  PROVE  /\ Rank(k, x, A \cup B) = i + j + 1
         /\ CutAt(k, A, B, i + 1, j) /\ CutAt(k, B, A, j, i + 1)
<1>1. \A a \in A : Rank(k, a, A) \in Nat /\ (Rank(k, a, A) = i + 1 => a = x)
  BY RankFacts
<1>2. \A b \in B : Rank(k, b, B) \in Nat
  BY RankFacts
<1>3. CutAt(k, A, B, i + 1, j)
  <2> SUFFICES ASSUME NEW a \in A, NEW b \in B, Rank(k, a, A) <= i + 1, Rank(k, b, B) > j
               PROVE  Earlier(k, a, b)
    BY DEF CutAt
  <2>1. Rank(k, a, A) <= i \/ a = x
    BY <1>1
  <2> QED BY <2>1 DEF CutAt
<1>4. CutAt(k, B, A, j, i + 1)
  <2> SUFFICES ASSUME NEW b \in B, NEW a \in A, Rank(k, b, B) <= j, Rank(k, a, A) > i + 1
               PROVE  Earlier(k, b, a)
    BY DEF CutAt
  <2>1. Rank(k, a, A) > i
    BY <1>1
  <2> QED BY <2>1 DEF CutAt
<1>5. Rank(k, x, A \cup B) = i + j + 1
  <2> DEFINE T == {b \in B : Rank(k, b, B) <= j}
  <2>1. T = {b \in B : Earlier(k, b, x)}
    <3>1. ASSUME NEW b \in B, Rank(k, b, B) <= j PROVE Earlier(k, b, x)
      BY <3>1 DEF CutAt
    <3>2. ASSUME NEW b \in B, ~(Rank(k, b, B) <= j) PROVE ~Earlier(k, b, x)
      <4>1. Earlier(k, x, b)
        BY <1>2, <3>2
      <4> QED BY <4>1, EarlierOrder
    <3> QED BY <3>1, <3>2
  <2>2. Cardinality(T) = j
    <3>1. j \in 0..Cardinality(B)
      BY LinesFinite
    <3> QED BY <3>1, RankCount
  <2> DEFINE S == NotAfter(k, x, A)
  <2>3. NotAfter(k, x, A \cup B) = S \cup T /\ S \cap T = {} /\ S \subseteq Lines /\ T \subseteq Lines
    BY <2>1 DEF NotAfter
  <2>4. Cardinality(S) = i + 1
    BY DEF Rank
  <2>5. IsFiniteSet(S) /\ IsFiniteSet(T)
    BY <2>3, LinesFinite
  <2> HIDE DEF S, T
  <2>6. Cardinality(S \cup T) = Cardinality(S) + Cardinality(T) - Cardinality(S \cap T)
    BY <2>5, FS_Union
  <2>7. Cardinality(S \cap T) = 0
    BY <2>3, FS_EmptySet
  <2>8. Cardinality(S \cup T) = i + j + 1
    BY <2>2, <2>4, <2>6, <2>7
  <2> QED BY <2>3, <2>8 DEF Rank
<1> QED BY <1>3, <1>4, <1>5

Ranked(k, line, r, R) == line \in R /\ Rank(k, line, R) = r

\* sequential_sort puts every line at its rank.
LEMMA SortRank ==
  ASSUME input \in Keyings, NEW a \in Nat, NEW c \in Nat, a + c <= NLines,
         NEW w \in StableSorts([i \in 1..c |-> a + i])
  PROVE  /\ w \in Seq(Lines) /\ Len(w) = c
         /\ \A r \in 1..c : Ranked(input, w[r], r, (a + 1)..(a + c))
<1> DEFINE s == [i \in 1..c |-> a + i]
           R == (a + 1)..(a + c)
<1>0. /\ R \subseteq Lines /\ IsFiniteSet(R) /\ Cardinality(R) = c
      /\ IsFiniteSet(1..c) /\ Cardinality(1..c) = c
  <2>1. R \subseteq Lines
    BY SizesAssumption DEF Lines
  <2>2. /\ IsFiniteSet(1..c) /\ Cardinality(1..c) = IF 1 > c THEN 0 ELSE c - 1 + 1
        /\ IsFiniteSet(R) /\ Cardinality(R) = IF a + 1 > a + c THEN 0 ELSE (a + c) - (a + 1) + 1
    BY FS_Interval
  <2> QED BY <2>1, <2>2
<1>1. s \in Seq(Int) /\ Len(s) = c
  BY DEF s
<1>2. PICK p \in Permutation(c) : w = [i \in 1..c |-> s[p[i]]]
  BY <1>1 DEF StableSorts
<1>3. p \in [1..c -> 1..c] /\ \A j \in 1..c : \E i \in 1..c : p[i] = j
  BY <1>2 DEF Permutation
<1>4. w = [i \in 1..c |-> a + p[i]]
  BY <1>2, <1>3
<1>4a. \A i \in 1..c : p[i] \in 1..c /\ w[i] = a + p[i] /\ w[i] \in R
  <2> SUFFICES ASSUME NEW i \in 1..c PROVE p[i] \in 1..c /\ w[i] = a + p[i] /\ a + p[i] \in R
    OBVIOUS
  <2>1. p[i] \in 1..c /\ w[i] = a + p[i]
    BY <1>3, <1>4
  <2>2. PICK q \in 1..c : q = p[i]
    BY <2>1
  <2>3. a + q \in R
    OBVIOUS
  <2> QED BY <2>1, <2>2, <2>3
<1>5. w \in [1..c -> R] /\ w \in Seq(Lines) /\ Len(w) = c
  <2>1. w \in [1..c -> R]
    <3> HIDE DEF R
    <3> QED BY <1>4, <1>4a
  <2> QED BY <1>0, <2>1
<1>6. \A i \in 1..(c - 1) : ~Before(w[i + 1], w[i])
  BY <1>1 DEF StableSorts
<1>7. w \in Surjection(1..c, R)
  <2>1. ASSUME NEW b \in R PROVE \E i \in 1..c : w[i] = b
    <3>1. b - a \in 1..c /\ a + (b - a) = b
      OBVIOUS
    <3>2. PICK i \in 1..c : p[i] = b - a
      BY <1>3, <3>1
    <3> QED BY <1>4a, <3>1, <3>2
  <2> QED BY <1>5, <2>1 DEF Surjection
<1>8. \A i, j \in 1..c : w[i] = w[j] => i = j
  <2>1. w \in Injection(1..c, R)
    BY <1>0, <1>7, FS_Surjection
  <2> QED BY <2>1 DEF Injection, IsInjective
<1> HIDE DEF s, R
<1>9. \A i \in 1..c : w[i] \in R /\ w[i] \in Lines
  BY <1>0, <1>5
<1>10. ASSUME NEW i \in 1..(c - 1) PROVE Earlier(input, w[i], w[i + 1])
  <2>1. i \in 1..c /\ i + 1 \in 1..c /\ i # i + 1
    OBVIOUS
  <2>2. w[i] \in Lines /\ w[i + 1] \in Lines /\ w[i] # w[i + 1]
    BY <1>8, <1>9, <2>1
  <2>3. input[w[i]] \in Int /\ input[w[i + 1]] \in Int
    BY <2>2 DEF Keyings
  <2>4. ~Earlier(input, w[i + 1], w[i])
    BY <1>6, <2>2, <2>3 DEF Before, compare, Key, Earlier
  <2> QED BY <2>2, <2>4, EarlierOrder
<1>11. \A i, j \in 1..c : i < j => Earlier(input, w[i], w[j])
  <2> DEFINE T == {j \in 1..c : \E i \in 1..c : i < j /\ ~Earlier(input, w[i], w[j])}
  <2> SUFFICES ASSUME T # {} PROVE FALSE
    OBVIOUS
  <2>1. T \subseteq Nat
    OBVIOUS
  <2>2. PICK j \in T : \A y \in T : j <= y
    BY <2>1, LeastElement
  <2>3. PICK i \in 1..c : i < j /\ ~Earlier(input, w[i], w[j])
    BY <2>2
  <2>4. j \in 1..c /\ j - 1 \in 1..(c - 1) /\ j - 1 \in 1..c /\ j - 1 \notin T /\ (j - 1) + 1 = j
    <3>1. j \in 1..c /\ j - 1 \in 1..(c - 1) /\ (j - 1) + 1 = j /\ ~(j <= j - 1)
      BY <2>2, <2>3
    <3> QED BY <2>2, <3>1
  <2> DEFINE h == j - 1
  <2>5. h \in 1..(c - 1) /\ h \in 1..c /\ h \notin T /\ h + 1 = j
    BY <2>4
  <2>6. Earlier(input, w[h], w[h + 1])
    BY <1>10, <2>5
  <2>6a. Earlier(input, w[h], w[j])
    BY <2>5, <2>6
  <2>7. i = h \/ i < h
    BY <2>3, <2>5
  <2>8. i < h => Earlier(input, w[i], w[h])
    BY <2>3, <2>5
  <2>9. w[i] \in Lines /\ w[h] \in Lines /\ w[j] \in Lines
    BY <1>9, <2>3, <2>4, <2>5
  <2> HIDE DEF h, T
  <2>10. Earlier(input, w[i], w[h]) => Earlier(input, w[i], w[j])
    BY <2>6a, <2>9, EarlierOrder
  <2> QED BY <2>3, <2>6a, <2>7, <2>8, <2>10
<1>12. ASSUME NEW r \in 1..c PROVE Rank(input, w[r], R) = r
  <2> DEFINE f == [i \in 1..r |-> w[i]]
             T == NotAfter(input, w[r], R)
  <2>0. \A i \in 1..r : i \in 1..c
    OBVIOUS
  <2>1. \A i \in 1..r : w[i] \in T
    <3> SUFFICES ASSUME NEW i \in 1..r PROVE w[i] \in R /\ (w[i] = w[r] \/ Earlier(input, w[i], w[r]))
      BY DEF NotAfter
    <3>1. i \in 1..c /\ (i = r \/ i < r)
      OBVIOUS
    <3> QED BY <1>9, <1>11, <3>1
  <2>2. f \in Injection(1..r, T)
    BY <1>8, <2>0, <2>1 DEF Injection, IsInjective
  <2>3. ASSUME NEW b \in T PROVE \E i \in 1..r : f[i] = b
    <3>1. b \in R /\ (b = w[r] \/ Earlier(input, b, w[r]))
      BY DEF NotAfter
    <3>2. PICK i \in 1..c : w[i] = b
      BY <1>7, <3>1 DEF Surjection
    <3>3. ~(r < i)
      <4>1. r < i => Earlier(input, w[r], w[i])
        BY <1>11
      <4>2. w[r] \in Lines /\ w[i] \in Lines
        BY <1>9
      <4>3. r < i => w[i] # w[r]
        BY <1>8
      <4> QED BY <3>1, <3>2, <4>1, <4>2, <4>3, EarlierOrder
    <3>4. i \in 1..r
      BY <3>3
    <3> QED BY <3>2, <3>4
  <2>4. f \in Surjection(1..r, T)
    BY <2>2, <2>3 DEF Surjection, Injection
  <2>5. ExistsBijection(1..r, T)
    BY <2>2, <2>4 DEF ExistsBijection, Bijection
  <2>6. IsFiniteSet(1..r) /\ Cardinality(1..r) = IF 1 > r THEN 0 ELSE r - 1 + 1
    BY FS_Interval
  <2>7. Cardinality(T) = Cardinality(1..r)
    BY <2>5, <2>6, FS_Bijection
  <2> QED BY <2>6, <2>7 DEF Rank
<1> QED BY <1>5, <1>9, <1>12 DEF Ranked, R

-----------------------------------------------------------------------------
(* Where the lines are *)

LeftOf(n, s)  == IF s = "lo" THEN LeftLo(n) ELSE LeftHi(n)
Pointer(n, s) == IF s = "lo" THEN node[n].lo ELSE node[n].hi

\* Of a side of a node, the lines that the node has merged, and the lines that were
\* there to be merged so far; a leaf has them all once they are sorted.
Taken(n, s) == Count(n, s) - LeftOf(n, s)
Come(n, s)  == Count(n, s) - (IF Split(n) THEN Left(Child(n, s)) ELSE 0)

\* A node that is split merges from its own region, a leaf where it was sorted.
Region(n) == IF Split(n) THEN Level(n) ELSE 0

\* What has come and is not taken is in its place: the line of every rank.
Placed(n, s) ==
  \A r \in (Taken(n, s) + 1)..Come(n, s) :
    Ranked(input, mem[Addr(Region(n), First(n, s) + r)], r, Part(n, s))

HalfOK(n, s) ==
  /\ LeftOf(n, s) <= Count(n, s)
  /\ InUse(n) => /\ Pointer(n, s) = Addr(Region(n), First(n, s) + Taken(n, s) + 1)
                 /\ Placed(n, s)

\* What a node has taken of one side comes before what it has not taken of the other.
CutOK(n, s) ==
  CutAt(input, Part(n, s), Part(n, Other(s)), Taken(n, s), Taken(n, Other(s)))

\* A thread that copies the rest of one side has nothing left of the other.
DrainOK(t) == /\ pc[t] = "drainlo" => LeftHi(at[t]) = 0
              /\ pc[t] = "drainhi" => LeftLo(at[t]) = 0

\* The lines that a thread is to sort are where they were read to.
UnsortedOK(t) == pc[t] = "sortlines" => \A b \in Rng(at[t]) : mem[Addr(0, b)] = b

SortingOK(t) == pc[t] = "sorting" =>
  /\ Len(work[t]) = Total(at[t])
  /\ \A s \in Sides : \A r \in 1..Count(at[t], s) :
       Ranked(input, work[t][First(at[t], s) - LinesOf(at[t]) + r], r, Part(at[t], s))

\* A thread that sorts lines of one side of node n keeps n from merging this side, and
\* what n merges from.
FreshOK(t, n, s) ==
  pc[t] \in Sorting /\ Split(n) /\ Rng(at[t]) \subseteq Part(n, s) =>
    Left(Child(n, s)) = Count(n, s)

\* The w first lines are written, and of these, under -u, the first with each key; the
\* saved line has the key of the last of them.
FirstOf(k, b) == \A a \in 1..(b - 1) : k[a] # k[b]
Wrote(k, o, sv, w) ==
  /\ o \in Seq(Lines)
  /\ \A b \in Lines : (\E i \in DOMAIN o : o[i] = b) <=>
                        Rank(k, b, Lines) <= w /\ (Unique => FirstOf(k, b))
  /\ Unique => IF w = 0 THEN sv = 0
               ELSE \E b \in Lines : /\ Rank(k, b, Lines) = w
                                     /\ sv \in Lines /\ k[sv] = k[b]
Written == NLines - Left(RootNode)

HalvesOK == \A n \in Regular, s \in Sides : HalfOK(n, s)
CutsOK   == \A n \in Regular, s \in Sides : CutOK(n, s)
OutOK    == Wrote(input, out, saved, Written)
SortersOK == \A t \in Threads : /\ UnsortedOK(t) /\ SortingOK(t)
                                /\ \A n \in Regular, s \in Sides : FreshOK(t, n, s)
DrainersOK == \A t \in Threads : DrainOK(t)

OrderInv == HalvesOK /\ CutsOK /\ SortersOK /\ DrainersOK /\ OutOK

\* The numbers of a side.
LEMMA HalfFacts ==
  ASSUME SafeInv, HalvesOK, NEW n \in Regular, NEW s \in Sides
  PROVE  /\ LeftOf(n, s) \in Nat /\ LeftOf(n, s) <= Count(n, s)
         /\ Left(n) = LeftOf(n, s) + LeftOf(n, Other(s)) /\ Left(n) \in Nat
         /\ Taken(n, s) \in Nat /\ Taken(n, s) = Count(n, s) - LeftOf(n, s)
         /\ Come(n, s) \in Int /\ Come(n, s) <= Count(n, s)
         /\ InUse(n) => Taken(n, s) <= Come(n, s)
         /\ Split(n) => Left(Child(n, s)) \in Nat /\ Come(n, s) = Count(n, s) - Left(Child(n, s))
         /\ ~Split(n) => Come(n, s) = Count(n, s)
         /\ Region(n) \in Nat
<1>1. LeftLo(n) \in Nat /\ LeftHi(n) \in Nat /\ Left(n) = LeftLo(n) + LeftHi(n) /\ Left(n) \in Nat
  BY OwedFacts
<1>2. LeftOf(n, s) \in Nat /\ Left(n) = LeftOf(n, s) + LeftOf(n, Other(s))
  BY <1>1 DEF LeftOf, Sides, Other
<1>3. Count(n, s) \in Nat /\ LeftOf(n, s) <= Count(n, s)
  BY SideFacts DEF HalvesOK, HalfOK
<1>4. Taken(n, s) \in Nat /\ Taken(n, s) = Count(n, s) - LeftOf(n, s)
  BY <1>2, <1>3 DEF Taken
<1>5. Split(n) => Child(n, s) \in Regular /\ n \in Interior
  BY SideFacts DEF Split
<1>6. Split(n) => Left(Child(n, s)) \in Nat /\ Come(n, s) = Count(n, s) - Left(Child(n, s))
  BY <1>5, OwedFacts DEF Come
<1>7. ~Split(n) => Come(n, s) = Count(n, s)
  BY <1>3 DEF Come
<1>8. Come(n, s) \in Int /\ Come(n, s) <= Count(n, s)
  BY <1>3, <1>6, <1>7
<1>9. ASSUME InUse(n) PROVE Taken(n, s) <= Come(n, s)
  <2>1. CASE ~Split(n)
    BY <1>2, <1>3, <1>4, <1>7, <2>1
  <2>2. CASE Split(n)
    <3>1. PICK c : c = Child(n, s)
      OBVIOUS
    <3>2. Owed(c) \in Nat /\ Owed(c) = NInFlight(c) + Left(c) /\ NInFlight(c) \in Nat /\ Left(c) \in Nat
      BY <1>5, <2>2, <3>1, OwedFacts
    <3>3. LeftOf(n, s) >= Owed(c)
      <4>1. CountOK(n) /\ node[n] \in NodeType
        BY TreeFacts DEF SafeInv, SeenInv, CountInv, CountsOK, TypeOK, NodeType
      <4>2. CASE s = "lo"
        <5>1. c = Tree[n].lo_child
          BY <3>1, <4>2 DEF Child
        <5> QED BY <2>2, <3>2, <4>1, <4>2, <5>1 DEF CountOK, LeftOf, NodeType
      <4>3. CASE s = "hi"
        <5>1. c = Tree[n].hi_child
          BY <3>1, <4>3 DEF Child
        <5> QED BY <2>2, <3>2, <4>1, <4>3, <5>1 DEF CountOK, LeftOf, NodeType
      <4> QED BY <4>2, <4>3 DEF Sides
    <3>4. Left(c) <= LeftOf(n, s)
      BY <1>2, <3>2, <3>3
    <3> QED BY <1>2, <1>3, <1>4, <1>6, <2>2, <3>1, <3>2, <3>4
  <2> QED BY <2>1, <2>2
<1>10. Region(n) \in Nat
  BY LevelFacts DEF Region
<1> QED BY <1>1, <1>2, <1>3, <1>4, <1>6, <1>7, <1>8, <1>9, <1>10

\* A node that has been called with the lines of another one above it: that one is split.
LEMMA CalledBelow ==
  ASSUME QueueInv, NEW n \in Regular, NEW x \in Regular,
         Called(n), Level(x) < Level(n), Rng(n) \cap Rng(x) # {}
  PROVE  Split(x)
<1> DEFINE S == {k \in Regular : \A y \in Regular :
                   Called(k) /\ Level(y) < Level(k) /\ Rng(k) \cap Rng(y) # {} => Split(y)}
<1>1. RootNode \in S
  <2>1. \A y \in Regular : ~(Level(y) < Level(RootNode))
    BY LevelFacts
  <2> QED BY <2>1, TreeFacts
<1>2. ASSUME NEW c \in Regular \ {RootNode}, Parent(c) \in S
      PROVE  c \in S
  <2>1. PICK p \in Interior, s \in Sides : p = Parent(c) /\ p \in Regular /\ c = Child(p, s)
    BY SideOf
  <2>2. Rng(c) \subseteq Rng(p) /\ Level(c) = Level(p) + 1 /\ Level(p) \in Nat
    BY <2>1, SideFacts, PartInLines, LevelFacts
  <2> SUFFICES ASSUME NEW y \in Regular, Called(c), Level(y) < Level(c), Rng(c) \cap Rng(y) # {}
               PROVE  Split(y)
    OBVIOUS
  <2>3. Split(p) /\ Called(p)
    BY <2>1 DEF Called, QueueInv, UncalledIdle
  <2>4. Rng(p) \cap Rng(y) # {}
    BY <2>2
  <2>5. Level(y) \in Nat
    BY LevelFacts
  <2>6. CASE Level(y) = Level(p)
    <3>1. y = p
      BY <2>1, <2>4, <2>6, Laminar
    <3> QED BY <2>3, <3>1
  <2>7. CASE Level(y) < Level(p)
    BY <1>2, <2>1, <2>3, <2>4, <2>7
  <2> QED BY <2>2, <2>5, <2>6, <2>7
<1>3. n \in S
  BY <1>1, <1>2, DownTree
<1> QED BY <1>3

\* The nodes that have been called and are not split have no lines in common.
LEMMA LeavesApart ==
  ASSUME QueueInv, NEW n \in Regular, NEW x \in Regular, n # x,
         Called(n), Called(x), ~Split(n), ~Split(x)
  PROVE  Rng(n) \cap Rng(x) = {}
<1>1. Level(n) \in Nat /\ Level(x) \in Nat
  BY LevelFacts
<1>2. Level(n) = Level(x) => Rng(n) \cap Rng(x) = {}
  BY Laminar
<1>3. Level(n) < Level(x) => Rng(n) \cap Rng(x) = {}
  BY CalledBelow
<1>4. Level(x) < Level(n) => Rng(n) \cap Rng(x) = {}
  BY CalledBelow
<1> QED BY <1>1, <1>2, <1>3, <1>4

\* A thread that sorts does it at a leaf of what has been called.
LEMMA SorterFacts ==
  ASSUME SafeInv, NEW t \in Threads, pc[t] \in Sorting
  PROVE  /\ at[t] \in Regular /\ Called(at[t]) /\ ~Split(at[t]) /\ ~Sorted(at[t]) /\ ~InUse(at[t])
         /\ Rng(at[t]) # {} /\ node[at[t]] = NewNode(at[t])
         /\ \A n \in Regular : InUse(n) => Called(n)
         /\ \A r \in Threads : r # t /\ pc[r] # "none" => at[r] # at[t]
<1>1. at[t] \in Regular /\ ~Split(at[t])
  BY DEF SafeInv, SeenInv, QueueInv, SortersAlone
<1>2. Called(at[t])
  BY <1>1, WorkerFacts DEF SafeInv, SeenInv, Sorting
<1>3. ~Sorted(at[t]) /\ ~InUse(at[t])
  BY <1>1 DEF SafeInv, CountInv, SortersNew, In, InUse
<1>4. Rng(at[t]) # {}
  <2>1. Tree[at[t]].nlo + Tree[at[t]].nhi >= 2
    BY <1>1, <1>2 DEF SafeInv, CountInv, CalledLarge
  <2>2. LinesOf(at[t]) \in Int /\ Total(at[t]) >= 2 /\ Total(at[t]) \in Nat
    BY <1>1, <2>1, PlaceFacts
  <2>3. LinesOf(at[t]) + 1 \in Rng(at[t])
    BY <2>2 DEF Rng
  <2> QED BY <2>3
<1>5. \A n \in Regular : InUse(n) => Called(n)
  BY DEF InUse, SafeInv, CountInv, SortedApart, SeenInv, QueueInv, UncalledIdle
<1>6. \A r \in Threads : r # t /\ pc[r] # "none" => at[r] # at[t]
  BY DEF SafeInv, SeenInv, QueueInv, SortersAlone
<1>7. node[at[t]] = NewNode(at[t])
  BY <1>1, <1>3 DEF SafeInv, CountInv, UnusedNew
<1> QED BY <1>1, <1>2, <1>3, <1>4, <1>5, <1>6, <1>7

\* A side keeps what it says if its numbers and its slots do.
LEMMA HalfKept ==
  ASSUME NEW n \in Regular, NEW s \in Sides, HalfOK(n, s), input' = input,
         LeftOf(n, s)' = LeftOf(n, s), Pointer(n, s)' = Pointer(n, s),
         Split(n)' <=> Split(n), Sorted(n)' <=> Sorted(n),
         Split(n) => Left(Child(n, s))' = Left(Child(n, s)),
         InUse(n) => \A r \in (Taken(n, s) + 1)..Come(n, s) :
           mem'[Addr(Region(n), First(n, s) + r)] = mem[Addr(Region(n), First(n, s) + r)]
  PROVE  HalfOK(n, s)'
<1>1. /\ Taken(n, s)' = Taken(n, s) /\ Region(n)' = Region(n) /\ Come(n, s)' = Come(n, s)
      /\ InUse(n)' <=> InUse(n)
  BY DEF Taken, Region, Come, InUse
<1>2. InUse(n) /\ Placed(n, s) => Placed(n, s)'
  BY <1>1 DEF Placed
<1> QED BY <1>1, <1>2 DEF HalfOK

LEMMA CutKept ==
  ASSUME NEW n \in Regular, NEW s \in Sides, CutOK(n, s), input' = input,
         LeftOf(n, s)' = LeftOf(n, s), LeftOf(n, Other(s))' = LeftOf(n, Other(s))
  PROVE  CutOK(n, s)'
<1>1. Taken(n, s)' = Taken(n, s) /\ Taken(n, Other(s))' = Taken(n, Other(s))
  BY DEF Taken
<1> QED BY <1>1 DEF CutOK

-----------------------------------------------------------------------------
(* Steps that move no line *)

\* A step of thread t after which the other threads sort and copy what they did.
LEMMA OthersWork ==
  ASSUME SafeInv, NEW t \in Threads, OthersKeep(t), NEW r \in Threads, r # t,
         pc'[r] \in Labels \ {"pop"}
  PROVE  pc'[r] = pc[r] /\ at'[r] = at[r]
BY DEF OthersKeep

\* Such a step keeps the invariant if it leaves the table, the output and the counts alone.
LEMMA QuietOrder ==
  ASSUME OrderInv, NEW t \in Threads,
         input' = input, mem' = mem, out' = out, saved' = saved,
         \A n \in Regular : /\ LeftLo(n)' = LeftLo(n) /\ LeftHi(n)' = LeftHi(n)
                            /\ Split(n)' <=> Split(n)
                            /\ Sorted(n)' <=> Sorted(n)
                            /\ node'[n].lo = node[n].lo /\ node'[n].hi = node[n].hi,
         \A r \in Threads : pc'[r] \in Sorting =>
           pc'[r] = pc[r] /\ at'[r] = at[r] /\ work'[r] = work[r],
         \A r \in Threads : DrainOK(r)'
  PROVE  OrderInv'
<1>1. \A n \in Regular, s \in Sides : /\ LeftOf(n, s)' = LeftOf(n, s)
                                      /\ Pointer(n, s)' = Pointer(n, s)
  BY DEF LeftOf, Pointer
<1>2. \A n \in Regular : Left(n)' = Left(n)
  BY DEF Left
<1>3. \A n \in Regular, s \in Sides : Split(n) => Left(Child(n, s))' = Left(Child(n, s))
  BY <1>2, SideFacts DEF Split
<1>4. HalvesOK'
  BY <1>1, <1>3, HalfKept DEF OrderInv, HalvesOK
<1>5. CutsOK'
  BY <1>1, CutKept, SideFacts DEF OrderInv, CutsOK
<1>6. SortersOK'
  <2> SUFFICES ASSUME NEW r \in Threads
               PROVE  /\ UnsortedOK(r)' /\ SortingOK(r)'
                      /\ \A n \in Regular, s \in Sides : FreshOK(r, n, s)'
    BY DEF SortersOK
  <2>1. UnsortedOK(r) /\ SortingOK(r) /\ \A n \in Regular, s \in Sides : FreshOK(r, n, s)
    BY DEF OrderInv, SortersOK
  <2>2. UnsortedOK(r)'
    BY <2>1 DEF UnsortedOK, Sorting
  <2>3. SortingOK(r)'
    BY <2>1 DEF SortingOK, Sorting
  <2>4. \A n \in Regular, s \in Sides : FreshOK(r, n, s)'
    BY <1>3, <2>1 DEF FreshOK
  <2> QED BY <2>2, <2>3, <2>4
<1>7. OutOK'
  BY <1>2, TreeFacts DEF OrderInv, OutOK, Written
<1> QED BY <1>4, <1>5, <1>6, <1>7 DEF OrderInv, DrainersOK

LEMMA QuietActions ==
  ASSUME SafeInv, SafeInv', OrderInv, NEW t \in Threads,
         \/ Pop(t) \/ Wait(t) \/ Spurious(t) \/ LockNode(t) \/ PopEnd(t)
         \/ StoreDest(t) \/ Check(t) \/ CheckParent(t) \/ Join(t)
  PROVE  OrderInv'
<1>0. TypeOK /\ QueueInv /\ LockInv
  BY DEF SafeInv, SeenInv
<1>1. /\ input' = input /\ mem' = mem /\ out' = out /\ saved' = saved /\ work' = work
  <2>1. CASE Pop(t) \/ Wait(t) \/ Spurious(t)
    BY <2>1 DEF Pop, Wait, Spurious, tableVars
  <2>2. CASE LockNode(t) \/ PopEnd(t) \/ StoreDest(t)
    BY <2>2 DEF LockNode, PopEnd, StoreDest, tableVars
  <2>3. CASE Check(t) \/ CheckParent(t) \/ Join(t)
    BY <2>3 DEF Check, CheckParent, Join, tableVars
  <2> QED BY <2>1, <2>2, <2>3
<1>2. /\ OthersKeep(t) /\ pc'[t] \notin {"sortlines", "sorting", "drainlo", "drainhi"}
      /\ pc[t] \notin {"merge", "drainlo", "drainhi", "sorting"}
  BY <1>0, ActionMoves DEF Moves
<1>3. Step(t) \/ Spurious(t)
  BY DEF Step
<1>4. ~Merge(t) /\ ~Drain(t) /\ ~EndSort(t)
  BY <1>2 DEF Merge, Drain, EndSort
<1>5. \A n \in Regular : LeftLo(n)' = LeftLo(n) /\ LeftHi(n)' = LeftHi(n)
  BY <1>3, <1>4, LeftKept
<1>6. \A n \in Regular : node'[n].lo = node[n].lo /\ node'[n].hi = node[n].hi
  <2> SUFFICES ASSUME NEW n \in Regular
               PROVE  node'[n].lo = node[n].lo /\ node'[n].hi = node[n].hi
    OBVIOUS
  <2>1. node'[n] # node[n] => StoreDest(t)
    BY <1>0, <1>3, <1>4, NodeChange
  <2>2. StoreDest(t) => node'[n].lo = node[n].lo /\ node'[n].hi = node[n].hi
    BY <1>0, <1>3, NodeChange
  <2> QED BY <2>1, <2>2
<1>7. \A n \in Regular : /\ Split(n)' <=> Split(n)
                         /\ Sorted(n)' <=> Sorted(n)
  BY <1>0, <1>2, <1>6, OthersKept, TreeFacts DEF Sorted
<1>8. \A r \in Threads : pc'[r] \in Sorting =>
           pc'[r] = pc[r] /\ at'[r] = at[r] /\ work'[r] = work[r]
  BY <1>1, <1>2 DEF Sorting, OthersKeep
<1>9. ASSUME NEW r \in Threads PROVE DrainOK(r)'
  <2> SUFFICES ASSUME pc'[r] \in {"drainlo", "drainhi"} PROVE DrainOK(r)'
    BY DEF DrainOK
  <2>1. pc'[r] = pc[r] /\ at'[r] = at[r]
    BY <1>2 DEF OthersKeep
  <2>2. at[r] \in Regular
    BY <1>0, <2>1 DEF LockInv, Holding, Merging
  <2>3. PICK n \in Regular : n = at[r]
    BY <2>2
  <2>4. LeftLo(at[r])' = LeftLo(n)' /\ LeftHi(at[r])' = LeftHi(n)'
    BY <2>1, <2>3
  <2> QED BY <1>5, <2>1, <2>3 DEF DrainOK, OrderInv, DrainersOK
<1> QED BY <1>1, <1>5, <1>6, <1>7, <1>8, <1>9, QuietOrder

-----------------------------------------------------------------------------
(* Steps that sort *)

\* The slot of a line that a node can merge.
LEMMA SlotFacts ==
  ASSUME SafeInv, HalvesOK, NEW n \in Regular, NEW s \in Sides,
         NEW r \in (Taken(n, s) + 1)..Come(n, s)
  PROVE  /\ r \in 1..Count(n, s) /\ First(n, s) + r \in Part(n, s) /\ First(n, s) + r \in Lines
         /\ Addr(Region(n), First(n, s) + r) \in Addresses
<1>1. /\ Taken(n, s) \in Nat /\ Come(n, s) \in Int /\ Come(n, s) <= Count(n, s)
      /\ Count(n, s) \in Nat /\ First(n, s) \in Int
  BY HalfFacts, SideFacts
<1>2. r \in 1..Count(n, s) /\ First(n, s) + r \in Part(n, s)
  BY <1>1 DEF Part
<1>3. First(n, s) + r \in Lines /\ First(n, s) + r \in Rng(n)
  BY <1>2, PartInLines
<1>4. Addr(Region(n), First(n, s) + r) \in Addresses
  BY <1>3, AddrIn DEF Region, Split
<1> QED BY <1>2, <1>3, <1>4

\* What a thread that sorts writes to, its lines and its scratch space, is no slot of a
\* line that a node can merge: the nodes below the root merge from other regions, the
\* root has nothing yet on the side of these lines, and the leaves have other lines.
LEMMA LeafSlots ==
  ASSUME SafeInv, OrderInv, NEW t \in Threads, pc[t] \in Sorting,
         NEW n \in Regular, n = at[t],
         NEW k \in Regular, NEW s \in Sides, InUse(k), NEW r \in (Taken(k, s) + 1)..Come(k, s),
         NEW q \in {0, 1}, NEW b \in Rng(n)
  PROVE  Addr(Region(k), First(k, s) + r) # Addr(q, b)
<1>0. /\ HalvesOK /\ QueueInv /\ Called(n) /\ ~Split(n) /\ ~InUse(n) /\ Called(k)
      /\ b \in Lines /\ q \in Nat /\ n # k
  BY SorterFacts, RngInLines DEF OrderInv, SafeInv, SeenInv
<1>1. /\ First(k, s) + r \in Part(k, s) /\ First(k, s) + r \in Lines /\ Region(k) \in Nat
      /\ Part(k, s) \subseteq Rng(k)
  BY <1>0, SlotFacts, HalfFacts, PartInLines
<1>2. CASE ~Split(k)
  <2>1. Rng(n) \cap Rng(k) = {}
    BY <1>0, <1>2, LeavesApart
  <2> QED BY <1>0, <1>1, <2>1, AddrFacts
<1>3. CASE Split(k) /\ Level(k) # 1
  <2>1. Region(k) # q
    BY <1>3, LevelFacts DEF Region
  <2> QED BY <1>0, <1>1, <2>1, AddrFacts
<1>4. CASE Split(k) /\ Level(k) = 1
  <2>1. k = RootNode
    BY <1>4, TreeFacts DEF MERGE_ROOT
  <2>2. Level(n) # 1 /\ Level(n) \in Nat /\ Level(n) >= 1
    BY <1>0, <2>1, LevelFacts, TreeFacts DEF MERGE_ROOT
  <2>3. Rng(k) = Lines
    <3>1. LinesOf(k) = 0 /\ Total(k) = NLines /\ NLines \in Nat
      BY <2>1, PlaceFacts, SizesAssumption
    <3> QED BY <3>1 DEF Rng, Lines
  <2>4. PICK v \in Sides : Rng(n) \subseteq Part(k, v)
    <3>1. Rng(n) \cap Rng(k) # {}
      BY <1>0, <2>3
    <3> QED BY <1>4, <2>2, <3>1, Laminar
  <2>5. s # v
    <3>1. Left(Child(k, v)) = Count(k, v)
      BY <1>4, <2>4 DEF OrderInv, SortersOK, FreshOK
    <3>2. Come(k, v) = 0
      BY <1>0, <1>4, <3>1, HalfFacts, SideFacts
    <3>3. Taken(k, v) \in Nat
      BY <1>0, HalfFacts
    <3> QED BY <3>2, <3>3
  <2>6. s = Other(v)
    BY <2>5 DEF Other, Sides
  <2>7. First(k, s) + r # b
    BY <1>1, <2>4, <2>6, SideFacts
  <2> QED BY <1>0, <1>1, <2>7, AddrFacts
<1> QED BY <1>2, <1>3, <1>4

\* A step that changes the table only where a thread sorts.
LEMMA LeafStep ==
  ASSUME SafeInv, OrderInv, NEW t \in Threads, pc[t] \in Sorting,
         NEW n \in Regular, n = at[t], input' = input,
         \A x \in Addresses : (\A q \in {0, 1}, b \in Rng(n) : x # Addr(q, b)) => mem'[x] = mem[x],
         \A k \in Regular : LeftLo(k)' = LeftLo(k) /\ LeftHi(k)' = LeftHi(k),
         \A k \in Regular : Split(k)' <=> Split(k),
         \A k \in Regular \ {n} : /\ Sorted(k)' <=> Sorted(k)
                                  /\ node'[k].lo = node[k].lo /\ node'[k].hi = node[k].hi
  PROVE  /\ \A k \in Regular \ {n}, s \in Sides : HalfOK(k, s)'
         /\ CutsOK'
         /\ \A r \in Threads \ {t} : pc'[r] = pc[r] /\ at'[r] = at[r] => UnsortedOK(r)'
         /\ \A k \in Regular, s \in Sides : LeftOf(k, s)' = LeftOf(k, s)
         /\ \A k \in Regular : Left(k)' = Left(k)
<1>0. HalvesOK /\ QueueInv /\ Called(n) /\ ~Split(n) /\ ~InUse(n)
  BY SorterFacts DEF OrderInv, SafeInv, SeenInv
<1>1. /\ \A k \in Regular, s \in Sides : LeftOf(k, s)' = LeftOf(k, s)
      /\ \A k \in Regular : Left(k)' = Left(k)
  BY DEF LeftOf, Left
<1>2. ASSUME NEW k \in Regular \ {n}, NEW s \in Sides
      PROVE  HalfOK(k, s)'
  <2>1. Pointer(k, s)' = Pointer(k, s)
    BY DEF Pointer
  <2>2. Split(k) => Left(Child(k, s))' = Left(Child(k, s))
    BY <1>1, SideFacts DEF Split
  <2>3. ASSUME InUse(k), NEW r \in (Taken(k, s) + 1)..Come(k, s)
        PROVE  mem'[Addr(Region(k), First(k, s) + r)] = mem[Addr(Region(k), First(k, s) + r)]
    <3>1. Addr(Region(k), First(k, s) + r) \in Addresses
      BY <1>0, SlotFacts
    <3>2. \A q \in {0, 1}, b \in Rng(n) : Addr(Region(k), First(k, s) + r) # Addr(q, b)
      BY <2>3, LeafSlots
    <3> QED BY <3>1, <3>2
  <2> QED BY <1>0, <1>1, <2>1, <2>2, <2>3, HalfKept DEF HalvesOK
<1>3. CutsOK'
  BY <1>1, CutKept, SideFacts DEF OrderInv, CutsOK
<1>4. ASSUME NEW r \in Threads \ {t}, pc'[r] = pc[r], at'[r] = at[r]
      PROVE  UnsortedOK(r)'
  <2> SUFFICES ASSUME pc[r] = "sortlines", NEW b \in Rng(at[r]) PROVE mem'[Addr(0, b)] = b
    BY <1>4 DEF UnsortedOK
  <2>1. UnsortedOK(r) /\ pc[r] \in Sorting
    BY DEF OrderInv, SortersOK, Sorting
  <2>2. /\ at[r] \in Regular /\ Called(at[r]) /\ ~Split(at[r])
        /\ n # at[r]
    <3>1. at[r] \in Regular /\ Called(at[r]) /\ ~Split(at[r])
      BY <2>1, SorterFacts
    <3>2. pc[t] # "none"
      BY DEF Sorting
    <3>3. n # at[r]
      BY <2>1, <3>2, SorterFacts
    <3> QED BY <3>1, <3>3
  <2>3. Rng(n) \cap Rng(at[r]) = {}
    BY <1>0, <2>2, LeavesApart
  <2>4. b \in Lines /\ \A c \in Rng(n) : c \in Lines /\ c # b
    BY <2>2, <2>3, RngInLines
  <2>5. \A q \in {0, 1}, c \in Rng(n) : Addr(0, b) # Addr(q, c)
    BY <2>4, AddrFacts
  <2>6. mem'[Addr(0, b)] = mem[Addr(0, b)]
    BY <2>4, <2>5, AddrIn
  <2>7. mem[Addr(0, b)] = b
    BY <2>1 DEF UnsortedOK
  <2> QED BY <2>6, <2>7
<1> QED BY <1>1, <1>2, <1>3, <1>4

\* What the threads that merge and that sort rely on, if no node merges a line.
LEMMA DrainKept ==
  ASSUME LockInv, DrainersOK,
         \A k \in Regular : LeftLo(k)' = LeftLo(k) /\ LeftHi(k)' = LeftHi(k),
         \A r \in Threads : pc'[r] \in {"drainlo", "drainhi"} => pc'[r] = pc[r] /\ at'[r] = at[r]
  PROVE  DrainersOK'
<1> SUFFICES ASSUME NEW r \in Threads, pc'[r] \in {"drainlo", "drainhi"} PROVE DrainOK(r)'
  BY DEF DrainersOK, DrainOK
<1>1. pc'[r] = pc[r] /\ at'[r] = at[r] /\ at[r] \in Regular
  BY DEF LockInv, Holding, Merging
<1>2. PICK n \in Regular : n = at[r]
  BY <1>1
<1>3. LeftLo(at[r])' = LeftLo(n)' /\ LeftHi(at[r])' = LeftHi(n)'
  BY <1>1, <1>2
<1> QED BY <1>1, <1>2, <1>3 DEF DrainOK, DrainersOK

LEMMA FreshKept ==
  ASSUME SortersOK,
         \A k \in Regular : Left(k)' = Left(k),
         \A k \in Regular : Split(k)' <=> Split(k),
         \A r \in Threads : pc'[r] \in Sorting => pc[r] \in Sorting /\ at'[r] = at[r]
  PROVE  \A r \in Threads, k \in Regular, s \in Sides : FreshOK(r, k, s)'
<1> SUFFICES ASSUME NEW r \in Threads, NEW k \in Regular, NEW s \in Sides,
                    pc'[r] \in Sorting, Split(k)', Rng(at[r])' \subseteq Part(k, s)
             PROVE  Left(Child(k, s))' = Count(k, s)
  BY DEF FreshOK
<1>1. pc[r] \in Sorting /\ at'[r] = at[r] /\ Split(k)
  OBVIOUS
<1>2. Rng(at[r]) \subseteq Part(k, s)
  BY <1>1
<1>3. Child(k, s) \in Regular
  BY <1>1, SideFacts DEF Split
<1>4. Left(Child(k, s)) = Count(k, s)
  BY <1>1, <1>2 DEF SortersOK, FreshOK
<1> QED BY <1>3, <1>4

\* Storing into the table.
LEMMA StoreFacts ==
  ASSUME NEW f \in [Addresses -> Slots], NEW a \in Nat, NEW s \in Seq(Slots)
  PROVE  \A x \in Addresses : Store(f, a, s)[x] = IF x \in a..(a + Len(s) - 1)
                                                  THEN s[x - a + 1] ELSE f[x]
BY DEF Store

LEMMA FillFacts ==
  ASSUME NEW c \in Nat
  PROVE  Fill(c) \in Seq(Slots) /\ Len(Fill(c)) = c
<1>1. Fill(c) = [x \in 1..c |-> Scratch]
  BY DEF Fill
<1>2. Len([x \in 1..c |-> Scratch]) = c
  OBVIOUS
<1>3. Fill(c) \in Seq(Slots)
  BY FillType
<1> QED BY <1>1, <1>2, <1>3

\* The lines that a thread is to sort.
LEMMA SliceFacts ==
  ASSUME mem \in [Addresses -> Slots], NEW a \in Nat, NEW c \in Nat, a + c <= NLines,
         \A b \in (a + 1)..(a + c) : mem[Addr(0, b)] = b
  PROVE  Slice(a, c) = [i \in 1..c |-> a + i]
<1> SUFFICES ASSUME NEW i \in 1..c PROVE Read(a + i - 1) = a + i
  BY DEF Slice
<1>1. PICK b \in (a + 1)..(a + c) : b = a + i
  OBVIOUS
<1>2. b \in Lines
  BY SizesAssumption DEF Lines
<1>3. Addr(0, b) = b - 1 /\ Addr(0, b) \in Addresses
  BY <1>2, AddrIn
<1>4. a + i - 1 = Addr(0, b)
  BY <1>1, <1>3
<1> QED BY <1>1, <1>3, <1>4 DEF Read

\* sequential_sort is called: the lines and the scratch space are in flux.
LEMMA BeginOrder ==
  ASSUME SafeInv, SafeInv', OrderInv, NEW t \in Threads, BeginSort(t)
  PROVE  OrderInv'
<1>0. /\ TypeOK /\ QueueInv /\ LockInv /\ HalvesOK /\ SortersOK /\ DrainersOK
      /\ mem \in [Addresses -> Slots] /\ work \in [Threads -> Seq(Slots)]
  BY DEF SafeInv, SeenInv, TypeOK, OrderInv
<1>1. /\ OthersKeep(t) /\ pc[t] = "sortlines" /\ pc'[t] = "sorting" /\ at' = at
      /\ node' = node /\ input' = input /\ out' = out /\ saved' = saved /\ pc[t] \in Sorting
  <2>1. OthersKeep(t) /\ pc[t] = "sortlines" /\ pc'[t] = "sorting"
    BY <1>0, ActionMoves DEF Moves
  <2> QED BY <2>1 DEF BeginSort, Sorting
<1>2. PICK n \in Regular : /\ n = at[t] /\ ~InUse(n) /\ node[n] = NewNode(n)
  BY <1>1, SorterFacts
<1> DEFINE L == LinesOf(n)
           i == Tree[n].nlo
           j == Tree[n].nhi
<1>3. /\ L \in Nat /\ i \in Nat /\ j \in Nat /\ L + (i + j) <= NLines
      /\ Total(n) = i + j /\ node[n].nlo = i /\ node[n].nhi = j /\ Rng(n) = (L + 1)..(L + (i + j))
      /\ NLines \in Nat /\ Rng(n) \subseteq Lines
  BY <1>2, PlaceFacts, RngInLines, SizesAssumption DEF NewNode, Rng
<1> HIDE DEF L, i, j
<1>4. /\ mem' = Store(Store(mem, L, Fill(i + j)), L + NLines, Fill(i \div 2 + j \div 2))
      /\ \E lo \in StableSorts(Slice(L, i)), hi \in StableSorts(Slice(L + i, j)) :
           work' = [work EXCEPT ![t] = lo \o hi]
  BY <1>2, <1>3 DEF BeginSort, L
<1>5. ASSUME NEW x \in Addresses, \A q \in {0, 1}, b \in Rng(n) : x # Addr(q, b)
      PROVE  mem'[x] = mem[x]
  <2> DEFINE f == Store(mem, L, Fill(i + j))
             c == i \div 2 + j \div 2
  <2>1. /\ Fill(i + j) \in Seq(Slots) /\ Len(Fill(i + j)) = i + j
        /\ Fill(c) \in Seq(Slots) /\ Len(Fill(c)) = c /\ c \in Nat /\ c <= i + j
    <3>1. c \in Nat /\ c <= i + j
      BY <1>3
    <3> HIDE DEF c
    <3>2. i + j \in Nat
      BY <1>3
    <3> QED BY <3>1, <3>2, FillFacts
  <2> HIDE DEF c
  <2>2. f \in [Addresses -> Slots]
    BY <1>0, <1>3, <2>1, StoreType
  <2>3. x \in Int
    BY SizesAssumption DEF Addresses
  <2>4. x \notin L..(L + (i + j) - 1)
    <3> SUFFICES ASSUME x \in L..(L + (i + j) - 1) PROVE FALSE
      OBVIOUS
    <3>1. PICK b \in Rng(n) : b = x + 1
      BY <1>3, <2>3
    <3>2. b \in Lines
      BY <1>3
    <3>3. Addr(0, b) = b - 1
      BY <3>2, AddrIn
    <3>4. Addr(0, b) = x
      BY <2>3, <3>1, <3>3
    <3> QED BY <1>5, <3>4
  <2>5. x \notin (L + NLines)..(L + NLines + c - 1)
    <3> SUFFICES ASSUME x \in (L + NLines)..(L + NLines + c - 1) PROVE FALSE
      OBVIOUS
    <3>1. PICK b \in Rng(n) : b = x - NLines + 1
      <4>1. x - NLines + 1 \in (L + 1)..(L + (i + j))
        BY <1>3, <2>1, <2>3
      <4> QED BY <1>3, <4>1
    <3>2. Addr(1, b) = NLines + b - 1
      BY <1>3 DEF Addr
    <3>3. Addr(1, b) = x
      BY <1>3, <2>3, <3>1, <3>2
    <3> QED BY <1>5, <3>3
  <2>6. f[x] = mem[x]
    BY <1>0, <1>3, <2>1, <2>4, StoreFacts
  <2> HIDE DEF f
  <2>7. Store(f, L + NLines, Fill(c))[x] = f[x]
    <3>1. L + NLines \in Nat
      BY <1>3
    <3> HIDE DEF f
    <3> QED BY <2>1, <2>2, <2>5, <3>1, StoreFacts
  <2> QED BY <1>4, <2>6, <2>7 DEF f, c
<1>6. \A k \in Regular : LeftLo(k)' = LeftLo(k) /\ LeftHi(k)' = LeftHi(k)
  <2>1. Step(t) \/ Spurious(t)
    BY DEF Step
  <2>2. ~Merge(t) /\ ~Drain(t)
    BY <1>1 DEF Merge, Drain
  <2> QED BY <2>1, <2>2, LeftKept
<1>7. \A k \in Regular : /\ Split(k)' <=> Split(k)
                         /\ Sorted(k)' <=> Sorted(k)
                         /\ node'[k].lo = node[k].lo /\ node'[k].hi = node[k].hi
  BY <1>0, <1>1, OthersKept, TreeFacts DEF Sorted
<1>8. /\ \A k \in Regular \ {n}, s \in Sides : HalfOK(k, s)'
      /\ CutsOK'
      /\ \A r \in Threads \ {t} : pc'[r] = pc[r] /\ at'[r] = at[r] => UnsortedOK(r)'
      /\ \A k \in Regular, s \in Sides : LeftOf(k, s)' = LeftOf(k, s)
      /\ \A k \in Regular : Left(k)' = Left(k)
  BY <1>1, <1>2, <1>5, <1>6, <1>7, LeafStep
<1>9. HalvesOK'
  <2>1. ASSUME NEW s \in Sides PROVE HalfOK(n, s)'
    <3>1. ~InUse(n)' /\ LeftOf(n, s)' = LeftOf(n, s) /\ LeftOf(n, s) <= Count(n, s)
      BY <1>0, <1>2, <1>7, <1>8 DEF InUse, HalvesOK, HalfOK
    <3> QED BY <3>1 DEF HalfOK
  <2> QED BY <1>8, <2>1 DEF HalvesOK
<1>10. SortingOK(t)'
  <2>1. PICK lo \in StableSorts(Slice(L, i)), hi \in StableSorts(Slice(L + i, j)) :
          work' = [work EXCEPT ![t] = lo \o hi]
    BY <1>4
  <2>2. \A b \in (L + 1)..(L + (i + j)) : mem[Addr(0, b)] = b
    BY <1>0, <1>1, <1>2, <1>3 DEF SortersOK, UnsortedOK
  <2>3. Slice(L, i) = [r \in 1..i |-> L + r]
    <3>1. \A b \in (L + 1)..(L + i) : b \in (L + 1)..(L + (i + j))
      BY <1>3
    <3>2. L + i <= NLines
      BY <1>3
    <3> QED BY <1>0, <1>3, <2>2, <3>1, <3>2, SliceFacts
  <2>4. Slice(L + i, j) = [r \in 1..j |-> (L + i) + r]
    <3>1. \A b \in (L + i + 1)..(L + i + j) : b \in (L + 1)..(L + (i + j))
      BY <1>3
    <3>2. (L + i) + j <= NLines /\ L + i \in Nat
      BY <1>3
    <3> QED BY <1>0, <1>3, <2>2, <3>1, <3>2, SliceFacts
  <2>5. input \in Keyings
    BY <1>0, InputsAssumption DEF TypeOK, Keyings, Lines
  <2>6. /\ lo \in Seq(Lines) /\ Len(lo) = i
        /\ \A r \in 1..i : Ranked(input, lo[r], r, (L + 1)..(L + i))
    <3>1. L + i <= NLines
      BY <1>3
    <3> QED BY <1>3, <2>1, <2>3, <2>5, <3>1, SortRank
  <2>7. /\ hi \in Seq(Lines) /\ Len(hi) = j
        /\ \A r \in 1..j : Ranked(input, hi[r], r, (L + i + 1)..(L + i + j))
    <3>1. (L + i) + j <= NLines /\ L + i \in Nat
      BY <1>3
    <3> QED BY <1>3, <2>1, <2>4, <2>5, <3>1, SortRank
  <2>8. /\ work'[t] = lo \o hi /\ Len(lo \o hi) = i + j
        /\ \A r \in 1..i : (lo \o hi)[r] = lo[r]
        /\ \A r \in 1..j : (lo \o hi)[i + r] = hi[r]
    <3>1. work'[t] = lo \o hi
      BY <1>0, <2>1
    <3>2. /\ Len(lo \o hi) = i + j
          /\ \A r \in 1..i : (lo \o hi)[r] = lo[r]
          /\ \A r \in 1..j : (lo \o hi)[i + r] = hi[r]
      <4>1. Len(lo) = i /\ Len(hi) = j /\ lo \in Seq(Lines) /\ hi \in Seq(Lines)
        BY <2>6, <2>7
      <4>2. Len(lo \o hi) = i + j
        BY <4>1
      <4>3. \A r \in 1..i : (lo \o hi)[r] = lo[r]
        BY <1>3, <4>1
      <4>4. ASSUME NEW r \in 1..j PROVE (lo \o hi)[i + r] = hi[r]
        <5>1. PICK x : x = i + r
          OBVIOUS
        <5>2. x \in 1..(i + j) /\ ~(x <= i) /\ x - i = r
          BY <1>3, <5>1
        <5>3. (lo \o hi)[x] = hi[x - i]
          BY <4>1, <5>2
        <5> QED BY <5>1, <5>2, <5>3
      <4> QED BY <4>2, <4>3, <4>4
    <3> QED BY <3>1, <3>2
  <2>9. ASSUME NEW s \in Sides, NEW r \in 1..Count(n, s)
        PROVE  Ranked(input, work'[t][First(n, s) - L + r], r, Part(n, s))
    <3>1. CASE s = "lo"
      <4>1. First(n, s) = L /\ Count(n, s) = i /\ Part(n, s) = (L + 1)..(L + i)
        BY <3>1 DEF First, Count, Part, L, i
      <4>2. r \in 1..i /\ First(n, s) - L + r = r
        BY <1>3, <4>1
      <4> QED BY <2>6, <2>8, <4>1, <4>2
    <3>2. CASE s = "hi"
      <4>1. First(n, s) = L + i /\ Count(n, s) = j /\ Part(n, s) = (L + i + 1)..(L + i + j)
        BY <3>2 DEF First, Count, Part, L, i, j
      <4>2. r \in 1..j /\ First(n, s) - L + r = i + r
        BY <1>3, <4>1
      <4> QED BY <2>7, <2>8, <4>1, <4>2
    <3> QED BY <3>1, <3>2 DEF Sides
  <2>10. at'[t] = n
    BY <1>1, <1>2
  <2> QED BY <1>1, <1>3, <2>8, <2>9, <2>10 DEF SortingOK, L
<1>11. SortersOK'
  <2>1. \A r \in Threads : pc'[r] \in Sorting => pc[r] \in Sorting /\ at'[r] = at[r]
    BY <1>1 DEF OthersKeep, Sorting
  <2>2. \A r \in Threads, k \in Regular, s \in Sides : FreshOK(r, k, s)'
    BY <1>0, <1>7, <1>8, <2>1, FreshKept
  <2>3. ASSUME NEW r \in Threads \ {t} PROVE UnsortedOK(r)' /\ SortingOK(r)'
    <3>1. pc'[r] \in Sorting => pc'[r] = pc[r] /\ at'[r] = at[r]
      BY <1>1 DEF OthersKeep, Sorting
    <3>2. work'[r] = work[r]
      BY <1>0, <1>4
    <3>3. UnsortedOK(r)'
      BY <1>8, <3>1 DEF UnsortedOK, Sorting
    <3>4. SortingOK(r)'
      BY <1>0, <1>1, <3>1, <3>2 DEF SortersOK, SortingOK, Sorting
    <3> QED BY <3>3, <3>4
  <2>4. UnsortedOK(t)'
    BY <1>1 DEF UnsortedOK
  <2> QED BY <1>10, <2>2, <2>3, <2>4 DEF SortersOK
<1>12. DrainersOK'
  <2>1. \A r \in Threads : pc'[r] \in {"drainlo", "drainhi"} => pc'[r] = pc[r] /\ at'[r] = at[r]
    BY <1>1 DEF OthersKeep
  <2> QED BY <1>0, <1>6, <2>1, DrainKept
<1>13. OutOK'
  BY <1>1, <1>8, TreeFacts DEF OrderInv, OutOK, Written
<1> QED BY <1>8, <1>9, <1>11, <1>12, <1>13 DEF OrderInv

\* The lines of a side are all left while nobody has merged or sorted the node.
LEMMA NewLeft ==
  ASSUME SafeInv, NEW n \in Regular, node[n] = NewNode(n),
         \A r \in Threads : ~In(r, Merging, n), NEW s \in Sides
  PROVE  LeftOf(n, s) = Count(n, s) /\ Left(n) = Total(n)
<1>1. Viewed(n)
  BY Views DEF SafeInv, SeenInv
<1>2. LeftLo(n) = Tree[n].nlo /\ LeftHi(n) = Tree[n].nhi
  BY <1>1 DEF Viewed, In, NewNode
<1> QED BY <1>2 DEF LeftOf, Count, Left, Total

\* sequential_sort returns: the leaf has its lines, in order.
LEMMA EndOrder ==
  ASSUME SafeInv, SafeInv', OrderInv, NEW t \in Threads, EndSort(t)
  PROVE  OrderInv'
<1>0. /\ TypeOK /\ QueueInv /\ LockInv /\ HalvesOK /\ SortersOK /\ DrainersOK
      /\ mem \in [Addresses -> Slots] /\ work \in [Threads -> Seq(Slots)]
      /\ node \in [Nodes -> NodeType]
  BY DEF SafeInv, SeenInv, TypeOK, OrderInv, NodeType
<1>1. /\ OthersKeep(t) /\ pc[t] = "sorting" /\ pc'[t] = "pop"
      /\ input' = input /\ out' = out /\ saved' = saved /\ pc[t] \in Sorting
      /\ mem' = Store(mem, LinesOf(at[t]), work[t])
      /\ work' = [work EXCEPT ![t] = <<>>]
  <2>1. OthersKeep(t) /\ pc[t] = "sorting" /\ pc'[t] = "pop"
    BY <1>0, ActionMoves DEF Moves
  <2> QED BY <2>1 DEF EndSort, Sorting
<1>2. PICK n \in Regular : /\ n = at[t] /\ ~InUse(n) /\ ~Split(n) /\ node[n] = NewNode(n)
                           /\ \A r \in Threads : r # t /\ pc[r] # "none" => at[r] # n
  BY <1>1, SorterFacts
<1> DEFINE L == LinesOf(n)
           i == Tree[n].nlo
           j == Tree[n].nhi
<1>3. /\ L \in Nat /\ i \in Nat /\ j \in Nat /\ L + (i + j) <= NLines
      /\ Total(n) = i + j /\ node[n].nlo = i /\ node[n].nhi = j /\ Rng(n) = (L + 1)..(L + (i + j))
      /\ NLines \in Nat /\ Rng(n) \subseteq Lines /\ L < Tree[n].lo /\ n \in Nodes
  <2>1. L + i < Tree[n].lo /\ Tree[n].lo \in Nat
    BY LeafRegion, PlaceFacts
  <2>2. /\ L \in Nat /\ i \in Nat /\ j \in Nat /\ L + (i + j) <= NLines
        /\ Total(n) = i + j /\ node[n].nlo = i /\ node[n].nhi = j /\ Rng(n) = (L + 1)..(L + (i + j))
        /\ NLines \in Nat /\ Rng(n) \subseteq Lines
    BY <1>2, PlaceFacts, RngInLines, SizesAssumption DEF NewNode, Rng
  <2> HIDE DEF L, i, j
  <2>3. L < Tree[n].lo /\ n \in Nodes
    BY <2>1, <2>2, TreeFacts
  <2> QED BY <2>2, <2>3
<1>4. /\ \A k \in Nodes \ {n} : node'[k] = node[k]
      /\ node'[n].lo = L /\ node'[n].hi = L + i
  <2> DEFINE mid == L + i
             end == mid + j
  <2>1. node' = [node EXCEPT ![n].lo = L, ![n].hi = mid, ![n].end_lo = mid, ![n].end_hi = end]
    BY <1>2, <1>3 DEF EndSort
  <2> HIDE DEF mid, end, L
  <2>2. /\ \A k \in Nodes \ {n} : node'[k] = node[k]
        /\ node'[n].lo = L /\ node'[n].hi = mid
    BY <1>0, <1>3, <2>1 DEF NodeType
  <2> QED BY <2>2 DEF mid, L
<1> HIDE DEF L, i, j
<1>5. /\ work[t] \in Seq(Slots) /\ Len(work[t]) = i + j
      /\ \A s \in Sides : \A r \in 1..Count(n, s) :
           Ranked(input, work[t][First(n, s) - L + r], r, Part(n, s))
  <2>1. SortingOK(t)
    BY <1>0 DEF SortersOK
  <2> QED BY <1>0, <1>1, <1>2, <1>3, <2>1 DEF SortingOK, L
<1>6. \A x \in Addresses : mem'[x] = IF x \in L..(L + (i + j) - 1)
                                     THEN work[t][x - L + 1] ELSE mem[x]
  <2>1. mem' = Store(mem, L, work[t])
    BY <1>1, <1>2 DEF L
  <2>2. PICK w \in Seq(Slots) : w = work[t] /\ Len(w) = i + j
    BY <1>5
  <2>3. \A x \in Addresses : Store(mem, L, w)[x] = IF x \in L..(L + Len(w) - 1)
                                                    THEN w[x - L + 1] ELSE mem[x]
    BY <1>0, <1>3, StoreFacts
  <2> QED BY <2>1, <2>2, <2>3
<1>7. ASSUME NEW x \in Addresses, \A q \in {0, 1}, b \in Rng(n) : x # Addr(q, b)
      PROVE  mem'[x] = mem[x]
  <2> SUFFICES ASSUME x \in L..(L + (i + j) - 1) PROVE FALSE
    BY <1>6
  <2>1. x \in Int
    BY SizesAssumption DEF Addresses
  <2>2. PICK b \in Rng(n) : b = x + 1
    BY <1>3, <2>1
  <2>3. b \in Lines
    BY <1>3
  <2>4. Addr(0, b) = b - 1
    BY <2>3, AddrIn
  <2>5. Addr(0, b) = x
    BY <2>1, <2>2, <2>4
  <2> QED BY <1>7, <2>5
<1>8. \A k \in Regular : LeftLo(k)' = LeftLo(k) /\ LeftHi(k)' = LeftHi(k)
  <2>1. Step(t) \/ Spurious(t)
    BY DEF Step
  <2>2. ~Merge(t) /\ ~Drain(t)
    BY <1>1 DEF Merge, Drain
  <2> QED BY <2>1, <2>2, LeftKept
<1>9. /\ \A k \in Regular : Split(k)' <=> Split(k)
      /\ \A k \in Regular \ {n} : /\ Sorted(k)' <=> Sorted(k)
                                  /\ node'[k].lo = node[k].lo /\ node'[k].hi = node[k].hi
  BY <1>0, <1>1, <1>4, OthersKept, TreeFacts DEF Sorted
<1>10. /\ \A k \in Regular \ {n}, s \in Sides : HalfOK(k, s)'
       /\ CutsOK'
       /\ \A r \in Threads \ {t} : pc'[r] = pc[r] /\ at'[r] = at[r] => UnsortedOK(r)'
       /\ \A k \in Regular, s \in Sides : LeftOf(k, s)' = LeftOf(k, s)
       /\ \A k \in Regular : Left(k)' = Left(k)
  BY <1>1, <1>2, <1>7, <1>8, <1>9, LeafStep
<1>11. ASSUME NEW s \in Sides
       PROVE  HalfOK(n, s)'
  <2>1. LeftOf(n, s)' = Count(n, s) /\ Count(n, s) \in Nat /\ First(n, s) \in Nat
    <3>1. \A r \in Threads : ~In(r, Merging, n)
      BY <1>1, <1>2 DEF In, Merging
    <3>2. LeftOf(n, s) = Count(n, s)
      BY <1>2, <3>1, NewLeft
    <3> QED BY <1>10, <3>2, SideFacts, PartInLines
  <2>2. ~Split(n)' /\ Region(n)' = 0
    BY <1>2, <1>9 DEF Region
  <2>3. Taken(n, s)' = 0 /\ Come(n, s)' = Count(n, s)
    BY <2>1, <2>2 DEF Taken, Come
  <2>4. Addr(0, First(n, s) + 0 + 1) = First(n, s)
    BY <1>3, <2>1 DEF Addr
  <2>5. Pointer(n, s)' = First(n, s)
    <3>1. Pointer(n, s)' = IF s = "lo" THEN L ELSE L + i
      BY <1>4 DEF Pointer
    <3> QED BY <3>1 DEF First, L, i
  <2>6. ASSUME NEW r \in 1..Count(n, s)
        PROVE  Ranked(input, mem'[Addr(0, First(n, s) + r)], r, Part(n, s))
    <3>1. PICK b : b = First(n, s) + r
      OBVIOUS
    <3>2. b \in Lines /\ b \in Rng(n)
      <4>1. b \in Part(n, s)
        BY <2>1, <3>1 DEF Part
      <4> QED BY <4>1, PartInLines
    <3>3. Addr(0, b) = b - 1 /\ Addr(0, b) \in Addresses
      BY <3>2, AddrIn
    <3>4. Addr(0, b) \in L..(L + (i + j) - 1) /\ Addr(0, b) - L + 1 = First(n, s) - L + r
      <4>1. b \in (L + 1)..(L + (i + j))
        BY <1>3, <3>2
      <4>2. PICK x, f \in Nat : x = Addr(0, b) /\ x = b - 1 /\ f = First(n, s) /\ b = f + r
        BY <2>1, <3>1, <3>3
      <4>3. r \in Int
        BY <2>1
      <4>4. x \in L..(L + (i + j) - 1) /\ x - L + 1 = f - L + r
        <5>1. L \in Nat /\ i + j \in Nat /\ b \in Nat
          BY <1>3, <4>1
        <5>2. PICK c \in Nat : c = i + j
          BY <5>1
        <5>3. b \in (L + 1)..(L + c)
          BY <4>1, <5>2
        <5>4. x \in L..(L + c - 1)
          BY <4>2, <5>1, <5>2, <5>3
        <5>5. x - L + 1 = f - L + r
          BY <4>2, <4>3, <5>1
        <5> QED BY <5>2, <5>4, <5>5
      <4> QED BY <4>2, <4>4
    <3>5. mem'[Addr(0, b)] = work[t][First(n, s) - L + r]
      BY <1>6, <3>3, <3>4
    <3> QED BY <1>5, <3>1, <3>5
  <2>7. Placed(n, s)'
    <3>1. (Taken(n, s)' + 1)..Come(n, s)' = 1..Count(n, s)
      BY <2>3
    <3> QED BY <1>1, <2>2, <2>6, <3>1 DEF Placed
  <2> QED BY <2>1, <2>2, <2>3, <2>4, <2>5, <2>7 DEF HalfOK
<1>12. HalvesOK'
  BY <1>10, <1>11 DEF HalvesOK
<1>13. SortersOK'
  <2>1. \A r \in Threads : pc'[r] \in Sorting => pc[r] \in Sorting /\ at'[r] = at[r]
    BY <1>1 DEF OthersKeep, Sorting
  <2>2. \A r \in Threads, k \in Regular, s \in Sides : FreshOK(r, k, s)'
    BY <1>0, <1>9, <1>10, <2>1, FreshKept
  <2>3. ASSUME NEW r \in Threads \ {t} PROVE UnsortedOK(r)' /\ SortingOK(r)'
    <3>1. pc'[r] \in Sorting => pc'[r] = pc[r] /\ at'[r] = at[r]
      BY <1>1 DEF OthersKeep, Sorting
    <3>2. work'[r] = work[r]
      BY <1>0, <1>1
    <3>3. UnsortedOK(r)'
      BY <1>10, <3>1 DEF UnsortedOK, Sorting
    <3>4. SortingOK(r)'
      BY <1>0, <1>1, <3>1, <3>2 DEF SortersOK, SortingOK, Sorting
    <3> QED BY <3>3, <3>4
  <2>4. UnsortedOK(t)' /\ SortingOK(t)'
    BY <1>1 DEF UnsortedOK, SortingOK
  <2> QED BY <2>2, <2>3, <2>4 DEF SortersOK
<1>14. DrainersOK'
  <2>1. \A r \in Threads : pc'[r] \in {"drainlo", "drainhi"} => pc'[r] = pc[r] /\ at'[r] = at[r]
    BY <1>1 DEF OthersKeep
  <2> QED BY <1>0, <1>8, <2>1, DrainKept
<1>15. OutOK'
  BY <1>1, <1>10, TreeFacts DEF OrderInv, OutOK, Written
<1> QED BY <1>10, <1>12, <1>13, <1>14, <1>15 DEF OrderInv

\* A node with lines in common with a child of n, which has not been split, and split
\* itself, is above n: the lines of n are on the same side of it.
LEMMA SplitAbove ==
  ASSUME QueueInv, NEW n \in Regular, ~Split(n), NEW c \in Regular,
         Rng(c) \subseteq Rng(n), Rng(c) # {},
         NEW k \in Regular, Split(k), NEW s \in Sides, Rng(c) \subseteq Part(k, s)
  PROVE  Rng(n) \subseteq Part(k, s)
<1>1. Rng(n) \cap Rng(k) # {} /\ Part(k, s) \subseteq Rng(k)
  BY PartInLines
<1>2. Level(n) \in Nat /\ Level(k) \in Nat /\ n # k
  BY LevelFacts
<1>3. ~(Level(k) = Level(n))
  BY <1>1, <1>2, Laminar
<1>4. ~(Level(n) < Level(k))
  <2>1. Called(k)
    BY DEF QueueInv, UncalledIdle
  <2> QED BY <1>1, <2>1, CalledBelow
<1>5. Level(k) < Level(n)
  BY <1>2, <1>3, <1>4
<1>6. PICK v \in Sides : Rng(n) \subseteq Part(k, v)
  BY <1>1, <1>5, Laminar
<1>7. CASE v = s
  BY <1>6, <1>7
<1>8. CASE v # s
  <2>1. v = Other(s)
    BY <1>8 DEF Sides, Other
  <2>2. Part(k, s) \cap Part(k, v) = {}
    BY <2>1, SideFacts
  <2> QED BY <1>6, <2>2
<1> QED BY <1>7, <1>8

\* pthread_create succeeds: the node is split, and nothing has come to it yet.
LEMMA CreateOrder ==
  ASSUME SafeInv, SafeInv', OrderInv, NEW t \in Threads, Create(t)
  PROVE  OrderInv'
<1>0. /\ TypeOK /\ QueueInv /\ LockInv /\ HalvesOK /\ CutsOK /\ SortersOK /\ DrainersOK
      /\ pc \in [Threads -> Labels] /\ at \in [Threads -> Nodes]
  BY DEF SafeInv, SeenInv, TypeOK, OrderInv
<1>1. /\ pc[t] = "sortlines" /\ pc[t] \in Sorting /\ at[t] \in Interior
      /\ pc' = [pc EXCEPT ![Tree[at[t]].lo_child] = "sortlines"]
      /\ at' = [at EXCEPT ![t] = Tree[at[t]].hi_child]
      /\ mem' = mem /\ node' = node /\ input' = input /\ out' = out /\ saved' = saved
      /\ work' = work
  BY DEF Create, MaySplit, tableVars, Sorting
<1>2. PICK n \in Regular : /\ n = at[t] /\ ~InUse(n) /\ ~Split(n) /\ node[n] = NewNode(n)
                           /\ Called(n)
                           /\ \A r \in Threads : r # t /\ pc[r] # "none" => at[r] # n
  BY <1>1, SorterFacts
<1> DEFINE l == Child(n, "lo")
           h == Child(n, "hi")
<1>3. /\ n \in Interior /\ l = Tree[n].lo_child /\ h = Tree[n].hi_child
      /\ l \in Threads /\ l \in Regular /\ h \in Regular /\ l # h
      /\ Parent(l) = n /\ Parent(h) = n /\ l # RootNode /\ h # RootNode
  BY <1>1, <1>2, TreeFacts DEF Child
<1> HIDE DEF l, h
<1>4. pc[l] = "none" /\ ~Called(l) /\ ~Called(h) /\ Idle(l) /\ Idle(h) /\ ~Split(l) /\ ~Split(h)
  <2>1. pc[l] = "none"
    BY <1>2, <1>3 DEF Split
  <2>2. ~Called(l) /\ ~Called(h)
    BY <1>2, <1>3 DEF Called
  <2> QED BY <1>0, <1>3, <2>1, <2>2 DEF QueueInv, UncalledIdle
<1>5. /\ l # t /\ pc'[l] = "sortlines" /\ at'[l] = l /\ at'[t] = h /\ pc'[t] = "sortlines"
      /\ \A r \in Threads \ {t, l} : pc'[r] = pc[r] /\ at'[r] = at[r]
  BY <1>0, <1>1, <1>2, <1>3, <1>4 DEF QueueInv, NotYetAtHome
<1>6. /\ Split(n)'
      /\ \A k \in Regular \ {n} : Split(k)' <=> Split(k)
  <2>1. \A k \in Interior : k # n => Tree[k].lo_child # l
    BY <1>3, TreeFacts
  <2>2. \A k \in Interior : Tree[k].lo_child \in Threads
    BY TreeFacts
  <2>3. Split(n)'
    BY <1>3, <1>5 DEF Split
  <2> QED BY <1>0, <1>1, <1>2, <1>3, <2>1, <2>2, <2>3 DEF Split
<1>7. \A k \in Regular : LeftLo(k)' = LeftLo(k) /\ LeftHi(k)' = LeftHi(k)
  <2>1. Step(t) \/ Spurious(t)
    BY DEF Step
  <2>2. ~Merge(t) /\ ~Drain(t)
    BY <1>1 DEF Merge, Drain
  <2> QED BY <2>1, <2>2, LeftKept
<1>8. /\ \A k \in Regular, s \in Sides : LeftOf(k, s)' = LeftOf(k, s)
      /\ \A k \in Regular : Left(k)' = Left(k)
  BY <1>7 DEF LeftOf, Left
<1>9. ASSUME NEW s \in Sides
      PROVE  /\ LeftOf(n, s) = Count(n, s) /\ Child(n, s) \in Regular
             /\ Left(Child(n, s)) = Count(n, s) /\ Count(n, s) \in Nat
  <2>1. LeftOf(n, s) = Count(n, s)
    <3>1. \A r \in Threads : ~In(r, Merging, n)
      BY <1>1, <1>2 DEF In, Merging
    <3> QED BY <1>2, <3>1, NewLeft
  <2>2. PICK c \in {l, h} : c = Child(n, s)
    BY DEF Sides, l, h
  <2>3. /\ c \in Regular /\ ~InUse(c) /\ \A r \in Threads : ~In(r, Merging, c)
    <3>1. ~Sorted(c)
      BY <1>3, <1>4 DEF SafeInv, CountInv, SortedApart
    <3>2. Idle(c) /\ ~Split(c)
      BY <1>4
    <3> QED BY <1>3, <3>1, <3>2 DEF InUse, Idle, In, Merging
  <2>4. node[c] = NewNode(c)
    BY <2>3 DEF SafeInv, CountInv, UnusedNew
  <2>5. Left(c) = Total(c)
    BY <2>3, <2>4, NewLeft DEF Sides
  <2> QED BY <1>3, <2>1, <2>2, <2>3, <2>5, SideFacts
<1>10. ASSUME NEW s \in Sides PROVE HalfOK(n, s)'
  <2>1. Region(n)' = Level(n) /\ Level(n) \in Nat
    BY <1>6, LevelFacts DEF Region
  <2>2. Taken(n, s)' = 0 /\ Come(n, s)' = 0
    <3>1. Left(Child(n, s))' = Left(Child(n, s))
      BY <1>8, <1>9
    <3> QED BY <1>6, <1>8, <1>9, <3>1 DEF Taken, Come
  <2>3. Pointer(n, s)' = Addr(Level(n), First(n, s) + 0 + 1)
    <3>1. PICK z \in Nat : z = NLines * Level(n)
      BY PlaceFacts
    <3>2. /\ Tree[n].lo = z + LinesOf(n) /\ Tree[n].hi = Tree[n].lo + Tree[n].nlo
          /\ LinesOf(n) \in Int /\ Tree[n].nlo \in Nat
      BY <3>1, PlaceFacts
    <3>3. Pointer(n, s)' = IF s = "lo" THEN Tree[n].lo ELSE Tree[n].hi
      BY <1>1, <1>2 DEF Pointer, NewNode
    <3>4. PICK f \in Int : f = First(n, s)
      BY SideFacts
    <3>5. Pointer(n, s)' = z + f
      BY <3>2, <3>3, <3>4 DEF First
    <3>6. Addr(Level(n), First(n, s) + 0 + 1) = z + (f + 0 + 1) - 1
      BY <3>1, <3>4 DEF Addr
    <3> QED BY <3>5, <3>6
  <2>4. Placed(n, s)'
    BY <2>2 DEF Placed
  <2>5. LeftOf(n, s)' <= Count(n, s)
    BY <1>8, <1>9
  <2> QED BY <2>1, <2>2, <2>3, <2>4, <2>5 DEF HalfOK
<1>11. HalvesOK'
  <2> SUFFICES ASSUME NEW k \in Regular \ {n}, NEW s \in Sides PROVE HalfOK(k, s)'
    BY <1>10 DEF HalvesOK
  <2>1. LeftOf(k, s)' = LeftOf(k, s) /\ Pointer(k, s)' = Pointer(k, s)
    BY <1>1, <1>8 DEF Pointer
  <2>2. Split(k) => Left(Child(k, s))' = Left(Child(k, s))
    BY <1>8, SideFacts DEF Split
  <2>3. /\ Split(k)' <=> Split(k)
        /\ Sorted(k)' <=> Sorted(k)
    BY <1>1, <1>6 DEF Sorted
  <2> QED BY <1>0, <1>1, <2>1, <2>2, <2>3, HalfKept DEF HalvesOK
<1>12. CutsOK'
  BY <1>0, <1>1, <1>8, CutKept, SideFacts DEF CutsOK
<1>13. \A r \in Threads : UnsortedOK(r)' /\ SortingOK(r)'
  <2> SUFFICES ASSUME NEW r \in Threads PROVE UnsortedOK(r)' /\ SortingOK(r)'
    OBVIOUS
  <2>1. CASE r \notin {t, l}
    <3>1. pc'[r] = pc[r] /\ at'[r] = at[r] /\ work'[r] = work[r]
      BY <1>1, <1>5, <2>1
    <3> QED BY <1>0, <1>1, <3>1 DEF SortersOK, UnsortedOK, SortingOK
  <2>2. CASE r \in {t, l}
    <3>1. pc'[r] = "sortlines" /\ at'[r] \in {l, h}
      BY <1>5, <2>2
    <3>2. Rng(l) \subseteq Rng(n) /\ Rng(h) \subseteq Rng(n)
      BY <1>3, SideFacts, PartInLines DEF Sides, l, h
    <3>3. \A b \in Rng(n) : mem[Addr(0, b)] = b
      BY <1>0, <1>1, <1>2 DEF SortersOK, UnsortedOK
    <3>4. \A b \in Rng(at'[r]) : mem'[Addr(0, b)] = b
      BY <1>1, <3>1, <3>2, <3>3
    <3>5. UnsortedOK(r)'
      BY <3>4 DEF UnsortedOK
    <3>6. SortingOK(r)'
      BY <3>1 DEF SortingOK
    <3> QED BY <3>5, <3>6
  <2> QED BY <2>1, <2>2
<1>14. ASSUME NEW r \in Threads, NEW k \in Regular, NEW s \in Sides PROVE FreshOK(r, k, s)'
  <2> SUFFICES ASSUME pc'[r] \in Sorting, Split(k)', Rng(at'[r]) \subseteq Part(k, s)
               PROVE  Left(Child(k, s))' = Count(k, s)
    BY DEF FreshOK
  <2>1. CASE k = n
    BY <1>8, <1>9, <2>1
  <2>2. CASE k # n
    <3>1. Split(k) /\ Child(k, s) \in Regular
      BY <1>6, <2>2, SideFacts DEF Split
    <3> SUFFICES Left(Child(k, s)) = Count(k, s)
      BY <1>8, <3>1
    <3>2. CASE r \notin {t, l}
      <4>1. pc'[r] = pc[r] /\ at'[r] = at[r]
        BY <1>5, <3>2
      <4> QED BY <1>0, <3>1, <4>1 DEF SortersOK, FreshOK
    <3>3. CASE r \in {t, l}
      <4>1. PICK c \in {l, h} : c = at'[r]
        BY <1>5, <3>3
      <4>2. Rng(c) \subseteq Rng(n) /\ c \in Regular
        BY <1>3, SideFacts, PartInLines DEF Sides, l, h
      <4>3. Rng(c) # {}
        <5>1. Called(c)'
          BY <1>3, <1>6 DEF Called
        <5>2. Tree[c].nlo + Tree[c].nhi >= 2
          BY <4>2, <5>1 DEF SafeInv, CountInv, CalledLarge
        <5>3. LinesOf(c) \in Int /\ Total(c) >= 2 /\ Total(c) \in Nat
          BY <4>2, <5>2, PlaceFacts
        <5>4. LinesOf(c) + 1 \in Rng(c)
          BY <5>3 DEF Rng
        <5> QED BY <5>4
      <4>4. Rng(n) \subseteq Part(k, s)
        BY <1>0, <1>2, <3>1, <4>1, <4>2, <4>3, SplitAbove
      <4>5. FreshOK(t, k, s)
        BY <1>0 DEF SortersOK
      <4> QED BY <1>1, <1>2, <3>1, <4>4, <4>5 DEF FreshOK
    <3> QED BY <3>2, <3>3
  <2> QED BY <2>1, <2>2
<1>15. DrainersOK'
  <2>1. \A r \in Threads : pc'[r] \in {"drainlo", "drainhi"} => pc'[r] = pc[r] /\ at'[r] = at[r]
    BY <1>5
  <2> QED BY <1>0, <1>7, <2>1, DrainKept
<1>16. OutOK'
  BY <1>1, <1>8, TreeFacts DEF OrderInv, OutOK, Written
<1> QED BY <1>11, <1>12, <1>13, <1>14, <1>15, <1>16 DEF OrderInv, SortersOK

-----------------------------------------------------------------------------
(* Steps that move a line *)

\* The end of the lines that a node can merge on one side.
End(n, s) == IF s = "lo" THEN node[n].end_lo ELSE node[n].end_hi

\* The exact counts, side by side.
LEMMA SideCounts ==
  ASSUME SafeInv, NEW n \in Regular, NEW s \in Sides
  PROVE  /\ Pointer(n, s) \in Int /\ End(n, s) \in Int /\ Pointer(n, s) <= End(n, s)
         /\ Split(n) => LeftOf(n, s) = End(n, s) - Pointer(n, s) + Owed(Child(n, s))
         /\ Sorted(n) => LeftOf(n, s) = End(n, s) - Pointer(n, s)
<1>1. CountOK(n) /\ node[n] \in NodeType
  BY TreeFacts DEF SafeInv, SeenInv, CountInv, CountsOK, TypeOK, NodeType
<1>2. CASE s = "lo"
  <2>1. /\ Pointer(n, s) = node[n].lo /\ End(n, s) = node[n].end_lo /\ LeftOf(n, s) = LeftLo(n)
        /\ Child(n, s) = Tree[n].lo_child
    BY <1>2 DEF Pointer, End, LeftOf, Child
  <2> QED BY <1>1, <2>1 DEF CountOK, NodeType
<1>3. CASE s = "hi"
  <2>1. /\ Pointer(n, s) = node[n].hi /\ End(n, s) = node[n].end_hi /\ LeftOf(n, s) = LeftHi(n)
        /\ Child(n, s) = Tree[n].hi_child
    BY <1>3 DEF Pointer, End, LeftOf, Child
  <2> QED BY <1>1, <2>1 DEF CountOK, NodeType
<1> QED BY <1>2, <1>3 DEF Sides

\* Thread t sees that a side of its node n has lines.
Avail(n, s, e) == IF s = "lo" THEN LoAvail(n, e) ELSE HiAvail(n, e)

\* What a thread sees to be there is there: it came and is not taken.
LEMMA SideAvail ==
  ASSUME SafeInv, HalvesOK, NEW t \in Threads, NEW n \in Regular, NEW s \in Sides,
         In(t, Merging, n), NEW e \in Ends(t), Avail(n, s, e)
  PROVE  Taken(n, s) < Come(n, s)
<1>1. /\ e[1] \in Int /\ node[n].lo <= e[1] /\ e[1] <= node[n].end_lo
      /\ e[2] \in Int /\ node[n].hi <= e[2] /\ e[2] <= node[n].end_hi
  BY EndsFacts
<1>2. Pointer(n, s) \in Int /\ End(n, s) \in Int /\ Pointer(n, s) < End(n, s)
  <2>1. CASE s = "lo"
    <3>1. Pointer(n, s) = node[n].lo /\ End(n, s) = node[n].end_lo /\ node[n].lo # e[1]
      BY <2>1 DEF Pointer, End, Avail, LoAvail
    <3> QED BY <1>1, <3>1, SideCounts
  <2>2. CASE s = "hi"
    <3>1. Pointer(n, s) = node[n].hi /\ End(n, s) = node[n].end_hi /\ node[n].hi # e[2]
      BY <2>2 DEF Pointer, End, Avail, HiAvail
    <3> QED BY <1>1, <3>1, SideCounts
  <2> QED BY <2>1, <2>2 DEF Sides
<1>3. InUse(n)
  BY DEF SafeInv, CountInv, WorkersUse, In, Holding
<1>4. /\ LeftOf(n, s) \in Nat /\ Count(n, s) \in Nat /\ Taken(n, s) = Count(n, s) - LeftOf(n, s)
  BY HalfFacts, SideFacts
<1>5. CASE Split(n)
  <2>1. PICK c \in Regular : c = Child(n, s)
    BY <1>5, SideFacts DEF Split
  <2>2. Left(c) \in Nat /\ NInFlight(c) \in Nat /\ Owed(c) = NInFlight(c) + Left(c)
    BY OwedFacts
  <2>3. Come(n, s) = Count(n, s) - Left(c)
    BY <1>5, <2>1, HalfFacts
  <2>4. LeftOf(n, s) = End(n, s) - Pointer(n, s) + Owed(c)
    BY <1>5, <2>1, SideCounts
  <2> QED BY <1>2, <1>4, <2>2, <2>3, <2>4
<1>6. CASE Sorted(n)
  <2>1. LeftOf(n, s) = End(n, s) - Pointer(n, s)
    BY <1>6, SideCounts
  <2>2. ~Split(n)
    BY <1>6 DEF SafeInv, CountInv, SortedApart
  <2>3. Come(n, s) = Count(n, s)
    BY <2>2, HalfFacts
  <2> QED BY <1>2, <1>4, <2>1, <2>3
<1> QED BY <1>3, <1>5, <1>6 DEF InUse

\* The line that a side's pointer points to is the next of the side.
LEMMA HeadRank ==
  ASSUME SafeInv, HalvesOK, NEW n \in Regular, NEW s \in Sides, InUse(n),
         Taken(n, s) < Come(n, s)
  PROVE  Ranked(input, Read(Pointer(n, s)), Taken(n, s) + 1, Part(n, s))
<1>1. Taken(n, s) \in Nat /\ Come(n, s) \in Int
  BY HalfFacts
<1>2. PICK r \in (Taken(n, s) + 1)..Come(n, s) : r = Taken(n, s) + 1
  BY <1>1
<1>3. Addr(Region(n), First(n, s) + r) \in Addresses
  BY SlotFacts
<1>4. Pointer(n, s) = Addr(Region(n), First(n, s) + r)
  <2>1. First(n, s) + Taken(n, s) + 1 = First(n, s) + r
    BY <1>1, <1>2, SideFacts
  <2>2. Pointer(n, s) = Addr(Region(n), First(n, s) + Taken(n, s) + 1)
    BY DEF HalvesOK, HalfOK
  <2> QED BY <2>1, <2>2
<1>5. Read(Pointer(n, s)) = mem[Addr(Region(n), First(n, s) + r)]
  BY <1>3, <1>4 DEF Read
<1>6. Ranked(input, mem[Addr(Region(n), First(n, s) + r)], r, Part(n, s))
  BY DEF HalvesOK, HalfOK, Placed
<1> QED BY <1>2, <1>5, <1>6

LEMMA PartSize ==
  ASSUME NEW n \in Regular, NEW s \in Sides
  PROVE  Cardinality(Part(n, s)) = Count(n, s)
<1>1. PICK f \in Int, c \in Nat : f = First(n, s) /\ c = Count(n, s)
  BY SideFacts
<1>2. PICK a \in Int, b \in Int : a = f + 1 /\ b = f + c
  OBVIOUS
<1>3. Cardinality(a..b) = IF a > b THEN 0 ELSE b - a + 1
  BY FS_Interval
<1>4. Cardinality(a..b) = c
  BY <1>2, <1>3
<1> QED BY <1>1, <1>2, <1>4 DEF Part

\* The next line of side s of node n comes before what is left of the other side.
Leads(n, s) ==
  \A b \in Part(n, Other(s)) :
    Rank(input, b, Part(n, Other(s))) > Taken(n, Other(s)) =>
      Earlier(input, Read(Pointer(n, s)), b)

\* Then it is the next of the node.
LEMMA MoveRank ==
  ASSUME SafeInv, OrderInv, NEW n \in Regular, NEW s \in Sides, InUse(n),
         Taken(n, s) < Come(n, s), Leads(n, s)
  PROVE  /\ Ranked(input, Read(Pointer(n, s)), Total(n) - Left(n) + 1, Rng(n))
         /\ CutAt(input, Part(n, s), Part(n, Other(s)), Taken(n, s) + 1, Taken(n, Other(s)))
         /\ CutAt(input, Part(n, Other(s)), Part(n, s), Taken(n, Other(s)), Taken(n, s) + 1)
<1>0. HalvesOK /\ CutsOK /\ input \in Keyings
  BY InputsAssumption DEF OrderInv, SafeInv, SeenInv, TypeOK, Keyings, Lines
<1> DEFINE v == Other(s)
           A == Part(n, s)
           B == Part(n, v)
           x == Read(Pointer(n, s))
<1>1. v \in Sides /\ Other(v) = s
  BY SideFacts
<1>2. /\ A \in SUBSET Lines /\ B \in SUBSET Lines /\ A \cap B = {} /\ A \cup B = Rng(n)
  BY <1>1, PartInLines, SideFacts
<1>3. /\ Taken(n, s) \in Nat /\ Taken(n, v) \in Nat
      /\ Total(n) - Left(n) = Taken(n, s) + Taken(n, v)
      /\ Taken(n, v) <= Count(n, v) /\ Count(n, v) \in Nat
  <2>1. /\ Taken(n, s) \in Nat /\ LeftOf(n, s) \in Nat /\ Taken(n, s) = Count(n, s) - LeftOf(n, s)
        /\ Left(n) = LeftOf(n, s) + LeftOf(n, v)
    BY <1>0, HalfFacts
  <2>2. /\ Taken(n, v) \in Nat /\ LeftOf(n, v) \in Nat /\ Taken(n, v) = Count(n, v) - LeftOf(n, v)
    BY <1>0, <1>1, HalfFacts
  <2>3. /\ Count(n, s) \in Nat /\ Count(n, v) \in Nat /\ Count(n, s) + Count(n, v) = Total(n)
    BY <1>1, SideFacts
  <2> HIDE DEF v
  <2> QED BY <2>1, <2>2, <2>3
<1>4. Taken(n, v) <= Cardinality(B)
  <2>1. Cardinality(B) = Count(n, v)
    BY <1>1, PartSize
  <2> QED BY <1>3, <2>1
<1>5. CutAt(input, A, B, Taken(n, s), Taken(n, v)) /\ CutAt(input, B, A, Taken(n, v), Taken(n, s))
  BY <1>0, <1>1 DEF CutsOK, CutOK
<1>6. x \in A /\ Rank(input, x, A) = Taken(n, s) + 1
  BY <1>0, HeadRank DEF Ranked
<1>7. \A b \in B : Rank(input, b, B) > Taken(n, v) => Earlier(input, x, b)
  BY DEF Leads
<1> HIDE DEF A, B, x, v
<1>8. /\ Rank(input, x, A \cup B) = Taken(n, s) + Taken(n, v) + 1
      /\ CutAt(input, A, B, Taken(n, s) + 1, Taken(n, v))
      /\ CutAt(input, B, A, Taken(n, v), Taken(n, s) + 1)
  BY <1>0, <1>2, <1>3, <1>4, <1>5, <1>6, <1>7, MergeRank
<1>9. Ranked(input, x, Total(n) - Left(n) + 1, Rng(n))
  BY <1>2, <1>3, <1>6, <1>8 DEF Ranked
<1> QED BY <1>8, <1>9 DEF A, B, x, v

\* Where a node's line goes: after the last that its parent got from it.
LEMMA DestFacts ==
  ASSUME SafeInv, HalvesOK, NEW t \in Threads, NEW p \in Interior, NEW u \in Sides,
         p \in Regular, NEW n \in Regular, n = Child(p, u), In(t, Merging, n), Left(n) > 0
  PROVE  /\ Split(p) /\ n # RootNode /\ Parent(n) = p
         /\ m[t].dest = Addr(Level(p), First(p, u) + Come(p, u) + 1)
         /\ First(p, u) + Come(p, u) + 1 \in Part(p, u)
         /\ Come(p, u) = Total(n) - Left(n) /\ Come(p, u) \in Nat
         /\ m[t].dest \in Addresses
<1>1. /\ n # RootNode /\ Parent(n) = p /\ Total(n) = Count(p, u) /\ Rng(n) = Part(p, u)
      /\ First(p, u) \in Int /\ Count(p, u) \in Nat
  BY SideFacts
<1>2. TypeOK /\ QueueInv /\ LockInv /\ pc[t] # "none" /\ at[t] = n /\ pc[t] \in Merging
  BY DEF SafeInv, SeenInv, In, Merging
<1>3. Split(p)
  BY <1>1, <1>2, WorkerFacts DEF Called
<1>4. Dest(n) = End(p, u)
  <2>1. CASE u = "lo"
    <3>1. IsLo(n)
      BY <1>1, <2>1, ChildFacts DEF Child
    <3> QED BY <1>1, <2>1, <3>1 DEF Dest, End
  <2>2. CASE u = "hi"
    <3>1. ~IsLo(n)
      BY <1>1, <2>2, ChildFacts, TreeFacts DEF Child
    <3> QED BY <1>1, <2>2, <3>1 DEF Dest, End
  <2> QED BY <2>1, <2>2 DEF Sides
<1>5. NInFlight(n) = m[t].dest - Dest(n) /\ m[t].dest \in Int
  <2>1. Viewed(n)
    BY <1>2, Views
  <2>2. m[t] \in LocalsType
    BY <1>2 DEF TypeOK, LocalsType
  <2> QED BY <1>1, <1>2, <2>1, <2>2 DEF Viewed, LocalsType
<1>6. /\ Pointer(p, u) \in Int /\ End(p, u) \in Int
      /\ LeftOf(p, u) = End(p, u) - Pointer(p, u) + Owed(n)
  BY <1>3, SideCounts
<1>7. Owed(n) = NInFlight(n) + Left(n) /\ Left(n) \in Nat /\ NInFlight(n) \in Nat
  BY OwedFacts
<1>8. /\ Taken(p, u) \in Nat /\ Taken(p, u) = Count(p, u) - LeftOf(p, u) /\ LeftOf(p, u) \in Nat
      /\ Come(p, u) = Count(p, u) - Left(n) /\ InUse(p) /\ Taken(p, u) <= Come(p, u)
  BY <1>3, HalfFacts DEF InUse
<1>9. Pointer(p, u) = Addr(Level(p), First(p, u) + Taken(p, u) + 1)
  BY <1>3, <1>8 DEF HalvesOK, HalfOK, Region
<1>10. PICK z \in Nat : z = NLines * Level(p)
  BY PlaceFacts
<1>11. PICK f \in Int, i \in Nat, c \in Int : f = First(p, u) /\ i = Taken(p, u) /\ c = Come(p, u)
  BY <1>1, <1>7, <1>8
<1>12. Pointer(p, u) = z + (f + i + 1) - 1
  BY <1>9, <1>10, <1>11 DEF Addr
<1>13. Addr(Level(p), First(p, u) + Come(p, u) + 1) = z + (f + c + 1) - 1
  BY <1>10, <1>11 DEF Addr
<1>14. m[t].dest = z + (f + c + 1) - 1
  <2>1. PICK d \in Int, e \in Int, q \in Nat : d = m[t].dest /\ e = End(p, u) /\ q = Left(n)
    BY <1>5, <1>6, <1>7
  <2>2. LeftOf(p, u) = e - Pointer(p, u) + (d - e + q)
    BY <1>4, <1>5, <1>6, <1>7, <2>1
  <2> QED BY <1>1, <1>6, <1>8, <1>11, <1>12, <2>1, <2>2
<1>15. c \in Nat /\ c + 1 <= Count(p, u) /\ First(p, u) + Come(p, u) + 1 \in Part(p, u)
  <2>1. c \in Nat /\ c + 1 <= Count(p, u)
    BY <1>1, <1>7, <1>8, <1>11
  <2>2. f + c + 1 \in (f + 1)..(f + Count(p, u))
    BY <1>1, <2>1
  <2> QED BY <1>11, <2>1, <2>2 DEF Part
<1>16. m[t].dest = Addr(Level(p), First(p, u) + Come(p, u) + 1)
  BY <1>13, <1>14
<1>17. m[t].dest \in Addresses
  <2>1. PICK b : b = First(p, u) + Come(p, u) + 1
    OBVIOUS
  <2>2. b \in Lines /\ b \in Rng(p)
    BY <1>15, <2>1, PartInLines
  <2> QED BY <1>16, <2>1, <2>2, AddrIn
<1> QED BY <1>1, <1>3, <1>8, <1>11, <1>15, <1>16, <1>17

\* The slot that a child of p merges to is no slot of a line that a node can merge, nor
\* of a line that is to be sorted.
LEMMA DestSlot ==
  ASSUME SafeInv, HalvesOK, NEW p \in Regular, NEW u \in Sides, Split(p),
         NEW d \in Part(p, u), d = First(p, u) + Come(p, u) + 1
  PROVE  /\ \A k \in Regular, s \in Sides :
              InUse(k) => \A r \in (Taken(k, s) + 1)..Come(k, s) :
                            Addr(Region(k), First(k, s) + r) # Addr(Level(p), d)
         /\ \A b \in Lines : Addr(0, b) # Addr(Level(p), d)
<1>1. /\ d \in Lines /\ d \in Rng(p) /\ Level(p) \in Nat /\ Level(p) # 0
  BY PartInLines, LevelFacts
<1>2. ASSUME NEW k \in Regular, NEW s \in Sides, InUse(k), NEW r \in (Taken(k, s) + 1)..Come(k, s),
             Addr(Region(k), First(k, s) + r) = Addr(Level(p), d)
      PROVE  FALSE
  <2>1. PICK b : b = First(k, s) + r
    OBVIOUS
  <2>2. b \in Lines /\ b \in Part(k, s) /\ b \in Rng(k) /\ Region(k) \in Nat
    BY <2>1, SlotFacts, PartInLines, HalfFacts
  <2>3. b = d /\ Region(k) = Level(p)
    BY <1>1, <1>2, <2>1, <2>2, AddrFacts
  <2>4. Level(k) = Level(p)
    BY <1>1, <2>3 DEF Region
  <2>5. k = p
    BY <1>1, <2>2, <2>3, <2>4, Laminar
  <2>6. s = u
    <3> SUFFICES ASSUME s # u PROVE FALSE
      OBVIOUS
    <3>1. s = Other(u)
      BY DEF Sides, Other
    <3>2. Part(p, u) \cap Part(p, s) = {}
      BY <3>1, SideFacts
    <3> QED BY <2>2, <2>3, <2>5, <3>2
  <2>7. r = Come(p, u) + 1 /\ r <= Come(p, u) /\ Come(p, u) \in Int
    <3>1. Come(p, u) \in Int /\ First(p, u) \in Int /\ Taken(p, u) \in Nat
      BY HalfFacts, SideFacts
    <3> QED BY <2>1, <2>3, <2>5, <2>6, <3>1
  <2> QED BY <2>7
<1>3. \A b \in Lines : Addr(0, b) # Addr(Level(p), d)
  BY <1>1, AddrFacts
<1> QED BY <1>2, <1>3

\* No thread sorts lines of a node that merges: it would not have them.
LEMMA NoSorterBelow ==
  ASSUME SafeInv, OrderInv, NEW n \in Regular, InUse(n), NEW s \in Sides,
         Taken(n, s) < Come(n, s),
         Taken(n, Other(s)) < Come(n, Other(s)) \/ LeftOf(n, Other(s)) = 0,
         NEW r \in Threads, pc[r] \in Sorting
  PROVE  ~(Rng(at[r]) \subseteq Rng(n))
<1> SUFFICES ASSUME Rng(at[r]) \subseteq Rng(n) PROVE FALSE
  OBVIOUS
<1>0. QueueInv /\ HalvesOK /\ SortersOK /\ Called(n)
  BY SorterFacts DEF OrderInv, SafeInv, SeenInv
<1>1. PICK c \in Regular : /\ c = at[r] /\ Called(c) /\ ~Split(c) /\ ~InUse(c) /\ Rng(c) # {}
  BY SorterFacts
<1>2. /\ c # n /\ Rng(c) \cap Rng(n) # {} /\ Rng(n) \cap Rng(c) # {}
      /\ Level(c) \in Nat /\ Level(n) \in Nat
  BY <1>1, LevelFacts
<1>3. Level(c) # Level(n)
  BY <1>2, Laminar
<1>4. ~(Level(c) < Level(n))
  BY <1>0, <1>1, <1>2, CalledBelow
<1>5. Level(n) < Level(c)
  BY <1>2, <1>3, <1>4
<1>6. Split(n)
  BY <1>0, <1>1, <1>2, <1>5, CalledBelow
<1>7. PICK w \in Sides : Rng(c) \subseteq Part(n, w)
  BY <1>2, <1>5, Laminar
<1>8. Left(Child(n, w)) = Count(n, w)
  BY <1>0, <1>1, <1>6, <1>7 DEF SortersOK, FreshOK
<1>9. /\ Come(n, w) = 0 /\ Taken(n, w) \in Nat /\ Count(n, w) \in Nat
      /\ Taken(n, w) = Count(n, w) - LeftOf(n, w) /\ Taken(n, w) <= Come(n, w)
  BY <1>0, <1>6, <1>8, HalfFacts, SideFacts
<1>10. w = s \/ w = Other(s)
  BY DEF Sides, Other
<1>11. w = Other(s) /\ LeftOf(n, w) = 0
  BY <1>9, <1>10
<1>12. Count(n, w) = 0
  BY <1>9, <1>11
<1>13. Part(n, w) = {}
  <2>1. PICK f \in Int : f = First(n, w)
    BY SideFacts
  <2> QED BY <1>12, <2>1 DEF Part
<1> QED BY <1>1, <1>7, <1>13

\* The ranks among all lines.
LEMMA LineRanks ==
  ASSUME NEW k \in Keyings, NEW a \in Lines, NEW b \in Lines
  PROVE  /\ Rank(k, a, Lines) \in Nat /\ Rank(k, a, Lines) >= 1
         /\ Earlier(k, a, b) <=> Rank(k, a, Lines) < Rank(k, b, Lines)
         /\ a = b <=> Rank(k, a, Lines) = Rank(k, b, Lines)
<1>1. PICK R \in SUBSET Lines : R = Lines
  OBVIOUS
<1>2. a \in R /\ b \in R
  BY <1>1
<1>3. /\ Rank(k, a, R) \in Nat /\ Rank(k, a, R) >= 1
      /\ Earlier(k, a, b) <=> Rank(k, a, R) < Rank(k, b, R)
      /\ a = b <=> Rank(k, a, R) = Rank(k, b, R)
  BY <1>2, RankFacts
<1> QED BY <1>1, <1>3

\* The root writes the next line of all: it is what AbstractSort writes next, or under -u
\* it is a line whose key was written.
LEMMA WriteNext ==
  ASSUME input \in Keyings, NEW w \in Nat, Wrote(input, out, saved, w),
         NEW x, Ranked(input, x, w + 1, Lines), write_unique(x), input' = input
  PROVE  /\ Wrote(input, out', saved', w + 1)
         /\ out' = out \/ Abstract!Write
<1>0. /\ x \in Lines /\ Rank(input, x, Lines) = w + 1 /\ Lines \in SUBSET Lines
      /\ out \in Seq(Lines) /\ input \in [Lines -> Int]
      /\ \A b \in Lines : b \in Nat /\ b # 0
  BY DEF Ranked, Wrote, Keyings, Lines
<1>1. \A b \in Lines : (\E i \in DOMAIN out : out[i] = b) <=>
                         Rank(input, b, Lines) <= w /\ (Unique => FirstOf(input, b))
  BY DEF Wrote
<1>2. \A b \in Lines : /\ Rank(input, b, Lines) \in Nat /\ Rank(input, b, Lines) >= 1
                       /\ Rank(input, b, Lines) = w + 1 <=> b = x
                       /\ Rank(input, b, Lines) <= w <=> Earlier(input, b, x)
                       /\ Rank(input, b, Lines) > w + 1 => Earlier(input, x, b)
  <2> SUFFICES ASSUME NEW b \in Lines
               PROVE  /\ Rank(input, b, Lines) \in Nat /\ Rank(input, b, Lines) >= 1
                      /\ Rank(input, b, Lines) = w + 1 <=> b = x
                      /\ Rank(input, b, Lines) <= w <=> Earlier(input, b, x)
                      /\ Rank(input, b, Lines) > w + 1 => Earlier(input, x, b)
    OBVIOUS
  <2>1. /\ Rank(input, b, Lines) \in Nat /\ Rank(input, b, Lines) >= 1
        /\ Earlier(input, b, x) <=> Rank(input, b, Lines) < w + 1
        /\ Earlier(input, x, b) <=> w + 1 < Rank(input, b, Lines)
        /\ b = x <=> Rank(input, b, Lines) = w + 1
    <3>1. /\ Rank(input, b, Lines) \in Nat /\ Rank(input, b, Lines) >= 1
          /\ Earlier(input, b, x) <=> Rank(input, b, Lines) < Rank(input, x, Lines)
          /\ b = x <=> Rank(input, b, Lines) = Rank(input, x, Lines)
      BY <1>0, LineRanks
    <3>2. Earlier(input, x, b) <=> Rank(input, x, Lines) < Rank(input, b, Lines)
      BY <1>0, LineRanks
    <3> QED BY <1>0, <3>1, <3>2
  <2> QED BY <2>1
<1>3. CASE Unique /\ saved # 0 /\ compare(x, saved) = 0
  <2>1. saved' = saved /\ out' = out
    BY <1>3 DEF write_unique
  <2>2. PICK b \in Lines : Rank(input, b, Lines) = w /\ saved \in Lines /\ input[saved] = input[b]
    BY <1>3 DEF Wrote
  <2>3. input[x] = input[b] /\ b < x
    <3>1. input[x] \in Int /\ input[saved] \in Int /\ input[b] \in Int
      BY <1>0, <2>2
    <3>2. input[x] = input[saved]
      BY <1>0, <1>3, <2>2, <3>1 DEF compare, Key
    <3>3. Earlier(input, b, x)
      BY <1>2, <2>2
    <3> QED BY <2>2, <3>1, <3>2, <3>3 DEF Earlier
  <2>4. ~FirstOf(input, x)
    <3>1. b \in 1..(x - 1)
      BY <1>0, <2>3
    <3> QED BY <2>3, <3>1 DEF FirstOf
  <2>5. \A c \in Lines : (\E i \in DOMAIN out : out[i] = c) <=>
                           Rank(input, c, Lines) <= w + 1 /\ (Unique => FirstOf(input, c))
    <3> SUFFICES ASSUME NEW c \in Lines
                 PROVE  Rank(input, c, Lines) <= w /\ FirstOf(input, c) <=>
                          Rank(input, c, Lines) <= w + 1 /\ FirstOf(input, c)
      BY <1>1, <1>3
    <3> QED BY <1>2, <2>4
  <2>6. /\ w + 1 # 0 /\ Rank(input, x, Lines) = w + 1 /\ input[saved] = input[x]
    BY <1>0, <2>2, <2>3
  <2> QED BY <1>0, <2>1, <2>2, <2>5, <2>6 DEF Wrote
<1>4. ASSUME out' = Append(out, x), Unique => FirstOf(input, x) /\ saved' = x
      PROVE  /\ Wrote(input, out', saved', w + 1)
             /\ Abstract!Write
  <2>1. /\ out' \in Seq(Lines)
        /\ \A c \in Lines : (\E i \in DOMAIN out' : out'[i] = c) <=>
                              (\E i \in DOMAIN out : out[i] = c) \/ c = x
    <3>1. out' \in Seq(Lines) /\ Len(out') = Len(out) + 1 /\ Len(out) \in Nat
      BY <1>0, <1>4
    <3>2. /\ DOMAIN out' = 1..(Len(out) + 1) /\ DOMAIN out = 1..Len(out)
          /\ \A i \in 1..Len(out) : out'[i] = out[i]
          /\ out'[Len(out) + 1] = x
      BY <1>0, <1>4, <3>1
    <3> QED BY <3>1, <3>2
  <2>2. \A c \in Lines : (\E i \in DOMAIN out' : out'[i] = c) <=>
                           Rank(input, c, Lines) <= w + 1 /\ (Unique => FirstOf(input, c))
    <3> SUFFICES ASSUME NEW c \in Lines
                 PROVE  (Rank(input, c, Lines) <= w /\ (Unique => FirstOf(input, c))) \/ c = x <=>
                          Rank(input, c, Lines) <= w + 1 /\ (Unique => FirstOf(input, c))
      BY <1>1, <2>1
    <3>1. Rank(input, c, Lines) <= w + 1 <=> Rank(input, c, Lines) <= w \/ c = x
      BY <1>2
    <3> QED BY <1>4, <3>1
  <2>3. Unique => \E b \in Lines : /\ Rank(input, b, Lines) = w + 1
                                   /\ saved' \in Lines /\ input[saved'] = input[b]
    BY <1>0, <1>4
  <2>4. Wrote(input, out', saved', w + 1)
    BY <2>1, <2>2, <2>3 DEF Wrote
  <2>5. \A b \in Abstract!Left : /\ b \in Lines /\ (Unique => FirstOf(input, b))
                                 /\ ~\E i \in DOMAIN out : out[i] = b
    BY DEF Abstract!Left, FirstOf, Lines
  <2>6. x \in Abstract!Left
    <3>1. \A i \in DOMAIN out : out[i] # x
      BY <1>0, <1>1, <1>2
    <3> QED BY <1>0, <1>4, <3>1 DEF Abstract!Left, FirstOf, Lines
  <2>7. \A b \in Abstract!Left \ {x} : Abstract!Before(x, b)
    <3> SUFFICES ASSUME NEW b \in Abstract!Left, b # x PROVE Abstract!Before(x, b)
      OBVIOUS
    <3>1. ~(Rank(input, b, Lines) <= w)
      BY <1>1, <2>5
    <3>2. Rank(input, b, Lines) > w + 1
      BY <1>2, <2>5, <3>1
    <3> QED BY <1>2, <2>5, <3>2 DEF Earlier, Abstract!Before
  <2> QED BY <1>4, <2>4, <2>6, <2>7 DEF Abstract!Write
<1>5. CASE Unique /\ ~(saved # 0 /\ compare(x, saved) = 0)
  <2>1. saved' = x /\ out' = Append(out, x)
    BY <1>5 DEF write_unique
  <2>2. ASSUME NEW a \in 1..(x - 1), input[a] = input[x] PROVE FALSE
    <3>1. a \in Lines /\ a < x
      BY <1>0, SizesAssumption DEF Lines
    <3>2. Earlier(input, a, x) /\ Rank(input, a, Lines) <= w /\ w # 0
      <4>1. Earlier(input, a, x)
        BY <2>2, <3>1 DEF Earlier
      <4> QED BY <1>2, <3>1, <4>1
    <3>3. PICK b \in Lines : Rank(input, b, Lines) = w /\ saved \in Lines /\ input[saved] = input[b]
      BY <1>5, <3>2 DEF Wrote
    <3>4. input[x] \in Int /\ input[saved] \in Int /\ input[b] \in Int /\ input[a] \in Int
      BY <1>0, <3>1, <3>3
    <3>5. input[x] # input[b]
      BY <1>0, <1>5, <3>3, <3>4 DEF compare, Key
    <3>6. Earlier(input, b, x)
      BY <1>2, <3>3
    <3>7. a = b \/ Earlier(input, a, b)
      <4>1. /\ Earlier(input, a, b) <=> Rank(input, a, Lines) < Rank(input, b, Lines)
            /\ a = b <=> Rank(input, a, Lines) = Rank(input, b, Lines)
        BY <3>1, <3>3, LineRanks
      <4> QED BY <1>2, <3>1, <3>2, <3>3, <4>1
    <3> QED BY <2>2, <3>4, <3>5, <3>6, <3>7 DEF Earlier
  <2>3. FirstOf(input, x)
    BY <2>2 DEF FirstOf
  <2> QED BY <1>4, <2>1, <2>3
<1>6. CASE ~Unique
  BY <1>4, <1>6 DEF write_unique
<1> QED BY <1>3, <1>4, <1>5, <1>6

\* What moving a line does to the numbers of the nodes.
LEMMA MoveView ==
  ASSUME SafeInv, SafeInv', NEW t \in Threads, Merge(t) \/ Drain(t), NEW n \in Regular, at[t] = n,
         UNCHANGED <<pc, at>>, NEW s \in Sides, NEW e \in Ends(t), Move(t, s = "lo", e)
  PROVE  /\ LeftOf(n, s)' = LeftOf(n, s) - 1 /\ Pointer(n, s)' = Pointer(n, s) + 1
         /\ LeftOf(n, Other(s))' = LeftOf(n, Other(s)) /\ Pointer(n, Other(s))' = Pointer(n, Other(s))
         /\ \A k \in Regular \ {n}, v \in Sides : /\ LeftOf(k, v)' = LeftOf(k, v)
                                                  /\ Pointer(k, v)' = Pointer(k, v)
         /\ Left(n)' = Left(n) - 1
         /\ \A k \in Regular \ {n} : Left(k)' = Left(k)
         /\ \A k \in Regular : /\ Split(k)' <=> Split(k)
                               /\ Sorted(k)' <=> Sorted(k)
         /\ In(t, Merging, n) /\ InUse(n)
         /\ n # RootNode => /\ mem' = [mem EXCEPT ![m[t].dest] = Read(Pointer(n, s))]
                            /\ UNCHANGED <<saved, out>>
         /\ n = RootNode => write_unique(Read(Pointer(n, s))) /\ mem' = mem
<1>0. /\ TypeOK /\ QueueInv /\ LockInv /\ TypeOK' /\ LockInv'
      /\ node \in [Nodes -> NodeType] /\ m \in [Threads -> LocalsType] /\ n \in Nodes
      /\ Level(n) > MERGE_ROOT <=> n # RootNode
  BY TreeFacts DEF SafeInv, SeenInv, TypeOK, NodeType, LocalsType
<1>1. pc[t] \in Merging /\ pc'[t] \in Merging /\ at'[t] = n /\ In(t, Merging, n) /\ In(t, Holding, n)
  BY DEF Merge, Drain, Merging, Holding, In
<1> DEFINE lo == IF s = "lo" THEN 1 ELSE 0
           hi == IF s = "lo" THEN 0 ELSE 1
<1>2. /\ lo \in {0, 1} /\ hi \in {0, 1}
      /\ s = "lo" => lo = 1 /\ hi = 0
      /\ s # "lo" => lo = 0 /\ hi = 1
  OBVIOUS
<1>3. /\ node'[n].lo = node[n].lo + lo /\ node'[n].hi = node[n].hi + hi
      /\ node'[n].nlo = node[n].nlo /\ node'[n].nhi = node[n].nhi
      /\ \A k \in Nodes \ {n} : node'[k] = node[k]
  BY <1>0 DEF Move, NodeType
<1>4. m'[t].lo = m[t].lo /\ m'[t].hi = m[t].hi
  BY <1>0 DEF Move, Seen, LocalsType
<1> HIDE DEF lo, hi
<1>5. /\ LeftLo(n)' = LeftLo(n) - lo /\ LeftHi(n)' = LeftHi(n) - hi
      /\ LeftLo(n) \in Nat /\ LeftHi(n) \in Nat
  <2>1. Viewed(n) /\ Viewed(n)'
    BY <1>0, Views, ViewsNext
  <2>2. /\ LeftLo(n) = node[n].nlo - (node[n].lo - m[t].lo)
        /\ LeftHi(n) = node[n].nhi - (node[n].hi - m[t].hi)
    BY <1>1, <2>1 DEF Viewed
  <2>3. /\ LeftLo(n)' = node'[n].nlo - (node'[n].lo - m'[t].lo)
        /\ LeftHi(n)' = node'[n].nhi - (node'[n].hi - m'[t].hi)
    BY <1>1, <2>1 DEF Viewed
  <2>4. LeftLo(n) \in Nat /\ LeftHi(n) \in Nat
    BY OwedFacts
  <2>5. LeftLo(n)' = LeftLo(n) - lo /\ LeftHi(n)' = LeftHi(n) - hi
    BY <1>0, <1>2, <1>3, <1>4, <2>2, <2>3 DEF NodeType, LocalsType
  <2> QED BY <2>4, <2>5
<1>6. /\ LeftOf(n, s)' = LeftOf(n, s) - 1
      /\ LeftOf(n, Other(s))' = LeftOf(n, Other(s))
      /\ Left(n)' = Left(n) - 1
  <2>0. PICK i \in Nat, j \in Nat : i = LeftLo(n) /\ j = LeftHi(n)
    BY <1>5
  <2>1. LeftLo(n)' = i - lo /\ LeftHi(n)' = j - hi
    BY <1>5, <2>0
  <2>2. Left(n)' = Left(n) - 1
    <3>1. Left(n)' = (i - lo) + (j - hi)
      BY <2>1 DEF Left
    <3>2. Left(n) = i + j
      BY <2>0 DEF Left
    <3>3. (i - lo) + (j - hi) = i + j - 1
      BY <1>2
    <3> QED BY <3>1, <3>2, <3>3
  <2>3. /\ LeftOf(n, s)' = LeftOf(n, s) - 1
        /\ LeftOf(n, Other(s))' = LeftOf(n, Other(s))
    BY <1>2, <1>5 DEF LeftOf, Other, Sides
  <2> QED BY <2>2, <2>3
<1>7. Pointer(n, s)' = Pointer(n, s) + 1 /\ Pointer(n, Other(s))' = Pointer(n, Other(s))
  <2>1. node[n].lo \in Int /\ node[n].hi \in Int
    BY <1>0 DEF NodeType
  <2> QED BY <1>2, <1>3, <2>1 DEF Pointer, Other, Sides
<1>8. \A k \in Regular \ {n} : LeftLo(k)' = LeftLo(k) /\ LeftHi(k)' = LeftHi(k)
  <2>1. Step(t) \/ Spurious(t)
    BY DEF Step
  <2>2. \A k \in Regular \ {n} : ~In(t, Merging, k)
    BY DEF In
  <2> QED BY <2>1, <2>2, LeftKept
<1>9. /\ \A k \in Regular \ {n}, v \in Sides : /\ LeftOf(k, v)' = LeftOf(k, v)
                                               /\ Pointer(k, v)' = Pointer(k, v)
      /\ \A k \in Regular \ {n} : Left(k)' = Left(k)
  BY <1>3, <1>8, TreeFacts DEF LeftOf, Pointer, Left
<1>10. \A k \in Regular : Split(k)' <=> Split(k)
  BY DEF Split
<1>11. InUse(n) /\ InUse(n)'
  <2>1. In(t, Holding, n)'
    BY <1>1 DEF In, Holding
  <2> QED BY <1>1, <2>1 DEF SafeInv, CountInv, WorkersUse
<1>12. \A k \in Regular : Sorted(k)' <=> Sorted(k)
  <2>1. \A k \in Regular \ {n} : Sorted(k)' <=> Sorted(k)
    BY <1>3, TreeFacts DEF Sorted
  <2>2. Sorted(n)' <=> Sorted(n)
    BY <1>10, <1>11 DEF InUse, SafeInv, CountInv, SortedApart
  <2> QED BY <2>1, <2>2
<1>13. Read(IF s = "lo" THEN node[n].lo ELSE node[n].hi) = Read(Pointer(n, s))
  BY DEF Pointer
<1>14. /\ n # RootNode => /\ mem' = [mem EXCEPT ![m[t].dest] = Read(Pointer(n, s))]
                          /\ UNCHANGED <<saved, out>>
       /\ n = RootNode => write_unique(Read(Pointer(n, s))) /\ mem' = mem
  BY <1>0, <1>13 DEF Move
<1> QED BY <1>1, <1>6, <1>7, <1>9, <1>10, <1>11, <1>12, <1>14

\* Thread t moves the next line of its node n, which is one of side s.
MovesNext(t, n, s, e) ==
  /\ Merge(t) \/ Drain(t)
  /\ at[t] = n /\ UNCHANGED <<pc, at>>
  /\ Move(t, s = "lo", e)
  /\ Taken(n, s) < Come(n, s)
  /\ Taken(n, Other(s)) < Come(n, Other(s)) \/ LeftOf(n, Other(s)) = 0
  /\ Leads(n, s)
  /\ pc[t] = "drainlo" => s = "lo"
  /\ pc[t] = "drainhi" => s = "hi"

\* What this does to the table: the slots in use keep their lines, and the parent gets the
\* next line of its side.
LEMMA MoveTable ==
  ASSUME SafeInv, SafeInv', OrderInv, NEW t \in Threads, NEW n \in Regular, NEW s \in Sides,
         NEW e \in Ends(t), MovesNext(t, n, s, e)
  PROVE  /\ \A k \in Regular, z \in Sides :
              InUse(k) => \A r \in (Taken(k, z) + 1)..Come(k, z) :
                mem'[Addr(Region(k), First(k, z) + r)] = mem[Addr(Region(k), First(k, z) + r)]
         /\ \A b \in Lines : mem'[Addr(0, b)] = mem[Addr(0, b)]
         /\ \A p \in Regular, u \in Sides : Split(p) /\ n = Child(p, u) =>
              /\ p # n /\ Come(p, u) \in Nat /\ Come(p, u)' = Come(p, u) + 1
              /\ Ranked(input, mem'[Addr(Region(p), First(p, u) + (Come(p, u) + 1))],
                        Come(p, u) + 1, Part(p, u))
<1>0. /\ HalvesOK /\ mem \in [Addresses -> Slots] /\ In(t, Merging, n) /\ InUse(n)
      /\ n # RootNode => mem' = [mem EXCEPT ![m[t].dest] = Read(Pointer(n, s))]
      /\ n = RootNode => mem' = mem
      /\ Left(n)' = Left(n) - 1
      /\ \A k \in Regular : Split(k)' <=> Split(k)
  <2>1. Merge(t) \/ Drain(t)
    BY DEF MovesNext
  <2>2. /\ at[t] = n /\ UNCHANGED <<pc, at>> /\ Move(t, s = "lo", e)
    BY DEF MovesNext
  <2>3. mem \in [Addresses -> Slots] /\ HalvesOK
    BY DEF OrderInv, SafeInv, SeenInv, TypeOK
  <2> QED BY <2>1, <2>2, <2>3, MoveView
<1>1. Left(n) \in Nat /\ Left(n) > 0 /\ Total(n) \in Nat
  <2>1. /\ LeftOf(n, s) \in Nat /\ Left(n) = LeftOf(n, s) + LeftOf(n, Other(s))
        /\ Taken(n, s) = Count(n, s) - LeftOf(n, s) /\ Count(n, s) \in Nat
        /\ Come(n, s) \in Int /\ Come(n, s) <= Count(n, s) /\ Left(n) \in Nat
    BY <1>0, HalfFacts, SideFacts
  <2>2. LeftOf(n, Other(s)) \in Nat
    BY <1>0, SideFacts, HalfFacts
  <2>3. Taken(n, s) < Come(n, s)
    BY DEF MovesNext
  <2>4. Left(n) > 0
    BY <2>1, <2>2, <2>3
  <2> QED BY <2>1, <2>4, PlaceFacts
<1>2. Ranked(input, Read(Pointer(n, s)), Total(n) - Left(n) + 1, Rng(n))
  BY <1>0, MoveRank DEF MovesNext
<1>3. CASE n = RootNode
  <2>1. \A p \in Regular, u \in Sides : Split(p) => n # Child(p, u)
    BY <1>3, SideFacts DEF Split
  <2> QED BY <1>0, <1>3, <2>1
<1>4. CASE n # RootNode
  <2>1. PICK p \in Interior, u \in Sides : p = Parent(n) /\ p \in Regular /\ n = Child(p, u)
    BY <1>4, SideOf
  <2>2. /\ Split(p) /\ m[t].dest = Addr(Level(p), First(p, u) + Come(p, u) + 1)
        /\ First(p, u) + Come(p, u) + 1 \in Part(p, u)
        /\ Come(p, u) = Total(n) - Left(n) /\ Come(p, u) \in Nat
        /\ m[t].dest \in Addresses
    BY <1>0, <1>1, <2>1, DestFacts
  <2>3. PICK d \in Part(p, u) : d = First(p, u) + Come(p, u) + 1
    BY <2>2
  <2>4. /\ \A k \in Regular, z \in Sides :
             InUse(k) => \A r \in (Taken(k, z) + 1)..Come(k, z) :
                           Addr(Region(k), First(k, z) + r) # Addr(Level(p), d)
        /\ \A b \in Lines : Addr(0, b) # Addr(Level(p), d)
    <3>1. HalvesOK /\ p \in Regular /\ u \in Sides /\ Split(p)
      BY <1>0, <2>1, <2>2
    <3> QED BY <2>3, <3>1, DestSlot
  <2>5. /\ \A a \in Addresses : a # Addr(Level(p), d) => mem'[a] = mem[a]
        /\ mem'[Addr(Level(p), d)] = Read(Pointer(n, s))
    <3>1. PICK a : a = m[t].dest
      OBVIOUS
    <3>2. mem' = [mem EXCEPT ![a] = Read(Pointer(n, s))] /\ a \in Addresses
      BY <1>0, <1>4, <2>2, <3>1
    <3>3. a = Addr(Level(p), d)
      BY <2>2, <2>3, <3>1
    <3> QED BY <1>0, <3>2, <3>3
  <2>6. ASSUME NEW k \in Regular, NEW z \in Sides, InUse(k), NEW r \in (Taken(k, z) + 1)..Come(k, z)
        PROVE  mem'[Addr(Region(k), First(k, z) + r)] = mem[Addr(Region(k), First(k, z) + r)]
    <3>1. Addr(Region(k), First(k, z) + r) \in Addresses
      BY <1>0, SlotFacts
    <3> QED BY <2>4, <2>5, <2>6, <3>1
  <2>7. \A b \in Lines : mem'[Addr(0, b)] = mem[Addr(0, b)]
    BY <2>4, <2>5, AddrIn
  <2>8. ASSUME NEW q \in Regular, NEW w \in Sides, Split(q), n = Child(q, w)
        PROVE  q = p /\ w = u
    <3>1. q = p
      BY <2>1, <2>8, SideFacts DEF Split
    <3>2. w = u
      BY <2>1, <2>8, <3>1, ChildFacts, TreeFacts DEF Child, Sides
    <3> QED BY <3>1, <3>2
  <2>9. p # n /\ Come(p, u)' = Come(p, u) + 1
    <3>1. Level(n) = Level(p) + 1 /\ Level(p) \in Nat
      BY <2>1, SideFacts, LevelFacts
    <3>2. Split(p)' /\ Count(p, u) \in Nat
      BY <1>0, <2>1, <2>2, SideFacts
    <3>3. Come(p, u)' = Count(p, u) - Left(n)' /\ Come(p, u) = Count(p, u) - Left(n)
      BY <2>1, <2>2, <3>2 DEF Come
    <3>4. p # n
      BY <3>1
    <3>5. PICK i \in Nat, c \in Nat : i = Left(n) /\ c = Count(p, u)
      BY <1>1, <3>2
    <3>6. c - (i - 1) = c - i + 1
      OBVIOUS
    <3> QED BY <1>0, <3>3, <3>4, <3>5, <3>6
  <2>10. Ranked(input, mem'[Addr(Region(p), First(p, u) + (Come(p, u) + 1))],
                Come(p, u) + 1, Part(p, u))
    <3>1. Region(p) = Level(p) /\ Rng(n) = Part(p, u)
      BY <2>1, <2>2, SideFacts DEF Region
    <3>2. First(p, u) + (Come(p, u) + 1) = d
      <4>1. PICK f \in Int, c \in Nat : f = First(p, u) /\ c = Come(p, u)
        BY <2>1, <2>2, SideFacts
      <4>2. f + (c + 1) = f + c + 1
        OBVIOUS
      <4> QED BY <2>3, <4>1, <4>2
    <3>3. Ranked(input, Read(Pointer(n, s)), Come(p, u) + 1, Part(p, u))
      BY <1>2, <2>2, <3>1
    <3> QED BY <2>5, <3>1, <3>2, <3>3
  <2> QED BY <2>2, <2>6, <2>7, <2>8, <2>9, <2>10
<1> QED BY <1>3, <1>4

\* The invariant is kept, and what the root writes is what AbstractSort writes.
LEMMA MoveOrder ==
  ASSUME SafeInv, SafeInv', OrderInv, NEW t \in Threads, NEW n \in Regular, NEW s \in Sides,
         NEW e \in Ends(t), MovesNext(t, n, s, e), UNCHANGED <<input, work>>
  PROVE  OrderInv' /\ (out' = out \/ Abstract!Write)
<1> DEFINE v == Other(s)
<1>0. /\ HalvesOK /\ CutsOK /\ SortersOK /\ DrainersOK /\ OutOK /\ LockInv /\ LockInv'
      /\ pc' = pc /\ at' = at /\ at[t] = n /\ input' = input /\ work' = work
      /\ v \in Sides /\ v # s /\ Other(v) = s
      /\ pc[t] = "drainlo" => s = "lo"
      /\ pc[t] = "drainhi" => s = "hi"
      /\ Taken(n, s) < Come(n, s) /\ Leads(n, s)
      /\ Taken(n, v) < Come(n, v) \/ LeftOf(n, v) = 0
      /\ input \in Keyings
  <2>1. LockInv /\ LockInv' /\ input \in Keyings
    BY InputsAssumption DEF SafeInv, SeenInv, TypeOK, Keyings, Lines
  <2>2. v \in Sides /\ v # s /\ Other(v) = s
    BY SideFacts
  <2> QED BY <2>1, <2>2 DEF OrderInv, MovesNext
<1>1. /\ LeftOf(n, s)' = LeftOf(n, s) - 1 /\ Pointer(n, s)' = Pointer(n, s) + 1
      /\ LeftOf(n, v)' = LeftOf(n, v) /\ Pointer(n, v)' = Pointer(n, v)
      /\ \A k \in Regular \ {n}, z \in Sides : /\ LeftOf(k, z)' = LeftOf(k, z)
                                               /\ Pointer(k, z)' = Pointer(k, z)
      /\ Left(n)' = Left(n) - 1
      /\ \A k \in Regular \ {n} : Left(k)' = Left(k)
      /\ \A k \in Regular : /\ Split(k)' <=> Split(k)
                            /\ Sorted(k)' <=> Sorted(k)
      /\ In(t, Merging, n) /\ InUse(n)
      /\ n # RootNode => UNCHANGED <<saved, out>>
      /\ n = RootNode => write_unique(Read(Pointer(n, s)))
  <2>1. Merge(t) \/ Drain(t)
    BY DEF MovesNext
  <2>2. UNCHANGED <<pc, at>> /\ Move(t, s = "lo", e)
    BY DEF MovesNext
  <2> QED BY <1>0, <2>1, <2>2, MoveView
<1>2. /\ \A k \in Regular, z \in Sides :
           InUse(k) => \A r \in (Taken(k, z) + 1)..Come(k, z) :
             mem'[Addr(Region(k), First(k, z) + r)] = mem[Addr(Region(k), First(k, z) + r)]
      /\ \A b \in Lines : mem'[Addr(0, b)] = mem[Addr(0, b)]
      /\ \A p \in Regular, u \in Sides : Split(p) /\ n = Child(p, u) =>
           /\ p # n /\ Come(p, u) \in Nat /\ Come(p, u)' = Come(p, u) + 1
           /\ Ranked(input, mem'[Addr(Region(p), First(p, u) + (Come(p, u) + 1))],
                     Come(p, u) + 1, Part(p, u))
  BY MoveTable
<1>3. /\ Ranked(input, Read(Pointer(n, s)), Total(n) - Left(n) + 1, Rng(n))
      /\ CutAt(input, Part(n, s), Part(n, v), Taken(n, s) + 1, Taken(n, v))
      /\ CutAt(input, Part(n, v), Part(n, s), Taken(n, v), Taken(n, s) + 1)
  BY <1>0, <1>1, MoveRank
<1>4. /\ \A z \in Sides : z = s \/ z = v
      /\ LeftOf(n, s) \in Nat /\ Count(n, s) \in Nat /\ LeftOf(n, s) <= Count(n, s)
      /\ Taken(n, s) \in Nat /\ Taken(n, s) = Count(n, s) - LeftOf(n, s)
      /\ LeftOf(n, v) \in Nat /\ LeftOf(n, s) > 0
      /\ Left(n) = LeftOf(n, s) + LeftOf(n, v)
  <2>1. \A z \in Sides : z = s \/ z = v
    BY DEF Sides, Other
  <2>2. /\ LeftOf(n, s) \in Nat /\ Count(n, s) \in Nat /\ LeftOf(n, s) <= Count(n, s)
        /\ Taken(n, s) \in Nat /\ Taken(n, s) = Count(n, s) - LeftOf(n, s)
        /\ Left(n) = LeftOf(n, s) + LeftOf(n, v)
        /\ Come(n, s) \in Int /\ Come(n, s) <= Count(n, s)
    BY <1>0, HalfFacts, SideFacts
  <2>3. LeftOf(n, v) \in Nat
    BY <1>0, HalfFacts
  <2>4. LeftOf(n, s) > 0
    BY <1>0, <2>2
  <2> QED BY <2>1, <2>2, <2>3, <2>4
<1>5. Taken(n, s)' = Taken(n, s) + 1 /\ Taken(n, v)' = Taken(n, v)
  <2>1. Taken(n, s)' = Count(n, s) - LeftOf(n, s)' /\ Taken(n, v)' = Taken(n, v)
    BY <1>1 DEF Taken
  <2>2. PICK i \in Nat, c \in Nat : i = LeftOf(n, s) /\ c = Count(n, s)
    BY <1>4
  <2>3. c - (i - 1) = c - i + 1
    OBVIOUS
  <2> QED BY <1>1, <1>4, <2>1, <2>2, <2>3
<1> HIDE DEF v
<1>6. HalfOK(n, s)'
  <2>1. LeftOf(n, s)' <= Count(n, s)
    BY <1>1, <1>4
  <2>2. Come(n, s)' = Come(n, s) /\ Region(n)' = Region(n)
    <3>1. Split(n) => Left(Child(n, s))' = Left(Child(n, s))
      <4>1. Split(n) => Child(n, s) \in Regular /\ Level(Child(n, s)) = Level(n) + 1 /\ Level(n) \in Nat
        BY SideFacts, LevelFacts DEF Split
      <4>2. Split(n) => Child(n, s) # n
        BY <4>1
      <4> QED BY <1>1, <4>1, <4>2
    <3> QED BY <1>1, <3>1 DEF Come, Region
  <2>3. Pointer(n, s)' = Addr(Region(n), First(n, s) + (Taken(n, s) + 1) + 1)
    <3>1. Pointer(n, s) = Addr(Region(n), First(n, s) + Taken(n, s) + 1)
      BY <1>0, <1>1 DEF HalvesOK, HalfOK
    <3>2. PICK z \in Nat : z = NLines * Region(n)
      <4>1. Region(n) \in Nat /\ NLines \in Nat /\ NLines >= 1
        BY <1>0, HalfFacts, SizesAssumption
      <4> QED BY <4>1, Product
    <3>3. PICK f \in Int, i \in Nat : f = First(n, s) /\ i = Taken(n, s)
      BY <1>4, SideFacts
    <3>4. Pointer(n, s)' = (z + (f + i + 1) - 1) + 1
      BY <1>1, <3>1, <3>2, <3>3 DEF Addr
    <3>5. Addr(Region(n), First(n, s) + (Taken(n, s) + 1) + 1) = z + (f + (i + 1) + 1) - 1
      BY <3>2, <3>3 DEF Addr
    <3> QED BY <3>4, <3>5
  <2>4. \A r \in (Taken(n, s) + 1 + 1)..Come(n, s) :
          Ranked(input, mem'[Addr(Region(n), First(n, s) + r)], r, Part(n, s))
    <3> SUFFICES ASSUME NEW r \in (Taken(n, s) + 1 + 1)..Come(n, s)
                 PROVE  Ranked(input, mem'[Addr(Region(n), First(n, s) + r)], r, Part(n, s))
      OBVIOUS
    <3>1. r \in (Taken(n, s) + 1)..Come(n, s)
      BY <1>4
    <3>2. Ranked(input, mem[Addr(Region(n), First(n, s) + r)], r, Part(n, s))
      BY <1>0, <1>1, <3>1 DEF HalvesOK, HalfOK, Placed
    <3> QED BY <1>1, <1>2, <3>1, <3>2
  <2>5. Placed(n, s)'
    BY <1>0, <1>5, <2>2, <2>4 DEF Placed
  <2> QED BY <1>5, <2>1, <2>2, <2>3, <2>5 DEF HalfOK
<1>7. ASSUME NEW k \in Regular, NEW z \in Sides, k # n \/ z # s
      PROVE  HalfOK(k, z)'
  <2>1. LeftOf(k, z)' = LeftOf(k, z) /\ Pointer(k, z)' = Pointer(k, z) /\ HalfOK(k, z)
    BY <1>0, <1>1, <1>4, <1>7 DEF HalvesOK
  <2>2. CASE Split(k) => n # Child(k, z)
    <3>1. Split(k) => Left(Child(k, z))' = Left(Child(k, z))
      BY <1>1, <2>2, SideFacts DEF Split
    <3> QED BY <1>0, <1>1, <1>2, <2>1, <3>1, HalfKept
  <2>3. CASE Split(k) /\ n = Child(k, z)
    <3>1. /\ Come(k, z) \in Nat /\ Come(k, z)' = Come(k, z) + 1 /\ InUse(k)
          /\ Ranked(input, mem'[Addr(Region(k), First(k, z) + (Come(k, z) + 1))],
                    Come(k, z) + 1, Part(k, z))
      BY <1>2, <2>3 DEF InUse
    <3>2. Taken(k, z)' = Taken(k, z) /\ Region(k)' = Region(k)
      BY <1>1, <2>1 DEF Taken, Region
    <3>3. \A r \in (Taken(k, z) + 1)..(Come(k, z) + 1) :
            Ranked(input, mem'[Addr(Region(k), First(k, z) + r)], r, Part(k, z))
      <4> SUFFICES ASSUME NEW r \in (Taken(k, z) + 1)..(Come(k, z) + 1), r # Come(k, z) + 1
                   PROVE  Ranked(input, mem'[Addr(Region(k), First(k, z) + r)], r, Part(k, z))
        BY <3>1
      <4>1. r \in (Taken(k, z) + 1)..Come(k, z)
        <5>1. Taken(k, z) \in Nat
          BY <1>0, HalfFacts
        <5> QED BY <3>1, <5>1
      <4>2. Ranked(input, mem[Addr(Region(k), First(k, z) + r)], r, Part(k, z))
        BY <2>1, <3>1, <4>1 DEF HalfOK, Placed
      <4> QED BY <1>2, <3>1, <4>1, <4>2
    <3>4. Placed(k, z)'
      BY <1>0, <3>1, <3>2, <3>3 DEF Placed
    <3> QED BY <2>1, <3>1, <3>2, <3>4 DEF HalfOK
  <2> QED BY <2>2, <2>3
<1>8. HalvesOK'
  BY <1>6, <1>7 DEF HalvesOK
<1>9. CutsOK'
  <2> SUFFICES ASSUME NEW k \in Regular, NEW z \in Sides PROVE CutOK(k, z)'
    BY DEF CutsOK
  <2>1. CASE k # n
    <3>1. LeftOf(k, z)' = LeftOf(k, z) /\ LeftOf(k, Other(z))' = LeftOf(k, Other(z)) /\ CutOK(k, z)
      BY <1>0, <1>1, <2>1, SideFacts DEF CutsOK
    <3> QED BY <1>0, <3>1, CutKept
  <2>2. CASE k = n /\ z = s
    <3>1. CutOK(n, s)'
      BY <1>0, <1>3, <1>5 DEF CutOK, v
    <3> QED BY <2>2, <3>1
  <2>3. CASE k = n /\ z = v
    <3>1. CutOK(n, v)'
      BY <1>0, <1>3, <1>5 DEF CutOK
    <3> QED BY <2>3, <3>1
  <2> QED BY <1>4, <2>1, <2>2, <2>3
<1>10. SortersOK'
  <2> SUFFICES ASSUME NEW r \in Threads
               PROVE  /\ UnsortedOK(r)' /\ SortingOK(r)'
                      /\ \A k \in Regular, z \in Sides : FreshOK(r, k, z)'
    BY DEF SortersOK
  <2>1. UnsortedOK(r) /\ SortingOK(r) /\ \A k \in Regular, z \in Sides : FreshOK(r, k, z)
    BY <1>0 DEF SortersOK
  <2>2. UnsortedOK(r)'
    <3>1. pc[r] = "sortlines" => Rng(at[r]) \subseteq Lines
      BY SorterFacts, RngInLines DEF Sorting
    <3> QED BY <1>0, <1>2, <2>1, <3>1 DEF UnsortedOK
  <2>3. SortingOK(r)'
    BY <1>0, <2>1 DEF SortingOK
  <2>4. ASSUME NEW k \in Regular, NEW z \in Sides PROVE FreshOK(r, k, z)'
    <3> SUFFICES ASSUME pc[r] \in Sorting, Split(k), Rng(at[r]) \subseteq Part(k, z)
                 PROVE  Left(Child(k, z))' = Count(k, z)
      BY <1>0, <1>1 DEF FreshOK
    <3>1. Child(k, z) \in Regular /\ Rng(Child(k, z)) = Part(k, z)
      BY SideFacts DEF Split
    <3>2. Child(k, z) # n
      BY <1>0, <1>1, <3>1, NoSorterBelow DEF v
    <3>3. Left(Child(k, z)) = Count(k, z)
      BY <2>1 DEF FreshOK
    <3> QED BY <1>1, <3>1, <3>2, <3>3
  <2> QED BY <2>2, <2>3, <2>4
<1>11. DrainersOK'
  <2> SUFFICES ASSUME NEW r \in Threads, pc[r] \in {"drainlo", "drainhi"} PROVE DrainOK(r)'
    BY <1>0 DEF DrainersOK, DrainOK
  <2>1. DrainOK(r) /\ at[r] \in Regular
    BY <1>0 DEF DrainersOK, LockInv, Holding, Merging
  <2>2. PICK k \in Regular : k = at[r]
    BY <2>1
  <2>3. LeftLo(at[r])' = LeftLo(k)' /\ LeftHi(at[r])' = LeftHi(k)'
    BY <1>0, <2>2
  <2>4. CASE r # t
    <3>1. k # n
      <4>1. pc[r] \in Holding /\ pc[t] \in Holding
        BY <1>1 DEF In, Holding, Merging
      <4> QED BY <1>0, <2>2, <2>4, <4>1, OnlyHolder
    <3>2. "lo" \in Sides /\ "hi" \in Sides
      BY DEF Sides
    <3>3. LeftOf(k, "lo")' = LeftOf(k, "lo") /\ LeftOf(k, "hi")' = LeftOf(k, "hi")
      BY <1>1, <3>1, <3>2
    <3>4. LeftLo(k)' = LeftLo(k) /\ LeftHi(k)' = LeftHi(k)
      BY <3>3 DEF LeftOf
    <3> QED BY <1>0, <2>1, <2>2, <2>3, <3>4 DEF DrainOK
  <2>5. CASE r = t
    <3>1. pc[t] = "drainlo" => v = "hi"
      BY <1>0 DEF v, Other
    <3>2. pc[t] = "drainhi" => v = "lo"
      BY <1>0 DEF v, Other
    <3>3. k = n
      BY <1>0, <2>2, <2>5
    <3>4. pc[t] = "drainlo" => LeftHi(k)' = LeftHi(k)
      BY <1>1, <3>1, <3>3 DEF LeftOf
    <3>5. pc[t] = "drainhi" => LeftLo(k)' = LeftLo(k)
      BY <1>1, <3>2, <3>3 DEF LeftOf
    <3> QED BY <1>0, <2>1, <2>2, <2>3, <2>5, <3>4, <3>5 DEF DrainOK
  <2> QED BY <2>4, <2>5
<1>12. OutOK' /\ (out' = out \/ Abstract!Write)
  <2>1. CASE n # RootNode
    BY <1>0, <1>1, <2>1, TreeFacts DEF OutOK, Written
  <2>2. CASE n = RootNode
    <3>1. PICK w \in Int : w = Written
      BY <1>4, <2>2, SizesAssumption DEF Written
    <3>2. w \in Nat /\ Total(n) - Left(n) + 1 = w + 1 /\ Rng(n) = Lines /\ Written' = w + 1
      <4>1. LinesOf(n) = 0 /\ Total(n) = NLines /\ NLines \in Nat
        BY <2>2, PlaceFacts, SizesAssumption
      <4>2. Rng(n) = Lines
        BY <4>1 DEF Rng, Lines
      <4>3. Left(n) \in Nat /\ Left(n) <= Total(n)
        <5>1. LeftOf(n, v) <= Count(n, v) /\ Count(n, v) \in Nat
          BY <1>0, HalfFacts, SideFacts
        <5>2. Count(n, s) + Count(n, v) = Total(n)
          BY SideFacts DEF v
        <5> QED BY <1>4, <5>1, <5>2
      <4>4. w = NLines - Left(n) /\ Written' = NLines - Left(n)'
        BY <2>2, <3>1 DEF Written
      <4>5. PICK i \in Nat : i = Left(n)
        BY <4>3
      <4>6. NLines - (i - 1) = NLines - i + 1
        BY <4>1
      <4> QED BY <1>1, <4>1, <4>2, <4>3, <4>4, <4>5, <4>6
    <3>3. Wrote(input, out, saved, w)
      BY <1>0, <3>1 DEF OutOK
    <3>4. PICK x : x = Read(Pointer(n, s))
      OBVIOUS
    <3>5. Ranked(input, x, w + 1, Lines) /\ write_unique(x)
      BY <1>1, <1>3, <2>2, <3>2, <3>4
    <3>6. Wrote(input, out', saved', w + 1) /\ (out' = out \/ Abstract!Write)
      BY <1>0, <3>2, <3>3, <3>5, WriteNext
    <3> QED BY <1>0, <3>2, <3>6 DEF OutOK
  <2> QED BY <2>1, <2>2
<1> QED BY <1>8, <1>9, <1>10, <1>11, <1>12 DEF OrderInv

\* The end of a loop: the thread that goes on to copy one side has nothing left of the other.
LEMMA ExitOrder ==
  ASSUME SafeInv, SafeInv', OrderInv, NEW t \in Threads, Merge(t) \/ Drain(t),
         UNCHANGED tableVars, m'[t].lo = m[t].lo, m'[t].hi = m[t].hi,
         Goto(t, AfterLoop(t)) \/ Goto(t, "store")
  PROVE  OrderInv'
<1>0. /\ TypeOK /\ QueueInv /\ LockInv /\ TypeOK' /\ LockInv' /\ DrainersOK
      /\ pc[t] \in Merging /\ at' = at /\ input' = input /\ work' = work
      /\ mem' = mem /\ node' = node /\ saved' = saved /\ out' = out
      /\ pc \in [Threads -> Labels]
  <2>1. TypeOK /\ QueueInv /\ LockInv /\ TypeOK' /\ LockInv' /\ DrainersOK
    BY DEF SafeInv, SeenInv, OrderInv
  <2>2. pc[t] \in Merging /\ at' = at /\ input' = input /\ work' = work
    BY DEF Merge, Drain, Merging
  <2> QED BY <2>1, <2>2 DEF tableVars, TypeOK
<1>1. PICK n \in Regular : at[t] = n /\ In(t, Merging, n)
  BY <1>0 DEF LockInv, Holding, In
<1>2. /\ AfterLoop(t) \in {"drainlo", "drainhi", "store"}
      /\ AfterLoop(t) = "drainlo" => node[n].nhi = node[n].hi - m[t].hi
      /\ AfterLoop(t) = "drainhi" => node[n].nlo = node[n].lo - m[t].lo
  BY <1>1 DEF AfterLoop
<1>3. /\ \A r \in Threads \ {t} : pc'[r] = pc[r]
      /\ pc'[t] = AfterLoop(t) \/ pc'[t] = "store"
  BY <1>0 DEF Goto
<1>4. pc'[t] \in Merging
  BY <1>2, <1>3 DEF Merging
<1>5. Viewed(n) /\ Viewed(n)'
  BY <1>0, Views, ViewsNext
<1>6. /\ LeftLo(n) = node[n].nlo - (node[n].lo - m[t].lo)
      /\ LeftHi(n) = node[n].nhi - (node[n].hi - m[t].hi)
  BY <1>0, <1>1, <1>5 DEF Viewed
<1>7. LeftLo(n)' = LeftLo(n) /\ LeftHi(n)' = LeftHi(n)
  <2>1. /\ LeftLo(n)' = node'[n].nlo - (node'[n].lo - m'[t].lo)
        /\ LeftHi(n)' = node'[n].nhi - (node'[n].hi - m'[t].hi)
    BY <1>0, <1>1, <1>4, <1>5 DEF Viewed
  <2> QED BY <1>0, <1>6, <2>1
<1>8. \A k \in Regular : LeftLo(k)' = LeftLo(k) /\ LeftHi(k)' = LeftHi(k)
  <2>1. Step(t) \/ Spurious(t)
    BY DEF Step
  <2>2. \A k \in Regular \ {n} : ~In(t, Merging, k)
    BY <1>1 DEF In
  <2> QED BY <1>7, <2>1, <2>2, LeftKept
<1>9. \A k \in Regular : /\ Split(k)' <=> Split(k)
                         /\ Sorted(k)' <=> Sorted(k)
  <2>1. \A r \in Threads : pc'[r] = "none" <=> pc[r] = "none"
    BY <1>0, <1>3, <1>4 DEF Merging
  <2>2. \A k \in Regular : Split(k)' <=> Split(k)
    BY <2>1, TreeFacts DEF Split
  <2> QED BY <1>0, <2>2 DEF Sorted
<1>10. DrainOK(t)'
  <2>1. PICK i, j : i = LeftLo(n) /\ j = LeftHi(n)
    OBVIOUS
  <2>2. pc'[t] = "drainlo" => j = 0
    <3>1. node[n] \in NodeType /\ m[t] \in LocalsType
      BY <1>0, <1>1, TreeFacts DEF TypeOK, NodeType, LocalsType
    <3> QED BY <1>2, <1>3, <1>6, <2>1, <3>1 DEF NodeType, LocalsType
  <2>3. pc'[t] = "drainhi" => i = 0
    <3>1. node[n] \in NodeType /\ m[t] \in LocalsType
      BY <1>0, <1>1, TreeFacts DEF TypeOK, NodeType, LocalsType
    <3> QED BY <1>2, <1>3, <1>6, <2>1, <3>1 DEF NodeType, LocalsType
  <2>4. LeftLo(at[t])' = i /\ LeftHi(at[t])' = j
    BY <1>0, <1>1, <1>7, <2>1
  <2> QED BY <2>2, <2>3, <2>4 DEF DrainOK
<1>11. ASSUME NEW r \in Threads, r # t PROVE DrainOK(r)'
  <2> SUFFICES ASSUME pc[r] \in {"drainlo", "drainhi"} PROVE DrainOK(r)'
    BY <1>3, <1>11 DEF DrainOK
  <2>1. PICK k \in Regular : k = at[r]
    BY <1>0 DEF LockInv, Holding, Merging
  <2>2. LeftLo(at[r])' = LeftLo(k)' /\ LeftHi(at[r])' = LeftHi(k)'
    BY <1>0, <2>1
  <2>3. pc'[r] = pc[r] /\ DrainOK(r)
    BY <1>0, <1>3, <1>11 DEF DrainersOK
  <2> QED BY <1>8, <2>1, <2>2, <2>3 DEF DrainOK
<1>12. \A r \in Threads : pc'[r] \in Sorting =>
           pc'[r] = pc[r] /\ at'[r] = at[r] /\ work'[r] = work[r]
  BY <1>0, <1>3, <1>4 DEF Sorting, Merging
<1>13. \A r \in Threads : DrainOK(r)'
  BY <1>10, <1>11
<1>14. \A k \in Regular : node'[k].lo = node[k].lo /\ node'[k].hi = node[k].hi
  BY <1>0
<1> QED BY <1>0, <1>8, <1>9, <1>12, <1>13, <1>14, QuietOrder

\* If the other side has nothing left, the next line of this one leads.
LEMMA LeadsAlone ==
  ASSUME SafeInv, OrderInv, NEW n \in Regular, NEW s \in Sides, LeftOf(n, Other(s)) = 0
  PROVE  Leads(n, s)
<1>1. input \in Keyings /\ HalvesOK
  BY InputsAssumption DEF OrderInv, SafeInv, SeenInv, TypeOK, Keyings, Lines
<1>2. PICK v \in Sides : v = Other(s)
  BY SideFacts
<1>3. Taken(n, v) = Count(n, v) /\ Count(n, v) \in Nat
  BY <1>1, <1>2, HalfFacts, SideFacts
<1>4. PICK R \in SUBSET Lines : R = Part(n, v)
  BY PartInLines
<1>5. Cardinality(R) = Count(n, v)
  BY <1>4, PartSize
<1>6. \A b \in R : Rank(input, b, R) \in Nat /\ Rank(input, b, R) <= Count(n, v)
  BY <1>1, <1>5, RankFacts
<1>7. \A b \in R : ~(Rank(input, b, R) > Taken(n, v))
  BY <1>3, <1>6
<1> QED BY <1>2, <1>4, <1>7 DEF Leads

\* If the next line of this side comes before the next of the other, it leads.
LEMMA LeadsNext ==
  ASSUME SafeInv, OrderInv, NEW n \in Regular, NEW s \in Sides, InUse(n),
         Taken(n, s) < Come(n, s), Taken(n, Other(s)) < Come(n, Other(s)),
         Earlier(input, Read(Pointer(n, s)), Read(Pointer(n, Other(s))))
  PROVE  Leads(n, s)
<1>1. input \in Keyings /\ HalvesOK
  BY InputsAssumption DEF OrderInv, SafeInv, SeenInv, TypeOK, Keyings, Lines
<1>2. PICK v \in Sides : v = Other(s)
  BY SideFacts
<1>3. PICK R \in SUBSET Lines : R = Part(n, v)
  BY PartInLines
<1>4. PICK x, y, i : x = Read(Pointer(n, s)) /\ y = Read(Pointer(n, v)) /\ i = Taken(n, v)
  OBVIOUS
<1>5. x \in Lines
  BY <1>1, <1>4, HeadRank, PartInLines DEF Ranked
<1>6. y \in R /\ Rank(input, y, R) = i + 1 /\ i \in Nat
  BY <1>1, <1>2, <1>3, <1>4, HeadRank, HalfFacts DEF Ranked
<1>7. Earlier(input, x, y)
  BY <1>2, <1>4
<1>8. ASSUME NEW b \in R, Rank(input, b, R) > i PROVE Earlier(input, x, b)
  <2>1. /\ Rank(input, b, R) \in Nat
        /\ Earlier(input, y, b) <=> Rank(input, y, R) < Rank(input, b, R)
        /\ y = b <=> Rank(input, y, R) = Rank(input, b, R)
    BY <1>1, <1>6, RankFacts
  <2>2. y = b \/ Earlier(input, y, b)
    BY <1>6, <1>8, <2>1
  <2>3. b \in Lines /\ y \in Lines
    BY <1>6
  <2> QED BY <1>1, <1>5, <1>7, <2>2, <2>3, EarlierOrder
<1> QED BY <1>2, <1>3, <1>4, <1>8 DEF Leads

\* The next line of a node is the one that the first loop takes.
LEMMA TakeLeads ==
  ASSUME SafeInv, OrderInv, NEW n \in Regular, InUse(n),
         \A s \in Sides : Taken(n, s) < Come(n, s)
  PROVE  /\ TakeLo(n) => Leads(n, "lo")
         /\ ~TakeLo(n) => Leads(n, "hi")
<1>0. /\ input \in Keyings /\ HalvesOK /\ "lo" \in Sides /\ "hi" \in Sides
      /\ Other("lo") = "hi" /\ Other("hi") = "lo"
  BY InputsAssumption DEF OrderInv, SafeInv, SeenInv, TypeOK, Keyings, Lines, Sides, Other
<1>1. PICK x, y : x = Read(Pointer(n, "lo")) /\ y = Read(Pointer(n, "hi"))
  OBVIOUS
<1>2. x \in Part(n, "lo") /\ y \in Part(n, "hi")
  BY <1>0, <1>1, HeadRank DEF Ranked
<1>3. x \in Lines /\ y \in Lines
  BY <1>0, <1>2, PartInLines
<1>4. x < y
  <2>1. PICK a, i, j : a = LinesOf(n) /\ i = Tree[n].nlo /\ j = Tree[n].nhi
    OBVIOUS
  <2>2. a \in Int /\ i \in Nat /\ j \in Nat
    BY <2>1, PlaceFacts
  <2>3. x \in (a + 1)..(a + i) /\ y \in (a + i + 1)..(a + i + j)
    BY <1>2, <2>1 DEF Part, First, Count
  <2> QED BY <2>2, <2>3
<1>5. input[x] \in Int /\ input[y] \in Int
  BY <1>0, <1>3 DEF Keyings
<1>6. TakeLo(n) <=> input[x] <= input[y]
  <2>1. Read(node[n].lo) = x /\ Read(node[n].hi) = y
    BY <1>1 DEF Pointer
  <2>2. TakeLo(n) <=> input[x] - input[y] <= 0
    BY <1>3, <2>1 DEF TakeLo, compare, Key
  <2> QED BY <1>5, <2>2
<1>7. TakeLo(n) => Earlier(input, x, y)
  BY <1>4, <1>5, <1>6 DEF Earlier
<1>8. ~TakeLo(n) => Earlier(input, y, x)
  BY <1>5, <1>6 DEF Earlier
<1> QED BY <1>0, <1>1, <1>7, <1>8, LeadsNext

\* Both loops of mergelines_node keep the invariant and write what AbstractSort writes.
LEMMA LoopOrder ==
  ASSUME SafeInv, SafeInv', OrderInv, NEW t \in Threads, Merge(t) \/ Drain(t)
  PROVE  OrderInv' /\ (out' = out \/ Abstract!Write)
<1>0. /\ TypeOK /\ LockInv /\ DrainersOK /\ HalvesOK /\ m \in [Threads -> LocalsType]
      /\ pc[t] \in Merging /\ UNCHANGED <<at, input, work>>
      /\ "lo" \in Sides /\ "hi" \in Sides /\ Other("lo") = "hi" /\ Other("hi") = "lo"
  <2>1. TypeOK /\ LockInv /\ DrainersOK /\ HalvesOK /\ m \in [Threads -> LocalsType]
    BY DEF SafeInv, SeenInv, OrderInv, TypeOK, LocalsType
  <2>2. pc[t] \in Merging /\ UNCHANGED <<at, input, work>>
    BY DEF Merge, Drain, Merging
  <2> QED BY <2>1, <2>2 DEF Sides, Other
<1>1. PICK n \in Regular : n = at[t] /\ In(t, Merging, n) /\ InUse(n)
  <2>1. at[t] \in Regular /\ In(t, Merging, at[t]) /\ In(t, Holding, at[t])
    BY <1>0 DEF LockInv, Holding, In
  <2> QED BY <2>1 DEF SafeInv, CountInv, WorkersUse
<1>2. ASSUME NEW e \in Ends(t), UNCHANGED tableVars,
             \/ m' = Seen(t, e)
             \/ m' = [Seen(t, e) EXCEPT ![t].to_merge = SIZE_MAX],
             Goto(t, AfterLoop(t)) \/ Goto(t, "store")
      PROVE  OrderInv' /\ (out' = out \/ Abstract!Write)
  <2>1. m'[t].lo = m[t].lo /\ m'[t].hi = m[t].hi
    BY <1>0, <1>2 DEF Seen, LocalsType
  <2>2. OrderInv'
    BY <1>2, <2>1, ExitOrder
  <2> QED BY <1>2, <2>2 DEF tableVars
<1>3. ASSUME NEW s \in Sides, NEW e \in Ends(t), Avail(n, s, e),
             Move(t, s = "lo", e), UNCHANGED pc,
             Avail(n, Other(s), e) \/ LeftOf(n, Other(s)) = 0, Leads(n, s),
             pc[t] = "drainlo" => s = "lo", pc[t] = "drainhi" => s = "hi"
      PROVE  OrderInv' /\ (out' = out \/ Abstract!Write)
  <2>1. Taken(n, s) < Come(n, s)
    BY <1>0, <1>1, <1>3, SideAvail
  <2>2. Taken(n, Other(s)) < Come(n, Other(s)) \/ LeftOf(n, Other(s)) = 0
    BY <1>0, <1>1, <1>3, SideAvail, SideFacts
  <2>3. MovesNext(t, n, s, e)
    BY <1>0, <1>1, <1>3, <2>1, <2>2 DEF MovesNext
  <2> QED BY <1>0, <2>3, MoveOrder
<1>4. CASE Merge(t)
  <2>1. PICK e \in Ends(t) :
         \/ LoAvail(n, e) /\ HiAvail(n, e) /\ Move(t, TakeLo(n), e) /\ UNCHANGED pc
         \/ /\ m' = Seen(t, e) \/ m' = [Seen(t, e) EXCEPT ![t].to_merge = SIZE_MAX]
            /\ Goto(t, AfterLoop(t)) /\ UNCHANGED tableVars
    BY <1>1, <1>4 DEF Merge
  <2>2. CASE LoAvail(n, e) /\ HiAvail(n, e) /\ Move(t, TakeLo(n), e) /\ UNCHANGED pc
    <3>1. Avail(n, "lo", e) /\ Avail(n, "hi", e) /\ pc[t] = "merge"
      BY <1>4, <2>2 DEF Avail, Merge
    <3>2. \A s \in Sides : Taken(n, s) < Come(n, s)
      <4>1. \A s \in Sides : Avail(n, s, e)
        BY <3>1 DEF Sides
      <4> QED BY <1>0, <1>1, <4>1, SideAvail
    <3>3. CASE TakeLo(n)
      <4>1. Move(t, "lo" = "lo", e)
        <5>1. TakeLo(n) = ("lo" = "lo")
          BY <3>3 DEF TakeLo
        <5> QED BY <2>2, <5>1
      <4>2. Leads(n, "lo")
        BY <1>1, <3>2, <3>3, TakeLeads
      <4> QED BY <1>0, <1>3, <2>2, <3>1, <4>1, <4>2
    <3>4. CASE ~TakeLo(n)
      <4>1. Move(t, "hi" = "lo", e)
        <5>1. TakeLo(n) = ("hi" = "lo")
          BY <3>4 DEF TakeLo
        <5> QED BY <2>2, <5>1
      <4>2. Leads(n, "hi")
        BY <1>1, <3>2, <3>4, TakeLeads
      <4> QED BY <1>0, <1>3, <2>2, <3>1, <4>1, <4>2
    <3> QED BY <3>3, <3>4
  <2> QED BY <1>2, <2>1, <2>2
<1>5. CASE Drain(t)
  <2>1. /\ pc[t] \in {"drainlo", "drainhi"}
        /\ pc[t] = "drainlo" => LeftOf(n, "hi") = 0
        /\ pc[t] = "drainhi" => LeftOf(n, "lo") = 0
    BY <1>0, <1>1, <1>5 DEF Drain, DrainersOK, DrainOK, LeftOf
  <2>2. PICK e \in Ends(t) :
         \/ /\ IF pc[t] = "drainlo" THEN LoAvail(n, e) ELSE HiAvail(n, e)
            /\ Move(t, pc[t] = "drainlo", e) /\ UNCHANGED pc
         \/ m' = Seen(t, e) /\ Goto(t, "store") /\ UNCHANGED tableVars
    BY <1>1, <1>5 DEF Drain
  <2>3. CASE /\ IF pc[t] = "drainlo" THEN LoAvail(n, e) ELSE HiAvail(n, e)
             /\ Move(t, pc[t] = "drainlo", e) /\ UNCHANGED pc
    <3>1. CASE pc[t] = "drainlo"
      <4>1. Avail(n, "lo", e) /\ pc[t] # "drainhi"
        BY <2>3, <3>1 DEF Avail
      <4>2. Move(t, "lo" = "lo", e)
        <5>1. (pc[t] = "drainlo") = ("lo" = "lo")
          BY <3>1
        <5> QED BY <2>3, <5>1
      <4>3. Leads(n, "lo")
        BY <1>0, <2>1, <3>1, LeadsAlone
      <4> QED BY <1>0, <1>3, <2>1, <2>3, <3>1, <4>1, <4>2, <4>3
    <3>2. CASE pc[t] = "drainhi"
      <4>1. Avail(n, "hi", e) /\ pc[t] # "drainlo"
        BY <2>3, <3>2 DEF Avail
      <4>2. Move(t, "hi" = "lo", e)
        <5>1. (pc[t] = "drainlo") = ("hi" = "lo")
          BY <4>1
        <5> QED BY <2>3, <5>1
      <4>3. Leads(n, "hi")
        BY <1>0, <2>1, <3>2, LeadsAlone
      <4> QED BY <1>0, <1>3, <2>1, <2>3, <3>2, <4>1, <4>2, <4>3
    <3> QED BY <2>1, <3>1, <3>2
  <2> QED BY <1>2, <2>2, <2>3
<1> QED BY <1>4, <1>5

-----------------------------------------------------------------------------
(* The refinement *)

LEMMA InitOrder == Init => OrderInv
<1> SUFFICES ASSUME Init PROVE OrderInv
  OBVIOUS
<1>0. /\ TypeOK /\ LockInv /\ input \in Keyings /\ NLines \in Nat
      /\ \A t \in Threads : pc[t] \in Sorting => t = Main /\ pc[t] = "sortlines"
      /\ \A t \in Threads : at[t] = t /\ pc[t] \notin Merging
  BY InitTypeOK, InitLockInv, InputsAssumption, SizesAssumption
     DEF Init, Keyings, Lines, Sorting, Merging
<1>1. \A n \in Regular : ~Split(n)
  <2> SUFFICES ASSUME NEW n \in Interior PROVE pc[Tree[n].lo_child] = "none"
    BY DEF Split
  <2>1. Tree[n].lo_child \in Threads /\ Tree[n].lo_child # Main
    BY TreeFacts DEF Main
  <2> QED BY <2>1 DEF Init
<1>2. ASSUME NEW n \in Regular
      PROVE  /\ ~InUse(n) /\ LeftLo(n) = Tree[n].nlo /\ LeftHi(n) = Tree[n].nhi
  <2>1. /\ node[n].lo = Tree[n].lo /\ node[n].nlo = Tree[n].nlo /\ node[n].nhi = Tree[n].nhi
    BY TreeFacts DEF Init
  <2>2. ~Sorted(n)
    <3>1. Tree[n].lo \in Nat
      BY SizeFacts
    <3> QED BY <2>1, <3>1 DEF Sorted
  <2>3. LeftLo(n) = node[n].nlo /\ LeftHi(n) = node[n].nhi
    <3>1. Viewed(n)
      BY <1>0, Views
    <3> QED BY <1>0, <3>1 DEF Viewed
  <2> QED BY <1>1, <2>1, <2>2, <2>3 DEF InUse
<1>3. \A n \in Regular, s \in Sides : LeftOf(n, s) = Count(n, s) /\ Count(n, s) \in Nat
  BY <1>2, SideFacts DEF LeftOf, Count
<1>4. HalvesOK
  BY <1>2, <1>3 DEF HalvesOK, HalfOK
<1>5. CutsOK
  <2> SUFFICES ASSUME NEW n \in Regular, NEW s \in Sides PROVE CutOK(n, s)
    BY DEF CutsOK
  <2>1. PICK R \in SUBSET Lines : R = Part(n, s)
    BY PartInLines
  <2>2. Taken(n, s) = 0
    BY <1>3 DEF Taken
  <2>3. \A c \in R : Rank(input, c, R) \in Nat /\ Rank(input, c, R) >= 1
    BY <1>0, RankFacts
  <2>4. \A c \in R : ~(Rank(input, c, R) <= 0)
    BY <2>3
  <2> QED BY <2>1, <2>2, <2>4 DEF CutOK, CutAt
<1>6. SortersOK
  <2> SUFFICES ASSUME NEW t \in Threads, pc[t] \in Sorting PROVE UnsortedOK(t) /\ SortingOK(t)
    BY <1>1 DEF SortersOK, UnsortedOK, SortingOK, FreshOK, Sorting
  <2>1. t = Main /\ pc[t] = "sortlines" /\ at[t] = RootNode
    BY <1>0 DEF Main
  <2>2. ASSUME NEW b \in Rng(RootNode) PROVE mem[Addr(0, b)] = b
    <3>1. b \in Lines
      BY TreeFacts, RngInLines
    <3>2. Addr(0, b) = b - 1 /\ Addr(0, b) \in Addresses
      BY <3>1, AddrIn
    <3>3. b \in Nat /\ b - 1 < NLines /\ (b - 1) + 1 = b
      BY <1>0, <3>1 DEF Lines
    <3>4. mem[b - 1] = b
      BY <3>2, <3>3 DEF Init
    <3> QED BY <3>2, <3>4
  <2> QED BY <2>1, <2>2 DEF UnsortedOK, SortingOK
<1>7. DrainersOK
  BY <1>0 DEF DrainersOK, DrainOK, Merging
<1>8. OutOK
  <2>1. Written = 0
    <3>1. Left(RootNode) = Tree[RootNode].nlo + Tree[RootNode].nhi
      BY <1>2, TreeFacts DEF Left
    <3>2. Left(RootNode) = NLines
      BY <3>1, PlaceFacts, TreeFacts
    <3> QED BY <1>0, <3>2 DEF Written
  <2>2. out = <<>> /\ saved = 0
    BY DEF Init
  <2>3. \A b \in Lines : ~(Rank(input, b, Lines) <= 0)
    <3>1. \A b \in Lines : Rank(input, b, Lines) \in Nat /\ Rank(input, b, Lines) >= 1
      BY <1>0, LineRanks
    <3> QED BY <3>1
  <2>4. Wrote(input, <<>>, 0, 0)
    BY <2>3 DEF Wrote
  <2> QED BY <2>1, <2>2, <2>4 DEF OutOK
<1> QED BY <1>4, <1>5, <1>6, <1>7, <1>8 DEF OrderInv

LEMMA StutterOrder ==
  ASSUME OrderInv, UNCHANGED vars
  PROVE  OrderInv'
<1>1. /\ input' = input /\ mem' = mem /\ out' = out /\ saved' = saved /\ node' = node
      /\ pc' = pc /\ at' = at /\ work' = work /\ lock' = lock /\ m' = m
  BY DEF vars
<1>2. \A n : /\ LeftLo(n)' = LeftLo(n) /\ LeftHi(n)' = LeftHi(n)
             /\ Split(n)' <=> Split(n)
             /\ Sorted(n)' <=> Sorted(n)
  BY <1>1 DEF LeftLo, LeftHi, MergedBy, Split, Sorted
<1>3. ASSUME NEW r \in Threads PROVE DrainOK(r)'
  <2>1. PICK k : k = at[r]
    OBVIOUS
  <2>2. LeftLo(at[r])' = LeftLo(k)' /\ LeftHi(at[r])' = LeftHi(k)'
    BY <1>1, <2>1
  <2>3. DrainOK(r)
    BY DEF OrderInv, DrainersOK
  <2> QED BY <1>1, <1>2, <2>1, <2>2, <2>3 DEF DrainOK
<1>4. Main \in Threads
  BY DEF Threads
<1>5. /\ \A n \in Regular : /\ LeftLo(n)' = LeftLo(n) /\ LeftHi(n)' = LeftHi(n)
                            /\ Split(n)' <=> Split(n)
                            /\ Sorted(n)' <=> Sorted(n)
                            /\ node'[n].lo = node[n].lo /\ node'[n].hi = node[n].hi
      /\ \A r \in Threads : pc'[r] \in Sorting =>
           pc'[r] = pc[r] /\ at'[r] = at[r] /\ work'[r] = work[r]
  BY <1>1, <1>2
<1> QED BY <1>1, <1>3, <1>4, <1>5, QuietOrder

\* One step of the threads writes nothing, or the line that AbstractSort writes.
LEMMA StepOrder ==
  ASSUME SafeInv, SafeInv', OrderInv, [Next]_vars
  PROVE  OrderInv' /\ [Abstract!Write]_<<input, out>>
<1>1. ASSUME NEW t \in Threads, Step(t) \/ Spurious(t)
      PROVE  OrderInv' /\ input' = input /\ (out' = out \/ Abstract!Write)
  <2>1. CASE Merge(t) \/ Drain(t)
    <3>1. input' = input
      BY <2>1 DEF Merge, Drain
    <3> QED BY <2>1, <3>1, LoopOrder
  <2>2. CASE BeginSort(t) \/ EndSort(t) \/ Create(t)
    <3>1. input' = input /\ out' = out
      BY <2>2 DEF BeginSort, EndSort, Create, tableVars
    <3> QED BY <2>2, <3>1, BeginOrder, EndOrder, CreateOrder
  <2>3. CASE \/ Pop(t) \/ Wait(t) \/ Spurious(t) \/ LockNode(t) \/ PopEnd(t)
             \/ StoreDest(t) \/ Check(t) \/ CheckParent(t) \/ Join(t)
    <3>1. input' = input /\ out' = out
      BY <2>3 DEF Pop, Wait, Spurious, LockNode, PopEnd, StoreDest, Check, CheckParent, Join, tableVars
    <3>2. OrderInv'
      BY <2>3, QuietActions
    <3> QED BY <3>1, <3>2
  <2> QED BY <1>1, <2>1, <2>2, <2>3 DEF Step
<1>2. CASE UNCHANGED vars
  BY <1>2, StutterOrder DEF vars
<1> QED BY <1>1, <1>2 DEF Next, Return

LEMMA OrderInvariant == Spec => []OrderInv
<1>1. SafeInv /\ SafeInv' /\ OrderInv /\ [Next]_vars => OrderInv'
  BY StepOrder
<1> QED
  BY <1>1, SafeInvariant, InitOrder, PTL DEF Spec

\* What the threads write is what AbstractSort writes, line by line: the stable sort of the
\* lines, under -u the first of equal lines; for every tree, every input and every schedule
\* of the threads (sortlines, merge_loop, mergelines_node, write_unique).
THEOREM ImplementsAbstract == Spec => Implements
<1>1. Init => Abstract!Init
  BY DEF Init, Abstract!Init
<1>2. SafeInv /\ SafeInv' /\ OrderInv /\ [Next]_vars => [Abstract!Write]_<<input, out>>
  BY StepOrder
<1> QED
  BY <1>1, <1>2, SafeInvariant, OrderInvariant, PTL DEF Spec, Implements, Abstract!Spec

-----------------------------------------------------------------------------
(* No line is lost *)

\* A merge that has taken the i first lines of A and the j first of B has taken the i + j
\* first of both.
LEMMA RankSides ==
  ASSUME NEW k \in Keyings, NEW A \in SUBSET Lines, NEW B \in SUBSET Lines, A \cap B = {},
         NEW i \in Nat, NEW j \in Nat, j <= Cardinality(B),
         CutAt(k, A, B, i, j), CutAt(k, B, A, j, i),
         NEW x \in A
  PROVE  Rank(k, x, A \cup B) <= i + j <=> Rank(k, x, A) <= i
<1> DEFINE S == NotAfter(k, x, A)
           E == {b \in B : Earlier(k, b, x)}
           T == {b \in B : Rank(k, b, B) <= j}
<1>1. S \subseteq Lines /\ E \subseteq Lines /\ T \subseteq Lines /\ S \cap E = {}
      /\ NotAfter(k, x, A \cup B) = S \cup E
  BY DEF NotAfter
<1>2. /\ IsFiniteSet(S) /\ IsFiniteSet(E) /\ IsFiniteSet(T)
      /\ Cardinality(S) \in Nat /\ Cardinality(E) \in Nat
  BY <1>1, LinesFinite
<1>3. Rank(k, x, A) = Cardinality(S)
  BY DEF Rank
<1>4. Rank(k, x, A \cup B) = Cardinality(S) + Cardinality(E)
  <2> HIDE DEF S, E
  <2>1. Cardinality(S \cup E) = Cardinality(S) + Cardinality(E) - Cardinality(S \cap E)
    BY <1>2, FS_Union
  <2>2. Cardinality(S \cap E) = 0
    BY <1>1, FS_EmptySet
  <2>3. Cardinality(S \cup E) = Cardinality(S) + Cardinality(E)
    BY <1>2, <2>1, <2>2
  <2> QED BY <1>1, <2>3 DEF Rank
<1>5. Cardinality(T) = j
  <2>1. j \in 0..Cardinality(B)
    BY LinesFinite
  <2> QED BY <2>1, RankCount
<1>6. \A b \in B : Rank(k, b, B) \in Nat
  BY RankFacts
<1>7. CASE Rank(k, x, A) <= i
  <2>1. E \subseteq T
    <3> SUFFICES ASSUME NEW b \in B, Earlier(k, b, x), ~(Rank(k, b, B) <= j) PROVE FALSE
      OBVIOUS
    <3>1. Earlier(k, x, b)
      BY <1>6, <1>7 DEF CutAt
    <3> QED BY <3>1, EarlierOrder
  <2>2. Cardinality(E) <= j
    BY <1>2, <1>5, <2>1, FS_Subset
  <2> HIDE DEF S, E
  <2> QED BY <1>2, <1>3, <1>4, <1>7, <2>2
<1>8. CASE ~(Rank(k, x, A) <= i)
  <2>1. Rank(k, x, A) > i
    BY <1>2, <1>3, <1>8
  <2>2. T \subseteq E
    BY <2>1 DEF CutAt
  <2>3. j <= Cardinality(E)
    BY <1>2, <1>5, <2>2, FS_Subset
  <2> HIDE DEF S, E
  <2> QED BY <1>2, <1>3, <1>4, <2>1, <2>3
<1> QED BY <1>7, <1>8

\* Node n has merged line b.
HasMerged(n, b) == Rank(input, b, Rng(n)) <= Total(n) - Left(n)

LEMMA MergedSide ==
  ASSUME SafeInv, OrderInv, NEW n \in Regular, NEW s \in Sides, NEW b \in Part(n, s)
  PROVE  HasMerged(n, b) <=> Rank(input, b, Part(n, s)) <= Taken(n, s)
<1>0. HalvesOK /\ CutsOK /\ input \in Keyings
  BY InputsAssumption DEF OrderInv, SafeInv, SeenInv, TypeOK, Keyings, Lines
<1>1. PICK v \in Sides : v = Other(s) /\ Other(v) = s
  BY SideFacts
<1>2. PICK A \in SUBSET Lines, B \in SUBSET Lines :
        A = Part(n, s) /\ B = Part(n, v) /\ A \cap B = {} /\ A \cup B = Rng(n)
  BY <1>1, PartInLines, SideFacts
<1>3. PICK i \in Nat, j \in Nat : i = Taken(n, s) /\ j = Taken(n, v)
  BY <1>0, HalfFacts
<1>4. Total(n) - Left(n) = i + j /\ j <= Cardinality(B)
  <2>1. /\ LeftOf(n, s) \in Nat /\ Taken(n, s) = Count(n, s) - LeftOf(n, s)
        /\ Left(n) = LeftOf(n, s) + LeftOf(n, v)
    BY <1>0, <1>1, HalfFacts
  <2>2. LeftOf(n, v) \in Nat /\ Taken(n, v) = Count(n, v) - LeftOf(n, v)
    BY <1>0, HalfFacts
  <2>3. Count(n, s) \in Nat /\ Count(n, v) \in Nat /\ Count(n, s) + Count(n, v) = Total(n)
    BY <1>1, SideFacts
  <2>4. Cardinality(B) = Count(n, v)
    BY <1>2, PartSize
  <2> QED BY <1>3, <2>1, <2>2, <2>3, <2>4
<1>5. CutAt(input, A, B, i, j) /\ CutAt(input, B, A, j, i)
  BY <1>0, <1>1, <1>2, <1>3 DEF CutsOK, CutOK
<1>6. Rank(input, b, A \cup B) <= i + j <=> Rank(input, b, A) <= i
  BY <1>0, <1>2, <1>4, <1>5, RankSides
<1> QED BY <1>2, <1>3, <1>4, <1>6 DEF HasMerged

\* What a child has merged is what came to its parent; the parent has merged no more.
LEMMA MergedChild ==
  ASSUME SafeInv, OrderInv, NEW n \in Regular, NEW s \in Sides, Split(n),
         NEW b \in Part(n, s)
  PROVE  /\ HasMerged(Child(n, s), b) <=> Rank(input, b, Part(n, s)) <= Come(n, s)
         /\ HasMerged(n, b) => HasMerged(Child(n, s), b)
<1>0. HalvesOK /\ input \in Keyings
  BY InputsAssumption DEF OrderInv, SafeInv, SeenInv, TypeOK, Keyings, Lines
<1>1. PICK c \in Regular : c = Child(n, s) /\ Rng(c) = Part(n, s) /\ Total(c) = Count(n, s)
  BY SideFacts DEF Split
<1>2. Come(n, s) = Count(n, s) - Left(c) /\ Taken(n, s) <= Come(n, s)
      /\ Taken(n, s) \in Nat /\ Come(n, s) \in Int
  BY <1>0, <1>1, HalfFacts DEF InUse
<1>3. HasMerged(c, b) <=> Rank(input, b, Part(n, s)) <= Come(n, s)
  BY <1>1, <1>2 DEF HasMerged
<1>4. Rank(input, b, Part(n, s)) \in Nat
  <2>1. PICK R \in SUBSET Lines : R = Part(n, s)
    BY PartInLines
  <2>2. Rank(input, b, R) \in Nat
    BY <1>0, <2>1, RankFacts
  <2> QED BY <2>1, <2>2
<1>5. HasMerged(n, b) => HasMerged(c, b)
  BY <1>2, <1>3, <1>4, MergedSide
<1> QED BY <1>1, <1>3, <1>5

\* A line that a node has merged was merged by all the nodes below that had it.
LEMMA MergedBelow ==
  ASSUME SafeInv, OrderInv, NEW n \in Regular, NEW x \in Regular, Called(n),
         Level(x) <= Level(n), NEW b \in Rng(n), b \in Rng(x), HasMerged(x, b)
  PROVE  HasMerged(n, b)
<1> DEFINE S == {k \in Regular : \A y \in Regular :
                   Called(k) /\ Level(y) <= Level(k) /\ b \in Rng(k) /\ b \in Rng(y) /\ HasMerged(y, b)
                     => HasMerged(k, b)}
<1>0. QueueInv
  BY DEF SafeInv, SeenInv
<1>1. RootNode \in S
  <2>1. \A y \in Regular : Level(y) <= Level(RootNode) => y = RootNode
    <3> SUFFICES ASSUME NEW y \in Regular, Level(y) <= Level(RootNode) PROVE y = RootNode
      OBVIOUS
    <3>1. Level(y) = 1
      BY LevelFacts
    <3> QED BY <3>1, TreeFacts DEF MERGE_ROOT
  <2> QED BY <2>1, TreeFacts
<1>2. ASSUME NEW c \in Regular \ {RootNode}, Parent(c) \in S
      PROVE  c \in S
  <2> SUFFICES ASSUME NEW y \in Regular, Called(c), Level(y) <= Level(c), b \in Rng(c), b \in Rng(y),
                      HasMerged(y, b)
               PROVE  HasMerged(c, b)
    OBVIOUS
  <2>1. PICK p \in Interior, s \in Sides : p = Parent(c) /\ p \in Regular /\ c = Child(p, s)
    BY SideOf
  <2>2. Rng(c) = Part(p, s) /\ Part(p, s) \subseteq Rng(p) /\ Level(c) = Level(p) + 1 /\ Level(p) \in Nat
    BY <2>1, SideFacts, PartInLines, LevelFacts
  <2>3. Split(p) /\ Called(p) /\ Level(y) \in Nat
    BY <1>0, <2>1, LevelFacts DEF Called, QueueInv, UncalledIdle
  <2>4. CASE Level(y) = Level(c)
    <3>1. y = c
      BY <2>4, Laminar
    <3> QED BY <3>1
  <2>5. CASE Level(y) <= Level(p)
    <3>1. HasMerged(p, b)
      BY <1>2, <2>1, <2>2, <2>3, <2>5
    <3>2. b \in Part(p, s)
      BY <2>2
    <3> QED BY <2>1, <2>3, <3>1, <3>2, MergedChild
  <2>6. Level(y) = Level(c) \/ Level(y) <= Level(p)
    BY <2>2, <2>3
  <2> QED BY <2>4, <2>5, <2>6
<1>3. n \in S
  BY <1>1, <1>2, DownTree
<1> QED BY <1>3

\* A leaf whose lines are sorted stays one.
LEMMA SortedStays ==
  ASSUME SafeInv, SafeInv', NEW t \in Threads, Step(t) \/ Spurious(t), NEW n \in Regular, Sorted(n)
  PROVE  Sorted(n)'
<1>0. TypeOK /\ QueueInv /\ LockInv
  BY DEF SafeInv, SeenInv
<1>1. CASE Create(t)
  BY <1>1 DEF Create, tableVars, Sorted
<1>2. CASE StoreDest(t)
  BY <1>0, <1>2, NodeChange DEF Sorted, Step
<1>3. CASE ~Create(t) /\ ~StoreDest(t)
  <2> SUFFICES ASSUME ~Sorted(n)' PROVE FALSE
    OBVIOUS
  <2>1. OthersKeep(t)
    BY <1>0, <1>3, ActionMoves DEF Moves, Step
  <2>2. ~InUse(n)'
    <3>1. ~Split(n)
      BY DEF SafeInv, CountInv, SortedApart
    <3> QED BY <1>0, <2>1, <3>1, OthersKept, TreeFacts DEF InUse
  <2>3. node'[n] = NewNode(n)
    BY <2>2 DEF SafeInv, CountInv, UnusedNew, NewNode
  <2>4. node'[n].end_lo = Tree[n].lo
    BY <2>3 DEF NewNode
  <2>5. node[n].end_lo < Tree[n].lo /\ node[n].end_lo \in Int /\ Tree[n].lo \in Nat
    <3>1. node[n].end_lo \in Int
      BY <1>0, TreeFacts DEF TypeOK
    <3> QED BY <3>1, PlaceFacts DEF SafeInv, CountInv, SortedApart
  <2>6. EndSort(t) /\ at[t] = n
    BY <1>0, <1>3, <2>4, <2>5, EndsChange
  <2>7. In(t, Sorting, n)
    BY <2>6 DEF EndSort, In, Sorting
  <2> QED BY <2>7 DEF SafeInv, CountInv, SortersNew
<1> QED BY <1>1, <1>2, <1>3

\* A node that has been called and has not been split is sorted, or a thread sorts it.
Busy(n) == \E t \in Threads : In(t, Sorting, n)
LeavesBusy == \A n \in Regular : Called(n) /\ ~InUse(n) => Busy(n)

LEMMA CreateBusy ==
  ASSUME SafeInv, SafeInv', LeavesBusy, NEW t \in Threads, Create(t)
  PROVE  LeavesBusy'
<1>0. /\ TypeOK /\ QueueInv
      /\ pc \in [Threads -> Labels] /\ at \in [Threads -> Nodes]
  BY DEF SafeInv, SeenInv, TypeOK
<1>1. /\ pc[t] = "sortlines" /\ pc[t] \in Sorting /\ at[t] \in Interior
      /\ pc' = [pc EXCEPT ![Tree[at[t]].lo_child] = "sortlines"]
      /\ at' = [at EXCEPT ![t] = Tree[at[t]].hi_child]
      /\ node' = node
  BY DEF Create, MaySplit, tableVars, Sorting
<1>2. PICK n \in Regular : n = at[t] /\ ~Split(n)
  BY <1>1, SorterFacts
<1> DEFINE l == Child(n, "lo")
           h == Child(n, "hi")
<1>3. /\ n \in Interior /\ l = Tree[n].lo_child /\ h = Tree[n].hi_child
      /\ l \in Threads /\ l \in Regular /\ h \in Regular
  BY <1>1, <1>2, TreeFacts DEF Child
<1>4. \A k \in Regular \ {RootNode} : Parent(k) = n => k = l \/ k = h
  BY SideOf DEF Sides
<1> HIDE DEF l, h
<1>5. pc[l] = "none"
  BY <1>2, <1>3 DEF Split
<1>6. /\ l # t /\ pc'[l] = "sortlines" /\ at'[l] = l /\ at'[t] = h /\ pc'[t] = "sortlines"
      /\ \A r \in Threads \ {t, l} : pc'[r] = pc[r] /\ at'[r] = at[r]
  BY <1>0, <1>1, <1>2, <1>3, <1>5 DEF QueueInv, NotYetAtHome
<1>7. /\ Split(n)'
      /\ \A k \in Regular \ {n} : Split(k)' <=> Split(k)
  <2>1. \A k \in Interior : k # n => Tree[k].lo_child # l
    BY <1>3, TreeFacts
  <2>2. \A k \in Interior : Tree[k].lo_child \in Threads
    BY TreeFacts
  <2>3. Split(n)'
    BY <1>3, <1>6 DEF Split
  <2> QED BY <1>0, <1>1, <1>2, <1>3, <2>1, <2>2, <2>3 DEF Split
<1> SUFFICES ASSUME NEW k \in Regular, Called(k)', ~InUse(k)' PROVE Busy(k)'
  BY DEF LeavesBusy
<1>8. CASE k \in {l, h}
  <2>1. In(t, Sorting, h)' /\ In(l, Sorting, l)'
    BY <1>6 DEF In, Sorting
  <2> QED BY <1>3, <1>8, <2>1 DEF Busy
<1>9. CASE k \notin {l, h}
  <2>1. k # n
    BY <1>7 DEF InUse
  <2>2. Called(k)
    <3>1. CASE k = RootNode
      BY <3>1 DEF Called
    <3>2. CASE k # RootNode
      <4>1. Split(Parent(k))' /\ Parent(k) # n
        BY <1>4, <1>9, <3>2 DEF Called
      <4>2. Parent(k) \in Regular
        BY <3>2, ChildFacts
      <4> QED BY <1>7, <4>1, <4>2 DEF Called
    <3> QED BY <3>1, <3>2
  <2>3. ~InUse(k)
    BY <1>1, <1>7, <2>1 DEF InUse, Sorted
  <2>4. PICK r \in Threads : In(r, Sorting, k)
    BY <2>2, <2>3 DEF LeavesBusy, Busy
  <2>5. r \notin {t, l}
    BY <1>2, <1>5, <2>1, <2>4 DEF In, Sorting
  <2>6. In(r, Sorting, k)'
    BY <1>6, <2>4, <2>5 DEF In
  <2> QED BY <2>6 DEF Busy
<1> QED BY <1>8, <1>9

LEMMA StepBusy ==
  ASSUME SafeInv, SafeInv', LeavesBusy, NEW t \in Threads, Step(t) \/ Spurious(t)
  PROVE  LeavesBusy'
<1>0. TypeOK /\ QueueInv /\ LockInv
  BY DEF SafeInv, SeenInv
<1>1. CASE Create(t)
  BY <1>1, CreateBusy
<1>2. CASE ~Create(t)
  <2>1. OthersKeep(t)
    BY <1>0, <1>2, ActionMoves DEF Moves, Step
  <2> SUFFICES ASSUME NEW k \in Regular, Called(k)', ~InUse(k)' PROVE Busy(k)'
    BY DEF LeavesBusy
  <2>2. Called(k) /\ ~InUse(k)
    <3>1. Called(k) /\ ~Split(k)
      BY <1>0, <2>1, OthersKept, TreeFacts DEF InUse
    <3>2. ~Sorted(k)
      BY SortedStays DEF InUse
    <3> QED BY <3>1, <3>2 DEF InUse
  <2>3. PICK r \in Threads : In(r, Sorting, k)
    BY <2>2 DEF LeavesBusy, Busy
  <2>4. CASE r # t
    <3>1. pc'[r] = pc[r] /\ at'[r] = at[r]
      BY <2>1, <2>3, <2>4 DEF OthersKeep, In, Sorting
    <3>2. In(r, Sorting, k)'
      BY <2>3, <3>1 DEF In
    <3> QED BY <3>2 DEF Busy
  <2>5. CASE r = t
    <3>1. BeginSort(t) \/ EndSort(t)
      BY <1>0, <1>2, <2>3, <2>5, ActionMoves DEF Moves, Step, In, Sorting, Merging
    <3>2. ~EndSort(t)
      <4> SUFFICES ASSUME EndSort(t) PROVE FALSE
        OBVIOUS
      <4>1. node'[k].lo = LinesOf(k)
        BY <1>0, <2>3, <2>5, TreeFacts DEF EndSort, TypeOK, In
      <4>2. LinesOf(k) < Tree[k].lo
        BY LeafRegion, PlaceFacts
      <4> QED BY <2>2, <4>1, <4>2 DEF InUse, Sorted
    <3>3. In(t, Sorting, k)'
      BY <1>0, <2>3, <2>5, <3>1, <3>2, ActionMoves DEF Moves, In, Sorting
    <3> QED BY <3>3 DEF Busy
  <2> QED BY <2>4, <2>5
<1> QED BY <1>1, <1>2

LEMMA BusyInvariant == Spec => []LeavesBusy
<1>1. Init => LeavesBusy
  <2> SUFFICES ASSUME Init, NEW n \in Regular, Called(n), ~InUse(n) PROVE Busy(n)
    BY DEF LeavesBusy
  <2>1. n = RootNode
    <3>1. \A k \in Interior : Tree[k].lo_child \in Threads /\ Tree[k].lo_child # Main
      BY TreeFacts DEF Main
    <3>2. ~Split(Parent(n))
      BY <3>1 DEF Init, Split
    <3> QED BY <3>2 DEF Called
  <2>2. In(Main, Sorting, RootNode)
    BY TreeFacts DEF Init, In, Sorting, Main
  <2> QED BY <2>1, <2>2, TreeFacts DEF Busy
<1>2. SafeInv /\ SafeInv' /\ LeavesBusy /\ [Next]_vars => LeavesBusy'
  <2> SUFFICES ASSUME SafeInv, SafeInv', LeavesBusy, [Next]_vars PROVE LeavesBusy'
    OBVIOUS
  <2>1. CASE UNCHANGED vars
    BY <2>1 DEF LeavesBusy, Busy, In, Called, InUse, Split, Sorted, vars
  <2> QED BY <2>1, StepBusy DEF Next, Return
<1> QED
  BY <1>1, <1>2, SafeInvariant, PTL DEF Spec

\* The addresses of the slots in use of a side of node n: what is there to be merged, and
\* what the thread of the child has put there without having said so.
Held(n, s) == IF Split(n) THEN NInFlight(Child(n, s)) ELSE 0
Used(n, s) == Pointer(n, s)..(End(n, s) + Held(n, s) - 1)

LEMMA DestEnd ==
  ASSUME NEW p \in Interior, NEW s \in Sides
  PROVE  Dest(Child(p, s)) = End(p, s)
<1>1. /\ Child(p, s) \in Regular /\ Child(p, s) # RootNode /\ Parent(Child(p, s)) = p
      /\ Tree[p].lo_child # Tree[p].hi_child
  BY SideFacts, TreeFacts
<1>2. IsLo(Child(p, s)) <=> s = "lo"
  BY <1>1 DEF IsLo, Child, Sides
<1> QED BY <1>1, <1>2 DEF Dest, End, Sides

\* They are the slots of the ranks that have come and are not taken.
LEMMA UsedIs ==
  ASSUME SafeInv, HalvesOK, NEW n \in Regular, NEW s \in Sides, InUse(n)
  PROVE  /\ Held(n, s) \in Nat
         /\ Taken(n, s) \in Nat /\ Come(n, s) \in Nat
         /\ \A r \in (Taken(n, s) + 1)..Come(n, s) :
              /\ Addr(Region(n), First(n, s) + r) = Pointer(n, s) + (r - Taken(n, s)) - 1
              /\ Addr(Region(n), First(n, s) + r) \in Used(n, s)
         /\ \A a \in Used(n, s) : \E r \in (Taken(n, s) + 1)..Come(n, s) :
              r = a - Pointer(n, s) + Taken(n, s) + 1 /\ a = Addr(Region(n), First(n, s) + r)
<1>1. PICK i \in Nat, j \in Nat : i = Taken(n, s) /\ j = Come(n, s) /\ i <= j
  BY HalfFacts
<1>2. PICK p \in Int, e \in Int, f \in Int, z \in Int :
        p = Pointer(n, s) /\ e = End(n, s) /\ f = First(n, s) /\ z = NLines * Region(n)
  <2>1. Region(n) \in Nat /\ NLines \in Nat
    BY HalfFacts, SizesAssumption
  <2>2. NLines * Region(n) \in Int
    BY <2>1
  <2> QED BY <2>2, SideCounts, SideFacts
<1>3. PICK g \in Nat : g = Held(n, s) /\ j - i = e - p + g
  <2>1. PICK c \in Nat, y \in Nat : c = Count(n, s) /\ y = LeftOf(n, s) /\ i = c - y
    BY <1>1, HalfFacts, SideFacts
  <2>2. CASE Split(n)
    <3>1. PICK x \in Regular : x = Child(n, s)
      BY <2>2, SideFacts DEF Split
    <3>2. PICK g \in Nat, w \in Nat : g = NInFlight(x) /\ w = Left(x) /\ Owed(x) = g + w
      BY <3>1, OwedFacts
    <3>3. j = c - w /\ y = e - p + (g + w)
      BY <1>1, <1>2, <2>1, <2>2, <3>1, <3>2, HalfFacts, SideCounts
    <3>4. j - i = e - p + g
      BY <2>1, <3>3
    <3> QED BY <2>2, <3>1, <3>2, <3>4 DEF Held
  <2>3. CASE ~Split(n)
    <3>1. j = c /\ y = e - p
      BY <1>1, <1>2, <2>1, <2>3, HalfFacts, SideCounts DEF InUse
    <3>2. j - i = e - p + 0
      BY <2>1, <3>1
    <3> QED BY <2>3, <3>2 DEF Held
  <2> QED BY <2>2, <2>3
<1>4. \A r \in Int : Addr(Region(n), First(n, s) + r) = z + f + r - 1
  BY <1>2 DEF Addr
<1>5. p = z + f + i
  <2>1. Pointer(n, s) = Addr(Region(n), First(n, s) + Taken(n, s) + 1)
    BY DEF HalvesOK, HalfOK
  <2> QED BY <1>1, <1>2, <2>1 DEF Addr
<1>6. \A r \in (i + 1)..j : /\ Addr(Region(n), First(n, s) + r) = p + (r - i) - 1
                            /\ Addr(Region(n), First(n, s) + r) \in p..(e + g - 1)
  <2> SUFFICES ASSUME NEW r \in (i + 1)..j
               PROVE  /\ Addr(Region(n), First(n, s) + r) = p + (r - i) - 1
                      /\ Addr(Region(n), First(n, s) + r) \in p..(e + g - 1)
    OBVIOUS
  <2>1. Addr(Region(n), First(n, s) + r) = z + f + r - 1
    BY <1>4
  <2>2. z + f + r - 1 = p + (r - i) - 1 /\ z + f + r - 1 \in p..(e + g - 1)
    BY <1>3, <1>5
  <2> QED BY <2>1, <2>2
<1>7. \A a \in p..(e + g - 1) : \E r \in (i + 1)..j :
        r = a - p + i + 1 /\ a = Addr(Region(n), First(n, s) + r)
  <2> SUFFICES ASSUME NEW a \in p..(e + g - 1)
               PROVE  \E r \in (i + 1)..j : r = a - p + i + 1 /\ a = Addr(Region(n), First(n, s) + r)
    OBVIOUS
  <2>1. PICK r \in (i + 1)..j : r = a - p + i + 1
    BY <1>3
  <2>2. Addr(Region(n), First(n, s) + r) = p + (r - i) - 1
    BY <1>6
  <2>3. p + (r - i) - 1 = a
    BY <2>1
  <2> QED BY <2>1, <2>2, <2>3
<1> QED BY <1>1, <1>2, <1>3, <1>6, <1>7 DEF Used

\* Nobody uses other slots.
LEMMA LiveIs ==
  ASSUME SafeInv, HalvesOK
  PROVE  \A a : a \in Live <=> \E n \in Regular, s \in Sides : InUse(n) /\ a \in Used(n, s)
<1>0. TypeOK /\ QueueInv /\ LockInv
  BY DEF SafeInv, SeenInv
<1>1. ASSUME NEW n \in Regular, ~InUse(n)
      PROVE  AvailLo(n) = {} /\ AvailHi(n) = {}
  <2>1. node[n] = NewNode(n) /\ Tree[n].lo \in Nat /\ Tree[n].hi \in Nat
    BY <1>1, SizeFacts DEF SafeInv, CountInv, UnusedNew
  <2>2. /\ node[n].lo = Tree[n].lo /\ node[n].end_lo = Tree[n].lo
        /\ node[n].hi = Tree[n].hi /\ node[n].end_hi = Tree[n].hi
    BY <2>1 DEF NewNode
  <2> QED BY <2>1, <2>2 DEF AvailLo, AvailHi
<1>2. ASSUME NEW n \in Regular, InUse(n), NEW s \in Sides
      PROVE  /\ Used(n, s) = (Pointer(n, s)..(End(n, s) - 1)) \cup (End(n, s)..(End(n, s) + Held(n, s) - 1))
             /\ Split(n) => End(n, s)..(End(n, s) + Held(n, s) - 1) = InFlight(Child(n, s))
             /\ ~Split(n) => End(n, s)..(End(n, s) + Held(n, s) - 1) = {}
  <2>1. PICK p \in Int, e \in Int, g \in Nat :
          p = Pointer(n, s) /\ e = End(n, s) /\ g = Held(n, s) /\ p <= e
    BY <1>2, SideCounts, UsedIs
  <2>2. p..(e + g - 1) = (p..(e - 1)) \cup (e..(e + g - 1))
    BY <2>1
  <2>3. Split(n) => e..(e + g - 1) = InFlight(Child(n, s))
    BY <2>1, DestEnd DEF InFlight, Held, Split
  <2>4. ~Split(n) => e..(e + g - 1) = {}
    BY <2>1 DEF Held
  <2> QED BY <2>1, <2>2, <2>3, <2>4 DEF Used
<1>3. \A n : /\ AvailLo(n) = Pointer(n, "lo")..(End(n, "lo") - 1)
             /\ AvailHi(n) = Pointer(n, "hi")..(End(n, "hi") - 1)
  BY DEF AvailLo, AvailHi, Pointer, End
<1>4. ASSUME NEW c \in Regular, NEW a \in InFlight(c)
      PROVE  \E n \in Regular, s \in Sides : InUse(n) /\ a \in Used(n, s)
  <2>1. NInFlight(c) # 0
    <3>1. Dest(c) \in Int
      BY <1>0, TreeFacts DEF Dest, TypeOK
    <3> QED BY <1>4, <3>1 DEF InFlight
  <2>2. /\ lock[c] # NoThread /\ pc[lock[c]] \in Merging /\ Level(c) > MERGE_ROOT
    BY <2>1 DEF NInFlight
  <2>3. c # RootNode /\ c \in Nodes
    BY <2>2, TreeFacts
  <2>4. PICK t \in Threads : t = lock[c] /\ pc[t] \in Merging
    BY <1>0, <2>2, <2>3 DEF TypeOK
  <2>5. at[t] = c /\ pc[t] # "none"
    BY <1>0, <2>3, <2>4 DEF LockInv, Holding, Merging
  <2>6. Called(c)
    BY <1>0, <2>5, WorkerFacts
  <2>7. PICK p \in Interior, s \in Sides : p = Parent(c) /\ p \in Regular /\ c = Child(p, s)
    BY <2>3, SideOf
  <2>8. Split(p) /\ InUse(p)
    BY <2>3, <2>6, <2>7 DEF Called, InUse
  <2>9. a \in Used(p, s)
    BY <1>2, <1>4, <2>7, <2>8
  <2> QED BY <2>7, <2>8, <2>9
<1>5. ASSUME NEW a \in Live
      PROVE  \E n \in Regular, s \in Sides : InUse(n) /\ a \in Used(n, s)
  <2>1. PICK n \in Regular : a \in AvailLo(n) \/ a \in AvailHi(n) \/ a \in InFlight(n)
    BY <1>5 DEF Live
  <2>2. CASE a \in InFlight(n)
    BY <1>4, <2>2
  <2>3. CASE a \in AvailLo(n) \/ a \in AvailHi(n)
    <3>1. InUse(n)
      BY <1>1, <2>3
    <3>2. PICK s \in Sides : a \in Pointer(n, s)..(End(n, s) - 1)
      BY <1>3, <2>3 DEF Sides
    <3>3. a \in Used(n, s)
      BY <1>2, <3>1, <3>2
    <3> QED BY <3>1, <3>3
  <2> QED BY <2>1, <2>2, <2>3
<1>6. ASSUME NEW n \in Regular, NEW s \in Sides, InUse(n), NEW a \in Used(n, s)
      PROVE  a \in Live
  <2>1. CASE a \in Pointer(n, s)..(End(n, s) - 1)
    <3>1. a \in AvailLo(n) \/ a \in AvailHi(n)
      BY <1>3, <2>1 DEF Sides
    <3> QED BY <3>1 DEF Live
  <2>2. CASE a \in End(n, s)..(End(n, s) + Held(n, s) - 1)
    <3>1. Split(n) /\ a \in InFlight(Child(n, s))
      BY <1>2, <1>6, <2>2
    <3>2. Child(n, s) \in Regular
      BY <3>1, SideFacts DEF Split
    <3> QED BY <3>1, <3>2 DEF Live
  <2> QED BY <1>2, <1>6, <2>1, <2>2
<1> QED BY <1>5, <1>6

\* Side s of node n has line b: it has come to the node, and the node has not merged it.
Has(n, s, b) == /\ InUse(n) /\ b \in Part(n, s)
                /\ ~HasMerged(n, b)
                /\ Split(n) => HasMerged(Child(n, s), b)
SlotOf(n, s, b) == Addr(Region(n), First(n, s) + Rank(input, b, Part(n, s)))

LEMMA HasRank ==
  ASSUME SafeInv, OrderInv, NEW n \in Regular, NEW s \in Sides, InUse(n), NEW b \in Part(n, s)
  PROVE  /\ b \in Lines /\ Rank(input, b, Part(n, s)) \in Nat
         /\ Has(n, s, b) <=> Rank(input, b, Part(n, s)) \in (Taken(n, s) + 1)..Come(n, s)
<1>0. HalvesOK /\ input \in Keyings
  BY InputsAssumption DEF OrderInv, SafeInv, SeenInv, TypeOK, Keyings, Lines
<1>1. PICK R \in SUBSET Lines : R = Part(n, s) /\ Cardinality(R) = Count(n, s)
  BY PartInLines, PartSize
<1>2. PICK q \in Nat : q = Rank(input, b, R) /\ q <= Count(n, s)
  BY <1>0, <1>1, RankFacts
<1>3. PICK i \in Nat, j \in Nat : i = Taken(n, s) /\ j = Come(n, s)
  BY <1>0, UsedIs
<1>4. HasMerged(n, b) <=> q <= i
  BY <1>1, <1>2, <1>3, MergedSide
<1>5. CASE Split(n)
  <2>1. HasMerged(Child(n, s), b) <=> q <= j
    BY <1>1, <1>2, <1>3, <1>5, MergedChild
  <2>2. Has(n, s, b) <=> q \in (i + 1)..j
    BY <1>2, <1>3, <1>4, <1>5, <2>1 DEF Has
  <2> QED BY <1>1, <1>2, <1>3, <2>2
<1>6. CASE ~Split(n)
  <2>1. j = Count(n, s)
    BY <1>0, <1>3, <1>6, HalfFacts
  <2>2. Has(n, s, b) <=> q \in (i + 1)..j
    BY <1>2, <1>3, <1>4, <1>6, <2>1 DEF Has
  <2> QED BY <1>1, <1>2, <1>3, <2>2
<1> QED BY <1>5, <1>6

\* The slots in use are those of the lines that nodes have.
LEMMA LiveHas ==
  ASSUME SafeInv, OrderInv
  PROVE  /\ \A a \in Live : \E n \in Regular, s \in Sides, b \in Lines : Has(n, s, b) /\ a = SlotOf(n, s, b)
         /\ \A n \in Regular, s \in Sides, b \in Lines :
              Has(n, s, b) => SlotOf(n, s, b) \in Live /\ Read(SlotOf(n, s, b)) = b
<1>0. HalvesOK /\ input \in Keyings
  BY InputsAssumption DEF OrderInv, SafeInv, SeenInv, TypeOK, Keyings, Lines
<1>1. ASSUME NEW a \in Live
      PROVE  \E n \in Regular, s \in Sides, b \in Lines : Has(n, s, b) /\ a = SlotOf(n, s, b)
  <2>1. PICK n \in Regular, s \in Sides : InUse(n) /\ a \in Used(n, s)
    BY <1>0, LiveIs
  <2>2. PICK r \in (Taken(n, s) + 1)..Come(n, s) : a = Addr(Region(n), First(n, s) + r)
    BY <1>0, <2>1, UsedIs
  <2>3. Ranked(input, mem[Addr(Region(n), First(n, s) + r)], r, Part(n, s))
    BY <1>0, <2>1 DEF HalvesOK, HalfOK, Placed
  <2>4. PICK b \in Part(n, s) : Rank(input, b, Part(n, s)) = r
    BY <2>3 DEF Ranked
  <2>5. Has(n, s, b) /\ b \in Lines
    BY <2>1, <2>4, HasRank
  <2> QED BY <2>2, <2>4, <2>5 DEF SlotOf
<1>2. ASSUME NEW n \in Regular, NEW s \in Sides, NEW b \in Lines, Has(n, s, b)
      PROVE  SlotOf(n, s, b) \in Live /\ Read(SlotOf(n, s, b)) = b
  <2>1. InUse(n) /\ b \in Part(n, s)
    BY <1>2 DEF Has
  <2>2. PICK r \in (Taken(n, s) + 1)..Come(n, s) : r = Rank(input, b, Part(n, s))
    BY <1>2, <2>1, HasRank
  <2>3. SlotOf(n, s, b) = Addr(Region(n), First(n, s) + r)
    BY <2>2 DEF SlotOf
  <2>4. SlotOf(n, s, b) \in Used(n, s)
    BY <1>0, <2>1, <2>3, UsedIs
  <2>5. SlotOf(n, s, b) \in Addresses
    BY <1>0, <2>3, SlotFacts
  <2>6. Ranked(input, mem[Addr(Region(n), First(n, s) + r)], r, Part(n, s))
    BY <1>0, <2>1 DEF HalvesOK, HalfOK, Placed
  <2>7. PICK c \in Part(n, s) : c = mem[SlotOf(n, s, b)] /\ Rank(input, c, Part(n, s)) = r
    BY <2>3, <2>6 DEF Ranked
  <2>8. c = b
    <3>1. PICK R \in SUBSET Lines : R = Part(n, s)
      BY PartInLines
    <3>2. b \in R /\ c \in R /\ Rank(input, c, R) = Rank(input, b, R)
      BY <2>1, <2>2, <2>7, <3>1
    <3> QED BY <1>0, <3>2, RankFacts
  <2>9. SlotOf(n, s, b) \in Live
    BY <1>0, <2>1, <2>4, LiveIs
  <2> QED BY <2>5, <2>7, <2>8, <2>9 DEF Read
<1> QED BY <1>1, <1>2

\* A node with lines has been called.
LEMMA UseCalled ==
  ASSUME SafeInv, NEW n \in Regular, InUse(n)
  PROVE  Called(n)
BY DEF SafeInv, SeenInv, CountInv, SortedApart, QueueInv, UncalledIdle, InUse

\* Between two nodes that have been called, the lines of the lower one are on their way
\* through the child of the upper one.
LEMMA HasBelow ==
  ASSUME SafeInv, OrderInv, NEW n \in Regular, NEW s \in Sides, NEW b \in Lines, Has(n, s, b),
         NEW k \in Regular, Called(k), b \in Rng(k), Level(n) < Level(k)
  PROVE  HasMerged(k, b)
<1>0. QueueInv
  BY DEF SafeInv, SeenInv
<1>1. b \in Part(n, s) /\ b \in Rng(n)
  BY PartInLines DEF Has
<1>2. Split(n)
  BY <1>0, <1>1, CalledBelow
<1>3. PICK c \in Regular : c = Child(n, s) /\ Rng(c) = Part(n, s) /\ Level(c) = Level(n) + 1
  BY <1>2, SideFacts DEF Split
<1>4. HasMerged(c, b)
  BY <1>2, <1>3 DEF Has
<1>5. Level(c) <= Level(k)
  BY <1>3, LevelFacts
<1> QED BY <1>1, <1>3, <1>4, <1>5, MergedBelow

\* No line is in two places.
LEMMA HasOnce ==
  ASSUME SafeInv, OrderInv, NEW n \in Regular, NEW s \in Sides, NEW k \in Regular, NEW z \in Sides,
         NEW b \in Lines, Has(n, s, b), Has(k, z, b)
  PROVE  n = k /\ s = z
<1>1. b \in Part(n, s) /\ b \in Rng(n) /\ b \in Part(k, z) /\ b \in Rng(k)
  BY PartInLines DEF Has
<1>2. Called(n) /\ Called(k) /\ ~HasMerged(n, b) /\ ~HasMerged(k, b)
  BY UseCalled DEF Has
<1>3. ~(Level(n) < Level(k)) /\ ~(Level(k) < Level(n))
  BY <1>1, <1>2, HasBelow
<1>4. Level(n) \in Nat /\ Level(k) \in Nat
  BY LevelFacts
<1>5. Level(n) = Level(k)
  BY <1>3, <1>4
<1>6. n = k
  BY <1>1, <1>5, Laminar
<1>7. CASE z # s
  <2>1. z = Other(s)
    BY <1>7 DEF Sides, Other
  <2>2. Part(n, s) \cap Part(n, z) = {}
    BY <2>1, SideFacts
  <2> QED BY <1>1, <1>6, <2>2
<1> QED BY <1>6, <1>7

\* The lines that some thread is still to sort.
LEMMA UnsortedIs ==
  ASSUME SafeInv
  PROVE  \A b : b \in Unsorted <=> \E t \in Threads : pc[t] \in Sorting /\ b \in Rng(at[t])
<1>1. ASSUME NEW t \in Threads, pc[t] \in Sorting
      PROVE  (LinesOf(at[t]) + 1)..(LinesOf(at[t]) + node[at[t]].nlo + node[at[t]].nhi) = Rng(at[t])
  <2>1. PICK n \in Regular : n = at[t] /\ node[n] = NewNode(n)
    BY <1>1, SorterFacts
  <2>2. PICK a \in Int, i \in Nat, j \in Nat : /\ a = LinesOf(n) /\ i = Tree[n].nlo /\ j = Tree[n].nhi
                                               /\ Total(n) = i + j
    BY PlaceFacts
  <2>3. node[n].nlo = i /\ node[n].nhi = j
    BY <2>1, <2>2 DEF NewNode
  <2>4. a + i + j = a + (i + j)
    BY <2>2
  <2> QED BY <2>1, <2>2, <2>3, <2>4 DEF Rng
<1> QED BY <1>1 DEF Unsorted

\* A node whose lines are being sorted has merged none of them.
LEMMA SorterHasNone ==
  ASSUME SafeInv, OrderInv, NEW t \in Threads, pc[t] \in Sorting, NEW b \in Rng(at[t])
  PROVE  /\ at[t] \in Regular /\ Called(at[t]) /\ ~Split(at[t]) /\ ~InUse(at[t]) /\ b \in Lines
         /\ ~HasMerged(at[t], b)
<1>0. input \in Keyings
  BY InputsAssumption DEF SafeInv, SeenInv, TypeOK, Keyings, Lines
<1>1. PICK n \in Regular : /\ n = at[t] /\ Called(n) /\ ~Split(n) /\ ~InUse(n)
                           /\ node[n] = NewNode(n)
  BY SorterFacts
<1>2. \A r \in Threads : ~In(r, Merging, n)
  BY <1>1 DEF SafeInv, CountInv, WorkersUse, In, Holding
<1>3. Left(n) = Total(n) /\ Total(n) \in Nat
  BY <1>1, <1>2, NewLeft, PlaceFacts DEF Sides
<1>4. PICK R \in SUBSET Lines : R = Rng(n)
  BY RngInLines
<1>5. Rank(input, b, R) >= 1 /\ Rank(input, b, R) \in Nat
  BY <1>0, <1>1, <1>4, RankFacts
<1>6. ~(Rank(input, b, R) <= Total(n) - Left(n))
  BY <1>3, <1>5
<1> QED BY <1>1, <1>4, <1>6 DEF HasMerged

\* What the root has merged is written.
LEMMA WrittenIs ==
  ASSUME SafeInv, NEW b \in Lines
  PROVE  HasMerged(RootNode, b) <=> Rank(input, b, Lines) <= Written
<1>1. LinesOf(RootNode) = 0 /\ Total(RootNode) = NLines
  BY PlaceFacts
<1>2. Rng(RootNode) = Lines
  BY <1>1, SizesAssumption DEF Rng, Lines
<1> QED BY <1>1, <1>2 DEF HasMerged, Written

\* What a node has still to merge is not written.
LEMMA NotYetWritten ==
  ASSUME SafeInv, OrderInv, NEW n \in Regular, Called(n), NEW b \in Rng(n), ~HasMerged(n, b)
  PROVE  ~HasMerged(RootNode, b)
<1>1. Rng(RootNode) = Lines
  BY PlaceFacts, SizesAssumption DEF Rng, Lines
<1>2. b \in Rng(RootNode)
  BY <1>1, RngInLines
<1>3. Level(RootNode) <= Level(n)
  BY LevelFacts
<1> QED BY <1>2, <1>3, TreeFacts, MergedBelow

\* What a node has is neither being sorted nor written.
LEMMA HasNot ==
  ASSUME SafeInv, OrderInv, NEW n \in Regular, NEW s \in Sides, NEW b \in Lines, Has(n, s, b)
  PROVE  b \notin Unsorted /\ ~HasMerged(RootNode, b)
<1>0. QueueInv
  BY DEF SafeInv, SeenInv
<1>1. b \in Part(n, s) /\ b \in Rng(n) /\ InUse(n) /\ Called(n) /\ ~HasMerged(n, b)
  BY PartInLines, UseCalled DEF Has
<1>2. b \notin Unsorted
  <2> SUFFICES ASSUME NEW t \in Threads, pc[t] \in Sorting, b \in Rng(at[t]) PROVE FALSE
    BY UnsortedIs
  <2>1. PICK x \in Regular : /\ x = at[t] /\ Called(x) /\ ~Split(x) /\ ~InUse(x)
                             /\ ~HasMerged(x, b) /\ b \in Rng(x)
    BY SorterHasNone
  <2>2. Level(x) \in Nat /\ Level(n) \in Nat
    BY LevelFacts
  <2>3. CASE Level(x) = Level(n)
    BY <1>1, <2>1, <2>3, Laminar
  <2>4. CASE Level(n) < Level(x)
    BY <2>1, <2>4, HasBelow
  <2>5. CASE Level(x) < Level(n)
    BY <1>0, <1>1, <2>1, <2>5, CalledBelow
  <2> QED BY <2>2, <2>3, <2>4, <2>5
<1>3. ~HasMerged(RootNode, b)
  BY <1>1, NotYetWritten
<1> QED BY <1>2, <1>3

\* A line that is not written and not being sorted is somewhere: in the least of the nodes
\* that have still to merge it.
LEMMA HasSome ==
  ASSUME SafeInv, OrderInv, LeavesBusy, NEW b \in Lines, b \notin Unsorted,
         ~HasMerged(RootNode, b)
  PROVE  \E n \in Regular, s \in Sides : Has(n, s, b)
<1> DEFINE S == {k \in Regular : Called(k) /\ b \in Rng(k) /\ ~HasMerged(k, b)}
           T == {Total(k) : k \in S}
<1>1. RootNode \in S
  <2>1. Rng(RootNode) = Lines
    BY PlaceFacts, SizesAssumption DEF Rng, Lines
  <2> QED BY <2>1, TreeFacts DEF Called
<1>2. T \in SUBSET Nat /\ T # {}
  BY <1>1, PlaceFacts
<1>3. PICK x \in T : \A y \in T : x <= y
  <2> HIDE DEF T
  <2> QED BY <1>2, LeastElement
<1>4. PICK n \in S : \A k \in S : Total(n) <= Total(k)
  BY <1>3
<1>5. PICK s \in Sides : b \in Part(n, s)
  <2>1. Rng(n) = Part(n, "lo") \cup Part(n, "hi")
    BY <1>4, SideFacts DEF Sides, Other
  <2> QED BY <1>4, <2>1 DEF Sides
<1>6. n \in Regular /\ Called(n) /\ b \in Rng(n) /\ ~HasMerged(n, b)
  BY <1>4
<1>7. InUse(n)
  <2> SUFFICES ASSUME ~InUse(n) PROVE FALSE
    OBVIOUS
  <2>1. PICK t \in Threads : In(t, Sorting, n)
    BY <1>6 DEF LeavesBusy, Busy
  <2> QED BY <1>6, <2>1, UnsortedIs DEF In
<1>8. Split(n) => HasMerged(Child(n, s), b)
  <2> SUFFICES ASSUME Split(n), ~HasMerged(Child(n, s), b) PROVE FALSE
    OBVIOUS
  <2>1. PICK c \in Regular : /\ c = Child(n, s) /\ c # RootNode /\ Parent(c) = n
                             /\ Rng(c) = Part(n, s) /\ Total(c) = Count(n, s)
    BY <1>6, SideFacts DEF Split
  <2>2. c \in S
    BY <1>5, <2>1 DEF Called
  <2>3. Total(n) <= Count(n, s)
    BY <1>4, <2>1, <2>2
  <2>4. PICK i \in Nat, j \in Nat : /\ i = Tree[n].nlo /\ j = Tree[n].nhi /\ Total(n) = i + j
                                    /\ i + j >= 2 /\ (j = i \/ j = i + 1)
    BY <1>6, PlaceFacts, SizeFacts DEF SafeInv, CountInv, CalledLarge
  <2> QED BY <2>3, <2>4 DEF Count
<1>9. Has(n, s, b)
  BY <1>5, <1>6, <1>7, <1>8 DEF Has
<1> QED BY <1>6, <1>9

\* The lines that are available to a node are in order.
LEMMA RunsOrdered ==
  ASSUME SafeInv, OrderInv, NEW n \in Regular, NEW s \in Sides,
         NEW a \in Pointer(n, s)..(End(n, s) - 1), a + 1 \in Pointer(n, s)..(End(n, s) - 1)
  PROVE  Before(Read(a), Read(a + 1))
<1>0. HalvesOK /\ input \in Keyings
  BY InputsAssumption DEF OrderInv, SafeInv, SeenInv, TypeOK, Keyings, Lines
<1>1. InUse(n)
  <2> SUFFICES ASSUME ~InUse(n) PROVE FALSE
    OBVIOUS
  <2>1. node[n] = NewNode(n) /\ Tree[n].lo \in Nat /\ Tree[n].hi \in Nat
    BY SizeFacts DEF SafeInv, CountInv, UnusedNew
  <2>2. Pointer(n, s) = End(n, s) /\ End(n, s) \in Nat
    BY <2>1 DEF NewNode, Pointer, End
  <2> QED BY <2>2
<1>2. PICK p \in Int, e \in Int, g \in Nat, i \in Nat, j \in Nat :
        /\ p = Pointer(n, s) /\ e = End(n, s) /\ g = Held(n, s)
        /\ i = Taken(n, s) /\ j = Come(n, s)
  BY <1>0, <1>1, SideCounts, UsedIs
<1>3. a \in Int /\ a \in p..(e + g - 1) /\ a + 1 \in p..(e + g - 1)
  BY <1>2
<1>4. PICK r \in (i + 1)..j : r = a - p + i + 1 /\ a = Addr(Region(n), First(n, s) + r)
  BY <1>0, <1>1, <1>2, <1>3, UsedIs DEF Used
<1>5. PICK q \in (i + 1)..j : q = (a + 1) - p + i + 1 /\ a + 1 = Addr(Region(n), First(n, s) + q)
  BY <1>0, <1>1, <1>2, <1>3, UsedIs DEF Used
<1>6. q = r + 1
  BY <1>3, <1>4, <1>5
<1>7. PICK R \in SUBSET Lines : R = Part(n, s)
  BY PartInLines
<1>8. a \in Addresses /\ a + 1 \in Addresses
  BY <1>0, <1>2, <1>4, <1>5, SlotFacts
<1>9. Ranked(input, mem[a], r, R) /\ Ranked(input, mem[a + 1], q, R)
  BY <1>0, <1>1, <1>2, <1>4, <1>5, <1>7 DEF HalvesOK, HalfOK, Placed
<1>10. PICK b \in R, c \in R : /\ b = Read(a) /\ c = Read(a + 1)
                               /\ Rank(input, b, R) = r /\ Rank(input, c, R) = q
  BY <1>8, <1>9 DEF Ranked, Read
<1>11. Earlier(input, b, c)
  <2>1. Rank(input, b, R) < Rank(input, c, R)
    <3>1. r < q
      BY <1>6
    <3> QED BY <1>10, <3>1
  <2> QED BY <1>0, <2>1, RankFacts
<1>12. Before(b, c)
  <2>1. PICK x \in Int, y \in Int : x = input[b] /\ y = input[c]
    BY <1>0 DEF Keyings
  <2>2. compare(b, c) = x - y
    BY <2>1 DEF compare, Key
  <2>3. x < y \/ (x = y /\ b < c)
    BY <1>11, <2>1 DEF Earlier
  <2> QED BY <2>1, <2>2, <2>3 DEF Before
<1> QED BY <1>10, <1>12

\* Reading the table gives each line that is not written and not being sorted once.
LEMMA LiveLines ==
  ASSUME SafeInv, OrderInv, LeavesBusy
  PROVE  LET rest == {b \in Lines : b \notin Unsorted /\ ~HasMerged(RootNode, b)}
         IN /\ {Read(a) : a \in Live} = rest
            /\ Cardinality(Live) = Cardinality(rest)
<1> DEFINE rest == {b \in Lines : b \notin Unsorted /\ ~HasMerged(RootNode, b)}
           f == [a \in Live |-> Read(a)]
<1>1. ASSUME NEW a \in Live
      PROVE  \E n \in Regular, s \in Sides, b \in Lines :
               Has(n, s, b) /\ a = SlotOf(n, s, b) /\ Read(a) = b /\ b \in rest
  <2>1. PICK n \in Regular, s \in Sides, b \in Lines : Has(n, s, b) /\ a = SlotOf(n, s, b)
    BY LiveHas
  <2>2. Read(a) = b
    BY <2>1, LiveHas
  <2>3. b \in rest
    BY <2>1, HasNot
  <2> QED BY <2>1, <2>2, <2>3
<1>2. ASSUME NEW b \in rest PROVE \E a \in Live : Read(a) = b
  <2>1. b \in Lines /\ b \notin Unsorted /\ ~HasMerged(RootNode, b)
    OBVIOUS
  <2>2. PICK n \in Regular, s \in Sides : Has(n, s, b)
    BY <2>1, HasSome
  <2> QED BY <2>1, <2>2, LiveHas
<1>3. ASSUME NEW a \in Live, NEW c \in Live, Read(a) = Read(c) PROVE a = c
  <2>1. PICK n \in Regular, s \in Sides, b \in Lines :
               Has(n, s, b) /\ a = SlotOf(n, s, b) /\ Read(a) = b
    BY <1>1
  <2>2. PICK k \in Regular, z \in Sides, d \in Lines :
               Has(k, z, d) /\ c = SlotOf(k, z, d) /\ Read(c) = d
    BY <1>1
  <2>3. b = d
    BY <1>3, <2>1, <2>2
  <2>4. n = k /\ s = z
    BY <2>1, <2>2, <2>3, HasOnce
  <2> QED BY <2>1, <2>2, <2>3, <2>4
<1>4. IsFiniteSet(rest)
  <2>1. rest \in SUBSET Lines
    OBVIOUS
  <2> HIDE DEF rest
  <2> QED BY <2>1, LinesFinite
<1>5. {Read(a) : a \in Live} = rest
  BY <1>1, <1>2
<1>6. f \in Injection(Live, rest) /\ f \in Surjection(Live, rest)
  <2> HIDE DEF rest
  <2>1. f \in [Live -> rest]
    BY <1>5
  <2>2. f \in Injection(Live, rest)
    <3>1. \A a, c \in Live : f[a] = f[c] => a = c
      BY <1>3
    <3> HIDE DEF f
    <3>2. DOMAIN f = Live
      BY <2>1
    <3> QED BY <2>1, <3>1, <3>2 DEF Injection, IsInjective
  <2>3. f \in Surjection(Live, rest)
    BY <1>2, <2>1 DEF Surjection
  <2> QED BY <2>2, <2>3
<1>7. Cardinality(Live) = Cardinality(rest)
  <2> HIDE DEF rest, f
  <2> QED BY <1>4, <1>6, FS_Injection
<1> QED BY <1>5, <1>7

LEMMA LinesKeptNow ==
  ASSUME SafeInv, OrderInv, LeavesBusy
  PROVE  LinesKept
<1> DEFINE W == {b \in Lines : Rank(input, b, Lines) <= Written}
           rest == {b \in Lines : b \notin Unsorted /\ ~HasMerged(RootNode, b)}
<1>0. input \in Keyings /\ NLines \in Nat
  BY InputsAssumption, SizesAssumption DEF SafeInv, SeenInv, TypeOK, Keyings, Lines
<1>1. ASSUME NEW n \in Regular, NEW run \in {AvailLo(n), AvailHi(n)}, NEW a \in run, a + 1 \in run
      PROVE  Before(Read(a), Read(a + 1))
  <2>1. PICK s \in Sides : run = Pointer(n, s)..(End(n, s) - 1)
    BY DEF Sides, AvailLo, AvailHi, Pointer, End
  <2> QED BY <1>1, <2>1, RunsOrdered
<1>2. W \subseteq Lines /\ \A b \in Lines : HasMerged(RootNode, b) <=> b \in W
  BY WrittenIs
<1>3. Unsorted \subseteq Lines /\ Unsorted \cap W = {}
  <2> SUFFICES ASSUME NEW b \in Unsorted PROVE b \in Lines /\ ~HasMerged(RootNode, b)
    BY <1>2
  <2>1. PICK t \in Threads : pc[t] \in Sorting /\ b \in Rng(at[t])
    BY UnsortedIs
  <2>2. /\ at[t] \in Regular /\ Called(at[t]) /\ b \in Lines /\ ~HasMerged(at[t], b)
    BY <2>1, SorterHasNone
  <2> QED BY <2>1, <2>2, NotYetWritten
<1>4. rest = Lines \ (Unsorted \cup W)
  BY <1>2
<1>5. {Read(a) : a \in Live} = rest /\ Cardinality(Live) = Cardinality(rest)
  BY LiveLines
<1>6. {out[i] : i \in DOMAIN out} \subseteq W
  <2>1. Wrote(input, out, saved, Written)
    BY DEF OrderInv, OutOK
  <2> SUFFICES ASSUME NEW i \in DOMAIN out PROVE out[i] \in W
    OBVIOUS
  <2>2. out[i] \in Lines
    BY <2>1 DEF Wrote
  <2> QED BY <2>1, <2>2 DEF Wrote
<1>7. Cardinality(Lines) = NLines
  BY <1>0, FS_Interval DEF Lines
<1>8. Written \in 0..NLines /\ Written = NLines - LeftLo(RootNode) - LeftHi(RootNode)
  <2>1. PICK i \in Nat, j \in Nat : /\ i = LeftLo(RootNode) /\ j = LeftHi(RootNode)
                                    /\ Left(RootNode) = i + j
    BY OwedFacts, TreeFacts
  <2>2. i + j <= NLines
    <3>1. /\ LeftOf(RootNode, "lo") <= Count(RootNode, "lo")
          /\ LeftOf(RootNode, "hi") <= Count(RootNode, "hi")
      BY TreeFacts DEF OrderInv, HalvesOK, HalfOK, Sides
    <3>2. PICK c \in Nat, d \in Nat : /\ c = Count(RootNode, "lo") /\ d = Count(RootNode, "hi")
                                      /\ c + d = NLines
      BY PlaceFacts, TreeFacts DEF Count
    <3> QED BY <2>1, <3>1, <3>2 DEF LeftOf
  <2> QED BY <1>0, <2>1, <2>2 DEF Written
<1>9. Cardinality(W) = Written
  <2>1. PICK R \in SUBSET Lines : R = Lines /\ Cardinality(R) = NLines
    BY <1>7
  <2> QED BY <1>0, <1>8, <2>1, RankCount
<1> HIDE DEF W, rest
<1>10. /\ IsFiniteSet(Lines) /\ IsFiniteSet(Unsorted) /\ IsFiniteSet(W)
       /\ Cardinality(Unsorted) \in Nat /\ Cardinality(W) \in Nat /\ Cardinality(rest) \in Nat
  <2>1. Unsorted \in SUBSET Lines /\ W \in SUBSET Lines /\ rest \in SUBSET Lines /\ Lines \in SUBSET Lines
    BY <1>2, <1>3, <1>4
  <2> QED BY <2>1, LinesFinite
<1>11. Cardinality(rest) + Cardinality(Unsorted) + Written = NLines
  <2> DEFINE U == Unsorted \cup W
  <2>1. Cardinality(Unsorted \cap W) = 0
    BY <1>3, FS_EmptySet
  <2>2. Cardinality(U) = Cardinality(Unsorted) + Cardinality(W) - Cardinality(Unsorted \cap W)
    BY <1>10, FS_Union
  <2>3. U \subseteq Lines
    BY <1>2, <1>3
  <2> HIDE DEF U
  <2>4. Lines \cap U = U
    BY <2>3
  <2>5. Cardinality(Lines \ U) = Cardinality(Lines) - Cardinality(Lines \cap U)
    BY <1>10, FS_Difference
  <2>6. rest = Lines \ U
    BY <1>4 DEF U
  <2>7. PICK x \in Nat, u \in Nat, w \in Nat :
          x = Cardinality(rest) /\ u = Cardinality(Unsorted) /\ w = Cardinality(W)
    BY <1>10
  <2>8. Cardinality(U) = u + w
    BY <2>1, <2>2, <2>7
  <2>9. x = NLines - (u + w)
    BY <1>7, <2>4, <2>5, <2>6, <2>7, <2>8
  <2>10. x + u + w = NLines
    BY <1>0, <2>7, <2>9
  <2> QED BY <1>9, <2>7, <2>10
<1>12. rest \subseteq Lines \ (Unsorted \cup {out[i] : i \in DOMAIN out})
  BY <1>4, <1>6
<1> QED BY <1>1, <1>5, <1>8, <1>11, <1>12 DEF LinesKept

\* No line is lost, doubled or overwritten: at every moment each line is written, still to be
\* sorted, or in exactly one slot that a node can merge from or a thread is filling, and what a
\* node can merge is in order; whatever the tree, the input and the interleaving, though the
\* regions of the table are used again (sortlines, mergelines_node).
THEOREM LinesKeptHolds == Spec => []LinesKept
<1>1. SafeInv /\ OrderInv /\ LeavesBusy => LinesKept
  BY LinesKeptNow
<1> QED
  BY <1>1, SafeInvariant, OrderInvariant, BusyInvariant, PTL
=============================================================================

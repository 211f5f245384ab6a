---------------------------- MODULE InternalSortProofs ----------------------------
(***************************************************************************)
(* Theorems about the two recursions of sort's internal sort: what         *)
(* init_node builds for any number of threads, that the sorts of its nodes *)
(* fit the table and keep out of each other's way (TreeLayout, MergeTree), *)
(* and that sequential_sort sorts, for any number of lines                 *)
(* (SequentialSort).                                                       *)
(***************************************************************************)
EXTENDS TreeLayout, SequentialSort, TLAPS, WellFoundedInduction

-----------------------------------------------------------------------------
(* Recursive functions *)

\* A set of natural numbers has a least element.
LEMMA Least ==
  ASSUME NEW T \in SUBSET Nat, T # {}
  PROVE  \E x \in T : \A y \in T : x <= y
<1> DEFINE R == OpToRel(<, Nat)
<1>1. IsWellFoundedOn(R, Nat)
  BY NatLessThanWellFounded
<1>2. \A x, y \in Nat : <<x, y>> \in R <=> x < y
  BY DEF OpToRel
<1> HIDE DEF R
<1>3. PICK x \in T : \A y \in T : ~ (<<y, x>> \in R)
  <2>1. T \subseteq Nat
    OBVIOUS
  <2> QED BY <1>1, <2>1, WFMin, Zenon
<1>4. ASSUME NEW y \in T PROVE x <= y
  <2>1. x \in Nat /\ y \in Nat /\ ~(y < x)
    BY <1>2, <1>3
  <2> QED BY <2>1
<1> QED BY <1>4

\* The arguments of smaller measure, the values of f for them, and what f is if each of its
\* values is a step from those.
Below(D, measure, d) == {x \in D : measure[x] < measure[d]}
Values(D, measure, d, f) == [x \in Below(D, measure, d) |-> f[x]]
Stepwise(D, measure, step, S, f) == \A d \in S : f[d] = step[d][Values(D, measure, d, f)]
UpTo(D, measure, n) == {x \in D : measure[x] < n}
Begins(D, V, measure, step, n, f) ==
  f \in [UpTo(D, measure, n) -> V] /\ Stepwise(D, measure, step, UpTo(D, measure, n), f)
Steps(D, V, measure, step) ==
  /\ measure \in [D -> Nat]
  /\ \A d \in D : step[d] \in [[Below(D, measure, d) -> V] -> V]

\* Two such functions agree.
LEMMA StepwiseUnique ==
  ASSUME NEW D, NEW V, NEW measure, NEW step, Steps(D, V, measure, step), NEW S \in SUBSET D,
         \A d \in S : Below(D, measure, d) \subseteq S,
         NEW f, Stepwise(D, measure, step, S, f), NEW g, Stepwise(D, measure, step, S, g)
  PROVE  \A d \in S : f[d] = g[d]
<1> DEFINE T == {n \in Nat : \E d \in S : measure[d] = n /\ f[d] # g[d]}
<1>1. ASSUME NEW d \in S, f[d] # g[d] PROVE FALSE
  <2>1. measure[d] \in Nat
    BY DEF Steps
  <2>2. T # {} /\ T \in SUBSET Nat
    BY <1>1, <2>1
  <2> HIDE DEF T
  <2>3. PICK n \in T : \A m \in T : n <= m
    BY <2>2, Least
  <2> USE DEF T
  <2>4. PICK e \in S : measure[e] = n /\ f[e] # g[e]
    OBVIOUS
  <2>5. ASSUME NEW x \in Below(D, measure, e) PROVE f[x] = g[x]
    <3>1. x \in S /\ measure[x] < n /\ measure[x] \in Nat
      BY <2>4 DEF Below, Steps
    <3>2. measure[x] \notin T
      BY <2>3, <3>1
    <3> QED BY <3>1, <3>2
  <2>6. Values(D, measure, e, f) = Values(D, measure, e, g)
    BY <2>5 DEF Values
  <2> QED BY <2>4, <2>6 DEF Stepwise
<1> QED BY <1>1

\* There is one for the arguments below each measure.
LEMMA BeginsExists ==
  ASSUME NEW D, NEW V, NEW measure, NEW step, Steps(D, V, measure, step), NEW n \in Nat
  PROVE  \E f : Begins(D, V, measure, step, n, f)
<1> DEFINE T == {k \in Nat : ~ \E f : Begins(D, V, measure, step, k, f)}
<1>1. ASSUME T # {} PROVE FALSE
  <2>1. T \in SUBSET Nat
    OBVIOUS
  <2> HIDE DEF T
  <2>2. PICK k \in T : \A m \in T : k <= m
    BY <1>1, <2>1, Least
  <2>3. k \in Nat /\ ~ \E f : Begins(D, V, measure, step, k, f)
    BY DEF T
  <2>4. \A d \in D : measure[d] \in Nat
    BY DEF Steps
  <2>5. k # 0
    <3>1. ASSUME k = 0 PROVE FALSE
      <4>1. UpTo(D, measure, k) = {}
        BY <2>4, <3>1 DEF UpTo
      <4>2. PICK f : f = [x \in UpTo(D, measure, k) |-> x]
        OBVIOUS
      <4>3. Begins(D, V, measure, step, k, f)
        BY <4>1, <4>2 DEF Begins, Stepwise
      <4> QED BY <2>3, <4>3
    <3> QED BY <3>1
  <2>6. PICK m \in Nat : k = m + 1
    <3>1. k - 1 \in Nat /\ k = (k - 1) + 1
      BY <2>3, <2>5
    <3> QED BY <3>1
  <2>7. m \notin T
    BY <2>2, <2>6
  <2>8. PICK f : Begins(D, V, measure, step, m, f)
    BY <2>7 DEF T
  <2>9. f \in [UpTo(D, measure, m) -> V] /\ Stepwise(D, measure, step, UpTo(D, measure, m), f)
    BY <2>8 DEF Begins
  <2>10. PICK g : g = [d \in UpTo(D, measure, k) |->
                         IF measure[d] < m THEN f[d] ELSE step[d][Values(D, measure, d, f)]]
    OBVIOUS
  <2>11. ASSUME NEW d \in UpTo(D, measure, k)
         PROVE  /\ d \in D /\ \A x \in Below(D, measure, d) : x \in UpTo(D, measure, m) /\ g[x] = f[x]
                /\ g[d] = step[d][Values(D, measure, d, g)] /\ g[d] \in V
    <3>1. d \in D /\ measure[d] < m + 1
      BY <2>6 DEF UpTo
    <3>2. ASSUME NEW x \in Below(D, measure, d) PROVE x \in UpTo(D, measure, m) /\ x \in UpTo(D, measure, k) /\ measure[x] < m
      BY <2>4, <2>6, <3>1 DEF Below, UpTo
    <3>3. ASSUME NEW x \in Below(D, measure, d) PROVE g[x] = f[x]
      BY <2>10, <3>2
    <3>4. Values(D, measure, d, g) = Values(D, measure, d, f)
      BY <3>3 DEF Values
    <3>5. Values(D, measure, d, f) \in [Below(D, measure, d) -> V]
      BY <2>9, <3>2 DEF Values
    <3>6. step[d][Values(D, measure, d, f)] \in V
      BY <3>1, <3>5 DEF Steps
    <3>7. g[d] = step[d][Values(D, measure, d, f)]
      <4>1. CASE measure[d] < m
        <5>1. d \in UpTo(D, measure, m)
          BY <3>1, <4>1 DEF UpTo
        <5> QED BY <2>9, <2>10, <4>1, <5>1 DEF Stepwise
      <4>2. CASE ~(measure[d] < m)
        BY <2>10, <4>2
      <4> QED BY <4>1, <4>2
    <3> QED BY <3>1, <3>2, <3>3, <3>4, <3>6, <3>7
  <2>12. Begins(D, V, measure, step, k, g)
    <3>1. g \in [UpTo(D, measure, k) -> V]
      BY <2>10, <2>11
    <3>2. Stepwise(D, measure, step, UpTo(D, measure, k), g)
      BY <2>11 DEF Stepwise
    <3> QED BY <3>1, <3>2 DEF Begins
  <2> QED BY <2>3, <2>12
<1> QED BY <1>1

\* A function can be defined by recursion on a measure.
LEMMA Recursion ==
  ASSUME NEW D, NEW V, NEW measure, NEW step, Steps(D, V, measure, step)
  PROVE  \E f \in [D -> V] : Stepwise(D, measure, step, D, f)
<1>1. PICK F : F = [n \in Nat |-> CHOOSE f : Begins(D, V, measure, step, n, f)]
  OBVIOUS
<1>2. ASSUME NEW n \in Nat PROVE Begins(D, V, measure, step, n, F[n])
  <2>1. F[n] = CHOOSE f : Begins(D, V, measure, step, n, f)
    BY <1>1
  <2>2. \E f : Begins(D, V, measure, step, n, f)
    BY BeginsExists
  <2> QED BY <2>1, <2>2
<1>3. \A d \in D : measure[d] \in Nat /\ measure[d] + 1 \in Nat
  BY DEF Steps
<1>4. PICK f : f = [d \in D |-> F[measure[d] + 1][d]]
  OBVIOUS
<1>5. ASSUME NEW d \in D, NEW x \in Below(D, measure, d) PROVE f[x] = F[measure[d] + 1][x]
  <2>1. x \in D /\ measure[x] < measure[d] /\ measure[x] \in Nat /\ measure[d] \in Nat
    BY <1>3 DEF Below
  <2>2. PICK m \in Nat, n \in Nat : m = measure[x] + 1 /\ n = measure[d] + 1 /\ m <= n
    BY <2>1
  <2> DEFINE S == UpTo(D, measure, m)
  <2>3. S \in SUBSET D /\ x \in S /\ S \subseteq UpTo(D, measure, n) /\ \A y \in S : Below(D, measure, y) \subseteq S
    BY <1>3, <2>1, <2>2 DEF UpTo, Below
  <2>4. Stepwise(D, measure, step, S, F[m])
    BY <1>2 DEF Begins
  <2>5. Stepwise(D, measure, step, S, F[n])
    <3>1. Stepwise(D, measure, step, UpTo(D, measure, n), F[n])
      BY <1>2 DEF Begins
    <3> QED BY <2>3, <3>1 DEF Stepwise
  <2> HIDE DEF S
  <2>6. F[m][x] = F[n][x]
    <3>1. \A y \in S : F[m][y] = F[n][y]
      BY <2>3, <2>4, <2>5, StepwiseUnique
    <3> QED BY <2>3, <3>1
  <2>7. f[x] = F[measure[x] + 1][x]
    BY <1>4, <2>1
  <2> QED BY <2>2, <2>6, <2>7
<1>6. ASSUME NEW d \in D PROVE f[d] \in V /\ f[d] = step[d][Values(D, measure, d, f)]
  <2>1. PICK n \in Nat : n = measure[d] + 1
    BY <1>3
  <2>2. d \in UpTo(D, measure, n)
    BY <1>3, <2>1 DEF UpTo
  <2>3. F[n] \in [UpTo(D, measure, n) -> V] /\ Stepwise(D, measure, step, UpTo(D, measure, n), F[n])
    BY <1>2 DEF Begins
  <2>4. f[d] = F[n][d]
    BY <1>4, <2>1
  <2>5. Values(D, measure, d, f) = Values(D, measure, d, F[n])
    BY <1>5, <2>1 DEF Values
  <2> QED BY <2>2, <2>3, <2>4, <2>5 DEF Stepwise
<1>7. f \in [D -> V]
  BY <1>4, <1>6
<1> QED BY <1>6, <1>7 DEF Stepwise
-----------------------------------------------------------------------------
(* The room of the table *)

\* How often a number of threads doubles until there are enough.
Doubles(N, f) == \A t \in Nat \ {0} : f[t] = IF t < N THEN 1 + f[t * 2] ELSE 1

\* A function that counts the doublings exists.
LEMMA DoublesExist ==
  ASSUME NEW N \in Nat
  PROVE  \E f \in [Nat \ {0} -> Nat] : Doubles(N, f)
<1> DEFINE D == Nat \ {0}
<1>1. PICK measure : measure = [t \in D |-> IF t < N THEN N - t ELSE 0]
  OBVIOUS
<1>2. PICK step : step = [t \in D |-> [h \in [Below(D, measure, t) -> Nat] |-> IF t < N THEN 1 + h[t * 2] ELSE 1]]
  OBVIOUS
<1>3. measure \in [D -> Nat]
  BY <1>1
<1>4. ASSUME NEW t \in D, t < N PROVE t * 2 \in Below(D, measure, t)
  <2>1. t * 2 \in D /\ t * 2 > t /\ measure[t] = N - t
    BY <1>1, <1>4
  <2>2. measure[t * 2] < measure[t]
    BY <1>1, <1>4, <2>1
  <2> QED BY <2>1, <2>2 DEF Below
<1>5. ASSUME NEW t \in D PROVE step[t] \in [[Below(D, measure, t) -> Nat] -> Nat]
  <2>1. ASSUME NEW h \in [Below(D, measure, t) -> Nat] PROVE (IF t < N THEN 1 + h[t * 2] ELSE 1) \in Nat
    BY <1>4
  <2> QED BY <1>2, <2>1
<1>6. Steps(D, Nat, measure, step)
  BY <1>3, <1>5 DEF Steps
<1>7. PICK f \in [D -> Nat] : Stepwise(D, measure, step, D, f)
  BY <1>6, Recursion
<1>8. ASSUME NEW t \in D PROVE f[t] = IF t < N THEN 1 + f[t * 2] ELSE 1
  <2>1. Values(D, measure, t, f) \in [Below(D, measure, t) -> Nat]
    BY DEF Values, Below
  <2>2. f[t] = step[t][Values(D, measure, t, f)]
    BY <1>7 DEF Stepwise
  <2>3. f[t] = IF t < N THEN 1 + Values(D, measure, t, f)[t * 2] ELSE 1
    BY <1>2, <2>1, <2>2
  <2>4. t < N => Values(D, measure, t, f)[t * 2] = f[t * 2]
    BY <1>4 DEF Values
  <2> QED BY <2>3, <2>4
<1> QED BY <1>8 DEF Doubles

\* mult is what the loop of sort() counts.
LEMMA multIs ==
  ASSUME NEW N \in Nat
  PROVE  \E f \in [Nat \ {0} -> Nat] : Doubles(N, f) /\ mult(N) = f[1]
<1> DEFINE D == Nat \ {0}
           g == CHOOSE f : f = [t \in D |-> IF t < N THEN 1 + f[t * 2] ELSE 1]
<1>1. PICK f \in [D -> Nat] : Doubles(N, f)
  BY DoublesExist
<1>2. f = [t \in D |-> IF t < N THEN 1 + f[t * 2] ELSE 1]
  BY <1>1 DEF Doubles
<1>3. g = [t \in D |-> IF t < N THEN 1 + g[t * 2] ELSE 1]
  BY <1>2
<1>4. mult(N) = g[1]
  BY Zenon DEF mult
<1> HIDE DEF g
<1> DEFINE T == {n \in Nat : \E t \in D : n = N - t /\ t < N /\ f[t] # g[t]}
<1>5. \A t \in D : f[t] = g[t]
  <2>1. ASSUME NEW t \in D, f[t] # g[t] PROVE FALSE
    <3>1. t < N /\ N - t \in Nat
      BY <1>2, <1>3, <2>1
    <3>2. T # {} /\ T \in SUBSET Nat
      BY <2>1, <3>1
    <3> HIDE DEF T
    <3>3. PICK n \in T : \A m \in T : n <= m
      BY <3>2, Least
    <3>4. PICK s \in D : n = N - s /\ s < N /\ f[s] # g[s]
      BY DEF T
    <3>5. f[s * 2] # g[s * 2] /\ s * 2 \in D
      BY <1>2, <1>3, <3>4
    <3>6. s * 2 < N
      BY <1>2, <1>3, <3>5
    <3>7. N - s * 2 \in T /\ N - s * 2 < n
      <4>1. N - s * 2 \in Nat /\ N - s * 2 < N - s
        BY <3>4, <3>6
      <4> QED BY <3>4, <3>5, <3>6, <4>1 DEF T
    <3>8. n \in Nat /\ N - s * 2 \in Nat
      BY <3>7 DEF T
    <3> QED BY <3>3, <3>7, <3>8
  <2> QED BY <2>1
<1>6. mult(N) = f[1]
  BY <1>4, <1>5
<1> QED BY <1>1, <1>6
-----------------------------------------------------------------------------
(* init_node *)

Node == [parent : Nat \cup {NoNode}, level : Nat, lo : Nat, hi : Nat, nlo : Nat, nhi : Nat,
         lo_child : Nat \cup {NoNode}, hi_child : Nat \cup {NoNode}, nthreads : Nat]
Built == [nodes : UNION {[S -> Node] : S \in SUBSET Nat}, pool : Nat]

\* The node that init_node fills in, and what it calls itself with.
Nlo(c) == c.nlines \div 2
Me(c, l, h) ==
  [n \in {c.node_pool} |->
     [parent |-> c.parent, level |-> c.level,
      lo |-> c.dest + c.total, hi |-> c.dest + c.total + Nlo(c), nlo |-> Nlo(c), nhi |-> c.nlines - Nlo(c),
      lo_child |-> l, hi_child |-> h, nthreads |-> c.nthreads]]
LoArguments(c) ==
  [parent |-> c.node_pool, node_pool |-> c.node_pool + 1, dest |-> c.dest + c.total, nthreads |-> c.nthreads \div 2,
   total |-> c.total, nlines |-> Nlo(c), level |-> c.level + 1]
HiArguments(c, pool) ==
  [parent |-> c.node_pool, node_pool |-> pool, dest |-> c.dest + c.total + Nlo(c), nthreads |-> hi_threads(c.nthreads),
   total |-> c.total, nlines |-> c.nlines - Nlo(c), level |-> c.level + 1]
Both(c, lo, hi) ==
  [nodes |-> Joined(Me(c, c.node_pool + 1, lo.pool), Joined(lo.nodes, hi.nodes)), pool |-> hi.pool]
Leaf(c) == [nodes |-> Me(c, NoNode, NoNode), pool |-> c.node_pool + 1]

\* What init_node builds, given what its calls build.
Build(c, f) ==
  IF c.nthreads > 1 THEN Both(c, f[LoArguments(c)], f[HiArguments(c, f[LoArguments(c)].pool)]) ELSE Leaf(c)
Builds(f) == \A c \in Arguments : f[c] = Build(c, f)

\* What the halves of the lines and of the threads are.
LEMMA ArgumentsIs ==
  ASSUME NEW c \in Arguments
  PROVE  /\ c.parent \in Nat /\ c.node_pool \in Nat /\ c.dest \in Nat /\ c.nthreads \in Nat /\ c.total \in Nat
         /\ c.nlines \in Nat /\ c.level \in Nat
         /\ Nlo(c) \in Nat /\ c.nlines - Nlo(c) \in Nat /\ c.nlines - Nlo(c) - Nlo(c) \in {0, 1}
         /\ c.nthreads > 1 => /\ c.nthreads \div 2 \in Nat /\ c.nthreads \div 2 >= 1 /\ c.nthreads \div 2 < c.nthreads
                              /\ hi_threads(c.nthreads) \in Nat /\ hi_threads(c.nthreads) >= 1
                              /\ hi_threads(c.nthreads) < c.nthreads
                              /\ c.nthreads \div 2 + hi_threads(c.nthreads) = c.nthreads
                              /\ c.nthreads \div 2 <= hi_threads(c.nthreads)
                              /\ 2 * (hi_threads(c.nthreads) - 1) <= c.nthreads - 1
<1>1. /\ c.parent \in Nat /\ c.node_pool \in Nat /\ c.dest \in Nat /\ c.nthreads \in Nat /\ c.total \in Nat
      /\ c.nlines \in Nat /\ c.level \in Nat
  BY DEF Arguments
<1>2. PICK n \in Nat, k \in Nat : n = c.nlines /\ k = c.nthreads
  BY <1>1
<1>3. n \div 2 \in Nat /\ n - n \div 2 \in Nat /\ n - n \div 2 - n \div 2 \in {0, 1}
  OBVIOUS
<1>4. k > 1 => /\ k \div 2 \in Nat /\ k \div 2 >= 1 /\ k \div 2 < k
               /\ k - k \div 2 \in Nat /\ k - k \div 2 >= 1 /\ k - k \div 2 < k
               /\ k \div 2 + (k - k \div 2) = k /\ k \div 2 <= k - k \div 2
               /\ 2 * ((k - k \div 2) - 1) <= k - 1
  OBVIOUS
<1> QED BY <1>1, <1>2, <1>3, <1>4 DEF Nlo, hi_threads

\* init_node calls itself with arguments again.
LEMMA CallsTyped ==
  ASSUME NEW c \in Arguments, c.nthreads > 1
  PROVE  LoArguments(c) \in Arguments /\ \A pool \in Nat : HiArguments(c, pool) \in Arguments
<1>1. /\ c.node_pool + 1 \in Nat /\ c.dest + c.total \in Nat /\ c.dest + c.total + Nlo(c) \in Nat /\ c.level + 1 \in Nat
      /\ c.node_pool \in Nat /\ c.total \in Nat /\ Nlo(c) \in Nat /\ c.nlines - Nlo(c) \in Nat
      /\ c.nthreads \div 2 \in Nat /\ hi_threads(c.nthreads) \in Nat
  BY ArgumentsIs
<1> QED BY <1>1 DEF LoArguments, HiArguments, Arguments

\* The nodes of two arrays.
LEMMA JoinedType ==
  ASSUME NEW V, NEW S, NEW T, NEW f \in [S -> V], NEW g \in [T -> V]
  PROVE  /\ Joined(f, g) \in [S \cup T -> V]
         /\ \A n \in S : Joined(f, g)[n] = f[n]
         /\ \A n \in T : n \notin S => Joined(f, g)[n] = g[n]
BY DEF Joined

\* The node that init_node fills in is a node.
LEMMA MeType ==
  ASSUME NEW c \in Arguments, NEW l \in Nat \cup {NoNode}, NEW h \in Nat \cup {NoNode}
  PROVE  Me(c, l, h) \in [{c.node_pool} -> Node]
<1>1. /\ c.dest + c.total \in Nat /\ c.dest + c.total + Nlo(c) \in Nat /\ c.level \in Nat /\ c.parent \in Nat
      /\ Nlo(c) \in Nat /\ c.nlines - Nlo(c) \in Nat /\ c.nthreads \in Nat
  BY ArgumentsIs
<1> QED BY <1>1 DEF Me, Node

\* What is joined from the calls is a result again.
LEMMA BothBuilt ==
  ASSUME NEW c \in Arguments, NEW lo \in Built, NEW hi \in Built
  PROVE  Both(c, lo, hi) \in Built /\ Leaf(c) \in Built
<1>1. PICK S \in SUBSET Nat : lo.nodes \in [S -> Node]
  BY DEF Built
<1>2. PICK T \in SUBSET Nat : hi.nodes \in [T -> Node]
  BY DEF Built
<1>3. lo.pool \in Nat /\ hi.pool \in Nat /\ c.node_pool \in Nat /\ c.node_pool + 1 \in Nat
  BY ArgumentsIs DEF Built
<1>4. Me(c, c.node_pool + 1, lo.pool) \in [{c.node_pool} -> Node] /\ Me(c, NoNode, NoNode) \in [{c.node_pool} -> Node]
  BY <1>3, MeType
<1>5. Joined(lo.nodes, hi.nodes) \in [S \cup T -> Node]
  BY <1>1, <1>2, JoinedType
<1>6. Joined(Me(c, c.node_pool + 1, lo.pool), Joined(lo.nodes, hi.nodes)) \in [{c.node_pool} \cup (S \cup T) -> Node]
  <2>1. PICK f \in [{c.node_pool} -> Node], g \in [S \cup T -> Node] :
          f = Me(c, c.node_pool + 1, lo.pool) /\ g = Joined(lo.nodes, hi.nodes)
    BY <1>4, <1>5, Zenon
  <2>2. Joined(f, g) \in [{c.node_pool} \cup (S \cup T) -> Node]
    BY JoinedType
  <2> QED BY <2>1, <2>2, Zenon
<1>7. {c.node_pool} \cup (S \cup T) \in SUBSET Nat /\ {c.node_pool} \in SUBSET Nat
  BY <1>3
<1>8. \A R \in SUBSET Nat : \A f \in [R -> Node] : \A p \in Nat : [nodes |-> f, pool |-> p] \in Built
  BY DEF Built
<1> QED BY <1>3, <1>4, <1>6, <1>7, <1>8, Zenon DEF Both, Leaf

\* A function that builds as init_node does exists, since each call has fewer threads.
LEMMA BuildsExist == \E f \in [Arguments -> Built] : Builds(f)
<1> DEFINE D == Arguments
<1>1. PICK measure : measure = [c \in D |-> c.nthreads]
  OBVIOUS
<1>2. PICK step : step = [c \in D |-> [h \in [Below(D, measure, c) -> Built] |-> Build(c, h)]]
  OBVIOUS
<1>3. measure \in [D -> Nat]
  BY <1>1, ArgumentsIs
<1>4. ASSUME NEW c \in D, c.nthreads > 1
      PROVE  /\ LoArguments(c) \in Below(D, measure, c)
             /\ \A pool \in Nat : HiArguments(c, pool) \in Below(D, measure, c)
  <2>1. LoArguments(c) \in D /\ \A pool \in Nat : HiArguments(c, pool) \in D
    BY <1>4, CallsTyped
  <2>2. LoArguments(c).nthreads < c.nthreads /\ \A pool \in Nat : HiArguments(c, pool).nthreads < c.nthreads
    BY <1>4, ArgumentsIs DEF LoArguments, HiArguments
  <2> QED BY <1>1, <2>1, <2>2 DEF Below
<1>5. ASSUME NEW c \in D, NEW h \in [Below(D, measure, c) -> Built] PROVE Build(c, h) \in Built
  <2>1. CASE c.nthreads > 1
    <3>1. h[LoArguments(c)] \in Built
      BY <1>4, <2>1
    <3>2. PICK lo \in Built : lo = h[LoArguments(c)]
      BY <3>1
    <3>3. lo.pool \in Nat
      BY DEF Built
    <3>4. h[HiArguments(c, lo.pool)] \in Built
      BY <1>4, <2>1, <3>3
    <3>5. Both(c, lo, h[HiArguments(c, lo.pool)]) \in Built
      BY <3>4, BothBuilt
    <3> QED BY <2>1, <3>2, <3>5, Zenon DEF Build
  <2>2. CASE ~(c.nthreads > 1)
    <3>1. Leaf(c) \in Built
      <4>1. Me(c, NoNode, NoNode) \in [{c.node_pool} -> Node]
        BY MeType
      <4>2. c.node_pool \in Nat /\ c.node_pool + 1 \in Nat
        BY ArgumentsIs
      <4> QED BY <4>1, <4>2 DEF Leaf, Built
    <3> QED BY <2>2, <3>1, Zenon DEF Build
  <2> QED BY <2>1, <2>2
<1>6. \A c \in D : step[c] \in [[Below(D, measure, c) -> Built] -> Built]
  BY <1>2, <1>5
<1>7. Steps(D, Built, measure, step)
  BY <1>3, <1>6 DEF Steps
<1>8. PICK f \in [D -> Built] : Stepwise(D, measure, step, D, f)
  BY <1>7, Recursion
<1>9. ASSUME NEW c \in D PROVE f[c] = Build(c, f)
  <2>1. PICK h : h = Values(D, measure, c, f)
    OBVIOUS
  <2>2. h \in [Below(D, measure, c) -> Built] /\ \A x \in Below(D, measure, c) : h[x] = f[x]
    BY <2>1 DEF Values, Below
  <2>3. f[c] = Build(c, h)
    <3>1. f[c] = step[c][h]
      BY <1>8, <2>1 DEF Stepwise
    <3> QED BY <1>2, <2>2, <3>1
  <2>4. Build(c, h) = Build(c, f)
    <3>1. CASE c.nthreads > 1
      <4>1. h[LoArguments(c)] = f[LoArguments(c)]
        BY <1>4, <2>2, <3>1
      <4>2. f[LoArguments(c)].pool \in Nat
        <5>1. f[LoArguments(c)] \in Built
          BY <3>1, CallsTyped
        <5> QED BY <5>1 DEF Built
      <4>3. PICK p \in Nat : p = f[LoArguments(c)].pool
        BY <4>2
      <4>4. h[HiArguments(c, p)] = f[HiArguments(c, p)]
        BY <1>4, <2>2, <3>1
      <4> QED BY <3>1, <4>1, <4>3, <4>4, Zenon DEF Build
    <3>2. CASE ~(c.nthreads > 1)
      BY <3>2, Zenon DEF Build
    <3> QED BY <3>1, <3>2
  <2> QED BY <2>3, <2>4
<1> QED BY <1>8, <1>9 DEF Builds

\* init_node is such a function.
LEMMA init_nodeIs == Builds(init_node)
<1>1. PICK f \in [Arguments -> Built] : Builds(f)
  BY BuildsExist
<1>2. f = [c \in Arguments |-> Build(c, f)]
  BY <1>1 DEF Builds
<1>3. init_node = CHOOSE g : g = [c \in Arguments |-> Build(c, g)]
  BY Zenon DEF init_node, Build, Both, Leaf, Me, LoArguments, HiArguments, Nlo
<1>4. init_node = [c \in Arguments |-> Build(c, init_node)]
  BY <1>2, <1>3, Zenon
<1>5. PICK g : g = init_node
  OBVIOUS
<1>6. \A c \in Arguments : g[c] = Build(c, g)
  <2>1. g = [c \in Arguments |-> Build(c, g)]
    BY <1>4, <1>5, Zenon
  <2> QED BY <2>1
<1> QED BY <1>5, <1>6, Zenon DEF Builds
-----------------------------------------------------------------------------
(* The subtree that init_node builds *)

\* A node's numbers; its children among the nodes D, one region further on; its parent.
Halved(t, n, most) ==
  /\ t[n].hi = t[n].lo + t[n].nlo /\ t[n].nhi - t[n].nlo \in {0, 1} /\ t[n].nlo + t[n].nhi <= most
  /\ t[n].nthreads >= 1
ChildOf(t, D, n, k, lines, place, threads) ==
  /\ k \in D /\ n < k /\ t[k].parent = n /\ t[k].level = t[n].level + 1
  /\ t[k].nlo + t[k].nhi = lines /\ t[k].lo = place /\ t[k].nthreads = threads
Children(t, D, n, total) ==
  /\ t[n].lo_child # t[n].hi_child
  /\ ChildOf(t, D, n, t[n].lo_child, t[n].nlo, t[n].lo + total, t[n].nthreads \div 2)
  /\ ChildOf(t, D, n, t[n].hi_child, t[n].nhi, t[n].hi + total, hi_threads(t[n].nthreads))
HasParent(t, D, n) ==
  \E p \in D : /\ t[n].parent = p /\ p < n /\ t[p].nthreads > 1 /\ t[n].level = t[p].level + 1
               /\ n = t[p].lo_child \/ n = t[p].hi_child
Fine(t, D, n, total, most) ==
  /\ Halved(t, n, most)
  /\ t[n].nthreads > 1 => Children(t, D, n, total)

\* The first node is the one that init_node fills in.
First(c, x) ==
  /\ x.parent = c.parent /\ x.level = c.level /\ x.lo = c.dest + c.total /\ x.nthreads = c.nthreads
  /\ x.nlo = Nlo(c) /\ x.nhi = c.nlines - Nlo(c) /\ x.hi = c.dest + c.total + Nlo(c)

Subtree(c, r) ==
  LET D == c.node_pool..(r.pool - 1)
  IN /\ r.pool \in Nat /\ r.pool = c.node_pool + 2 * c.nthreads - 1
     /\ r.nodes \in [D -> Node]
     /\ First(c, r.nodes[c.node_pool])
     /\ \A n \in D : Fine(r.nodes, D, n, c.total, c.nlines)
     /\ \A n \in D \ {c.node_pool} : HasParent(r.nodes, D, n)

\* What holds of a subtree holds of it within a tree.
LEMMA FineStays ==
  ASSUME NEW t, NEW u, NEW D, NEW E, D \subseteq E, \A x \in D : u[x] = t[x], NEW n \in D,
         NEW total, NEW most \in Nat, NEW more \in Nat, most <= more, t[n] \in Node,
         Fine(t, D, n, total, most)
  PROVE  Fine(u, E, n, total, more)
<1>1. u[n] = t[n] /\ t[n].nlo \in Nat /\ t[n].nhi \in Nat
  BY DEF Node
<1>2. Halved(u, n, more)
  BY <1>1 DEF Fine, Halved
<1>3. ASSUME t[n].nthreads > 1 PROVE Children(u, E, n, total)
  <2>1. Children(t, D, n, total)
    BY <1>3 DEF Fine
  <2>2. t[n].lo_child \in D /\ t[n].hi_child \in D
    BY <2>1 DEF Children, ChildOf
  <2>3. u[t[n].lo_child] = t[t[n].lo_child] /\ u[t[n].hi_child] = t[t[n].hi_child]
    BY <2>2
  <2> QED BY <1>1, <2>1, <2>2, <2>3, Zenon DEF Children, ChildOf
<1> QED BY <1>1, <1>2, <1>3 DEF Fine

\* So does its parent.
LEMMA HasParentStays ==
  ASSUME NEW t, NEW u, NEW D, NEW E, D \subseteq E, \A x \in D : u[x] = t[x], NEW n \in D, HasParent(t, D, n)
  PROVE  HasParent(u, E, n)
BY DEF HasParent

\* One thread: a leaf.
LEMMA LeafSubtree ==
  ASSUME NEW c \in Arguments, c.nthreads = 1
  PROVE  Subtree(c, Leaf(c))
<1>1. PICK p \in Nat : p = c.node_pool
  BY ArgumentsIs
<1>2. PICK r : r = Leaf(c)
  OBVIOUS
<1>3. r.pool = p + 1 /\ r.nodes = Me(c, NoNode, NoNode)
  BY <1>1, <1>2 DEF Leaf
<1>4. p..(r.pool - 1) = {p}
  BY <1>3
<1>5. r.nodes \in [{p} -> Node] /\ First(c, r.nodes[p])
  <2>1. Me(c, NoNode, NoNode) \in [{c.node_pool} -> Node]
    BY MeType
  <2>2. First(c, Me(c, NoNode, NoNode)[c.node_pool])
    BY DEF First, Me
  <2> QED BY <1>1, <1>3, <2>1, <2>2
<1>6. Fine(r.nodes, {p}, p, c.total, c.nlines)
  <2>1. PICK x : x = r.nodes[p]
    OBVIOUS
  <2>2. /\ x.hi = x.lo + x.nlo /\ x.nhi - x.nlo \in {0, 1} /\ x.nlo + x.nhi <= c.nlines /\ x.nthreads = 1
    BY <1>5, <2>1, ArgumentsIs DEF First
  <2> QED BY <2>1, <2>2 DEF Fine, Halved
<1>7. r.pool \in Nat /\ r.pool = p + 2 * c.nthreads - 1
  BY <1>3
<1> QED BY <1>1, <1>2, <1>4, <1>5, <1>6, <1>7 DEF Subtree

JoinsThree(V, p, S, T, e, f, g, t) ==
  /\ t \in [{p} \cup (S \cup T) -> V] /\ t[p] = e[p]
  /\ \A n \in S : t[n] = f[n]
  /\ \A n \in T : t[n] = g[n]

\* The nodes of three arrays.
LEMMA JoinedThree ==
  ASSUME NEW V, NEW p, NEW S, NEW T, NEW e \in [{p} -> V], NEW f \in [S -> V], NEW g \in [T -> V],
         p \notin S, p \notin T, \A n \in T : n \notin S,
         NEW t, t = Joined(e, Joined(f, g))
  PROVE  JoinsThree(V, p, S, T, e, f, g, t)
<1>1. PICK u : u = Joined(f, g)
  OBVIOUS
<1>2. u \in [S \cup T -> V] /\ (\A n \in S : u[n] = f[n]) /\ (\A n \in T : n \notin S => u[n] = g[n])
  BY <1>1 DEF Joined
<1>3. t = Joined(e, u)
  BY <1>1, Zenon
<1>4. t \in [{p} \cup (S \cup T) -> V] /\ (\A n \in {p} : t[n] = e[n]) /\ (\A n \in S \cup T : n \notin {p} => t[n] = u[n])
  BY <1>2, <1>3 DEF Joined
<1> QED BY <1>2, <1>4 DEF JoinsThree

\* More threads: a node with two subtrees.
LEMMA BothSubtree ==
  ASSUME NEW c \in Arguments, c.nthreads > 1, NEW lo, NEW hi,
         Subtree(LoArguments(c), lo), Subtree(HiArguments(c, lo.pool), hi)
  PROVE  Subtree(c, Both(c, lo, hi))
<1>1. PICK p \in Nat, k \in Nat, a \in Nat, b \in Nat, m \in Nat, l \in Nat, h \in Nat, d \in Nat, g \in Nat, v \in Nat :
        /\ p = c.node_pool /\ k = c.nthreads /\ a = k \div 2 /\ b = hi_threads(k)
        /\ m = c.nlines /\ l = Nlo(c) /\ h = m - l /\ d = c.dest /\ g = c.total /\ v = c.level
        /\ a >= 1 /\ b >= 1 /\ a + b = k /\ k > 1 /\ h - l \in {0, 1}
  <2>1. /\ c.node_pool \in Nat /\ c.nthreads \in Nat /\ c.nthreads \div 2 \in Nat /\ hi_threads(c.nthreads) \in Nat
        /\ c.nlines \in Nat /\ Nlo(c) \in Nat /\ c.nlines - Nlo(c) \in Nat /\ c.dest \in Nat /\ c.total \in Nat /\ c.level \in Nat
        /\ c.nthreads \div 2 >= 1 /\ hi_threads(c.nthreads) >= 1 /\ c.nthreads \div 2 + hi_threads(c.nthreads) = c.nthreads
        /\ c.nlines - Nlo(c) - Nlo(c) \in {0, 1}
    BY ArgumentsIs
  <2> QED BY <2>1
<1>2. PICK q : q = lo.pool
  OBVIOUS
<1>3. PICK ca : ca = LoArguments(c)
  OBVIOUS
<1>4. PICK cb : cb = HiArguments(c, q)
  OBVIOUS
<1>5. /\ ca.parent = p /\ ca.node_pool = p + 1 /\ ca.dest = d + g /\ ca.nthreads = a /\ ca.total = g /\ ca.nlines = l
      /\ ca.level = v + 1
  BY <1>1, <1>3 DEF LoArguments
<1>6. /\ cb.parent = p /\ cb.node_pool = q /\ cb.dest = d + g + l /\ cb.nthreads = b /\ cb.total = g /\ cb.nlines = h
      /\ cb.level = v + 1
  BY <1>1, <1>4 DEF HiArguments
<1>7. Subtree(ca, lo) /\ Subtree(cb, hi)
  BY <1>2, <1>3, <1>4
<1>8. q \in Nat /\ q = p + 2 * a
  <2>1. lo.pool \in Nat /\ lo.pool = ca.node_pool + 2 * ca.nthreads - 1
    BY <1>7 DEF Subtree
  <2> QED BY <1>1, <1>2, <1>5, <2>1
<1>9. PICK r \in Nat : r = hi.pool /\ r = q + 2 * b - 1
  <2>1. hi.pool \in Nat /\ hi.pool = cb.node_pool + 2 * cb.nthreads - 1
    BY <1>7 DEF Subtree
  <2> QED BY <1>6, <2>1
<1> DEFINE A == (p + 1)..(q - 1)
           B == q..(r - 1)
           D == p..(r - 1)
<1>10. PICK ta : ta = lo.nodes
  OBVIOUS
<1>11. PICK tb : tb = hi.nodes
  OBVIOUS
<1>12. /\ ta \in [A -> Node] /\ First(ca, ta[p + 1])
       /\ \A n \in A : Fine(ta, A, n, g, l)
       /\ \A n \in A \ {p + 1} : HasParent(ta, A, n)
  <2>1. ca.node_pool..(lo.pool - 1) = A
    BY <1>2, <1>5
  <2> HIDE DEF A
  <2> QED BY <1>5, <1>7, <1>10, <2>1, Zenon DEF Subtree
<1>13. /\ tb \in [B -> Node] /\ First(cb, tb[q])
       /\ \A n \in B : Fine(tb, B, n, g, h)
       /\ \A n \in B \ {q} : HasParent(tb, B, n)
  <2>1. cb.node_pool..(hi.pool - 1) = B
    BY <1>6, <1>9
  <2> HIDE DEF B
  <2> QED BY <1>6, <1>7, <1>11, <2>1, Zenon DEF Subtree
<1>14. PICK me \in [{p} -> Node] : me = Me(c, p + 1, q)
  <2>1. p + 1 \in Nat \cup {NoNode} /\ q \in Nat \cup {NoNode}
    BY <1>8
  <2> QED BY <1>1, <2>1, MeType
<1>15. PICK t : t = Joined(me, Joined(ta, tb))
  OBVIOUS
<1>16. Both(c, lo, hi) = [nodes |-> t, pool |-> r]
  BY <1>1, <1>2, <1>9, <1>10, <1>11, <1>14, <1>15, Zenon DEF Both
<1>17. D = {p} \cup (A \cup B) /\ p \notin A /\ p \notin B /\ (\A n \in B : n \notin A) /\ p + 1 \in A /\ q \in B /\ p \in D
  BY <1>1, <1>8, <1>9
<1> HIDE DEF A, B, D
<1>18. /\ t \in [D -> Node] /\ t[p] = me[p]
       /\ \A n \in A : t[n] = ta[n]
       /\ \A n \in B : t[n] = tb[n]
  <2>1. me \in [{p} -> Node] /\ ta \in [A -> Node] /\ tb \in [B -> Node]
    BY <1>12, <1>13, <1>14, Zenon
  <2>2. JoinsThree(Node, p, A, B, me, ta, tb, t)
    BY <1>15, <1>17, <2>1, JoinedThree, Zenon
  <2> QED BY <1>17, <2>2, Zenon DEF JoinsThree
<1>19. /\ t[p].parent = c.parent /\ t[p].level = v /\ t[p].lo = d + g /\ t[p].hi = d + g + l /\ t[p].nlo = l /\ t[p].nhi = h
       /\ t[p].lo_child = p + 1 /\ t[p].hi_child = q /\ t[p].nthreads = k
  BY <1>1, <1>14, <1>18 DEF Me
<1>20. First(c, t[p])
  BY <1>1, <1>19 DEF First
<1>21. /\ t[p + 1].parent = p /\ t[p + 1].level = v + 1 /\ t[p + 1].lo = d + g + g /\ t[p + 1].nthreads = a
       /\ t[p + 1].nlo + t[p + 1].nhi = l
  <2>1. t[p + 1] = ta[p + 1]
    BY <1>17, <1>18
  <2>2. ta[p + 1].nlo = Nlo(ca) /\ ta[p + 1].nhi = l - Nlo(ca)
    BY <1>5, <1>12 DEF First
  <2>3. Nlo(ca) \in Nat /\ l - Nlo(ca) \in Nat
    BY <1>5 DEF Nlo
  <2> QED BY <1>5, <1>12, <2>1, <2>2, <2>3 DEF First
<1>22. /\ t[q].parent = p /\ t[q].level = v + 1 /\ t[q].lo = d + g + l + g /\ t[q].nthreads = b
       /\ t[q].nlo + t[q].nhi = h
  <2>1. t[q] = tb[q]
    BY <1>17, <1>18
  <2>2. tb[q].nlo = Nlo(cb) /\ tb[q].nhi = h - Nlo(cb)
    BY <1>6, <1>13 DEF First
  <2>3. Nlo(cb) \in Nat /\ h - Nlo(cb) \in Nat
    BY <1>6 DEF Nlo
  <2> QED BY <1>6, <1>13, <2>1, <2>2, <2>3 DEF First
<1>23. p < p + 1 /\ p < q /\ p + 1 # q
  BY <1>1, <1>8
<1>24. Fine(t, D, p, g, m)
  <2>1. Halved(t, p, m)
    BY <1>1, <1>19 DEF Halved
  <2>2. ChildOf(t, D, p, p + 1, l, d + g + g, a)
    BY <1>17, <1>19, <1>21, <1>23 DEF ChildOf
  <2>3. ChildOf(t, D, p, q, h, d + g + l + g, b)
    BY <1>17, <1>19, <1>22, <1>23 DEF ChildOf
  <2>4. Children(t, D, p, g)
    BY <1>1, <1>19, <1>23, <2>2, <2>3, Zenon DEF Children
  <2> QED BY <2>1, <2>4 DEF Fine
<1>25. l <= m /\ h <= m
  BY <1>1
<1>26. ASSUME NEW n \in D PROVE Fine(t, D, n, g, m)
  <2>1. CASE n \in A
    <3>1. A \subseteq D /\ ta[n] \in Node
      BY <1>12, <1>17, <2>1
    <3> QED BY <1>12, <1>18, <1>25, <2>1, <3>1, FineStays
  <2>2. CASE n \in B
    <3>1. B \subseteq D /\ tb[n] \in Node
      BY <1>13, <1>17, <2>2
    <3> QED BY <1>13, <1>18, <1>25, <2>2, <3>1, FineStays
  <2> QED BY <1>17, <1>24, <2>1, <2>2
<1>27. ASSUME NEW n \in D \ {p} PROVE HasParent(t, D, n)
  <2>1. CASE n = p + 1
    BY <1>1, <1>17, <1>19, <1>21, <1>23, <2>1 DEF HasParent
  <2>2. CASE n = q
    BY <1>1, <1>17, <1>19, <1>22, <1>23, <2>2 DEF HasParent
  <2>3. CASE n \in A \ {p + 1}
    <3>1. A \subseteq D /\ HasParent(ta, A, n)
      BY <1>12, <1>17, <2>3
    <3> QED BY <1>18, <2>3, <3>1, HasParentStays
  <2>4. CASE n \in B \ {q}
    <3>1. B \subseteq D /\ HasParent(tb, B, n)
      BY <1>13, <1>17, <2>4
    <3> QED BY <1>18, <2>4, <3>1, HasParentStays
  <2> QED BY <1>17, <2>1, <2>2, <2>3, <2>4
<1>28. r = p + 2 * k - 1
  BY <1>1, <1>8, <1>9
<1>29. PICK s : s = Both(c, lo, hi)
  OBVIOUS
<1>30. s.nodes = t /\ s.pool = r
  BY <1>16, <1>29
<1>31. p..(s.pool - 1) = D
  BY <1>30 DEF D
<1> QED BY <1>1, <1>18, <1>20, <1>26, <1>27, <1>28, <1>29, <1>30, <1>31, Zenon DEF Subtree

\* For any number of threads, by the number of threads.
LEMMA init_nodeBuilds ==
  ASSUME NEW c \in Arguments, c.nthreads >= 1
  PROVE  Subtree(c, init_node[c])
<1> DEFINE T == {k \in Nat : \E e \in Arguments : e.nthreads = k /\ k >= 1 /\ ~ Subtree(e, init_node[e])}
<1>1. ASSUME ~ Subtree(c, init_node[c]) PROVE FALSE
  <2>1. c.nthreads \in T /\ T \in SUBSET Nat
    BY <1>1, ArgumentsIs
  <2> HIDE DEF T
  <2>2. PICK k \in T : \A j \in T : k <= j
    BY <2>1, Least
  <2>3. PICK e \in Arguments : e.nthreads = k /\ k \in Nat /\ k >= 1 /\ ~ Subtree(e, init_node[e])
    BY DEF T
  <2>4. ASSUME NEW x \in Arguments, x.nthreads < k, x.nthreads >= 1 PROVE Subtree(x, init_node[x])
    <3>1. x.nthreads \in Nat
      BY ArgumentsIs
    <3>2. x.nthreads \notin T
      BY <2>2, <2>3, <2>4, <3>1
    <3> QED BY <2>4, <3>1, <3>2 DEF T
  <2>5. init_node[e] = Build(e, init_node)
    BY init_nodeIs DEF Builds
  <2>6. CASE k = 1
    <3>1. Build(e, init_node) = Leaf(e)
      BY <2>3, <2>6 DEF Build
    <3> QED BY <2>3, <2>5, <2>6, <3>1, LeafSubtree
  <2>7. CASE k > 1
    <3>1. PICK a : a = LoArguments(e)
      OBVIOUS
    <3>2. a \in Arguments /\ a.nthreads < k /\ a.nthreads >= 1
      <4>1. a.nthreads = e.nthreads \div 2
        BY <3>1 DEF LoArguments
      <4> QED BY <2>3, <2>7, <3>1, <4>1, CallsTyped, ArgumentsIs
    <3>3. PICK lo : lo = init_node[a]
      OBVIOUS
    <3>4. Subtree(a, lo)
      BY <2>4, <3>2, <3>3
    <3>5. lo.pool \in Nat
      BY <3>4 DEF Subtree
    <3>6. PICK b : b = HiArguments(e, lo.pool)
      OBVIOUS
    <3>7. b \in Arguments /\ b.nthreads < k /\ b.nthreads >= 1
      <4>1. b.nthreads = hi_threads(e.nthreads)
        BY <3>6 DEF HiArguments
      <4> QED BY <2>3, <2>7, <3>5, <3>6, <4>1, CallsTyped, ArgumentsIs
    <3>8. PICK hi : hi = init_node[b]
      OBVIOUS
    <3>9. Subtree(b, hi)
      BY <2>4, <3>7, <3>8
    <3>10. Build(e, init_node) = Both(e, lo, hi)
      BY <2>3, <2>7, <3>1, <3>3, <3>6, <3>8, Zenon DEF Build
    <3>11. Subtree(e, Both(e, lo, hi))
      BY <2>3, <2>7, <3>1, <3>4, <3>6, <3>9, BothSubtree
    <3> QED BY <2>3, <2>5, <3>10, <3>11
  <2> QED BY <2>3, <2>6, <2>7
<1> QED BY <1>1
-----------------------------------------------------------------------------
(* The tree of merge_tree_init *)

RootArguments(N, M) ==
  [parent |-> EndNode, node_pool |-> RootNode, dest |-> 0, nthreads |-> N, total |-> M, nlines |-> M,
   level |-> MERGE_ROOT]
Ending(N, M) ==
  [n \in {EndNode} |->
     [parent |-> NoNode, level |-> MERGE_END, lo |-> 0, hi |-> 0, nlo |-> M, nhi |-> M,
      lo_child |-> NoNode, hi_child |-> NoNode, nthreads |-> N]]

TreeShape(t, N, M, D) ==
  /\ t \in [{EndNode} \cup D -> Node]
  /\ t[EndNode].level = MERGE_END
  /\ t[RootNode].parent = EndNode /\ t[RootNode].level = MERGE_ROOT /\ t[RootNode].lo = M
  /\ t[RootNode].nthreads = N /\ t[RootNode].nlo + t[RootNode].nhi = M
  /\ \A n \in D : Fine(t, D, n, M, M)
  /\ \A n \in D \ {RootNode} : HasParent(t, D, n)

\* merge_tree_init puts the end before the subtree of all threads.
LEMMA TreeBuilt ==
  ASSUME NEW N \in Nat \ {0}, NEW M \in Nat
  PROVE  TreeShape(merge_tree_init(N, M), N, M, 1..(2 * N - 1))
<1>1. PICK c : c = RootArguments(N, M)
  OBVIOUS
<1>2. c \in Arguments /\ c.parent = 0 /\ c.node_pool = 1 /\ c.dest = 0 /\ c.nthreads = N /\ c.total = M /\ c.nlines = M /\ c.level = 1
  BY <1>1 DEF RootArguments, Arguments, EndNode, RootNode, MERGE_ROOT
<1>3. PICK r : r = init_node[c]
  OBVIOUS
<1>4. Subtree(c, r)
  BY <1>2, <1>3, init_nodeBuilds
<1> DEFINE D == 1..(2 * N - 1)
<1>5. c.node_pool..(r.pool - 1) = D
  <2>1. r.pool \in Nat /\ r.pool = c.node_pool + 2 * c.nthreads - 1
    BY <1>4 DEF Subtree
  <2> QED BY <1>2, <2>1
<1>6. 0 \notin D /\ 1 \in D
  OBVIOUS
<1> HIDE DEF D
<1>7. PICK u : u = r.nodes
  OBVIOUS
<1>8. /\ u \in [D -> Node] /\ First(c, u[1])
      /\ \A n \in D : Fine(u, D, n, M, M)
      /\ \A n \in D \ {1} : HasParent(u, D, n)
  BY <1>2, <1>4, <1>5, <1>7, Zenon DEF Subtree
<1>9. PICK e \in [{0} -> Node] : e = Ending(N, M) /\ e[0].level = 0
  <2>1. PICK x : x = [parent |-> -1, level |-> 0, lo |-> 0, hi |-> 0, nlo |-> M, nhi |-> M,
                      lo_child |-> -1, hi_child |-> -1, nthreads |-> N]
    OBVIOUS
  <2>2. x \in Node /\ x.level = 0
    BY <2>1 DEF Node, NoNode
  <2>3. Ending(N, M) = [n \in {0} |-> x]
    BY <2>1, Zenon DEF Ending, EndNode, NoNode, MERGE_END
  <2> QED BY <2>2, <2>3
<1>10. PICK t : t = Joined(e, u)
  OBVIOUS
<1>11. t = merge_tree_init(N, M)
  BY <1>1, <1>3, <1>7, <1>9, <1>10, Zenon DEF merge_tree_init, Ending, RootArguments
<1>12. t \in [{0} \cup D -> Node] /\ t[0] = e[0] /\ \A n \in D : t[n] = u[n]
  BY <1>6, <1>8, <1>10 DEF Joined
<1>13. t[1].parent = 0 /\ t[1].level = 1 /\ t[1].lo = M /\ t[1].nthreads = N /\ t[1].nlo + t[1].nhi = M
  <2>1. t[1] = u[1]
    BY <1>6, <1>12
  <2>2. /\ u[1].parent = 0 /\ u[1].level = 1 /\ u[1].lo = 0 + M /\ u[1].nthreads = N
        /\ u[1].nlo = Nlo(c) /\ u[1].nhi = M - Nlo(c)
    BY <1>2, <1>8 DEF First
  <2>3. Nlo(c) \in Nat
    BY <1>2, ArgumentsIs
  <2> QED BY <2>1, <2>2, <2>3
<1>14. ASSUME NEW n \in D PROVE Fine(t, D, n, M, M)
  <2>1. u[n] \in Node /\ M <= M
    BY <1>8
  <2> QED BY <1>8, <1>12, <2>1, FineStays
<1>15. ASSUME NEW n \in D \ {1} PROVE HasParent(t, D, n)
  BY <1>8, <1>12, HasParentStays
<1>16. TreeShape(t, N, M, D)
  BY <1>9, <1>12, <1>13, <1>14, <1>15 DEF TreeShape, EndNode, RootNode, MERGE_END, MERGE_ROOT
<1> QED BY <1>11, <1>16 DEF D

\* A node at its level and offset, with room for the levels below it.
Placed(x, M, room) ==
  \E o \in Nat : /\ x.lo = M * x.level + o /\ o + x.nlo + x.nhi <= M
                 /\ 1 <= x.level /\ x.level <= room
                 /\ x.nthreads > 1 => x.level + 1 <= room
Threads(x, N, f) ==
  \E s \in Nat \ {0} : (x.nthreads - 1) * s < N /\ f[1] = x.level - 1 + f[s]
Numbered(x, M, N, f) ==
  /\ \E o \in Nat : x.lo = M * x.level + o /\ o + x.nlo + x.nhi <= M
  /\ 1 <= x.level
  /\ Threads(x, N, f)

HalfEnough(N, f, j, s) == s * 2 \in Nat \ {0} /\ (j - 1) * (s * 2) < N /\ f[s] = 1 + f[s * 2]

\* With twice the threads counted, a child needs half of them or less.
LEMMA ThreadsHalve ==
  ASSUME NEW N \in Nat, NEW f \in [Nat \ {0} -> Nat], Doubles(N, f),
         NEW k \in Nat, k > 1, NEW j \in Nat, j >= 1, 2 * (j - 1) <= k - 1,
         NEW s \in Nat \ {0}, (k - 1) * s < N
  PROVE  HalfEnough(N, f, j, s)
<1>1. PICK i \in Nat, l \in Nat : i = j - 1 /\ l = k - 1 /\ 2 * i <= l /\ l >= 1
  <2>1. j - 1 \in Nat /\ k - 1 \in Nat /\ k - 1 >= 1
    OBVIOUS
  <2> QED BY <2>1
<1>2. l * s < N
  BY <1>1
<1>3. s <= l * s
  <2>1. PICK m \in Nat : l = m + 1
    <3>1. l - 1 \in Nat /\ l = (l - 1) + 1
      BY <1>1
    <3> QED BY <3>1
  <2>2. l * s = m * s + s /\ m * s \in Nat
    BY <2>1
  <2> QED BY <2>2
<1>4. i * (s * 2) <= l * s
  <2>1. PICK m \in Nat : l = 2 * i + m
    <3>1. l - 2 * i \in Nat /\ l = 2 * i + (l - 2 * i)
      BY <1>1
    <3> QED BY <3>1
  <2>2. l * s = i * (s * 2) + m * s /\ m * s \in Nat /\ i * (s * 2) \in Nat
    BY <2>1
  <2> QED BY <2>2
<1>5. s < N /\ i * (s * 2) < N
  <2>1. l * s \in Nat /\ i * (s * 2) \in Nat
    OBVIOUS
  <2> QED BY <1>2, <1>3, <1>4, <2>1
<1>6. f[s] = 1 + f[s * 2]
  BY <1>5 DEF Doubles
<1> QED BY <1>1, <1>5, <1>6 DEF HalfEnough

\* What is counted at a node is so at its children.
LEMMA ChildNumbered ==
  ASSUME NEW N \in Nat, NEW M \in Nat, NEW f \in [Nat \ {0} -> Nat], Doubles(N, f),
         NEW x \in Node, NEW y \in Node, x.nthreads > 1, Numbered(x, M, N, f),
         NEW part \in {x.nlo, x.nhi}, NEW d \in Nat, d + part <= x.nlo + x.nhi,
         y.nlo + y.nhi = part, y.lo = x.lo + d + M, y.level = x.level + 1,
         y.nthreads \in {x.nthreads \div 2, hi_threads(x.nthreads)}
  PROVE  Numbered(y, M, N, f)
<1>1. PICK v \in Nat, w \in Nat, k \in Nat, j \in Nat, a \in Nat, b \in Nat, p \in Nat, q \in Nat :
        v = x.level /\ w = y.level /\ k = x.nthreads /\ j = y.nthreads /\ a = x.lo /\ b = y.lo
        /\ p = x.nlo + x.nhi /\ q = y.nlo + y.nhi
  <2>1. /\ x.level \in Nat /\ y.level \in Nat /\ x.nthreads \in Nat /\ y.nthreads \in Nat /\ x.lo \in Nat /\ y.lo \in Nat
        /\ x.nlo \in Nat /\ x.nhi \in Nat /\ y.nlo \in Nat /\ y.nhi \in Nat
    BY DEF Node
  <2>2. x.nlo + x.nhi \in Nat /\ y.nlo + y.nhi \in Nat
    BY <2>1
  <2> QED BY <2>1, <2>2
<1>2. PICK o \in Nat : a = M * v + o /\ o + p <= M
  <2>1. PICK o \in Nat : x.lo = M * x.level + o /\ o + x.nlo + x.nhi <= M
    BY DEF Numbered
  <2>2. x.nlo \in Nat /\ x.nhi \in Nat
    BY DEF Node
  <2> QED BY <1>1, <2>1, <2>2
<1>3. PICK s \in Nat \ {0} : (k - 1) * s < N /\ f[1] = v - 1 + f[s]
  BY <1>1 DEF Numbered, Threads
<1>4. w = v + 1 /\ 1 <= v /\ k > 1 /\ b = a + d + M /\ d + q <= p
  BY <1>1 DEF Numbered
<1>5. j >= 1 /\ 2 * (j - 1) <= k - 1
  <2>1. j = k \div 2 \/ j = k - k \div 2
    BY <1>1 DEF hi_threads
  <2> QED BY <1>4, <2>1
<1>6. b = M * w + (o + d) /\ o + d \in Nat /\ (o + d) + q <= M
  <2>1. M * w = M * v + M
    BY <1>4
  <2>2. PICK z \in Nat : z = M * v
    OBVIOUS
  <2> QED BY <1>2, <1>4, <2>1, <2>2
<1>7. \E c \in Nat : y.lo = M * y.level + c /\ c + y.nlo + y.nhi <= M
  <2>1. PICK c \in Nat : b = M * w + c /\ c + q <= M
    BY <1>6
  <2>2. y.nlo \in Nat /\ y.nhi \in Nat
    BY DEF Node
  <2> QED BY <1>1, <2>1, <2>2
<1>8. s * 2 \in Nat \ {0} /\ (j - 1) * (s * 2) < N /\ f[s] = 1 + f[s * 2]
  <2>1. HalfEnough(N, f, j, s)
    BY <1>3, <1>4, <1>5, ThreadsHalve, Zenon
  <2> QED BY <2>1 DEF HalfEnough
<1>9. f[1] = w - 1 + f[s * 2]
  <2>1. f[s * 2] \in Nat /\ f[s] \in Nat /\ f[1] \in Nat
    BY <1>8
  <2> QED BY <1>3, <1>4, <1>8, <2>1
<1>10. Threads(y, N, f)
  BY <1>1, <1>8, <1>9 DEF Threads
<1> QED BY <1>1, <1>4, <1>7, <1>10 DEF Numbered

\* So it is at all nodes: the least node where it is not would have a parent where it is not.
LEMMA AllNumbered ==
  ASSUME NEW N \in Nat \ {0}, NEW M \in Nat, NEW D, D \subseteq Nat \ {0}, RootNode \in D,
         NEW t, TreeShape(t, N, M, D), NEW f \in [Nat \ {0} -> Nat], Doubles(N, f)
  PROVE  \A n \in D : Numbered(t[n], M, N, f)
<1> DEFINE T == {n \in D : ~ Numbered(t[n], M, N, f)}
<1>0. \A n \in D : t[n] \in Node
  BY DEF TreeShape
<1>1. Numbered(t[RootNode], M, N, f)
  <2>1. PICK x \in Node : x = t[RootNode]
    BY <1>0
  <2>2. x.level = 1 /\ x.lo = M /\ x.nthreads = N /\ x.nlo + x.nhi = M
    BY <2>1 DEF TreeShape, MERGE_ROOT
  <2>3. x.lo = M * x.level + 0 /\ 0 + x.nlo + x.nhi <= M
    <3>1. x.nlo \in Nat /\ x.nhi \in Nat
      BY DEF Node
    <3> QED BY <2>2, <3>1
  <2>4. Threads(x, N, f)
    <3>1. (N - 1) * 1 < N /\ 1 \in Nat \ {0} /\ f[1] \in Nat
      OBVIOUS
    <3>2. f[1] = 1 - 1 + f[1]
      BY <3>1
    <3> QED BY <2>2, <3>1, <3>2 DEF Threads
  <2> QED BY <2>1, <2>2, <2>3, <2>4 DEF Numbered
<1>2. ASSUME T # {} PROVE FALSE
  <2>1. T \in SUBSET Nat
    OBVIOUS
  <2> HIDE DEF T
  <2>2. PICK n \in T : \A m \in T : n <= m
    BY <1>2, <2>1, Least
  <2>3. n \in D /\ ~ Numbered(t[n], M, N, f)
    BY DEF T
  <2>4. n \in D \ {RootNode} /\ n \in Nat
    BY <1>1, <2>3
  <2>5. HasParent(t, D, n)
    BY <2>4 DEF TreeShape
  <2>6. PICK p \in D : /\ t[n].parent = p /\ p < n /\ t[p].nthreads > 1 /\ t[n].level = t[p].level + 1
                       /\ n = t[p].lo_child \/ n = t[p].hi_child
    BY <2>5 DEF HasParent
  <2>7. p \notin T
    <3>1. p \in Nat /\ p < n
      BY <2>6
    <3> QED BY <2>2, <2>4, <3>1
  <2>8. Numbered(t[p], M, N, f)
    BY <2>7 DEF T
  <2>9. Halved(t, p, M) /\ Children(t, D, p, M)
    BY <2>6 DEF TreeShape, Fine
  <2>10. PICK x \in Node : x = t[p]
    BY <1>0
  <2>11. PICK y \in Node : y = t[n]
    BY <1>0, <2>3
  <2>12. x.nlo \in Nat /\ x.nhi \in Nat /\ x.lo \in Nat /\ x.hi = x.lo + x.nlo
    BY <2>9, <2>10 DEF Halved, Node
  <2>13. CASE n = t[p].lo_child
    <3>1. ChildOf(t, D, p, n, x.nlo, x.lo + M, x.nthreads \div 2)
      BY <2>9, <2>10, <2>13 DEF Children
    <3>2. y.nlo + y.nhi = x.nlo /\ y.lo = x.lo + M /\ y.nthreads = x.nthreads \div 2
      BY <2>11, <3>1 DEF ChildOf
    <3>3. y.lo = x.lo + 0 + M /\ 0 + x.nlo <= x.nlo + x.nhi
      BY <2>12, <3>2
    <3>4. x.nthreads > 1 /\ y.level = x.level + 1 /\ Numbered(x, M, N, f)
      BY <2>6, <2>8, <2>10, <2>11
    <3>5. Numbered(y, M, N, f)
      BY <3>2, <3>3, <3>4, ChildNumbered
    <3> QED BY <2>3, <2>11, <3>5
  <2>14. CASE n = t[p].hi_child
    <3>1. ChildOf(t, D, p, n, x.nhi, x.hi + M, hi_threads(x.nthreads))
      BY <2>9, <2>10, <2>14 DEF Children
    <3>2. y.nlo + y.nhi = x.nhi /\ y.lo = x.lo + x.nlo + M /\ y.nthreads = hi_threads(x.nthreads)
      BY <2>11, <2>12, <3>1 DEF ChildOf
    <3>3. x.nlo + x.nhi <= x.nlo + x.nhi
      BY <2>12
    <3>4. x.nthreads > 1 /\ y.level = x.level + 1 /\ Numbered(x, M, N, f)
      BY <2>6, <2>8, <2>10, <2>11
    <3>5. Numbered(y, M, N, f)
      BY <2>12, <3>2, <3>3, <3>4, ChildNumbered
    <3> QED BY <2>3, <2>11, <3>5
  <2> QED BY <2>6, <2>13, <2>14
<1> QED BY <1>2

\* How deep the table is: a region more than the level of a node that merges into it.
LEMMA AllPlaced ==
  ASSUME NEW N \in Nat \ {0}, NEW M \in Nat, NEW D, D \subseteq Nat \ {0}, RootNode \in D,
         NEW t, TreeShape(t, N, M, D)
  PROVE  /\ mult(N) \in Nat
         /\ N > 1 => mult(N) >= 2
         /\ \A n \in D : Placed(t[n], M, mult(N))
<1>1. PICK f \in [Nat \ {0} -> Nat] : Doubles(N, f) /\ mult(N) = f[1]
  BY multIs
<1>2. N > 1 => f[1] = 1 + f[2]
  <2>1. f[1] = IF 1 < N THEN 1 + f[1 * 2] ELSE 1
    BY <1>1 DEF Doubles
  <2> QED BY <2>1
<1>3. \A s \in Nat \ {0} : f[s] \in Nat /\ f[s] >= 1 /\ (s < N => f[s] >= 2)
  <2>1. ASSUME NEW s \in Nat \ {0} PROVE f[s] \in Nat /\ f[s] >= 1
    <3>1. f[s] = (IF s < N THEN 1 + f[s * 2] ELSE 1) /\ s * 2 \in Nat \ {0}
      BY <1>1 DEF Doubles
    <3>2. f[s] \in Nat /\ f[s * 2] \in Nat
      BY <3>1
    <3> QED BY <3>1, <3>2
  <2>2. ASSUME NEW s \in Nat \ {0}, s < N PROVE f[s] >= 2
    <3>1. f[s] = (IF s < N THEN 1 + f[s * 2] ELSE 1) /\ s * 2 \in Nat \ {0}
      BY <1>1 DEF Doubles
    <3>2. f[s * 2] \in Nat /\ f[s * 2] >= 1
      BY <2>1, <3>1
    <3> QED BY <2>2, <3>1, <3>2
  <2> QED BY <2>1, <2>2
<1>4. ASSUME NEW n \in D PROVE Placed(t[n], M, f[1])
  <2>1. Numbered(t[n], M, N, f)
    BY <1>1, AllNumbered
  <2>2. PICK x \in Node : x = t[n]
    BY DEF TreeShape
  <2>3. PICK s \in Nat \ {0} : (x.nthreads - 1) * s < N /\ f[1] = x.level - 1 + f[s]
    BY <2>1, <2>2 DEF Numbered, Threads
  <2>4. PICK v \in Nat, k \in Nat : v = x.level /\ k = x.nthreads
    BY DEF Node
  <2>5. k > 1 => s < N
    <3>1. ASSUME k > 1 PROVE s < N
      <4>1. PICK l \in Nat : k = l + 2
        <5>1. k - 2 \in Nat /\ k = (k - 2) + 2
          BY <3>1
        <5> QED BY <5>1
      <4>2. (k - 1) * s = l * s + s /\ l * s \in Nat
        BY <4>1
      <4> QED BY <2>3, <2>4, <4>2
    <3> QED BY <3>1
  <2>6. f[1] = v - 1 + f[s] /\ f[s] \in Nat /\ f[s] >= 1 /\ (k > 1 => f[s] >= 2)
    BY <1>3, <2>3, <2>4, <2>5
  <2>7. v <= f[1] /\ (k > 1 => v + 1 <= f[1])
    BY <2>6
  <2>8. \E o \in Nat : x.lo = M * x.level + o /\ o + x.nlo + x.nhi <= M
    BY <2>1, <2>2 DEF Numbered
  <2>9. 1 <= x.level
    BY <2>1, <2>2 DEF Numbered
  <2> QED BY <2>2, <2>4, <2>7, <2>8, <2>9 DEF Placed
<1>5. f[1] \in Nat /\ (N > 1 => f[1] >= 2)
  BY <1>3
<1> QED BY <1>1, <1>4, <1>5
-----------------------------------------------------------------------------
(* The links, the numbers and the places of the tree *)

\* All nodes but the end are regular.
LEMMA Regular ==
  ASSUME NEW N \in Nat, NEW M \in Nat, NEW D, D \subseteq Nat \ {0}, NEW t, TreeShape(t, N, M, D)
  PROVE  DOMAIN t = {EndNode} \cup D /\ DOMAIN t \ {EndNode} = D /\ \A n \in {EndNode} \cup D : t[n] \in Node
<1>1. t \in [{EndNode} \cup D -> Node] /\ EndNode \notin D
  BY DEF TreeShape, EndNode
<1> QED BY <1>1

\* Parents, children and levels agree.
LEMMA TreeLinked ==
  ASSUME NEW N \in Nat \ {0}, NEW M \in Nat, NEW D, D \subseteq Nat \ {0}, RootNode \in D,
         NEW t, TreeShape(t, N, M, D)
  PROVE  WellLinked(t)
<1>1. DOMAIN t = {EndNode} \cup D /\ DOMAIN t \ {EndNode} = D /\ \A n \in {EndNode} \cup D : t[n] \in Node
  BY Regular
<1>2. EndNode \in Nat /\ EndNode \notin D /\ DOMAIN t \subseteq Nat
  BY <1>1 DEF EndNode
<1>3. t[EndNode].level = MERGE_END /\ t[RootNode].level = MERGE_ROOT /\ t[RootNode].parent = EndNode
  BY DEF TreeShape
<1>4. ASSUME NEW n \in D \ {RootNode}
      PROVE  /\ t[n].parent \in D /\ t[n].level = t[t[n].parent].level + 1 /\ t[t[n].parent].nthreads > 1
             /\ n \in {t[t[n].parent].lo_child, t[t[n].parent].hi_child}
  <2>1. HasParent(t, D, n)
    BY DEF TreeShape
  <2> QED BY <2>1 DEF HasParent
<1>5. ASSUME NEW n \in D
      PROVE  /\ t[n].parent \in DOMAIN t
             /\ t[n].parent = EndNode <=> n = RootNode
             /\ t[n].level = t[t[n].parent].level + 1
  <2>1. CASE n = RootNode
    BY <1>1, <1>3, <2>1 DEF MERGE_END, MERGE_ROOT
  <2>2. CASE n # RootNode
    BY <1>1, <1>2, <1>4, <2>2
  <2> QED BY <2>1, <2>2
<1>6. ASSUME NEW n \in D, t[n].nthreads > 1
      PROVE  /\ t[n].lo_child \in D /\ t[n].hi_child \in D /\ t[n].lo_child # t[n].hi_child
             /\ t[t[n].lo_child].parent = n /\ t[t[n].hi_child].parent = n
  <2>1. Children(t, D, n, M)
    BY <1>6 DEF TreeShape, Fine
  <2> QED BY <2>1 DEF Children, ChildOf
<1>7. \A n \in DOMAIN t : t[n] \in Node
  BY <1>1
<1>8. {EndNode, RootNode} \subseteq DOMAIN t
  BY <1>1
<1>9. \A n \in D \ {RootNode} : /\ t[n].parent \in {k \in D : t[k].nthreads > 1}
                                /\ n \in {t[t[n].parent].lo_child, t[t[n].parent].hi_child}
  BY <1>4
<1>10. \A n \in {k \in D : t[k].nthreads > 1} :
         /\ {t[n].lo_child, t[n].hi_child} \subseteq D /\ t[n].lo_child # t[n].hi_child
         /\ t[t[n].lo_child].parent = n /\ t[t[n].hi_child].parent = n
  BY <1>6
<1> QED BY <1>1, <1>2, <1>3, <1>5, <1>7, <1>8, <1>9, <1>10, Zenon DEF WellLinked, Node

\* A half of a node's lines is as long as the child that sorts it.
LEMMA TreeSized ==
  ASSUME NEW N \in Nat \ {0}, NEW M \in Nat, NEW D, D \subseteq Nat \ {0}, RootNode \in D,
         NEW t, TreeShape(t, N, M, D)
  PROVE  WellSized(t, M)
<1>1. DOMAIN t \ {EndNode} = D
  BY Regular
<1>2. t[RootNode].nlo + t[RootNode].nhi = M
  BY DEF TreeShape
<1>3. \A n \in D : Halved(t, n, M) /\ (t[n].nthreads > 1 => Children(t, D, n, M))
  BY DEF TreeShape, Fine
<1>4. \A n \in D : t[n].nlo + t[n].nhi <= M /\ t[n].nhi - t[n].nlo \in {0, 1}
  BY <1>3 DEF Halved
<1>5. ASSUME NEW n \in D, t[n].nthreads > 1
      PROVE  /\ t[t[n].lo_child].nlo + t[t[n].lo_child].nhi = t[n].nlo
             /\ t[t[n].hi_child].nlo + t[t[n].hi_child].nhi = t[n].nhi
  <2>1. Children(t, D, n, M)
    BY <1>3, <1>5
  <2> QED BY <2>1 DEF Children, ChildOf
<1> QED BY <1>1, <1>2, <1>4, <1>5, Zenon DEF WellSized

\* The slots below room regions of M lines.
LEMMA RoomIs ==
  ASSUME NEW N \in Nat \ {0}, NEW M \in Nat, mult(N) \in Nat, N > 1
  PROVE  TableRoom(N, M) = mult(N) * M /\ TableRoom(N, M) \in Nat
<1>1. PICK k \in Nat : k = mult(N)
  OBVIOUS
<1>2. TableRoom(N, M) = k * M
  BY <1>1 DEF TableRoom
<1>3. k * M \in Nat
  OBVIOUS
<1> QED BY <1>1, <1>2, <1>3

\* What is below the level that a node has room for is below the room.
LEMMA LevelRoom ==
  ASSUME NEW M \in Nat, NEW v \in Nat, NEW room \in Nat, v <= room
  PROVE  M * v <= room * M
<1>1. PICK d \in Nat : room = v + d
  <2>1. room - v \in Nat /\ room = v + (room - v)
    OBVIOUS
  <2> QED BY <2>1
<1>2. room * M = M * v + d * M /\ d * M \in Nat /\ M * v \in Nat
  BY <1>1
<1> QED BY <1>2

\* A child has its lines one region after the half that it merges to, and there is room for them.
LEMMA TreePlaced ==
  ASSUME NEW N \in Nat \ {0}, NEW M \in Nat, NEW D, D \subseteq Nat \ {0}, RootNode \in D, N = 1 => D = {RootNode},
         NEW t, TreeShape(t, N, M, D)
  PROVE  WellPlaced(t, M, TableRoom(N, M))
<1>1. DOMAIN t \ {EndNode} = D /\ \A n \in D : t[n] \in Node
  <2>1. N \in Nat
    OBVIOUS
  <2>2. DOMAIN t \ {EndNode} = D /\ \A n \in {EndNode} \cup D : t[n] \in Node
    BY <2>1, Regular, Zenon
  <2> QED BY <2>2, Zenon
<1>2. t[RootNode].lo = M
  BY DEF TreeShape
<1>3. \A n \in D : Halved(t, n, M) /\ (t[n].nthreads > 1 => Children(t, D, n, M))
  BY DEF TreeShape, Fine
<1>4. \A n \in D : t[n].hi = t[n].lo + t[n].nlo
  BY <1>3 DEF Halved
<1>5. ASSUME NEW n \in D, t[n].nthreads > 1
      PROVE  /\ t[t[n].lo_child].lo = t[n].lo + M
             /\ t[t[n].hi_child].lo = t[n].hi + M
             /\ t[n].hi + t[n].nhi <= TableRoom(N, M)
  <2>1. Children(t, D, n, M)
    BY <1>3, <1>5
  <2>2. t[t[n].lo_child].lo = t[n].lo + M /\ t[t[n].hi_child].lo = t[n].hi + M
    BY <2>1 DEF Children, ChildOf
  <2>3. N > 1
    <3>1. ASSUME ~(N > 1) PROVE FALSE
      <4>1. N = 1
        BY <3>1
      <4>2. n = RootNode /\ t[RootNode].nthreads = 1
        BY <4>1 DEF TreeShape
      <4> QED BY <1>5, <4>2
    <3> QED BY <3>1
  <2>4. mult(N) \in Nat /\ Placed(t[n], M, mult(N))
    BY AllPlaced
  <2>5. PICK x \in Node, room \in Nat : x = t[n] /\ room = mult(N)
    BY <1>1, <2>4
  <2>6. PICK o \in Nat : x.lo = M * x.level + o /\ o + x.nlo + x.nhi <= M /\ x.level + 1 <= room
    BY <1>5, <2>4, <2>5 DEF Placed
  <2>7. PICK v \in Nat, a \in Nat, b \in Nat, c \in Nat : v = x.level /\ a = x.lo /\ b = x.nlo /\ c = x.nhi
    BY DEF Node
  <2>8. M * (v + 1) <= room * M
    <3>1. x.level + 1 <= room
      BY <1>5, <2>4, <2>5 DEF Placed
    <3>2. v + 1 \in Nat /\ v + 1 <= room
      BY <2>7, <3>1
    <3> QED BY <3>2, LevelRoom
  <2>9. a + b + c <= room * M
    <3>1. M * (v + 1) = M * v + M /\ M * v \in Nat
      OBVIOUS
    <3>2. a = M * v + o /\ o + b + c <= M
      <4>1. M * x.level = M * v
        BY <2>7, Zenon
      <4>2. PICK z \in Nat : z = M * v
        BY <3>1
      <4> QED BY <2>6, <2>7, <4>1, <4>2
    <3>3. PICK z \in Nat, r \in Int : z = M * v /\ r = room * M
      BY <3>1
    <3> QED BY <2>8, <3>1, <3>2, <3>3
  <2>10. TableRoom(N, M) = room * M
    BY <2>3, <2>4, <2>5, RoomIs
  <2>11. x.hi + x.nhi <= room * M
    <3>1. x.hi = x.lo + x.nlo
      BY <1>4, <2>5
    <3> QED BY <2>7, <2>9, <3>1
  <2> QED BY <2>2, <2>5, <2>10, <2>11
<1> QED BY <1>1, <1>2, <1>4, <1>5, Zenon DEF WellPlaced

\* What init_node and merge_tree_init build, for any number of threads and of lines.
THEOREM TreeAsAssumed ==
  ASSUME NEW N \in Nat \ {0}, NEW M \in Nat
  PROVE  /\ WellLinked(merge_tree_init(N, M)) /\ WellSized(merge_tree_init(N, M), M)
         /\ WellPlaced(merge_tree_init(N, M), M, TableRoom(N, M))
         /\ DOMAIN merge_tree_init(N, M) = 0..(2 * N - 1)
<1>1. PICK D : D = 1..(2 * N - 1)
  OBVIOUS
<1>2. D \subseteq Nat \ {0} /\ RootNode \in D /\ {EndNode} \cup D = 0..(2 * N - 1) /\ (N = 1 => D = {RootNode})
  BY <1>1 DEF RootNode, EndNode
<1>3. PICK t : t = merge_tree_init(N, M)
  OBVIOUS
<1>4. TreeShape(t, N, M, D)
  BY <1>1, <1>3, TreeBuilt
<1>5. WellLinked(t) /\ WellSized(t, M) /\ WellPlaced(t, M, TableRoom(N, M))
  BY <1>2, <1>4, TreeLinked, TreeSized, TreePlaced
<1>6. DOMAIN t = 0..(2 * N - 1)
  <2>1. DOMAIN t = {EndNode} \cup D
    <3>1. N \in Nat
      OBVIOUS
    <3> QED BY <1>2, <1>4, <3>1, Regular, Zenon
  <2> QED BY <1>2, <2>1, Zenon
<1> QED BY <1>3, <1>5, <1>6
-----------------------------------------------------------------------------
(* The sorts of the lines *)

Nodes == 1..(2 * nthreads - 1)

LayoutInv ==
  /\ nthreads \in 1..MaxThreads /\ nlines \in 2..MaxLines
  /\ tree = merge_tree_init(nthreads, nlines)
  /\ calls \subseteq Nodes
  /\ UNION {Source(n) : n \in calls} = 0..(nlines - 1)
  /\ \A n, k \in calls : n # k => Source(n) \cap Source(k) = {}

\* The tree of a layout, as the lemmas about trees have it.
Shaped(N, M) ==
  /\ N \in Nat \ {0} /\ M \in Nat /\ M >= 2 /\ nthreads = N /\ nlines = M
  /\ Nodes \subseteq Nat \ {0} /\ RootNode \in Nodes /\ (N = 1 => Nodes = {RootNode})
  /\ TreeShape(tree, N, M, Nodes)
  /\ mult(N) \in Nat /\ (N > 1 => mult(N) >= 2)
  /\ \A n \in Nodes : tree[n] \in Node /\ Placed(tree[n], M, mult(N))

\* The tree of a layout has the shape of merge_tree_init's.
LEMMA LayoutShaped ==
  ASSUME nthreads \in 1..MaxThreads, nlines \in 2..MaxLines, tree = merge_tree_init(nthreads, nlines)
  PROVE  \E N, M : Shaped(N, M)
<1>1. PICK N \in Nat \ {0}, M \in Nat : N = nthreads /\ M = nlines /\ M >= 2
  BY BoundsAssumption
<1>2. PICK D : D = 1..(2 * N - 1)
  OBVIOUS
<1>3. D \subseteq Nat \ {0} /\ RootNode \in D /\ (N = 1 => D = {RootNode})
  BY <1>2 DEF RootNode
<1>4. PICK t : t = merge_tree_init(N, M)
  OBVIOUS
<1>5. TreeShape(t, N, M, D)
  BY <1>2, <1>4, TreeBuilt
<1>6. /\ mult(N) \in Nat /\ (N > 1 => mult(N) >= 2)
      /\ \A n \in D : Placed(t[n], M, mult(N))
  BY <1>3, <1>5, AllPlaced
<1>7. \A n \in D : t[n] \in Node
  BY <1>5 DEF TreeShape
<1>8. Nodes = D /\ tree = t
  BY <1>1, <1>2, <1>4 DEF Nodes
<1>9. Shaped(N, M)
  BY <1>1, <1>3, <1>5, <1>6, <1>7, <1>8 DEF Shaped
<1> QED BY <1>9

\* Where a node's sort has its lines and its scratch arrays, and where it merges to.
PartIs(n, o, w, M) ==
  /\ tree[n].lo = M * tree[n].level + o /\ w = tree[n].nlo + tree[n].nhi /\ o + w <= M
  /\ Source(n) = o..(o + w - 1)
  /\ Scratches(n) \subseteq (M + o)..(M + o + w - 1)

\* The lines of a node are a part of all of them, its scratch arrays are the same part of the next region.
LEMMA PartOf ==
  ASSUME NEW N, NEW M, Shaped(N, M), NEW n \in Nodes
  PROVE  \E o, w \in Nat : PartIs(n, o, w, M)
<1>1. M \in Nat /\ M = nlines /\ tree[n] \in Node /\ Placed(tree[n], M, mult(N))
  BY DEF Shaped
<1>2. PICK x \in Node : x = tree[n]
  BY <1>1
<1>3. PICK o \in Nat : x.lo = M * x.level + o /\ o + x.nlo + x.nhi <= M
  BY <1>1, <1>2 DEF Placed
<1>4. PICK a \in Nat, b \in Nat, v \in Nat, lo \in Nat : a = x.nlo /\ b = x.nhi /\ v = x.level /\ lo = x.lo
  BY DEF Node
<1>5. PICK z \in Nat : z = M * v
  BY <1>1
<1>6. M * x.level = z
  BY <1>4, <1>5, Zenon
<1>7. lo = z + o /\ o + (a + b) <= M /\ a + b \in Nat
  BY <1>3, <1>4, <1>6
<1>8. Source(n) = o..(o + (a + b) - 1)
  <2>1. nlines * tree[n].level = z
    BY <1>1, <1>2, <1>6, Zenon
  <2>2. Source(n) = (lo - z)..((lo - z) + a + b - 1)
    BY <1>2, <1>4, <2>1, Zenon DEF Source
  <2> QED BY <1>7, <2>2
<1>9. Scratches(n) \subseteq (M + o)..(M + o + (a + b) - 1)
  <2>1. nlines * tree[n].level = z
    BY <1>1, <1>2, <1>6, Zenon
  <2>2. Scratches(n) = {lo - z + M + i : i \in (0..(a \div 2 - 1)) \cup (a \div 2 .. a \div 2 + b \div 2 - 1)}
    BY <1>1, <1>2, <1>4, <2>1, Zenon DEF Scratches
  <2>3. ASSUME NEW i \in (0..(a \div 2 - 1)) \cup (a \div 2 .. a \div 2 + b \div 2 - 1)
        PROVE  i \in Nat /\ i <= a + b - 1
    OBVIOUS
  <2> QED BY <1>1, <1>7, <2>2, <2>3
<1>10. PICK w \in Nat : w = a + b
  BY <1>7
<1>11. tree[n].lo = M * tree[n].level + o
  BY <1>2, <1>3, Zenon
<1> QED BY <1>2, <1>4, <1>7, <1>8, <1>9, <1>10, <1>11 DEF PartIs

\* The children divide the lines of their parent.
LEMMA PartsDivide ==
  ASSUME NEW N, NEW M, Shaped(N, M), NEW n \in Nodes, tree[n].nthreads > 1
  PROVE  /\ tree[n].lo_child \in Nodes /\ tree[n].hi_child \in Nodes
         /\ Source(tree[n].lo_child) \cup Source(tree[n].hi_child) = Source(n)
         /\ Source(tree[n].lo_child) \cap Source(tree[n].hi_child) = {}
<1>1. M \in Nat /\ TreeShape(tree, N, M, Nodes) /\ \A k \in Nodes : tree[k] \in Node
  BY DEF Shaped
<1>2. Halved(tree, n, M) /\ Children(tree, Nodes, n, M)
  BY <1>1 DEF TreeShape, Fine
<1>3. PICK l \in Nodes, h \in Nodes : l = tree[n].lo_child /\ h = tree[n].hi_child
  BY <1>2 DEF Children, ChildOf
<1>4. PICK x \in Node, y \in Node, u \in Node : x = tree[n] /\ y = tree[l] /\ u = tree[h]
  BY <1>1
<1>5. /\ y.level = x.level + 1 /\ y.nlo + y.nhi = x.nlo /\ y.lo = x.lo + M
      /\ u.level = x.level + 1 /\ u.nlo + u.nhi = x.nhi /\ u.lo = x.hi + M
      /\ x.hi = x.lo + x.nlo
  BY <1>2, <1>3, <1>4 DEF Children, ChildOf, Halved
<1>6. PICK o \in Nat, w \in Nat : PartIs(n, o, w, M)
  BY PartOf
<1>7. PICK p \in Nat, i \in Nat : PartIs(l, p, i, M)
  BY PartOf
<1>8. PICK q \in Nat, j \in Nat : PartIs(h, q, j, M)
  BY PartOf
<1>9. PICK v \in Nat, a \in Nat, b \in Nat, lo \in Nat : v = x.level /\ a = x.nlo /\ b = x.nhi /\ lo = x.lo
  BY DEF Node
<1>10. PICK z \in Nat, c \in Nat : z = M * v /\ c = M * (v + 1) /\ c = z + M
  BY <1>1
<1>11. M * x.level = z /\ M * y.level = c /\ M * u.level = c
  BY <1>5, <1>9, <1>10, Zenon
<1>12. x.lo = z + o /\ y.lo = c + p /\ u.lo = c + q
  BY <1>4, <1>6, <1>7, <1>8, <1>11, Zenon DEF PartIs
<1>13. w = a + b /\ i = a /\ j = b
  BY <1>3, <1>4, <1>5, <1>6, <1>7, <1>8, <1>9 DEF PartIs
<1>14. p = o /\ q = o + a
  <2>1. c = z + M
    BY <1>10, Zenon
  <2> QED BY <1>1, <1>5, <1>9, <1>12, <2>1
<1>15. Source(n) = o..(o + w - 1) /\ Source(l) = p..(p + i - 1) /\ Source(h) = q..(q + j - 1)
  BY <1>6, <1>7, <1>8 DEF PartIs
<1>16. Source(l) \cup Source(h) = Source(n) /\ Source(l) \cap Source(h) = {}
  <2>1. p..(p + i - 1) \cup q..(q + j - 1) = o..(o + w - 1)
    BY <1>13, <1>14
  <2>2. p..(p + i - 1) \cap q..(q + j - 1) = {}
    BY <1>13, <1>14
  <2> QED BY <1>15, <2>1, <2>2
<1> QED BY <1>3, <1>16

\* The root has all lines.
LEMMA RootSorts ==
  ASSUME NEW N, NEW M, Shaped(N, M)
  PROVE  Source(RootNode) = 0..(M - 1)
<1>1. M \in Nat /\ RootNode \in Nodes /\ TreeShape(tree, N, M, Nodes) /\ tree[RootNode] \in Node
  BY DEF Shaped
<1>2. PICK o \in Nat, w \in Nat : PartIs(RootNode, o, w, M)
  BY <1>1, PartOf
<1>3. tree[RootNode].lo = M /\ tree[RootNode].level = 1 /\ tree[RootNode].nlo + tree[RootNode].nhi = M
  BY <1>1 DEF TreeShape, MERGE_ROOT
<1>4. tree[RootNode].lo = M * 1 + o /\ w = M
  BY <1>2, <1>3 DEF PartIs
<1>5. o = 0
  BY <1>1, <1>3, <1>4
<1> QED BY <1>1, <1>2, <1>4, <1>5 DEF PartIs

\* The sorts that run divide the lines among them, wherever pthread_create fails.
THEOREM LayoutHolds == Spec => []LayoutInv
<1>1. Init => LayoutInv
  <2>1. SUFFICES ASSUME Init PROVE LayoutInv
    OBVIOUS
  <2>2. nthreads \in 1..MaxThreads /\ nlines \in 2..MaxLines /\ tree = merge_tree_init(nthreads, nlines) /\ calls = {RootNode}
    BY <2>1 DEF Init
  <2>3. PICK N, M : Shaped(N, M)
    BY <2>2, LayoutShaped
  <2>4. Source(RootNode) = 0..(nlines - 1) /\ RootNode \in Nodes
    BY <2>3, RootSorts DEF Shaped
  <2>5. UNION {Source(n) : n \in calls} = 0..(nlines - 1) /\ calls \subseteq Nodes
    BY <2>2, <2>4
  <2>6. \A n, k \in calls : n # k => Source(n) \cap Source(k) = {}
    BY <2>2
  <2> QED BY <2>2, <2>5, <2>6 DEF LayoutInv
<1>2. LayoutInv /\ [Next]_vars => LayoutInv'
  <2>1. SUFFICES ASSUME LayoutInv, [Next]_vars PROVE LayoutInv'
    OBVIOUS
  <2>2. CASE UNCHANGED vars
    BY <2>1, <2>2 DEF LayoutInv, Nodes, Source, vars
  <2>3. ASSUME NEW n \in calls, Split(n) PROVE LayoutInv'
    <3>1. PICK N, M : Shaped(N, M)
      BY <2>1, LayoutShaped DEF LayoutInv
    <3>2. n \in Nodes /\ tree[n].nthreads > 1
      BY <2>1, <2>3 DEF LayoutInv, Split
    <3>3. PICK l \in Nodes, h \in Nodes :
            /\ l = tree[n].lo_child /\ h = tree[n].hi_child
            /\ Source(l) \cup Source(h) = Source(n) /\ Source(l) \cap Source(h) = {}
      BY <3>1, <3>2, PartsDivide
    <3>4. calls' = (calls \ {n}) \cup {l, h} /\ nthreads' = nthreads /\ nlines' = nlines /\ tree' = tree
      BY <2>3, <3>3 DEF Split
    <3>5. Nodes' = Nodes /\ \A k : Source(k)' = Source(k)
      BY <3>4 DEF Nodes, Source
    <3>6. calls' \subseteq Nodes'
      BY <2>1, <3>3, <3>4, <3>5 DEF LayoutInv
    <3>7. PICK S : S = [k \in Nodes |-> Source(k)]
      OBVIOUS
    <3>8. /\ \A k \in Nodes : S[k] = Source(k) /\ S[k] = Source(k)'
      BY <3>5, <3>7
    <3>9. UNION {S[k] : k \in (calls \ {n}) \cup {l, h}} = UNION {S[k] : k \in calls}
      <4>1. S[l] \cup S[h] = S[n]
        BY <3>2, <3>3, <3>8
      <4>2. n \in calls
        BY <2>3
      <4> QED BY <4>1, <4>2
    <3>10. UNION {S[k] : k \in calls} = 0..(nlines - 1)
      <4>1. {S[k] : k \in calls} = {Source(k) : k \in calls}
        BY <2>1, <3>8 DEF LayoutInv
      <4> QED BY <2>1, <4>1 DEF LayoutInv
    <3>11. (UNION {Source(k) : k \in calls} = 0..(nlines - 1))'
      <4>1. {S[k] : k \in calls'} = {Source(k)' : k \in calls'}
        BY <3>5, <3>6, <3>8
      <4>2. UNION {Source(k)' : k \in calls'} = 0..(nlines - 1)
        BY <3>4, <3>9, <3>10, <4>1
      <4> QED BY <3>4, <4>2
    <3>12. ASSUME NEW j \in calls', NEW k \in calls', j # k PROVE S[j] \cap S[k] = {}
      <4>1. \A a, b \in calls : a # b => S[a] \cap S[b] = {}
        BY <2>1, <3>8 DEF LayoutInv
      <4>2. S[l] \subseteq S[n] /\ S[h] \subseteq S[n] /\ S[l] \cap S[h] = {}
        BY <3>2, <3>3, <3>8
      <4> QED BY <2>3, <3>4, <3>12, <4>1, <4>2
    <3>13. (\A j, k \in calls : j # k => Source(j) \cap Source(k) = {})'
      BY <3>5, <3>6, <3>8, <3>12
    <3>14. (nthreads \in 1..MaxThreads /\ nlines \in 2..MaxLines /\ tree = merge_tree_init(nthreads, nlines))'
      BY <2>1, <3>4 DEF LayoutInv
    <3> QED BY <3>6, <3>11, <3>13, <3>14 DEF LayoutInv
  <2> QED BY <2>1, <2>2, <2>3 DEF Next
<1> QED BY <1>1, <1>2, PTL DEF Spec
-----------------------------------------------------------------------------
(* The slots of the table *)

\* The scratch arrays of one sort of all the lines need half as many slots again.
LEMMA OneScratch ==
  ASSUME NEW M, Shaped(1, M)
  PROVE  Scratches(RootNode) \subseteq 0..((3 * M) \div 2 - 1)
<1>1. M \in Nat /\ M = nlines /\ RootNode \in Nodes /\ TreeShape(tree, 1, M, Nodes) /\ tree[RootNode] \in Node
  BY DEF Shaped
<1>2. tree[RootNode].lo = M /\ tree[RootNode].level = 1 /\ tree[RootNode].nlo + tree[RootNode].nhi = M
  BY <1>1 DEF TreeShape, MERGE_ROOT
<1>3. PICK a \in Nat, b \in Nat : a = tree[RootNode].nlo /\ b = tree[RootNode].nhi
  BY <1>1 DEF Node
<1>4. a + b = M
  BY <1>2, <1>3
<1>5. Scratches(RootNode) =
        {M - M * 1 + M + i : i \in (0..(a \div 2 - 1)) \cup (a \div 2 .. a \div 2 + b \div 2 - 1)}
  BY <1>1, <1>2, <1>3, Zenon DEF Scratches
<1>6. ASSUME NEW i \in (0..(a \div 2 - 1)) \cup (a \div 2 .. a \div 2 + b \div 2 - 1)
      PROVE  M - M * 1 + M + i \in 0..((3 * M) \div 2 - 1)
  <2>1. i \in Nat /\ i + 1 <= a \div 2 + b \div 2
    OBVIOUS
  <2>2. M + a \div 2 + b \div 2 <= (3 * M) \div 2
    BY <1>4
  <2>3. M - M * 1 + M + i = M + i
    BY <1>1, <2>1
  <2> QED BY <1>1, <2>1, <2>2, <2>3
<1> QED BY <1>5, <1>6

\* The slots that a sort uses are in the table.
LEMMA TableHolds ==
  ASSUME NEW N, NEW M, Shaped(N, M), NEW n \in Nodes
  PROVE  Source(n) \cup Scratches(n) \cup Target(n) \subseteq 0..(TableRoom(N, M) - 1)
<1>1. /\ N \in Nat \ {0} /\ M \in Nat /\ M >= 2 /\ M = nlines /\ mult(N) \in Nat /\ TreeShape(tree, N, M, Nodes)
      /\ tree[n] \in Node /\ Placed(tree[n], M, mult(N))
  BY DEF Shaped
<1>2. PICK o \in Nat, w \in Nat : PartIs(n, o, w, M)
  BY PartOf
<1>3. PICK v \in Nat, room \in Nat : v = tree[n].level /\ room = mult(N) /\ 1 <= v /\ v <= room
  BY <1>1 DEF Placed, Node
<1>4. CASE N = 1
  <2>1. n = RootNode
    BY <1>4 DEF Shaped
  <2>2. TableRoom(N, M) = (3 * M) \div 2
    BY <1>4 DEF TableRoom
  <2>3. Scratches(n) \subseteq 0..((3 * M) \div 2 - 1)
    BY <1>4, <2>1, OneScratch
  <2>4. Source(n) \subseteq 0..((3 * M) \div 2 - 1)
    <3>1. Source(n) = 0..(M - 1)
      BY <2>1, RootSorts
    <3>2. M <= (3 * M) \div 2
      BY <1>1
    <3> QED BY <1>1, <3>1, <3>2
  <2>5. Target(n) = {}
    BY <1>1, <2>1 DEF Target, TreeShape, MERGE_ROOT
  <2> QED BY <2>2, <2>3, <2>4, <2>5
<1>5. CASE N # 1
  <2>1. N > 1 /\ room >= 2
    BY <1>1, <1>3, <1>5 DEF Shaped
  <2>2. PICK r \in Nat : r = TableRoom(N, M) /\ r = room * M
    BY <1>1, <1>3, <2>1, RoomIs
  <2>3. r >= 2 * M
    <3>1. M * 2 <= room * M
      BY <1>1, <2>1, LevelRoom
    <3> QED BY <1>1, <2>2, <3>1
  <2>4. Source(n) \subseteq 0..(r - 1)
    <3>1. Source(n) = o..(o + w - 1) /\ o + w <= M
      BY <1>2 DEF PartIs
    <3> QED BY <1>1, <2>3, <3>1
  <2>5. Scratches(n) \subseteq 0..(r - 1)
    <3>1. Scratches(n) \subseteq (M + o)..(M + o + w - 1) /\ o + w <= M
      BY <1>2 DEF PartIs
    <3>2. (M + o)..(M + o + w - 1) \subseteq 0..(r - 1)
      BY <1>1, <2>3, <3>1
    <3> QED BY <3>1, <3>2
  <2>6. Target(n) \subseteq 0..(r - 1)
    <3>1. tree[n].lo = M * v + o /\ w = tree[n].nlo + tree[n].nhi /\ o + w <= M
      BY <1>2, <1>3, Zenon DEF PartIs
    <3>2. M * v <= r /\ M <= M * v
      <4>1. M * v <= room * M
        BY <1>1, <1>3, LevelRoom
      <4>2. PICK u \in Nat : v = u + 1
        <5>1. v - 1 \in Nat /\ v = (v - 1) + 1
          BY <1>3
        <5> QED BY <5>1
      <4>3. M * v = M * u + M /\ M * u \in Nat
        BY <1>1, <4>2
      <4> QED BY <1>1, <2>2, <4>1, <4>3
    <3>3. PICK z \in Nat : z = M * v
      BY <1>1
    <3>4. PICK lo \in Nat, a \in Nat, b \in Nat : lo = tree[n].lo /\ a = tree[n].nlo /\ b = tree[n].nhi
      BY <1>1 DEF Node
    <3>5. lo = z + o /\ a + b = w /\ o + w <= M /\ z <= r /\ M <= z
      BY <3>1, <3>2, <3>3, <3>4, Zenon
    <3>6. Target(n) \subseteq (lo - M)..(lo - M + a + b - 1)
      BY <1>1, <3>4 DEF Target
    <3>7. (lo - M)..(lo - M + a + b - 1) \subseteq 0..(r - 1)
      BY <1>1, <3>5
    <3> QED BY <3>6, <3>7
  <2> QED BY <2>2, <2>4, <2>5, <2>6
<1> QED BY <1>4, <1>5

\* No scratch array is in the lines or the scratch arrays of another sort.
LEMMA SortsApart ==
  ASSUME LayoutInv
  PROVE  SortsDisjoint
<1>1. PICK N, M : Shaped(N, M)
  BY LayoutShaped DEF LayoutInv
<1>2. M \in Nat
  BY <1>1 DEF Shaped
<1>3. ASSUME NEW n \in calls, NEW k \in calls
      PROVE  /\ Scratches(n) \cap Source(k) = {}
             /\ n # k => Scratches(n) \cap Scratches(k) = {}
  <2>1. n \in Nodes /\ k \in Nodes
    BY DEF LayoutInv
  <2>2. PICK o \in Nat, w \in Nat : PartIs(n, o, w, M)
    BY <1>1, <2>1, PartOf
  <2>3. PICK p \in Nat, i \in Nat : PartIs(k, p, i, M)
    BY <1>1, <2>1, PartOf
  <2>4. /\ Source(n) = o..(o + w - 1) /\ Scratches(n) \subseteq (M + o)..(M + o + w - 1) /\ o + w <= M
        /\ Source(k) = p..(p + i - 1) /\ Scratches(k) \subseteq (M + p)..(M + p + i - 1) /\ p + i <= M
    BY <2>2, <2>3 DEF PartIs
  <2>5. Scratches(n) \cap Source(k) = {}
    <3>1. ((M + o)..(M + o + w - 1)) \cap (p..(p + i - 1)) = {}
      BY <1>2, <2>4
    <3> QED BY <2>4, <3>1
  <2>6. ASSUME n # k PROVE Scratches(n) \cap Scratches(k) = {}
    <3>1. (o..(o + w - 1)) \cap (p..(p + i - 1)) = {}
      BY <2>4, <2>6 DEF LayoutInv
    <3>2. ((M + o)..(M + o + w - 1)) \cap ((M + p)..(M + p + i - 1)) = {}
      <4>1. ASSUME NEW s \in (M + o)..(M + o + w - 1), s \in (M + p)..(M + p + i - 1) PROVE FALSE
        <5>1. s - M \in o..(o + w - 1) /\ s - M \in p..(p + i - 1)
          BY <1>2, <4>1
        <5> QED BY <3>1, <5>1
      <4> QED BY <4>1
    <3> QED BY <2>4, <3>2
  <2> QED BY <2>5, <2>6
<1> QED BY <1>3 DEF LayoutInv, SortsDisjoint

\* What the children merge to are the halves of their parent.
LEMMA ChildrenMeet ==
  ASSUME LayoutInv
  PROVE  ChildrenAdjoin
<1>1. PICK N, M : Shaped(N, M)
  BY LayoutShaped DEF LayoutInv
<1>2. N \in Nat /\ M \in Nat /\ M = nlines /\ TreeShape(tree, N, M, Nodes) /\ Nodes \subseteq Nat \ {0}
  BY <1>1 DEF Shaped
<1>3. DOMAIN tree \ {EndNode} = Nodes /\ \A n \in Nodes : tree[n] \in Node
  <2>1. DOMAIN tree \ {EndNode} = Nodes
    BY <1>2, Regular, Zenon
  <2> QED BY <1>1, <2>1 DEF Shaped
<1>4. ASSUME NEW n \in Nodes, tree[n].nthreads > 1, NEW l, l = tree[n].lo_child, NEW h, h = tree[n].hi_child
      PROVE  /\ Target(l) = tree[n].lo..(tree[n].hi - 1)
             /\ Target(h) = tree[n].hi..(tree[n].hi + tree[n].nhi - 1)
             /\ tree[l].nthreads + tree[h].nthreads = tree[n].nthreads
  <2>1. Halved(tree, n, M) /\ Children(tree, Nodes, n, M)
    BY <1>2, <1>4 DEF TreeShape, Fine
  <2>2. l \in Nodes /\ h \in Nodes
    BY <1>4, <2>1 DEF Children, ChildOf
  <2>3. PICK x \in Node, y \in Node, u \in Node : x = tree[n] /\ y = tree[l] /\ u = tree[h]
    BY <1>3, <2>2
  <2>4. /\ y.level = x.level + 1 /\ y.nlo + y.nhi = x.nlo /\ y.lo = x.lo + M /\ y.nthreads = x.nthreads \div 2
        /\ u.level = x.level + 1 /\ u.nlo + u.nhi = x.nhi /\ u.lo = x.hi + M /\ u.nthreads = hi_threads(x.nthreads)
        /\ x.hi = x.lo + x.nlo
    BY <1>4, <2>1, <2>3 DEF Children, ChildOf, Halved
  <2>5. /\ x.lo \in Nat /\ x.hi \in Nat /\ x.nlo \in Nat /\ x.nhi \in Nat /\ x.level \in Nat /\ x.nthreads \in Nat
        /\ y.nlo \in Nat /\ y.nhi \in Nat /\ u.nlo \in Nat /\ u.nhi \in Nat
    BY DEF Node
  <2>6. x.level >= 1
    <3>1. Placed(tree[n], M, mult(N))
      BY <1>1 DEF Shaped
    <3> QED BY <2>3, <3>1 DEF Placed
  <2>7. Target(l) = (y.lo - M)..(y.lo - M + y.nlo + y.nhi - 1)
    BY <1>2, <2>3, <2>4, <2>5, <2>6 DEF Target, MERGE_ROOT
  <2>8. Target(h) = (u.lo - M)..(u.lo - M + u.nlo + u.nhi - 1)
    BY <1>2, <2>3, <2>4, <2>5, <2>6 DEF Target, MERGE_ROOT
  <2>9. Target(l) = x.lo..(x.hi - 1)
    <3>1. y.lo - M = x.lo /\ y.lo - M + y.nlo + y.nhi - 1 = x.hi - 1
      BY <1>2, <2>4, <2>5
    <3> QED BY <2>7, <3>1
  <2>10. Target(h) = x.hi..(x.hi + x.nhi - 1)
    <3>1. u.lo - M = x.hi /\ u.lo - M + u.nlo + u.nhi - 1 = x.hi + x.nhi - 1
      BY <1>2, <2>4, <2>5
    <3> QED BY <2>8, <3>1
  <2>11. y.nthreads + u.nthreads = x.nthreads
    <3>1. PICK k \in Nat : k = x.nthreads
      BY <2>5
    <3>2. k \div 2 + (k - k \div 2) = k
      OBVIOUS
    <3> QED BY <2>4, <3>1, <3>2 DEF hi_threads
  <2> QED BY <2>3, <2>9, <2>10, <2>11
<1>5. ASSUME NEW n \in DOMAIN tree \ {EndNode}, tree[n].nthreads > 1
      PROVE  /\ Target(tree[n].lo_child) = tree[n].lo..(tree[n].hi - 1)
             /\ Target(tree[n].hi_child) = tree[n].hi..(tree[n].hi + tree[n].nhi - 1)
             /\ tree[tree[n].lo_child].nthreads + tree[tree[n].hi_child].nthreads = tree[n].nthreads
  <2>1. PICK l, h : l = tree[n].lo_child /\ h = tree[n].hi_child
    OBVIOUS
  <2>2. n \in Nodes
    BY <1>3
  <2> QED BY <1>4, <1>5, <2>1, <2>2
<1> QED BY <1>5, Zenon DEF ChildrenAdjoin

\* The invariant implies the property.
LEMMA LayoutFits ==
  ASSUME LayoutInv
  PROVE  RegionsFit
<1>1. PICK N, M : Shaped(N, M)
  BY LayoutShaped DEF LayoutInv
<1>2. N = nthreads /\ M = nlines /\ N \in Nat \ {0} /\ M \in Nat
  BY <1>1 DEF Shaped
<1>3. \A n \in calls : Source(n) \cup Scratches(n) \cup Target(n) \subseteq 0..(TableRoom(nthreads, nlines) - 1)
  BY <1>1, <1>2, TableHolds DEF LayoutInv
<1>4. LinkedInPool
  <2>1. tree = merge_tree_init(N, M)
    BY <1>2 DEF LayoutInv
  <2> QED BY <1>2, <2>1, TreeAsAssumed DEF LinkedInPool
<1> QED BY <1>3, <1>4, SortsApart, ChildrenMeet DEF RegionsFit

\* Whatever pthread_create does, no thread touches a slot outside the table or one that
\* another sort uses, and merges find their lines.
THEOREM RegionsFitHolds == Spec => []RegionsFit
<1>1. LayoutInv => RegionsFit
  BY LayoutFits
<1> QED BY <1>1, LayoutHolds, PTL
-----------------------------------------------------------------------------
(* A merge of sequential_sort: one line at a time *)

\* The states of mergelines, whose arrays have memory.
MergeState == [memory : Memory, t : Int, lo : Int, nlo : Nat, hi : Int, nhi : Nat]
Merging ==
  {s \in MergeState : /\ s.hi = s.t - s.nlo
                      /\ Places(s.t, s.nlo + s.nhi) \subseteq Addresses
                      /\ Places(s.lo, s.nlo) \subseteq Addresses}

\* What is in a state after a line.
LEMMA TakeLoIs ==
  ASSUME NEW s \in MergeState
  PROVE  TakeLo(s) = [memory |-> [s.memory EXCEPT ![s.t - 1] = s.memory[s.lo - 1]], t |-> s.t - 1,
                    lo |-> s.lo - 1, nlo |-> s.nlo - 1, hi |-> s.hi, nhi |-> s.nhi]
<1>1. PICK m \in Memory, t \in Int, lo \in Int, nlo \in Nat, hi \in Int, nhi \in Nat :
        s = [memory |-> m, t |-> t, lo |-> lo, nlo |-> nlo, hi |-> hi, nhi |-> nhi]
  BY DEF MergeState
<1>2. PICK m2 : m2 = [s.memory EXCEPT ![s.t - 1] = s.memory[s.lo - 1]]
  OBVIOUS
<1>3. TakeLo(s) = [s EXCEPT !.memory = m2, !.t = s.t - 1, !.lo = s.lo - 1, !.nlo = s.nlo - 1]
  BY <1>2, Zenon DEF TakeLo
<1>4. s.t = t /\ s.lo = lo /\ s.nlo = nlo /\ s.hi = hi /\ s.nhi = nhi
  BY <1>1
<1>5. TakeLo(s) = [memory |-> m2, t |-> t - 1, lo |-> lo - 1, nlo |-> nlo - 1, hi |-> hi, nhi |-> nhi]
  BY <1>1, <1>3, <1>4
<1> QED BY <1>2, <1>4, <1>5
LEMMA TakeHiIs ==
  ASSUME NEW s \in MergeState
  PROVE  TakeHi(s) = [memory |-> [s.memory EXCEPT ![s.t - 1] = s.memory[s.hi - 1]], t |-> s.t - 1,
                    lo |-> s.lo, nlo |-> s.nlo, hi |-> s.hi - 1, nhi |-> s.nhi - 1]
<1>1. PICK m \in Memory, t \in Int, lo \in Int, nlo \in Nat, hi \in Int, nhi \in Nat :
        s = [memory |-> m, t |-> t, lo |-> lo, nlo |-> nlo, hi |-> hi, nhi |-> nhi]
  BY DEF MergeState
<1>2. PICK m2 : m2 = [s.memory EXCEPT ![s.t - 1] = s.memory[s.hi - 1]]
  OBVIOUS
<1>3. TakeHi(s) = [s EXCEPT !.memory = m2, !.t = s.t - 1, !.hi = s.hi - 1, !.nhi = s.nhi - 1]
  BY <1>2, Zenon DEF TakeHi
<1>4. s.t = t /\ s.lo = lo /\ s.nlo = nlo /\ s.hi = hi /\ s.nhi = nhi
  BY <1>1
<1>5. TakeHi(s) = [memory |-> m2, t |-> t - 1, lo |-> lo, nlo |-> nlo, hi |-> hi - 1, nhi |-> nhi - 1]
  BY <1>1, <1>3, <1>4
<1> QED BY <1>2, <1>4, <1>5

\* A store leaves memory a memory and the other places as they were.
LEMMA StoreTyped ==
  ASSUME NEW m \in Memory, NEW p \in Addresses, NEW line \in Line
  PROVE  /\ [m EXCEPT ![p] = line] \in Memory /\ [m EXCEPT ![p] = line][p] = line
         /\ \A q \in Addresses \ {p} : [m EXCEPT ![p] = line][q] = m[q]
  BY DEF Memory

LEMMA PlacesHave ==
  ASSUME NEW p \in Int, NEW n \in Nat
  PROVE  /\ \A k \in 1..n : p - k \in Places(p, n)
         /\ \A x \in Places(p, n) : x \in Int /\ p - x \in 1..n
         /\ n > 0 => p - 1 \in Places(p, n) /\ Places(p - 1, n - 1) \subseteq Places(p, n)
  BY DEF Places

LEMMA MoveTyped ==
  ASSUME NEW s \in Merging
  PROVE  MoveLine(s) \in Merging
<1>1. PICK m \in Memory, t \in Int, lo \in Int, nlo \in Nat, hi \in Int, nhi \in Nat :
        s = [memory |-> m, t |-> t, lo |-> lo, nlo |-> nlo, hi |-> hi, nhi |-> nhi]
  BY DEF Merging, MergeState
<1>2. s \in MergeState /\ hi = t - nlo /\ Places(t, nlo + nhi) \subseteq Addresses /\ Places(lo, nlo) \subseteq Addresses
  BY <1>1 DEF Merging
<1>3. \A p \in Addresses : m[p] \in Line
  BY DEF Memory
<1>4. ASSUME nlo # 0 PROVE TakeLo(s) \in Merging
  <2>1. t - 1 \in Addresses /\ lo - 1 \in Addresses
    BY <1>1, <1>2, <1>4 DEF Places
  <2>2. PICK m2 \in Memory : m2 = [m EXCEPT ![t - 1] = m[lo - 1]]
    BY <1>3, <2>1, StoreTyped
  <2>3. TakeLo(s) = [memory |-> m2, t |-> t - 1, lo |-> lo - 1, nlo |-> nlo - 1, hi |-> hi, nhi |-> nhi]
    BY <1>1, <1>2, <2>2, TakeLoIs
  <2>4. nlo - 1 \in Nat /\ hi = (t - 1) - (nlo - 1)
    BY <1>1, <1>2, <1>4
  <2>5. Places(t - 1, (nlo - 1) + nhi) \subseteq Places(t, nlo + nhi) /\ Places(lo - 1, nlo - 1) \subseteq Places(lo, nlo)
    BY <1>2, <1>4 DEF Places
  <2> QED BY <1>2, <2>3, <2>4, <2>5 DEF Merging, MergeState
<1>5. ASSUME nlo # 0, nhi # 0 PROVE TakeHi(s) \in Merging
  <2>1. t - 1 \in Addresses /\ hi - 1 \in Addresses
    BY <1>1, <1>2, <1>5 DEF Places
  <2>2. PICK m2 \in Memory : m2 = [m EXCEPT ![t - 1] = m[hi - 1]]
    BY <1>3, <2>1, StoreTyped
  <2>3. TakeHi(s) = [memory |-> m2, t |-> t - 1, lo |-> lo, nlo |-> nlo, hi |-> hi - 1, nhi |-> nhi - 1]
    BY <1>1, <1>2, <2>2, TakeHiIs
  <2>4. nhi - 1 \in Nat /\ hi - 1 = (t - 1) - nlo
    BY <1>1, <1>2, <1>5
  <2>5. Places(t - 1, nlo + (nhi - 1)) \subseteq Places(t, nlo + nhi)
    BY <1>2, <1>5 DEF Places
  <2> QED BY <1>2, <2>3, <2>4, <2>5 DEF Merging, MergeState
<1>6. s.nlo = nlo /\ s.nhi = nhi
  BY <1>1
<1> QED BY <1>4, <1>5, <1>6, Zenon DEF MoveLine

\* The states of n moves.
Moves(f, s, n) == \A k \in 0..n : f[k] = IF k = 0 THEN s ELSE MoveLine(f[k - 1])

LEMMA MovesExist ==
  ASSUME NEW s \in Merging, NEW n \in Nat
  PROVE  \E f \in [0..n -> Merging] : Moves(f, s, n)
<1> DEFINE D == 0..n
<1>1. PICK measure : measure = [k \in D |-> k]
  OBVIOUS
<1>2. PICK step : step = [k \in D |-> [h \in [Below(D, measure, k) -> Merging] |-> IF k = 0 THEN s ELSE MoveLine(h[k - 1])]]
  OBVIOUS
<1>3. measure \in [D -> Nat]
  BY <1>1
<1>4. ASSUME NEW k \in D, k # 0 PROVE k - 1 \in Below(D, measure, k)
  BY <1>1, <1>4 DEF Below
<1>5. ASSUME NEW k \in D PROVE step[k] \in [[Below(D, measure, k) -> Merging] -> Merging]
  <2>1. ASSUME NEW h \in [Below(D, measure, k) -> Merging] PROVE (IF k = 0 THEN s ELSE MoveLine(h[k - 1])) \in Merging
    BY <1>4, MoveTyped
  <2> QED BY <1>2, <2>1
<1>6. Steps(D, Merging, measure, step)
  BY <1>3, <1>5 DEF Steps
<1>7. PICK f \in [D -> Merging] : Stepwise(D, measure, step, D, f)
  BY <1>6, Recursion
<1>8. ASSUME NEW k \in D PROVE f[k] = IF k = 0 THEN s ELSE MoveLine(f[k - 1])
  <2>1. PICK h : h = Values(D, measure, k, f)
    OBVIOUS
  <2>2. h \in [Below(D, measure, k) -> Merging] /\ \A x \in Below(D, measure, k) : h[x] = f[x]
    BY <2>1 DEF Values, Below
  <2>3. f[k] = step[k][h]
    BY <1>7, <2>1 DEF Stepwise
  <2>4. f[k] = IF k = 0 THEN s ELSE MoveLine(h[k - 1])
    BY <1>2, <2>2, <2>3
  <2>5. k # 0 => h[k - 1] = f[k - 1]
    BY <1>4, <2>2
  <2> QED BY <2>4, <2>5, Zenon
<1> QED BY <1>7, <1>8 DEF Moves

\* mergelines is the memory after them.
LEMMA mergelinesIs ==
  ASSUME NEW m, NEW t, NEW n \in Nat, NEW lo, Entering(m, t, n, lo) \in Merging
  PROVE  \E f \in [0..n -> Merging] :
           Moves(f, Entering(m, t, n, lo), n) /\ mergelines(m, t, n, lo) = f[n].memory
<1> DEFINE Move(f, k) == IF k = 0 THEN Entering(m, t, n, lo) ELSE MoveLine(f[k - 1])
           moved == CHOOSE f : f = [k \in 0..n |-> Move(f, k)]
<1>1. PICK f \in [0..n -> Merging] : Moves(f, Entering(m, t, n, lo), n)
  BY MovesExist
<1>2. \A k \in 0..n : f[k] = Move(f, k)
  BY <1>1, Zenon DEF Moves
<1>3. mergelines(m, t, n, lo) = moved[n].memory
  BY Zenon DEF mergelines
<1> HIDE DEF Move
<1>4. f = [k \in 0..n |-> Move(f, k)]
  BY <1>2
<1>5. moved = [k \in 0..n |-> Move(moved, k)]
  BY <1>4, Zenon
<1> HIDE DEF moved
<1>6. PICK g : g = moved
  OBVIOUS
<1>7. \A k \in 0..n : g[k] = Move(g, k)
  <2>1. g = [k \in 0..n |-> Move(g, k)]
    BY <1>5, <1>6, Zenon
  <2> QED BY <2>1
<1> DEFINE T == {k \in 0..n : g[k] # f[k]}
<1>8. ASSUME T # {} PROVE FALSE
  <2>1. T \in SUBSET Nat
    OBVIOUS
  <2> HIDE DEF T
  <2>2. PICK k \in T : \A j \in T : k <= j
    BY <1>8, <2>1, Least
  <2> USE DEF T
  <2>3. k \in 0..n /\ g[k] # f[k]
    OBVIOUS
  <2>4. k # 0 => g[k - 1] = f[k - 1]
    <3>1. ASSUME k # 0 PROVE k - 1 \in 0..n /\ ~(k <= k - 1)
      BY <2>3, <3>1
    <3>2. k # 0 => k - 1 \notin T
      BY <2>2, <3>1
    <3> QED BY <3>1, <3>2
  <2>5. Move(g, k) = Move(f, k)
    BY <2>4, Zenon DEF Move
  <2> QED BY <1>2, <1>7, <2>3, <2>5 DEF Move
<1>9. g[n] = f[n]
  BY <1>8
<1> QED BY <1>1, <1>3, <1>6, <1>9

\* An order G of the lines X[1], ..., X[n] that agrees with compare and with each of two
\* halves: the first nlo are in order, and so are the others.
HalfOrder(X, n, nlo, G) ==
  /\ \A i, j, k \in 1..n : <<i, j>> \in G /\ <<j, k>> \in G => <<i, k>> \in G
  /\ \A j, k \in 1..n : j < k /\ (k <= nlo \/ nlo < j) => <<j, k>> \in G
  /\ \A j \in 1..nlo, k \in (nlo + 1)..n :
       IF compare(X[j], X[k]) <= 0 THEN <<j, k>> \in G ELSE <<k, j>> \in G

\* r lists the first a lines of LO and the first b of HI in order, all ahead of the others.
Chosen(r, a, b, n, nlo, G) ==
  /\ r \in [1..(a + b) -> 1..n]
  /\ \A i, j \in 1..(a + b) : i < j => <<r[i], r[j]>> \in G
  /\ \A i \in 1..(a + b) : /\ a < nlo => <<r[i], a + 1>> \in G
                           /\ nlo + b < n => <<r[i], nlo + b + 1>> \in G

\* They are stored before t, and the lines not yet taken are where they were.
Stored(m, r, a, b, n, nlo, t, lo, X) ==
  /\ \A i \in 1..(a + b) : m[t - i] = X[r[i]]
  /\ \A k \in 1..nlo : m[lo - k] = X[k]
  /\ \A k \in (nlo + b + 1)..n : m[t - k] = X[k]

Kept(m, before, t, n) == \A p \in Addresses \ Places(t, n) : m[p] = before[p]

Appended(r, s, x) == [i \in 1..(s + 1) |-> IF i = s + 1 THEN x ELSE r[i]]
OneMore(f, r, s, x, n) == f \in [1..(s + 1) -> 1..n] /\ f[s + 1] = x /\ \A i \in 1..s : f[i] = r[i]

LEMMA AppendedIs ==
  ASSUME NEW s \in Nat, NEW n, NEW r, r \in [1..s -> 1..n], NEW x, x \in 1..n
  PROVE  OneMore(Appended(r, s, x), r, s, x, n)
<1>1. s + 1 \in 1..(s + 1) /\ 1..s \subseteq 1..(s + 1) /\ \A i \in 1..s : i # s + 1
  OBVIOUS
<1>2. \A i \in 1..(s + 1) : i = s + 1 \/ i \in 1..s
  OBVIOUS
<1>3. PICK f : f = Appended(r, s, x)
  OBVIOUS
<1>4. f = [i \in 1..(s + 1) |-> IF i = s + 1 THEN x ELSE r[i]]
  BY <1>3 DEF Appended
<1>5. f \in [1..(s + 1) -> 1..n] /\ f[s + 1] = x /\ \A i \in 1..s : f[i] = r[i]
  BY <1>1, <1>2, <1>4
<1> QED BY <1>3, <1>5, Zenon DEF OneMore

LEMMA ChooseOne ==
  ASSUME NEW a \in Nat, NEW b \in Nat, NEW n \in Nat, NEW nlo \in Nat, a <= nlo, nlo + b <= n,
         NEW X, NEW G, HalfOrder(X, n, nlo, G), NEW r, Chosen(r, a, b, n, nlo, G)
  PROVE  /\ a < nlo /\ (nlo + b < n => compare(X[a + 1], X[nlo + b + 1]) <= 0) =>
              Chosen(Appended(r, a + b, a + 1), a + 1, b, n, nlo, G)
         /\ a < nlo /\ nlo + b < n /\ ~(compare(X[a + 1], X[nlo + b + 1]) <= 0) =>
              Chosen(Appended(r, a + b, nlo + b + 1), a, b + 1, n, nlo, G)
<1>1. PICK s \in Nat : s = a + b
  OBVIOUS
<1>2. /\ r \in [1..s -> 1..n] /\ \A i, j \in 1..s : i < j => <<r[i], r[j]>> \in G
      /\ \A i \in 1..s : (a < nlo => <<r[i], a + 1>> \in G) /\ (nlo + b < n => <<r[i], nlo + b + 1>> \in G)
  BY <1>1, Zenon DEF Chosen
<1>3. \A i \in 1..s : r[i] \in 1..n
  BY <1>2
<1>4. /\ \A i, j, k \in 1..n : <<i, j>> \in G /\ <<j, k>> \in G => <<i, k>> \in G
      /\ \A j, k \in 1..n : j < k /\ (k <= nlo \/ nlo < j) => <<j, k>> \in G
      /\ \A j \in 1..nlo, k \in (nlo + 1)..n :
           IF compare(X[j], X[k]) <= 0 THEN <<j, k>> \in G ELSE <<k, j>> \in G
  BY Zenon DEF HalfOrder
<1>5. ASSUME a < nlo, nlo + b < n => compare(X[a + 1], X[nlo + b + 1]) <= 0
      PROVE  Chosen(Appended(r, a + b, a + 1), a + 1, b, n, nlo, G)
  <2>1. PICK x \in 1..n : x = a + 1
    BY <1>5
  <2>2. PICK q \in [1..(s + 1) -> 1..n] :
          q = Appended(r, s, x) /\ q[s + 1] = x /\ \A i \in 1..s : q[i] = r[i]
    <3>1. OneMore(Appended(r, s, x), r, s, x, n)
      BY <1>2, AppendedIs, Zenon
    <3> QED BY <3>1, Zenon DEF OneMore
  <2>3. \A i \in 1..s : <<q[i], x>> \in G
    BY <1>2, <1>5, <2>1, <2>2
  <2>4. \A i, j \in 1..(s + 1) : i < j => <<q[i], q[j]>> \in G
    <3>1. ASSUME NEW i \in 1..(s + 1), NEW j \in 1..(s + 1), i < j PROVE <<q[i], q[j]>> \in G
      <4>1. i \in 1..s /\ (j = s + 1 \/ j \in 1..s)
        BY <3>1
      <4>2. CASE j = s + 1
        BY <2>2, <2>3, <4>1, <4>2
      <4>3. CASE j \in 1..s
        <5>1. <<r[i], r[j]>> \in G
          BY <1>2, <3>1, <4>1, <4>3
        <5> QED BY <2>2, <4>1, <4>3, <5>1, Zenon
      <4> QED BY <4>1, <4>2, <4>3
    <3> QED BY <3>1
  <2>5. ASSUME a + 1 < nlo PROVE \A i \in 1..(s + 1) : <<q[i], (a + 1) + 1>> \in G
    <3>1. PICK y \in 1..n : y = (a + 1) + 1 /\ x < y /\ y <= nlo
      BY <2>1, <2>5
    <3>2. <<x, y>> \in G
      BY <1>4, <3>1
    <3>3. ASSUME NEW i \in 1..(s + 1) PROVE <<q[i], y>> \in G
      <4>1. i = s + 1 \/ i \in 1..s
        OBVIOUS
      <4>2. CASE i = s + 1
        BY <2>2, <3>2, <4>2
      <4>3. CASE i \in 1..s
        <5>1. <<q[i], x>> \in G /\ q[i] \in 1..n
          BY <2>3, <4>3
        <5> QED BY <1>4, <3>2, <5>1, Zenon
      <4> QED BY <4>1, <4>2, <4>3
    <3> QED BY <3>1, <3>3
  <2>6. ASSUME nlo + b < n PROVE \A i \in 1..(s + 1) : <<q[i], nlo + b + 1>> \in G
    <3>1. PICK y \in (nlo + 1)..n : y = nlo + b + 1
      BY <2>6
    <3>2. x \in 1..nlo
      BY <1>5, <2>1
    <3>3. <<x, y>> \in G
      BY <1>4, <1>5, <2>1, <2>6, <3>1, <3>2
    <3>4. ASSUME NEW i \in 1..(s + 1) PROVE <<q[i], y>> \in G
      <4>1. i = s + 1 \/ i \in 1..s
        OBVIOUS
      <4>2. CASE i = s + 1
        BY <2>2, <3>3, <4>2
      <4>3. CASE i \in 1..s
        BY <1>2, <2>2, <2>6, <3>1, <4>3
      <4> QED BY <4>1, <4>2, <4>3
    <3> QED BY <3>1, <3>4
  <2>7. (a + 1) + b = s + 1
    BY <1>1
  <2>8. Chosen(q, a + 1, b, n, nlo, G)
    BY <2>4, <2>5, <2>6, <2>7, Zenon DEF Chosen
  <2> QED BY <1>1, <2>1, <2>2, <2>8
<1>6. ASSUME a < nlo, nlo + b < n, ~(compare(X[a + 1], X[nlo + b + 1]) <= 0)
      PROVE  Chosen(Appended(r, a + b, nlo + b + 1), a, b + 1, n, nlo, G)
  <2>1. PICK x \in 1..n : x = nlo + b + 1
    BY <1>6
  <2>2. PICK q \in [1..(s + 1) -> 1..n] :
          q = Appended(r, s, x) /\ q[s + 1] = x /\ \A i \in 1..s : q[i] = r[i]
    <3>1. OneMore(Appended(r, s, x), r, s, x, n)
      BY <1>2, AppendedIs, Zenon
    <3> QED BY <3>1, Zenon DEF OneMore
  <2>3. \A i \in 1..s : <<q[i], x>> \in G
    BY <1>2, <1>6, <2>1, <2>2
  <2>4. \A i, j \in 1..(s + 1) : i < j => <<q[i], q[j]>> \in G
    <3>1. ASSUME NEW i \in 1..(s + 1), NEW j \in 1..(s + 1), i < j PROVE <<q[i], q[j]>> \in G
      <4>1. i \in 1..s /\ (j = s + 1 \/ j \in 1..s)
        BY <3>1
      <4>2. CASE j = s + 1
        BY <2>2, <2>3, <4>1, <4>2
      <4>3. CASE j \in 1..s
        <5>1. <<r[i], r[j]>> \in G
          BY <1>2, <3>1, <4>1, <4>3
        <5> QED BY <2>2, <4>1, <4>3, <5>1, Zenon
      <4> QED BY <4>1, <4>2, <4>3
    <3> QED BY <3>1
  <2>5. ASSUME nlo + (b + 1) < n PROVE \A i \in 1..(s + 1) : <<q[i], nlo + (b + 1) + 1>> \in G
    <3>1. PICK y \in 1..n : y = nlo + (b + 1) + 1 /\ x < y /\ nlo < x
      BY <2>1, <2>5
    <3>2. <<x, y>> \in G
      BY <1>4, <3>1
    <3>3. ASSUME NEW i \in 1..(s + 1) PROVE <<q[i], y>> \in G
      <4>1. i = s + 1 \/ i \in 1..s
        OBVIOUS
      <4>2. CASE i = s + 1
        BY <2>2, <3>2, <4>2
      <4>3. CASE i \in 1..s
        <5>1. <<q[i], x>> \in G /\ q[i] \in 1..n
          BY <2>3, <4>3
        <5> QED BY <1>4, <3>2, <5>1, Zenon
      <4> QED BY <4>1, <4>2, <4>3
    <3> QED BY <3>1, <3>3
  <2>6. \A i \in 1..(s + 1) : <<q[i], a + 1>> \in G
    <3>1. PICK y \in 1..nlo : y = a + 1
      BY <1>6
    <3>2. x \in (nlo + 1)..n
      BY <1>6, <2>1
    <3>3. <<x, y>> \in G
      BY <1>4, <1>6, <2>1, <3>1, <3>2
    <3>4. ASSUME NEW i \in 1..(s + 1) PROVE <<q[i], y>> \in G
      <4>1. i = s + 1 \/ i \in 1..s
        OBVIOUS
      <4>2. CASE i = s + 1
        BY <2>2, <3>3, <4>2
      <4>3. CASE i \in 1..s
        BY <1>2, <1>6, <2>2, <3>1, <4>3
      <4> QED BY <4>1, <4>2, <4>3
    <3> QED BY <3>1, <3>4
  <2>7. a + (b + 1) = s + 1
    BY <1>1
  <2>8. Chosen(q, a, b + 1, n, nlo, G)
    BY <2>4, <2>5, <2>6, <2>7, Zenon DEF Chosen
  <2> QED BY <1>1, <2>1, <2>2, <2>8
<1> QED BY <1>5, <1>6

\* The state after a lines of LO and b of HI.
Progress(s, a, b, before, t, n, nlo, lo) ==
  /\ s \in Merging
  /\ s.t = t - (a + b) /\ s.lo = lo - a /\ s.nlo = nlo - a /\ s.hi = t - nlo - b /\ s.nhi = n - nlo - b
  /\ Kept(s.memory, before, t, n)

\* The arrays of a merge.
Arrays(t, n, nlo, lo) ==
  /\ t \in Int /\ n \in Nat /\ nlo \in 1..n /\ lo \in Int
  /\ Places(t, n) \subseteq Addresses /\ Places(lo, nlo) \subseteq Addresses
  /\ Places(t, n) \cap Places(lo, nlo) = {}

\* After a lines of LO and b of HI, x is the next, and then there are d and c.
NextLine(a, b, d, c, x, n, nlo) ==
  /\ a \in Nat /\ b \in Nat /\ c \in Nat /\ d \in Nat
  /\ a < nlo /\ nlo + b <= n /\ b <= c /\ d + c = a + b + 1 /\ x \in 1..n
StoreNext(m, m2, t, a, b, line) == m2 = [m EXCEPT ![t - (a + b) - 1] = line]

\* It is stored to its place, over none that is still needed.
LEMMA StoreOne ==
  ASSUME NEW t, NEW n, NEW nlo, NEW lo, Arrays(t, n, nlo, lo),
         NEW a, NEW b, NEW d, NEW c, NEW x, NextLine(a, b, d, c, x, n, nlo),
         NEW m \in Memory, NEW r, r \in [1..(a + b) -> 1..n], NEW X, Stored(m, r, a, b, n, nlo, t, lo, X),
         NEW m2, StoreNext(m, m2, t, a, b, X[x]), NEW before, Kept(m, before, t, n)
  PROVE  Stored(m2, Appended(r, a + b, x), d, c, n, nlo, t, lo, X) /\ Kept(m2, before, t, n)
<1>0. /\ a \in Nat /\ b \in Nat /\ c \in Nat /\ d \in Nat
      /\ a < nlo /\ nlo + b <= n /\ b <= c /\ d + c = a + b + 1 /\ x \in 1..n
  BY DEF NextLine
<1>1. /\ t \in Int /\ n \in Nat /\ nlo \in 1..n /\ lo \in Int
      /\ Places(t, n) \subseteq Addresses /\ Places(lo, nlo) \subseteq Addresses
      /\ Places(t, n) \cap Places(lo, nlo) = {}
  BY DEF Arrays
<1>2. PICK s \in Nat : s = a + b /\ s < n
  BY <1>0, <1>1
<1>3. PICK q \in [1..(s + 1) -> 1..n] :
          /\ q = Appended(r, s, x) /\ q[s + 1] = x
          /\ \A i \in 1..s : q[i] = r[i]
  <2>1. r \in [1..s -> 1..n]
    BY <1>0, <1>2
  <2>2. OneMore(Appended(r, s, x), r, s, x, n)
    BY <1>0, <2>1, AppendedIs, Zenon
  <2> QED BY <2>2, Zenon DEF OneMore
<1>4. PICK p \in Places(t, n) : p = t - (s + 1)
  <2>1. t - (s + 1) \in Places(t, n)
    BY <1>0, <1>1, <1>2 DEF Places
  <2> QED BY <2>1
<1>5. p \in Addresses /\ \A k \in 1..nlo : lo - k \in Addresses /\ lo - k # p
  <2>1. \A k \in 1..nlo : lo - k \in Places(lo, nlo)
    BY <1>1 DEF Places
  <2> QED BY <1>1, <1>4, <2>1, Zenon
<1>6. \A k \in 1..n : t - k \in Addresses /\ (k # s + 1 => t - k # p)
  BY <1>0, <1>1, <1>2, <1>4 DEF Places
<1>7. m2 = [m EXCEPT ![p] = X[x]]
  <2>1. p = t - (a + b) - 1
    BY <1>0, <1>1, <1>2, <1>4
  <2> QED BY <2>1 DEF StoreNext
<1>8. m2[p] = X[x] /\ \A y \in Addresses : y # p => m2[y] = m[y]
  BY <1>5, <1>7 DEF Memory
<1>9. /\ \A i \in 1..s : m[t - i] = X[r[i]]
      /\ \A k \in 1..nlo : m[lo - k] = X[k]
      /\ \A k \in (nlo + b + 1)..n : m[t - k] = X[k]
  BY <1>2, Zenon DEF Stored
<1>10. \A i \in 1..(s + 1) : m2[t - i] = X[q[i]]
  <2>1. ASSUME NEW i \in 1..(s + 1) PROVE m2[t - i] = X[q[i]]
    <3>1. CASE i = s + 1
      BY <1>3, <1>4, <1>8, <3>1
    <3>2. CASE i # s + 1
      <4>1. i \in 1..s /\ i \in 1..n
        BY <1>0, <1>1, <1>2, <3>2
      <4>2. m2[t - i] = m[t - i]
        BY <1>6, <1>8, <3>2, <4>1
      <4> QED BY <1>3, <1>9, <4>1, <4>2
    <3> QED BY <3>1, <3>2
  <2> QED BY <2>1
<1>11. \A k \in 1..nlo : m2[lo - k] = X[k]
  <2>1. ASSUME NEW k \in 1..nlo PROVE m2[lo - k] = X[k]
    <3>1. m2[lo - k] = m[lo - k]
      BY <1>5, <1>8
    <3> QED BY <1>9, <3>1
  <2> QED BY <2>1
<1>12. \A k \in (nlo + c + 1)..n : m2[t - k] = X[k]
  <2>1. ASSUME NEW k \in (nlo + c + 1)..n PROVE m2[t - k] = X[k]
    <3>1. k \in (nlo + b + 1)..n /\ k \in 1..n /\ k # s + 1
      BY <1>0, <1>1, <1>2
    <3> QED BY <1>6, <1>8, <1>9, <3>1
  <2> QED BY <2>1
<1>13. d + c = s + 1 /\ a + b = s
  BY <1>0, <1>2
<1>14. Stored(m2, q, d, c, n, nlo, t, lo, X)
  BY <1>10, <1>11, <1>12, <1>13, Zenon DEF Stored
<1>15. Kept(m2, before, t, n)
  BY <1>4, <1>8 DEF Kept
<1> QED BY <1>3, <1>13, <1>14, <1>15

\* One move of the merge.
LEMMA MoveOne ==
  ASSUME NEW t, NEW n, NEW nlo, NEW lo, Arrays(t, n, nlo, lo), NEW before,
         NEW a \in Nat, NEW b \in Nat, a < nlo, nlo + b <= n,
         NEW s, Progress(s, a, b, before, t, n, nlo, lo),
         NEW X, NEW G, HalfOrder(X, n, nlo, G),
         NEW r, Chosen(r, a, b, n, nlo, G), Stored(s.memory, r, a, b, n, nlo, t, lo, X)
  PROVE  \E c, d \in Nat : \E q :
           /\ c + d = a + b + 1 /\ c <= nlo /\ nlo + d <= n
           /\ Progress(MoveLine(s), c, d, before, t, n, nlo, lo)
           /\ Chosen(q, c, d, n, nlo, G) /\ Stored(MoveLine(s).memory, q, c, d, n, nlo, t, lo, X)
<1>1. t \in Int /\ n \in Nat /\ nlo \in 1..n /\ lo \in Int
  BY DEF Arrays
<1>2. /\ s \in Merging /\ s \in MergeState /\ s.memory \in Memory /\ MoveLine(s) \in Merging
      /\ s.t = t - (a + b) /\ s.lo = lo - a /\ s.nlo = nlo - a /\ s.hi = t - nlo - b /\ s.nhi = n - nlo - b
      /\ Kept(s.memory, before, t, n)
  BY MoveTyped DEF Progress, Merging, MergeState
<1>3. r \in [1..(a + b) -> 1..n]
  BY DEF Chosen
<1>4. PICK m \in Memory : m = s.memory
  BY <1>2
<1>5. /\ \A k \in 1..nlo : m[lo - k] = X[k]
      /\ \A k \in (nlo + b + 1)..n : m[t - k] = X[k]
  BY <1>4, Zenon DEF Stored
<1>6. m[s.lo - 1] = X[a + 1]
  <2>1. a + 1 \in 1..nlo /\ s.lo - 1 = lo - (a + 1)
    BY <1>1, <1>2
  <2> QED BY <1>5, <2>1
<1>7. nlo + b < n => m[s.hi - 1] = X[nlo + b + 1]
  <2>1. ASSUME nlo + b < n PROVE m[s.hi - 1] = X[nlo + b + 1]
    <3>1. nlo + b + 1 \in (nlo + b + 1)..n /\ s.hi - 1 = t - (nlo + b + 1)
      BY <1>1, <1>2, <2>1
    <3> QED BY <1>5, <3>1
  <2> QED BY <2>1
<1>8. s.nlo # 0 /\ (s.nhi = 0 <=> ~(nlo + b < n)) /\ s.t - 1 = t - (a + b) - 1
  BY <1>1, <1>2
<1>9. ASSUME nlo + b < n => compare(X[a + 1], X[nlo + b + 1]) <= 0
      PROVE  /\ Progress(MoveLine(s), a + 1, b, before, t, n, nlo, lo)
             /\ Chosen(Appended(r, a + b, a + 1), a + 1, b, n, nlo, G)
             /\ Stored(MoveLine(s).memory, Appended(r, a + b, a + 1), a + 1, b, n, nlo, t, lo, X)
  <2>1. s.nhi = 0 \/ compare(s.memory[s.lo - 1], s.memory[s.hi - 1]) <= 0
    BY <1>4, <1>6, <1>7, <1>8, <1>9
  <2>2. MoveLine(s) = TakeLo(s)
    BY <1>8, <2>1, Zenon DEF MoveLine
  <2>3. PICK m2 : m2 = [m EXCEPT ![t - (a + b) - 1] = X[a + 1]]
    OBVIOUS
  <2>4. MoveLine(s) = [memory |-> m2, t |-> s.t - 1, lo |-> s.lo - 1, nlo |-> s.nlo - 1, hi |-> s.hi, nhi |-> s.nhi]
    <3>1. m2 = [s.memory EXCEPT ![s.t - 1] = s.memory[s.lo - 1]]
      BY <1>4, <1>6, <1>8, <2>3
    <3> QED BY <1>2, <2>2, <3>1, TakeLoIs, Zenon
  <2>5. PICK x \in 1..n, d \in Nat : x = a + 1 /\ d = a + 1 /\ d + b = a + b + 1
    BY <1>1
  <2>6. Stored(m2, Appended(r, a + b, x), d, b, n, nlo, t, lo, X) /\ Kept(m2, before, t, n)
    <3>1. StoreNext(m, m2, t, a, b, X[x]) /\ Stored(m, r, a, b, n, nlo, t, lo, X) /\ Kept(m, before, t, n) /\ b <= b
      BY <1>2, <1>4, <2>3, <2>5 DEF StoreNext
    <3>2. NextLine(a, b, d, b, x, n, nlo)
      BY <1>1, <2>5 DEF NextLine
    <3> QED BY <1>3, <3>1, <3>2, StoreOne, Zenon
  <2>7. Chosen(Appended(r, a + b, a + 1), a + 1, b, n, nlo, G)
    <3>1. a <= nlo
      BY <1>1
    <3> QED BY <1>1, <1>9, <3>1, ChooseOne
  <2>8. Progress(MoveLine(s), a + 1, b, before, t, n, nlo, lo)
    <3>1. /\ s.t - 1 = t - ((a + 1) + b) /\ s.lo - 1 = lo - (a + 1) /\ s.nlo - 1 = nlo - (a + 1)
      BY <1>1, <1>2
    <3>2. /\ MoveLine(s).memory = m2 /\ MoveLine(s).t = s.t - 1 /\ MoveLine(s).lo = s.lo - 1
          /\ MoveLine(s).nlo = s.nlo - 1 /\ MoveLine(s).hi = s.hi /\ MoveLine(s).nhi = s.nhi
      BY <2>4
    <3>3. Kept(m2, before, t, n)
      BY <2>6
    <3> QED BY <1>2, <3>1, <3>2, <3>3, Zenon DEF Progress
  <2>9. MoveLine(s).memory = m2
    BY <2>4
  <2> QED BY <2>5, <2>6, <2>7, <2>8, <2>9
<1>10. ASSUME nlo + b < n, ~(compare(X[a + 1], X[nlo + b + 1]) <= 0)
       PROVE  /\ Progress(MoveLine(s), a, b + 1, before, t, n, nlo, lo)
              /\ Chosen(Appended(r, a + b, nlo + b + 1), a, b + 1, n, nlo, G)
              /\ Stored(MoveLine(s).memory, Appended(r, a + b, nlo + b + 1), a, b + 1, n, nlo, t, lo, X)
  <2>1. ~(s.nhi = 0 \/ compare(s.memory[s.lo - 1], s.memory[s.hi - 1]) <= 0)
    BY <1>4, <1>6, <1>7, <1>8, <1>10
  <2>2. MoveLine(s) = TakeHi(s)
    BY <1>8, <2>1, Zenon DEF MoveLine
  <2>3. PICK m2 : m2 = [m EXCEPT ![t - (a + b) - 1] = X[nlo + b + 1]]
    OBVIOUS
  <2>4. MoveLine(s) = [memory |-> m2, t |-> s.t - 1, lo |-> s.lo, nlo |-> s.nlo, hi |-> s.hi - 1, nhi |-> s.nhi - 1]
    <3>1. m2 = [s.memory EXCEPT ![s.t - 1] = s.memory[s.hi - 1]]
      BY <1>4, <1>7, <1>8, <1>10, <2>3
    <3> QED BY <1>2, <2>2, <3>1, TakeHiIs, Zenon
  <2>5. PICK x \in 1..n, c \in Nat : x = nlo + b + 1 /\ c = b + 1 /\ a + c = a + b + 1 /\ b <= c
    BY <1>1, <1>10
  <2>6. Stored(m2, Appended(r, a + b, x), a, c, n, nlo, t, lo, X) /\ Kept(m2, before, t, n)
    <3>1. StoreNext(m, m2, t, a, b, X[x]) /\ Stored(m, r, a, b, n, nlo, t, lo, X) /\ Kept(m, before, t, n)
      BY <1>2, <1>4, <2>3, <2>5 DEF StoreNext
    <3>2. NextLine(a, b, a, c, x, n, nlo)
      BY <1>1, <2>5 DEF NextLine
    <3> QED BY <1>3, <3>1, <3>2, StoreOne, Zenon
  <2>7. Chosen(Appended(r, a + b, nlo + b + 1), a, b + 1, n, nlo, G)
    <3>1. a <= nlo
      BY <1>1
    <3> QED BY <1>1, <1>10, <3>1, ChooseOne
  <2>8. Progress(MoveLine(s), a, b + 1, before, t, n, nlo, lo)
    <3>1. /\ s.t - 1 = t - (a + (b + 1)) /\ s.hi - 1 = t - nlo - (b + 1) /\ s.nhi - 1 = n - nlo - (b + 1)
      BY <1>1, <1>2
    <3>2. /\ MoveLine(s).memory = m2 /\ MoveLine(s).t = s.t - 1 /\ MoveLine(s).lo = s.lo
          /\ MoveLine(s).nlo = s.nlo /\ MoveLine(s).hi = s.hi - 1 /\ MoveLine(s).nhi = s.nhi - 1
      BY <2>4
    <3>3. Kept(m2, before, t, n)
      BY <2>6
    <3> QED BY <1>2, <3>1, <3>2, <3>3, Zenon DEF Progress
  <2>9. MoveLine(s).memory = m2
    BY <2>4
  <2> QED BY <2>5, <2>6, <2>7, <2>8, <2>9
<1>11. CASE nlo + b < n => compare(X[a + 1], X[nlo + b + 1]) <= 0
  <2>1. PICK c \in Nat : c = a + 1 /\ c + b = a + b + 1 /\ c <= nlo
    BY <1>1
  <2> QED BY <1>9, <1>11, <2>1, Zenon
<1>12. CASE ~(nlo + b < n => compare(X[a + 1], X[nlo + b + 1]) <= 0)
  <2>1. nlo + b < n /\ ~(compare(X[a + 1], X[nlo + b + 1]) <= 0)
    BY <1>12
  <2>2. PICK d \in Nat : d = b + 1 /\ a + d = a + b + 1 /\ nlo + d <= n /\ a <= nlo
    BY <1>1, <2>1
  <2> QED BY <1>10, <2>1, <2>2, Zenon
<1> QED BY <1>11, <1>12

\* What a merge does with arrays that hold the lines X.
Merged(m, before, t, n, X, G) ==
  /\ m \in Memory /\ Kept(m, before, t, n)
  /\ \E r \in [1..n -> 1..n] : /\ \A k \in 1..n : m[t - k] = X[r[k]]
                               /\ \A j, k \in 1..n : j < k => <<r[j], r[k]>> \in G
Halves(m, t, n, nlo, lo, X) ==
  /\ \A k \in 1..nlo : m[lo - k] = X[k]
  /\ \A k \in (nlo + 1)..n : m[t - k] = X[k]

\* Where the loop is: after k moves, unless LO has ended before.
Looping(s, k, before, t, n, nlo, lo, X, G) ==
  \E a, b \in Nat : \E r :
    /\ a <= nlo /\ nlo + b <= n /\ (a = nlo \/ a + b = k)
    /\ Progress(s, a, b, before, t, n, nlo, lo)
    /\ Chosen(r, a, b, n, nlo, G) /\ Stored(s.memory, r, a, b, n, nlo, t, lo, X)

LEMMA LoopBegins ==
  ASSUME NEW m \in Memory, NEW t, NEW n, NEW nlo, NEW lo, Arrays(t, n, nlo, lo), nlo = n \div 2,
         NEW X, Halves(m, t, n, nlo, lo, X), NEW G
  PROVE  Entering(m, t, n, lo) \in Merging /\ Looping(Entering(m, t, n, lo), 0, m, t, n, nlo, lo, X, G)
<1>1. /\ t \in Int /\ n \in Nat /\ nlo \in 1..n /\ lo \in Int /\ n - nlo \in Nat /\ t - nlo \in Int
      /\ nlo + (n - nlo) = n
      /\ Places(t, n) \subseteq Addresses /\ Places(lo, nlo) \subseteq Addresses
  BY DEF Arrays
<1>2. PICK s : s = [memory |-> m, t |-> t, lo |-> lo, nlo |-> nlo, hi |-> t - nlo, nhi |-> n - nlo]
  OBVIOUS
<1>3. Entering(m, t, n, lo) = s
  BY <1>2, Zenon DEF Entering
<1>4. /\ s \in MergeState /\ s.memory = m /\ s.t = t /\ s.lo = lo /\ s.nlo = nlo /\ s.hi = t - nlo
      /\ s.nhi = n - nlo
  BY <1>1, <1>2 DEF MergeState
<1>5. s \in Merging
  BY <1>1, <1>4 DEF Merging
<1>6. PICK a \in Nat, b \in Nat : a = 0 /\ b = 0
  OBVIOUS
<1>7. Progress(s, a, b, m, t, n, nlo, lo)
  <2>1. s.t = t - (a + b) /\ s.lo = lo - a /\ s.nlo = nlo - a /\ s.hi = t - nlo - b /\ s.nhi = n - nlo - b
    BY <1>1, <1>4, <1>6
  <2>2. Kept(s.memory, m, t, n)
    BY <1>4 DEF Kept
  <2> QED BY <1>5, <2>1, <2>2, Zenon DEF Progress
<1>8. PICK r : r = [i \in 1..(a + b) |-> i]
  OBVIOUS
<1>9. 1..(a + b) = {}
  BY <1>6
<1>10. Chosen(r, a, b, n, nlo, G)
  BY <1>8, <1>9 DEF Chosen
<1>11. Stored(s.memory, r, a, b, n, nlo, t, lo, X)
  <2>1. \A k \in (nlo + b + 1)..n : k \in (nlo + 1)..n
    BY <1>1, <1>6
  <2>2. /\ \A i \in 1..(a + b) : m[t - i] = X[r[i]]
        /\ \A k \in 1..nlo : m[lo - k] = X[k]
        /\ \A k \in (nlo + b + 1)..n : m[t - k] = X[k]
    BY <1>9, <2>1, Zenon DEF Halves
  <2> QED BY <1>4, <2>2, Zenon DEF Stored
<1>12. a <= nlo /\ nlo + b <= n /\ a + b = 0
  BY <1>1, <1>6
<1>13. Looping(s, 0, m, t, n, nlo, lo, X, G)
  BY <1>7, <1>10, <1>11, <1>12, Zenon DEF Looping
<1> QED BY <1>3, <1>5, <1>13

LEMMA LoopGoesOn ==
  ASSUME NEW t, NEW n, NEW nlo, NEW lo, Arrays(t, n, nlo, lo), NEW before,
         NEW X, NEW G, HalfOrder(X, n, nlo, G), NEW k \in Nat,
         NEW s, Looping(s, k, before, t, n, nlo, lo, X, G)
  PROVE  Looping(MoveLine(s), k + 1, before, t, n, nlo, lo, X, G)
<1>1. n \in Nat /\ nlo \in 1..n
  BY DEF Arrays
<1>0. PICK a \in Nat, b \in Nat : \E r :
        /\ a <= nlo /\ nlo + b <= n /\ (a = nlo \/ a + b = k)
        /\ Progress(s, a, b, before, t, n, nlo, lo)
        /\ Chosen(r, a, b, n, nlo, G) /\ Stored(s.memory, r, a, b, n, nlo, t, lo, X)
  BY Zenon DEF Looping
<1>2. PICK r :
        /\ a <= nlo /\ nlo + b <= n /\ (a = nlo \/ a + b = k)
        /\ Progress(s, a, b, before, t, n, nlo, lo)
        /\ Chosen(r, a, b, n, nlo, G) /\ Stored(s.memory, r, a, b, n, nlo, t, lo, X)
  BY <1>0, Zenon
<1>3. CASE a = nlo
  <2>1. s.nlo = 0
    BY <1>1, <1>2, <1>3 DEF Progress
  <2>2. MoveLine(s) = s
    BY <2>1, Zenon DEF MoveLine
  <2> QED BY <1>2, <1>3, <2>2, Zenon DEF Looping
<1>4. CASE a # nlo
  <2>1. a < nlo /\ a + b = k
    BY <1>1, <1>2, <1>4
  <2>2. PICK c \in Nat, d \in Nat : \E q :
           /\ c + d = a + b + 1 /\ c <= nlo /\ nlo + d <= n
           /\ Progress(MoveLine(s), c, d, before, t, n, nlo, lo)
           /\ Chosen(q, c, d, n, nlo, G) /\ Stored(MoveLine(s).memory, q, c, d, n, nlo, t, lo, X)
    BY <1>2, <2>1, MoveOne
  <2>3. c + d = k + 1
    BY <2>1, <2>2
  <2> QED BY <2>2, <2>3, Zenon DEF Looping
<1> QED BY <1>3, <1>4

\* When LO has ended, the rest of HI is in its place.
LEMMA LoopEnds ==
  ASSUME NEW t, NEW n, NEW nlo, NEW lo, Arrays(t, n, nlo, lo), NEW before,
         NEW X, NEW G, HalfOrder(X, n, nlo, G), NEW s, Looping(s, n, before, t, n, nlo, lo, X, G)
  PROVE  Merged(s.memory, before, t, n, X, G)
<1>1. t \in Int /\ n \in Nat /\ nlo \in 1..n
  BY DEF Arrays
<1>0. PICK a \in Nat, b \in Nat : \E r :
        /\ a <= nlo /\ nlo + b <= n /\ (a = nlo \/ a + b = n)
        /\ Progress(s, a, b, before, t, n, nlo, lo)
        /\ Chosen(r, a, b, n, nlo, G) /\ Stored(s.memory, r, a, b, n, nlo, t, lo, X)
  BY Zenon DEF Looping
<1>2. PICK r :
        /\ a <= nlo /\ nlo + b <= n /\ (a = nlo \/ a + b = n)
        /\ Progress(s, a, b, before, t, n, nlo, lo)
        /\ Chosen(r, a, b, n, nlo, G) /\ Stored(s.memory, r, a, b, n, nlo, t, lo, X)
  BY <1>0, Zenon
<1>3. PICK e \in 1..n : e = a + b /\ e = nlo + b
  BY <1>1, <1>2
<1>4. PICK m \in Memory : m = s.memory /\ Kept(m, before, t, n)
  BY <1>2 DEF Progress, Merging, MergeState
<1>5. /\ r \in [1..e -> 1..n]
      /\ \A i, j \in 1..e : i < j => <<r[i], r[j]>> \in G
      /\ \A i \in 1..e : e < n => <<r[i], e + 1>> \in G
  <2>1. /\ r \in [1..(a + b) -> 1..n]
        /\ \A i, j \in 1..(a + b) : i < j => <<r[i], r[j]>> \in G
        /\ \A i \in 1..(a + b) : nlo + b < n => <<r[i], nlo + b + 1>> \in G
    BY <1>2, Zenon DEF Chosen
  <2> QED BY <1>3, <2>1, Zenon
<1>6. /\ \A i \in 1..e : m[t - i] = X[r[i]]
      /\ \A k \in (e + 1)..n : m[t - k] = X[k]
  <2>1. /\ \A i \in 1..(a + b) : m[t - i] = X[r[i]]
        /\ \A k \in (nlo + b + 1)..n : m[t - k] = X[k]
    BY <1>2, <1>4, Zenon DEF Stored
  <2> QED BY <1>3, <2>1, Zenon
<1>7. PICK q : q = [k \in 1..n |-> IF k <= e THEN r[k] ELSE k]
  OBVIOUS
<1>8. \A k \in 1..n : /\ k \in 1..e \/ k \in (e + 1)..n
                      /\ k \in 1..e => q[k] = r[k] /\ r[k] \in 1..n
                      /\ k \in (e + 1)..n => q[k] = k
  <2>1. \A k \in 1..n : (k <= e => k \in 1..e) /\ (~(k <= e) => k \in (e + 1)..n) /\ ~(k \in 1..e /\ k \in (e + 1)..n)
    OBVIOUS
  <2>2. \A k \in 1..e : r[k] \in 1..n
    BY <1>5
  <2> QED BY <1>7, <2>1, <2>2
<1>9. q \in [1..n -> 1..n]
  <2>1. \A k \in 1..n : (IF k <= e THEN r[k] ELSE k) \in 1..n
    <3>1. \A k \in 1..n : k <= e => k \in 1..e
      OBVIOUS
    <3> QED BY <1>5, <3>1
  <2> QED BY <1>7, <2>1
<1>10. \A k \in 1..n : m[t - k] = X[q[k]]
  BY <1>6, <1>8
<1>11. /\ \A i, j, k \in 1..n : <<i, j>> \in G /\ <<j, k>> \in G => <<i, k>> \in G
       /\ \A j, k \in 1..n : j < k /\ (k <= nlo \/ nlo < j) => <<j, k>> \in G
  BY Zenon DEF HalfOrder
<1>12. ASSUME NEW j \in 1..n, NEW k \in 1..n, j < k PROVE <<q[j], q[k]>> \in G
  <2>1. CASE k \in 1..e
    <3>1. j \in 1..e
      BY <1>12, <2>1
    <3>2. <<r[j], r[k]>> \in G
      BY <1>5, <1>12, <2>1, <3>1
    <3> QED BY <1>8, <2>1, <3>1, <3>2, Zenon
  <2>2. CASE k \in (e + 1)..n /\ j \in (e + 1)..n
    <3>1. nlo < j
      BY <1>2, <1>3, <2>2
    <3>2. <<j, k>> \in G
      BY <1>11, <1>12, <3>1
    <3> QED BY <1>8, <2>2, <3>2, Zenon
  <2>3. CASE k \in (e + 1)..n /\ j \in 1..e
    <3>1. PICK x \in 1..n : x = e + 1 /\ e < n /\ (x = k \/ x < k) /\ nlo < x
      <4>1. e + 1 \in 1..n /\ e < n /\ (e + 1 = k \/ e + 1 < k) /\ nlo < e + 1
        BY <1>1, <1>2, <1>3, <2>3
      <4> QED BY <4>1, Zenon
    <3>2. <<r[j], x>> \in G /\ r[j] \in 1..n
      BY <1>5, <2>3, <3>1
    <3>3. x < k => <<x, k>> \in G
      BY <1>11, <3>1
    <3>4. <<r[j], k>> \in G
      BY <1>11, <3>1, <3>2, <3>3
    <3> QED BY <1>8, <2>3, <3>4, Zenon
  <2> QED BY <1>8, <2>1, <2>2, <2>3
<1> QED BY <1>4, <1>9, <1>10, <1>12, Zenon DEF Merged

\* mergelines merges the halves: in the order, equal lines of LO before those of HI.
LEMMA MergeRight ==
  ASSUME NEW m \in Memory, NEW t, NEW n, NEW nlo, NEW lo, Arrays(t, n, nlo, lo), nlo = n \div 2,
         NEW X, Halves(m, t, n, nlo, lo, X), NEW G, HalfOrder(X, n, nlo, G)
  PROVE  Merged(mergelines(m, t, n, lo), m, t, n, X, G)
<1>1. n \in Nat
  BY DEF Arrays
<1>2. PICK s : s = Entering(m, t, n, lo)
  OBVIOUS
<1>3. s \in Merging /\ Looping(s, 0, m, t, n, nlo, lo, X, G)
  BY <1>2, LoopBegins
<1>4. PICK f : f \in [0..n -> Merging] /\ Moves(f, s, n) /\ mergelines(m, t, n, lo) = f[n].memory
  <2>1. Entering(m, t, n, lo) \in Merging
    BY <1>2, <1>3
  <2>2. \E g \in [0..n -> Merging] :
          Moves(g, Entering(m, t, n, lo), n) /\ mergelines(m, t, n, lo) = g[n].memory
    BY <1>1, <2>1, mergelinesIs
  <2> QED BY <1>2, <2>2, Zenon
<1>5. \A k \in 0..n : f[k] = IF k = 0 THEN s ELSE MoveLine(f[k - 1])
  BY <1>4, Zenon DEF Moves
<1> DEFINE T == {k \in 0..n : ~Looping(f[k], k, m, t, n, nlo, lo, X, G)}
<1>6. ASSUME T # {} PROVE FALSE
  <2>1. T \in SUBSET Nat
    OBVIOUS
  <2> HIDE DEF T
  <2>2. PICK k \in T : \A j \in T : k <= j
    BY <1>6, <2>1, Least
  <2> USE DEF T
  <2>3. k \in 0..n /\ ~Looping(f[k], k, m, t, n, nlo, lo, X, G)
    OBVIOUS
  <2>4. CASE k = 0
    <3>1. f[k] = s
      BY <1>5, <2>3, <2>4
    <3> QED BY <1>3, <2>3, <2>4, <3>1, Zenon
  <2>5. CASE k # 0
    <3>1. PICK j \in Nat : j = k - 1 /\ k = j + 1 /\ j \in 0..n /\ ~(k <= j)
      <4>1. /\ k - 1 \in Nat /\ k = (k - 1) + 1
            /\ k - 1 \in 0..n /\ ~(k <= k - 1)
        BY <1>1, <2>3, <2>5
      <4> QED BY <4>1, Zenon
    <3>2. Looping(f[j], j, m, t, n, nlo, lo, X, G)
      BY <2>2, <3>1
    <3>3. Looping(MoveLine(f[j]), j + 1, m, t, n, nlo, lo, X, G)
      BY <3>2, LoopGoesOn, Zenon
    <3>4. f[k] = MoveLine(f[j])
      BY <1>5, <2>3, <2>5, <3>1
    <3> QED BY <2>3, <3>1, <3>3, <3>4, Zenon
  <2> QED BY <2>4, <2>5
<1>7. Looping(f[n], n, m, t, n, nlo, lo, X, G)
  BY <1>1, <1>6
<1>8. Merged(f[n].memory, m, t, n, X, G)
  BY <1>7, LoopEnds, Zenon
<1> QED BY <1>4, <1>8
-----------------------------------------------------------------------------
(* sequential_sort: its calls *)

SortCall(c, memory, lines, n, temp, to_temp) ==
  /\ c = [memory |-> memory, lines |-> lines, nlines |-> n, temp |-> temp, to_temp |-> to_temp]
  /\ memory \in Memory /\ lines \in Int /\ n \in Nat /\ n >= 2 /\ temp \in Int /\ to_temp \in BOOLEAN
  /\ Places(lines, n) \subseteq Addresses /\ Places(temp, Room(n, to_temp)) \subseteq Addresses
  /\ Places(lines, n) \cap Places(temp, Room(n, to_temp)) = {}

LEMMA SortCallIs ==
  ASSUME NEW c
  PROVE  c \in SortArguments <=>
           \E memory, lines, n, temp, to_temp : SortCall(c, memory, lines, n, temp, to_temp)
<1>1. ASSUME c \in SortArguments
      PROVE  \E memory, lines, n, temp, to_temp : SortCall(c, memory, lines, n, temp, to_temp)
  <2>1. PICK memory \in Memory, lines \in Int, n \in Nat \ {0, 1}, temp \in Int, to_temp \in BOOLEAN :
          c = [memory |-> memory, lines |-> lines, nlines |-> n, temp |-> temp, to_temp |-> to_temp]
    BY <1>1 DEF SortArguments
  <2>2. c.lines = lines /\ c.nlines = n /\ c.temp = temp /\ c.to_temp = to_temp /\ n >= 2
    BY <2>1
  <2>3. /\ Places(c.lines, c.nlines) \subseteq Addresses
        /\ Places(c.temp, Room(c.nlines, c.to_temp)) \subseteq Addresses
        /\ Places(c.lines, c.nlines) \cap Places(c.temp, Room(c.nlines, c.to_temp)) = {}
    BY <1>1, Zenon DEF SortArguments
  <2>4. SortCall(c, memory, lines, n, temp, to_temp)
    BY <2>1, <2>2, <2>3, Zenon DEF SortCall
  <2> QED BY <2>4
<1>2. ASSUME NEW memory, NEW lines, NEW n, NEW temp, NEW to_temp, SortCall(c, memory, lines, n, temp, to_temp)
      PROVE  c \in SortArguments
  <2>1. /\ c = [memory |-> memory, lines |-> lines, nlines |-> n, temp |-> temp, to_temp |-> to_temp]
        /\ memory \in Memory /\ lines \in Int /\ n \in Nat \ {0, 1} /\ temp \in Int /\ to_temp \in BOOLEAN
    BY <1>2 DEF SortCall
  <2>2. c.lines = lines /\ c.nlines = n /\ c.temp = temp /\ c.to_temp = to_temp
    BY <2>1
  <2>3. c \in [memory : Memory, lines : Int, nlines : Nat \ {0, 1}, temp : Int, to_temp : BOOLEAN]
    BY <2>1
  <2>4. /\ Places(c.lines, c.nlines) \subseteq Addresses
        /\ Places(c.temp, Room(c.nlines, c.to_temp)) \subseteq Addresses
        /\ Places(c.lines, c.nlines) \cap Places(c.temp, Room(c.nlines, c.to_temp)) = {}
    BY <1>2, <2>2, Zenon DEF SortCall
  <2> QED BY <2>3, <2>4, Zenon DEF SortArguments
<1> QED BY <1>1, <1>2

\* Where the sorted lines go, and where the sorted LO is before they are merged.
Dest(lines, temp, to_temp) == IF to_temp THEN temp ELSE lines
SortedLo(lines, temp, to_temp) == IF to_temp THEN lines ELSE temp
HiTemp(n, temp, to_temp) == temp - (IF to_temp THEN n \div 2 ELSE 0)

\* The arrays of the two calls and of the merge.
HalfPlaces(lines, n, temp, to_temp) ==
  LET nlo == n \div 2
      nhi == n - nlo
      dest == Dest(lines, temp, to_temp)
      mine == Places(lines, n) \cup Places(temp, Room(n, to_temp))
      hi == Places(lines - nlo, nhi) \cup Places(HiTemp(n, temp, to_temp), Room(nhi, to_temp))
      lo == Places(lines, nlo) \cup Places(temp, Room(nlo, ~ to_temp))
  IN /\ hi \subseteq mine /\ lo \subseteq mine
     /\ Places(lines - nlo, nhi) \cap Places(HiTemp(n, temp, to_temp), Room(nhi, to_temp)) = {}
     /\ Places(lines, nlo) \cap Places(temp, Room(nlo, ~ to_temp)) = {}
     /\ Places(lines, nlo) \cap hi = {} /\ Places(dest - nlo, nhi) \cap lo = {}
     /\ Places(dest, n) \subseteq mine /\ Places(SortedLo(lines, temp, to_temp), nlo) \subseteq mine
     /\ Places(dest, n) \cap Places(SortedLo(lines, temp, to_temp), nlo) = {}

LEMMA HalfPlacesHold ==
  ASSUME NEW lines \in Int, NEW n \in Nat, n > 2, NEW temp \in Int, NEW to_temp \in BOOLEAN,
         Places(lines, n) \cap Places(temp, Room(n, to_temp)) = {}
  PROVE  HalfPlaces(lines, n, temp, to_temp)
<1>1. PICK nlo \in Nat, nhi \in Nat : nlo = n \div 2 /\ nhi = n - nlo
  <2>1. n \div 2 \in Nat /\ n - n \div 2 \in Nat
    OBVIOUS
  <2> QED BY <2>1, Zenon
<1>2. /\ nlo + nhi = n /\ nlo >= 1 /\ nhi >= 2 /\ nlo < n /\ nhi \div 2 <= nlo /\ nlo \div 2 <= nlo
      /\ nhi \div 2 \in Nat /\ nlo \div 2 \in Nat
  BY <1>1
<1>3. PICK hhalf \in Nat, lhalf \in Nat : hhalf = nhi \div 2 /\ lhalf = nlo \div 2 /\ hhalf <= nlo /\ lhalf <= nlo
  BY <1>2
<1>4. CASE to_temp
  <2>1. /\ Room(n, to_temp) = n /\ Room(nhi, to_temp) = nhi /\ Room(nlo, ~ to_temp) = lhalf
        /\ Dest(lines, temp, to_temp) = temp /\ SortedLo(lines, temp, to_temp) = lines
        /\ HiTemp(n, temp, to_temp) = temp - nlo
    BY <1>1, <1>3, <1>4 DEF Room, Dest, SortedLo, HiTemp
  <2>2. (lines - n)..(lines - 1) \cap (temp - n)..(temp - 1) = {}
    BY <2>1 DEF Places
  <2>3. /\ Places(lines - nlo, nhi) \cup Places(temp - nlo, nhi) \subseteq Places(lines, n) \cup Places(temp, n)
        /\ Places(lines, nlo) \cup Places(temp, lhalf) \subseteq Places(lines, n) \cup Places(temp, n)
    BY <1>2, <1>3 DEF Places
  <2>4. /\ Places(lines - nlo, nhi) \subseteq Places(lines, n) /\ Places(temp - nlo, nhi) \subseteq Places(temp, n)
        /\ Places(lines, nlo) \subseteq Places(lines, n) /\ Places(temp, lhalf) \subseteq Places(temp, n)
        /\ Places(lines, nlo) \cap Places(lines - nlo, nhi) = {}
        /\ Places(temp - nlo, nhi) \cap Places(temp, lhalf) = {}
        /\ Places(lines, n) \cap Places(temp, n) = {}
    BY <1>2, <1>3, <2>2 DEF Places
  <2>5. /\ Places(lines - nlo, nhi) \cap Places(temp - nlo, nhi) = {}
        /\ Places(lines, nlo) \cap Places(temp, lhalf) = {}
        /\ Places(lines, nlo) \cap (Places(lines - nlo, nhi) \cup Places(temp - nlo, nhi)) = {}
        /\ Places(temp - nlo, nhi) \cap (Places(lines, nlo) \cup Places(temp, lhalf)) = {}
        /\ Places(temp, n) \subseteq Places(lines, n) \cup Places(temp, n)
        /\ Places(lines, nlo) \subseteq Places(lines, n) \cup Places(temp, n)
        /\ Places(temp, n) \cap Places(lines, nlo) = {}
    BY <2>4
  <2> QED BY <1>1, <2>1, <2>3, <2>5, Zenon DEF HalfPlaces
<1>5. CASE ~ to_temp
  <2>1. /\ Room(n, to_temp) = nlo /\ Room(nhi, to_temp) = hhalf /\ Room(nlo, ~ to_temp) = nlo
        /\ Dest(lines, temp, to_temp) = lines /\ SortedLo(lines, temp, to_temp) = temp
        /\ HiTemp(n, temp, to_temp) = temp
    BY <1>1, <1>3, <1>5 DEF Room, Dest, SortedLo, HiTemp
  <2>2. (lines - n)..(lines - 1) \cap (temp - nlo)..(temp - 1) = {}
    BY <2>1 DEF Places
  <2>3. /\ Places(lines - nlo, nhi) \cup Places(temp, hhalf) \subseteq Places(lines, n) \cup Places(temp, nlo)
        /\ Places(lines, nlo) \cup Places(temp, nlo) \subseteq Places(lines, n) \cup Places(temp, nlo)
    BY <1>2, <1>3 DEF Places
  <2>4. /\ Places(lines - nlo, nhi) \subseteq Places(lines, n) /\ Places(temp, hhalf) \subseteq Places(temp, nlo)
        /\ Places(lines, nlo) \subseteq Places(lines, n)
        /\ Places(lines, nlo) \cap Places(lines - nlo, nhi) = {}
        /\ Places(lines, n) \cap Places(temp, nlo) = {}
    BY <1>2, <1>3, <2>2 DEF Places
  <2>5. /\ Places(lines - nlo, nhi) \cap Places(temp, hhalf) = {}
        /\ Places(lines, nlo) \cap Places(temp, nlo) = {}
        /\ Places(lines, nlo) \cap (Places(lines - nlo, nhi) \cup Places(temp, hhalf)) = {}
        /\ Places(lines - nlo, nhi) \cap (Places(lines, nlo) \cup Places(temp, nlo)) = {}
        /\ Places(lines, n) \subseteq Places(lines, n) \cup Places(temp, nlo)
        /\ Places(temp, nlo) \subseteq Places(lines, n) \cup Places(temp, nlo)
        /\ Places(lines, n) \cap Places(temp, nlo) = {}
    BY <2>4
  <2> QED BY <1>1, <2>1, <2>3, <2>5, Zenon DEF HalfPlaces
<1> QED BY <1>4, <1>5

\* The two calls.
LEMMA HalvesCalled ==
  ASSUME NEW c, NEW memory, NEW lines, NEW n, NEW temp, NEW to_temp,
         SortCall(c, memory, lines, n, temp, to_temp), n # 2, NEW nlo, nlo = n \div 2
  PROVE  /\ HalfPlaces(lines, n, temp, to_temp)
         /\ SortCall(HiHalf(c), memory, lines - nlo, n - nlo, HiTemp(n, temp, to_temp), to_temp)
         /\ \A m \in Memory : 1 < nlo => SortCall(LoHalf(c, m), m, lines, nlo, temp, ~ to_temp)
<1>1. /\ c = [memory |-> memory, lines |-> lines, nlines |-> n, temp |-> temp, to_temp |-> to_temp]
      /\ memory \in Memory /\ lines \in Int /\ n \in Nat /\ n > 2 /\ temp \in Int /\ to_temp \in BOOLEAN
      /\ Places(lines, n) \subseteq Addresses /\ Places(temp, Room(n, to_temp)) \subseteq Addresses
      /\ Places(lines, n) \cap Places(temp, Room(n, to_temp)) = {}
  BY DEF SortCall
<1>2. HalfPlaces(lines, n, temp, to_temp)
  BY <1>1, HalfPlacesHold
<1>3. /\ Places(lines - nlo, n - nlo) \cup Places(HiTemp(n, temp, to_temp), Room(n - nlo, to_temp)) \subseteq
           Places(lines, n) \cup Places(temp, Room(n, to_temp))
      /\ Places(lines, nlo) \cup Places(temp, Room(nlo, ~ to_temp)) \subseteq
           Places(lines, n) \cup Places(temp, Room(n, to_temp))
      /\ Places(lines - nlo, n - nlo) \cap Places(HiTemp(n, temp, to_temp), Room(n - nlo, to_temp)) = {}
      /\ Places(lines, nlo) \cap Places(temp, Room(nlo, ~ to_temp)) = {}
  BY <1>2, Zenon DEF HalfPlaces
<1>4. /\ Places(lines - nlo, n - nlo) \subseteq Addresses
      /\ Places(HiTemp(n, temp, to_temp), Room(n - nlo, to_temp)) \subseteq Addresses
      /\ Places(lines, nlo) \subseteq Addresses /\ Places(temp, Room(nlo, ~ to_temp)) \subseteq Addresses
  BY <1>1, <1>3
<1>5. /\ lines - nlo \in Int /\ n - nlo \in Nat /\ n - nlo >= 2 /\ nlo \in Nat /\ HiTemp(n, temp, to_temp) \in Int
      /\ (~ to_temp) \in BOOLEAN
  <2>1. lines - nlo \in Int /\ n - nlo \in Nat /\ n - nlo >= 2 /\ nlo \in Nat
    BY <1>1
  <2>2. HiTemp(n, temp, to_temp) \in Int
    BY <1>1 DEF HiTemp
  <2>3. (~ to_temp) \in BOOLEAN
    BY Zenon
  <2> QED BY <2>1, <2>2, <2>3, Zenon
<1>6. c.lines = lines /\ c.nlines = n /\ c.temp = temp /\ c.to_temp = to_temp
  BY <1>1
<1>7. HiHalf(c) = [memory |-> memory, lines |-> lines - nlo, nlines |-> n - nlo,
                   temp |-> HiTemp(n, temp, to_temp), to_temp |-> to_temp]
  <2>1. PICK x, y, z : x = lines - nlo /\ y = n - nlo /\ z = HiTemp(n, temp, to_temp)
    OBVIOUS
  <2>2. HiHalf(c) = [c EXCEPT !.lines = x, !.nlines = y, !.temp = z]
    BY <1>6, <2>1, Zenon DEF HiHalf, HiTemp
  <2>3. HiHalf(c) = [memory |-> memory, lines |-> x, nlines |-> y, temp |-> z, to_temp |-> to_temp]
    BY <1>1, <2>2
  <2> QED BY <2>1, <2>3
<1>8. ASSUME NEW m \in Memory
      PROVE  LoHalf(c, m) = [memory |-> m, lines |-> lines, nlines |-> nlo, temp |-> temp, to_temp |-> ~ to_temp]
  <2>1. PICK z : z = ~ to_temp
    OBVIOUS
  <2>2. LoHalf(c, m) = [c EXCEPT !.memory = m, !.nlines = nlo, !.to_temp = z]
    BY <1>6, <2>1, Zenon DEF LoHalf
  <2>3. LoHalf(c, m) = [memory |-> m, lines |-> lines, nlines |-> nlo, temp |-> temp, to_temp |-> z]
    BY <1>1, <2>2
  <2> QED BY <2>1, <2>3, Zenon
<1>9. SortCall(HiHalf(c), memory, lines - nlo, n - nlo, HiTemp(n, temp, to_temp), to_temp)
  BY <1>1, <1>3, <1>4, <1>5, <1>7, Zenon DEF SortCall
<1>10. ASSUME NEW m \in Memory, 1 < nlo PROVE SortCall(LoHalf(c, m), m, lines, nlo, temp, ~ to_temp)
  <2>1. nlo >= 2
    BY <1>5, <1>10
  <2> QED BY <1>1, <1>3, <1>4, <1>5, <1>8, <2>1, Zenon DEF SortCall
<1> QED BY <1>2, <1>9, <1>10

\* What sequential_sort does with lines it divides, f being what it does with fewer.
LoSorted(c, m, f) ==
  IF 1 < c.nlines \div 2 THEN f[LoHalf(c, m)]
  ELSE IF ~ c.to_temp THEN [m EXCEPT ![c.temp - 1] = m[c.lines - 1]] ELSE m
SortStep(c, f) ==
  IF c.nlines = 2 THEN SortTwo(c.memory, c.lines, c.temp, c.to_temp)
  ELSE mergelines(LoSorted(c, f[HiHalf(c)], f), Dest(c.lines, c.temp, c.to_temp), c.nlines,
                  SortedLo(c.lines, c.temp, c.to_temp))

\* mergelines changes memory only before t.
LEMMA mergelinesTyped ==
  ASSUME NEW m \in Memory, NEW t, NEW n, NEW nlo, NEW lo, Arrays(t, n, nlo, lo), nlo = n \div 2
  PROVE  mergelines(m, t, n, lo) \in Memory
<1>1. n \in Nat
  BY DEF Arrays
<1>2. PICK X : X = [k \in 1..n |-> IF k <= nlo THEN m[lo - k] ELSE m[t - k]]
  OBVIOUS
<1>3. Halves(m, t, n, nlo, lo, X)
  <2>1. \A k \in 1..nlo : k \in 1..n /\ k <= nlo
    BY <1>1 DEF Arrays
  <2>2. \A k \in (nlo + 1)..n : k \in 1..n /\ ~(k <= nlo)
    BY <1>1 DEF Arrays
  <2> QED BY <1>2, <2>1, <2>2, Zenon DEF Halves
<1>4. Entering(m, t, n, lo) \in Merging
  BY <1>3, LoopBegins
<1>5. PICK f \in [0..n -> Merging] : mergelines(m, t, n, lo) = f[n].memory
  BY <1>1, <1>4, mergelinesIs
<1>6. f[n] \in Merging
  BY <1>1
<1> QED BY <1>5, <1>6 DEF Merging, MergeState

LEMMA SortTwoTyped ==
  ASSUME NEW c, NEW memory, NEW lines, NEW n, NEW temp, NEW to_temp,
         SortCall(c, memory, lines, n, temp, to_temp), n = 2
  PROVE  /\ SortTwo(memory, lines, temp, to_temp) \in Memory
         /\ lines - 1 \in Addresses /\ lines - 2 \in Addresses /\ temp - 1 \in Addresses
         /\ to_temp => temp - 2 \in Addresses
         /\ memory[lines - 1] \in Line /\ memory[lines - 2] \in Line
<1>1. /\ memory \in Memory /\ lines \in Int /\ temp \in Int /\ to_temp \in BOOLEAN
      /\ Places(lines, 2) \subseteq Addresses /\ Places(temp, Room(2, to_temp)) \subseteq Addresses
  BY DEF SortCall
<1>2. lines - 1 \in Addresses /\ lines - 2 \in Addresses
  BY <1>1 DEF Places
<1>3. temp - 1 \in Addresses /\ (to_temp => temp - 2 \in Addresses)
  BY <1>1 DEF Places, Room
<1>4. PICK a \in Line, b \in Line : a = memory[lines - 1] /\ b = memory[lines - 2]
  BY <1>1, <1>2 DEF Memory
<1>5. SortTwo(memory, lines, temp, to_temp) \in Memory
  <2> DEFINE swap == 0 < compare(a, b)
  <2>1. CASE to_temp
    <3>1. PICK x \in Line, y \in Line : x = (IF swap THEN b ELSE a) /\ y = (IF swap THEN a ELSE b)
      OBVIOUS
    <3>2. SortTwo(memory, lines, temp, to_temp) = [[memory EXCEPT ![temp - 1] = x] EXCEPT ![temp - 2] = y]
      BY <1>4, <2>1, <3>1 DEF SortTwo
    <3> QED BY <1>1, <1>3, <2>1, <3>2 DEF Memory
  <2>2. CASE ~ to_temp
    <3>1. SortTwo(memory, lines, temp, to_temp) =
            IF swap THEN [[[memory EXCEPT ![temp - 1] = a] EXCEPT ![lines - 1] = b] EXCEPT ![lines - 2] = a]
            ELSE memory
      BY <1>4, <2>2 DEF SortTwo
    <3> QED BY <1>1, <1>2, <1>3, <2>2, <3>1 DEF Memory
  <2> QED BY <2>1, <2>2
<1> QED BY <1>2, <1>3, <1>4, <1>5

\* The arrays that are merged.
LEMMA MergeArrays ==
  ASSUME NEW c, NEW memory, NEW lines, NEW n, NEW temp, NEW to_temp,
         SortCall(c, memory, lines, n, temp, to_temp), n # 2, NEW nlo, nlo = n \div 2
  PROVE  Arrays(Dest(lines, temp, to_temp), n, nlo, SortedLo(lines, temp, to_temp))
<1>1. /\ lines \in Int /\ n \in Nat /\ n > 2 /\ temp \in Int /\ to_temp \in BOOLEAN
      /\ Places(lines, n) \subseteq Addresses /\ Places(temp, Room(n, to_temp)) \subseteq Addresses
  BY DEF SortCall
<1>2. HalfPlaces(lines, n, temp, to_temp)
  BY HalvesCalled, Zenon
<1>3. PICK dest, slo : dest = Dest(lines, temp, to_temp) /\ slo = SortedLo(lines, temp, to_temp)
  OBVIOUS
<1>4. /\ Places(dest, n) \subseteq Places(lines, n) \cup Places(temp, Room(n, to_temp))
      /\ Places(slo, nlo) \subseteq Places(lines, n) \cup Places(temp, Room(n, to_temp))
      /\ Places(dest, n) \cap Places(slo, nlo) = {}
  BY <1>2, <1>3, Zenon DEF HalfPlaces
<1>5. Places(dest, n) \subseteq Addresses /\ Places(slo, nlo) \subseteq Addresses
  BY <1>1, <1>4
<1>6. dest \in Int /\ slo \in Int
  BY <1>1, <1>3 DEF Dest, SortedLo
<1>7. nlo \in 1..n
  BY <1>1
<1> QED BY <1>1, <1>3, <1>4, <1>5, <1>6, <1>7, Zenon DEF Arrays

LEMMA LoSortedTyped ==
  ASSUME NEW c, NEW memory, NEW lines, NEW n, NEW temp, NEW to_temp,
         SortCall(c, memory, lines, n, temp, to_temp), n # 2, NEW m \in Memory, NEW f,
         1 < n \div 2 => f[LoHalf(c, m)] \in Memory
  PROVE  LoSorted(c, m, f) \in Memory
<1>1. /\ c = [memory |-> memory, lines |-> lines, nlines |-> n, temp |-> temp, to_temp |-> to_temp]
      /\ lines \in Int /\ n \in Nat /\ n > 2 /\ temp \in Int /\ to_temp \in BOOLEAN
      /\ Places(lines, n) \subseteq Addresses /\ Places(temp, Room(n, to_temp)) \subseteq Addresses
  BY DEF SortCall
<1>2. c.lines = lines /\ c.nlines = n /\ c.temp = temp /\ c.to_temp = to_temp
  BY <1>1
<1>3. CASE 1 < n \div 2
  <2>1. LoSorted(c, m, f) = f[LoHalf(c, m)]
    BY <1>2, <1>3, Zenon DEF LoSorted
  <2> QED BY <1>3, <2>1
<1>4. CASE ~(1 < n \div 2) /\ to_temp
  <2>1. LoSorted(c, m, f) = m
    BY <1>2, <1>4, Zenon DEF LoSorted
  <2> QED BY <2>1
<1>5. CASE ~(1 < n \div 2) /\ ~ to_temp
  <2>1. LoSorted(c, m, f) = [m EXCEPT ![temp - 1] = m[lines - 1]]
    BY <1>2, <1>5, Zenon DEF LoSorted
  <2>2. temp - 1 \in Addresses /\ lines - 1 \in Addresses
    BY <1>1, <1>5 DEF Places, Room
  <2> QED BY <2>1, <2>2 DEF Memory
<1> QED BY <1>3, <1>4, <1>5

\* A function that is such a step everywhere exists, and sequential_sort is one.
Sorts(f) == \A c \in SortArguments : f[c] = SortStep(c, f)

LEMMA SortsExist == \E f \in [SortArguments -> Memory] : Sorts(f)
<1> DEFINE D == SortArguments
<1>1. PICK measure : measure = [c \in D |-> c.nlines]
  OBVIOUS
<1>2. PICK step : step = [c \in D |-> [h \in [Below(D, measure, c) -> Memory] |-> SortStep(c, h)]]
  OBVIOUS
<1>3. measure \in [D -> Nat]
  BY <1>1 DEF SortArguments
<1>4. ASSUME NEW c \in D, c.nlines # 2
      PROVE  /\ HiHalf(c) \in Below(D, measure, c)
             /\ \A m \in Memory : 1 < c.nlines \div 2 => LoHalf(c, m) \in Below(D, measure, c)
  <2>1. PICK memory, lines, n, temp, to_temp : SortCall(c, memory, lines, n, temp, to_temp)
    BY SortCallIs
  <2>2. c.nlines = n /\ n \in Nat /\ n > 2
    BY <1>4, <2>1 DEF SortCall
  <2>3. PICK nlo \in Nat : nlo = n \div 2 /\ n - nlo < n /\ nlo < n
    BY <2>2
  <2>4. /\ SortCall(HiHalf(c), memory, lines - nlo, n - nlo, HiTemp(n, temp, to_temp), to_temp)
        /\ \A m \in Memory : 1 < nlo => SortCall(LoHalf(c, m), m, lines, nlo, temp, ~ to_temp)
    BY <2>1, <2>2, <2>3, <1>4, HalvesCalled
  <2>5. HiHalf(c) \in D /\ HiHalf(c).nlines = n - nlo
    <3>1. HiHalf(c) \in D
      BY <2>4, SortCallIs, Zenon
    <3> QED BY <2>4, <3>1 DEF SortCall
  <2>6. ASSUME NEW m \in Memory, 1 < nlo PROVE LoHalf(c, m) \in D /\ LoHalf(c, m).nlines = nlo
    <3>1. LoHalf(c, m) \in D
      BY <2>4, <2>6, SortCallIs, Zenon
    <3>2. SortCall(LoHalf(c, m), m, lines, nlo, temp, ~ to_temp)
      BY <2>4, <2>6
    <3> QED BY <3>1, <3>2 DEF SortCall
  <2> HIDE DEF D
  <2>7. \A x \in D : measure[x] = x.nlines
    BY <1>1
  <2> QED BY <2>2, <2>3, <2>5, <2>6, <2>7 DEF Below
<1>5. ASSUME NEW c \in D, NEW h \in [Below(D, measure, c) -> Memory] PROVE SortStep(c, h) \in Memory
  <2>1. PICK memory, lines, n, temp, to_temp : SortCall(c, memory, lines, n, temp, to_temp)
    BY SortCallIs
  <2>2. c.memory = memory /\ c.lines = lines /\ c.nlines = n /\ c.temp = temp /\ c.to_temp = to_temp
    BY <2>1 DEF SortCall
  <2>3. CASE n = 2
    <3>1. SortStep(c, h) = SortTwo(memory, lines, temp, to_temp)
      BY <2>2, <2>3, Zenon DEF SortStep
    <3> QED BY <2>1, <2>3, <3>1, SortTwoTyped
  <2>4. CASE n # 2
    <3>1. PICK m \in Memory : m = h[HiHalf(c)]
      BY <1>4, <2>2, <2>4
    <3>2. 1 < n \div 2 => h[LoHalf(c, m)] \in Memory
      BY <1>4, <2>2, <2>4
    <3>3. LoSorted(c, m, h) \in Memory
      BY <2>1, <2>4, <3>2, LoSortedTyped, Zenon
    <3>4. PICK nlo : nlo = n \div 2
      OBVIOUS
    <3>5. Arrays(Dest(lines, temp, to_temp), n, nlo, SortedLo(lines, temp, to_temp))
      BY <2>1, <2>4, <3>4, MergeArrays, Zenon
    <3>6. mergelines(LoSorted(c, m, h), Dest(lines, temp, to_temp), n, SortedLo(lines, temp, to_temp)) \in Memory
      BY <3>3, <3>4, <3>5, mergelinesTyped, Zenon
    <3> QED BY <2>2, <2>4, <3>1, <3>6, Zenon DEF SortStep
  <2> QED BY <2>3, <2>4
<1>6. \A c \in D : step[c] \in [[Below(D, measure, c) -> Memory] -> Memory]
  BY <1>2, <1>5
<1>7. Steps(D, Memory, measure, step)
  BY <1>3, <1>6 DEF Steps
<1>8. PICK f \in [D -> Memory] : Stepwise(D, measure, step, D, f)
  BY <1>7, Recursion
<1>9. ASSUME NEW c \in D PROVE f[c] = SortStep(c, f)
  <2>1. PICK h : h = Values(D, measure, c, f)
    OBVIOUS
  <2>2. h \in [Below(D, measure, c) -> Memory] /\ \A x \in Below(D, measure, c) : h[x] = f[x]
    BY <2>1 DEF Values, Below
  <2>3. f[c] = SortStep(c, h)
    <3>1. f[c] = step[c][h]
      BY <1>8, <2>1 DEF Stepwise
    <3> QED BY <1>2, <2>2, <3>1
  <2>4. SortStep(c, h) = SortStep(c, f)
    <3>1. CASE c.nlines = 2
      BY <3>1, Zenon DEF SortStep
    <3>2. CASE c.nlines # 2
      <4>1. PICK m \in Memory : m = h[HiHalf(c)] /\ m = f[HiHalf(c)]
        BY <1>4, <2>2, <3>2
      <4>2. 1 < c.nlines \div 2 => h[LoHalf(c, m)] = f[LoHalf(c, m)]
        BY <1>4, <2>2, <3>2
      <4>3. LoSorted(c, m, h) = LoSorted(c, m, f)
        BY <4>2, Zenon DEF LoSorted
      <4> QED BY <3>2, <4>1, <4>3, Zenon DEF SortStep
    <3> QED BY <3>1, <3>2
  <2> QED BY <2>3, <2>4
<1> QED BY <1>8, <1>9 DEF Sorts

LEMMA sequential_sortIs == Sorts(sequential_sort)
<1>1. PICK f \in [SortArguments -> Memory] : Sorts(f)
  BY SortsExist
<1>2. f = [c \in SortArguments |-> SortStep(c, f)]
  BY <1>1 DEF Sorts
<1>3. sequential_sort = CHOOSE g : g = [c \in SortArguments |-> SortStep(c, g)]
  BY Zenon DEF sequential_sort, SortStep, LoSorted, Dest, SortedLo
<1>4. sequential_sort = [c \in SortArguments |-> SortStep(c, sequential_sort)]
  BY <1>2, <1>3, Zenon
<1>5. PICK g : g = sequential_sort
  OBVIOUS
<1>6. \A c \in SortArguments : g[c] = SortStep(c, g)
  <2>1. g = [c \in SortArguments |-> SortStep(c, g)]
    BY <1>4, <1>5, Zenon
  <2> QED BY <2>1
<1> QED BY <1>5, <1>6, Zenon DEF Sorts
-----------------------------------------------------------------------------
(* sequential_sort sorts *)

\* The array p of n lines.  A line is ahead of another of the array f if it compares less, or
\* equal and is before it there; g holds the lines of f in this order, each of them once.
Lines(m, p, n) == [k \in 1..n |-> m[p - k]]
Ahead(f, i, j) == compare(f[i], f[j]) < 0 \/ (compare(f[i], f[j]) = 0 /\ i < j)
Lists(order, f, g, n) ==
  /\ order \in [1..n -> 1..n]
  /\ \A k \in 1..n : g[k] = f[order[k]]
  /\ \A j, k \in 1..n : j < k => Ahead(f, order[j], order[k])
StablySorted(f, g, n) == \E order : Lists(order, f, g, n)

\* What sequential_sort promises: the n lines are before dest, in order, equal lines as they
\* were, and nothing has changed but the lines and the scratch space.
Outside(m, before, lines, n, temp, to_temp) ==
  \A p \in Addresses \ (Places(lines, n) \cup Places(temp, Room(n, to_temp))) : m[p] = before[p]
SortedFrom(m, before, lines, n, temp, to_temp) ==
  /\ m \in Memory
  /\ StablySorted(Lines(before, lines, n), Lines(m, Dest(lines, temp, to_temp), n), n)
  /\ Outside(m, before, lines, n, temp, to_temp)

LEMMA LinesTyped ==
  ASSUME NEW m \in Memory, NEW p \in Int, NEW n \in Nat, Places(p, n) \subseteq Addresses
  PROVE  Lines(m, p, n) \in [1..n -> Line]
<1>1. \A k \in 1..n : p - k \in Addresses
  BY DEF Places
<1> QED BY <1>1 DEF Lines, Memory

LEMMA AheadTransitive ==
  ASSUME NEW n \in Nat, NEW f, f \in [1..n -> Line],
         NEW i, NEW j, NEW k, i \in 1..n, j \in 1..n, k \in 1..n, Ahead(f, i, j), Ahead(f, j, k)
  PROVE  Ahead(f, i, k)
<1>1. PICK x \in Int, y \in Int, z \in Int : x = f[i].key /\ y = f[j].key /\ z = f[k].key
  BY DEF Line
<1>2. (x - y < 0 \/ (x - y = 0 /\ i < j)) /\ (y - z < 0 \/ (y - z = 0 /\ j < k))
  BY <1>1 DEF Ahead, compare
<1>3. x - z < 0 \/ (x - z = 0 /\ i < k)
  BY <1>2
<1> QED BY <1>1, <1>3 DEF Ahead, compare

\* Two lines.
LEMMA SortTwoRight ==
  ASSUME NEW c, NEW memory, NEW lines, NEW n, NEW temp, NEW to_temp,
         SortCall(c, memory, lines, n, temp, to_temp), n = 2
  PROVE  SortedFrom(SortTwo(memory, lines, temp, to_temp), memory, lines, n, temp, to_temp)
<1>1. /\ memory \in Memory /\ lines \in Int /\ temp \in Int /\ to_temp \in BOOLEAN
      /\ Places(lines, n) \cap Places(temp, Room(n, to_temp)) = {}
  BY DEF SortCall
<1>2. PICK m \in Memory : m = SortTwo(memory, lines, temp, to_temp)
  BY SortTwoTyped
<1>3. PICK l1 \in Addresses, l2 \in Addresses, t1 \in Addresses :
        l1 = lines - 1 /\ l2 = lines - 2 /\ t1 = temp - 1
  BY SortTwoTyped
<1>4. PICK a \in Line, b \in Line : a = memory[l1] /\ b = memory[l2]
  BY <1>3, SortTwoTyped
<1>5. PICK t2 : t2 = temp - 2 /\ (to_temp => t2 \in Addresses)
  BY SortTwoTyped
<1>6. /\ l1 # l2 /\ t1 # t2 /\ l1 # t1 /\ l2 # t1
      /\ l1 \in Places(lines, n) /\ l2 \in Places(lines, n) /\ t1 \in Places(temp, Room(n, to_temp))
      /\ to_temp => t2 \in Places(temp, Room(n, to_temp))
  <2>1. l1 \in Places(lines, n) /\ l2 \in Places(lines, n) /\ l1 # l2 /\ t1 # t2
    BY <1>1, <1>3, <1>5 DEF Places
  <2>2. t1 \in Places(temp, Room(n, to_temp)) /\ (to_temp => t2 \in Places(temp, Room(n, to_temp)))
    BY <1>1, <1>3, <1>5 DEF Places, Room
  <2>3. l1 # t1 /\ l2 # t1
    BY <1>1, <2>1, <2>2
  <2> QED BY <2>1, <2>2, <2>3, Zenon
<1>7. PICK swap \in BOOLEAN : swap <=> 0 < compare(a, b)
  <2>1. (0 < compare(a, b)) \in BOOLEAN
    OBVIOUS
  <2> QED BY <2>1, Zenon
<1>8. PICK first \in Line, second \in Line : first = (IF swap THEN b ELSE a) /\ second = (IF swap THEN a ELSE b)
  OBVIOUS
<1>9. PICK dest : dest = Dest(lines, temp, to_temp) /\ dest \in Int
  BY <1>1 DEF Dest
<1>10. /\ m[dest - 1] = first /\ m[dest - 2] = second
       /\ \A p \in Addresses : p \notin Places(lines, n) /\ p \notin Places(temp, Room(n, to_temp)) => m[p] = memory[p]
  <2>1. CASE to_temp
    <3>1. m = [[memory EXCEPT ![t1] = first] EXCEPT ![t2] = second]
      <4>1. m = [[memory EXCEPT ![temp - 1] = IF swap THEN b ELSE a] EXCEPT ![temp - 2] = IF swap THEN a ELSE b]
        BY <1>2, <1>3, <1>4, <1>7, <2>1, Zenon DEF SortTwo
      <4> QED BY <1>3, <1>5, <1>8, <4>1
    <3>2. dest - 1 = t1 /\ dest - 2 = t2
      BY <1>3, <1>5, <1>9, <2>1 DEF Dest
    <3> QED BY <1>5, <1>6, <2>1, <3>1, <3>2 DEF Memory
  <2>2. CASE ~ to_temp /\ swap
    <3>1. m = [[[memory EXCEPT ![t1] = a] EXCEPT ![l1] = b] EXCEPT ![l2] = a]
      <4>1. m = [[[memory EXCEPT ![temp - 1] = a] EXCEPT ![lines - 1] = b] EXCEPT ![lines - 2] = a]
        BY <1>2, <1>3, <1>4, <1>7, <2>2, Zenon DEF SortTwo
      <4> QED BY <1>3, <4>1
    <3>2. dest - 1 = l1 /\ dest - 2 = l2 /\ first = b /\ second = a
      BY <1>3, <1>8, <1>9, <2>2 DEF Dest
    <3> QED BY <1>6, <3>1, <3>2 DEF Memory
  <2>3. CASE ~ to_temp /\ ~ swap
    <3>1. m = memory
      BY <1>2, <1>3, <1>4, <1>7, <2>3, Zenon DEF SortTwo
    <3>2. dest - 1 = l1 /\ dest - 2 = l2 /\ first = a /\ second = b
      BY <1>3, <1>8, <1>9, <2>3 DEF Dest
    <3> QED BY <1>4, <3>1, <3>2
  <2> QED BY <2>1, <2>2, <2>3
<1>11. PICK f, g : f = Lines(memory, lines, n) /\ g = Lines(m, dest, n)
  OBVIOUS
<1>12. 1..n = {1, 2} /\ 1 \in 1..n /\ 2 \in 1..n
  OBVIOUS
<1>13. f[1] = a /\ f[2] = b /\ g[1] = first /\ g[2] = second
  BY <1>3, <1>4, <1>10, <1>11, <1>12 DEF Lines
<1>14. PICK order : order = [k \in 1..n |-> IF swap THEN 3 - k ELSE k]
  OBVIOUS
<1>15. order \in [1..n -> 1..n] /\ order[1] = (IF swap THEN 2 ELSE 1) /\ order[2] = (IF swap THEN 1 ELSE 2)
  BY <1>14
<1>16. \A k \in 1..n : g[k] = f[order[k]]
  BY <1>8, <1>12, <1>13, <1>15
<1>17. \A j, k \in 1..n : j < k => j = 1 /\ k = 2
  OBVIOUS
<1>18. Ahead(f, order[1], order[2])
  <2>1. PICK x \in Int, y \in Int : x = a.key /\ y = b.key
    BY DEF Line
  <2>2. compare(a, b) = x - y /\ compare(b, a) = y - x
    BY <2>1 DEF compare
  <2>3. swap => y - x < 0
    BY <1>7, <2>2
  <2>4. ~ swap => x - y < 0 \/ x - y = 0
    BY <1>7, <2>2
  <2>5. 1 < 2
    OBVIOUS
  <2> QED BY <1>13, <1>15, <2>2, <2>3, <2>4, <2>5 DEF Ahead
<1>19. Lists(order, f, g, n)
  BY <1>15, <1>16, <1>17, <1>18, Zenon DEF Lists
<1>20. Outside(m, memory, lines, n, temp, to_temp)
  BY <1>10 DEF Outside
<1> QED BY <1>2, <1>9, <1>11, <1>19, <1>20, Zenon DEF SortedFrom, StablySorted

\* One line is sorted where it is, or copied to the scratch space.
LEMMA OneLine ==
  ASSUME NEW c, NEW memory, NEW lines, NEW n, NEW temp, NEW to_temp,
         SortCall(c, memory, lines, n, temp, to_temp), n # 2, NEW nlo, nlo = n \div 2, ~(1 < nlo),
         NEW m \in Memory, NEW f
  PROVE  SortedFrom(LoSorted(c, m, f), m, lines, nlo, temp, ~ to_temp)
<1>1. /\ c = [memory |-> memory, lines |-> lines, nlines |-> n, temp |-> temp, to_temp |-> to_temp]
      /\ lines \in Int /\ n \in Nat /\ n > 2 /\ temp \in Int /\ to_temp \in BOOLEAN
      /\ Places(lines, n) \subseteq Addresses /\ Places(temp, Room(n, to_temp)) \subseteq Addresses
  BY DEF SortCall
<1>2. c.lines = lines /\ c.nlines = n /\ c.temp = temp /\ c.to_temp = to_temp
  BY <1>1
<1>3. nlo = 1 /\ n = 3
  BY <1>1
<1>4. PICK m2 \in Memory : m2 = LoSorted(c, m, f)
  BY LoSortedTyped, <1>3
<1>5. PICK dest : dest = Dest(lines, temp, ~ to_temp)
  OBVIOUS
<1>6. /\ m2[dest - 1] = m[lines - 1]
      /\ \A p \in Addresses : p \notin Places(temp, Room(nlo, ~ to_temp)) => m2[p] = m[p]
  <2>1. CASE to_temp
    <3>1. m2 = m
      BY <1>2, <1>4, <2>1, Zenon DEF LoSorted
    <3>2. dest = lines
      BY <1>5, <2>1, Zenon DEF Dest
    <3> QED BY <3>1, <3>2
  <2>2. CASE ~ to_temp
    <3>1. m2 = [m EXCEPT ![temp - 1] = m[lines - 1]]
      BY <1>2, <1>4, <2>2, Zenon DEF LoSorted
    <3>2. dest = temp
      BY <1>5, <2>2, Zenon DEF Dest
    <3>3. temp - 1 \in Addresses /\ temp - 1 \in Places(temp, 1)
      BY <1>1, <1>3, <2>2 DEF Places, Room
    <3>4. Room(nlo, ~ to_temp) = 1
      BY <1>3, <2>2 DEF Room
    <3> QED BY <3>1, <3>2, <3>3, <3>4 DEF Memory
  <2> QED BY <2>1, <2>2
<1>7. PICK a, g, order : a = Lines(m, lines, nlo) /\ g = Lines(m2, dest, nlo) /\ order = [k \in 1..1 |-> k]
  OBVIOUS
<1>8. a[1] = m[lines - 1] /\ g[1] = m2[dest - 1] /\ order[1] = 1 /\ order \in [1..1 -> 1..1]
  <2>1. 1 \in 1..nlo /\ 1 \in 1..1
    BY <1>3
  <2> QED BY <1>7, <2>1 DEF Lines
<1>9. \A k \in 1..1 : k = 1
  OBVIOUS
<1>10. Lists(order, a, g, 1)
  <2>1. \A k \in 1..1 : g[k] = a[order[k]]
    BY <1>6, <1>8, <1>9
  <2>2. \A j, k \in 1..1 : j < k => Ahead(a, order[j], order[k])
    OBVIOUS
  <2> QED BY <1>8, <2>1, <2>2, Zenon DEF Lists
<1>11. Outside(m2, m, lines, nlo, temp, ~ to_temp)
  BY <1>6 DEF Outside
<1> QED BY <1>3, <1>4, <1>5, <1>7, <1>10, <1>11, Zenon DEF SortedFrom, StablySorted

\* The order of all lines that two sorted halves agree with.
Joint(pl, ph, n, nlo) == [k \in 1..n |-> IF k <= nlo THEN pl[k] ELSE nlo + ph[k - nlo]]
Order(f, q, n) == {x \in (1..n) \X (1..n) : Ahead(f, q[x[1]], q[x[2]])}

Jointly(q, pl, ph, n, nlo) ==
  /\ q \in [1..n -> 1..n]
  /\ \A k \in 1..nlo : q[k] = pl[k] /\ q[k] <= nlo
  /\ \A k \in (nlo + 1)..n : k - nlo \in 1..(n - nlo) /\ q[k] = nlo + ph[k - nlo] /\ nlo < q[k]

LEMMA JointIs ==
  ASSUME NEW n \in Nat, NEW nlo \in 1..n, NEW pl, pl \in [1..nlo -> 1..nlo],
         NEW ph, ph \in [1..(n - nlo) -> 1..(n - nlo)], NEW q, q = Joint(pl, ph, n, nlo)
  PROVE  Jointly(q, pl, ph, n, nlo)
<1>1. \A k \in 1..n : (k <= nlo => k \in 1..nlo) /\ (~(k <= nlo) => k - nlo \in 1..(n - nlo))
  OBVIOUS
<1>2. \A k \in 1..n : (IF k <= nlo THEN pl[k] ELSE nlo + ph[k - nlo]) \in 1..n
  <2>1. ASSUME NEW k \in 1..n PROVE (IF k <= nlo THEN pl[k] ELSE nlo + ph[k - nlo]) \in 1..n
    <3>1. CASE k <= nlo
      <4>1. pl[k] \in 1..nlo
        BY <1>1, <3>1
      <4> QED BY <3>1, <4>1
    <3>2. CASE ~(k <= nlo)
      <4>1. PICK x \in 1..(n - nlo) : x = ph[k - nlo]
        BY <1>1, <3>2
      <4>2. nlo + x \in 1..n
        OBVIOUS
      <4> QED BY <3>2, <4>1, <4>2, Zenon
    <3> QED BY <3>1, <3>2
  <2> QED BY <2>1
<1>3. q = [k \in 1..n |-> IF k <= nlo THEN pl[k] ELSE nlo + ph[k - nlo]]
  BY DEF Joint
<1>4. q \in [1..n -> 1..n]
  BY <1>2, <1>3
<1>5. ASSUME NEW k \in 1..nlo PROVE q[k] = pl[k] /\ q[k] <= nlo
  <2>1. k \in 1..n /\ k <= nlo
    OBVIOUS
  <2>2. q[k] = pl[k] /\ pl[k] \in 1..nlo
    BY <1>3, <2>1
  <2> QED BY <2>2
<1>6. ASSUME NEW k \in (nlo + 1)..n
      PROVE  k - nlo \in 1..(n - nlo) /\ q[k] = nlo + ph[k - nlo] /\ nlo < q[k]
  <2>1. k \in 1..n /\ ~(k <= nlo) /\ k - nlo \in 1..(n - nlo)
    OBVIOUS
  <2>2. PICK x \in 1..(n - nlo) : x = ph[k - nlo]
    BY <2>1
  <2>3. q[k] = nlo + x
    BY <1>3, <2>1, <2>2
  <2> QED BY <2>1, <2>2, <2>3
<1> QED BY <1>4, <1>5, <1>6, Zenon DEF Jointly

LEMMA HalvesOrder ==
  ASSUME NEW n \in Nat, NEW nlo \in 1..n, NEW f, f \in [1..n -> Line],
         NEW fl, \A i \in 1..nlo : fl[i] = f[i], NEW fh, \A i \in 1..(n - nlo) : fh[i] = f[nlo + i],
         NEW pl, NEW gl, Lists(pl, fl, gl, nlo), NEW ph, NEW gh, Lists(ph, fh, gh, n - nlo),
         NEW q, q = Joint(pl, ph, n, nlo), NEW X, \A k \in 1..n : X[k] = f[q[k]]
  PROVE  HalfOrder(X, n, nlo, Order(f, q, n))
<1>1. /\ pl \in [1..nlo -> 1..nlo] /\ ph \in [1..(n - nlo) -> 1..(n - nlo)]
      /\ \A j, k \in 1..nlo : j < k => Ahead(fl, pl[j], pl[k])
      /\ \A j, k \in 1..(n - nlo) : j < k => Ahead(fh, ph[j], ph[k])
  BY Zenon DEF Lists
<1>2. /\ q \in [1..n -> 1..n]
      /\ \A k \in 1..nlo : q[k] = pl[k] /\ q[k] <= nlo
      /\ \A k \in (nlo + 1)..n : k - nlo \in 1..(n - nlo) /\ q[k] = nlo + ph[k - nlo] /\ nlo < q[k]
  <2>1. Jointly(q, pl, ph, n, nlo)
    BY <1>1, JointIs, Zenon
  <2> QED BY <2>1, Zenon DEF Jointly
<1>3. PICK G : G = Order(f, q, n)
  OBVIOUS
<1>4. \A j, k \in 1..n : <<j, k>> \in G <=> Ahead(f, q[j], q[k])
  BY <1>3 DEF Order
<1>5. \A k \in 1..n : q[k] \in 1..n
  BY <1>2
<1>6. ASSUME NEW i \in 1..n, NEW j \in 1..n, NEW k \in 1..n, <<i, j>> \in G, <<j, k>> \in G
      PROVE  <<i, k>> \in G
  <2>1. Ahead(f, q[i], q[j]) /\ Ahead(f, q[j], q[k]) /\ q[i] \in 1..n /\ q[j] \in 1..n /\ q[k] \in 1..n
    BY <1>4, <1>5, <1>6
  <2>2. Ahead(f, q[i], q[k])
    BY <2>1, AheadTransitive, Zenon
  <2> QED BY <1>4, <2>2
<1>7. ASSUME NEW j \in 1..n, NEW k \in 1..n, j < k, k <= nlo PROVE <<j, k>> \in G
  <2>1. j \in 1..nlo /\ k \in 1..nlo
    BY <1>7
  <2>2. Ahead(fl, pl[j], pl[k]) /\ pl[j] \in 1..nlo /\ pl[k] \in 1..nlo
    BY <1>1, <1>7, <2>1
  <2>3. Ahead(f, pl[j], pl[k])
    <3>1. fl[pl[j]] = f[pl[j]] /\ fl[pl[k]] = f[pl[k]]
      BY <2>2
    <3> QED BY <2>2, <3>1, Zenon DEF Ahead
  <2>4. q[j] = pl[j] /\ q[k] = pl[k]
    BY <1>2, <2>1
  <2> QED BY <1>4, <2>3, <2>4
<1>8. ASSUME NEW j \in 1..n, NEW k \in 1..n, j < k, nlo < j PROVE <<j, k>> \in G
  <2>1. j \in (nlo + 1)..n /\ k \in (nlo + 1)..n
    BY <1>8
  <2>2. PICK x \in 1..(n - nlo), y \in 1..(n - nlo) : x = j - nlo /\ y = k - nlo /\ x < y
    <3>1. j - nlo \in 1..(n - nlo) /\ k - nlo \in 1..(n - nlo) /\ j - nlo < k - nlo
      BY <1>8
    <3> QED BY <3>1, Zenon
  <2>3. PICK v \in 1..(n - nlo), w \in 1..(n - nlo) : v = ph[x] /\ w = ph[y]
    BY <1>1
  <2>4. Ahead(fh, v, w)
    BY <1>1, <2>2, <2>3
  <2>5. fh[v] = f[nlo + v] /\ fh[w] = f[nlo + w] /\ (v < w => nlo + v < nlo + w)
    OBVIOUS
  <2>6. Ahead(f, nlo + v, nlo + w)
    BY <2>4, <2>5, Zenon DEF Ahead
  <2>7. q[j] = nlo + v /\ q[k] = nlo + w
    BY <1>2, <2>1, <2>2, <2>3
  <2> QED BY <1>4, <2>6, <2>7
<1>9. ASSUME NEW j \in 1..nlo, NEW k \in (nlo + 1)..n
      PROVE  IF compare(X[j], X[k]) <= 0 THEN <<j, k>> \in G ELSE <<k, j>> \in G
  <2>1. j \in 1..n /\ k \in 1..n
    OBVIOUS
  <2>2. X[j] = f[q[j]] /\ X[k] = f[q[k]] /\ q[j] \in 1..n /\ q[k] \in 1..n
    BY <1>5, <2>1
  <2>3. q[j] < q[k]
    <3>1. q[j] <= nlo /\ nlo < q[k]
      BY <1>2
    <3> QED BY <2>2, <3>1
  <2>4. PICK x \in Int, y \in Int : x = f[q[j]].key /\ y = f[q[k]].key
    BY <2>2 DEF Line
  <2>5. compare(X[j], X[k]) = x - y /\ compare(f[q[j]], f[q[k]]) = x - y /\ compare(f[q[k]], f[q[j]]) = y - x
    BY <2>2, <2>4 DEF compare
  <2>6. CASE x - y <= 0
    <3>1. Ahead(f, q[j], q[k])
      BY <2>3, <2>5, <2>6 DEF Ahead
    <3> QED BY <1>4, <2>1, <2>5, <2>6, <3>1
  <2>7. CASE ~(x - y <= 0)
    <3>1. y - x < 0
      BY <2>7
    <3>2. Ahead(f, q[k], q[j])
      BY <2>5, <3>1, Zenon DEF Ahead
    <3> QED BY <1>4, <2>1, <2>5, <2>7, <3>2
  <2> QED BY <2>6, <2>7
<1>10. \A j, k \in 1..n : j < k /\ (k <= nlo \/ nlo < j) => <<j, k>> \in G
  BY <1>7, <1>8
<1>11. HalfOrder(X, n, nlo, G)
  BY <1>6, <1>9, <1>10, Zenon DEF HalfOrder
<1> QED BY <1>3, <1>11

\* Merged by that order, the lines are stably sorted.
LEMMA MergedSorted ==
  ASSUME NEW n \in Nat, NEW f, NEW q, q \in [1..n -> 1..n],
         NEW X, \A k \in 1..n : X[k] = f[q[k]],
         NEW m, NEW before, NEW t, Merged(m, before, t, n, X, Order(f, q, n))
  PROVE  StablySorted(f, Lines(m, t, n), n)
<1>1. PICK r \in [1..n -> 1..n] : /\ \A k \in 1..n : m[t - k] = X[r[k]]
                                  /\ \A j, k \in 1..n : j < k => <<r[j], r[k]>> \in Order(f, q, n)
  BY Zenon DEF Merged
<1>2. PICK order : order = [k \in 1..n |-> q[r[k]]]
  OBVIOUS
<1>3. \A k \in 1..n : r[k] \in 1..n /\ order[k] = q[r[k]] /\ q[r[k]] \in 1..n
  BY <1>1, <1>2
<1>4. order \in [1..n -> 1..n]
  BY <1>2, <1>3
<1>5. PICK g : g = Lines(m, t, n)
  OBVIOUS
<1>6. \A k \in 1..n : g[k] = f[order[k]]
  <2>1. \A k \in 1..n : g[k] = m[t - k]
    BY <1>5 DEF Lines
  <2>2. ASSUME NEW k \in 1..n PROVE g[k] = f[order[k]]
    <3>1. g[k] = X[r[k]]
      BY <1>1, <2>1
    <3> QED BY <1>3, <3>1
  <2> QED BY <2>2
<1>7. ASSUME NEW j \in 1..n, NEW k \in 1..n, j < k PROVE Ahead(f, order[j], order[k])
  <2>1. PICK x \in 1..n, y \in 1..n : x = r[j] /\ y = r[k]
    BY <1>3
  <2>2. <<x, y>> \in Order(f, q, n)
    BY <1>1, <1>7, <2>1
  <2>3. Ahead(f, q[x], q[y])
    BY <2>2 DEF Order
  <2> QED BY <1>3, <2>1, <2>3
<1>8. Lists(order, f, g, n)
  BY <1>4, <1>6, <1>7, Zenon DEF Lists
<1> QED BY <1>5, <1>8, Zenon DEF StablySorted

\* The halves sorted by two calls and then merged are sorted.
LEMMA DivideRight ==
  ASSUME NEW c, NEW memory, NEW lines, NEW n, NEW temp, NEW to_temp,
         SortCall(c, memory, lines, n, temp, to_temp), n # 2, NEW nlo, nlo = n \div 2,
         NEW m1, SortedFrom(m1, memory, lines - nlo, n - nlo, HiTemp(n, temp, to_temp), to_temp),
         NEW m2, SortedFrom(m2, m1, lines, nlo, temp, ~ to_temp)
  PROVE  SortedFrom(mergelines(m2, Dest(lines, temp, to_temp), n, SortedLo(lines, temp, to_temp)),
                    memory, lines, n, temp, to_temp)
<1>1. /\ memory \in Memory /\ lines \in Int /\ n \in Nat /\ n > 2 /\ temp \in Int /\ to_temp \in BOOLEAN
      /\ Places(lines, n) \subseteq Addresses /\ Places(temp, Room(n, to_temp)) \subseteq Addresses
  BY DEF SortCall
<1>2. nlo \in 1..n /\ n - nlo \in Nat /\ nlo \in Nat /\ nlo <= n
  BY <1>1
<1>3. PICK nhi \in Nat : nhi = n - nlo
  BY <1>2
<1>4. PICK dest \in Int, slo \in Int : dest = Dest(lines, temp, to_temp) /\ slo = SortedLo(lines, temp, to_temp)
  BY <1>1 DEF Dest, SortedLo
<1>5. /\ Dest(lines - nlo, HiTemp(n, temp, to_temp), to_temp) = dest - nlo
      /\ Dest(lines, temp, ~ to_temp) = slo
  BY <1>1, <1>2, <1>4 DEF Dest, HiTemp, SortedLo
<1>6. PICK hi, lo, mine : /\ hi = Places(lines - nlo, nhi) \cup Places(HiTemp(n, temp, to_temp), Room(nhi, to_temp))
                          /\ lo = Places(lines, nlo) \cup Places(temp, Room(nlo, ~ to_temp))
                          /\ mine = Places(lines, n) \cup Places(temp, Room(n, to_temp))
  OBVIOUS
<1>7. /\ hi \subseteq mine /\ lo \subseteq mine /\ mine \subseteq Addresses
      /\ Places(lines, nlo) \cap hi = {} /\ Places(dest - nlo, nhi) \cap lo = {}
      /\ Places(dest, n) \subseteq mine
  <2>1. HalfPlaces(lines, n, temp, to_temp)
    BY HalvesCalled, Zenon
  <2>2. /\ hi \subseteq mine /\ lo \subseteq mine
        /\ Places(lines, nlo) \cap hi = {} /\ Places(dest - nlo, nhi) \cap lo = {}
        /\ Places(dest, n) \subseteq mine
    BY <1>3, <1>4, <1>6, <2>1, Zenon DEF HalfPlaces
  <2> QED BY <1>1, <1>6, <2>2
<1>8. Arrays(dest, n, nlo, slo)
  BY <1>4, MergeArrays, Zenon
<1>9. PICK f, fh, gh, fl, gl :
        /\ f = Lines(memory, lines, n)
        /\ fh = Lines(memory, lines - nlo, nhi) /\ gh = Lines(m1, dest - nlo, nhi)
        /\ fl = Lines(m1, lines, nlo) /\ gl = Lines(m2, slo, nlo)
  OBVIOUS
<1>10. /\ m1 \in Memory /\ \A p \in Addresses \ hi : m1[p] = memory[p]
       /\ StablySorted(fh, gh, nhi)
  BY <1>3, <1>5, <1>6, <1>9, Zenon DEF SortedFrom, Outside
<1>11. /\ m2 \in Memory /\ \A p \in Addresses \ lo : m2[p] = m1[p]
       /\ StablySorted(fl, gl, nlo)
  BY <1>3, <1>5, <1>6, <1>9, Zenon DEF SortedFrom, Outside
<1>12. PICK ph, pl : Lists(ph, fh, gh, nhi) /\ Lists(pl, fl, gl, nlo)
  BY <1>10, <1>11, Zenon DEF StablySorted
<1>13. /\ ph \in [1..nhi -> 1..nhi] /\ \A k \in 1..nhi : gh[k] = fh[ph[k]]
       /\ pl \in [1..nlo -> 1..nlo] /\ \A k \in 1..nlo : gl[k] = fl[pl[k]]
  BY <1>12, Zenon DEF Lists
<1>14. f \in [1..n -> Line]
  BY <1>1, <1>9, LinesTyped
<1>15. \A i \in 1..nlo : fl[i] = f[i]
  <2>1. ASSUME NEW i \in 1..nlo PROVE fl[i] = f[i]
    <3>1. i \in 1..n /\ lines - i \in Places(lines, nlo) /\ lines - i \in Places(lines, n)
      BY <1>1, <1>2 DEF Places
    <3>2. m1[lines - i] = memory[lines - i]
      BY <1>1, <1>7, <1>10, <3>1
    <3>3. fl[i] = m1[lines - i] /\ f[i] = memory[lines - i]
      BY <1>9, <3>1 DEF Lines
    <3> QED BY <3>2, <3>3
  <2> QED BY <2>1
<1>16. \A i \in 1..nhi : fh[i] = f[nlo + i]
  <2>1. ASSUME NEW i \in 1..nhi PROVE fh[i] = f[nlo + i]
    <3>1. nlo + i \in 1..n /\ lines - (nlo + i) = (lines - nlo) - i
      BY <1>1, <1>2, <1>3
    <3>2. fh[i] = memory[(lines - nlo) - i] /\ f[nlo + i] = memory[lines - (nlo + i)]
      BY <1>9, <3>1 DEF Lines
    <3> QED BY <3>1, <3>2
  <2> QED BY <2>1
<1>17. PICK q : q = Joint(pl, ph, n, nlo)
  OBVIOUS
<1>18. Jointly(q, pl, ph, n, nlo)
  BY <1>1, <1>2, <1>3, <1>13, <1>17, JointIs
<1>19. /\ q \in [1..n -> 1..n]
       /\ \A k \in 1..nlo : q[k] = pl[k] /\ q[k] <= nlo
       /\ \A k \in (nlo + 1)..n : k - nlo \in 1..nhi /\ q[k] = nlo + ph[k - nlo] /\ nlo < q[k]
  BY <1>3, <1>18, Zenon DEF Jointly
<1>20. PICK X : X = [k \in 1..n |-> f[q[k]]]
  OBVIOUS
<1>21. \A k \in 1..n : X[k] = f[q[k]]
  BY <1>20
<1>22. HalfOrder(X, n, nlo, Order(f, q, n))
  <2>1. \A i \in 1..(n - nlo) : fh[i] = f[nlo + i]
    BY <1>3, <1>16
  <2>2. Lists(ph, fh, gh, n - nlo)
    BY <1>3, <1>12
  <2> QED BY <1>1, <1>2, <1>12, <1>14, <1>15, <1>17, <1>21, <2>1, <2>2, HalvesOrder, Zenon
<1>23. Halves(m2, dest, n, nlo, slo, X)
  <2>1. ASSUME NEW k \in 1..nlo PROVE m2[slo - k] = X[k]
    <3>1. k \in 1..n
      BY <1>1, <1>2
    <3>2. pl[k] \in 1..nlo /\ gl[k] = fl[pl[k]]
      BY <1>13
    <3>3. gl[k] = m2[slo - k]
      BY <1>9 DEF Lines
    <3>4. fl[pl[k]] = f[pl[k]] /\ q[k] = pl[k]
      BY <1>15, <1>19, <3>2
    <3> QED BY <1>21, <3>1, <3>2, <3>3, <3>4, Zenon
  <2>2. ASSUME NEW k \in (nlo + 1)..n PROVE m2[dest - k] = X[k]
    <3>1. k \in 1..n
      BY <1>1, <1>2
    <3>2. PICK x \in 1..nhi : x = k - nlo
      BY <1>19
    <3>3. PICK v \in 1..nhi : v = ph[x] /\ gh[x] = fh[v]
      BY <1>13
    <3>4. (dest - nlo) - x = dest - k
      BY <1>2, <3>1, <3>2
    <3>5. dest - k \in Places(dest - nlo, nhi) /\ dest - k \in Places(dest, n)
      BY <1>1, <1>2, <1>3, <3>1, <3>2 DEF Places
    <3>6. m2[dest - k] = m1[dest - k]
      BY <1>7, <1>11, <3>5
    <3>7. gh[x] = m1[dest - k]
      BY <1>9, <3>4 DEF Lines
    <3>8. fh[v] = f[nlo + v] /\ q[k] = nlo + v
      BY <1>16, <1>19, <3>2, <3>3
    <3> QED BY <1>21, <3>1, <3>3, <3>6, <3>7, <3>8, Zenon
  <2> QED BY <2>1, <2>2, Zenon DEF Halves
<1>24. PICK m3 : m3 = mergelines(m2, dest, n, slo)
  OBVIOUS
<1>25. Merged(m3, m2, dest, n, X, Order(f, q, n))
  BY <1>8, <1>11, <1>22, <1>23, <1>24, MergeRight, Zenon
<1>26. StablySorted(f, Lines(m3, dest, n), n)
  BY <1>1, <1>19, <1>21, <1>25, MergedSorted, Zenon
<1>27. m3 \in Memory /\ \A p \in Addresses \ Places(dest, n) : m3[p] = m2[p]
  BY <1>25, Zenon DEF Merged, Kept
<1>28. \A p \in Addresses \ mine : m3[p] = memory[p]
  BY <1>7, <1>10, <1>11, <1>27
<1>29. Outside(m3, memory, lines, n, temp, to_temp)
  BY <1>6, <1>28, Zenon DEF Outside
<1> QED BY <1>4, <1>9, <1>24, <1>26, <1>27, <1>29, Zenon DEF SortedFrom

\* sequential_sort, whatever the number of lines, sorts stably in the 1.5 n lines it is given, or
\* in 2 n lines to the scratch space, and changes no other line.
SortedRight(c, m) == SortedFrom(m, c.memory, c.lines, c.nlines, c.temp, c.to_temp)

THEOREM SequentialSortRight == \A c \in SortArguments : SortedRight(c, sequential_sort[c])
<1>1. PICK sort : sort = sequential_sort /\ Sorts(sort)
  BY sequential_sortIs
<1> DEFINE T == {k \in Nat : \E c \in SortArguments : c.nlines = k /\ ~ SortedRight(c, sort[c])}
<1>2. ASSUME T # {} PROVE FALSE
  <2>1. T \in SUBSET Nat
    OBVIOUS
  <2> HIDE DEF T
  <2>2. PICK n \in T : \A j \in T : n <= j
    BY <1>2, <2>1, Least
  <2> USE DEF T
  <2>3. PICK c \in SortArguments : n \in Nat /\ c.nlines = n /\ ~ SortedRight(c, sort[c])
    OBVIOUS
  <2>4. ASSUME NEW d \in SortArguments, d.nlines \in Nat, d.nlines < n PROVE SortedRight(d, sort[d])
    <3>1. d.nlines \notin T
      BY <2>2, <2>3, <2>4
    <3> QED BY <2>4, <3>1
  <2> HIDE DEF T
  <2>5. PICK memory, lines, k, temp, to_temp : SortCall(c, memory, lines, k, temp, to_temp)
    BY SortCallIs
  <2>6. c.memory = memory /\ c.lines = lines /\ k = n /\ c.temp = temp /\ c.to_temp = to_temp
    BY <2>3, <2>5 DEF SortCall
  <2>7. SortCall(c, memory, lines, n, temp, to_temp) /\ n >= 2
    BY <2>5, <2>6 DEF SortCall
  <2>8. sort[c] = SortStep(c, sort)
    BY <1>1 DEF Sorts
  <2>9. ~ SortedFrom(sort[c], memory, lines, n, temp, to_temp)
    BY <2>3, <2>6, Zenon DEF SortedRight
  <2>10. CASE n = 2
    <3>1. sort[c] = SortTwo(memory, lines, temp, to_temp)
      BY <2>3, <2>6, <2>8, <2>10, Zenon DEF SortStep
    <3>2. SortedFrom(SortTwo(memory, lines, temp, to_temp), memory, lines, n, temp, to_temp)
      BY <2>7, <2>10, SortTwoRight, Zenon
    <3> QED BY <2>9, <3>1, <3>2
  <2>11. CASE n # 2
    <3>1. PICK nlo \in Nat : nlo = n \div 2 /\ nlo < n /\ n - nlo < n /\ n - nlo \in Nat
      <4>1. n \div 2 \in Nat /\ n \div 2 < n /\ n - n \div 2 < n /\ n - n \div 2 \in Nat
        BY <2>3, <2>7
      <4> QED BY <4>1, Zenon
    <3>2. /\ SortCall(HiHalf(c), memory, lines - nlo, n - nlo, HiTemp(n, temp, to_temp), to_temp)
          /\ \A m \in Memory : 1 < nlo => SortCall(LoHalf(c, m), m, lines, nlo, temp, ~ to_temp)
      BY <2>7, <2>11, <3>1, HalvesCalled
    <3>3. PICK m1 : m1 = sort[HiHalf(c)]
      OBVIOUS
    <3>4. SortedFrom(m1, memory, lines - nlo, n - nlo, HiTemp(n, temp, to_temp), to_temp)
      <4>1. PICK d \in SortArguments : d = HiHalf(c)
        BY <3>2, SortCallIs, Zenon
      <4>2. /\ d.memory = memory /\ d.lines = lines - nlo /\ d.nlines = n - nlo
            /\ d.temp = HiTemp(n, temp, to_temp) /\ d.to_temp = to_temp
        BY <3>2, <4>1 DEF SortCall
      <4>3. SortedRight(d, sort[d])
        BY <2>4, <3>1, <4>2
      <4> QED BY <3>3, <4>1, <4>2, <4>3, Zenon DEF SortedRight
    <3>5. m1 \in Memory
      BY <3>4 DEF SortedFrom
    <3>6. PICK m2 : m2 = LoSorted(c, m1, sort)
      OBVIOUS
    <3>7. SortedFrom(m2, m1, lines, nlo, temp, ~ to_temp)
      <4>1. CASE 1 < nlo
        <5>1. SortCall(LoHalf(c, m1), m1, lines, nlo, temp, ~ to_temp)
          BY <3>2, <3>5, <4>1
        <5>2. PICK d \in SortArguments : d = LoHalf(c, m1)
          BY <5>1, SortCallIs, Zenon
        <5>3. d.memory = m1 /\ d.lines = lines /\ d.nlines = nlo /\ d.temp = temp /\ d.to_temp = ~ to_temp
          BY <5>1, <5>2 DEF SortCall
        <5>4. SortedRight(d, sort[d])
          BY <2>4, <3>1, <5>3
        <5>5. m2 = sort[d]
          BY <2>3, <3>1, <3>6, <4>1, <5>2, Zenon DEF LoSorted
        <5> QED BY <5>3, <5>4, <5>5, Zenon DEF SortedRight
      <4>2. CASE ~(1 < nlo)
        <5>1. SortedFrom(LoSorted(c, m1, sort), m1, lines, nlo, temp, ~ to_temp)
          BY <2>7, <2>11, <3>1, <3>5, <4>2, OneLine
        <5> QED BY <3>6, <5>1
      <4> QED BY <4>1, <4>2
    <3>8. sort[c] = mergelines(m2, Dest(lines, temp, to_temp), n, SortedLo(lines, temp, to_temp))
      BY <2>3, <2>6, <2>8, <2>11, <3>3, <3>6, Zenon DEF SortStep
    <3>9. SortedFrom(sort[c], memory, lines, n, temp, to_temp)
      <4>1. SortedFrom(mergelines(m2, Dest(lines, temp, to_temp), n, SortedLo(lines, temp, to_temp)),
                       memory, lines, n, temp, to_temp)
        BY <2>7, <2>11, <3>1, <3>4, <3>7, DivideRight
      <4> QED BY <3>8, <4>1, Zenon
    <3> QED BY <2>9, <3>9
  <2> QED BY <2>10, <2>11
<1>3. ASSUME NEW c \in SortArguments PROVE SortedRight(c, sort[c])
  <2>1. c.nlines \in Nat
    BY DEF SortArguments
  <2> QED BY <1>2, <2>1
<1> QED BY <1>1, <1>3
===================================================================================

---------------------------- MODULE TempFilesProofs ----------------------------
(***************************************************************************)
(* Theorems about TempFiles.  The inductive invariant names the list: a    *)
(* sequence of addresses without repetition, from temphead to the last     *)
(* node, which the pointers follow; and it says of each handler that walks *)
(* the list how far it has come and what is left on disk behind it.        *)
(***************************************************************************)
EXTENDS TempFiles, TLAPS, FiniteSetTheorems, WellFoundedInduction

Addresses == Files \cup {TempHead}
Phases == {"main", "sort", "create", "link", "tail", "unlink", "remove", "zapped",
           "fork", "forked"}
Critical == {"create", "link", "tail", "unlink", "remove", "fork", "forked"}

\* What a pointer holds, or will hold again when pipe_fork has put the list back.
Pointer(p) == IF pc = "fork" /\ p = TempHead THEN saved ELSE next[p]

\* The address after the k-th of s, and the files from there on.
After(s, n, k) == IF k = n THEN Null ELSE s[k + 1]
Rest(s, n, k) == {s[j] : j \in (k + 1)..n}

Linked(s, n) ==
  /\ s[1] = TempHead
  /\ \A j, k \in 1..n : s[j] = s[k] => j = k
  /\ \A k \in 2..n : s[k] \in nodes
  /\ \A k \in 1..n : Pointer(s[k]) = After(s, n, k)

\* What the locals say about the list at each statement.
Placed(s, n) ==
  /\ pc \in {"create", "link"} => node \in nodes \ Rest(s, n, 1) /\ next[node] = Null
  /\ pc = "tail" => n >= 2 /\ node = s[n]
  /\ pc \in {"unlink", "remove"} =>
       \E k \in 2..n : node = s[k] /\ pnode = s[k - 1] /\ after = After(s, n, k)
  /\ pc = "zapped" => node \notin Rest(s, n, 1) /\ TailOf = s[n]
  /\ pc = "fork" => next[TempHead] = Null
  /\ pc \notin {"tail", "zapped"} => temptail = s[n]

OnDisk(s, n) == CASE pc = "link" -> Rest(s, n, 1) \cup {node}
                  [] pc = "remove" -> Rest(s, n, 1) \ {node}
                  [] OTHER -> Rest(s, n, 1)

\* A handler t that has come to the address after the k-th: what is on disk lies before
\* it, and all of that is on disk if no other thread cleans up as well.
SweptBy(t, s, n) ==
  \E k \in 1..n : /\ cleaning[t] = After(s, n, k)
                  /\ disk \subseteq Rest(s, n, k)
                  /\ Cleaners = {t} => Rest(s, n, k) \subseteq disk

Swept(s, n) == /\ Cleaners = {} => disk = OnDisk(s, n)
               /\ \A t \in Cleaners : SweptBy(t, s, n)

\* Who may clean up, and where: outside the critical sections.
Control ==
  /\ pc \in Phases
  /\ pc \in Critical => Main \in blocked
  /\ Cleaners \subseteq blocked
  /\ \A t \in Cleaners : pc = "sort" \/ (t = Main /\ pc \in {"main", "zapped"})
  /\ exiting # Null => pc = "sort" \/ (exiting = Main /\ pc = "main")
  /\ exiting # Null /\ cleaning[exiting] = "no" => next[TempHead] = Null

ListInv(s, n) == Linked(s, n) /\ Placed(s, n) /\ Swept(s, n)

Ends == /\ child \in {Null, "none"}
        /\ ended # "" => disk = {}
        /\ twice => \E t, u \in Cleaners : t # u

Inv == /\ TypeOK /\ Ends
       /\ ended = "" => /\ Control
                        /\ \E n \in Nat \ {0} : \E s \in [1..n -> Addresses] : ListInv(s, n)

-----------------------------------------------------------------------------
(* Names and chains *)

LEMMA Names ==
  /\ Null \notin Addresses /\ "no" \notin Addresses /\ "none" \notin Addresses
  /\ TempHead \notin Files /\ TempHead # Null
  /\ Null # "no" /\ Null # "none" /\ Null \notin Threads /\ Main \notin Workers
  /\ Main \in Threads
BY FilesAssumption DEF Addresses, Null, TempHead, Main, Threads

LEMMA Positions ==
  \A n \in Nat \ {0} : /\ 1 \in 1..n
                       /\ \A k \in 1..n : \A j \in (k + 1)..n : j \in (1 + 1)..n
OBVIOUS

\* A set of natural numbers has a least element.
LEMMA LeastNumber ==
  ASSUME NEW T \in SUBSET Nat, T # {}
  PROVE  \E x \in T : \A y \in T : x <= y
<1> DEFINE R == OpToRel(<, Nat)
<1>1. IsWellFoundedOn(R, Nat)
  BY NatLessThanWellFounded
<1>2. \A x, y \in Nat : <<x, y>> \in R <=> x < y
  BY DEF OpToRel
<1> HIDE DEF R
<1>3. PICK x \in T : \A y \in T : ~ (<<y, x>> \in R)
  <2>1. T \subseteq Nat
    OBVIOUS
  <2> QED BY <1>1, <2>1, WFMin, Zenon
<1>4. ASSUME NEW y \in T PROVE x <= y
  <2>1. x \in Nat /\ y \in Nat /\ ~(y < x)
    BY <1>2, <1>3
  <2> QED BY <2>1
<1> QED BY <1>4

\* The pointers determine the chain from an address: where two chains first differ, the
\* pointer before that would hold two addresses.
LEMMA SameChain ==
  ASSUME NEW m \in Nat \ {0}, NEW n \in Nat \ {0},
         NEW s \in [1..m -> Addresses], NEW u \in [1..n -> Addresses],
         s[1] = u[1],
         \A k \in 1..m : next[s[k]] = After(s, m, k),
         \A k \in 1..n : next[u[k]] = After(u, n, k)
  PROVE  m = n /\ s = u
<1>1. \A k \in Nat : k \in 1..m /\ k \in 1..n => s[k] = u[k]
  <2> DEFINE T == {k \in Nat : k \in 1..m /\ k \in 1..n /\ s[k] # u[k]}
  <2> SUFFICES ASSUME T # {} PROVE FALSE
    OBVIOUS
  <2>1. PICK x \in T : \A y \in T : x <= y
    <3>1. T \in SUBSET Nat
      OBVIOUS
    <3> HIDE DEF T
    <3> QED BY <3>1, LeastNumber
  <2>2. x \in 2..m /\ x \in 2..n /\ s[x] # u[x]
    BY <2>1
  <2>3. x - 1 \in 1..m /\ x - 1 \in 1..n /\ x - 1 # m /\ x - 1 # n /\ (x - 1) + 1 = x
    BY <2>2
  <2>4. s[x - 1] = u[x - 1]
    <3>1. x - 1 \notin T
      BY <2>1, <2>2
    <3> QED BY <3>1, <2>3
  <2>5. next[s[x - 1]] = s[x] /\ next[u[x - 1]] = u[x]
    BY <2>3 DEF After
  <2> QED BY <2>2, <2>4, <2>5
<1>2. ~(m < n)
  <2> SUFFICES ASSUME m < n PROVE FALSE
    OBVIOUS
  <2>1. m \in 1..m /\ m \in 1..n /\ m # n /\ m + 1 \in 1..n
    OBVIOUS
  <2>2. next[s[m]] = Null /\ next[u[m]] = u[m + 1] /\ u[m + 1] \in Addresses
    BY <2>1 DEF After
  <2> QED BY <1>1, <2>1, <2>2, Names
<1>3. ~(n < m)
  <2> SUFFICES ASSUME n < m PROVE FALSE
    OBVIOUS
  <2>1. n \in 1..m /\ n \in 1..n /\ m # n /\ n + 1 \in 1..m
    OBVIOUS
  <2>2. next[u[n]] = Null /\ next[s[n]] = s[n + 1] /\ s[n + 1] \in Addresses
    BY <2>1 DEF After
  <2> QED BY <1>1, <2>1, <2>2, Names
<1>4. m = n
  BY <1>2, <1>3
<1> QED BY <1>1, <1>4

\* A chain without repetition is no longer than there are addresses.
LEMMA ChainShort ==
  ASSUME NEW n \in Nat \ {0}, NEW s \in [1..n -> Addresses],
         \A j, k \in 1..n : s[j] = s[k] => j = k
  PROVE  Cardinality(Files) \in Nat /\ n <= Cardinality(Files) + 1
<1>1. IsFiniteSet(Files) /\ TempHead \notin Files
  BY FilesAssumption, Names
<1>2. IsFiniteSet(Addresses) /\ Cardinality(Addresses) = Cardinality(Files) + 1
  BY <1>1, FS_AddElement DEF Addresses
<1>3. s \in Injection(1..n, Addresses)
  BY DEF Injection, IsInjective
<1>4. Cardinality(1..n) <= Cardinality(Addresses)
  BY <1>2, <1>3, FS_Injection
<1>5. Cardinality(1..n) = n
  BY FS_Interval
<1> QED BY <1>1, <1>2, <1>4, <1>5, FS_CardinalityType

\* From is the chain that the pointers follow.
LEMMA FromIs ==
  ASSUME NEW n \in Nat \ {0}, NEW s \in [1..n -> Addresses],
         \A j, k \in 1..n : s[j] = s[k] => j = k,
         \A k \in 1..n : next[s[k]] = After(s, n, k)
  PROVE  From(s[1]) = s
<1>1. Len(s) = n
  OBVIOUS
<1>2. s \in Chains
  <2>1. n \in 1..(Cardinality(Files) + 1)
    BY ChainShort
  <2> QED BY <2>1 DEF Chains, Addresses
<1>3. IsChain(s, s[1])
  BY <1>1 DEF IsChain, After
<1>4. ASSUME NEW u \in Chains, IsChain(u, s[1]) PROVE u = s
  <2>1. PICK m \in 1..(Cardinality(Files) + 1) : u \in [1..m -> Addresses]
    BY DEF Chains, Addresses
  <2>2. Cardinality(Files) \in Nat
    BY ChainShort
  <2>3. m \in Nat \ {0} /\ Len(u) = m
    BY <2>1, <2>2
  <2>4. u[1] = s[1] /\ \A k \in 1..m : next[u[k]] = After(u, m, k)
    BY <1>4, <2>3 DEF IsChain, After
  <2> QED BY <2>1, <2>3, <2>4, SameChain
<1> QED BY <1>2, <1>3, <1>4 DEF From

-----------------------------------------------------------------------------
(* The invariant holds initially, and the steps of the main thread keep it *)

LEMMA InvInit == Init => Inv
<1> SUFFICES ASSUME Init PROVE Inv
  OBVIOUS
<1>1. TypeOK
  BY Names DEF Init, TypeOK, Addresses, Threads
<1>2. Cleaners = {}
  BY DEF Init, Cleaners
<1>3. Control
  BY <1>2 DEF Init, Control, Phases, Critical
<1>P. PICK s \in [1..1 -> Addresses] : s[1] = TempHead
  <2> DEFINE s == [k \in 1..1 |-> TempHead]
  <2>1. s \in [1..1 -> Addresses] /\ s[1] = TempHead
    BY DEF Addresses
  <2> QED BY <2>1
<1>4. Rest(s, 1, 1) = {}
  BY DEF Rest
<1>5. Linked(s, 1)
  <2>1. pc # "fork" /\ next[TempHead] = Null
    BY DEF Init
  <2>2. \A k \in 1..1 : k = 1
    OBVIOUS
  <2>3. \A k \in 2..1 : FALSE
    OBVIOUS
  <2>4. \A k \in 1..1 : Pointer(s[k]) = After(s, 1, k)
    BY <1>P, <2>1, <2>2 DEF Pointer, After
  <2> QED BY <1>P, <2>2, <2>3, <2>4 DEF Linked
<1>6. Placed(s, 1) /\ Swept(s, 1)
  BY <1>P, <1>2, <1>4 DEF Init, Placed, Swept, OnDisk
<1>7. Ends
  BY DEF Init, Ends
<1>8. \E n \in Nat \ {0} : \E z \in [1..n -> Addresses] : ListInv(z, n)
  <2>1. 1 \in Nat \ {0}
    OBVIOUS
  <2> QED BY <1>5, <1>6, <2>1 DEF ListInv
<1> QED BY <1>1, <1>3, <1>7, <1>8 DEF Inv

\* While the main thread runs outside the sorting, nobody cleans up.
LEMMA Quiet ==
  ASSUME Inv, Runs(Main), pc # "sort"
  PROVE  Cleaners = {} /\ exiting = Null /\ ended = ""
BY Names DEF Inv, Control, Runs, Cleaners

\* A step of the main thread while nobody cleans up keeps the invariant if it leaves a
\* list whose files are those on disk.
LEMMA QuietStep ==
  ASSUME Inv, ended = "", Cleaners = {}, exiting = Null, TypeOK',
         cleaning' = cleaning, exiting' = exiting, twice' => twice, ended' = ended,
         child' \in {Null, "none"}, pc' \in Phases, pc' \in Critical => Main \in blocked',
         NEW n \in Nat \ {0}, NEW s \in [1..n -> Addresses],
         Linked(s, n)', Placed(s, n)', disk' = OnDisk(s, n)'
  PROVE  Inv'
<1>1. Cleaners' = {}
  BY DEF Cleaners
<1>2. Control'
  BY <1>1 DEF Control
<1>3. Swept(s, n)'
  BY <1>1 DEF Swept
<1>4. Ends'
  BY DEF Ends, Inv
<1>5. ListInv(s, n)'
  BY <1>3 DEF ListInv
<1> QED BY <1>2, <1>4, <1>5 DEF Inv

\* A file of the list is a node, and temphead is none.
LEMMA ListFacts ==
  ASSUME TypeOK, NEW n \in Nat \ {0}, NEW s \in [1..n -> Addresses], Linked(s, n)
  PROVE  /\ \A k \in 2..n : s[k] \in nodes /\ s[k] \in Files /\ s[k] # TempHead /\ s[k] # Null
         /\ \A k \in 1..n : s[k] # Null
         /\ \A k \in 1..n : k \in 2..n \/ s[k] = TempHead
         /\ Rest(s, n, 1) \subseteq nodes
<1>1. \A k \in 2..n : s[k] \in nodes /\ s[k] \in Files
  BY DEF Linked, TypeOK
<1>2. \A k \in 1..n : k = 1 \/ k \in 2..n
  OBVIOUS
<1> QED BY <1>1, <1>2, Names DEF Linked, Rest

\* The steps of create_temp_file.
LEMMA CreateSteps ==
  ASSUME Inv, CreateEnter \/ CreateFile \/ CreateFails \/ CreateLink \/ CreateTail
  PROVE  Inv'
<1>1. Cleaners = {} /\ exiting = Null /\ ended = "" /\ Runs(Main)
  <2>1. Runs(Main) /\ pc # "sort"
    BY DEF CreateEnter, CreateFile, CreateFails, CreateLink, CreateTail, Step
  <2> QED BY <2>1, Quiet
<1>N. PICK n \in Nat \ {0} : \E z \in [1..n -> Addresses] : ListInv(z, n)
  BY <1>1 DEF Inv
<1>2. PICK s \in [1..n -> Addresses] : ListInv(s, n)
  BY <1>N
<1>3. Linked(s, n) /\ Placed(s, n) /\ disk = OnDisk(s, n)
  BY <1>1, <1>2 DEF ListInv, Swept
<1>4. TypeOK /\ child \in {Null, "none"} /\ Control
  BY <1>1 DEF Inv, Ends
<1>5. CASE CreateEnter
  <2>1. PICK f \in Files \ (nodes \cup disk) :
          node' = f /\ nodes' = nodes \cup {f} /\ next' = [next EXCEPT ![f] = Null]
    BY <1>5 DEF CreateEnter
  <2>2. /\ pc = "main" /\ pc' = "create" /\ blocked' = blocked \cup {Main}
        /\ UNCHANGED <<temptail, disk, pnode, after, saved, cleaning, exiting, child, twice, ended>>
    BY <1>5 DEF CreateEnter, Step, cs_enter, Masked
  <2>3. TypeOK'
    BY <1>4, <2>1, <2>2, Names DEF TypeOK, Addresses
  <2>4. Linked(s, n)'
    <3>1. \A k \in 1..n : s[k] # f
      BY <1>3, <1>4, <2>1, ListFacts, Names
    <3>2. \A k \in 1..n : next'[s[k]] = next[s[k]]
      BY <1>4, <2>1, <3>1 DEF TypeOK, Addresses
    <3> QED BY <1>3, <2>1, <2>2, <3>2 DEF Linked, Pointer, After
  <2>5. f \notin Rest(s, n, 1)
    BY <1>3, <1>4, <2>1, ListFacts
  <2>6. Placed(s, n)'
    <3>1. next'[f] = Null
      BY <1>4, <2>1 DEF TypeOK
    <3> QED BY <1>3, <2>1, <2>2, <2>5, <3>1 DEF Placed, Rest
  <2>7. disk' = OnDisk(s, n)'
    BY <1>3, <2>2 DEF OnDisk, Rest
  <2> QED BY <1>1, <1>4, <2>2, <2>3, <2>4, <2>6, <2>7, QuietStep DEF Phases
<1>6. CASE CreateFile
  <2>1. /\ pc = "create" /\ pc' = "link" /\ disk' = disk \cup {node}
        /\ UNCHANGED <<next, temptail, nodes, node, pnode, after, saved, blocked, cleaning,
                       exiting, child, twice, ended>>
    BY <1>6 DEF CreateFile, Step, listVars, locals
  <2>2. node \in nodes
    BY <1>3, <2>1 DEF Placed
  <2>3. TypeOK'
    BY <1>4, <2>1, <2>2 DEF TypeOK
  <2>4. Linked(s, n)'
    BY <1>3, <2>1 DEF Linked, Pointer, After
  <2>5. Placed(s, n)'
    BY <1>3, <2>1 DEF Placed, Rest
  <2>6. disk' = OnDisk(s, n)'
    BY <1>3, <2>1 DEF OnDisk, Rest
  <2>7. Main \in blocked
    BY <1>4, <2>1 DEF Control, Critical
  <2> QED BY <1>1, <1>4, <2>1, <2>3, <2>4, <2>5, <2>6, <2>7, QuietStep DEF Phases
<1>7. CASE CreateFails
  <2>1. /\ pc = "create" /\ pc' = "main" /\ nodes' = nodes \ {node}
        /\ blocked' = blocked \ {Main}
        /\ UNCHANGED <<next, temptail, disk, node, pnode, after, saved, cleaning,
                       exiting, child, twice, ended>>
    BY <1>7 DEF CreateFails, Step, locals, cs_leave
  <2>2. node \notin Rest(s, n, 1)
    BY <1>3, <2>1 DEF Placed
  <2>3. TypeOK'
    BY <1>4, <2>1 DEF TypeOK
  <2>4. Linked(s, n)'
    BY <1>3, <2>1, <2>2 DEF Linked, Pointer, After, Rest
  <2>5. Placed(s, n)'
    BY <1>3, <2>1 DEF Placed
  <2>6. disk' = OnDisk(s, n)'
    BY <1>3, <2>1 DEF OnDisk, Rest
  <2> QED BY <1>1, <1>4, <2>1, <2>3, <2>4, <2>5, <2>6, QuietStep DEF Phases, Critical
<1>8. CASE CreateLink
  <2>1. /\ pc = "link" /\ pc' = "tail" /\ next' = [next EXCEPT ![temptail] = node]
        /\ UNCHANGED <<temptail, nodes, disk, node, pnode, after, saved, blocked, cleaning,
                       exiting, child, twice, ended>>
    BY <1>8 DEF CreateLink, Step, locals
  <2>2. node \in nodes \ Rest(s, n, 1) /\ next[node] = Null /\ temptail = s[n]
    BY <1>3, <2>1 DEF Placed
  <2>3. node \in Files /\ node # TempHead /\ node # Null
    BY <1>4, <2>2, Names DEF TypeOK, Addresses
  <2>4. TypeOK'
    BY <1>4, <2>1, <2>3 DEF TypeOK
  <2>5. PICK z \in [1..(n + 1) -> Addresses] :
          /\ z[n + 1] = node
          /\ \A k \in 1..n : z[k] = s[k] /\ k # n + 1 /\ k \in 1..(n + 1)
          /\ n + 1 \in 1..(n + 1)
          /\ \A k \in 1..(n + 1) : k \in 1..n \/ k = n + 1
    <3> DEFINE z == [k \in 1..(n + 1) |-> IF k = n + 1 THEN node ELSE s[k]]
    <3>1. /\ z \in [1..(n + 1) -> Addresses] /\ z[n + 1] = node
          /\ \A k \in 1..n : z[k] = s[k] /\ k # n + 1 /\ k \in 1..(n + 1)
          /\ n + 1 \in 1..(n + 1)
          /\ \A k \in 1..(n + 1) : k \in 1..n \/ k = n + 1
      BY <2>3 DEF Addresses
    <3> QED BY <3>1
  <2>6. \A k \in 1..n : s[k] # node
    BY <1>3, <1>4, <2>2, <2>3, ListFacts DEF Rest
  <2>7. Linked(z, n + 1)'
    <3>1. z[1] = TempHead
      BY <1>3, <2>5 DEF Linked
    <3>2. ASSUME NEW j \in 1..(n + 1), NEW k \in 1..(n + 1), z[j] = z[k] PROVE j = k
      BY <1>3, <2>5, <2>6, <3>2 DEF Linked
    <3>3. ASSUME NEW k \in 2..(n + 1) PROVE z[k] \in nodes'
      <4>1. k \in 2..n \/ k = n + 1
        OBVIOUS
      <4> QED BY <1>3, <2>1, <2>2, <2>5, <4>1 DEF Linked
    <3>4. next \in [Addresses -> Files \cup {Null}] /\ temptail \in Addresses
      BY <1>4 DEF TypeOK, Addresses
    <3>5. \A k \in 1..n : s[k] \in Addresses
      OBVIOUS
    <3>6. ASSUME NEW k \in 1..(n + 1) PROVE Pointer(z[k])' = After(z, n + 1, k)'
      <4>1. CASE k = n + 1
        <5>1. next'[node] = Null
          BY <2>1, <2>2, <2>3, <2>6, <3>4 DEF Addresses
        <5> QED BY <2>1, <2>5, <4>1, <5>1 DEF Pointer, After
      <4>2. CASE k = n
        <5>1. next'[s[n]] = node
          BY <2>1, <2>2, <3>4
        <5>2. z[k] = s[n] /\ k # n + 1 /\ z[k + 1] = node
          BY <2>5, <4>2
        <5> QED BY <2>1, <5>1, <5>2 DEF Pointer, After
      <4>3. CASE k \in 1..n /\ k # n
        <5>1. s[k] # s[n]
          BY <1>3, <4>3 DEF Linked
        <5>2. next'[s[k]] = next[s[k]]
          BY <2>1, <2>2, <3>4, <3>5, <4>3, <5>1
        <5>3. next[s[k]] = s[k + 1]
          BY <1>3, <2>1, <4>3 DEF Linked, Pointer, After
        <5>4. k + 1 \in 1..n /\ k # n + 1
          BY <4>3
        <5>5. z[k] = s[k] /\ z[k + 1] = s[k + 1]
          BY <2>5, <4>3, <5>4
        <5> QED BY <2>1, <5>2, <5>3, <5>4, <5>5 DEF Pointer, After
      <4> QED BY <2>5, <4>1, <4>2, <4>3
    <3>7. \A k \in 1..(n + 1) : Pointer(z[k])' = After(z, n + 1, k)'
      BY <3>6
    <3> QED BY <3>1, <3>2, <3>3, <3>7 DEF Linked
  <2>8. Placed(z, n + 1)'
    BY <2>1, <2>5 DEF Placed
  <2>9. disk' = OnDisk(z, n + 1)'
    <3>1. Rest(z, n + 1, 1) = Rest(s, n, 1) \cup {node}
      <4>1. \A j \in 2..(n + 1) : j \in 2..n \/ j = n + 1
        OBVIOUS
      <4>2. \A j \in 2..n : j \in 2..(n + 1) /\ z[j] = s[j]
        BY <2>5
      <4>3. n + 1 \in 2..(n + 1)
        OBVIOUS
      <4> QED BY <2>5, <4>1, <4>2, <4>3 DEF Rest
    <3>2. Rest(z, n + 1, 1)' = Rest(z, n + 1, 1)
      BY DEF Rest
    <3> QED BY <1>3, <2>1, <3>1, <3>2 DEF OnDisk
  <2>10. Main \in blocked
    BY <1>4, <2>1 DEF Control, Critical
  <2>11. n + 1 \in Nat \ {0}
    OBVIOUS
  <2>12. pc' \in Phases
    BY <2>1 DEF Phases
  <2>13. /\ cleaning' = cleaning /\ exiting' = exiting /\ twice' = twice /\ ended' = ended
         /\ child' \in {Null, "none"} /\ Main \in blocked'
    BY <1>4, <2>1, <2>10
  <2> QED BY <1>1, <2>4, <2>7, <2>8, <2>9, <2>11, <2>12, <2>13, QuietStep
<1>9. CASE CreateTail
  <2>1. /\ pc = "tail" /\ pc' = "main" /\ temptail' = node /\ blocked' = blocked \ {Main}
        /\ UNCHANGED <<next, nodes, disk, node, pnode, after, saved, cleaning,
                       exiting, child, twice, ended>>
    BY <1>9 DEF CreateTail, Step, locals, cs_leave
  <2>2. n >= 2 /\ node = s[n]
    BY <1>3, <2>1 DEF Placed
  <2>3. TypeOK'
    <3>1. node \in Addresses
      BY <2>2
    <3> QED BY <1>4, <2>1, <3>1 DEF TypeOK, Addresses
  <2>4. Linked(s, n)'
    BY <1>3, <2>1 DEF Linked, Pointer, After
  <2>5. Placed(s, n)'
    BY <2>1, <2>2 DEF Placed
  <2>6. disk' = OnDisk(s, n)'
    BY <1>3, <2>1 DEF OnDisk, Rest
  <2> QED BY <1>1, <1>4, <2>1, <2>3, <2>4, <2>5, <2>6, QuietStep DEF Phases, Critical
<1> QED BY <1>5, <1>6, <1>7, <1>8, <1>9


LEMMA TailIs ==
  ASSUME NEW n \in Nat \ {0}, NEW s \in [1..n -> Addresses]
  PROVE  /\ Len(s) = n
         /\ DOMAIN Tail(s) = 1..(n - 1)
         /\ \A j \in 1..(n - 1) : Tail(s)[j] = s[j + 1]
<1>1. s \in Seq(Addresses) /\ Len(s) = n /\ s # << >>
  OBVIOUS
<1> QED BY <1>1

\* The steps of zaptemp.
LEMMA ZapSteps ==
  ASSUME Inv, ZapEnter \/ ZapFile \/ ZapNode \/ ZapTail
  PROVE  Inv'
<1>1. Cleaners = {} /\ exiting = Null /\ ended = "" /\ Runs(Main)
  <2>1. Runs(Main) /\ pc # "sort"
    BY DEF ZapEnter, ZapFile, ZapNode, ZapTail, Step
  <2> QED BY <2>1, Quiet
<1>N. PICK n \in Nat \ {0} : \E z \in [1..n -> Addresses] : ListInv(z, n)
  BY <1>1 DEF Inv
<1>2. PICK s \in [1..n -> Addresses] : ListInv(s, n)
  BY <1>N
<1>3. Linked(s, n) /\ Placed(s, n) /\ disk = OnDisk(s, n)
  BY <1>1, <1>2 DEF ListInv, Swept
<1>4. TypeOK /\ child \in {Null, "none"} /\ Control
  BY <1>1 DEF Inv, Ends
<1>5. CASE ZapEnter
  <2>1. PICK k \in DOMAIN List :
          pnode' = Pointers[k] /\ node' = List[k] /\ after' = next[List[k]]
    BY <1>5 DEF ZapEnter
  <2>2. /\ pc = "main" /\ pc' = "unlink" /\ blocked' = blocked \cup {Main}
        /\ UNCHANGED <<next, temptail, nodes, disk, saved, cleaning, exiting, child, twice, ended>>
    BY <1>5 DEF ZapEnter, Step, cs_enter, Masked, listVars
  <2>3. Pointers = s
    <3>1. s[1] = TempHead /\ \A j \in 1..n : next[s[j]] = After(s, n, j)
      BY <1>3, <2>2 DEF Linked, Pointer
    <3>2. \A i, j \in 1..n : s[i] = s[j] => i = j
      BY <1>3 DEF Linked
    <3> QED BY <3>1, <3>2, FromIs DEF Pointers
  <2>4. k \in 1..(n - 1) /\ List[k] = s[k + 1]
    <3>1. DOMAIN Tail(s) = 1..(n - 1) /\ \A j \in 1..(n - 1) : Tail(s)[j] = s[j + 1]
      BY TailIs
    <3> QED BY <2>1, <2>3, <3>1 DEF List
  <2>5. PICK m \in 2..n : m = k + 1 /\ k = m - 1
    BY <2>4
  <2>6. pnode' = s[m - 1] /\ node' = s[m] /\ after' = After(s, n, m)
    <3>1. m \in 1..n /\ s[m] \in Files /\ s[m] # TempHead
      BY <1>3, <1>4, <2>5, ListFacts
    <3>2. next[s[m]] = After(s, n, m)
      BY <1>3, <3>1 DEF Linked, Pointer
    <3> QED BY <2>1, <2>3, <2>4, <2>5, <3>2
  <2>7. TypeOK'
    <3>1. s[m] \in Files /\ m - 1 \in 1..n /\ s[m - 1] \in Addresses
      BY <1>3, <1>4, <2>5, ListFacts
    <3>2. After(s, n, m) \in Files \cup {Null}
      <4>1. m = n \/ m + 1 \in 2..n
        BY <2>5
      <4> QED BY <1>3, <1>4, <4>1, ListFacts DEF After
    <3> QED BY <1>4, <2>2, <2>6, <3>1, <3>2, Names DEF TypeOK, Addresses
  <2>8. Linked(s, n)'
    BY <1>3, <2>2 DEF Linked, Pointer, After
  <2>9. Placed(s, n)'
    <3>1. \E j \in 2..n : node' = s[j] /\ pnode' = s[j - 1] /\ after' = After(s, n, j)'
      BY <2>6 DEF After
    <3> QED BY <1>3, <2>2, <3>1 DEF Placed
  <2>10. disk' = OnDisk(s, n)'
    BY <1>3, <2>2 DEF OnDisk, Rest
  <2> QED BY <1>1, <1>4, <2>2, <2>7, <2>8, <2>9, <2>10, QuietStep, Names DEF Phases, TypeOK
<1>6. CASE ZapFile
  <2>1. /\ pc = "unlink" /\ pc' = "remove" /\ disk' = disk \ {node}
        /\ twice' = (twice \/ node \notin disk)
        /\ UNCHANGED <<next, temptail, nodes, node, pnode, after, saved, blocked, cleaning,
                       exiting, child, ended>>
    BY <1>6 DEF ZapFile, Step, listVars, locals, unlink
  <2>2. node \in Rest(s, n, 1)
    BY <1>3, <2>1 DEF Placed, Rest
  <2>3. disk = Rest(s, n, 1)
    BY <1>3, <2>1 DEF OnDisk
  <2>4. twice' => twice
    BY <2>1, <2>2, <2>3
  <2>5. TypeOK'
    BY <1>4, <2>1 DEF TypeOK
  <2>6. Linked(s, n)'
    BY <1>3, <2>1 DEF Linked, Pointer, After
  <2>7. Placed(s, n)'
    BY <1>3, <2>1 DEF Placed, After
  <2>8. disk' = OnDisk(s, n)'
    BY <2>1, <2>3 DEF OnDisk, Rest
  <2>9. Main \in blocked
    BY <1>4, <2>1 DEF Control, Critical
  <2> QED BY <1>1, <1>4, <2>1, <2>4, <2>5, <2>6, <2>7, <2>8, <2>9, QuietStep DEF Phases
<1>7. CASE ZapNode
  <2>1. /\ pc = "remove" /\ pc' = "zapped" /\ next' = [next EXCEPT ![pnode] = after]
        /\ blocked' = blocked \ {Main}
        /\ UNCHANGED <<temptail, nodes, disk, node, pnode, after, saved, cleaning,
                       exiting, child, twice, ended>>
    BY <1>7 DEF ZapNode, Step, locals, cs_leave
  <2>2. PICK m \in 2..n : node = s[m] /\ pnode = s[m - 1] /\ after = After(s, n, m)
    BY <1>3, <2>1 DEF Placed
  <2>3. temptail = s[n] /\ disk = Rest(s, n, 1) \ {node}
    BY <1>3, <2>1 DEF Placed, OnDisk
  <2>4. PICK z \in [1..(n - 1) -> Addresses] :
          /\ \A k \in 1..(m - 1) : z[k] = s[k]
          /\ \A k \in m..(n - 1) : z[k] = s[k + 1]
    <3> DEFINE z == [k \in 1..(n - 1) |-> IF k < m THEN s[k] ELSE s[k + 1]]
    <3>1. z \in [1..(n - 1) -> Addresses]
      OBVIOUS
    <3>2. \A k \in 1..(m - 1) : z[k] = s[k]
      OBVIOUS
    <3>3. \A k \in m..(n - 1) : z[k] = s[k + 1]
      OBVIOUS
    <3> QED BY <3>1, <3>2, <3>3
  <2>5. next \in [Addresses -> Files \cup {Null}] /\ pnode \in Addresses /\ after \in Files \cup {Null}
    BY <1>4 DEF TypeOK, Addresses
  <2>6. TypeOK'
    BY <1>4, <2>1 DEF TypeOK
  <2>7. /\ \A j, k \in 1..n : s[j] = s[k] => j = k
        /\ \A k \in 1..n : next[s[k]] = After(s, n, k) /\ s[k] \in Addresses
        /\ \A k \in 2..n : s[k] \in nodes /\ s[k] # Null
        /\ s[1] = TempHead
    BY <1>3, <1>4, <2>1, ListFacts DEF Linked, Pointer
  <2>8. \A k \in 1..(n - 1) : \/ k \in 1..(m - 1) /\ k \in 1..n /\ z[k] = s[k]
                              \/ k \in m..(n - 1) /\ k + 1 \in 1..n /\ z[k] = s[k + 1]
    BY <2>4
  <2>9. Linked(z, n - 1)'
    <3>1. z[1] = TempHead
      <4>1. 1 \in 1..(m - 1)
        OBVIOUS
      <4> QED BY <2>4, <2>7, <4>1
    <3>2. ASSUME NEW j \in 1..(n - 1), NEW k \in 1..(n - 1), z[j] = z[k] PROVE j = k
      BY <2>7, <2>8, <3>2
    <3>3. ASSUME NEW k \in 2..(n - 1) PROVE z[k] \in nodes'
      <4>1. k \in 1..(n - 1) /\ (k \in 1..n => k \in 2..n) /\ (k + 1 \in 1..n => k + 1 \in 2..n)
        OBVIOUS
      <4> QED BY <2>1, <2>7, <2>8, <4>1
    <3>4. ASSUME NEW k \in 1..(n - 1) PROVE Pointer(z[k])' = After(z, n - 1, k)'
      <4>1. next'[z[k]] = After(z, n - 1, k)
        <5>1. CASE k = m - 1
          <6>1. z[k] = pnode /\ next'[z[k]] = After(s, n, m)
            BY <2>1, <2>2, <2>4, <2>5, <5>1
          <6>2. CASE m = n
            BY <5>1, <6>1, <6>2 DEF After
          <6>3. CASE m # n
            <7>1. k # n - 1 /\ k + 1 = m /\ m \in m..(n - 1)
              BY <5>1, <6>3
            <7>2. z[k + 1] = s[m + 1]
              BY <2>4, <7>1
            <7> QED BY <6>1, <6>3, <7>1, <7>2 DEF After
          <6> QED BY <6>2, <6>3
        <5>2. CASE k < m - 1
          <6>1. k \in 1..(m - 1) /\ k + 1 \in 1..(m - 1) /\ k \in 1..n /\ m - 1 \in 1..n /\ k # m - 1
                /\ k # n /\ k # n - 1
            BY <5>2
          <6>2. z[k] = s[k] /\ z[k + 1] = s[k + 1]
            BY <2>4, <6>1
          <6>3. s[k] # s[m - 1] /\ s[k] \in Addresses
            BY <2>7, <6>1
          <6>4. next'[s[k]] = next[s[k]]
            BY <2>1, <2>2, <2>5, <6>3
          <6> QED BY <2>7, <6>1, <6>2, <6>4 DEF After
        <5>3. CASE k > m - 1
          <6>1. k \in m..(n - 1) /\ k + 1 \in 1..n /\ m - 1 \in 1..n /\ k + 1 # m - 1
            BY <5>3
          <6>2. z[k] = s[k + 1]
            BY <2>4, <6>1
          <6>3. s[k + 1] # s[m - 1] /\ s[k + 1] \in Addresses
            BY <2>7, <6>1
          <6>4. next'[s[k + 1]] = next[s[k + 1]]
            BY <2>1, <2>2, <2>5, <6>3
          <6>5. next[s[k + 1]] = After(s, n, k + 1)
            BY <2>7, <6>1
          <6>6. CASE k = n - 1
            BY <6>2, <6>4, <6>5, <6>6 DEF After
          <6>7. CASE k # n - 1
            <7>1. k + 1 \in m..(n - 1) /\ k + 1 # n
              BY <5>3, <6>7
            <7>2. z[k + 1] = s[(k + 1) + 1]
              BY <2>4, <7>1
            <7> QED BY <6>2, <6>4, <6>5, <6>7, <7>1, <7>2 DEF After
          <6> QED BY <6>6, <6>7
        <5> QED BY <5>1, <5>2, <5>3
      <4> QED BY <2>1, <4>1 DEF Pointer, After
    <3>5. \A k \in 1..(n - 1) : Pointer(z[k])' = After(z, n - 1, k)'
      BY <3>4
    <3> QED BY <3>1, <3>2, <3>3, <3>5 DEF Linked
  <2>10. Rest(z, n - 1, 1) = Rest(s, n, 1) \ {node}
    <3>1. ASSUME NEW f \in Rest(z, n - 1, 1) PROVE f \in Rest(s, n, 1) /\ f # node
      <4>1. PICK j \in 2..(n - 1) : f = z[j]
        BY DEF Rest
      <4>2. \/ j \in 2..n /\ j # m /\ f = s[j]
            \/ j + 1 \in 2..n /\ j + 1 # m /\ f = s[j + 1]
        <5>1. j \in 1..(n - 1)
          OBVIOUS
        <5>2. CASE j \in 1..(m - 1)
          BY <2>4, <4>1, <5>2
        <5>3. CASE j \in m..(n - 1)
          BY <2>4, <4>1, <5>3
        <5> QED BY <2>8, <5>1, <5>2, <5>3
      <4>3. PICK i \in 2..n : i # m /\ f = s[i]
        BY <4>2
      <4>4. i \in 1..n /\ m \in 1..n
        OBVIOUS
      <4>5. f # s[m]
        BY <2>7, <4>3, <4>4
      <4> QED BY <2>2, <4>3, <4>5 DEF Rest
    <3>2. ASSUME NEW f \in Rest(s, n, 1), f # node PROVE f \in Rest(z, n - 1, 1)
      <4>1. PICK j \in 2..n : f = s[j]
        BY DEF Rest
      <4>2. j # m
        BY <2>2, <3>2, <4>1
      <4>3. PICK i \in 2..(n - 1) : f = z[i]
        <5>1. CASE j < m
          <6>1. j \in 2..(n - 1) /\ j \in 1..(m - 1)
            BY <5>1
          <6> QED BY <2>4, <4>1, <6>1
        <5>2. CASE j > m
          <6>1. j - 1 \in 2..(n - 1) /\ j - 1 \in m..(n - 1) /\ (j - 1) + 1 = j
            BY <5>2
          <6> QED BY <2>4, <4>1, <6>1
        <5> QED BY <4>2, <5>1, <5>2
      <4> QED BY <4>3 DEF Rest
    <3> QED BY <3>1, <3>2
  <2>11. TailOf = z[n - 1]
    <3>1. CASE m = n
      <4>1. n - 1 \in 1..(m - 1)
        BY <3>1
      <4>2. z[n - 1] = pnode
        BY <2>2, <2>4, <3>1, <4>1
      <4> QED BY <2>2, <3>1, <4>2 DEF TailOf, After
    <3>2. CASE m # n
      <4>1. n - 1 \in m..(n - 1) /\ (n - 1) + 1 = n /\ m + 1 \in 2..n
        BY <3>2
      <4>2. z[n - 1] = s[n] /\ s[m + 1] # Null
        BY <2>4, <2>7, <4>1
      <4> QED BY <2>2, <2>3, <3>2, <4>2 DEF TailOf, After
    <3> QED BY <3>1, <3>2
  <2>12. Placed(z, n - 1)'
    <3>1. node' \notin Rest(z, n - 1, 1)'
      BY <2>1, <2>10 DEF Rest
    <3>2. TailOf' = z[n - 1]
      BY <2>1, <2>11 DEF TailOf
    <3> QED BY <2>1, <3>1, <3>2 DEF Placed
  <2>13. disk' = OnDisk(z, n - 1)'
    BY <2>1, <2>3, <2>10 DEF OnDisk, Rest
  <2>14. n - 1 \in Nat \ {0}
    OBVIOUS
  <2> QED BY <1>1, <1>4, <2>1, <2>6, <2>9, <2>12, <2>13, <2>14, QuietStep DEF Phases, Critical
<1>8. CASE ZapTail
  <2>1. /\ pc = "zapped" /\ pc' = "main" /\ temptail' = TailOf /\ nodes' = nodes \ {node}
        /\ UNCHANGED <<next, disk, node, pnode, after, saved, blocked, cleaning, exiting,
                       child, twice, ended>>
    BY <1>8 DEF ZapTail, Step, locals
  <2>2. node \notin Rest(s, n, 1) /\ TailOf = s[n]
    BY <1>3, <2>1 DEF Placed
  <2>3. TypeOK'
    BY <1>4, <2>1 DEF TypeOK, TailOf
  <2>4. Linked(s, n)'
    BY <1>3, <2>1, <2>2 DEF Linked, Pointer, After, Rest
  <2>5. Placed(s, n)'
    BY <2>1, <2>2 DEF Placed
  <2>6. disk' = OnDisk(s, n)'
    BY <1>3, <2>1 DEF OnDisk, Rest
  <2> QED BY <1>1, <1>4, <2>1, <2>3, <2>4, <2>5, <2>6, QuietStep DEF Phases, Critical
<1> QED BY <1>5, <1>6, <1>7, <1>8

-----------------------------------------------------------------------------
(* The fork, and the other threads *)

\* The steps of pipe_fork, and those of the child before exec, which has no list.
LEMMA ForkSteps ==
  ASSUME Inv, ForkEnter \/ Fork \/ ForkLeave
  PROVE  Inv'
<1>1. Cleaners = {} /\ exiting = Null /\ ended = "" /\ Runs(Main)
  <2>1. Runs(Main) /\ pc # "sort"
    BY DEF ForkEnter, Fork, ForkLeave, Step
  <2> QED BY <2>1, Quiet
<1>N. PICK n \in Nat \ {0} : \E z \in [1..n -> Addresses] : ListInv(z, n)
  BY <1>1 DEF Inv
<1>2. PICK s \in [1..n -> Addresses] : ListInv(s, n)
  BY <1>N
<1>3. Linked(s, n) /\ Placed(s, n) /\ disk = OnDisk(s, n)
  BY <1>1, <1>2 DEF ListInv, Swept
<1>4. TypeOK /\ child \in {Null, "none"} /\ Control
  BY <1>1 DEF Inv, Ends
<1>5. next \in [Addresses -> Files \cup {Null}] /\ TempHead \in Addresses
      /\ \A k \in 1..n : s[k] \in Addresses
  BY <1>4 DEF TypeOK, Addresses
<1>6. CASE ForkEnter
  <2>1. /\ pc = "main" /\ pc' = "fork" /\ saved' = next[TempHead]
        /\ next' = [next EXCEPT ![TempHead] = Null] /\ blocked' = blocked \cup {Main}
        /\ UNCHANGED <<temptail, nodes, disk, node, pnode, after, cleaning, exiting, child, twice, ended>>
    BY <1>6 DEF ForkEnter, Step, cs_enter, Masked, ForkHead
  <2>2. TypeOK'
    BY <1>4, <1>5, <2>1, Names DEF TypeOK, Addresses
  <2>3. Linked(s, n)'
    <3>1. ASSUME NEW k \in 1..n PROVE Pointer(s[k])' = Pointer(s[k])
      BY <1>5, <2>1 DEF Pointer
    <3> QED BY <1>3, <2>1, <3>1 DEF Linked, After
  <2>4. Placed(s, n)'
    <3>1. next'[TempHead] = Null
      BY <1>5, <2>1
    <3> QED BY <1>3, <2>1, <3>1 DEF Placed
  <2>5. disk' = OnDisk(s, n)'
    BY <1>3, <2>1 DEF OnDisk, Rest
  <2> QED BY <1>1, <1>4, <2>1, <2>2, <2>3, <2>4, <2>5, QuietStep, Names DEF Phases, TypeOK
<1>7. CASE Fork
  <2>1. /\ pc = "fork" /\ pc' = "forked" /\ child' \in {next[TempHead], "none"}
        /\ next' = [next EXCEPT ![TempHead] = saved]
        /\ UNCHANGED <<temptail, nodes, disk, node, pnode, after, saved, blocked, cleaning,
                       exiting, twice, ended>>
    BY <1>7 DEF Fork, Step, locals
  <2>2. next[TempHead] = Null /\ child' \in {Null, "none"}
    BY <1>3, <2>1 DEF Placed
  <2>3. TypeOK'
    BY <1>4, <1>5, <2>1, <2>2 DEF TypeOK, Addresses
  <2>4. Linked(s, n)'
    <3>1. ASSUME NEW k \in 1..n PROVE Pointer(s[k])' = Pointer(s[k])
      BY <1>5, <2>1 DEF Pointer
    <3> QED BY <1>3, <2>1, <3>1 DEF Linked, After
  <2>5. Placed(s, n)'
    BY <1>3, <2>1 DEF Placed
  <2>6. disk' = OnDisk(s, n)'
    BY <1>3, <2>1 DEF OnDisk, Rest
  <2>7. Main \in blocked
    BY <1>4, <2>1 DEF Control, Critical
  <2> QED BY <1>1, <2>1, <2>2, <2>3, <2>4, <2>5, <2>6, <2>7, QuietStep DEF Phases
<1>8. CASE ForkLeave
  <2>1. /\ pc = "forked" /\ pc' = "main" /\ blocked' = blocked \ {Main}
        /\ UNCHANGED <<next, temptail, nodes, disk, node, pnode, after, saved, cleaning,
                       exiting, child, twice, ended>>
    BY <1>8 DEF ForkLeave, Step, listVars, locals, cs_leave
  <2>2. TypeOK'
    BY <1>4, <2>1 DEF TypeOK
  <2>3. Linked(s, n)'
    BY <1>3, <2>1 DEF Linked, Pointer, After
  <2>4. Placed(s, n)'
    BY <1>3, <2>1 DEF Placed
  <2>5. disk' = OnDisk(s, n)'
    BY <1>3, <2>1 DEF OnDisk, Rest
  <2> QED BY <1>1, <1>4, <2>1, <2>2, <2>3, <2>4, <2>5, QuietStep DEF Phases, Critical
<1> QED BY <1>6, <1>7, <1>8

LEMMA ChildSteps ==
  ASSUME Inv, ChildSignal \/ ChildExec
  PROVE  Inv'
<1>1. child = Null /\ child' = "none"
  BY DEF Inv, Ends, ChildSignal, ChildExec
<1>2. UNCHANGED <<next, temptail, nodes, disk, pc, node, pnode, after, saved, blocked, cleaning,
                  exiting, twice, ended>>
  BY <1>1 DEF ChildSignal, ChildExec, listVars, locals
<1>3. TypeOK'
  BY <1>1, <1>2 DEF Inv, TypeOK
<1>4. Cleaners' = Cleaners
  BY <1>2 DEF Cleaners
<1>5. Ends'
  BY <1>1, <1>2, <1>4 DEF Inv, Ends
<1>6. Control => Control'
  BY <1>2, <1>4 DEF Control
<1>7. ASSUME NEW n \in Nat \ {0}, NEW s \in [1..n -> Addresses], ListInv(s, n)
      PROVE  ListInv(s, n)'
  <2>1. Linked(s, n)'
    BY <1>2, <1>7 DEF ListInv, Linked, Pointer, After
  <2>2. Placed(s, n)'
    BY <1>2, <1>7 DEF ListInv, Placed, After, Rest, TailOf
  <2>3. Swept(s, n)'
    BY <1>2, <1>4, <1>7 DEF ListInv, Swept, SweptBy, After, Rest, OnDisk
  <2> QED BY <2>1, <2>2, <2>3 DEF ListInv
<1> QED BY <1>2, <1>3, <1>5, <1>6, <1>7 DEF Inv

\* Nothing is under way when the threads are started and when they have ended.
LEMMA SortSteps ==
  ASSUME Inv, SortBegins \/ SortEnds
  PROVE  Inv'
<1>1. Cleaners = {} /\ exiting = Null /\ ended = ""
  <2>1. CASE SortBegins
    <3>1. Runs(Main) /\ pc # "sort"
      BY <2>1 DEF SortBegins, Step
    <3> QED BY <3>1, Quiet
  <2>2. CASE SortEnds
    BY <2>2 DEF SortEnds, Step, Runs, Cleaners, Threads
  <2> QED BY <2>1, <2>2
<1>2. /\ pc \in {"main", "sort"} /\ pc' \in {"main", "sort"}
      /\ UNCHANGED <<next, temptail, nodes, disk, node, pnode, after, saved, blocked, cleaning,
                     exiting, child, twice, ended>>
  BY DEF SortBegins, SortEnds, Step, listVars, locals
<1>N. PICK n \in Nat \ {0} : \E z \in [1..n -> Addresses] : ListInv(z, n)
  BY <1>1 DEF Inv
<1>3. PICK s \in [1..n -> Addresses] : ListInv(s, n)
  BY <1>N
<1>4. Linked(s, n) /\ Placed(s, n) /\ disk = OnDisk(s, n)
  BY <1>1, <1>3 DEF ListInv, Swept
<1>5. TypeOK' /\ child \in {Null, "none"}
  BY <1>2 DEF Inv, Ends, TypeOK
<1>6. Linked(s, n)'
  BY <1>2, <1>4 DEF Linked, Pointer, After
<1>7. Placed(s, n)'
  BY <1>2, <1>4 DEF Placed
<1>8. disk' = OnDisk(s, n)'
  BY <1>2, <1>4 DEF OnDisk, Rest
<1> QED BY <1>1, <1>2, <1>5, <1>6, <1>7, <1>8, QuietStep DEF Phases, Critical


\* A handler is where the list is as it should be: no thread cleans up in a critical
\* section, nor while pipe_fork has put the list aside.
LEMMA Walks ==
  ASSUME Inv, ended = "", NEW t \in Threads, pc \in {"main", "sort", "zapped"}
  PROVE  \E n \in Nat \ {0} : \E s \in [1..n -> Addresses] :
           /\ ListInv(s, n)
           /\ \A k \in 1..n : next[s[k]] = After(s, n, k)
           /\ next[TempHead] = After(s, n, 1)
           /\ disk \subseteq Rest(s, n, 1)
           /\ Cleaners = {} => disk = Rest(s, n, 1)
<1>1. PICK n \in Nat \ {0} : \E z \in [1..n -> Addresses] : ListInv(z, n)
  BY DEF Inv
<1>2. PICK s \in [1..n -> Addresses] : ListInv(s, n)
  BY <1>1
<1>3. \A k \in 1..n : next[s[k]] = After(s, n, k)
  BY <1>2 DEF ListInv, Linked, Pointer
<1>4. next[TempHead] = After(s, n, 1)
  <2>1. 1 \in 1..n /\ s[1] = TempHead
    BY <1>2, Positions DEF ListInv, Linked
  <2> QED BY <1>3, <2>1
<1>5. Cleaners = {} => disk = Rest(s, n, 1)
  BY <1>2 DEF ListInv, Swept, OnDisk
<1>6. ASSUME NEW u \in Cleaners PROVE disk \subseteq Rest(s, n, 1)
  <2>1. PICK k \in 1..n : disk \subseteq Rest(s, n, k)
    BY <1>2, <1>6 DEF ListInv, Swept, SweptBy
  <2>2. \A j \in (k + 1)..n : j \in (1 + 1)..n
    BY Positions
  <2> QED BY <2>1, <2>2 DEF Rest
<1> QED BY <1>2, <1>3, <1>4, <1>5, <1>6

\* A thread that begins to clean up has the whole list before it.
LEMMA CleanBegins ==
  ASSUME Inv, ended = "", ended' = "", NEW t \in Threads, t \notin Cleaners,
         pc = "sort" \/ (t = Main /\ pc \in {"main", "zapped"}),
         cleaning' = [cleaning EXCEPT ![t] = next[TempHead]],
         blocked' = blocked \cup {t},
         exiting' # Null => pc = "sort" \/ (exiting' = Main /\ pc = "main"),
         exiting' \in {exiting, t},
         UNCHANGED <<next, temptail, nodes, disk, pc, node, pnode, after, saved, child, twice>>
  PROVE  Inv'
<1>1. TypeOK /\ Control /\ Ends
  BY DEF Inv
<1>2. cleaning \in [Threads -> Files \cup {Null, "no"}] /\ next[TempHead] \in Files \cup {Null}
  BY <1>1 DEF TypeOK
<1>3. TypeOK'
  BY <1>1, <1>2 DEF TypeOK
<1>4. cleaning'[t] = next[TempHead] /\ \A u \in Threads \ {t} : cleaning'[u] = cleaning[u]
  BY <1>2
<1>5. next[TempHead] # "no"
  BY <1>2, Names DEF Addresses
<1>6. Cleaners' = Cleaners \cup {t}
  BY <1>4, <1>5 DEF Cleaners
<1>7. Ends'
  BY <1>1, <1>6 DEF Ends
<1>8. Control'
  <2>1. exiting' # Null /\ cleaning'[exiting'] = "no" => next[TempHead] = Null
    BY <1>1, <1>4, <1>5 DEF Control, TypeOK
  <2>2. Cleaners' \subseteq blocked'
    BY <1>1, <1>6 DEF Control
  <2> QED BY <1>1, <1>6, <2>1, <2>2 DEF Control
<1>9. pc \in {"main", "sort", "zapped"}
  OBVIOUS
<1>10. PICK n \in Nat \ {0} : \E s \in [1..n -> Addresses] :
           /\ ListInv(s, n)
           /\ next[TempHead] = After(s, n, 1)
           /\ disk \subseteq Rest(s, n, 1)
           /\ Cleaners = {} => disk = Rest(s, n, 1)
  BY <1>9, Walks
<1>11. PICK s \in [1..n -> Addresses] :
           /\ ListInv(s, n)
           /\ next[TempHead] = After(s, n, 1)
           /\ disk \subseteq Rest(s, n, 1)
           /\ Cleaners = {} => disk = Rest(s, n, 1)
  BY <1>10
<1>12. Linked(s, n)'
  BY <1>11 DEF ListInv, Linked, Pointer, After
<1>13. Placed(s, n)'
  BY <1>11 DEF ListInv, Placed, After, Rest, TailOf
<1>14. Swept(s, n)'
  <2>1. ASSUME NEW u \in Cleaners' PROVE SweptBy(u, s, n)'
    <3>1. CASE u = t
      <4>1. 1 \in 1..n
        BY Positions
      <4>2. Cleaners' = {t} => Rest(s, n, 1) \subseteq disk
        BY <1>6, <1>11
      <4> QED BY <1>4, <1>11, <3>1, <4>1, <4>2 DEF SweptBy, After, Rest
    <3>2. CASE u # t
      <4>1. u \in Cleaners /\ u \in Threads \ {t} /\ Cleaners' # {u}
        BY <1>6, <3>2 DEF Cleaners
      <4>2. SweptBy(u, s, n)
        BY <1>11, <4>1 DEF ListInv, Swept
      <4>3. PICK k \in 1..n : cleaning[u] = After(s, n, k) /\ disk \subseteq Rest(s, n, k)
        BY <4>2 DEF SweptBy
      <4>4. cleaning'[u] = cleaning[u]
        BY <1>4, <4>1
      <4> QED BY <4>1, <4>3, <4>4 DEF SweptBy, After, Rest
    <3> QED BY <3>1, <3>2
  <2> QED BY <1>6, <2>1 DEF Swept
<1> QED BY <1>3, <1>7, <1>8, <1>12, <1>13, <1>14 DEF Inv, ListInv


LEMMA ExitKeeps ==
  ASSUME Inv, NEW t \in Threads, Exit(t)
  PROVE  Inv'
<1>1. /\ ended = "" /\ cleaning[t] = "no" /\ exiting = Null /\ exiting' = t
      /\ pc \in {"main", "sort"}
      /\ pc = "sort" \/ t = Main
      /\ UNCHANGED <<next, temptail, nodes, disk, pc, node, pnode, after, saved, child, twice, ended>>
  BY DEF Exit, Runs, Alive, listVars, locals
<1>2. CASE next[TempHead] # Null
  <2>1. /\ blocked' = blocked \cup {t}
        /\ cleaning' = [cleaning EXCEPT ![t] = next[TempHead]]
    BY <1>2 DEF Exit, Masked
  <2>2. t \notin Cleaners
    BY <1>1 DEF Cleaners
  <2>3. exiting' # Null => pc = "sort" \/ (exiting' = Main /\ pc = "main")
    BY <1>1
  <2>4. pc = "sort" \/ (t = Main /\ pc \in {"main", "zapped"})
    BY <1>1
  <2>5. exiting' \in {exiting, t} /\ ended' = ""
    BY <1>1
  <2> QED BY <1>1, <2>1, <2>2, <2>3, <2>4, <2>5, CleanBegins
<1>3. CASE next[TempHead] = Null
  <2>1. UNCHANGED <<blocked, cleaning>>
    BY <1>3 DEF Exit
  <2>2. Cleaners' = Cleaners
    BY <2>1 DEF Cleaners
  <2>3. TypeOK'
    BY <1>1, <2>1 DEF Inv, TypeOK
  <2>4. Ends'
    BY <1>1, <2>2 DEF Inv, Ends
  <2>5. Control'
    BY <1>1, <1>3, <2>1, <2>2 DEF Inv, Control
  <2>6. PICK n \in Nat \ {0} : \E z \in [1..n -> Addresses] : ListInv(z, n)
    BY <1>1 DEF Inv
  <2>7. PICK s \in [1..n -> Addresses] : ListInv(s, n)
    BY <2>6
  <2>8. Linked(s, n)'
    BY <1>1, <2>7 DEF ListInv, Linked, Pointer, After
  <2>9. Placed(s, n)'
    BY <1>1, <2>7 DEF ListInv, Placed, After, Rest, TailOf
  <2>10. Swept(s, n)'
    BY <1>1, <2>1, <2>2, <2>7 DEF ListInv, Swept, SweptBy, After, Rest, OnDisk
  <2> QED BY <2>3, <2>4, <2>5, <2>8, <2>9, <2>10 DEF Inv, ListInv
<1> QED BY <1>2, <1>3

LEMMA SignalKeeps ==
  ASSUME Inv, NEW t \in Threads, Signal(t)
  PROVE  Inv'
<1>1. /\ ended = "" /\ t \in Alive /\ t \notin blocked
      /\ blocked' = blocked \cup {t}
      /\ cleaning' = [cleaning EXCEPT ![t] = next[TempHead]]
      /\ UNCHANGED <<next, temptail, nodes, disk, pc, node, pnode, after, saved, exiting,
                     child, twice, ended>>
  BY DEF Signal, listVars, locals
<1>2. Control
  BY <1>1 DEF Inv
<1>3. t \notin Cleaners
  BY <1>1, <1>2 DEF Control
<1>4. pc = "sort" \/ (t = Main /\ pc \in {"main", "zapped"})
  BY <1>1, <1>2 DEF Control, Alive, Phases, Critical
<1>5. exiting' # Null => pc = "sort" \/ (exiting' = Main /\ pc = "main")
  BY <1>1, <1>2 DEF Control
<1>6. exiting' \in {exiting, t} /\ ended' = ""
  BY <1>1
<1> QED BY <1>1, <1>3, <1>4, <1>5, <1>6, CleanBegins

\* One round of cleanup: the file may be gone only if another thread cleans up too.
LEMMA CleanOneKeeps ==
  ASSUME Inv, NEW t \in Threads, CleanOne(t)
  PROVE  Inv'
<1>1. /\ ended = "" /\ ended' = "" /\ cleaning[t] \in Files
      /\ disk' = disk \ {cleaning[t]}
      /\ twice' = (twice \/ cleaning[t] \notin disk)
      /\ cleaning' = [cleaning EXCEPT ![t] = next[cleaning[t]]]
      /\ UNCHANGED <<next, temptail, nodes, pc, node, pnode, after, saved, blocked, exiting, child>>
  BY DEF CleanOne, unlink, listVars, locals
<1>2. TypeOK /\ Control /\ Ends
  BY <1>1 DEF Inv
<1>3. cleaning \in [Threads -> Files \cup {Null, "no"}] /\ next[cleaning[t]] \in Files \cup {Null}
  BY <1>1, <1>2 DEF TypeOK
<1>4. TypeOK'
  BY <1>1, <1>2, <1>3 DEF TypeOK
<1>5. /\ cleaning'[t] = next[cleaning[t]]
      /\ \A u \in Threads \ {t} : cleaning'[u] = cleaning[u]
      /\ cleaning[t] # "no" /\ cleaning'[t] # "no"
  BY <1>1, <1>3, Names DEF Addresses
<1>6. Cleaners' = Cleaners /\ t \in Cleaners
  BY <1>5 DEF Cleaners
<1>7. pc \in {"main", "sort", "zapped"}
  BY <1>2, <1>6 DEF Control
<1>8. PICK n \in Nat \ {0} : \E s \in [1..n -> Addresses] :
        ListInv(s, n) /\ \A k \in 1..n : next[s[k]] = After(s, n, k)
  BY <1>1, <1>7, Walks
<1>9. PICK s \in [1..n -> Addresses] :
        ListInv(s, n) /\ \A k \in 1..n : next[s[k]] = After(s, n, k)
  BY <1>8
<1>10. PICK k \in 1..n : /\ cleaning[t] = After(s, n, k)
                         /\ disk \subseteq Rest(s, n, k)
                         /\ Cleaners = {t} => Rest(s, n, k) \subseteq disk
  BY <1>6, <1>9 DEF ListInv, Swept, SweptBy
<1>11. k # n /\ cleaning[t] = s[k + 1]
  BY <1>1, <1>10, Names DEF After, Addresses
<1>12. k + 1 \in 1..n /\ cleaning'[t] = After(s, n, k + 1)
  <2>1. k + 1 \in 1..n
    BY <1>11
  <2> QED BY <1>5, <1>9, <1>11, <2>1
<1>13. Rest(s, n, k + 1) = Rest(s, n, k) \ {s[k + 1]}
  <2>1. \A j \in (k + 1)..n : j = k + 1 \/ j \in ((k + 1) + 1)..n
    OBVIOUS
  <2>2. \A j \in ((k + 1) + 1)..n : j \in (k + 1)..n /\ j # k + 1 /\ j \in 1..n
    OBVIOUS
  <2>3. \A i, j \in 1..n : s[i] = s[j] => i = j
    BY <1>9 DEF ListInv, Linked
  <2>4. \A j \in ((k + 1) + 1)..n : s[j] # s[k + 1]
    BY <1>12, <2>2, <2>3
  <2> QED BY <2>1, <2>2, <2>4 DEF Rest
<1>14. s[k + 1] \in Rest(s, n, k)
  <2>1. k + 1 \in (k + 1)..n
    BY <1>12
  <2> QED BY <2>1 DEF Rest
<1>15. Ends'
  <2>1. CASE cleaning[t] \in disk
    BY <1>1, <1>2, <1>6, <2>1 DEF Ends
  <2>2. CASE cleaning[t] \notin disk
    <3>1. Cleaners # {t}
      BY <1>10, <1>11, <1>14, <2>2
    <3>2. PICK u \in Cleaners : u # t
      BY <1>6, <3>1
    <3> QED BY <1>1, <1>2, <1>6, <3>2 DEF Ends
  <2> QED BY <2>1, <2>2
<1>16. Control'
  BY <1>1, <1>2, <1>5, <1>6 DEF Control, TypeOK
<1>17. Linked(s, n)'
  BY <1>1, <1>9 DEF ListInv, Linked, Pointer, After
<1>18. Placed(s, n)'
  BY <1>1, <1>9 DEF ListInv, Placed, After, Rest, TailOf
<1>19. ASSUME NEW u \in Cleaners' PROVE SweptBy(u, s, n)'
  <2>1. CASE u = t
    <3>1. /\ cleaning'[u] = After(s, n, k + 1)
          /\ disk' \subseteq Rest(s, n, k + 1)
          /\ Cleaners' = {u} => Rest(s, n, k + 1) \subseteq disk'
      BY <1>1, <1>6, <1>10, <1>11, <1>12, <1>13, <2>1
    <3> QED BY <1>12, <3>1 DEF SweptBy, After, Rest
  <2>2. CASE u # t
    <3>1. u \in Cleaners /\ u \in Threads \ {t} /\ Cleaners' # {u}
      BY <1>6, <2>2 DEF Cleaners
    <3>2. PICK i \in 1..n : cleaning[u] = After(s, n, i) /\ disk \subseteq Rest(s, n, i)
      BY <1>9, <3>1 DEF ListInv, Swept, SweptBy
    <3>3. cleaning'[u] = After(s, n, i) /\ disk' \subseteq Rest(s, n, i)
      BY <1>1, <1>5, <3>1, <3>2
    <3> QED BY <3>1, <3>3 DEF SweptBy, After, Rest
  <2> QED BY <2>1, <2>2
<1>20. Swept(s, n)'
  BY <1>6, <1>19 DEF Swept
<1> QED BY <1>4, <1>15, <1>16, <1>17, <1>18, <1>20 DEF Inv, ListInv

\* When a handler has reached the end of the list, nothing is left behind it.
LEMMA CleanEndKeeps ==
  ASSUME Inv, NEW t \in Threads, CleanEnd(t)
  PROVE  Inv'
<1>1. /\ ended = "" /\ cleaning[t] = Null /\ next' = [next EXCEPT ![TempHead] = Null]
      /\ ended' \in {"exit", "signal"}
      /\ UNCHANGED <<temptail, nodes, disk, pc, node, pnode, after, saved, blocked, cleaning,
                     exiting, child, twice>>
  BY DEF CleanEnd, locals
<1>2. TypeOK /\ Control /\ Ends
  BY <1>1 DEF Inv
<1>3. t \in Cleaners
  BY <1>1, Names DEF Cleaners
<1>4. PICK n \in Nat \ {0} : \E z \in [1..n -> Addresses] : ListInv(z, n)
  BY <1>1 DEF Inv
<1>5. PICK s \in [1..n -> Addresses] : ListInv(s, n)
  BY <1>4
<1>6. PICK k \in 1..n : cleaning[t] = After(s, n, k) /\ disk \subseteq Rest(s, n, k)
  BY <1>3, <1>5 DEF ListInv, Swept, SweptBy
<1>7. k = n
  <2> SUFFICES ASSUME k # n PROVE FALSE
    OBVIOUS
  <2>1. k + 1 \in 1..n
    OBVIOUS
  <2>2. s[k + 1] \in Addresses /\ s[k + 1] = Null
    BY <1>1, <1>6, <2>1 DEF After
  <2> QED BY <2>2, Names
<1>8. disk = {}
  <2>1. \A j \in (n + 1)..n : FALSE
    OBVIOUS
  <2> QED BY <1>6, <1>7, <2>1 DEF Rest
<1>9. TypeOK'
  BY <1>1, <1>2 DEF TypeOK
<1>10. Cleaners' = Cleaners
  BY <1>1 DEF Cleaners
<1>11. Ends'
  BY <1>1, <1>2, <1>8, <1>10 DEF Ends
<1>12. ended' # ""
  BY <1>1
<1> QED BY <1>9, <1>11, <1>12 DEF Inv

\* exit without a list.
LEMMA ExitEndKeeps ==
  ASSUME Inv, NEW t \in Threads, ExitEnd(t)
  PROVE  Inv'
<1>1. /\ ended = "" /\ exiting = t /\ cleaning[t] = "no" /\ ended' = "exit"
      /\ UNCHANGED <<next, temptail, nodes, disk, pc, node, pnode, after, saved, blocked,
                     cleaning, exiting, child, twice>>
  BY DEF ExitEnd, listVars, locals
<1>2. TypeOK /\ Control /\ Ends
  BY <1>1 DEF Inv
<1>3. next[TempHead] = Null /\ pc \in {"main", "sort", "zapped"}
  BY <1>1, <1>2, Names DEF Control
<1>4. PICK n \in Nat \ {0} : \E s \in [1..n -> Addresses] :
        next[TempHead] = After(s, n, 1) /\ disk \subseteq Rest(s, n, 1)
  BY <1>1, <1>3, Walks
<1>5. PICK s \in [1..n -> Addresses] :
        next[TempHead] = After(s, n, 1) /\ disk \subseteq Rest(s, n, 1)
  BY <1>4
<1>6. n = 1
  <2> SUFFICES ASSUME n # 1 PROVE FALSE
    OBVIOUS
  <2>1. 1 + 1 \in 1..n
    OBVIOUS
  <2>2. s[1 + 1] \in Addresses /\ s[1 + 1] = Null
    BY <1>3, <1>5, <2>1 DEF After
  <2> QED BY <2>2, Names
<1>7. disk = {}
  <2>1. \A j \in (1 + 1)..1 : FALSE
    OBVIOUS
  <2> QED BY <1>5, <1>6, <2>1 DEF Rest
<1>8. TypeOK'
  BY <1>1, <1>2 DEF TypeOK
<1>9. Cleaners' = Cleaners
  BY <1>1 DEF Cleaners
<1>10. Ends'
  BY <1>1, <1>2, <1>7, <1>9 DEF Ends
<1>11. ended' # ""
  BY <1>1
<1> QED BY <1>8, <1>10, <1>11 DEF Inv

LEMMA InvNext == Inv /\ [Next]_vars => Inv'
<1> SUFFICES ASSUME Inv, [Next]_vars PROVE Inv'
  OBVIOUS
<1>1. CASE CreateEnter \/ CreateFile \/ CreateFails \/ CreateLink \/ CreateTail
  BY <1>1, CreateSteps
<1>2. CASE ZapEnter \/ ZapFile \/ ZapNode \/ ZapTail
  BY <1>2, ZapSteps
<1>3. CASE ForkEnter \/ Fork \/ ForkLeave
  BY <1>3, ForkSteps
<1>4. CASE ChildSignal \/ ChildExec
  BY <1>4, ChildSteps
<1>5. CASE SortBegins \/ SortEnds
  BY <1>5, SortSteps
<1>6. CASE \E t \in Threads : Exit(t) \/ Signal(t) \/ CleanOne(t) \/ CleanEnd(t) \/ ExitEnd(t)
  BY <1>6, ExitKeeps, SignalKeeps, CleanOneKeeps, CleanEndKeeps, ExitEndKeeps
<1>7. CASE UNCHANGED vars
  <2>1. UNCHANGED <<next, temptail, nodes, disk, pc, node, pnode, after, saved, blocked, cleaning,
                    exiting, child, twice, ended>>
    BY <1>7 DEF vars, listVars, locals
  <2>2. TypeOK' /\ Cleaners' = Cleaners
    BY <2>1 DEF Inv, TypeOK, Cleaners
  <2>3. Ends' /\ (Control => Control')
    BY <2>1, <2>2 DEF Inv, Ends, Control
  <2>4. ASSUME NEW n \in Nat \ {0}, NEW s \in [1..n -> Addresses], ListInv(s, n)
        PROVE  ListInv(s, n)'
    <3>1. Linked(s, n)'
      BY <2>1, <2>4 DEF ListInv, Linked, Pointer, After
    <3>2. Placed(s, n)'
      BY <2>1, <2>4 DEF ListInv, Placed, After, Rest, TailOf
    <3>3. Swept(s, n)'
      BY <2>1, <2>2, <2>4 DEF ListInv, Swept, SweptBy, After, Rest, OnDisk
    <3> QED BY <3>1, <3>2, <3>3 DEF ListInv
  <2> QED BY <2>1, <2>2, <2>3, <2>4 DEF Inv
<1> QED BY <1>1, <1>2, <1>3, <1>4, <1>5, <1>6, <1>7 DEF Next

LEMMA InvAlways == Spec => []Inv
<1>1. Init => Inv
  BY InvInit
<1>2. Inv /\ [Next]_vars => Inv'
  BY InvNext
<1> QED BY <1>1, <1>2, PTL DEF Spec

-----------------------------------------------------------------------------
(* The theorems *)

\* Two different threads are two.
LEMMA TwoCleaners ==
  ASSUME NEW t \in Cleaners, NEW u \in Cleaners, t # u
  PROVE  Cardinality(Cleaners) > 1
<1>1. IsFiniteSet(Threads)
  BY FilesAssumption, FS_AddElement DEF Threads
<1>2. IsFiniteSet(Cleaners)
  BY <1>1, FS_Subset DEF Cleaners
<1>3. Cardinality(Cleaners) \in Nat
  BY <1>2, FS_CardinalityType
<1>4. Cardinality(Cleaners) # 0
  BY <1>2, FS_EmptySet
<1>5. Cardinality(Cleaners) # 1
  BY <1>2, FS_Singleton
<1> QED BY <1>3, <1>4, <1>5

\* Every field holds what it is declared to hold.
THEOREM TypeCorrect == Spec => []TypeOK
<1>1. Inv => TypeOK
  BY DEF Inv
<1> QED BY <1>1, InvAlways, PTL

\* However sort ends, whichever thread a signal interrupts and at whatever statement, no
\* temporary file is left, and only two threads that clean up at the same time remove a
\* file twice: for any number of files and threads.
THEOREM NothingLeftHolds == Spec => []NothingLeft
<1>1. Inv => NothingLeft
  BY TwoCleaners DEF Inv, Ends, NothingLeft
<1> QED BY <1>1, InvAlways, PTL


\* The files that the list has, also while pipe_fork has put it aside.
LEMMA KnownIs ==
  ASSUME TypeOK, NEW n \in Nat \ {0}, NEW s \in [1..n -> Addresses], Linked(s, n)
  PROVE  Known = Rest(s, n, 1)
<1> DEFINE first == IF pc = "fork" THEN saved ELSE next[TempHead]
<1>1. first = After(s, n, 1)
  <2>1. s[1] = TempHead /\ Pointer(s[1]) = After(s, n, 1)
    BY Positions DEF Linked
  <2> QED BY <2>1 DEF Pointer
<1>2. Known = IF first = Null THEN {} ELSE ToSet(From(first))
  BY DEF Known
<1> HIDE DEF first
<1>3. CASE n = 1
  <2>1. \A j \in (1 + 1)..1 : FALSE
    OBVIOUS
  <2> QED BY <1>1, <1>2, <1>3, <2>1 DEF After, Rest
<1>4. CASE n # 1
  <2>1. \A k \in 2..n : s[k] # TempHead /\ s[k] # Null
    BY ListFacts
  <2>2. PICK z \in [1..(n - 1) -> Addresses] : \A k \in 1..(n - 1) : z[k] = s[k + 1]
    <3> DEFINE z == [k \in 1..(n - 1) |-> s[k + 1]]
    <3>1. z \in [1..(n - 1) -> Addresses] /\ \A k \in 1..(n - 1) : z[k] = s[k + 1]
      BY <1>4
    <3> QED BY <3>1
  <2>3. n - 1 \in Nat \ {0} /\ 1 \in 1..(n - 1) /\ 2 \in 2..n /\ 1 + 1 = 2
    BY <1>4
  <2>4. first = z[1] /\ first # Null
    BY <1>1, <1>4, <2>1, <2>2, <2>3 DEF After
  <2>5. \A j, k \in 1..(n - 1) : z[j] = z[k] => j = k
    <3>1. \A k \in 1..(n - 1) : k + 1 \in 1..n
      OBVIOUS
    <3>2. \A j, k \in 1..n : s[j] = s[k] => j = k
      BY DEF Linked
    <3> QED BY <2>2, <3>1, <3>2
  <2>6. ASSUME NEW k \in 1..(n - 1) PROVE next[z[k]] = After(z, n - 1, k)
    <3>1. k + 1 \in 2..n /\ k + 1 \in 1..n
      OBVIOUS
    <3>2. next[z[k]] = After(s, n, k + 1)
      BY <2>1, <2>2, <3>1 DEF Linked, Pointer
    <3>3. CASE k = n - 1
      BY <3>2, <3>3 DEF After
    <3>4. CASE k # n - 1
      <4>1. k + 1 \in 1..(n - 1) /\ k + 1 # n
        BY <3>4
      <4>2. z[k + 1] = s[(k + 1) + 1]
        BY <2>2, <4>1
      <4> QED BY <3>2, <3>4, <4>1, <4>2 DEF After
    <3> QED BY <3>3, <3>4
  <2>7. From(first) = z
    BY <2>3, <2>4, <2>5, <2>6, FromIs
  <2>8. ToSet(z) = Rest(s, n, 1)
    <3>1. DOMAIN z = 1..(n - 1)
      OBVIOUS
    <3>2. \A k \in 1..(n - 1) : k + 1 \in (1 + 1)..n
      OBVIOUS
    <3>3. \A j \in (1 + 1)..n : j - 1 \in 1..(n - 1) /\ (j - 1) + 1 = j
      OBVIOUS
    <3>4. \A j \in (1 + 1)..n : z[j - 1] = s[j]
      BY <2>2, <3>3
    <3> QED BY <2>2, <3>1, <3>2, <3>3, <3>4 DEF ToSet, Rest
  <2> QED BY <1>2, <2>4, <2>7, <2>8
<1> QED BY <1>3, <1>4

\* The list as temphead shows it: all of it, or nothing while pipe_fork has put it aside.
LEMMA ListIs ==
  ASSUME TypeOK, NEW n \in Nat \ {0}, NEW s \in [1..n -> Addresses], Linked(s, n), Placed(s, n)
  PROVE  /\ ToSet(List) \subseteq Rest(s, n, 1)
         /\ pc # "fork" => Last(Pointers) = s[n]
<1>1. CASE pc # "fork"
  <2>1. s[1] = TempHead /\ \A j \in 1..n : next[s[j]] = After(s, n, j)
    BY <1>1 DEF Linked, Pointer
  <2>2. \A i, j \in 1..n : s[i] = s[j] => i = j
    BY DEF Linked
  <2>3. Pointers = s
    BY <2>1, <2>2, FromIs DEF Pointers
  <2>5. Last(Pointers) = s[n]
    BY <2>3, TailIs DEF Last
  <2>6. DOMAIN Tail(s) = 1..(n - 1) /\ \A j \in 1..(n - 1) : Tail(s)[j] = s[j + 1]
    BY TailIs
  <2>7. \A j \in 1..(n - 1) : j + 1 \in (1 + 1)..n
    OBVIOUS
  <2>8. ToSet(List) \subseteq Rest(s, n, 1)
    BY <2>3, <2>6, <2>7 DEF List, ToSet, Rest
  <2> QED BY <2>5, <2>8
<1>2. CASE pc = "fork"
  <2>1. next[TempHead] = Null
    BY <1>2 DEF Placed
  <2>2. PICK z \in [1..1 -> Addresses] : z[1] = TempHead
    <3> DEFINE z == [k \in 1..1 |-> TempHead]
    <3>1. z \in [1..1 -> Addresses] /\ z[1] = TempHead
      BY DEF Addresses
    <3> QED BY <3>1
  <2>3. \A k \in 1..1 : k = 1
    OBVIOUS
  <2>4. \A k \in 1..1 : next[z[k]] = After(z, 1, k)
    BY <2>1, <2>2, <2>3 DEF After
  <2>5. \A i, j \in 1..1 : z[i] = z[j] => i = j
    BY <2>3
  <2>6. Pointers = z
    <3>1. 1 \in Nat \ {0}
      OBVIOUS
    <3> QED BY <2>2, <2>4, <2>5, <3>1, FromIs DEF Pointers
  <2>7. DOMAIN Tail(z) = {}
    <3>1. 1 \in Nat \ {0} /\ 1..(1 - 1) = {}
      OBVIOUS
    <3> QED BY <3>1, TailIs
  <2> QED BY <1>2, <2>6, <2>7 DEF List, ToSet
<1> QED BY <1>1, <1>2

\* While sort runs and no handler cleans up, the files on disk are those of the list, but
\* for the one a critical section is about; neither the list nor a handler reaches a node
\* that was freed; and temptail is the address of the last pointer where it is used.
THEOREM ListIsDiskHolds == Spec => []ListIsDisk
<1>1. ASSUME Inv PROVE ListIsDisk
  <2>1. CASE ended # ""
    BY <2>1 DEF ListIsDisk
  <2>2. CASE ended = ""
    <3>1. PICK n \in Nat \ {0} : \E z \in [1..n -> Addresses] : ListInv(z, n)
      BY <1>1, <2>2 DEF Inv
    <3>2. PICK s \in [1..n -> Addresses] : ListInv(s, n)
      BY <3>1
    <3>3. TypeOK /\ Linked(s, n) /\ Placed(s, n) /\ Swept(s, n)
      BY <1>1, <3>2 DEF Inv, ListInv
    <3>4. Known = Rest(s, n, 1)
      BY <3>3, KnownIs
    <3>5. ASSUME \A t \in Threads : cleaning[t] = "no"
          PROVE  disk = CASE pc = "link" -> Known \cup {node}
                          [] pc = "remove" -> Known \ {node}
                          [] OTHER -> Known
      <4>1. Cleaners = {}
        BY <3>5 DEF Cleaners
      <4> QED BY <3>3, <3>4, <4>1 DEF Swept, OnDisk
    <3>6. Rest(s, n, 1) \subseteq nodes
      BY <3>3, ListFacts
    <3>7. ASSUME NEW t \in Threads PROVE cleaning[t] \in nodes \cup {Null, "no"}
      <4>1. CASE t \notin Cleaners
        BY <4>1 DEF Cleaners
      <4>2. CASE t \in Cleaners
        <5>1. PICK k \in 1..n : cleaning[t] = After(s, n, k)
          BY <3>3, <4>2 DEF Swept, SweptBy
        <5>2. CASE k = n
          BY <5>1, <5>2 DEF After
        <5>3. CASE k # n
          <6>1. k + 1 \in 2..n
            BY <5>3
          <6> QED BY <3>3, <5>1, <5>3, <6>1 DEF After, Linked
        <5> QED BY <5>2, <5>3
      <4> QED BY <4>1, <4>2
    <3>8. ToSet(List) \subseteq nodes
      BY <3>3, <3>6, ListIs
    <3>9. pc \in {"main", "create", "link"} => temptail = Last(Pointers)
      BY <3>3, ListIs DEF Placed
    <3> QED BY <3>5, <3>7, <3>8, <3>9 DEF ListIsDisk
  <2> QED BY <2>1, <2>2
<1> QED BY <1>1, InvAlways, PTL

=============================================================================

----------------------------- MODULE SavefilesProofs -----------------------------
(***************************************************************************)
(* Theorems about Savefiles: that its packets are saved in order.          *)
(***************************************************************************)
EXTENDS Savefiles, TLAPS, FiniteSetTheorems, SequenceTheorems, WellFoundedInduction

PacketSet == [number : Nat, size : Nat, time : Nat]
FileSet == [name : Nat \X Nat, packets : Seq(PacketSet)]

Types ==
  /\ o \in Options
  /\ pc \in {"pcap_loop", "rotate_time", "rotate_size", "dump", "undelay", "check_info", "exit", "error"}
  /\ sp \in Nat \X Nat /\ packets_captured \in Nat
  /\ Cflag_count \in Nat /\ Gflag_count \in Nat /\ Gflag_time \in Nat /\ now \in Nat
  /\ infodelay \in {0, 1}
  /\ savefiles \in Seq(FileSet) /\ Len(savefiles) > 0

\* A packet is counted when the callback has it, and written at the end of the callback.
Counts ==
  /\ pc \in {"rotate_time", "rotate_size", "dump", "undelay", "error"} => infodelay = 1
  /\ pc \in {"pcap_loop", "check_info"} => infodelay = 0
  /\ infodelay = 1 => packets_captured > 0

Written == packets_captured - (IF infodelay > 0 /\ pc # "undelay" THEN 1 ELSE 0)

\* The savefiles cut the capture: c[f] is the number of the last packet of savefile f.
Cuts(c) ==
  /\ c \in [0..Len(savefiles) -> Nat]
  /\ c[0] = 0 /\ c[Len(savefiles)] = Written
  /\ \A f \in 1..Len(savefiles) :
       /\ c[f - 1] <= c[f] /\ Len(savefiles[f].packets) = c[f] - c[f - 1]
       /\ \A j \in 1..Len(savefiles[f].packets) : savefiles[f].packets[j].number = c[f - 1] + j

Ring == o.Cflag # 0 /\ o.Wflag > 0

\* The savefiles of a period have in their names the time of its beginning, and numbers that
\* go round with -W.
Consistent(fs, time) ==
  /\ \A f \in 1..Len(fs) :
       /\ fs[f].name[1] <= time
       /\ Ring => fs[f].name[2] < o.Wflag
  /\ \A f, g \in 1..Len(fs) : f < g =>
       /\ fs[f].name[1] <= fs[g].name[1]
       /\ o.Cflag = 0 => fs[f].name[1] < fs[g].name[1]
       /\ fs[f].name[1] = fs[g].name[1] =>
            /\ o.Wflag = 0 => fs[g].name[2] = fs[f].name[2] + (g - f)
            /\ Ring /\ g - f <= o.Wflag =>
                 \/ fs[g].name[2] = fs[f].name[2] + (g - f)
                 \/ fs[g].name[2] = fs[f].name[2] + (g - f) - o.Wflag

Names ==
  /\ pc \notin {"exit", "error"} => Last(savefiles).name = <<Gflag_time, Cflag_count>>
  /\ o.Gflag = 0 => Gflag_time = 0
  /\ o.Cflag = 0 => Cflag_count = 0
  /\ Consistent(savefiles, Gflag_time)

\* Without -C, each savefile but the first is a rotation by time.
Periods ==
  o.Cflag = 0 => /\ pc \notin {"exit", "error"} => Len(savefiles) = Gflag_count + 1
                 /\ o.Gflag # 0 /\ o.Wflag > 0 => Len(savefiles) <= o.Wflag

\* The packet that is to be written belongs in the current savefile.
Fitting ==
  /\ Gflag_time <= now
  /\ o.Gflag # 0 /\ pc \in {"rotate_size", "dump"} => sp[2] - Gflag_time \in 0..(o.Gflag - 1)
  /\ o.Cflag # 0 /\ pc = "dump" => SizeOf(Last(savefiles).packets) <= o.Cflag
  /\ \A f \in 1..Len(savefiles) :
       /\ o.Cflag # 0 /\ savefiles[f].packets # <<>> => SizeOf(Front(savefiles[f].packets)) <= o.Cflag
       /\ o.Gflag # 0 => \A j \in 1..Len(savefiles[f].packets) :
            savefiles[f].packets[j].time - savefiles[f].name[1] \in 0..(o.Gflag - 1)

SaveInv == Types /\ Counts /\ (\E c : Cuts(c)) /\ Names /\ Periods /\ Fitting
-----------------------------------------------------------------------------
(* Sums and joined sequences *)

LEMMA Least ==
  ASSUME NEW T \in SUBSET Nat, T # {}
  PROVE  \E x \in T : \A y \in T : x <= y
<1> DEFINE R == OpToRel(<, Nat)
<1>1. IsWellFoundedOn(R, Nat)
  BY NatLessThanWellFounded
<1>2. \A x, y \in Nat : <<x, y>> \in R <=> x < y
  BY DEF OpToRel
<1> HIDE DEF R
<1>3. PICK x \in T : \A y \in T : ~ (<<y, x>> \in R)
  <2>1. T \subseteq Nat
    OBVIOUS
  <2> QED BY <1>1, <2>1, WFMin, Zenon
<1>4. ASSUME NEW y \in T PROVE x <= y
  <2>1. x \in Nat /\ y \in Nat /\ ~(y < x)
    BY <1>2, <1>3
  <2> QED BY <2>1
<1> QED BY <1>4

LEMMA MaxIs ==
  ASSUME NEW n \in Nat, NEW T \in SUBSET (1..n), T # {}
  PROVE  Max(T) \in T /\ \A y \in T : Max(T) >= y
<1> DEFINE B == {y \in Nat : \E x \in T : y = n - x}
<1>1. B \in SUBSET Nat /\ B # {}
  <2>1. PICK x \in T : x \in 1..n
    OBVIOUS
  <2>2. n - x \in Nat
    BY <2>1
  <2> QED BY <2>2
<1> HIDE DEF B
<1>2. PICK m \in B : \A y \in B : m <= y
  BY <1>1, Least
<1> USE DEF B
<1>3. PICK x \in T : m = n - x
  BY <1>2
<1>4. ASSUME NEW y \in T PROVE x >= y
  <2>1. n - y \in B /\ n - y \in Nat /\ y \in 1..n /\ x \in 1..n
    OBVIOUS
  <2>2. n - x <= n - y
    BY <1>2, <1>3, <2>1
  <2> QED BY <2>1, <2>2
<1> QED BY <1>3, <1>4 DEF Max

\* A sum over the subsets of 1..k, by their greatest elements.
Sums(k, g, ps) ==
  \A s \in SUBSET (1..k) : g[s] = IF s = {} THEN 0 ELSE g[s \ {Max(s)}] + ps[Max(s)].size

LEMMA SumsExist ==
  ASSUME NEW n \in Nat, NEW ps, \A j \in 1..n : ps[j].size \in Nat
  PROVE  \E g \in [SUBSET (1..n) -> Nat] : Sums(n, g, ps)
<1> DEFINE Some(k) == \E g \in [SUBSET (1..k) -> Nat] : Sums(k, g, ps)
           T == {k \in Nat : k <= n /\ ~ Some(k)}
<1>1. CASE T = {}
  <2> HIDE DEF Some
  <2>1. Some(n)
    BY <1>1
  <2> QED BY <2>1 DEF Some
<1>2. CASE T # {}
  <2>1. T \in SUBSET Nat
    OBVIOUS
  <2> HIDE DEF T
  <2>2. PICK k \in T : \A y \in T : k <= y
    BY <1>2, <2>1, Least
  <2> USE DEF T
  <2>3. k \in Nat /\ k <= n /\ ~ \E g \in [SUBSET (1..k) -> Nat] : Sums(k, g, ps)
    BY <2>2
  <2>4. CASE k = 0
    <3> DEFINE g == [s \in SUBSET (1..k) |-> 0]
    <3>1. g \in [SUBSET (1..k) -> Nat]
      OBVIOUS
    <3>2. \A s \in SUBSET (1..k) : s = {} /\ g[s] = 0
      BY <2>4
    <3>3. Sums(k, g, ps)
      BY <3>2 DEF Sums
    <3> QED BY <2>3, <3>1, <3>3
  <2>5. CASE k # 0
    <3>1. k - 1 \in Nat /\ k - 1 <= n /\ ~(k <= k - 1)
      BY <2>3, <2>5
    <3>2. PICK h \in [SUBSET (1..(k - 1)) -> Nat] : Sums(k - 1, h, ps)
      BY <2>2, <3>1
    <3> DEFINE g == [s \in SUBSET (1..k) |-> IF k \in s THEN h[s \ {k}] + ps[k].size ELSE h[s]]
    <3>3. \A s \in SUBSET (1..k) : s \ {k} \in SUBSET (1..(k - 1)) /\ (k \notin s => s \in SUBSET (1..(k - 1)))
      BY <2>3, <2>5
    <3>4. ps[k].size \in Nat
      BY <2>3, <2>5
    <3>5. g \in [SUBSET (1..k) -> Nat]
      BY <3>2, <3>3, <3>4
    <3>6. ASSUME NEW s \in SUBSET (1..k)
          PROVE  g[s] = IF s = {} THEN 0 ELSE g[s \ {Max(s)}] + ps[Max(s)].size
      <4>1. CASE k \in s
        <5>1. Max(s) \in s /\ \A y \in s : Max(s) >= y
          BY <2>3, <4>1, MaxIs
        <5>2. Max(s) \in 1..k /\ Max(s) >= k
          BY <4>1, <5>1
        <5>3. Max(s) = k
          BY <2>3, <5>2
        <5>4. s \ {k} \in SUBSET (1..k) /\ k \notin s \ {k}
          OBVIOUS
        <5>5. g[s \ {k}] = h[s \ {k}] /\ g[s] = h[s \ {k}] + ps[k].size /\ s # {}
          BY <4>1, <5>4
        <5> HIDE DEF g
        <5> QED BY <5>3, <5>5
      <4>2. CASE k \notin s /\ s # {}
        <5>1. s \in SUBSET (1..(k - 1)) /\ Max(s) \in s
          BY <2>3, <3>3, <4>2, MaxIs
        <5>2. h[s] = h[s \ {Max(s)}] + ps[Max(s)].size
          BY <3>2, <4>2, <5>1 DEF Sums
        <5>3. s \ {Max(s)} \in SUBSET (1..k) /\ k \notin s \ {Max(s)}
          BY <4>2
        <5>4. g[s] = h[s] /\ g[s \ {Max(s)}] = h[s \ {Max(s)}]
          BY <4>2, <5>3
        <5> HIDE DEF g
        <5> QED BY <4>2, <5>2, <5>4
      <4>3. CASE s = {}
        <5>1. h[s] = 0
          BY <3>2, <4>3 DEF Sums
        <5> QED BY <4>3, <5>1
      <4> QED BY <4>1, <4>2, <4>3
    <3>7. Sums(k, g, ps)
      <4> HIDE DEF g
      <4> QED BY <3>6 DEF Sums
    <3> HIDE DEF g
    <3> QED BY <2>3, <3>5, <3>7
  <2> QED BY <2>4, <2>5
<1> QED BY <1>1, <1>2

LEMMA SizeIs ==
  ASSUME NEW ps \in Seq(PacketSet)
  PROVE  SizeOf(ps) \in Nat /\ (ps = <<>> => SizeOf(ps) = 0)
<1> DEFINE n == Len(ps)
           D == DOMAIN ps
           step(h) == [s \in SUBSET D |-> IF s = {} THEN 0 ELSE h[s \ {Max(s)}] + ps[Max(s)].size]
           f == CHOOSE h : h = step(h)
<1>1. n \in Nat /\ D = 1..n /\ \A j \in 1..n : ps[j].size \in Nat
  <2>1. ASSUME NEW j \in 1..n PROVE ps[j] \in PacketSet
    OBVIOUS
  <2>2. \A p \in PacketSet : p.size \in Nat
    BY DEF PacketSet
  <2>3. n \in Nat /\ D = 1..n
    OBVIOUS
  <2> QED BY <2>1, <2>2, <2>3
<1>2. PICK g \in [SUBSET (1..n) -> Nat] : Sums(n, g, ps)
  BY <1>1, SumsExist
<1>3. g = step(g)
  BY <1>1, <1>2 DEF Sums
<1>4. f = step(f)
  <2> HIDE DEF step
  <2> QED BY <1>3, Zenon
<1>5. \A s \in SUBSET D : f[s] = IF s = {} THEN 0 ELSE f[s \ {Max(s)}] + ps[Max(s)].size
  <2> HIDE DEF f
  <2> QED BY <1>4
<1>6. ASSUME NEW s \in SUBSET D
      PROVE  /\ Cardinality(s) \in Nat
             /\ s # {} => /\ Max(s) \in D /\ s \ {Max(s)} \in SUBSET D
                          /\ Cardinality(s \ {Max(s)}) = Cardinality(s) - 1
                          /\ Cardinality(s \ {Max(s)}) \in Nat
  <2>1. IsFiniteSet(1..n)
    BY <1>1, FS_Interval
  <2>2. IsFiniteSet(s) /\ Cardinality(s) \in Nat
    BY <1>1, <2>1, FS_Subset, FS_CardinalityType
  <2>3. ASSUME s # {} PROVE Max(s) \in s
    BY <1>1, <2>3, MaxIs
  <2>4. ASSUME s # {} PROVE /\ Cardinality(s \ {Max(s)}) = Cardinality(s) - 1
                            /\ Cardinality(s \ {Max(s)}) \in Nat
    <3>1. IsFiniteSet(s \ {Max(s)}) /\ Cardinality(s \ {Max(s)}) = Cardinality(s) - 1
      BY <2>2, <2>3, <2>4, FS_RemoveElement
    <3> QED BY <3>1, FS_CardinalityType
  <2> QED BY <2>2, <2>3, <2>4
<1>7. \A s \in SUBSET D : f[s] \in Nat
  <2> DEFINE T == {k \in Nat : \E s \in SUBSET D : Cardinality(s) = k /\ f[s] \notin Nat}
  <2> HIDE DEF f, D, n
  <2>1. CASE T = {}
    BY <1>6, <2>1
  <2>2. CASE T # {}
    <3>1. T \in SUBSET Nat
      OBVIOUS
    <3> HIDE DEF T
    <3>2. PICK m \in T : \A y \in T : m <= y
      BY <2>2, <3>1, Least
    <3> USE DEF T
    <3>3. PICK s \in SUBSET D : Cardinality(s) = m /\ f[s] \notin Nat
      BY <3>2
    <3>4. s # {}
      <4>1. ASSUME s = {} PROVE f[s] = 0
        BY <1>5, <4>1
      <4> QED BY <3>3, <4>1
    <3>5. PICK x \in D : /\ x = Max(s) /\ s \ {x} \in SUBSET D /\ Cardinality(s \ {x}) = m - 1
                         /\ Cardinality(s \ {x}) \in Nat
      BY <1>6, <3>3, <3>4
    <3>6. m \in Nat /\ m - 1 \in Nat /\ ~(m <= m - 1)
      BY <3>2, <3>5
    <3>7. f[s \ {x}] \in Nat
      BY <3>2, <3>5, <3>6
    <3>8. f[s] = f[s \ {x}] + ps[x].size
      BY <1>5, <3>4, <3>5
    <3>9. ps[x].size \in Nat
      BY <1>1, <3>5
    <3> QED BY <3>3, <3>7, <3>8, <3>9
  <2> QED BY <2>1, <2>2
<1>8. SizeOf(ps) = f[D]
  BY Zenon DEF SizeOf, FoldLeft, MapThenFoldSet
<1>9. ps = <<>> => D = {}
  OBVIOUS
<1> HIDE DEF f, D
<1> QED BY <1>5, <1>7, <1>8, <1>9

\* Sequences of numbered packets, each of which goes on where the one before it ended.
GoesOn(n, ss, c) ==
  \A f \in 1..n : /\ c[f - 1] <= c[f] /\ Len(ss[f]) = c[f] - c[f - 1]
                  /\ \A j \in 1..Len(ss[f]) : ss[f][j].number = c[f - 1] + j

LEMMA JoinedNumbers ==
  ASSUME NEW n \in Nat, n > 0, NEW ss \in Seq(Seq(PacketSet)), Len(ss) = n, NEW c \in [0..n -> Nat], c[0] = 0,
         GoesOn(n, ss, c)
  PROVE  /\ FlattenSeq(ss) \in Seq(PacketSet) /\ Len(FlattenSeq(ss)) = c[n]
         /\ \A j \in 1..c[n] : FlattenSeq(ss)[j].number = j
<1> DEFINE Joins(k, h) == \A i \in 1..k : h[i] = IF i = 1 THEN ss[i] ELSE h[i - 1] \o ss[i]
<1>1. \E g \in [1..n -> Seq(PacketSet)] : Joins(n, g)
  <2> DEFINE Some(k) == \E g \in [1..k -> Seq(PacketSet)] : Joins(k, g)
             T == {k \in Nat : k <= n /\ ~ Some(k)}
  <2>1. CASE T = {}
    <3> HIDE DEF Some
    <3>1. n \in Nat /\ n <= n
      OBVIOUS
    <3>2. Some(n)
      BY <2>1, <3>1, Zenon
    <3> QED BY <3>2 DEF Some
  <2>2. CASE T # {}
    <3>1. T \in SUBSET Nat
      OBVIOUS
    <3> HIDE DEF T
    <3>2. PICK k \in T : \A y \in T : k <= y
      BY <2>2, <3>1, Least
    <3> USE DEF T
    <3>3. k \in Nat /\ k <= n /\ ~ \E g \in [1..k -> Seq(PacketSet)] : Joins(k, g)
      BY <3>2
    <3>4. CASE k = 0
      <4>1. [i \in 1..k |-> <<>>] \in [1..k -> Seq(PacketSet)] /\ Joins(k, [i \in 1..k |-> <<>>])
        BY <3>4
      <4> QED BY <3>3, <4>1
    <3>5. CASE k # 0
      <4>1. k - 1 \in Nat /\ k - 1 <= n /\ ~(k <= k - 1) /\ k \in 1..n
        BY <3>3, <3>5
      <4>2. PICK h \in [1..(k - 1) -> Seq(PacketSet)] : Joins(k - 1, h)
        BY <3>2, <4>1
      <4> DEFINE g == [i \in 1..k |-> IF i < k THEN h[i] ELSE IF k = 1 THEN ss[k] ELSE h[k - 1] \o ss[k]]
      <4>3. ss[k] \in Seq(PacketSet) /\ (k # 1 => k - 1 \in 1..(k - 1))
        BY <3>3, <4>1
      <4>4. k # 1 => h[k - 1] \in Seq(PacketSet) /\ h[k - 1] \o ss[k] \in Seq(PacketSet)
        BY <4>2, <4>3
      <4>5. g \in [1..k -> Seq(PacketSet)]
        <5>1. ASSUME NEW i \in 1..k, i < k PROVE h[i] \in Seq(PacketSet)
          <6>1. i \in 1..(k - 1)
            BY <3>3, <5>1
          <6> QED BY <4>2, <6>1
        <5> QED BY <4>3, <4>4, <5>1
      <4>6. ASSUME NEW i \in 1..k PROVE g[i] = IF i = 1 THEN ss[i] ELSE g[i - 1] \o ss[i]
        <5>1. CASE i < k
          <6>1. i \in 1..(k - 1) /\ (i # 1 => i - 1 \in 1..k /\ i - 1 < k)
            BY <3>3, <5>1
          <6>2. h[i] = IF i = 1 THEN ss[i] ELSE h[i - 1] \o ss[i]
            BY <4>2, <6>1
          <6>3. g[i] = h[i] /\ (i # 1 => g[i - 1] = h[i - 1])
            BY <5>1, <6>1
          <6> HIDE DEF g
          <6> QED BY <6>2, <6>3
        <5>2. CASE i = k
          <6>1. k # 1 => k - 1 \in 1..k /\ k - 1 < k
            BY <3>3
          <6>2. g[k] = (IF k = 1 THEN ss[k] ELSE h[k - 1] \o ss[k]) /\ (k # 1 => g[k - 1] = h[k - 1])
            BY <3>3, <5>2, <6>1
          <6> HIDE DEF g
          <6> QED BY <5>2, <6>2
        <5> QED BY <3>3, <5>1, <5>2
      <4>7. Joins(k, g)
        <5> HIDE DEF g
        <5> QED BY <4>6
      <4> HIDE DEF g, Joins
      <4> QED BY <3>3, <4>5, <4>7
    <3> QED BY <3>4, <3>5
  <2> QED BY <2>1, <2>2
<1> DEFINE step(h) == [i \in 1..n |-> IF i = 1 THEN ss[i] ELSE h[i - 1] \o ss[i]]
           f == CHOOSE h : h = step(h)
<1>2. f = step(f)
  <2>1. PICK g \in [1..n -> Seq(PacketSet)] : Joins(n, g)
    BY <1>1
  <2>2. g = step(g)
    BY <2>1
  <2> HIDE DEF step
  <2> QED BY <2>2, Zenon
<1>3. \A i \in 1..n : f[i] = IF i = 1 THEN ss[i] ELSE f[i - 1] \o ss[i]
  <2> HIDE DEF f
  <2> QED BY <1>2
<1>4. FlattenSeq(ss) = f[n]
  BY DEF FlattenSeq
<1> DEFINE Good(i) == /\ f[i] \in Seq(PacketSet) /\ Len(f[i]) = c[i]
                      /\ \A j \in 1..c[i] : f[i][j].number = j
<1>5. \A i \in 1..n : Good(i)
  <2> DEFINE T == {i \in 1..n : ~Good(i)}
  <2> HIDE DEF f
  <2>1. CASE T = {}
    BY <2>1
  <2>2. CASE T # {}
    <3>1. T \in SUBSET Nat
      OBVIOUS
    <3> HIDE DEF T
    <3>2. PICK k \in T : \A y \in T : k <= y
      BY <2>2, <3>1, Least
    <3> USE DEF T
    <3>3. k \in 1..n /\ ~Good(k)
      BY <3>2
    <3>4. /\ ss[k] \in Seq(PacketSet) /\ c[k - 1] \in Nat /\ c[k] \in Nat /\ c[k - 1] <= c[k]
          /\ Len(ss[k]) = c[k] - c[k - 1]
          /\ \A j \in 1..Len(ss[k]) : ss[k][j].number = c[k - 1] + j
      <4>1. k \in 1..n /\ k \in 0..n /\ k - 1 \in 0..n
        BY <3>3
      <4>2. ss[k] \in Seq(PacketSet) /\ c[k - 1] \in Nat /\ c[k] \in Nat
        BY <4>1
      <4> QED BY <4>1, <4>2, Zenon DEF GoesOn
    <3>5. CASE k = 1
      <4>1. c[k - 1] = 0 /\ f[k] = ss[k]
        BY <1>3, <3>3, <3>5
      <4> QED BY <3>3, <3>4, <4>1
    <3>6. CASE k # 1
      <4>1. k - 1 \in 1..n /\ ~(k <= k - 1)
        BY <3>3, <3>6
      <4> HIDE DEF Good
      <4>2. Good(k - 1)
        BY <3>2, <4>1
      <4> USE DEF Good
      <4>3. f[k] = f[k - 1] \o ss[k]
        BY <1>3, <3>3, <3>6
      <4> DEFINE s == f[k - 1]
                 t == ss[k]
      <4>4. /\ s \in Seq(PacketSet) /\ Len(s) = c[k - 1] /\ \A j \in 1..c[k - 1] : s[j].number = j
            /\ t \in Seq(PacketSet) /\ Len(t) = c[k] - c[k - 1]
            /\ \A j \in 1..Len(t) : t[j].number = c[k - 1] + j
        BY <3>4, <4>2
      <4>5. f[k] = s \o t
        BY <4>3
      <4> HIDE DEF s, t
      <4> HIDE DEF Good, Joins, step
      <4>a. s \in Seq(PacketSet) /\ t \in Seq(PacketSet)
        BY <4>4
      <4>6. /\ s \o t \in Seq(PacketSet) /\ Len(s \o t) = Len(s) + Len(t)
            /\ \A j \in 1..(Len(s) + Len(t)) : (s \o t)[j] = IF j <= Len(s) THEN s[j] ELSE t[j - Len(s)]
        BY <4>a, ConcatProperties, Zenon
      <4>7. Len(s) + Len(t) = c[k]
        <5>1. PICK a \in Nat : a = c[k - 1]
          BY <3>4
        <5>2. PICK b \in Nat : b = c[k]
          BY <3>4
        <5>3. Len(s) = a /\ Len(t) = b - a
          BY <4>4, <5>1, <5>2
        <5> QED BY <5>2, <5>3
      <4>8. ASSUME NEW j \in 1..c[k] PROVE (s \o t)[j].number = j
        <5>1. CASE j <= c[k - 1]
          <6>1. j \in 1..c[k - 1]
            BY <3>4, <5>1
          <6> QED BY <4>4, <4>6, <4>7, <5>1, <6>1
        <5>2. CASE ~(j <= c[k - 1])
          <6>1. j - c[k - 1] \in 1..Len(t) /\ c[k - 1] + (j - c[k - 1]) = j
            <7>1. PICK a \in Nat : a = c[k - 1]
              BY <3>4
            <7>2. PICK b \in Nat : b = c[k]
              BY <3>4
            <7>3. Len(t) = b - a /\ j \in 1..b /\ ~(j <= a)
              BY <4>4, <5>2, <7>1, <7>2
            <7>4. j - a \in 1..(b - a) /\ a + (j - a) = j
              BY <7>3
            <7> QED BY <7>1, <7>3, <7>4
          <6>2. (s \o t)[j] = t[j - c[k - 1]]
            BY <4>4, <4>6, <4>7, <5>2
          <6> QED BY <4>4, <6>1, <6>2
        <5> QED BY <5>1, <5>2
      <4>9. Good(k)
        BY <4>5, <4>6, <4>7, <4>8 DEF Good
      <4> QED BY <3>3, <4>9
    <3> QED BY <3>5, <3>6
  <2> QED BY <2>1, <2>2
<1> HIDE DEF f
<1>6. n \in 1..n
  OBVIOUS
<1> QED BY <1>4, <1>5, <1>6
-----------------------------------------------------------------------------
(* Steps *)

LEMMA OptionsAre ==
  ASSUME Types
  PROVE  o.Cflag \in Nat /\ o.Gflag \in Nat /\ o.Wflag \in Nat
BY SavefilesAssumption DEF Types

LEMMA FilesAre ==
  ASSUME Types
  PROVE  /\ Len(savefiles) \in Nat /\ Len(savefiles) > 0 /\ Last(savefiles) = savefiles[Len(savefiles)]
         /\ Len(savefiles) \in 1..Len(savefiles)
         /\ \A f \in 1..Len(savefiles) :
              /\ savefiles[f] \in FileSet /\ savefiles[f].packets \in Seq(PacketSet)
              /\ savefiles[f].name[1] \in Nat /\ savefiles[f].name[2] \in Nat
<1>1. savefiles \in Seq(FileSet) /\ Len(savefiles) \in Nat /\ Len(savefiles) > 0
  BY DEF Types
<1>2. \A f \in 1..Len(savefiles) : savefiles[f] \in FileSet
  BY <1>1
<1>3. \A x \in FileSet : x.packets \in Seq(PacketSet) /\ x.name[1] \in Nat /\ x.name[2] \in Nat
  BY DEF FileSet
<1>4. Last(savefiles) = savefiles[Len(savefiles)]
  BY DEF Last
<1> QED BY <1>1, <1>2, <1>3, <1>4

\* No savefile is opened or written.
LEMMA QuietSaves ==
  ASSUME SaveInv, UNCHANGED <<o, savefiles>>, Types', Counts', Written' = Written,
         now' >= now, Cflag_count' = Cflag_count,
         \/ Gflag_time' = Gflag_time /\ Gflag_count' = Gflag_count
         \/ pc' = "exit" /\ o.Gflag # 0 /\ Gflag_time' = now,
         pc' \notin {"exit", "error"} => pc \notin {"exit", "error"},
         o.Gflag # 0 /\ pc' \in {"rotate_size", "dump"} => sp'[2] - Gflag_time' \in 0..(o.Gflag - 1),
         o.Cflag # 0 /\ pc' = "dump" => SizeOf(Last(savefiles).packets) <= o.Cflag
  PROVE  SaveInv'
<1>1. /\ Gflag_time \in Nat /\ now \in Nat /\ now' \in Nat /\ Gflag_time' \in Nat /\ Gflag_time <= now
  BY DEF SaveInv, Types, Fitting
<1>2. Gflag_time <= Gflag_time' /\ Gflag_time' <= now'
  BY <1>1
<1>3. PICK c : Cuts(c)
  BY DEF SaveInv
<1>4. Cuts(c)'
  BY <1>3 DEF Cuts
<1>5. Names'
  <2>1. \A f \in 1..Len(savefiles) : savefiles[f].name[1] <= Gflag_time'
    <3>1. ASSUME NEW f \in 1..Len(savefiles) PROVE savefiles[f].name[1] <= Gflag_time'
      <4>1. savefiles[f].name[1] \in Nat /\ savefiles[f].name[1] <= Gflag_time
        BY FilesAre DEF SaveInv, Names, Consistent
      <4> QED BY <1>1, <1>2, <4>1
    <3> QED BY <3>1
  <2>2. Names
    BY DEF SaveInv
  <2>3. Ring' = Ring
    BY DEF Ring
  <2>4. Consistent(savefiles, Gflag_time')
    BY <2>1, <2>2 DEF Names, Consistent
  <2>5. Consistent(savefiles, Gflag_time)'
    BY <2>3, <2>4 DEF Consistent
  <2> QED BY <2>2, <2>5 DEF Names
<1>6. Periods'
  BY DEF SaveInv, Periods
<1>7. Fitting'
  BY <1>2 DEF SaveInv, Fitting
<1> QED BY <1>4, <1>5, <1>6, <1>7 DEF SaveInv

\* A savefile that is opened is the first of its period or the next one.
LEMMA OpenedCuts ==
  ASSUME Types, Types', NEW c, Cuts(c), NEW name, savefiles' = Append(savefiles, Savefile(name)),
         Written' = Written
  PROVE  \E d : Cuts(d)'
<1> DEFINE n == Len(savefiles)
           d == [f \in 0..(n + 1) |-> IF f <= n THEN c[f] ELSE c[n]]
<1>1. /\ n \in Nat /\ Len(savefiles') = n + 1 /\ savefiles'[n + 1] = Savefile(name)
      /\ \A f \in 1..n : savefiles'[f] = savefiles[f]
  BY DEF Types
<1>2. /\ c \in [0..n -> Nat] /\ c[0] = 0 /\ c[n] = Written
      /\ \A f \in 1..n :
           /\ c[f - 1] <= c[f] /\ Len(savefiles[f].packets) = c[f] - c[f - 1]
           /\ \A j \in 1..Len(savefiles[f].packets) : savefiles[f].packets[j].number = c[f - 1] + j
  BY DEF Cuts
<1> HIDE DEF n
<1>3. d \in [0..(n + 1) -> Nat] /\ d[0] = 0 /\ d[n + 1] = Written'
  BY <1>1, <1>2
<1>4. ASSUME NEW f \in 1..(n + 1)
      PROVE  /\ d[f - 1] <= d[f] /\ Len(savefiles'[f].packets) = d[f] - d[f - 1]
             /\ \A j \in 1..Len(savefiles'[f].packets) : savefiles'[f].packets[j].number = d[f - 1] + j
  <2>1. CASE f <= n
    <3>1. f \in 1..n /\ f - 1 \in 0..n /\ f - 1 <= n /\ f \in 0..(n + 1) /\ f - 1 \in 0..(n + 1)
      BY <1>1, <2>1
    <3>2. d[f] = c[f] /\ d[f - 1] = c[f - 1] /\ savefiles'[f] = savefiles[f]
      BY <1>1, <2>1, <3>1
    <3> HIDE DEF d
    <3> QED BY <1>2, <3>1, <3>2
  <2>2. CASE f = n + 1
    <3>1. d[f] = c[n] /\ d[f - 1] = c[n] /\ c[n] \in Nat
      BY <1>1, <1>2, <2>2
    <3>2. savefiles'[f].packets = <<>>
      BY <1>1, <2>2 DEF Savefile
    <3>3. PICK p : p = savefiles'[f].packets
      OBVIOUS
    <3>4. Len(p) = 0 /\ \A j \in 1..Len(p) : FALSE
      BY <3>2, <3>3
    <3>5. c[n] - c[n] = 0 /\ c[n] <= c[n]
      BY <3>1
    <3> HIDE DEF d
    <3>6. d[f - 1] <= d[f] /\ Len(p) = d[f] - d[f - 1]
      BY <3>1, <3>4, <3>5
    <3>7. Len(savefiles'[f].packets) = d[f] - d[f - 1]
      BY <3>3, <3>6
    <3>8. \A j \in 1..Len(savefiles'[f].packets) : FALSE
      BY <3>3, <3>4
    <3> QED BY <3>6, <3>7, <3>8
  <2>3. f <= n \/ f = n + 1
    BY <1>1
  <2> QED BY <2>1, <2>2, <2>3, Zenon
<1>5. PICK e : e = d
  OBVIOUS
<1> HIDE DEF d
<1>6. Cuts(e)'
  BY <1>1, <1>3, <1>4, <1>5 DEF Cuts
<1> QED BY <1>6

\* A savefile that is opened is the first of its period or the next one.
LEMMA OpenedConsistent ==
  ASSUME SaveInv, pc \notin {"exit", "error"}, NEW t \in Nat, NEW k \in Nat,
         NEW fs, fs = Append(savefiles, Savefile(<<t, k>>)),
         \/ t > Gflag_time /\ k = 0
         \/ /\ t = Gflag_time /\ o.Cflag # 0
            /\ k = IF o.Wflag > 0 /\ Cflag_count + 1 >= o.Wflag THEN 0 ELSE Cflag_count + 1
  PROVE  Consistent(fs, t)
<1> DEFINE n == Len(savefiles)
           time(f) == savefiles[f].name[1]
           num(f) == savefiles[f].name[2]
<1>1. /\ n \in Nat /\ n \in 1..n /\ Len(fs) = n + 1 /\ fs[n + 1].name[1] = t /\ fs[n + 1].name[2] = k
      /\ \A f \in 1..n : fs[f].name[1] = time(f) /\ fs[f].name[2] = num(f)
  BY DEF SaveInv, Types, Savefile
<1>2. \A f \in 1..n : time(f) \in Nat /\ num(f) \in Nat
  BY FilesAre DEF SaveInv
<1>3. o.Cflag \in Nat /\ o.Wflag \in Nat /\ Gflag_time \in Nat /\ Cflag_count \in Nat
  BY OptionsAre DEF SaveInv, Types
<1>4. time(n) = Gflag_time /\ num(n) = Cflag_count
  <2>1. Last(savefiles).name = <<Gflag_time, Cflag_count>>
    BY DEF SaveInv, Names
  <2> QED BY <2>1, FilesAre DEF SaveInv
<1>5. \A f \in 1..n : time(f) <= Gflag_time /\ (Ring => num(f) < o.Wflag)
  BY DEF SaveInv, Names, Consistent
<1>6. \A f, g \in 1..n : f < g =>
        /\ time(f) <= time(g)
        /\ o.Cflag = 0 => time(f) < time(g)
        /\ time(f) = time(g) =>
             /\ o.Wflag = 0 => num(g) = num(f) + (g - f)
             /\ Ring /\ g - f <= o.Wflag =>
                  num(g) = num(f) + (g - f) \/ num(g) = num(f) + (g - f) - o.Wflag
  BY DEF SaveInv, Names, Consistent
<1> HIDE DEF n, time, num
<1>7. Gflag_time <= t /\ (Ring => k < o.Wflag)
  <2>1. CASE t > Gflag_time /\ k = 0
    BY <1>3, <2>1 DEF Ring
  <2>2. CASE /\ t = Gflag_time /\ o.Cflag # 0
             /\ k = IF o.Wflag > 0 /\ Cflag_count + 1 >= o.Wflag THEN 0 ELSE Cflag_count + 1
    BY <1>3, <2>2 DEF Ring
  <2> QED BY <2>1, <2>2
<1>8. ASSUME NEW f \in 1..(n + 1) PROVE fs[f].name[1] <= t /\ (Ring => fs[f].name[2] < o.Wflag)
  <2>1. CASE f \in 1..n
    <3>1. time(f) \in Nat /\ time(f) <= Gflag_time
      BY <1>2, <1>5, <2>1
    <3>2. time(f) <= t
      BY <1>3, <1>7, <3>1
    <3> QED BY <1>1, <1>5, <2>1, <3>2
  <2>2. CASE f = n + 1
    BY <1>1, <1>7, <2>2
  <2> QED BY <1>1, <2>1, <2>2
<1>9. ASSUME NEW f \in 1..n
      PROVE  /\ time(f) <= t
             /\ o.Cflag = 0 => time(f) < t
             /\ time(f) = t =>
                  /\ o.Wflag = 0 => k = num(f) + (n + 1 - f)
                  /\ Ring /\ n + 1 - f <= o.Wflag =>
                       k = num(f) + (n + 1 - f) \/ k = num(f) + (n + 1 - f) - o.Wflag
  <2>1. time(f) \in Nat /\ num(f) \in Nat /\ time(f) <= Gflag_time
    BY <1>2, <1>5
  <2>2. CASE t > Gflag_time /\ k = 0
    BY <1>3, <2>1, <2>2
  <2>3. CASE /\ t = Gflag_time /\ o.Cflag # 0
             /\ k = IF o.Wflag > 0 /\ Cflag_count + 1 >= o.Wflag THEN 0 ELSE Cflag_count + 1
    <3>1. ASSUME time(f) = t
          PROVE  /\ o.Wflag = 0 => Cflag_count = num(f) + (n - f)
                 /\ Ring /\ n - f <= o.Wflag =>
                      Cflag_count = num(f) + (n - f) \/ Cflag_count = num(f) + (n - f) - o.Wflag
      <4>1. CASE f = n
        BY <1>1, <1>3, <1>4, <2>1, <4>1
      <4>2. CASE f # n
        <5>1. f < n
          BY <1>1, <4>2
        <5> QED BY <1>1, <1>4, <1>6, <2>3, <3>1, <5>1
      <4> QED BY <4>1, <4>2
    <3>2. ASSUME time(f) = t, o.Wflag = 0 PROVE k = num(f) + (n + 1 - f)
      <4>1. Cflag_count = num(f) + (n - f)
        BY <3>1, <3>2
      <4>2. k = Cflag_count + 1
        BY <1>3, <2>3, <3>2
      <4>3. PICK a \in Nat : a = num(f)
        BY <2>1
      <4> QED BY <1>1, <4>1, <4>2, <4>3
    <3>3. ASSUME time(f) = t, Ring, n + 1 - f <= o.Wflag
          PROVE  k = num(f) + (n + 1 - f) \/ k = num(f) + (n + 1 - f) - o.Wflag
      <4>1. PICK W \in Nat : W = o.Wflag
        BY <1>3
      <4>2. PICK a \in Nat : a = num(f)
        BY <2>1
      <4>3. W > 0 /\ n + 1 - f <= W /\ n - f <= W /\ a < W
        BY <1>1, <1>5, <3>3, <4>1, <4>2 DEF Ring
      <4>4. Cflag_count = a + (n - f) \/ Cflag_count = a + (n - f) - W
        BY <3>1, <3>3, <4>1, <4>2, <4>3
      <4>5. Cflag_count < W
        BY <1>1, <1>4, <1>5, <3>3, <4>1
      <4>6. k = IF Cflag_count + 1 >= W THEN 0 ELSE Cflag_count + 1
        BY <2>3, <4>1, <4>3
      <4>7. k = a + (n + 1 - f) \/ k = a + (n + 1 - f) - W
        BY <1>1, <1>3, <4>3, <4>4, <4>5, <4>6
      <4> QED BY <4>1, <4>2, <4>7
    <3> QED BY <1>3, <2>1, <2>3, <3>2, <3>3
  <2> QED BY <2>2, <2>3
<1>10. ASSUME NEW f \in 1..(n + 1), NEW g \in 1..(n + 1), f < g
       PROVE  /\ fs[f].name[1] <= fs[g].name[1]
              /\ o.Cflag = 0 => fs[f].name[1] < fs[g].name[1]
              /\ fs[f].name[1] = fs[g].name[1] =>
                   /\ o.Wflag = 0 => fs[g].name[2] = fs[f].name[2] + (g - f)
                   /\ Ring /\ g - f <= o.Wflag =>
                        \/ fs[g].name[2] = fs[f].name[2] + (g - f)
                        \/ fs[g].name[2] = fs[f].name[2] + (g - f) - o.Wflag
  <2>1. f \in 1..n
    BY <1>1, <1>10
  <2>2. fs[f].name[1] = time(f) /\ fs[f].name[2] = num(f)
    BY <1>1, <2>1
  <2>3. CASE g \in 1..n
    <3>1. fs[g].name[1] = time(g) /\ fs[g].name[2] = num(g)
      BY <1>1, <2>3
    <3>2. /\ time(f) <= time(g)
          /\ o.Cflag = 0 => time(f) < time(g)
          /\ time(f) = time(g) =>
               /\ o.Wflag = 0 => num(g) = num(f) + (g - f)
               /\ Ring /\ g - f <= o.Wflag =>
                    num(g) = num(f) + (g - f) \/ num(g) = num(f) + (g - f) - o.Wflag
      BY <1>6, <1>10, <2>1, <2>3, Zenon
    <3> QED BY <2>2, <3>1, <3>2, Zenon
  <2>4. CASE g = n + 1
    <3>1. fs[g].name[1] = t /\ fs[g].name[2] = k
      BY <1>1, <2>4
    <3>2. g - f = n + 1 - f
      BY <1>1, <2>4
    <3>3. /\ time(f) <= t
          /\ o.Cflag = 0 => time(f) < t
          /\ time(f) = t =>
               /\ o.Wflag = 0 => k = num(f) + (g - f)
               /\ Ring /\ g - f <= o.Wflag => k = num(f) + (g - f) \/ k = num(f) + (g - f) - o.Wflag
      BY <1>9, <2>1, <3>2
    <3> QED BY <2>2, <3>1, <3>3, Zenon
  <2>5. g \in 1..n \/ g = n + 1
    BY <1>1
  <2> QED BY <2>3, <2>4, <2>5, Zenon
<1>11. Len(fs) = n + 1
  BY <1>1
<1>12. \A f \in 1..Len(fs) : fs[f].name[1] <= t /\ (Ring => fs[f].name[2] < o.Wflag)
  BY <1>8, <1>11
<1>13. \A f, g \in 1..Len(fs) : f < g =>
         /\ fs[f].name[1] <= fs[g].name[1]
         /\ o.Cflag = 0 => fs[f].name[1] < fs[g].name[1]
         /\ fs[f].name[1] = fs[g].name[1] =>
              /\ o.Wflag = 0 => fs[g].name[2] = fs[f].name[2] + (g - f)
              /\ Ring /\ g - f <= o.Wflag =>
                   \/ fs[g].name[2] = fs[f].name[2] + (g - f)
                   \/ fs[g].name[2] = fs[f].name[2] + (g - f) - o.Wflag
  BY <1>10, <1>11, Zenon
<1> QED BY <1>12, <1>13, Zenon DEF Consistent

\* What is opened is empty.
LEMMA OpenedFits ==
  ASSUME SaveInv, Types', o' = o, NEW t \in Nat, NEW k \in Nat,
         savefiles' = Append(savefiles, Savefile(<<t, k>>))
  PROVE  /\ Last(savefiles').packets = <<>> /\ Last(savefiles').name = <<t, k>>
         /\ \A f \in 1..Len(savefiles') :
              /\ o.Cflag # 0 /\ savefiles'[f].packets # <<>> => SizeOf(Front(savefiles'[f].packets)) <= o.Cflag
              /\ o.Gflag # 0 => \A j \in 1..Len(savefiles'[f].packets) :
                   savefiles'[f].packets[j].time - savefiles'[f].name[1] \in 0..(o.Gflag - 1)
<1> DEFINE n == Len(savefiles)
<1>1. /\ n \in Nat /\ Len(savefiles') = n + 1 /\ savefiles'[n + 1] = Savefile(<<t, k>>)
      /\ \A f \in 1..n : savefiles'[f] = savefiles[f]
  BY DEF SaveInv, Types
<1>2. savefiles'[n + 1].packets = <<>> /\ savefiles'[n + 1].name = <<t, k>>
  BY <1>1 DEF Savefile
<1>3. Last(savefiles') = savefiles'[n + 1]
  BY <1>1 DEF Last
<1> HIDE DEF n
<1>4. ASSUME NEW f \in 1..(n + 1)
      PROVE  /\ o.Cflag # 0 /\ savefiles'[f].packets # <<>> => SizeOf(Front(savefiles'[f].packets)) <= o.Cflag
             /\ o.Gflag # 0 => \A j \in 1..Len(savefiles'[f].packets) :
                  savefiles'[f].packets[j].time - savefiles'[f].name[1] \in 0..(o.Gflag - 1)
  <2>1. CASE f \in 1..n
    BY <1>1, <2>1 DEF SaveInv, Fitting, n
  <2>2. CASE f = n + 1
    <3>1. savefiles'[f].packets = <<>>
      BY <1>2, <2>2
    <3>2. PICK p : p = savefiles'[f].packets
      OBVIOUS
    <3>3. p = <<>> /\ \A j \in 1..Len(p) : FALSE
      BY <3>1, <3>2
    <3>4. savefiles'[f].packets = <<>>
      BY <3>2, <3>3
    <3>5. \A j \in 1..Len(savefiles'[f].packets) : FALSE
      BY <3>2, <3>3
    <3> QED BY <3>4, <3>5
  <2>3. f \in 1..n \/ f = n + 1
    BY <1>1
  <2> QED BY <2>1, <2>2, <2>3, Zenon
<1> QED BY <1>1, <1>2, <1>3, <1>4
LEMMA SaveInit ==
  ASSUME Init
  PROVE  SaveInv
<1>1. savefiles = <<Savefile(<<0, 0>>)>> /\ Len(savefiles) = 1 /\ savefiles[1] = Savefile(<<0, 0>>)
      /\ Last(savefiles) = savefiles[1]
  BY DEF Init, Last
<1>2. savefiles[1].name = <<0, 0>> /\ savefiles[1].packets = <<>> /\ savefiles[1] \in FileSet
  BY <1>1 DEF Savefile, FileSet
<1>3. o.Cflag \in Nat /\ o.Gflag \in Nat /\ o.Wflag \in Nat
  BY SavefilesAssumption DEF Init
<1>4. Types
  <2>1. savefiles \in Seq(FileSet)
    BY <1>1, <1>2
  <2> QED BY <1>1, <2>1 DEF Init, Types
<1>5. Counts
  BY DEF Init, Counts
<1>6. \E c : Cuts(c)
  <2> DEFINE c == [f \in 0..1 |-> 0]
  <2>1. Written = 0
    BY DEF Init, Written
  <2>2. PICK p : p = savefiles[1].packets
    OBVIOUS
  <2>3. Len(p) = 0 /\ \A j \in 1..Len(p) : FALSE
    BY <1>2, <2>2
  <2>4. c \in [0..1 -> Nat] /\ c[0] = 0 /\ c[1] = 0
    OBVIOUS
  <2>5. PICK d : d = c
    OBVIOUS
  <2> HIDE DEF c
  <2>6. \A f \in 1..1 : f = 1 /\ f - 1 = 0
    OBVIOUS
  <2>7. Cuts(d)
    BY <1>1, <2>1, <2>2, <2>3, <2>4, <2>5, <2>6 DEF Cuts
  <2> QED BY <2>7
<1>7. Names
  BY <1>1, <1>2, <1>3 DEF Init, Names, Consistent, Ring
<1>8. Periods
  BY <1>1, <1>3 DEF Init, Periods
<1>9. Fitting
  <2>1. PICK p : p = savefiles[1].packets
    OBVIOUS
  <2>2. p = <<>> /\ \A j \in 1..Len(p) : FALSE
    BY <1>2, <2>1
  <2>3. \A f \in 1..1 : f = 1
    OBVIOUS
  <2> QED BY <1>1, <2>1, <2>2, <2>3 DEF Init, Fitting
<1> QED BY <1>4, <1>5, <1>6, <1>7, <1>8, <1>9 DEF SaveInv

LEMMA PacketKeepsOrder ==
  ASSUME SaveInv, NEW size \in Sizes, Packet(size)
  PROVE  SaveInv'
<1>1. /\ pc = "pcap_loop" /\ pc' = "rotate_time" /\ sp' = <<size, 0>> /\ size \in Nat
      /\ packets_captured' = packets_captured + 1 /\ infodelay' = infodelay + 1
      /\ UNCHANGED <<o, Cflag_count, Gflag_count, Gflag_time, savefiles, now>>
  BY SavefilesAssumption DEF Packet, At
<1>2. packets_captured \in Nat /\ infodelay = 0 /\ infodelay' = 1 /\ now \in Nat
  BY <1>1 DEF SaveInv, Types, Counts
<1>3. Types'
  BY <1>1, <1>2 DEF SaveInv, Types
<1>4. Counts'
  BY <1>1, <1>2 DEF Counts
<1>5. Written' = Written
  BY <1>1, <1>2 DEF Written
<1> QED BY <1>1, <1>2, <1>3, <1>4, <1>5, QuietSaves

LEMMA KeepTimeKeepsOrder ==
  ASSUME SaveInv, KeepTime
  PROVE  SaveInv'
<1> USE DEF KeepTime, At, asking
<1>1. Types'
  BY DEF SaveInv, Types
<1>2. Counts'
  BY DEF SaveInv, Types, Counts
<1>3. Written' = Written
  BY DEF SaveInv, Types, Counts, Written
<1>4. now \in Nat /\ Gflag_time \in Nat /\ Gflag_time <= now /\ sp'[2] = now
  BY DEF SaveInv, Types, Fitting
<1>5. o.Gflag \in Nat
  BY OptionsAre DEF SaveInv
<1>6. o.Gflag # 0 => now - Gflag_time \in 0..(o.Gflag - 1)
  BY <1>4, <1>5 DEF TimeIsUp
<1> QED BY <1>1, <1>2, <1>3, <1>4, <1>6, QuietSaves

LEMMA KeepSizeKeepsOrder ==
  ASSUME SaveInv, KeepSize
  PROVE  SaveInv'
<1> USE DEF KeepSize, At, capture, asking
<1>1. Types'
  BY DEF SaveInv, Types
<1>2. Counts'
  BY DEF SaveInv, Types, Counts
<1>3. Written' = Written
  BY DEF SaveInv, Types, Counts, Written
<1>4. now \in Nat /\ (o.Gflag # 0 => sp[2] - Gflag_time \in 0..(o.Gflag - 1))
  BY DEF SaveInv, Types, Fitting
<1>5. o.Cflag # 0 => SizeOf(Last(savefiles).packets) <= o.Cflag
  <2>1. Last(savefiles).packets \in Seq(PacketSet)
    BY FilesAre DEF SaveInv
  <2>2. SizeOf(Last(savefiles).packets) \in Nat /\ o.Cflag \in Nat
    BY <2>1, SizeIs, OptionsAre DEF SaveInv
  <2> QED BY <2>2 DEF TooLarge
<1> QED BY <1>1, <1>2, <1>3, <1>4, <1>5, QuietSaves

LEMMA OpenFailsKeepsOrder ==
  ASSUME SaveInv, OpenFails
  PROVE  SaveInv'
<1> USE DEF OpenFails, TimeIsUp, TooLarge, At, capture, asking
<1>1. Types'
  BY DEF SaveInv, Types
<1>2. Counts'
  BY DEF SaveInv, Types, Counts
<1>3. Written' = Written
  BY DEF SaveInv, Types, Counts, Written
<1>4. now \in Nat
  BY DEF SaveInv, Types
<1> QED BY <1>1, <1>2, <1>3, <1>4, QuietSaves

LEMMA UndelayKeepsOrder ==
  ASSUME SaveInv, Undelay
  PROVE  SaveInv'
<1> USE DEF Undelay, At, capture
<1>1. Types' /\ infodelay = 1 /\ infodelay' = 0
  BY DEF SaveInv, Types, Counts
<1>2. Counts'
  BY <1>1 DEF SaveInv, Types, Counts
<1>3. Written' = Written
  BY <1>1 DEF SaveInv, Types, Counts, Written
<1>4. now \in Nat
  BY DEF SaveInv, Types
<1> QED BY <1>1, <1>2, <1>3, <1>4, QuietSaves

\* The rest of the main program: the answers to requests, and the end.
LEMMA AnswersKeepOrder ==
  ASSUME SaveInv, CheckInfo \/ Interrupted
  PROVE  SaveInv'
<1> USE DEF CheckInfo, Interrupted, At, capture
<1>1. Types'
  BY DEF SaveInv, Types
<1>2. Counts'
  BY DEF SaveInv, Types, Counts
<1>3. Written' = Written
  BY DEF SaveInv, Types, Counts, Written
<1>4. now \in Nat
  BY DEF SaveInv, Types
<1> QED BY <1>1, <1>2, <1>3, <1>4, QuietSaves

\* Signals, compressors and the clock.
LEMMA OthersKeepOrder ==
  ASSUME SaveInv, requestinfo \/ cleanup \/ ChildEnds \/ child_cleanup \/ Reaped \/ Tick
  PROVE  SaveInv'
<1>1. UNCHANGED <<o, pc, capture, infodelay>> /\ (now' = now \/ now' = now + 1)
  BY DEF requestinfo, cleanup, ChildEnds, child_cleanup, Reaped, Tick, asking
<1> USE DEF capture
<1>2. now \in Nat /\ now' \in Nat /\ now' >= now
  BY <1>1 DEF SaveInv, Types
<1>3. Types' /\ Counts'
  BY <1>1, <1>2 DEF SaveInv, Types, Counts
<1>4. Written' = Written
  BY <1>1 DEF Written
<1>5. /\ o.Gflag # 0 /\ pc \in {"rotate_size", "dump"} => sp[2] - Gflag_time \in 0..(o.Gflag - 1)
      /\ o.Cflag # 0 /\ pc = "dump" => SizeOf(Last(savefiles).packets) <= o.Cflag
  BY DEF SaveInv, Fitting
<1> QED BY <1>1, <1>2, <1>3, <1>4, <1>5, QuietSaves

\* A savefile that is opened keeps the types.
LEMMA OpenedTypes ==
  ASSUME Types, NEW name \in Nat \X Nat, savefiles' = Append(savefiles, Savefile(name))
  PROVE  savefiles' \in Seq(FileSet) /\ Len(savefiles') = Len(savefiles) + 1 /\ Len(savefiles') > 0
<1>1. Savefile(name) \in FileSet
  BY DEF Savefile, FileSet
<1> QED BY <1>1 DEF Types

LEMMA RotateTimeKeepsOrder ==
  ASSUME SaveInv, RotateTime
  PROVE  SaveInv'
<1> USE DEF RotateTime, TimeIsUp, At
<1>1. /\ now \in Nat /\ Gflag_time \in Nat /\ Gflag_count \in Nat /\ o.Gflag \in Nat
      /\ o.Wflag \in Nat /\ o.Cflag \in Nat /\ Len(savefiles) \in Nat
  BY OptionsAre, FilesAre DEF SaveInv, Types
<1>2. CASE Enough
  <2>1. Types'
    BY <1>2 DEF SaveInv, Types
  <2>2. Counts'
    BY <1>2 DEF SaveInv, Types, Counts
  <2>3. Written' = Written
    BY <1>2 DEF SaveInv, Types, Counts, Written
  <2> QED BY <1>1, <1>2, <2>1, <2>2, <2>3, QuietSaves
<1>3. CASE ~ Enough
  <2>1. savefiles' = Append(savefiles, Savefile(<<now, 0>>))
    BY <1>3 DEF Open, MakeFilename
  <2>2. Types'
    <3>1. <<now, 0>> \in Nat \X Nat
      BY <1>1
    <3>2. savefiles' \in Seq(FileSet) /\ Len(savefiles') > 0
      BY <2>1, <3>1, OpenedTypes DEF SaveInv
    <3> QED BY <1>3, <3>2 DEF SaveInv, Types
  <2>3. Counts'
    BY <1>3 DEF SaveInv, Types, Counts
  <2>4. Written' = Written
    BY <1>3 DEF SaveInv, Types, Counts, Written
  <2>5. \E c : Cuts(c)'
    <3>1. PICK c : Cuts(c)
      BY DEF SaveInv
    <3> QED BY <2>1, <2>2, <2>4, <3>1, OpenedCuts DEF SaveInv
  <2>6. now > Gflag_time
    BY <1>1
  <2>7. Consistent(savefiles', now)
    BY <1>1, <2>1, <2>6, OpenedConsistent
  <2>8. Last(savefiles').name = <<now, 0>>
    BY <1>1, <2>1, <2>2, OpenedFits
  <2>9. Names'
    <3>1. Consistent(savefiles, Gflag_time)'
      BY <2>7 DEF Consistent, Ring
    <3> QED BY <1>3, <2>8, <3>1 DEF Names
  <2>10. Periods'
    <3>1. Len(savefiles') = Len(savefiles) + 1
      BY <1>1, <2>1, OpenedTypes DEF SaveInv
    <3>2. o.Cflag = 0 => Len(savefiles) = Gflag_count + 1
      BY DEF SaveInv, Periods
    <3> QED BY <1>1, <1>3, <3>1, <3>2 DEF Periods, Enough
  <2>11. Fitting'
    <3>1. \A f \in 1..Len(savefiles') :
             /\ o.Cflag # 0 /\ savefiles'[f].packets # <<>> => SizeOf(Front(savefiles'[f].packets)) <= o.Cflag
             /\ o.Gflag # 0 => \A j \in 1..Len(savefiles'[f].packets) :
                  savefiles'[f].packets[j].time - savefiles'[f].name[1] \in 0..(o.Gflag - 1)
      BY <1>1, <2>1, <2>2, OpenedFits
    <3>2. sp'[2] = now /\ now - now \in 0..(o.Gflag - 1) /\ now <= now
      BY <1>1
    <3> QED BY <1>3, <3>1, <3>2 DEF Fitting
  <2> QED BY <2>2, <2>3, <2>5, <2>9, <2>10, <2>11 DEF SaveInv
<1> QED BY <1>2, <1>3

LEMMA RotateSizeKeepsOrder ==
  ASSUME SaveInv, RotateSize
  PROVE  SaveInv'
<1> USE DEF RotateSize, TooLarge, At
<1>1. /\ now \in Nat /\ Gflag_time \in Nat /\ Cflag_count \in Nat /\ o.Gflag \in Nat
      /\ o.Wflag \in Nat /\ o.Cflag \in Nat /\ Len(savefiles) \in Nat
  BY OptionsAre, FilesAre DEF SaveInv, Types
<1>2. PICK k \in Nat : /\ k = Cflag_count'
                       /\ k = IF o.Wflag > 0 /\ Cflag_count + 1 >= o.Wflag THEN 0 ELSE Cflag_count + 1
  BY <1>1
<1>3. savefiles' = Append(savefiles, Savefile(<<Gflag_time, k>>))
  <2>1. o.Gflag = 0 => Gflag_time = 0
    BY DEF SaveInv, Names
  <2> QED BY <1>2, <2>1 DEF Open, MakeFilename
<1>a. pc = "rotate_size" /\ pc' = "dump" /\ o.Cflag # 0
      /\ UNCHANGED <<o, sp, packets_captured, Gflag_count, Gflag_time, now, infodelay>>
  BY DEF asking
<1>4. Types'
  <2>1. <<Gflag_time, k>> \in Nat \X Nat
    BY <1>1, <1>2
  <2>2. savefiles' \in Seq(FileSet) /\ Len(savefiles') > 0
    BY <1>3, <2>1, OpenedTypes DEF SaveInv
  <2> QED BY <1>a, <1>2, <2>2 DEF SaveInv, Types
<1>5. Counts'
  BY <1>a DEF SaveInv, Types, Counts
<1>6. Written' = Written
  BY <1>a DEF SaveInv, Types, Counts, Written
<1>7. \E c : Cuts(c)'
  <2>1. PICK c : Cuts(c)
    BY DEF SaveInv
  <2> QED BY <1>3, <1>4, <1>6, <2>1, OpenedCuts DEF SaveInv
<1>8. Consistent(savefiles', Gflag_time)
  BY <1>1, <1>2, <1>3, OpenedConsistent
<1>9. Last(savefiles').name = <<Gflag_time, k>> /\ Last(savefiles').packets = <<>>
  BY <1>1, <1>2, <1>3, <1>4, OpenedFits
<1>10. Names'
  <2>1. Consistent(savefiles, Gflag_time)'
    BY <1>8 DEF Consistent, Ring
  <2> QED BY <1>2, <1>9, <2>1 DEF SaveInv, Names
<1>11. Periods'
  BY DEF Periods
<1>12. Fitting'
  <2>1. \A f \in 1..Len(savefiles') :
           /\ o.Cflag # 0 /\ savefiles'[f].packets # <<>> => SizeOf(Front(savefiles'[f].packets)) <= o.Cflag
           /\ o.Gflag # 0 => \A j \in 1..Len(savefiles'[f].packets) :
                savefiles'[f].packets[j].time - savefiles'[f].name[1] \in 0..(o.Gflag - 1)
    BY <1>1, <1>2, <1>3, <1>4, OpenedFits
  <2>2. SizeOf(Last(savefiles').packets) <= o.Cflag
    <3>1. PICK p : p = Last(savefiles').packets
      OBVIOUS
    <3>2. p \in Seq(PacketSet) /\ p = <<>>
      BY <1>9, <3>1
    <3>3. SizeOf(p) = 0
      BY <3>2, SizeIs
    <3> QED BY <1>1, <3>1, <3>3
  <2>3. Gflag_time <= now /\ (o.Gflag # 0 => sp[2] - Gflag_time \in 0..(o.Gflag - 1))
    BY DEF SaveInv, Fitting
  <2> QED BY <2>1, <2>2, <2>3 DEF Fitting
<1> QED BY <1>4, <1>5, <1>7, <1>10, <1>11, <1>12 DEF SaveInv

\* The packet is the next one, and written to the current savefile.
LEMMA DumpKeepsOrder ==
  ASSUME SaveInv, Dump
  PROVE  SaveInv'
<1> DEFINE n == Len(savefiles)
           q == savefiles[n].packets
           p == [number |-> packets_captured, size |-> sp[1], time |-> sp[2]]
           name == savefiles[n].name
<1>1. /\ pc = "dump" /\ pc' = "undelay" /\ savefiles' = [savefiles EXCEPT ![n].packets = Append(@, p)]
      /\ UNCHANGED <<o, sp, packets_captured, Cflag_count, Gflag_count, Gflag_time, infodelay, now>>
  BY DEF Dump, At, asking
<1>2. /\ n \in Nat /\ n > 0 /\ n \in 1..n /\ savefiles \in Seq(FileSet) /\ q \in Seq(PacketSet) /\ p \in PacketSet
      /\ sp[1] \in Nat /\ sp[2] \in Nat /\ packets_captured \in Nat /\ infodelay = 1 /\ packets_captured > 0
      /\ Last(savefiles) = savefiles[n] /\ savefiles[n] \in FileSet
  BY <1>1, FilesAre DEF SaveInv, Types, Counts, PacketSet
<1>a. n \in Nat /\ n > 0 /\ n \in DOMAIN savefiles /\ DOMAIN savefiles = 1..n
  BY <1>2
<1>b. /\ DOMAIN savefiles' = 1..n /\ savefiles' = [f \in 1..n |-> savefiles'[f]]
      /\ Len(savefiles') = n /\ \A f \in 1..(n - 1) : savefiles'[f] = savefiles[f]
  <2>1. Len(savefiles') = n /\ \A f \in 1..(n - 1) : savefiles'[f] = savefiles[f]
    BY <1>1, <1>2
  <2>2. PICK v : savefiles' = [savefiles EXCEPT ![n] = v]
    BY <1>1, Zenon
  <2> HIDE DEF n, p
  <2>3. DOMAIN savefiles' = 1..n
    BY <1>a, <2>2
  <2>4. savefiles' = [f \in 1..n |-> IF f = n THEN v ELSE savefiles[f]]
    BY <1>a, <2>2
  <2>5. savefiles' = [f \in 1..n |-> savefiles'[f]]
    BY <2>4
  <2> QED BY <2>1, <2>3, <2>5
<1>3. /\ Len(savefiles') = n /\ savefiles'[n].packets = Append(q, p) /\ savefiles'[n].name = name
      /\ savefiles'[n] \in FileSet /\ \A f \in 1..(n - 1) : savefiles'[f] = savefiles[f]
  <2>2. Append(q, p) \in Seq(PacketSet)
    BY <1>2
  <2>1. savefiles'[n] = [savefiles[n] EXCEPT !.packets = Append(@, p)]
    BY <1>1, <1>a, Zenon
  <2> HIDE DEF p
  <2>3. savefiles'[n] \in FileSet /\ savefiles'[n].packets = Append(q, p) /\ savefiles'[n].name = name
    BY <1>2, <2>1, <2>2 DEF FileSet
  <2> QED BY <1>a, <1>b, <2>3
<1>4. \A f \in 1..n : f = n \/ f \in 1..(n - 1)
  BY <1>2
<1>5. \A f \in 1..n : savefiles'[f].name = savefiles[f].name
  BY <1>3, <1>4
<1>6. Types'
  <2>2. \A f \in 1..n : savefiles'[f] \in FileSet
    BY <1>2, <1>3, <1>4
  <2>3. savefiles' \in Seq(FileSet)
    <3> HIDE DEF n, p
    <3>1. savefiles' \in [1..n -> FileSet]
      BY <1>b, <2>2
    <3> QED BY <1>a, <3>1
  <2> HIDE DEF n, p
  <2> QED BY <1>1, <1>2, <1>3, <2>3 DEF SaveInv, Types
<1>7. Counts'
  BY <1>1, <1>2 DEF Counts
<1>8. Written = packets_captured - 1 /\ Written' = packets_captured
  BY <1>1, <1>2 DEF Written
<1>9. Last(savefiles') = savefiles'[n]
  BY <1>3 DEF Last
<1> HIDE DEF n, p, name
<1>10. Len(q) \in Nat /\ Len(Append(q, p)) = Len(q) + 1 /\ Append(q, p) # <<>> /\ Front(Append(q, p)) = q
       /\ \A j \in 1..(Len(q) + 1) : IF j = Len(q) + 1 THEN Append(q, p)[j] = p
                                                         ELSE j \in 1..Len(q) /\ Append(q, p)[j] = q[j]
  <2>1. PICK r \in Seq(PacketSet) : r = q
    BY <1>2
  <2>2. PICK x \in PacketSet : x = p
    BY <1>2
  <2>3. Len(Append(r, x)) = Len(r) + 1 /\ Append(r, x) # <<>> /\ Append(r, x) \in Seq(PacketSet)
    BY <2>1, <2>2
  <2>4. Front(Append(r, x)) = r
    BY <2>1, <2>2 DEF Front
  <2>5. \A j \in 1..(Len(r) + 1) : IF j = Len(r) + 1 THEN Append(r, x)[j] = x
                                                     ELSE j \in 1..Len(r) /\ Append(r, x)[j] = r[j]
    BY <2>1, <2>2
  <2> HIDE DEF q
  <2> QED BY <2>1, <2>2, <2>3, <2>4, <2>5
<1>11. \E d : Cuts(d)'
  <2>1. PICK c : Cuts(c)
    BY DEF SaveInv
  <2>2. /\ c \in [0..n -> Nat] /\ c[0] = 0 /\ c[n] = packets_captured - 1
        /\ \A f \in 1..n :
             /\ c[f - 1] <= c[f] /\ Len(savefiles[f].packets) = c[f] - c[f - 1]
             /\ \A j \in 1..Len(savefiles[f].packets) : savefiles[f].packets[j].number = c[f - 1] + j
    BY <1>8, <2>1 DEF Cuts, n
  <2> DEFINE d == [c EXCEPT ![n] = packets_captured]
  <2>3. d \in [0..n -> Nat] /\ d[0] = 0 /\ d[n] = packets_captured /\ \A f \in 0..(n - 1) : d[f] = c[f]
    <3>1. n \in 0..n /\ n # 0 /\ \A f \in 0..(n - 1) : f # n /\ f \in 0..n
      BY <1>a
    <3>2. PICK K \in Nat : K = packets_captured
      BY <1>2
    <3>3. PICK m \in Nat : m = n
      BY <1>a
    <3>4. c \in [0..m -> Nat] /\ c[0] = 0 /\ m \in 0..m /\ m # 0 /\ \A f \in 0..(m - 1) : f # m /\ f \in 0..m
      BY <2>2, <3>1, <3>3
    <3>5. /\ [c EXCEPT ![m] = K] \in [0..m -> Nat] /\ [c EXCEPT ![m] = K][0] = 0 /\ [c EXCEPT ![m] = K][m] = K
          /\ \A f \in 0..(m - 1) : [c EXCEPT ![m] = K][f] = c[f]
      BY <3>4
    <3> HIDE DEF n, p
    <3> QED BY <3>2, <3>3, <3>5
  <2>4. ASSUME NEW f \in 1..n
        PROVE  /\ d[f - 1] <= d[f] /\ Len(savefiles'[f].packets) = d[f] - d[f - 1]
               /\ \A j \in 1..Len(savefiles'[f].packets) : savefiles'[f].packets[j].number = d[f - 1] + j
    <3> HIDE DEF d
    <3>1. CASE f \in 1..(n - 1)
      <4>1. f \in 0..(n - 1) /\ f - 1 \in 0..(n - 1)
        BY <1>2, <3>1
      <4>2. d[f] = c[f] /\ d[f - 1] = c[f - 1] /\ savefiles'[f] = savefiles[f]
        BY <1>3, <2>3, <3>1, <4>1
      <4> QED BY <2>2, <4>2
    <3>2. CASE f = n
      <4>1. n - 1 \in 0..(n - 1) /\ n - 1 \in 0..n
        BY <1>2
      <4>2. PICK a \in Nat : a = c[n - 1]
        BY <2>2, <4>1
      <4>3. d[f - 1] = a /\ d[f] = packets_captured
        BY <2>3, <3>2, <4>1, <4>2
      <4>4. a <= packets_captured - 1 /\ Len(q) = packets_captured - 1 - a
            /\ \A j \in 1..Len(q) : q[j].number = a + j
        BY <1>2, <2>2, <4>2 DEF q
      <4>5. p.number = packets_captured
        BY DEF p
      <4>6. savefiles'[f].packets = Append(q, p)
        BY <1>3, <3>2
      <4> HIDE DEF q
      <4>7. a <= packets_captured /\ Len(Append(q, p)) = packets_captured - a
        BY <1>2, <1>10, <4>4
      <4>8. ASSUME NEW j \in 1..Len(Append(q, p)) PROVE Append(q, p)[j].number = a + j
        <5>1. j \in 1..(Len(q) + 1)
          BY <1>10
        <5>2. CASE j = Len(q) + 1
          <6>1. Append(q, p)[j] = p
            BY <1>10, <5>1, <5>2
          <6>2. a + j = packets_captured
            BY <1>2, <4>4, <5>2
          <6> QED BY <4>5, <6>1, <6>2
        <5>3. CASE j # Len(q) + 1
          BY <1>10, <4>4, <5>1, <5>3
        <5> QED BY <5>2, <5>3
      <4> QED BY <4>3, <4>6, <4>7, <4>8
    <3> QED BY <1>4, <3>1, <3>2
  <2>5. PICK e : e = d
    OBVIOUS
  <2> HIDE DEF d
  <2>6. Cuts(e)'
    BY <1>3, <1>8, <2>3, <2>4, <2>5 DEF Cuts
  <2> QED BY <2>6
<1>12. Names'
  <2>1. /\ Last(savefiles).name = <<Gflag_time, Cflag_count>>
        /\ o.Gflag = 0 => Gflag_time = 0
        /\ o.Cflag = 0 => Cflag_count = 0
        /\ Consistent(savefiles, Gflag_time)
    BY <1>1 DEF SaveInv, Names
  <2>2. Consistent(savefiles', Gflag_time)
    <3>1. Len(savefiles) = n
      BY DEF n
    <3> HIDE DEF n
    <3>2. Len(savefiles') = n
      BY <1>3
    <3>3. /\ \A f \in 1..n : savefiles[f].name[1] <= Gflag_time /\ (Ring => savefiles[f].name[2] < o.Wflag)
          /\ \A f, g \in 1..n : f < g =>
               /\ savefiles[f].name[1] <= savefiles[g].name[1]
               /\ o.Cflag = 0 => savefiles[f].name[1] < savefiles[g].name[1]
               /\ savefiles[f].name[1] = savefiles[g].name[1] =>
                    /\ o.Wflag = 0 => savefiles[g].name[2] = savefiles[f].name[2] + (g - f)
                    /\ Ring /\ g - f <= o.Wflag =>
                         \/ savefiles[g].name[2] = savefiles[f].name[2] + (g - f)
                         \/ savefiles[g].name[2] = savefiles[f].name[2] + (g - f) - o.Wflag
      BY <2>1, <3>1, Zenon DEF Consistent
    <3>4. PICK fs : fs = savefiles'
      OBVIOUS
    <3>5. Len(fs) = n /\ \A f \in 1..n : fs[f].name = savefiles[f].name
      BY <1>5, <3>2, <3>4
    <3>6. \A f \in 1..n : fs[f].name[1] <= Gflag_time /\ (Ring => fs[f].name[2] < o.Wflag)
      BY <3>3, <3>5
    <3>7. \A f, g \in 1..n : f < g =>
               /\ fs[f].name[1] <= fs[g].name[1]
               /\ o.Cflag = 0 => fs[f].name[1] < fs[g].name[1]
               /\ fs[f].name[1] = fs[g].name[1] =>
                    /\ o.Wflag = 0 => fs[g].name[2] = fs[f].name[2] + (g - f)
                    /\ Ring /\ g - f <= o.Wflag =>
                         \/ fs[g].name[2] = fs[f].name[2] + (g - f)
                         \/ fs[g].name[2] = fs[f].name[2] + (g - f) - o.Wflag
      <4> SUFFICES ASSUME NEW f \in 1..n, NEW g \in 1..n, f < g
                   PROVE  /\ fs[f].name[1] <= fs[g].name[1]
                          /\ o.Cflag = 0 => fs[f].name[1] < fs[g].name[1]
                          /\ fs[f].name[1] = fs[g].name[1] =>
                               /\ o.Wflag = 0 => fs[g].name[2] = fs[f].name[2] + (g - f)
                               /\ Ring /\ g - f <= o.Wflag =>
                                    \/ fs[g].name[2] = fs[f].name[2] + (g - f)
                                    \/ fs[g].name[2] = fs[f].name[2] + (g - f) - o.Wflag
        BY Zenon
      <4>1. fs[f].name = savefiles[f].name /\ fs[g].name = savefiles[g].name
        BY <3>5
      <4> QED BY <3>3, <4>1, Zenon
    <3>8. Consistent(fs, Gflag_time)
      BY <3>5, <3>6, <3>7, Zenon DEF Consistent
    <3> QED BY <3>4, <3>8
  <2>3. Consistent(savefiles, Gflag_time)'
    BY <1>1, <2>2 DEF Consistent, Ring
  <2>4. Last(savefiles').name = Last(savefiles).name
    BY <1>2, <1>3, <1>9 DEF name
  <2> QED BY <1>1, <2>1, <2>3, <2>4 DEF Names
<1>13. Periods'
  BY <1>1, <1>3 DEF SaveInv, Periods, n
<1>14. Fitting'
  <2>1. /\ Gflag_time <= now
        /\ o.Gflag # 0 => sp[2] - Gflag_time \in 0..(o.Gflag - 1)
        /\ o.Cflag # 0 => SizeOf(savefiles[n].packets) <= o.Cflag
        /\ \A f \in 1..n :
             /\ o.Cflag # 0 /\ savefiles[f].packets # <<>> => SizeOf(Front(savefiles[f].packets)) <= o.Cflag
             /\ o.Gflag # 0 => \A j \in 1..Len(savefiles[f].packets) :
                  savefiles[f].packets[j].time - savefiles[f].name[1] \in 0..(o.Gflag - 1)
    BY <1>1, <1>2 DEF SaveInv, Fitting, n
  <2>2. name[1] = Gflag_time
    BY <1>1, <1>2 DEF SaveInv, Names, name
  <2>3. p.time = sp[2]
    BY DEF p
  <2>4. ASSUME NEW f \in 1..n
        PROVE  /\ o.Cflag # 0 /\ savefiles'[f].packets # <<>> => SizeOf(Front(savefiles'[f].packets)) <= o.Cflag
               /\ o.Gflag # 0 => \A j \in 1..Len(savefiles'[f].packets) :
                    savefiles'[f].packets[j].time - savefiles'[f].name[1] \in 0..(o.Gflag - 1)
    <3>1. CASE f \in 1..(n - 1)
      BY <1>3, <2>1, <3>1
    <3>2. CASE f = n
      <4>1. savefiles'[f].packets = Append(q, p) /\ savefiles'[f].name = name
        BY <1>3, <3>2
      <4>2. o.Cflag # 0 => SizeOf(Front(Append(q, p))) <= o.Cflag
        BY <1>10, <2>1
      <4>3. o.Gflag # 0 => \A j \in 1..Len(q) : q[j].time - name[1] \in 0..(o.Gflag - 1)
        BY <1>2, <2>1 DEF name
      <4> HIDE DEF q
      <4>4. ASSUME o.Gflag # 0, NEW j \in 1..Len(Append(q, p))
            PROVE  Append(q, p)[j].time - name[1] \in 0..(o.Gflag - 1)
        <5>1. j \in 1..(Len(q) + 1)
          BY <1>10
        <5>2. CASE j = Len(q) + 1
          <6>1. Append(q, p)[j] = p
            BY <1>10, <5>1, <5>2
          <6> QED BY <2>1, <2>2, <2>3, <4>4, <6>1
        <5>3. CASE j # Len(q) + 1
          BY <1>10, <4>3, <4>4, <5>1, <5>3
        <5> QED BY <5>2, <5>3
      <4> QED BY <4>1, <4>2, <4>4
    <3> QED BY <1>4, <3>1, <3>2
  <2> QED BY <1>1, <1>3, <2>1, <2>4 DEF Fitting
<1> QED BY <1>6, <1>7, <1>11, <1>12, <1>13, <1>14 DEF SaveInv

-----------------------------------------------------------------------------
(* The theorem *)

LEMMA SaveInvHolds ==
  Spec => []SaveInv
<1>1. SaveInv /\ [Next]_vars => SaveInv'
  <2> SUFFICES ASSUME SaveInv, [Next]_vars PROVE SaveInv'
    OBVIOUS
  <2>1. ASSUME NEW size \in Sizes, Packet(size) PROVE SaveInv'
    BY <2>1, PacketKeepsOrder
  <2>2. CASE MainStep
    BY <2>2, RotateTimeKeepsOrder, KeepTimeKeepsOrder, RotateSizeKeepsOrder, KeepSizeKeepsOrder,
       OpenFailsKeepsOrder, DumpKeepsOrder, UndelayKeepsOrder, AnswersKeepOrder DEF MainStep
  <2>3. CASE requestinfo \/ cleanup \/ ChildEnds \/ child_cleanup \/ Reaped \/ Tick
    BY <2>3, OthersKeepOrder
  <2>4. CASE UNCHANGED vars
    <3>1. UNCHANGED <<o, pc, sp, packets_captured, Cflag_count, Gflag_count, Gflag_time, savefiles, infodelay, now>>
      BY <2>4 DEF vars, capture, asking
    <3>2. Types' /\ Counts' /\ Written' = Written /\ now' >= now
      BY <3>1 DEF SaveInv, Types, Counts, Written
    <3>3. /\ o.Gflag # 0 /\ pc \in {"rotate_size", "dump"} => sp[2] - Gflag_time \in 0..(o.Gflag - 1)
          /\ o.Cflag # 0 /\ pc = "dump" => SizeOf(Last(savefiles).packets) <= o.Cflag
      BY DEF SaveInv, Fitting
    <3> QED BY <3>1, <3>2, <3>3, QuietSaves
  <2> QED BY <2>1, <2>2, <2>3, <2>4 DEF Next
<1> QED BY <1>1, SaveInit, PTL DEF Spec

\* What the names say about two savefiles: they are the same only when -W has gone round, and
\* when it has, the earlier one was opened again.
LEMMA NamesGoRound ==
  ASSUME SaveInv, NEW g \in 1..Len(savefiles), NEW f \in 1..(g - 1)
  PROVE  /\ savefiles[f].name = savefiles[g].name => Ring /\ g - f >= o.Wflag
         /\ Ring /\ savefiles[f].name[1] = savefiles[g].name[1] /\ g - f >= o.Wflag =>
              \E h \in (f + 1)..g : savefiles[h].name = savefiles[f].name
<1> DEFINE n == Len(savefiles)
           time(x) == savefiles[x].name[1]
           num(x) == savefiles[x].name[2]
<1>1. n \in Nat /\ f \in 1..n /\ g \in 1..n /\ f < g
  BY FilesAre DEF SaveInv
<1>2. \A x \in 1..n : time(x) \in Nat /\ num(x) \in Nat /\ savefiles[x].name = <<time(x), num(x)>>
  <2>1. ASSUME NEW x \in FileSet PROVE x.name[1] \in Nat /\ x.name[2] \in Nat /\ x.name = <<x.name[1], x.name[2]>>
    BY DEF FileSet
  <2> QED BY <2>1, FilesAre DEF SaveInv
<1>3. o.Cflag \in Nat
  BY OptionsAre DEF SaveInv
<1>a. PICK W \in Nat : W = o.Wflag
  BY OptionsAre DEF SaveInv
<1>4. \A x \in 1..n : Ring => num(x) < W
  BY <1>a DEF SaveInv, Names, Consistent
<1>5. \A x, y \in 1..n : x < y =>
        /\ time(x) <= time(y)
        /\ o.Cflag = 0 => time(x) < time(y)
        /\ time(x) = time(y) =>
             /\ W = 0 => num(y) = num(x) + (y - x)
             /\ Ring /\ y - x <= W =>
                  num(y) = num(x) + (y - x) \/ num(y) = num(x) + (y - x) - W
  BY <1>a DEF SaveInv, Names, Consistent
<1> HIDE DEF n, time, num
<1>6. ASSUME savefiles[f].name = savefiles[g].name PROVE Ring /\ g - f >= W
  <2>1. time(f) = time(g) /\ num(f) = num(g)
    BY <1>6 DEF time, num
  <2>2. o.Cflag # 0
    BY <1>1, <1>2, <1>5, <2>1
  <2>3. W # 0
    BY <1>1, <1>2, <1>5, <2>1
  <2>4. Ring
    BY <1>a, <2>2, <2>3 DEF Ring
  <2>5. ~(g - f < W)
    <3>1. PICK a \in Nat : a = num(f) /\ a = num(g)
      BY <1>1, <1>2, <2>1
    <3>2. g - f <= W => num(g) = num(f) + (g - f) \/ num(g) = num(f) + (g - f) - W
      BY <1>1, <1>5, <2>1, <2>4, Zenon
    <3>3. g - f <= W => a = a + (g - f) \/ a = a + (g - f) - W
      BY <3>1, <3>2
    <3> QED BY <1>1, <3>3
  <2> QED BY <1>1, <2>4, <2>5
<1>7. ASSUME Ring, time(f) = time(g), g - f >= W PROVE \E h \in (f + 1)..g : savefiles[h].name = savefiles[f].name
  <2>1. PICK h \in 1..n : h = f + W /\ h \in (f + 1)..g /\ h > f /\ h - f = W /\ (h = g \/ h < g)
    BY <1>1, <1>7, <1>a DEF Ring
  <2>2. time(h) = time(f)
    <3>1. time(f) <= time(h)
      BY <1>1, <1>5, <2>1
    <3>2. time(h) <= time(g)
      <4>1. CASE h < g
        BY <1>1, <1>5, <2>1, <4>1
      <4>2. CASE h = g
        BY <1>1, <1>2, <4>2
      <4> QED BY <2>1, <4>1, <4>2
    <3>3. PICK a \in Nat : a = time(f) /\ a = time(g)
      BY <1>1, <1>2, <1>7
    <3>4. PICK b \in Nat : b = time(h)
      BY <1>2
    <3> QED BY <3>1, <3>2, <3>3, <3>4
  <2>3. num(h) = num(f) + W \/ num(h) = num(f)
    BY <1>1, <1>2, <1>5, <1>7, <2>1, <2>2
  <2>4. num(h) = num(f)
    BY <1>1, <1>2, <1>4, <1>7, <2>1, <2>3
  <2>5. savefiles[h].name = savefiles[f].name
    BY <1>1, <1>2, <2>1, <2>2, <2>4
  <2> QED BY <2>1, <2>5
<1> QED BY <1>a, <1>6, <1>7 DEF time

\* The packets of all savefiles are the first ones captured, in order.
LEMMA AllSaved ==
  ASSUME SaveInv
  PROVE  LET saved == FlattenSeq([f \in DOMAIN savefiles |-> savefiles[f].packets])
         IN Len(saved) = Written /\ \A k \in 1..Written : saved[k].number = k
<1> DEFINE n == Len(savefiles)
           ss == [f \in DOMAIN savefiles |-> savefiles[f].packets]
<1>1. PICK c : Cuts(c)
  BY DEF SaveInv
<1>2. n \in Nat /\ n > 0 /\ DOMAIN savefiles = 1..n /\ \A f \in 1..n : savefiles[f].packets \in Seq(PacketSet)
  BY FilesAre DEF SaveInv, Types
<1>3. /\ c \in [0..n -> Nat] /\ c[0] = 0 /\ c[n] = Written
      /\ \A f \in 1..n :
           /\ c[f - 1] <= c[f] /\ Len(savefiles[f].packets) = c[f] - c[f - 1]
           /\ \A j \in 1..Len(savefiles[f].packets) : savefiles[f].packets[j].number = c[f - 1] + j
  BY <1>1 DEF Cuts
<1> HIDE DEF n
<1>4. ss \in [1..n -> Seq(PacketSet)] /\ \A f \in 1..n : ss[f] = savefiles[f].packets
  BY <1>2
<1>5. PICK s : s = ss
  OBVIOUS
<1> HIDE DEF ss
<1>6. s \in Seq(Seq(PacketSet)) /\ Len(s) = n
  BY <1>2, <1>4, <1>5
<1>7. GoesOn(n, s, c)
  BY <1>3, <1>4, <1>5 DEF GoesOn
<1>8. Len(FlattenSeq(s)) = c[n] /\ \A j \in 1..c[n] : FlattenSeq(s)[j].number = j
  <2>1. n \in Nat /\ n > 0
    BY <1>2
  <2>2. c \in [0..n -> Nat] /\ c[0] = 0
    BY <1>3
  <2> QED BY <1>6, <1>7, <2>1, <2>2, JoinedNumbers, ZenonT(20)
<1>9. FlattenSeq(s) = FlattenSeq([f \in DOMAIN savefiles |-> savefiles[f].packets])
  BY <1>5 DEF ss
<1> QED BY <1>3, <1>8, <1>9

\* Every packet is in one savefile, in order; two savefiles have the same name only when -W has
\* gone round, and then the earlier one was the oldest; there are never more than -W periods;
\* only the last packet puts a savefile over its size (-C), and its packets came before its
\* time (-G) was up.
THEOREM SavedInOrderHolds ==
  Spec => []SavedInOrder
<1>1. SaveInv => SavedInOrder
  <2> SUFFICES ASSUME SaveInv PROVE SavedInOrder
    OBVIOUS
  <2>1. DOMAIN savefiles = 1..Len(savefiles) /\ o.Wflag \in Nat
    BY OptionsAre DEF SaveInv, Types
  <2>2. \A g \in DOMAIN savefiles : \A f \in 1..(g - 1) :
          /\ savefiles[f].name = savefiles[g].name => Ring /\ g - f >= o.Wflag
          /\ Ring /\ savefiles[f].name[1] = savefiles[g].name[1] /\ g - f >= o.Wflag =>
               \E h \in (f + 1)..g : savefiles[h].name = savefiles[f].name
    BY <2>1, NamesGoRound
  <2>3. o.Gflag # 0 /\ o.Cflag = 0 /\ o.Wflag > 0 => Len(savefiles) <= o.Wflag
    BY DEF SaveInv, Periods
  <2>4. ASSUME NEW f \in DOMAIN savefiles
        PROVE  LET packets == savefiles[f].packets
               IN /\ o.Cflag # 0 /\ packets # <<>> => SizeOf(Front(packets)) <= o.Cflag
                  /\ o.Gflag # 0 => \A p \in ToSet(packets) : p.time - savefiles[f].name[1] \in 0..(o.Gflag - 1)
    <3> DEFINE q == savefiles[f].packets
    <3>1. /\ o.Cflag # 0 /\ q # <<>> => SizeOf(Front(q)) <= o.Cflag
          /\ o.Gflag # 0 => \A j \in 1..Len(q) : q[j].time - savefiles[f].name[1] \in 0..(o.Gflag - 1)
      BY <2>1 DEF SaveInv, Fitting
    <3>2. DOMAIN q = 1..Len(q)
      BY <2>1, FilesAre DEF SaveInv
    <3>3. ASSUME NEW p \in ToSet(q) PROVE \E j \in 1..Len(q) : p = q[j]
      BY <3>2 DEF ToSet
    <3> QED BY <3>1, <3>3
  <2>5. LET saved == FlattenSeq([f \in DOMAIN savefiles |-> savefiles[f].packets])
        IN Len(saved) = Written /\ \A k \in 1..Written : saved[k].number = k
    BY AllSaved
  <2> QED BY <2>2, <2>3, <2>4, <2>5, Zenon DEF SavedInOrder, Written, Ring
<1> QED BY <1>1, SaveInvHolds, PTL
=============================================================================

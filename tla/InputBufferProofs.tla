----------------------------- MODULE InputBufferProofs -----------------------------
(***************************************************************************)
(* Theorems about InputBuffer: that every line of the input is handed over *)
(* once, in order, and that the size that is computed is enough.           *)
(*                                                                         *)
(* The inductive invariant relates the table to the text (Tabled): it has  *)
(* the lines of the text up to its last Eol.  So the lines that are handed *)
(* over, those of what is kept of the text and of what is to be read of    *)
(* the open file, and those of the other files are together the lines of   *)
(* the input (Handed), since no line spans a place where a file starts     *)
(* (Places).  The room left (Fits, Roomy) is bounded by what was counted   *)
(* for the files that are opened.                                          *)
(***************************************************************************)
EXTENDS InputBuffer, TLAPS, FiniteSetTheorems, SequenceTheorems, WellFoundedInduction

InputByte == UNION {ToSet(f) : f \in UNION {ToSet(fs) : fs \in Inputs}}
Byte == InputByte \cup {Eol}
Line == [start : Nat, length : Nat]

Types ==
  /\ input \in Inputs /\ bound \in Bounds /\ line_bytes \in LineBytes /\ halved \in BOOLEAN
  /\ pc \in {"initbuf", "died", "open", "fillbuf", "read", "filled", "lines", "done"}
  /\ alloc \in Nat /\ left \in Nat /\ eof \in BOOLEAN /\ direct \in BOOLEAN
  /\ text \in Seq(Byte) /\ rest \in Seq(Byte) /\ files \in Seq(Seq(Byte))
  /\ lines \in Seq(Line) /\ bufferfuls \in Seq(Seq(Seq(Byte)))
  /\ left <= Len(text)

\* The sequence of the elements of a set of numbers by size.
Enumerates(e, S) ==
  /\ e \in Seq(Nat) /\ S = {e[k] : k \in 1..Len(e)}
  /\ \A j, k \in 1..Len(e) : j < k => e[j] < e[k]

EolsOf(t) == {k \in 1..Len(t) : t[k] = Eol}

\* The table has the lines of the text, up to its last Eol, one after the other.
Tabled(table, t) ==
  /\ Enumerates([k \in 1..Len(table) |-> table[k].start + table[k].length], EolsOf(t))
  /\ \A k \in 1..Len(table) :
       table[k].start = IF k = 1 THEN 0 ELSE table[k - 1].start + table[k - 1].length

\* Where the rest of the text goes.
Places ==
  /\ pc \in {"initbuf", "died"} => /\ text = <<>> /\ lines = <<>> /\ left = 0 /\ rest = <<>> /\ files = input
                                   /\ bufferfuls = <<>> /\ ~ direct /\ ~ eof
  /\ pc = "open" => /\ rest = <<>> /\ line_start = Len(text) /\ (left = 0 \/ left = Len(text))
                    /\ files = <<>> => left = 0
  /\ pc = "fillbuf" => /\ left = Len(text) \/ left = Left
                       /\ eof => left = 0 /\ rest = <<>>
  /\ pc = "read" => ~ eof
  /\ pc = "filled" => eof /\ rest = <<>> /\ line_start = Len(text) /\ lines # <<>>
  /\ pc = "lines" => /\ left = Left /\ lines # <<>>
                     /\ eof => left = 0 /\ rest = <<>>

HandedOver(done, kept, fs, in) == (FlattenSeq(done) \o LinesOf(kept)) \o AllLinesOf(fs) = AllLinesOf(in)
Handed == HandedOver(bufferfuls, Kept \o rest, files, input)

Fits == pc \notin {"initbuf", "died"} => avail >= 0

\* size[k] is the room for the first k files.
Worst(f) == Len(f) * (line_bytes + 1) + 1
Sizes(size) ==
  /\ size \in [0..Len(input) -> Nat] /\ size[0] = line_bytes + 2
  /\ \A k \in 1..Len(input) : size[k] = size[k - 1] + Worst(input[k])

Used == Len(text) + line_bytes * Len(lines)
Opened == Len(input) - Len(files)

\* With enough room, each file is read at once, and all into one buffer.
RoomyFor(size) ==
  /\ Sizes(size)
  /\ pc = "initbuf" => alloc = size[Len(input)]
  /\ pc # "initbuf" => alloc > size[Len(input)]
  /\ pc # "done" => bufferfuls = <<>>
  /\ pc = "done" => direct \/ AllLinesOf(input) = <<>>
  /\ bufferfuls # <<>> => direct
  /\ pc \in {"open", "filled", "lines"} => Used <= size[Opened] - (line_bytes + 2)
  /\ pc \in {"fillbuf", "read"} => /\ Opened > 0 /\ rest = input[Opened] /\ ~ eof
                                   /\ Used <= size[Opened - 1] - (line_bytes + 2)
                                   /\ line_start = Len(text)
  /\ pc = "lines" => eof

Order == Opened \in 0..Len(input) /\ \A k \in 1..Len(files) : files[k] = input[Opened + k]

Roomy == Order /\ (Sized /\ pc # "died" => \E size : RoomyFor(size))

BufInv == Types /\ Tabled(lines, text) /\ Places /\ Handed /\ Fits /\ Roomy

-----------------------------------------------------------------------------
(* Least and greatest numbers *)

\* A set of natural numbers has a least element.
LEMMA Least ==
  ASSUME NEW T \in SUBSET Nat, T # {}
  PROVE  \E x \in T : \A y \in T : x <= y
<1> DEFINE R == OpToRel(<, Nat)
<1>1. IsWellFoundedOn(R, Nat)
  BY NatLessThanWellFounded
<1>2. \A x, y \in Nat : <<x, y>> \in R <=> x < y
  BY DEF OpToRel
<1> HIDE DEF R
<1>3. PICK x \in T : \A y \in T : ~ (<<y, x>> \in R)
  <2>1. T \subseteq Nat
    OBVIOUS
  <2> QED BY <1>1, <2>1, WFMin, Zenon
<1>4. ASSUME NEW y \in T PROVE x <= y
  <2>1. x \in Nat /\ y \in Nat /\ ~(y < x)
    BY <1>2, <1>3
  <2> QED BY <2>1
<1> QED BY <1>4

\* Max is the greatest of a set of places.
LEMMA MaxIs ==
  ASSUME NEW n \in Nat, NEW T \in SUBSET (1..n), T # {}
  PROVE  Max(T) \in T /\ \A y \in T : Max(T) >= y
<1> DEFINE B == {y \in Nat : \E x \in T : y = n - x}
<1>1. B \in SUBSET Nat /\ B # {}
  <2>1. PICK x \in T : x \in 1..n
    OBVIOUS
  <2>2. n - x \in Nat
    BY <2>1
  <2> QED BY <2>2
<1> HIDE DEF B
<1>2. PICK m \in B : \A y \in B : m <= y
  BY <1>1, Least
<1> USE DEF B
<1>3. PICK x \in T : m = n - x
  BY <1>2
<1>4. ASSUME NEW y \in T PROVE x >= y
  <2>1. n - y \in B /\ n - y \in Nat /\ y \in 1..n /\ x \in 1..n
    OBVIOUS
  <2>2. n - x <= n - y
    BY <1>2, <1>3, <2>1
  <2> QED BY <2>1, <2>2
<1> QED BY <1>3, <1>4 DEF Max

-----------------------------------------------------------------------------
(* Sets of numbers by size *)

\* The elements of a set of places can be enumerated by size,
LEMMA SortedExists ==
  ASSUME NEW n \in Nat, NEW S \in SUBSET (1..n)
  PROVE  \E e : Enumerates(e, S)
<1> DEFINE Some(k) == \A R \in SUBSET (1..k) : \E e : Enumerates(e, R)
           T == {k \in Nat : k <= n /\ ~ Some(k)}
<1>1. CASE T = {}
  <2> HIDE DEF Some
  <2>1. Some(n)
    BY <1>1
  <2> QED BY <2>1 DEF Some
<1>2. CASE T # {}
  <2>1. T \in SUBSET Nat
    OBVIOUS
  <2> HIDE DEF T
  <2>2. PICK k \in T : \A y \in T : k <= y
    BY <1>2, <2>1, Least
  <2> USE DEF T
  <2>3. PICK R \in SUBSET (1..k) : ~ \E e : Enumerates(e, R)
    BY <2>2
  <2>4. k \in Nat /\ k <= n
    BY <2>2
  <2>5. CASE k = 0
    <3>1. R = {}
      BY <2>3, <2>5
    <3>2. Enumerates(<<>>, {})
      BY DEF Enumerates
    <3> QED BY <2>3, <3>1, <3>2
  <2>6. CASE k # 0
    <3>1. k - 1 \in Nat /\ k - 1 <= n /\ ~(k <= k - 1)
      BY <2>4, <2>6
    <3>2. Some(k - 1)
      BY <2>2, <3>1
    <3>3. R \ {k} \in SUBSET (1..(k - 1))
      BY <2>4, <2>6
    <3>4. PICK e : Enumerates(e, R \ {k})
      BY <3>2, <3>3
    <3>5. CASE k \notin R
      <4>1. R \ {k} = R
        BY <3>5
      <4> QED BY <2>3, <3>4, <4>1
    <3>6. CASE k \in R
      <4> DEFINE f == Append(e, k)
                 m == Len(e)
      <4>1. e \in Seq(Nat) /\ m \in Nat /\ R \ {k} = {e[j] : j \in 1..m}
            /\ \A i, j \in 1..m : i < j => e[i] < e[j]
        BY <3>4 DEF Enumerates
      <4>2. f \in Seq(Nat) /\ Len(f) = m + 1 /\ f[m + 1] = k /\ \A j \in 1..m : f[j] = e[j]
        BY <2>4, <4>1
      <4> HIDE DEF f, m
      <4>3. \A j \in 1..m : e[j] \in Nat /\ e[j] < k
        <5>1. ASSUME NEW j \in 1..m PROVE e[j] \in Nat /\ e[j] < k
          <6>1. e[j] \in R \ {k}
            BY <4>1
          <6>2. e[j] \in 1..(k - 1)
            BY <3>3, <6>1
          <6> QED BY <2>4, <6>2
        <5> QED BY <5>1
      <4>4. \A j \in 1..(m + 1) : j = m + 1 \/ j \in 1..m
        BY <4>1
      <4>5. R = {f[j] : j \in 1..(m + 1)}
        <5>1. ASSUME NEW x \in R PROVE \E j \in 1..(m + 1) : x = f[j]
          <6>1. CASE x = k
            BY <4>1, <4>2, <6>1
          <6>2. CASE x # k
            <7>1. PICK j \in 1..m : x = e[j]
              BY <4>1, <6>2
            <7> QED BY <4>1, <4>2, <7>1
          <6> QED BY <6>1, <6>2
        <5>2. ASSUME NEW j \in 1..(m + 1) PROVE f[j] \in R
          BY <3>6, <4>1, <4>2, <4>4
        <5> QED BY <5>1, <5>2
      <4>6. ASSUME NEW i \in 1..(m + 1), NEW j \in 1..(m + 1), i < j PROVE f[i] < f[j]
        <5>1. i \in 1..m
          BY <4>1, <4>6
        <5> QED BY <4>1, <4>2, <4>3, <4>4, <4>6, <5>1
      <4>7. Enumerates(f, R)
        BY <4>2, <4>5, <4>6 DEF Enumerates
      <4> QED BY <2>3, <4>7
    <3> QED BY <3>5, <3>6
  <2> QED BY <2>5, <2>6
<1> QED BY <1>1, <1>2

\* the first of them comes first,
LEMMA SortedBegins ==
  ASSUME NEW S, NEW e, NEW f, Enumerates(e, S), Enumerates(f, S)
  PROVE  \A k \in 1..Len(e) : k \in 1..Len(f) /\ e[k] = f[k]
<1> DEFINE n == Len(e)
           m == Len(f)
           T == {k \in 1..n : ~(k \in 1..m /\ e[k] = f[k])}
<1>1. /\ e \in Seq(Nat) /\ n \in Nat /\ S = {e[k] : k \in 1..n} /\ \A j, k \in 1..n : j < k => e[j] < e[k]
      /\ f \in Seq(Nat) /\ m \in Nat /\ S = {f[k] : k \in 1..m} /\ \A j, k \in 1..m : j < k => f[j] < f[k]
  <2>1. /\ e \in Seq(Nat) /\ S = {e[k] : k \in 1..n} /\ \A j, k \in 1..n : j < k => e[j] < e[k]
        /\ f \in Seq(Nat) /\ S = {f[k] : k \in 1..m} /\ \A j, k \in 1..m : j < k => f[j] < f[k]
    BY Zenon DEF Enumerates
  <2>2. n \in Nat /\ m \in Nat
    BY <2>1
  <2> HIDE DEF n, m
  <2> QED BY <2>1, <2>2, Zenon
<1>2. (\A k \in 1..n : e[k] \in Nat) /\ (\A k \in 1..m : f[k] \in Nat)
  BY <1>1
<1> HIDE DEF n, m
<1>3. CASE T = {}
  BY <1>3 DEF n, m
<1>4. CASE T # {}
  <2>1. T \in SUBSET Nat
    BY <1>1
  <2> HIDE DEF T
  <2>2. PICK k \in T : \A y \in T : k <= y
    BY <1>4, <2>1, Least
  <2> USE DEF T
  <2>3. k \in 1..n /\ ~(k \in 1..m /\ e[k] = f[k])
    BY <2>2
  <2>4. ASSUME NEW j \in 1..n, j < k PROVE j \in 1..m /\ e[j] = f[j]
    <3>1. ~(k <= j)
      BY <2>3, <2>4
    <3> QED BY <2>2, <3>1
  <2>5. PICK i \in 1..m : e[k] = f[i]
    BY <1>1, <2>3
  <2>6. ~(i < k)
    <3>1. ASSUME i < k PROVE FALSE
      <4>1. i \in 1..n
        BY <1>1, <2>3, <2>5, <3>1
      <4>2. e[i] = f[i] /\ e[i] < e[k]
        BY <1>1, <2>3, <2>4, <3>1, <4>1
      <4> QED BY <1>2, <2>3, <2>5, <4>1, <4>2
    <3> QED BY <3>1
  <2>7. k \in 1..m /\ (k < i \/ k = i)
    BY <1>1, <2>3, <2>5, <2>6
  <2>8. PICK h \in 1..n : f[k] = e[h]
    BY <1>1, <2>7
  <2>9. ~(h < k)
    <3>1. ASSUME h < k PROVE FALSE
      <4>1. h \in 1..m /\ e[h] = f[h]
        BY <2>4, <3>1
      <4>2. f[h] < f[k]
        BY <1>1, <2>7, <3>1, <4>1
      <4> QED BY <1>2, <2>7, <2>8, <4>1, <4>2
    <3> QED BY <3>1
  <2>10. f[k] <= e[k]
    BY <1>1, <1>2, <2>5, <2>7
  <2>11. e[k] <= f[k]
    <3>1. k < h \/ k = h
      BY <2>3, <2>8, <2>9
    <3> QED BY <1>1, <1>2, <2>3, <2>8, <3>1
  <2>12. e[k] = f[k]
    BY <1>2, <2>3, <2>7, <2>10, <2>11
  <2> QED BY <2>3, <2>7, <2>12
<1> QED BY <1>3, <1>4

\* and in one way only.
LEMMA SortedUnique ==
  ASSUME NEW S, NEW e, NEW f, Enumerates(e, S), Enumerates(f, S)
  PROVE  e = f
<1>1. e \in Seq(Nat) /\ f \in Seq(Nat) /\ Len(e) \in Nat /\ Len(f) \in Nat
  BY DEF Enumerates
<1>2. \A k \in 1..Len(e) : k \in 1..Len(f) /\ e[k] = f[k]
  BY SortedBegins
<1>3. \A k \in 1..Len(f) : k \in 1..Len(e) /\ e[k] = f[k]
  BY SortedBegins
<1>4. Len(e) = Len(f)
  <2>1. Len(e) <= Len(f)
    <3>1. Len(e) = 0 \/ Len(e) \in 1..Len(e)
      BY <1>1
    <3> QED BY <1>1, <1>2, <3>1
  <2>2. Len(f) <= Len(e)
    <3>1. Len(f) = 0 \/ Len(f) \in 1..Len(f)
      BY <1>1
    <3> QED BY <1>1, <1>3, <3>1
  <2> QED BY <1>1, <2>1, <2>2
<1> QED BY <1>1, <1>2, <1>4, SeqEqual

\* The greater elements follow the smaller ones.
LEMMA SortedConcat ==
  ASSUME NEW S, NEW R, NEW e, NEW f, Enumerates(e, S), Enumerates(f, R), \A x \in S, y \in R : x < y
  PROVE  Enumerates(e \o f, S \cup R)
<1> DEFINE n == Len(e)
           m == Len(f)
           g == e \o f
<1>1. /\ e \in Seq(Nat) /\ n \in Nat /\ S = {e[k] : k \in 1..n} /\ \A j, k \in 1..n : j < k => e[j] < e[k]
      /\ f \in Seq(Nat) /\ m \in Nat /\ R = {f[k] : k \in 1..m} /\ \A j, k \in 1..m : j < k => f[j] < f[k]
  BY DEF Enumerates
<1>2. g \in Seq(Nat) /\ Len(g) = n + m /\ \A k \in 1..(n + m) : g[k] = IF k <= n THEN e[k] ELSE f[k - n]
  BY <1>1, ConcatProperties, Zenon
<1> HIDE DEF n, m, g
<1>3. \A k \in 1..(n + m) : \/ k \in 1..n /\ g[k] = e[k]
                            \/ k - n \in 1..m /\ ~(k <= n) /\ g[k] = f[k - n]
  BY <1>1, <1>2
<1>4. S \cup R = {g[k] : k \in 1..Len(g)}
  <2>1. ASSUME NEW x \in S PROVE \E k \in 1..(n + m) : x = g[k]
    <3>1. PICK k \in 1..n : x = e[k]
      BY <1>1
    <3>2. k \in 1..(n + m) /\ k <= n
      BY <1>1
    <3> QED BY <1>2, <3>1, <3>2
  <2>2. ASSUME NEW x \in R PROVE \E k \in 1..(n + m) : x = g[k]
    <3>1. PICK k \in 1..m : x = f[k]
      BY <1>1
    <3>2. n + k \in 1..(n + m) /\ ~(n + k <= n) /\ (n + k) - n = k
      BY <1>1
    <3> QED BY <1>2, <3>1, <3>2
  <2>3. ASSUME NEW k \in 1..(n + m) PROVE g[k] \in S \cup R
    BY <1>1, <1>3
  <2> QED BY <1>2, <2>1, <2>2, <2>3
<1>5. ASSUME NEW j \in 1..(n + m), NEW k \in 1..(n + m), j < k PROVE g[j] < g[k]
  <2>1. CASE k \in 1..n /\ g[k] = e[k]
    <3>1. j \in 1..n /\ j <= n
      BY <1>1, <1>5, <2>1
    <3> QED BY <1>1, <1>2, <1>5, <2>1, <3>1
  <2>2. CASE k - n \in 1..m /\ ~(k <= n) /\ g[k] = f[k - n]
    <3>1. CASE j \in 1..n /\ g[j] = e[j]
      BY <1>1, <2>2, <3>1
    <3>2. CASE j - n \in 1..m /\ g[j] = f[j - n]
      <4>1. j - n < k - n
        BY <1>1, <1>5
      <4> QED BY <1>1, <2>2, <3>2, <4>1
    <3> QED BY <1>3, <3>1, <3>2
  <2> QED BY <1>3, <2>1, <2>2
<1>6. Enumerates(g, S \cup R)
  BY <1>2, <1>4, <1>5 DEF Enumerates
<1> QED BY <1>6 DEF g

\* Adding a number to all elements keeps their order.
LEMMA SortedShift ==
  ASSUME NEW S, NEW e, Enumerates(e, S), NEW c \in Nat
  PROVE  Enumerates([k \in 1..Len(e) |-> c + e[k]], {c + x : x \in S})
<1> DEFINE n == Len(e)
           g == [k \in 1..n |-> c + e[k]]
<1>1. e \in Seq(Nat) /\ n \in Nat /\ S = {e[k] : k \in 1..n} /\ \A j, k \in 1..n : j < k => e[j] < e[k]
  BY DEF Enumerates
<1>2. \A k \in 1..n : e[k] \in Nat /\ g[k] = c + e[k]
  BY <1>1
<1> HIDE DEF n
<1>3. g \in Seq(Nat) /\ Len(g) = n
  BY <1>1, <1>2
<1> HIDE DEF g
<1>4. {c + x : x \in S} = {g[k] : k \in 1..Len(g)}
  <2>1. ASSUME NEW x \in S PROVE \E k \in 1..n : c + x = g[k]
    BY <1>1, <1>2
  <2>2. ASSUME NEW k \in 1..n PROVE \E x \in S : g[k] = c + x
    BY <1>1, <1>2
  <2> QED BY <1>3, <2>1, <2>2
<1>5. ASSUME NEW j \in 1..n, NEW k \in 1..n, j < k PROVE g[j] < g[k]
  BY <1>1, <1>2, <1>5
<1>6. Enumerates(g, {c + x : x \in S})
  BY <1>3, <1>4, <1>5 DEF Enumerates
<1> QED BY <1>6 DEF g, n

\* There are as many places in the enumeration as in the set.
LEMMA SortedCardinality ==
  ASSUME NEW S, NEW e, Enumerates(e, S)
  PROVE  IsFiniteSet(S) /\ Cardinality(S) = Len(e) /\ S \subseteq Nat
<1> DEFINE m == Len(e)
<1>1. /\ e \in Seq(Nat) /\ m \in Nat /\ S = {e[k] : k \in 1..m} /\ \A j, k \in 1..m : j < k => e[j] < e[k]
      /\ e \in [1..m -> S] /\ \A k \in 1..m : e[k] \in Nat
  <2>1. e \in Seq(Nat) /\ S = {e[k] : k \in 1..m} /\ \A j, k \in 1..m : j < k => e[j] < e[k]
    BY Zenon DEF Enumerates
  <2>2. m \in Nat /\ (\A k \in 1..m : e[k] \in Nat) /\ e = [k \in 1..m |-> e[k]]
    BY <2>1
  <2> HIDE DEF m
  <2>3. e \in [1..m -> S]
    BY <2>1, <2>2
  <2> QED BY <2>1, <2>2, <2>3
<1> HIDE DEF m
<1>2. IsInjective(e)
  <2>1. DOMAIN e = 1..m
    BY <1>1
  <2>2. ASSUME NEW j \in 1..m, NEW k \in 1..m, e[j] = e[k] PROVE j = k
    <3>1. ASSUME j < k PROVE FALSE
      <4>1. e[j] < e[k] /\ e[j] \in Nat
        BY <1>1, <3>1
      <4> QED BY <2>2, <4>1
    <3>2. ASSUME k < j PROVE FALSE
      <4>1. e[k] < e[j] /\ e[j] \in Nat
        BY <1>1, <3>2
      <4> QED BY <2>2, <4>1
    <3> QED BY <1>1, <3>1, <3>2
  <2> QED BY <2>1, <2>2 DEF IsInjective
<1>3. IsFiniteSet(1..m) /\ Cardinality(1..m) = m
  <2>1. m \in Nat
    BY <1>1
  <2>2. 1 \in Int /\ m \in Int
    BY <2>1
  <2>3. IsFiniteSet(1..m) /\ Cardinality(1..m) = IF 1 > m THEN 0 ELSE m - 1 + 1
    BY <2>2, FS_Interval, Zenon
  <2> QED BY <2>1, <2>3
<1>4. e \in Bijection(1..m, S)
  <2>1. e \in Surjection(1..m, S)
    BY <1>1 DEF Surjection
  <2> QED BY <1>1, <1>2, <2>1 DEF Bijection, Injection
<1>5. ExistsBijection(1..m, S)
  BY <1>4 DEF ExistsBijection
<1>6. S \subseteq Nat
  BY <1>1
<1> QED BY <1>3, <1>5, <1>6, FS_Bijection DEF m

\* BySize is the sequence that enumerates the places.
LEMMA BySizeIs ==
  ASSUME NEW S, NEW e, Enumerates(e, S)
  PROVE  BySize(S) = e
<1> DEFINE m == Len(e)
           upto(x) == {y \in S : y <= x}
<1>1. /\ e \in Seq(Nat) /\ S = {e[k] : k \in 1..m} /\ \A j, k \in 1..m : j < k => e[j] < e[k]
      /\ m \in Nat /\ \A k \in 1..m : e[k] \in Nat
  <2>1. e \in Seq(Nat) /\ S = {e[k] : k \in 1..m} /\ \A j, k \in 1..m : j < k => e[j] < e[k]
    BY Zenon DEF Enumerates
  <2>2. m \in Nat /\ \A k \in 1..m : e[k] \in Nat
    BY <2>1
  <2> QED BY <2>1, <2>2
<1>2. Cardinality(S) = m
  BY SortedCardinality
<1> HIDE DEF m
<1>3. ASSUME NEW k \in 1..m PROVE Cardinality(upto(e[k])) = k
  <2> DEFINE f == [j \in 1..k |-> e[j]]
  <2>1. k \in Nat /\ \A j \in 1..k : j \in 1..m /\ f[j] = e[j] /\ e[j] \in Nat
    BY <1>1
  <2>2. f \in Seq(Nat) /\ Len(f) = k
    <3>1. f \in [1..k -> Nat]
      BY <2>1
    <3> HIDE DEF f
    <3> QED BY <2>1, <3>1
  <2> HIDE DEF f
  <2>3. upto(e[k]) = {f[j] : j \in 1..Len(f)}
    <3>1. ASSUME NEW y \in S, y <= e[k] PROVE \E j \in 1..k : y = f[j]
      <4>1. PICK j \in 1..m : y = e[j]
        BY <1>1
      <4>2. ~(k < j)
        <5>1. ASSUME k < j PROVE FALSE
          <6>1. e[k] < e[j] /\ e[k] \in Nat /\ e[j] \in Nat
            BY <1>1, <5>1
          <6> QED BY <3>1, <4>1, <6>1
        <5> QED BY <5>1
      <4>3. j \in 1..k
        BY <1>1, <4>2
      <4> QED BY <2>1, <4>1, <4>3
    <3>2. ASSUME NEW j \in 1..k PROVE f[j] \in S /\ f[j] <= e[k]
      <4>1. j < k \/ j = k
        BY <2>1
      <4>2. e[j] \in Nat /\ e[k] \in Nat /\ e[j] \in S
        BY <1>1, <2>1
      <4>3. e[j] <= e[k]
        BY <1>1, <2>1, <4>1, <4>2
      <4> QED BY <2>1, <4>2, <4>3
    <3> QED BY <2>2, <3>1, <3>2
  <2>4. \A i, j \in 1..Len(f) : i < j => f[i] < f[j]
    BY <1>1, <2>1, <2>2
  <2>5. Enumerates(f, upto(e[k]))
    <3> HIDE DEF upto
    <3> QED BY <2>2, <2>3, <2>4, Zenon DEF Enumerates
  <2> HIDE DEF upto
  <2> QED BY <2>2, <2>5, SortedCardinality
<1> HIDE DEF upto
<1>4. ASSUME NEW k \in 1..m PROVE (CHOOSE x \in S : Cardinality(upto(x)) = k) = e[k]
  <2>1. e[k] \in S /\ Cardinality(upto(e[k])) = k
    BY <1>1, <1>3
  <2>2. ASSUME NEW x \in S, Cardinality(upto(x)) = k PROVE x = e[k]
    <3>1. PICK j \in 1..m : x = e[j]
      BY <1>1
    <3>2. j = k
      BY <1>3, <2>2, <3>1
    <3> QED BY <3>1, <3>2
  <2> QED BY <2>1, <2>2
<1>5. BySize(S) = [k \in 1..m |-> e[k]]
  <2>1. BySize(S) = [k \in 1..m |-> CHOOSE x \in S : Cardinality(upto(x)) = k]
    BY <1>2 DEF BySize, upto
  <2> QED BY <1>4, <2>1
<1>6. e = [k \in 1..m |-> e[k]]
  BY <1>1 DEF m
<1> QED BY <1>5, <1>6

\* BySize is the enumeration.
LEMMA BySizeSorts ==
  ASSUME NEW n \in Nat, NEW S \in SUBSET (1..n)
  PROVE  Enumerates(BySize(S), S)
<1>1. PICK e : Enumerates(e, S)
  BY SortedExists
<1> QED BY <1>1, BySizeIs

-----------------------------------------------------------------------------
(* Joined sequences *)

Joins(T, h, ss) ==
  /\ h \in [1..Len(ss) -> Seq(T)]
  /\ \A i \in 1..Len(ss) : h[i] = IF i = 1 THEN ss[i] ELSE h[i - 1] \o ss[i]

\* The first n values of f join ss.
Through(f, ss, n) == \A i \in 1..n : f[i] = IF i = 1 THEN ss[i] ELSE f[i - 1] \o ss[i]

\* The sequences can be joined one after the other.
LEMMA JoinsExist ==
  ASSUME NEW B, NEW ss \in Seq(Seq(B))
  PROVE  \E h : Joins(B, h, ss)
<1> DEFINE n == Len(ss)
           Up(k, h) == \A i \in 1..k : h[i] = IF i = 1 THEN ss[i] ELSE h[i - 1] \o ss[i]
           Some(k) == \E g \in [1..k -> Seq(B)] : Up(k, g)
           T == {k \in Nat : k <= n /\ ~ Some(k)}
<1>a. n \in Nat /\ \A i \in 1..n : ss[i] \in Seq(B)
  OBVIOUS
<1> HIDE DEF n
<1>1. CASE T = {}
  <2> HIDE DEF Some
  <2>1. Some(n)
    BY <1>a, <1>1
  <2> QED BY <2>1 DEF Some, Joins, n
<1>2. CASE T # {}
  <2>1. T \in SUBSET Nat
    OBVIOUS
  <2> HIDE DEF T
  <2>2. PICK k \in T : \A y \in T : k <= y
    BY <1>2, <2>1, Least
  <2> USE DEF T
  <2>3. k \in Nat /\ k <= n /\ ~ \E g \in [1..k -> Seq(B)] : Up(k, g)
    BY <2>2
  <2>4. CASE k = 0
    <3>1. [i \in 1..k |-> <<>>] \in [1..k -> Seq(B)] /\ Up(k, [i \in 1..k |-> <<>>])
      BY <2>4
    <3> QED BY <2>3, <3>1
  <2>5. CASE k # 0
    <3>1. k - 1 \in Nat /\ k - 1 <= n /\ ~(k <= k - 1) /\ k \in 1..n
      BY <1>a, <2>3, <2>5
    <3>2. PICK h \in [1..(k - 1) -> Seq(B)] : Up(k - 1, h)
      BY <2>2, <3>1
    <3> DEFINE g == [i \in 1..k |-> IF i < k THEN h[i] ELSE IF k = 1 THEN ss[k] ELSE h[k - 1] \o ss[k]]
    <3>3. ss[k] \in Seq(B) /\ (k # 1 => k - 1 \in 1..(k - 1))
      BY <1>a, <2>3, <3>1
    <3>4. k # 1 => h[k - 1] \in Seq(B) /\ h[k - 1] \o ss[k] \in Seq(B)
      BY <3>2, <3>3
    <3>5. g \in [1..k -> Seq(B)]
      <4>1. ASSUME NEW i \in 1..k, i < k PROVE h[i] \in Seq(B)
        <5>1. i \in 1..(k - 1)
          BY <2>3, <4>1
        <5> QED BY <3>2, <5>1
      <4> QED BY <3>3, <3>4, <4>1
    <3>6. ASSUME NEW i \in 1..k PROVE g[i] = IF i = 1 THEN ss[i] ELSE g[i - 1] \o ss[i]
      <4>1. CASE i < k
        <5>1. i \in 1..(k - 1) /\ (i # 1 => i - 1 \in 1..k /\ i - 1 < k)
          BY <2>3, <4>1
        <5>2. h[i] = IF i = 1 THEN ss[i] ELSE h[i - 1] \o ss[i]
          BY <3>2, <5>1
        <5>3. g[i] = h[i] /\ (i # 1 => g[i - 1] = h[i - 1])
          BY <4>1, <5>1
        <5> HIDE DEF g
        <5> QED BY <5>2, <5>3
      <4>2. CASE i = k
        <5>1. k # 1 => k - 1 \in 1..k /\ k - 1 < k
          BY <2>3
        <5>2. g[k] = (IF k = 1 THEN ss[k] ELSE h[k - 1] \o ss[k]) /\ (k # 1 => g[k - 1] = h[k - 1])
          BY <2>3, <4>2, <5>1
        <5> HIDE DEF g
        <5> QED BY <4>2, <5>2
      <4> QED BY <2>3, <4>1, <4>2
    <3>7. Up(k, g)
      <4> HIDE DEF g
      <4> QED BY <3>6
    <3> HIDE DEF g, Up
    <3> QED BY <2>3, <3>5, <3>7
  <2> QED BY <2>4, <2>5
<1> QED BY <1>1, <1>2

\* There is only one such function, also of a longer sequence.
LEMMA JoinsUnique ==
  ASSUME NEW B, NEW ss \in Seq(Seq(B)), NEW h, Joins(B, h, ss), NEW n \in Nat, n <= Len(ss),
         NEW f, Through(f, ss, n)
  PROVE  \A i \in 1..n : f[i] = h[i]
<1> DEFINE T == {i \in 1..n : f[i] # h[i]}
<1>1. CASE T = {}
  BY <1>1
<1>2. CASE T # {}
  <2>1. T \in SUBSET Nat
    OBVIOUS
  <2> HIDE DEF T
  <2>2. PICK k \in T : \A y \in T : k <= y
    BY <1>2, <2>1, Least
  <2> USE DEF T
  <2>3. k \in 1..n /\ f[k] # h[k] /\ k \in 1..Len(ss)
    BY <2>2
  <2>4. /\ f[k] = IF k = 1 THEN ss[k] ELSE f[k - 1] \o ss[k]
        /\ h[k] = IF k = 1 THEN ss[k] ELSE h[k - 1] \o ss[k]
    BY <2>3, Zenon DEF Joins, Through
  <2>5. k # 1 => k - 1 \in 1..n /\ ~(k <= k - 1)
    BY <2>3
  <2>6. k # 1 => f[k - 1] = h[k - 1]
    BY <2>2, <2>5
  <2> QED BY <2>3, <2>4, <2>6
<1> QED BY <1>1, <1>2

\* FlattenSeq joins all of them.
LEMMA Flattened ==
  ASSUME NEW B, NEW ss \in Seq(Seq(B)), Len(ss) > 0, NEW h, Joins(B, h, ss)
  PROVE  FlattenSeq(ss) = h[Len(ss)] /\ FlattenSeq(ss) \in Seq(B)
<1> DEFINE n == Len(ss)
           step(g) == [i \in 1..n |-> IF i = 1 THEN ss[i] ELSE g[i - 1] \o ss[i]]
           f == CHOOSE g : g = step(g)
<1>1. n \in Nat /\ n > 0 /\ n \in 1..n
  OBVIOUS
<1> HIDE DEF n
<1>2. h = step(h)
  BY DEF Joins, n
<1>3. f = step(f)
  <2> HIDE DEF step
  <2> QED BY <1>2, Zenon
<1>4. FlattenSeq(ss) = f[n]
  BY <1>1 DEF FlattenSeq, n
<1>5. \A i \in 1..n : f[i] = IF i = 1 THEN ss[i] ELSE f[i - 1] \o ss[i]
  <2> HIDE DEF f
  <2> QED BY <1>3
<1> HIDE DEF f
<1>6. f[n] = h[n]
  <2>1. \A i \in 1..n : f[i] = h[i]
    <3>1. n \in Nat /\ n <= Len(ss) /\ Through(f, ss, n)
      BY <1>1, <1>5 DEF n, Through
    <3> QED BY <3>1, JoinsUnique
  <2> QED BY <1>1, <2>1
<1>7. h[n] \in Seq(B)
  BY <1>1 DEF Joins, n
<1> QED BY <1>4, <1>6, <1>7 DEF n

\* What is joined is a sequence of the same elements.
LEMMA FlattenType ==
  ASSUME NEW B, NEW ss \in Seq(Seq(B))
  PROVE  FlattenSeq(ss) \in Seq(B) /\ (ss = <<>> => FlattenSeq(ss) = <<>>)
<1>1. CASE ss = <<>>
  <2>1. FlattenSeq(ss) = ss
    BY <1>1, EmptySeq, Zenon DEF FlattenSeq
  <2>2. <<>> \in Seq(B)
    OBVIOUS
  <2> QED BY <1>1, <2>1, <2>2, Zenon
<1>2. CASE ss # <<>>
  <2>1. Len(ss) > 0
    BY <1>2
  <2>2a. \E h : Joins(B, h, ss)
    BY JoinsExist
  <2>2. PICK h : Joins(B, h, ss)
    BY <2>2a, Zenon
  <2>3. FlattenSeq(ss) \in Seq(B)
    BY <2>1, <2>2, Flattened, Zenon
  <2> QED BY <1>2, <2>3
<1> QED BY <1>1, <1>2

\* A sequence more is joined at the end.
LEMMA FlattenAppend ==
  ASSUME NEW B, NEW ss \in Seq(Seq(B)), NEW x \in Seq(B)
  PROVE  FlattenSeq(Append(ss, x)) = FlattenSeq(ss) \o x
<1> DEFINE n == Len(ss)
           tt == Append(ss, x)
<1>1. /\ n \in Nat /\ tt \in Seq(Seq(B)) /\ Len(tt) = n + 1 /\ tt[n + 1] = x /\ \A i \in 1..n : tt[i] = ss[i]
      /\ Len(tt) > 0
  OBVIOUS
<1> HIDE DEF tt
<1>2. PICK h : Joins(B, h, tt)
  BY <1>1, JoinsExist
<1>3. FlattenSeq(tt) = h[n + 1]
  BY <1>1, <1>2, Flattened
<1>4. \A i \in 1..(n + 1) : h[i] = IF i = 1 THEN tt[i] ELSE h[i - 1] \o tt[i]
  BY <1>1, <1>2 DEF Joins
<1> HIDE DEF n
<1>5. CASE n = 0
  <2>1. h[1] = x
    BY <1>1, <1>4, <1>5
  <2>2. FlattenSeq(ss) = <<>>
    <3>1. ss = <<>>
      BY <1>5 DEF n
    <3> QED BY <3>1, FlattenType, Zenon
  <2> QED BY <1>3, <1>5, <2>1, <2>2 DEF tt
<1>6. CASE n # 0
  <2>1. PICK g : Joins(B, g, ss)
    BY JoinsExist
  <2>2. FlattenSeq(ss) = g[n]
    <3>1. Len(ss) > 0
      BY <1>1, <1>6 DEF n
    <3> QED BY <2>1, <3>1, Flattened, Zenon DEF n
  <2>3. \A i \in 1..n : h[i] = IF i = 1 THEN ss[i] ELSE h[i - 1] \o ss[i]
    BY <1>1, <1>4
  <2>4. \A i \in 1..n : h[i] = g[i]
    <3>1. n \in Nat
      BY <1>1
    <3>2. n <= Len(ss)
      BY <3>1 DEF n
    <3>3. Through(h, ss, n)
      BY <2>3 DEF Through
    <3> QED BY <2>1, <3>1, <3>2, <3>3, JoinsUnique
  <2>5. h[n + 1] = h[n] \o x /\ n \in 1..n
    <3>1. n + 1 \in 1..(n + 1) /\ n + 1 # 1 /\ (n + 1) - 1 = n /\ n \in 1..n
      BY <1>1, <1>6
    <3> QED BY <1>1, <1>4, <3>1
  <2> QED BY <1>3, <2>2, <2>4, <2>5 DEF tt
<1> QED BY <1>5, <1>6

Regroups(s, t, u) == (s \o t) \o u = s \o (t \o u)

\* Joining is associative.
LEMMA Associative ==
  ASSUME NEW B
  PROVE  \A s, t, u \in Seq(B) : Regroups(s, t, u)
BY DEF Regroups

\* The first sequence comes first.
LEMMA FlattenFirst ==
  ASSUME NEW B, NEW ss \in Seq(Seq(B)), ss # <<>>
  PROVE  FlattenSeq(ss) = Head(ss) \o FlattenSeq(Tail(ss))
<1> DEFINE n == Len(ss)
           x == Head(ss)
           tt == Tail(ss)
<1>1. /\ n \in Nat /\ n > 0 /\ n \in 1..n /\ tt \in Seq(Seq(B)) /\ Len(tt) = n - 1 /\ x \in Seq(B) /\ ss[1] = x
      /\ \A i \in 1..(n - 1) : tt[i] = ss[i + 1] /\ tt[i] \in Seq(B)
  OBVIOUS
<1>2. PICK h : Joins(B, h, ss)
  BY JoinsExist
<1>3. FlattenSeq(ss) = h[n]
  BY <1>1, <1>2, Flattened
<1>4. \A i \in 1..n : h[i] = (IF i = 1 THEN ss[i] ELSE h[i - 1] \o ss[i]) /\ h[i] \in Seq(B)
  BY <1>2 DEF Joins
<1> HIDE DEF n, tt, x
<1>5. CASE n = 1
  <2>1. h[1] = x
    BY <1>1, <1>4, <1>5
  <2>2. tt = <<>>
    BY <1>1, <1>5
  <2>3. FlattenSeq(tt) = <<>>
    BY <1>1, <2>2, FlattenType
  <2>4. x \o <<>> = x
    BY <1>1
  <2> QED BY <1>3, <1>5, <2>1, <2>3, <2>4 DEF tt, x
<1>6. CASE n # 1
  <2>1. PICK g : Joins(B, g, tt)
    BY <1>1, JoinsExist
  <2>2. FlattenSeq(tt) = g[n - 1]
    <3>1. Len(tt) > 0
      BY <1>1, <1>6
    <3>2. tt \in Seq(Seq(B)) /\ Len(tt) = n - 1
      BY <1>1
    <3> QED BY <2>1, <3>1, <3>2, Flattened, Zenon
  <2>3. \A i \in 1..(n - 1) : g[i] = (IF i = 1 THEN tt[i] ELSE g[i - 1] \o tt[i]) /\ g[i] \in Seq(B)
    BY <1>1, <2>1 DEF Joins
  <2> DEFINE T == {i \in 1..(n - 1) : h[i + 1] # x \o g[i]}
  <2>4. T = {}
    <3> SUFFICES ASSUME T # {} PROVE FALSE
      OBVIOUS
    <3>1. T \in SUBSET Nat
      OBVIOUS
    <3> HIDE DEF T
    <3>2. PICK k \in T : \A y \in T : k <= y
      BY <3>1, Least
    <3> USE DEF T
    <3>3. k \in 1..(n - 1) /\ h[k + 1] # x \o g[k]
      BY <3>2
    <3>4. k + 1 \in 1..n /\ k + 1 # 1 /\ (k + 1) - 1 = k /\ k \in 1..n
      BY <1>1, <3>3
    <3>5. h[k + 1] = h[k] \o tt[k]
      BY <1>1, <1>4, <3>3, <3>4
    <3>6. CASE k = 1
      <4>1. h[k] = x /\ g[k] = tt[k]
        BY <1>1, <1>4, <2>3, <3>3, <3>4, <3>6
      <4> QED BY <3>3, <3>5, <4>1
    <3>7. CASE k # 1
      <4>1. k - 1 \in 1..(n - 1) /\ ~(k <= k - 1) /\ (k - 1) + 1 = k
        BY <1>1, <3>3, <3>7
      <4>2. h[k] = x \o g[k - 1]
        BY <3>2, <4>1
      <4>3. g[k] = g[k - 1] \o tt[k] /\ g[k - 1] \in Seq(B) /\ tt[k] \in Seq(B)
        BY <1>1, <2>3, <3>3, <3>7, <4>1
      <4>4. (x \o g[k - 1]) \o tt[k] = x \o (g[k - 1] \o tt[k])
        <5>1. x \in Seq(B)
          BY <1>1
        <5>2. Regroups(x, g[k - 1], tt[k])
          BY <4>3, <5>1, Associative, Zenon
        <5> QED BY <5>2, Zenon DEF Regroups
      <4> QED BY <3>3, <3>5, <4>2, <4>3, <4>4
    <3> QED BY <3>6, <3>7
  <2>5. h[n] = x \o g[n - 1]
    <3>1. n - 1 \in 1..(n - 1) /\ (n - 1) + 1 = n
      BY <1>1, <1>6
    <3> QED BY <2>4, <3>1
  <2> QED BY <1>3, <2>2, <2>5 DEF tt, x
<1> QED BY <1>5, <1>6

-----------------------------------------------------------------------------
(* The lines of bytes *)

Ended(s) == IF s # <<>> /\ Last(s) # Eol THEN Append(s, Eol) ELSE s
Cut(t, e) == [k \in 1..Len(e) |-> SubSeq(t, (IF k = 1 THEN 1 ELSE e[k - 1] + 1), e[k])]

\* What an enumeration is, for the provers.
LEMMA EnumeratesIs ==
  ASSUME NEW S, NEW e, Enumerates(e, S)
  PROVE  /\ e \in Seq(Nat) /\ Len(e) \in Nat /\ \A k \in 1..Len(e) : e[k] \in Nat /\ e[k] \in S
         /\ \A x \in S : \E k \in 1..Len(e) : x = e[k]
         /\ \A j, k \in 1..Len(e) : j < k => e[j] < e[k]
BY DEF Enumerates

\* The Eols of a text can be enumerated.
LEMMA EolsEnumerated ==
  ASSUME NEW t \in Seq(Byte)
  PROVE  EolsOf(t) \in SUBSET (1..Len(t)) /\ \E e : Enumerates(e, EolsOf(t))
<1>1. EolsOf(t) \in SUBSET (1..Len(t)) /\ Len(t) \in Nat
  BY DEF EolsOf
<1> QED BY <1>1, SortedExists

\* A text that has its last Eol stays as it is.
LEMMA EndedIs ==
  ASSUME NEW s \in Seq(Byte)
  PROVE  /\ Ended(s) \in Seq(Byte) /\ Ended(Ended(s)) = Ended(s)
         /\ (s = <<>> \/ Last(s) = Eol) => Ended(s) = s
         /\ s # <<>> /\ Last(s) # Eol => Ended(s) = Append(s, Eol)
<1>1. Eol \in Byte
  BY DEF Byte
<1>2. Append(s, Eol) \in Seq(Byte) /\ Append(s, Eol) # <<>> /\ Last(Append(s, Eol)) = Eol
  BY <1>1 DEF Last
<1> QED BY <1>2 DEF Ended

\* The lines are cut at the Eols.
LEMMA LinesIs ==
  ASSUME NEW s \in Seq(Byte), NEW e, Enumerates(e, EolsOf(Ended(s)))
  PROVE  LinesOf(s) = Cut(Ended(s), e)
<1> DEFINE t == Ended(s)
           places == {k \in DOMAIN t : t[k] = Eol}
<1>1. t \in Seq(Byte)
  BY EndedIs
<1>2. places = EolsOf(t)
  <2> HIDE DEF t
  <2>1. DOMAIN t = 1..Len(t)
    BY <1>1
  <2> QED BY <2>1 DEF EolsOf
<1>3. BySize(places) = e
  BY <1>2, BySizeIs, Zenon
<1>4. LinesOf(s) = [k \in DOMAIN BySize(places) |-> SubSeq(t, (IF k = 1 THEN 1 ELSE BySize(places)[k - 1] + 1), BySize(places)[k])]
  BY Zenon DEF LinesOf, Ended
<1>5. DOMAIN e = 1..Len(e)
  BY EnumeratesIs
<1> HIDE DEF t, places
<1>6. LinesOf(s) = [k \in 1..Len(e) |-> SubSeq(t, (IF k = 1 THEN 1 ELSE e[k - 1] + 1), e[k])]
  BY <1>3, <1>4, <1>5, Zenon
<1> QED BY <1>6, Zenon DEF Cut, t

\* The last end; after it there is none.
LEMMA LastEnd ==
  ASSUME NEW t \in Seq(Byte), NEW e, Enumerates(e, EolsOf(t))
  PROVE  /\ \A k \in 1..Len(e) : e[k] \in 1..Len(t) /\ t[e[k]] = Eol /\ (k # 1 => e[k - 1] \in Nat /\ e[k - 1] < e[k])
         /\ Len(e) = 0 => \A k \in 1..Len(t) : t[k] # Eol
         /\ Len(e) > 0 => \A k \in 1..Len(t) : k > e[Len(e)] => t[k] # Eol
         /\ Len(t) > 0 /\ t[Len(t)] = Eol => Len(e) > 0 /\ e[Len(e)] = Len(t)
<1> DEFINE m == Len(e)
<1>1. /\ e \in Seq(Nat) /\ m \in Nat /\ \A k \in 1..m : e[k] \in Nat /\ e[k] \in EolsOf(t)
      /\ \A x \in EolsOf(t) : \E k \in 1..m : x = e[k]
      /\ \A j, k \in 1..m : j < k => e[j] < e[k]
  BY EnumeratesIs, Zenon
<1>2. Len(t) \in Nat /\ \A k : k \in EolsOf(t) <=> k \in 1..Len(t) /\ t[k] = Eol
  BY DEF EolsOf
<1> HIDE DEF m
<1>3. ASSUME NEW k \in 1..m PROVE e[k] \in 1..Len(t) /\ t[e[k]] = Eol /\ (k # 1 => e[k - 1] \in Nat /\ e[k - 1] < e[k])
  <2>1. k # 1 => k - 1 \in 1..m /\ k - 1 < k
    BY <1>1
  <2> QED BY <1>1, <1>2, <2>1
<1>4. ASSUME m > 0, NEW k \in 1..Len(t), t[k] = Eol PROVE k <= e[m]
  <2>1. PICK j \in 1..m : k = e[j]
    BY <1>1, <1>2, <1>4
  <2>2. m \in 1..m /\ (j = m \/ j < m)
    BY <1>1, <1>4
  <2>3. j < m => e[j] < e[m]
    BY <1>1, <2>2
  <2>4. e[m] \in Nat /\ e[j] \in Nat
    BY <1>1, <2>2
  <2> QED BY <2>1, <2>2, <2>3, <2>4
<1>5. m = 0 => \A k \in 1..Len(t) : t[k] # Eol
  BY <1>1, <1>2
<1>6. ASSUME Len(t) > 0, t[Len(t)] = Eol PROVE m > 0 /\ e[m] = Len(t)
  <2>1. Len(t) \in 1..Len(t)
    BY <1>2, <1>6
  <2>2. m > 0
    BY <1>1, <1>5, <1>6, <2>1
  <2>3. Len(t) <= e[m] /\ e[m] \in 1..Len(t)
    <3>1. m \in 1..m
      BY <1>1, <2>2
    <3> QED BY <1>3, <1>4, <1>6, <2>1, <2>2, <3>1
  <2> QED BY <1>2, <2>2, <2>3
<1>7. m > 0 => \A k \in 1..Len(t) : k > e[m] => t[k] # Eol
  <2> SUFFICES ASSUME m > 0, NEW k \in 1..Len(t), k > e[m], t[k] = Eol PROVE FALSE
    OBVIOUS
  <2>1. k <= e[m] /\ e[m] \in Nat /\ k \in Nat
    BY <1>1, <1>4
  <2> QED BY <2>1
<1> QED BY <1>3, <1>5, <1>6, <1>7 DEF m

\* They are sequences of bytes.
LEMMA CutType ==
  ASSUME NEW t \in Seq(Byte), NEW e, Enumerates(e, EolsOf(t))
  PROVE  Cut(t, e) \in Seq(Seq(Byte)) /\ Len(Cut(t, e)) = Len(e)
<1>1. Len(e) \in Nat
  BY EnumeratesIs
<1>2. ASSUME NEW k \in 1..Len(e) PROVE SubSeq(t, (IF k = 1 THEN 1 ELSE e[k - 1] + 1), e[k]) \in Seq(Byte)
  <2>1. e[k] \in 1..Len(t) /\ (k # 1 => e[k - 1] \in Nat)
    BY LastEnd
  <2>2. PICK i \in Nat \ {0}, j \in 1..Len(t) : i = (IF k = 1 THEN 1 ELSE e[k - 1] + 1) /\ j = e[k]
    BY <2>1
  <2>3. SubSeq(t, i, j) \in Seq(Byte)
    <3>1. Len(t) \in Nat /\ \A x \in i..j : t[x] \in Byte
      BY <2>2
    <3> QED BY <3>1, SubSeqProperties
  <2> QED BY <2>2, <2>3
<1> QED BY <1>1, <1>2 DEF Cut

Alike(s, t, i, j, c) == \A x \in i..j : t[x + c] = s[x]

Elementwise(s, t) == Len(s) = Len(t) /\ \A k \in 1..Len(s) : s[k] = t[k]

\* Sequences with the same elements are the same.
LEMMA SameSeq ==
  ASSUME NEW B, NEW s \in Seq(B), NEW t \in Seq(B), Elementwise(s, t)
  PROVE  s = t
BY SeqEqual DEF Elementwise

\* A part that is found at another place.
LEMMA SubSame ==
  ASSUME NEW s \in Seq(Byte), NEW t \in Seq(Byte), NEW i \in Nat, NEW j \in Nat, NEW c \in Nat,
         i >= 1, j <= Len(s), j + c <= Len(t), Alike(s, t, i, j, c),
         NEW p \in Nat, NEW q \in Nat, p = i + c, q = j + c
  PROVE  SubSeq(t, p, q) = SubSeq(s, i, j)
<1> DEFINE u == SubSeq(t, p, q)
           v == SubSeq(s, i, j)
<1>1. /\ SubSeq(s, i, j) \in Seq(Byte)
      /\ Len(SubSeq(s, i, j)) = IF i <= j THEN j - i + 1 ELSE 0
      /\ \A k \in 1..(j - i + 1) : SubSeq(s, i, j)[k] = s[i + k - 1]
  <2>1. \A x \in i..j : s[x] \in Byte
    OBVIOUS
  <2> QED BY <2>1, SubSeqProperties
<1>2. /\ u \in Seq(Byte)
      /\ Len(u) = IF i <= j THEN j - i + 1 ELSE 0
      /\ \A k \in 1..(j - i + 1) : u[k] = t[i + c + k - 1]
  <2>2. \A x \in p..q : t[x] \in Byte
    OBVIOUS
  <2>3. /\ SubSeq(t, p, q) \in Seq(Byte)
        /\ Len(SubSeq(t, p, q)) = IF p <= q THEN q - p + 1 ELSE 0
        /\ \A k \in 1..(q - p + 1) : SubSeq(t, p, q)[k] = t[p + k - 1]
    BY <2>2, SubSeqProperties
  <2>4. (p <= q <=> i <= j) /\ q - p + 1 = j - i + 1
    OBVIOUS
  <2> HIDE DEF u
  <2> QED BY <2>3, <2>4 DEF u
<1>3. ASSUME NEW k \in 1..(j - i + 1) PROVE u[k] = v[k]
  <2>1. PICK x \in i..j : x = i + k - 1
    OBVIOUS
  <2>2. t[x + c] = s[x] /\ x + c = i + c + k - 1
    BY <2>1 DEF Alike
  <2>3. u[k] = t[i + c + k - 1]
    BY <1>2
  <2>4. v[k] = s[i + k - 1]
    BY <1>1
  <2> QED BY <2>1, <2>2, <2>3, <2>4
<1>4. v \in Seq(Byte) /\ u \in Seq(Byte) /\ Elementwise(u, v)
  <2>1. Len(v) = Len(u) /\ \A k \in 1..Len(v) : k \in 1..(j - i + 1)
    <3> HIDE DEF u
    <3>1. Len(v) = IF i <= j THEN j - i + 1 ELSE 0
      BY <1>1
    <3> HIDE DEF v
    <3> QED BY <1>2, <3>1
  <2> QED BY <1>1, <1>2, <1>3, <2>1 DEF Elementwise
<1> HIDE DEF u, v
<1>5. u = v
  BY <1>4, SameSeq, Zenon
<1> QED BY <1>5 DEF u, v

\* The Eols of two texts that are joined.
LEMMA EolsConcat ==
  ASSUME NEW a \in Seq(Byte), NEW b \in Seq(Byte)
  PROVE  EolsOf(a \o b) = EolsOf(a) \cup {Len(a) + x : x \in EolsOf(b)}
<1> DEFINE t == a \o b
<1>1. /\ Len(a) \in Nat /\ Len(b) \in Nat /\ Len(t) = Len(a) + Len(b)
      /\ \A k \in 1..Len(t) : t[k] = IF k <= Len(a) THEN a[k] ELSE b[k - Len(a)]
  OBVIOUS
<1> HIDE DEF t
<1>2. ASSUME NEW k \in EolsOf(t) PROVE k \in EolsOf(a) \cup {Len(a) + x : x \in EolsOf(b)}
  <2>1. k \in 1..Len(t) /\ t[k] = Eol
    BY DEF EolsOf
  <2>2. CASE k <= Len(a)
    BY <1>1, <2>1, <2>2 DEF EolsOf
  <2>3. CASE k > Len(a)
    <3>1. PICK x \in 1..Len(b) : x = k - Len(a)
      BY <1>1, <2>1, <2>3
    <3>2. b[x] = Eol /\ k = Len(a) + x
      BY <1>1, <2>1, <2>3, <3>1
    <3> QED BY <3>2 DEF EolsOf
  <2> QED BY <1>1, <2>1, <2>2, <2>3
<1>3. ASSUME NEW k \in EolsOf(a) PROVE k \in EolsOf(t)
  BY <1>1 DEF EolsOf
<1>4. ASSUME NEW x \in EolsOf(b) PROVE Len(a) + x \in EolsOf(t)
  <2>1. x \in 1..Len(b) /\ b[x] = Eol
    BY DEF EolsOf
  <2>2. PICK k \in 1..Len(t) : k = Len(a) + x
    BY <1>1, <2>1
  <2>3. ~(k <= Len(a)) /\ k - Len(a) = x
    BY <1>1, <2>1, <2>2
  <2>4. t[k] = Eol
    BY <1>1, <2>1, <2>3
  <2> QED BY <2>2, <2>4 DEF EolsOf
<1> QED BY <1>2, <1>3, <1>4 DEF t

\* Where the first part ends in Eol, or is empty, no line has bytes of both.
Whole(a) == a = <<>> \/ Last(a) = Eol
CutsJoin(a, b, e, f) ==
  \E g : Enumerates(g, EolsOf(a \o b)) /\ Cut(a \o b, g) = Cut(a, e) \o Cut(b, f)

\* If the first text is whole, no line spans both.
LEMMA CutConcat ==
  ASSUME NEW a \in Seq(Byte), NEW b \in Seq(Byte), Whole(a),
         NEW e, Enumerates(e, EolsOf(a)), NEW f, Enumerates(f, EolsOf(b))
  PROVE  CutsJoin(a, b, e, f)
<1> DEFINE c == Len(a)
           n == Len(e)
           m == Len(f)
           t == a \o b
           h == [k \in 1..m |-> c + f[k]]
           g == e \o h
<1>1. /\ c \in Nat /\ Len(b) \in Nat /\ t \in Seq(Byte) /\ Len(t) = c + Len(b)
      /\ \A k \in 1..c : t[k] = a[k]
      /\ \A k \in 1..Len(b) : t[k + c] = b[k]
  OBVIOUS
<1>2. e \in Seq(Nat) /\ n \in Nat /\ f \in Seq(Nat) /\ m \in Nat
  BY EnumeratesIs
<1>3. Enumerates(h, {c + x : x \in EolsOf(b)})
  BY <1>1, SortedShift
<1>4. Enumerates(g, EolsOf(t))
  <2>1. \A x \in EolsOf(a), y \in {c + z : z \in EolsOf(b)} : x < y
    BY <1>1 DEF EolsOf
  <2>2. Enumerates(g, EolsOf(a) \cup {c + x : x \in EolsOf(b)})
    <3> HIDE DEF h, c
    <3> QED BY <1>3, <2>1, SortedConcat
  <2> QED BY <2>2, EolsConcat, Zenon
<1>5. h \in Seq(Nat) /\ Len(h) = m /\ \A k \in 1..m : h[k] = c + f[k] /\ f[k] \in Nat
  BY <1>1, <1>2
<1>6. Len(g) = n + m /\ \A k \in 1..(n + m) : g[k] = IF k <= n THEN e[k] ELSE h[k - n]
  <2>1. e \in Seq(Nat) /\ h \in Seq(Nat) /\ Len(e) = n /\ Len(h) = m
    BY <1>2, <1>5
  <2> HIDE DEF h, n, m
  <2> QED BY <2>1, ConcatProperties
<1>7. /\ \A k \in 1..n : e[k] \in 1..c /\ (k # 1 => e[k - 1] \in Nat /\ e[k - 1] < e[k])
      /\ \A k \in 1..m : f[k] \in 1..Len(b) /\ (k # 1 => f[k - 1] \in Nat /\ f[k - 1] < f[k])
      /\ n > 0 => e[n] = c
      /\ n = 0 => c = 0
  <2>1. CASE a = <<>>
    <3>1. c = 0 /\ 1..c = {}
      BY <2>1
    <3>2. \A k \in 1..n : e[k] \in 1..c
      BY LastEnd
    <3>3. n = 0
      BY <1>2, <3>1, <3>2
    <3> HIDE DEF n, m, c
    <3> QED BY <1>2, <3>1, <3>3, LastEnd DEF n, m, c
  <2>2. CASE a # <<>>
    <3>1. Len(a) > 0 /\ a[Len(a)] = Eol
      BY <2>2 DEF Last, Whole
    <3>2. n > 0 /\ e[n] = c
      BY <3>1, LastEnd
    <3>3. \A k \in 1..n : e[k] \in 1..c /\ (k # 1 => e[k - 1] \in Nat /\ e[k - 1] < e[k])
      BY LastEnd
    <3>4. \A k \in 1..m : f[k] \in 1..Len(b) /\ (k # 1 => f[k - 1] \in Nat /\ f[k - 1] < f[k])
      BY LastEnd
    <3> HIDE DEF n, m, c
    <3> QED BY <3>2, <3>3, <3>4
  <2> QED BY <2>1, <2>2
<1> DEFINE A == Cut(a, e)
           B == Cut(b, f)
           G == Cut(t, g)
<1>8. /\ A \in Seq(Seq(Byte)) /\ Len(A) = n /\ \A k \in 1..n : A[k] = SubSeq(a, (IF k = 1 THEN 1 ELSE e[k - 1] + 1), e[k])
      /\ B \in Seq(Seq(Byte)) /\ Len(B) = m /\ \A k \in 1..m : B[k] = SubSeq(b, (IF k = 1 THEN 1 ELSE f[k - 1] + 1), f[k])
      /\ G \in Seq(Seq(Byte)) /\ Len(G) = n + m
      /\ \A k \in 1..(n + m) : G[k] = SubSeq(t, (IF k = 1 THEN 1 ELSE g[k - 1] + 1), g[k])
  <2>1. A \in Seq(Seq(Byte)) /\ Len(A) = n /\ B \in Seq(Seq(Byte)) /\ Len(B) = m
    BY CutType
  <2>2. G \in Seq(Seq(Byte)) /\ Len(G) = n + m
    <3> HIDE DEF g, t
    <3> QED BY <1>1, <1>4, <1>6, CutType
  <2>3. \A k \in 1..n : A[k] = SubSeq(a, (IF k = 1 THEN 1 ELSE e[k - 1] + 1), e[k])
    BY DEF Cut
  <2>4. \A k \in 1..m : B[k] = SubSeq(b, (IF k = 1 THEN 1 ELSE f[k - 1] + 1), f[k])
    BY DEF Cut
  <2>5. \A k \in 1..(n + m) : G[k] = SubSeq(t, (IF k = 1 THEN 1 ELSE g[k - 1] + 1), g[k])
    <3> HIDE DEF g, t, n, m
    <3> QED BY <1>6 DEF Cut
  <2> QED BY <2>1, <2>2, <2>3, <2>4, <2>5
<1> HIDE DEF A, B, G, g, h, t, n, m, c
<1>9. ASSUME NEW k \in 1..n PROVE G[k] = A[k]
  <2>a. e[k] \in 1..c /\ (k # 1 => e[k - 1] \in Nat)
    BY <1>7
  <2>b. PICK i \in Nat \ {0} : i = (IF k = 1 THEN 1 ELSE e[k - 1] + 1)
    BY <2>a
  <2>c. PICK j \in Nat : j = e[k] /\ j <= c
    BY <1>1, <2>a
  <2>1. i \in Nat /\ i >= 1 /\ i = (IF k = 1 THEN 1 ELSE e[k - 1] + 1) /\ j = e[k] /\ j <= c
    BY <2>b, <2>c
  <2>2. g[k] = j /\ (k # 1 => g[k - 1] + 1 = i) /\ (k = 1 => i = 1)
    <3>1. k \in 1..(n + m) /\ k <= n /\ (k # 1 => k - 1 \in 1..(n + m) /\ k - 1 <= n)
      BY <1>2
    <3> QED BY <1>6, <2>1, <3>1
  <2>3. A[k] = SubSeq(a, i, j)
    BY <1>8, <2>1
  <2>4. G[k] = SubSeq(t, i, j)
    <3>1. (IF k = 1 THEN 1 ELSE g[k - 1] + 1) = i
      BY <2>2
    <3>2. k \in 1..(n + m)
      BY <1>2
    <3>3. G[k] = SubSeq(t, (IF k = 1 THEN 1 ELSE g[k - 1] + 1), g[k])
      BY <1>8, <3>2, Zenon
    <3>4. g[k] = j
      BY <2>2
    <3> QED BY <3>1, <3>3, <3>4, Zenon
  <2>5. SubSeq(t, i, j) = SubSeq(a, i, j)
    <3>1. Alike(a, t, i, j, 0)
      BY <1>1, <2>1 DEF Alike
    <3>2. 0 \in Nat /\ j <= Len(a) /\ j + 0 <= Len(t) /\ t \in Seq(Byte) /\ i = i + 0 /\ j = j + 0
      BY <1>1, <2>1 DEF c
    <3>3. i >= 1
      BY <2>1
    <3> QED BY <3>1, <3>2, <3>3, SubSame
  <2> QED BY <2>3, <2>4, <2>5, Zenon
<1>10. ASSUME NEW k \in 1..m PROVE G[n + k] = B[k]
  <2>a. f[k] \in 1..Len(b) /\ (k # 1 => f[k - 1] \in Nat)
    BY <1>7
  <2>b. PICK i \in Nat \ {0} : i = (IF k = 1 THEN 1 ELSE f[k - 1] + 1)
    BY <2>a
  <2>c. PICK j \in Nat : j = f[k] /\ j <= Len(b)
    BY <1>1, <2>a
  <2>1. i \in Nat /\ i >= 1 /\ i = (IF k = 1 THEN 1 ELSE f[k - 1] + 1) /\ j = f[k] /\ j <= Len(b)
    BY <2>b, <2>c
  <2>2. PICK l \in 1..(n + m) : l = n + k
    BY <1>2
  <2>3. g[l] = c + j
    <3>1. ~(l <= n) /\ l - n = k
      BY <1>2, <2>2
    <3> QED BY <1>5, <1>6, <2>1, <3>1
  <2>4. (IF l = 1 THEN 1 ELSE g[l - 1] + 1) = c + i
    <3>1. CASE k = 1 /\ n = 0
      BY <1>1, <1>7, <2>1, <2>2, <3>1
    <3>2. CASE k = 1 /\ n > 0
      <4>1. l # 1 /\ l - 1 = n /\ n \in 1..(n + m) /\ n <= n
        BY <1>2, <2>2, <3>2
      <4>2. g[l - 1] = c
        BY <1>6, <1>7, <3>2, <4>1
      <4> QED BY <1>1, <2>1, <3>2, <4>1, <4>2
    <3>3. CASE k # 1
      <4>1. PICK p \in 1..m : p = k - 1
        BY <1>2, <3>3
      <4>2. l # 1 /\ l - 1 \in 1..(n + m) /\ ~(l - 1 <= n) /\ (l - 1) - n = p
        BY <1>2, <2>2, <3>3, <4>1
      <4>3. g[l - 1] = c + f[p] /\ f[p] \in Nat
        BY <1>5, <1>6, <4>1, <4>2
      <4>4. i = f[p] + 1
        BY <2>1, <3>3, <4>1
      <4>5. g[l - 1] + 1 = c + i
        <5>1. PICK y \in Nat, z \in Nat : y = f[p] /\ z = c
          BY <1>1, <4>3
        <5>2. g[l - 1] = z + y /\ i = y + 1
          BY <4>3, <4>4, <5>1, Zenon
        <5>3. (z + y) + 1 = z + (y + 1)
          OBVIOUS
        <5> QED BY <5>1, <5>2, <5>3, Zenon
      <4>6. l # 1
        BY <4>2
      <4> QED BY <4>5, <4>6, Zenon
    <3> QED BY <1>2, <3>1, <3>2, <3>3
  <2>p. PICK p \in Nat, q \in Nat : p = i + c /\ q = j + c
    BY <1>1
  <2>5. G[l] = SubSeq(t, p, q)
    <3>1. p = c + i /\ q = c + j
      BY <1>1, <2>p
    <3>2. G[l] = SubSeq(t, (IF l = 1 THEN 1 ELSE g[l - 1] + 1), g[l])
      BY <1>8, Zenon
    <3> QED BY <2>3, <2>4, <3>1, <3>2, Zenon
  <2>6. SubSeq(t, p, q) = SubSeq(b, i, j)
    <3>1. ASSUME NEW x \in i..j PROVE t[x + c] = b[x]
      <4>1. x \in 1..Len(b)
        BY <1>1, <2>1
      <4>2. \A y \in 1..Len(b) : t[y + c] = b[y]
        BY <1>1
      <4> QED BY <4>1, <4>2, Zenon
    <3>2. Alike(b, t, i, j, c)
      BY <3>1, Zenon DEF Alike
    <3>3. c \in Nat /\ j <= Len(b) /\ j + c <= Len(t) /\ t \in Seq(Byte)
      BY <1>1, <2>1
    <3>4. i \in Nat /\ j \in Nat /\ i >= 1 /\ b \in Seq(Byte)
      BY <2>1
    <3> HIDE DEF Alike
    <3> QED BY <2>p, <3>2, <3>3, <3>4, SubSame
  <2>7. B[k] = SubSeq(b, i, j)
    <3>1. B[k] = SubSeq(b, (IF k = 1 THEN 1 ELSE f[k - 1] + 1), f[k])
      BY <1>8, Zenon
    <3> QED BY <2>b, <2>c, <3>1, Zenon
  <2> QED BY <2>2, <2>5, <2>6, <2>7, Zenon
<1>11. G = A \o B
  <2> DEFINE C == A \o B
  <2>1. C \in Seq(Seq(Byte)) /\ Len(C) = n + m /\ \A k \in 1..(n + m) : C[k] = IF k <= n THEN A[k] ELSE B[k - n]
    <3>1. A \in Seq(Seq(Byte)) /\ Len(A) = n /\ B \in Seq(Seq(Byte)) /\ Len(B) = m
      BY <1>8
    <3> QED BY <3>1, ConcatProperties
  <2> HIDE DEF C
  <2>2. ASSUME NEW k \in 1..(n + m) PROVE G[k] = C[k]
    <3>1. CASE k <= n
      <4>1. k \in 1..n
        BY <1>2, <3>1
      <4>2. C[k] = A[k]
        BY <2>1, <3>1, Zenon
      <4> QED BY <1>9, <4>1, <4>2, Zenon
    <3>2. CASE ~ (k <= n)
      <4>1. PICK x \in 1..m : k = n + x /\ k - n = x
        <5>1. k - n \in 1..m /\ k = n + (k - n)
          BY <1>2, <3>2
        <5> QED BY <5>1
      <4>2. C[k] = B[x]
        <5>1. C[k] = B[k - n]
          BY <2>1, <3>2, Zenon
        <5> QED BY <4>1, <5>1, Zenon
      <4> QED BY <1>10, <4>1, <4>2, Zenon
    <3> QED BY <3>1, <3>2, Zenon
  <2>3. G \in Seq(Seq(Byte)) /\ Elementwise(G, C)
    <3>1. G \in Seq(Seq(Byte)) /\ Len(G) = n + m
      BY <1>8
    <3> QED BY <2>1, <2>2, <3>1, Zenon DEF Elementwise
  <2>4. G = C
    BY <2>1, <2>3, SameSeq, Zenon
  <2> QED BY <2>4 DEF C
<1> QED BY <1>4, <1>11, Zenon DEF A, B, G, t, CutsJoin

\* Lines are sequences of bytes.
LEMMA LinesType ==
  ASSUME NEW s \in Seq(Byte)
  PROVE  LinesOf(s) \in Seq(Seq(Byte))
<1>1. Ended(s) \in Seq(Byte)
  BY EndedIs
<1>2. PICK e : Enumerates(e, EolsOf(Ended(s)))
  BY <1>1, EolsEnumerated
<1>3. LinesOf(s) = Cut(Ended(s), e)
  BY <1>2, LinesIs
<1>4. Cut(Ended(s), e) \in Seq(Seq(Byte))
  BY <1>1, <1>2, CutType
<1> QED BY <1>3, <1>4, Zenon

\* An empty text has no lines.
LEMMA LinesEmpty == LinesOf(<<>>) = <<>>
<1>1. <<>> \in Seq(Byte) /\ Ended(<<>>) = <<>> /\ Ended(<<>>) \in Seq(Byte)
  <2>1. <<>> \in Seq(Byte)
    OBVIOUS
  <2> QED BY <2>1, Zenon DEF Ended
<1>2. EolsOf(<<>>) = {}
  BY DEF EolsOf
<1>3. PICK e : Enumerates(e, EolsOf(<<>>))
  BY <1>1, EolsEnumerated
<1>4. Len(e) = 0
  <2>1. Len(e) \in Nat /\ \A k \in 1..Len(e) : e[k] \in EolsOf(<<>>)
    BY <1>3, EnumeratesIs
  <2> QED BY <1>2, <2>1
<1>5. LinesOf(<<>>) = Cut(<<>>, e)
  BY <1>1, <1>3, LinesIs, Zenon
<1>6. Cut(<<>>, e) \in Seq(Seq(Byte)) /\ Len(Cut(<<>>, e)) = 0
  BY <1>1, <1>3, <1>4, CutType, Zenon
<1>7. Cut(<<>>, e) = <<>>
  <2> HIDE DEF Cut
  <2> QED BY <1>6
<1> QED BY <1>5, <1>7, Zenon

\* The Eol that is added changes no lines.
LEMMA LinesEnded ==
  ASSUME NEW s \in Seq(Byte)
  PROVE  LinesOf(Ended(s)) = LinesOf(s)
<1>1. Ended(s) \in Seq(Byte) /\ Ended(Ended(s)) = Ended(s)
  BY EndedIs
<1>2. PICK e : Enumerates(e, EolsOf(Ended(s)))
  BY <1>1, EolsEnumerated
<1>3. LinesOf(s) = Cut(Ended(s), e)
  BY <1>2, LinesIs
<1>4. LinesOf(Ended(s)) = Cut(Ended(Ended(s)), e)
  <2>1. Enumerates(e, EolsOf(Ended(Ended(s))))
    BY <1>1, <1>2, Zenon
  <2> QED BY <1>1, <2>1, LinesIs, Zenon
<1> QED BY <1>1, <1>3, <1>4, Zenon

\* It is added at the end of the second text.
LEMMA EndedConcat ==
  ASSUME NEW a \in Seq(Byte), NEW b \in Seq(Byte), Whole(a)
  PROVE  Ended(a \o b) = a \o Ended(b)
<1>1. CASE b = <<>>
  <2>1. a \o b = a
    BY <1>1, ConcatEmptySeq
  <2>2. Ended(a) = a /\ Ended(b) = b
    BY <1>1, EndedIs, Zenon DEF Whole
  <2> QED BY <2>1, <2>2, Zenon
<1>2. CASE b # <<>>
  <2>1. /\ a \o b \in Seq(Byte) /\ a \o b # <<>> /\ Len(b) > 0 /\ Len(a) \in Nat /\ Len(b) \in Nat
        /\ Len(a \o b) = Len(a) + Len(b) /\ (a \o b)[Len(a) + Len(b)] = b[Len(b)]
    BY <1>2
  <2>2. Last(a \o b) = Last(b)
    BY <2>1, Zenon DEF Last
  <2>3. CASE Last(b) = Eol
    <3>1. Ended(a \o b) = a \o b /\ Ended(b) = b
      BY <2>1, <2>2, <2>3, EndedIs, Zenon
    <3> QED BY <3>1, Zenon
  <2>4. CASE Last(b) # Eol
    <3>1. Ended(a \o b) = Append(a \o b, Eol) /\ Ended(b) = Append(b, Eol)
      BY <1>2, <2>1, <2>2, <2>4, EndedIs, Zenon
    <3>2. Append(a \o b, Eol) = a \o Append(b, Eol)
      <4>1. Eol \in Byte
        BY DEF Byte
      <4> QED BY <4>1
    <3> QED BY <3>1, <3>2, Zenon
  <2> QED BY <2>3, <2>4
<1> QED BY <1>1, <1>2

\* The lines of bytes that are whole are not changed by what follows.
LEMMA LinesConcat ==
  ASSUME NEW a \in Seq(Byte), NEW b \in Seq(Byte), Whole(a)
  PROVE  LinesOf(a \o b) = LinesOf(a) \o LinesOf(b)
<1>1. Ended(b) \in Seq(Byte) /\ Ended(a) = a /\ a \o b \in Seq(Byte) /\ Ended(a \o b) = a \o Ended(b)
  <2>1. Ended(b) \in Seq(Byte)
    BY EndedIs
  <2>2. Ended(a) = a
    BY EndedIs DEF Whole
  <2>3. a \o b \in Seq(Byte)
    OBVIOUS
  <2> QED BY <2>1, <2>2, <2>3, EndedConcat
<1>2. PICK e : Enumerates(e, EolsOf(a))
  BY EolsEnumerated
<1>3. PICK f : Enumerates(f, EolsOf(Ended(b)))
  BY <1>1, EolsEnumerated
<1>4. PICK g : Enumerates(g, EolsOf(a \o Ended(b))) /\ Cut(a \o Ended(b), g) = Cut(a, e) \o Cut(Ended(b), f)
  <2>1. Ended(b) \in Seq(Byte)
    BY <1>1
  <2>2. CutsJoin(a, Ended(b), e, f)
    BY <1>2, <1>3, <2>1, CutConcat
  <2> QED BY <2>2, Zenon DEF CutsJoin
<1>5. LinesOf(a) = Cut(a, e)
  BY <1>1, <1>2, LinesIs, Zenon
<1>6. LinesOf(b) = Cut(Ended(b), f)
  BY <1>3, LinesIs, Zenon
<1>7. LinesOf(a \o b) = Cut(a \o Ended(b), g)
  <2>1. Enumerates(g, EolsOf(Ended(a \o b)))
    BY <1>1, <1>4, Zenon
  <2>2. LinesOf(a \o b) = Cut(Ended(a \o b), g)
    BY <1>1, <2>1, LinesIs, Zenon
  <2> QED BY <1>1, <2>2, Zenon
<1> QED BY <1>4, <1>5, <1>6, <1>7, Zenon

\* The lines of files are sequences of bytes.
LEMMA AllLinesType ==
  ASSUME NEW fs \in Seq(Seq(Byte))
  PROVE  AllLinesOf(fs) \in Seq(Seq(Byte)) /\ (fs = <<>> => AllLinesOf(fs) = <<>>)
<1> DEFINE ls == [k \in DOMAIN fs |-> LinesOf(fs[k])]
<1>1. ls \in Seq(Seq(Seq(Byte)))
  <2>1. \A k \in 1..Len(fs) : LinesOf(fs[k]) \in Seq(Seq(Byte))
    BY LinesType
  <2> QED BY <2>1
<1>2. fs = <<>> => ls = <<>>
  OBVIOUS
<1>3. AllLinesOf(fs) = FlattenSeq(ls)
  BY DEF AllLinesOf
<1> HIDE DEF ls
<1> QED BY <1>1, <1>2, <1>3, FlattenType

\* The lines of the first file come first.
LEMMA AllLinesFirst ==
  ASSUME NEW fs \in Seq(Seq(Byte)), fs # <<>>
  PROVE  AllLinesOf(fs) = LinesOf(Head(fs)) \o AllLinesOf(Tail(fs))
<1> DEFINE ls == [k \in DOMAIN fs |-> LinesOf(fs[k])]
           ts == [k \in DOMAIN Tail(fs) |-> LinesOf(Tail(fs)[k])]
<1>1. ls \in Seq(Seq(Seq(Byte))) /\ ls # <<>> /\ Len(ls) = Len(fs) /\ ls[1] = LinesOf(fs[1])
      /\ \A k \in 1..Len(fs) : ls[k] = LinesOf(fs[k])
  <2>1. \A k \in 1..Len(fs) : LinesOf(fs[k]) \in Seq(Seq(Byte))
    BY LinesType
  <2>2. Len(fs) \in Nat /\ DOMAIN fs = 1..Len(fs) /\ 1 \in 1..Len(fs)
    OBVIOUS
  <2>3. ls = [k \in 1..Len(fs) |-> LinesOf(fs[k])]
    BY <2>2, Zenon
  <2>4. ls \in Seq(Seq(Seq(Byte))) /\ Len(ls) = Len(fs) /\ \A k \in 1..Len(fs) : ls[k] = LinesOf(fs[k])
    <3> HIDE DEF ls
    <3> QED BY <2>1, <2>2, <2>3
  <2> HIDE DEF ls
  <2> QED BY <2>2, <2>4
<1>2. AllLinesOf(fs) = FlattenSeq(ls) /\ AllLinesOf(Tail(fs)) = FlattenSeq(ts)
  BY Zenon DEF AllLinesOf
<1>3. Head(ls) = LinesOf(Head(fs))
  <2> HIDE DEF ls
  <2> QED BY <1>1
<1>4. Tail(ls) = ts
  <2>1. /\ Tail(fs) \in Seq(Seq(Byte)) /\ Len(Tail(fs)) = Len(fs) - 1 /\ Len(fs) \in Nat
        /\ \A k \in 1..(Len(fs) - 1) : Tail(fs)[k] = fs[k + 1] /\ k + 1 \in 1..Len(fs)
        /\ DOMAIN Tail(fs) = 1..(Len(fs) - 1)
    OBVIOUS
  <2> DEFINE us == Tail(ls)
  <2>2. us \in Seq(Seq(Seq(Byte))) /\ Len(us) = Len(fs) - 1 /\ \A k \in 1..(Len(fs) - 1) : us[k] = ls[k + 1]
    <3> HIDE DEF ls
    <3> QED BY <1>1
  <2>3. ts = [k \in 1..(Len(fs) - 1) |-> LinesOf(Tail(fs)[k])]
    BY <2>1
  <2> HIDE DEF us, ts
  <2>4. \A k \in 1..(Len(fs) - 1) : us[k] = LinesOf(Tail(fs)[k])
    BY <1>1, <2>1, <2>2
  <2>5. us = [k \in 1..(Len(fs) - 1) |-> us[k]]
    <3>1. us \in [1..Len(us) -> Seq(Seq(Byte))]
      BY <2>2, LenProperties
    <3> QED BY <2>2, <3>1
  <2> QED BY <2>3, <2>4, <2>5 DEF us
<1> HIDE DEF ls, ts
<1>5. FlattenSeq(ls) = Head(ls) \o FlattenSeq(Tail(ls))
  BY <1>1, FlattenFirst, Zenon
<1> QED BY <1>2, <1>3, <1>4, <1>5, Zenon

-----------------------------------------------------------------------------
(* The table of lines *)

EndsOf(table) == [k \in 1..Len(table) |-> table[k].start + table[k].length]
StartOf(table) == IF table = <<>> THEN 0 ELSE Last(table).start + Last(table).length
LinesAt(table, t) ==
  [k \in DOMAIN table |-> SubSeq(t, table[k].start + 1, table[k].start + table[k].length)]

\* What a table is, for the provers.
LEMMA TableIs ==
  ASSUME NEW t \in Seq(Byte), NEW table \in Seq(Line), Tabled(table, t)
  PROVE  /\ Enumerates(EndsOf(table), EolsOf(t)) /\ Len(EndsOf(table)) = Len(table) /\ Len(table) \in Nat
         /\ \A k \in 1..Len(table) :
              /\ EndsOf(table)[k] = table[k].start + table[k].length
              /\ table[k].start \in Nat /\ table[k].length \in Nat
              /\ table[k].start = IF k = 1 THEN 0 ELSE EndsOf(table)[k - 1]
         /\ StartOf(table) = IF Len(table) = 0 THEN 0 ELSE EndsOf(table)[Len(table)]
<1> DEFINE e == EndsOf(table)
           n == Len(table)
<1>1. Enumerates(e, EolsOf(t)) /\ n \in Nat
  BY DEF Tabled, EndsOf
<1>2. \A k \in 1..n : table[k].start \in Nat /\ table[k].length \in Nat
  <2>1. \A k \in 1..n : table[k] \in Line
    OBVIOUS
  <2> QED BY <2>1 DEF Line
<1>3. \A k \in 1..n : e[k] = table[k].start + table[k].length
  BY DEF EndsOf
<1>4. Len(e) = n
  <2>1. \A k \in 1..n : table[k].start + table[k].length \in Nat
    BY <1>2
  <2>2. e \in Seq(Nat) /\ Len(e) = n
    BY <1>1, <2>1 DEF EndsOf
  <2> QED BY <2>2
<1>5. ASSUME NEW k \in 1..n PROVE table[k].start = IF k = 1 THEN 0 ELSE e[k - 1]
  <2>1. table[k].start = IF k = 1 THEN 0 ELSE table[k - 1].start + table[k - 1].length
    BY Zenon DEF Tabled
  <2>2. k # 1 => k - 1 \in 1..n
    BY <1>1
  <2>3. k # 1 => e[k - 1] = table[k - 1].start + table[k - 1].length
    BY <1>3, <2>2, Zenon
  <2> QED BY <2>1, <2>3, Zenon
<1>6. StartOf(table) = IF n = 0 THEN 0 ELSE e[n]
  <2>1. CASE n = 0
    <3>1. table = <<>>
      BY <2>1
    <3>2. StartOf(table) = 0
      BY <3>1, Zenon DEF StartOf
    <3> QED BY <2>1, <3>2
  <2>2. CASE n # 0
    <3>1. table # <<>> /\ n \in 1..n
      BY <1>1, <2>2
    <3>2. e[n] = table[n].start + table[n].length
      BY <1>3, <3>1, Zenon
    <3> QED BY <2>2, <3>1, <3>2, Zenon DEF StartOf, Last
  <2> QED BY <2>1, <2>2
<1> HIDE DEF e, n
<1> QED BY <1>1, <1>2, <1>3, <1>4, <1>5, <1>6 DEF e, n

\* The first line that is not in the table starts after the last Eol.
LEMMA TableStart ==
  ASSUME NEW t \in Seq(Byte), NEW table \in Seq(Line), Tabled(table, t)
  PROVE  /\ StartOf(table) \in 0..Len(t)
         /\ StartOf(table) > 0 => t[StartOf(table)] = Eol
         /\ \A k \in (StartOf(table) + 1)..Len(t) : t[k] # Eol
         /\ table = <<>> <=> StartOf(table) = 0
         /\ StartOf(table) = Len(t) <=> Whole(t)
<1> DEFINE e == EndsOf(table)
           n == Len(table)
           p == StartOf(table)
<1>1. Enumerates(e, EolsOf(t)) /\ Len(e) = n /\ n \in Nat /\ p = IF n = 0 THEN 0 ELSE e[n]
  BY TableIs, Zenon
<1>2. /\ \A k \in 1..n : e[k] \in 1..Len(t) /\ t[e[k]] = Eol
      /\ n = 0 => \A k \in 1..Len(t) : t[k] # Eol
      /\ n > 0 => \A k \in 1..Len(t) : k > e[n] => t[k] # Eol
      /\ Len(t) > 0 /\ t[Len(t)] = Eol => n > 0 /\ e[n] = Len(t)
  BY <1>1, LastEnd
<1>3. Len(t) \in Nat /\ (table = <<>> <=> n = 0) /\ (Whole(t) <=> Len(t) = 0 \/ t[Len(t)] = Eol)
  BY DEF Whole, Last
<1> HIDE DEF e, n, p
<1>4. CASE n = 0
  <2>1. p = 0
    BY <1>1, <1>4
  <2> QED BY <1>2, <1>3, <1>4, <2>1 DEF p
<1>5. CASE n # 0
  <2>1. n \in 1..n /\ n > 0
    BY <1>1, <1>5
  <2>2. p = e[n] /\ p \in 1..Len(t) /\ t[p] = Eol
    BY <1>1, <1>2, <1>5, <2>1
  <2>3. \A k \in (p + 1)..Len(t) : t[k] # Eol
    BY <1>2, <1>3, <2>1, <2>2
  <2>4. p > 0 /\ p \in 0..Len(t) /\ p # 0
    BY <1>3, <2>2
  <2>5. p = Len(t) <=> Len(t) = 0 \/ t[Len(t)] = Eol
    BY <1>2, <1>3, <2>2
  <2> QED BY <1>3, <1>5, <2>2, <2>3, <2>4, <2>5 DEF p
<1> QED BY <1>4, <1>5

\* What is before and after the start of the last line.
LEMMA Split ==
  ASSUME NEW t \in Seq(Byte), NEW p \in 0..Len(t)
  PROVE  /\ SubSeq(t, 1, p) \in Seq(Byte) /\ Len(SubSeq(t, 1, p)) = p
         /\ \A k \in 1..p : SubSeq(t, 1, p)[k] = t[k]
         /\ SubSeq(t, p + 1, Len(t)) \in Seq(Byte) /\ Len(SubSeq(t, p + 1, Len(t))) = Len(t) - p
         /\ \A k \in 1..(Len(t) - p) : SubSeq(t, p + 1, Len(t))[k] = t[p + k]
         /\ t = SubSeq(t, 1, p) \o SubSeq(t, p + 1, Len(t))
<1> DEFINE a == SubSeq(t, 1, p)
           b == SubSeq(t, p + 1, Len(t))
           c == a \o b
           n == Len(t)
<1>1. n \in Nat /\ p \in Nat /\ p <= n /\ \A k \in 1..n : t[k] \in Byte
  OBVIOUS
<1>2. a \in Seq(Byte) /\ Len(a) = p /\ \A k \in 1..p : a[k] = t[k]
  <2>1. \A k \in 1..p : t[k] \in Byte
    BY <1>1
  <2>2. /\ a \in Seq(Byte) /\ Len(a) = IF 1 <= p THEN p - 1 + 1 ELSE 0
        /\ \A k \in 1..(p - 1 + 1) : a[k] = t[1 + k - 1]
    BY <1>1, <2>1, SubSeqProperties
  <2> HIDE DEF a
  <2> QED BY <1>1, <2>2
<1>3. b \in Seq(Byte) /\ Len(b) = n - p /\ \A k \in 1..(n - p) : b[k] = t[p + k]
  <2>1. PICK q \in Nat : q = p + 1
    BY <1>1
  <2>2. \A k \in q..n : t[k] \in Byte
    BY <1>1, <2>1
  <2>3. /\ SubSeq(t, q, n) \in Seq(Byte) /\ Len(SubSeq(t, q, n)) = IF q <= n THEN n - q + 1 ELSE 0
        /\ \A k \in 1..(n - q + 1) : SubSeq(t, q, n)[k] = t[q + k - 1]
    BY <1>1, <2>2, SubSeqProperties
  <2>4. b = SubSeq(t, q, n)
    BY <2>1
  <2> HIDE DEF b, n
  <2> QED BY <1>1, <2>1, <2>3, <2>4
<1> HIDE DEF a, b
<1>4. c \in Seq(Byte) /\ Len(c) = n /\ \A k \in 1..n : c[k] = IF k <= p THEN a[k] ELSE b[k - p]
  <2>1. a \in Seq(Byte) /\ Len(a) = p /\ b \in Seq(Byte) /\ Len(b) = n - p
    BY <1>2, <1>3
  <2>2. c \in Seq(Byte) /\ Len(c) = Len(a) + Len(b)
        /\ \A k \in 1..(Len(a) + Len(b)) : c[k] = IF k <= Len(a) THEN a[k] ELSE b[k - Len(a)]
    BY <2>1, ConcatProperties
  <2>3. p + (n - p) = n
    BY <1>1
  <2> HIDE DEF c, n
  <2> QED BY <2>1, <2>2, <2>3
<1> HIDE DEF c, n
<1>5. ASSUME NEW k \in 1..n PROVE t[k] = c[k]
  <2>1. CASE k <= p
    <3>1. k \in 1..p
      BY <1>1, <2>1
    <3> QED BY <1>2, <1>4, <2>1, <3>1
  <2>2. CASE ~(k <= p)
    <3>1. k - p \in 1..(n - p) /\ p + (k - p) = k
      BY <1>1, <2>2
    <3> QED BY <1>3, <1>4, <2>2, <3>1
  <2> QED BY <2>1, <2>2
<1>6. t = c
  <2>1. Elementwise(t, c)
    BY <1>4, <1>5 DEF Elementwise, n
  <2> QED BY <1>4, <2>1, SameSeq, Zenon
<1> QED BY <1>2, <1>3, <1>6 DEF a, b, c, n

\* The table has the lines of the text before the start of the last one.
LEMMA TableLines ==
  ASSUME NEW t \in Seq(Byte), NEW table \in Seq(Line), Tabled(table, t)
  PROVE  /\ LinesAt(table, t) = LinesOf(SubSeq(t, 1, StartOf(table)))
         /\ Whole(SubSeq(t, 1, StartOf(table)))
<1> DEFINE p == StartOf(table)
           a == SubSeq(t, 1, p)
           e == EndsOf(table)
           n == Len(table)
<1>1. p \in 0..Len(t) /\ (p > 0 => t[p] = Eol) /\ \A k \in (p + 1)..Len(t) : t[k] # Eol
  BY TableStart
<1>2. /\ Enumerates(e, EolsOf(t)) /\ Len(e) = n /\ n \in Nat
      /\ \A k \in 1..n : /\ e[k] = table[k].start + table[k].length
                         /\ table[k].start \in Nat /\ table[k].length \in Nat
                         /\ table[k].start = IF k = 1 THEN 0 ELSE e[k - 1]
  BY TableIs, Zenon
<1> HIDE DEF p, e, n
<1>3. a \in Seq(Byte) /\ Len(a) = p /\ \A k \in 1..p : a[k] = t[k]
  BY <1>1, Split
<1> HIDE DEF a
<1>4. Len(t) \in Nat /\ p \in Nat /\ p <= Len(t)
  BY <1>1
<1>5. Whole(a)
  <2>1. CASE p = 0
    BY <1>3, <2>1 DEF Whole
  <2>2. CASE p # 0
    <3>1. p \in 1..p /\ p > 0
      BY <1>4, <2>2
    <3>2. a[Len(a)] = Eol
      BY <1>1, <1>3, <3>1
    <3> QED BY <3>2, Zenon DEF Whole, Last
  <2> QED BY <2>1, <2>2
<1>6. EolsOf(a) = EolsOf(t)
  <2>1. \A k \in 1..Len(t) : t[k] = Eol => k \in 1..p
    BY <1>1, <1>4
  <2>2. \A k \in 1..p : k \in 1..Len(t)
    BY <1>4
  <2> QED BY <1>3, <2>1, <2>2 DEF EolsOf
<1>7. LinesOf(a) = Cut(a, e)
  <2>1. Ended(a) = a
    BY <1>3, <1>5, EndedIs DEF Whole
  <2>2. Enumerates(e, EolsOf(Ended(a)))
    BY <1>2, <1>6, <2>1, Zenon
  <2>3. LinesOf(a) = Cut(Ended(a), e)
    BY <1>3, <2>2, LinesIs, Zenon
  <2> QED BY <2>1, <2>3, Zenon
<1>8. ASSUME NEW k \in 1..n
      PROVE  SubSeq(t, table[k].start + 1, table[k].start + table[k].length)
               = SubSeq(a, (IF k = 1 THEN 1 ELSE e[k - 1] + 1), e[k])
  <2>1. Enumerates(e, EolsOf(a))
    BY <1>2, <1>6, Zenon
  <2>2. \A x \in 1..Len(e) : e[x] \in 1..Len(a)
    BY <1>3, <2>1, LastEnd
  <2>3. PICK j \in Nat : j = e[k] /\ j <= Len(a)
    BY <1>2, <1>3, <1>4, <2>2
  <2>4. PICK s \in Nat : s = table[k].start
    BY <1>2
  <2>5. PICK i \in Nat : i = s + 1
    BY <2>4
  <2>6. table[k].start + table[k].length = j
    BY <1>2, <2>3
  <2>7. (IF k = 1 THEN 1 ELSE e[k - 1] + 1) = i
    <3>1. k = 1 => s = 0
      BY <1>2, <2>4
    <3>2. k # 1 => s = e[k - 1]
      BY <1>2, <2>4
    <3> QED BY <2>5, <3>1, <3>2
  <2>8. SubSeq(t, i, j) = SubSeq(a, i, j)
    <3>1. Alike(a, t, i, j, 0)
      <4>1. ASSUME NEW x \in i..j PROVE x \in 1..p /\ x + 0 = x
        BY <1>3, <2>3, <2>5
      <4>2. \A x \in i..j : t[x + 0] = a[x]
        BY <1>3, <4>1
      <4> QED BY <4>2, Zenon DEF Alike
    <3>2. i >= 1 /\ 0 \in Nat /\ i = i + 0 /\ j = j + 0 /\ j + 0 <= Len(t) /\ a \in Seq(Byte)
      BY <1>3, <1>4, <2>3, <2>5
    <3> HIDE DEF Alike
    <3> QED BY <2>3, <3>1, <3>2, SubSame
  <2> QED BY <2>3, <2>4, <2>5, <2>6, <2>7, <2>8, Zenon
<1>9. LinesAt(table, t) = Cut(a, e)
  <2>1. DOMAIN table = 1..n
    BY DEF n
  <2>2. LinesAt(table, t) = [k \in 1..n |-> SubSeq(t, table[k].start + 1, table[k].start + table[k].length)]
    BY <2>1, Zenon DEF LinesAt
  <2>3. Cut(a, e) = [k \in 1..n |-> SubSeq(a, (IF k = 1 THEN 1 ELSE e[k - 1] + 1), e[k])]
    BY <1>2, Zenon DEF Cut
  <2> QED BY <1>8, <2>2, <2>3, Zenon
<1> QED BY <1>5, <1>7, <1>9, Zenon DEF a, p

\* The lines of the table come before the lines of what follows it.
LEMMA TableRest ==
  ASSUME NEW t \in Seq(Byte), NEW table \in Seq(Line), Tabled(table, t), NEW r \in Seq(Byte)
  PROVE  /\ LinesOf(t \o r) = LinesAt(table, t) \o LinesOf(SubSeq(t, StartOf(table) + 1, Len(t)) \o r)
         /\ LinesAt(table, t) \in Seq(Seq(Byte))
<1>1. PICK p \in 0..Len(t) : p = StartOf(table)
  BY TableStart
<1>2. PICK a \in Seq(Byte) : a = SubSeq(t, 1, p)
  BY Split
<1>3. PICK b \in Seq(Byte) : b = SubSeq(t, p + 1, Len(t))
  BY Split
<1>4. t = a \o b
  BY <1>2, <1>3, Split
<1>5. LinesAt(table, t) = LinesOf(a) /\ Whole(a)
  BY <1>1, <1>2, TableLines, Zenon
<1>6. b \o r \in Seq(Byte)
  OBVIOUS
<1>7. LinesOf(a \o (b \o r)) = LinesOf(a) \o LinesOf(b \o r)
  BY <1>5, <1>6, LinesConcat
<1>8. (a \o b) \o r = a \o (b \o r)
  OBVIOUS
<1>9. LinesOf(a) \in Seq(Seq(Byte))
  BY LinesType
<1>10. t \o r = a \o (b \o r)
  BY <1>4, <1>8, Zenon
<1> QED BY <1>1, <1>3, <1>5, <1>7, <1>9, <1>10, Zenon

-----------------------------------------------------------------------------
(* Lines that are found *)

Extends(s, t) == Len(s) <= Len(t) /\ \A k \in 1..Len(s) : t[k] = s[k]
NewEols(s, t) == {k \in (Len(s) + 1)..Len(t) : t[k] = Eol}

\* There are no more Eols in what is new than bytes.
LEMMA FewEols ==
  ASSUME NEW s \in Seq(Byte), NEW t \in Seq(Byte), Len(s) <= Len(t)
  PROVE  /\ Cardinality(NewEols(s, t)) \in Nat /\ Cardinality(NewEols(s, t)) <= Len(t) - Len(s)
         /\ Len(t) - 1 > Len(s) /\ t[Len(t) - 1] # Eol =>
              Cardinality(NewEols(s, t)) <= Len(t) - Len(s) - 1
<1>1. PICK a \in Nat, b \in Nat : a = Len(s) /\ b = Len(t) /\ a <= b
  OBVIOUS
<1> DEFINE S == (a + 1)..b
           E == NewEols(s, t)
<1>2. E \subseteq S
  BY <1>1 DEF NewEols
<1>3. IsFiniteSet(S) /\ Cardinality(S) = b - a
  <2>1. PICK c \in Int : c = a + 1
    BY <1>1
  <2>2. IsFiniteSet(c..b) /\ Cardinality(c..b) = IF c > b THEN 0 ELSE b - c + 1
    <3>1. c \in Int /\ b \in Int
      BY <1>1, <2>1
    <3> QED BY <3>1, FS_Interval
  <2> QED BY <1>1, <2>1, <2>2
<1> HIDE DEF E, S
<1>4. IsFiniteSet(E) /\ Cardinality(E) <= b - a /\ Cardinality(E) \in Nat
  <2>1. IsFiniteSet(E) /\ Cardinality(E) <= Cardinality(S)
    BY <1>2, <1>3, FS_Subset
  <2> QED BY <1>3, <2>1, FS_CardinalityType
<1>5. ASSUME b - 1 > a, t[b - 1] # Eol PROVE Cardinality(E) <= b - a - 1
  <2>1. PICK c \in Nat : c = b - 1
    BY <1>1, <1>5
  <2>2. c \in S
    BY <1>1, <1>5, <2>1 DEF S
  <2>3. IsFiniteSet(S \ {c}) /\ Cardinality(S \ {c}) = Cardinality(S) - 1
    BY <1>3, <2>2, FS_RemoveElement
  <2>4. c \notin E
    BY <1>5, <2>1 DEF E, NewEols
  <2>5. Cardinality(E) <= Cardinality(S \ {c})
    <3>1. E \subseteq S \ {c}
      BY <1>2, <2>4
    <3> QED BY <2>3, <3>1, FS_Subset
  <2> QED BY <1>3, <1>4, <2>3, <2>5
<1> QED BY <1>1, <1>4, <1>5 DEF E

\* What NewLines finds.
LEMMA NewLinesAre ==
  ASSUME text \in Seq(Byte), lines \in Seq(Line), Tabled(lines, text), NEW t \in Seq(Byte), Extends(text, t),
         NEW f, Enumerates(f, NewEols(text, t))
  PROVE  /\ NewLines(t) \in Seq(Line) /\ Len(NewLines(t)) = Len(f)
         /\ \A k \in 1..Len(f) : /\ NewLines(t)[k].start = IF k = 1 THEN StartOf(lines) ELSE f[k - 1]
                                 /\ NewLines(t)[k].start + NewLines(t)[k].length = f[k]
<1> DEFINE S == {k \in (Len(text) + 1)..Len(t) : t[k] = Eol}
           m == Len(f)
           ls == NewLines(t)
<1>1. BySize(S) = f
  <2>1. Enumerates(f, S)
    BY DEF NewEols
  <2> QED BY <2>1, BySizeIs, Zenon
<1>2. f \in Seq(Nat) /\ m \in Nat /\ (\A k \in 1..m : f[k] \in Nat /\ f[k] \in S) /\ \A j, k \in 1..m : j < k => f[j] < f[k]
  <2>1. Enumerates(f, S)
    BY DEF NewEols
  <2> HIDE DEF S
  <2> QED BY <2>1, EnumeratesIs
<1>3. ls = [k \in DOMAIN BySize(S) |-> [start  |-> IF k = 1 THEN line_start ELSE BySize(S)[k - 1],
                                        length |-> BySize(S)[k] - (IF k = 1 THEN line_start ELSE BySize(S)[k - 1])]]
  BY DEF NewLines
<1>4. line_start = StartOf(lines)
  BY Zenon DEF line_start, StartOf
<1>5. DOMAIN f = 1..m
  BY <1>2
<1> HIDE DEF S, ls, m
<1>6. ls = [k \in 1..m |-> [start  |-> IF k = 1 THEN StartOf(lines) ELSE f[k - 1],
                            length |-> f[k] - (IF k = 1 THEN StartOf(lines) ELSE f[k - 1])]]
  BY <1>1, <1>3, <1>4, <1>5, Zenon
<1>7. PICK p \in Nat : p = StartOf(lines) /\ p <= Len(text)
  <2>1. StartOf(lines) \in 0..Len(text) /\ Len(text) \in Nat
    BY TableStart
  <2> QED BY <2>1
<1>8. ASSUME NEW k \in 1..m
      PROVE  \E x, y \in Nat : /\ x = (IF k = 1 THEN StartOf(lines) ELSE f[k - 1])
                               /\ y = f[k] /\ x < y
  <2>1. PICK y \in Nat : y = f[k] /\ y > Len(text)
    <3>1. f[k] \in (Len(text) + 1)..Len(t) /\ f[k] \in Nat
      BY <1>2 DEF S
    <3> QED BY <3>1
  <2>2. CASE k = 1
    BY <1>7, <2>1, <2>2
  <2>3. CASE k # 1
    <3>1. k - 1 \in 1..m /\ k - 1 < k
      BY <1>2, <2>3
    <3>2. f[k - 1] < f[k] /\ f[k - 1] \in Nat
      BY <1>2, <3>1
    <3> QED BY <2>1, <2>3, <3>2
  <2> QED BY <2>2, <2>3
<1>9. ASSUME NEW k \in 1..m
      PROVE  /\ ls[k] \in Line
             /\ ls[k].start = IF k = 1 THEN StartOf(lines) ELSE f[k - 1]
             /\ ls[k].start + ls[k].length = f[k]
  <2>1. PICK x \in Nat, y \in Nat : /\ x = (IF k = 1 THEN StartOf(lines) ELSE f[k - 1])
                                    /\ y = f[k] /\ x < y
    BY <1>8
  <2>2. ls[k] = [start |-> x, length |-> y - x]
    BY <1>6, <2>1, Zenon
  <2>3. y - x \in Nat /\ x + (y - x) = y
    <3>1. x < y
      BY <2>1
    <3> QED BY <3>1
  <2>4. ls[k] \in Line /\ ls[k].start = x /\ ls[k].length = y - x
    BY <2>2, <2>3 DEF Line
  <2> QED BY <2>1, <2>3, <2>4
<1>10. ls \in Seq(Line) /\ Len(ls) = m
  <2>1. ls = [k \in 1..m |-> ls[k]]
    BY <1>6
  <2>2. ls \in [1..m -> Line]
    BY <1>9, <2>1
  <2> QED BY <1>2, <2>2
<1> QED BY <1>9, <1>10 DEF ls, m

\* The search of fillbuf extends the table to the new text.
LEMMA TableGrows ==
  ASSUME text \in Seq(Byte), lines \in Seq(Line), Tabled(lines, text), NEW t \in Seq(Byte), Extends(text, t)
  PROVE  /\ lines \o NewLines(t) \in Seq(Line) /\ Tabled(lines \o NewLines(t), t)
         /\ Len(lines \o NewLines(t)) = Len(lines) + Cardinality(NewEols(text, t))
<1>1. PICK s \in Seq(Byte) : s = text
  OBVIOUS
<1>2. PICK old \in Seq(Line) : old = lines
  OBVIOUS
<1>3. NewEols(text, t) \in SUBSET (1..Len(t)) /\ Len(t) \in Nat
  BY DEF NewEols
<1>4. PICK f : Enumerates(f, NewEols(text, t))
  BY <1>3, SortedExists
<1>5. PICK new : new = NewLines(t)
  OBVIOUS
<1> DEFINE e == EndsOf(old)
           n == Len(old)
           m == Len(f)
           all == old \o new
<1>6. /\ new \in Seq(Line) /\ Len(new) = m
      /\ \A k \in 1..m : /\ new[k].start = IF k = 1 THEN StartOf(old) ELSE f[k - 1]
                         /\ new[k].start + new[k].length = f[k]
  BY <1>2, <1>4, <1>5, NewLinesAre
<1>7. Cardinality(NewEols(text, t)) = m
  BY <1>4, SortedCardinality
<1>8. Tabled(old, s)
  BY <1>1, <1>2
<1>9. /\ Enumerates(e, EolsOf(s)) /\ Len(e) = n /\ n \in Nat
      /\ \A k \in 1..n : /\ e[k] = old[k].start + old[k].length
                         /\ old[k].start = IF k = 1 THEN 0 ELSE e[k - 1]
      /\ StartOf(old) = IF n = 0 THEN 0 ELSE e[n]
  BY <1>8, TableIs, Zenon
<1>10. f \in Seq(Nat) /\ m \in Nat /\ e \in Seq(Nat)
  BY <1>4, <1>9, EnumeratesIs, Zenon
<1> HIDE DEF e, n, m
<1>11. all \in Seq(Line) /\ Len(all) = n + m /\ \A k \in 1..(n + m) : all[k] = IF k <= n THEN old[k] ELSE new[k - n]
  <2>1. Len(old) = n
    BY DEF n
  <2> HIDE DEF all
  <2>2. all = old \o new
    BY DEF all
  <2>3. old \in Seq(Line) /\ new \in Seq(Line) /\ Len(new) = m
    BY <1>6
  <2> QED BY <2>1, <2>2, <2>3, ConcatProperties
<1> DEFINE g == e \o f
<1>12. Len(g) = n + m /\ \A k \in 1..(n + m) : g[k] = IF k <= n THEN e[k] ELSE f[k - n]
  <2>1. Len(e) = n /\ Len(f) = m
    BY <1>9 DEF m
  <2> HIDE DEF g
  <2>2. g = e \o f
    BY DEF g
  <2> QED BY <1>10, <2>1, <2>2, ConcatProperties
<1>13. Enumerates(g, EolsOf(t))
  <2>1. \A x \in EolsOf(s), y \in NewEols(text, t) : x < y
    BY <1>1 DEF EolsOf, NewEols
  <2>2. EolsOf(s) \cup NewEols(text, t) = EolsOf(t)
    BY <1>1 DEF EolsOf, NewEols, Extends
  <2>3. Enumerates(g, EolsOf(s) \cup NewEols(text, t))
    BY <1>4, <1>9, <2>1, SortedConcat
  <2> QED BY <2>2, <2>3, Zenon
<1> HIDE DEF g, all
<1>14. ASSUME NEW k \in 1..(n + m)
       PROVE  /\ all[k].start + all[k].length = g[k]
              /\ all[k].start = IF k = 1 THEN 0 ELSE g[k - 1]
  <2>1. CASE k <= n
    <3>1. k \in 1..n /\ (k # 1 => k - 1 \in 1..(n + m) /\ k - 1 <= n)
      BY <1>9, <1>10, <2>1
    <3>2. all[k] = old[k] /\ g[k] = e[k] /\ (k # 1 => g[k - 1] = e[k - 1])
      BY <1>11, <1>12, <2>1, <3>1, Zenon
    <3>3. old[k].start + old[k].length = e[k] /\ old[k].start = IF k = 1 THEN 0 ELSE e[k - 1]
      BY <1>9, <3>1, Zenon
    <3> QED BY <3>2, <3>3, Zenon
  <2>2. CASE ~ (k <= n)
    <3>1. PICK x \in 1..m : x = k - n
      BY <1>9, <1>10, <2>2
    <3>2. all[k] = new[x] /\ g[k] = f[x]
      BY <1>11, <1>12, <2>2, <3>1, Zenon
    <3>3. new[x].start + new[x].length = f[x] /\ new[x].start = IF x = 1 THEN StartOf(old) ELSE f[x - 1]
      BY <1>6, Zenon
    <3>4. (IF x = 1 THEN StartOf(old) ELSE f[x - 1]) = IF k = 1 THEN 0 ELSE g[k - 1]
      <4>1. CASE x = 1 /\ n = 0
        <5>1. k = 1
          BY <1>9, <3>1, <4>1
        <5> QED BY <1>9, <4>1, <5>1
      <4>2. CASE x = 1 /\ n # 0
        <5>1. k # 1 /\ k - 1 = n /\ n \in 1..(n + m) /\ n <= n
          BY <1>9, <1>10, <3>1, <4>2
        <5>2. g[k - 1] = e[n]
          BY <1>12, <5>1, Zenon
        <5> QED BY <1>9, <4>2, <5>1, <5>2
      <4>3. CASE x # 1
        <5>1. k # 1 /\ k - 1 \in 1..(n + m) /\ ~(k - 1 <= n) /\ (k - 1) - n = x - 1
          BY <1>9, <1>10, <3>1, <4>3
        <5>2. g[k - 1] = f[x - 1]
          BY <1>12, <5>1, Zenon
        <5> QED BY <4>3, <5>1, <5>2
      <4> QED BY <4>1, <4>2, <4>3
    <3> QED BY <3>2, <3>3, <3>4, Zenon
  <2> QED BY <2>1, <2>2
<1>15. Tabled(all, t)
  <2> DEFINE h == [k \in 1..Len(all) |-> all[k].start + all[k].length]
  <2>1. h = g
    <3>1. g \in Seq(Nat)
      BY <1>13, EnumeratesIs
    <3>2. g = [k \in 1..(n + m) |-> g[k]]
      BY <1>12, <3>1
    <3>3. h = [k \in 1..(n + m) |-> all[k].start + all[k].length]
      BY <1>11, Zenon
    <3> QED BY <1>14, <3>2, <3>3, Zenon
  <2>2. ASSUME NEW k \in 1..Len(all)
        PROVE  all[k].start = IF k = 1 THEN 0 ELSE all[k - 1].start + all[k - 1].length
    <3>1. k \in 1..(n + m)
      BY <1>11
    <3>2. k # 1 => k - 1 \in 1..(n + m)
      BY <1>9, <1>10, <3>1
    <3>3. k # 1 => all[k - 1].start + all[k - 1].length = g[k - 1]
      BY <1>14, <3>2
    <3>4. all[k].start = IF k = 1 THEN 0 ELSE g[k - 1]
      BY <1>14, <3>1
    <3> QED BY <3>3, <3>4, Zenon
  <2>3. Enumerates(h, EolsOf(t))
    BY <1>13, <2>1, Zenon
  <2> QED BY <2>2, <2>3, Zenon DEF Tabled
<1>16. all = lines \o NewLines(t) /\ n = Len(lines)
  BY <1>2, <1>5, Zenon DEF all, n
<1> QED BY <1>7, <1>11, <1>15, <1>16, Zenon

-----------------------------------------------------------------------------
(* The size of the buffer *)

Enough(size, f, most, lb) ==
  LET worst_case == Len(f) * (lb + 1) + 1
  IN IF size = most \/ Minus(most, size) <= worst_case THEN most ELSE size + worst_case

\* The sizes for the subsets of 1..k, by their greatest elements.
Enoughs(k, g, fs, most, lb) ==
  \A s \in SUBSET (1..k) : g[s] = IF s = {} THEN lb + 2 ELSE Enough(g[s \ {Max(s)}], fs[Max(s)], most, lb)

\* One file more makes a size greater by its worst case, or the bound.
LEMMA EnoughType ==
  ASSUME NEW size \in Nat, NEW f \in Seq(Byte), NEW most \in Nat, NEW lb \in Nat
  PROVE  /\ Enough(size, f, most, lb) \in Nat
         /\ Enough(size, f, most, lb) # most => /\ size # most
                                                /\ Enough(size, f, most, lb) = size + (Len(f) * (lb + 1) + 1)
<1>1. PICK w \in Nat : w = Len(f) * (lb + 1) + 1
  <2>1. Len(f) \in Nat /\ lb + 1 \in Nat
    OBVIOUS
  <2>2. \A x, y \in Nat : x * y + 1 \in Nat
    OBVIOUS
  <2> QED BY <2>1, <2>2
<1>2. Enough(size, f, most, lb) = IF size = most \/ Minus(most, size) <= w THEN most ELSE size + w
  BY <1>1, Zenon DEF Enough
<1>3. size + w \in Nat
  OBVIOUS
<1>4. CASE size = most \/ Minus(most, size) <= w
  <2>1. Enough(size, f, most, lb) = most
    BY <1>2, <1>4, Zenon
  <2> QED BY <2>1, Zenon
<1>5. CASE ~ (size = most \/ Minus(most, size) <= w)
  <2>1. Enough(size, f, most, lb) = size + w /\ size # most
    BY <1>2, <1>5, Zenon
  <2> QED BY <1>1, <1>3, <2>1, Zenon
<1> QED BY <1>4, <1>5, Zenon

\* The fold over the files can be evaluated.
LEMMA EnoughsExist ==
  ASSUME NEW fs \in Seq(Seq(Byte)), NEW most \in Nat, NEW lb \in Nat
  PROVE  \E g \in [SUBSET (1..Len(fs)) -> Nat] : Enoughs(Len(fs), g, fs, most, lb)
<1> DEFINE n == Len(fs)
           Some(k) == \E g \in [SUBSET (1..k) -> Nat] : Enoughs(k, g, fs, most, lb)
           T == {k \in Nat : k <= n /\ ~ Some(k)}
<1>a. n \in Nat /\ \A k \in 1..n : fs[k] \in Seq(Byte)
  OBVIOUS
<1> HIDE DEF n
<1>1. CASE T = {}
  <2> HIDE DEF Some
  <2>1. Some(n)
    BY <1>a, <1>1
  <2> QED BY <2>1 DEF Some, n
<1>2. CASE T # {}
  <2>1. T \in SUBSET Nat
    OBVIOUS
  <2> HIDE DEF T
  <2>2. PICK k \in T : \A y \in T : k <= y
    BY <1>2, <2>1, Least
  <2> USE DEF T
  <2>3. k \in Nat /\ k <= n /\ ~ \E g \in [SUBSET (1..k) -> Nat] : Enoughs(k, g, fs, most, lb)
    BY <2>2
  <2>4. CASE k = 0
    <3> DEFINE g == [s \in SUBSET (1..k) |-> lb + 2]
    <3>1. g \in [SUBSET (1..k) -> Nat]
      OBVIOUS
    <3>2. \A s \in SUBSET (1..k) : s = {} /\ g[s] = lb + 2
      BY <2>4
    <3>3. Enoughs(k, g, fs, most, lb)
      BY <3>2 DEF Enoughs
    <3> QED BY <2>3, <3>1, <3>3
  <2>5. CASE k # 0
    <3>1. k - 1 \in Nat /\ k - 1 <= n /\ ~(k <= k - 1) /\ k \in 1..n
      BY <1>a, <2>3, <2>5
    <3>2. PICK h \in [SUBSET (1..(k - 1)) -> Nat] : Enoughs(k - 1, h, fs, most, lb)
      BY <2>2, <3>1
    <3> DEFINE g == [s \in SUBSET (1..k) |-> IF k \in s THEN Enough(h[s \ {k}], fs[k], most, lb) ELSE h[s]]
    <3>3. \A s \in SUBSET (1..k) : s \ {k} \in SUBSET (1..(k - 1)) /\ (k \notin s => s \in SUBSET (1..(k - 1)))
      BY <2>3, <2>5
    <3>4. \A s \in SUBSET (1..k) : Enough(h[s \ {k}], fs[k], most, lb) \in Nat
      <4> TAKE s \in SUBSET (1..k)
      <4>1. h[s \ {k}] \in Nat /\ fs[k] \in Seq(Byte)
        BY <1>a, <3>1, <3>2, <3>3
      <4> QED BY <4>1, EnoughType
    <3>5. g \in [SUBSET (1..k) -> Nat]
      BY <3>2, <3>3, <3>4
    <3>6. ASSUME NEW s \in SUBSET (1..k)
          PROVE  g[s] = IF s = {} THEN lb + 2 ELSE Enough(g[s \ {Max(s)}], fs[Max(s)], most, lb)
      <4>1. CASE k \in s
        <5>1. Max(s) \in s /\ \A y \in s : Max(s) >= y
          BY <2>3, <4>1, MaxIs
        <5>2. Max(s) \in 1..k /\ Max(s) >= k
          BY <4>1, <5>1
        <5>3. Max(s) = k
          BY <2>3, <5>2
        <5>4. s \ {k} \in SUBSET (1..k) /\ k \notin s \ {k}
          OBVIOUS
        <5>5. g[s \ {k}] = h[s \ {k}] /\ g[s] = Enough(h[s \ {k}], fs[k], most, lb) /\ s # {}
          BY <4>1, <5>4
        <5> HIDE DEF g
        <5> QED BY <5>3, <5>5
      <4>2. CASE k \notin s /\ s # {}
        <5>1. s \in SUBSET (1..(k - 1)) /\ Max(s) \in s
          BY <2>3, <3>3, <4>2, MaxIs
        <5>2. h[s] = Enough(h[s \ {Max(s)}], fs[Max(s)], most, lb)
          BY <3>2, <4>2, <5>1 DEF Enoughs
        <5>3. s \ {Max(s)} \in SUBSET (1..k) /\ k \notin s \ {Max(s)}
          BY <4>2
        <5>4. g[s] = h[s] /\ g[s \ {Max(s)}] = h[s \ {Max(s)}]
          BY <4>2, <5>3
        <5> HIDE DEF g
        <5> QED BY <4>2, <5>2, <5>4
      <4>3. CASE s = {}
        <5>1. h[s] = lb + 2
          BY <3>2, <4>3 DEF Enoughs
        <5> QED BY <4>3, <5>1
      <4> QED BY <4>1, <4>2, <4>3
    <3>7. Enoughs(k, g, fs, most, lb)
      <4> HIDE DEF g
      <4> QED BY <3>6 DEF Enoughs
    <3> HIDE DEF g
    <3> QED BY <2>3, <3>5, <3>7
  <2> QED BY <2>4, <2>5
<1> QED BY <1>1, <1>2

\* size[k] is the size for the first k files.
SizesTo(size, fs, most, lb) ==
  /\ size \in [0..Len(fs) -> Nat] /\ size[0] = lb + 2
  /\ \A k \in 1..Len(fs) : size[k] = Enough(size[k - 1], fs[k], most, lb)

\* sort_buffer_size goes through the sizes, file after file.
LEMMA BufferSize ==
  ASSUME NEW fs \in Seq(Seq(Byte)), NEW most \in Nat, NEW lb \in Nat
  PROVE  \E size : SizesTo(size, fs, most, lb) /\ sort_buffer_size(fs, most, lb) = size[Len(fs)]
<1> DEFINE n == Len(fs)
           D == DOMAIN fs
           step(h) == [s \in SUBSET D |-> IF s = {} THEN lb + 2 ELSE Enough(h[s \ {Max(s)}], fs[Max(s)], most, lb)]
           f == CHOOSE h : h = step(h)
<1>1. n \in Nat /\ D = 1..n /\ \A k \in 1..n : fs[k] \in Seq(Byte)
  OBVIOUS
<1>2. PICK g \in [SUBSET (1..n) -> Nat] : Enoughs(n, g, fs, most, lb)
  BY EnoughsExist
<1>3. g = step(g)
  BY <1>1, <1>2 DEF Enoughs
<1>4. f = step(f)
  <2> HIDE DEF step
  <2> QED BY <1>3, Zenon
<1>5. \A s \in SUBSET D : f[s] = IF s = {} THEN lb + 2 ELSE Enough(f[s \ {Max(s)}], fs[Max(s)], most, lb)
  <2> HIDE DEF f
  <2> QED BY <1>4
<1>6. sort_buffer_size(fs, most, lb) = f[D]
  BY Zenon DEF sort_buffer_size, FoldLeft, MapThenFoldSet, Enough
<1> HIDE DEF f, n, D, step
<1>7. ASSUME NEW k \in 1..n
      PROVE  1..k \in SUBSET D /\ 1..k # {} /\ (1..k) \ {Max(1..k)} = 1..(k - 1) /\ Max(1..k) = k
  <2>1. k \in Nat /\ 1..k \in SUBSET (1..k) /\ k \in 1..k
    BY <1>1
  <2>2. Max(1..k) \in 1..k /\ \A y \in 1..k : Max(1..k) >= y
    BY <2>1, MaxIs
  <2>3. PICK m \in 1..k : m = Max(1..k)
    BY <2>2
  <2>4. m >= k
    BY <2>1, <2>2, <2>3
  <2>5. m = k
    BY <2>1, <2>4
  <2>6. (1..k) \ {k} = 1..(k - 1)
    BY <2>1
  <2> QED BY <1>1, <2>1, <2>3, <2>5, <2>6
<1> DEFINE size == [k \in 0..n |-> f[1..k]]
<1>8. f[1..0] = lb + 2
  <2>1. 1..0 = {} /\ 1..0 \in SUBSET D
    OBVIOUS
  <2> QED BY <1>5, <2>1
<1>9. ASSUME NEW k \in 1..n PROVE f[1..k] = Enough(f[1..(k - 1)], fs[k], most, lb)
  BY <1>5, <1>7
<1>10. \A k \in 0..n : f[1..k] \in Nat
  <2> DEFINE T == {k \in Nat : k <= n /\ f[1..k] \notin Nat}
  <2>1. CASE T = {}
    BY <1>1, <2>1
  <2>2. CASE T # {}
    <3>1. T \in SUBSET Nat
      OBVIOUS
    <3> HIDE DEF T
    <3>2. PICK k \in T : \A y \in T : k <= y
      BY <2>2, <3>1, Least
    <3> USE DEF T
    <3>3. k \in Nat /\ k <= n /\ f[1..k] \notin Nat
      BY <3>2
    <3>4. k # 0
      BY <1>8, <3>3
    <3>5. k \in 1..n /\ k - 1 \in Nat /\ k - 1 <= n /\ ~(k <= k - 1)
      BY <1>1, <3>3, <3>4
    <3>6. f[1..(k - 1)] \in Nat
      BY <3>2, <3>5
    <3>7. Enough(f[1..(k - 1)], fs[k], most, lb) \in Nat
      BY <1>1, <3>5, <3>6, EnoughType
    <3> QED BY <1>9, <3>3, <3>5, <3>7
  <2> QED BY <2>1, <2>2
<1>11. size \in [0..n -> Nat] /\ size[0] = lb + 2 /\ size[n] = f[1..n]
  <2>1. 0 \in 0..n /\ n \in 0..n
    BY <1>1
  <2> QED BY <1>8, <1>10, <2>1
<1>12. ASSUME NEW k \in 1..n PROVE size[k] = Enough(size[k - 1], fs[k], most, lb)
  <2>1. k \in 0..n /\ k - 1 \in 0..n
    BY <1>1
  <2>2. size[k] = f[1..k] /\ size[k - 1] = f[1..(k - 1)]
    BY <2>1
  <2> HIDE DEF size
  <2> QED BY <1>9, <2>2, Zenon
<1> HIDE DEF size
<1>13. SizesTo(size, fs, most, lb)
  BY <1>11, <1>12, Zenon DEF SizesTo, n
<1>14. sort_buffer_size(fs, most, lb) = size[Len(fs)]
  BY <1>1, <1>6, <1>11, Zenon DEF n
<1> QED BY <1>13, <1>14, Zenon

\* A size that is not the bound is the sum.
LEMMA SizedSums ==
  ASSUME NEW fs \in Seq(Seq(Byte)), NEW most \in Nat, NEW lb \in Nat,
         NEW size, SizesTo(size, fs, most, lb), size[Len(fs)] # most
  PROVE  \A k \in 1..Len(fs) : size[k] = size[k - 1] + (Len(fs[k]) * (lb + 1) + 1)
<1> DEFINE n == Len(fs)
<1>1. n \in Nat /\ \A k \in 1..n : fs[k] \in Seq(Byte)
  OBVIOUS
<1>2. /\ size \in [0..n -> Nat] /\ \A k \in 1..n : size[k] = Enough(size[k - 1], fs[k], most, lb)
  BY DEF SizesTo
<1>3. size[n] # most
  OBVIOUS
<1> HIDE DEF n
<1>4. ASSUME NEW k \in 1..n, size[k] # most
      PROVE  size[k - 1] # most /\ size[k] = size[k - 1] + (Len(fs[k]) * (lb + 1) + 1)
  <2>1. size[k - 1] \in Nat /\ fs[k] \in Seq(Byte)
    <3>1. k - 1 \in 0..n
      BY <1>1
    <3> QED BY <1>1, <1>2, <3>1
  <2>2. PICK s \in Nat, f \in Seq(Byte) : s = size[k - 1] /\ f = fs[k]
    BY <2>1
  <2>3. size[k] = Enough(s, f, most, lb)
    BY <1>2, <2>2, Zenon
  <2>4. s # most /\ Enough(s, f, most, lb) = s + (Len(f) * (lb + 1) + 1)
    BY <1>4, <2>3, EnoughType
  <2> QED BY <2>2, <2>3, <2>4, Zenon
<1>5. \A k \in 0..n : size[k] # most
  <2> DEFINE T == {j \in Nat : j <= n /\ size[n - j] = most}
  <2>1. CASE T = {}
    <3>1. ASSUME NEW k \in 0..n PROVE n - k \in Nat /\ n - k <= n /\ n - (n - k) = k
      BY <1>1
    <3> QED BY <2>1, <3>1
  <2>2. CASE T # {}
    <3>1. T \in SUBSET Nat
      OBVIOUS
    <3> HIDE DEF T
    <3>2. PICK j \in T : \A y \in T : j <= y
      BY <2>2, <3>1, Least
    <3> USE DEF T
    <3>3. j \in Nat /\ j <= n /\ size[n - j] = most
      BY <3>2
    <3>4. j # 0
      <4>1. n - 0 = n
        BY <1>1
      <4> QED BY <1>3, <3>3, <4>1
    <3>5. PICK k \in 1..n : k = n - (j - 1) /\ k - 1 = n - j
      BY <1>1, <3>3, <3>4
    <3>6. j - 1 \in Nat /\ j - 1 <= n /\ ~(j <= j - 1)
      BY <1>1, <3>3, <3>4
    <3>7. size[k] # most
      BY <3>2, <3>5, <3>6
    <3> QED BY <1>4, <3>3, <3>5, <3>7
  <2> QED BY <2>1, <2>2
<1>6. \A k \in 1..n : k \in 0..n
  BY <1>1
<1> QED BY <1>4, <1>5, <1>6 DEF n

-----------------------------------------------------------------------------
(* The invariant and the state *)

\* What the assumption says of the inputs.
LEMMA InputsType ==
  /\ Inputs \subseteq Seq(Seq(Byte)) /\ Bounds \subseteq Nat \ {0} /\ LineBytes \subseteq Nat
  /\ LineSize \in Nat \ {0}
<1>1. Inputs \subseteq Seq(Seq(InputByte))
  BY BufferAssumption, Zenon DEF InputByte
<1>2. \A f \in Seq(InputByte) : f \in Seq(Byte)
  <2>1. InputByte \subseteq Byte
    BY DEF Byte
  <2> HIDE DEF InputByte, Byte
  <2> QED BY <2>1
<1>3. \A fs \in Seq(Seq(InputByte)) : fs \in Seq(Seq(Byte))
  BY <1>2
<1>4. Bounds \subseteq Nat \ {0} /\ LineBytes \subseteq Nat /\ LineSize \in Nat \ {0}
  BY BufferAssumption, Zenon
<1> QED BY <1>1, <1>3, <1>4, Zenon

\* What the invariant says of the variables, for the provers.
LEMMA Facts ==
  ASSUME BufInv
  PROVE  /\ input \in Seq(Seq(Byte)) /\ bound \in Nat /\ line_bytes \in Nat /\ halved \in BOOLEAN
         /\ alloc \in Nat /\ left \in Nat /\ eof \in BOOLEAN /\ direct \in BOOLEAN
         /\ text \in Seq(Byte) /\ rest \in Seq(Byte) /\ files \in Seq(Seq(Byte))
         /\ lines \in Seq(Line) /\ bufferfuls \in Seq(Seq(Seq(Byte)))
         /\ left <= Len(text) /\ Len(text) \in Nat /\ Len(lines) \in Nat /\ Len(input) \in Nat
         /\ Tabled(lines, text)
         /\ line_start = StartOf(lines) /\ line_start \in 0..Len(text)
<1>1. Types /\ Tabled(lines, text)
  BY DEF BufInv
<1>2. input \in Seq(Seq(Byte)) /\ bound \in Nat /\ line_bytes \in Nat
  BY <1>1, InputsType DEF Types
<1>3. /\ alloc \in Nat /\ left \in Nat /\ eof \in BOOLEAN /\ direct \in BOOLEAN /\ halved \in BOOLEAN
      /\ text \in Seq(Byte) /\ rest \in Seq(Byte) /\ files \in Seq(Seq(Byte))
      /\ lines \in Seq(Line) /\ bufferfuls \in Seq(Seq(Seq(Byte)))
      /\ left <= Len(text)
  BY <1>1, Zenon DEF Types
<1>4. Len(text) \in Nat /\ Len(lines) \in Nat /\ Len(input) \in Nat
  BY <1>2, <1>3, LenProperties
<1>5. line_start = StartOf(lines)
  BY Zenon DEF line_start, StartOf
<1>6. StartOf(lines) \in 0..Len(text)
  BY <1>1, <1>3, TableStart
<1> QED BY <1>1, <1>2, <1>3, <1>4, <1>5, <1>6, Zenon

MovedOf(t, l) == SubSeq(t, Len(t) - l + 1, Len(t))

\* What is moved to the beginning of the buffer.
LEMMA MovedIs ==
  ASSUME NEW t \in Seq(Byte), NEW l \in Nat, l <= Len(t)
  PROVE  /\ MovedOf(t, l) \in Seq(Byte) /\ Len(MovedOf(t, l)) = l
         /\ \A k \in 1..l : MovedOf(t, l)[k] = t[(Len(t) - l) + k]
         /\ l = 0 => MovedOf(t, l) = <<>>
         /\ l = Len(t) => MovedOf(t, l) = t
<1>1. PICK p \in 0..Len(t) : p = Len(t) - l
  OBVIOUS
<1>2. PICK b : b = SubSeq(t, p + 1, Len(t))
  OBVIOUS
<1>3. b \in Seq(Byte) /\ Len(b) = Len(t) - p /\ \A k \in 1..(Len(t) - p) : b[k] = t[p + k]
  BY <1>2, Split
<1>4. MovedOf(t, l) = b
  BY <1>1, <1>2, Zenon DEF MovedOf
<1>5. Len(t) - p = l /\ Len(t) \in Nat
  BY <1>1
<1>6. l = 0 => b = <<>>
  BY <1>3, <1>5
<1>7. l = Len(t) => b = t
  <2>1. SUFFICES ASSUME l = Len(t) PROVE b = t
    OBVIOUS
  <2>2. p = 0
    BY <1>1, <2>1
  <2>3. Elementwise(b, t)
    BY <1>3, <1>5, <2>1, <2>2 DEF Elementwise
  <2> QED BY <1>3, <2>3, SameSeq, Zenon
<1> QED BY <1>1, <1>3, <1>4, <1>5, <1>6, <1>7

\* What was read and not handed over, by pc.
LEMMA KeptIs ==
  /\ pc \in {"read", "filled", "lines"} => Kept = text
  /\ pc \in {"open", "fillbuf"} => Kept = MovedOf(text, left)
  /\ pc \in {"initbuf", "died", "done"} => Kept = <<>>
<1>1. Moved = MovedOf(text, left)
  BY Zenon DEF Moved, MovedOf
<1>2. pc \in {"read", "filled", "lines"} => Kept = text
  BY DEF Kept
<1>3. pc \in {"open", "fillbuf"} => Kept = Moved
  BY DEF Kept
<1>4. pc \in {"initbuf", "died", "done"} => Kept = <<>>
  BY DEF Kept
<1> QED BY <1>1, <1>2, <1>3, <1>4, Zenon

\* The same in the next state.
LEMMA KeptNext ==
  /\ pc' \in {"read", "filled", "lines"} => Kept' = text'
  /\ pc' \in {"open", "fillbuf"} => Kept' = MovedOf(text', left')
  /\ pc' \in {"initbuf", "died", "done"} => Kept' = <<>>
<1>1. Moved' = MovedOf(text', left')
  BY Zenon DEF Moved, MovedOf
<1>2. pc' \in {"read", "filled", "lines"} => Kept' = text'
  BY DEF Kept
<1>3. pc' \in {"open", "fillbuf"} => Kept' = Moved'
  BY DEF Kept
<1>4. pc' \in {"initbuf", "died", "done"} => Kept' = <<>>
  BY DEF Kept
<1> QED BY <1>1, <1>2, <1>3, <1>4, Zenon

\* The bytes after the start of the last line have no Eol.
LEMMA RestOfText ==
  ASSUME NEW t \in Seq(Byte), NEW table \in Seq(Line), Tabled(table, t), NEW l \in Nat, l = Len(t) - StartOf(table)
  PROVE  Tabled(<<>>, MovedOf(t, l))
<1>1. PICK p \in 0..Len(t) : p = StartOf(table)
  BY TableStart
<1>2. \A k \in (p + 1)..Len(t) : t[k] # Eol
  BY <1>1, TableStart
<1>3. Len(t) \in Nat /\ l <= Len(t) /\ Len(t) - l = p
  BY <1>1
<1>4. PICK b \in Seq(Byte) : b = MovedOf(t, l) /\ Len(b) = l /\ \A k \in 1..l : b[k] = t[(Len(t) - l) + k]
  BY <1>3, MovedIs
<1>5. EolsOf(b) = {}
  <2>1. \A k \in 1..l : (Len(t) - l) + k \in (p + 1)..Len(t)
    BY <1>1, <1>3
  <2> QED BY <1>2, <1>4, <2>1 DEF EolsOf
<1>6. Enumerates(<<>>, {})
  BY DEF Enumerates
<1> DEFINE h == [k \in 1..Len(<<>>) |-> <<>>[k].start + <<>>[k].length]
<1>7. h = <<>>
  OBVIOUS
<1>8. \A k \in 1..Len(<<>>) : FALSE
  OBVIOUS
<1> HIDE DEF h
<1>9. Enumerates(h, EolsOf(b))
  BY <1>5, <1>6, <1>7, Zenon
<1> QED BY <1>4, <1>8, <1>9, Zenon DEF Tabled, h

\* Opening a file that starts after a whole line moves its lines from the files to the rest.
LEMMA HandOpens ==
  ASSUME NEW done \in Seq(Seq(Seq(Byte))), NEW m \in Seq(Byte), Whole(m), NEW fs \in Seq(Seq(Byte)), fs # <<>>,
         NEW in, HandedOver(done, m, fs, in)
  PROVE  HandedOver(done, m \o Head(fs), Tail(fs), in)
<1>1. Head(fs) \in Seq(Byte) /\ Tail(fs) \in Seq(Seq(Byte))
  OBVIOUS
<1>2. PICK f \in Seq(Byte), ts \in Seq(Seq(Byte)) : f = Head(fs) /\ ts = Tail(fs)
  BY <1>1, Zenon
<1>3. PICK F \in Seq(Seq(Byte)) : F = FlattenSeq(done)
  BY FlattenType
<1>4. PICK M \in Seq(Seq(Byte)), N \in Seq(Seq(Byte)) : M = LinesOf(m) /\ N = LinesOf(f)
  BY LinesType
<1>5. PICK A \in Seq(Seq(Byte)) : A = AllLinesOf(ts)
  BY AllLinesType
<1>6. LinesOf(m \o f) = M \o N
  BY <1>4, LinesConcat
<1>7. AllLinesOf(fs) = N \o A
  BY <1>2, <1>4, <1>5, AllLinesFirst, Zenon
<1>8. (F \o M) \o (N \o A) = AllLinesOf(in)
  BY <1>3, <1>4, <1>7, Zenon DEF HandedOver
<1>9. (F \o (M \o N)) \o A = (F \o M) \o (N \o A)
  <2>1. F \o M \in Seq(Seq(Byte))
    OBVIOUS
  <2>2. Regroups(F, M, N)
    BY Associative, Zenon
  <2>3. Regroups(F \o M, N, A)
    BY <2>1, Associative, Zenon
  <2> QED BY <2>2, <2>3, Zenon DEF Regroups
<1>10. (F \o (M \o N)) \o A = AllLinesOf(in)
  BY <1>8, <1>9, Zenon
<1>11. HandedOver(done, m \o f, ts, in)
  BY <1>3, <1>5, <1>6, <1>10, Zenon DEF HandedOver
<1> QED BY <1>2, <1>11, Zenon

\* Handing over the table moves its lines to what is done.
LEMMA HandsLines ==
  ASSUME NEW done \in Seq(Seq(Seq(Byte))), NEW t \in Seq(Byte), NEW table \in Seq(Line), Tabled(table, t),
         NEW r \in Seq(Byte), NEW fs \in Seq(Seq(Byte)), NEW in, HandedOver(done, t \o r, fs, in),
         NEW l \in Nat, l = Len(t) - StartOf(table)
  PROVE  HandedOver(Append(done, LinesAt(table, t)), MovedOf(t, l) \o r, fs, in)
<1>1. PICK p \in 0..Len(t) : p = StartOf(table) /\ Len(t) \in Nat
  BY TableStart
<1>2. MovedOf(t, l) = SubSeq(t, StartOf(table) + 1, Len(t))
  <2>1. Len(t) - l + 1 = p + 1
    BY <1>1
  <2> QED BY <1>1, <2>1, Zenon DEF MovedOf
<1>3. PICK M \in Seq(Byte) : M = MovedOf(t, l)
  <2>1. l <= Len(t)
    BY <1>1
  <2> QED BY <2>1, MovedIs
<1>4. M \o r \in Seq(Byte)
  OBVIOUS
<1>5. PICK N \in Seq(Seq(Byte)) : N = LinesOf(M \o r)
  BY <1>4, LinesType
<1>6. PICK L \in Seq(Seq(Byte)) : L = LinesAt(table, t)
  BY TableRest, Zenon
<1>7. LinesOf(t \o r) = L \o N
  <2>1. LinesOf(t \o r) = LinesAt(table, t) \o LinesOf(SubSeq(t, StartOf(table) + 1, Len(t)) \o r)
    BY TableRest, Zenon
  <2> QED BY <1>2, <1>3, <1>5, <1>6, <2>1, Zenon
<1>8. PICK F \in Seq(Seq(Byte)) : F = FlattenSeq(done)
  BY FlattenType
<1>9. PICK A \in Seq(Seq(Byte)) : A = AllLinesOf(fs)
  BY AllLinesType
<1>10. FlattenSeq(Append(done, L)) = F \o L
  BY <1>8, FlattenAppend
<1>11. (F \o (L \o N)) \o A = AllLinesOf(in)
  BY <1>7, <1>8, <1>9, Zenon DEF HandedOver
<1>12. ((F \o L) \o N) \o A = (F \o (L \o N)) \o A
  <2>1. Regroups(F, L, N)
    BY Associative, Zenon
  <2> QED BY <2>1, Zenon DEF Regroups
<1>13. HandedOver(Append(done, L), M \o r, fs, in)
  BY <1>5, <1>9, <1>10, <1>11, <1>12, Zenon DEF HandedOver
<1> QED BY <1>3, <1>6, <1>13, Zenon

\* No step changes what is given.
LEMMA SizesStay ==
  ASSUME NEW size, Sizes(size), input' = input, line_bytes' = line_bytes
  PROVE  Sizes(size)'
BY Zenon DEF Sizes, Worst

\* The room for more files is not less.
LEMMA SizesGrow ==
  ASSUME NEW size, Sizes(size), input \in Seq(Seq(Byte)), line_bytes \in Nat
  PROVE  /\ \A j \in 0..Len(input) : size[j] \in Nat
         /\ \A j \in 1..Len(input) : Worst(input[j]) \in Nat /\ size[j] = size[j - 1] + Worst(input[j])
         /\ \A j \in 0..Len(input) : size[j] <= size[Len(input)]
<1>1. PICK n \in Nat : n = Len(input)
  OBVIOUS
<1>2. size \in [0..n -> Nat] /\ \A j \in 1..n : size[j] = size[j - 1] + Worst(input[j])
  BY <1>1, Zenon DEF Sizes
<1>3. \A j \in 0..n : size[j] \in Nat
  BY <1>2
<1>4. ASSUME NEW j \in 1..n PROVE Worst(input[j]) \in Nat
  <2>1. PICK a \in Nat : a = Len(input[j])
    <3>1. input[j] \in Seq(Byte)
      BY <1>1
    <3> QED BY <3>1
  <2>2. PICK b \in Nat : b = line_bytes + 1
    OBVIOUS
  <2>3. a * b + 1 \in Nat
    OBVIOUS
  <2> QED BY <2>1, <2>2, <2>3, Zenon DEF Worst
<1>5. \A j \in 0..n : size[j] <= size[n]
  <2> DEFINE T == {i \in Nat : i <= n /\ ~(size[n - i] <= size[n])}
  <2>1. CASE T = {}
    <3>1. ASSUME NEW j \in 0..n PROVE n - j \in Nat /\ n - j <= n /\ n - (n - j) = j
      OBVIOUS
    <3> QED BY <2>1, <3>1
  <2>2. CASE T # {}
    <3>1. T \in SUBSET Nat
      OBVIOUS
    <3> HIDE DEF T
    <3>2. PICK i \in T : \A y \in T : i <= y
      BY <2>2, <3>1, Least
    <3> USE DEF T
    <3>3. i \in Nat /\ i <= n /\ ~(size[n - i] <= size[n])
      BY <3>2
    <3>4. n \in 0..n /\ size[n] \in Nat
      BY <1>3
    <3>5. i # 0
      <4>1. n - 0 = n
        OBVIOUS
      <4> QED BY <3>3, <3>4, <4>1
    <3>6. PICK j \in 1..n : j = n - (i - 1) /\ j - 1 = n - i
      BY <3>3, <3>5
    <3>7. i - 1 \in Nat /\ i - 1 <= n /\ ~(i <= i - 1)
      BY <3>3, <3>5
    <3>8. size[j] <= size[n]
      BY <3>2, <3>6, <3>7
    <3>9. PICK x \in Nat, y \in Nat, z \in Nat, w \in Nat :
            x = size[j - 1] /\ y = size[j] /\ z = size[n] /\ w = Worst(input[j])
      <4>1. j - 1 \in 0..n /\ j \in 0..n
        OBVIOUS
      <4> QED BY <1>3, <1>4, <3>4, <4>1
    <3>10. y = x + w /\ y <= z /\ ~(x <= z)
      BY <1>2, <3>3, <3>6, <3>8, <3>9
    <3> QED BY <3>10
  <2> QED BY <2>1, <2>2
<1> QED BY <1>1, <1>2, <1>3, <1>4, <1>5

-----------------------------------------------------------------------------
(* The steps of sort() and of initbuf *)

\* The text and the table stay.
LEMMA TextStays ==
  ASSUME text' = text, lines' = lines
  PROVE  /\ Tabled(lines, text) => Tabled(lines, text)'
         /\ line_start' = line_start
         /\ line_bytes' = line_bytes => Used' = Used
         /\ line_bytes' = line_bytes /\ alloc' = alloc => avail' = avail
<1>1. Tabled(lines, text) => Tabled(lines, text)'
  OBVIOUS
<1>2. line_start' = line_start
  BY Zenon DEF line_start
<1>3. line_bytes' = line_bytes => Used' = Used
  BY Zenon DEF Used
<1>4. line_bytes' = line_bytes /\ alloc' = alloc => avail' = avail
  BY Zenon DEF avail
<1> QED BY <1>1, <1>2, <1>3, <1>4, Zenon

\* Nor does what is opened change.
LEMMA FilesStay ==
  ASSUME files' = files, input' = input
  PROVE  (Order => Order') /\ Opened' = Opened
<1>1. Opened' = Opened
  BY Zenon DEF Opened
<1> QED BY <1>1, Zenon DEF Order

\* Whether the size is enough depends on the parameters.
LEMMA SizedStays ==
  ASSUME parameters' = parameters
  PROVE  Sized' = Sized
<1>1. input' = input /\ bound' = bound /\ line_bytes' = line_bytes /\ halved' = halved
  BY DEF parameters
<1> QED BY <1>1 DEF Sized

\* Open keeps the invariant.
LEMMA OpenKeeps ==
  ASSUME BufInv, Open
  PROVE  BufInv'
<1>1. /\ input \in Seq(Seq(Byte)) /\ line_bytes \in Nat /\ files \in Seq(Seq(Byte)) /\ left \in Nat
      /\ text \in Seq(Byte) /\ lines \in Seq(Line) /\ left <= Len(text) /\ Len(input) \in Nat
      /\ bufferfuls \in Seq(Seq(Seq(Byte))) /\ Len(text) \in Nat
      /\ Types /\ Tabled(lines, text) /\ Places /\ Handed /\ Fits /\ Roomy
  BY Facts DEF BufInv
<1>2. /\ pc = "open" /\ files # <<>> /\ rest' = Head(files) /\ files' = Tail(files) /\ eof' = FALSE
      /\ pc' = "fillbuf" /\ input' = input /\ bound' = bound /\ line_bytes' = line_bytes /\ halved' = halved
      /\ bufferfuls' = bufferfuls /\ direct' = direct /\ alloc' = alloc /\ text' = text /\ lines' = lines
      /\ left' = left /\ parameters' = parameters
  BY DEF Open, parameters, result
<1>3. rest = <<>> /\ line_start = Len(text) /\ (left = 0 \/ left = Len(text))
  BY <1>1, <1>2 DEF Places
<1>4. Head(files) \in Seq(Byte) /\ Tail(files) \in Seq(Seq(Byte)) /\ Len(Tail(files)) = Len(files) - 1
      /\ Len(files) \in Nat /\ Len(files) > 0
  BY <1>1, <1>2
<1>5. Types'
  BY <1>1, <1>2, <1>4 DEF Types
<1>6. Tabled(lines, text)' /\ line_start' = line_start /\ Used' = Used /\ avail' = avail
  BY <1>1, <1>2, TextStays, Zenon
<1>7. Places'
  <2>1. left' = Len(text') \/ left' = Left'
    <3>1. Left' = Len(text) - line_start
      BY <1>2, <1>6, Zenon DEF Left
    <3>2. Left' = 0
      BY <1>1, <1>3, <3>1
    <3> QED BY <1>2, <1>3, <3>2
  <2> QED BY <1>2, <2>1 DEF Places
<1>8. Handed'
  <2>1. PICK m \in Seq(Byte) : m = MovedOf(text, left) /\ Kept = m /\ Kept' = m
    <3>1. Kept = MovedOf(text, left) /\ Kept' = MovedOf(text, left)
      BY <1>2, KeptIs, KeptNext
    <3>2. MovedOf(text, left) \in Seq(Byte)
      BY <1>1, MovedIs
    <3> QED BY <3>1, <3>2, Zenon
  <2>2. Whole(m)
    <3>1. CASE left = 0
      <4>1. m = <<>>
        BY <1>1, <2>1, <3>1, MovedIs
      <4> QED BY <4>1, Zenon DEF Whole
    <3>2. CASE left = Len(text)
      <4>1. m = text
        BY <1>1, <2>1, <3>2, MovedIs
      <4>2. StartOf(lines) = Len(text)
        BY <1>3, Facts
      <4>3. Whole(text)
        BY <1>1, <4>2, TableStart
      <4> QED BY <4>1, <4>3, Zenon
    <3> QED BY <1>3, <3>1, <3>2
  <2>3. m \o <<>> = m
    BY ConcatEmptySeq
  <2>4. HandedOver(bufferfuls, m, files, input)
    BY <1>1, <1>3, <2>1, <2>3, Zenon DEF Handed
  <2>5. HandedOver(bufferfuls, m \o Head(files), Tail(files), input)
    BY <1>1, <1>2, <2>2, <2>4, HandOpens
  <2> QED BY <1>2, <2>1, <2>5, Zenon DEF Handed, HandedOver
<1>9. Fits'
  BY <1>1, <1>2, <1>6 DEF Fits
<1>10. Roomy'
  <2>1. Order
    BY <1>1 DEF Roomy
  <2>2. Opened' = Opened + 1 /\ Opened \in Nat /\ Opened + 1 <= Len(input)
    <3>1. Opened' = Len(input) - Len(Tail(files))
      BY <1>2, Zenon DEF Opened
    <3>2. Opened = Len(input) - Len(files) /\ Opened \in 0..Len(input)
      BY <2>1, Zenon DEF Opened, Order
    <3> QED BY <1>1, <1>4, <3>1, <3>2
  <2>3. Head(files) = input[Opened + 1]
    <3>1. 1 \in 1..Len(files) /\ Head(files) = files[1]
      BY <1>1, <1>2
    <3> QED BY <2>1, <3>1, Zenon DEF Order
  <2>4. Order'
    <3>1. ASSUME NEW k \in 1..Len(Tail(files)) PROVE Tail(files)[k] = input[Opened' + k]
      <4>1. k + 1 \in 1..Len(files) /\ Tail(files)[k] = files[k + 1]
        BY <1>1, <1>2, <1>4
      <4>2. files[k + 1] = input[Opened + (k + 1)]
        BY <2>1, <4>1, Zenon DEF Order
      <4>3. Opened + (k + 1) = Opened' + k
        BY <2>2
      <4> QED BY <4>1, <4>2, <4>3, Zenon
    <3>2. Opened' \in 0..Len(input)
      BY <1>1, <2>2
    <3> QED BY <1>2, <3>1, <3>2, Zenon DEF Order
  <2>5. ASSUME Sized' /\ pc' # "died" PROVE \E size : RoomyFor(size)'
    <3>1. Sized /\ pc # "died"
      BY <1>2, <2>5, SizedStays
    <3>2. PICK size : RoomyFor(size)
      BY <1>1, <3>1, Zenon DEF Roomy
    <3>3. Sizes(size)'
      BY <1>2, <3>2, SizesStay, Zenon DEF RoomyFor
    <3>4. /\ alloc > size[Len(input)] /\ bufferfuls = <<>> /\ Used <= size[Opened] - (line_bytes + 2)
      BY <1>2, <3>2 DEF RoomyFor
    <3>5. Opened' - 1 = Opened /\ Opened' > 0
      BY <2>2
    <3>6. Used' <= size[Opened' - 1] - (line_bytes' + 2)
      BY <1>2, <1>6, <3>4, <3>5, Zenon
    <3>7. rest' = input'[Opened']
      BY <1>2, <2>2, <2>3, Zenon
    <3>8. line_start' = Len(text')
      BY <1>2, <1>3, <1>6, Zenon
    <3>9. alloc' > size[Len(input')] /\ bufferfuls' = <<>>
      BY <1>2, <3>4, Zenon
    <3>10. RoomyFor(size)'
      BY <1>2, <3>3, <3>5, <3>6, <3>7, <3>8, <3>9 DEF RoomyFor
    <3> QED BY <3>10, Zenon
  <2> QED BY <1>2, <2>4, <2>5 DEF Roomy
<1> QED BY <1>5, <1>6, <1>7, <1>8, <1>9, <1>10 DEF BufInv

\* Sizes that are rounded.
LEMMA AlignedIs ==
  ASSUME NEW a \in Nat, NEW n \in Nat \ {0}
  PROVE  /\ a + n - (a % n) \in Nat /\ a + n - (a % n) > a
         /\ (a + n - (a % n)) \div 2 \in Nat
         /\ a \div n \in Nat /\ (a \div n) * n <= a /\ a < (a \div n) * n + n
<1>1. a % n \in 0..(n - 1)
  OBVIOUS
<1>2. PICK r \in 0..(n - 1) : r = a % n
  BY <1>1
<1>3. a + n - r \in Nat /\ a + n - r > a
  BY <1>2
<1>4. PICK x \in Nat : x = a + n - r
  BY <1>3
<1>5. x \div 2 \in Nat
  OBVIOUS
<1>6. a \div n \in Nat
  OBVIOUS
<1>7. n * (a \div n) <= a
  OBVIOUS
<1>8. a < n * (a \div n) + n
  OBVIOUS
<1>9. PICK q \in Nat : q = a \div n
  BY <1>6
<1>10. n * q = q * n
  OBVIOUS
<1> QED BY <1>2, <1>3, <1>4, <1>5, <1>7, <1>8, <1>9, <1>10, Zenon

\* The end of the files keeps the invariant.
LEMMA NoMoreKeeps ==
  ASSUME BufInv, NoMore
  PROVE  BufInv'
<1>1. /\ input \in Seq(Seq(Byte)) /\ line_bytes \in Nat /\ files \in Seq(Seq(Byte)) /\ left \in Nat
      /\ text \in Seq(Byte) /\ lines \in Seq(Line) /\ left <= Len(text) /\ Len(input) \in Nat
      /\ bufferfuls \in Seq(Seq(Seq(Byte))) /\ Len(text) \in Nat
      /\ Types /\ Tabled(lines, text) /\ Places /\ Handed /\ Fits /\ Roomy
  BY Facts DEF BufInv
<1>2. /\ pc = "open" /\ files = <<>> /\ pc' = "done" /\ rest' = rest /\ files' = files /\ eof' = eof
      /\ input' = input /\ bound' = bound /\ line_bytes' = line_bytes /\ halved' = halved
      /\ bufferfuls' = bufferfuls /\ direct' = direct /\ alloc' = alloc /\ text' = text /\ lines' = lines
      /\ left' = left /\ parameters' = parameters
  BY DEF NoMore, parameters, result, source, buffer
<1>3. rest = <<>> /\ left = 0
  BY <1>1, <1>2 DEF Places
<1>4. Types'
  BY <1>1, <1>2 DEF Types
<1>5. Tabled(lines, text)' /\ line_start' = line_start /\ Used' = Used /\ avail' = avail
  BY <1>1, <1>2, TextStays, Zenon
<1>6. Places'
  BY <1>2 DEF Places
<1>7. Kept = <<>> /\ Kept' = <<>>
  <2>1. Kept = MovedOf(text, left) /\ Kept' = <<>>
    BY <1>2, KeptIs, KeptNext
  <2> QED BY <1>1, <1>3, <2>1, MovedIs
<1>8. Handed'
  BY <1>1, <1>2, <1>7, Zenon DEF Handed, HandedOver
<1>9. Fits'
  BY <1>1, <1>2, <1>5 DEF Fits
<1>10. Roomy'
  <2>1. Order'
    BY <1>1, <1>2, FilesStay DEF Roomy
  <2>2. ASSUME Sized' /\ pc' # "died" PROVE \E size : RoomyFor(size)'
    <3>1. Sized /\ pc # "died"
      BY <1>2, <2>2, SizedStays
    <3>2. PICK size : RoomyFor(size)
      BY <1>1, <3>1, Zenon DEF Roomy
    <3>3. Sizes(size)'
      BY <1>2, <3>2, SizesStay, Zenon DEF RoomyFor
    <3>4. alloc > size[Len(input)] /\ bufferfuls = <<>>
      BY <1>2, <3>2 DEF RoomyFor
    <3>5. AllLinesOf(input) = <<>>
      <4>1. <<>> \o <<>> = <<>> /\ <<>> \in Seq(Seq(Seq(Byte))) /\ <<>> \in Seq(Seq(Byte))
        OBVIOUS
      <4>2. FlattenSeq(<<>>) = <<>>
        BY <4>1, FlattenType
      <4>3. AllLinesOf(<<>>) = <<>>
        BY <4>1, AllLinesType
      <4>4. LinesOf(<<>>) = <<>>
        BY LinesEmpty
      <4> QED BY <1>1, <1>2, <1>3, <1>7, <3>4, <4>1, <4>2, <4>3, <4>4, Zenon DEF Handed, HandedOver
    <3>6. AllLinesOf(input)' = <<>>
      BY <1>2, <3>5
    <3>7. alloc' > size[Len(input')] /\ bufferfuls' = <<>>
      BY <1>2, <3>4, Zenon
    <3>8. RoomyFor(size)'
      BY <1>2, <3>3, <3>6, <3>7 DEF RoomyFor
    <3> QED BY <3>8, Zenon
  <2> QED BY <1>2, <2>1, <2>2 DEF Roomy
<1> QED BY <1>4, <1>5, <1>6, <1>8, <1>9, <1>10 DEF BufInv

\* Concatenating the next file keeps the invariant: what is left is the whole text.
LEMMA ConcatenateKeeps ==
  ASSUME BufInv, Concatenate
  PROVE  BufInv'
<1>1. /\ input \in Seq(Seq(Byte)) /\ line_bytes \in Nat /\ files \in Seq(Seq(Byte)) /\ left \in Nat
      /\ text \in Seq(Byte) /\ lines \in Seq(Line) /\ left <= Len(text) /\ Len(input) \in Nat
      /\ bufferfuls \in Seq(Seq(Seq(Byte))) /\ Len(text) \in Nat /\ line_start \in 0..Len(text)
      /\ Types /\ Tabled(lines, text) /\ Places /\ Handed /\ Fits /\ Roomy
  BY Facts DEF BufInv
<1>2. /\ pc = "lines" /\ eof /\ files # <<>> /\ pc' = "open" /\ rest' = rest /\ files' = files /\ eof' = eof
      /\ input' = input /\ bound' = bound /\ line_bytes' = line_bytes /\ halved' = halved
      /\ bufferfuls' = bufferfuls /\ direct' = direct /\ alloc' = alloc /\ text' = text /\ lines' = lines
      /\ left' = Len(text) /\ parameters' = parameters
  BY DEF Concatenate, MayConcatenate, parameters, result, source
<1>3. rest = <<>> /\ line_start = Len(text)
  <2>1. rest = <<>> /\ left = 0 /\ left = Left
    BY <1>1, <1>2 DEF Places
  <2> QED BY <1>1, <2>1 DEF Left
<1>4. Types'
  BY <1>1, <1>2 DEF Types
<1>5. Tabled(lines, text)' /\ line_start' = line_start /\ Used' = Used /\ avail' = avail
  BY <1>1, <1>2, TextStays, Zenon
<1>6. Places'
  BY <1>2, <1>3, <1>5 DEF Places
<1>7. Kept = text /\ Kept' = text
  <2>1. Kept' = MovedOf(text, Len(text)) /\ Kept = text
    BY <1>2, KeptIs, KeptNext
  <2> QED BY <1>1, <2>1, MovedIs
<1>8. Handed'
  BY <1>1, <1>2, <1>7, Zenon DEF Handed, HandedOver
<1>9. Fits'
  BY <1>1, <1>2, <1>5 DEF Fits
<1>10. Roomy'
  <2>1. Order' /\ Opened' = Opened
    BY <1>1, <1>2, FilesStay DEF Roomy
  <2>2. ASSUME Sized' /\ pc' # "died" PROVE \E size : RoomyFor(size)'
    <3>1. Sized /\ pc # "died"
      BY <1>2, <2>2, SizedStays
    <3>2. PICK size : RoomyFor(size)
      BY <1>1, <3>1, Zenon DEF Roomy
    <3>3. Sizes(size)'
      BY <1>2, <3>2, SizesStay, Zenon DEF RoomyFor
    <3>4. alloc > size[Len(input)] /\ bufferfuls = <<>> /\ Used <= size[Opened] - (line_bytes + 2)
      BY <1>2, <3>2 DEF RoomyFor
    <3>5. alloc' > size[Len(input')] /\ bufferfuls' = <<>> /\ Used' <= size[Opened'] - (line_bytes' + 2)
      BY <1>2, <1>5, <2>1, <3>4, Zenon
    <3>6. RoomyFor(size)'
      BY <1>2, <3>3, <3>5 DEF RoomyFor
    <3> QED BY <3>6, Zenon
  <2> QED BY <1>2, <2>1, <2>2 DEF Roomy
<1> QED BY <1>4, <1>5, <1>6, <1>8, <1>9, <1>10 DEF BufInv

\* Allocating the buffer keeps the invariant.
LEMMA initbufKeeps ==
  ASSUME BufInv, initbuf
  PROVE  BufInv'
<1>1. /\ input \in Seq(Seq(Byte)) /\ line_bytes \in Nat /\ alloc \in Nat /\ Len(input) \in Nat
      /\ Types /\ Tabled(lines, text) /\ Places /\ Handed /\ Fits /\ Roomy
  BY Facts DEF BufInv
<1> DEFINE aligned == alloc + LineSize - (alloc % LineSize)
<1>2. aligned \in Nat /\ aligned > alloc /\ aligned \div 2 \in Nat
  BY <1>1, InputsType, AlignedIs
<1>3. PICK a \in Nat, h \in Nat : a = aligned /\ a > alloc /\ h = a \div 2
  BY <1>2
<1>4. /\ pc = "initbuf" /\ rest' = rest /\ files' = files /\ eof' = eof
      /\ input' = input /\ bound' = bound /\ line_bytes' = line_bytes
      /\ bufferfuls' = bufferfuls /\ direct' = direct /\ text' = text /\ lines' = lines /\ left' = left
      /\ \/ alloc' = a /\ pc' = "open" /\ halved' = halved
         \/ alloc' = h /\ pc' \in {"died", "initbuf"} /\ halved' = TRUE
  <2> HIDE DEF aligned
  <2>1. /\ pc = "initbuf"
        /\ \/ alloc' = aligned /\ pc' = "open" /\ UNCHANGED halved
           \/ /\ alloc' = aligned \div 2 /\ halved' = TRUE
              /\ pc' = IF aligned \div 2 <= line_bytes + 1 THEN "died" ELSE "initbuf"
        /\ UNCHANGED <<input, bound, line_bytes, source, result, text, lines, left, eof>>
    BY Zenon DEF initbuf, aligned
  <2> QED BY <1>3, <2>1 DEF source, result
<1> HIDE DEF aligned
<1>5. text = <<>> /\ lines = <<>> /\ left = 0 /\ rest = <<>> /\ files = input /\ bufferfuls = <<>> /\ ~ direct /\ ~ eof
  BY <1>1, <1>4 DEF Places
<1>6. Types'
  BY <1>1, <1>4 DEF Types
<1>7. Tabled(lines, text)' /\ line_start' = line_start
  BY <1>1, <1>4, TextStays, Zenon
<1>8. line_start = 0 /\ Len(text) = 0 /\ Len(lines) = 0
  BY <1>5 DEF line_start
<1>9. Places'
  BY <1>4, <1>5, <1>7, <1>8 DEF Places
<1>10. Kept = <<>> /\ Kept' = <<>>
  <2>1. Kept = <<>>
    BY <1>4, KeptIs
  <2>2. CASE pc' = "open"
    <3>1. Kept' = MovedOf(text, left)
      BY <1>4, <2>2, KeptNext
    <3>2. text \in Seq(Byte) /\ left \in Nat /\ left <= Len(text)
      BY <1>5
    <3> QED BY <1>5, <2>1, <3>1, <3>2, MovedIs
  <2>3. CASE pc' # "open"
    BY <1>4, <2>1, <2>3, KeptNext
  <2> QED BY <2>2, <2>3
<1>11. Handed'
  BY <1>1, <1>4, <1>10, Zenon DEF Handed, HandedOver
<1>12. line_bytes * 0 = 0
  BY <1>1
<1>13. Used' = 0 /\ avail' = alloc'
  <2>1. Used' = 0
    BY <1>4, <1>8, <1>12 DEF Used
  <2>2. avail' = alloc' - 0 - 0
    BY <1>4, <1>8, <1>12, Zenon DEF avail
  <2>3. PICK x \in Nat : x = alloc'
    BY <1>4
  <2>4. x - 0 - 0 = x
    OBVIOUS
  <2> QED BY <2>1, <2>2, <2>3, <2>4, Zenon
<1>14. Fits'
  BY <1>4, <1>13 DEF Fits
<1>15. Roomy'
  <2>1. Order' /\ Opened' = 0
    <3>1. Order' /\ Opened' = Opened
      BY <1>1, <1>4, FilesStay DEF Roomy
    <3> QED BY <1>1, <1>5, <3>1 DEF Opened
  <2>2. ASSUME Sized' /\ pc' # "died" PROVE \E size : RoomyFor(size)'
    <3>0. alloc' = a /\ pc' = "open" /\ halved' = halved
      BY <1>4, <2>2 DEF Sized
    <3>1. Sized /\ pc # "died"
      BY <1>4, <2>2, <3>0 DEF Sized
    <3>2. PICK size : RoomyFor(size)
      BY <1>1, <3>1, Zenon DEF Roomy
    <3>3. Sizes(size)'
      BY <1>4, <3>2, SizesStay, Zenon DEF RoomyFor
    <3>4. alloc = size[Len(input)]
      BY <1>4, <3>2 DEF RoomyFor
    <3>5. alloc' > size[Len(input')] /\ bufferfuls' = <<>>
      BY <1>3, <1>4, <1>5, <3>0, <3>4
    <3>6. size[Opened'] = line_bytes + 2
      BY <2>1, <3>2 DEF RoomyFor, Sizes
    <3>7. Used' <= size[Opened'] - (line_bytes' + 2)
      BY <1>1, <1>4, <1>13, <3>6
    <3>8. RoomyFor(size)'
      BY <3>0, <3>3, <3>5, <3>7 DEF RoomyFor
    <3> QED BY <3>8, Zenon
  <2> QED BY <2>1, <2>2 DEF Roomy
<1> QED BY <1>6, <1>7, <1>9, <1>11, <1>14, <1>15 DEF BufInv

-----------------------------------------------------------------------------
(* The steps of fillbuf, and the lines that are handed over *)

\* The room that is used and the room that is left.
LEMMA UsedIs ==
  ASSUME alloc \in Nat, text \in Seq(Byte), lines \in Seq(Line), line_bytes \in Nat
  PROVE  /\ line_bytes * Len(lines) \in Nat /\ Used = Len(text) + line_bytes * Len(lines) /\ Used \in Nat
         /\ avail = alloc - Used /\ avail \in Int
<1>1. PICK a \in Nat, t \in Nat, l \in Nat, b \in Nat : a = alloc /\ t = Len(text) /\ l = Len(lines) /\ b = line_bytes
  OBVIOUS
<1>2. PICK p \in Nat : p = b * l
  OBVIOUS
<1>3. Used = t + p
  BY <1>1, <1>2, Zenon DEF Used
<1>4. avail = a - t - p
  BY <1>1, <1>2, Zenon DEF avail
<1>5. a - t - p = a - (t + p) /\ a - t - p \in Int /\ t + p \in Nat
  OBVIOUS
<1> QED BY <1>1, <1>2, <1>3, <1>4, <1>5, Zenon

\* There is room for the rest of the files.
LEMMA RoomLeft ==
  ASSUME BufInv, NEW size, RoomyFor(size), pc # "initbuf", NEW j \in 0..Len(input), Used <= size[j] - (line_bytes + 2)
  PROVE  /\ avail > size[Len(input)] - size[j] + (line_bytes + 2) /\ avail > line_bytes + 2
         /\ size[Len(input)] \in Nat /\ size[j] \in Nat /\ size[j] <= size[Len(input)]
<1>1. alloc \in Nat /\ text \in Seq(Byte) /\ lines \in Seq(Line) /\ line_bytes \in Nat /\ input \in Seq(Seq(Byte))
      /\ Len(input) \in Nat
  BY Facts
<1>2. avail = alloc - Used /\ Used \in Nat
  BY <1>1, UsedIs
<1>3. Sizes(size) /\ alloc > size[Len(input)]
  BY DEF RoomyFor
<1>4. size[j] \in Nat /\ size[j] <= size[Len(input)] /\ size[Len(input)] \in Nat
  <2>1. Len(input) \in 0..Len(input)
    BY <1>1
  <2>2. (\A i \in 0..Len(input) : size[i] \in Nat) /\ (\A i \in 0..Len(input) : size[i] <= size[Len(input)])
    BY <1>1, <1>3, SizesGrow
  <2> QED BY <2>1, <2>2, Zenon
<1>5. PICK a \in Nat, u \in Nat, b \in Nat, s \in Nat, n \in Nat :
        a = alloc /\ u = Used /\ b = line_bytes /\ s = size[j] /\ n = size[Len(input)]
  BY <1>1, <1>2, <1>4
<1>6. a > n /\ s <= n /\ u <= s - (b + 2)
  BY <1>3, <1>4, <1>5
<1>7. a - u > n - s + (b + 2) /\ a - u > b + 2
  BY <1>6
<1> QED BY <1>2, <1>4, <1>5, <1>7, Zenon

\* Moving what is left to the beginning keeps the invariant.
LEMMA FillKeeps ==
  ASSUME BufInv, Fill
  PROVE  BufInv'
<1>1. /\ input \in Seq(Seq(Byte)) /\ line_bytes \in Nat /\ files \in Seq(Seq(Byte)) /\ left \in Nat
      /\ text \in Seq(Byte) /\ lines \in Seq(Line) /\ left <= Len(text) /\ Len(input) \in Nat /\ alloc \in Nat
      /\ bufferfuls \in Seq(Seq(Seq(Byte))) /\ Len(text) \in Nat /\ line_start \in 0..Len(text)
      /\ line_start = StartOf(lines)
      /\ Types /\ Tabled(lines, text) /\ Places /\ Handed /\ Fits /\ Roomy
  BY Facts DEF BufInv
<1>2. /\ pc = "fillbuf" /\ rest' = rest /\ files' = files /\ eof' = eof
      /\ input' = input /\ bound' = bound /\ line_bytes' = line_bytes /\ halved' = halved
      /\ bufferfuls' = bufferfuls /\ direct' = direct /\ alloc' = alloc
      /\ left' = left /\ parameters' = parameters
      /\ IF eof THEN pc' = "open" /\ text' = text /\ lines' = lines
         ELSE /\ pc' = "read"
              /\ IF Len(text) # left THEN text' = MovedOf(text, left) /\ lines' = <<>>
                                     ELSE text' = text /\ lines' = lines
  BY DEF Fill, parameters, result, source, Moved, MovedOf
<1>3. left = Len(text) \/ left = Len(text) - line_start
  BY <1>1, <1>2 DEF Places, Left
<1>4. Order' /\ Opened' = Opened
  BY <1>1, <1>2, FilesStay DEF Roomy
<1>5. Kept = MovedOf(text, left)
  BY <1>2, KeptIs
<1>6. CASE eof
  <2>1. pc' = "open" /\ text' = text /\ lines' = lines
    BY <1>2, <1>6
  <2>2. rest = <<>> /\ left = 0
    BY <1>1, <1>2, <1>6 DEF Places
  <2>3. line_start = Len(text)
    BY <1>1, <1>3, <2>2
  <2>4. Types'
    BY <1>1, <1>2, <2>1 DEF Types
  <2>5. Tabled(lines, text)' /\ line_start' = line_start /\ Used' = Used /\ avail' = avail
    BY <1>1, <1>2, <2>1, TextStays, Zenon
  <2>6. Places'
    BY <1>2, <2>1, <2>2, <2>3, <2>5 DEF Places
  <2>7. Kept' = Kept
    BY <1>2, <1>5, <2>1, KeptNext
  <2>8. Handed'
    BY <1>1, <1>2, <2>7, Zenon DEF Handed, HandedOver
  <2>9. Fits'
    BY <1>1, <1>2, <2>5 DEF Fits
  <2>10. Roomy'
    <3>1. ASSUME Sized' /\ pc' # "died" PROVE FALSE
      <4>1. Sized /\ pc # "died"
        BY <1>2, <3>1, SizedStays
      <4>2. PICK size : RoomyFor(size)
        BY <1>1, <4>1, Zenon DEF Roomy
      <4> QED BY <1>2, <1>6, <4>2 DEF RoomyFor
    <3> QED BY <1>4, <3>1 DEF Roomy
  <2> QED BY <2>4, <2>5, <2>6, <2>8, <2>9, <2>10 DEF BufInv
<1>7. CASE ~eof /\ Len(text) = left
  <2>1. pc' = "read" /\ text' = text /\ lines' = lines
    BY <1>2, <1>7
  <2>2. Types'
    BY <1>1, <1>2, <2>1 DEF Types
  <2>3. Tabled(lines, text)' /\ line_start' = line_start /\ Used' = Used /\ avail' = avail
    BY <1>1, <1>2, <2>1, TextStays, Zenon
  <2>4. Places'
    BY <1>2, <1>7, <2>1 DEF Places
  <2>5. Kept' = Kept
    <3>1. Kept' = text
      BY <1>2, <2>1, KeptNext
    <3>2. MovedOf(text, left) = text
      BY <1>1, <1>7, MovedIs
    <3> QED BY <1>5, <3>1, <3>2, Zenon
  <2>6. Handed'
    BY <1>1, <1>2, <2>5, Zenon DEF Handed, HandedOver
  <2>7. Fits'
    BY <1>1, <1>2, <2>1, <2>3 DEF Fits
  <2>8. Roomy'
    <3>1. ASSUME Sized' /\ pc' # "died" PROVE \E size : RoomyFor(size)'
      <4>1. Sized /\ pc # "died"
        BY <1>2, <3>1, SizedStays
      <4>2. PICK size : RoomyFor(size)
        BY <1>1, <4>1, Zenon DEF Roomy
      <4>3. Sizes(size)'
        BY <1>2, <4>2, SizesStay, Zenon DEF RoomyFor
      <4>4. /\ alloc > size[Len(input)] /\ bufferfuls = <<>> /\ Opened > 0 /\ rest = input[Opened]
            /\ Used <= size[Opened - 1] - (line_bytes + 2) /\ line_start = Len(text)
        BY <1>2, <4>2 DEF RoomyFor
      <4>5. /\ alloc' > size[Len(input')] /\ bufferfuls' = <<>> /\ Opened' > 0 /\ rest' = input'[Opened']
            /\ Used' <= size[Opened' - 1] - (line_bytes' + 2) /\ line_start' = Len(text')
        BY <1>2, <1>4, <2>1, <2>3, <4>4, Zenon
      <4>6. RoomyFor(size)'
        BY <1>2, <1>7, <2>1, <4>3, <4>5 DEF RoomyFor
      <4> QED BY <4>6, Zenon
    <3> QED BY <1>4, <3>1 DEF Roomy
  <2> QED BY <2>2, <2>3, <2>4, <2>6, <2>7, <2>8 DEF BufInv
<1>8. CASE ~eof /\ Len(text) # left
  <2>1. pc' = "read" /\ text' = MovedOf(text, left) /\ lines' = <<>>
    BY <1>2, <1>8
  <2>2. left = Len(text) - StartOf(lines)
    BY <1>1, <1>3, <1>8
  <2>3. MovedOf(text, left) \in Seq(Byte) /\ Len(MovedOf(text, left)) = left
    BY <1>1, MovedIs
  <2>4. Types'
    <3>1. <<>> \in Seq(Line)
      OBVIOUS
    <3>2. left' <= Len(text') /\ text' \in Seq(Byte) /\ lines' \in Seq(Line)
      BY <1>1, <1>2, <2>1, <2>3, <3>1
    <3> QED BY <1>1, <1>2, <2>1, <3>2 DEF Types
  <2>5. Tabled(lines, text)'
    <3>1. Tabled(<<>>, MovedOf(text, left))
      BY <1>1, <2>2, RestOfText
    <3> QED BY <2>1, <3>1
  <2>6. line_start' = 0 /\ Len(text') = left /\ Len(lines') = 0
    BY <2>1, <2>3 DEF line_start
  <2>7. Used' = left /\ avail' = alloc - left /\ left <= Used /\ avail = alloc - Used /\ Used \in Nat
    <3>1. line_bytes * 0 = 0
      BY <1>1
    <3>2. Used' = left + 0
      BY <1>2, <2>6, <3>1, Zenon DEF Used
    <3>3. avail' = alloc - left - 0
      BY <1>2, <2>6, <3>1, Zenon DEF avail
    <3>4. line_bytes * Len(lines) \in Nat /\ Used = Len(text) + line_bytes * Len(lines) /\ Used \in Nat /\ avail = alloc - Used
      BY <1>1, UsedIs
    <3>5. PICK p \in Nat : p = line_bytes * Len(lines)
      BY <3>4
    <3>6. Used = Len(text) + p
      BY <3>4, <3>5, Zenon
    <3>7. left + 0 = left /\ alloc - left - 0 = alloc - left /\ left <= Len(text) + p
      BY <1>1
    <3> QED BY <3>2, <3>3, <3>4, <3>6, <3>7, Zenon
  <2>8. Places'
    BY <1>2, <1>8, <2>1 DEF Places
  <2>9. Kept' = Kept
    BY <1>5, <2>1, KeptNext
  <2>10. Handed'
    BY <1>1, <1>2, <2>9, Zenon DEF Handed, HandedOver
  <2>11. Fits'
    <3>1. alloc - Used >= 0
      BY <1>1, <1>2, <2>7 DEF Fits
    <3>2. alloc - left >= 0
      BY <1>1, <2>7, <3>1
    <3> QED BY <2>7, <3>2 DEF Fits
  <2>12. Roomy'
    <3>1. ASSUME Sized' /\ pc' # "died" PROVE \E size : RoomyFor(size)'
      <4>1. Sized /\ pc # "died"
        BY <1>2, <3>1, SizedStays
      <4>2. PICK size : RoomyFor(size)
        BY <1>1, <4>1, Zenon DEF Roomy
      <4>3. Sizes(size)'
        BY <1>2, <4>2, SizesStay, Zenon DEF RoomyFor
      <4>4. /\ alloc > size[Len(input)] /\ bufferfuls = <<>> /\ Opened > 0 /\ rest = input[Opened]
            /\ Used <= size[Opened - 1] - (line_bytes + 2) /\ line_start = Len(text)
        BY <1>2, <4>2 DEF RoomyFor
      <4>5. left = 0
        BY <1>1, <2>2, <4>4
      <4>6. Used' <= size[Opened' - 1] - (line_bytes' + 2)
        <5>1. PICK j \in 0..Len(input) : j = Opened - 1
          <6>1. Opened \in 0..Len(input)
            BY <1>1 DEF Roomy, Order
          <6> QED BY <1>1, <4>4, <6>1
        <5>2. Sizes(size)
          BY <4>2 DEF RoomyFor
        <5>3. size[j] \in Nat
          <6>1. \A i \in 0..Len(input) : size[i] \in Nat
            BY <1>1, <5>2, SizesGrow
          <6> QED BY <6>1
        <5>4. Used <= size[j] - (line_bytes + 2)
          BY <4>4, <5>1
        <5>5. left <= size[j] - (line_bytes + 2)
          BY <1>1, <2>7, <5>3, <5>4
        <5> QED BY <1>2, <1>4, <2>7, <5>1, <5>5, Zenon
      <4>7. alloc' > size[Len(input')] /\ bufferfuls' = <<>> /\ Opened' > 0 /\ rest' = input'[Opened']
        BY <1>2, <1>4, <4>4, Zenon
      <4>8. line_start' = Len(text')
        BY <2>6, <4>5
      <4>9. RoomyFor(size)'
        BY <1>2, <1>8, <2>1, <4>3, <4>6, <4>7, <4>8 DEF RoomyFor
      <4> QED BY <4>9, Zenon
    <3> QED BY <1>4, <3>1 DEF Roomy
  <2> QED BY <2>4, <2>5, <2>8, <2>10, <2>11, <2>12 DEF BufInv
<1> QED BY <1>6, <1>7, <1>8, Zenon

\* x2nrealloc never makes the buffer smaller.
LEMMA GrownIs ==
  ASSUME alloc \in Nat
  PROVE  Grown * LineSize \in Nat /\ Grown * LineSize >= alloc
<1>1. PICK m \in Nat \ {0} : m = LineSize
  BY InputsType
<1>2. PICK a \in Nat : a = alloc
  OBVIOUS
<1>3. a \div m \in Nat /\ a < (a \div m) * m + m
  BY AlignedIs
<1>4. PICK n \in Nat : n = a \div m
  BY <1>3
<1>5. PICK h \in Nat : h = n \div 2
  OBVIOUS
<1>6. Grown = n + h + 1
  BY <1>1, <1>2, <1>4, <1>5, Zenon DEF Grown
<1>7. (n + h + 1) * m = n * m + h * m + m
  OBVIOUS
<1>8. PICK x \in Nat, y \in Nat : x = n * m /\ y = h * m
  OBVIOUS
<1>9. a < x + m
  BY <1>3, <1>4, <1>8
<1>10. x + y + m \in Nat /\ x + y + m >= a
  BY <1>9
<1> QED BY <1>1, <1>2, <1>6, <1>7, <1>8, <1>10, Zenon

\* The end of a call of fillbuf keeps the invariant; with enough room, only the end of a file stops the reading.
LEMMA FilledKeeps ==
  ASSUME BufInv, Filled
  PROVE  BufInv'
<1>1. /\ input \in Seq(Seq(Byte)) /\ line_bytes \in Nat /\ files \in Seq(Seq(Byte)) /\ left \in Nat
      /\ text \in Seq(Byte) /\ lines \in Seq(Line) /\ left <= Len(text) /\ Len(input) \in Nat /\ alloc \in Nat
      /\ bufferfuls \in Seq(Seq(Seq(Byte))) /\ Len(text) \in Nat /\ line_start \in 0..Len(text)
      /\ line_start = StartOf(lines)
      /\ Types /\ Tabled(lines, text) /\ Places /\ Handed /\ Fits /\ Roomy
  BY Facts DEF BufInv
<1>2. /\ pc = "filled" \/ (pc = "read" /\ line_bytes + 1 >= avail)
      /\ rest' = rest /\ files' = files /\ eof' = eof
      /\ input' = input /\ bound' = bound /\ line_bytes' = line_bytes /\ halved' = halved
      /\ bufferfuls' = bufferfuls /\ direct' = direct /\ text' = text /\ lines' = lines /\ parameters' = parameters
      /\ IF lines # <<>> THEN left' = Left /\ pc' = "lines" /\ alloc' = alloc
                         ELSE alloc' = Grown * LineSize /\ pc' = "read" /\ left' = left
  BY DEF Filled, parameters, result, source
<1>3. Order' /\ Opened' = Opened
  BY <1>1, <1>2, FilesStay DEF Roomy
<1>4. Left = Len(text) - line_start /\ Left \in Nat /\ Left <= Len(text)
  BY <1>1 DEF Left
<1>5. Tabled(lines, text)' /\ line_start' = line_start /\ Used' = Used
  BY <1>1, <1>2, TextStays, Zenon
<1>6. Left' = Left
  BY <1>2, <1>5, Zenon DEF Left
<1>7. pc = "filled" => eof /\ rest = <<>> /\ line_start = Len(text) /\ lines # <<>>
  BY <1>1 DEF Places
<1>8. pc = "read" => ~eof
  BY <1>1 DEF Places
<1>9. Kept = text /\ Kept' = text
  BY <1>2, KeptIs, KeptNext
<1>10. Handed'
  BY <1>1, <1>2, <1>9, Zenon DEF Handed, HandedOver
\* With enough room, only the end of a file stops the reading.
<1>11. ASSUME Sized' /\ pc' # "died" PROVE pc = "filled" /\ \E size : RoomyFor(size)
  <2>1. Sized /\ pc # "died"
    BY <1>2, <1>11, SizedStays
  <2>2. PICK size : RoomyFor(size)
    BY <1>1, <2>1, Zenon DEF Roomy
  <2>3. ASSUME pc = "read" PROVE line_bytes + 1 < avail
    <3>1. Opened > 0 /\ Used <= size[Opened - 1] - (line_bytes + 2)
      BY <2>2, <2>3 DEF RoomyFor
    <3>2. PICK j \in 0..Len(input) : j = Opened - 1
      <4>1. Opened \in 0..Len(input)
        BY <1>1 DEF Roomy, Order
      <4> QED BY <1>1, <3>1, <4>1
    <3>3. Used <= size[j] - (line_bytes + 2)
      BY <3>1, <3>2
    <3>4. avail > line_bytes + 2
      BY <2>2, <2>3, <3>3, RoomLeft
    <3>5. avail \in Int
      BY <1>1, UsedIs
    <3> QED BY <1>1, <3>4, <3>5
  <2>4. avail \in Int
    BY <1>1, UsedIs
  <2>5. pc = "filled"
    BY <1>1, <1>2, <2>3, <2>4
  <2> QED BY <2>2, <2>5, Zenon
<1>12. CASE lines # <<>>
  <2>1. left' = Left /\ pc' = "lines" /\ alloc' = alloc
    BY <1>2, <1>12
  <2>2. Types'
    BY <1>1, <1>2, <1>4, <2>1 DEF Types
  <2>3. eof => Left = 0 /\ rest = <<>>
    BY <1>1, <1>2, <1>4, <1>7, <1>8
  <2>4. Places'
    BY <1>2, <1>6, <1>12, <2>1, <2>3 DEF Places
  <2>5. Fits'
    <3>1. avail' = avail
      BY <1>2, <2>1, TextStays, Zenon
    <3> QED BY <1>1, <1>2, <2>1, <3>1 DEF Fits
  <2>6. Roomy'
    <3>1. ASSUME Sized' /\ pc' # "died" PROVE \E size : RoomyFor(size)'
      <4>1. pc = "filled"
        BY <1>11, <3>1
      <4>2. PICK size : RoomyFor(size)
        BY <1>11, <3>1
      <4>3. Sizes(size)'
        BY <1>2, <4>2, SizesStay, Zenon DEF RoomyFor
      <4>4. /\ alloc > size[Len(input)] /\ bufferfuls = <<>> /\ Used <= size[Opened] - (line_bytes + 2)
        BY <4>1, <4>2 DEF RoomyFor
      <4>5. alloc' > size[Len(input')] /\ bufferfuls' = <<>> /\ Used' <= size[Opened'] - (line_bytes' + 2)
        BY <1>2, <1>3, <1>5, <2>1, <4>4, Zenon
      <4>6. eof'
        BY <1>2, <1>7, <4>1
      <4>7. RoomyFor(size)'
        BY <2>1, <4>3, <4>5, <4>6 DEF RoomyFor
      <4> QED BY <4>7, Zenon
    <3> QED BY <1>3, <3>1 DEF Roomy
  <2> QED BY <1>5, <1>10, <2>2, <2>4, <2>5, <2>6 DEF BufInv
<1>13. CASE lines = <<>>
  <2>1. alloc' = Grown * LineSize /\ pc' = "read" /\ left' = left /\ pc = "read"
    BY <1>2, <1>7, <1>13
  <2>2. alloc' \in Nat /\ alloc' >= alloc
    BY <1>1, <2>1, GrownIs
  <2>3. Types'
    BY <1>1, <1>2, <2>1, <2>2 DEF Types
  <2>4. Places'
    BY <1>2, <1>8, <2>1 DEF Places
  <2>5. Fits'
    <3>1. PICK p \in Nat : p = line_bytes * Len(lines)
      BY <1>1, UsedIs
    <3>2. avail = alloc - Len(text) - p /\ avail >= 0
      BY <1>1, <2>1, <3>1 DEF avail, Fits
    <3>3. avail' = alloc' - Len(text) - p
      BY <1>2, <3>1, Zenon DEF avail
    <3>4. alloc' - Len(text) - p >= 0
      <4>1. PICK a \in Nat, x \in Nat, l \in Nat : a = alloc /\ x = alloc' /\ l = Len(text)
        BY <1>1, <2>2
      <4>2. a - l - p >= 0 /\ x >= a
        BY <2>2, <3>2, <4>1
      <4>3. x - l - p >= 0
        BY <4>2
      <4> QED BY <4>1, <4>3, Zenon
    <3> QED BY <3>3, <3>4 DEF Fits
  <2>6. Roomy'
    <3>1. ~(Sized' /\ pc' # "died")
      BY <1>11, <2>1
    <3> QED BY <1>3, <3>1 DEF Roomy
  <2> QED BY <1>5, <1>10, <2>3, <2>4, <2>5, <2>6 DEF BufInv
<1> QED BY <1>12, <1>13

\* Handing over keeps the invariant; with enough room, all goes to the output.
LEMMA HandOverKeeps ==
  ASSUME BufInv, HandOver
  PROVE  BufInv'
<1>1. /\ input \in Seq(Seq(Byte)) /\ line_bytes \in Nat /\ files \in Seq(Seq(Byte)) /\ left \in Nat
      /\ text \in Seq(Byte) /\ lines \in Seq(Line) /\ left <= Len(text) /\ Len(input) \in Nat /\ alloc \in Nat
      /\ bufferfuls \in Seq(Seq(Seq(Byte))) /\ Len(text) \in Nat /\ line_start \in 0..Len(text)
      /\ line_start = StartOf(lines) /\ rest \in Seq(Byte)
      /\ Types /\ Tabled(lines, text) /\ Places /\ Handed /\ Fits /\ Roomy
  BY Facts DEF BufInv
<1>2. /\ pc = "lines" /\ ~ MayConcatenate
      /\ bufferfuls' = Append(bufferfuls, LinesAt(lines, text))
      /\ direct' = (eof /\ files = <<>> /\ bufferfuls = <<>> /\ left = 0)
      /\ pc' = IF direct' THEN "done" ELSE "fillbuf"
      /\ UNCHANGED <<parameters, source, buffer>>
  BY Zenon DEF HandOver, LinesAt
<1>3. /\ rest' = rest /\ files' = files /\ eof' = eof
      /\ input' = input /\ bound' = bound /\ line_bytes' = line_bytes /\ halved' = halved
      /\ alloc' = alloc /\ text' = text /\ lines' = lines /\ left' = left /\ parameters' = parameters
  BY <1>2 DEF parameters, source, buffer
<1>4. Order' /\ Opened' = Opened
  BY <1>1, <1>3, FilesStay DEF Roomy
<1>5. Tabled(lines, text)' /\ line_start' = line_start /\ Used' = Used /\ avail' = avail
  BY <1>1, <1>3, TextStays, Zenon
<1>6. Left' = Left
  BY <1>3, <1>5, Zenon DEF Left
<1>7. left = Left /\ (eof => left = 0 /\ rest = <<>>)
  BY <1>1, <1>2 DEF Places
<1>8. LinesAt(lines, text) \in Seq(Seq(Byte))
  BY <1>1, TableRest
<1>9. bufferfuls' \in Seq(Seq(Seq(Byte)))
  BY <1>1, <1>2, <1>8
<1>10. direct' \in BOOLEAN /\ pc' \in {"done", "fillbuf"} /\ (pc' = "done" <=> direct')
  <2>1. direct' \in BOOLEAN
    BY <1>1, <1>2 DEF Types
  <2> QED BY <1>2, <2>1
<1>11. Types'
  BY <1>1, <1>3, <1>9, <1>10 DEF Types
<1>12. Places'
  BY <1>3, <1>6, <1>7, <1>10 DEF Places
<1>13. Handed'
  <2>1. Kept = text
    BY <1>2, KeptIs
  <2>2. HandedOver(bufferfuls, text \o rest, files, input)
    BY <1>1, <2>1, Zenon DEF Handed
  <2>3. left = Len(text) - StartOf(lines)
    BY <1>1, <1>7 DEF Left
  <2>4. HandedOver(Append(bufferfuls, LinesAt(lines, text)), MovedOf(text, left) \o rest, files, input)
    BY <1>1, <2>2, <2>3, HandsLines
  <2>5. Kept' = MovedOf(text, left)
    <3>1. CASE pc' = "fillbuf"
      BY <1>3, <3>1, KeptNext
    <3>2. CASE pc' = "done"
      <4>1. left = 0
        BY <1>2, <1>10, <3>2
      <4>2. MovedOf(text, left) = <<>>
        BY <1>1, <4>1, MovedIs
      <4>3. Kept' = <<>>
        BY <3>2, KeptNext
      <4> QED BY <4>2, <4>3, Zenon
    <3> QED BY <1>10, <3>1, <3>2
  <2>6. Handed' = HandedOver(bufferfuls', Kept' \o rest', files', input')
    BY DEF Handed, HandedOver
  <2> QED BY <1>2, <1>3, <2>4, <2>5, <2>6, Zenon
<1>14. Fits'
  BY <1>1, <1>2, <1>3, <1>5 DEF Fits
<1>15. Roomy'
  <2>1. ASSUME Sized' /\ pc' # "died" PROVE \E size : RoomyFor(size)'
    <3>1. Sized /\ pc # "died"
      BY <1>2, <1>3, <2>1, SizedStays
    <3>2. PICK size : RoomyFor(size)
      BY <1>1, <3>1, Zenon DEF Roomy
    <3>3. Sizes(size)'
      BY <1>3, <3>2, SizesStay, Zenon DEF RoomyFor
    <3>4. /\ alloc > size[Len(input)] /\ bufferfuls = <<>> /\ Used <= size[Opened] - (line_bytes + 2) /\ eof
      BY <1>2, <3>2 DEF RoomyFor
    <3>5. PICK j \in 0..Len(input) : j = Opened
      BY <1>1 DEF Roomy, Order
    <3>6. Used <= size[j] - (line_bytes + 2)
      BY <3>4, <3>5
    <3>7. avail > line_bytes + 2 /\ avail \in Int
      <4>1. avail \in Int
        BY <1>1, UsedIs
      <4> QED BY <1>2, <3>2, <3>6, <4>1, RoomLeft
    <3>8. files = <<>>
      <4>1. line_bytes + 1 < avail
        BY <1>1, <3>7
      <4> QED BY <1>2, <3>4, <4>1 DEF MayConcatenate
    <3>9. direct' /\ pc' = "done"
      BY <1>2, <1>7, <1>10, <3>4, <3>8
    <3>10. alloc' > size[Len(input')]
      BY <1>3, <3>4, Zenon
    <3>11. RoomyFor(size)'
      BY <3>3, <3>9, <3>10 DEF RoomyFor
    <3> QED BY <3>11, Zenon
  <2> QED BY <1>4, <2>1 DEF Roomy
<1> QED BY <1>5, <1>11, <1>12, <1>13, <1>14, <1>15 DEF BufInv

-----------------------------------------------------------------------------
(* Reading *)

\* Min of two numbers.
LEMMA MinOf ==
  ASSUME NEW a \in Nat, NEW b \in Nat
  PROVE  Min({a, b}) = IF b < a THEN b ELSE a
<1>1. Min({a, b}) = CHOOSE x \in {a, b} : \A y \in {a, b} : x <= y
  BY DEF Min
<1>2. \E x \in {a, b} : \A y \in {a, b} : x <= y
  BY SMT
<1>3. Min({a, b}) \in {a, b} /\ \A y \in {a, b} : Min({a, b}) <= y
  BY <1>1, <1>2
<1> QED BY <1>3

\* What is needed about products.
LEMMA Products ==
  ASSUME NEW b \in Nat, NEW x \in Nat, NEW y \in Nat
  PROVE  /\ b * x \in Nat /\ b * (x + y) = b * x + b * y
         /\ x <= y => b * x <= b * y /\ x * b <= y * b
         /\ x * (b + 1) = x + b * x
OBVIOUS

\* readsize is as large as the room allows.
LEMMA readsizeIs ==
  ASSUME NEW a \in Int, NEW b \in Nat, a = avail, b = line_bytes, b + 1 < a
  PROVE  /\ readsize \in Nat /\ readsize * (b + 1) <= a - 1
         /\ \A l \in Nat : (l + 1) * (b + 1) <= a - 1 => l < readsize
<1>1. PICK x \in Nat, m \in Nat \ {0} : x = a - 1 /\ m = b + 1
  OBVIOUS
<1>2. PICK q \in Nat : q = x \div m /\ q * m <= x /\ x < q * m + m
  BY AlignedIs
<1>3. readsize = q
  BY <1>1, <1>2, Zenon DEF readsize
<1>4. ASSUME NEW l \in Nat, (l + 1) * m <= x PROVE l < q
  <2>1. ASSUME q <= l PROVE FALSE
    <3>1. q * m <= l * m
      BY <2>1, Products
    <3>2. (l + 1) * m = l * m + m
      OBVIOUS
    <3>3. PICK u \in Nat, v \in Nat : u = q * m /\ v = l * m
      OBVIOUS
    <3>4. u <= v /\ v + m <= x /\ x < u + m
      BY <1>2, <1>4, <3>1, <3>2, <3>3
    <3> QED BY <3>4
  <2> QED BY <2>1
<1> QED BY <1>1, <1>2, <1>3, <1>4

\* What a call of fread gets.
Got(c, a, b) ==
  /\ c \in 0..Len(rest) /\ c <= readsize /\ (Len(rest) < readsize => c = Len(rest))
  /\ a \in Seq(Byte) /\ Len(a) = c /\ b \in Seq(Byte) /\ rest = a \o b /\ (c = Len(rest) => b = <<>>)
  /\ Min({readsize, Len(rest)}) = c /\ SubSeq(rest, 1, c) = a /\ SubSeq(rest, c + 1, Len(rest)) = b

\* A call of fread gets the first bytes of the rest.
LEMMA GotIs ==
  ASSUME rest \in Seq(Byte), readsize \in Nat
  PROVE  \E c, a, b : Got(c, a, b)
<1>1. PICK l \in Nat, r \in Nat : l = Len(rest) /\ r = readsize
  OBVIOUS
<1>2. Min({r, l}) = IF l < r THEN l ELSE r
  BY MinOf
<1>3. PICK c \in 0..l : c = Min({r, l}) /\ c <= r /\ (l < r => c = l)
  BY <1>2
<1>4. c \in 0..Len(rest)
  BY <1>1
<1>5. PICK a, b : a = SubSeq(rest, 1, c) /\ b = SubSeq(rest, c + 1, Len(rest))
  OBVIOUS
<1>6. a \in Seq(Byte) /\ Len(a) = c /\ b \in Seq(Byte) /\ Len(b) = Len(rest) - c /\ rest = a \o b
  BY <1>4, <1>5, Split
<1>7. c = Len(rest) => b = <<>>
  BY <1>1, <1>6
<1>8. c <= readsize /\ (Len(rest) < readsize => c = Len(rest)) /\ Min({readsize, Len(rest)}) = c
  BY <1>1, <1>3, Zenon
<1>9. Got(c, a, b)
  BY <1>4, <1>5, <1>6, <1>7, <1>8, Zenon DEF Got
<1> QED BY <1>9, Zenon

\* What is needed about sequences that are joined.
LEMMA Lengths ==
  ASSUME NEW s \in Seq(Byte), NEW t \in Seq(Byte)
  PROVE  /\ Len(s) \in Nat /\ Len(s \o t) = Len(s) + Len(t)
         /\ \A k \in 1..Len(s) : (s \o t)[k] = s[k]
OBVIOUS

\* The Eol that fillbuf supplies is the one that the last line lacks.
LEMMA MustEndIs ==
  ASSUME text \in Seq(Byte), lines \in Seq(Line), Tabled(lines, text), line_start = StartOf(lines),
         NEW a \in Seq(Byte), NEW m \in Seq(Byte), m = text \o a, m # <<>>
  PROVE  MustEnd(m) <=> Last(m) # Eol
<1>1. StartOf(lines) \in 0..Len(text) /\ (StartOf(lines) = Len(text) <=> Whole(text))
  BY TableStart
<1>2. Len(m) = Len(text) + Len(a) /\ Len(text) \in Nat /\ Len(a) \in Nat
  OBVIOUS
<1>3. ASSUME Last(m) # Eol, line_start = Len(m) PROVE FALSE
  <2>1. Len(a) = 0 /\ StartOf(lines) = Len(text)
    BY <1>1, <1>2, <1>3
  <2>2. m = text
    BY <2>1
  <2> QED BY <1>1, <1>3, <2>1, <2>2 DEF Whole
<1> QED BY <1>3 DEF MustEnd

\* The bytes in the buffer once a call of fread has returned.
Joined(m, a) == m = text \o a
Now(m, t) == /\ Len(rest) < readsize => t = Ended(m)
             /\ ~(Len(rest) < readsize) => t = m

\* What is new, and the room it takes.
LEMMA NowIs ==
  ASSUME text \in Seq(Byte), rest \in Seq(Byte), readsize \in Nat, NEW c, NEW a, NEW b, Got(c, a, b),
         NEW m \in Seq(Byte), Joined(m, a), NEW t, Now(m, t)
  PROVE  /\ t \in Seq(Byte) /\ Extends(text, t) /\ Len(t) - Len(text) \in 0..readsize
         /\ t = m \/ (t = Append(m, Eol) /\ m # <<>> /\ Last(m) # Eol /\ Len(rest) < readsize)
<1>1. c \in Nat /\ c <= readsize /\ (Len(rest) < readsize => c < readsize) /\ Len(a) = c /\ a \in Seq(Byte)
  BY DEF Got
<1>2. Len(m) = Len(text) + c /\ Len(text) \in Nat /\ \A k \in 1..Len(text) : m[k] = text[k]
  BY <1>1, Lengths, Zenon DEF Joined
<1>3. t = m \/ (t = Append(m, Eol) /\ m # <<>> /\ Last(m) # Eol /\ Len(rest) < readsize)
  BY DEF Now, Ended
<1>4. Eol \in Byte
  BY DEF Byte
<1>5. CASE t = m
  BY <1>1, <1>2, <1>5 DEF Extends
<1>6. CASE t = Append(m, Eol) /\ m # <<>> /\ Last(m) # Eol /\ Len(rest) < readsize
  <2>1. t \in Seq(Byte) /\ Len(t) = Len(m) + 1 /\ \A k \in 1..Len(m) : t[k] = m[k]
    BY <1>4, <1>6
  <2> QED BY <1>1, <1>2, <1>6, <2>1 DEF Extends
<1> QED BY <1>3, <1>5, <1>6

\* Reading changes the room that is used.
LEMMA UsedNow ==
  ASSUME alloc \in Nat, text \in Seq(Byte), lines \in Seq(Line), line_bytes \in Nat,
         line_bytes' = line_bytes, alloc' = alloc,
         NEW d \in Nat, NEW e \in Nat, Len(text') = Len(text) + d, Len(lines') = Len(lines) + e
  PROVE  Used' = Used + (d + line_bytes * e) /\ avail' = avail - (d + line_bytes * e)
<1>1. PICK l \in Nat, n \in Nat, b \in Nat, x \in Nat : l = Len(text) /\ n = Len(lines) /\ b = line_bytes /\ x = alloc
  OBVIOUS
<1>2. PICK p \in Nat, q \in Nat : p = b * n /\ q = b * e
  OBVIOUS
<1>3. b * (n + e) = p + q
  BY <1>2, Products
<1>4. Used = l + p /\ avail = x - l - p
  BY <1>1, <1>2, Zenon DEF Used, avail
<1>5. Used' = (l + d) + (p + q) /\ avail' = x - (l + d) - (p + q)
  BY <1>1, <1>3, Zenon DEF Used, avail
<1>6. (l + d) + (p + q) = (l + p) + (d + q) /\ x - (l + d) - (p + q) = (x - l - p) - (d + q)
  OBVIOUS
<1> QED BY <1>1, <1>2, <1>4, <1>5, <1>6, Zenon

\* With enough room, the rest of a file is read at once.
LEMMA EndsAtOnce ==
  ASSUME BufInv, pc = "read", line_bytes + 1 < avail, NEW size, RoomyFor(size)
  PROVE  /\ Len(rest) < readsize /\ line_start = Len(text) /\ bufferfuls = <<>> /\ alloc > size[Len(input)]
         /\ Worst(rest) \in Nat /\ Used + Worst(rest) <= size[Opened] - (line_bytes + 2)
<1>1. /\ input \in Seq(Seq(Byte)) /\ line_bytes \in Nat /\ rest \in Seq(Byte) /\ alloc \in Nat
      /\ text \in Seq(Byte) /\ lines \in Seq(Line) /\ Len(input) \in Nat
  BY Facts
<1>2. /\ Sizes(size) /\ Opened > 0 /\ rest = input[Opened] /\ Used <= size[Opened - 1] - (line_bytes + 2)
      /\ line_start = Len(text) /\ bufferfuls = <<>> /\ alloc > size[Len(input)]
  BY DEF RoomyFor
<1>3. PICK o \in 1..Len(input) : o = Opened
  <2>1. Opened \in 0..Len(input)
    BY DEF BufInv, Roomy, Order
  <2> QED BY <1>1, <1>2, <2>1
<1>4. PICK j \in 0..Len(input) : j = o - 1
  BY <1>1
<1>5. Used <= size[j] - (line_bytes + 2)
  BY <1>2, <1>3, <1>4
<1>6. /\ avail > size[Len(input)] - size[j] + (line_bytes + 2)
      /\ size[Len(input)] \in Nat /\ size[j] \in Nat
  BY <1>5, RoomLeft
<1>7. Worst(rest) \in Nat /\ size[o] = size[j] + Worst(rest) /\ size[o] <= size[Len(input)] /\ size[o] \in Nat
  <2>1. /\ \A i \in 0..Len(input) : size[i] \in Nat
        /\ \A i \in 1..Len(input) : Worst(input[i]) \in Nat /\ size[i] = size[i - 1] + Worst(input[i])
        /\ \A i \in 0..Len(input) : size[i] <= size[Len(input)]
    BY <1>1, <1>2, SizesGrow
  <2>2. o \in 0..Len(input)
    BY <1>1
  <2> QED BY <1>2, <1>3, <1>4, <2>1, <2>2
<1>8. avail \in Int /\ Used \in Nat
  BY <1>1, UsedIs
<1>9. PICK l \in Nat, lb \in Nat, v \in Int, u \in Nat, w \in Nat, s \in Nat, r \in Nat, z \in Nat :
        /\ l = Len(rest) /\ lb = line_bytes /\ v = avail /\ u = Used /\ w = Worst(rest)
        /\ s = size[j] /\ r = size[o] /\ z = size[Len(input)]
  <2>1. Len(rest) \in Nat /\ line_bytes \in Nat
    BY <1>1
  <2> QED BY <1>6, <1>7, <1>8, <2>1, Zenon
<1>10. w = l * (lb + 1) + 1
  BY <1>9, Zenon DEF Worst
<1>11. v > z - s + (lb + 2) /\ r = s + w /\ r <= z /\ u <= s - (lb + 2) /\ lb + 1 < v
  BY <1>5, <1>6, <1>7, <1>9
<1>12. (l + 1) * (lb + 1) = l * (lb + 1) + lb + 1
  OBVIOUS
<1>13. PICK x \in Nat : x = l * (lb + 1)
  OBVIOUS
<1>14. (l + 1) * (lb + 1) <= v - 1
  BY <1>10, <1>11, <1>12, <1>13
<1>15. l < readsize
  BY <1>9, <1>11, <1>14, readsizeIs
<1>16. u + w <= r - (lb + 2)
  BY <1>11
<1> QED BY <1>2, <1>3, <1>7, <1>9, <1>15, <1>16, Zenon

Grew(t, d, e) == d = Len(t) - Len(text) /\ e = Cardinality(NewEols(text, t))

\* The bytes that are new, and their lines, take no more room than was counted for the file.
LEMMA WorstIs ==
  ASSUME BufInv, readsize \in Nat, NEW c, NEW a, NEW b, Got(c, a, b), Len(rest) < readsize, line_start = Len(text),
         NEW m \in Seq(Byte), Joined(m, a), NEW t, Now(m, t),
         NEW d \in Nat, NEW e \in Nat, Grew(t, d, e)
  PROVE  d + line_bytes * e <= Worst(rest)
<1>1. line_bytes \in Nat /\ text \in Seq(Byte) /\ rest \in Seq(Byte) /\ lines \in Seq(Line) /\ Tabled(lines, text)
      /\ line_start = StartOf(lines)
  BY Facts
<1>2. c = Len(rest) /\ Len(a) = c /\ a \in Seq(Byte)
  BY DEF Got
<1>3. PICK l \in Nat, lb \in Nat, n \in Nat : l = Len(rest) /\ lb = line_bytes /\ n = Len(text)
  <2>1. Len(rest) \in Nat /\ Len(text) \in Nat /\ line_bytes \in Nat
    BY <1>1, Lengths, Zenon
  <2> QED BY <2>1, Zenon
<1>4. Worst(rest) = l * (lb + 1) + 1
  BY <1>3, Zenon DEF Worst
<1>5. l * (lb + 1) = l + lb * l /\ lb * l \in Nat
  BY Products
<1>6. t \in Seq(Byte) /\ Extends(text, t)
      /\ (t = m \/ (t = Append(m, Eol) /\ m # <<>> /\ Last(m) # Eol /\ Len(rest) < readsize))
  BY <1>1, NowIs
<1>7. Len(m) = n + l
  <2>1. Len(text \o a) = Len(text) + Len(a)
    BY <1>1, <1>2, Lengths, Zenon
  <2> QED BY <1>2, <1>3, <2>1, Zenon DEF Joined
<1>8. e <= d /\ (Len(t) - 1 > n /\ t[Len(t) - 1] # Eol => e <= d - 1)
  <2>1. Len(text) <= Len(t)
    BY <1>6 DEF Extends
  <2>2. /\ Cardinality(NewEols(text, t)) <= Len(t) - Len(text)
        /\ Len(t) - 1 > Len(text) /\ t[Len(t) - 1] # Eol =>
              Cardinality(NewEols(text, t)) <= Len(t) - Len(text) - 1
    BY <1>1, <1>6, <2>1, FewEols
  <2> QED BY <1>3, <2>2, Zenon DEF Grew
<1>9. d <= l + 1 /\ e <= l
  <2>0. d = Len(t) - n
    BY <1>3 DEF Grew
  <2>1. CASE t = m
    BY <1>3, <1>7, <1>8, <2>0, <2>1
  <2>2. CASE t = Append(m, Eol) /\ m # <<>> /\ Last(m) # Eol
    <3>1. Len(t) = n + l + 1 /\ d = l + 1
      BY <1>3, <1>7, <2>0, <2>2
    <3>2. l > 0
      <4>1. ASSUME l = 0 PROVE FALSE
        <5>1. m = text
          BY <1>1, <1>2, <1>3, <4>1 DEF Joined
        <5>2. Whole(text)
          BY <1>1, TableStart
        <5> QED BY <2>2, <5>1, <5>2 DEF Whole
      <4> QED BY <4>1
    <3>3. t[Len(t) - 1] = Last(m)
      BY <1>7, <2>2, <3>1, <3>2 DEF Last
    <3> QED BY <1>8, <2>2, <3>1, <3>2, <3>3
  <2> QED BY <1>6, <2>1, <2>2
<1>10. lb * e <= lb * l /\ lb * e \in Nat
  BY <1>9, Products
<1>11. PICK x \in Nat, y \in Nat : x = lb * e /\ y = lb * l
  BY <1>5, <1>10
<1>12. d + x <= l + y + 1
  BY <1>9, <1>10, <1>11
<1>13. d + line_bytes * e = d + x
  BY <1>3, <1>11, Zenon
<1>14. Worst(rest) = l + y + 1
  BY <1>4, <1>5, <1>11, Zenon
<1> QED BY <1>12, <1>13, <1>14, Zenon

\* What was not handed over is what was in the buffer and what is read.
LEMMA HandedNow ==
  ASSUME NEW done, NEW fs, NEW in, text \in Seq(Byte), rest \in Seq(Byte), NEW c, NEW a, NEW b, Got(c, a, b),
         NEW m \in Seq(Byte), Joined(m, a), NEW t, Now(m, t), HandedOver(done, text \o rest, fs, in)
  PROVE  HandedOver(done, t \o b, fs, in)
<1>1. rest = a \o b /\ a \in Seq(Byte) /\ b \in Seq(Byte) /\ (Len(rest) < readsize => c = Len(rest))
      /\ (c = Len(rest) => b = <<>>)
  BY DEF Got
<1>2. m \o b = text \o rest
  <2>1. Regroups(text, a, b)
    BY <1>1, Associative
  <2> QED BY <1>1, <2>1, Zenon DEF Regroups, Joined
<1>3. LinesOf(t \o b) = LinesOf(m \o b)
  <2>1. CASE Len(rest) < readsize
    <3>1. b = <<>> /\ t = Ended(m)
      BY <1>1, <2>1 DEF Now
    <3>2. Ended(m) \in Seq(Byte) /\ LinesOf(Ended(m)) = LinesOf(m)
      BY EndedIs, LinesEnded
    <3>3. \A s \in Seq(Byte) : s \o <<>> = s
      OBVIOUS
    <3> QED BY <3>1, <3>2, <3>3, Zenon
  <2>2. CASE ~(Len(rest) < readsize)
    BY <2>2 DEF Now
  <2> QED BY <2>1, <2>2
<1> QED BY <1>2, <1>3, Zenon DEF HandedOver

\* Reading keeps the invariant.
LEMMA ReadKeeps ==
  ASSUME BufInv, Read
  PROVE  BufInv'
<1>1. /\ input \in Seq(Seq(Byte)) /\ line_bytes \in Nat /\ files \in Seq(Seq(Byte)) /\ left \in Nat
      /\ text \in Seq(Byte) /\ lines \in Seq(Line) /\ left <= Len(text) /\ Len(input) \in Nat /\ alloc \in Nat
      /\ bufferfuls \in Seq(Seq(Seq(Byte))) /\ Len(text) \in Nat /\ Len(lines) \in Nat /\ line_start \in 0..Len(text)
      /\ line_start = StartOf(lines) /\ rest \in Seq(Byte)
      /\ Types /\ Tabled(lines, text) /\ Places /\ Handed /\ Fits /\ Roomy
  BY Facts DEF BufInv
<1>2. pc = "read" /\ line_bytes + 1 < avail
  BY DEF Read
<1>3. avail \in Int /\ avail = alloc - Used /\ Used \in Nat
  BY <1>1, UsedIs
<1>4. /\ readsize \in Nat /\ readsize * (line_bytes + 1) <= avail - 1
  BY <1>1, <1>2, <1>3, readsizeIs
<1>5. PICK c, a, b : Got(c, a, b)
  BY <1>1, <1>4, GotIs
<1>6. /\ a \in Seq(Byte) /\ b \in Seq(Byte) /\ Len(a) = c /\ c \in Nat
      /\ Min({readsize, Len(rest)}) = c /\ SubSeq(rest, 1, c) = a /\ SubSeq(rest, c + 1, Len(rest)) = b
      /\ (Len(rest) < readsize => c = Len(rest)) /\ (c = Len(rest) => b = <<>>)
  BY <1>5 DEF Got
<1>7. PICK m \in Seq(Byte) : Joined(m, a)
  <2>1. text \o a \in Seq(Byte)
    BY <1>1, <1>6
  <2> QED BY <2>1 DEF Joined
<1>8. PICK ends \in BOOLEAN : ends <=> Len(rest) < readsize
  <2>1. (Len(rest) < readsize) \in BOOLEAN
    OBVIOUS
  <2> QED BY <2>1
<1>9. PICK t : t = IF ends /\ MustEnd(m) THEN Append(m, Eol) ELSE m
  OBVIOUS
<1>10. /\ rest' = b /\ (eof' <=> ends) /\ eof' \in BOOLEAN
       /\ IF ends /\ m = <<>> THEN pc' = "open" /\ text' = text /\ lines' = lines
          ELSE text' = t /\ lines' = lines \o NewLines(t) /\ pc' = IF ends THEN "filled" ELSE "read"
       /\ files' = files /\ input' = input /\ bound' = bound /\ line_bytes' = line_bytes /\ halved' = halved
       /\ bufferfuls' = bufferfuls /\ direct' = direct /\ alloc' = alloc /\ left' = left /\ parameters' = parameters
  <2>1. /\ rest' = b /\ eof' = (Len(rest) < readsize)
        /\ IF (Len(rest) < readsize) /\ m = <<>> THEN pc' = "open" /\ text' = text /\ lines' = lines
           ELSE LET all == IF (Len(rest) < readsize) /\ MustEnd(m) THEN Append(m, Eol) ELSE m
                IN text' = all /\ lines' = lines \o NewLines(all) /\ pc' = IF (Len(rest) < readsize) THEN "filled" ELSE "read"
        /\ UNCHANGED <<parameters, result, files, alloc, left>>
    BY <1>6, <1>7, Zenon DEF Read, Joined
  <2>2. (Len(rest) < readsize) = ends
    BY <1>8
  <2>3. /\ rest' = b /\ eof' = ends
        /\ IF ends /\ m = <<>> THEN pc' = "open" /\ text' = text /\ lines' = lines
           ELSE text' = t /\ lines' = lines \o NewLines(t) /\ pc' = IF ends THEN "filled" ELSE "read"
        /\ UNCHANGED <<parameters, result, files, alloc, left>>
    BY <1>9, <2>1, <2>2, Zenon
  <2> QED BY <1>8, <2>3 DEF parameters, result
<1>11. Order' /\ Opened' = Opened
  BY <1>1, <1>10, FilesStay DEF Roomy
<1>12. Kept = text
  BY <1>2, KeptIs
<1>13. HandedOver(bufferfuls, text \o rest, files, input)
  BY <1>1, <1>12, Zenon DEF Handed
<1>14. Handed' = HandedOver(bufferfuls', Kept' \o rest', files', input')
  BY DEF Handed, HandedOver
<1>15. ASSUME Sized' /\ pc' # "died"
       PROVE  \E size : /\ RoomyFor(size) /\ Sizes(size)' /\ ends /\ line_start = Len(text)
                        /\ alloc' > size[Len(input')] /\ bufferfuls' = <<>>
                        /\ Worst(rest) \in Nat /\ Used + Worst(rest) <= size[Opened] - (line_bytes + 2)
  <2>1. Sized /\ pc # "died"
    BY <1>2, <1>10, <1>15, SizedStays
  <2>2. PICK size : RoomyFor(size)
    BY <1>1, <2>1, Zenon DEF Roomy
  <2>3. Sizes(size)'
    BY <1>10, <2>2, SizesStay, Zenon DEF RoomyFor
  <2>4. /\ Len(rest) < readsize /\ line_start = Len(text) /\ bufferfuls = <<>> /\ alloc > size[Len(input)]
        /\ Worst(rest) \in Nat /\ Used + Worst(rest) <= size[Opened] - (line_bytes + 2)
    BY <1>2, <2>2, EndsAtOnce
  <2>5. alloc' > size[Len(input')] /\ bufferfuls' = <<>>
    BY <1>10, <2>4, Zenon
  <2> QED BY <1>8, <2>2, <2>3, <2>4, <2>5, Zenon
\* The file is empty, and so is the buffer.
<1>16. CASE ends /\ m = <<>>
  <2>1. pc' = "open" /\ text' = text /\ lines' = lines
    BY <1>10, <1>16
  <2>2. text = <<>> /\ a = <<>> /\ b = <<>> /\ rest = <<>>
    <3>1. Len(m) = Len(text) + Len(a) /\ Len(text) \in Nat /\ Len(a) \in Nat
      BY <1>1, <1>6, <1>7, Lengths, Zenon DEF Joined
    <3>2. Len(m) = 0
      BY <1>16
    <3>3. Len(text) = 0 /\ Len(a) = 0
      <4>1. PICK x \in Nat, y \in Nat : x = Len(text) /\ y = Len(a)
        BY <3>1, Zenon
      <4>2. x + y = 0
        BY <3>1, <3>2, <4>1, Zenon
      <4>3. x = 0 /\ y = 0
        BY <4>2
      <4> QED BY <4>1, <4>3, Zenon
    <3>4. text = <<>> /\ a = <<>>
      BY <1>1, <1>6, <3>3
    <3>5. c = Len(rest) /\ b = <<>> /\ Len(rest) = 0
      BY <1>6, <1>8, <1>16, <3>3
    <3>6. rest = <<>>
      BY <1>1, <3>5
    <3> QED BY <3>4, <3>5, <3>6
  <2>3. left = 0 /\ Len(text) = 0 /\ line_start = Len(text)
    BY <1>1, <2>2
  <2>4. Types'
    BY <1>1, <1>6, <1>10, <2>1 DEF Types
  <2>5. Tabled(lines, text)' /\ line_start' = line_start /\ Used' = Used /\ avail' = avail
    BY <1>1, <1>10, <2>1, TextStays, Zenon
  <2>6. Places'
    <3>1. rest' = <<>> /\ line_start' = Len(text') /\ left' = 0
      BY <1>10, <2>1, <2>2, <2>3, <2>5, Zenon
    <3> QED BY <2>1, <3>1 DEF Places
  <2>7. Handed'
    <3>1. Kept' = MovedOf(text, left)
      BY <1>10, <2>1, KeptNext
    <3>2. MovedOf(text, left) = <<>>
      BY <1>1, <2>3, MovedIs
    <3>3. Kept' = text /\ rest' = rest
      BY <1>10, <2>2, <3>1, <3>2, Zenon
    <3> QED BY <1>10, <1>13, <1>14, <3>3, Zenon
  <2>8. Fits'
    BY <1>1, <1>2, <2>5 DEF Fits
  <2>9. Roomy'
    <3>1. ASSUME Sized' /\ pc' # "died" PROVE \E size : RoomyFor(size)'
      <4>1. PICK size : /\ RoomyFor(size) /\ Sizes(size)' /\ alloc' > size[Len(input')] /\ bufferfuls' = <<>>
                        /\ Worst(rest) \in Nat /\ Used + Worst(rest) <= size[Opened] - (line_bytes + 2)
        BY <1>15, <3>1, Zenon
      <4>2. size[Opened] \in Nat
        <5>1. Sizes(size)
          BY <4>1 DEF RoomyFor
        <5>2. \A j \in 0..Len(input) : size[j] \in Nat
          BY <1>1, <5>1, SizesGrow
        <5> QED BY <1>1, <5>2, Zenon DEF Roomy, Order
      <4>3. Used <= size[Opened] - (line_bytes + 2)
        <5>1. PICK u \in Nat, w \in Nat, s \in Nat, lb \in Nat :
                u = Used /\ w = Worst(rest) /\ s = size[Opened] /\ lb = line_bytes
          BY <1>1, <1>3, <4>1, <4>2, Zenon
        <5>2. u + w <= s - (lb + 2)
          BY <4>1, <5>1, Zenon
        <5>3. u <= s - (lb + 2)
          BY <5>2
        <5> QED BY <5>1, <5>3, Zenon
      <4>4. Used' <= size[Opened'] - (line_bytes' + 2)
        BY <1>10, <1>11, <2>5, <4>3, Zenon
      <4>5. RoomyFor(size)'
        BY <2>1, <4>1, <4>4 DEF RoomyFor
      <4> QED BY <4>5, Zenon
    <3> QED BY <1>11, <3>1 DEF Roomy
  <2> QED BY <2>4, <2>5, <2>6, <2>7, <2>8, <2>9 DEF BufInv
<1>17. CASE ~(ends /\ m = <<>>)
  <2>1. text' = t /\ lines' = lines \o NewLines(t) /\ pc' = IF ends THEN "filled" ELSE "read"
    BY <1>10, <1>17
  <2>2. Now(m, t)
    <3>1. CASE ends
      <4>1. m # <<>> /\ m = text \o a
        BY <1>7, <1>17, <3>1 DEF Joined
      <4>2. MustEnd(m) <=> Last(m) # Eol
        BY <1>1, <1>6, <4>1, MustEndIs
      <4> QED BY <1>8, <1>9, <3>1, <4>1, <4>2 DEF Now, Ended
    <3>2. CASE ~ends
      BY <1>8, <1>9, <3>2 DEF Now
    <3> QED BY <3>1, <3>2
  <2>3. t \in Seq(Byte) /\ Extends(text, t) /\ Len(t) - Len(text) \in 0..readsize
    BY <1>1, <1>4, <1>5, <1>7, <2>2, NowIs
  <2>4. /\ lines \o NewLines(t) \in Seq(Line) /\ Tabled(lines \o NewLines(t), t)
        /\ Len(lines \o NewLines(t)) = Len(lines) + Cardinality(NewEols(text, t))
    BY <1>1, <2>3, TableGrows
  <2>5. PICK d \in 0..readsize : d = Len(t) - Len(text)
    BY <2>3, Zenon
  <2>6. PICK e \in Nat : e = Cardinality(NewEols(text, t)) /\ e <= d
    <3>1. Len(text) <= Len(t)
      BY <2>3 DEF Extends
    <3>2. Cardinality(NewEols(text, t)) \in Nat /\ Cardinality(NewEols(text, t)) <= Len(t) - Len(text)
      BY <1>1, <2>3, <3>1, FewEols
    <3> QED BY <2>5, <3>2, Zenon
  <2>7. Grew(t, d, e)
    BY <2>5, <2>6, Zenon DEF Grew
  <2>8. d \in Nat /\ Len(text') = Len(text) + d /\ Len(lines') = Len(lines) + e
    <3>1. Len(t) \in Nat
      BY <2>3
    <3>2. d \in Nat /\ Len(t) = Len(text) + d
      BY <1>1, <1>4, <2>5, <3>1
    <3> QED BY <2>1, <2>4, <2>6, <3>2, Zenon
  <2>9. Used' = Used + (d + line_bytes * e) /\ avail' = avail - (d + line_bytes * e)
    BY <1>1, <1>10, <2>8, UsedNow
  <2>10. Types'
    <3>1. left' <= Len(text')
      BY <1>1, <1>10, <2>8
    <3>2. text' \in Seq(Byte) /\ lines' \in Seq(Line)
      BY <2>1, <2>3, <2>4, Zenon
    <3>3. pc' \in {"filled", "read"}
      BY <2>1
    <3> QED BY <1>1, <1>6, <1>10, <3>1, <3>2, <3>3 DEF Types
  <2>11. Tabled(lines, text)'
    <3>1. Tabled(lines', text')
      BY <2>1, <2>4, Zenon
    <3> QED BY <3>1
  <2>12. Places'
    <3>1. CASE ends
      <4>1. c = Len(rest) /\ b = <<>> /\ t = Ended(m) /\ m # <<>>
        BY <1>6, <1>8, <1>17, <2>2, <3>1 DEF Now
      <4>2. t # <<>> /\ Whole(t)
        BY <1>7, <4>1 DEF Ended, Whole, Last
      <4>3. line_start' = StartOf(lines \o NewLines(t))
        BY <2>1, Zenon DEF line_start, StartOf
      <4>4. line_start' = Len(t) /\ lines' # <<>>
        <5>1. /\ lines \o NewLines(t) = <<>> <=> StartOf(lines \o NewLines(t)) = 0
              /\ StartOf(lines \o NewLines(t)) = Len(t) <=> Whole(t)
          BY <2>3, <2>4, TableStart
        <5>2. Len(t) # 0
          BY <2>3, <4>2
        <5> QED BY <2>1, <4>2, <4>3, <5>1, <5>2, Zenon
      <4>5. line_start' = Len(text') /\ rest' = <<>>
        BY <1>10, <2>1, <4>1, <4>4, Zenon
      <4> QED BY <1>10, <2>1, <3>1, <4>4, <4>5 DEF Places
    <3>2. CASE ~ends
      BY <1>10, <2>1, <3>2 DEF Places
    <3> QED BY <3>1, <3>2
  <2>13. Handed'
    <3>1. Kept' = t
      <4>1. Kept' = text'
        BY <2>1, KeptNext
      <4> QED BY <2>1, <4>1
    <3>2. HandedOver(bufferfuls, t \o b, files, input)
      BY <1>1, <1>5, <1>6, <1>7, <1>13, <2>2, HandedNow
    <3> QED BY <1>10, <1>14, <3>1, <3>2, Zenon
  <2>14. Fits'
    <3>1. PICK r \in Nat, lb \in Nat, v \in Int : r = readsize /\ lb = line_bytes /\ v = avail
      BY <1>1, <1>3, <1>4
    <3>2. r * (lb + 1) <= v - 1
      BY <1>4, <3>1
    <3>3. d <= r
      BY <2>5, <3>1
    <3>4. lb * e <= lb * d /\ lb * e \in Nat /\ lb * d \in Nat /\ d * (lb + 1) = d + lb * d
          /\ d * (lb + 1) <= r * (lb + 1)
      <4>1. d \in Nat /\ e \in Nat /\ lb \in Nat /\ lb + 1 \in Nat /\ r \in Nat /\ e <= d /\ d <= r
        BY <2>6, <2>8, <3>1, <3>3
      <4>2. lb * e <= lb * d /\ lb * e \in Nat /\ lb * d \in Nat /\ d * (lb + 1) = d + lb * d
        BY <4>1, Products, Zenon
      <4>3. d * (lb + 1) <= r * (lb + 1)
        BY <4>1, Products, Zenon
      <4> QED BY <4>2, <4>3
    <3>5. PICK x \in Nat, y \in Nat, z \in Int : x = lb * e /\ y = lb * d /\ z = r * (lb + 1)
      BY <3>4
    <3>6. v - (d + x) >= 0
      <4>1. x <= y /\ d + y <= z /\ z <= v - 1
        BY <3>2, <3>4, <3>5
      <4> QED BY <2>8, <4>1
    <3>7. avail' = v - (d + x)
      BY <2>9, <3>1, <3>5, Zenon
    <3> QED BY <3>6, <3>7 DEF Fits
  <2>15. Roomy'
    <3>1. ASSUME Sized' /\ pc' # "died" PROVE \E size : RoomyFor(size)'
      <4>1. PICK size : /\ RoomyFor(size) /\ Sizes(size)' /\ ends /\ line_start = Len(text)
                        /\ alloc' > size[Len(input')] /\ bufferfuls' = <<>>
                        /\ Worst(rest) \in Nat /\ Used + Worst(rest) <= size[Opened] - (line_bytes + 2)
        BY <1>15, <3>1, Zenon
      <4>2. size[Opened] \in Nat
        <5>1. Sizes(size)
          BY <4>1 DEF RoomyFor
        <5>2. \A j \in 0..Len(input) : size[j] \in Nat
          BY <1>1, <5>1, SizesGrow
        <5> QED BY <1>1, <5>2, Zenon DEF Roomy, Order
      <4>3. d + line_bytes * e <= Worst(rest)
        BY <1>4, <1>5, <1>7, <1>8, <2>2, <2>7, <2>8, <4>1, WorstIs
      <4>4. PICK x \in Nat, u \in Nat, w \in Nat, s \in Nat, lb \in Nat :
              x = d + line_bytes * e /\ u = Used /\ w = Worst(rest) /\ s = size[Opened] /\ lb = line_bytes
        <5>1. line_bytes * e \in Nat
          BY <1>1, Products
        <5>2. d + line_bytes * e \in Nat
          BY <2>8, <5>1
        <5> QED BY <1>1, <1>3, <4>1, <4>2, <5>2, Zenon
      <4>5. u + x <= s - (lb + 2)
        <5>1. u + w <= s - (lb + 2) /\ x <= w
          BY <4>1, <4>3, <4>4, Zenon
        <5> QED BY <5>1
      <4>6. Used' <= size[Opened'] - (line_bytes' + 2)
        BY <1>10, <1>11, <2>9, <4>4, <4>5, Zenon
      <4>7. pc' = "filled"
        BY <2>1, <4>1
      <4>8. RoomyFor(size)'
        BY <4>1, <4>6, <4>7 DEF RoomyFor
      <4> QED BY <4>8, Zenon
    <3> QED BY <1>11, <3>1 DEF Roomy
  <2> QED BY <2>10, <2>11, <2>12, <2>13, <2>14, <2>15 DEF BufInv
<1> QED BY <1>16, <1>17

-----------------------------------------------------------------------------
(* The theorem *)

\* The size that sort_buffer_size computes is the room all the files need.
LEMMA BufInit == Init => BufInv
<1> SUFFICES ASSUME Init PROVE BufInv
  OBVIOUS
<1>1. /\ input \in Inputs /\ bound \in Bounds /\ line_bytes \in LineBytes /\ halved = FALSE
      /\ alloc = sort_buffer_size(input, bound, line_bytes)
      /\ text = <<>> /\ lines = <<>> /\ left = 0 /\ eof = FALSE /\ rest = <<>> /\ files = input
      /\ bufferfuls = <<>> /\ direct = FALSE /\ pc = "initbuf"
  BY DEF Init
<1>2. input \in Seq(Seq(Byte)) /\ bound \in Nat /\ line_bytes \in Nat
  BY <1>1, InputsType
<1>3. PICK size : SizesTo(size, input, bound, line_bytes) /\ sort_buffer_size(input, bound, line_bytes) = size[Len(input)]
  BY <1>2, BufferSize
<1>4. Len(input) \in Nat /\ alloc = size[Len(input)] /\ alloc \in Nat
  <2>1. Len(input) \in Nat
    BY <1>2
  <2>2. size \in [0..Len(input) -> Nat]
    BY <1>3, Zenon DEF SizesTo
  <2>3. Len(input) \in 0..Len(input)
    BY <2>1
  <2>4. size[Len(input)] \in Nat
    BY <2>2, <2>3
  <2> QED BY <1>1, <1>3, <2>1, <2>4, Zenon
<1>5. Types
  <2>1. <<>> \in Seq(Byte) /\ <<>> \in Seq(Line) /\ <<>> \in Seq(Seq(Seq(Byte))) /\ 0 <= Len(<<>>)
    OBVIOUS
  <2> QED BY <1>1, <1>2, <1>4, <2>1 DEF Types
<1>6. Tabled(lines, text)
  <2>1. EolsOf(<<>>) = {}
    BY DEF EolsOf
  <2>2. Tabled(<<>>, <<>>)
    BY <2>1 DEF Tabled, Enumerates
  <2> QED BY <1>1, <2>2
<1>7. Places
  BY <1>1 DEF Places
<1>8. Handed
  <2>1. Kept = <<>>
    BY <1>1, KeptIs
  <2>2. AllLinesOf(input) \in Seq(Seq(Byte))
    BY <1>2, AllLinesType
  <2>3. Kept \o rest = <<>>
    BY <1>1, <2>1
  <2>4. FlattenSeq(bufferfuls) = <<>>
    <3>1. <<>> \in Seq(Seq(Seq(Byte)))
      OBVIOUS
    <3>2. \A ss \in Seq(Seq(Seq(Byte))) : ss = <<>> => FlattenSeq(ss) = <<>>
      BY FlattenType
    <3> QED BY <1>1, <3>1, <3>2
  <2>5. \A s \in Seq(Seq(Byte)) : (<<>> \o <<>>) \o s = s
    OBVIOUS
  <2> QED BY <1>1, <2>2, <2>3, <2>4, <2>5, LinesEmpty, Zenon DEF Handed, HandedOver
<1>9. Fits
  BY <1>1 DEF Fits
<1>10. Roomy
  <2>1. Opened = 0 /\ Order
    BY <1>1, <1>2, <1>4 DEF Opened, Order
  <2>2. ASSUME Sized PROVE RoomyFor(size)
    <3>1. size[Len(input)] # bound
      BY <1>3, <2>2 DEF Sized
    <3>2. \A k \in 1..Len(input) : size[k] = size[k - 1] + (Len(input[k]) * (line_bytes + 1) + 1)
      BY <1>2, <1>3, <3>1, SizedSums
    <3>3. Sizes(size)
      BY <1>3, <3>2, Zenon DEF Sizes, SizesTo, Worst
    <3> QED BY <1>1, <1>4, <3>3 DEF RoomyFor
  <2> QED BY <2>1, <2>2, Zenon DEF Roomy
<1> QED BY <1>5, <1>6, <1>7, <1>8, <1>9, <1>10 DEF BufInv

\* So does a step that changes nothing.
LEMMA StutterKeeps ==
  ASSUME BufInv, UNCHANGED vars
  PROVE  BufInv'
<1>1. /\ text \in Seq(Byte) /\ Types /\ Tabled(lines, text) /\ Places /\ Handed /\ Fits /\ Roomy
  BY Facts DEF BufInv
<1>2. /\ rest' = rest /\ files' = files /\ eof' = eof /\ pc' = pc
      /\ input' = input /\ bound' = bound /\ line_bytes' = line_bytes /\ halved' = halved
      /\ bufferfuls' = bufferfuls /\ direct' = direct /\ alloc' = alloc /\ text' = text /\ lines' = lines
      /\ left' = left /\ parameters' = parameters
  BY DEF vars, parameters, result, source, buffer
<1>3. Tabled(lines, text)' /\ line_start' = line_start /\ Used' = Used /\ avail' = avail
  BY <1>1, <1>2, TextStays, Zenon
<1>4. Left' = Left
  BY <1>2, <1>3, Zenon DEF Left
<1>5. Types'
  BY <1>1, <1>2 DEF Types
<1>6. Places'
  BY <1>1, <1>2, <1>3, <1>4 DEF Places
<1>7. Handed'
  <2>1. Kept' = Kept
    <3>1. Moved' = Moved
      BY <1>2, Zenon DEF Moved
    <3> QED BY <1>2, <3>1, Zenon DEF Kept
  <2> QED BY <1>1, <1>2, <2>1, Zenon DEF Handed, HandedOver
<1>8. Fits'
  BY <1>1, <1>2, <1>3 DEF Fits
<1>9. Roomy'
  <2>1. Order' /\ Opened' = Opened
    BY <1>1, <1>2, FilesStay DEF Roomy
  <2>2. ASSUME Sized' /\ pc' # "died" PROVE \E size : RoomyFor(size)'
    <3>1. Sized /\ pc # "died"
      BY <1>2, <2>2, SizedStays
    <3>2. PICK size : RoomyFor(size)
      BY <1>1, <3>1, Zenon DEF Roomy
    <3>3. Sizes(size)'
      BY <1>2, <3>2, SizesStay, Zenon DEF RoomyFor
    <3>4. RoomyFor(size)'
      BY <1>2, <1>3, <2>1, <3>2, <3>3, Zenon DEF RoomyFor
    <3> QED BY <3>4, Zenon
  <2> QED BY <2>1, <2>2 DEF Roomy
<1> QED BY <1>3, <1>5, <1>6, <1>7, <1>8, <1>9 DEF BufInv

\* Every step keeps the invariant,
LEMMA BufStep == BufInv /\ [Next]_vars => BufInv'
<1> SUFFICES ASSUME BufInv, [Next]_vars PROVE BufInv'
  OBVIOUS
<1>1. CASE initbuf
  BY <1>1, initbufKeeps
<1>2. CASE Open
  BY <1>2, OpenKeeps
<1>3. CASE NoMore
  BY <1>3, NoMoreKeeps
<1>4. CASE Fill
  BY <1>4, FillKeeps
<1>5. CASE Read
  BY <1>5, ReadKeeps
<1>6. CASE Filled
  BY <1>6, FilledKeeps
<1>7. CASE Concatenate
  BY <1>7, ConcatenateKeeps
<1>8. CASE HandOver
  BY <1>8, HandOverKeeps
<1>9. CASE UNCHANGED vars
  BY <1>9, StutterKeeps
<1> QED BY <1>1, <1>2, <1>3, <1>4, <1>5, <1>6, <1>7, <1>8, <1>9 DEF Next

\* which implies the property.
LEMMA EachLineOnceFollows == BufInv => EachLineOnce
<1> SUFFICES ASSUME BufInv PROVE EachLineOnce
  OBVIOUS
<1>1. Places /\ Handed /\ Fits /\ Roomy
  BY DEF BufInv
<1>2. FlattenSeq(bufferfuls) \o LinesOf(Kept \o rest) \o AllLinesOf(files) = AllLinesOf(input)
  BY <1>1, Zenon DEF Handed, HandedOver
<1>3. ASSUME Sized PROVE (pc = "done" => direct \/ AllLinesOf(input) = <<>>) /\ (bufferfuls # <<>> => direct)
  <2>1. CASE pc = "died"
    BY <1>1, <2>1 DEF Places
  <2>2. CASE pc # "died"
    <3>1. PICK size : RoomyFor(size)
      BY <1>1, <1>3, <2>2, Zenon DEF Roomy
    <3> QED BY <3>1 DEF RoomyFor
  <2> QED BY <2>1, <2>2
<1> QED BY <1>1, <1>2, <1>3 DEF EachLineOnce, Fits

\* Every line of the input is handed over once, in order, whole and with an Eol, however
\* the reads of fillbuf cut the files, the buffer grows, and sort() concatenates files that
\* end while there is room; the size that sort_buffer_size computes, unless it is cut, is
\* enough for all of the input; and the bytes never reach the table of lines: for all inputs,
\* bounds and sizes of a line.
THEOREM EachLineOnceHolds == Spec => []EachLineOnce
<1>1. Init => BufInv
  BY BufInit
<1>2. BufInv /\ [Next]_vars => BufInv'
  BY BufStep
<1>3. BufInv => EachLineOnce
  BY EachLineOnceFollows
<1> QED BY <1>1, <1>2, <1>3, PTL DEF Spec
=============================================================================

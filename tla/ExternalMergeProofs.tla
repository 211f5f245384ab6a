-------------------------- MODULE ExternalMergeProofs --------------------------
(***************************************************************************)
(* Theorems about ExternalMerge.  The inductive invariant has four parts.  *)
(* ArrayInv says which slots of the array are in use at each statement of  *)
(* merge, mergefiles and mergefps: those that hold temporary files to be   *)
(* removed when they are merged, and those that hold files of the user or  *)
(* the copy of one.  KidsInv says which children there are, OrderInv that  *)
(* the slots cut the order of the input into neighbours, and SpareInv how  *)
(* many descriptors there are for the files that sort() has to open.       *)
(***************************************************************************)
EXTENDS ExternalMerge, TLAPS, FiniteSetTheorems, FunctionTheorems, SequenceTheorems,
        WellFoundedInduction

\* sort() writes its bufferfuls; merge is between two merges; a merge is under way.
Making == pc \in {"runs", "run"} \/ (pc \in {"pipe", "fork"} /\ cont = "run")
Between == pc \in {"pass", "full", "shift", "avoid", "last"}
Working == \/ pc \in {"open", "pipein", "forkin", "shed", "merging"}
           \/ pc \in {"pipe", "fork"} /\ cont = "open"
Ending == pc \in {"finish", "exit"}

\* In a pass, files[0..out-1] are its results so far, and files[in..] are still to come.
InPass == pc \in {"full", "shift"} \/ w.ret \in {"full", "short"}
Lead == IF InPass THEN out ELSE 0
Start == IF InPass THEN in ELSE 0

\* While inputs are merged: the slots they had, and those of the inputs that are left.
Taken == pc = "merging" /\ w.ret # "copy"
Window(x) == Taken /\ w.base < x /\ x <= w.base + w.nfiles
InFps(x) == Taken /\ w.base < x /\ x <= w.base + Len(fps)

\* The slots of temporary files that a merge removes, and the others that are in use.
Live(x) == \/ x <= Lead
           \/ x > Start /\ x <= Start + ntemps /\ ~Window(x)
           \/ InFps(x) /\ x <= w.base + w.ntemps
Rest(x) == \/ x > Start + ntemps /\ x <= nfiles /\ ~Window(x)
           \/ InFps(x) /\ x > w.base + w.ntemps

Rets == {"none", "full", "short", "copy", "shed", "last"}

Types ==
  /\ options \in Scenarios
  /\ files \in [Users -> Files]
  /\ ntemps \in Nat /\ nfiles \in Nat /\ in \in Nat /\ out \in Nat /\ i \in Nat
  /\ tempcopy \in Temps \cup {0}
  /\ w \in [base : Nat, ntemps : Nat, nfiles : Nat, to : Temps \cup {Stdout}, ret : Rets]
  /\ fps \in Seq(Files)
  /\ disk \subseteq Temps /\ temphead \in Seq(Temps)

\* temphead lists what is on disk, each file once.
Listed == /\ \A f \in Temps : f \in disk <=> \E k \in 1..Len(temphead) : temphead[k] = f
          /\ \A j, k \in 1..Len(temphead) : temphead[j] = temphead[k] => j = k

Control ==
  /\ Making \/ Between \/ Working \/ Ending
  /\ pc = "runs" \/ Between => w = NoMerge /\ fps = <<>>
  /\ Making => /\ Sorting /\ w.ret = "none" /\ fps = <<>>
               /\ ntemps = total /\ nfiles = total /\ tempcopy = 0
               /\ Len(temphead) <= total
  /\ Making /\ pc # "runs" => Len(temphead) > 0 /\ w.to = temphead[Len(temphead)]
  /\ Working => w.ret # "none" /\ (w.to = Stdout <=> w.ret = "last")
  /\ pc \in {"pipe", "fork"} => w.to # Stdout
  /\ pc \in {"pipein", "forkin"} =>
       Len(fps) < w.nfiles /\ files[w.base + Len(fps) + 1] \in Temps
  /\ pc = "shed" => w.ret = "last" /\ Len(fps) > 2

\* The arguments of mergefiles, and the inputs that are open for it.
Arguments ==
  /\ w.base + w.nfiles <= nfiles
  /\ w.ret # "last" => w.nfiles >= 1
  /\ w.ret \in {"full", "short"} => w.base = in
  /\ w.ret \in {"last", "shed"} => w.base = 0
  /\ w.ret = "copy" => /\ w.base = i /\ w.nfiles = 1 /\ w.ntemps = 0
                       /\ tempcopy = 0 /\ files[i + 1] \in Same
  /\ w.ret = "last" => w.nfiles = nfiles
  /\ w.ret # "copy" /\ pc # "merging" =>
       w.ntemps = IF ntemps <= w.nfiles THEN ntemps ELSE w.nfiles
  /\ Len(fps) <= w.nfiles
  /\ \A k \in 1..Len(fps) : fps[k] = files[w.base + k]

Numbers == Lead <= Start /\ Start + ntemps <= nfiles /\ nfiles <= N

Layout ==
  /\ \A x \in Users : Live(x) => files[x] \in Temps /\ files[x] # tempcopy /\ files[x] # w.to
  /\ \A x, y \in Users : Live(x) /\ Live(y) /\ files[x] = files[y] => x = y
  /\ \A x \in Users : Rest(x) => files[x] \in Users \/ (files[x] = tempcopy /\ tempcopy # 0)
  /\ \A f \in Temps : f \in disk <=> \/ \E x \in Users : Live(x) /\ files[x] = f
                                     \/ f = tempcopy
                                     \/ f = w.to
  /\ tempcopy # 0 => tempcopy # w.to

\* What avoid_trashing_input has looked at is not the output.
Clean ==
  /\ pc = "avoid" \/ (Working /\ w.ret = "copy") =>
       ntemps <= i /\ i <= nfiles /\ \A x \in Users : Rest(x) /\ x <= i => files[x] \notin Same
  /\ pc = "last" \/ (Working /\ w.ret \in {"last", "shed"}) =>
       \A x \in Users : Rest(x) => files[x] \notin Same

ArrayInv ==
  /\ Types /\ Listed /\ Control
  /\ Working => Arguments
  /\ Between \/ Working => Numbers /\ Layout /\ Clean

-----------------------------------------------------------------------------
(* Numbers, options and sequences *)

LEMMA Sets ==
  /\ N \in Nat /\ MaxTemps \in Nat
  /\ Users = 1..N
  /\ \A f \in Users : f \in Nat /\ f # 0 /\ f \notin Temps /\ f \in Files
  /\ \A f \in Temps : f \in Nat /\ f # 0 /\ f \notin Users /\ f \in Files
  /\ \A f \in Files : f \in Users \/ f \in Temps
BY ExternalAssumption DEF Users, Temps, Files

LEMMA Options ==
  ASSUME options \in Scenarios
  PROVE  /\ total \in Users /\ nmerge \in Nat /\ nmerge >= 2 /\ fds \in Nat
         /\ Same \subseteq Users /\ Sorting \in BOOLEAN /\ options.strangers \in Nat
         /\ Sorting => Same = {}
BY ExternalAssumption DEF total, nmerge, fds, Same, Sorting

LEMMA OptionsKept ==
  ASSUME options' = options
  PROVE  /\ total' = total /\ nmerge' = nmerge /\ fds' = fds /\ Same' = Same
         /\ Sorting' = Sorting /\ Stdin' = Stdin
BY DEF total, nmerge, fds, Same, Sorting, Stdin

\* A set of natural numbers has a least element, and Min is it.
LEMMA MinIs ==
  ASSUME NEW T \in SUBSET Nat, T # {}
  PROVE  Min(T) \in T /\ \A y \in T : Min(T) <= y
<1> DEFINE R == OpToRel(<, Nat)
<1>1. IsWellFoundedOn(R, Nat)
  BY NatLessThanWellFounded
<1>2. \A x, y \in Nat : <<x, y>> \in R <=> x < y
  BY DEF OpToRel
<1> HIDE DEF R
<1>3. PICK x \in T : \A y \in T : ~ (<<y, x>> \in R)
  <2>1. T \subseteq Nat
    OBVIOUS
  <2> QED BY <1>1, <2>1, WFMin, Zenon
<1>4. \A y \in T : x <= y
  <2>1. ASSUME NEW y \in T PROVE x <= y
    <3>1. x \in Nat /\ y \in Nat /\ ~(y < x)
      BY <1>2, <1>3
    <3> QED BY <3>1
  <2> QED BY <2>1
<1> QED BY <1>3, <1>4 DEF Min

LEMMA MinOfTwo ==
  ASSUME NEW a \in Nat, NEW b \in Nat
  PROVE  Min({a, b}) = IF a <= b THEN a ELSE b
BY MinIs

LEMMA NewTempIs ==
  ASSUME Unused # {}
  PROVE  NewTemp \in Temps /\ NewTemp \notin disk
<1>1. Unused \in SUBSET Nat
  BY Sets DEF Unused
<1> QED BY <1>1, MinIs DEF NewTemp, Unused

LEMMA RemoveAtIs ==
  ASSUME NEW S, NEW s \in Seq(S), NEW k \in 1..Len(s)
  PROVE  /\ RemoveAt(s, k) \in Seq(S)
         /\ Len(RemoveAt(s, k)) = Len(s) - 1
         /\ \A j \in 1..(Len(s) - 1) : RemoveAt(s, k)[j] = IF j < k THEN s[j] ELSE s[j + 1]
<1> DEFINE a == SubSeq(s, 1, k - 1)
           b == SubSeq(s, k + 1, Len(s))
<1>1. Len(s) \in Nat /\ k \in Nat
  BY LenProperties
<1>2. a \in Seq(S) /\ Len(a) = k - 1 /\ \A j \in 1..(k - 1) : a[j] = s[j]
  BY <1>1
<1>3. b \in Seq(S) /\ Len(b) = Len(s) - k /\ \A j \in 1..(Len(s) - k) : b[j] = s[j + k]
  BY <1>1
<1>4. RemoveAt(s, k) = a \o b
  BY DEF RemoveAt
<1> HIDE DEF a, b
<1>5. /\ a \o b \in Seq(S) /\ Len(a \o b) = Len(a) + Len(b)
      /\ \A j \in 1..(Len(a) + Len(b)) :
           (a \o b)[j] = IF j <= Len(a) THEN a[j] ELSE b[j - Len(a)]
  BY <1>2, <1>3, ConcatProperties, Zenon
<1>6. Len(a) + Len(b) = Len(s) - 1
  BY <1>1, <1>2, <1>3
<1>7. ASSUME NEW j \in 1..(Len(s) - 1) PROVE (a \o b)[j] = IF j < k THEN s[j] ELSE s[j + 1]
  <2>1. (a \o b)[j] = IF j <= k - 1 THEN a[j] ELSE b[j - (k - 1)]
    BY <1>2, <1>5, <1>6
  <2>2. CASE j < k
    <3>1. j \in 1..(k - 1) /\ j <= k - 1
      BY <1>1, <2>2
    <3>2. a[j] = s[j]
      BY <1>2, <3>1
    <3>3. (a \o b)[j] = a[j]
      BY <2>1, <3>1
    <3> QED BY <2>2, <3>2, <3>3
  <2>3. CASE j >= k
    <3>1. j - (k - 1) \in 1..(Len(s) - k) /\ (j - (k - 1)) + k = j + 1 /\ ~(j <= k - 1) /\ ~(j < k)
      BY <1>1, <2>3
    <3> QED BY <1>3, <2>1, <3>1
  <2>4. j < k \/ j >= k
    BY <1>1
  <2> QED BY <2>2, <2>3, <2>4, Zenon
<1> QED BY <1>4, <1>5, <1>6, <1>7

LEMMA FrontIs ==
  ASSUME NEW S, NEW s \in Seq(S), Len(s) > 0
  PROVE  /\ Front(s) \in Seq(S) /\ Len(Front(s)) = Len(s) - 1
         /\ \A j \in 1..(Len(s) - 1) : Front(s)[j] = s[j]
         /\ Last(s) = s[Len(s)] /\ Last(s) \in S
<1>1. Len(s) \in Nat /\ s \in [1..Len(s) -> S]
  BY LenProperties
<1>2. \A j \in 1..(Len(s) - 1) : s[j] \in S
  BY <1>1
<1>3. /\ SubSeq(s, 1, Len(s) - 1) \in Seq(S)
      /\ Len(SubSeq(s, 1, Len(s) - 1)) = IF 1 <= Len(s) - 1 THEN (Len(s) - 1) - 1 + 1 ELSE 0
      /\ \A j \in 1..((Len(s) - 1) - 1 + 1) : SubSeq(s, 1, Len(s) - 1)[j] = s[1 + j - 1]
  <2>1. 1 \in Int /\ Len(s) - 1 \in Int
    BY <1>1
  <2> QED BY <1>2, <2>1, SubSeqProperties
<1>4. /\ (Len(s) - 1) - 1 + 1 = Len(s) - 1
      /\ ~(1 <= Len(s) - 1) => Len(s) - 1 = 0
      /\ Len(s) \in 1..Len(s)
  BY <1>1
<1>5. \A j \in 1..(Len(s) - 1) : 1 + j - 1 = j
  BY <1>1
<1>6. Last(s) = s[Len(s)] /\ Last(s) \in S
  BY <1>1, <1>4 DEF Last
<1>7. Front(s) = SubSeq(s, 1, Len(s) - 1)
  BY DEF Front
<1> QED BY <1>3, <1>4, <1>5, <1>6, <1>7

-----------------------------------------------------------------------------
(* Making and removing temporary files *)

LEMMA TempMade ==
  ASSUME Types, Listed, NEW label, NEW free, maybe_create_temp(label, free)
  PROVE  /\ NewTemp \in Temps /\ NewTemp \notin disk
         /\ disk' = disk \cup {NewTemp} /\ disk' \subseteq Temps
         /\ temphead' \in Seq(Temps)
         /\ Len(temphead') = Len(temphead) + 1 /\ temphead'[Len(temphead')] = NewTemp
         /\ \A k \in 1..Len(temphead) : temphead'[k] = temphead[k]
         /\ Listed'
         /\ \/ pc' \in {"pipe", "fork"} /\ cont' = label
            \/ pc' = label /\ cont' = "none"
         /\ pc' = "fork" => MayFork \/ label = "fork"
         /\ state' = [state EXCEPT ![NewTemp] = "UNCOMPRESSED"]
<1>1. NewTemp \in Temps /\ NewTemp \notin disk
  BY NewTempIs DEF maybe_create_temp
<1>2. disk' = disk \cup {NewTemp} /\ temphead' = Append(temphead, NewTemp)
  BY DEF maybe_create_temp
<1>3. temphead \in Seq(Temps) /\ disk \subseteq Temps /\ Len(temphead) \in Nat
  BY DEF Types
<1>4. /\ temphead' \in Seq(Temps) /\ Len(temphead') = Len(temphead) + 1
      /\ temphead'[Len(temphead) + 1] = NewTemp
      /\ \A k \in 1..Len(temphead) : temphead'[k] = temphead[k]
  BY <1>1, <1>2, <1>3
<1>5. \A k \in 1..(Len(temphead) + 1) : k \in 1..Len(temphead) \/ k = Len(temphead) + 1
  BY <1>3
<1>6. \A k \in 1..Len(temphead) : k \in 1..(Len(temphead) + 1)
  BY <1>3
<1>7. Len(temphead) + 1 \in 1..(Len(temphead) + 1)
  BY <1>3
<1>8. \A k \in 1..Len(temphead) : temphead[k] # NewTemp
  <2>1. \A k \in 1..Len(temphead) : temphead[k] \in Temps
    BY <1>3
  <2> QED BY <1>1, <2>1 DEF Listed
<1>9. Listed'
  <2>1. \A f \in Temps : f \in disk' <=> \E k \in 1..Len(temphead') : temphead'[k] = f
    BY <1>1, <1>2, <1>4, <1>5, <1>6, <1>7 DEF Listed
  <2>2. \A j, k \in 1..Len(temphead') : temphead'[j] = temphead'[k] => j = k
    BY <1>4, <1>5, <1>8 DEF Listed
  <2> QED BY <2>1, <2>2 DEF Listed
<1>10. /\ \/ pc' \in {"pipe", "fork"} /\ cont' = label
          \/ pc' = label /\ cont' = "none"
       /\ pc' = "fork" => MayFork \/ label = "fork"
  <2>1. IF Compress /\ free >= 3 THEN Pipe("pipe", "fork") /\ cont' = label
                                 ELSE pc' = label /\ cont' = "none"
    BY DEF maybe_create_temp
  <2>2. Pipe("pipe", "fork") => pc' = "pipe" \/ (pc' = "fork" /\ MayFork)
    BY Zenon DEF Pipe
  <2> QED BY <2>1, <2>2
<1>11. state' = [state EXCEPT ![NewTemp] = "UNCOMPRESSED"]
  BY DEF maybe_create_temp
<1> QED BY <1>1, <1>2, <1>3, <1>4, <1>9, <1>10, <1>11

LEMMA TempRemoved ==
  ASSUME Types, Listed, NEW f \in disk, zaptemp(f)
  PROVE  /\ disk' = disk \ {f} /\ temphead' \in Seq(Temps) /\ Listed'
         /\ content' = [content EXCEPT ![f] = <<>>]
<1>1. /\ temphead' = RemoveAt(temphead, Min({k \in DOMAIN temphead : temphead[k] = f}))
      /\ disk' = disk \ {f} /\ content' = [content EXCEPT ![f] = <<>>]
  BY DEF zaptemp
<1>2. /\ temphead \in Seq(Temps) /\ f \in Temps /\ disk \subseteq Temps
      /\ Len(temphead) \in Nat /\ DOMAIN temphead = 1..Len(temphead)
  BY DEF Types
<1> DEFINE T == {k \in DOMAIN temphead : temphead[k] = f}
<1>3. T \in SUBSET Nat /\ T # {}
  BY <1>2 DEF Listed
<1>4. Min(T) \in T
  <2> HIDE DEF T
  <2> QED BY <1>3, MinIs
<1>5. PICK p \in 1..Len(temphead) : p = Min(T) /\ temphead[p] = f
  BY <1>2, <1>4
<1>6. /\ temphead' \in Seq(Temps) /\ Len(temphead') = Len(temphead) - 1
      /\ \A j \in 1..(Len(temphead) - 1) :
           temphead'[j] = IF j < p THEN temphead[j] ELSE temphead[j + 1]
  BY <1>1, <1>2, <1>5, RemoveAtIs
<1>7. \A j \in 1..(Len(temphead) - 1) :
         /\ j \in 1..Len(temphead) /\ j + 1 \in 1..Len(temphead)
         /\ j < p => j # p
         /\ ~(j < p) => j + 1 # p
  BY <1>2
<1>8. \A j, k \in 1..Len(temphead) : temphead[j] = temphead[k] => j = k
  BY DEF Listed
<1>9. ASSUME NEW j \in 1..(Len(temphead) - 1), NEW k \in 1..(Len(temphead) - 1),
             temphead'[j] = temphead'[k]
      PROVE  j = k
  <2> DEFINE a == IF j < p THEN j ELSE j + 1
             b == IF k < p THEN k ELSE k + 1
  <2>1. a \in 1..Len(temphead) /\ b \in 1..Len(temphead)
    BY <1>7
  <2>2. temphead[a] = temphead[b]
    BY <1>6, <1>9
  <2>3. a = b
    <3> HIDE DEF a, b
    <3> QED BY <1>8, <2>1, <2>2
  <2> QED BY <1>2, <2>3
<1>10. ASSUME NEW g \in Temps
       PROVE  g \in disk' <=> \E k \in 1..Len(temphead') : temphead'[k] = g
  <2>1. ASSUME NEW k \in 1..Len(temphead'), temphead'[k] = g PROVE g \in disk'
    <3> DEFINE a == IF k < p THEN k ELSE k + 1
    <3>1. a \in 1..Len(temphead) /\ a # p /\ temphead[a] = g
      BY <1>6, <1>7, <2>1
    <3> HIDE DEF a
    <3>2. g \in disk /\ g # f
      BY <1>5, <1>8, <3>1 DEF Listed
    <3> QED BY <1>1, <3>2
  <2>2. ASSUME g \in disk' PROVE \E k \in 1..Len(temphead') : temphead'[k] = g
    <3>1. g \in disk /\ g # f
      BY <1>1, <2>2
    <3>2. PICK k \in 1..Len(temphead) : temphead[k] = g
      BY <3>1 DEF Listed
    <3>3. k # p
      BY <1>5, <3>1, <3>2
    <3>4. CASE k < p
      <4>1. k \in 1..(Len(temphead) - 1)
        BY <1>2, <3>4
      <4> QED BY <1>6, <3>2, <3>4, <4>1
    <3>5. CASE k > p
      <4>1. k - 1 \in 1..(Len(temphead) - 1) /\ ~(k - 1 < p) /\ (k - 1) + 1 = k
        BY <1>2, <3>5
      <4> QED BY <1>6, <3>2, <4>1
    <3> QED BY <1>2, <3>3, <3>4, <3>5
  <2> QED BY <2>1, <2>2
<1>11. Listed'
  BY <1>6, <1>9, <1>10 DEF Listed
<1> QED BY <1>1, <1>6, <1>11

-----------------------------------------------------------------------------
(* Steps that leave the array alone *)

\* When no inputs are being merged, the slots in use are two runs of the array.
LEMMA Quiet ==
  /\ pc # "merging" =>
       \A x \in Users :
         /\ Live(x) <=> (x <= Lead \/ (x > Start /\ x <= Start + ntemps))
         /\ Rest(x) <=> (x > Start + ntemps /\ x <= nfiles)
  /\ pc' # "merging" =>
       \A x \in Users :
         /\ Live(x)' <=> (x <= Lead' \/ (x > Start' /\ x <= Start' + ntemps'))
         /\ Rest(x)' <=> (x > Start' + ntemps' /\ x <= nfiles')
BY DEF Live, Rest, Window, InFps, Taken

\* The program ends.
LEMMA DieKeeps ==
  ASSUME ArrayInv, NEW why, die(why)
  PROVE  ArrayInv'
<1>1. /\ pc' = "exit" /\ disk' = disk \ ToSet(temphead) /\ temphead' = <<>>
      /\ UNCHANGED <<mergeVars, w, fps, options>>
  BY DEF die, cleanup
<1>2. disk' = {}
  <2>1. \A f \in disk : f \in ToSet(temphead)
    BY DEF ArrayInv, Types, Listed, ToSet
  <2> QED BY <1>1, <2>1
<1>3. Types'
  BY <1>1, <1>2 DEF ArrayInv, Types, mergeVars
<1>4. Listed'
  BY <1>1, <1>2 DEF Listed
<1>5. ~Making' /\ ~Between' /\ ~Working' /\ Ending'
  BY <1>1 DEF Making, Between, Working, Ending
<1>6. Control'
  BY <1>1, <1>5 DEF Control
<1> QED BY <1>3, <1>4, <1>5, <1>6 DEF ArrayInv

\* The array of a merge that is going on stays, and the inputs are not yet merged.
LEMMA IdleKeeps ==
  ASSUME ArrayInv, UNCHANGED <<options, mergeVars, w, temphead, disk>>,
         Working, Working', pc # "merging", pc' # "merging",
         fps' \in Seq(Files), Len(fps') <= w.nfiles,
         \A k \in 1..Len(fps') : fps'[k] = files[w.base + k],
         pc' \in {"pipe", "fork"} => w.to # Stdout,
         pc' \in {"pipein", "forkin"} =>
           Len(fps') < w.nfiles /\ files[w.base + Len(fps') + 1] \in Temps,
         pc' = "shed" => w.ret = "last" /\ Len(fps') > 2
  PROVE  ArrayInv'
<1>1. /\ files' = files /\ ntemps' = ntemps /\ nfiles' = nfiles /\ in' = in /\ out' = out
      /\ i' = i /\ tempcopy' = tempcopy /\ w' = w /\ temphead' = temphead /\ disk' = disk
      /\ options' = options
  BY DEF mergeVars
<1>2. Types' /\ Listed'
  BY <1>1 DEF ArrayInv, Types, Listed
<1>3. ~Making' /\ ~Between' /\ ~Ending' /\ pc' # "runs"
  BY DEF Working, Making, Between, Ending
<1>4. Control'
  BY <1>1, <1>3 DEF ArrayInv, Control
<1>5. Same' = Same
  BY <1>1, OptionsKept
<1>6. Arguments'
  <2>1. Arguments
    BY DEF ArrayInv
  <2>2. \A k \in 1..Len(fps') : fps'[k] = files'[w'.base + k]
    BY <1>1
  <2> QED BY <1>1, <1>5, <2>1, <2>2, Zenon DEF Arguments
<1>7. (InPass' <=> InPass) /\ Lead' = Lead /\ Start' = Start
  BY <1>1 DEF Working, InPass, Lead, Start
<1>8. \A x \in Users : (Live(x)' <=> Live(x)) /\ (Rest(x)' <=> Rest(x))
  BY <1>1, <1>7, Quiet
<1>9. Numbers' /\ Layout'
  BY <1>1, <1>7, <1>8 DEF ArrayInv, Numbers, Layout
<1>10. pc' # "avoid" /\ pc' # "last"
  BY <1>3 DEF Between
<1>11. Clean'
  BY <1>1, <1>5, <1>8, <1>10 DEF ArrayInv, Clean
<1> QED BY <1>2, <1>4, <1>6, <1>9, <1>11 DEF ArrayInv

\* sort() writes its bufferfuls: no file is merged yet.
LEMMA MakingKeeps ==
  ASSUME ArrayInv, UNCHANGED <<options, mergeVars, w, fps, temphead, disk>>,
         Making, Making', pc # "runs", pc' # "runs"
  PROVE  ArrayInv'
<1>1. /\ files' = files /\ ntemps' = ntemps /\ nfiles' = nfiles /\ in' = in /\ out' = out
      /\ i' = i /\ tempcopy' = tempcopy /\ w' = w /\ temphead' = temphead /\ disk' = disk
      /\ fps' = fps /\ options' = options
  BY DEF mergeVars
<1>2. Types' /\ Listed'
  BY <1>1 DEF ArrayInv, Types, Listed
<1>3. ~Working' /\ ~Between' /\ ~Ending' /\ pc' \notin {"pipein", "forkin", "shed"}
  BY DEF Working, Making, Between, Ending
<1>4. total' = total /\ Sorting' = Sorting
  BY <1>1, OptionsKept
<1>5. w.to # Stdout
  <2>1. Len(temphead) > 0 /\ w.to = temphead[Len(temphead)] /\ temphead \in Seq(Temps)
    BY DEF ArrayInv, Control, Types
  <2>2. Len(temphead) \in 1..Len(temphead)
    BY <2>1
  <2>3. w.to \in Temps
    BY <2>1, <2>2
  <2> QED BY <2>3, Sets DEF Stdout
<1>6. Control'
  BY <1>1, <1>3, <1>4, <1>5 DEF ArrayInv, Control
<1> QED BY <1>2, <1>3, <1>6 DEF ArrayInv

-----------------------------------------------------------------------------
(* Steps of sort() *)

LEMMA NewRunKeeps ==
  ASSUME ArrayInv, NewRun
  PROVE  ArrayInv'
<1>1. CASE die("create")
  BY <1>1, DieKeeps
<1>2. CASE /\ maybe_create_temp("run", Free)
           /\ w' = [NoMerge EXCEPT !.to = NewTemp]
           /\ UNCHANGED <<mergeVars, fps, content, child, nprocs, strangers, endVars>>
  <2>1. /\ NewTemp \in Temps /\ disk' \subseteq Temps /\ temphead' \in Seq(Temps)
        /\ Len(temphead') = Len(temphead) + 1 /\ temphead'[Len(temphead')] = NewTemp
        /\ Listed'
        /\ \/ pc' \in {"pipe", "fork"} /\ cont' = "run"
           \/ pc' = "run" /\ cont' = "none"
    BY <1>2, TempMade DEF ArrayInv
  <2>2. /\ files' = files /\ ntemps' = ntemps /\ nfiles' = nfiles /\ in' = in /\ out' = out
        /\ i' = i /\ tempcopy' = tempcopy /\ fps' = fps /\ options' = options
    BY <1>2 DEF mergeVars, endVars
  <2>3. /\ w' \in [base : Nat, ntemps : Nat, nfiles : Nat, to : Temps \cup {Stdout}, ret : Rets]
        /\ w'.to = NewTemp /\ w'.ret = "none"
    BY <1>2, <2>1 DEF NoMerge, Rets
  <2>4. Types'
    <3>1. Types
      BY DEF ArrayInv
    <3>2. tempcopy' \in Temps \cup {0} /\ fps' \in Seq(Files)
      BY <2>2, <3>1, Zenon DEF Types
    <3>3. /\ options' \in Scenarios /\ files' \in [Users -> Files]
          /\ ntemps' \in Nat /\ nfiles' \in Nat /\ in' \in Nat /\ out' \in Nat /\ i' \in Nat
      BY <2>2, <3>1, Zenon DEF Types
    <3> QED BY <2>1, <2>3, <3>2, <3>3 DEF Types
  <2>5. Making /\ pc = "runs" /\ Len(temphead) < total
    BY DEF NewRun, Making
  <2>6. Making' /\ ~Between' /\ ~Working' /\ ~Ending'
    BY <2>1 DEF Making, Between, Working, Ending
  <2>7. total' = total /\ Sorting' = Sorting /\ total \in Nat /\ Len(temphead) \in Nat
    <3>1. total' = total /\ Sorting' = Sorting
      BY <2>2, OptionsKept
    <3>2. options \in Scenarios /\ temphead \in Seq(Temps)
      BY DEF ArrayInv, Types
    <3>3. total \in Nat
      BY <3>2, Options, Sets
    <3> QED BY <3>1, <3>2, <3>3
  <2>8. NewTemp # Stdout
    BY <2>1, Sets DEF Stdout
  <2>9. Control'
    BY <2>1, <2>2, <2>3, <2>5, <2>6, <2>7, <2>8 DEF ArrayInv, Control
  <2> QED BY <2>1, <2>4, <2>6, <2>9 DEF ArrayInv
<1> QED BY <1>1, <1>2 DEF NewRun

LEMMA CloseRunKeeps ==
  ASSUME ArrayInv, CloseRun
  PROVE  ArrayInv'
<1>1. /\ files' = files /\ ntemps' = ntemps /\ nfiles' = nfiles /\ in' = in /\ out' = out
      /\ i' = i /\ tempcopy' = tempcopy /\ fps' = fps /\ options' = options
      /\ temphead' = temphead /\ disk' = disk /\ w' = NoMerge /\ pc' = "runs" /\ pc = "run"
  BY DEF CloseRun, mergeVars, endVars
<1>2. Making /\ Making' /\ ~Between' /\ ~Working' /\ ~Ending'
  BY <1>1 DEF Making, Between, Working, Ending
<1>3. total' = total /\ Sorting' = Sorting
  BY <1>1, OptionsKept
<1>4. Types' /\ Listed'
  BY <1>1 DEF ArrayInv, Types, Listed, NoMerge, Rets
<1>5. Control'
  BY <1>1, <1>2, <1>3 DEF ArrayInv, Control, NoMerge
<1> QED BY <1>2, <1>4, <1>5 DEF ArrayInv

LEMMA RunsDoneKeeps ==
  ASSUME ArrayInv, RunsDone
  PROVE  ArrayInv'
<1>1. /\ files' = [k \in Users |-> IF k <= total THEN temphead[k] ELSE k]
      /\ ntemps' = ntemps /\ nfiles' = nfiles /\ in' = in /\ out' = out
      /\ i' = i /\ tempcopy' = tempcopy /\ fps' = fps /\ options' = options
      /\ temphead' = temphead /\ disk' = disk /\ w' = w /\ pc' = "pass" /\ pc = "runs"
      /\ Len(temphead) = total
  BY DEF RunsDone, tempVars, endVars
<1>2. total \in 1..N /\ N \in Nat
  BY Options, Sets DEF ArrayInv, Types
<1>3. /\ w = NoMerge /\ fps = <<>> /\ Sorting /\ ntemps = total /\ nfiles = total
      /\ tempcopy = 0
  BY <1>1 DEF ArrayInv, Control, Making
<1>4. \A k \in 1..Len(temphead) : temphead[k] \in Temps
  BY DEF ArrayInv, Types
<1>5. \A k \in Users : k <= total => k \in 1..Len(temphead)
  BY <1>1, <1>2, Sets
<1>6. files' \in [Users -> Files]
  BY <1>1, <1>4, <1>5, Sets
<1>7. Types' /\ Listed'
  BY <1>1, <1>6 DEF ArrayInv, Types, Listed
<1>8. ~Making' /\ Between' /\ ~Working' /\ ~Ending'
  BY <1>1 DEF Making, Between, Working, Ending
<1>9. Control'
  BY <1>1, <1>3, <1>8 DEF Control
<1>10. ~InPass' /\ Lead' = 0 /\ Start' = 0
  BY <1>1, <1>3 DEF InPass, Lead, Start, NoMerge
<1>11. \A x \in Users : /\ Live(x)' <=> x \in 1..total
                        /\ ~Rest(x)'
  <2>1. pc' # "merging"
    BY <1>1
  <2>2. \A x \in Users : /\ Live(x)' <=> (x <= 0 \/ (x > 0 /\ x <= 0 + total))
                         /\ Rest(x)' <=> (x > 0 + total /\ x <= total)
    BY <1>1, <1>3, <1>10, <2>1, Quiet
  <2> QED BY <1>2, <2>2, Sets
<1>12. Numbers'
  BY <1>1, <1>2, <1>3, <1>10 DEF Numbers
<1>13. w'.to = 0 /\ 0 \notin Temps
  BY <1>1, <1>3, Sets DEF NoMerge, Stdout
<1>14. \A x \in 1..total : x \in Users /\ files'[x] = temphead[x] /\ files'[x] \in Temps
  BY <1>1, <1>2, <1>4, Sets
<1>15. Layout'
  <2>3. \A f \in Temps : f \in disk' <=> \E k \in 1..total : temphead[k] = f
    BY <1>1 DEF ArrayInv, Listed
  <2>1. \A f \in Temps : f \in disk' <=> \E x \in Users : Live(x)' /\ files'[x] = f
    BY <1>11, <1>14, <2>3
  <2>2. \A x, y \in Users : Live(x)' /\ Live(y)' /\ files'[x] = files'[y] => x = y
    BY <1>1, <1>11, <1>14 DEF ArrayInv, Listed
  <2> QED BY <1>1, <1>3, <1>11, <1>13, <1>14, <2>1, <2>2 DEF Layout
<1>16. Clean'
  BY <1>1, <1>8 DEF Clean
<1> QED BY <1>7, <1>8, <1>9, <1>12, <1>15, <1>16 DEF ArrayInv

-----------------------------------------------------------------------------
(* Steps of merge *)

LEMMA PassKeeps ==
  ASSUME ArrayInv, Pass
  PROVE  ArrayInv'
<1>1. /\ files' = files /\ ntemps' = ntemps /\ nfiles' = nfiles
      /\ tempcopy' = tempcopy /\ fps' = fps /\ options' = options
      /\ temphead' = temphead /\ disk' = disk /\ w' = w /\ pc = "pass"
  BY DEF Pass, tempVars, endVars
<1>2. \/ in' = 0 /\ out' = 0 /\ pc' = "full" /\ i' = i
      \/ i' = ntemps /\ pc' = "avoid" /\ in' = in /\ out' = out
  BY DEF Pass
<1>3. Types' /\ Listed'
  BY <1>1, <1>2 DEF ArrayInv, Types, Listed
<1>4. Between /\ ~Making' /\ Between' /\ ~Working' /\ ~Ending' /\ pc # "merging" /\ pc' # "merging"
  BY <1>1, <1>2 DEF Making, Between, Working, Ending
<1>5. w = NoMerge /\ fps = <<>> /\ w.ret = "none"
  BY <1>4 DEF ArrayInv, Control, NoMerge
<1>6. Control'
  BY <1>1, <1>2, <1>4, <1>5 DEF Control
<1>7. Lead = 0 /\ Start = 0 /\ Lead' = 0 /\ Start' = 0
  BY <1>1, <1>2, <1>5 DEF InPass, Lead, Start
<1>8. \A x \in Users : /\ (Live(x)' <=> Live(x)) /\ (Rest(x)' <=> Rest(x))
                       /\ Rest(x) => x > ntemps
  BY <1>1, <1>4, <1>7, Quiet, Sets DEF ArrayInv, Types
<1>9. Numbers' /\ Layout'
  BY <1>1, <1>4, <1>7, <1>8 DEF ArrayInv, Numbers, Layout
<1>10. Clean'
  <2>1. pc' = "avoid" => i' = ntemps' /\ ntemps' <= nfiles' /\ ntemps \in Nat
    BY <1>1, <1>2, <1>4, <1>7 DEF ArrayInv, Numbers, Types
  <2>2. \A x \in Users : ~(x > ntemps /\ x <= ntemps)
    BY Sets DEF ArrayInv, Types
  <2> QED BY <1>1, <1>2, <1>4, <1>8, <2>1, <2>2 DEF Clean
<1> QED BY <1>3, <1>4, <1>6, <1>9, <1>10 DEF ArrayInv

\* A new temporary file is the output of a merge.
LEMMA OutputMade ==
  ASSUME ArrayInv, NEW free, maybe_create_temp("open", free),
         Between \/ Working, pc # "merging", w.to = Stdout,
         UNCHANGED mergeVars, w'.to = NewTemp, InPass' <=> InPass
  PROVE  /\ Working' /\ pc' # "merging"
         /\ \A x \in Users : (Live(x)' <=> Live(x)) /\ (Rest(x)' <=> Rest(x))
         /\ Numbers' /\ Layout'
<1>1. /\ NewTemp \in Temps /\ NewTemp \notin disk /\ disk' = disk \cup {NewTemp}
      /\ \/ pc' \in {"pipe", "fork"} /\ cont' = "open"
         \/ pc' = "open" /\ cont' = "none"
  BY TempMade DEF ArrayInv
<1>2. Working' /\ pc' # "merging"
  BY <1>1 DEF Working
<1>3. /\ files' = files /\ ntemps' = ntemps /\ nfiles' = nfiles /\ in' = in /\ out' = out
      /\ i' = i /\ tempcopy' = tempcopy
  BY DEF mergeVars
<1>4. Lead' = Lead /\ Start' = Start
  BY <1>3 DEF Lead, Start
<1>5. \A x \in Users : (Live(x)' <=> Live(x)) /\ (Rest(x)' <=> Rest(x))
  BY <1>2, <1>3, <1>4, Quiet
<1>6. Numbers /\ Layout
  BY DEF ArrayInv
<1>7. Numbers'
  BY <1>3, <1>4, <1>6 DEF Numbers
<1>8. Stdout \notin Temps
  BY Sets DEF Stdout
<1>9. Layout'
  <2>1. \A x \in Users : Live(x) => files[x] \in disk
    BY <1>6 DEF Layout
  <2>2. tempcopy # 0 => tempcopy \in disk
    BY <1>6 DEF Layout, ArrayInv, Types
  <2>3. \A f \in Temps : f \in disk' <=> \/ \E x \in Users : Live(x)' /\ files'[x] = f
                                         \/ f = tempcopy'
                                         \/ f = w'.to
    BY <1>1, <1>3, <1>5, <1>6, <1>8 DEF Layout
  <2>4. \A x \in Users : Live(x)' => files'[x] \in Temps /\ files'[x] # tempcopy' /\ files'[x] # w'.to
    BY <1>1, <1>3, <1>5, <1>6, <2>1 DEF Layout
  <2>5. tempcopy' # 0 => tempcopy' # w'.to
    BY <1>1, <1>3, <2>2
  <2> QED BY <1>3, <1>5, <1>6, <2>3, <2>4, <2>5 DEF Layout
<1> QED BY <1>2, <1>5, <1>7, <1>9

LEMMA MergeStarts ==
  ASSUME ArrayInv, Between, NEW base \in Nat, NEW nt \in Nat, NEW n \in Nat,
         NEW ret \in {"full", "short", "copy"}, StartMerge(base, nt, n, ret),
         n >= 1, base + n <= nfiles,
         InPass <=> ret # "copy",
         ret # "copy" => base = in /\ nt = (IF ntemps <= n THEN ntemps ELSE n),
         ret = "copy" => /\ pc = "avoid" /\ base = i /\ n = 1 /\ nt = 0
                         /\ tempcopy = 0 /\ files[i + 1] \in Same
  PROVE  ArrayInv'
<1>1. CASE die("create")
  BY <1>1, DieKeeps
<1>2. CASE /\ maybe_create_temp("open", Free)
           /\ w' = [base |-> base, ntemps |-> nt, nfiles |-> n, to |-> NewTemp, ret |-> ret]
           /\ UNCHANGED <<mergeVars, fps, content, child, nprocs, strangers, endVars>>
  <2>1. /\ NewTemp \in Temps /\ disk' \subseteq Temps /\ temphead' \in Seq(Temps)
        /\ Listed'
        /\ \/ pc' \in {"pipe", "fork"} /\ cont' = "open"
           \/ pc' = "open" /\ cont' = "none"
    BY <1>2, TempMade DEF ArrayInv
  <2>2. /\ files' = files /\ ntemps' = ntemps /\ nfiles' = nfiles /\ in' = in /\ out' = out
        /\ i' = i /\ tempcopy' = tempcopy /\ fps' = fps /\ options' = options
    BY <1>2 DEF mergeVars, endVars
  <2>3. w = NoMerge /\ fps = <<>> /\ w.to = Stdout /\ pc # "merging" /\ w.ret = "none"
    BY DEF ArrayInv, Control, Between, NoMerge
  <2>4. /\ w' \in [base : Nat, ntemps : Nat, nfiles : Nat, to : Temps \cup {Stdout}, ret : Rets]
        /\ w'.base = base /\ w'.ntemps = nt /\ w'.nfiles = n /\ w'.to = NewTemp /\ w'.ret = ret
    BY <1>2, <2>1 DEF Rets
  <2>5. Types'
    BY <2>1, <2>2, <2>4 DEF ArrayInv, Types
  <2>6. ~Making' /\ ~Between' /\ Working' /\ ~Ending' /\ pc' \notin {"full", "shift"}
    BY <2>1 DEF Making, Between, Working, Ending
  <2>7. InPass' <=> InPass
    BY <2>4, <2>6 DEF InPass
  <2>8. /\ Numbers' /\ Layout'
        /\ \A x \in Users : (Live(x)' <=> Live(x)) /\ (Rest(x)' <=> Rest(x))
    BY <1>2, <2>2, <2>3, <2>4, <2>7, OutputMade
  <2>9. NewTemp # Stdout
    BY <2>1, Sets DEF Stdout
  <2>10. Control'
    BY <2>1, <2>2, <2>3, <2>4, <2>6, <2>9 DEF Control
  <2>11. Same' = Same
    BY <2>2, OptionsKept
  <2>12. Arguments'
    BY <2>1, <2>2, <2>3, <2>4, <2>11 DEF Arguments
  <2>13. Clean'
    BY <2>1, <2>2, <2>4, <2>6, <2>8, <2>11 DEF ArrayInv, Clean
  <2> QED BY <2>1, <2>5, <2>6, <2>8, <2>10, <2>12, <2>13 DEF ArrayInv
<1> QED BY <1>1, <1>2 DEF StartMerge

\* What is left for the last window of the next pass.
LEMMA CheapSlots ==
  ASSUME ArrayInv, pc \in {"full", "shift"}
  PROVE  /\ cheap_slots \in Nat /\ cheap_slots >= 1
         /\ remainder \in Nat /\ in + remainder = nfiles /\ ntemps <= remainder /\ out <= in
<1>1. nmerge \in Nat /\ nmerge >= 2 /\ out \in Nat /\ in \in Nat /\ nfiles \in Nat /\ ntemps \in Nat
  BY Options DEF ArrayInv, Types
<1>2. out % nmerge \in 0..(nmerge - 1)
  BY <1>1
<1>3. out <= in /\ in + ntemps <= nfiles
  BY DEF ArrayInv, Between, Numbers, Lead, Start, InPass
<1> QED BY <1>1, <1>2, <1>3 DEF cheap_slots, remainder

LEMMA FullMergeKeeps ==
  ASSUME ArrayInv, FullMerge
  PROVE  ArrayInv'
<1>1. /\ pc = "full" /\ nmerge <= nfiles - in
      /\ StartMerge(in, Min({ntemps, nmerge}), nmerge, "full")
  BY DEF FullMerge
<1>2. nmerge \in Nat /\ nmerge >= 2 /\ in \in Nat /\ nfiles \in Nat /\ ntemps \in Nat
  BY Options DEF ArrayInv, Types
<1>3. Between /\ InPass
  BY <1>1 DEF Between, InPass
<1>4. Min({ntemps, nmerge}) = IF ntemps <= nmerge THEN ntemps ELSE nmerge
  BY <1>2, MinOfTwo
<1>5. Min({ntemps, nmerge}) \in Nat
  BY <1>2, <1>4
<1>6. nmerge >= 1 /\ in + nmerge <= nfiles
  BY <1>1, <1>2
<1> QED BY <1>1, <1>2, <1>3, <1>4, <1>5, <1>6, MergeStarts

LEMMA ShortMergeKeeps ==
  ASSUME ArrayInv, ShortMerge
  PROVE  ArrayInv'
<1>1. /\ pc = "full" /\ cheap_slots < remainder
      /\ StartMerge(in, Min({ntemps, nshortmerge}), nshortmerge, "short")
  BY DEF ShortMerge
<1>2. in \in Nat /\ nfiles \in Nat /\ ntemps \in Nat
  BY DEF ArrayInv, Types
<1>3. Between /\ InPass
  BY <1>1 DEF Between, InPass
<1>4. nshortmerge \in Nat /\ nshortmerge >= 1 /\ in + nshortmerge <= nfiles
  BY <1>1, <1>2, CheapSlots DEF nshortmerge
<1>5. Min({ntemps, nshortmerge}) = IF ntemps <= nshortmerge THEN ntemps ELSE nshortmerge
  BY <1>2, <1>4, MinOfTwo
<1>6. Min({ntemps, nshortmerge}) \in Nat
  BY <1>2, <1>4, <1>5
<1> QED BY <1>1, <1>2, <1>3, <1>4, <1>5, <1>6, MergeStarts

LEMMA PassEndsKeeps ==
  ASSUME ArrayInv, PassEnds
  PROVE  ArrayInv'
<1>1. /\ files' = [k \in Users |-> IF k \in (out + 1)..(out + remainder)
                                   THEN Remaining(k) ELSE files[k]]
      /\ ntemps' = ntemps + out /\ nfiles' = nfiles - (in - out) /\ pc' = "pass"
      /\ in' = in /\ out' = out /\ i' = i /\ tempcopy' = tempcopy /\ fps' = fps
      /\ options' = options /\ temphead' = temphead /\ disk' = disk /\ w' = w
      /\ pc \in {"full", "shift"}
  BY DEF PassEnds, tempVars, endVars
<1>2. /\ remainder \in Nat /\ in + remainder = nfiles /\ ntemps <= remainder /\ out <= in
      /\ in \in Nat /\ out \in Nat /\ nfiles \in Nat /\ ntemps \in Nat /\ N \in Nat
  BY <1>1, CheapSlots, Sets DEF ArrayInv, Types
<1>3. nfiles' = out + remainder /\ nfiles <= N
  <2>1. nfiles <= N
    BY <1>1 DEF ArrayInv, Between, Numbers
  <2> QED BY <1>1, <1>2, <2>1
<1>4. Between /\ ~Making' /\ Between' /\ ~Working' /\ ~Ending' /\ pc # "merging" /\ pc' # "merging"
  BY <1>1 DEF Making, Between, Working, Ending
<1>5. w = NoMerge /\ fps = <<>> /\ w.ret = "none"
  BY <1>4 DEF ArrayInv, Control, NoMerge
<1>6. Control'
  BY <1>1, <1>4, <1>5 DEF Control
<1>7. Lead = out /\ Start = in /\ Lead' = 0 /\ Start' = 0
  BY <1>1, <1>5 DEF InPass, Lead, Start
<1> DEFINE from(x) == IF x <= out THEN x ELSE x - out + in
<1>8. \A x \in Users : x <= nfiles' => from(x) \in Users /\ files'[x] = files[from(x)]
  <2>1. ASSUME NEW x \in Users, x <= nfiles' PROVE from(x) \in Users /\ files'[x] = files[from(x)]
    <3>1. x \in Nat /\ x # 0
      BY Sets
    <3>2. CASE x <= out
      <4>1. x \notin (out + 1)..(out + remainder)
        BY <1>2, <3>1, <3>2
      <4> QED BY <1>1, <3>2, <4>1
    <3>3. CASE x > out
      <4>1. x \in (out + 1)..(out + remainder) /\ ~(x <= out)
        BY <1>2, <1>3, <2>1, <3>1, <3>3
      <4>2. x - out + in \in 1..N
        BY <1>2, <1>3, <2>1, <3>1, <3>3
      <4> QED BY <1>1, <4>1, <4>2, Sets DEF Remaining
    <3> QED BY <1>2, <3>1, <3>2, <3>3
  <2> QED BY <2>1
<1>9. files' \in [Users -> Files]
  <2>1. \A x \in Users : ~(x <= nfiles') => x \notin (out + 1)..(out + remainder)
    BY <1>2, <1>3, Sets
  <2>2. \A x \in Users : files'[x] \in Files
    BY <1>1, <1>8, <2>1 DEF ArrayInv, Types
  <2> QED BY <1>1, <2>2
<1>10. Types' /\ Listed'
  <2>1. ntemps' \in Nat /\ nfiles' \in Nat
    BY <1>1, <1>2, <1>3
  <2> QED BY <1>1, <1>9, <2>1 DEF ArrayInv, Types, Listed
<1>11. \A x \in Users :
         /\ Live(x)' <=> x <= ntemps + out
         /\ Rest(x)' <=> (x > ntemps + out /\ x <= out + remainder)
         /\ Live(x) <=> (x <= out \/ (x > in /\ x <= in + ntemps))
         /\ Rest(x) <=> (x > in + ntemps /\ x <= nfiles)
  BY <1>1, <1>2, <1>3, <1>4, <1>7, Quiet, Sets
<1>12. \A x \in Users : Live(x)' => x <= nfiles' /\ Live(from(x))
  <2>1. ASSUME NEW x \in Users, Live(x)' PROVE x <= nfiles' /\ Live(from(x))
    <3>1. x \in Nat /\ x <= ntemps + out /\ x <= nfiles'
      BY <1>2, <1>3, <1>11, <2>1, Sets
    <3>2. from(x) \in Users
      BY <1>8, <3>1
    <3>3. from(x) <= out \/ (from(x) > in /\ from(x) <= in + ntemps)
      BY <1>2, <3>1
    <3> HIDE DEF from
    <3> QED BY <1>11, <3>1, <3>2, <3>3
  <2> QED BY <2>1
<1>13. \A x \in Users : Rest(x)' => x <= nfiles' /\ Rest(from(x))
  BY <1>2, <1>3, <1>8, <1>11, Sets
<1>14. \A x, y \in Users : Live(x)' /\ Live(y)' /\ from(x) = from(y) => x = y
  BY <1>2, <1>11, Sets
<1>15. \A y \in Users : Live(y) => \E x \in Users : Live(x)' /\ from(x) = y
  <2>1. ASSUME NEW y \in Users, Live(y) PROVE \E x \in Users : Live(x)' /\ from(x) = y
    <3>1. y \in 1..N
      BY Sets
    <3>2. CASE y <= out
      BY <1>2, <1>11, <3>1, <3>2
    <3>3. CASE y > out
      <4>1. y > in /\ y <= in + ntemps
        BY <1>11, <2>1, <3>1, <3>3, <1>2
      <4>2. y - in + out \in Users /\ y - in + out <= ntemps + out /\ from(y - in + out) = y
        BY <1>2, <1>3, <3>1, <4>1, Sets
      <4> QED BY <1>11, <4>2
    <3> QED BY <1>2, <3>1, <3>2, <3>3
  <2> QED BY <2>1
<1> HIDE DEF from
<1>16. Layout
  BY <1>4 DEF ArrayInv
<1>17. Layout'
  <2>1. \A x \in Users : Live(x)' =>
          files'[x] \in Temps /\ files'[x] # tempcopy' /\ files'[x] # w'.to
    BY <1>1, <1>8, <1>12, <1>16 DEF Layout
  <2>2. \A x, y \in Users : Live(x)' /\ Live(y)' /\ files'[x] = files'[y] => x = y
    BY <1>8, <1>12, <1>14, <1>16 DEF Layout
  <2>3. \A x \in Users : Rest(x)' => files'[x] \in Users \/ (files'[x] = tempcopy' /\ tempcopy' # 0)
    BY <1>1, <1>8, <1>13, <1>16 DEF Layout
  <2>4. \A f \in Temps : (\E x \in Users : Live(x) /\ files[x] = f)
                         <=> \E x \in Users : Live(x)' /\ files'[x] = f
    BY <1>8, <1>12, <1>15
  <2>5. \A f \in Temps : f \in disk' <=> \/ \E x \in Users : Live(x)' /\ files'[x] = f
                                         \/ f = tempcopy'
                                         \/ f = w'.to
    BY <1>1, <1>16, <2>4 DEF Layout
  <2> QED BY <1>1, <1>16, <2>1, <2>2, <2>3, <2>5 DEF Layout
<1>18. Numbers'
  BY <1>1, <1>2, <1>3, <1>7 DEF Numbers
<1>19. Clean'
  BY <1>1, <1>4 DEF Clean
<1> QED BY <1>4, <1>6, <1>10, <1>17, <1>18, <1>19 DEF ArrayInv

LEMMA LastMergeKeeps ==
  ASSUME ArrayInv, LastMerge
  PROVE  ArrayInv'
<1>1. /\ w' = [base |-> 0, ntemps |-> ntemps, nfiles |-> nfiles, to |-> Stdout, ret |-> "last"]
      /\ files' = files /\ ntemps' = ntemps /\ nfiles' = nfiles /\ in' = in /\ out' = out
      /\ i' = i /\ tempcopy' = tempcopy /\ fps' = fps /\ options' = options
      /\ temphead' = temphead /\ disk' = disk /\ pc' = "open"
      /\ (pc = "avoid" /\ i = nfiles) \/ pc = "last"
  BY DEF LastMerge, mergeVars, tempVars, endVars
<1>2. Between /\ ~Making' /\ ~Between' /\ Working' /\ ~Ending' /\ pc # "merging" /\ pc' # "merging"
  BY <1>1 DEF Making, Between, Working, Ending
<1>3. w = NoMerge /\ fps = <<>> /\ w.ret = "none" /\ w.to = Stdout
  BY <1>2 DEF ArrayInv, Control, NoMerge
<1>4. ntemps \in Nat /\ nfiles \in Nat /\ i \in Nat
  BY DEF ArrayInv, Types
<1>5. Types' /\ Listed'
  BY <1>1, <1>4 DEF ArrayInv, Types, Listed, Rets
<1>6. Control'
  BY <1>1, <1>2, <1>3 DEF Control
<1>7. Lead = 0 /\ Start = 0 /\ Lead' = 0 /\ Start' = 0
  BY <1>1, <1>3 DEF InPass, Lead, Start
<1>8. \A x \in Users : /\ (Live(x)' <=> Live(x)) /\ (Rest(x)' <=> Rest(x))
                       /\ Rest(x) => x <= nfiles
  BY <1>1, <1>2, <1>7, Quiet
<1>9. Numbers /\ Layout /\ Clean
  BY <1>2 DEF ArrayInv
<1>10. Numbers'
  BY <1>1, <1>7, <1>9 DEF Numbers
<1>11. Layout'
  BY <1>1, <1>3, <1>8, <1>9 DEF Layout
<1>12. Same' = Same
  BY <1>1, OptionsKept
<1>13. Clean'
  BY <1>1, <1>8, <1>9, <1>12 DEF Clean
<1>14. Arguments'
  <2>1. ntemps <= nfiles
    BY <1>4, <1>7, <1>9 DEF Numbers
  <2> QED BY <1>1, <1>3, <1>4, <2>1 DEF Arguments
<1> QED BY <1>2, <1>5, <1>6, <1>10, <1>11, <1>13, <1>14 DEF ArrayInv

LEMMA AvoidTrashingKeeps ==
  ASSUME ArrayInv, AvoidTrashing
  PROVE  ArrayInv'
<1>1. pc = "avoid" /\ i < nfiles /\ i \in Nat /\ nfiles \in Nat /\ ntemps \in Nat
  BY DEF AvoidTrashing, ArrayInv, Types
<1>2. Between /\ pc # "merging" /\ w = NoMerge /\ fps = <<>> /\ w.ret = "none" /\ ~InPass
  BY <1>1 DEF Between, ArrayInv, Control, NoMerge, InPass
<1>3. Numbers /\ Layout /\ Clean
  BY <1>2 DEF ArrayInv
<1>4. CASE files[i + 1] \in Same /\ tempcopy = 0
  <2>1. StartMerge(i, 0, 1, "copy")
    BY <1>4 DEF AvoidTrashing, IsSame
  <2> QED BY <1>1, <1>2, <1>4, <2>1, MergeStarts
<1>5. CASE ~(files[i + 1] \in Same /\ tempcopy = 0)
  <2>1. /\ files' = IF files[i + 1] \in Same THEN [files EXCEPT ![i + 1] = tempcopy] ELSE files
        /\ i' = i + 1
        /\ ntemps' = ntemps /\ nfiles' = nfiles /\ in' = in /\ out' = out
        /\ tempcopy' = tempcopy /\ fps' = fps /\ options' = options
        /\ temphead' = temphead /\ disk' = disk /\ w' = w /\ pc' = "avoid"
    BY <1>1, <1>5 DEF AvoidTrashing, IsSame, tempVars, endVars
  <2>2. tempcopy \in Temps \cup {0} /\ files \in [Users -> Files]
    BY DEF ArrayInv, Types
  <2>3. files' \in [Users -> Files]
    BY <1>5, <2>1, <2>2, Sets
  <2>4. Types' /\ Listed'
    BY <1>1, <2>1, <2>3 DEF ArrayInv, Types, Listed
  <2>5. ~Making' /\ Between' /\ ~Working' /\ ~Ending' /\ pc' # "merging"
    BY <2>1 DEF Making, Between, Working, Ending
  <2>6. Control'
    BY <1>2, <2>1, <2>5 DEF Control
  <2>7. Lead = 0 /\ Start = 0 /\ Lead' = 0 /\ Start' = 0
    BY <1>2, <2>1 DEF InPass, Lead, Start
  <2>8. \A x \in Users : /\ (Live(x)' <=> Live(x)) /\ (Rest(x)' <=> Rest(x))
                         /\ Live(x) <=> x <= ntemps
                         /\ Rest(x) <=> (x > ntemps /\ x <= nfiles)
    BY <1>1, <1>2, <2>1, <2>5, <2>7, Quiet, Sets
  <2>9. Numbers'
    BY <1>3, <2>1, <2>7 DEF Numbers
  <2>10. ntemps <= i /\ i + 1 <= nfiles
    BY <1>1, <1>3 DEF Clean
  <2>11. \A x \in Users : x # i + 1 => files'[x] = files[x]
    BY <2>1, <2>2
  <2>12. \A x \in Users : Live(x) => x # i + 1
    BY <1>1, <2>8, <2>10, Sets
  <2>13. \A x \in Users : x = i + 1 =>
           \/ files[x] \in Same /\ files'[x] = tempcopy /\ tempcopy \in Temps /\ tempcopy # 0
           \/ files[x] \notin Same /\ files'[x] = files[x]
    BY <1>5, <2>1, <2>2
  <2>14. Layout'
    <3>1. \A f \in Temps : f \in disk' <=> \/ \E x \in Users : Live(x)' /\ files'[x] = f
                                           \/ f = tempcopy'
                                           \/ f = w'.to
      BY <1>3, <2>1, <2>8, <2>11, <2>12 DEF Layout
    <3>2. \A x \in Users : Rest(x)' => files'[x] \in Users \/ (files'[x] = tempcopy' /\ tempcopy' # 0)
      BY <1>3, <2>1, <2>8, <2>11, <2>13 DEF Layout
    <3> QED BY <1>3, <2>1, <2>8, <2>11, <2>12, <3>1, <3>2 DEF Layout
  <2>15. Same' = Same /\ Same \subseteq Users
    BY <2>1, OptionsKept, Options DEF ArrayInv, Types
  <2>16. Clean'
    <3>1. \A x \in Users : Rest(x)' /\ x <= i + 1 => files'[x] \notin Same
      <4>1. ASSUME NEW x \in Users, Rest(x)', x <= i + 1 PROVE files'[x] \notin Same
        <5>1. CASE x = i + 1
          BY <2>13, <2>15, <5>1, Sets
        <5>2. CASE x # i + 1
          <6>1. x <= i
            BY <1>1, <4>1, <5>2, Sets
          <6> QED BY <1>1, <1>3, <2>8, <2>11, <4>1, <5>2, <6>1 DEF Clean
        <5> QED BY <5>1, <5>2
      <4> QED BY <4>1
    <3>2. ntemps' <= i' /\ i' <= nfiles'
      BY <1>1, <2>1, <2>10
    <3> QED BY <2>1, <2>5, <2>15, <3>1, <3>2 DEF Clean
  <2> QED BY <2>4, <2>5, <2>6, <2>9, <2>14, <2>16 DEF ArrayInv
<1> QED BY <1>4, <1>5

-----------------------------------------------------------------------------
(* Steps of mergefiles and mergefps *)

\* The inputs that are open are merged: they are the slots of the merge from now on.
LEMMA MergeBegins ==
  ASSUME ArrayInv, pc = "open", mergefps,
         w.ret # "last" => Len(fps) >= 1,
         w.ret = "last" => Len(fps) = w.nfiles
  PROVE  ArrayInv'
<1>1. /\ files' = files /\ ntemps' = ntemps /\ nfiles' = nfiles /\ in' = in /\ out' = out
      /\ i' = i /\ tempcopy' = tempcopy /\ fps' = fps /\ options' = options
      /\ temphead' = temphead /\ disk' = disk /\ w' = [w EXCEPT !.nfiles = Len(fps)]
      /\ pc' = "merging"
  BY DEF mergefps, mergeVars, procVars
<1>2. /\ w \in [base : Nat, ntemps : Nat, nfiles : Nat, to : Temps \cup {Stdout}, ret : Rets]
      /\ Len(fps) \in Nat /\ ntemps \in Nat /\ nfiles \in Nat /\ in \in Nat /\ out \in Nat
  BY DEF ArrayInv, Types
<1>3. /\ w'.base = w.base /\ w'.ntemps = w.ntemps /\ w'.nfiles = Len(fps) /\ w'.to = w.to
      /\ w'.ret = w.ret
      /\ w' \in [base : Nat, ntemps : Nat, nfiles : Nat, to : Temps \cup {Stdout}, ret : Rets]
  BY <1>1, <1>2
<1>4. Types' /\ Listed'
  BY <1>1, <1>3 DEF ArrayInv, Types, Listed
<1>5. Working /\ ~Making' /\ ~Between' /\ Working' /\ ~Ending' /\ pc # "merging"
  BY <1>1 DEF Making, Between, Working, Ending
<1>6. Control'
  BY <1>1, <1>3, <1>5 DEF ArrayInv, Control
<1>7. Arguments /\ Numbers /\ Layout /\ Clean
  BY <1>5 DEF ArrayInv
<1>8. Same' = Same
  BY <1>1, OptionsKept
<1>9. Arguments'
  <2>1. w.base + Len(fps) <= nfiles
    BY <1>2, <1>7 DEF Arguments
  <2> QED BY <1>1, <1>2, <1>3, <1>7, <1>8, <2>1, SMTT(30) DEF Arguments
<1>10. Lead' = Lead /\ Start' = Start /\ (w.ret # "copy" => w.base = Start)
  <2>1. InPass' <=> InPass
    BY <1>1, <1>3 DEF InPass
  <2>2. w.ret \in {"full", "short", "copy", "shed", "last"}
    BY <1>2, <1>5 DEF ArrayInv, Control, Rets
  <2>3. InPass <=> w.ret \in {"full", "short"}
    BY DEF InPass
  <2> QED BY <1>1, <1>7, <2>1, <2>2, <2>3 DEF Lead, Start, Arguments
<1>11. \A x \in Users : (Live(x)' <=> Live(x)) /\ (Rest(x)' <=> Rest(x))
  <2>1. ASSUME NEW x \in Users PROVE (Live(x)' <=> Live(x)) /\ (Rest(x)' <=> Rest(x))
    <3>1. /\ Live(x) <=> (x <= Lead \/ (x > Start /\ x <= Start + ntemps))
          /\ Rest(x) <=> (x > Start + ntemps /\ x <= nfiles)
      BY <1>5, Quiet
    <3>2. CASE w.ret = "copy"
      <4>1. ~Taken'
        BY <1>3, <3>2 DEF Taken
      <4> QED BY <1>1, <1>10, <3>1, <4>1 DEF Live, Rest, Window, InFps
    <3>3. CASE w.ret # "copy"
      <4>1. Taken'
        BY <1>1, <1>3, <3>3 DEF Taken
      <4>2. w.base = Start /\ x \in Nat /\ Start \in Nat /\ Lead \in Nat
        BY <1>2, <1>10, <3>3, Sets DEF Start, Lead
      <4>3. /\ Window(x)' <=> (Start < x /\ x <= Start + Len(fps))
            /\ InFps(x)' <=> (Start < x /\ x <= Start + Len(fps))
        BY <1>1, <1>3, <4>1, <4>2 DEF Window, InFps
      <4>4. /\ w.ntemps = IF ntemps <= w.nfiles THEN ntemps ELSE w.nfiles
            /\ Len(fps) <= w.nfiles /\ Start + w.nfiles <= nfiles
        BY <1>5, <1>7, <3>3, <4>2 DEF Arguments
      <4>5. w.nfiles \in Nat /\ w.ntemps \in Nat
        BY <1>2
      <4>6. /\ Live(x)' <=> \/ x <= Lead
                            \/ x > Start /\ x <= Start + ntemps /\ ~(Start < x /\ x <= Start + Len(fps))
                            \/ (Start < x /\ x <= Start + Len(fps)) /\ x <= Start + w.ntemps
            /\ Rest(x)' <=> \/ x > Start + ntemps /\ x <= nfiles /\ ~(Start < x /\ x <= Start + Len(fps))
                            \/ (Start < x /\ x <= Start + Len(fps)) /\ x > Start + w.ntemps
        BY <1>1, <1>3, <1>10, <4>2, <4>3 DEF Live, Rest
      <4> QED BY <1>2, <3>1, <4>2, <4>4, <4>5, <4>6
    <3> QED BY <3>2, <3>3
  <2> QED BY <2>1
<1>12. Numbers' /\ Layout'
  BY <1>1, <1>3, <1>7, <1>10, <1>11 DEF Numbers, Layout
<1>13. Clean'
  BY <1>1, <1>3, <1>5, <1>7, <1>8, <1>11 DEF Clean
<1> QED BY <1>4, <1>5, <1>6, <1>9, <1>12, <1>13 DEF ArrayInv

LEMMA OpenFailsKeeps ==
  ASSUME ArrayInv, pc = "open", OpenFails
  PROVE  ArrayInv'
<1>1. CASE TooFew
  BY <1>1, DieKeeps DEF OpenFails
<1>2. CASE ~TooFew /\ w.ret = "last"
  <2>1. pc' = "shed" /\ UNCHANGED <<cont, mergeVars, w, fps, tempVars, procVars, endVars>>
    BY <1>2 DEF OpenFails
  <2>2. Len(fps) > 2
    <3>1. Len(fps) \in Nat
      BY DEF ArrayInv, Types
    <3> QED BY <1>2, <3>1 DEF TooFew
  <2>3. Working /\ Working'
    BY <2>1 DEF Working
  <2>4. Arguments
    BY <2>3 DEF ArrayInv
  <2>5. /\ UNCHANGED <<options, mergeVars, w, temphead, disk>> /\ fps' = fps
        /\ fps \in Seq(Files) /\ Len(fps) <= w.nfiles
        /\ \A k \in 1..Len(fps) : fps[k] = files[w.base + k]
    BY <2>1, <2>4 DEF tempVars, endVars, ArrayInv, Types, Arguments
  <2> QED BY <1>2, <2>1, <2>2, <2>3, <2>5, IdleKeeps
<1>3. CASE ~TooFew /\ w.ret # "last"
  <2>1. mergefps
    BY <1>3 DEF OpenFails
  <2>2. Len(fps) >= 1
    <3>1. Len(fps) \in Nat
      BY DEF ArrayInv, Types
    <3> QED BY <1>3, <3>1 DEF TooFew
  <2> QED BY <1>3, <2>1, <2>2, MergeBegins
<1> QED BY <1>1, <1>2, <1>3

LEMMA OpenedKeeps ==
  ASSUME ArrayInv, Opened
  PROVE  ArrayInv'
<1>1. pc = "open" /\ Len(fps) = w.nfiles /\ mergefps
  BY DEF Opened
<1>2. w.ret # "last" => w.nfiles >= 1
  BY <1>1 DEF ArrayInv, Working, Arguments
<1> QED BY <1>1, <1>2, MergeBegins

\* The next input, and what is open when it was opened.
LEMMA NextInput ==
  ASSUME ArrayInv, Working, pc # "merging", Len(fps) < w.nfiles,
         fps' = Append(fps, files[w.base + Len(fps) + 1])
  PROVE  /\ fps' \in Seq(Files) /\ Len(fps') <= w.nfiles
         /\ \A k \in 1..Len(fps') : fps'[k] = files[w.base + k]
<1>1. /\ w \in [base : Nat, ntemps : Nat, nfiles : Nat, to : Temps \cup {Stdout}, ret : Rets]
      /\ fps \in Seq(Files) /\ Len(fps) \in Nat /\ nfiles \in Nat /\ files \in [Users -> Files]
  BY DEF ArrayInv, Types
<1>2. w.base \in Nat /\ w.nfiles \in Nat /\ w.base + w.nfiles <= nfiles /\ nfiles <= N
  BY <1>1 DEF ArrayInv, Arguments, Numbers
<1>3. w.base + Len(fps) + 1 \in Users
  BY <1>1, <1>2, Sets
<1>4. /\ fps' \in Seq(Files) /\ Len(fps') = Len(fps) + 1
      /\ fps'[Len(fps) + 1] = files[w.base + Len(fps) + 1]
      /\ \A k \in 1..Len(fps) : fps'[k] = fps[k]
  BY <1>1, <1>3
<1>5. ASSUME NEW k \in 1..Len(fps') PROVE fps'[k] = files[w.base + k]
  <2>1. CASE k \in 1..Len(fps)
    BY <1>4, <2>1 DEF ArrayInv, Arguments
  <2>2. CASE k = Len(fps) + 1
    <3>1. w.base + k = w.base + Len(fps) + 1
      BY <1>1, <1>2, <2>2
    <3> QED BY <1>4, <2>2, <3>1
  <2> QED BY <1>1, <1>4, <2>1, <2>2
<1>6. Len(fps') <= w.nfiles
  BY <1>1, <1>2, <1>4
<1> QED BY <1>4, <1>5, <1>6

LEMMA OpenKeeps ==
  ASSUME ArrayInv, Open
  PROVE  ArrayInv'
<1> DEFINE f == files[w.base + Len(fps) + 1]
<1>1. pc = "open" /\ Len(fps) < w.nfiles /\ Working /\ pc # "merging"
  BY DEF Open, Working
<1>2. CASE OpenFails
  BY <1>1, <1>2, OpenFailsKeeps
<1>3. CASE /\ fps' = Append(fps, f)
           /\ UNCHANGED <<pc, cont, mergeVars, w, tempVars, procVars, endVars>>
  <2>1. /\ UNCHANGED <<options, mergeVars, w, temphead, disk>> /\ pc' = "open"
    BY <1>1, <1>3 DEF tempVars, endVars
  <2>2. Working'
    BY <2>1 DEF Working
  <2>3. /\ fps' \in Seq(Files) /\ Len(fps') <= w.nfiles
        /\ \A k \in 1..Len(fps') : fps'[k] = files[w.base + k]
    BY <1>1, <1>3, NextInput
  <2> QED BY <1>1, <2>1, <2>2, <2>3, IdleKeeps
<1> QED BY <1>2, <1>3 DEF Open

\* What is open stays open.
LEMMA PauseKeeps ==
  ASSUME ArrayInv, UNCHANGED <<options, mergeVars, w, fps, temphead, disk>>,
         Working, Working', pc # "merging", pc' # "merging", pc' # "shed",
         pc' \in {"pipe", "fork"} => w.to # Stdout,
         pc' \in {"pipein", "forkin"} =>
           Len(fps) < w.nfiles /\ files[w.base + Len(fps) + 1] \in Temps
  PROVE  ArrayInv'
<1>1. fps' = fps
  OBVIOUS
<1>2. /\ fps \in Seq(Files) /\ Len(fps) <= w.nfiles
      /\ \A k \in 1..Len(fps) : fps[k] = files[w.base + k]
  BY DEF ArrayInv, Types, Arguments
<1> QED BY <1>1, <1>2, IdleKeeps

LEMMA OpenTempKeeps ==
  ASSUME ArrayInv, OpenTemp
  PROVE  ArrayInv'
<1> DEFINE f == files[w.base + Len(fps) + 1]
<1>1. /\ pc = "open" /\ Len(fps) < w.nfiles /\ Working /\ pc # "merging" /\ pc # "pipe" /\ pc # "fork"
      /\ f \in Temps
  BY DEF OpenTemp, Working, Compressed
<1>2. CASE die("abnormal")
  BY <1>2, DieKeeps
<1>3. CASE OpenFails
  BY <1>1, <1>3, OpenFailsKeeps
<1>4. CASE UNCHANGED <<pc, cont, mergeVars, w, fps, tempVars, strangers, endVars>>
  <2>1. /\ UNCHANGED <<options, mergeVars, w, fps, temphead, disk>> /\ pc' = "open"
    BY <1>1, <1>4 DEF tempVars, endVars
  <2>2. Working'
    BY <2>1 DEF Working
  <2> QED BY <1>1, <2>1, <2>2, PauseKeeps
<1>5. CASE /\ Pipe("pipein", "forkin")
           /\ UNCHANGED <<cont, mergeVars, w, fps, tempVars, procVars, endVars>>
  <2>1. UNCHANGED <<options, mergeVars, w, fps, temphead, disk>>
    BY <1>5 DEF tempVars, endVars
  <2>2. pc' = "pipein" \/ pc' = "forkin"
    BY <1>5, Zenon DEF Pipe
  <2>3. Working' /\ pc' # "merging" /\ pc' # "shed" /\ pc' # "pipe" /\ pc' # "fork"
    BY <2>2 DEF Working
  <2> QED BY <1>1, <2>1, <2>3, PauseKeeps
<1> QED BY <1>2, <1>3, <1>4, <1>5 DEF OpenTemp

LEMMA ShedKeeps ==
  ASSUME ArrayInv, Shed
  PROVE  ArrayInv'
<1> DEFINE left == Front(fps)
           free == Free + Cost(Last(fps))
<1>1. pc = "shed" /\ Working /\ pc # "merging"
  BY DEF Shed, Working
<1>2. /\ fps \in Seq(Files) /\ Len(fps) \in Nat /\ ntemps \in Nat /\ nfiles \in Nat
      /\ w \in [base : Nat, ntemps : Nat, nfiles : Nat, to : Temps \cup {Stdout}, ret : Rets]
  BY DEF ArrayInv, Types
<1>3. Control /\ Arguments /\ Clean
  BY <1>1 DEF ArrayInv
<1>4. w.ret = "last" /\ Len(fps) > 2 /\ w.to = Stdout /\ w.base = 0
  BY <1>1, <1>3 DEF Control, Arguments
<1>5. /\ left \in Seq(Files) /\ Len(left) = Len(fps) - 1
      /\ \A k \in 1..(Len(fps) - 1) : left[k] = fps[k]
  BY <1>2, <1>4, FrontIs, SMTT(30)
<1> HIDE DEF left, free
<1>6. \A k \in 1..Len(left) : left[k] = files[w.base + k]
  <2>1. \A k \in 1..Len(left) : k \in 1..(Len(fps) - 1) /\ k \in 1..Len(fps)
    BY <1>2, <1>5
  <2> QED BY <1>3, <1>5, <2>1 DEF Arguments
<1>7. Len(left) \in Nat /\ Len(left) >= 2 /\ Len(left) <= w.nfiles /\ w.nfiles <= nfiles
  BY <1>2, <1>3, <1>4, <1>5 DEF Arguments
<1>8. CASE die("create")
  BY <1>8, DieKeeps
<1>9. CASE /\ Len(left) > 2 /\ fps' = left
           /\ UNCHANGED <<pc, cont, mergeVars, w, tempVars, procVars, endVars>>
  <2>1. /\ UNCHANGED <<options, mergeVars, w, temphead, disk>> /\ pc' = "shed" /\ fps' = left
    BY <1>1, <1>9 DEF tempVars, endVars
  <2>2. Working'
    BY <2>1 DEF Working
  <2> QED BY <1>1, <1>4, <1>5, <1>6, <1>7, <1>9, <2>1, <2>2, IdleKeeps
<1>10. CASE /\ maybe_create_temp("open", free) /\ fps' = left
            /\ w' = [w EXCEPT !.ntemps = Min({ntemps, Len(left)}), !.nfiles = Len(left),
                              !.to = NewTemp, !.ret = "shed"]
            /\ UNCHANGED <<mergeVars, content, child, nprocs, strangers, endVars>>
  <2>1. /\ NewTemp \in Temps /\ disk' \subseteq Temps /\ temphead' \in Seq(Temps)
        /\ Listed'
        /\ \/ pc' \in {"pipe", "fork"} /\ cont' = "open"
           \/ pc' = "open" /\ cont' = "none"
    BY <1>10, TempMade DEF ArrayInv
  <2>2. /\ files' = files /\ ntemps' = ntemps /\ nfiles' = nfiles /\ in' = in /\ out' = out
        /\ i' = i /\ tempcopy' = tempcopy /\ fps' = left /\ options' = options
    BY <1>10 DEF mergeVars, endVars
  <2>3. Min({ntemps, Len(left)}) = IF ntemps <= Len(left) THEN ntemps ELSE Len(left)
    BY <1>2, <1>7, MinOfTwo
  <2>4. Min({ntemps, Len(left)}) \in Nat
    BY <1>2, <1>7, <2>3
  <2>5. /\ w' \in [base : Nat, ntemps : Nat, nfiles : Nat, to : Temps \cup {Stdout}, ret : Rets]
        /\ w'.base = w.base /\ w'.ntemps = Min({ntemps, Len(left)}) /\ w'.nfiles = Len(left)
        /\ w'.to = NewTemp /\ w'.ret = "shed"
    BY <1>2, <1>7, <1>10, <2>1, <2>4 DEF Rets
  <2>6. Types'
    BY <1>5, <2>1, <2>2, <2>5 DEF ArrayInv, Types
  <2>7. ~Making' /\ ~Between' /\ Working' /\ ~Ending' /\ pc' \notin {"full", "shift"}
    BY <2>1 DEF Making, Between, Working, Ending
  <2>8. InPass' <=> InPass
    BY <1>1, <1>4, <2>5, <2>7 DEF InPass
  <2>9. /\ Numbers' /\ Layout'
        /\ \A x \in Users : (Live(x)' <=> Live(x)) /\ (Rest(x)' <=> Rest(x))
    BY <1>1, <1>4, <1>10, <2>2, <2>5, <2>8, OutputMade
  <2>10. NewTemp # Stdout
    BY <2>1, Sets DEF Stdout
  <2>11. Control'
    BY <2>1, <2>2, <2>5, <2>7, <2>10 DEF Control
  <2>12. Arguments'
    <3>1. 0 + Len(left) <= nfiles
      BY <1>2, <1>7
    <3>2. \A k \in 1..Len(fps') : fps'[k] = files'[w'.base + k]
      BY <1>6, <2>2, <2>5
    <3> QED BY <1>4, <1>7, <2>2, <2>3, <2>5, <3>1, <3>2 DEF Arguments
  <2>13. Same' = Same
    BY <2>2, OptionsKept
  <2>14. Clean'
    BY <1>1, <1>3, <1>4, <2>1, <2>2, <2>5, <2>9, <2>13 DEF Clean
  <2> QED BY <2>1, <2>6, <2>7, <2>9, <2>11, <2>12, <2>14 DEF ArrayInv
<1> QED BY <1>8, <1>9, <1>10 DEF Shed, left, free

\* What EndOfInput does for the input of one slot, when its child did not fail.
Ends(k) ==
  /\ IF IsTemp(k) THEN zaptemp(fps[k]) /\ w' = [w EXCEPT !.ntemps = @ - 1]
                  ELSE UNCHANGED <<tempVars, w>>
  /\ fps' = RemoveAt(fps, k)
  /\ files' = [x \in Users |-> IF x \in (w.base + k)..(w.base + Len(fps) - 1)
                               THEN files[x + 1] ELSE files[x]]
  /\ UNCHANGED <<pc, cont, ntemps, nfiles, in, out, i, tempcopy, strangers, endVars>>

LEMMA EndOfInputIs ==
  ASSUME EndOfInput
  PROVE  /\ pc = "merging"
         /\ \/ die("abnormal")
            \/ \E k \in DOMAIN fps : Ends(k)
BY Zenon DEF EndOfInput, Ends

\* The facts about an input that ends that all cases need.
LEMMA InputEnds ==
  ASSUME ArrayInv, pc = "merging", NEW k \in DOMAIN fps, Ends(k)
  PROVE  /\ k \in 1..Len(fps) /\ Len(fps) \in Nat
         /\ pc' = "merging" /\ ntemps' = ntemps /\ nfiles' = nfiles /\ in' = in /\ out' = out
         /\ i' = i /\ tempcopy' = tempcopy /\ options' = options
         /\ fps' \in Seq(Files) /\ Len(fps') = Len(fps) - 1
         /\ \A j \in 1..(Len(fps) - 1) : fps'[j] = IF j < k THEN fps[j] ELSE fps[j + 1]
         /\ w \in [base : Nat, ntemps : Nat, nfiles : Nat, to : Temps \cup {Stdout}, ret : Rets]
         /\ w' \in [base : Nat, ntemps : Nat, nfiles : Nat, to : Temps \cup {Stdout}, ret : Rets]
         /\ w'.base = w.base /\ w'.nfiles = w.nfiles /\ w'.to = w.to /\ w'.ret = w.ret
         /\ w'.ntemps = IF k <= w.ntemps THEN w.ntemps - 1 ELSE w.ntemps
         /\ ntemps \in Nat /\ nfiles \in Nat /\ in \in Nat /\ out \in Nat /\ i \in Nat
         /\ Control' /\ ~Making' /\ ~Between' /\ Working' /\ Working
         /\ w.base + Len(fps) <= w.base + w.nfiles /\ w.base + w.nfiles <= nfiles /\ nfiles <= N
<1>1. /\ fps \in Seq(Files) /\ Len(fps) \in Nat /\ k \in 1..Len(fps)
      /\ ntemps \in Nat /\ nfiles \in Nat /\ in \in Nat /\ out \in Nat /\ i \in Nat
      /\ w \in [base : Nat, ntemps : Nat, nfiles : Nat, to : Temps \cup {Stdout}, ret : Rets]
  BY DEF ArrayInv, Types
<1>2. /\ pc' = "merging" /\ ntemps' = ntemps /\ nfiles' = nfiles /\ in' = in /\ out' = out
      /\ i' = i /\ tempcopy' = tempcopy /\ options' = options
  BY DEF Ends, endVars
<1>3. /\ fps' \in Seq(Files) /\ Len(fps') = Len(fps) - 1
      /\ \A j \in 1..(Len(fps) - 1) : fps'[j] = IF j < k THEN fps[j] ELSE fps[j + 1]
  BY <1>1, RemoveAtIs DEF Ends
<1>4. /\ w' \in [base : Nat, ntemps : Nat, nfiles : Nat, to : Temps \cup {Stdout}, ret : Rets]
      /\ w'.base = w.base /\ w'.nfiles = w.nfiles /\ w'.to = w.to /\ w'.ret = w.ret
      /\ w'.ntemps = IF k <= w.ntemps THEN w.ntemps - 1 ELSE w.ntemps
  <2>1. CASE k <= w.ntemps
    <3>1. w' = [w EXCEPT !.ntemps = @ - 1]
      BY <2>1 DEF Ends, IsTemp
    <3>2. w.ntemps - 1 \in Nat
      BY <1>1, <2>1
    <3> QED BY <1>1, <2>1, <3>1, <3>2
  <2>2. CASE ~(k <= w.ntemps)
    <3>1. w' = w
      BY <2>2 DEF Ends, IsTemp
    <3> QED BY <1>1, <2>2, <3>1
  <2> QED BY <2>1, <2>2
<1>5. ~Making' /\ ~Between' /\ Working' /\ Working
  BY <1>2 DEF Making, Between, Working
<1>6. Control'
  BY <1>2, <1>4, <1>5 DEF ArrayInv, Control
<1>7. Arguments /\ Numbers
  BY <1>5 DEF ArrayInv
<1>8. w.base + Len(fps) <= w.base + w.nfiles /\ w.base + w.nfiles <= nfiles /\ nfiles <= N
  BY <1>1, <1>7 DEF Arguments, Numbers
<1> QED BY <1>1, <1>2, <1>3, <1>4, <1>5, <1>6, <1>8

\* The copy of an input: no slot changes.
LEMMA CopyEnds ==
  ASSUME ArrayInv, pc = "merging", w.ret = "copy", NEW k \in DOMAIN fps, Ends(k)
  PROVE  ArrayInv'
<1>1. Arguments /\ Numbers /\ Layout /\ Clean
  BY InputEnds DEF ArrayInv
<1>2. Len(fps) = 1 /\ k = 1 /\ w.ntemps = 0 /\ w.nfiles = 1
  <2>1. k \in 1..Len(fps) /\ Len(fps) \in Nat
    BY InputEnds
  <2>2. Len(fps) <= w.nfiles /\ w.nfiles = 1 /\ w.ntemps = 0
    BY <1>1 DEF Arguments
  <2>3. Len(fps) <= 1
    BY <2>2
  <2>4. Len(fps) = 1 /\ k = 1
    BY <2>1, <2>3
  <2> QED BY <2>2, <2>4
<1>3. /\ w' = w /\ temphead' = temphead /\ disk' = disk
  BY <1>2 DEF Ends, IsTemp, tempVars
<1>4. files' = files
  <2>1. \A x \in Users : x \notin (w.base + k)..(w.base + Len(fps) - 1)
    BY <1>2, InputEnds, Sets
  <2> QED BY <2>1 DEF Ends, ArrayInv, Types
<1>5. Types' /\ Listed'
  <2>1. Types /\ Listed
    BY DEF ArrayInv
  <2>2. /\ ntemps' = ntemps /\ nfiles' = nfiles /\ in' = in /\ out' = out /\ i' = i
        /\ tempcopy' = tempcopy /\ options' = options /\ fps' \in Seq(Files)
    BY InputEnds
  <2> QED BY <1>3, <1>4, <2>1, <2>2, Zenon DEF Types, Listed
<1>6. ~Taken /\ ~Taken'
  BY InputEnds DEF Taken
<1>7. Lead' = Lead /\ Start' = Start
  BY <1>3, InputEnds DEF InPass, Lead, Start
<1>8. \A x \in Users : (Live(x)' <=> Live(x)) /\ (Rest(x)' <=> Rest(x))
  BY <1>6, <1>7, InputEnds DEF Live, Rest, Window, InFps
<1>9. Numbers' /\ Layout'
  BY <1>1, <1>3, <1>4, <1>7, <1>8, InputEnds DEF Numbers, Layout
<1>10. Same' = Same
  BY InputEnds, OptionsKept
<1>11. Len(fps') = 0 /\ \A j \in 1..Len(fps') : FALSE
  BY <1>2, InputEnds
<1>12. Arguments'
  BY <1>1, <1>2, <1>3, <1>4, <1>10, <1>11, InputEnds DEF Arguments
<1>13. Clean'
  BY <1>1, <1>3, <1>4, <1>8, <1>10, InputEnds DEF Clean
<1> QED BY <1>5, <1>9, <1>12, <1>13, InputEnds DEF ArrayInv

\* In a merge into a temporary file of a pass, or into the output, the slots of the
\* inputs after the one that ends move down.
From(k, x) == IF x >= w.base + k /\ x <= w.base + Len(fps) - 1 THEN x + 1 ELSE x

LEMMA SlotsMove ==
  ASSUME ArrayInv, pc = "merging", w.ret # "copy", NEW k \in DOMAIN fps, Ends(k)
  PROVE  /\ w.base + k \in Users /\ w.base = Start /\ Lead <= Start /\ Start \in Nat
         /\ Lead' = Lead /\ Start' = Start
         /\ files' \in [Users -> Files]
         /\ \A x \in Users : From(k, x) \in Users /\ files'[x] = files[From(k, x)]
         /\ \A x \in Users : Live(x)' => Live(From(k, x)) /\ From(k, x) # w.base + k
         /\ \A x \in Users : Rest(x)' => Rest(From(k, x)) /\ From(k, x) # w.base + k
         /\ \A x, y \in Users : Live(x)' /\ Live(y)' /\ From(k, x) = From(k, y) => x = y
         /\ \A y \in Users : Live(y) /\ y # w.base + k => \E x \in Users : Live(x)' /\ From(k, x) = y
         /\ Live(w.base + k) <=> k <= w.ntemps
<1> DEFINE b == w.base
           L == Len(fps)
           n == w.nfiles
           t == w.ntemps
           u == w'.ntemps
<1>1. /\ k \in 1..L /\ L \in Nat /\ b \in Nat /\ n \in Nat /\ t \in Nat /\ u \in Nat
      /\ u = IF k <= t THEN t - 1 ELSE t
      /\ b + L <= b + n /\ b + n <= nfiles /\ nfiles <= N /\ nfiles \in Nat /\ ntemps \in Nat
      /\ N \in Nat /\ in \in Nat /\ out \in Nat
  BY InputEnds, Sets
<1>2. /\ pc' = "merging" /\ w'.base = b /\ w'.nfiles = n /\ w'.ret = w.ret /\ Len(fps') = L - 1
      /\ ntemps' = ntemps /\ nfiles' = nfiles /\ in' = in /\ out' = out
  BY InputEnds
<1>3. Arguments /\ Numbers /\ Working
  BY InputEnds DEF ArrayInv
<1>4. Lead' = Lead /\ Start' = Start /\ b = Start
  <2>1. (InPass' <=> InPass) /\ (InPass <=> w.ret \in {"full", "short"})
    BY <1>2 DEF InPass
  <2>2. w.ret \in {"full", "short", "copy", "shed", "last"}
    BY <1>3, InputEnds DEF ArrayInv, Control, Rets
  <2> QED BY <1>2, <1>3, <2>1, <2>2 DEF Lead, Start, Arguments
<1>5. Lead \in Nat /\ Start \in Nat /\ Lead <= Start
  BY <1>1, <1>3 DEF Lead, Start, Numbers
<1>6. Taken /\ Taken'
  BY <1>2 DEF Taken
<1>7. \A x \in Users :
        /\ Live(x) <=> \/ x <= Lead
                       \/ x > b /\ x <= b + ntemps /\ ~(b < x /\ x <= b + n)
                       \/ (b < x /\ x <= b + L) /\ x <= b + t
        /\ Rest(x) <=> \/ x > b + ntemps /\ x <= nfiles /\ ~(b < x /\ x <= b + n)
                       \/ (b < x /\ x <= b + L) /\ x > b + t
        /\ Live(x)' <=> \/ x <= Lead
                        \/ x > b /\ x <= b + ntemps /\ ~(b < x /\ x <= b + n)
                        \/ (b < x /\ x <= b + (L - 1)) /\ x <= b + u
        /\ Rest(x)' <=> \/ x > b + ntemps /\ x <= nfiles /\ ~(b < x /\ x <= b + n)
                        \/ (b < x /\ x <= b + (L - 1)) /\ x > b + u
  BY <1>2, <1>4, <1>6 DEF Live, Rest, Window, InFps
<1>8. files' = [x \in Users |-> IF x \in (b + k)..(b + L - 1) THEN files[x + 1] ELSE files[x]]
  BY DEF Ends
<1>9. files \in [Users -> Files]
  BY DEF ArrayInv, Types
<1>10. \A x \in Users : From(k, x) = IF x >= b + k /\ x <= b + L - 1 THEN x + 1 ELSE x
  BY DEF From
<1> HIDE DEF b, L, n, t, u
<1>11. b + k \in Users
  <2>1. b + k \in 1..N
    BY <1>1
  <2> QED BY <2>1, Sets
<1>12. \A x \in Users : From(k, x) \in Users /\ files'[x] = files[From(k, x)]
  <2>1. ASSUME NEW x \in Users
        PROVE  From(k, x) \in Users /\ files'[x] = files[From(k, x)]
    <3>1. x \in Nat /\ x # 0 /\ x <= N
      BY <1>1, Sets
    <3>2. CASE x >= b + k /\ x <= b + L - 1
      <4>1. x + 1 \in Users /\ x \in (b + k)..(b + L - 1)
        BY <1>1, <3>1, <3>2, Sets
      <4> QED BY <1>8, <1>10, <3>2, <4>1
    <3>3. CASE ~(x >= b + k /\ x <= b + L - 1)
      <4>1. x \notin (b + k)..(b + L - 1)
        BY <1>1, <3>1, <3>3
      <4> QED BY <1>8, <1>10, <3>3, <4>1
    <3> QED BY <3>2, <3>3
  <2> QED BY <2>1
<1>13. files' \in [Users -> Files]
  BY <1>8, <1>9, <1>12
<1>14. \A x \in Users : Live(x)' => Live(From(k, x)) /\ From(k, x) # b + k
  <2>1. ASSUME NEW x \in Users, Live(x)' PROVE Live(From(k, x)) /\ From(k, x) # b + k
    <3>1. x \in Nat
      BY Sets
    <3>2. From(k, x) \in Users
      BY <1>12
    <3>3. CASE x >= b + k /\ x <= b + L - 1
      <4>1. From(k, x) = x + 1
        BY <1>10, <3>3
      <4>2. x <= b + u
        BY <1>1, <1>4, <1>5, <1>7, <2>1, <3>1, <3>3
      <4>3. k <= t
        BY <1>1, <3>1, <3>3, <4>2
      <4>4. b < x + 1 /\ x + 1 <= b + L /\ x + 1 <= b + t /\ x + 1 # b + k
        BY <1>1, <3>1, <3>3, <4>2, <4>3
      <4> QED BY <1>7, <3>2, <4>1, <4>4
    <3>4. CASE ~(x >= b + k /\ x <= b + L - 1)
      <4>1. From(k, x) = x
        BY <1>10, <3>4
      <4>2. x # b + k
        BY <1>1, <1>4, <1>5, <1>7, <2>1, <3>1, <3>4
      <4>3. \/ x <= Lead
            \/ x > b /\ x <= b + ntemps /\ ~(b < x /\ x <= b + n)
            \/ (b < x /\ x <= b + L) /\ x <= b + t
        BY <1>1, <1>7, <2>1, <3>1
      <4> QED BY <1>7, <4>1, <4>2, <4>3
    <3> QED BY <3>3, <3>4
  <2> QED BY <2>1
<1>15. \A x \in Users : Rest(x)' => Rest(From(k, x)) /\ From(k, x) # b + k
  <2>1. ASSUME NEW x \in Users, Rest(x)' PROVE Rest(From(k, x)) /\ From(k, x) # b + k
    <3>1. x \in Nat
      BY Sets
    <3>2. From(k, x) \in Users
      BY <1>12
    <3>3. CASE x >= b + k /\ x <= b + L - 1
      <4>1. From(k, x) = x + 1
        BY <1>10, <3>3
      <4>2. x > b + u
        BY <1>1, <1>4, <1>5, <1>7, <2>1, <3>1, <3>3
      <4>3. b < x + 1 /\ x + 1 <= b + L /\ x + 1 > b + t /\ x + 1 # b + k
        BY <1>1, <3>1, <3>3, <4>2
      <4> QED BY <1>7, <3>2, <4>1, <4>3
    <3>4. CASE ~(x >= b + k /\ x <= b + L - 1)
      <4>1. From(k, x) = x
        BY <1>10, <3>4
      <4>2. x # b + k
        BY <1>1, <1>4, <1>5, <1>7, <2>1, <3>1, <3>4
      <4>3. \/ x > b + ntemps /\ x <= nfiles /\ ~(b < x /\ x <= b + n)
            \/ (b < x /\ x <= b + L) /\ x > b + t
        BY <1>1, <1>7, <2>1, <3>1, <3>4
      <4> QED BY <1>7, <4>1, <4>2, <4>3
    <3> QED BY <3>3, <3>4
  <2> QED BY <2>1
<1>16. \A x, y \in Users : Live(x)' /\ Live(y)' /\ From(k, x) = From(k, y) => x = y
  <2>1. ASSUME NEW x \in Users, NEW y \in Users, Live(x)', Live(y)', From(k, x) = From(k, y)
        PROVE  x = y
    <3>1. x \in Nat /\ y \in Nat
      BY Sets
    <3>2. /\ \/ x <= b
             \/ x > b + n
             \/ x <= b + (L - 1)
          /\ \/ y <= b
             \/ y > b + n
             \/ y <= b + (L - 1)
      BY <1>1, <1>4, <1>5, <1>7, <2>1, <3>1
    <3> QED BY <1>1, <1>10, <2>1, <3>1, <3>2
  <2> QED BY <2>1
<1>17. \A y \in Users : Live(y) /\ y # b + k => \E x \in Users : Live(x)' /\ From(k, x) = y
  <2>1. ASSUME NEW y \in Users, Live(y), y # b + k PROVE \E x \in Users : Live(x)' /\ From(k, x) = y
    <3>1. y \in Nat /\ y # 0 /\ y <= N
      BY <1>1, Sets
    <3>2. CASE y > b + k /\ y <= b + L
      <4>1. y <= b + t /\ k <= t
        BY <1>1, <1>4, <1>5, <1>7, <2>1, <3>1, <3>2
      <4>2. /\ y - 1 \in Users /\ b < y - 1 /\ y - 1 <= b + (L - 1) /\ y - 1 <= b + u
            /\ y - 1 >= b + k /\ y - 1 <= b + L - 1 /\ (y - 1) + 1 = y
        BY <1>1, <3>1, <3>2, <4>1, Sets
      <4>3. From(k, y - 1) = y
        BY <1>10, <4>2
      <4> QED BY <1>7, <4>2, <4>3
    <3>3. CASE ~(y > b + k /\ y <= b + L)
      <4>1. ~(y >= b + k /\ y <= b + L - 1)
        BY <1>1, <2>1, <3>1, <3>3
      <4>2. From(k, y) = y
        BY <1>10, <4>1
      <4>3. \/ y <= Lead
            \/ y > b /\ y <= b + ntemps /\ ~(b < y /\ y <= b + n)
            \/ (b < y /\ y <= b + (L - 1)) /\ y <= b + u
        BY <1>1, <1>7, <2>1, <3>1, <3>3
      <4> QED BY <1>7, <4>2, <4>3
    <3> QED BY <3>2, <3>3
  <2> QED BY <2>1
<1>18. Live(b + k) <=> k <= t
  <2>1. Live(b + k) <=> \/ b + k <= Lead
                        \/ b + k > b /\ b + k <= b + ntemps /\ ~(b < b + k /\ b + k <= b + n)
                        \/ (b < b + k /\ b + k <= b + L) /\ b + k <= b + t
    BY <1>7, <1>11
  <2> QED BY <1>1, <1>4, <1>5, <2>1
<1> QED BY <1>4, <1>5, <1>11, <1>12, <1>13, <1>14, <1>15, <1>16, <1>17, <1>18 DEF b, L, t

LEMMA SlotsOfInputs ==
  ASSUME NEW a \in Nat, NEW n \in Nat, NEW k \in 1..n, NEW j \in 1..(n - 1), a + n <= N
  PROVE  /\ j \in 1..n /\ j + 1 \in 1..n /\ a + j \in Users /\ a + (j + 1) = (a + j) + 1
         /\ (a + j >= a + k /\ a + j <= a + n - 1) <=> ~(j < k)
BY Sets

LEMMA SlotEnds ==
  ASSUME ArrayInv, pc = "merging", w.ret # "copy", NEW k \in DOMAIN fps, Ends(k)
  PROVE  ArrayInv'
<1> DEFINE b == w.base
           g == files[b + k]
<1>1. /\ b + k \in Users /\ b = Start /\ Lead <= Start /\ Start \in Nat
      /\ Lead' = Lead /\ Start' = Start /\ files' \in [Users -> Files]
      /\ \A x \in Users : From(k, x) \in Users /\ files'[x] = files[From(k, x)]
      /\ \A x \in Users : Live(x)' => Live(From(k, x)) /\ From(k, x) # b + k
      /\ \A x \in Users : Rest(x)' => Rest(From(k, x)) /\ From(k, x) # b + k
      /\ \A x, y \in Users : Live(x)' /\ Live(y)' /\ From(k, x) = From(k, y) => x = y
      /\ \A y \in Users : Live(y) /\ y # b + k => \E x \in Users : Live(x)' /\ From(k, x) = y
      /\ Live(b + k) <=> k <= w.ntemps
  BY SlotsMove
<1>2. /\ k \in 1..Len(fps) /\ Len(fps) \in Nat
      /\ pc' = "merging" /\ ntemps' = ntemps /\ nfiles' = nfiles /\ in' = in /\ out' = out
      /\ i' = i /\ tempcopy' = tempcopy /\ options' = options
      /\ fps' \in Seq(Files) /\ Len(fps') = Len(fps) - 1
      /\ \A j \in 1..(Len(fps) - 1) : fps'[j] = IF j < k THEN fps[j] ELSE fps[j + 1]
      /\ w' \in [base : Nat, ntemps : Nat, nfiles : Nat, to : Temps \cup {Stdout}, ret : Rets]
      /\ b \in Nat /\ w.nfiles \in Nat /\ nfiles \in Nat
      /\ w'.base = b /\ w'.nfiles = w.nfiles /\ w'.to = w.to /\ w'.ret = w.ret
      /\ Control' /\ ~Making' /\ ~Between' /\ Working' /\ Working
      /\ b + Len(fps) <= b + w.nfiles /\ b + w.nfiles <= nfiles /\ nfiles <= N /\ N \in Nat
  BY InputEnds, Sets
<1>3. Arguments /\ Numbers /\ Layout /\ Clean
  BY <1>2 DEF ArrayInv
<1>4. fps[k] = g
  BY <1>2, <1>3 DEF Arguments
<1>5. /\ disk' \subseteq Temps /\ temphead' \in Seq(Temps) /\ Listed'
      /\ disk' = IF k <= w.ntemps THEN disk \ {g} ELSE disk
  <2>1. CASE k <= w.ntemps
    <3>1. zaptemp(g)
      BY <1>4, <2>1 DEF Ends, IsTemp
    <3>2. g \in disk
      BY <1>1, <1>3, <2>1 DEF Layout
    <3> QED BY <2>1, <3>1, <3>2, TempRemoved DEF ArrayInv, Types
  <2>2. CASE ~(k <= w.ntemps)
    <3>1. temphead' = temphead /\ disk' = disk
      BY <2>2 DEF Ends, IsTemp, tempVars
    <3> QED BY <2>2, <3>1 DEF ArrayInv, Types, Listed
  <2> QED BY <2>1, <2>2
<1>6. Types'
  BY <1>1, <1>2, <1>5 DEF ArrayInv, Types
<1>7. Same' = Same
  BY <1>2, OptionsKept
<1>8. Arguments'
  <2>1. \A j \in 1..(Len(fps) - 1) : fps'[j] = files'[b + j]
    <3>1. ASSUME NEW j \in 1..(Len(fps) - 1) PROVE fps'[j] = files'[b + j]
      <4>1. b + Len(fps) <= N
        <5> HIDE DEF b
        <5> QED BY <1>2
      <4>2. /\ j \in 1..Len(fps) /\ j + 1 \in 1..Len(fps) /\ b + j \in Users
            /\ b + (j + 1) = (b + j) + 1
            /\ (b + j >= b + k /\ b + j <= b + Len(fps) - 1) <=> ~(j < k)
        <5> HIDE DEF b
        <5>1. PICK l \in Nat : l = Len(fps)
          BY <1>2
        <5>2. b \in Nat /\ k \in 1..l /\ j \in 1..(l - 1) /\ b + l <= N
          BY <1>2, <4>1, <5>1
        <5>3. /\ j \in 1..l /\ j + 1 \in 1..l /\ b + j \in Users /\ b + (j + 1) = (b + j) + 1
              /\ (b + j >= b + k /\ b + j <= b + l - 1) <=> ~(j < k)
          BY <5>2, SlotsOfInputs
        <5> QED BY <5>1, <5>3
      <4>3. fps[j] = files[b + j] /\ fps[j + 1] = files[(b + j) + 1]
        BY <1>3, <4>2 DEF Arguments
      <4>4. From(k, b + j) = IF j < k THEN b + j ELSE (b + j) + 1
        BY <4>2 DEF From
      <4> QED BY <1>1, <1>2, <4>2, <4>3, <4>4
    <3> QED BY <3>1
  <2>2. Len(fps') <= w.nfiles
    BY <1>2
  <2>3. \A j \in 1..Len(fps') : fps'[j] = files'[w'.base + j]
    BY <1>2, <2>1
  <2> QED BY <1>2, <1>3, <2>2, <2>3 DEF Arguments
<1> HIDE DEF b, g
<1>9. Layout'
  <2>1. \A x \in Users : Live(x)' =>
          files'[x] \in Temps /\ files'[x] # tempcopy' /\ files'[x] # w'.to
    BY <1>1, <1>2, <1>3, SMTT(30) DEF Layout
  <2>2. \A x, y \in Users : Live(x)' /\ Live(y)' /\ files'[x] = files'[y] => x = y
    BY <1>1, <1>3 DEF Layout
  <2>3. \A x \in Users : Rest(x)' => files'[x] \in Users \/ (files'[x] = tempcopy' /\ tempcopy' # 0)
    BY <1>1, <1>2, <1>3 DEF Layout
  <2>4. ASSUME NEW f \in Temps
        PROVE  (\E x \in Users : Live(x)' /\ files'[x] = f)
               <=> \E y \in Users : Live(y) /\ y # b + k /\ files[y] = f
    BY <1>1
  <2>5. ASSUME NEW f \in Temps
        PROVE  f \in disk' <=> \/ \E x \in Users : Live(x)' /\ files'[x] = f
                               \/ f = tempcopy'
                               \/ f = w'.to
    <3>1. f \in disk <=> \/ \E y \in Users : Live(y) /\ files[y] = f
                         \/ f = tempcopy
                         \/ f = w.to
      BY <1>3 DEF Layout
    <3>2. CASE k <= w.ntemps
      <4>1. Live(b + k) /\ b + k \in Users /\ files[b + k] = g /\ disk' = disk \ {g}
        BY <1>1, <1>5, <3>2 DEF g
      <4>2. g # tempcopy /\ g # w.to
        BY <1>3, <4>1 DEF Layout
      <4>3. (\E y \in Users : Live(y) /\ y # b + k /\ files[y] = f)
            <=> (f # g /\ \E y \in Users : Live(y) /\ files[y] = f)
        <5>1. \A y \in Users : Live(y) /\ files[y] = g => y = b + k
          BY <1>3, <4>1 DEF Layout
        <5> QED BY <4>1, <5>1
      <4> QED BY <1>2, <2>4, <3>1, <4>1, <4>2, <4>3
    <3>3. CASE ~(k <= w.ntemps)
      <4>1. ~Live(b + k) /\ disk' = disk
        BY <1>1, <1>5, <3>3
      <4>2. (\E y \in Users : Live(y) /\ y # b + k /\ files[y] = f)
            <=> \E y \in Users : Live(y) /\ files[y] = f
        BY <4>1
      <4> QED BY <1>2, <2>4, <3>1, <4>1, <4>2
    <3> QED BY <3>2, <3>3
  <2> QED BY <1>2, <1>3, <2>1, <2>2, <2>3, <2>5 DEF Layout
<1>10. Numbers'
  BY <1>1, <1>2, <1>3 DEF Numbers
<1>11. Clean'
  BY <1>1, <1>2, <1>3, <1>7 DEF Clean
<1> QED BY <1>2, <1>5, <1>6, <1>8, <1>9, <1>10, <1>11 DEF ArrayInv

LEMMA EndOfInputKeeps ==
  ASSUME ArrayInv, EndOfInput
  PROVE  ArrayInv'
<1>1. CASE die("abnormal")
  BY <1>1, DieKeeps
<1>2. ASSUME pc = "merging", NEW k \in DOMAIN fps, Ends(k) PROVE ArrayInv'
  BY <1>2, CopyEnds, SlotEnds
<1> QED BY <1>1, <1>2, EndOfInputIs

-----------------------------------------------------------------------------
(* The end of a merge *)

\* What is the same for every caller of mergefps.
LEMMA MergeEnds ==
  ASSUME ArrayInv, EndOfMerge
  PROVE  /\ pc = "merging" /\ fps = <<>> /\ fps' = <<>> /\ w' = NoMerge /\ options' = options
         /\ temphead' = temphead /\ disk' = disk /\ Listed' /\ Working
         /\ w.base \in Nat /\ w.nfiles \in Nat /\ w.ret \in {"full", "short", "copy", "shed", "last"}
         /\ ntemps \in Nat /\ nfiles \in Nat /\ in \in Nat /\ out \in Nat /\ i \in Nat
         /\ w.to \in Temps \cup {Stdout} /\ (w.to = Stdout <=> w.ret = "last")
         /\ Arguments /\ Numbers /\ Layout /\ Clean
         /\ MergedTemps = (IF ntemps <= w.nfiles THEN ntemps ELSE w.nfiles)
         /\ w.ret # "copy" =>
              \A x \in Users :
                /\ Live(x) <=> \/ x <= Lead
                               \/ x > Start /\ x <= Start + ntemps /\ x > w.base + w.nfiles
                /\ Rest(x) <=> x > Start + ntemps /\ x <= nfiles /\ x > w.base + w.nfiles
<1>1. /\ pc = "merging" /\ fps = <<>> /\ fps' = <<>> /\ w' = NoMerge /\ options' = options
      /\ temphead' = temphead /\ disk' = disk
  BY DEF EndOfMerge, tempVars, endVars
<1>2. /\ w \in [base : Nat, ntemps : Nat, nfiles : Nat, to : Temps \cup {Stdout}, ret : Rets]
      /\ ntemps \in Nat /\ nfiles \in Nat /\ in \in Nat /\ out \in Nat /\ i \in Nat
  BY DEF ArrayInv, Types
<1>3. Listed'
  BY <1>1 DEF ArrayInv, Listed
<1>4. Working
  BY <1>1 DEF Working
<1>5. Control /\ Arguments /\ Numbers /\ Layout /\ Clean
  BY <1>4 DEF ArrayInv
<1>6. w.ret \in {"full", "short", "copy", "shed", "last"} /\ (w.to = Stdout <=> w.ret = "last")
  BY <1>2, <1>4, <1>5 DEF Control, Rets
<1>7. w.base \in Nat /\ w.nfiles \in Nat /\ w.to \in Temps \cup {Stdout}
  BY <1>2
<1>8. MergedTemps = IF ntemps <= w.nfiles THEN ntemps ELSE w.nfiles
  BY <1>2, <1>7, MinOfTwo DEF MergedTemps
<1>9. ASSUME w.ret # "copy", NEW x \in Users
      PROVE  /\ Live(x) <=> \/ x <= Lead
                            \/ x > Start /\ x <= Start + ntemps /\ x > w.base + w.nfiles
             /\ Rest(x) <=> x > Start + ntemps /\ x <= nfiles /\ x > w.base + w.nfiles
  <2>1. Taken /\ Len(fps) = 0
    BY <1>1, <1>9 DEF Taken
  <2>2. w.base = Start
    <3>1. InPass <=> w.ret \in {"full", "short"}
      BY <1>1 DEF InPass
    <3> QED BY <1>5, <1>6, <1>9, <3>1 DEF Arguments, Start
  <2>3. x \in Nat /\ Start \in Nat
    BY <1>7, <2>2, Sets
  <2>4. /\ Live(x) <=> \/ x <= Lead
                       \/ x > Start /\ x <= Start + ntemps /\ ~(Start < x /\ x <= Start + w.nfiles)
                       \/ (Start < x /\ x <= Start + 0) /\ x <= Start + w.ntemps
        /\ Rest(x) <=> \/ x > Start + ntemps /\ x <= nfiles /\ ~(Start < x /\ x <= Start + w.nfiles)
                       \/ (Start < x /\ x <= Start + 0) /\ x > Start + w.ntemps
    BY <2>1, <2>2 DEF Live, Rest, Window, InFps
  <2> QED BY <1>2, <1>7, <2>2, <2>3, <2>4
<1> QED BY <1>1, <1>2, <1>3, <1>4, <1>5, <1>6, <1>7, <1>8, <1>9

\* The result of a merge of a pass takes the next slot.
LEMMA ResultKeeps ==
  ASSUME ArrayInv, EndOfMerge, w.ret \in {"full", "short"}
  PROVE  ArrayInv'
<1>1. /\ ntemps' = ntemps - MergedTemps /\ files' = [files EXCEPT ![out + 1] = w.to]
      /\ in' = in + w.nfiles /\ out' = out + 1
      /\ pc' = IF w.ret = "full" THEN "full" ELSE "shift"
      /\ nfiles' = nfiles /\ i' = i /\ tempcopy' = tempcopy
  BY Zenon DEF EndOfMerge
<1>2. /\ fps = <<>> /\ fps' = <<>> /\ w' = NoMerge /\ options' = options
      /\ temphead' = temphead /\ disk' = disk /\ Listed'
      /\ w.nfiles \in Nat
      /\ ntemps \in Nat /\ nfiles \in Nat /\ in \in Nat /\ out \in Nat /\ i \in Nat
      /\ w.to \in Temps \cup {Stdout} /\ (w.to = Stdout <=> w.ret = "last")
      /\ Arguments /\ Numbers /\ Layout /\ Clean
      /\ MergedTemps = (IF ntemps <= w.nfiles THEN ntemps ELSE w.nfiles)
  BY MergeEnds
<1>3. w.base = in /\ w.nfiles >= 1 /\ in + w.nfiles <= nfiles /\ w.to \in Temps /\ w.ret # "copy"
  BY <1>2 DEF Arguments
<1>4. pc' \in {"full", "shift"}
  BY <1>1
<1>5. ~Making' /\ Between' /\ ~Working' /\ ~Ending' /\ pc' # "merging"
  BY <1>4 DEF Making, Between, Working, Ending
<1>6. /\ Lead = out /\ Start = in /\ Lead' = out + 1 /\ Start' = in + w.nfiles
  BY <1>1, <1>4 DEF InPass, Lead, Start
<1>7. out <= in /\ nfiles <= N /\ N \in Nat /\ in + ntemps <= nfiles
  BY <1>2, <1>6, Sets DEF Numbers
<1>8. ntemps' \in Nat /\ in' \in Nat /\ out' \in Nat /\ (in + w.nfiles) + ntemps' <= nfiles
  <2>1. in' \in Nat /\ out' \in Nat
    BY <1>1, <1>2
  <2>2. CASE ntemps <= w.nfiles
    <3>1. ntemps' = 0
      BY <1>1, <1>2, <2>2
    <3> QED BY <1>2, <1>3, <2>1, <3>1
  <2>3. CASE ~(ntemps <= w.nfiles)
    <3>1. ntemps' = ntemps - w.nfiles
      BY <1>1, <1>2, <2>3
    <3> QED BY <1>2, <1>7, <2>1, <2>3, <3>1
  <2> QED BY <2>2, <2>3
<1>9. out + 1 \in Users
  <2>1. out + 1 \in 1..N
    BY <1>2, <1>3, <1>7
  <2> QED BY <2>1, Sets
<1>10. /\ files' \in [Users -> Files] /\ files'[out + 1] = w.to
       /\ \A x \in Users : x # out + 1 => files'[x] = files[x]
  BY <1>1, <1>3, <1>9, Sets DEF ArrayInv, Types
<1>11. Types'
  BY <1>1, <1>2, <1>8, <1>10 DEF ArrayInv, Types, NoMerge, Rets
<1>12. Control'
  BY <1>2, <1>4, <1>5 DEF Control
<1>13. Numbers'
  BY <1>1, <1>2, <1>3, <1>6, <1>7, <1>8 DEF Numbers
<1>14. \A x \in Users : /\ Live(x)' <=> (x = out + 1 \/ Live(x))
                        /\ Rest(x)' <=> Rest(x)
                        /\ Rest(x) => x # out + 1
                        /\ Live(x) => x # out + 1
  <2>1. \A x \in Users :
          /\ Live(x)' <=> \/ x <= out + 1
                          \/ x > in + w.nfiles /\ x <= (in + w.nfiles) + ntemps'
          /\ Rest(x)' <=> (x > (in + w.nfiles) + ntemps' /\ x <= nfiles)
    BY <1>1, <1>5, <1>6, Quiet
  <2>2. \A x \in Users :
          /\ Live(x) <=> \/ x <= out
                         \/ x > in /\ x <= in + ntemps /\ x > in + w.nfiles
          /\ Rest(x) <=> x > in + ntemps /\ x <= nfiles /\ x > in + w.nfiles
    BY <1>3, <1>6, MergeEnds
  <2>3. CASE ntemps <= w.nfiles
    <3>1. ntemps' = 0
      BY <1>1, <1>2, <2>3
    <3> QED BY <1>2, <1>3, <1>7, <2>1, <2>2, <2>3, <3>1, Sets
  <2>4. CASE ~(ntemps <= w.nfiles)
    <3>1. (in + w.nfiles) + ntemps' = in + ntemps
      BY <1>1, <1>2, <2>4
    <3> QED BY <1>2, <1>3, <1>7, <2>1, <2>2, <2>4, <3>1, Sets, SMTT(30)
  <2> QED BY <2>3, <2>4
<1>15. Stdout \notin Temps /\ w'.to = Stdout
  BY <1>2, Sets DEF Stdout, NoMerge
<1>16. Layout'
  <2>1. \A x \in Users : Live(x)' =>
          files'[x] \in Temps /\ files'[x] # tempcopy' /\ files'[x] # w'.to
    BY <1>1, <1>2, <1>3, <1>10, <1>14, <1>15, Sets DEF Layout, Stdout
  <2>2. \A x, y \in Users : Live(x)' /\ Live(y)' /\ files'[x] = files'[y] => x = y
    BY <1>2, <1>10, <1>14 DEF Layout
  <2>3. \A x \in Users : Rest(x)' => files'[x] \in Users \/ (files'[x] = tempcopy' /\ tempcopy' # 0)
    BY <1>1, <1>2, <1>10, <1>14 DEF Layout
  <2>4. ASSUME NEW f \in Temps
        PROVE  f \in disk' <=> \/ \E x \in Users : Live(x)' /\ files'[x] = f
                               \/ f = tempcopy'
                               \/ f = w'.to
    <3>1. f \in disk <=> \/ \E x \in Users : Live(x) /\ files[x] = f
                         \/ f = tempcopy
                         \/ f = w.to
      BY <1>2 DEF Layout
    <3>2. (\E x \in Users : Live(x)' /\ files'[x] = f)
          <=> ((\E x \in Users : Live(x) /\ files[x] = f) \/ f = w.to)
      BY <1>9, <1>10, <1>14
    <3> QED BY <1>1, <1>2, <1>15, <3>1, <3>2
  <2>5. tempcopy' # 0 => tempcopy' # w'.to
    BY <1>1, <1>15 DEF Stdout
  <2> QED BY <2>1, <2>2, <2>3, <2>4, <2>5 DEF Layout
<1>17. Clean'
  BY <1>4, <1>5 DEF Clean
<1> QED BY <1>2, <1>5, <1>11, <1>12, <1>13, <1>16, <1>17 DEF ArrayInv

\* The copy of the input that is the output is finished.
LEMMA CopyKeeps ==
  ASSUME ArrayInv, EndOfMerge, w.ret = "copy"
  PROVE  ArrayInv'
<1>1. /\ tempcopy' = w.to /\ pc' = "avoid" /\ files' = files /\ ntemps' = ntemps
      /\ nfiles' = nfiles /\ in' = in /\ out' = out /\ i' = i
  BY Zenon DEF EndOfMerge
<1>2. /\ fps = <<>> /\ fps' = <<>> /\ w' = NoMerge /\ options' = options
      /\ temphead' = temphead /\ disk' = disk /\ Listed' /\ Working
      /\ w.to \in Temps \cup {Stdout} /\ (w.to = Stdout <=> w.ret = "last")
      /\ Arguments /\ Numbers /\ Layout /\ Clean
  BY MergeEnds
<1>3. tempcopy = 0 /\ w.to \in Temps
  BY <1>2 DEF Arguments
<1>4. ~Making' /\ Between' /\ ~Working' /\ ~Ending' /\ pc' # "merging"
  BY <1>1 DEF Making, Between, Working, Ending
<1>5. Types'
  BY <1>1, <1>2, <1>3 DEF ArrayInv, Types, NoMerge, Rets
<1>6. Control'
  BY <1>1, <1>2, <1>4 DEF Control
<1>7. /\ Lead = 0 /\ Start = 0 /\ Lead' = 0 /\ Start' = 0 /\ ~Taken /\ ~Taken'
  BY <1>1, <1>2 DEF InPass, Lead, Start, Taken, EndOfMerge, NoMerge
<1>8. \A x \in Users : (Live(x)' <=> Live(x)) /\ (Rest(x)' <=> Rest(x))
  BY <1>1, <1>7 DEF Live, Rest, Window, InFps
<1>9. Numbers'
  BY <1>1, <1>2, <1>7 DEF Numbers
<1>10. w'.to = 0 /\ 0 \notin Temps /\ tempcopy' # 0 /\ Stdout = 0
  BY <1>1, <1>2, <1>3, Sets DEF Stdout, NoMerge
<1>11. Layout'
  <2>1. \A f \in Temps : f \in disk' <=> \/ \E x \in Users : Live(x)' /\ files'[x] = f
                                         \/ f = tempcopy'
                                         \/ f = w'.to
    BY <1>1, <1>2, <1>3, <1>8, <1>10 DEF Layout
  <2>2. \A x \in Users : Live(x)' => files'[x] \in Temps /\ files'[x] # tempcopy' /\ files'[x] # w'.to
    BY <1>1, <1>2, <1>8, <1>10 DEF Layout
  <2>3. \A x \in Users : Rest(x)' => files'[x] \in Users
    BY <1>1, <1>2, <1>3, <1>8 DEF Layout
  <2> QED BY <1>1, <1>2, <1>8, <1>10, <2>1, <2>2, <2>3 DEF Layout
<1>12. Same' = Same
  BY <1>2, OptionsKept
<1>13. Clean'
  BY <1>1, <1>2, <1>4, <1>8, <1>12 DEF Clean
<1> QED BY <1>2, <1>4, <1>5, <1>6, <1>9, <1>11, <1>13 DEF ArrayInv

LEMMA ZeroPlus == \A a, m \in Int : a = 0 => a + m = m
OBVIOUS

\* The last merge ran out of descriptors: its result is the first slot.
LEMMA ShedEnds ==
  ASSUME ArrayInv, EndOfMerge, w.ret = "shed"
  PROVE  ArrayInv'
<1> DEFINE n == w.nfiles
           from(x) == x + n - 1
           moved(x) == CASE x = 1 -> w.to
                         [] x \in 2..(nfiles - n + 1) -> files[x + n - 1]
                         [] OTHER -> files[x]
<1>1. /\ ntemps' = ntemps - MergedTemps + 1
      /\ files' = [x \in Users |-> moved(x)]
      /\ nfiles' = nfiles - (n - 1) /\ pc' = "last"
      /\ in' = in /\ out' = out /\ i' = i /\ tempcopy' = tempcopy
  BY Zenon DEF EndOfMerge
<1>2. /\ pc = "merging" /\ fps = <<>> /\ fps' = <<>> /\ w' = NoMerge /\ options' = options
      /\ temphead' = temphead /\ disk' = disk /\ Listed' /\ Working
      /\ n \in Nat
      /\ ntemps \in Nat /\ nfiles \in Nat /\ in \in Nat /\ out \in Nat /\ i \in Nat
      /\ w.to \in Temps \cup {Stdout} /\ (w.to = Stdout <=> w.ret = "last")
      /\ Arguments /\ Numbers /\ Layout /\ Clean
      /\ MergedTemps = (IF ntemps <= n THEN ntemps ELSE n)
  BY MergeEnds
<1>3. w.base = 0 /\ n >= 1 /\ 0 + n <= nfiles /\ w.to \in Temps /\ w.ret # "copy"
  BY <1>2 DEF Arguments
<1>4. ~Making' /\ Between' /\ ~Working' /\ ~Ending' /\ pc' # "merging"
  BY <1>1 DEF Making, Between, Working, Ending
<1>5. Lead = 0 /\ Start = 0 /\ Lead' = 0 /\ Start' = 0
  BY <1>1, <1>2 DEF InPass, Lead, Start, NoMerge
<1>6. nfiles <= N /\ N \in Nat /\ 0 + ntemps <= nfiles
  BY <1>2, <1>5, Sets DEF Numbers
<1>7. \A x \in Users :
        /\ Live(x) <=> (x <= ntemps /\ x > n)
        /\ Rest(x) <=> (x > ntemps /\ x <= nfiles /\ x > n)
  <2>1. \A x \in Users :
          /\ Live(x) <=> (x <= 0 \/ (x > 0 /\ x <= 0 + ntemps /\ x > 0 + n))
          /\ Rest(x) <=> (x > 0 + ntemps /\ x <= nfiles /\ x > 0 + n)
    BY <1>3, <1>5, MergeEnds
  <2> QED BY <1>2, <2>1, Sets
<1>8. ntemps' \in Int => \A x \in Users : /\ Live(x)' <=> x <= ntemps'
                                          /\ Rest(x)' <=> (x > ntemps' /\ x <= nfiles')
  <2>1. \A x \in Users : /\ Live(x)' <=> (x <= Lead' \/ (x > Start' /\ x <= Start' + ntemps'))
                         /\ Rest(x)' <=> (x > Start' + ntemps' /\ x <= nfiles')
    BY <1>4, Quiet
  <2>2. ASSUME ntemps' \in Int, NEW x \in Users
        PROVE  /\ Live(x)' <=> x <= ntemps'
               /\ Rest(x)' <=> (x > ntemps' /\ x <= nfiles')
    <3>1. x \in Nat /\ x > 0 /\ ~(x <= 0)
      BY Sets
    <3>2. Start' + ntemps' = ntemps'
      <4>1. Start' \in Int
        BY <1>5
      <4> QED BY <1>5, <2>2, <4>1, ZeroPlus
    <3> QED BY <1>5, <2>1, <3>1, <3>2
  <2> QED BY <2>2
<1>9. files \in [Users -> Files]
  BY DEF ArrayInv, Types
<1>30. \A x \in Users : files'[x] = moved(x)
  <2> HIDE DEF moved
  <2> QED BY <1>1
<1>31. \A x \in Users : /\ x = 1 => moved(x) = w.to
                        /\ x \in 2..(nfiles - n + 1) => moved(x) = files[x + n - 1]
                        /\ x # 1 /\ x \notin 2..(nfiles - n + 1) => moved(x) = files[x]
  <2>1. 1 \notin 2..(nfiles - n + 1)
    OBVIOUS
  <2> QED BY <2>1, Zenon
<1> HIDE DEF n, moved
<1>10. \/ ntemps <= n /\ ntemps' = 1
       \/ ntemps > n /\ ntemps' = ntemps - n + 1
  <2>1. CASE ntemps <= n
    BY <1>1, <1>2, <2>1
  <2>2. CASE ~(ntemps <= n)
    <3>1. MergedTemps = n
      BY <1>2, <2>2
    <3> QED BY <1>1, <1>2, <2>2, <3>1
  <2> QED BY <2>1, <2>2
<1>11. ntemps' \in Nat /\ nfiles' \in Nat /\ ntemps' <= nfiles' /\ nfiles' <= N
  BY <1>1, <1>2, <1>3, <1>6, <1>10
<1>12. 1 \in Users
  BY <1>2, <1>3, <1>6, Sets
<1>13. \A x \in Users : x # 1 /\ x <= nfiles' => from(x) \in Users
  BY <1>1, <1>2, <1>3, <1>6, Sets
<1>14. \A x \in Users : x # 1 /\ x <= nfiles' => files'[x] = files[from(x)]
  <2>1. ASSUME NEW x \in Users, x # 1, x <= nfiles' PROVE files'[x] = files[from(x)]
    <3>1. x \in 2..(nfiles - n + 1)
      BY <1>1, <1>2, <1>6, <2>1, Sets
    <3> QED BY <1>30, <1>31, <3>1
  <2> QED BY <2>1
<1>15. files'[1] = w.to
  BY <1>12, <1>30, <1>31
<1>16. files' \in [Users -> Files]
  <2>1. ASSUME NEW x \in Users PROVE files'[x] \in Files
    <3>1. CASE x = 1
      BY <1>3, <1>15, <3>1, Sets
    <3>2. CASE x # 1 /\ x <= nfiles'
      BY <1>9, <1>13, <1>14, <3>2
    <3>3. CASE x # 1 /\ ~(x <= nfiles')
      <4>1. x \notin 2..(nfiles - n + 1)
        BY <1>1, <1>2, <1>6, <3>3, Sets
      <4>2. files'[x] = files[x]
        BY <1>30, <1>31, <3>3, <4>1
      <4> QED BY <1>9, <4>2
    <3> QED BY <3>1, <3>2, <3>3
  <2> QED BY <1>1, <1>30, <2>1
<1>17. Types'
  BY <1>1, <1>2, <1>11, <1>16 DEF ArrayInv, Types, NoMerge, Rets
<1>18. Control'
  BY <1>1, <1>2, <1>4 DEF Control
<1>19. Numbers'
  <2>1. Start' \in Int /\ ntemps' \in Int /\ 0 <= 0
    BY <1>5, <1>11
  <2>2. Start' + ntemps' = ntemps'
    BY <1>5, <2>1, ZeroPlus
  <2> QED BY <1>5, <1>11, <2>1, <2>2 DEF Numbers
<1>20. \A x \in Users : Live(x)' => x = 1 \/ (x # 1 /\ x <= nfiles' /\ Live(from(x)))
  <2>1. ASSUME NEW x \in Users, Live(x)', x # 1 PROVE x <= nfiles' /\ Live(from(x))
    <3>1. x \in Nat /\ x # 0 /\ x # 1 /\ x <= ntemps'
      BY <1>8, <1>11, <2>1, Sets
    <3>2. x <= nfiles' /\ ntemps > n /\ from(x) > 0 /\ from(x) <= ntemps /\ from(x) > n
      BY <1>2, <1>10, <1>11, <3>1
    <3>3. from(x) \in Users
      BY <1>13, <3>1, <3>2
    <3> HIDE DEF from
    <3> QED BY <1>2, <1>7, <3>2, <3>3
  <2> QED BY <2>1
<1>21. \A x \in Users : Rest(x)' => x # 1 /\ x <= nfiles' /\ Rest(from(x))
  <2>1. ASSUME NEW x \in Users, Rest(x)' PROVE x # 1 /\ x <= nfiles' /\ Rest(from(x))
    <3>1. x \in Nat /\ x # 0 /\ x > ntemps' /\ x <= nfiles'
      BY <1>8, <1>11, <2>1, Sets
    <3>2. x # 1 /\ from(x) > ntemps /\ from(x) <= nfiles /\ from(x) > n
      BY <1>1, <1>2, <1>10, <1>11, <3>1
    <3>3. from(x) \in Users
      BY <1>13, <3>1, <3>2
    <3> HIDE DEF from
    <3> QED BY <1>2, <1>7, <3>1, <3>2, <3>3
  <2> QED BY <2>1
<1>22. \A y \in Users : Live(y) => \E x \in Users : x # 1 /\ Live(x)' /\ x <= nfiles' /\ from(x) = y
  <2>1. ASSUME NEW y \in Users, Live(y)
        PROVE  \E x \in Users : x # 1 /\ Live(x)' /\ x <= nfiles' /\ from(x) = y
    <3>1. y \in Nat /\ y > n /\ y <= ntemps /\ y <= N
      BY <1>2, <1>6, <1>7, <2>1, Sets
    <3>2. /\ y - n + 1 \in Users /\ y - n + 1 # 1 /\ y - n + 1 <= ntemps'
          /\ y - n + 1 <= nfiles' /\ from(y - n + 1) = y
      BY <1>2, <1>3, <1>6, <1>10, <1>11, <3>1, Sets
    <3>3. PICK x \in Users : x # 1 /\ x <= ntemps' /\ x <= nfiles' /\ from(x) = y
      <4> HIDE DEF from
      <4> QED BY <3>2
    <3>4. Live(x)'
      BY <1>8, <1>11, <3>3
    <3> QED BY <3>3, <3>4
  <2> QED BY <2>1
<1>23. \A x, y \in Users : from(x) = from(y) => x = y
  BY <1>2, Sets
<1>24. Live(1)'
  <2>1. 1 <= ntemps'
    BY <1>2, <1>10
  <2> QED BY <1>8, <1>11, <1>12, <2>1
<1> HIDE DEF from
<1>25. Stdout \notin Temps /\ w'.to = Stdout /\ Stdout = 0
  BY <1>2, Sets DEF Stdout, NoMerge
<1>26. Layout'
  <2>1. \A x \in Users : Live(x)' =>
          files'[x] \in Temps /\ files'[x] # tempcopy' /\ files'[x] # w'.to
    BY <1>1, <1>2, <1>3, <1>13, <1>14, <1>15, <1>20, <1>25 DEF Layout
  <2>2. ASSUME NEW x \in Users, NEW y \in Users, Live(x)', Live(y)', files'[x] = files'[y]
        PROVE  x = y
    <3>1. \A z \in Users : Live(z)' /\ z # 1 => files'[z] # w.to
      BY <1>2, <1>13, <1>14, <1>20 DEF Layout
    <3>2. CASE x # 1 /\ y # 1
      BY <1>2, <1>13, <1>14, <1>20, <1>23, <2>2, <3>2 DEF Layout
    <3> QED BY <1>15, <2>2, <3>1, <3>2
  <2>3. \A x \in Users : Rest(x)' => files'[x] \in Users \/ (files'[x] = tempcopy' /\ tempcopy' # 0)
    BY <1>1, <1>2, <1>13, <1>14, <1>21 DEF Layout
  <2>4. ASSUME NEW f \in Temps
        PROVE  f \in disk' <=> \/ \E x \in Users : Live(x)' /\ files'[x] = f
                               \/ f = tempcopy'
                               \/ f = w'.to
    <3>1. f \in disk <=> \/ \E x \in Users : Live(x) /\ files[x] = f
                         \/ f = tempcopy
                         \/ f = w.to
      BY <1>2 DEF Layout
    <3>2. (\E x \in Users : Live(x)' /\ files'[x] = f)
          <=> ((\E x \in Users : Live(x) /\ files[x] = f) \/ f = w.to)
      <4>1. ASSUME NEW x \in Users, Live(x)', files'[x] = f
            PROVE  (\E y \in Users : Live(y) /\ files[y] = f) \/ f = w.to
        BY <1>13, <1>14, <1>15, <1>20, <4>1
      <4>2. ASSUME NEW y \in Users, Live(y), files[y] = f
            PROVE  \E x \in Users : Live(x)' /\ files'[x] = f
        BY <1>14, <1>22, <4>2
      <4>3. f = w.to => \E x \in Users : Live(x)' /\ files'[x] = f
        BY <1>12, <1>15, <1>24
      <4> QED BY <4>1, <4>2, <4>3
    <3> QED BY <1>1, <1>2, <1>25, <3>1, <3>2
  <2> QED BY <1>1, <1>2, <1>25, <2>1, <2>2, <2>3, <2>4 DEF Layout
<1>27. Same' = Same
  BY <1>2, OptionsKept
<1>28. Clean'
  BY <1>1, <1>2, <1>4, <1>13, <1>14, <1>21, <1>27 DEF Clean
<1> QED BY <1>2, <1>4, <1>17, <1>18, <1>19, <1>26, <1>28 DEF ArrayInv

LEMMA EndOfMergeKeeps ==
  ASSUME ArrayInv, EndOfMerge
  PROVE  ArrayInv'
<1>1. CASE w.ret = "last"
  <2>1. pc' = "finish" /\ UNCHANGED mergeVars
    BY <1>1, Zenon DEF EndOfMerge
  <2>2. /\ files' = files /\ ntemps' = ntemps /\ nfiles' = nfiles /\ in' = in /\ out' = out
        /\ i' = i /\ tempcopy' = tempcopy
    BY <2>1 DEF mergeVars
  <2>3. /\ fps = <<>> /\ fps' = <<>> /\ w' = NoMerge /\ options' = options
        /\ temphead' = temphead /\ disk' = disk /\ Listed'
    BY MergeEnds
  <2>4. Types'
    BY <2>2, <2>3 DEF ArrayInv, Types, NoMerge, Rets
  <2>5. ~Making' /\ ~Between' /\ ~Working' /\ Ending'
    BY <2>1 DEF Making, Between, Working, Ending
  <2>6. Control'
    BY <2>1, <2>5 DEF Control
  <2> QED BY <2>3, <2>4, <2>5, <2>6 DEF ArrayInv
<1>2. w.ret \in {"full", "short", "copy", "shed", "last"}
  BY MergeEnds
<1> QED BY <1>1, <1>2, ResultKeeps, CopyKeeps, ShedEnds

-----------------------------------------------------------------------------
(* Steps of the processes *)

\* Waiting for a child, or for fork, before a file is written or read.
LEMMA WaitKeeps ==
  ASSUME ArrayInv, UNCHANGED <<options, mergeVars, w, fps, temphead, disk>>,
         \/ /\ pc \in {"pipe", "fork"}
            /\ pc' = cont \/ (pc' \in {"pipe", "fork"} /\ cont' = cont)
         \/ pc \in {"pipein", "forkin"} /\ pc' \in {"pipein", "forkin"}
  PROVE  ArrayInv'
<1>1. pc \in {"pipe", "fork"} => cont \in {"run", "open"}
  BY DEF ArrayInv, Control, Making, Between, Working, Ending
<1>2. CASE pc \in {"pipe", "fork"} /\ cont = "run"
  <2>1. pc' = "run" \/ (pc' \in {"pipe", "fork"} /\ cont' = "run")
    BY <1>2
  <2>2. Making /\ Making' /\ pc # "runs" /\ pc' # "runs"
    BY <1>2, <2>1 DEF Making
  <2> QED BY <2>2, MakingKeeps
<1>3. CASE pc \in {"pipe", "fork"} /\ cont = "open"
  <2>1. pc' = "open" \/ (pc' \in {"pipe", "fork"} /\ cont' = "open")
    BY <1>3
  <2>2. /\ Working /\ Working' /\ pc # "merging" /\ pc' # "merging" /\ pc' # "shed"
        /\ pc' # "pipein" /\ pc' # "forkin"
    BY <1>3, <2>1 DEF Working
  <2>3. w.to # Stdout
    BY <1>3 DEF ArrayInv, Control
  <2> QED BY <2>2, <2>3, PauseKeeps
<1>4. CASE pc \in {"pipein", "forkin"}
  <2>1. pc' \in {"pipein", "forkin"}
    BY <1>4
  <2>2. Working /\ Working' /\ pc # "merging" /\ pc' # "merging" /\ pc' # "shed" /\ pc' # "pipe" /\ pc' # "fork"
    BY <1>4, <2>1 DEF Working
  <2>3. Len(fps) < w.nfiles /\ files[w.base + Len(fps) + 1] \in Temps
    BY <1>4 DEF ArrayInv, Control
  <2> QED BY <2>2, <2>3, PauseKeeps
<1> QED BY <1>1, <1>2, <1>3, <1>4

LEMMA ReapExitedKeeps ==
  ASSUME ArrayInv, NEW next, ReapExited(next),
         \/ pc \in {"pipe", "fork"} /\ next \in {"pipe", "fork"}
         \/ pc \in {"pipein", "forkin"} /\ next \in {"pipein", "forkin"}
  PROVE  ArrayInv'
<1>1. CASE die("abnormal")
  BY <1>1, DieKeeps
<1>2. CASE /\ pc' = next
           /\ UNCHANGED <<cont, mergeVars, w, fps, tempVars, strangers, endVars>>
  BY <1>2, WaitKeeps DEF tempVars, endVars
<1> QED BY <1>1, <1>2 DEF ReapExited

LEMMA ProcessKeeps ==
  ASSUME ArrayInv, ReapSome \/ Retry \/ Fork \/ ForkFailed
  PROVE  ArrayInv'
<1>1. ASSUME ReapSome PROVE ArrayInv'
  <2>1. CASE ReapExited(IF pc = "pipe" THEN "fork" ELSE "forkin")
    <3>1. CASE pc = "pipe"
      <4>1. ReapExited("fork")
        BY <2>1, <3>1
      <4> QED BY <3>1, <4>1, ReapExitedKeeps
    <3>2. CASE pc = "pipein"
      <4>1. ReapExited("forkin")
        BY <2>1, <3>2
      <4> QED BY <3>2, <4>1, ReapExitedKeeps
    <3> QED BY <1>1, <3>1, <3>2 DEF ReapSome
  <2>2. CASE /\ pc' = IF pc = "pipe" THEN "fork" ELSE "forkin"
             /\ UNCHANGED <<cont, mergeVars, w, fps, tempVars, state, child, nprocs, endVars>>
    <3>1. pc \in {"pipe", "pipein"}
      BY <1>1 DEF ReapSome
    <3> QED BY <2>2, <3>1, WaitKeeps DEF tempVars, endVars
  <2> QED BY <1>1, <2>1, <2>2 DEF ReapSome
<1>2. ASSUME Retry PROVE ArrayInv'
  <2>1. pc \in {"fork", "forkin"} /\ ReapExited(pc)
    BY <1>2 DEF Retry
  <2> QED BY <2>1, ReapExitedKeeps
<1>3. ASSUME Fork PROVE ArrayInv'
  BY <1>3, WaitKeeps DEF Fork, tempVars, endVars
<1>4. ASSUME ForkFailed PROVE ArrayInv'
  <2>1. CASE die("fork")
    BY <2>1, DieKeeps
  <2>2. CASE /\ pc = "fork" /\ pc' = cont /\ cont' = "none"
             /\ UNCHANGED <<mergeVars, w, fps, tempVars, procVars, endVars>>
    BY <2>2, WaitKeeps DEF tempVars, endVars
  <2> QED BY <1>4, <2>1, <2>2 DEF ForkFailed
<1> QED BY <1>1, <1>2, <1>3, <1>4

LEMMA ForkDecompressorKeeps ==
  ASSUME ArrayInv, ForkDecompressor
  PROVE  ArrayInv'
<1> DEFINE f == files[w.base + Len(fps) + 1]
<1>1. /\ pc = "forkin" /\ pc' = "open" /\ fps' = Append(fps, f)
      /\ UNCHANGED <<options, mergeVars, w, temphead, disk>>
  BY DEF ForkDecompressor, tempVars, endVars
<1>2. Working /\ Working' /\ pc # "merging" /\ Len(fps) < w.nfiles
  BY <1>1 DEF Working, ArrayInv, Control
<1>3. /\ fps' \in Seq(Files) /\ Len(fps') <= w.nfiles
      /\ \A k \in 1..Len(fps') : fps'[k] = files[w.base + k]
  BY <1>1, <1>2, NextInput
<1> QED BY <1>1, <1>2, <1>3, IdleKeeps

\* The end of the program, and steps that change no part of the invariant.
LEMMA RestKeeps ==
  ASSUME ArrayInv, UNCHANGED <<options, pc, cont, mergeVars, w, fps, temphead, disk>>
  PROVE  ArrayInv'
<1>1. /\ files' = files /\ ntemps' = ntemps /\ nfiles' = nfiles /\ in' = in /\ out' = out
      /\ i' = i /\ tempcopy' = tempcopy /\ w' = w /\ temphead' = temphead /\ disk' = disk
      /\ fps' = fps /\ options' = options /\ pc' = pc /\ cont' = cont
  BY DEF mergeVars
<1>2. total' = total /\ Sorting' = Sorting /\ Same' = Same
  BY <1>1, OptionsKept
<1>3. /\ (Making' <=> Making) /\ (Between' <=> Between) /\ (Working' <=> Working)
      /\ (Ending' <=> Ending)
  BY <1>1 DEF Making, Between, Working, Ending
<1>4. /\ Lead' = Lead /\ Start' = Start
      /\ \A x \in Users : (Live(x)' <=> Live(x)) /\ (Rest(x)' <=> Rest(x))
  BY <1>1 DEF InPass, Lead, Start, Live, Rest, Window, InFps, Taken
<1>5. Types' /\ Listed'
  BY <1>1 DEF ArrayInv, Types, Listed
<1>6. Control'
  BY <1>1, <1>2, <1>3 DEF ArrayInv, Control
<1>7. Working => Arguments'
  BY <1>1, <1>2 DEF ArrayInv, Arguments
<1>8. Between \/ Working => Numbers' /\ Layout' /\ Clean'
  <2>1. ASSUME Numbers, Layout, Clean PROVE Numbers' /\ Layout' /\ Clean'
    <3>1. Numbers' /\ Layout'
      BY <1>1, <1>4, <2>1 DEF Numbers, Layout
    <3>2. Clean'
      BY <1>1, <1>2, <1>3, <1>4, <2>1 DEF Clean
    <3> QED BY <3>1, <3>2
  <2> QED BY <2>1 DEF ArrayInv
<1> QED BY <1>3, <1>5, <1>6, <1>7, <1>8 DEF ArrayInv

LEMMA FinishKeeps ==
  ASSUME ArrayInv, Finish
  PROVE  ArrayInv'
<1>1. CASE \E why \in {"", "abnormal"} : die(why)
  BY <1>1, DieKeeps
<1>2. CASE UNCHANGED <<pc, cont, mergeVars, w, fps, tempVars, strangers, endVars>>
  BY <1>2, RestKeeps DEF tempVars, endVars
<1> QED BY <1>1, <1>2 DEF Finish

LEMMA ArrayInit ==
  ASSUME Init
  PROVE  ArrayInv
<1>1. /\ options \in Scenarios /\ pc = (IF Sorting THEN "runs" ELSE "pass")
      /\ files = [k \in Users |-> k] /\ ntemps = (IF Sorting THEN total ELSE 0)
      /\ nfiles = total /\ in = 0 /\ out = 0 /\ i = 0 /\ tempcopy = 0
      /\ w = NoMerge /\ fps = <<>> /\ temphead = <<>> /\ disk = {}
  BY DEF Init
<1>2. total \in 1..N /\ N \in Nat /\ Sorting \in BOOLEAN
  BY <1>1, Options, Sets
<1>3. total \in Nat /\ total <= N /\ ntemps \in Nat
  BY <1>1, <1>2
<1>4. files \in [Users -> Files]
  BY <1>1, Sets
<1>5. Types
  BY <1>1, <1>3, <1>4 DEF Types, NoMerge, Rets
<1>6. Listed
  BY <1>1 DEF Listed
<1>7. ~Working /\ ~Ending /\ (Making <=> Sorting) /\ (Between <=> ~Sorting) /\ pc # "merging"
  BY <1>1, <1>2 DEF Making, Between, Working, Ending
<1>8. Control
  <2>1. pc = "runs" <=> Sorting
    BY <1>1, <1>2
  <2>2. Len(temphead) = 0
    BY <1>1
  <2> QED BY <1>1, <1>3, <1>7, <2>1, <2>2 DEF Control, NoMerge, Making
<1>9. CASE Sorting
  BY <1>5, <1>6, <1>7, <1>8, <1>9 DEF ArrayInv
<1>10. CASE ~Sorting
  <2>1. pc = "pass" /\ ntemps = 0 /\ Lead = 0 /\ Start = 0 /\ w.to = 0 /\ 0 \notin Temps
    BY <1>1, <1>10, Sets DEF InPass, Lead, Start, NoMerge, Stdout
  <2>2. \A x \in Users : ~Live(x)
    BY <1>7, <2>1, Quiet, Sets
  <2>3. Numbers
    BY <1>1, <1>3, <2>1 DEF Numbers
  <2>4. Layout
    BY <1>1, <2>1, <2>2 DEF Layout
  <2>5. Clean
    BY <1>7, <2>1 DEF Clean
  <2> QED BY <1>5, <1>6, <1>7, <1>8, <2>3, <2>4, <2>5 DEF ArrayInv
<1> QED BY <1>9, <1>10

\* At every statement, the slots in use hold the files that Layout says, the list of
\* temporary files is what is on disk, and the arguments of mergefiles fit the array.
THEOREM ArrayHolds == Spec => []ArrayInv
<1>1. Init => ArrayInv
  BY ArrayInit
<1>2. ArrayInv /\ [Next]_vars => ArrayInv'
  <2>1. CASE UNCHANGED vars
    BY <2>1, RestKeeps DEF vars, tempVars, endVars
  <2>2. CASE Main
    BY <2>2, NewRunKeeps, CloseRunKeeps, RunsDoneKeeps, PassKeeps, FullMergeKeeps, ShortMergeKeeps,
       PassEndsKeeps, AvoidTrashingKeeps, LastMergeKeeps, OpenKeeps, OpenTempKeeps, OpenedKeeps,
       ShedKeeps, ProcessKeeps, ForkDecompressorKeeps, EndOfInputKeeps, EndOfMergeKeeps, FinishKeeps
       DEF Main
  <2>3. ASSUME NEW c \in Temps, ChildExit(c), ArrayInv PROVE ArrayInv'
    BY <2>3, RestKeeps DEF ChildExit, tempVars
  <2> QED BY <2>1, <2>2, <2>3 DEF Next
<1> QED BY <1>1, <1>2, PTL DEF Spec

\* The output is opened for writing only when no input that is still to be read is
\* the same file (avoid_trashing_input).
THEOREM InputNotTrashedHolds == Spec => []InputNotTrashed
<1>1. ArrayInv => InputNotTrashed
  <2> SUFFICES ASSUME ArrayInv, pc = "merging", w.to = Stdout, NEW k \in 1..Len(fps)
               PROVE  fps[k] \notin Same
    BY DEF InputNotTrashed, ToSet, ArrayInv, Types
  <2>1. Working
    BY DEF Working
  <2>2. w.ret = "last" /\ Arguments /\ Numbers /\ Layout /\ Clean
    BY <2>1 DEF ArrayInv, Control
  <2>3. /\ fps[k] = files[w.base + k] /\ w.base = 0 /\ Len(fps) <= w.nfiles
        /\ w.base + w.nfiles <= nfiles /\ nfiles <= N
    BY <2>2 DEF Arguments, Numbers
  <2>4. /\ Len(fps) \in Nat /\ w.nfiles \in Nat /\ w.ntemps \in Nat /\ nfiles \in Nat /\ N \in Nat
    BY Sets DEF ArrayInv, Types
  <2>5. k \in Users /\ 0 + k = k
    BY <2>3, <2>4, Sets
  <2>6. Taken /\ InFps(k)
    BY <2>2, <2>3, <2>5 DEF Taken, InFps
  <2>7. Live(k) \/ Rest(k)
    BY <2>4, <2>5, <2>6, <2>3 DEF Live, Rest
  <2>8. Same \subseteq Users
    BY Options DEF ArrayInv, Types
  <2> QED BY <2>1, <2>2, <2>3, <2>5, <2>7, <2>8, Sets DEF Layout, Clean
<1> QED BY <1>1, ArrayHolds, PTL

-----------------------------------------------------------------------------
(* The children: the second part of the invariant *)

Children == {c \in Temps : child[c] # "none"}

\* Each child that sort did not start may let one more of its own through.
Allowed == nmerge + 1 + (options.strangers - strangers)

\* The program counts its children: they are those that the table of temporary files says
\* are not yet reaped.
Counted ==
  /\ state \in [Temps -> {"UNCOMPRESSED", "UNREAPED", "REAPED"}]
  /\ child \in [Temps -> {"none", "compressing", "flushing", "decompressing", "exited", "failed"}]
  /\ nprocs \in Nat /\ strangers \in 0..options.strangers /\ failed \in BOOLEAN
  /\ \A c \in Temps : child[c] # "none" <=> state[c] = "UNREAPED"
  /\ nprocs = Cardinality(Children)
  /\ nprocs <= Allowed + 1

\* A child is forked for a file that has none, when there is room.
Room ==
  /\ pc # "exit" => \A c \in Temps : child[c] # "none" => c \in disk
  /\ pc \in {"fork", "forkin"} => nprocs <= Allowed
  /\ pc \in {"pipe", "fork"} => child[w.to] = "none"
  /\ pc \in {"pipein", "forkin"} => state[files[w.base + Len(fps) + 1]] = "REAPED"

\* The status of a child that failed is still to be read.
Noticed ==
  /\ pc # "exit" /\ failed => \E c \in Temps : child[c] = "failed"
  /\ pc = "exit" /\ died = "" /\ Sorting => ~failed

KidsInv == Counted /\ Room /\ Noticed

LEMMA ChildrenFinite ==
  /\ IsFiniteSet(Temps)
  /\ \A S \in SUBSET Temps : IsFiniteSet(S) /\ Cardinality(S) \in Nat
<1>1. IsFiniteSet(Temps)
  BY Sets, FS_Interval DEF Temps
<1> QED BY <1>1, FS_Subset, FS_CardinalityType

\* No process changes.
LEMMA QuietKids ==
  ASSUME KidsInv, UNCHANGED <<procVars, options, failed, died>>, pc # "exit",
         pc' \notin {"pipe", "fork", "pipein", "forkin", "exit"}, disk' = disk
  PROVE  KidsInv'
<1>1. state' = state /\ child' = child /\ nprocs' = nprocs /\ strangers' = strangers
  BY DEF procVars
<1>2. Children' = Children /\ Allowed' = Allowed
  BY <1>1, OptionsKept DEF Children, Allowed
<1>3. Counted'
  BY <1>1, <1>2 DEF KidsInv, Counted
<1>4. Room' /\ Noticed'
  BY <1>1 DEF KidsInv, Room, Noticed
<1> QED BY <1>3, <1>4 DEF KidsInv

\* The program ends, with a diagnostic if a child failed.
LEMMA DieKids ==
  ASSUME KidsInv, NEW why, die(why), why # "" \/ (Sorting => ~failed)
  PROVE  KidsInv'
<1>1. /\ state' = state /\ child' = child /\ nprocs' = nprocs /\ strangers' = strangers
      /\ options' = options /\ failed' = failed /\ died' = why /\ pc' = "exit"
  BY DEF die, procVars
<1>2. Children' = Children /\ Allowed' = Allowed /\ Sorting' = Sorting
  BY <1>1, OptionsKept DEF Children, Allowed
<1>3. Counted'
  BY <1>1, <1>2 DEF KidsInv, Counted
<1>4. Room' /\ Noticed'
  BY <1>1, <1>2 DEF Room, Noticed
<1> QED BY <1>3, <1>4 DEF KidsInv

LEMMA AllowedFacts ==
  ASSUME ArrayInv, KidsInv
  PROVE  Allowed \in Int /\ (MayFork => nprocs <= Allowed)
<1>1. options.strangers \in Nat /\ nmerge \in Nat
  BY Options DEF ArrayInv, Types
<1>2. nprocs \in Nat /\ strangers \in 0..options.strangers
  BY DEF KidsInv, Counted
<1> QED BY <1>1, <1>2 DEF Allowed, MayFork

\* A new temporary file has no child yet.
LEMMA MadeKids ==
  ASSUME ArrayInv, KidsInv, pc # "exit", NEW label \in {"open", "run"}, NEW free,
         maybe_create_temp(label, free), w'.to = NewTemp,
         UNCHANGED <<child, nprocs, strangers, endVars>>
  PROVE  KidsInv'
<1>1. /\ child' = child /\ nprocs' = nprocs /\ strangers' = strangers /\ options' = options
      /\ failed' = failed
  BY DEF endVars
<1>2. /\ NewTemp \in Temps /\ NewTemp \notin disk /\ disk' = disk \cup {NewTemp}
      /\ state' = [state EXCEPT ![NewTemp] = "UNCOMPRESSED"]
      /\ pc' \in {"pipe", "fork"} \/ pc' = label
      /\ pc' = "fork" => MayFork
  BY TempMade DEF ArrayInv
<1>3. child[NewTemp] = "none"
  BY <1>2 DEF KidsInv, Room
<1>4. Children' = Children /\ Allowed' = Allowed
  BY <1>1, OptionsKept DEF Children, Allowed
<1>5. Counted'
  BY <1>1, <1>2, <1>3, <1>4 DEF KidsInv, Counted
<1>6. MayFork => nprocs <= Allowed
  BY AllowedFacts
<1>7. Room'
  BY <1>1, <1>2, <1>3, <1>4, <1>6 DEF KidsInv, Room
<1>8. Noticed'
  BY <1>1, <1>2 DEF KidsInv, Noticed
<1> QED BY <1>5, <1>7, <1>8 DEF KidsInv

\* Children that did not fail are reaped.
LEMMA ReapKids ==
  ASSUME ArrayInv, KidsInv, pc # "exit", NEW Z \in SUBSET Temps, \A c \in Z : child[c] # "none",
         Reaped(Z), ~Abnormal(Z), UNCHANGED <<strangers, options, failed, died>>,
         \A c \in disk : c \in disk' \/ c \in Z \/ child[c] = "none",
         \/ pc' = pc /\ pc' \notin {"pipe", "fork", "pipein", "forkin"}
         \/ /\ UNCHANGED <<w, files, fps>>
            /\ \/ pc' = pc
               \/ Z # {} /\ pc = "pipe" /\ pc' = "fork"
               \/ Z # {} /\ pc = "pipein" /\ pc' = "forkin"
  PROVE  KidsInv'
<1>1. /\ state' = [c \in Temps |-> IF c \in Z THEN "REAPED" ELSE state[c]]
      /\ child' = [c \in Temps |-> IF c \in Z THEN "none" ELSE child[c]]
      /\ nprocs' = nprocs - Cardinality(Z)
  BY DEF Reaped
<1>2. Counted /\ Room /\ Noticed
  BY DEF KidsInv
<1>3. Children' = Children \ Z /\ Z \subseteq Children
  BY <1>1 DEF Children
<1>4. Children \cap Z = Z
  BY <1>3
<1>5. /\ Cardinality(Children') = Cardinality(Children) - Cardinality(Z)
      /\ Cardinality(Children') \in Nat /\ Cardinality(Z) \in Nat
      /\ Z # {} => Cardinality(Z) # 0
  <2>1. IsFiniteSet(Children) /\ IsFiniteSet(Z) /\ Cardinality(Children \ Z) \in Nat /\ Cardinality(Z) \in Nat
    BY ChildrenFinite DEF Children
  <2>2. Cardinality(Children \ Z) = Cardinality(Children) - Cardinality(Children \cap Z)
    BY <2>1, FS_Difference
  <2>3. Z # {} => Cardinality(Z) # 0
    BY <2>1, FS_EmptySet
  <2> QED BY <1>3, <1>4, <2>1, <2>2, <2>3
<1>6. Allowed' = Allowed /\ Sorting' = Sorting /\ Allowed \in Int
  BY OptionsKept, Options, <1>2 DEF Allowed, Counted, ArrayInv, Types
<1>7. nprocs \in Nat /\ nprocs' \in Nat /\ nprocs' <= nprocs /\ (Z # {} => nprocs' < nprocs)
  BY <1>1, <1>2, <1>5 DEF Counted
<1>8. Counted'
  <2>1. nprocs' <= Allowed' + 1
    BY <1>2, <1>6, <1>7 DEF Counted
  <2>2. nprocs' = Cardinality(Children')
    BY <1>1, <1>2, <1>5 DEF Counted
  <2> QED BY <1>1, <1>2, <1>7, <2>1, <2>2 DEF Counted
<1>9. Room'
  <2>1. pc' \in {"fork", "forkin"} => nprocs' <= Allowed'
    BY <1>2, <1>6, <1>7 DEF Room, Counted
  <2>2. pc' # "exit" => \A c \in Temps : child'[c] # "none" => c \in disk'
    BY <1>1, <1>2 DEF Room
  <2>3. pc' \in {"pipe", "fork"} => child'[w'.to] = "none"
    <3>1. ASSUME pc' \in {"pipe", "fork"} PROVE child[w.to] = "none" /\ w.to \in Temps /\ w' = w
      <4>1. pc \in {"pipe", "fork"} /\ w' = w
        BY <3>1
      <4> QED BY <1>2, <4>1 DEF Room, ArrayInv, Types, Control
    <3> QED BY <1>1, <3>1
  <2>4. pc' \in {"pipein", "forkin"} => state'[files'[w'.base + Len(fps') + 1]] = "REAPED"
    <3>1. ASSUME pc' \in {"pipein", "forkin"}
          PROVE  /\ state[files[w.base + Len(fps) + 1]] = "REAPED"
                 /\ files[w.base + Len(fps) + 1] \in Temps
                 /\ w' = w /\ files' = files /\ fps' = fps
      <4>1. pc \in {"pipein", "forkin"} /\ w' = w /\ files' = files /\ fps' = fps
        BY <3>1
      <4> QED BY <1>2, <4>1 DEF Room, ArrayInv, Control
    <3> QED BY <1>1, <3>1
  <2> QED BY <2>1, <2>2, <2>3, <2>4 DEF Room
<1>10. Noticed'
  <2>1. \A c \in Temps : child[c] = "failed" => child'[c] = "failed"
    BY <1>1 DEF Abnormal
  <2> QED BY <1>2, <2>1 DEF Noticed
<1> QED BY <1>8, <1>9, <1>10 DEF KidsInv

\* A child is forked for a file that is on disk.
LEMMA ForkKids ==
  ASSUME ArrayInv, KidsInv, pc \in {"fork", "forkin"}, NEW f \in Temps,
         NEW work \in {"compressing", "decompressing"},
         f \in disk, child[f] = "none", Forked(f, work), disk' = disk,
         UNCHANGED <<strangers, options, failed, died>>,
         pc' \notin {"pipe", "fork", "pipein", "forkin", "exit"}
  PROVE  KidsInv'
<1>1. /\ state' = [state EXCEPT ![f] = "UNREAPED"] /\ child' = [child EXCEPT ![f] = work]
      /\ nprocs' = nprocs + 1
  BY DEF Forked
<1>2. Counted /\ Room /\ Noticed
  BY DEF KidsInv
<1>3. Children' = Children \cup {f} /\ f \notin Children
  BY <1>1, <1>2 DEF Children, Counted
<1>4. Cardinality(Children') = Cardinality(Children) + 1
  <2>1. IsFiniteSet(Children)
    BY ChildrenFinite DEF Children
  <2> QED BY <1>3, <2>1, FS_AddElement
<1>5. Allowed' = Allowed /\ Sorting' = Sorting /\ Allowed \in Int
  BY OptionsKept, AllowedFacts DEF Allowed
<1>6. nprocs <= Allowed /\ nprocs \in Nat
  BY <1>2 DEF Room, Counted
<1>7. nprocs' \in Nat /\ nprocs' <= Allowed + 1
  BY <1>1, <1>5, <1>6
<1>8. Counted'
  BY <1>1, <1>2, <1>3, <1>4, <1>5, <1>7 DEF Counted
<1>9. Room' /\ Noticed'
  <2>1. \A c \in Temps : child'[c] # "none" => c \in disk'
    BY <1>1, <1>2 DEF Room, Counted
  <2>2. \A c \in Temps : child[c] = "failed" => child'[c] = "failed"
    BY <1>1, <1>2 DEF Counted
  <2> QED BY <1>2, <2>1, <2>2 DEF Room, Noticed
<1> QED BY <1>8, <1>9 DEF KidsInv

\* Children work on, and none starts or is reaped.
LEMMA WorkKids ==
  ASSUME ArrayInv, KidsInv, pc # "exit",
         child' \in [Temps -> {"none", "compressing", "flushing", "decompressing", "exited", "failed"}],
         \A c \in Temps : child'[c] # "none" <=> child[c] # "none",
         \A c \in Temps : child[c] = "failed" => child'[c] = "failed",
         failed' \in BOOLEAN, failed' /\ ~failed => \E c \in Temps : child'[c] = "failed",
         UNCHANGED <<state, nprocs, strangers, options, disk>>,
         \/ pc' \notin {"pipe", "fork", "pipein", "forkin", "exit"}
         \/ UNCHANGED <<pc, w, files, fps>>
  PROVE  KidsInv'
<1>1. Counted /\ Room /\ Noticed
  BY DEF KidsInv
<1>2. Children' = Children /\ Allowed' = Allowed
  BY OptionsKept DEF Children, Allowed
<1>3. Counted'
  BY <1>1, <1>2 DEF Counted
<1>4. pc \in {"pipe", "fork"} => w.to \in Temps
  BY DEF ArrayInv, Types, Control
<1>5. Room'
  BY <1>1, <1>2, <1>4 DEF Room
<1>6. Noticed'
  BY <1>1 DEF Noticed
<1> QED BY <1>3, <1>5, <1>6 DEF KidsInv

-----------------------------------------------------------------------------
(* What each step does to the children *)

LEMMA StartKids ==
  ASSUME ArrayInv, KidsInv, pc # "exit", NEW base, NEW nt, NEW n, NEW ret, StartMerge(base, nt, n, ret)
  PROVE  KidsInv'
<1>1. CASE die("create")
  BY <1>1, DieKids
<1>2. CASE /\ maybe_create_temp("open", Free)
           /\ w' = [base |-> base, ntemps |-> nt, nfiles |-> n, to |-> NewTemp, ret |-> ret]
           /\ UNCHANGED <<mergeVars, fps, content, child, nprocs, strangers, endVars>>
  BY <1>2, MadeKids
<1> QED BY <1>1, <1>2 DEF StartMerge

LEMMA CloseKids ==
  ASSUME ArrayInv, KidsInv, pc # "exit", NEW f, Closed(f),
         UNCHANGED <<state, nprocs, strangers, options, failed, disk>>,
         pc' \notin {"pipe", "fork", "pipein", "forkin", "exit"}
  PROVE  KidsInv'
<1>1. /\ child' \in [Temps -> {"none", "compressing", "flushing", "decompressing", "exited", "failed"}]
      /\ \A c \in Temps : child'[c] # "none" <=> child[c] # "none"
      /\ \A c \in Temps : child[c] = "failed" => child'[c] = "failed"
  <2>1. child \in [Temps -> {"none", "compressing", "flushing", "decompressing", "exited", "failed"}]
    BY DEF KidsInv, Counted
  <2>2. CASE f \in Temps /\ child[f] = "compressing"
    <3>1. child' = [child EXCEPT ![f] = "flushing"]
      BY <2>2 DEF Closed
    <3> QED BY <2>1, <2>2, <3>1
  <2>3. CASE ~(f \in Temps /\ child[f] = "compressing")
    <3>1. child' = child
      BY <2>3 DEF Closed
    <3> QED BY <2>1, <3>1
  <2> QED BY <2>2, <2>3
<1>2. failed' \in BOOLEAN /\ ~(failed' /\ ~failed)
  BY DEF KidsInv, Counted
<1> QED BY <1>1, <1>2, WorkKids

LEMMA MakingKids ==
  ASSUME ArrayInv, KidsInv, NewRun \/ CloseRun \/ RunsDone
  PROVE  KidsInv'
<1>1. ASSUME NewRun PROVE KidsInv'
  <2>1. pc # "exit"
    BY <1>1 DEF NewRun
  <2>2. CASE die("create")
    BY <2>2, DieKids
  <2>3. CASE /\ maybe_create_temp("run", Free) /\ w' = [NoMerge EXCEPT !.to = NewTemp]
             /\ UNCHANGED <<mergeVars, fps, content, child, nprocs, strangers, endVars>>
    <3>1. w'.to = NewTemp
      BY <2>3 DEF NoMerge
    <3> QED BY <2>1, <2>3, <3>1, MadeKids
  <2> QED BY <1>1, <2>2, <2>3 DEF NewRun
<1>2. ASSUME CloseRun PROVE KidsInv'
  BY <1>2, CloseKids DEF CloseRun, endVars
<1>3. ASSUME RunsDone PROVE KidsInv'
  BY <1>3, QuietKids DEF RunsDone, tempVars, endVars
<1> QED BY <1>1, <1>2, <1>3

LEMMA PassKids ==
  ASSUME ArrayInv, KidsInv,
         Pass \/ FullMerge \/ ShortMerge \/ PassEnds \/ AvoidTrashing \/ LastMerge
  PROVE  KidsInv'
<1>1. ASSUME Pass PROVE KidsInv'
  BY <1>1, QuietKids DEF Pass, tempVars, endVars
<1>2. ASSUME FullMerge \/ ShortMerge PROVE KidsInv'
  BY <1>2, StartKids DEF FullMerge, ShortMerge
<1>3. ASSUME PassEnds PROVE KidsInv'
  BY <1>3, QuietKids DEF PassEnds, tempVars, endVars
<1>4. ASSUME AvoidTrashing PROVE KidsInv'
  <2>1. CASE StartMerge(i, 0, 1, "copy")
    BY <1>4, <2>1, StartKids DEF AvoidTrashing
  <2>2. CASE UNCHANGED <<pc, cont, ntemps, nfiles, in, out, tempcopy, w, fps, tempVars, procVars, endVars>>
    BY <1>4, <2>2, QuietKids DEF AvoidTrashing, tempVars, endVars
  <2> QED BY <1>4, <2>1, <2>2 DEF AvoidTrashing
<1>5. ASSUME LastMerge PROVE KidsInv'
  BY <1>5, QuietKids DEF LastMerge, tempVars, endVars
<1> QED BY <1>1, <1>2, <1>3, <1>4, <1>5

LEMMA OpenFailsKids ==
  ASSUME ArrayInv, KidsInv, pc = "open", OpenFails
  PROVE  KidsInv'
<1>1. CASE die("open")
  BY <1>1, DieKids
<1>2. CASE pc' = "shed" /\ UNCHANGED <<cont, mergeVars, w, fps, tempVars, procVars, endVars>>
  BY <1>2, QuietKids DEF tempVars, endVars
<1>3. CASE mergefps
  BY <1>3, QuietKids DEF mergefps
<1> QED BY <1>1, <1>2, <1>3 DEF OpenFails

LEMMA OpenKids ==
  ASSUME ArrayInv, KidsInv, Open \/ Opened
  PROVE  KidsInv'
<1>1. ASSUME Open PROVE KidsInv'
  <2>1. pc = "open"
    BY <1>1 DEF Open
  <2>2. CASE OpenFails
    BY <2>1, <2>2, OpenFailsKids
  <2>3. CASE UNCHANGED <<pc, cont, mergeVars, w, tempVars, procVars, endVars>>
    BY <2>1, <2>3, QuietKids DEF tempVars, endVars
  <2> QED BY <1>1, <2>2, <2>3 DEF Open
<1>2. ASSUME Opened PROVE KidsInv'
  BY <1>2, QuietKids DEF Opened, mergefps
<1> QED BY <1>1, <1>2

LEMMA OpenTempKids ==
  ASSUME ArrayInv, KidsInv, OpenTemp
  PROVE  KidsInv'
<1> DEFINE f == files[w.base + Len(fps) + 1]
<1>1. pc = "open" /\ f \in Temps
  BY DEF OpenTemp, Compressed
<1> HIDE DEF f
<1>2. CASE die("abnormal")
  BY <1>2, DieKids
<1>3. CASE /\ f \in Zombies /\ ~Abnormal({f}) /\ Reaped({f})
           /\ UNCHANGED <<pc, cont, mergeVars, w, fps, tempVars, strangers, endVars>>
  <2>1. {f} \in SUBSET Temps /\ \A c \in {f} : child[c] # "none"
    BY <1>1, <1>3 DEF Zombies
  <2>2. disk' = disk /\ pc' = pc /\ UNCHANGED <<strangers, options, failed, died>>
    BY <1>3 DEF tempVars, endVars
  <2> QED BY <1>1, <1>3, <2>1, <2>2, ReapKids
<1>4. CASE OpenFails
  BY <1>1, <1>4, OpenFailsKids
<1>5. CASE /\ state[f] = "REAPED" /\ Pipe("pipein", "forkin")
           /\ UNCHANGED <<cont, mergeVars, w, fps, tempVars, procVars, endVars>>
  <2>1. pc' = "pipein" \/ (pc' = "forkin" /\ MayFork)
    BY <1>5, Zenon DEF Pipe
  <2>2. /\ state' = state /\ child' = child /\ nprocs' = nprocs /\ strangers' = strangers
        /\ options' = options /\ failed' = failed /\ disk' = disk
        /\ w' = w /\ fps' = fps /\ files' = files
    BY <1>5 DEF procVars, endVars, tempVars, mergeVars
  <2>3. Children' = Children /\ Allowed' = Allowed
    BY <2>2, OptionsKept DEF Children, Allowed
  <2>4. Counted'
    BY <2>2, <2>3 DEF KidsInv, Counted
  <2>5. MayFork => nprocs <= Allowed
    BY AllowedFacts
  <2>6. Room'
    BY <1>1, <1>5, <2>1, <2>2, <2>3, <2>5 DEF KidsInv, Room, f
  <2>7. Noticed'
    BY <1>1, <2>1, <2>2 DEF KidsInv, Noticed
  <2> QED BY <2>4, <2>6, <2>7 DEF KidsInv
<1> QED BY <1>2, <1>3, <1>4, <1>5 DEF OpenTemp, f

LEMMA ShedKids ==
  ASSUME ArrayInv, KidsInv, Shed
  PROVE  KidsInv'
<1> DEFINE left == Front(fps)
           free == Free + Cost(Last(fps))
<1>1. pc = "shed"
  BY DEF Shed
<1>2. CASE die("create")
  BY <1>2, DieKids
<1>3. CASE UNCHANGED <<pc, cont, mergeVars, w, tempVars, procVars, endVars>>
  BY <1>1, <1>3, QuietKids DEF tempVars, endVars
<1>4. CASE /\ maybe_create_temp("open", free)
           /\ w' = [w EXCEPT !.ntemps = Min({ntemps, Len(left)}), !.nfiles = Len(left),
                             !.to = NewTemp, !.ret = "shed"]
           /\ UNCHANGED <<mergeVars, content, child, nprocs, strangers, endVars>>
  <2>1. w'.to = NewTemp
    BY <1>4 DEF ArrayInv, Types
  <2> QED BY <1>1, <1>4, <2>1, MadeKids
<1> QED BY <1>2, <1>3, <1>4 DEF Shed

LEMMA ReapExitedKids ==
  ASSUME ArrayInv, KidsInv, pc # "exit", Zombies # {}, NEW next, ReapExited(next),
         \/ next = pc
         \/ pc = "pipe" /\ next = "fork"
         \/ pc = "pipein" /\ next = "forkin"
  PROVE  KidsInv'
<1>1. CASE Abnormal(Zombies)
  BY <1>1, DieKids DEF ReapExited
<1>2. CASE ~Abnormal(Zombies)
  <2>1. /\ Reaped(Zombies) /\ pc' = next
        /\ UNCHANGED <<cont, mergeVars, w, fps, tempVars, strangers, endVars>>
    BY <1>2 DEF ReapExited
  <2>2. Zombies \in SUBSET Temps /\ \A c \in Zombies : child[c] # "none"
    BY DEF Zombies
  <2>3. UNCHANGED <<strangers, options, failed, died, w, files, fps>> /\ disk' = disk
    BY <2>1 DEF endVars, mergeVars, tempVars
  <2> QED BY <1>2, <2>1, <2>2, <2>3, ReapKids
<1> QED BY <1>1, <1>2

LEMMA ProcessKids ==
  ASSUME ArrayInv, KidsInv, ReapSome \/ Retry \/ Fork \/ ForkDecompressor \/ ForkFailed
  PROVE  KidsInv'
<1>1. ASSUME ReapSome PROVE KidsInv'
  <2>1. pc \in {"pipe", "pipein"}
    BY <1>1 DEF ReapSome
  <2>2. CASE Zombies # {} /\ ReapExited(IF pc = "pipe" THEN "fork" ELSE "forkin")
    <3>1. CASE pc = "pipe"
      <4>1. ReapExited("fork")
        BY <2>2, <3>1
      <4> QED BY <2>2, <3>1, <4>1, ReapExitedKids
    <3>2. CASE pc = "pipein"
      <4>1. ReapExited("forkin")
        BY <2>2, <3>2
      <4> QED BY <2>2, <3>2, <4>1, ReapExitedKids
    <3> QED BY <2>1, <3>1, <3>2
  <2>3. CASE /\ strangers > 0 /\ strangers' = strangers - 1
             /\ pc' = IF pc = "pipe" THEN "fork" ELSE "forkin"
             /\ UNCHANGED <<cont, mergeVars, w, fps, tempVars, state, child, nprocs, endVars>>
    <3>1. /\ state' = state /\ child' = child /\ nprocs' = nprocs
          /\ options' = options /\ failed' = failed /\ disk' = disk
          /\ w' = w /\ fps' = fps /\ files' = files
      BY <2>3 DEF endVars, tempVars, mergeVars
    <3>2. Counted /\ Room /\ Noticed
      BY DEF KidsInv
    <3>3. /\ Children' = Children /\ strangers \in Nat /\ strangers \in 0..options.strangers
          /\ strangers' \in 0..options.strangers
      BY <2>3, <3>1, <3>2, Options DEF Children, Counted, ArrayInv, Types
    <3>4. Allowed' = Allowed + 1 /\ Allowed \in Int
      BY <2>3, <3>1, <3>3, OptionsKept, Options, SMTT(30) DEF Allowed, ArrayInv, Types
    <3>5. nprocs \in Nat /\ nprocs <= Allowed' /\ nprocs <= Allowed' + 1
      BY <3>2, <3>4 DEF Counted
    <3>6. Counted'
      BY <3>1, <3>2, <3>3, <3>5 DEF Counted
    <3>7. Room' /\ Noticed'
      BY <2>1, <2>3, <3>1, <3>2, <3>5 DEF Room, Noticed
    <3> QED BY <3>6, <3>7 DEF KidsInv
  <2> QED BY <1>1, <2>2, <2>3 DEF ReapSome
<1>2. ASSUME Retry PROVE KidsInv'
  <2>1. pc \in {"fork", "forkin"} /\ Zombies # {} /\ ReapExited(pc)
    BY <1>2 DEF Retry
  <2> QED BY <2>1, ReapExitedKids
<1>3. pc \in {"fork", "pipe"} => cont \in {"run", "open"}
  BY DEF ArrayInv, Control, Making, Between, Working, Ending
<1>4. ASSUME Fork PROVE KidsInv'
  <2>1. /\ pc = "fork" /\ Forked(w.to, "compressing") /\ pc' = cont
        /\ disk' = disk /\ UNCHANGED <<strangers, options, failed, died>>
    BY <1>4 DEF Fork, tempVars, endVars
  <2>2. w.to \in Temps /\ child[w.to] = "none"
    BY <2>1, Sets DEF ArrayInv, Types, Control, KidsInv, Room
  <2>3. w.to \in disk
    <3>1. CASE Making
      <4>1. Len(temphead) > 0 /\ w.to = temphead[Len(temphead)] /\ Len(temphead) \in Nat
        BY <2>1, <3>1 DEF ArrayInv, Control, Types
      <4>2. Len(temphead) \in 1..Len(temphead)
        BY <4>1
      <4> QED BY <2>2, <4>1, <4>2 DEF ArrayInv, Listed
    <3>2. CASE Working
      BY <2>2, <3>2 DEF ArrayInv, Layout
    <3> QED BY <2>1, <3>1, <3>2 DEF ArrayInv, Control, Between, Ending
  <2> QED BY <1>3, <2>1, <2>2, <2>3, ForkKids
<1>5. ASSUME ForkDecompressor PROVE KidsInv'
  <2> DEFINE x == w.base + Len(fps) + 1
  <2>1. /\ pc = "forkin" /\ Forked(files[x], "decompressing") /\ pc' = "open"
        /\ disk' = disk /\ UNCHANGED <<strangers, options, failed, died>>
    BY <1>5 DEF ForkDecompressor, tempVars, endVars
  <2>2. Working /\ pc # "merging"
    BY <2>1 DEF Working
  <2>3. Arguments /\ Numbers /\ Layout /\ Clean
    BY <2>2 DEF ArrayInv
  <2>4. files[x] \in Temps /\ Len(fps) < w.nfiles
    BY <2>1 DEF ArrayInv, Control
  <2>5. child[files[x]] = "none"
    <3> HIDE DEF x
    <3>1. state[files[x]] = "REAPED"
      BY <2>1 DEF KidsInv, Room, x
    <3> QED BY <2>4, <3>1 DEF KidsInv, Counted
  <2>6. /\ w.base \in Nat /\ w.nfiles \in Nat /\ Len(fps) \in Nat /\ nfiles \in Nat /\ N \in Nat
        /\ ntemps \in Nat /\ in \in Nat
    BY Sets DEF ArrayInv, Types
  <2>7. w.base + w.nfiles <= nfiles /\ nfiles <= N
    BY <2>3 DEF Arguments, Numbers
  <2>8. x \in Users /\ x <= nfiles /\ x > w.base
    BY <2>4, <2>6, <2>7, Sets
  <2>9. Start <= w.base
    <3>1. w.ret \in {"full", "short"} => w.base = in
      BY <2>3 DEF Arguments
    <3> QED BY <2>1, <2>6, <3>1 DEF Start, InPass
  <2> HIDE DEF x
  <2>10. Start \in Nat /\ x \in Nat /\ x > Start
    BY <2>6, <2>8, <2>9, Sets DEF Start
  <2>11. Live(x) \/ Rest(x)
    <3>1. /\ Live(x) <=> (x <= Lead \/ (x > Start /\ x <= Start + ntemps))
          /\ Rest(x) <=> (x > Start + ntemps /\ x <= nfiles)
      BY <2>2, <2>8, Quiet
    <3> QED BY <2>6, <2>8, <2>10, <3>1
  <2>12. files[x] \in disk
    BY <2>3, <2>4, <2>8, <2>11, Sets DEF Layout
  <2> QED BY <2>1, <2>4, <2>5, <2>12, ForkKids
<1>6. ASSUME ForkFailed PROVE KidsInv'
  <2>1. CASE die("fork")
    BY <2>1, DieKids
  <2>2. CASE /\ pc = "fork" /\ pc' = cont /\ cont' = "none"
             /\ UNCHANGED <<mergeVars, w, fps, tempVars, procVars, endVars>>
    <3>1. pc' \in {"run", "open"} /\ disk' = disk /\ UNCHANGED <<procVars, options, failed, died>>
      BY <1>3, <2>2 DEF tempVars, endVars
    <3> QED BY <2>2, <3>1, QuietKids
  <2> QED BY <1>6, <2>1, <2>2 DEF ForkFailed
<1> QED BY <1>1, <1>2, <1>4, <1>5, <1>6

LEMMA EndOfInputKids ==
  ASSUME ArrayInv, KidsInv, EndOfInput
  PROVE  KidsInv'
<1>1. CASE die("abnormal")
  BY <1>1, DieKids
<1>2. CASE ~die("abnormal")
  <2>1. pc = "merging"
    BY DEF EndOfInput
  <2>2. PICK k \in DOMAIN fps :
          LET f == fps[k]
              waits == IsTemp(k) /\ Compressed(f) /\ state[f] = "UNREAPED"
          IN /\ AtEnd(k) /\ ~(waits /\ Abnormal({f}))
             /\ IF waits THEN Reaped({f}) ELSE UNCHANGED <<state, child, nprocs>>
             /\ IF IsTemp(k) THEN zaptemp(f) /\ w' = [w EXCEPT !.ntemps = @ - 1]
                             ELSE UNCHANGED <<tempVars, w>>
             /\ UNCHANGED <<pc, cont, ntemps, nfiles, in, out, i, tempcopy, strangers, endVars>>
    BY <1>2, Zenon DEF EndOfInput
  <2> DEFINE f == fps[k]
             waits == IsTemp(k) /\ Compressed(f) /\ state[f] = "UNREAPED"
  <2>3. /\ AtEnd(k) /\ ~(waits /\ Abnormal({f}))
        /\ waits => Reaped({f})
        /\ ~waits => UNCHANGED <<state, child, nprocs>>
        /\ disk' = disk \/ (IsTemp(k) /\ disk' = disk \ {f})
        /\ pc' = pc /\ UNCHANGED <<strangers, options, failed, died>>
    BY <2>2, Zenon DEF zaptemp, tempVars, endVars
  <2>4. Counted /\ Room /\ Noticed
    BY DEF KidsInv
  <2>5. CASE waits
    <3>1. f \in Temps
      BY <2>5 DEF Compressed
    <3>2. {f} \in SUBSET Temps /\ \A c \in {f} : child[c] # "none"
      BY <2>4, <2>5, <3>1 DEF Counted
    <3>3. \A c \in disk : c \in disk' \/ c \in {f} \/ child[c] = "none"
      BY <2>3
    <3> HIDE DEF f
    <3> QED BY <2>1, <2>3, <2>5, <3>2, <3>3, ReapKids
  <2>6. CASE ~waits
    <3>1. /\ state' = state /\ child' = child /\ nprocs' = nprocs /\ strangers' = strangers
          /\ options' = options /\ failed' = failed
      BY <2>3, <2>6
    <3>2. Children' = Children /\ Allowed' = Allowed
      BY <3>1, OptionsKept DEF Children, Allowed
    <3>3. Counted'
      BY <2>4, <3>1, <3>2 DEF Counted
    <3>4. IsTemp(k) /\ f \in Temps => child[f] = "none"
      BY <2>4, <2>6 DEF Compressed, Counted
    <3>5. \A c \in Temps : child[c] # "none" => c \in disk'
      BY <2>1, <2>3, <2>4, <3>4 DEF Room
    <3>6. Room' /\ Noticed'
      BY <2>1, <2>3, <2>4, <3>1, <3>5 DEF Room, Noticed
    <3> QED BY <3>3, <3>6 DEF KidsInv
  <2> QED BY <2>5, <2>6
<1> QED BY <1>1, <1>2

LEMMA EndKids ==
  ASSUME ArrayInv, KidsInv, EndOfMerge \/ Finish
  PROVE  KidsInv'
<1>1. ASSUME EndOfMerge PROVE KidsInv'
  <2>1. /\ pc = "merging" /\ Closed(w.to)
        /\ UNCHANGED <<state, nprocs, strangers, options, failed, disk>>
    BY <1>1 DEF EndOfMerge, tempVars, endVars
  <2>2. w.ret \in {"full", "short", "copy", "shed", "last"}
    BY <1>1, MergeEnds
  <2>3. /\ w.ret = "full" => pc' = "full"
        /\ w.ret = "short" => pc' = "shift"
        /\ w.ret = "copy" => pc' = "avoid"
        /\ w.ret = "shed" => pc' = "last"
        /\ w.ret = "last" => pc' = "finish"
    BY <1>1, Zenon DEF EndOfMerge
  <2>4. pc' \notin {"pipe", "fork", "pipein", "forkin", "exit"}
    BY <2>2, <2>3
  <2> QED BY <2>1, <2>4, CloseKids
<1>2. ASSUME Finish PROVE KidsInv'
  <2>1. pc = "finish"
    BY <1>2 DEF Finish
  <2>2. CASE Sorting /\ nprocs > 0
    <3>1. PICK c \in Zombies :
            IF Abnormal({c}) THEN die("abnormal")
            ELSE Reaped({c}) /\ UNCHANGED <<pc, cont, mergeVars, w, fps, tempVars, strangers, endVars>>
      BY <1>2, <2>2 DEF Finish
    <3>2. CASE Abnormal({c})
      BY <3>1, <3>2, DieKids
    <3>3. CASE ~Abnormal({c})
      <4>1. {c} \in SUBSET Temps /\ \A d \in {c} : child[d] # "none"
        BY DEF Zombies
      <4>2. Reaped({c}) /\ pc' = pc /\ disk' = disk /\ UNCHANGED <<strangers, options, failed, died>>
        BY <3>1, <3>3 DEF tempVars, endVars
      <4> QED BY <2>1, <3>3, <4>1, <4>2, ReapKids
    <3> QED BY <3>2, <3>3
  <2>3. CASE ~(Sorting /\ nprocs > 0)
    <3>1. die("")
      BY <1>2, <2>3 DEF Finish
    <3>2. ASSUME Sorting PROVE ~failed
      <4>1. nprocs = 0
        BY <2>3, <3>2 DEF KidsInv, Counted
      <4>2. Children = {}
        <5>1. IsFiniteSet(Children)
          BY ChildrenFinite DEF Children
        <5> QED BY <4>1, <5>1, FS_EmptySet DEF KidsInv, Counted
      <4> QED BY <2>1, <4>2 DEF KidsInv, Noticed, Children
    <3> QED BY <3>1, <3>2, DieKids
  <2> QED BY <2>2, <2>3
<1> QED BY <1>1, <1>2

LEMMA ChildExitKids ==
  ASSUME ArrayInv, KidsInv, NEW c \in Temps, ChildExit(c)
  PROVE  KidsInv'
<1>1. /\ pc # "exit" /\ UNCHANGED <<state, nprocs, strangers, options, disk>>
      /\ UNCHANGED <<pc, w, files, fps>>
  BY DEF ChildExit, tempVars, mergeVars
<1>2. Counted
  BY DEF KidsInv
<1>3. child[c] \in {"flushing", "decompressing"}
  BY DEF ChildExit, CanFinish, MayFail
<1>4. \/ child' = [child EXCEPT ![c] = "exited"] /\ failed' = failed
      \/ child' = [child EXCEPT ![c] = "failed"] /\ failed' = TRUE
  BY DEF ChildExit
<1>5. /\ child' \in [Temps -> {"none", "compressing", "flushing", "decompressing", "exited", "failed"}]
      /\ \A d \in Temps : child'[d] # "none" <=> child[d] # "none"
      /\ \A d \in Temps : child[d] = "failed" => child'[d] = "failed"
      /\ failed' \in BOOLEAN /\ (failed' /\ ~failed => \E d \in Temps : child'[d] = "failed")
  <2>1. CASE child' = [child EXCEPT ![c] = "exited"] /\ failed' = failed
    BY <1>2, <1>3, <2>1 DEF Counted
  <2>2. CASE child' = [child EXCEPT ![c] = "failed"] /\ failed' = TRUE
    <3>1. child'[c] = "failed"
      BY <1>2, <2>2 DEF Counted
    <3> QED BY <1>2, <1>3, <2>2, <3>1 DEF Counted
  <2> QED BY <1>4, <2>1, <2>2
<1> QED BY <1>1, <1>5, WorkKids

LEMMA KidsInit ==
  ASSUME Init
  PROVE  KidsInv
<1>1. /\ state = [f \in Temps |-> "UNCOMPRESSED"] /\ child = [f \in Temps |-> "none"]
      /\ nprocs = 0 /\ strangers = options.strangers /\ failed = FALSE
      /\ options \in Scenarios /\ (pc = "runs" \/ pc = "pass")
  BY DEF Init
<1>2. options.strangers \in Nat /\ nmerge \in Nat
  BY <1>1, Options
<1>3. Children = {} /\ Cardinality(Children) = 0
  BY <1>1, FS_EmptySet DEF Children
<1>4. 0 <= Allowed + 1 /\ strangers \in 0..options.strangers
  BY <1>1, <1>2 DEF Allowed
<1>5. Counted
  BY <1>1, <1>3, <1>4 DEF Counted
<1>6. Room /\ Noticed
  BY <1>1 DEF Room, Noticed
<1> QED BY <1>5, <1>6 DEF KidsInv

\* nprocs counts the children that were not waited for, there is room for those that
\* pipe_fork starts, and no failure is missed by reap.
THEOREM ChildrenHold == Spec => []KidsInv
<1>1. Init => KidsInv
  BY KidsInit
<1>2. ArrayInv /\ KidsInv /\ [Next]_vars => KidsInv'
  <2>1. CASE UNCHANGED vars
    <3> SUFFICES ASSUME KidsInv, UNCHANGED vars PROVE KidsInv'
      BY <2>1
    <3>1. /\ state' = state /\ child' = child /\ nprocs' = nprocs /\ strangers' = strangers
          /\ options' = options /\ failed' = failed /\ died' = died /\ disk' = disk
          /\ w' = w /\ fps' = fps /\ files' = files /\ pc' = pc
      BY DEF vars, procVars, endVars, tempVars, mergeVars
    <3>2. Children' = Children /\ Allowed' = Allowed /\ Sorting' = Sorting
      BY <3>1, OptionsKept DEF Children, Allowed
    <3> QED BY <3>1, <3>2 DEF KidsInv, Counted, Room, Noticed
  <2>2. CASE Main
    BY <2>2, MakingKids, PassKids, OpenKids, OpenTempKids, ShedKids, ProcessKids, EndOfInputKids,
       EndKids DEF Main
  <2>3. ASSUME NEW c \in Temps, ChildExit(c), ArrayInv, KidsInv PROVE KidsInv'
    BY <2>3, ChildExitKids
  <2> QED BY <2>1, <2>2, <2>3 DEF Next
<1> QED BY <1>1, <1>2, ArrayHolds, PTL DEF Spec

\* nprocs is the number of children that were not waited for, in every order of their
\* ends and of the calls of reap, and (the comment in pipe_fork) at most NMERGE + 2, and one
\* more for each child that sort did not start.
THEOREM SubprocessBoundHolds == Spec => []SubprocessBound
<1>1. ArrayInv /\ KidsInv => SubprocessBound
  <2> SUFFICES ASSUME ArrayInv, KidsInv PROVE SubprocessBound
    OBVIOUS
  <2>1. nmerge \in Nat /\ options.strangers \in Nat /\ strangers \in Int /\ nprocs <= Allowed + 1
    BY Options DEF ArrayInv, Types, KidsInv, Counted
  <2>2. Allowed + 1 = nmerge + 2 + (options.strangers - strangers)
    BY <2>1 DEF Allowed
  <2> QED BY <2>1, <2>2 DEF KidsInv, Counted, Children, SubprocessBound
<1> QED BY <1>1, ArrayHolds, ChildrenHold, PTL

\* sort() does not exit successfully when a child failed.
THEOREM FailureSeenHolds == Spec => []FailureSeen
<1>1. KidsInv => FailureSeen
  BY DEF KidsInv, Noticed, FailureSeen
<1> QED BY <1>1, ChildrenHold, PTL

-----------------------------------------------------------------------------
(* The order of lines: the third part of the invariant *)

\* Neighbours in the order of the input, after the first a and up to the first b of them.
Neighbours(a, b) == SubSeq(AllInOrder, a + 1, b)

LEMMA InOrder ==
  ASSUME Types
  PROVE  /\ AllInOrder \in Seq(Users) /\ Len(AllInOrder) = total /\ total \in Nat
         /\ \A k \in 1..total : AllInOrder[k] = Holds(k)
         /\ \A f \in Users : Holds(f) \in Users
         /\ \A f, g \in Same : Holds(f) = Holds(g)
         /\ \A f \in Users : f \notin Same => Holds(f) = f
<1>1. total \in Users /\ Same \subseteq Users /\ Users = 1..N /\ N \in Nat
  BY Options, Sets DEF Types
<1>2. total \in Nat /\ \A k \in 1..total : k \in Users
  BY <1>1
<1>3. ASSUME Same # {}
      PROVE  (CHOOSE g \in Same : \A h \in Same : g <= h) \in Same
  <2>1. Same \in SUBSET Nat
    BY <1>1
  <2>2. PICK m \in Same : \A h \in Same : m <= h
    BY <1>3, <2>1, MinIs
  <2> QED BY <2>2
<1>4. \A f \in Users : Holds(f) \in Users
  BY <1>1, <1>3 DEF Holds
<1>5. ASSUME NEW f \in Same, NEW g \in Same PROVE Holds(f) = Holds(g)
  <2>1. \A e \in Same : Holds(e) = CHOOSE m \in Same : \A h \in Same : m <= h
    BY DEF Holds
  <2> QED BY <2>1
<1>6. \A f \in Users : f \notin Same => Holds(f) = f
  BY DEF Holds
<1>7. AllInOrder \in Seq(Users) /\ Len(AllInOrder) = total
  BY <1>2, <1>4 DEF AllInOrder
<1> QED BY <1>2, <1>4, <1>5, <1>6, <1>7 DEF AllInOrder

LEMMA NeighboursAre ==
  ASSUME Types, NEW a \in 0..total, NEW b \in 0..total, a <= b
  PROVE  /\ Neighbours(a, b) \in Seq(Users) /\ Len(Neighbours(a, b)) = b - a
         /\ \A k \in 1..(b - a) : Neighbours(a, b)[k] = AllInOrder[a + k]
<1>1. /\ AllInOrder \in Seq(Users) /\ Len(AllInOrder) = total /\ total \in Nat
      /\ a \in Nat /\ b \in Nat /\ b <= total
  BY InOrder
<1>2. /\ a + 1 \in Int /\ b \in Int
      /\ \A k \in (a + 1)..b : AllInOrder[k] \in Users
  BY <1>1
<1>3. /\ SubSeq(AllInOrder, a + 1, b) \in Seq(Users)
      /\ Len(SubSeq(AllInOrder, a + 1, b)) = IF a + 1 <= b THEN b - (a + 1) + 1 ELSE 0
      /\ \A k \in 1..(b - (a + 1) + 1) : SubSeq(AllInOrder, a + 1, b)[k] = AllInOrder[(a + 1) + k - 1]
  BY <1>2, SubSeqProperties
<1>4. b - (a + 1) + 1 = b - a /\ (~(a + 1 <= b) => b - a = 0)
  BY <1>1
<1>5. \A k \in 1..(b - a) : (a + 1) + k - 1 = a + k
  BY <1>1
<1> QED BY <1>3, <1>4, <1>5 DEF Neighbours

LEMMA Joined ==
  ASSUME Types, NEW a \in 0..total, NEW b \in 0..total, NEW c \in 0..total, a <= b, b <= c
  PROVE  Neighbours(a, b) \o Neighbours(b, c) = Neighbours(a, c)
<1> DEFINE s == Neighbours(a, b)
           t == Neighbours(b, c)
           u == Neighbours(a, c)
<1>1. total \in Nat /\ a \in Nat /\ b \in Nat /\ c \in Nat /\ a <= c
  BY InOrder
<1>2. /\ s \in Seq(Users) /\ Len(s) = b - a /\ \A k \in 1..(b - a) : s[k] = AllInOrder[a + k]
      /\ t \in Seq(Users) /\ Len(t) = c - b /\ \A k \in 1..(c - b) : t[k] = AllInOrder[b + k]
      /\ u \in Seq(Users) /\ Len(u) = c - a /\ \A k \in 1..(c - a) : u[k] = AllInOrder[a + k]
  BY <1>1, NeighboursAre
<1> HIDE DEF s, t, u
<1>3. /\ s \o t \in Seq(Users) /\ Len(s \o t) = Len(s) + Len(t)
      /\ \A k \in 1..(Len(s) + Len(t)) :
           (s \o t)[k] = IF k <= Len(s) THEN s[k] ELSE t[k - Len(s)]
  BY <1>2, ConcatProperties, Zenon
<1>4. Len(s) + Len(t) = c - a
  BY <1>1, <1>2
<1>5. ASSUME NEW k \in 1..(c - a) PROVE (s \o t)[k] = u[k]
  <2>1. (s \o t)[k] = IF k <= b - a THEN s[k] ELSE t[k - (b - a)]
    BY <1>2, <1>3, <1>4
  <2>2. CASE k <= b - a
    <3>1. k \in 1..(b - a)
      BY <1>1, <2>2
    <3> QED BY <1>2, <2>1, <2>2, <3>1
  <2>3. CASE ~(k <= b - a)
    <3>1. k - (b - a) \in 1..(c - b) /\ b + (k - (b - a)) = a + k
      BY <1>1, <2>3
    <3> QED BY <1>2, <2>1, <2>3, <3>1
  <2> QED BY <2>2, <2>3
<1>6. s \o t = u
  <2>1. s \o t \in Seq(Users) /\ u \in Seq(Users) /\ Len(s \o t) = Len(u)
    BY <1>2, <1>3, <1>4
  <2>2. \A k \in 1..Len(s \o t) : (s \o t)[k] = u[k]
    BY <1>3, <1>4, <1>5
  <2> QED BY <2>1, <2>2, SeqEqual
<1> QED BY <1>6 DEF s, t, u

\* Sequences of neighbours, each of which goes on where the one before it ended.
LEMMA Flattened ==
  ASSUME Types, NEW n \in Nat, NEW d \in [0..n -> 0..total], NEW ss \in Seq(Seq(Users)), Len(ss) = n,
         \A k \in 1..n : d[k - 1] <= d[k] /\ ss[k] = Neighbours(d[k - 1], d[k])
  PROVE  d[0] <= d[n] /\ FlattenSeq(ss) = Neighbours(d[0], d[n])
<1>1. total \in Nat
  BY InOrder
<1>2. \A k \in 0..n : d[k] \in 0..total /\ d[k] \in Nat
  BY <1>1
<1>3. \A k \in 0..n : d[0] <= d[k]
  <2> DEFINE T == {k \in 0..n : ~(d[0] <= d[k])}
  <2>1. CASE T = {}
    BY <2>1
  <2>2. CASE T # {}
    <3>1. T \in SUBSET Nat
      OBVIOUS
    <3> HIDE DEF T
    <3>2. PICK m \in T : \A y \in T : m <= y
      BY <2>2, <3>1, MinIs
    <3> USE DEF T
    <3>3. m \in 0..n /\ ~(d[0] <= d[m]) /\ m # 0
      BY <1>2, <3>2
    <3>4. m \in 1..n /\ m - 1 \in 0..n /\ ~(m <= m - 1)
      BY <3>3
    <3>5. d[0] <= d[m - 1]
      BY <3>2, <3>4
    <3>6. {d[0], d[m - 1], d[m]} \subseteq Nat /\ d[m - 1] <= d[m]
      BY <1>2, <3>3, <3>4
    <3> QED BY <3>3, <3>5, <3>6
  <2> QED BY <2>1, <2>2
<1>4. CASE n = 0
  <2>1. FlattenSeq(ss) = ss /\ ss = <<>>
    BY <1>4, EmptySeq, Zenon DEF FlattenSeq
  <2>2. d[0] \in 0..total /\ d[0] - d[0] = 0 /\ d[0] <= d[0]
    BY <1>2
  <2>3. Len(Neighbours(d[0], d[0])) = d[0] - d[0] /\ Neighbours(d[0], d[0]) \in Seq(Users)
    BY <2>2, NeighboursAre
  <2>4. Neighbours(d[0], d[0]) = <<>>
    BY <2>3, <2>2, EmptySeq
  <2> QED BY <1>4, <2>1, <2>2, <2>4
<1>5. CASE n # 0
  <2> DEFINE step(f) == [k \in 1..n |-> IF k = 1 THEN ss[k] ELSE f[k - 1] \o ss[k]]
             g == [k \in 1..n |-> Neighbours(d[0], d[k])]
             f == CHOOSE h : h = step(h)
  <2>1. g = step(g)
    <3>1. ASSUME NEW k \in 1..n PROVE g[k] = IF k = 1 THEN ss[k] ELSE g[k - 1] \o ss[k]
      <4>1. CASE k = 1
        BY <4>1
      <4>2. CASE k # 1
        <5>1. k - 1 \in 1..n /\ k - 1 \in 0..n /\ k \in 0..n /\ 0 \in 0..n
          BY <4>2
        <5>2. g[k - 1] = Neighbours(d[0], d[k - 1]) /\ ss[k] = Neighbours(d[k - 1], d[k])
          BY <5>1
        <5>3. /\ d[0] \in 0..total /\ d[k - 1] \in 0..total /\ d[k] \in 0..total
              /\ d[0] <= d[k - 1] /\ d[k - 1] <= d[k]
          BY <1>2, <1>3, <5>1
        <5>4. Neighbours(d[0], d[k - 1]) \o Neighbours(d[k - 1], d[k]) = Neighbours(d[0], d[k])
          BY <5>3, Joined
        <5> QED BY <4>2, <5>2, <5>4
      <4> QED BY <4>1, <4>2
    <3> QED BY <3>1
  <2>2. f = step(f)
    <3> HIDE DEF step, g
    <3> QED BY <2>1, Zenon
  <2>3. \A k \in 1..n : f[k] = IF k = 1 THEN ss[k] ELSE f[k - 1] \o ss[k]
    <3> HIDE DEF f
    <3> QED BY <2>2
  <2>4. \A k \in 1..n : g[k] = IF k = 1 THEN ss[k] ELSE g[k - 1] \o ss[k]
    <3> HIDE DEF g
    <3> QED BY <2>1
  <2>5. f[n] = g[n]
    <3> HIDE DEF f, g
    <3> DEFINE T == {k \in 1..n : f[k] # g[k]}
    <3>1. T \in SUBSET Nat
      OBVIOUS
    <3>2. CASE T # {}
      <4> HIDE DEF T
      <4>1. PICK m \in T : \A y \in T : m <= y
        BY <3>1, <3>2, MinIs
      <4> USE DEF T
      <4>2. m \in 1..n /\ f[m] # g[m]
        BY <4>1
      <4>3. m # 1
        BY <2>3, <2>4, <4>2
      <4>4. m - 1 \in 1..n /\ ~(m <= m - 1)
        BY <4>2, <4>3
      <4>5. f[m - 1] = g[m - 1]
        BY <4>1, <4>4
      <4> QED BY <2>3, <2>4, <4>2, <4>3, <4>5
    <3>3. CASE T = {}
      <4>1. n \in 1..n
        BY <1>5
      <4> QED BY <3>3, <4>1
    <3> QED BY <3>2, <3>3
  <2>6. FlattenSeq(ss) = f[n]
    BY <1>5 DEF FlattenSeq
  <2>7. g[n] = Neighbours(d[0], d[n]) /\ d[0] <= d[n]
    BY <1>3, <1>5
  <2> QED BY <2>5, <2>6, <2>7
<1> QED BY <1>4, <1>5

-----------------------------------------------------------------------------
(* What the slots of the array hold *)

\* The slots in use whose files are not being merged, and the file that is being written.
Filled(x) == (x <= Lead \/ (Start < x /\ x <= nfiles)) /\ ~Window(x)
Result == IF w.to = Stdout THEN output ELSE content[w.to]

\* The array cuts the order of the input into neighbours: slot x holds those after the
\* first c[x - 1] and up to the first c[x].
Cuts(c) ==
  /\ c \in [0..N -> 0..total] /\ c[0] = 0
  /\ \A x \in Users : c[x - 1] <= c[x]
  /\ \A x \in 0..N : x >= nfiles => c[x] = total
  /\ c[Lead] = c[Start]
  /\ \A x \in Users : Filled(x) => content[files[x]] = Neighbours(c[x - 1], c[x])
  /\ Taken => Result = Neighbours(c[w.base], c[w.base + w.nfiles])

\* What files hold that no cut tells.
Holding ==
  /\ content \in [Files -> Seq(Users)]
  /\ \A f \in Users : content[f] = <<Holds(f)>>
  /\ Making => \A k \in 1..Len(temphead) :
                 pc = "runs" \/ k < Len(temphead) => content[temphead[k]] = <<k>>
  /\ tempcopy # 0 => \A f \in Same : content[tempcopy] = <<Holds(f)>>
  /\ pc = "merging" /\ w.ret = "copy" => \A f \in Same : content[w.to] = <<Holds(f)>>

Delivered == pc = "finish" \/ (pc = "exit" /\ died = "") => output = AllInOrder

OrderInv ==
  /\ Holding /\ Delivered
  /\ Between \/ Working => \E c : Cuts(c)

LEMMA OrderKept ==
  ASSUME options' = options
  PROVE  /\ total' = total /\ Same' = Same /\ AllInOrder' = AllInOrder
         /\ \A f : Holds(f)' = Holds(f)
         /\ \A a, b : Neighbours(a, b)' = Neighbours(a, b)
<1>1. total' = total /\ Same' = Same
  BY OptionsKept
<1>2. \A f : Holds(f)' = Holds(f)
  BY <1>1 DEF Holds
<1>3. AllInOrder' = AllInOrder
  BY <1>1 DEF AllInOrder, Holds
<1>4. \A a, b : Neighbours(a, b)' = Neighbours(a, b)
  BY <1>3 DEF Neighbours
<1> QED BY <1>1, <1>2, <1>3, <1>4

LEMMA CutsKept ==
  ASSUME NEW c, Cuts(c), options' = options, nfiles' = nfiles, Lead' = Lead, Start' = Start,
         \A x \in Users : Filled(x)' => Filled(x) /\ content'[files'[x]] = content[files[x]],
         Taken' => Result' = Neighbours(c[w'.base], c[w'.base + w'.nfiles])
  PROVE  Cuts(c)'
<1>1. total' = total /\ AllInOrder' = AllInOrder
  BY OrderKept
<1> QED BY <1>1 DEF Cuts, Neighbours

LEMMA HoldingKept ==
  ASSUME Holding, UNCHANGED <<options, content, tempcopy>>, pc' # "merging", ~Making'
  PROVE  Holding'
<1>1. Same' = Same /\ \A f : Holds(f)' = Holds(f)
  BY OrderKept
<1> QED BY <1>1 DEF Holding

LEMMA DieOrders ==
  ASSUME OrderInv, NEW why, die(why), why # "" \/ pc = "finish"
  PROVE  OrderInv'
<1>1. /\ pc' = "exit" /\ died' = why /\ options' = options /\ content' = content
      /\ tempcopy' = tempcopy /\ output' = output
  BY DEF die, mergeVars
<1>2. ~Making' /\ ~Between' /\ ~Working'
  BY <1>1 DEF Making, Between, Working
<1>3. Holding'
  BY <1>1, <1>2, HoldingKept DEF OrderInv
<1>4. Delivered'
  BY <1>1, OrderKept DEF OrderInv, Delivered
<1> QED BY <1>2, <1>3, <1>4 DEF OrderInv

\* The array stays, and no inputs are merged.
LEMMA SlotsStay ==
  ASSUME OrderInv, Between \/ Working, pc # "merging", Between' \/ Working', pc' # "merging",
         UNCHANGED <<options, files, nfiles, tempcopy, content, output>>,
         Lead' = Lead, Start' = Start
  PROVE  OrderInv'
<1>1. ~Making' /\ pc' \notin {"finish", "exit"}
  BY DEF Making, Between, Working
<1>2. Holding'
  BY <1>1, HoldingKept DEF OrderInv
<1>3. Delivered'
  BY <1>1 DEF Delivered
<1>4. PICK c : Cuts(c)
  BY DEF OrderInv
<1>5. ~Taken' /\ \A x \in Users : Filled(x)' => Filled(x)
  BY DEF Taken, Filled, Window
<1>6. Cuts(c)'
  BY <1>4, <1>5, CutsKept
<1> QED BY <1>2, <1>3, <1>6 DEF OrderInv

\* Nothing happens to files.
LEMMA RestOrders ==
  ASSUME OrderInv, UNCHANGED <<options, pc, cont, mergeVars, w, fps, tempVars, died, output>>
  PROVE  OrderInv'
<1>1. /\ files' = files /\ nfiles' = nfiles /\ in' = in /\ out' = out /\ tempcopy' = tempcopy
      /\ content' = content /\ temphead' = temphead
  BY DEF mergeVars, tempVars
<1>2. /\ Making' <=> Making
      /\ Between' <=> Between
      /\ Working' <=> Working
      /\ Taken' <=> Taken
      /\ Lead' = Lead /\ Start' = Start /\ Result' = Result
      /\ \A x \in Users : Filled(x)' <=> Filled(x)
  BY <1>1 DEF Making, Between, Working, Taken, InPass, Lead, Start, Result, Filled, Window
<1>3. Same' = Same /\ AllInOrder' = AllInOrder /\ \A f : Holds(f)' = Holds(f)
  BY OrderKept
<1>4. Holding' /\ Delivered'
  BY <1>1, <1>2, <1>3 DEF OrderInv, Holding, Delivered
<1>5. ASSUME NEW c, Cuts(c) PROVE Cuts(c)'
  <2>1. Taken' => Result' = Neighbours(c[w'.base], c[w'.base + w'.nfiles])
    BY <1>2, <1>5 DEF Cuts
  <2> QED BY <1>1, <1>2, <1>5, <2>1, CutsKept
<1> QED BY <1>2, <1>4, <1>5 DEF OrderInv

-----------------------------------------------------------------------------
(* sort() writes its bufferfuls *)

LEMMA OneNeighbour ==
  ASSUME Types, NEW k \in 1..total
  PROVE  Neighbours(k - 1, k) = <<Holds(k)>>
<1>1. total \in Nat /\ k - 1 \in 0..total /\ k \in 0..total /\ k - 1 <= k /\ k - (k - 1) = 1
  BY InOrder
<1>2. /\ Neighbours(k - 1, k) \in Seq(Users) /\ Len(Neighbours(k - 1, k)) = k - (k - 1)
      /\ \A j \in 1..(k - (k - 1)) : Neighbours(k - 1, k)[j] = AllInOrder[(k - 1) + j]
  BY <1>1, NeighboursAre
<1>3. Neighbours(k - 1, k)[1] = Holds(k)
  <2>1. 1 \in 1..(k - (k - 1)) /\ (k - 1) + 1 = k
    BY <1>1
  <2> QED BY <1>2, <2>1, InOrder
<1>4. <<Holds(k)>> \in Seq(Users) /\ Len(<<Holds(k)>>) = 1 /\ <<Holds(k)>>[1] = Holds(k)
  <2>1. total \in 1..N /\ N \in Nat /\ Users = 1..N
    BY Options, Sets DEF Types
  <2>2. k \in Users
    BY <1>1, <2>1
  <2>3. Holds(k) \in Users
    BY <2>2, InOrder
  <2> HIDE DEF Holds
  <2> QED BY <2>3
<1> HIDE DEF Holds
<1>5. \A j \in 1..Len(Neighbours(k - 1, k)) : Neighbours(k - 1, k)[j] = <<Holds(k)>>[j]
  BY <1>1, <1>2, <1>3, <1>4
<1> QED BY <1>1, <1>2, <1>4, <1>5, SeqEqual

\* Every file is a neighbour of its own.
LEMMA FirstCuts ==
  ASSUME Types
  PROVE  \E c \in [0..N -> 0..total] :
           /\ c[0] = 0
           /\ \A x \in Users : c[x - 1] <= c[x]
           /\ \A x \in 0..N : x >= total => c[x] = total
           /\ \A k \in 1..total : Neighbours(c[k - 1], c[k]) = <<Holds(k)>>
<1>1. total \in Nat /\ N \in Nat /\ total <= N
  BY Options, Sets DEF Types
<1> DEFINE c == [x \in 0..N |-> IF x <= total THEN x ELSE total]
<1>2. c \in [0..N -> 0..total] /\ c[0] = 0
  BY <1>1
<1>3. \A x \in Users : c[x - 1] <= c[x]
  BY <1>1, Sets
<1>4. \A x \in 0..N : x >= total => c[x] = total
  BY <1>1
<1>5. ASSUME NEW k \in 1..total
      PROVE  Neighbours(c[k - 1], c[k]) = <<Holds(k)>>
  <2>1. c[k - 1] = k - 1 /\ c[k] = k
    BY <1>1
  <2> HIDE DEF c
  <2> QED BY <2>1, OneNeighbour
<1> HIDE DEF c
<1> QED BY <1>2, <1>3, <1>4, <1>5

LEMMA OrderInit ==
  ASSUME Init
  PROVE  OrderInv
<1>1. /\ options \in Scenarios /\ pc = (IF Sorting THEN "runs" ELSE "pass") /\ w = NoMerge
      /\ files = [k \in Users |-> k] /\ nfiles = total /\ tempcopy = 0 /\ temphead = <<>>
      /\ content = [f \in Files |-> IF f \in Users THEN <<Holds(f)>> ELSE <<>>]
  BY DEF Init
<1>2. Types
  BY ArrayInit DEF ArrayInv
<1>3. total \in Nat /\ \A k \in 1..total : k \in Users /\ k \in Files
  BY <1>1, Options, Sets
<1>4. Holding
  <2>1. \A f \in Users : Holds(f) \in Users
    BY <1>2, InOrder
  <2>4. \A f \in Files : content[f] \in Seq(Users)
    <3>1. ASSUME NEW f \in Users PROVE <<Holds(f)>> \in Seq(Users)
      <4> HIDE DEF Holds
      <4> QED BY <2>1
    <3>2. <<>> \in Seq(Users)
      OBVIOUS
    <3> QED BY <1>1, <3>1, <3>2
  <2>2. content \in [Files -> Seq(Users)] /\ \A f \in Users : content[f] = <<Holds(f)>>
    BY <1>1, <2>4, Sets
  <2>3. Len(temphead) = 0
    BY <1>1
  <2> QED BY <1>1, <2>2, <2>3 DEF Holding
<1>5. Delivered
  BY <1>1 DEF Delivered
<1>6. Lead = 0 /\ Start = 0 /\ ~Taken
  BY <1>1 DEF Lead, Start, InPass, Taken, NoMerge
<1>7. \E c : Cuts(c)
  <2>1. \A k \in 1..total : content[files[k]] = <<Holds(k)>>
    BY <1>1, <1>3
  <2>2. PICK c \in [0..N -> 0..total] :
           /\ c[0] = 0
           /\ \A x \in Users : c[x - 1] <= c[x]
           /\ \A x \in 0..N : x >= total => c[x] = total
           /\ \A k \in 1..total : Neighbours(c[k - 1], c[k]) = <<Holds(k)>>
    BY <1>2, FirstCuts
  <2>3. \A x \in Users : Filled(x) => x \in 1..total
    BY <1>1, <1>3, <1>6, Sets DEF Filled
  <2>4. c[Lead] = c[Start]
    BY <1>6
  <2>5. \A x \in Users : Filled(x) => content[files[x]] = Neighbours(c[x - 1], c[x])
    BY <2>1, <2>2, <2>3
  <2>6. nfiles = total
    BY <1>1
  <2> QED BY <1>6, <2>2, <2>4, <2>5, <2>6 DEF Cuts
<1> QED BY <1>4, <1>5, <1>7 DEF OrderInv

LEMMA NewRunOrders ==
  ASSUME ArrayInv, OrderInv, NewRun
  PROVE  OrderInv'
<1>1. CASE die("create")
  BY <1>1, DieOrders
<1>2. CASE /\ maybe_create_temp("run", Free)
           /\ w' = [NoMerge EXCEPT !.to = NewTemp]
           /\ UNCHANGED <<mergeVars, fps, content, child, nprocs, strangers, endVars>>
  <2>1. /\ temphead \in Seq(Temps) /\ Len(temphead') = Len(temphead) + 1
        /\ \A k \in 1..Len(temphead) : temphead'[k] = temphead[k]
        /\ (pc' \in {"pipe", "fork"} /\ cont' = "run") \/ pc' = "run"
    BY <1>2, TempMade DEF ArrayInv, Types
  <2>2. pc = "runs" /\ content' = content /\ tempcopy' = tempcopy /\ options' = options
    BY <1>2 DEF NewRun, mergeVars, endVars
  <2>3. Making /\ Making' /\ ~Between' /\ ~Working'
    BY <2>1, <2>2 DEF Making, Between, Working
  <2>4. \A k \in 1..Len(temphead') : k < Len(temphead') => k \in 1..Len(temphead)
    BY <2>1
  <2>5. Same' = Same /\ \A f : Holds(f)' = Holds(f)
    BY <2>2, OrderKept
  <2>6. Holding'
    BY <2>1, <2>2, <2>3, <2>4, <2>5 DEF OrderInv, Holding
  <2>7. Delivered'
    BY <2>1 DEF Delivered
  <2> QED BY <2>3, <2>6, <2>7 DEF OrderInv
<1> QED BY <1>1, <1>2 DEF NewRun

LEMMA CloseRunOrders ==
  ASSUME ArrayInv, OrderInv, CloseRun
  PROVE  OrderInv'
<1>1. /\ pc = "run" /\ pc' = "runs" /\ content' = [content EXCEPT ![w.to] = <<Len(temphead)>>]
      /\ temphead' = temphead /\ tempcopy' = tempcopy /\ options' = options
  BY DEF CloseRun, mergeVars, endVars
<1>2. Making /\ Making' /\ ~Between' /\ ~Working'
  BY <1>1 DEF Making, Between, Working
<1>3. /\ Len(temphead) \in Nat /\ Len(temphead) > 0 /\ Len(temphead) <= total
      /\ total \in 1..N /\ tempcopy = 0 /\ w.to = temphead[Len(temphead)]
  BY <1>1, <1>2, Options, Sets DEF ArrayInv, Types, Control
<1>4. Len(temphead) \in Users /\ Len(temphead) \in 1..Len(temphead) /\ N \in Nat
  <2>1. N \in Nat /\ Users = 1..N
    BY Sets
  <2> QED BY <1>3, <2>1
<1>5. w.to \in Temps /\ w.to \in Files
  <2>1. \A k \in 1..Len(temphead) : temphead[k] \in Temps
    BY DEF ArrayInv, Types
  <2>2. w.to \in Temps
    BY <1>3, <1>4, <2>1
  <2> QED BY <2>2, Sets
<1>6. content' \in [Files -> Seq(Users)]
  <2>1. <<Len(temphead)>> \in Seq(Users)
    BY <1>4
  <2> QED BY <1>1, <2>1 DEF OrderInv, Holding
<1>7. ASSUME NEW k \in 1..Len(temphead) PROVE content'[temphead[k]] = <<k>>
  <2>1. temphead[k] \in Files
    BY Sets DEF ArrayInv, Types
  <2>2. CASE k = Len(temphead)
    BY <1>1, <1>3, <2>1, <2>2 DEF OrderInv, Holding
  <2>3. CASE k # Len(temphead)
    <3>1. k < Len(temphead) /\ temphead[k] # w.to
      BY <1>3, <1>4, <2>3 DEF ArrayInv, Listed
    <3> QED BY <1>1, <1>2, <2>1, <3>1 DEF OrderInv, Holding
  <2> QED BY <2>2, <2>3
<1>8. \A f \in Users : content'[f] = content[f]
  BY <1>1, <1>5, Sets DEF OrderInv, Holding
<1>9. Holding'
  <2>1. \A f \in Users : content'[f] = <<Holds(f)'>>
    <3>1. \A f \in Users : content[f] = <<Holds(f)>>
      BY DEF OrderInv, Holding
    <3>2. \A f : Holds(f)' = Holds(f)
      BY <1>1, OrderKept
    <3> QED BY <1>8, <3>1, <3>2
  <2>2. \A k \in 1..Len(temphead') : content'[temphead'[k]] = <<k>>
    BY <1>1, <1>7
  <2>3. ~(tempcopy' # 0) /\ ~(pc' = "merging")
    BY <1>1, <1>3
  <2> QED BY <1>6, <2>1, <2>2, <2>3, Zenon DEF Holding
<1>10. Delivered'
  BY <1>1 DEF Delivered
<1> QED BY <1>2, <1>9, <1>10 DEF OrderInv

LEMMA RunsDoneOrders ==
  ASSUME ArrayInv, OrderInv, RunsDone
  PROVE  OrderInv'
<1>1. /\ files' = [k \in Users |-> IF k <= total THEN temphead[k] ELSE k]
      /\ nfiles' = nfiles /\ tempcopy' = tempcopy /\ options' = options /\ content' = content
      /\ w' = w /\ pc' = "pass" /\ pc = "runs" /\ Len(temphead) = total
  BY DEF RunsDone, tempVars, endVars
<1>2. Making /\ ~Making' /\ Between'
  BY <1>1 DEF Making, Between
<1>3. Types' /\ Same = {} /\ nfiles = total /\ w = NoMerge /\ total \in Nat /\ total \in 1..N
  <2>1. ArrayInv'
    BY RunsDoneKeeps
  <2> QED BY <1>1, <1>2, <2>1, Options, Sets DEF ArrayInv, Types, Control
<1>4. Holding'
  BY <1>1, <1>2, HoldingKept DEF OrderInv
<1>5. Delivered'
  BY <1>1 DEF Delivered
<1>6. Types /\ Lead' = 0 /\ Start' = 0 /\ ~Taken'
  BY <1>1, <1>3 DEF Lead, Start, InPass, Taken, NoMerge, ArrayInv
<1>7. \E c : Cuts(c)'
  <2>1. PICK c \in [0..N -> 0..total] :
           /\ c[0] = 0
           /\ \A x \in Users : c[x - 1] <= c[x]
           /\ \A x \in 0..N : x >= total => c[x] = total
           /\ \A k \in 1..total : Neighbours(c[k - 1], c[k]) = <<Holds(k)>>
    BY <1>6, FirstCuts
  <2>2. \A k \in 1..total : k \in Users /\ k <= total /\ Holds(k) = k
    BY <1>3, Sets DEF Holds
  <2>3. \A k \in 1..total : content[temphead[k]] = <<k>>
    BY <1>1, <1>2 DEF OrderInv, Holding
  <2>4. \A k \in 1..total : content'[files'[k]] = Neighbours(c[k - 1], c[k])
    BY <1>1, <2>1, <2>2, <2>3
  <2>5. \A x \in Users : Filled(x)' => x \in 1..total
    BY <1>1, <1>3, <1>6, Sets DEF Filled
  <2>6. total' = total /\ AllInOrder' = AllInOrder
    BY <1>1, OrderKept
  <2> QED BY <1>1, <1>3, <1>6, <2>1, <2>4, <2>5, <2>6 DEF Cuts, Neighbours
<1> QED BY <1>4, <1>5, <1>7 DEF OrderInv

-----------------------------------------------------------------------------
(* Steps that leave the files of the slots alone *)

\* A bufferful is being written.
LEMMA MakingOrders ==
  ASSUME OrderInv, Making, Making', pc # "runs", pc' # "runs",
         UNCHANGED <<options, tempcopy, content, temphead>>
  PROVE  OrderInv'
<1>1. ~Between' /\ ~Working' /\ pc' \notin {"finish", "exit", "merging"}
  BY DEF Making, Between, Working
<1>2. Same' = Same /\ \A f : Holds(f)' = Holds(f)
  BY OrderKept
<1>3. Holding' /\ Delivered'
  BY <1>1, <1>2 DEF OrderInv, Holding, Delivered
<1> QED BY <1>1, <1>3 DEF OrderInv

\* A merge is going on and goes on, before and after any inputs are merged.
LEMMA WorkOrders ==
  ASSUME OrderInv, Working, Working', pc # "merging", pc' # "merging",
         UNCHANGED <<options, mergeVars, content, output>>,
         w'.ret \in {"full", "short"} <=> w.ret \in {"full", "short"}
  PROVE  OrderInv'
<1>1. /\ files' = files /\ nfiles' = nfiles /\ in' = in /\ out' = out /\ tempcopy' = tempcopy
  BY DEF mergeVars
<1>2. pc \notin {"full", "shift"} /\ pc' \notin {"full", "shift"}
  BY DEF Working
<1>3. Lead' = Lead /\ Start' = Start
  BY <1>1, <1>2 DEF Lead, Start, InPass
<1> QED BY <1>1, <1>3, SlotsStay

LEMMA WaitOrders ==
  ASSUME ArrayInv, OrderInv,
         UNCHANGED <<options, mergeVars, w, fps, tempVars, output>>,
         \/ /\ pc \in {"pipe", "fork"}
            /\ pc' = cont \/ (pc' \in {"pipe", "fork"} /\ cont' = cont)
         \/ pc \in {"pipein", "forkin"} /\ pc' \in {"pipein", "forkin"}
  PROVE  OrderInv'
<1>1. pc \in {"pipe", "fork"} => cont \in {"run", "open"}
  BY DEF ArrayInv, Control, Making, Between, Working, Ending
<1>2. CASE pc \in {"pipe", "fork"} /\ cont = "run"
  <2>1. Making /\ Making' /\ pc # "runs" /\ pc' # "runs"
    BY <1>2 DEF Making
  <2> QED BY <2>1, MakingOrders DEF mergeVars, tempVars
<1>3. CASE \/ pc \in {"pipe", "fork"} /\ cont = "open"
           \/ pc \in {"pipein", "forkin"}
  <2>1. Working /\ Working' /\ pc # "merging" /\ pc' # "merging"
    BY <1>3 DEF Working
  <2> QED BY <2>1, WorkOrders DEF tempVars
<1> QED BY <1>1, <1>2, <1>3

LEMMA ReapExitedOrders ==
  ASSUME ArrayInv, OrderInv, NEW next, ReapExited(next),
         \/ pc \in {"pipe", "fork"} /\ next \in {"pipe", "fork"}
         \/ pc \in {"pipein", "forkin"} /\ next \in {"pipein", "forkin"}
  PROVE  OrderInv'
<1>1. CASE die("abnormal")
  BY <1>1, DieOrders
<1>2. CASE /\ pc' = next
           /\ UNCHANGED <<cont, mergeVars, w, fps, tempVars, strangers, endVars>>
  BY <1>2, WaitOrders DEF endVars
<1> QED BY <1>1, <1>2 DEF ReapExited

LEMMA ProcessOrders ==
  ASSUME ArrayInv, OrderInv, ReapSome \/ Retry \/ Fork \/ ForkFailed \/ ForkDecompressor
  PROVE  OrderInv'
<1>1. ASSUME ReapSome PROVE OrderInv'
  <2>1. CASE ReapExited(IF pc = "pipe" THEN "fork" ELSE "forkin")
    <3>1. CASE pc = "pipe"
      <4>1. ReapExited("fork")
        BY <2>1, <3>1
      <4> QED BY <3>1, <4>1, ReapExitedOrders
    <3>2. CASE pc = "pipein"
      <4>1. ReapExited("forkin")
        BY <2>1, <3>2
      <4> QED BY <3>2, <4>1, ReapExitedOrders
    <3> QED BY <1>1, <3>1, <3>2 DEF ReapSome
  <2>2. CASE /\ pc' = IF pc = "pipe" THEN "fork" ELSE "forkin"
             /\ UNCHANGED <<cont, mergeVars, w, fps, tempVars, state, child, nprocs, endVars>>
    <3>1. pc \in {"pipe", "pipein"}
      BY <1>1 DEF ReapSome
    <3> QED BY <2>2, <3>1, WaitOrders DEF endVars
  <2> QED BY <1>1, <2>1, <2>2 DEF ReapSome
<1>2. ASSUME Retry PROVE OrderInv'
  <2>1. pc \in {"fork", "forkin"} /\ ReapExited(pc)
    BY <1>2 DEF Retry
  <2> QED BY <2>1, ReapExitedOrders
<1>3. ASSUME Fork PROVE OrderInv'
  BY <1>3, WaitOrders DEF Fork, endVars
<1>4. ASSUME ForkFailed PROVE OrderInv'
  <2>1. CASE die("fork")
    BY <2>1, DieOrders
  <2>2. CASE /\ pc = "fork" /\ pc' = cont /\ cont' = "none"
             /\ UNCHANGED <<mergeVars, w, fps, tempVars, procVars, endVars>>
    BY <2>2, WaitOrders DEF endVars
  <2> QED BY <1>4, <2>1, <2>2 DEF ForkFailed
<1>5. ASSUME ForkDecompressor PROVE OrderInv'
  <2>1. pc = "forkin" /\ pc' = "open" /\ UNCHANGED <<options, mergeVars, w, content, output>>
    BY <1>5 DEF ForkDecompressor, tempVars, endVars
  <2>2. Working /\ Working'
    BY <2>1 DEF Working
  <2> QED BY <2>1, <2>2, WorkOrders
<1> QED BY <1>1, <1>2, <1>3, <1>4, <1>5

LEMMA PassOrders ==
  ASSUME ArrayInv, OrderInv, Pass
  PROVE  OrderInv'
<1>1. /\ pc = "pass" /\ pc' \in {"full", "avoid"}
      /\ UNCHANGED <<options, files, nfiles, tempcopy, content, output, w>>
      /\ pc' = "full" => in' = 0 /\ out' = 0
  BY DEF Pass, tempVars, endVars
<1>2. Between /\ Between' /\ w = NoMerge
  BY <1>1 DEF Between, ArrayInv, Control
<1>3. Lead = 0 /\ Start = 0 /\ Lead' = 0 /\ Start' = 0
  BY <1>1, <1>2 DEF Lead, Start, InPass, NoMerge
<1> QED BY <1>1, <1>2, <1>3, SlotsStay

LEMMA StartOrders ==
  ASSUME ArrayInv, OrderInv, Between, NEW base, NEW nt, NEW n,
         NEW ret \in {"full", "short", "copy"}, StartMerge(base, nt, n, ret),
         InPass <=> ret # "copy"
  PROVE  OrderInv'
<1>1. CASE die("create")
  BY <1>1, DieOrders
<1>2. CASE /\ maybe_create_temp("open", Free)
           /\ w' = [base |-> base, ntemps |-> nt, nfiles |-> n, to |-> NewTemp, ret |-> ret]
           /\ UNCHANGED <<mergeVars, fps, content, child, nprocs, strangers, endVars>>
  <2>1. (pc' \in {"pipe", "fork"} /\ cont' = "open") \/ pc' = "open"
    BY <1>2, TempMade DEF ArrayInv
  <2>2. Working' /\ pc' # "merging" /\ pc # "merging" /\ pc' \notin {"full", "shift"} /\ w'.ret = ret
    BY <1>2, <2>1 DEF Working, Between
  <2>3. /\ files' = files /\ nfiles' = nfiles /\ in' = in /\ out' = out /\ tempcopy' = tempcopy
        /\ content' = content /\ output' = output /\ options' = options
    BY <1>2 DEF mergeVars, endVars
  <2>4. Lead' = Lead /\ Start' = Start
    BY <2>2, <2>3 DEF Lead, Start, InPass
  <2> QED BY <2>2, <2>3, <2>4, SlotsStay
<1> QED BY <1>1, <1>2 DEF StartMerge

LEMMA FullOrders ==
  ASSUME ArrayInv, OrderInv, FullMerge \/ ShortMerge
  PROVE  OrderInv'
<1>1. pc = "full" /\ Between /\ InPass
  BY DEF FullMerge, ShortMerge, Between, InPass
<1> QED BY <1>1, StartOrders DEF FullMerge, ShortMerge

LEMMA LastMergeOrders ==
  ASSUME ArrayInv, OrderInv, LastMerge
  PROVE  OrderInv'
<1>1. /\ pc \in {"avoid", "last"} /\ pc' = "open" /\ w'.ret = "last"
      /\ UNCHANGED <<options, files, nfiles, tempcopy, content, output>>
  BY DEF LastMerge, mergeVars, tempVars, endVars
<1>2. Between /\ Working' /\ w = NoMerge
  BY <1>1 DEF Between, Working, ArrayInv, Control
<1>3. Lead = 0 /\ Start = 0 /\ Lead' = 0 /\ Start' = 0
  BY <1>1, <1>2 DEF Lead, Start, InPass, NoMerge
<1> QED BY <1>1, <1>2, <1>3, SlotsStay

LEMMA AvoidTrashingOrders ==
  ASSUME ArrayInv, OrderInv, AvoidTrashing
  PROVE  OrderInv'
<1>1. pc = "avoid" /\ Between /\ w = NoMerge
  BY DEF AvoidTrashing, Between, ArrayInv, Control
<1>2. ~InPass /\ Lead = 0 /\ Start = 0
  BY <1>1 DEF Lead, Start, InPass, NoMerge
<1>3. CASE StartMerge(i, 0, 1, "copy")
  BY <1>1, <1>2, <1>3, StartOrders
<1>4. CASE /\ ~(IsSame(files[i + 1]) /\ tempcopy = 0)
           /\ files' = IF IsSame(files[i + 1]) THEN [files EXCEPT ![i + 1] = tempcopy] ELSE files
           /\ UNCHANGED <<pc, cont, ntemps, nfiles, in, out, tempcopy, w, fps, tempVars, procVars, endVars>>
  <2>1. /\ pc' = pc /\ w' = w /\ nfiles' = nfiles /\ tempcopy' = tempcopy
        /\ content' = content /\ output' = output /\ options' = options
    BY <1>4 DEF tempVars, endVars
  <2>2. Lead' = 0 /\ Start' = 0 /\ ~Taken' /\ Between' /\ ~Making' /\ pc' = "avoid"
    BY <1>1, <2>1 DEF Lead, Start, InPass, NoMerge, Taken, Between, Making
  <2>3. ASSUME NEW x \in Users PROVE content[files'[x]] = content[files[x]]
    <3>1. files \in [Users -> Files] /\ Same \subseteq Users
      BY Options DEF ArrayInv, Types
    <3>2. CASE files[i + 1] \in Same /\ x = i + 1
      <4>1. tempcopy # 0 /\ files'[x] = tempcopy
        BY <1>4, <3>1, <3>2 DEF IsSame
      <4>2. content[tempcopy] = <<Holds(files[x])>> /\ content[files[x]] = <<Holds(files[x])>>
        BY <3>1, <3>2, <4>1 DEF OrderInv, Holding
      <4> QED BY <4>1, <4>2
    <3>3. CASE ~(files[i + 1] \in Same /\ x = i + 1)
      <4>1. files'[x] = files[x]
        BY <1>4, <3>1, <3>3 DEF IsSame
      <4> QED BY <4>1
    <3> QED BY <3>2, <3>3
  <2>4. Holding'
    BY <2>1, <2>2, HoldingKept DEF OrderInv
  <2>5. Delivered'
    BY <2>2 DEF Delivered
  <2>6. PICK c : Cuts(c)
    BY <1>1 DEF OrderInv
  <2>7. \A x \in Users : Filled(x)' => Filled(x)
    BY <1>1, <1>2, <2>1, <2>2 DEF Filled, Window, Taken
  <2>8. Cuts(c)'
    BY <1>2, <2>1, <2>2, <2>3, <2>6, <2>7, CutsKept
  <2> QED BY <2>4, <2>5, <2>8 DEF OrderInv
<1> QED BY <1>3, <1>4 DEF AvoidTrashing

LEMMA ShedOrders ==
  ASSUME ArrayInv, OrderInv, Shed
  PROVE  OrderInv'
<1>1. pc = "shed" /\ Working /\ w.ret = "last"
  BY DEF Shed, Working, ArrayInv, Control
<1>2. CASE die("create")
  BY <1>2, DieOrders
<1>3. CASE UNCHANGED <<pc, cont, mergeVars, w, tempVars, procVars, endVars>>
  <2>1. Working' /\ pc' = "shed"
    BY <1>1, <1>3 DEF Working
  <2> QED BY <1>1, <1>3, <2>1, WorkOrders DEF tempVars, endVars
<1>4. ASSUME NEW free, NEW left, maybe_create_temp("open", free),
             w' = [w EXCEPT !.ntemps = Min({ntemps, Len(left)}), !.nfiles = Len(left),
                            !.to = NewTemp, !.ret = "shed"],
             UNCHANGED <<mergeVars, content, child, nprocs, strangers, endVars>>
      PROVE  OrderInv'
  <2>1. (pc' \in {"pipe", "fork"} /\ cont' = "open") \/ pc' = "open"
    BY <1>4, TempMade DEF ArrayInv
  <2>2. Working' /\ pc' # "merging"
    BY <2>1 DEF Working
  <2>3. w'.ret = "shed"
    BY <1>4 DEF ArrayInv, Types
  <2> QED BY <1>1, <1>4, <2>2, <2>3, WorkOrders DEF endVars
<1> QED BY <1>2, <1>3, <1>4 DEF Shed

-----------------------------------------------------------------------------
(* Steps of mergefiles *)

\* The file that is being written is none of those in the slots in use.
LEMMA SlotsApart ==
  ASSUME ArrayInv, Between \/ Working, NEW x \in Users, Filled(x)
  PROVE  files[x] \in Files /\ files[x] # w.to
<1>1. /\ files \in [Users -> Files] /\ x \in Nat /\ ntemps \in Nat /\ nfiles \in Nat
      /\ in \in Nat /\ out \in Nat /\ w.to \in Temps \cup {Stdout}
  BY Sets DEF ArrayInv, Types
<1>2. Start \in Nat /\ Lead \in Nat
  BY <1>1 DEF Start, Lead
<1>3. Live(x) \/ Rest(x)
  BY <1>1, <1>2 DEF Filled, Live, Rest
<1>4. Layout
  BY DEF ArrayInv
<1>5. files[x] # w.to
  BY <1>1, <1>3, <1>4, Sets DEF Layout, Stdout
<1> QED BY <1>1, <1>5

\* What the inputs hold, one after the other.
LEMMA ContentsAre ==
  ASSUME ArrayInv, OrderInv, Working, pc # "merging", NEW c, Cuts(c)
  PROVE  /\ w.base \in Nat /\ Len(fps) \in Nat /\ w.base + Len(fps) <= N
         /\ \A k \in 0..Len(fps) : w.base + k \in 0..N
         /\ Contents = Neighbours(c[w.base], c[w.base + Len(fps)])
         /\ Contents \in Seq(Users)
         /\ \A k \in 1..Len(fps) : content[fps[k]] = Neighbours(c[w.base + k - 1], c[w.base + k])
<1> DEFINE a == w.base
           n == Len(fps)
           d == [k \in 0..n |-> c[a + k]]
           ss == [k \in 1..n |-> content[fps[k]]]
<1>1. /\ w \in [base : Nat, ntemps : Nat, nfiles : Nat, to : Temps \cup {Stdout}, ret : Rets]
      /\ fps \in Seq(Files) /\ n \in Nat /\ nfiles \in Nat /\ in \in Nat /\ out \in Nat
      /\ Types /\ Arguments /\ Numbers /\ N \in Nat /\ ~Taken
  BY Sets DEF ArrayInv, Types, Taken
<1>2. a \in Nat /\ w.nfiles \in Nat /\ n <= w.nfiles /\ a + w.nfiles <= nfiles /\ nfiles <= N
  BY <1>1 DEF Arguments, Numbers
<1>3. Start <= a /\ Start \in Nat
  <2>1. InPass => w.ret \in {"full", "short"}
    BY DEF InPass, Working
  <2> QED BY <1>1, <1>2, <2>1 DEF Start, Arguments
<1>4. \A k \in 0..n : a + k \in 0..N
  BY <1>1, <1>2
<1>5. /\ c \in [0..N -> 0..total] /\ \A x \in Users : c[x - 1] <= c[x]
      /\ \A x \in Users : Filled(x) => content[files[x]] = Neighbours(c[x - 1], c[x])
  BY DEF Cuts
<1>6. ASSUME NEW k \in 1..n
      PROVE  /\ a + k \in Users /\ a + k - 1 = a + (k - 1) /\ k \in 0..n /\ k - 1 \in 0..n
             /\ fps[k] \in Files /\ content[fps[k]] \in Seq(Users)
             /\ content[fps[k]] = Neighbours(c[a + k - 1], c[a + k])
             /\ c[a + k - 1] <= c[a + k]
  <2>1. a + k \in Users /\ a + k - 1 = a + (k - 1) /\ k \in 0..n /\ k - 1 \in 0..n
    BY <1>1, <1>2, Sets
  <2>2. fps[k] = files[a + k] /\ fps[k] \in Files
    BY <1>1 DEF Arguments
  <2>3. Start < a + k /\ a + k <= nfiles
    BY <1>1, <1>2, <1>3
  <2>4. Filled(a + k)
    BY <1>1, <2>3 DEF Filled, Window
  <2>5. content[fps[k]] \in Seq(Users)
    BY <2>2 DEF OrderInv, Holding
  <2>6. content[files[a + k]] = Neighbours(c[a + k - 1], c[a + k]) /\ c[a + k - 1] <= c[a + k]
    <3>1. PICK x \in Users : x = a + k
      BY <2>1
    <3>2. Filled(x)
      BY <2>4, <3>1
    <3>3. content[files[x]] = Neighbours(c[x - 1], c[x]) /\ c[x - 1] <= c[x]
      BY <1>5, <3>2
    <3>4. x - 1 = a + k - 1
      BY <1>1, <1>2, <3>1, Sets
    <3> HIDE DEF a
    <3> QED BY <3>1, <3>3, <3>4
  <2> QED BY <2>1, <2>2, <2>5, <2>6
<1>7. d \in [0..n -> 0..total]
  BY <1>4, <1>5
<1>8. ss \in Seq(Seq(Users)) /\ Len(ss) = n
  BY <1>1, <1>6
<1>9. \A k \in 1..n : d[k - 1] <= d[k] /\ ss[k] = Neighbours(d[k - 1], d[k])
  <2>1. ASSUME NEW k \in 1..n PROVE d[k - 1] <= d[k] /\ ss[k] = Neighbours(d[k - 1], d[k])
    <3>1. d[k - 1] = c[a + k - 1] /\ d[k] = c[a + k] /\ ss[k] = content[fps[k]]
      BY <1>6
    <3> HIDE DEF d, ss
    <3> QED BY <1>6, <3>1
  <2> QED BY <2>1
<1>10. d[0] = c[a] /\ d[n] = c[a + n]
  BY <1>1, <1>2
<1>11. Contents = FlattenSeq(ss)
  BY DEF Contents
<1>12. /\ d[0] <= d[n] /\ FlattenSeq(ss) = Neighbours(d[0], d[n])
       /\ d[0] \in 0..total /\ d[n] \in 0..total
  <2> HIDE DEF d, ss
  <2>1. d[0] <= d[n] /\ FlattenSeq(ss) = Neighbours(d[0], d[n])
    BY <1>1, <1>7, <1>8, <1>9, Flattened
  <2>2. 0 \in 0..n /\ n \in 0..n
    BY <1>1
  <2> QED BY <1>7, <2>1, <2>2
<1>13. Neighbours(d[0], d[n]) \in Seq(Users)
  <2> HIDE DEF d
  <2> QED BY <1>1, <1>12, NeighboursAre
<1>14. Contents = Neighbours(c[a], c[a + n]) /\ Contents \in Seq(Users)
  <2> HIDE DEF d, ss
  <2> QED BY <1>10, <1>11, <1>12, <1>13
<1>15. a + n <= N
  BY <1>1, <1>2
<1> QED BY <1>1, <1>2, <1>4, <1>6, <1>14, <1>15

LEMMA BeginOrders ==
  ASSUME ArrayInv, OrderInv, pc = "open", mergefps, w.ret # "last" => Len(fps) >= 1
  PROVE  OrderInv'
<1>1. /\ files' = files /\ nfiles' = nfiles /\ in' = in /\ out' = out /\ tempcopy' = tempcopy
      /\ options' = options /\ fps' = fps /\ w' = [w EXCEPT !.nfiles = Len(fps)]
      /\ pc' = "merging"
      /\ content' = IF w.to = Stdout THEN content ELSE [content EXCEPT ![w.to] = Contents]
      /\ output' = IF w.to = Stdout THEN Contents ELSE output
  BY DEF mergefps, mergeVars
<1>2. /\ w \in [base : Nat, ntemps : Nat, nfiles : Nat, to : Temps \cup {Stdout}, ret : Rets]
      /\ Len(fps) \in Nat /\ content \in [Files -> Seq(Users)]
  BY DEF ArrayInv, Types, OrderInv, Holding
<1>3. w'.base = w.base /\ w'.nfiles = Len(fps) /\ w'.to = w.to /\ w'.ret = w.ret
  BY <1>1, <1>2
<1>4. Working /\ Working' /\ ~Making' /\ ~Taken /\ Layout /\ Arguments
  BY <1>1 DEF Working, Making, Taken, ArrayInv
<1>5. PICK c : Cuts(c)
  BY <1>4 DEF OrderInv
<1>6. /\ Contents = Neighbours(c[w.base], c[w.base + Len(fps)]) /\ Contents \in Seq(Users)
      /\ \A k \in 1..Len(fps) : content[fps[k]] = Neighbours(c[w.base + k - 1], c[w.base + k])
  BY <1>1, <1>4, <1>5, ContentsAre
<1>7. /\ content' \in [Files -> Seq(Users)]
      /\ \A f \in Files : f # w.to => content'[f] = content[f]
      /\ Result' = Contents
  <2>1. CASE w.to = Stdout
    BY <1>1, <1>2, <1>3, <2>1 DEF Result
  <2>2. CASE w.to # Stdout
    <3>1. w.to \in Files
      BY <1>2, <2>2, Sets
    <3>2. content'[w.to] = Contents /\ content' \in [Files -> Seq(Users)]
      BY <1>1, <1>2, <1>6, <2>2, <3>1
    <3>3. \A f \in Files : f # w.to => content'[f] = content[f]
      BY <1>1, <1>2, <2>2
    <3> QED BY <1>3, <2>2, <3>2, <3>3 DEF Result
  <2> QED BY <2>1, <2>2
<1>8. Lead' = Lead /\ Start' = Start
  BY <1>1, <1>3 DEF Lead, Start, InPass
<1>9. \A x \in Users : Filled(x)' => Filled(x) /\ content'[files'[x]] = content[files[x]]
  <2>1. ASSUME NEW x \in Users, Filled(x)' PROVE Filled(x) /\ content'[files'[x]] = content[files[x]]
    <3>1. Filled(x)
      BY <1>1, <1>4, <1>8, <2>1 DEF Filled, Window
    <3>2. files[x] \in Files /\ files[x] # w.to
      BY <1>4, <3>1, SlotsApart
    <3> QED BY <1>1, <1>7, <3>1, <3>2
  <2> QED BY <2>1
<1>10. Cuts(c)'
  <2>1. Result' = Neighbours(c[w'.base], c[w'.base + w'.nfiles])
    BY <1>3, <1>6, <1>7
  <2> QED BY <1>1, <1>5, <1>8, <1>9, <2>1, CutsKept
<1>11. Same' = Same /\ \A f : Holds(f)' = Holds(f)
  BY <1>1, OrderKept
<1>12. ASSUME w.ret = "copy", NEW f \in Same PROVE content'[w.to] = <<Holds(f)>>
  <2>1. /\ Len(fps) = 1 /\ fps[1] = files[w.base + 1] /\ files[w.base + 1] \in Same /\ w.to # Stdout
        /\ w.base \in Nat
    <3>1. w.base = i /\ w.nfiles = 1 /\ files[i + 1] \in Same
      BY <1>4, <1>12 DEF Arguments
    <3>5. w.to # Stdout
      BY <1>4, <1>12 DEF ArrayInv, Control
    <3>2. Len(fps) = 1
      <4>1. Len(fps) >= 1
        BY <1>12
      <4>2. Len(fps) <= w.nfiles
        BY <1>4 DEF Arguments
      <4>3. Len(fps) <= 1
        BY <3>1, <4>2
      <4>4. Len(fps) \in Nat
        BY <1>2
      <4> QED BY <4>1, <4>3, <4>4
    <3>3. \A k \in 1..Len(fps) : fps[k] = files[w.base + k]
      BY <1>4 DEF Arguments
    <3>4. 1 \in 1..Len(fps)
      BY <3>2
    <3>6. fps[1] = files[w.base + 1] /\ files[w.base + 1] \in Same
      BY <3>1, <3>3, <3>4
    <3> QED BY <1>2, <3>2, <3>5, <3>6
  <2>2. fps[1] \in Users /\ content[fps[1]] = <<Holds(fps[1])>>
    BY <2>1, Options DEF OrderInv, Holding, ArrayInv, Types
  <2>3. content[fps[1]] = Neighbours(c[w.base], c[w.base + 1]) /\ Contents = Neighbours(c[w.base], c[w.base + 1])
    <3>1. 1 \in 1..Len(fps) /\ w.base + 1 - 1 = w.base
      BY <2>1
    <3> QED BY <1>6, <2>1, <3>1
  <2>4. Holds(fps[1]) = Holds(f)
    BY <2>1, InOrder DEF ArrayInv
  <2>5. content'[w.to] = Contents
    BY <1>3, <1>7, <2>1 DEF Result
  <2> QED BY <2>2, <2>3, <2>4, <2>5
<1>13. Holding'
  <2>1. \A f \in Users : content'[f] = content[f]
    BY <1>2, <1>7, Sets DEF Stdout
  <2>2. tempcopy # 0 => content'[tempcopy] = content[tempcopy]
    BY <1>4, <1>7, Sets DEF Layout, ArrayInv, Types
  <2> QED BY <1>1, <1>3, <1>4, <1>7, <1>11, <1>12, <2>1, <2>2 DEF OrderInv, Holding
<1>14. Delivered'
  BY <1>1 DEF Delivered
<1> QED BY <1>10, <1>13, <1>14 DEF OrderInv

LEMMA OpenFailsOrders ==
  ASSUME ArrayInv, OrderInv, pc = "open", OpenFails
  PROVE  OrderInv'
<1>1. CASE TooFew
  <2>1. die("open")
    BY <1>1 DEF OpenFails
  <2> QED BY <2>1, DieOrders
<1>2. CASE ~TooFew /\ w.ret = "last"
  <2>1. pc' = "shed" /\ UNCHANGED <<cont, mergeVars, w, fps, tempVars, procVars, endVars>>
    BY <1>2 DEF OpenFails
  <2>2. Working /\ Working'
    BY <2>1 DEF Working
  <2> QED BY <2>1, <2>2, WorkOrders DEF tempVars, endVars
<1>3. CASE ~TooFew /\ w.ret # "last"
  <2>1. mergefps
    BY <1>3 DEF OpenFails
  <2>2. Len(fps) >= 1
    <3>1. Len(fps) \in Nat
      BY DEF ArrayInv, Types
    <3> QED BY <1>3, <3>1 DEF TooFew
  <2> QED BY <2>1, <2>2, BeginOrders
<1> QED BY <1>1, <1>2, <1>3

LEMMA OpenOrders ==
  ASSUME ArrayInv, OrderInv, Open \/ OpenTemp \/ Opened
  PROVE  OrderInv'
<1>1. pc = "open" /\ Working
  BY DEF Open, OpenTemp, Opened, Working
<1>2. CASE OpenFails
  BY <1>1, <1>2, OpenFailsOrders
<1>3. CASE UNCHANGED <<pc, cont, mergeVars, w, tempVars, options, output>>
  <2>1. Working' /\ pc' # "merging"
    BY <1>1, <1>3 DEF Working
  <2> QED BY <1>1, <1>3, <2>1, WorkOrders DEF tempVars
<1>4. CASE die("abnormal")
  BY <1>4, DieOrders
<1>5. CASE /\ Pipe("pipein", "forkin")
           /\ UNCHANGED <<cont, mergeVars, w, fps, tempVars, procVars, endVars>>
  <2>1. pc' = "pipein" \/ pc' = "forkin"
    BY <1>5, Zenon DEF Pipe
  <2>2. Working' /\ pc' # "merging"
    BY <2>1 DEF Working
  <2> QED BY <1>1, <1>5, <2>2, WorkOrders DEF tempVars, endVars
<1>6. ASSUME Opened PROVE OrderInv'
  <2>1. Len(fps) = w.nfiles /\ mergefps /\ (w.ret # "last" => w.nfiles >= 1)
    BY <1>1, <1>6 DEF Opened, ArrayInv, Arguments
  <2> QED BY <1>1, <2>1, BeginOrders
<1>7. Open => OpenFails \/ UNCHANGED <<pc, cont, mergeVars, w, tempVars, options, output>>
  BY DEF Open, endVars
<1>8. OpenTemp => \/ OpenFails \/ die("abnormal")
                  \/ UNCHANGED <<pc, cont, mergeVars, w, tempVars, options, output>>
                  \/ /\ Pipe("pipein", "forkin")
                     /\ UNCHANGED <<cont, mergeVars, w, fps, tempVars, procVars, endVars>>
  BY DEF OpenTemp, endVars
<1> QED BY <1>2, <1>3, <1>4, <1>5, <1>6, <1>7, <1>8

-----------------------------------------------------------------------------
(* Steps of mergefps *)

\* A temporary file that is removed is in no other slot, and is not being written.
LEMMA ZapApart ==
  ASSUME ArrayInv, pc = "merging", NEW k \in 1..Len(fps), IsTemp(k)
  PROVE  /\ fps[k] \in disk /\ fps[k] \in Temps /\ fps[k] # w.to /\ fps[k] # tempcopy
         /\ w.ret # "copy"
         /\ \A x \in Users : Filled(x) => files[x] # fps[k]
<1>1. /\ w \in [base : Nat, ntemps : Nat, nfiles : Nat, to : Temps \cup {Stdout}, ret : Rets]
      /\ fps \in Seq(Files) /\ Len(fps) \in Nat /\ nfiles \in Nat /\ in \in Nat /\ out \in Nat
      /\ ntemps \in Nat /\ N \in Nat /\ Working
  BY Sets DEF ArrayInv, Types, Working
<1>2. Arguments /\ Numbers /\ Layout
  BY <1>1 DEF ArrayInv
<1>3. w.base \in Nat /\ w.nfiles \in Nat /\ w.ntemps \in Nat /\ k <= w.ntemps
  BY <1>1 DEF IsTemp
<1>4. w.ret # "copy"
  <2>1. w.ntemps # 0
    BY <1>3
  <2> QED BY <1>2, <2>1 DEF Arguments
<1>5. PICK y : y = w.base + k
  OBVIOUS
<1>6. y \in Users /\ w.base < y /\ y <= w.base + Len(fps) /\ y <= w.base + w.nfiles /\ y <= w.base + w.ntemps
  <2>1. Len(fps) <= w.nfiles /\ w.base + w.nfiles <= nfiles /\ nfiles <= N
    BY <1>2 DEF Arguments, Numbers
  <2>2. Len(fps) \in Nat /\ nfiles \in Nat /\ N \in Nat /\ Users = 1..N
    BY <1>1, Sets
  <2>3. /\ w.base \in Nat /\ w.nfiles \in Nat /\ w.ntemps \in Nat /\ k <= w.ntemps
        /\ y = w.base + k
    BY <1>3, <1>5
  <2> QED BY <2>1, <2>2, <2>3, SMTT(30)
<1>7. Window(y) /\ Live(y)
  <2>1. Taken
    BY <1>4 DEF Taken
  <2> QED BY <1>6, <2>1 DEF Window, InFps, Live
<1>8. fps[k] = files[y]
  BY <1>2, <1>5 DEF Arguments
<1>9. fps[k] \in Temps /\ fps[k] # w.to /\ fps[k] # tempcopy
  BY <1>2, <1>6, <1>7, <1>8 DEF Layout
<1>10. ASSUME NEW x \in Users, Filled(x) PROVE files[x] # fps[k]
  <2>1. x \in Nat /\ Start \in Nat /\ Lead \in Nat
    BY <1>1, Sets DEF Start, Lead
  <2>2. Live(x) \/ Rest(x)
    BY <1>1, <1>10, <2>1 DEF Filled, Live, Rest
  <2>3. x # y
    BY <1>7, <1>10 DEF Filled
  <2> QED BY <1>2, <1>6, <1>7, <1>8, <1>9, <2>2, <2>3, Sets DEF Layout
<1>11. fps[k] \in disk
  BY <1>2, <1>6, <1>7, <1>8, <1>9 DEF Layout
<1> QED BY <1>4, <1>9, <1>10, <1>11

LEMMA EndOfInputOrders ==
  ASSUME ArrayInv, OrderInv, EndOfInput
  PROVE  OrderInv'
<1>1. CASE die("abnormal")
  BY <1>1, DieOrders
<1>2. ASSUME pc = "merging", NEW k \in DOMAIN fps, Ends(k) PROVE OrderInv'
  <2>1. /\ k \in 1..Len(fps) /\ Len(fps) \in Nat
        /\ pc' = "merging" /\ nfiles' = nfiles /\ in' = in /\ out' = out
        /\ tempcopy' = tempcopy /\ options' = options
        /\ w'.base = w.base /\ w'.nfiles = w.nfiles /\ w'.to = w.to /\ w'.ret = w.ret
        /\ ~Making' /\ ~Between' /\ Working' /\ Working
        /\ w.base + Len(fps) <= w.base + w.nfiles
        /\ w \in [base : Nat, ntemps : Nat, nfiles : Nat, to : Temps \cup {Stdout}, ret : Rets]
    BY <1>2, InputEnds
  <2>2. output' = output
    BY <1>2 DEF Ends, endVars
  <2>3. content \in [Files -> Seq(Users)]
    BY DEF OrderInv, Holding
  <2>4. /\ content' \in [Files -> Seq(Users)]
        /\ \A f \in Files : f # fps[k] \/ ~IsTemp(k) => content'[f] = content[f]
    <3>1. CASE IsTemp(k)
      <4>1. content' = [content EXCEPT ![fps[k]] = <<>>] /\ <<>> \in Seq(Users)
        BY <1>2, <3>1 DEF Ends, zaptemp
      <4> QED BY <2>3, <3>1, <4>1
    <3>2. CASE ~IsTemp(k)
      <4>1. content' = content
        BY <1>2, <3>2 DEF Ends, tempVars
      <4> QED BY <2>3, <4>1
    <3> QED BY <3>1, <3>2
  <2>5. IsTemp(k) => /\ fps[k] \in Temps /\ fps[k] # w.to /\ fps[k] # tempcopy /\ w.ret # "copy"
                     /\ \A x \in Users : Filled(x) => files[x] # fps[k]
    BY <1>2, <2>1, ZapApart
  <2>6. /\ \A f \in Users : content'[f] = content[f]
        /\ tempcopy # 0 => content'[tempcopy] = content[tempcopy]
        /\ w.to # Stdout => content'[w.to] = content[w.to]
        /\ Result' = Result
    <3>1. \A f \in Users : content'[f] = content[f]
      BY <2>4, <2>5, Sets
    <3>2. tempcopy # 0 => content'[tempcopy] = content[tempcopy]
      BY <2>4, <2>5, Sets DEF ArrayInv, Types
    <3>3. w.to # Stdout => content'[w.to] = content[w.to]
      BY <2>1, <2>4, <2>5, Sets
    <3> QED BY <2>1, <2>2, <3>1, <3>2, <3>3 DEF Result
  <2>7. /\ Lead' = Lead /\ Start' = Start /\ (Taken' <=> Taken)
        /\ \A x \in Users : Window(x)' <=> Window(x)
        /\ \A x \in Users : Filled(x)' <=> Filled(x)
    BY <1>2, <2>1 DEF Lead, Start, InPass, Taken, Window, Filled
  <2>8. ASSUME NEW x \in Users, Filled(x) PROVE content'[files'[x]] = content[files[x]]
    <3>1. files'[x] = files[x]
      <4>1. ~(x \in (w.base + k)..(w.base + Len(fps) - 1))
        <5>1. x \in Nat /\ w.base \in Nat /\ w.nfiles \in Nat
          BY <2>1, Sets
        <5>2. CASE w.ret = "copy"
          <6>1. w.nfiles = 1
            BY <2>1, <5>2 DEF ArrayInv, Arguments
          <6> QED BY <2>1, <5>1, <6>1
        <5>3. CASE w.ret # "copy"
          <6>1. ~(w.base < x /\ x <= w.base + w.nfiles)
            BY <1>2, <2>8, <5>3 DEF Filled, Window, Taken
          <6> QED BY <2>1, <5>1, <6>1
        <5> QED BY <5>2, <5>3
      <4> QED BY <1>2, <4>1 DEF Ends
    <3>2. files[x] \in Files
      BY <2>1, <2>8, SlotsApart
    <3> QED BY <2>4, <2>5, <2>8, <3>1, <3>2
  <2>9. PICK c : Cuts(c)
    BY <2>1 DEF OrderInv
  <2>10. Cuts(c)'
    <3>1. Taken' => Result' = Neighbours(c[w'.base], c[w'.base + w'.nfiles])
      BY <2>1, <2>6, <2>7, <2>9 DEF Cuts
    <3> QED BY <2>1, <2>7, <2>8, <2>9, <3>1, CutsKept
  <2>11. Holding'
    <3>1. Same' = Same /\ \A f : Holds(f)' = Holds(f)
      BY <2>1, OrderKept
    <3>2. w.ret = "copy" => w.to # Stdout
      BY <2>1 DEF ArrayInv, Control
    <3> QED BY <1>2, <2>1, <2>4, <2>6, <3>1, <3>2 DEF OrderInv, Holding
  <2>12. Delivered'
    BY <2>1 DEF Delivered
  <2> QED BY <2>10, <2>11, <2>12 DEF OrderInv
<1> QED BY <1>1, <1>2, EndOfInputIs

-----------------------------------------------------------------------------
(* The slots move *)

LEMMA CutsMade ==
  ASSUME NEW e \in [0..N -> 0..total], options' = options, ~Taken', e[0] = 0, e[Lead'] = e[Start'],
         \A x \in Users : e[x - 1] <= e[x],
         \A x \in 0..N : x >= nfiles' => e[x] = total,
         \A x \in Users : Filled(x)' => content'[files'[x]] = Neighbours(e[x - 1], e[x])
  PROVE  Cuts(e)'
<1>1. total' = total /\ AllInOrder' = AllInOrder
  BY OrderKept
<1> QED BY <1>1 DEF Cuts, Neighbours

LEMMA CutsAre ==
  ASSUME Types, NEW c, Cuts(c)
  PROVE  /\ N \in Nat /\ total \in Nat /\ Users = 1..N /\ c \in [0..N -> 0..total] /\ c[0] = 0
         /\ \A x \in 0..N : c[x] \in Nat /\ c[x] \in 0..total
         /\ \A x \in 1..N : c[x - 1] <= c[x]
         /\ \A x \in 0..N : x >= nfiles => c[x] = total
<1>1. N \in Nat /\ total \in Nat /\ Users = 1..N
  BY Sets, InOrder
<1>2. /\ c \in [0..N -> 0..total] /\ c[0] = 0
      /\ \A x \in Users : c[x - 1] <= c[x]
      /\ \A x \in 0..N : x >= nfiles => c[x] = total
  BY DEF Cuts
<1>3. \A x \in 0..N : c[x] \in Nat /\ c[x] \in 0..total
  BY <1>1, <1>2
<1> QED BY <1>1, <1>2, <1>3

\* Cuts rise from slot to slot.
LEMMA Rising ==
  ASSUME NEW n \in Nat, NEW c, \A x \in 0..n : c[x] \in Nat, \A x \in 1..n : c[x - 1] <= c[x]
  PROVE  \A x, y \in 0..n : x <= y => c[x] <= c[y]
<1>1. ASSUME NEW x \in 0..n, NEW y \in 0..n, x <= y PROVE c[x] <= c[y]
  <2> DEFINE T == {z \in x..n : ~(c[x] <= c[z])}
  <2>1. CASE T = {}
    BY <1>1, <2>1
  <2>2. CASE T # {}
    <3>1. T \in SUBSET Nat
      OBVIOUS
    <3> HIDE DEF T
    <3>2. PICK m \in T : \A z \in T : m <= z
      BY <2>2, <3>1, MinIs
    <3> USE DEF T
    <3>3. m \in x..n /\ ~(c[x] <= c[m])
      BY <3>2
    <3>4. m \in 0..n /\ m # x
      BY <3>3
    <3>5. m \in 1..n /\ m - 1 \in x..n /\ m - 1 \in 0..n /\ ~(m <= m - 1)
      BY <3>3, <3>4
    <3>6. c[x] <= c[m - 1]
      BY <3>2, <3>5
    <3>7. c[m - 1] <= c[m] /\ {c[x], c[m - 1], c[m]} \subseteq Nat
      BY <3>4, <3>5
    <3> QED BY <3>3, <3>6, <3>7
  <2> QED BY <2>1, <2>2
<1> QED BY <1>1

LEMMA PassEndsOrders ==
  ASSUME ArrayInv, OrderInv, PassEnds
  PROVE  OrderInv'
<1>1. /\ pc \in {"full", "shift"} /\ pc' = "pass"
      /\ files' = [k \in Users |-> IF k \in (out + 1)..(out + remainder)
                                   THEN Remaining(k) ELSE files[k]]
      /\ nfiles' = nfiles - (in - out)
      /\ w' = w /\ tempcopy' = tempcopy /\ options' = options /\ content' = content
  BY DEF PassEnds, tempVars, endVars
<1>2. Between /\ Between' /\ ~Making' /\ w = NoMerge
  BY <1>1 DEF Between, Making, ArrayInv, Control
<1>3. /\ Lead = out /\ Start = in /\ Lead' = 0 /\ Start' = 0 /\ ~Taken /\ ~Taken'
  BY <1>1, <1>2 DEF Lead, Start, InPass, NoMerge, Taken
<1>4. /\ remainder \in Nat /\ in + remainder = nfiles /\ out <= in /\ in \in Nat /\ out \in Nat
      /\ nfiles \in Nat /\ nfiles <= N
  BY <1>1, <1>2, CheapSlots DEF ArrayInv, Types, Numbers
<1>5. Holding' /\ Delivered'
  BY <1>1, <1>2, HoldingKept DEF OrderInv, Delivered
<1>6. PICK c : Cuts(c)
  BY <1>2 DEF OrderInv
<1>7. /\ N \in Nat /\ total \in Nat /\ Users = 1..N /\ c \in [0..N -> 0..total] /\ c[0] = 0
      /\ \A x \in 0..N : c[x] \in Nat /\ c[x] \in 0..total
      /\ \A x \in 1..N : c[x - 1] <= c[x]
      /\ \A x \in 0..N : x >= nfiles => c[x] = total
  BY <1>6, CutsAre DEF ArrayInv
<1>8. c[out] = c[in] /\ \A x \in Users : Filled(x) => content[files[x]] = Neighbours(c[x - 1], c[x])
  BY <1>3, <1>6 DEF Cuts
<1>9. PICK e \in [0..N -> 0..total] :
        \A x \in 0..N : e[x] = IF x <= out THEN c[x]
                               ELSE IF x - out + in <= N THEN c[x - out + in] ELSE total
  <2> DEFINE e == [x \in 0..N |-> IF x <= out THEN c[x]
                                  ELSE IF x - out + in <= N THEN c[x - out + in] ELSE total]
  <2>1. ASSUME NEW x \in 0..N PROVE e[x] \in 0..total
    <3>1. CASE x <= out
      BY <1>7, <3>1
    <3>2. CASE ~(x <= out) /\ x - out + in <= N
      <4>1. x - out + in \in 0..N
        BY <1>4, <1>7, <3>2
      <4> QED BY <1>7, <3>2, <4>1
    <3>3. CASE ~(x <= out) /\ ~(x - out + in <= N)
      BY <1>7, <3>3
    <3> QED BY <3>1, <3>2, <3>3
  <2>2. e \in [0..N -> 0..total]
    BY <2>1
  <2> QED BY <2>2
<1>10. /\ \A x \in 0..out : x \in 0..N /\ e[x] = c[x]
       /\ \A x \in 0..N : out <= x /\ x - out + in <= N => x - out + in \in 0..N /\ e[x] = c[x - out + in]
       /\ \A x \in 0..N : ~(x - out + in <= N) => e[x] = total
  <2>1. ASSUME NEW x \in 0..out PROVE x \in 0..N /\ e[x] = c[x]
    BY <1>4, <1>7, <1>9
  <2>2. ASSUME NEW x \in 0..N, out <= x, x - out + in <= N
        PROVE  x - out + in \in 0..N /\ e[x] = c[x - out + in]
    <3>1. x - out + in \in 0..N
      BY <1>4, <1>7, <2>2
    <3>2. CASE x = out
      <4>1. x - out + in = in /\ x <= out
        BY <1>4, <3>2
      <4> QED BY <1>8, <1>9, <3>1, <3>2, <4>1
    <3>3. CASE x # out
      <4>1. ~(x <= out)
        BY <1>4, <2>2, <3>3
      <4> QED BY <1>9, <2>2, <3>1, <4>1
    <3> QED BY <3>2, <3>3
  <2>3. ASSUME NEW x \in 0..N, ~(x - out + in <= N) PROVE e[x] = total
    <3>1. ~(x <= out)
      BY <1>4, <1>7, <2>3
    <3> QED BY <1>9, <2>3, <3>1
  <2> QED BY <2>1, <2>2, <2>3
<1>11. e[0] = 0 /\ \A x \in 0..N : e[x] \in Nat /\ e[x] <= total
  <2>1. 0 \in 0..out
    BY <1>4
  <2> QED BY <1>7, <1>10, <2>1
<1>12. ASSUME NEW x \in Users PROVE e[x - 1] <= e[x]
  <2>1. x \in 1..N /\ x \in 0..N /\ x - 1 \in 0..N
    BY <1>7
  <2>2. CASE x <= out
    <3>1. x \in 0..out /\ x - 1 \in 0..out
      BY <1>4, <2>1, <2>2
    <3> QED BY <1>7, <1>10, <2>1, <3>1
  <2>3. CASE ~(x <= out) /\ x - out + in <= N
    <3>1. /\ out <= x /\ out <= x - 1 /\ (x - 1) - out + in <= N
          /\ x - out + in \in 1..N /\ (x - 1) - out + in = (x - out + in) - 1
      <4>1. in \in Nat /\ out \in Nat /\ N \in Nat
        BY <1>4, <1>7
      <4> QED BY <2>1, <2>3, <4>1
    <3>2. e[x] = c[x - out + in] /\ e[x - 1] = c[(x - out + in) - 1]
      BY <1>10, <2>1, <2>3, <3>1
    <3> QED BY <1>7, <3>1, <3>2
  <2>4. CASE ~(x - out + in <= N)
    BY <1>10, <1>11, <2>1, <2>4
  <2> QED BY <2>2, <2>3, <2>4
<1>13. ASSUME NEW x \in 0..N, x >= nfiles' PROVE e[x] = total
  <2>1. CASE x - out + in <= N
    <3>1. out <= x /\ x - out + in >= nfiles
      BY <1>1, <1>4, <1>13
    <3> QED BY <1>7, <1>10, <2>1, <3>1
  <2>2. CASE ~(x - out + in <= N)
    BY <1>10, <2>2
  <2> QED BY <2>1, <2>2
<1>14. ASSUME NEW x \in Users, Filled(x)'
       PROVE  content'[files'[x]] = Neighbours(e[x - 1], e[x])
  <2>1. x \in 1..N /\ x \in 0..N /\ x - 1 \in 0..N /\ x <= nfiles'
    <3>1. x <= 0 \/ x <= nfiles'
      BY <1>3, <1>14 DEF Filled
    <3> QED BY <1>1, <1>4, <1>7, <3>1
  <2>2. CASE x <= out
    <3>1. ~(x \in (out + 1)..(out + remainder)) /\ x \in 0..out /\ x - 1 \in 0..out
      BY <1>4, <2>1, <2>2
    <3>2. files'[x] = files[x]
      BY <1>1, <3>1
    <3>3. Filled(x)
      BY <1>3, <2>2 DEF Filled, Window
    <3> QED BY <1>1, <1>8, <1>10, <3>1, <3>2, <3>3
  <2>3. CASE ~(x <= out)
    <3>1. x \in (out + 1)..(out + remainder)
      BY <1>1, <1>4, <2>1, <2>3
    <3>2. PICK y : y = x - out + in
      OBVIOUS
    <3>3. y \in Users /\ in < y /\ y <= nfiles /\ (x - 1) - out + in = y - 1 /\ out <= x /\ out <= x - 1
      BY <1>4, <1>7, <2>1, <3>1, <3>2
    <3>4. files'[x] = files[y]
      BY <1>1, <3>1, <3>2 DEF Remaining
    <3>5. Filled(y)
      BY <1>3, <3>3 DEF Filled, Window
    <3>6. e[x] = c[y] /\ e[x - 1] = c[y - 1]
      <4>1. x - out + in <= N /\ (x - 1) - out + in <= N
        BY <1>4, <1>7, <3>2, <3>3
      <4> QED BY <1>10, <2>1, <3>2, <3>3, <4>1
    <3> QED BY <1>1, <1>8, <3>3, <3>4, <3>5, <3>6
  <2> QED BY <2>2, <2>3
<1>15. Cuts(e)'
  BY <1>1, <1>3, <1>11, <1>12, <1>13, <1>14, CutsMade
<1> QED BY <1>5, <1>15 DEF OrderInv

\* What all callers of mergefps find.
LEMMA MergeEndsOrders ==
  ASSUME ArrayInv, OrderInv, EndOfMerge
  PROVE  /\ content' = content /\ output' = output /\ options' = options /\ w' = NoMerge
         /\ pc' \in {"full", "shift", "avoid", "last", "finish"} /\ died' = died
         /\ ~Making' /\ Working /\ ~Taken' /\ Types
         /\ w.ret # "copy" => Taken
         /\ \E c : Cuts(c)
<1>1. /\ content' = content /\ output' = output /\ died' = died
      /\ pc' \in {"full", "shift", "avoid", "last", "finish"}
  <2>1. content' = content /\ output' = output /\ died' = died
    BY DEF EndOfMerge, tempVars, endVars
  <2>2. w.ret \in {"full", "short", "copy", "shed", "last"}
    BY MergeEnds
  <2>3. w.ret \in {"full", "short"} => pc' = IF w.ret = "full" THEN "full" ELSE "shift"
    BY Zenon DEF EndOfMerge
  <2>4. w.ret = "copy" => pc' = "avoid"
    BY Zenon DEF EndOfMerge
  <2>5. w.ret = "shed" => pc' = "last"
    BY Zenon DEF EndOfMerge
  <2>6. w.ret = "last" => pc' = "finish"
    BY Zenon DEF EndOfMerge
  <2> QED BY <2>1, <2>2, <2>3, <2>4, <2>5, <2>6
<1>2. options' = options /\ w' = NoMerge /\ Working /\ pc = "merging"
  BY MergeEnds
<1>3. ~Making' /\ ~Taken' /\ (w.ret # "copy" => Taken)
  BY <1>1, <1>2 DEF Making, Taken
<1> QED BY <1>1, <1>2, <1>3 DEF OrderInv, ArrayInv

LEMMA CopyOrders ==
  ASSUME ArrayInv, OrderInv, EndOfMerge, w.ret = "copy"
  PROVE  OrderInv'
<1>1. /\ tempcopy' = w.to /\ pc' = "avoid" /\ files' = files /\ nfiles' = nfiles
  BY Zenon DEF EndOfMerge
<1>2. /\ content' = content /\ output' = output /\ options' = options /\ w' = NoMerge
      /\ ~Making' /\ Working /\ ~Taken'
  BY MergeEndsOrders
<1>3. pc = "merging" /\ Lead = 0 /\ Start = 0 /\ Lead' = 0 /\ Start' = 0 /\ ~Taken
  BY <1>1, <1>2, MergeEnds DEF InPass, Lead, Start, Taken, NoMerge
<1>4. Holding'
  BY <1>1, <1>2, <1>3, OrderKept DEF OrderInv, Holding
<1>5. Delivered' /\ Between'
  BY <1>1 DEF Delivered, Between
<1>6. PICK c : Cuts(c)
  BY MergeEndsOrders
<1>7. \A x \in Users : Filled(x)' => Filled(x)
  BY <1>1, <1>2, <1>3 DEF Filled, Window
<1>8. Cuts(c)'
  BY <1>1, <1>2, <1>3, <1>6, <1>7, CutsKept
<1> QED BY <1>4, <1>5, <1>8 DEF OrderInv

LEMMA ResultOrders ==
  ASSUME ArrayInv, OrderInv, EndOfMerge, w.ret \in {"full", "short"}
  PROVE  OrderInv'
<1> DEFINE last == in + w.nfiles
<1>1. /\ files' = [files EXCEPT ![out + 1] = w.to]
      /\ in' = in + w.nfiles /\ out' = out + 1
      /\ pc' = IF w.ret = "full" THEN "full" ELSE "shift"
      /\ nfiles' = nfiles /\ tempcopy' = tempcopy
  BY Zenon DEF EndOfMerge
<1>2. /\ content' = content /\ options' = options /\ w' = NoMerge
      /\ ~Making' /\ Working /\ ~Taken' /\ Taken /\ pc' \in {"full", "shift"}
  BY <1>1, MergeEndsOrders
<1>3. /\ w.base = in /\ w.nfiles >= 1 /\ in + w.nfiles <= nfiles /\ w.nfiles \in Nat
      /\ in \in Nat /\ out \in Nat /\ nfiles \in Nat /\ w.to \in Temps /\ w.to # Stdout
  BY MergeEnds DEF Arguments
<1>4. Lead = out /\ Start = in /\ Lead' = out + 1 /\ Start' = last
  BY <1>1, <1>2 DEF InPass, Lead, Start
<1>5. out <= in /\ nfiles <= N /\ last \in Nat /\ in < last /\ last <= N /\ last <= nfiles
  <2>1. out <= in /\ nfiles <= N /\ N \in Nat
    BY <1>4, MergeEnds, Sets DEF Numbers
  <2>2. \A a, b, m, t \in Nat : b >= 1 /\ a + b <= m /\ m <= t =>
          a + b \in Nat /\ a < a + b /\ a + b <= t /\ a + b <= m
    OBVIOUS
  <2> QED BY <1>3, <2>1, <2>2
<1>6. Holding' /\ Delivered'
  BY <1>1, <1>2, HoldingKept DEF OrderInv, Delivered
<1>7. PICK c : Cuts(c)
  BY MergeEndsOrders
<1>8. /\ N \in Nat /\ total \in Nat /\ Users = 1..N /\ c \in [0..N -> 0..total] /\ c[0] = 0
      /\ \A x \in 0..N : c[x] \in Nat /\ c[x] \in 0..total
      /\ \A x \in 1..N : c[x - 1] <= c[x]
      /\ \A x \in 0..N : x >= nfiles => c[x] = total
  BY <1>7, CutsAre DEF ArrayInv
<1>9. /\ c[out] = c[in] /\ content[w.to] = Neighbours(c[in], c[last])
      /\ \A x \in Users : Filled(x) => content[files[x]] = Neighbours(c[x - 1], c[x])
  BY <1>2, <1>3, <1>4, <1>7 DEF Cuts, Result
<1>10. files \in [Users -> Files] /\ out + 1 \in Users
  <2>1. out + 1 \in 1..N
    BY <1>3, <1>5, <1>8
  <2> QED BY <1>8, <2>1 DEF ArrayInv, Types
\* The cuts between the slots of the inputs are gone.
<1> HIDE DEF last
<1>11. PICK e \in [0..N -> 0..total] :
         \A x \in 0..N : e[x] = IF out < x /\ x <= last THEN c[last] ELSE c[x]
  <2> DEFINE e == [x \in 0..N |-> IF out < x /\ x <= last THEN c[last] ELSE c[x]]
  <2>1. last \in 0..N
    BY <1>5, <1>8
  <2>2. e \in [0..N -> 0..total]
    BY <1>8, <2>1
  <2> QED BY <2>2
<1>12. /\ \A x \in 0..N : x <= out => e[x] = c[x]
       /\ \A x \in 0..N : out < x /\ x <= last => e[x] = c[last]
       /\ \A x \in 0..N : last <= x => e[x] = c[x]
  <2>1. \A x \in 0..N : x <= out => e[x] = c[x]
    BY <1>3, <1>11
  <2>2. ASSUME NEW x \in 0..N, last <= x PROVE e[x] = c[x]
    BY <1>5, <1>8, <1>11, <2>2
  <2> QED BY <1>11, <2>1, <2>2
<1>13. \A x, y \in 0..N : x <= y => c[x] <= c[y]
  BY <1>8, Rising
<1>14. /\ out \in 0..N /\ out + 1 \in 0..N /\ last \in 0..N /\ 0 \in 0..N /\ out < last
       /\ out + 1 <= last /\ out < out + 1
  BY <1>3, <1>5, <1>8, SMTT(30)
<1>15. ASSUME NEW x \in Users PROVE e[x - 1] <= e[x]
  <2>1. x \in 0..N /\ x - 1 \in 0..N /\ x - 1 <= x
    BY <1>8
  <2>2. CASE x <= out
    <3>1. x - 1 <= out
      BY <1>3, <2>1, <2>2
    <3> QED BY <1>12, <1>13, <2>1, <2>2, <3>1
  <2>3. CASE out < x /\ x <= last
    <3>1. x - 1 <= out \/ (out < x - 1 /\ x - 1 <= last)
      BY <1>3, <1>5, <2>1, <2>3
    <3>2. x - 1 <= last
      BY <1>5, <2>1, <2>3
    <3>3. c[x - 1] <= c[last] /\ c[last] <= c[last]
      BY <1>13, <1>14, <2>1, <3>2, <1>5
    <3> QED BY <1>12, <2>1, <2>3, <3>1, <3>3
  <2>4. CASE last < x
    <3>1. last <= x - 1 /\ last <= x
      BY <1>5, <2>1, <2>4
    <3> QED BY <1>12, <1>13, <2>1, <3>1
  <2> QED BY <1>3, <1>5, <2>1, <2>2, <2>3, <2>4
<1>16. e[0] = 0 /\ e[Lead'] = e[Start']
  <2>1. 0 <= out
    BY <1>3
  <2>2. last <= last
    BY <1>5
  <2> QED BY <1>4, <1>8, <1>12, <1>14, <2>1, <2>2
<1>17. ASSUME NEW x \in 0..N, x >= nfiles' PROVE e[x] = total
  <2>1. last <= x /\ x >= nfiles
    BY <1>1, <1>3, <1>5, <1>17
  <2> QED BY <1>8, <1>12, <2>1
<1>18. ASSUME NEW x \in Users, Filled(x)'
       PROVE  content'[files'[x]] = Neighbours(e[x - 1], e[x])
  <2>1. x \in 0..N /\ x - 1 \in 0..N /\ x \in Nat /\ x > 0
    BY <1>8
  <2>2. x <= out + 1 \/ (last < x /\ x <= nfiles)
    BY <1>1, <1>4, <1>18 DEF Filled
  <2>3. CASE x = out + 1
    <3>1. x - 1 = out /\ out <= out
      BY <1>3, <2>3
    <3>2. e[x - 1] = c[in] /\ e[x] = c[last]
      BY <1>9, <1>12, <1>14, <2>1, <2>3, <3>1
    <3>3. files'[x] = w.to
      BY <1>1, <1>10, <2>3
    <3> QED BY <1>2, <1>9, <3>2, <3>3
  <2>4. CASE x # out + 1
    <3>1. files'[x] = files[x]
      BY <1>1, <1>10, <2>4
    <3>2. x <= out \/ (last < x /\ x <= nfiles)
      BY <1>3, <2>1, <2>2, <2>4
    <3>3. Filled(x)
      <4>1. Window(x) => in < x /\ x <= last
        BY <1>3 DEF Window, last
      <4>2. x <= Lead \/ (Start < x /\ x <= nfiles)
        BY <1>3, <1>4, <1>5, <2>1, <3>2
      <4>3. ~(in < x /\ x <= last)
        BY <1>3, <1>5, <2>1, <3>2
      <4> QED BY <4>1, <4>2, <4>3 DEF Filled
    <3>4. e[x - 1] = c[x - 1] /\ e[x] = c[x]
      <4>1. x <= out => x - 1 <= out
        BY <1>3, <2>1
      <4>2. last < x => last <= x - 1 /\ last <= x
        BY <1>5, <2>1
      <4> QED BY <1>12, <2>1, <3>2, <4>1, <4>2
    <3> QED BY <1>2, <1>9, <3>1, <3>3, <3>4
  <2> QED BY <2>3, <2>4
<1>19. Cuts(e)'
  BY <1>2, <1>15, <1>16, <1>17, <1>18, CutsMade
<1> QED BY <1>6, <1>19 DEF OrderInv

\* The last merge ran out of descriptors: its result comes before the other inputs.
LEMMA ShedEndsOrders ==
  ASSUME ArrayInv, OrderInv, EndOfMerge, w.ret = "shed"
  PROVE  OrderInv'
<1> DEFINE n == w.nfiles
           moved(x) == CASE x = 1 -> w.to
                         [] x \in 2..(nfiles - n + 1) -> files[x + n - 1]
                         [] OTHER -> files[x]
<1>1. /\ files' = [x \in Users |-> moved(x)]
      /\ nfiles' = nfiles - (n - 1) /\ pc' = "last" /\ tempcopy' = tempcopy
  BY Zenon DEF EndOfMerge
<1>2. /\ content' = content /\ options' = options /\ w' = NoMerge
      /\ ~Making' /\ Working /\ ~Taken' /\ Taken
  BY MergeEndsOrders
<1>3. /\ w.base = 0 /\ n >= 1 /\ 0 + n <= nfiles /\ n \in Nat /\ nfiles \in Nat
      /\ w.to \in Temps /\ w.to # Stdout /\ pc = "merging"
  BY MergeEnds DEF Arguments
<1>4. Lead = 0 /\ Start = 0 /\ Lead' = 0 /\ Start' = 0
  BY <1>1, <1>2, <1>3 DEF InPass, Lead, Start, NoMerge
<1>5. \A x \in Users : /\ x = 1 => files'[x] = w.to
                       /\ x \in 2..(nfiles - n + 1) => files'[x] = files[x + n - 1]
  <2>1. \A x \in Users : files'[x] = moved(x)
    <3> HIDE DEF moved
    <3> QED BY <1>1
  <2>2. \A x \in Users : /\ x = 1 => moved(x) = w.to
                         /\ x \in 2..(nfiles - n + 1) => moved(x) = files[x + n - 1]
    <3>1. 1 \notin 2..(nfiles - n + 1)
      OBVIOUS
    <3> QED BY <3>1, Zenon
  <2> HIDE DEF moved
  <2> QED BY <2>1, <2>2
<1> HIDE DEF moved
<1>6. nfiles <= N /\ n <= nfiles /\ n <= N
  <2>1. nfiles <= N
    BY MergeEnds DEF Numbers
  <2> QED BY <1>3, <2>1, Sets
<1>7. Holding' /\ Delivered' /\ Between'
  BY <1>1, <1>2, HoldingKept DEF OrderInv, Delivered, Between
<1>8. PICK c : Cuts(c)
  BY MergeEndsOrders
<1>9. /\ N \in Nat /\ total \in Nat /\ Users = 1..N /\ c \in [0..N -> 0..total] /\ c[0] = 0
      /\ \A x \in 0..N : c[x] \in Nat /\ c[x] \in 0..total
      /\ \A x \in 1..N : c[x - 1] <= c[x]
      /\ \A x \in 0..N : x >= nfiles => c[x] = total
  BY <1>8, CutsAre DEF ArrayInv
<1>10. /\ content[w.to] = Neighbours(c[0], c[n])
       /\ \A x \in Users : Filled(x) => content[files[x]] = Neighbours(c[x - 1], c[x])
  <2>1. content[w.to] = Neighbours(c[0], c[0 + n])
    BY <1>2, <1>3, <1>8 DEF Cuts, Result
  <2> QED BY <1>3, <1>8, <2>1 DEF Cuts
<1>11. \A x \in Users : x > n /\ x <= nfiles => Filled(x)
  BY <1>3, <1>4, <1>9 DEF Filled, Window
<1> HIDE DEF n
<1>12. PICK e \in [0..N -> 0..total] :
         \A x \in 0..N : e[x] = IF x = 0 THEN 0 ELSE IF x + n - 1 <= N THEN c[x + n - 1] ELSE total
  <2> DEFINE e == [x \in 0..N |-> IF x = 0 THEN 0 ELSE IF x + n - 1 <= N THEN c[x + n - 1] ELSE total]
  <2>1. ASSUME NEW x \in 0..N PROVE e[x] \in 0..total
    <3>1. CASE x # 0 /\ x + n - 1 <= N
      <4>1. x + n - 1 \in 0..N
        BY <1>3, <1>9, <3>1
      <4> QED BY <1>9, <3>1, <4>1
    <3>2. CASE x = 0 \/ ~(x + n - 1 <= N)
      BY <1>9, <3>2
    <3> QED BY <3>1, <3>2
  <2>2. e \in [0..N -> 0..total]
    BY <2>1
  <2> QED BY <2>2
<1>13. /\ e[0] = 0
       /\ \A x \in 1..N : x + n - 1 <= N => x + n - 1 \in 1..N /\ e[x] = c[x + n - 1]
       /\ \A x \in 1..N : ~(x + n - 1 <= N) => e[x] = total
       /\ \A x \in 0..N : e[x] \in Nat /\ e[x] <= total
  <2>1. e[0] = 0
    BY <1>9, <1>12
  <2>2. ASSUME NEW x \in 1..N, x + n - 1 <= N PROVE x + n - 1 \in 1..N /\ e[x] = c[x + n - 1]
    <3>1. x \in 0..N /\ x # 0 /\ x + n - 1 \in 1..N
      BY <1>3, <1>9, <2>2
    <3> QED BY <1>12, <2>2, <3>1
  <2>3. \A x \in 1..N : ~(x + n - 1 <= N) => e[x] = total
    BY <1>12
  <2>4. \A x \in 0..N : e[x] \in Nat /\ e[x] <= total
    BY <1>9
  <2> QED BY <2>1, <2>2, <2>3, <2>4
<1>14. ASSUME NEW x \in Users PROVE e[x - 1] <= e[x]
  <2>1. x \in 1..N /\ x \in 0..N /\ x - 1 \in 0..N
    BY <1>9
  <2>2. CASE x = 1
    <3>1. e[x - 1] = 0 /\ e[x] \in Nat
      BY <1>13, <2>1, <2>2
    <3> QED BY <3>1
  <2>3. CASE x # 1 /\ x + n - 1 <= N
    <3>1. x - 1 \in 1..N /\ (x - 1) + n - 1 <= N /\ (x - 1) + n - 1 = (x + n - 1) - 1
      BY <1>3, <1>9, <2>1, <2>3
    <3>2. e[x - 1] = c[(x + n - 1) - 1] /\ e[x] = c[x + n - 1] /\ x + n - 1 \in 1..N
      BY <1>13, <2>1, <2>3, <3>1
    <3> QED BY <1>9, <3>2
  <2>4. CASE ~(x + n - 1 <= N)
    BY <1>13, <2>1, <2>4
  <2> QED BY <2>2, <2>3, <2>4
<1>15. ASSUME NEW x \in 0..N, x >= nfiles' PROVE e[x] = total
  <2>1. x \in 1..N
    BY <1>1, <1>3, <1>6, <1>15 DEF n
  <2>2. CASE x + n - 1 <= N
    <3>1. x + n - 1 >= nfiles
      <4>1. nfiles' = nfiles - (n - 1)
        BY <1>1 DEF n
      <4>2. n \in Nat /\ nfiles \in Nat
        BY <1>3
      <4>3. x \in Nat
        BY <1>9
      <4>4. x >= nfiles - (n - 1)
        BY <1>15, <4>1
      <4> QED BY <4>2, <4>3, <4>4
    <3>2. PICK y : y = x + n - 1
      OBVIOUS
    <3>3. \A z \in 1..N : z + n - 1 <= N => z + n - 1 \in 1..N /\ e[z] = c[z + n - 1]
      BY <1>13
    <3>4. y \in 1..N /\ e[x] = c[y]
      <4> HIDE DEF n
      <4> QED BY <2>1, <2>2, <3>2, <3>3
    <3>5. y \in 0..N /\ y >= nfiles
      BY <1>9, <3>1, <3>2, <3>4
    <3> QED BY <1>9, <3>4, <3>5
  <2>3. CASE ~(x + n - 1 <= N)
    BY <1>13, <2>1, <2>3
  <2> QED BY <2>2, <2>3
<1>16. ASSUME NEW x \in Users, Filled(x)'
       PROVE  content'[files'[x]] = Neighbours(e[x - 1], e[x])
  <2>1. x \in 1..N /\ x \in Nat /\ x <= nfiles'
    <3>1. x <= 0 \/ x <= nfiles'
      BY <1>4, <1>16 DEF Filled
    <3> QED BY <1>9, <3>1
  <2>2. CASE x = 1
    <3>1. x + n - 1 = n /\ x - 1 = 0
      BY <1>3, <2>2
    <3>2. e[x - 1] = c[0] /\ e[x] = c[n]
      BY <1>6, <1>9, <1>13, <2>1, <3>1
    <3> QED BY <1>2, <1>5, <1>10, <2>2, <3>2
  <2>3. CASE x # 1
    <3>1. PICK y : y = x + n - 1
      OBVIOUS
    <3>2. /\ y \in Users /\ y > n /\ y <= nfiles /\ x \in 2..(nfiles - n + 1)
          /\ (x - 1) + n - 1 = y - 1 /\ x - 1 \in 1..N /\ y <= N /\ y - 1 <= N
      <4>1. nfiles' = nfiles - (n - 1)
        BY <1>1 DEF n
      <4>2. n \in Nat /\ n >= 1 /\ nfiles \in Nat
        BY <1>3
      <4> QED BY <1>6, <1>9, <2>1, <2>3, <3>1, <4>1, <4>2
    <3>3. files'[x] = files[y]
      BY <1>5, <3>1, <3>2
    <3>4. content[files[y]] = Neighbours(c[y - 1], c[y])
      BY <1>10, <1>11, <3>2
    <3>5. e[x - 1] = c[y - 1] /\ e[x] = c[y]
      BY <1>13, <2>1, <3>1, <3>2
    <3> QED BY <1>2, <3>3, <3>4, <3>5
  <2> QED BY <2>2, <2>3
<1>17. Cuts(e)'
  BY <1>2, <1>4, <1>13, <1>14, <1>15, <1>16, CutsMade
<1> QED BY <1>7, <1>17 DEF OrderInv

\* The last merge is over.
LEMMA AllMerged ==
  ASSUME ArrayInv, OrderInv, EndOfMerge, w.ret = "last"
  PROVE  OrderInv'
<1>1. pc' = "finish" /\ tempcopy' = tempcopy
  <2>1. pc' = "finish" /\ UNCHANGED mergeVars
    BY Zenon DEF EndOfMerge
  <2> QED BY <2>1 DEF mergeVars
<1>2. /\ content' = content /\ output' = output /\ options' = options
      /\ ~Making' /\ Working /\ Taken
  BY MergeEndsOrders
<1>3. /\ w.base = 0 /\ w.nfiles = nfiles /\ w.to = Stdout /\ nfiles \in Nat /\ nfiles <= N
  BY MergeEnds DEF Arguments, Numbers
<1>4. ~Between' /\ ~Working'
  BY <1>1 DEF Between, Working
<1>5. Holding'
  BY <1>1, <1>2, HoldingKept DEF OrderInv
<1>6. PICK c : Cuts(c)
  BY MergeEndsOrders
<1>7. /\ total \in Nat /\ c[0] = 0 /\ c[nfiles] = total
      /\ AllInOrder \in Seq(Users) /\ Len(AllInOrder) = total
  <2>1. nfiles \in 0..N
    BY <1>3, Sets
  <2> QED BY <1>6, <2>1, CutsAre, InOrder DEF ArrayInv
<1>8. output = Neighbours(0, total)
  <2>1. output = Neighbours(c[0], c[0 + nfiles]) /\ 0 + nfiles = nfiles
    BY <1>2, <1>3, <1>6 DEF Cuts, Result
  <2> QED BY <1>7, <2>1
<1>9. Neighbours(0, total) = AllInOrder
  <2>1. 0 \in 0..total /\ total \in 0..total /\ 0 <= total /\ total - 0 = total
    BY <1>7
  <2>2. /\ Neighbours(0, total) \in Seq(Users) /\ Len(Neighbours(0, total)) = total - 0
        /\ \A k \in 1..(total - 0) : Neighbours(0, total)[k] = AllInOrder[0 + k]
    BY <2>1, NeighboursAre DEF ArrayInv
  <2>3. \A k \in 1..total : 0 + k = k
    BY <1>7
  <2> QED BY <1>7, <2>1, <2>2, <2>3, SeqEqual
<1>10. Delivered'
  BY <1>2, <1>8, <1>9, OrderKept DEF Delivered
<1> QED BY <1>4, <1>5, <1>10 DEF OrderInv

LEMMA EndOfMergeOrders ==
  ASSUME ArrayInv, OrderInv, EndOfMerge
  PROVE  OrderInv'
BY MergeEnds, ResultOrders, CopyOrders, ShedEndsOrders, AllMerged

LEMMA FinishOrders ==
  ASSUME ArrayInv, OrderInv, Finish
  PROVE  OrderInv'
<1>1. CASE die("abnormal")
  BY <1>1, DieOrders
<1>2. CASE die("")
  BY <1>2, DieOrders DEF Finish
<1>3. CASE UNCHANGED <<pc, cont, mergeVars, w, fps, tempVars, strangers, endVars>>
  BY <1>3, RestOrders DEF endVars
<1> QED BY <1>1, <1>2, <1>3 DEF Finish

\* At every statement the files in the array hold what the input has between two cuts of
\* its order, slot after slot, and at the end the output holds all of it.
THEOREM OrderHolds == Spec => []OrderInv
<1>1. Init => OrderInv
  BY OrderInit
<1>2. ArrayInv /\ OrderInv /\ [Next]_vars => OrderInv'
  <2>1. CASE UNCHANGED vars
    BY <2>1, RestOrders DEF vars, endVars
  <2>2. CASE Main
    BY <2>2, NewRunOrders, CloseRunOrders, RunsDoneOrders, PassOrders, FullOrders, PassEndsOrders,
       AvoidTrashingOrders, LastMergeOrders, OpenOrders, ShedOrders, ProcessOrders,
       EndOfInputOrders, EndOfMergeOrders, FinishOrders
       DEF Main
  <2>3. ASSUME NEW p \in Temps, ChildExit(p), OrderInv PROVE OrderInv'
    BY <2>3, RestOrders DEF ChildExit
  <2> QED BY <2>1, <2>2, <2>3 DEF Next
<1> QED BY <1>1, <1>2, ArrayHolds, PTL DEF Spec

-----------------------------------------------------------------------------
(* Between two merges *)

LEMMA AllOfThem ==
  ASSUME Types
  PROVE  Neighbours(0, total) = AllInOrder
<1>1. total \in Nat /\ AllInOrder \in Seq(Users) /\ Len(AllInOrder) = total
  BY InOrder
<1>2. 0 \in 0..total /\ total \in 0..total /\ 0 <= total /\ total - 0 = total
  BY <1>1
<1>3. /\ Neighbours(0, total) \in Seq(Users) /\ Len(Neighbours(0, total)) = total - 0
      /\ \A k \in 1..(total - 0) : Neighbours(0, total)[k] = AllInOrder[0 + k]
  BY <1>2, NeighboursAre
<1>4. \A k \in 1..total : 0 + k = k
  BY <1>1
<1> QED BY <1>1, <1>2, <1>3, <1>4, SeqEqual

\* The first b slots, after the first a.
LEMMA PartIs ==
  ASSUME Types, NEW a \in Nat, NEW b \in Nat, a <= b, b <= N
  PROVE  /\ SubSeq(files, a + 1, b) \in Seq(Files) /\ Len(SubSeq(files, a + 1, b)) = b - a
         /\ \A k \in 1..(b - a) : SubSeq(files, a + 1, b)[k] = files[a + k]
<1>1. files \in [Users -> Files] /\ Users = 1..N /\ N \in Nat
  BY Sets DEF Types
<1>2. a + 1 \in Int /\ b \in Int /\ \A k \in (a + 1)..b : files[k] \in Files
  BY <1>1
<1>3. /\ SubSeq(files, a + 1, b) \in Seq(Files)
      /\ Len(SubSeq(files, a + 1, b)) = IF a + 1 <= b THEN b - (a + 1) + 1 ELSE 0
      /\ \A k \in 1..(b - (a + 1) + 1) : SubSeq(files, a + 1, b)[k] = files[(a + 1) + k - 1]
  BY <1>2, SubSeqProperties
<1>4. b - (a + 1) + 1 = b - a /\ (~(a + 1 <= b) => b - a = 0)
  OBVIOUS
<1>5. \A k \in 1..(b - a) : (a + 1) + k - 1 = a + k
  OBVIOUS
<1> QED BY <1>3, <1>4, <1>5

LEMMA NoMergeRuns ==
  ASSUME ArrayInv, BetweenMerges
  PROVE  /\ Types /\ Listed /\ Between /\ Numbers /\ Layout /\ pc # "merging" /\ ~Taken /\ w.to = 0
         /\ {Lead, Start, ntemps, nfiles, N} \subseteq Nat
         /\ Lead <= Start /\ Start + ntemps <= nfiles /\ nfiles <= N
         /\ pc = "full" => Lead = out /\ Start = in
         /\ pc # "full" => Lead = 0 /\ Start = 0
<1>1. Between /\ pc # "merging" /\ pc # "shift" /\ w = NoMerge
  BY DEF BetweenMerges, Between, ArrayInv, Control
<1>2. /\ Types /\ Listed /\ Numbers /\ Layout /\ ~Taken /\ w.to = 0
      /\ w.ret = "none"
  BY <1>1 DEF ArrayInv, Taken, NoMerge, Stdout
<1>3. /\ pc = "full" => Lead = out /\ Start = in
      /\ pc # "full" => Lead = 0 /\ Start = 0
  BY <1>1, <1>2 DEF Lead, Start, InPass
<1>4. {Lead, Start, ntemps, nfiles, N} \subseteq Nat
  BY <1>2, Sets DEF Types, Lead, Start
<1> QED BY <1>1, <1>2, <1>3, <1>4 DEF Numbers

\* Pending is what the slots up to Lead hold, and those from Start to nfiles.
LEMMA PendingIs ==
  ASSUME ArrayInv, BetweenMerges
  PROVE  /\ Pending \in Seq(Files) /\ Len(Pending) = Lead + (nfiles - Start)
         /\ \A k \in 1..Lead : Pending[k] = files[k]
         /\ \A k \in 1..(nfiles - Start) : Pending[Lead + k] = files[Start + k]
<1>1. /\ Types /\ Lead \in Nat /\ Start \in Nat /\ nfiles \in Nat /\ N \in Nat
      /\ Lead <= N /\ Start <= nfiles /\ nfiles <= N
      /\ pc = "full" => Lead = out /\ Start = in
      /\ pc # "full" => Lead = 0 /\ Start = 0
  <2>1. /\ Types /\ {Lead, Start, ntemps, nfiles, N} \subseteq Nat
        /\ Lead <= Start /\ Start + ntemps <= nfiles /\ nfiles <= N
        /\ pc = "full" => Lead = out /\ Start = in
        /\ pc # "full" => Lead = 0 /\ Start = 0
    BY NoMergeRuns
  <2> QED BY <2>1
<1> DEFINE a == SubSeq(files, 1, Lead)
           b == SubSeq(files, Start + 1, nfiles)
<1>2. a \in Seq(Files) /\ Len(a) = Lead /\ \A k \in 1..Lead : a[k] = files[k]
  <2>1. /\ SubSeq(files, 0 + 1, Lead) \in Seq(Files) /\ Len(SubSeq(files, 0 + 1, Lead)) = Lead - 0
        /\ \A k \in 1..(Lead - 0) : SubSeq(files, 0 + 1, Lead)[k] = files[0 + k]
    BY <1>1, PartIs
  <2>2. 0 + 1 = 1 /\ Lead - 0 = Lead /\ \A k \in 1..Lead : 0 + k = k
    BY <1>1
  <2> QED BY <2>1, <2>2
<1>3. /\ b \in Seq(Files) /\ Len(b) = nfiles - Start
      /\ \A k \in 1..(nfiles - Start) : b[k] = files[Start + k]
  BY <1>1, PartIs
<1>4. CASE pc = "full"
  <2>1. Pending = a \o b
    BY <1>1, <1>4 DEF Pending
  <2> HIDE DEF a, b
  <2>2. /\ a \o b \in Seq(Files) /\ Len(a \o b) = Len(a) + Len(b)
        /\ \A k \in 1..(Len(a) + Len(b)) : (a \o b)[k] = IF k <= Len(a) THEN a[k] ELSE b[k - Len(a)]
    BY <1>2, <1>3, ConcatProperties, Zenon
  <2>3. ASSUME NEW k \in 1..Lead PROVE Pending[k] = files[k]
    <3>1. k \in 1..(Len(a) + Len(b)) /\ k <= Len(a)
      BY <1>1, <1>2, <1>3
    <3> QED BY <1>2, <2>1, <2>2, <3>1
  <2>4. ASSUME NEW k \in 1..(nfiles - Start) PROVE Pending[Lead + k] = files[Start + k]
    <3>1. PICK y : y = Lead + k
      OBVIOUS
    <3>2. y \in 1..(Len(a) + Len(b)) /\ ~(y <= Len(a)) /\ y - Len(a) = k
      BY <1>1, <1>2, <1>3, <3>1
    <3>3. Pending[y] = b[k]
      BY <2>1, <2>2, <3>2
    <3> QED BY <1>3, <3>1, <3>3
  <2> QED BY <1>2, <1>3, <2>1, <2>2, <2>3, <2>4
<1>5. CASE pc # "full"
  <2>1. Lead = 0 /\ Start = 0 /\ Start + 1 = 1
    BY <1>1, <1>5
  <2>2. Pending = b
    BY <1>5, <2>1 DEF Pending
  <2> HIDE DEF b
  <2>3. \A k \in 1..(nfiles - Start) : Lead + k = k
    BY <1>1, <2>1
  <2>4. Lead + (nfiles - Start) = nfiles - Start /\ 1..Lead = {}
    BY <1>1, <2>1
  <2> QED BY <1>3, <2>2, <2>3, <2>4
<1> QED BY <1>4, <1>5

\* The slot that the k-th of them has.
Slot(k) == IF k <= Lead THEN k ELSE Start + (k - Lead)

LEMMA SlotIs ==
  ASSUME ArrayInv, BetweenMerges, NEW k \in 1..Len(Pending)
  PROVE  /\ k \in Nat /\ Slot(k) \in Users /\ Filled(Slot(k)) /\ Pending[k] = files[Slot(k)]
         /\ k <= Lead + ntemps => Live(Slot(k))
         /\ ~(k <= Lead + ntemps) => Rest(Slot(k))
<1>1. /\ Lead \in Nat /\ Start \in Nat /\ ntemps \in Nat /\ nfiles \in Nat /\ N \in Nat
      /\ Lead <= Start /\ Start + ntemps <= nfiles /\ nfiles <= N
      /\ pc # "merging" /\ ~Taken
  <2>1. /\ {Lead, Start, ntemps, nfiles, N} \subseteq Nat /\ pc # "merging" /\ ~Taken
        /\ Lead <= Start /\ Start + ntemps <= nfiles /\ nfiles <= N
    BY NoMergeRuns
  <2> QED BY <2>1
<1>2. /\ Len(Pending) = Lead + (nfiles - Start)
      /\ \A j \in 1..Lead : Pending[j] = files[j]
      /\ \A j \in 1..(nfiles - Start) : Pending[Lead + j] = files[Start + j]
  BY PendingIs
<1>3. k \in Nat /\ k >= 1 /\ k <= Lead + (nfiles - Start)
  BY <1>1, <1>2
<1>4. CASE k <= Lead
  <2>1. Slot(k) = k /\ k \in 1..Lead /\ k \in 1..N
    BY <1>1, <1>3, <1>4 DEF Slot
  <2>2. Live(k) /\ Filled(k)
    BY <1>1, <1>4 DEF Live, Filled, Window
  <2>3. k <= Lead + ntemps
    BY <1>1, <1>3, <1>4
  <2> QED BY <1>2, <1>3, <2>1, <2>2, <2>3, Sets
<1>5. CASE ~(k <= Lead)
  <2>1. PICK j : j = k - Lead
    OBVIOUS
  <2>2. PICK x : x = Start + j
    OBVIOUS
  <2>3. j \in 1..(nfiles - Start) /\ Lead + j = k /\ x \in 1..N /\ x > Start /\ x <= nfiles
    BY <1>1, <1>3, <1>5, <2>1, <2>2
  <2>4. Slot(k) = x /\ Pending[k] = files[x]
    BY <1>2, <1>5, <2>1, <2>2, <2>3 DEF Slot
  <2>5. (k <= Lead + ntemps <=> x <= Start + ntemps) /\ (~(k <= Lead + ntemps) <=> x > Start + ntemps)
    BY <1>1, <1>3, <2>1, <2>2, <2>3
  <2>6. Filled(x)
    BY <1>1, <2>3 DEF Filled, Window
  <2>7. x \in Users
    BY <2>3, Sets
  <2>8. /\ Live(x) <=> (x <= Lead \/ (x > Start /\ x <= Start + ntemps))
        /\ Rest(x) <=> (x > Start + ntemps /\ x <= nfiles)
    BY <1>1, <2>7, Quiet
  <2> QED BY <1>3, <2>3, <2>4, <2>5, <2>6, <2>7, <2>8
<1> QED BY <1>4, <1>5

LEMMA PendingHolds ==
  ASSUME ArrayInv, OrderInv, BetweenMerges
  PROVE  FlattenSeq([k \in 1..Len(Pending) |-> content[Pending[k]]]) = AllInOrder
<1> DEFINE m == Len(Pending)
           ss == [k \in 1..m |-> content[Pending[k]]]
<1>1. /\ Lead \in Nat /\ Start \in Nat /\ nfiles \in Nat /\ N \in Nat
      /\ Lead <= Start /\ Start <= nfiles /\ nfiles <= N /\ Types /\ Between
  <2>1. /\ {Lead, Start, ntemps, nfiles, N} \subseteq Nat /\ Types /\ Between
        /\ Lead <= Start /\ Start + ntemps <= nfiles /\ nfiles <= N
    BY NoMergeRuns
  <2> QED BY <2>1
<1>2. m = Lead + (nfiles - Start) /\ m \in Nat /\ Pending \in Seq(Files)
  <2>1. m = Lead + (nfiles - Start) /\ Pending \in Seq(Files)
    BY PendingIs
  <2> QED BY <1>1, <2>1
<1>3. PICK c : Cuts(c)
  BY <1>1 DEF OrderInv
<1>4. /\ total \in Nat /\ Users = 1..N /\ c \in [0..N -> 0..total] /\ c[0] = 0
      /\ \A x \in Users : c[x - 1] <= c[x]
      /\ \A x \in 0..N : x >= nfiles => c[x] = total
      /\ c[Lead] = c[Start]
      /\ \A x \in Users : Filled(x) => content[files[x]] = Neighbours(c[x - 1], c[x])
  BY <1>1, <1>3, InOrder, Sets DEF Cuts
<1>5. PICK d : d = [k \in 0..m |-> c[Slot(k)]]
  OBVIOUS
<1>6. ASSUME NEW k \in 0..m PROVE Slot(k) \in 0..N
  <2>1. k \in Nat /\ k <= Lead + (nfiles - Start)
    BY <1>2, <1>6
  <2> QED BY <1>1, <2>1 DEF Slot
<1>7. d \in [0..m -> 0..total] /\ \A k \in 0..m : d[k] = c[Slot(k)]
  <2>1. \A k \in 0..m : c[Slot(k)] \in 0..total
    BY <1>4, <1>6
  <2> HIDE DEF m
  <2> QED BY <1>5, <2>1
<1>8. ASSUME NEW k \in 1..m
      PROVE  /\ d[k - 1] <= d[k] /\ ss[k] = Neighbours(d[k - 1], d[k])
             /\ ss[k] \in Seq(Users)
  <2>1. k - 1 \in 0..m /\ k \in 0..m /\ k \in Nat /\ k >= 1 /\ k - 1 \in Nat
    BY <1>2
  <2>2. PICK x \in Users : x = Slot(k) /\ Filled(x) /\ Pending[k] = files[x]
    BY SlotIs
  <2>3. ss[k] = Neighbours(c[x - 1], c[x]) /\ c[x - 1] <= c[x]
    BY <1>4, <2>2
  <2>4. c[x - 1] = c[Slot(k - 1)]
    <3>1. CASE k <= Lead
      <4>1. x = k /\ k - 1 <= Lead
        BY <1>1, <2>1, <2>2, <3>1 DEF Slot
      <4> QED BY <4>1 DEF Slot
    <3>2. CASE ~(k <= Lead) /\ k - 1 <= Lead
      <4>1. k = Lead + 1 /\ k - 1 = Lead /\ k - Lead = 1
        BY <1>1, <2>1, <3>2
      <4>2. x = Start + 1 /\ Slot(k - 1) = Lead
        BY <2>2, <3>2, <4>1 DEF Slot
      <4>3. x - 1 = Start
        BY <1>1, <4>2
      <4> QED BY <1>4, <4>2, <4>3
    <3>3. CASE ~(k - 1 <= Lead)
      <4>1. ~(k <= Lead)
        BY <1>1, <2>1, <3>3
      <4>2. x = Start + (k - Lead) /\ Slot(k - 1) = Start + ((k - 1) - Lead)
        BY <2>2, <3>3, <4>1 DEF Slot
      <4>3. x - 1 = Start + ((k - 1) - Lead)
        BY <1>1, <2>1, <4>2
      <4> QED BY <4>2, <4>3
    <3>4. k <= Lead \/ ~(k <= Lead)
      OBVIOUS
    <3> QED BY <3>1, <3>2, <3>3, <3>4
  <2>5. d[k - 1] = c[x - 1] /\ d[k] = c[x]
    BY <1>7, <2>1, <2>2, <2>4
  <2>6. ss[k] \in Seq(Users)
    <3>1. Pending[k] \in Files
      BY <1>2
    <3> QED BY <3>1 DEF OrderInv, Holding
  <2> HIDE DEF ss
  <2> QED BY <2>3, <2>5, <2>6
<1>9. ss \in Seq(Seq(Users)) /\ Len(ss) = m
  BY <1>2, <1>8
<1>10. d[0] = 0
  <2>1. 0 \in 0..m /\ 0 <= Lead
    BY <1>1, <1>2
  <2>2. Slot(0) = 0
    BY <2>1 DEF Slot
  <2> QED BY <1>4, <1>7, <2>1, <2>2
<1>11. d[m] = total
  <2>1. m \in 0..m /\ Start \in 0..N /\ nfiles \in 0..N
    BY <1>1, <1>2
  <2>2. CASE m <= Lead
    <3>1. m = Lead /\ Start = nfiles
      BY <1>1, <1>2, <2>2
    <3>2. Slot(m) = Lead /\ c[Start] = total
      <4>1. Start >= nfiles
        BY <1>1, <3>1
      <4>2. Slot(m) = Lead
        BY <3>1, <2>2 DEF Slot
      <4> QED BY <1>4, <2>1, <4>1, <4>2
    <3> QED BY <1>4, <1>7, <2>1, <3>2
  <2>3. CASE ~(m <= Lead)
    <3>1. Slot(m) = nfiles
      BY <1>1, <1>2, <2>3 DEF Slot
    <3>2. c[nfiles] = total
      <4>1. nfiles >= nfiles
        BY <1>1
      <4> QED BY <1>4, <2>1, <4>1
    <3> QED BY <1>7, <2>1, <3>1, <3>2
  <2> QED BY <2>2, <2>3
<1>12. FlattenSeq(ss) = Neighbours(d[0], d[m])
  <2> HIDE DEF m, ss
  <2> QED BY <1>1, <1>2, <1>7, <1>8, <1>9, Flattened
<1> QED BY <1>1, <1>10, <1>11, <1>12, AllOfThem

\* Each file is there once, and the list names those to be removed and the copy.
LEMMA PendingFiles ==
  ASSUME ArrayInv, BetweenMerges, NEW first, first = Lead + ntemps
  PROVE  LET temps == {Pending[k] : k \in 1..first}
             rest  == {Pending[k] : k \in (first + 1)..Len(Pending)}
         IN /\ first <= Len(Pending)
            /\ temps \subseteq Temps \ {tempcopy}
            /\ rest \subseteq Users \cup {tempcopy}
            /\ ToSet(temphead) = temps \cup ({tempcopy} \ {0})
            /\ Cardinality(temps) = first
<1> DEFINE temps == {Pending[k] : k \in 1..first}
           rest  == {Pending[k] : k \in (first + 1)..Len(Pending)}
<1>1. /\ Lead \in Nat /\ Start \in Nat /\ nfiles \in Nat /\ N \in Nat /\ ntemps \in Nat
      /\ Lead <= Start /\ Start + ntemps <= nfiles /\ nfiles <= N
      /\ Types /\ Listed /\ Layout /\ pc # "merging" /\ w.to = 0
  <2>1. /\ {Lead, Start, ntemps, nfiles, N} \subseteq Nat
        /\ Lead <= Start /\ Start + ntemps <= nfiles /\ nfiles <= N
        /\ Types /\ Listed /\ Layout /\ pc # "merging" /\ w.to = 0
    BY NoMergeRuns
  <2> QED BY <2>1
<1>2. /\ Len(Pending) = Lead + (nfiles - Start) /\ Len(Pending) \in Nat /\ Pending \in Seq(Files)
      /\ first \in Nat /\ first <= Len(Pending)
  <2>1. Len(Pending) = Lead + (nfiles - Start) /\ Pending \in Seq(Files)
    BY PendingIs
  <2> QED BY <1>1, <2>1
<1>3. \A k \in 1..first : k \in 1..Len(Pending) /\ k <= first
  BY <1>2
<1>4. \A k \in (first + 1)..Len(Pending) : k \in 1..Len(Pending) /\ ~(k <= first)
  BY <1>2
<1>5. \A k \in 1..first : /\ Slot(k) \in Users /\ Live(Slot(k)) /\ Pending[k] = files[Slot(k)]
  BY <1>3, SlotIs
<1>6. \A k \in (first + 1)..Len(Pending) :
        Slot(k) \in Users /\ Rest(Slot(k)) /\ Pending[k] = files[Slot(k)]
  BY <1>4, SlotIs
<1>7. temps \subseteq Temps \ {tempcopy}
  BY <1>1, <1>5 DEF Layout
<1>8. rest \subseteq Users \cup {tempcopy}
  BY <1>1, <1>6 DEF Layout
<1>9. ASSUME NEW x \in Users, Live(x) PROVE files[x] \in temps
  <2>1. x \in Nat /\ x >= 1 /\ (x <= Lead \/ (x > Start /\ x <= Start + ntemps))
    BY <1>1, <1>9, Quiet, Sets
  <2>2. CASE x <= Lead
    <3>1. Pending[x] = files[x]
      BY <1>1, <2>1, <2>2, PendingIs
    <3>2. x \in 1..first
      BY <1>1, <2>1, <2>2
    <3> QED BY <3>1, <3>2
  <2>3. CASE x > Start /\ x <= Start + ntemps
    <3>1. PICK k : k = x - Start
      OBVIOUS
    <3>2. k \in 1..(nfiles - Start) /\ Start + k = x /\ Lead + k \in 1..first
      BY <1>1, <2>1, <2>3, <3>1
    <3>3. Pending[Lead + k] = files[x]
      BY <3>2, PendingIs
    <3> QED BY <3>2, <3>3
  <2> QED BY <2>1, <2>2, <2>3
<1>10. ToSet(temphead) = temps \cup ({tempcopy} \ {0})
  <2>1. temphead \in Seq(Temps) /\ ToSet(temphead) \subseteq Temps
    BY <1>1 DEF Types, ToSet
  <2>2. \A f \in Temps : f \in ToSet(temphead) <=> f \in disk
    <3>1. DOMAIN temphead = 1..Len(temphead)
      BY <2>1
    <3> QED BY <1>1, <3>1 DEF Listed, ToSet
  <2>3. \A f \in Temps : f # 0 /\ f # w.to
    BY <1>1, Sets
  <2>4. \A f \in Temps : f \in disk <=> (\E x \in Users : Live(x) /\ files[x] = f) \/ f = tempcopy
    BY <1>1, <2>3 DEF Layout
  <2>5. \A f \in temps : \E x \in Users : Live(x) /\ files[x] = f
    BY <1>5
  <2>6. tempcopy \in Temps \cup {0}
    BY <1>1 DEF Types
  <2> HIDE DEF temps
  <2>7. \A f \in Temps : f \in ToSet(temphead) <=> f \in temps \/ f = tempcopy
    BY <1>9, <2>2, <2>4, <2>5
  <2>8. \A f \in temps : f \in Temps
    BY <1>7
  <2> QED BY <2>1, <2>3, <2>6, <2>7, <2>8
<1>11. \A j, k \in 1..first : Pending[j] = Pending[k] => j = k
  <2>1. ASSUME NEW j \in 1..first, NEW k \in 1..first, Pending[j] = Pending[k] PROVE j = k
    <3>1. Slot(j) = Slot(k)
      BY <1>1, <1>5, <2>1 DEF Layout
    <3>2. j \in Nat /\ k \in Nat
      BY <1>2
    <3> QED BY <1>1, <3>1, <3>2 DEF Slot
  <2> QED BY <2>1
<1>12. Cardinality(temps) = first
  <2> DEFINE g == [k \in 1..first |-> Pending[k]]
  <2>1. g \in [1..first -> temps] /\ \A k \in 1..first : g[k] = Pending[k]
    OBVIOUS
  <2>2. \A t \in temps : \E k \in 1..first : g[k] = t
    OBVIOUS
  <2>3. \A j, k \in 1..first : g[j] = g[k] => j = k
    BY <1>11
  <2> HIDE DEF g, temps
  <2>4. g \in Bijection(1..first, temps)
    BY <2>1, <2>2, <2>3, Fun_IsBij
  <2>5. ExistsBijection(1..first, temps)
    BY <2>4, Fun_ExistsBij
  <2> QED BY <1>2, <2>5, FS_CountingElements
<1> QED BY <1>2, <1>7, <1>8, <1>10, <1>12

\* A temporary file that mergefps removes is in the list.
LEMMA ZappedIsListed ==
  ASSUME ArrayInv, pc = "merging", NEW k \in 1..Len(fps), IsTemp(k)
  PROVE  Contains(temphead, fps[k])
<1>1. fps[k] \in disk
  BY ZapApart
<1> QED BY <1>1 DEF ArrayInv, Types, Listed, Contains

\* For every number of files, every scenario and every order of the steps: StableOrder.
\* OrderInv gives what the files hold, and ArrayInv which slots hold temporary files.
THEOREM StableOrderHolds == Spec => []StableOrder
<1>1. ASSUME ArrayInv, OrderInv PROVE StableOrder
  <2>1. Delivered
    BY <1>1 DEF OrderInv
  <2>2. ASSUME BetweenMerges
        PROVE  LET first == IF pc = "full" THEN out + ntemps ELSE ntemps
                   temps == {Pending[k] : k \in 1..first}
                   rest  == {Pending[k] : k \in (first + 1)..Len(Pending)}
               IN /\ FlattenSeq([k \in 1..Len(Pending) |-> content[Pending[k]]]) = AllInOrder
                  /\ first <= Len(Pending)
                  /\ temps \subseteq Temps \ {tempcopy}
                  /\ rest \subseteq Users \cup {tempcopy}
                  /\ ToSet(temphead) = temps \cup ({tempcopy} \ {0})
                  /\ Cardinality(temps) = first
    <3> DEFINE first == IF pc = "full" THEN out + ntemps ELSE ntemps
    <3>1. first = Lead + ntemps
      BY <1>1, <2>2, NoMergeRuns
    <3> HIDE DEF first
    <3>2. FlattenSeq([k \in 1..Len(Pending) |-> content[Pending[k]]]) = AllInOrder
      BY <1>1, <2>2, PendingHolds
    <3>3. /\ first <= Len(Pending)
          /\ {Pending[k] : k \in 1..first} \subseteq Temps \ {tempcopy}
          /\ {Pending[k] : k \in (first + 1)..Len(Pending)} \subseteq Users \cup {tempcopy}
          /\ ToSet(temphead) = {Pending[k] : k \in 1..first} \cup ({tempcopy} \ {0})
          /\ Cardinality({Pending[k] : k \in 1..first}) = first
      BY <1>1, <2>2, <3>1, PendingFiles
    <3>4. /\ FlattenSeq([k \in 1..Len(Pending) |-> content[Pending[k]]]) = AllInOrder
          /\ first <= Len(Pending)
          /\ {Pending[k] : k \in 1..first} \subseteq Temps \ {tempcopy}
          /\ {Pending[k] : k \in (first + 1)..Len(Pending)} \subseteq Users \cup {tempcopy}
          /\ ToSet(temphead) = {Pending[k] : k \in 1..first} \cup ({tempcopy} \ {0})
          /\ Cardinality({Pending[k] : k \in 1..first}) = first
      BY <3>2, <3>3
    <3> QED BY <3>4, Zenon DEF first
  <2>3. pc = "merging" => \A k \in DOMAIN fps : IsTemp(k) => Contains(temphead, fps[k])
    <3>1. DOMAIN fps = 1..Len(fps)
      BY <1>1 DEF ArrayInv, Types
    <3> QED BY <1>1, <3>1, ZappedIsListed
  <2> QED BY <2>1, <2>2, <2>3, Zenon DEF StableOrder, Delivered
<1> QED BY <1>1, ArrayHolds, OrderHolds, PTL

-----------------------------------------------------------------------------
(* Descriptors: without a compressor, sort() goes on with three of them *)

LEMMA MaxIs ==
  ASSUME NEW n \in Nat, NEW T \in SUBSET (1..n), T # {}
  PROVE  Max(T) \in T
<1> DEFINE B == {y \in Nat : \E x \in T : y = n - x}
<1>1. B \in SUBSET Nat /\ B # {}
  <2>1. PICK x \in T : x \in 1..n
    OBVIOUS
  <2>2. n - x \in Nat
    BY <2>1
  <2> QED BY <2>2
<1> HIDE DEF B
<1>2. PICK m \in B : \A y \in B : m <= y
  BY <1>1, MinIs
<1> USE DEF B
<1>3. PICK x \in T : m = n - x
  BY <1>2
<1>4. ASSUME NEW y \in T PROVE x >= y
  <2>1. n - y \in B /\ n - y \in Nat /\ y \in 1..n /\ x \in 1..n
    OBVIOUS
  <2>2. n - x <= n - y
    BY <1>2, <1>3, <2>1
  <2> QED BY <2>1, <2>2
<1> QED BY <1>3, <1>4 DEF Max

\* Each temporary file that is open takes a descriptor.
LEMMA UsedIs ==
  ASSUME options \in Scenarios, fps \in Seq(Temps)
  PROVE  Used = Len(fps) + (IF w.to # Stdout THEN 1 ELSE 0)
                + (IF pc \in {"runs", "run"} \/ cont = "run" THEN 1 ELSE 0)
<1> DEFINE D == DOMAIN fps
           step(h) == [s \in SUBSET D |-> IF s = {} THEN 0
                                          ELSE h[s \ {Max(s)}] + Cost(fps[Max(s)])]
           g == [s \in SUBSET D |-> Cardinality(s)]
           f == CHOOSE h : h = step(h)
<1>1. Len(fps) \in Nat /\ D = 1..Len(fps)
  OBVIOUS
<1>2. IsFiniteSet(D) /\ Cardinality(D) = Len(fps)
  <2>1. 1 \in Int /\ Len(fps) \in Int
    BY <1>1
  <2>2. IsFiniteSet(1..Len(fps)) /\ Cardinality(1..Len(fps)) = IF 1 > Len(fps) THEN 0 ELSE Len(fps) - 1 + 1
    BY <2>1, FS_Interval
  <2> QED BY <1>1, <2>2
<1>3. ASSUME NEW s \in SUBSET D
      PROVE  /\ Cardinality(s) \in Nat /\ (s = {} => Cardinality(s) = 0)
             /\ s # {} => /\ Max(s) \in D /\ s \ {Max(s)} \in SUBSET D
                          /\ Cardinality(s \ {Max(s)}) = Cardinality(s) - 1
  <2>1. IsFiniteSet(s) /\ Cardinality(s) \in Nat
    BY <1>2, FS_Subset, FS_CardinalityType
  <2>2. s = {} => Cardinality(s) = 0
    BY FS_EmptySet
  <2>3. ASSUME s # {} PROVE Max(s) \in s
    BY <1>1, <2>3, MaxIs
  <2>4. ASSUME s # {} PROVE Cardinality(s \ {Max(s)}) = Cardinality(s) - 1
    BY <2>1, <2>3, <2>4, FS_RemoveElement
  <2> QED BY <2>1, <2>2, <2>3, <2>4
<1>4. \A d \in D : Cost(fps[d]) = 1
  <2>1. ASSUME NEW x \in Temps PROVE Cost(x) = 1
    <3>1. x # Stdin
      BY Sets, ExternalAssumption DEF Stdin
    <3> QED BY <3>1 DEF Cost
  <2> QED BY <2>1
<1>5. g = step(g)
  <2>1. ASSUME NEW s \in SUBSET D
        PROVE  g[s] = IF s = {} THEN 0 ELSE g[s \ {Max(s)}] + Cost(fps[Max(s)])
    <3>1. CASE s = {}
      BY <1>3, <3>1
    <3>2. CASE s # {}
      <4>1. /\ Cardinality(s) \in Nat /\ Max(s) \in D /\ s \ {Max(s)} \in SUBSET D
            /\ Cardinality(s \ {Max(s)}) = Cardinality(s) - 1
        BY <1>3, <3>2
      <4>2. Cost(fps[Max(s)]) = 1
        BY <1>4, <4>1
      <4>3. g[s \ {Max(s)}] = Cardinality(s) - 1
        BY <4>1
      <4> HIDE DEF D
      <4> QED BY <3>2, <4>1, <4>2, <4>3
    <3> QED BY <3>1, <3>2
  <2> QED BY <2>1
<1>6. f = step(f)
  <2> HIDE DEF step, g
  <2> QED BY <1>5, Zenon
<1>7. /\ \A s \in SUBSET D : f[s] = IF s = {} THEN 0 ELSE f[s \ {Max(s)}] + Cost(fps[Max(s)])
      /\ \A s \in SUBSET D : g[s] = Cardinality(s)
  <2> HIDE DEF f
  <2> QED BY <1>6
<1>8. f[D] = Len(fps)
  <2> DEFINE T == {k \in Nat : \E s \in SUBSET D : Cardinality(s) = k /\ f[s] # k}
  <2> HIDE DEF f, g, D
  <2>1. CASE T = {}
    BY <1>1, <1>2, <2>1
  <2>2. CASE T # {}
    <3>1. T \in SUBSET Nat
      OBVIOUS
    <3> HIDE DEF T
    <3>2. PICK m \in T : \A y \in T : m <= y
      BY <2>2, <3>1, MinIs
    <3> USE DEF T
    <3>3. m \in Nat /\ \E s \in SUBSET D : Cardinality(s) = m /\ f[s] # m
      BY <3>2
    <3>4. PICK s \in SUBSET D : Cardinality(s) = m /\ f[s] # m
      BY <3>3
    <3>5. s # {}
      BY <1>3, <1>7, <3>4
    <3>6. PICK x \in D : x = Max(s) /\ s \ {x} \in SUBSET D /\ Cardinality(s \ {x}) = m - 1
      BY <1>3, <3>4, <3>5
    <3>7. m - 1 \in Nat /\ ~(m <= m - 1)
      <4>1. Cardinality(s \ {x}) \in Nat
        BY <1>3, <3>6
      <4> QED BY <3>3, <3>6, <4>1
    <3>8. m - 1 \notin T
      BY <3>2, <3>7
    <3>9. f[s \ {x}] = m - 1
      BY <3>6, <3>7, <3>8
    <3>10. f[s] = f[s \ {x}] + Cost(fps[x])
      BY <1>7, <3>5, <3>6
    <3>11. Cost(fps[x]) = 1
      BY <1>4, <3>6
    <3>12. f[s] = m
      BY <3>3, <3>9, <3>10, <3>11
    <3> QED BY <3>4, <3>12
  <2> QED BY <2>1, <2>2
<1>9. Used = f[D] + (IF w.to # Stdout THEN 1 ELSE 0)
             + (IF pc \in {"runs", "run"} \/ cont = "run" THEN 1 ELSE 0)
  <2> DEFINE a == IF w.to # Stdout THEN 1 ELSE 0
             b == IF pc \in {"runs", "run"} \/ cont = "run" THEN 1 ELSE 0
             e == FoldLeft(LAMBDA n, x : n + Cost(x), 0, fps)
  <2>1. Used = e + a + b
    BY Zenon DEF Used
  <2>2. e = f[D]
    BY Zenon DEF FoldLeft, MapThenFoldSet
  <2> QED BY <2>1, <2>2, Zenon
<1> QED BY <1>8, <1>9

\* Each input is a temporary file, which has no child; an input that cannot be opened
\* leaves enough that are.
Spare ==
  /\ \A f \in Temps : state[f] = "UNCOMPRESSED" /\ child[f] = "none"
  /\ pc \notin {"pipe", "fork", "pipein", "forkin"}
  /\ cont = "none" /\ tempcopy = 0 /\ w.ret # "copy"
  /\ Between \/ Working => Start + ntemps = nfiles
  /\ pc = "open" => Len(fps) + (IF w.ret = "last" THEN 0 ELSE 1) <= fds
  /\ pc = "open" /\ w.ret = "shed" => Len(fps) = w.nfiles
  /\ pc = "shed" => Len(fps) = fds
  /\ died \notin {"open", "create", "abnormal"}

\* sort() without --compress-program, and the descriptors that the comment in merge asks for.
Plainly == Sorting /\ ~Compress /\ fds >= 3

SpareInv == Plainly => Spare

PlainInv == ArrayInv /\ Plainly /\ Spare

\* The files that a merge reads are temporary files, which need no child.
LEMMA InputsAreTemps ==
  ASSUME PlainInv, pc \in {"open", "shed"}
  PROVE  /\ fps \in Seq(Temps)
         /\ Len(fps) < w.nfiles =>
              /\ files[w.base + Len(fps) + 1] \in Temps
              /\ ~Compressed(files[w.base + Len(fps) + 1])
<1>1. /\ Working /\ Types /\ Arguments /\ Numbers /\ Layout /\ Control
      /\ pc # "merging" /\ Start + ntemps = nfiles /\ w.ret # "copy"
  BY DEF PlainInv, Plainly, Spare, ArrayInv, Working
<1>2. /\ fps \in Seq(Files) /\ Len(fps) \in Nat /\ w.base \in Nat /\ w.nfiles \in Nat
      /\ nfiles \in Nat /\ ntemps \in Nat /\ Start \in Nat /\ N \in Nat /\ Users = 1..N
      /\ w.ret \in Rets
  BY <1>1, Sets DEF Types, Start
<1>3. Start <= w.base
  <2>1. w.ret \in {"full", "short"} => w.base = in
    BY <1>1 DEF Arguments
  <2>2. w.ret \in {"last", "shed"} => w.base = 0
    BY <1>1 DEF Arguments
  <2>3. w.ret \in {"full", "short", "last", "shed"}
    BY <1>1, <1>2 DEF Control, Rets
  <2>4. w.ret \in {"last", "shed"} => Start = 0
    BY DEF Start, InPass
  <2>5. w.ret \in {"full", "short"} => Start = in
    BY DEF Start, InPass
  <2> QED BY <1>2, <2>1, <2>2, <2>3, <2>4, <2>5
<1>4. ASSUME NEW k \in 1..w.nfiles PROVE files[w.base + k] \in Temps
  <2>1. w.base + w.nfiles <= nfiles /\ nfiles <= N
    BY <1>1 DEF Arguments, Numbers
  <2>2. w.base + k \in Users /\ w.base + k > Start /\ w.base + k <= Start + ntemps
    BY <1>1, <1>2, <1>3, <2>1
  <2>3. Live(w.base + k)
    BY <1>1, <2>2, Quiet
  <2> QED BY <1>1, <2>2, <2>3 DEF Layout
<1>5. \A k \in 1..Len(fps) : fps[k] \in Temps
  <2>1. Len(fps) <= w.nfiles /\ \A k \in 1..Len(fps) : fps[k] = files[w.base + k]
    BY <1>1 DEF Arguments
  <2> QED BY <1>2, <1>4, <2>1
<1>6. fps \in Seq(Temps)
  BY <1>2, <1>5
<1>7. Len(fps) < w.nfiles => files[w.base + Len(fps) + 1] \in Temps
  <2>1. Len(fps) < w.nfiles => Len(fps) + 1 \in 1..w.nfiles /\ w.base + (Len(fps) + 1) = w.base + Len(fps) + 1
    BY <1>2
  <2> QED BY <1>4, <2>1
<1> QED BY <1>6, <1>7 DEF PlainInv, Plainly, Spare, Compressed

\* How many descriptors are free.
LEMMA FreeIs ==
  ASSUME PlainInv
  PROVE  /\ fds \in Nat
         /\ pc = "runs" \/ Between => Free >= 1
         /\ pc \in {"open", "shed"} =>
              /\ Free = fds - Len(fps) - (IF w.ret = "last" THEN 0 ELSE 1)
              /\ Len(fps) \in Nat
<1>1. Types /\ Control /\ options \in Scenarios /\ fds \in Nat /\ fds >= 3
  BY Options DEF PlainInv, Plainly, ArrayInv, Types
<1>2. CASE pc = "runs" \/ Between
  <2>1. fps = <<>> /\ w.to = Stdout
    BY <1>1, <1>2 DEF Control, NoMerge
  <2>2. fps \in Seq(Temps) /\ Len(fps) = 0
    BY <2>1
  <2>3. Used = 0 + 0 + (IF pc \in {"runs", "run"} \/ cont = "run" THEN 1 ELSE 0)
    BY <1>1, <2>1, <2>2, UsedIs
  <2>4. pc \notin {"open", "shed"}
    BY <1>2 DEF Between
  <2> QED BY <1>1, <2>3, <2>4 DEF Free
<1>3. CASE pc \in {"open", "shed"}
  <2>1. fps \in Seq(Temps) /\ Len(fps) \in Nat
    BY <1>3, InputsAreTemps
  <2>2. Working /\ (w.to = Stdout <=> w.ret = "last")
    BY <1>1, <1>3 DEF Control, Working
  <2>3. cont # "run"
    BY DEF PlainInv, Plainly, Spare
  <2>4. Used = Len(fps) + (IF w.ret = "last" THEN 0 ELSE 1) + 0
    BY <1>1, <1>3, <2>1, <2>2, <2>3, UsedIs
  <2>5. ~Between /\ pc # "runs"
    BY <1>3 DEF Between
  <2> QED BY <1>1, <2>1, <2>4, <2>5 DEF Free
<1> QED BY <1>1, <1>2, <1>3

LEMMA DieSpares ==
  ASSUME PlainInv, NEW why, die(why), why \notin {"open", "create", "abnormal"}
  PROVE  Spare'
<1>1. /\ pc' = "exit" /\ died' = why
      /\ UNCHANGED <<cont, tempcopy, w, state, child, options>>
  BY DEF die, mergeVars, procVars
<1>2. ~Between' /\ ~Working'
  BY <1>1 DEF Between, Working
<1> QED BY <1>1, <1>2 DEF PlainInv, Plainly, Spare

\* No input is opened: only the counts matter.
LEMMA CountsSpare ==
  ASSUME PlainInv, UNCHANGED <<tempcopy, died>>, child' = child, cont' = "none",
         \A f \in Temps : state'[f] = "UNCOMPRESSED",
         pc' \notin {"pipe", "fork", "pipein", "forkin", "open", "shed"}, w'.ret # "copy",
         Between' \/ Working' => Start' + ntemps' = nfiles'
  PROVE  Spare'
BY DEF PlainInv, Plainly, Spare

\* A temporary file is made without a compressor.
LEMMA MadeSpare ==
  ASSUME PlainInv, NEW label, NEW free, maybe_create_temp(label, free)
  PROVE  /\ pc' = label /\ cont' = "none"
         /\ \A f \in Temps : state'[f] = "UNCOMPRESSED"
<1>1. /\ IF Compress /\ free >= 3 THEN Pipe("pipe", "fork") /\ cont' = label
                                  ELSE pc' = label /\ cont' = "none"
      /\ state' = [state EXCEPT ![NewTemp] = "UNCOMPRESSED"]
  BY DEF maybe_create_temp
<1>2. ~Compress
  BY DEF PlainInv, Plainly
<1>3. \A f \in Temps : state[f] = "UNCOMPRESSED"
  BY DEF PlainInv, Plainly, Spare
<1>4. \A f \in Temps : state'[f] = state[f] \/ state'[f] = "UNCOMPRESSED"
  BY <1>1
<1> QED BY <1>1, <1>2, <1>3, <1>4

LEMMA NewRunSpares ==
  ASSUME PlainInv, NewRun
  PROVE  Spare'
<1>1. pc = "runs" /\ Free >= 1
  BY FreeIs DEF NewRun
<1>2. /\ maybe_create_temp("run", Free) /\ w' = [NoMerge EXCEPT !.to = NewTemp]
      /\ UNCHANGED <<tempcopy, died, child>>
  BY <1>1 DEF NewRun, mergeVars, endVars
<1>3. /\ pc' = "run" /\ cont' = "none"
      /\ \A f \in Temps : state'[f] = "UNCOMPRESSED"
  BY <1>2, MadeSpare
<1>4. w'.ret = "none" /\ ~Between' /\ ~Working'
  BY <1>2, <1>3 DEF NoMerge, Between, Working
<1> QED BY <1>2, <1>3, <1>4, CountsSpare

\* No child is told that its input has ended.
LEMMA ClosedSpares ==
  ASSUME PlainInv, NEW f, Closed(f)
  PROVE  child' = child
BY DEF PlainInv, Plainly, Spare, Closed

LEMMA CloseRunSpares ==
  ASSUME PlainInv, CloseRun
  PROVE  Spare'
<1>1. /\ Closed(w.to) /\ w' = NoMerge /\ pc' = "runs"
      /\ UNCHANGED <<cont, tempcopy, state, died>>
  BY DEF CloseRun, mergeVars, endVars
<1>2. w'.ret = "none" /\ ~Between' /\ ~Working' /\ child' = child
  BY <1>1, ClosedSpares DEF NoMerge, Between, Working
<1> QED BY <1>1, <1>2, CountsSpare DEF PlainInv, Plainly, Spare

\* The numbers of the array.
LEMMA SpareNumbers ==
  ASSUME PlainInv
  PROVE  /\ ntemps \in Nat /\ nfiles \in Nat /\ in \in Nat /\ out \in Nat /\ N \in Nat
         /\ Start \in Nat /\ w.nfiles \in Nat
         /\ pc \in {"full", "shift"} => Start = in
         /\ pc \in {"avoid", "last"} => Start = 0
BY Sets DEF PlainInv, Plainly, ArrayInv, Types, Control, Between, NoMerge, Start, InPass

LEMMA RunsDoneSpares ==
  ASSUME PlainInv, RunsDone
  PROVE  Spare'
<1>1. /\ pc = "runs" /\ pc' = "pass"
      /\ UNCHANGED <<cont, ntemps, nfiles, tempcopy, w, state, child, died>>
  BY DEF RunsDone, procVars, endVars
<1>2. Making /\ Control
  BY <1>1 DEF Making, PlainInv, Plainly, ArrayInv
<1>3. ntemps = nfiles /\ w = NoMerge
  BY <1>1, <1>2 DEF Control
<1>4. Start' = 0 /\ w'.ret = "none"
  BY <1>1, <1>3 DEF Start, InPass, NoMerge
<1>5. Start' + ntemps' = nfiles'
  BY <1>1, <1>3, <1>4, SpareNumbers
<1> QED BY <1>1, <1>4, <1>5, CountsSpare DEF PlainInv, Plainly, Spare

LEMMA PassSpares ==
  ASSUME PlainInv, Pass
  PROVE  Spare'
<1>1. /\ pc = "pass" /\ ((pc' = "full" /\ in' = 0) \/ pc' = "avoid")
      /\ UNCHANGED <<cont, ntemps, nfiles, tempcopy, w, state, child, died>>
  BY DEF Pass, procVars, endVars
<1>2. w = NoMerge /\ Start + ntemps = nfiles
  BY <1>1 DEF Between, PlainInv, Plainly, ArrayInv, Control, Spare
<1>3. Start = 0 /\ Start' = 0 /\ w'.ret = "none"
  BY <1>1, <1>2 DEF Start, InPass, NoMerge
<1> QED BY <1>1, <1>2, <1>3, CountsSpare DEF PlainInv, Plainly, Spare

LEMMA StartMergeSpares ==
  ASSUME PlainInv, NEW base, NEW nt, NEW n, NEW ret \in {"full", "short"}, StartMerge(base, nt, n, ret),
         pc = "full"
  PROVE  Spare'
<1>1. Between /\ fds \in Nat /\ fds >= 3 /\ Free >= 1
  BY FreeIs DEF Between, PlainInv, Plainly
<1>2. /\ maybe_create_temp("open", Free)
      /\ w' = [base |-> base, ntemps |-> nt, nfiles |-> n, to |-> NewTemp, ret |-> ret]
      /\ UNCHANGED <<ntemps, nfiles, in, tempcopy, fps, child, died>>
  BY <1>1 DEF StartMerge, mergeVars, endVars
<1>3. /\ pc' = "open" /\ cont' = "none"
      /\ \A f \in Temps : state'[f] = "UNCOMPRESSED"
  BY <1>2, MadeSpare
<1>4. w'.ret = ret /\ Start' = Start /\ Start + ntemps = nfiles
  BY <1>1, <1>2, SpareNumbers DEF Start, InPass, PlainInv, Plainly, Spare
<1>5. fps = <<>> /\ Len(fps) + 1 <= fds
  BY <1>1 DEF PlainInv, Plainly, ArrayInv, Control
<1>6. fds' = fds
  BY <1>1, OptionsKept DEF StartMerge, endVars
<1> QED BY <1>2, <1>3, <1>4, <1>5, <1>6 DEF PlainInv, Plainly, Spare

LEMMA PassEndsSpares ==
  ASSUME PlainInv, PassEnds
  PROVE  Spare'
<1>1. /\ pc \in {"full", "shift"} /\ pc' = "pass"
      /\ ntemps' = ntemps + out /\ nfiles' = nfiles - (in - out)
      /\ UNCHANGED <<cont, tempcopy, w, state, child, died>>
  BY DEF PassEnds, procVars, endVars
<1>2. w = NoMerge /\ Start + ntemps = nfiles /\ Start = in
  BY <1>1, SpareNumbers DEF Between, PlainInv, Plainly, ArrayInv, Control, Spare
<1>3. Start' = 0 /\ w'.ret = "none"
  BY <1>1, <1>2 DEF Start, InPass, NoMerge
<1>4. Start' + ntemps' = nfiles'
  BY <1>1, <1>2, <1>3, SpareNumbers
<1> QED BY <1>1, <1>3, <1>4, CountsSpare DEF PlainInv, Plainly, Spare

LEMMA AvoidTrashingSpares ==
  ASSUME PlainInv, AvoidTrashing
  PROVE  Spare'
<1>1. Same = {}
  BY Options DEF PlainInv, Plainly, ArrayInv, Types
<1>2. /\ pc = "avoid" /\ pc' = "avoid"
      /\ UNCHANGED <<cont, ntemps, nfiles, tempcopy, w, state, child, died>>
  BY <1>1 DEF AvoidTrashing, IsSame, procVars, endVars
<1>3. w = NoMerge /\ Start + ntemps = nfiles
  BY <1>2 DEF Between, PlainInv, Plainly, ArrayInv, Control, Spare
<1>4. Start' = Start /\ w'.ret = "none"
  BY <1>2, <1>3 DEF Start, InPass, NoMerge
<1> QED BY <1>2, <1>3, <1>4, CountsSpare DEF PlainInv, Plainly, Spare

LEMMA LastMergeSpares ==
  ASSUME PlainInv, LastMerge
  PROVE  Spare'
<1>1. /\ pc \in {"avoid", "last"} /\ pc' = "open" /\ w'.ret = "last"
      /\ UNCHANGED <<cont, ntemps, nfiles, tempcopy, fps, state, child, died>>
  BY DEF LastMerge, mergeVars, procVars, endVars
<1>2. fps = <<>> /\ Start + ntemps = nfiles /\ Start = 0
  BY <1>1, SpareNumbers DEF Between, PlainInv, Plainly, ArrayInv, Control, Spare
<1>3. Start' = 0 /\ fds \in Nat /\ fds >= 3 /\ Len(fps) = 0
  BY <1>1, <1>2, FreeIs DEF Start, InPass, PlainInv, Plainly
<1>4. options' = options
  BY DEF LastMerge, endVars
<1> QED BY <1>1, <1>2, <1>3, <1>4, OptionsKept DEF PlainInv, Plainly, Spare

LEMMA BeginSpares ==
  ASSUME PlainInv, Working, mergefps
  PROVE  Spare'
<1>1. /\ pc' = "merging" /\ w' = [w EXCEPT !.nfiles = Len(fps)]
      /\ UNCHANGED <<cont, ntemps, nfiles, in, tempcopy, state, child, died>>
  BY DEF mergefps, mergeVars, procVars
<1>2. /\ w \in [base : Nat, ntemps : Nat, nfiles : Nat, to : Temps \cup {Stdout}, ret : Rets]
      /\ pc \notin {"full", "shift"}
  BY DEF PlainInv, Plainly, ArrayInv, Types, Working
<1>3. w'.ret = w.ret
  BY <1>1, <1>2
<1>4. Start' = Start /\ w.ret # "copy" /\ Start + ntemps = nfiles /\ cont = "none"
  BY <1>1, <1>2, <1>3 DEF Start, InPass, PlainInv, Plainly, Spare
<1> QED BY <1>1, <1>3, <1>4, CountsSpare DEF PlainInv, Plainly, Spare

LEMMA OpenSpares ==
  ASSUME PlainInv, Open
  PROVE  Spare'
<1> DEFINE f == files[w.base + Len(fps) + 1]
           x == IF w.ret = "last" THEN 0 ELSE 1
<1>1. pc = "open" /\ Len(fps) < w.nfiles /\ Working
  BY DEF Open, Working
<1>2. fps \in Seq(Temps) /\ f \in Temps
  BY <1>1, InputsAreTemps
<1>3. f # Stdin /\ f \notin Unreadable
  BY <1>2, Sets, ExternalAssumption DEF Stdin, Unreadable, PlainInv, Plainly, ArrayInv, Types
<1>4. Cost(f) = 1
  BY <1>3 DEF Cost
<1>5. /\ fds \in Nat /\ fds >= 3 /\ Len(fps) \in Nat /\ Free = fds - Len(fps) - x
      /\ Len(fps) + x <= fds /\ w.nfiles \in Nat
  BY <1>1, FreeIs, SpareNumbers DEF PlainInv, Plainly, Spare
<1>6. w.ret # "shed" /\ w.ret # "copy" /\ Start + ntemps = nfiles /\ cont = "none"
  BY <1>1, <1>5 DEF PlainInv, Plainly, Spare
<1>7. CASE /\ Free >= Cost(f)
           /\ fps' = Append(fps, f)
           /\ UNCHANGED <<pc, cont, mergeVars, w, tempVars, procVars, endVars>>
  <2>1. /\ UNCHANGED <<pc, cont, ntemps, nfiles, in, tempcopy, w, state, child, died, options>>
    BY <1>7 DEF mergeVars, procVars, endVars
  <2>2. Len(fps') = Len(fps) + 1
    BY <1>2, <1>7
  <2>3. Len(fps') + x <= fds /\ fds' = fds
    BY <1>4, <1>5, <1>7, <2>1, <2>2, OptionsKept
  <2>4. Start' = Start
    BY <2>1 DEF Start, InPass
  <2> QED BY <1>1, <1>6, <2>1, <2>3, <2>4 DEF PlainInv, Plainly, Spare
<1>8. CASE ~(Free >= Cost(f)) /\ OpenFails
  <2>1. Len(fps) + x = fds
    BY <1>4, <1>5, <1>8
  <2>2. ~TooFew
    BY <1>5, <2>1 DEF TooFew
  <2>3. CASE w.ret = "last"
    <3>1. /\ pc' = "shed"
          /\ UNCHANGED <<cont, mergeVars, w, fps, tempVars, procVars, endVars>>
      BY <1>8, <2>2, <2>3 DEF OpenFails
    <3>2. /\ UNCHANGED <<cont, ntemps, nfiles, in, tempcopy, w, fps, state, child, died, options>>
      BY <3>1 DEF mergeVars, procVars, endVars
    <3>3. Len(fps) = fds /\ fds' = fds
      BY <1>5, <2>1, <2>3, <3>2, OptionsKept
    <3>4. Start' = Start
      BY <1>1, <3>1, <3>2 DEF Start, InPass
    <3> QED BY <1>6, <3>1, <3>2, <3>3, <3>4 DEF PlainInv, Plainly, Spare
  <2>4. CASE w.ret # "last"
    BY <1>1, <1>8, <2>2, <2>4, BeginSpares DEF OpenFails
  <2> QED BY <2>3, <2>4
<1> QED BY <1>3, <1>7, <1>8 DEF Open

LEMMA OpenTempSpares ==
  ASSUME PlainInv, OpenTemp
  PROVE  Spare'
BY InputsAreTemps DEF OpenTemp

\* One input is closed, and its descriptor is that of the temporary file.
LEMMA ShedSpares ==
  ASSUME PlainInv, Shed
  PROVE  Spare'
<1> DEFINE left == Front(fps)
           free == Free + Cost(Last(fps))
<1>1. pc = "shed" /\ Working /\ w.ret = "last" /\ Len(fps) = fds
  BY DEF Shed, Working, PlainInv, Plainly, Spare, ArrayInv, Control
<1>2. fps \in Seq(Temps) /\ fds \in Nat /\ fds >= 3 /\ Free = 0
  BY <1>1, InputsAreTemps, FreeIs DEF PlainInv, Plainly
<1>3. Last(fps) \in Temps /\ left \in Seq(Temps) /\ Len(left) = fds - 1
  BY <1>1, <1>2, FrontIs
<1>4. Cost(Last(fps)) = 1
  <2>1. Last(fps) # Stdin
    BY <1>3, Sets, ExternalAssumption DEF Stdin, PlainInv, Plainly, ArrayInv, Types
  <2> QED BY <2>1 DEF Cost
<1>5. free >= 1
  BY <1>2, <1>4
<1>6. /\ maybe_create_temp("open", free) /\ fps' = left
      /\ w' = [w EXCEPT !.ntemps = Min({ntemps, Len(left)}), !.nfiles = Len(left),
                        !.to = NewTemp, !.ret = "shed"]
      /\ UNCHANGED <<ntemps, nfiles, in, tempcopy, child, died, options>>
  BY <1>5 DEF Shed, mergeVars, endVars
<1>7. /\ pc' = "open" /\ cont' = "none"
      /\ \A f \in Temps : state'[f] = "UNCOMPRESSED"
  BY <1>6, MadeSpare
<1>8. w'.ret = "shed" /\ w'.nfiles = Len(left)
  <2>1. w \in [base : Nat, ntemps : Nat, nfiles : Nat, to : Temps \cup {Stdout}, ret : Rets]
    BY DEF PlainInv, Plainly, ArrayInv, Types
  <2> HIDE DEF left
  <2> QED BY <1>6, <2>1
<1>9. Start' = Start /\ Start + ntemps = nfiles
  BY <1>1, <1>6, <1>7, <1>8 DEF Start, InPass, PlainInv, Plainly, Spare
<1>10. fds' = fds /\ Len(fps') + 1 <= fds
  BY <1>2, <1>3, <1>6, OptionsKept
<1> HIDE DEF left, free
<1> QED BY <1>6, <1>7, <1>8, <1>9, <1>10 DEF PlainInv, Plainly, Spare

\* There is no child, and none is forked.
LEMMA ProcessSpares ==
  ASSUME PlainInv
  PROVE  /\ ~ReapSome /\ ~Retry /\ ~Fork /\ ~ForkDecompressor /\ ~ForkFailed
         /\ Zombies = {} /\ \A c \in Temps : ~ChildExit(c)
<1>1. /\ pc \notin {"pipe", "fork", "pipein", "forkin"}
      /\ \A c \in Temps : child[c] = "none"
  BY DEF PlainInv, Plainly, Spare
<1>2. Zombies = {}
  BY <1>1 DEF Zombies
<1>3. \A c \in Temps : ~ChildExit(c)
  BY <1>1 DEF ChildExit, CanFinish, MayFail
<1> QED BY <1>1, <1>2, <1>3 DEF ReapSome, Retry, Fork, ForkDecompressor, ForkFailed

LEMMA EndOfInputSpares ==
  ASSUME PlainInv, EndOfInput
  PROVE  Spare'
<1>1. pc = "merging" /\ Working
  BY DEF EndOfInput, Working
<1>2. PICK k \in DOMAIN fps :
        LET f == fps[k]
            waits == IsTemp(k) /\ Compressed(f) /\ state[f] = "UNREAPED"
        IN /\ AtEnd(k)
           /\ IF waits /\ Abnormal({f}) THEN die("abnormal")
              ELSE /\ IF waits THEN Reaped({f}) ELSE UNCHANGED <<state, child, nprocs>>
                   /\ IF IsTemp(k) THEN zaptemp(f) /\ w' = [w EXCEPT !.ntemps = @ - 1]
                                   ELSE UNCHANGED <<tempVars, w>>
                   /\ fps' = RemoveAt(fps, k)
                   /\ files' = [x \in Users |->
                                  IF x \in (w.base + k)..(w.base + Len(fps) - 1)
                                  THEN files[x + 1] ELSE files[x]]
                   /\ UNCHANGED <<pc, cont, ntemps, nfiles, in, out, i, tempcopy, strangers, endVars>>
  BY Zenon DEF EndOfInput
<1>3. ~Compressed(fps[k])
  BY DEF Compressed, PlainInv, Plainly, Spare
<1>4. /\ UNCHANGED <<state, child>>
      /\ w' = w \/ w' = [w EXCEPT !.ntemps = @ - 1]
      /\ UNCHANGED <<pc, cont, ntemps, nfiles, in, tempcopy, died>>
  BY <1>2, <1>3 DEF endVars
<1>5. w \in [base : Nat, ntemps : Nat, nfiles : Nat, to : Temps \cup {Stdout}, ret : Rets]
  BY DEF PlainInv, Plainly, ArrayInv, Types
<1>6. w'.ret = w.ret
  BY <1>4, <1>5
<1>7. Start' = Start /\ w.ret # "copy" /\ Start + ntemps = nfiles /\ cont = "none"
  BY <1>1, <1>4, <1>6 DEF Start, InPass, PlainInv, Plainly, Spare
<1> QED BY <1>1, <1>4, <1>6, <1>7, CountsSpare DEF PlainInv, Plainly, Spare

LEMMA EndOfMergeSpares ==
  ASSUME PlainInv, EndOfMerge
  PROVE  Spare'
<1>1. /\ pc = "merging" /\ Working /\ Closed(w.to) /\ w' = NoMerge
      /\ UNCHANGED <<cont, state, died>>
  BY DEF EndOfMerge, Working, endVars
<1>2. child' = child /\ w'.ret = "none" /\ cont' = "none"
  BY <1>1, ClosedSpares DEF NoMerge, PlainInv, Plainly, Spare
<1>3. /\ Types /\ Numbers /\ Arguments /\ Start + ntemps = nfiles /\ w.ret # "copy" /\ w.ret # "none"
      /\ w.ret \in Rets
  BY <1>1 DEF PlainInv, Plainly, Spare, ArrayInv, Control, Types
<1>4. /\ ntemps \in Nat /\ nfiles \in Nat /\ in \in Nat /\ w.nfiles \in Nat /\ w.base \in Nat
      /\ w.base + w.nfiles <= nfiles
  BY <1>3 DEF Types, Arguments
<1>5. CASE w.ret \in {"full", "short"}
  <2>1. /\ ntemps' = ntemps - MergedTemps /\ in' = in + w.nfiles
        /\ UNCHANGED <<nfiles, tempcopy>>
        /\ pc' = IF w.ret = "full" THEN "full" ELSE "shift"
    BY <1>5 DEF EndOfMerge
  <2>2. w.base = in /\ Start = in
    BY <1>3, <1>5 DEF Arguments, Start, InPass
  <2>3. w.nfiles <= ntemps
    BY <1>3, <1>4, <2>2
  <2>4. MergedTemps = w.nfiles
    BY <1>4, <2>3, MinOfTwo DEF MergedTemps
  <2>5. Start' = in'
    BY <2>1 DEF Start, InPass
  <2>6. Start' + ntemps' = nfiles'
    BY <1>3, <1>4, <2>1, <2>2, <2>4, <2>5
  <2>7. pc' \in {"full", "shift"}
    BY <2>1
  <2> QED BY <1>1, <1>2, <2>1, <2>6, <2>7, CountsSpare DEF PlainInv, Plainly, Spare
<1>6. CASE w.ret = "shed"
  <2>1. /\ ntemps' = ntemps - MergedTemps + 1 /\ nfiles' = nfiles - (w.nfiles - 1)
        /\ UNCHANGED <<in, tempcopy>> /\ pc' = "last"
    BY <1>6 DEF EndOfMerge
  <2>2. w.base = 0 /\ Start = 0
    BY <1>1, <1>3, <1>6 DEF Arguments, Start, InPass
  <2>3. w.nfiles <= ntemps
    BY <1>3, <1>4, <2>2
  <2>4. MergedTemps = w.nfiles
    BY <1>4, <2>3, MinOfTwo DEF MergedTemps
  <2>5. Start' = 0
    BY <1>2, <2>1 DEF Start, InPass
  <2>6. Start' + ntemps' = nfiles'
    BY <1>3, <1>4, <2>1, <2>2, <2>4, <2>5
  <2> QED BY <1>1, <1>2, <2>1, <2>6, CountsSpare DEF PlainInv, Plainly, Spare
<1>7. CASE w.ret = "last"
  <2>1. pc' = "finish" /\ tempcopy' = tempcopy
    BY <1>7 DEF EndOfMerge, mergeVars
  <2>2. ~Between' /\ ~Working'
    BY <2>1 DEF Between, Working
  <2> QED BY <1>1, <1>2, <2>1, <2>2, CountsSpare DEF PlainInv, Plainly, Spare
<1> QED BY <1>3, <1>5, <1>6, <1>7 DEF Rets

LEMMA FinishSpares ==
  ASSUME PlainInv, Finish
  PROVE  Spare'
<1>1. die("")
  BY ProcessSpares DEF Finish
<1> QED BY <1>1, DieSpares

\* No step changes the options.
LEMMA OptionsStay ==
  ASSUME [Next]_vars
  PROVE  options' = options
<1>1. ASSUME NEW why, die(why) PROVE options' = options
  BY <1>1 DEF die
<1>2. ASSUME NEW next, ReapExited(next) PROVE options' = options
  BY <1>1, <1>2 DEF ReapExited, endVars
<1>3. ASSUME NEW base, NEW nt, NEW n, NEW ret, StartMerge(base, nt, n, ret) PROVE options' = options
  BY <1>1, <1>3 DEF StartMerge, endVars
<1>4. mergefps => options' = options
  BY DEF mergefps
<1>5. OpenFails => options' = options
  BY <1>1, <1>4 DEF OpenFails, endVars
<1>6. NewRun \/ CloseRun \/ RunsDone \/ Pass \/ PassEnds \/ LastMerge => options' = options
  BY <1>1 DEF NewRun, CloseRun, RunsDone, Pass, PassEnds, LastMerge, endVars
<1>7. FullMerge \/ ShortMerge \/ AvoidTrashing => options' = options
  BY <1>3 DEF FullMerge, ShortMerge, AvoidTrashing, endVars
<1>8. Open \/ OpenTemp \/ Opened => options' = options
  BY <1>1, <1>4, <1>5 DEF Open, OpenTemp, Opened, endVars
<1>9. Shed => options' = options
  BY <1>1 DEF Shed, endVars
<1>10. ReapSome \/ Retry \/ Fork \/ ForkDecompressor \/ ForkFailed => options' = options
  BY <1>1, <1>2 DEF ReapSome, Retry, Fork, ForkDecompressor, ForkFailed, endVars
<1>11. EndOfInput => options' = options
  BY <1>1, Zenon DEF EndOfInput, endVars
<1>12. EndOfMerge \/ Finish => options' = options
  BY <1>1 DEF EndOfMerge, Finish, endVars
<1>13. ASSUME NEW c \in Temps, ChildExit(c) PROVE options' = options
  BY <1>13 DEF ChildExit
<1>14. UNCHANGED vars => options' = options
  BY DEF vars, endVars
<1> QED BY <1>6, <1>7, <1>8, <1>9, <1>10, <1>11, <1>12, <1>13, <1>14 DEF Next, Main

LEMMA SpareInit ==
  ASSUME Init
  PROVE  SpareInv
<1>1. Sorting => ~Between /\ ~Working
  BY DEF Init, Between, Working
<1> QED BY <1>1 DEF Init, SpareInv, Plainly, Spare, NoMerge

LEMMA SpareStep ==
  ASSUME PlainInv, [Next]_vars
  PROVE  Spare'
<1>1. CASE UNCHANGED vars
  <2>1. /\ UNCHANGED <<pc, cont, ntemps, nfiles, in, tempcopy, w, fps, state, child, died, options>>
    BY <1>1 DEF vars, mergeVars, procVars, endVars
  <2>2. fds' = fds /\ Start' = Start /\ Between' = Between /\ Working' = Working
    BY <2>1, OptionsKept DEF Start, InPass, Between, Working
  <2> QED BY <2>1, <2>2 DEF PlainInv, Spare
<1>2. CASE Main
  <2>1. CASE FullMerge \/ ShortMerge
    BY <2>1, StartMergeSpares DEF FullMerge, ShortMerge
  <2>2. CASE Opened
    BY <2>2, BeginSpares DEF Opened, Working
  <2> QED BY <1>2, <2>1, <2>2, NewRunSpares, CloseRunSpares, RunsDoneSpares, PassSpares, PassEndsSpares,
             AvoidTrashingSpares, LastMergeSpares, OpenSpares, OpenTempSpares, ShedSpares, ProcessSpares,
             EndOfInputSpares, EndOfMergeSpares, FinishSpares DEF Main
<1> QED BY <1>1, <1>2, ProcessSpares DEF Next

\* Without --compress-program, sort() with descriptors for two inputs and an output merges
\* everything, however many bufferfuls there are and however few files it can open at a
\* time: it never gives up because a file cannot be opened or created (the loop at the end
\* of merge, which makes room by closing an input).
THEOREM SurvivesHolds == Spec => [](~Compress => Survives)
<1>1. Init => SpareInv
  BY SpareInit
<1>2. ArrayInv /\ SpareInv /\ [Next]_vars => SpareInv'
  <2> SUFFICES ASSUME ArrayInv, SpareInv, [Next]_vars, Plainly' PROVE Spare'
    BY DEF SpareInv
  <2>1. options' = options
    BY OptionsStay
  <2>2. Plainly
    BY <2>1 DEF Plainly, Sorting, Compress, fds
  <2>3. PlainInv
    BY <2>2 DEF PlainInv, SpareInv
  <2> QED BY <2>3, SpareStep
<1>3. SpareInv => (~Compress => Survives)
  BY DEF SpareInv, Spare, Plainly, Survives
<1> QED BY <1>1, <1>2, <1>3, ArrayHolds, PTL DEF Spec
=============================================================================

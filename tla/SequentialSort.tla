------------------------------- MODULE SequentialSort -------------------------------
(***************************************************************************)
(* sequential_sort and mergelines of sort.c: the lines that one thread     *)
(* sorts alone.  Lines are in reverse order in memory and a pointer points *)
(* just past them, so that memory[p - k] is the k-th line of the array p.  *)
(* A line is a record whose key is what compare looks at.                  *)
(***************************************************************************)
EXTENDS Integers

CONSTANT Addresses   \* where the program has memory for lines

Line == [key : Int, id : Int]
Memory == [Addresses -> Line]

compare(a, b) == a.key - b.key

\* The places of an array of n lines.
Places(p, n) == (p - n)..(p - 1)

-----------------------------------------------------------------------------
(* mergelines: the nlo lines before lo and the nhi lines before hi are     *)
(* merged into the lines before t.                                         *)

TakeLo(s) ==
  [s EXCEPT !.memory = [s.memory EXCEPT ![s.t - 1] = s.memory[s.lo - 1]],
            !.t = s.t - 1, !.lo = s.lo - 1, !.nlo = s.nlo - 1]
TakeHi(s) ==
  [s EXCEPT !.memory = [s.memory EXCEPT ![s.t - 1] = s.memory[s.hi - 1]],
            !.t = s.t - 1, !.hi = s.hi - 1, !.nhi = s.nhi - 1]

\* Mutant: the last line of HI is taken for the end of the merge.
MoveLine_NoDrain(s) ==
  IF s.nlo = 0 \/ s.nhi = 0 THEN s
  ELSE IF compare(s.memory[s.lo - 1], s.memory[s.hi - 1]) <= 0 THEN TakeLo(s) ELSE TakeHi(s)

\* What remains of HI when LO ends is in its place already.
MoveLine(s) ==
  IF s.nlo = 0 THEN s
  ELSE IF s.nhi = 0 \/ compare(s.memory[s.lo - 1], s.memory[s.hi - 1]) <= 0 THEN TakeLo(s)
  ELSE TakeHi(s)

Entering(memory, t, nlines, lo) ==
  LET nlo == nlines \div 2
  IN [memory |-> memory, t |-> t, lo |-> lo, nlo |-> nlo, hi |-> t - nlo, nhi |-> nlines - nlo]

mergelines(memory, t, nlines, lo) ==
  LET moved[k \in 0..nlines] ==
        IF k = 0 THEN Entering(memory, t, nlines, lo) ELSE MoveLine(moved[k - 1])
  IN moved[nlines].memory

-----------------------------------------------------------------------------
(* sequential_sort *)

\* Two lines are exchanged, through temp, or copied to it.
SortTwo(memory, lines, temp, to_temp) ==
  LET a == memory[lines - 1]  b == memory[lines - 2]
      swap == 0 < compare(a, b)
  IN IF to_temp
     THEN [memory EXCEPT ![temp - 1] = IF swap THEN b ELSE a, ![temp - 2] = IF swap THEN a ELSE b]
     ELSE IF swap THEN [memory EXCEPT ![temp - 1] = a, ![lines - 1] = b, ![lines - 2] = a]
                  ELSE memory

\* TEMP is as large as LINES if the result is to be there, half-sized otherwise.
Room(nlines, to_temp) == IF to_temp THEN nlines ELSE nlines \div 2
SortArguments ==
  {c \in [memory : Memory, lines : Int, nlines : Nat \ {0, 1}, temp : Int, to_temp : BOOLEAN] :
     /\ Places(c.lines, c.nlines) \subseteq Addresses
     /\ Places(c.temp, Room(c.nlines, c.to_temp)) \subseteq Addresses
     /\ Places(c.lines, c.nlines) \cap Places(c.temp, Room(c.nlines, c.to_temp)) = {}}

HiHalf(c) ==
  LET nlo == c.nlines \div 2
  IN [c EXCEPT !.lines = c.lines - nlo, !.nlines = c.nlines - nlo,
               !.temp = c.temp - (IF c.to_temp THEN nlo ELSE 0)]
LoHalf(c, memory) ==
  [c EXCEPT !.memory = memory, !.nlines = c.nlines \div 2, !.to_temp = ~ c.to_temp]

sequential_sort[c \in SortArguments] ==
  IF c.nlines = 2 THEN SortTwo(c.memory, c.lines, c.temp, c.to_temp)
  ELSE LET nlo == c.nlines \div 2
           hiSorted == sequential_sort[HiHalf(c)]
           loSorted == IF 1 < nlo THEN sequential_sort[LoHalf(c, hiSorted)]
                       ELSE IF ~ c.to_temp
                            THEN [hiSorted EXCEPT ![c.temp - 1] = hiSorted[c.lines - 1]]
                            ELSE hiSorted
           dest == IF c.to_temp THEN c.temp ELSE c.lines
           sorted_lo == IF c.to_temp THEN c.lines ELSE c.temp
       IN mergelines(loSorted, dest, c.nlines, sorted_lo)
=============================================================================

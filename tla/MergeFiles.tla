------------------------------- MODULE MergeFiles -------------------------------
(***************************************************************************)
(* mergefps of sort.c, the merge of files that are sorted, and check, which *)
(* tests whether a file is.  Both read a file through fillbuf, one         *)
(* bufferful of lines after the other: a file is a sequence of bufferfuls, *)
(* none of them empty, and the end of a line's storage is the end of its   *)
(* bufferful.  A line is a record whose key is what compare looks at.      *)
(***************************************************************************)
EXTENDS Integers, Sequences, SequencesExt

compare(a, b) == a.key - b.key

(* The state of a merge: the arrays files, fps (the bufferfuls that are    *)
(* not read yet) and cur (the lines from cur to base), ord, ntemps, the    *)
(* saved line of -u, what was written, and which files were zapped.        *)

\* The first bufferful of each file; files without one are dropped.
RECURSIVE ReadInitial(_, _)
ReadInitial(m, i) ==
  IF i > Len(m.fps) THEN m
  ELSE IF m.fps[i] # <<>>
  THEN ReadInitial([m EXCEPT !.cur = Append(@, Head(m.fps[i])), !.fps[i] = Tail(@)], i + 1)
  ELSE ReadInitial([m EXCEPT !.ntemps = IF i <= m.ntemps THEN @ - 1 ELSE @,
                             !.zapped = IF i <= m.ntemps THEN Append(@, m.files[i]) ELSE @,
                             !.files = RemoveAt(@, i), !.fps = RemoveAt(@, i)], i)

\* Neighbours are exchanged, from the start again, until ord is in order.
RECURSIVE SetUpOrd(_, _, _)
SetUpOrd(cur, ord, i) ==
  IF i > Len(ord) THEN ord
  ELSE IF 0 < compare(cur[ord[i - 1]][1], cur[ord[i]][1])
  THEN SetUpOrd(cur, [ord EXCEPT ![i - 1] = ord[i], ![i] = ord[i - 1]], 2)
  ELSE SetUpOrd(cur, ord, i + 1)

\* The smallest line is written or, with -u, saved if it differs from the saved one.
Output(m, unique) ==
  LET smallest == m.cur[m.ord[1]][1]
      differs  == m.saved # <<>> /\ compare(m.saved[1], smallest) # 0
  IN IF ~ unique THEN [m EXCEPT !.out = Append(@, smallest)]
     ELSE [m EXCEPT !.out = IF differs THEN Append(@, m.saved[1]) ELSE @,
                    !.saved = IF differs \/ @ = <<>> THEN <<smallest>> ELSE @]

\* Mutant: the number of temporary files stays.
AtEof_NtempsStays(m) ==
  LET ended == m.ord[1]
      others == Tail(m.ord)
  IN [m EXCEPT !.ord = [k \in DOMAIN others |-> IF others[k] > ended THEN others[k] - 1 ELSE others[k]],
               !.zapped = IF ended <= m.ntemps THEN Append(@, m.files[ended]) ELSE @,
               !.files = RemoveAt(@, ended), !.fps = RemoveAt(@, ended), !.cur = RemoveAt(@, ended)]

\* The file of the smallest line has ended: it is closed and removed from the arrays.
AtEof(m) ==
  LET ended == m.ord[1]
      temp  == ended <= m.ntemps
      others == Tail(m.ord)
  IN [m EXCEPT !.ord = [k \in DOMAIN others |-> IF others[k] > ended THEN others[k] - 1 ELSE others[k]],
               !.ntemps = IF temp THEN @ - 1 ELSE @,
               !.zapped = IF temp THEN Append(@, m.files[ended]) ELSE @,
               !.files = RemoveAt(@, ended), !.fps = RemoveAt(@, ended), !.cur = RemoveAt(@, ended)]

\* The place of the line of ord[1] among the others, by binary search from lo up to hi.
RECURSIVE Probe(_, _, _, _)
Probe(m, lo, hi, probe) ==
  IF lo >= hi THEN lo
  ELSE LET ord0 == m.ord[1]
           other == m.ord[probe + 1]
           cmp  == compare(m.cur[ord0][1], m.cur[other][1])
       IN IF cmp < 0 \/ (cmp = 0 /\ ord0 < other)
          THEN Probe(m, lo, probe, (lo + probe) \div 2)
          ELSE Probe(m, probe + 1, hi, (probe + 1 + hi) \div 2)

PushBack(m) ==
  LET smaller == Probe(m, 1, Len(m.ord), 1) - 1
  IN [m EXCEPT !.ord = InsertAt(Tail(@), smaller + 1, m.ord[1])]

\* One line after the other; at the end, what -u has saved.
RECURSIVE MergeLoop(_, _)
MergeLoop(m, unique) ==
  IF m.ord = <<>> THEN [m EXCEPT !.out = @ \o m.saved]
  ELSE LET o == Output(m, unique)
           f == o.ord[1]
       IN MergeLoop(IF Len(o.cur[f]) > 1 THEN PushBack([o EXCEPT !.cur[f] = Tail(@)])
                    ELSE IF o.fps[f] # <<>>
                    THEN PushBack([o EXCEPT !.cur[f] = Head(o.fps[f]), !.fps[f] = Tail(@)])
                    ELSE AtEof(o), unique)

mergefps(inputs, ntemps, unique) ==
  LET start == [files |-> [i \in DOMAIN inputs |-> i], fps |-> inputs, cur |-> <<>>,
                ord |-> <<>>, ntemps |-> ntemps, saved |-> <<>>, out |-> <<>>, zapped |-> <<>>]
      first == ReadInitial(start, 1)
      ord   == SetUpOrd(first.cur, [i \in DOMAIN first.files |-> i], 2)
  IN MergeLoop([first EXCEPT !.ord = ord], unique)

-----------------------------------------------------------------------------
(* check *)

\* The number of the first line that is out of order, or 0.  The last line of a bufferful is
\* kept to compare the next one with.
check(file, unique) ==
  LET RECURSIVE Bufferful(_, _, _)
      Bufferful(bufs, temp, line_number) ==
        IF bufs = <<>> THEN 0
        ELSE LET lines == temp \o Head(bufs)
                 disorder == {i \in 2..Len(lines) :
                   (IF unique THEN 0 ELSE 1) <= compare(lines[i - 1], lines[i])}
             IN IF disorder # {}
                THEN line_number - Len(temp) + CHOOSE i \in disorder : \A j \in disorder : i <= j
                ELSE Bufferful(Tail(bufs), <<Last(lines)>>, line_number + Len(Head(bufs)))
  IN Bufferful(file, <<>>, 0)
=============================================================================

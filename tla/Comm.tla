------------------------------- MODULE Comm -------------------------------
(***************************************************************************)
(* comm.c: compare_files, with check_order and writeline.  A line is a     *)
(* number.  The options are a record: the columns that are not suppressed, *)
(* and check_input_order.  What is written is a sequence of                *)
(* <<class, column separators before it, line>>.                           *)
(***************************************************************************)
EXTENDS Integers, Sequences, FiniteSets

writeline(line, class, o) ==
  IF class \notin o.columns THEN <<>>
  ELSE << <<class, Cardinality({c \in o.columns : c < class}), line>> >>

(* The state of the loop: rest is what is still to be read of each file,   *)
(* thisline its next line (<<>> at its end), buffers its four line buffers *)
(* and alt the ones that hold its last three lines.                        *)
Start(files) ==
  [rest |-> files, thisline |-> <<<<>>, <<>>>>,
   buffers |-> [i \in 1..2 |-> [b \in 0..3 |-> <<>>]], alt |-> [i \in 1..2 |-> <<0, 0, 0>>],
   seen_unpairable |-> FALSE, warned |-> {}, died |-> FALSE,
   out |-> <<>>, total |-> [class \in 1..3 |-> 0]]

\* readlinebuffer_delim into the first of alt.
Read(s, i) ==
  IF s.rest[i] = <<>> THEN [s EXCEPT !.thisline[i] = <<>>]
  ELSE [s EXCEPT !.thisline[i] = <<Head(s.rest[i])>>, !.rest[i] = Tail(@),
                 !.buffers[i][s.alt[i][1]] = <<Head(s.rest[i])>>]

check_order(s, prev, current, i, o) ==
  LET checks == /\ o.check_input_order # "disabled" /\ i \notin s.warned
                /\ o.check_input_order = "enabled" \/ s.seen_unpairable
  IN IF ~ (checks /\ prev[1] > current[1]) THEN s
     ELSE [s EXCEPT !.warned = @ \cup {i}, !.died = o.check_input_order = "enabled"]

\* The buffers rotate, a line is read and checked; at the end, the last two are checked again.
Step_TwoBack(s, i, o) ==   \* mutant: a line is compared with the one before the previous one
  LET a == s.alt[i]
      r == Read([s EXCEPT !.alt[i] = <<(a[1] + 1) % 4, a[1], a[2]>>], i)
      b == r.buffers[i]
  IN IF s.died THEN s
     ELSE IF r.thisline[i] # <<>> THEN check_order(r, b[a[2]], r.thisline[i], i, o)
     ELSE check_order(r, b[a[2]], b[a[1]], i, o)
Step(s, i, o) ==
  LET a == s.alt[i]
      r == Read([s EXCEPT !.alt[i] = <<(a[1] + 1) % 4, a[1], a[2]>>], i)
      b == r.buffers[i]
  IN IF s.died THEN s
     ELSE IF r.thisline[i] # <<>> THEN check_order(r, b[a[1]], r.thisline[i], i, o)
     ELSE check_order(r, b[a[2]], b[a[1]], i, o)

\* The lesser line is written, and its file stepped; both files if the lines are equal.
RECURSIVE Loop(_, _)
Loop(s, o) ==
  LET one == s.thisline[1]
      two == s.thisline[2]
      class == IF one = <<>> THEN 2 ELSE IF two = <<>> THEN 1
               ELSE IF one[1] = two[1] THEN 3 ELSE IF one[1] < two[1] THEN 1 ELSE 2
      line == IF class = 1 THEN one[1] ELSE two[1]
      t == [s EXCEPT !.total[class] = @ + 1, !.out = @ \o writeline(line, class, o),
                     !.seen_unpairable = @ \/ class # 3]
      u == IF class \in {1, 3} THEN Step(t, 1, o) ELSE t
      v == IF class \in {2, 3} THEN Step(u, 2, o) ELSE u
  IN IF s.died \/ (one = <<>> /\ two = <<>>) THEN s ELSE Loop(v, o)

compare_files(files, o) == Loop(Read(Read(Start(files), 1), 2), o)
=============================================================================

-------------------------------- MODULE Jumps --------------------------------
(***************************************************************************)
(* objdump.c: the lines that --visualize-jumps draws from jumps to their   *)
(* targets.  A list of jumps is a sequence; a jump has the set of places   *)
(* it starts from.  A line of the picture is a function from columns to    *)
(* marks and colours; the colour, a hash of the target, is the target.     *)
(***************************************************************************)
EXTENDS Integers, Sequences, FiniteSets, SequencesExt, FiniteSetsExt

jump_info_new(start, end, level) == [start |-> {start}, end |-> end, level |-> level]

jump_info_min_address(ji) == Min(ji.start \cup {ji.end})
jump_info_max_address(ji) == Max(ji.start \cup {ji.end})
jump_info_size(ji) == jump_info_max_address(ji) - jump_info_min_address(ji)

\* Mutant: jumps that only meet do not intersect.
jump_info_intersect_Strict(a, b) ==
  /\ jump_info_max_address(a) > jump_info_min_address(b)
  /\ jump_info_min_address(a) < jump_info_max_address(b)

jump_info_intersect(a, b) ==
  /\ jump_info_max_address(a) >= jump_info_min_address(b)
  /\ jump_info_min_address(a) <= jump_info_max_address(b)

\* Jumps to the same place are one, where the first is.
jump_info_merge(jumps) ==
  LET firsts == SelectSeq([k \in DOMAIN jumps |-> k], LAMBDA k : \A i \in 1..(k - 1) : jumps[i].end # jumps[k].end)
      starts(end) == UNION {ji.start : ji \in {j \in ToSet(jumps) : j.end = end}}
  IN [n \in DOMAIN firsts |-> [jumps[firsts[n]] EXCEPT !.start = starts(jumps[firsts[n]].end)]]

\* A stable sort: smaller ones first, then those with the smaller address.
jump_info_sort(jumps) ==
  LET before(i, k) ==
        LET a == <<jump_info_size(jumps[i]), jump_info_min_address(jumps[i]), i>>
            b == <<jump_info_size(jumps[k]), jump_info_min_address(jumps[k]), k>>
        IN \E p \in 1..3 : a[p] < b[p] /\ \A q \in 1..(p - 1) : a[q] = b[q]
      rank(k) == Cardinality({i \in DOMAIN jumps : before(i, k)}) + 1
  IN [n \in DOMAIN jumps |-> jumps[CHOOSE k \in DOMAIN jumps : rank(k) = n]]

\* One level: the first of the list, and what intersects with none of the level so far.
NextLevel(s) ==
  LET place(g, it) ==
        IF \E ji \in ToSet(g.group) : jump_info_intersect(ji, it) THEN [g EXCEPT !.left = Append(@, it)]
        ELSE [g EXCEPT !.group = Append(@, [it EXCEPT !.level = s.level])]
      first == [Head(s.left) EXCEPT !.level = s.level]
      g == FoldLeft(place, [group |-> <<first>>, left |-> <<>>], Tail(s.left))
  IN [jumps |-> s.jumps \o g.group, left |-> g.left, level |-> s.level + 1]

\* The jumps that were found, in the order of their addresses.
disassemble_jumps(found) ==
  LET listed == Reverse([k \in DOMAIN found |-> jump_info_new(found[k].at, found[k].target, -1)])
      next(s, k) == IF s.left = <<>> THEN s ELSE NextLevel(s)
      sorted == jump_info_sort(jump_info_merge(listed))
  IN FoldLeft(next, [jumps |-> <<>>, left |-> sorted, level |-> 0], [k \in DOMAIN found |-> k]).jumps

-----------------------------------------------------------------------------
(* The picture.                                                            *)

Blank == [mark |-> " ", color |-> -1]

\* A start or an end of a jump: a line to the right, and the corner.
Arm(line, offset, ji, mark, other, corner) ==
  LET last == Cardinality(DOMAIN line) - 1
      new(i) == CASE i = last -> IF line[i].mark = " " THEN mark ELSE IF line[i].mark = other THEN "X" ELSE ""
                  [] i = offset -> IF line[i].mark = " " THEN corner ELSE ""
                  [] i \in (offset + 1)..(last - 1) -> IF line[i].mark = " " THEN "-" ELSE ""
                  [] OTHER -> ""
  IN [i \in DOMAIN line |-> IF new(i) = "" THEN line[i] ELSE [mark |-> new(i), color |-> ji.end]]

Drawn(line, offset, ji, address) ==
  LET min == jump_info_min_address(ji)
      max == jump_info_max_address(ji)
  IN IF address \in ji.start
     THEN Arm(line, offset, ji, "-", ">",
              IF address <= ji.end THEN (IF min = address THEN "/" ELSE "+")
              ELSE IF max = address THEN "\\" ELSE "+")
     ELSE IF address = ji.end
     THEN Arm(line, offset, ji, ">", "-", IF min < address THEN (IF max > address THEN ">" ELSE "\\") ELSE "/")
     ELSE IF line[offset].mark = " " THEN [line EXCEPT ![offset] = [mark |-> "|", color |-> ji.end]]
     ELSE line

\* What is left of the jumps, and the line.
jump_info_visualize_address(jumps, address, max_level) ==
  LET needed == SelectSeq(jumps, LAMBDA ji : jump_info_max_address(ji) >= address)
      step(line, ji) == IF jump_info_min_address(ji) > address THEN line
                        ELSE Drawn(line, (max_level - ji.level) * 3, ji, address)
  IN [jumps |-> needed,
      line |-> FoldLeft(step, [i \in 0..((max_level + 1) * 3 - 1) |-> Blank], needed)]
=============================================================================

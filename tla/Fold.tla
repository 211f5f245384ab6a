--------------------------------- MODULE Fold ---------------------------------
(***************************************************************************)
(* fold.c.  A character is its number in ASCII; what is written is a       *)
(* sequence of characters.  line_out is kept from file to file, but not    *)
(* what it holds.  A file may not open, and the read behind its last       *)
(* character may fail.                                                     *)
(***************************************************************************)
EXTENDS Integers, Sequences, SequencesExt

CONSTANT TAB_WIDTH

Newline == 10
Blank(c) == c \in {9, 32}

adjust_column(column, c, count_bytes) ==
  CASE count_bytes -> column + 1
    [] c = 8 -> IF column > 0 THEN column - 1 ELSE 0
    [] c = 13 -> 0
    [] c = 9 -> column + TAB_WIDTH - (column % TAB_WIDTH)
    [] OTHER -> column + 1

\* Mutant: the column of what is moved to the next line is what is left of the old one.
RECURSIVE Placed_OldColumn(_, _, _)
Placed_OldColumn(s, c, job) ==
  LET column == adjust_column(s.column, c, job.count_bytes)
      spaces == {k \in DOMAIN s.line_out : Blank(s.line_out[k])}
      end == CHOOSE k \in spaces : \A b \in spaces : b <= k
      moved == SubSeq(s.line_out, end + 1, Len(s.line_out))
  IN IF column <= job.width THEN [s EXCEPT !.column = column, !.line_out = Append(@, c)]
     ELSE IF job.break_spaces /\ spaces # {}
     THEN Placed_OldColumn([out |-> s.out \o SubSeq(s.line_out, 1, end) \o <<Newline>>, line_out |-> moved,
                            column |-> Len(moved)], c, job)
     ELSE IF s.line_out = <<>> THEN [s EXCEPT !.column = column, !.line_out = <<c>>]
     ELSE Placed_OldColumn([out |-> s.out \o s.line_out \o <<Newline>>, line_out |-> <<>>, column |-> 0], c, job)

\* From rescan on: a character goes to line_out, after the line is written if it is full.
RECURSIVE Placed(_, _, _)
Placed(s, c, job) ==
  LET column == adjust_column(s.column, c, job.count_bytes)
      spaces == {k \in DOMAIN s.line_out : Blank(s.line_out[k])}
      end == CHOOSE k \in spaces : \A b \in spaces : b <= k
      moved == SubSeq(s.line_out, end + 1, Len(s.line_out))
  IN IF column <= job.width THEN [s EXCEPT !.column = column, !.line_out = Append(@, c)]
     ELSE IF job.break_spaces /\ spaces # {}
     THEN Placed([out |-> s.out \o SubSeq(s.line_out, 1, end) \o <<Newline>>, line_out |-> moved,
                  column |-> FoldLeft(LAMBDA n, d : adjust_column(n, d, job.count_bytes), 0, moved)],
                 c, job)
     ELSE IF s.line_out = <<>> THEN [s EXCEPT !.column = column, !.line_out = <<c>>]
     ELSE Placed([out |-> s.out \o s.line_out \o <<Newline>>, line_out |-> <<>>, column |-> 0], c, job)

fold_file(m, file, job) ==
  LET put(s, c) == IF c = Newline
                   THEN [out |-> s.out \o Append(s.line_out, c), line_out |-> <<>>, column |-> 0]
                   ELSE Placed(s, c, job)
      s == FoldLeft(put, [out |-> m.out, line_out |-> <<>>, column |-> 0], file.text)
  IN IF ~ file.opens THEN [m EXCEPT !.ok = FALSE]
     ELSE [out |-> s.out \o s.line_out, ok |-> m.ok /\ ~ file.fails]

main(job) ==
  FoldLeft(LAMBDA m, file : fold_file(m, file, job), [out |-> <<>>, ok |-> TRUE], job.files)
=============================================================================

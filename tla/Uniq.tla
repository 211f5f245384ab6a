------------------------------- MODULE Uniq -------------------------------
(***************************************************************************)
(* uniq.c: check_file and what it compares and writes.  A line is a        *)
(* sequence of characters without its delimiter.  The options are a record *)
(* of uniq.c's variables.  What is written is a sequence of <<count, line>>*)
(* (count is 0 when it is not printed) and of <<>>, an empty line.         *)
(* Left out: -i, and obsolete ways to give options.                        *)
(***************************************************************************)
EXTENDS Integers, Sequences, SequencesExt

CONSTANTS Blanks, UINTMAX_MAX

\* The end of a run of characters from i on that are in a set.
Past(line, i, chars) ==
  Min({k \in i..Len(line) : k = Len(line) \/ line[k + 1] \notin chars})

\* What is left of a line after skip_fields fields and skip_chars characters.
find_field(line, o) ==
  LET nonblank == {line[k] : k \in DOMAIN line} \ Blanks
      RECURSIVE Skip(_, _)
      Skip(i, count) == IF count = 0 \/ i = Len(line) THEN i
                        ELSE Skip(Past(line, Past(line, i, Blanks), nonblank), count - 1)
      i == Skip(0, o.skip_fields)
  IN SubSeq(line, i + Min({o.skip_chars, Len(line) - i}) + 1, Len(line))

different(old, new, o) ==
  LET oldlen == Min({o.check_chars, Len(old)})
      newlen == Min({o.check_chars, Len(new)})
  IN oldlen # newlen \/ SubSeq(old, 1, oldlen) # SubSeq(new, 1, oldlen)

writeline(line, match, linecount, o) ==
  IF IF linecount = 0 THEN o.output_unique
     ELSE IF ~ match THEN o.output_first_repeated ELSE o.output_later_repeated
  THEN << <<IF o.count THEN linecount + 1 ELSE 0, line>> >> ELSE <<>>

\* The lines are written as they are read: one of each group, or all with delimiters.
RECURSIVE AtOnce(_, _, _)
AtOnce(lines, prev, o) ==
  IF lines = <<>> THEN IF o.grouping \in {"both", "append"} /\ prev # <<>> THEN << <<>> >> ELSE <<>>
  ELSE LET line == Head(lines)
           new_group == prev = <<>> \/ different(find_field(line, o), find_field(prev[1], o), o)
           delimit == /\ new_group
                      /\ \/ o.grouping \in {"prepend", "both"}
                         \/ prev # <<>> /\ o.grouping \in {"append", "separate"}
           writes == new_group \/ o.grouping # "none"
       IN (IF delimit THEN << <<>> >> ELSE <<>>) \o (IF writes THEN << <<0, line>> >> ELSE <<>>)
            \o AtOnce(Tail(lines), IF writes THEN <<line>> ELSE prev, o)

\* Mutant: a group's count is not reset when -D writes.
RECURSIVE Counted_NoReset(_, _, _, _, _)
Counted_NoReset(lines, prev, match_count, first_delimiter, o) ==
  IF lines = <<>> THEN writeline(prev, FALSE, match_count, o)
  ELSE LET line == Head(lines)
           match == ~ different(find_field(line, o), find_field(prev, o), o)
           count == Min({match_count + (IF match THEN 1 ELSE 0), UINTMAX_MAX - 1})
           writes == ~ match \/ o.output_later_repeated
       IN (IF writes THEN writeline(prev, match, count, o) ELSE <<>>)
            \o Counted_NoReset(Tail(lines), IF writes THEN line ELSE prev,
                       IF match \/ o.output_later_repeated THEN count ELSE 0, first_delimiter, o)

\* A line is written when the next one is known to match or not.
RECURSIVE Counted(_, _, _, _, _)
Counted(lines, prev, match_count, first_delimiter, o) ==
  IF lines = <<>> THEN writeline(prev, FALSE, match_count, o)
  ELSE LET line == Head(lines)
           match == ~ different(find_field(line, o), find_field(prev, o), o)
           count == Min({match_count + (IF match THEN 1 ELSE 0), UINTMAX_MAX - 1})
           first == first_delimiter /\ (match \/ count = 0 \/ o.delimit_groups = "none")
           delimit == /\ match /\ count = 1
                      /\ \/ o.delimit_groups = "prepend"
                         \/ o.delimit_groups = "separate" /\ ~ first_delimiter
           writes == ~ match \/ o.output_later_repeated
       IN (IF delimit THEN << <<>> >> ELSE <<>>)
            \o (IF writes THEN writeline(prev, match, count, o) ELSE <<>>)
            \o Counted(Tail(lines), IF writes THEN line ELSE prev,
                       IF match THEN count ELSE 0, first, o)

check_file(lines, o) ==
  IF o.output_unique /\ o.output_first_repeated /\ ~ o.count THEN AtOnce(lines, <<>>, o)
  ELSE IF lines = <<>> THEN <<>> ELSE Counted(Tail(lines), lines[1], 0, TRUE, o)
=============================================================================

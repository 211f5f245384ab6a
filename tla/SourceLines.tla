----------------------------- MODULE SourceLines -----------------------------
(***************************************************************************)
(* objdump.c: show_line, which with -l and -S shows where the code of an   *)
(* address comes from: the function, the line, the source.  c.source has   *)
(* the options and the files; a file name is a sequence, "/" first if it   *)
(* is absolute.  s is the state: what was shown last, the files seen so    *)
(* far (print_files) and the output.                                       *)
(***************************************************************************)
EXTENDS Integers, Sequences, SequencesExt, FiniteSetsExt

CONSTANTS
  Context,  \* SHOW_PRECEDING_CONTEXT_LINES, at least 1
  LF, CR

None == <<>>

\* The places where the lines start that have an end.
index_file(text) ==
  LET two(p) == p < Len(text) /\ text[p + 1] \in {LF, CR} \ {text[p]}
      next(p) == IF two(p) THEN p + 2 ELSE p + 1
      step(m, p) == IF p < m.skip \/ text[p] \notin {LF, CR} THEN m
                    ELSE [skip |-> next(p), start |-> next(p), linemap |-> Append(m.linemap, m.start)]
  IN FoldLeft(step, [skip |-> 1, start |-> 1, linemap |-> <<>>], [p \in DOMAIN text |-> p]).linemap

print_line(p, linenum) ==
  IF linenum \notin DOMAIN p.linemap THEN <<>>
  ELSE LET start == p.linemap[linenum]
           end == Min({e \in start..Len(p.text) : p.text[e] \in {LF, CR}})
       IN <<[what |-> "source", file |-> p.filename, line |-> linenum, text |-> SubSeq(p.text, start, end - 1)]>>
dump_lines(p, start, end) == FlattenSeq([k \in 1..(end - start + 1) |-> print_line(p, start + k - 1)])

\* The file, found under its own name or in a directory given with -I; empty: there is none.
update_source_path(c, filename) ==
  LET names == <<filename>> \o [i \in DOMAIN c.include_paths |-> Append(c.include_paths[i], Last(filename))]
      found == SelectSeq(names, LAMBDA n : n \in DOMAIN c.files)
      text == c.files[found[1]]
  IN IF found = <<>> THEN <<>>
     ELSE <<[filename |-> filename, text |-> text, linemap |-> index_file(text), last_line |-> 0,
             max_printed |-> 0, first |-> TRUE]>>

\* --prefix and --prefix-strip.
Relocated(c, filename) ==
  LET fname == Tail(filename)
      strip == Min({c.prefix_strip, Len(fname) - 1})
  IN IF filename = None \/ c.prefix = None THEN filename
     ELSE IF filename[1] # "/" THEN filename
     ELSE c.prefix \o SubSeq(fname, strip + 1, Len(fname))

\* Mutant: lines shown for other code are shown again.
FirstLine_Again(c, p, linenumber) ==
  IF c.file_start_context /\ p.first THEN 1 ELSE Max({linenumber - Context, 1})

\* The first line to show before a line.
FirstLine(c, p, linenumber) ==
  LET l == IF linenumber < Context THEN 1 ELSE linenumber - Context
  IN CASE c.file_start_context /\ p.first -> 1
       [] ~ (c.file_start_context /\ p.first) /\ p.max_printed < l -> l
       [] OTHER -> IF p.max_printed < linenumber THEN p.max_printed + 1 ELSE linenumber

\* The source, from a file that is (n) in the list.
Sources(s, c, n, linenumber) ==
  LET p == s.print_files[n]
  IN IF linenumber = p.last_line THEN s
     ELSE [s EXCEPT !.out = @ \o dump_lines(p, FirstLine(c, p, linenumber), linenumber),
                    !.print_files[n] = [p EXCEPT !.max_printed = Max({@, linenumber}),
                                                 !.last_line = linenumber, !.first = FALSE]]
Source(s, c, filename, linenumber) ==
  LET n == SelectInSeq(s.print_files, LAMBDA p : p.filename = filename)
      opened(p) == [s EXCEPT !.print_files = p \o @]
      open(p) == IF p = <<>> THEN s ELSE Sources(opened(p), c, 1, linenumber)
  IN IF ~ c.with_source_code \/ filename = None \/ linenumber = 0 THEN s
     ELSE IF n # 0 THEN Sources(s, c, n, linenumber)
     ELSE open(update_source_path(c, filename))

\* The function and the line.
Position(s, c, info, filename) ==
  LET other == info.functionname # None /\ info.functionname # s.prev_functionname
      prev_line == IF other THEN -1 ELSE s.prev_line
      function == IF other THEN <<[what |-> "function", name |-> info.functionname]>> ELSE <<>>
      line == IF info.linenumber > 0
                 /\ (info.linenumber # prev_line \/ info.discriminator # s.prev_discriminator)
              THEN <<[what |-> "line", file |-> filename, line |-> info.linenumber,
                      discriminator |-> info.discriminator]>>
              ELSE <<>>
      inlined == IF c.unwind_inlines
                 THEN [k \in DOMAIN info.inliners |-> [what |-> "inlined", by |-> info.inliners[k]]] ELSE <<>>
  IN IF ~ c.with_line_numbers THEN s
     ELSE [s EXCEPT !.out = @ \o function \o line \o inlined, !.prev_line = prev_line]

\* What show_line remembers.
Remembered(s, info) ==
  [s EXCEPT !.prev_functionname = IF info.functionname # None THEN info.functionname ELSE @,
            !.prev_line = IF info.linenumber > 0 THEN info.linenumber ELSE @,
            !.prev_discriminator = info.discriminator]

\* info is what libbfd finds for an address: <<>>, or one record.
show_line(s, c, found) ==
  IF found = <<>> \/ (~ c.with_line_numbers /\ ~ c.with_source_code) THEN s
  ELSE LET info == found[1]
           filename == Relocated(c, info.filename)
       IN Remembered(Source(Position(s, c, info, filename), c, filename, info.linenumber), info)

\* At the start of disassemble_data.
Unshown == [prev_functionname |-> None, prev_line |-> -1, prev_discriminator |-> 0, print_files |-> <<>>]
=============================================================================

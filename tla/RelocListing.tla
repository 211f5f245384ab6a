---------------------------- MODULE RelocListing ----------------------------
(***************************************************************************)
(* objdump.c: -r and -R, the relocations of the sections of each file, as  *)
(* they are stored, and the list of -j.  s is the state of a run: the      *)
(* output, only_list and exit_status; over: bfd_fatal ended the program.   *)
(***************************************************************************)
EXTENDS Integers, Sequences, SequencesExt

None == <<>>

add_only(only_list, name) ==
  IF \E k \in DOMAIN only_list : only_list[k].name = name THEN only_list
  ELSE <<[name |-> name, seen |-> FALSE]>> \o only_list

\* Mutant: of an object, only the last section counts.
process_section_p_Last(s, name) ==
  [s EXCEPT !.only_list = [k \in DOMAIN s.only_list |-> [s.only_list[k] EXCEPT !.seen = s.only_list[k].name = name]]]

\* A section was looked for, and is seen.
process_section_p(s, name) ==
  [s EXCEPT !.only_list = [k \in DOMAIN s.only_list |->
                             [s.only_list[k] EXCEPT !.seen = @ \/ s.only_list[k].name = name]]]
Wanted(s, name) == s.only_list = <<>> \/ \E k \in DOMAIN s.only_list : s.only_list[k].name = name

free_only_list(s) ==
  IF s.only_list = <<>> \/ \E k \in DOMAIN s.only_list : s.only_list[k].seen THEN s
  ELSE [s EXCEPT !.out = @ \o [k \in DOMAIN s.only_list |-> [what |-> "unseen", name |-> s.only_list[k].name]],
                 !.exit_status = 1]

Put(s, what, name) == [s EXCEPT !.out = Append(@, [what |-> what, name |-> name])]
nonfatal(s) == [s EXCEPT !.exit_status = 1]
bfd_fatal(s) == [s EXCEPT !.exit_status = 1, !.over = TRUE]

-----------------------------------------------------------------------------
(* Relocations.  t is s with what was printed last for this set, and the   *)
(* next relocation.                                                        *)

\* Function and line.  A line with a discriminator is printed without one, and without one with 0.
Located(t, found) ==
  LET info == found[1]
      function == info.functionname # None /\ info.functionname # t.last_functionname
      line == /\ info.linenumber > 0
              /\ \/ info.linenumber # t.last_line
                 \/ info.filename # None /\ t.last_filename # None /\ info.filename # t.last_filename
                 \/ info.discriminator # t.last_discriminator
      lines == (IF function THEN <<[what |-> "function", name |-> info.functionname]>> ELSE <<>>)
               \o (IF line THEN <<[what |-> "line", line |-> info.linenumber, file |-> info.filename,
                                   discriminator |-> IF info.discriminator > 0 THEN <<>> ELSE <<0>>]>>
                   ELSE <<>>)
  IN IF found = <<>> THEN t
     ELSE [t EXCEPT !.s.out = @ \o lines,
                    !.last_functionname = IF function THEN info.functionname ELSE @,
                    !.last_line = IF line THEN info.linenumber ELSE @,
                    !.last_filename = IF line THEN info.filename ELSE @,
                    !.last_discriminator = IF line THEN info.discriminator ELSE @]

\* R_SPARC_OLO10 is stored as two relocations.
Halves(o, relocs, k) ==
  /\ o.sparc /\ k < Len(relocs)
  /\ relocs[k].type = "R_SPARC_LO10" /\ relocs[k + 1].type = "R_SPARC_13"
  /\ relocs[k].address = relocs[k + 1].address

Printed(t, o, relocs, k) ==
  LET q == relocs[k]
      halves == Halves(o, relocs, k)
  IN [t EXCEPT !.next = IF halves THEN k + 2 ELSE k + 1,
               !.s.out = Append(@, [what |-> "reloc", address |-> q.address,
                                    type |-> IF halves THEN "R_SPARC_OLO10" ELSE q.type,
                                    value |-> IF q.sym = <<>> THEN [of |-> "unknown", name |-> 0]
                                              ELSE IF q.sym[1].name = 0
                                              THEN [of |-> "section", name |-> q.sym[1].section]
                                              ELSE [of |-> "symbol", name |-> q.sym[1].name],
                                    addends |-> SelectSeq(<<q.addend>> \o (IF halves THEN <<relocs[k + 1].addend>> ELSE <<>>),
                                                          LAMBDA a : a # 0)])]

\* infos: what libbfd finds for each address, of a section.
dump_reloc_set(s, c, o, infos, relocs) ==
  LET first == [s |-> s, next |-> 1, last_functionname |-> None, last_filename |-> None, last_line |-> 0,
                last_discriminator |-> 0]
      left_out(q) == \/ c.start_address # -1 /\ q.address < c.start_address
                     \/ c.stop_address # -1 /\ q.address > c.stop_address
      found(q) == IF c.with_line_numbers /\ infos # <<>> THEN infos[q.address + 1] ELSE <<>>
      step(t, k) == IF k < t.next \/ left_out(relocs[k]) THEN t
                    ELSE Printed(Located(t, found(relocs[k])), o, relocs, k)
  IN FoldLeft(step, first, [k \in DOMAIN relocs |-> k]).s

\* A table of relocations: of size 0 there is none, below it is not readable.
Table(s, c, o, infos, table) ==
  IF table.size < 0 \/ ~ table.readable THEN bfd_fatal(s)
  ELSE IF table.size = 0 \/ table.relocs = <<>> THEN Put(s, "none", 0)
  ELSE dump_reloc_set(s, c, o, infos, table.relocs)

\* Of a section, the header comes before what can fail; of the dynamic ones, not before the size.
Header(s, o, sec) ==
  IF sec # 0 THEN Put(s, "relocs", o.sections[sec].name)
  ELSE IF o.dynamic.size < 0 THEN s ELSE Put(s, "dynamic relocs", 0)
TableOf(s, c, o, sec) ==
  Table(Header(s, o, sec), c, o, IF sec = 0 THEN <<>> ELSE o.sections[sec].infos,
        IF sec = 0 THEN o.dynamic ELSE o.sections[sec].table)

\* A section, or (0) the dynamic ones, for which no section is looked for.
dump_relocs_in_section(s, c, o, sec) ==
  LET seen == IF sec = 0 THEN s ELSE process_section_p(s, o.sections[sec].name)
  IN IF sec = 0 \/ (sec # 0 /\ Wanted(s, o.sections[sec].name) /\ o.sections[sec].reloc) THEN TableOf(seen, c, o, sec)
     ELSE seen

-----------------------------------------------------------------------------
(* Objects, archives, files.                                               *)

\* -r shows the sections, -R (place 0) the dynamic ones, after them.
dump_bfd(s, c, o) ==
  LET places == (IF c.dump_reloc_info THEN [k \in DOMAIN o.sections |-> k] ELSE <<>>)
                \o (IF c.dump_dynamic_reloc_info THEN <<0>> ELSE <<>>)
      step(t, sec) == IF t.over THEN t ELSE dump_relocs_in_section(t, c, o, sec)
  IN FoldLeft(step, Put(s, "file", o.id), places)

\* "strange": ambiguous, or an object or a core in which libbfd finds an error.
display_object_bfd(s, c, o) ==
  IF o.format \in {"object", "core"} THEN dump_bfd(s, c, o) ELSE nonfatal(s)

\* A file that is no archive is here one with a single member.
display_any_bfd(s, c, file) ==
  LET step(t, o) == IF t.over THEN t ELSE display_object_bfd(t, c, o)
      shown == FoldLeft(step, IF file.archive THEN Put(s, "archive", 0) ELSE s, file.members)
  IN IF file.corrupt /\ ~ shown.over THEN nonfatal(shown) ELSE shown

display_file(s, c, file) == IF file.missing THEN nonfatal(s) ELSE display_any_bfd(s, c, file)

main(c) ==
  LET start == [out |-> <<>>, exit_status |-> 0, over |-> FALSE, only_list |-> FoldLeft(add_only, <<>>, c.j)]
      step(s, file) == IF s.over THEN s ELSE display_file(s, c, file)
      end == FoldLeft(step, start, c.files)
  IN IF end.over THEN end ELSE free_only_list(end)
=============================================================================

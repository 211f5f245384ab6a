-------------------------------- MODULE Readelf --------------------------------
(***************************************************************************)
(* readelf.c: what passes from one file to the next.  The passes over an   *)
(* object share the tables of a Filedata, the members of an archive share  *)
(* one Filedata, and everything shares the options.  A table is the number *)
(* of the object it was read from, and what a pass prints is known by the  *)
(* numbers of the tables it used: NULL among them is a crash.  s is the    *)
(* state: options do, Filedata fd, object o, output out, and ok, the value *)
(* of the last pass.                                                       *)
(***************************************************************************)
EXTENDS Integers, Sequences, FiniteSets, SequencesExt

NULL == 0

Tags == {"SYMTAB", "HASH", "STRTAB", "SYMINFO", "SYMINSZ", "RELSZ"}

calloc ==
  [section_headers |-> NULL, string_table |-> NULL, program_headers |-> NULL, dynamic_addr |-> NULL,
   dynamic_section |-> NULL, dynamic_symbols |-> NULL, dynamic_strings |-> NULL,
   dynamic_syminfo |-> NULL, dynamic_syminfo_offset |-> NULL, buckets |-> NULL,
   section_headers_groups |-> NULL, version_info |-> NULL, dynamic_info |-> [t \in Tags |-> NULL],
   program_interpreter |-> NULL, num_dump_sects |-> 0, dump_sects |-> {}]

Does(s, option) == option \in s.do
\* A file with e_shnum above 0 has its loops over section headers, if there are any headers or not.
Sections(s) == IF s.o.sections \in {"good", "unreadable"} THEN 1..s.o.e_shnum ELSE {}
Has(s, table) == s.o.sections = "good" /\ table \in s.o.has

\* What is printed used these tables, and those of the second set if they are there.
Shows(s, what, tables, others) ==
  [s EXCEPT !.out = Append(@, [of |-> s.o.id, what |-> what,
                               from |-> {s.fd[t] : t \in tables} \cup ({s.fd[t] : t \in others} \ {NULL})])]
ShowsIf(s, c, what, tables, others) == IF c THEN Shows(s, what, tables, others) ELSE s
Returns(s, b) == [s EXCEPT !.ok = b]
Fails(s) == Returns(Shows(s, "error", {}, {}), FALSE)

-----------------------------------------------------------------------------
(* Dumps of sections.                                                      *)

request_dump_bynumber(fd, section, flag) ==
  [fd EXCEPT !.num_dump_sects = IF section >= @ THEN section + 1 ELSE @,
             !.dump_sects = IF flag THEN @ \cup {section} ELSE @]

\* The command line's requests, in place of what an earlier member left.
InitialDumps(fd, cmdline) ==
  LET zeroed == IF fd.num_dump_sects > cmdline.num_dump_sects THEN [fd EXCEPT !.dump_sects = {}] ELSE fd
      there == IF zeroed.num_dump_sects = 0 THEN request_dump_bynumber(zeroed, cmdline.num_dump_sects, FALSE)
               ELSE zeroed
  IN IF cmdline.num_dump_sects = 0 THEN zeroed
     ELSE [there EXCEPT !.dump_sects = {n \in @ : n >= cmdline.num_dump_sects} \cup cmdline.dump_sects]

initialise_dumps_byname(s, names) ==
  [s EXCEPT !.fd = FoldSet(LAMBDA n, fd : request_dump_bynumber(fd, n, TRUE), s.fd,
                           IF s.fd.string_table = NULL THEN {} ELSE {n \in names : n \in Sections(s)})]

DumpSections(s) ==
  Returns(FoldLeft(LAMBDA t, n : Shows(t, "dump " \o ToString(n), {"section_headers"}, {"string_table"}),
                   s, SetToSortSeq(s.fd.dump_sects \cap Sections(s), LAMBDA a, b : a < b)),
          s.fd.dump_sects \subseteq Sections(s))
process_section_contents(s) ==
  IF ~ Does(s, "dump") THEN Returns(s, TRUE)
  ELSE DumpSections(initialise_dumps_byname(s, s.cmdline.dump_sects_byname))

-----------------------------------------------------------------------------
(* The passes.                                                             *)

FreeTables(s) ==
  [s EXCEPT !.fd.section_headers = NULL, !.fd.dynamic_symbols = NULL, !.fd.dynamic_strings = NULL,
            !.fd.dynamic_syminfo = NULL]

\* The tables of dynamic symbols and strings, and the dumps of debug sections.
ScanSections(s) ==
  LET named == s.fd.string_table # NULL
      debug == IF Does(s, "debug") /\ named /\ Has(s, "debug") THEN {s.o.e_shnum} ELSE {}
      read == [s EXCEPT !.fd.dynamic_symbols = IF Has(s, "dynsym") THEN s.o.id ELSE NULL,
                        !.fd.dynamic_strings = IF Has(s, "dynstr") /\ named THEN s.o.id ELSE NULL]
  IN [read EXCEPT !.fd = FoldSet(LAMBDA n, fd : request_dump_bynumber(fd, n, TRUE), @, debug)]

process_section_headers(s) ==
  LET freed == FreeTables(s)
      strings == CASE s.o.shstrtab = "good" -> s.o.id [] s.o.shstrtab = "unreadable" -> NULL
                   [] OTHER -> s.fd.string_table
      scanned == ScanSections([freed EXCEPT !.fd.section_headers = s.o.id, !.fd.string_table = strings])
  IN CASE s.o.sections = "none" -> Returns(ShowsIf(freed, Does(s, "sections"), "no sections", {}, {}), TRUE)
       [] s.o.sections \in {"nocount", "unreadable"} -> Fails(freed)
       [] OTHER -> Returns(ShowsIf(scanned, Does(s, "sections"), "sections", {"section_headers"}, {"string_table"}),
                           TRUE)

process_section_groups(s) ==
  IF ~ Does(s, "unwind") /\ ~ Does(s, "section_groups") THEN Returns(s, TRUE)
  ELSE IF Sections(s) = {} THEN Returns(ShowsIf(s, Does(s, "section_groups"), "no groups", {}, {}), TRUE)
  ELSE IF s.fd.section_headers = NULL THEN Fails(s)
  ELSE LET t == [s EXCEPT !.fd.section_headers_groups = s.o.id]
       IN Returns(ShowsIf(t, Does(s, "section_groups"), IF Has(s, "groups") THEN "groups" ELSE "no groups",
                          {"section_headers"}, {"string_table"}), TRUE)

\* PT_DYNAMIC and PT_INTERP; an interpreter's name is only cleared to read another one.
ReadSegments(s) ==
  [s EXCEPT !.fd.program_headers = s.o.id,
            !.fd.dynamic_addr = IF s.o.dynamic # "none" THEN s.o.id ELSE NULL,
            !.fd.program_interpreter = IF s.o.interp # NULL THEN s.o.interp ELSE @]

MapSections(s) ==
  ShowsIf(s, Does(s, "segments") /\ s.fd.section_headers # NULL /\ s.fd.string_table # NULL,
          "mapping", {"section_headers", "string_table"}, {})

process_program_headers(s) ==
  LET reset == [s EXCEPT !.fd.dynamic_addr = NULL]
      listed == ShowsIf(ReadSegments(reset), Does(s, "segments"), "segments", {"program_headers"}, {})
  IN CASE s.o.segments = "nocount" -> Fails(reset)
       [] s.o.segments = "none" -> Returns(ShowsIf(reset, Does(s, "segments"), "no segments", {}, {}), TRUE)
       [] s.o.segments = "unreadable" -> Returns(Shows(reset, "error", {}, {}), TRUE)
       [] OTHER -> Returns(MapSections(listed), TRUE)

get_num_dynamic_syms(s) ==
  IF (Does(s, "histogram") \/ (Does(s, "using_dynamic") /\ ~ Does(s, "dyn_syms"))) /\ s.fd.dynamic_info["HASH"] # NULL
  THEN [s EXCEPT !.fd.buckets = s.o.id]
  ELSE s

\* The symbols, strings and information on symbols that section headers did not lead to.
DynamicSymbols(s) ==
  LET early == [s EXCEPT !.fd.dynamic_info =
                  [t \in Tags |-> IF t \in {"SYMTAB", "HASH"} /\ t \in s.o.tags THEN s.o.id ELSE @[t]]]
      found(c) == [c EXCEPT !.fd.dynamic_symbols = IF c.fd.buckets = s.o.id /\ @ = NULL
                                                   THEN c.fd.dynamic_info["SYMTAB"] ELSE @]
  IN found(IF s.fd.dynamic_symbols = NULL \/ Does(s, "histogram") THEN get_num_dynamic_syms(early) ELSE s)

DynamicStrings(s) ==
  [s EXCEPT !.fd.dynamic_strings = IF @ = NULL /\ "STRTAB" \in s.o.tags THEN s.o.id ELSE @]

DynamicSyminfo(s) ==
  LET offset == IF s.fd.dynamic_syminfo = NULL /\ "SYMINFO" \in s.o.tags THEN s.o.id
                ELSE s.fd.dynamic_syminfo_offset
  IN [s EXCEPT !.fd.dynamic_syminfo_offset = offset,
               !.fd.dynamic_syminfo = IF @ = NULL /\ offset # NULL /\ "SYMINSZ" \in s.o.tags THEN offset ELSE @]

\* The entries as they are listed.  A needed library that is the interpreter is marked as such.
ListDynamic(s) ==
  LET parsed == [s EXCEPT !.fd.version_info = IF "VERSYM" \in s.o.has THEN s.o.id ELSE @,
                          !.fd.dynamic_info = [t \in Tags |-> IF t \in s.o.tags THEN s.o.id ELSE @[t]]]
      marked == /\ s.o.needed # NULL /\ s.fd.dynamic_strings # NULL
                /\ s.o.needed = s.fd.program_interpreter
  IN ShowsIf(parsed, Does(s, "dynamic"), IF marked THEN "dynamic section with interpreter" ELSE "dynamic section",
             {"dynamic_section"}, {"dynamic_strings"})

process_dynamic_section(s) ==
  IF s.fd.dynamic_addr = NULL THEN Returns(ShowsIf(s, Does(s, "dynamic"), "no dynamic section", {}, {}), TRUE)
  ELSE IF s.o.dynamic = "unreadable" THEN Fails(s)
  ELSE LET read == [s EXCEPT !.fd.dynamic_section = s.o.id]
       IN Returns(ListDynamic(DynamicSyminfo(DynamicStrings(DynamicSymbols(read)))), TRUE)

process_relocs(s) ==
  LET dynamic == s.fd.dynamic_info["RELSZ"] # NULL
      owner == {s.fd.dynamic_info["RELSZ"]}
      from(t) == [t EXCEPT !.out[Len(t.out)].from = @ \cup owner]
      sections == IF Sections(s) = {} THEN {} ELSE {"section_headers"}
  IN Returns(
     IF ~ Does(s, "reloc") THEN s
     ELSE IF Does(s, "using_dynamic")
     THEN IF dynamic THEN from(Shows(s, "relocs", {}, {"dynamic_symbols", "dynamic_strings"}))
          ELSE Shows(s, "no dynamic relocs", {}, {})
     ELSE IF Has(s, "relocs") THEN Shows(s, "relocs", sections, {"string_table"})
     ELSE IF dynamic THEN from(Shows(s, "no static relocs", sections, {}))
     ELSE Shows(s, "no relocs", sections, {}), TRUE)

process_unwind(s) ==
  Returns(ShowsIf(s, Does(s, "unwind"), IF s.o.handler THEN "unwind" ELSE "no unwind",
                  IF s.o.handler /\ Sections(s) # {} THEN {"section_headers", "section_headers_groups"} ELSE {},
                  {"string_table"}), TRUE)

\* The lengths of the lists of buckets, which are then released.
Histogram(s) ==
  LET shown == ShowsIf(s, Does(s, "histogram") /\ s.fd.buckets # NULL, "histogram", {"buckets"}, {})
  IN [shown EXCEPT !.fd.buckets = NULL]

process_symbol_table(s) ==
  LET image == /\ s.fd.dynamic_info["HASH"] # NULL /\ Does(s, "syms") /\ Does(s, "using_dynamic")
               /\ s.fd.dynamic_strings # NULL /\ s.fd.dynamic_symbols # NULL
      sections == /\ Does(s, "dyn_syms") \/ (Does(s, "syms") /\ ~ Does(s, "using_dynamic"))
                  /\ s.fd.section_headers # NULL
      tables == {t \in {"dynsym", "symtab"} : Has(s, t) /\ (t = "dynsym" \/ Does(s, "syms"))}
      symbols == IF image THEN Shows(s, "image symbols", {"dynamic_symbols", "dynamic_strings"}, {"version_info"})
                 ELSE IF sections
                 THEN ShowsIf(s, tables # {}, IF "symtab" \in tables THEN "symbols" ELSE "dynamic symbols", {"section_headers"}, {"string_table", "version_info"})
                 ELSE ShowsIf(s, Does(s, "syms"), "no symbols", {}, {})
  IN Returns(IF {"syms", "dyn_syms", "histogram"} \cap s.do = {} THEN s ELSE Histogram(symbols), TRUE)

process_syminfo(s) ==
  IF s.fd.dynamic_syminfo = NULL \/ ~ Does(s, "dynamic") THEN Returns(s, TRUE)
  ELSE IF s.fd.dynamic_symbols = NULL \/ s.fd.dynamic_strings = NULL THEN Returns(s, FALSE)
  ELSE Returns(Shows(s, "syminfo", {"dynamic_syminfo", "dynamic_symbols", "dynamic_strings"}, {"dynamic_section"}), TRUE)

\* Walks over the section headers: what they show is printed, if there is any.
Walk(s, option, what) ==
  Returns(ShowsIf(s, Does(s, option), IF Has(s, what) THEN what ELSE "no " \o what,
                  IF Sections(s) = {} THEN {} ELSE {"section_headers"}, {"string_table"}), TRUE)
process_version_sections(s) == Walk(s, "version", "versions")
process_gnu_liblist(s) == Walk(s, "arch", "liblist")
process_arch_specific(s) == Walk(s, "arch", "attributes")

\* Notes are looked for in segments if no section has any; headers that are missing do no harm.
process_notes(s) ==
  LET read == [s EXCEPT !.fd.program_headers = IF s.o.segments = "good" THEN s.o.id ELSE @]
  IN Returns(IF ~ Does(s, "notes") THEN s
             ELSE IF Has(s, "notes") THEN Shows(s, "notes", {"section_headers"}, {"string_table"})
             ELSE ShowsIf(read, s.o.segments = "good" /\ s.o.note_segment, "notes", {"program_headers"}, {}), TRUE)

-----------------------------------------------------------------------------
(* An object.                                                              *)

\* Mutant: without section headers, libraries and attributes are still looked for.
GivenUp_KeepsArch(do) ==
  do \ ({"unwind", "version", "dump"}
          \cup IF "using_dynamic" \in do THEN {} ELSE {"syms", "dyn_syms", "reloc"})

\* What is given up without section headers, for this object and all that follow.
GivenUp(do) ==
  do \ ({"unwind", "version", "dump", "arch"}
          \cup IF "using_dynamic" \in do THEN {} ELSE {"syms", "dyn_syms", "reloc"})

\* A pass that counts for the result.
Pass(s) == [s EXCEPT !.res = @ /\ s.ok]

\* A separate file with debug sections has a Filedata of its own.
SeparateFile(s) ==
  IF s.o.separate = <<>> \/ s.o.sections # "good" \/ s.o.shstrtab = "none" THEN s
  ELSE LET dumped(d) == IF d.ok THEN process_section_contents(d) ELSE d
       IN [Pass(dumped(process_section_headers([s EXCEPT !.fd = calloc, !.o = s.o.separate[1]])))
             EXCEPT !.fd = s.fd, !.o = s.o]

Released(fd) ==
  [fd EXCEPT !.program_headers = NULL, !.section_headers = NULL, !.string_table = NULL, !.dump_sects = {},
             !.num_dump_sects = 0, !.dynamic_strings = NULL, !.dynamic_symbols = NULL, !.dynamic_syminfo = NULL,
             !.dynamic_section = NULL, !.section_headers_groups = NULL]

\* What an object without section headers, groups or segments has to do without.
Headers(s) ==
  LET kept(t) == IF t.ok THEN t ELSE [t EXCEPT !.do = GivenUp(@)]
  IN kept(process_section_headers(ShowsIf(s, Does(s, "header"), "header", {}, {})))
Groups(s) ==
  LET kept(t) == IF t.ok THEN t ELSE [t EXCEPT !.do = @ \ {"unwind"}]
  IN kept(process_section_groups(s))
Dynamic(s) ==
  LET listed(t) == IF t.ok THEN process_dynamic_section(t) ELSE t
      result(t) == [t EXCEPT !.res = t.ok]
  IN result(listed(process_program_headers(s)))
Symbols(s) == Pass(process_symbol_table(Pass(process_unwind(Pass(process_relocs(s))))))
Contents(s) ==
  SeparateFile(Pass(process_section_contents(Pass(process_version_sections(Pass(process_syminfo(s)))))))
Specific(s) == Pass(process_arch_specific(Pass(process_gnu_liblist(Pass(process_notes(s))))))

process_object(s) ==
  LET begun == [s EXCEPT !.fd = InitialDumps([@ EXCEPT !.version_info = NULL, !.dynamic_info = [t \in Tags |-> NULL]],
                                             s.cmdline), !.res = TRUE]
      released(t) == [t EXCEPT !.fd = Released(@), !.ok = t.res]
  IN CASE s.o.header = "short" -> Fails(s)
       [] s.o.header = "alien" -> Fails(begun)
       [] OTHER -> released(Specific(Contents(Symbols(Dynamic(Groups(Headers(begun)))))))

-----------------------------------------------------------------------------
(* Files and archives.                                                     *)

\* open_file has read past the header of a proxy's file, and perhaps the section headers, and
\* process_object, which reads a header too, starts from there.
OfProxy(o) == [o EXCEPT !.header = "alien"]
\* The Filedata of a proxy's member in another archive has no size: nothing lies within it.
OfNested(o) ==
  LET beyond(part) == IF part = "good" THEN "unreadable" ELSE part
  IN [o EXCEPT !.sections = beyond(@), !.segments = beyond(@)]

\* m.stop: the rest of the archive is not looked at.
Member(m, member) ==
  LET unread == /\ member.kind = "proxy"
                /\ member.o.header = "short" \/ member.o.sections \in {"unreadable", "nocount"}
      object == CASE member.kind = "proxy" -> OfProxy(member.o)
                  [] member.kind = "nested" -> OfNested(member.o)
                  [] OTHER -> member.o
      own == member.kind # "plain"
      done(t) == [t EXCEPT !.fd = IF own THEN m.fd ELSE @, !.ret = @ /\ t.ok]
  IN CASE m.stop -> m
       [] member.kind = "corrupt" \/ unread -> [m EXCEPT !.stop = TRUE, !.ret = FALSE]
       [] OTHER -> done(process_object([m EXCEPT !.fd = IF own THEN calloc ELSE @, !.o = object]))

\* Options that show something of an object.
Shown == {"dynamic", "syms", "reloc", "unwind", "sections", "segments", "header", "dump", "version",
          "histogram", "debug", "arch", "notes", "section_groups", "dyn_syms"}

process_archive(m, file) ==
  LET index == ShowsIf([m EXCEPT !.o = [id |-> file.id]], Does(m, "archive_index") /\ file.index, "index", {}, {})
  IN IF file.corrupt THEN [m EXCEPT !.ret = FALSE]
     ELSE IF Does(m, "archive_index") /\ m.do \cap Shown = {} THEN index
     ELSE [FoldLeft(Member, index, file.members) EXCEPT !.stop = FALSE]

process_file(m, file) ==
  LET opened == [m EXCEPT !.fd = calloc, !.ret = TRUE]
      result(t) == [t EXCEPT !.ret = t.ok]
      counted(t) == [t EXCEPT !.err = @ \/ ~ t.ret]
  IN counted(CASE file.kind = "missing" -> [opened EXCEPT !.ret = FALSE]
               [] file.kind = "archive" -> process_archive(opened, file)
               [] file.kind = "object" -> result(process_object([opened EXCEPT !.o = file.members[1].o])))

main(job) ==
  LET start == [do |-> job.do, cmdline |-> job.cmdline, fd |-> calloc, o |-> <<>>, out |-> <<>>,
                ok |-> TRUE, res |-> TRUE, ret |-> TRUE, stop |-> FALSE, err |-> FALSE]
      end(t) == [out |-> t.out, err |-> t.err]
  IN end(FoldLeft(process_file, start, job.files))
=============================================================================

------------------------------- MODULE MCPrograms -------------------------------
(***************************************************************************)
(* The jobs of coreutils, readelf and objdump -d.                          *)
(***************************************************************************)
EXTENDS Programs, Objdumps

SeqsOf(S, lengths) == UNION {[1..n -> S] : n \in lengths}

\* A sequence cut into parts that are not empty, in every way.
RECURSIVE CutsOf(_)
CutsOf(s) ==
  IF s = <<>> THEN {<<>>}
  ELSE UNION {{<<SubSeq(s, 1, n)>> \o rest : rest \in CutsOf(SubSeq(s, n + 1, Len(s)))} : n \in DOMAIN s}

-----------------------------------------------------------------------------
\* Objects of readelf: complete, stripped of names, of section headers, and so on.
Complete(id) ==
  [id |-> id, header |-> "elf", sections |-> "good", e_shnum |-> 2, shstrtab |-> "good",
   has |-> {"dynsym", "dynstr", "symtab", "relocs", "notes", "versions", "VERSYM", "liblist", "attributes",
            "groups", "debug"},
   segments |-> "good", note_segment |-> TRUE, dynamic |-> "good", interp |-> 7, needed |-> 8,
   tags |-> ReadelfOf!Tags, handler |-> TRUE, separate |-> <<>>]
ObjectOf(kind, id) ==
  LET c == Complete(id)
  IN CASE kind = "complete" -> c
       [] kind = "unnamed" -> [c EXCEPT !.shstrtab = "none", !.has = {"symtab", "dynsym", "notes", "debug"},
                                        !.interp = 0, !.needed = 7, !.tags = {"SYMINSZ", "HASH", "SYMTAB", "STRTAB"}]
       [] kind = "garbled" -> [c EXCEPT !.shstrtab = "unreadable", !.has = {}, !.dynamic = "unreadable",
                                        !.interp = 0, !.handler = FALSE]
       [] kind = "bare" -> [c EXCEPT !.sections = "unreadable", !.needed = 7]
       [] kind = "nocount" -> [c EXCEPT !.sections = "nocount", !.tags = {"STRTAB"}, !.interp = 0, !.needed = 7]
       [] kind = "relocatable" -> [c EXCEPT !.segments = "none", !.has = {"symtab", "groups", "notes"}]
       [] kind = "segments" -> [c EXCEPT !.sections = "none", !.dynamic = "none", !.handler = FALSE]
       [] kind = "headless" -> [c EXCEPT !.segments = "unreadable", !.separate = <<Complete(id + 10)>>]
       [] kind = "stripped" -> [c EXCEPT !.separate = <<[Complete(id + 10) EXCEPT !.sections = "unreadable"]>>]
       [] kind = "odd" -> [c EXCEPT !.segments = "nocount"]
       [] kind \in {"short", "alien"} -> [c EXCEPT !.header = kind]
ObjectKinds == {"complete", "unnamed", "garbled", "bare", "nocount", "relocatable", "segments", "headless",
                "stripped", "odd", "short", "alien"}
ReadelfOptions ==
  LET all == ReadelfOf!Shown
  IN {all, all \cup {"using_dynamic"}, {"dynamic"}, {"reloc", "using_dynamic"}, {"syms", "using_dynamic"},
      {"histogram"}, {"unwind", "dyn_syms"}, {"dump", "archive_index"}}
Archive(kinds, objects) ==
  [kind |-> "archive", id |-> 99, corrupt |-> FALSE, index |-> TRUE,
   members |-> [k \in DOMAIN objects |-> [kind |-> kinds[k], o |-> ObjectOf(objects[k], k)]]]
PlainFile(object, id) == [kind |-> "object", members |-> <<[kind |-> "plain", o |-> ObjectOf(object, id)]>>]
ReadelfJob(do, dumps, files) ==
  [program |-> "readelf", do |-> do, files |-> files,
   cmdline |-> [num_dump_sects |-> Cardinality(dumps), dump_sects |-> {n \in dumps : n < Cardinality(dumps)},
                dump_sects_byname |-> {2}]]
ReadelfPairs ==
  {ReadelfJob(do, {}, <<Archive(<<"plain", "plain">>, o)>>) : do \in ReadelfOptions, o \in SeqsOf(ObjectKinds, 2..2)}
ReadelfTriples ==
  {ReadelfJob(do, {0, 1, 3}, <<Archive(<<"plain", "plain", "plain">>, o)>>) :
     do \in {ReadelfOf!Shown, ReadelfOf!Shown \cup {"using_dynamic"}},
     o \in SeqsOf({"complete", "unnamed", "bare", "nocount", "relocatable", "garbled"}, 3..3)}
ReadelfFiles ==
  {ReadelfJob(do, {0, 1}, <<Archive(k, o), f, PlainFile("complete", 4)>>) :
     do \in {ReadelfOf!Shown, {"archive_index"}}, k \in SeqsOf({"plain", "proxy", "nested", "corrupt"}, 2..2),
     o \in SeqsOf({"complete", "unnamed", "bare", "short"}, 2..2),
     f \in {PlainFile("unnamed", 3), [kind |-> "missing", members |-> <<>>],
            [Archive(<<"plain">>, <<"complete">>) EXCEPT !.corrupt = TRUE]}}

-----------------------------------------------------------------------------
\* Entries and their names as words, one entry behind the other, or all names behind all entries.
Laid(entries, size, nameSize, apart, Entry(_, _, _), Name(_, _)) ==
  LET count(k) == Len(entries[k].names)
      before(k) == FoldLeft(LAMBDA n, e : n + Len(e.names), 0, SubSeq(entries, 1, k - 1))
      at(k) == size * (k - 1) + IF apart THEN 0 ELSE nameSize * before(k)
      names(k) == IF apart THEN size * Len(entries) + nameSize * before(k) ELSE at(k) + size
      entry(k) == Entry(entries[k], names(k) - at(k), IF k = Len(entries) THEN 0 ELSE at(k + 1) - at(k))
      named(k) == FlattenSeq([j \in 1..count(k) |-> Name(entries[k].names[j], IF j = count(k) THEN 0 ELSE nameSize)])
      all(part(_)) == FlattenSeq([k \in DOMAIN entries |-> part(k)])
      both(k) == entry(k) \o named(k)
  IN IF apart THEN all(entry) \o all(named) ELSE all(both)
Verdefs(defs, apart) ==
  Laid(defs, TablesOf!VERDEF, TablesOf!VERDAUX, apart,
       LAMBDA e, aux, next : <<1 + 16 * e.flags, e.ndx + 16 * Len(e.names), 7, aux, next>>,
       LAMBDA n, next : <<n, next>>)
Verneeds(needs, apart) ==
  Laid([k \in DOMAIN needs |-> [file |-> needs[k].file, names |-> needs[k].versions]],
       TablesOf!VERNEED, TablesOf!VERNAUX, apart,
       LAMBDA e, aux, next : <<1 + 16 * Len(e.names), e.file, aux, next>>,
       LAMBDA n, next : <<7, 16 * n.other, n.name, next>>)
Buffer(words) == [p \in 0..(Len(words) - 1) |-> words[p + 1]]

Defines == {<<[ndx |-> 1, flags |-> 1, names |-> <<11>>]>>,
            <<[ndx |-> 1, flags |-> 1, names |-> <<11>>], [ndx |-> 2, flags |-> 0, names |-> <<12>>],
              [ndx |-> 3, flags |-> 0, names |-> <<13, 14>>]>>,
            <<[ndx |-> 2, flags |-> 0, names |-> <<12, 14, 15>>], [ndx |-> 4, flags |-> 0, names |-> <<13>>]>>}
Needs == {<<[file |-> 21, versions |-> <<[other |-> 5, name |-> 16]>>]>>,
          <<[file |-> 21, versions |-> <<[other |-> 5, name |-> 16], [other |-> 2, name |-> 17]>>],
            [file |-> 22, versions |-> <<[other |-> 6, name |-> 18]>>]>>}
HoldsDefs(defs) ==
  FlattenSeq([k \in DOMAIN defs |->
    << <<"def", defs[k].ndx>> >> \o [j \in DOMAIN defs[k].names |->
                                       <<IF j = 1 THEN "name" ELSE "parent", defs[k].names[j]>>]])
HoldsNeeds(needs) ==
  FlattenSeq([k \in DOMAIN needs |->
    << <<"need", needs[k].file>> >> \o [j \in DOMAIN needs[k].versions |->
                                         <<"version", needs[k].versions[j].other, needs[k].versions[j].name>>]])
\* A section: as it was written, with its end cut off, and with one word changed.
Values == {0, 1, 2, 3, 4, 5, 9, 16, 33, 99}
SectionJobs(kind, words, count, holds) ==
  LET section(is, w, n) == [program |-> "versions", is |-> is, holds |-> holds,
                            section |-> [kind |-> kind, buf |-> Buffer(w), sh_info |-> n]]
  IN {section("whole", words, count), section("cut", words, count + 1)}
       \cup {section("cut", SubSeq(words, 1, n), count) : n \in 0..(Len(words) - 1)}
       \cup {section("changed", [words EXCEPT ![p] = v], count) : p \in DOMAIN words, v \in Values}
VersionJobs ==
  UNION {SectionJobs("verdef", Verdefs(d, apart), Len(d), HoldsDefs(d)) : d \in Defines, apart \in BOOLEAN}
    \cup UNION {SectionJobs("verneed", Verneeds(n, apart), Len(n), HoldsNeeds(n)) : n \in Needs, apart \in BOOLEAN}

SymbolJob(is, defWords, words, d, n, ndx, symbol) ==
  [program |-> "symbol versions", is |-> is, defs |-> d, needs |-> n,
   file |-> [words |-> words, verdef |-> IF d = <<>> THEN -1 ELSE 0,
             verneed |-> IF n = <<>> THEN -1 ELSE Len(defWords), strtab_size |-> 18,
             versym |-> <<ndx, 1>>, symbols |-> <<symbol>>]]
SymbolsOf == {[defined |-> d, st_name |-> n] : d \in BOOLEAN, n \in {1, 12}}
SymbolVersionJobs ==
  UNION {LET words == Verdefs(d, FALSE)
             both == Buffer(words \o Verneeds(n, apart))
         IN {SymbolJob("whole", words, both, d, n, ndx, symbol) : ndx \in 0..15, symbol \in SymbolsOf} :
           d \in Defines \cup {<<>>}, n \in Needs \cup {<<>>}, apart \in BOOLEAN}
ChangedVersionJobs ==
  UNION {LET words == Verdefs(d, FALSE)
             both == Buffer(words \o Verneeds(n, FALSE))
         IN {SymbolJob("changed", words, [both EXCEPT ![p] = v], d, n, ndx, [defined |-> TRUE, st_name |-> 1]) :
               p \in DOMAIN both, v \in {0, 3, 9, 99}, ndx \in {1, 2, 6, 10, 8}} : d \in Defines, n \in Needs}
-----------------------------------------------------------------------------
\* Notes as bytes; names with and without a 0 at their end.
Padded(s, n) == s \o [k \in 1..(n - Len(s)) |-> 0]
Up(n, align) == ((n + align - 1) \div align) * align
WordOf(n) == <<n % 256, n \div 256, 0, 0>>
NoteNames == {<<>>, <<65, 0>>, <<65, 66, 67, 0>>, <<65, 66, 67, 68>>, <<65, 66, 67>>, <<65, 66, 67, 68, 69>>}
NoteBytes(name, descsz, align, vms) ==
  LET wide(n) == IF vms THEN WordOf(n) \o WordOf(0) ELSE WordOf(n)
      head == wide(Len(name)) \o wide(descsz) \o wide(1)
      named == IF vms THEN head \o Padded(name, Up(Len(name), 8))
               ELSE Padded(head \o name, Up(Len(head) + Len(name), align))
  IN [text |-> Padded(named, Len(named) + (IF vms THEN Up(descsz, 8) ELSE Up(Len(named) + descsz, align) - Len(named))),
      desc |-> Len(named)]
Contains0(name) == 0 \in ToSet(name)
\* A sequence of notes as a section, and what is to be shown of it.
NoteSection(notes, align, vms) ==
  LET a == IF align < 4 THEN 4 ELSE align
      bytes == [k \in DOMAIN notes |-> NoteBytes(notes[k][1], notes[k][2], a, vms)]
      before(k) == FoldLeft(LAMBDA n, b : n + Len(b.text), 0, SubSeq(bytes, 1, k - 1))
  IN [text |-> FlattenSeq([k \in DOMAIN bytes |-> bytes[k].text]),
      holds |-> [k \in DOMAIN notes |->
                   [shown |-> <<"note", SelectSeq(notes[k][1], LAMBDA c : c # 0), before(k) + bytes[k].desc, notes[k][2]>>,
                    end |-> before(k) + Len(bytes[k].text)]]]
Behind0(text) == [p \in 0..Len(text) |-> IF p = Len(text) THEN 0 ELSE text[p + 1]]
NoteJob(is, text, holds, align, vms, v850) ==
  [program |-> "notes", is |-> is, holds |-> holds,
   section |-> [buf |-> Behind0(text), length |-> Len(text), align |-> align, vms |-> vms, v850 |-> v850]]
NoteLists == SeqsOf(NoteNames \X {0, 3, 4, 8}, 1..2)
NoteJobs ==
  {LET s == NoteSection(n, a[1], a[2]) IN NoteJob("whole", s.text, s.holds, a[1], a[2], FALSE) :
     n \in NoteLists, a \in {<<0, FALSE>>, <<4, FALSE>>, <<8, FALSE>>, <<4, TRUE>>}}
SomeNotes == {<< <<<<65, 66, 67, 68>>, 4>>, <<<<65, 66, 67>>, 8>> >>, << <<<<>>, 3>>, <<<<65, 66, 67, 0>>, 0>> >>}
CutNoteJobs ==
  UNION {LET s == NoteSection(n, a[1], a[2])
         IN {NoteJob("whole", SubSeq(s.text, 1, l), s.holds, a[1], a[2], FALSE) : l \in 1..(Len(s.text) - 1)}
              \cup {NoteJob("changed", [s.text EXCEPT ![p] = v], s.holds, a[1], a[2], FALSE) :
                      p \in DOMAIN s.text, v \in {0, 1, 4, 7, 16, 255}}
              \cup {NoteJob("odd", text, s.holds, 16, FALSE, FALSE) : text \in {<<>>, s.text}} :
           n \in SomeNotes, a \in {<<1, FALSE>>, <<8, FALSE>>, <<4, TRUE>>}}
\* Notes of V850 have a name and a description of four bytes.
V850Jobs ==
  LET bytes(types) == FlattenSeq([k \in DOMAIN types |-> WordOf(4) \o WordOf(4) \o WordOf(types[k]) \o <<71, 72, 83, 0>> \o WordOf(9)])
      holds(types) == [k \in DOMAIN types |-> [shown |-> <<"v850", 20 * k - 4>>, end |-> 20 * k]]
  IN {NoteJob("whole", bytes(t), holds(t), 4, FALSE, TRUE) : t \in SeqsOf(1..2, 1..3)}
       \cup {NoteJob("changed", [bytes(<<1, 2>>) EXCEPT ![p] = v], <<>>, 4, FALSE, TRUE) : p \in 1..40, v \in {0, 5, 8, 255}}
       \cup {NoteJob("changed", SubSeq(bytes(<<1, 2>>), 1, l), <<>>, 4, FALSE, TRUE) : l \in 1..39}

-----------------------------------------------------------------------------
\* Sections to dump: a letter, a control character, new lines, bytes of characters of two bytes.
SectionOf(text) ==
  [text |-> text, packed |-> "no", header |-> "zlib", size |-> 0, streams |-> <<>>, nobits |-> FALSE,
   readable |-> TRUE, addr |-> 64]
DumpJob(section, decompress, plain, broken) ==
  [program |-> "dump", section |-> section, decompress |-> decompress, plain |-> plain, broken |-> broken]
DumpTexts == SeqsOf({97, 1, 0, 10}, 0..5) \cup SeqsOf({97, 195, 169, 10, 0}, 4..4)
DumpJobs ==
  {DumpJob(SectionOf(t), FALSE, <<>>, FALSE) : t \in DumpTexts}
  \cup {DumpJob([SectionOf(t) EXCEPT !.nobits = n, !.readable = n], TRUE, <<>>, ~ n) : t \in {<<97, 98>>}, n \in BOOLEAN}
PackedJobs ==
  {LET plain == FlattenSeq(p)
       streams == [k \in DOMAIN p |-> [text |-> p[k], ok |-> k # bad]]
   IN DumpJob([SectionOf([k \in 1..14 |-> 33]) EXCEPT !.packed = how, !.header = header, !.streams = streams,
                                                    !.size = size],
              do, plain,
              do /\ (header # "zlib" \/ (size # 0 /\ (bad \in DOMAIN p \/ size # Len(plain))))) :
     p \in SeqsOf({<<97, 0>>, <<10, 98>>, <<97, 10, 99>>}, 0..2), how \in {"chdr"}, do \in BOOLEAN,
     header \in {"zlib", "short", "other"}, bad \in 0..2, size \in {0, 2, 4, 5}}

-----------------------------------------------------------------------------
\* Symbols in buckets; those that are not hashed come first.
FileOf(words, hash, gnu, xhash) ==
  [words |-> [p \in 0..(Len(words) - 1) |-> words[p + 1]], hash |-> hash, gnu_hash |-> gnu, xhash |-> xhash, wide |-> 1,
   loads |-> <<[vaddr |-> 100, align |-> 8, offset |-> 1, filesz |-> Len(words)]>>]
\* The symbols of each bucket, numbered in the order of the buckets.
Numbers(sizes, symidx) ==
  LET before(b) == FoldLeft(LAMBDA n, s : n + s, 0, SubSeq(sizes, 1, b - 1))
  IN [b \in DOMAIN sizes |-> [k \in 1..sizes[b] |-> symidx + before(b) + k - 1]]
SysvWords(buckets, nsyms) ==
  LET next(s) == {buckets[b][k + 1] : <<b, k>> \in {<<b, k>> \in (DOMAIN buckets) \X (1..4) : k < Len(buckets[b]) /\ buckets[b][k] = s}}
  IN <<Len(buckets), nsyms>> \o [b \in DOMAIN buckets |-> IF buckets[b] = <<>> THEN 0 ELSE buckets[b][1]]
       \o [s \in 1..nsyms |-> IF next(s - 1) = {} THEN 0 ELSE CHOOSE n \in next(s - 1) : TRUE]
GnuWords(buckets, symidx) ==
  <<Len(buckets), symidx, 1, 5, 77>>
    \o [b \in DOMAIN buckets |-> IF buckets[b] = <<>> THEN 0 ELSE buckets[b][1]]
    \o FlattenSeq([b \in DOMAIN buckets |-> [k \in DOMAIN buckets[b] |-> IF k = Len(buckets[b]) THEN 9 ELSE 8]])
XlatWords(buckets) == FlattenSeq(buckets)
HashJob(is, sizes, symidx, file) ==
  [program |-> "hash", is |-> is, buckets |-> Numbers(sizes, symidx), symidx |-> symidx, file |-> file]
HashFile(sizes, symidx, which, xhash) ==
  LET buckets == Numbers(sizes, symidx)
      nsyms == symidx + FoldLeft(LAMBDA n, s : n + s, 0, sizes)
      sysv == IF "sysv" \in which THEN SysvWords(buckets, nsyms) ELSE <<>>
      gnu == IF "gnu" \in which THEN GnuWords(buckets, symidx) ELSE <<>>
  IN FileOf(<<3>> \o sysv \o gnu \o (IF xhash THEN XlatWords(buckets) ELSE <<>>),
            IF "sysv" \in which THEN 100 ELSE -1, IF "gnu" \in which THEN 100 + Len(sysv) ELSE -1, xhash)
HashJobs ==
  {HashJob("whole", s, i, HashFile(s, i, w, x)) :
     s \in SeqsOf(0..3, 1..3), i \in 1..2, w \in {{"sysv"}, {"gnu"}, {"sysv", "gnu"}}, x \in BOOLEAN}
ChangedHashJobs ==
  UNION {LET file == HashFile(s, 1, w, x)
         IN {HashJob("changed", s, 1, [file EXCEPT !.words[p] = v]) : p \in DOMAIN file.words, v \in {0, 1, 2, 3, 5, 20}}
              \cup {HashJob("changed", s, 1, [file EXCEPT !.words = [p \in 0..l |-> @[p]]]) : l \in DOMAIN file.words} :
           s \in {<<2, 0, 3>>, <<1, 2>>, <<0>>}, w \in {{"sysv"}, {"gnu"}, {"sysv", "gnu"}}, x \in BOOLEAN}

-----------------------------------------------------------------------------
\* Two symbol tables, 1 and 2, their string tables 3 and 4, and groups from 5 on.
Named(n) == [section |-> SectionsOf!None, st_name |-> n]
OfSection(n) == [section |-> n, st_name |-> 0]
GroupTables(link) ==
  <<[type |-> "symtab", sh_link |-> link, symbols |-> <<Named(1), Named(9), OfSection(4), OfSection(0)>>],
    [type |-> "symtab", sh_link |-> 4, symbols |-> <<Named(2)>>],
    [type |-> "strtab", size |-> 5], [type |-> "strtab", size |-> 3]>>
GroupsJob(link, groups) ==
  LET all == <<[type |-> "null"]>> \o GroupTables(link)
               \o [k \in DOMAIN groups |-> [type |-> "group", sh_link |-> groups[k][1][1], sh_info |-> groups[k][1][2],
                                             words |-> groups[k][2]]]
      listed(k) == groups[k][2] # <<>> /\ (groups[k][1] \in {<<1, 0>>, <<1, 1>>, <<1, 2>>, <<2, 0>>})
  IN [program |-> "groups", sections |-> [n \in 0..(Len(all) - 1) |-> all[n + 1]],
      groups |-> SelectSeq([k \in DOMAIN groups |-> k + 4], LAMBDA n : listed(n - 4))]
GroupJobs ==
  {GroupsJob(link, g) : link \in {3, 99},
     g \in SeqsOf({<<1, 0>>, <<2, 0>>, <<1, 1>>, <<1, 2>>, <<1, 3>>, <<2, 1>>, <<3, 0>>, <<99, 0>>}
                    \X {<<1, 3, 4>>}, 2..3)}
  \cup {GroupsJob(3, g) : g \in SeqsOf({<<1, 0>>} \X ({<<>>} \cup SeqsOf({0, 3, 4, 99}, 1..2)), 2..2)}
-----------------------------------------------------------------------------
\* Relocations: symbols of a section, a function, a file, and a common one.
RelocSymbols ==
  [n \in 0..4 |-> [value |-> <<0, 37, 300, 4, 9>>[n + 1], type |-> <<0, 3, 2, 4, 5>>[n + 1]]]
RelocBytes == [p \in 0..11 |-> (5 * p + 3) % 8]
Reloc(offset, type, sym, addend) == [offset |-> offset, type |-> type, sym |-> sym, addend |-> addend]
Group(how, relocs) == [how |-> how, size |-> 0, relocs |-> relocs]
RelocJob(machine, type, groups) ==
  [program |-> "relocs", groups |-> groups,
   file |-> [machine |-> machine, relocatable |-> TRUE, symtab |-> RelocSymbols,
             sections |-> [n \in DOMAIN groups |-> RelocBytes],
             relsecs |-> [n \in DOMAIN groups |->
               [type |-> type, info |-> n, link |-> "symbols", readable |-> TRUE,
                relocs |-> FlattenSeq([k \in DOMAIN groups[n] |-> groups[n][k].relocs])]]]]
\* Each type of each machine.
MachineTypes(table) == UNION {{m} \X table[m] : m \in DOMAIN table}
SingleRelocs ==
  {RelocJob(m[1], type, << <<Group("one", <<Reloc(at[1], m[2], at[2], 5)>>)>> >>) :
     m \in UNION {MachineTypes(RelocsOf!Kinds[k].table) : k \in 2..8}, type \in {"RELA", "REL"},
     at \in {<<0, 2>>, <<3, 4>>, <<3, 0>>}}
VoidRelocs ==
  {RelocJob("386", type, << <<Group("ignored", r), Group("one", <<Reloc(4, 1, 2, 3)>>)>> >>) :
     type \in {"RELA", "REL"},
     r \in {<<Reloc(o, t, s, 7)>> : o \in {9, 11, 12, 99}, t \in {0, 1, 2}, s \in 1..2}
             \cup {<<Reloc(0, t, s, 7)>> : t \in {1, 2}, s \in {3, 5, 99}}
             \cup {<<Reloc(0, t, 1, 7)>> : t \in {0, 3, 99}}}
\* RISC-V: fields one behind the other, with their relocations in any order.
RiscvGroups(at) ==
  {Group("sums", p) : p \in {<<Reloc(at, a, x, 0), Reloc(at, a + 4, 1, 0)>> : a \in 33..35, x \in 1..2}
                              \cup {<<Reloc(at, a + 4, 2, 0), Reloc(at, a, 4, 0)>> : a \in 33..35}}
  \cup {Group("six", <<Reloc(at, 53, 2, 3)>>), Group("six", <<Reloc(at, 53, 1, 2), Reloc(at, 52, 2, 0)>>),
        Group("one", <<Reloc(at, 54, 2, 1)>>), Group("one", <<Reloc(at, 57, 2, 1)>>),
        Group("ignored", <<Reloc(at, 0, 1, 5), Reloc(at, 35, 3, 0)>>)}
RiscvRelocs ==
  {RelocJob("RISCV", "RELA", << <<a, b, c>> >>) :
     a \in RiscvGroups(0), b \in RiscvGroups(4), c \in {Group("sums", <<Reloc(8, 38, 1, 0)>>)}}
  \cup {RelocJob("RISCV", "RELA", << <<Group("sums", <<Reloc(2, 36, 2, 0), Reloc(2, 40, s, 0)>>)>> >>) : s \in 1..2}
\* Differences, among sections that end behind the first half of one.
Differences(machine, saves, at) ==
  {[Group("difference", <<Reloc(at, saves, s, 0)>> \o between \o <<Reloc(at, 1, 2, 6)>>) EXCEPT !.size = 4] :
     s \in {1, 4}, between \in {<<>>, <<Reloc(at, 99, 1, 0)>>}}
  \cup {Group("one", <<Reloc(at, 1, 1, 2)>>)}
Halves(machine, saves) == {<<>>, <<Group("ignored", <<Reloc(0, saves, 1, 0)>>)>>}
DifferenceRelocs ==
  UNION {{RelocJob(m[1], "RELA", <<<<a, b>> \o half, <<c>> >>) :
            a \in Differences(m[1], m[2], 0), b \in Differences(m[1], m[2], 6), c \in Differences(m[1], m[2], 4),
            half \in Halves(m[1], m[2])} :
           m \in {<<"MN10300", 33>>, <<"MSP430", 10>>, <<"MSP430X", 21>>}}
OperandRelocs ==
  {LET operands(at, x, y, size) ==
         [Group("operands", <<Reloc(at, 128, x, 1), Reloc(at, 128, y, 2), Reloc(at, 131, 0, 0),
                              Reloc(at, IF size = 4 THEN 65 ELSE 67, 0, 0)>>) EXCEPT !.size = size]
   IN RelocJob("RL78", "RELA", << <<operands(0, s[1], s[2], s[3]), Group("one", <<Reloc(5, 1, 1, 2)>>)>> \o half,
                                  <<operands(4, s[2], s[4], 2)>> >>) :
     s \in {1, 2} \X {1, 4} \X {2, 4} \X {1, 2}, half \in {<<>>, <<Group("ignored", <<Reloc(0, 128, 1, 0)>>)>>}}

-----------------------------------------------------------------------------
(* objdump -d *)

\* Symbols of sections 1 and 2, the second without code, and of one that is named like the first
\* in the file with the debug information; their addresses overlap.
Sym(name, value, section, flags, size, traits, owner) ==
  [name |-> name, value |-> value, section |-> section, flags |-> flags, size |-> size, traits |-> traits, owner |-> owner]
Function(name, value, size) == Sym(name, value, 1, {"FUNCTION", "GLOBAL"}, size, {}, "file")
SectionWith(name, vma, data, code, relocs, lines) ==
  [name |-> name, vma |-> vma, data |-> data, code |-> code, relocs |-> relocs, lines |-> lines, readable |-> TRUE]
NoLines(data) == [k \in DOMAIN data |-> <<>>]
Object(data, syms, relocs, lines) ==
  [sections |-> <<SectionWith(101, 4, data, TRUE, relocs, lines),
                  SectionWith(102, 6, <<1, 2, 5>>, FALSE, <<>>, NoLines(<<1, 2, 3>>))>>,
   syms |-> syms, dynsyms |-> <<>>, synthsyms |-> <<>>, dynrels |-> <<>>, dynamic |-> FALSE,
   elf |-> TRUE, linked |-> FALSE, has_reloc |-> TRUE]
Machine == [skip_zeroes |-> 4, skip_zeroes_at_end |-> 3, needs_relocs |-> FALSE, max_reloc_offset |-> -1,
            bytes_per_line |-> 0, chunk |-> 1, little |-> TRUE, short |-> 1]
Plain == [with_line_numbers |-> FALSE, with_source_code |-> FALSE, unwind_inlines |-> FALSE,
          file_start_context |-> FALSE, prefix |-> <<>>, prefix_strip |-> 0, include_paths |-> <<>>, files |-> <<>>]
ObjdumpJob(abfd) ==
  [program |-> "objdump", abfd |-> abfd, machine |-> Machine, source |-> Plain, holds |-> <<>>,
   disassemble_all |-> FALSE, only_list |-> {}, start_address |-> -1, stop_address |-> -1,
   dump_reloc_info |-> FALSE, dump_dynamic_reloc_info |-> FALSE, disassemble_zeroes |-> FALSE, insn_width |-> 0,
   prefix_addresses |-> FALSE, show_raw_insn |-> 0, wide_output |-> FALSE, visualize_jumps |-> FALSE, symbol |-> <<>>]
PlainJob(data, syms) == ObjdumpJob(Object(data, syms, <<>>, NoLines(data)))

ZeroJobs ==
  {[PlainJob(d, s) EXCEPT !.disassemble_zeroes = z, !.machine.short = m] :
     d \in SeqsOf({0, 1}, 8..8) \cup SeqsOf({0, 4, 2}, 6..6), s \in {<<>>, <<Function(1, 7, 0)>>}, z \in {FALSE}, m \in {-1, 1}}
  \cup {[PlainJob(d, <<Function(1, 5, 0)>>) EXCEPT !.disassemble_zeroes = TRUE, !.machine.short = m] :
          d \in SeqsOf({0, 2, 3}, 4..4), m \in {-1, 0, 1}}

SymbolPool ==
  {Sym(n, v, 1, f, 0, {}, "file") : n \in {1}, v \in {4, 6, 9}, f \in {{"FUNCTION", "GLOBAL"}, {"OBJECT", "LOCAL"}, {}}}
  \cup {Sym(2, v, 1, {"LOCAL"}, 0, t, "file") : v \in {4, 6}, t \in {{"mapping"}, {"compiled"}, {"file"}, {"dot"}}}
  \cup {Sym(3, v, 2, {"FUNCTION", "GLOBAL"}, 2, {}, "file") : v \in {6, 7, 3}}
  \cup {Sym(4, v, 1, {"FUNCTION", "LOCAL"}, 2, {}, "debug") : v \in {6, 3}}
  \cup {Sym(0, 6, 1, {}, 0, {}, "file"), Sym(5, 6, 1, {"SECTION_SYM"}, 0, {}, "file"), Sym(6, 8, 1, {"DEBUGGING"}, 0, {"significant"}, "file"),
        Sym(7, 0, DisOf!UND, {"FUNCTION"}, 0, {}, "file"), Sym(8, 8, DisOf!ABS, {}, 0, {}, "file")}
DisassembledData == <<1, 2, 1, 1, 2, 1, 1>>
SymbolPairs ==
  {[PlainJob(DisassembledData, s) EXCEPT !.disassemble_all = a] : s \in SeqsOf(SymbolPool, 0..2), a \in BOOLEAN}
SymbolTriples ==
  {PlainJob(DisassembledData, s) :
     s \in SeqsOf({p \in SymbolPool : p.name # 2 /\ p.value \in {3, 6, 7} /\ "LOCAL" \notin p.flags} , 3..3)}
RangeJobs ==
  {[PlainJob(DisassembledData, s) EXCEPT !.start_address = from, !.stop_address = to, !.only_list = o] :
     s \in {<<>>, <<Function(1, 4, 3), Function(2, 9, 0)>>, <<Function(3, 6, 0)>>},
     from \in {-1, 2, 4, 5, 6, 9, 11}, to \in {-1, 3, 4, 6, 7, 8, 12}, o \in {{}, {102}}}
PartJobs ==
  {[PlainJob(<<1, 2, 1, 1, 2, 1, 1>>, s) EXCEPT !.symbol = <<n>>] :
     n \in 1..3,
     s \in {<<[a EXCEPT !.name = 1, !.value = 4], [b EXCEPT !.name = 2, !.value = v], [c EXCEPT !.name = 3, !.value = 9]>> :
              a, b, c \in {Function(0, 0, 0), Function(0, 0, 2), Sym(0, 0, 1, {"OBJECT"}, 0, {}, "file"),
                           Sym(0, 0, 1, {"LOCAL"}, 0, {"label"}, "file")}, v \in 5..6}}

-----------------------------------------------------------------------------
\* The symbols of relocations do not matter for where they are shown.
RelocOf(address) == [address |-> address, sym |-> <<Function(9, 6, 0)>>]
RelocLists(lists) == {[k \in DOMAIN l |-> RelocOf(l[k]) @@ [id |-> k]] : l \in lists}
ListingRelocs ==
  {[ObjdumpJob(Object(d, <<Function(1, 7, 0)>>, r, NoLines(d)))
      EXCEPT !.dump_reloc_info = TRUE, !.machine.needs_relocs = n, !.machine.max_reloc_offset = m,
             !.disassemble_all = a, !.start_address = from] :
     d \in SeqsOf({1, 2, 3}, 4..4) \cup {<<1, 0, 0, 0, 0, 2>>}, r \in RelocLists({<<3, 1, 1>>, <<0, 2, 4>>, <<4, 3>>}),
     n \in BOOLEAN, m \in {-1, 1}, a \in BOOLEAN, from \in {5}}
DynamicRelocs ==
  {[ObjdumpJob([Object(<<1, 2, 1, 3, 1>>, <<Function(1, 5, 0), Function(2, 8, 0)>>, <<RelocOf(1)>>, NoLines(<<1, 2, 3, 4, 5>>))
                  EXCEPT !.dynamic = TRUE, !.linked = TRUE, !.has_reloc = FALSE, !.dynrels = r])
      EXCEPT !.dump_dynamic_reloc_info = TRUE, !.disassemble_all = a, !.start_address = from] :
     r \in RelocLists(SeqsOf(3..9, 1..2)), a \in BOOLEAN, from \in {-1, 5}}

RowJobs ==
  {[PlainJob(d[1] \o d[2], <<Function(1, 4, 0), Sym(2, 7, 1, {"OBJECT"}, 0, {}, "file")>>)
      EXCEPT !.insn_width = w, !.machine.bytes_per_line = l, !.machine.chunk = ch, !.machine.little = e,
             !.wide_output = o[1], !.prefix_addresses = o[2], !.show_raw_insn = o[3], !.disassemble_all = o[4]] :
     d \in SeqsOf({2, 3}, 1..1) \X SeqsOf({1, 3}, 4..4), w \in {0, 2}, l \in {0, 2}, ch \in 1..2, e \in BOOLEAN,
     o \in {<<FALSE, FALSE, 0, FALSE>>, <<TRUE, FALSE, 1, TRUE>>, <<FALSE, TRUE, 0, FALSE>>, <<FALSE, TRUE, 1, TRUE>>, <<FALSE, FALSE, -1, FALSE>>}}

-----------------------------------------------------------------------------
JumpJob(data, syms) == [PlainJob(data, syms) EXCEPT !.visualize_jumps = TRUE]
JumpsAnywhere == {JumpJob(d, <<Function(1, 4, 0)>>) : d \in SeqsOf({1, 10, 12, 14}, 5..5)}
JumpsApart ==
  {JumpJob(d, <<Function(1, 4, 0), Function(2, v, 0)>>) : d \in SeqsOf({2, 10, 13, 15}, 6..6), v \in {7}}

-----------------------------------------------------------------------------
\* Source files of two to five lines, their ends written in all ways, and one that is not found.
FileA == <<"src", "a">>
TextOf(lines, end) == FlattenSeq([k \in DOMAIN lines |-> lines[k] \o end])
SourceTexts == [a |-> <<<<97>>, <<98, 98>>, <<>>, <<99>>, <<100>>>>, b |-> <<<<101>>, <<>>>>]
SourceInfo(functionname, filename, path, linenumber, discriminator) ==
  <<[functionname |-> functionname, filename |-> filename, path |-> path, linenumber |-> linenumber,
     discriminator |-> discriminator, inliners |-> <<<<"f", 3>>>>]>>
SourceInfos ==
  {<<>>, SourceInfo(<<"f">>, <<"/", "src", "a">>, <<"/", "src", "a">>, 0, 2)}
  \cup {SourceInfo(<<"f">>, <<"/", "src", "a">>, <<"/", "src", "a">>, l, 0) : l \in {1, 4, 5}}
  \cup {SourceInfo(<<>>, <<"b">>, <<"b">>, 2, 0), SourceInfo(<<"g">>, <<"b">>, <<"b">>, 2, 1)}
  \cup {SourceInfo(<<"g">>, <<"no">>, <<>>, 2, 0)}
SourceJob(infos, end, options) ==
  LET data == <<1, 1, 1, 1, 1>>
  IN [ObjdumpJob(Object(data, <<Function(1, 6, 0)>>, <<>>, infos \o <<<<>>, infos[1]>>))
        EXCEPT !.holds = (<<"/", "src", "a">> :> SourceTexts.a @@ <<"b">> :> SourceTexts.b),
               !.source = [Plain EXCEPT
                 !.with_line_numbers = options[1], !.with_source_code = options[2], !.file_start_context = options[3],
                 !.unwind_inlines = options[1], !.include_paths = <<<<"x">>, <<"inc">>>>,
                 !.files = (<<"/", "src", "a">> :> (TextOf(SourceTexts.a, end) \o <<120>>)
                            @@ <<"inc", "b">> :> TextOf(SourceTexts.b, end))]]
SourceJobs ==
  {SourceJob(i, <<10>>, o) : i \in SeqsOf(SourceInfos, 3..3), o \in {<<TRUE, TRUE, FALSE>>, <<FALSE, TRUE, TRUE>>}}
\* --prefix, --prefix-strip.
PrefixJobs ==
  {LET info(l) == SourceInfo(<<"f">>, <<"/", "old", "src", "a">>, IF n \in 1..1 THEN FileA ELSE <<>>, l, 0)
       j == SourceJob(<<info(2), info(3), info(5)>>, e, <<TRUE, TRUE, FALSE>>)
   IN [j EXCEPT !.source.prefix = <<"p">>, !.source.prefix_strip = n, !.holds = (FileA :> SourceTexts.a),
                !.source.files = (<<"p", "src", "a">> :> TextOf(SourceTexts.a, e)), !.source.include_paths = <<>>] :
     n \in 0..2, e \in {<<10>>, <<13>>, <<10, 13>>, <<13, 10>>}}

-----------------------------------------------------------------------------
\* objdump -r: relocations of up to two addresses, in any order, of files with up to two sections.
Stored(type, address, addend, sym) == [type |-> type, address |-> address, addend |-> addend, sym |-> sym]
TableWith(relocs) == [size |-> 1, readable |-> TRUE, relocs |-> relocs]
Listable(name, reloc, table, infos) == [name |-> name, reloc |-> reloc, table |-> table, infos |-> infos]
Listing(id, sections, dynamic) ==
  [id |-> id, format |-> "object", sparc |-> TRUE, sections |-> sections, dynamic |-> dynamic]
ListingFile(members) == [missing |-> FALSE, archive |-> Len(members) > 1, corrupt |-> FALSE, members |-> members]
ListingJob(files) ==
  [program |-> "objdump -r", files |-> files, j |-> <<>>, dump_reloc_info |-> TRUE, dump_dynamic_reloc_info |-> FALSE,
   with_line_numbers |-> FALSE, start_address |-> -1, stop_address |-> -1]
OneTable(relocs, infos) == ListingFile(<<Listing(1, <<Listable(101, TRUE, TableWith(relocs), infos)>>, TableWith(<<>>))>>)
StoredPool ==
  {Stored("R_SPARC_LO10", a, 1, <<[name |-> 7, section |-> 101]>>) : a \in 0..1}
  \cup {Stored("R_SPARC_13", a, n, <<[name |-> 0, section |-> 102]>>) : a \in 0..1, n \in {0, 2}}
ListedRanges ==
  {[ListingJob(<<OneTable(r, <<>>)>>) EXCEPT !.start_address = from, !.stop_address = to, !.files[1].members[1].sparc = p] :
     r \in SeqsOf(StoredPool, 0..3), from \in {-1, 1}, to \in {-1, 0, 1, 2}, p \in {TRUE}}
PlacePool ==
  {<<>>} \cup {<<[functionname |-> f, filename |-> n, linenumber |-> l, discriminator |-> d]>> :
               f \in {<<"f">>}, n \in {<<>>, <<"a">>, <<"b">>}, l \in {3}, d \in 0..1}
  \cup {<<[functionname |-> <<>>, filename |-> <<"a">>, linenumber |-> 3, discriminator |-> 0]>>}
  \cup {<<[functionname |-> <<"g">>, filename |-> <<"a">>, linenumber |-> l, discriminator |-> 0]>> : l \in {0, 3}}
ListedPlaces ==
  {[ListingJob(<<OneTable([k \in 1..3 |-> Stored("R", k - 1, 0, <<>>)], i)>>) EXCEPT !.with_line_numbers = TRUE] :
     i \in SeqsOf(PlacePool, 3..3)}
ListedFile ==
  LET relocs(t) == Listing(1, <<Listable(101, TRUE, t, <<>>), Listable(102, FALSE, TableWith(<<>>), <<>>)>>, [TableWith(<<>>) EXCEPT !.size = 0])
      r == TableWith(<<Stored("R", 0, 5, <<>>)>>)
      other == Listing(2, <<Listable(103, TRUE, [r EXCEPT !.size = 0], <<>>)>>, TableWith(<<Stored("R", 9, 0, <<>>)>>))
      notDynamic == [other EXCEPT !.dynamic.size = -1]
      strange == [other EXCEPT !.format = "strange"]
  IN {ListingFile(<<relocs(r)>>), ListingFile(<<notDynamic>>), ListingFile(<<relocs([r EXCEPT !.readable = FALSE])>>),
      [ListingFile(<<>>) EXCEPT !.missing = TRUE], ListingFile(<<other, strange, relocs(r)>>),
      [ListingFile(<<other, relocs(r)>>) EXCEPT !.corrupt = TRUE]}
ListedFiles ==
  {[ListingJob(f) EXCEPT !.j = j, !.dump_reloc_info = o[1], !.dump_dynamic_reloc_info = o[2]] :
     f \in SeqsOf(ListedFile, 1..2), j \in SeqsOf({101, 102, 103}, 0..2), o \in {<<TRUE, FALSE>>, <<FALSE, TRUE>>, <<TRUE, TRUE>>}}

-----------------------------------------------------------------------------
SortLinesJobs ==
  {[program |-> "sequential_sort", keys |-> k, to_temp |-> t] :
     k \in SeqsOf(1..3, 2..6), t \in BOOLEAN}

\* Sorted keys, one sequence for each file.
Ascending(lengths) == {s \in SeqsOf(1..2, lengths) : Sorted(s)}
Numbered(files) ==
  [f \in DOMAIN files |-> [i \in DOMAIN files[f] |-> [key |-> files[f][i], id |-> 10 * f + i]]]
\* Every bufferful is one line, or each file has one.
Single(file) == [i \in DOMAIN file |-> <<file[i]>>]
MergeJobs ==
  {[program |-> "mergefps", ntemps |-> t, unique |-> u,
    inputs |-> [f \in DOMAIN files |-> IF small THEN Single(Numbered(files)[f])
                                       ELSE IF files[f] = <<>> THEN <<>> ELSE <<Numbered(files)[f]>>]] :
     files \in [1..3 -> Ascending(0..2)] \cup [1..4 -> {<<1>>, <<2>>, <<1, 2>>}]
                 \cup [1..5 -> {<<1>>, <<1, 2>>}],
     t \in {0, 2}, u \in BOOLEAN, small \in BOOLEAN}

CheckJobs ==
  UNION {{[program |-> "check", file |-> cut, unique |-> u] :
            cut \in CutsOf([i \in DOMAIN keys |-> [key |-> keys[i], id |-> i]]), u \in BOOLEAN} :
           keys \in SeqsOf(1..2, 0..4)}

-----------------------------------------------------------------------------
\* Characters: blank, tab, a letter and the letter it folds to, one that is ignored.
Blank == 1
Tab == 2
A == 3
B == 4
Ignored == 5

Unordered == [ignore |-> {}, translate |-> <<>>, skipsblanks |-> FALSE, skipeblanks |-> FALSE,
              reverse |-> FALSE]
KeyLines == SeqsOf({Blank, Tab, A}, 0..3) \cup {<<A, Blank, B, Tab, Ignored>>, <<Tab, B, Blank, Blank, A>>}
KeyDefs == {<<1, 0, 0, 0>>, <<1, 0, 1, 0>>, <<2, 0, 0, 0>>, <<2, 0, 2, 0>>, <<2, 2, 2, 1>>,
            <<1, 2, 2, 1>>, <<2, 1, 3, 2>>, <<2, 0, 1, 0>>}
Def(d) == [sword |-> d[1], schar |-> d[2], eword |-> d[3], echar |-> d[4]]
KeyJobs ==
  {[program |-> "compare", a |-> a, b |-> b, defs |-> <<Def(d)>>, tab |-> t, unique |-> TRUE,
    options |-> <<[Unordered EXCEPT !.skipsblanks = s, !.skipeblanks = s]>>, global |-> Unordered] :
     a \in KeyLines, b \in {<<A>>, <<B, Tab, A>>, <<A, Blank, A>>}, d \in KeyDefs,
     t \in {TAB_DEFAULT, Tab}, s \in BOOLEAN}

\* Two keys, and options of the keys and of the command.
Options == {Unordered, [Unordered EXCEPT !.reverse = TRUE], [Unordered EXCEPT !.ignore = {Ignored}],
            [Unordered EXCEPT !.translate = [c \in 1..5 |-> IF c = B THEN A ELSE c], !.reverse = TRUE]}
OptionLines == {<<A>>, <<B, Tab, A>>, <<A, Tab, B>>, <<Ignored, B, Tab, A>>, <<Ignored, Tab, A>>}
OptionJobs ==
  {[program |-> "compare", a |-> a, b |-> b, tab |-> Tab, unique |-> u,
    defs |-> SubSeq(<<Def(<<2, 0, 0, 0>>), Def(<<1, 0, 1, 0>>)>>, 1, n),
    options |-> SubSeq(<<o, Unordered>>, 1, n), global |-> g] :
     a \in OptionLines, b \in OptionLines, n \in 0..2, o \in Options, g \in Options, u \in BOOLEAN}

-----------------------------------------------------------------------------
\* Bytes are told apart by their places; lines have some of them end a line.
HeadBytes ==
  {[program |-> "head", n |-> n, count_lines |-> FALSE, elide_from_end |-> e,
    input |-> [packets |-> IF len = 0 THEN <<>> ELSE <<[k \in 1..len |-> k]>>,
               start_pos |-> 0, kind |-> kind]] :
     n \in 0..11, e \in BOOLEAN, len \in 0..14, kind \in {"pipe", "file", "large"}}
HeadLines ==
  UNION {{[program |-> "head", n |-> n, count_lines |-> TRUE, elide_from_end |-> e,
           input |-> [packets |-> cut, start_pos |-> 0, kind |-> "pipe"]] :
            n \in 0..3, e \in BOOLEAN,
            cut \in CutsOf([k \in 1..len |-> IF k \in ends THEN line_end ELSE k])} :
           <<len, ends>> \in {<<l, s>> \in (0..5) \X SUBSET (1..5) : s \subseteq 1..l}}
HeadSeekable ==
  UNION {{[program |-> "head", n |-> n, count_lines |-> TRUE, elide_from_end |-> TRUE,
           input |-> [packets |-> IF len = 0 THEN <<>>
                                  ELSE <<[k \in 1..len |-> IF k \in ends THEN line_end ELSE k]>>,
                      start_pos |-> start, kind |-> "large"]] :
            n \in 0..3, start \in {s \in 0..1 : s <= len}} :
           <<len, ends>> \in {<<l, s>> \in (0..7) \X SUBSET (1..7) : s \subseteq 1..l}}

-----------------------------------------------------------------------------
Default == [skip_fields |-> 0, skip_chars |-> 0, check_chars |-> 9, output_unique |-> TRUE,
            output_first_repeated |-> TRUE, output_later_repeated |-> FALSE, count |-> FALSE,
            grouping |-> "none", delimit_groups |-> "none"]
UniqOutput ==
  {[Default EXCEPT !.count = c, !.output_unique = u, !.output_first_repeated = r] :
     c, u, r \in BOOLEAN}
  \cup {[Default EXCEPT !.output_unique = FALSE, !.output_later_repeated = TRUE, !.delimit_groups = d] :
          d \in {"none", "prepend", "separate"}}
  \cup {[Default EXCEPT !.grouping = g] : g \in {"prepend", "append", "separate", "both"}}
UniqLines == {<<A>>, <<A, Blank, B>>, <<Blank, A, Blank, B>>}
UniqJobs ==
  {[program |-> "uniq", lines |-> l, o |-> o] : l \in SeqsOf({<<A>>, <<B>>}, 0..5), o \in UniqOutput}
  \cup {[program |-> "uniq", lines |-> l,
         o |-> [o EXCEPT !.skip_fields = f, !.skip_chars = s, !.check_chars = c]] :
          l \in SeqsOf(UniqLines, 2..3), f \in 0..2, s \in 0..1, c \in {1, 9},
          o \in {[Default EXCEPT !.count = TRUE], [Default EXCEPT !.grouping = "both"]}}

CommJobs ==
  {[program |-> "comm", files |-> <<one, two>>, o |-> [columns |-> c, check_input_order |-> k]] :
     one \in SeqsOf(1..3, 0..3), two \in SeqsOf(1..3, 0..3),
     c \in {{1, 2, 3}, {2, 3}}, k \in {"enabled", "default"}}
  \cup {[program |-> "comm", files |-> <<one, two>>,
         o |-> [columns |-> {1, 2, 3}, check_input_order |-> k]] :
          one \in SeqsOf(1..2, 4..4), two \in SeqsOf(1..2, 2..4), k \in {"enabled", "default", "disabled"}}

-----------------------------------------------------------------------------
\* Kinds of words by their length: a short one, one with a comma, one in brackets, the end
\* of a sentence.
Word(id, kind, last) ==
  [chars |-> [k \in 1..kind |-> <<id, k>>], space |-> IF kind = 4 THEN 2 ELSE 1,
   paren |-> kind = 3, period |-> kind = 4, punct |-> kind = 2, ends |-> last]
FmtLine(kinds, indent, from, eof) ==
  [indent |-> indent,
   words |-> [w \in DOMAIN kinds |-> Word(from + w, kinds[w], eof /\ w = Len(kinds))]]
FmtLines ==
  {[program |-> "fmt", lines |-> <<FmtLine(k, 0, 0, eof)>>, o |-> [mode |-> "", uniform |-> u]] :
     k \in SeqsOf(1..4, 1..4) \cup SeqsOf({1, 3}, 5..7), u \in BOOLEAN, eof \in BOOLEAN}
FmtParagraphs ==
  {[program |-> "fmt",
         lines |-> <<FmtLine(k, i, 0, FALSE), FmtLine(l, j, 10, FALSE), FmtLine(<<1, 3>>, 1, 20, FALSE)>>,
         o |-> [mode |-> m, uniform |-> FALSE]] :
          k \in SeqsOf({1, 4}, 1..4), l \in SeqsOf({1, 3}, 0..2), i \in 0..1, j \in 0..2,
          m \in {"", "split", "crown", "tagged"}}
\* Words that fill the array of characters once or twice, last in their paragraph.
FmtHuge ==
  {[program |-> "fmt", lines |-> <<FmtLine(k \o <<n>>, 0, 0, FALSE), FmtLine(<<>>, 0, 10, FALSE), FmtLine(<<3>>, 0, 20, TRUE)>>,
    o |-> [mode |-> m, uniform |-> FALSE]] :
     k \in SeqsOf({1, 3, 4}, 0..3), n \in {11, 12, 13, 24, 25}, m \in {"", "tagged"}}

-----------------------------------------------------------------------------
\* Hierarchies by the levels of their files in preorder; what has files below is a directory.
Levels == {l \in SeqsOf(0..3, 1..5) : /\ l[1] = 0
                                      /\ \A k \in 2..Len(l) : l[k] <= l[k - 1] + 1}
Hierarchy(levels, link, at, fault) ==
  [k \in DOMAIN levels |->
     [level |-> levels[k], dir |-> (k < Len(levels) /\ levels[k + 1] > levels[k]),
      ino |-> IF k = link[2] THEN link[1] ELSE k, nlink |-> IF k \in {link[1], link[2]} THEN 2 ELSE 1,
      fault |-> IF k = at THEN fault ELSE "none"]]
Links(levels) ==
  {<<0, 0>>} \cup {<<j, k>> \in (DOMAIN levels) \X (DOMAIN levels) :
     /\ j < k
     /\ \A f \in {j, k} : f = Len(levels) \/ levels[f + 1] <= levels[f]}
DuOptions(levels, s, c) ==
  [separate_dirs |-> s, all |-> ~ c, max_depth |-> IF s THEN 1 ELSE 9, count_all |-> c,
   hash_all |-> Cardinality({k \in DOMAIN levels : levels[k] = 0}) > 1]
Faults(levels) ==
  {<<0, "none">>} \cup ((DOMAIN levels) \X {"excluded", "NS", "DNR", "STOP"})
DuCases == UNION {{<<l, link, f>> : link \in Links(l), f \in Faults(l)} : l \in Levels}
DuJobs ==
  {[program |-> "du", h |-> Hierarchy(c[1], c[2], c[3][1], c[3][2]), o |-> DuOptions(c[1], separate, all)] :
     c \in {c \in DuCases : Len(c[1]) < 5 \/ c[2] = <<0, 0>> \/ c[3] = <<0, "none">>},
     separate, all \in BOOLEAN}

-----------------------------------------------------------------------------
BasencJobs ==
  {[program |-> "basenc", base |-> "base16", bytes |-> b, wrap |-> w, cut |-> c,
    every |-> e, ignore_garbage |-> i] :
     b \in SeqsOf({0, 165}, 0..5), w \in {0, 1, 2, 3, 5}, c \in {0}, e \in 0..3, i \in BOOLEAN}
  \cup {[program |-> "basenc", base |-> s, bytes |-> b, wrap |-> w, cut |-> c,
         every |-> e, ignore_garbage |-> e # 3] :
          s \in {"base16", "base2msbf", "base2lsbf"}, b \in SeqsOf({1, 200}, 1..3),
          w \in {0, 3, 8}, c \in 0..2, e \in {0, 3, 5}}

-----------------------------------------------------------------------------
\* Files of wc, and pieces of text: letters and spaces of one to three bytes, a lead byte and
\* characters that are not basic or not printed.
Pipe(packets) == [name |-> "file", packets |-> packets, start_pos |-> 0, fails |-> FALSE,
                  regular |-> FALSE, size |-> 0, blksize |-> 4]
Regular(text, start, size) ==
  [Pipe(IF start >= Len(text) THEN <<>> ELSE <<SubSeq(text, start + 1, Len(text))>>)
     EXCEPT !.start_pos = start, !.regular = TRUE, !.size = size]
Pieces == {<<97>>, <<9>>, <<195, 169>>, <<227, 129, 130>>, <<194, 160>>, <<195>>, <<1>>, <<10>>, <<36>>}
Fill(c, n) == [k \in 1..n |-> c]
WcJob(print, mb, from, files) ==
  [program |-> "wc", print |-> print, mb |-> mb, from |-> from, files |-> files]
AllCounts == {"lines", "words", "chars", "bytes", "linelength"}
WcCuts ==
  UNION {{WcJob(AllCounts, TRUE, "args", <<Pipe(cut)>>) : cut \in CutsOf(FlattenSeq(s))} :
           s \in SeqsOf(Pieces, 0..2) \cup {<<p, <<227, 129, 130>>, q>> : p \in {<<97>>, <<195>>}, q \in {<<97>>, <<32>>}}}
WcCounts ==
  {WcJob(p, mb, "args", <<Pipe(<<s[1], s[2] \o s[3]>>)>>) :
     s \in SeqsOf({<<97>>, <<32>>, <<9>>, <<227, 129, 130>>, <<10>>}, 3..3),
     p \in {{"words"}, {"linelength"}, {"lines", "chars"}, {"chars"}}, mb \in BOOLEAN}
WcFiles ==
  {j \in {WcJob(p, FALSE, from, files) :
     files \in SeqsOf({Regular(Fill(10, 3), 0, 3), Regular(Fill(97, 8), 0, 8), Regular(Fill(10, 2), 0, 4),
                        [Pipe(<<<<97>>, <<10, 97>>>>) EXCEPT !.fails = TRUE],
                        [Pipe(<<>>) EXCEPT !.name = "empty"], [Pipe(<<>>) EXCEPT !.name = "missing"]}, 0..3),
     p \in {{"bytes"}, {"lines", "bytes"}}, from \in {"args", "list", "stream"}} :
     j.files # <<>> \/ j.from # "args"}
WcSeeks ==
  {WcJob({"bytes"}, FALSE, "args", <<Regular(Fill(97, l), start, l)>>) : l \in 0..12, start \in 0..13}

FoldJob(text, width, count_bytes, break_spaces) ==
  [program |-> "fold", width |-> width, count_bytes |-> count_bytes, break_spaces |-> break_spaces,
   files |-> <<[opens |-> TRUE, text |-> text, fails |-> FALSE]>>]
FoldColumns == {FoldJob(t, w, FALSE, s) : t \in SeqsOf({97, 32, 9, 8}, 5..5), w \in {5}, s \in BOOLEAN}
  \cup {FoldJob(t, 3, FALSE, TRUE) : t \in SeqsOf({97, 32, 8}, 6..6)}
FoldWords == {FoldJob(t, w, FALSE, TRUE) : t \in SeqsOf({97, 32}, 0..8), w \in {2, 3, 5}}
FoldLinesOf == {FoldJob(t, 2, b, s) : t \in SeqsOf({97, 32, 10, 13}, 4..4), b, s \in BOOLEAN}

-----------------------------------------------------------------------------
AllJobs == <<SortLinesJobs, MergeJobs, CheckJobs, KeyJobs, OptionJobs, HeadBytes, HeadLines,
             HeadSeekable, UniqJobs, CommJobs, FmtLines, FmtParagraphs, FmtHuge, DuJobs, BasencJobs,
             WcCuts, WcCounts, WcFiles, WcSeeks, FoldColumns, FoldWords, FoldLinesOf,
             ReadelfPairs, ReadelfTriples, ReadelfFiles,
             VersionJobs, SymbolVersionJobs, ChangedVersionJobs,
             NoteJobs, CutNoteJobs, V850Jobs, DumpJobs, PackedJobs, HashJobs, ChangedHashJobs, GroupJobs,
             SingleRelocs, VoidRelocs, RiscvRelocs, DifferenceRelocs, OperandRelocs,
             ZeroJobs, SymbolPairs, SymbolTriples, RangeJobs, PartJobs, ListingRelocs, DynamicRelocs, RowJobs,
             JumpsAnywhere, JumpsApart, SourceJobs, PrefixJobs, ListedRanges, ListedPlaces, ListedFiles>>

\* head -c -9 of 8 bytes in a pipe, among others.
Elisions == <<{j \in HeadBytes : j.input.kind = "pipe"}>>

\* readelf of a thin archive, among others.
ThinArchives == <<ReadelfFiles>>
=============================================================================

-------------------------------- MODULE Dumps --------------------------------
(***************************************************************************)
(* One call of a sequential algorithm: a job is chosen, an action computes *)
(* the answer of the code, and each property compares it with what the     *)
(* documentation of the program promises, written without reference to how *)
(* the code goes about it.  Here the jobs of readelf; Objdumps and         *)
(* Programs add those of other programs.                                   *)
(***************************************************************************)
EXTENDS Integers, Sequences, FiniteSets, SequencesExt

CONSTANT Jobs   \* sets of records, whose field program names the algorithm

VARIABLES job, answer

vars == <<job, answer>>

None == <<>>

Of(program) == job.program = program

Init == (\E k \in DOMAIN Jobs : job \in Jobs[k]) /\ answer = None

-----------------------------------------------------------------------------
(* What the properties are written with.                                   *)

Smallest(S) == CHOOSE n \in S : \A k \in S : n <= k
Largest(S) == CHOOSE n \in S : \A k \in S : n >= k

\* The elements of a set in a total order.
Ranked(S, before(_, _)) ==
  [k \in 1..Cardinality(S) |-> CHOOSE a \in S : Cardinality({b \in S : before(b, a)}) = k - 1]

\* Lines in the order of their keys, those of equal keys by their ids.
InOrder(lines) == Ranked(lines, LAMBDA a, b : a.key < b.key \/ (a.key = b.key /\ a.id < b.id))

\* The first of each run of equal keys.
FirstOfEquals(lines) == {a \in lines : ~ \E b \in lines : b.key = a.key /\ b.id < a.id}

\* The runs of a sequence: each is a range of places whose neighbours are alike.
Runs(n, alike(_, _)) ==
  {r \in (1..n) \X (1..n) :
     /\ r[1] <= r[2] /\ \A k \in r[1]..(r[2] - 1) : alike(k, k + 1)
     /\ r[1] = 1 \/ ~ alike(r[1] - 1, r[1])
     /\ r[2] = n \/ ~ alike(r[2], r[2] + 1)}

-----------------------------------------------------------------------------
ReadelfOf  == INSTANCE Readelf
TablesOf   == INSTANCE ElfTables
SectionsOf == INSTANCE Sections WITH Row <- 4
RelocsOf   == INSTANCE Relocs

-----------------------------------------------------------------------------
(* readelf: files and archives.                                            *)

ShowObjects ==
  /\ Of("readelf") /\ answer = None
  /\ answer' = ReadelfOf!main(job)
  /\ UNCHANGED job

\* What readelf gets to see: plain files, and members of archives up to the first that is broken.
LookedAt(file) ==
  LET broken == {k \in DOMAIN file.members :
                   \/ file.members[k].kind = "corrupt"
                   \/ /\ file.members[k].kind = "proxy"
                      /\ file.members[k].o.header = "short" \/ file.members[k].o.sections \in {"unreadable", "nocount"}}
  IN IF file.kind = "missing" \/ (file.kind = "archive" /\ (file.corrupt \/ job.do = {"archive_index"})) THEN <<>>
     ELSE SubSeq(file.members, 1, Smallest({k - 1 : k \in broken} \cup {Len(file.members)}))

\* A run of readelf on one object.
Alone(o, do) ==
  ReadelfOf!main([job EXCEPT !.do = do, !.files = <<[kind |-> "object", members |-> <<[kind |-> "plain", o |-> o]>>]>>])

\* What readelf shows of an object is what it shows of it alone: it does not depend on what came
\* before, in the same archive or on the command line, and uses no table of another object, nor one
\* that is not there.  What remains of others: after an object without section headers, what needs
\* them is not shown of any other; an archive member without an interpreter has the last one's; and
\* without DT_SYMINFO the last one's place of it.  (Of proxies, see ProxiesShown.)
FilesApart ==
  Of("readelf") /\ answer # None =>
    LET seen == FlattenSeq([f \in DOMAIN job.files |->
                  LET r == LookedAt(job.files[f]) IN [k \in DOMAIN r |-> [file |-> f, kind |-> r[k].kind, o |-> r[k].o]]])
        elf == {k \in DOMAIN seen : seen[k].kind = "plain" /\ seen[k].o.header = "elf"}
        bare(k) == seen[k].kind = "nested" \/ seen[k].o.sections \in {"unreadable", "nocount"}
        needing == {"unwind", "version", "dump", "arch"}
                     \cup IF "using_dynamic" \in job.do THEN {} ELSE {"syms", "dyn_syms", "reloc"}
        do(k) == IF \E j \in 1..(k - 1) : bare(j) /\ seen[j].o.header = "elf"
                 THEN job.do \ needing ELSE job.do
        siblings(k) == {j \in elf : j < k /\ seen[j].file = seen[k].file}
        interp(k) == seen[k].o.interp = 0 /\ \E j \in siblings(k) : seen[j].o.interp # 0
        syminfo(k) == /\ {"SYMINFO", "SYMINSZ"} \cap seen[k].o.tags = {"SYMINSZ"}
                      /\ \E j \in siblings(k) : "SYMINFO" \in seen[j].o.tags
        shown(out, k) ==
          LET own == SelectSeq(out, LAMBDA t : t.of = seen[k].o.id /\ ~ (syminfo(k) /\ t.what = "syminfo"))
          IN [n \in DOMAIN own |-> IF interp(k) /\ own[n].what = "dynamic section with interpreter"
                                   THEN [own[n] EXCEPT !.what = "dynamic section"] ELSE own[n]]
        ids(k) == {seen[k].o.id} \cup {d.id : d \in ToSet(seen[k].o.separate)}
        place(t) == Smallest({k \in DOMAIN seen : t.of \in ids(k)})
        out == SelectSeq(answer.out, LAMBDA t : t.what # "index")
    IN /\ \A k \in elf : /\ shown(out, k) = shown(Alone(seen[k].o, do(k)).out, k)
                         /\ \A t \in ToSet(shown(out, k)) : t.from \subseteq ids(k)
       /\ \A n \in 2..Len(out) : place(out[n - 1]) <= place(out[n])
       /\ ~ answer.err => \A k \in DOMAIN seen : \/ k \in elf /\ ~ Alone(seen[k].o, do(k)).err
                                                 \/ seen[k].kind \in {"nested", "proxy"}

\* "The file is positioned at the start of the ELF object" when process_object begins
\* (readelf.c:20474-20475), also if it is a proxy of a thin archive, which open_file has looked
\* into: so the header of each ELF file that is looked at is shown, if headers are asked for.
ProxiesShown ==
  Of("readelf") /\ answer # None /\ "header" \in job.do =>
    \A f \in DOMAIN job.files : \A member \in ToSet(LookedAt(job.files[f])) :
      member.kind = "proxy" /\ member.o.header = "elf" =>
        \E t \in ToSet(answer.out) : t.of = member.o.id /\ t.what = "header"

-----------------------------------------------------------------------------
(* readelf: versions.  A job has a buffer and what was written to it; then *)
(* a word may have been changed, or the end cut off.                       *)

ListVersions ==
  /\ Of("versions") /\ answer = None
  /\ answer' = TablesOf!process_version_sections(job.section)
  /\ UNCHANGED job

NameSymbols ==
  /\ Of("symbol versions") /\ answer = None
  /\ answer' = <<TablesOf!process_versym(job.file), TablesOf!print_dynamic_symbols(job.file)>>
  /\ UNCHANGED job

\* The versions of a file with an index: as <<name>>, or <<>>.
Defined(ndx) ==
  LET defs == {k \in DOMAIN job.defs : job.defs[k].ndx = ndx}
  IN IF defs = {} THEN <<>> ELSE <<job.defs[CHOOSE k \in defs : TRUE].names[1]>>
Needed(ndx) ==
  LET needs == {n \in UNION {ToSet(job.needs[k].versions) : k \in DOMAIN job.needs} : n.other = ndx}
  IN IF needs = {} THEN <<>> ELSE <<(CHOOSE n \in needs : TRUE).name>>

\* readelf lists the versions a file defines and needs, each once and in order, wherever their
\* names lie; of a section that ends early it lists nothing it does not hold, and says so.  For
\* a symbol both listings name the version its index stands for and no other; if none has this
\* index, they name none.
VersionsShown ==
  /\ Of("versions") /\ answer # None =>
       LET shown == SelectSeq(answer, LAMBDA t : t # TablesOf!Complaint)
           at(t) == CHOOSE k \in DOMAIN job.holds : job.holds[k] = t
           entries == SelectSeq(shown, LAMBDA t : t[1] \in {"def", "need"})
       IN CASE job.is = "whole" -> answer = job.holds
            [] job.is = "cut" -> /\ answer # shown
                                 /\ ToSet(shown) \subseteq ToSet(job.holds)
                                 /\ \A k \in 2..Len(shown) : at(shown[k - 1]) < at(shown[k])
            [] job.is = "changed" -> IF answer = shown THEN Len(entries) = job.section.sh_info
                                     ELSE Len(entries) <= job.section.sh_info
  /\ Of("symbol versions") /\ answer # None =>
       \A k \in DOMAIN job.file.symbols :
         LET d == job.file.versym[k]
             symbol == job.file.symbols[k]
             defined == IF d = TablesOf!HIDDEN + 1 THEN <<>> ELSE Defined(d % TablesOf!HIDDEN)
             needed == Needed(d)
             name(n) == IF n[1] < job.file.strtab_size THEN n ELSE <<-1>>
             others == IF symbol.defined /\ defined # <<>> /\ defined[1] # symbol.st_name THEN defined ELSE needed
         IN IF job.is = "whole"
            THEN /\ answer[1][k] = CASE d \in {0, 1} -> <<>>
                                     [] needed # <<>> /\ defined # <<>> -> <<"both">>
                                     [] needed # <<>> -> name(needed)
                                     [] defined # <<>> -> name(defined)
                                     [] OTHER -> <<>>
                 /\ d # 0 /\ (d # 1 \/ ~ symbol.defined) /\ others # <<>> =>
                      SubSeq(answer[2][k], 1, 1) = name(others)
                 /\ d = 0 \/ others = <<>> => answer[2][k] = <<>> \/ answer[2][k][1] = -1
            ELSE d \in {0, 1} => answer[1][k] = <<>>

-----------------------------------------------------------------------------
(* readelf: notes, and sections dumped as strings and as bytes.            *)

ListNotes ==
  /\ Of("notes") /\ answer = None
  /\ answer' = <<IF job.section.v850 THEN SectionsOf!process_v850_notes(job.section)
                ELSE SectionsOf!process_notes_at(job.section)>>
  /\ UNCHANGED job

DumpSection ==
  /\ Of("dump") /\ answer = None
  /\ answer' = <<SectionsOf!dump_section_as_strings(job.section, job.decompress),
                SectionsOf!dump_section_as_bytes(job.section, job.decompress)>>
  /\ UNCHANGED job

\* Every note up to the one that does not fit is shown, with all of its name and nothing else,
\* whatever its sizes and the alignment; of a buffer that was cut or damaged nothing is shown
\* that is not in it, nothing twice, and what is left out is complained of.
NotesShown ==
  Of("notes") /\ answer # None =>
    LET shown == SelectSeq(answer[1].out, LAMBDA t : t # SectionsOf!Complaint)
        complains == shown # answer[1].out
        \* what a note takes, as the jobs wrote it
        fit == {k \in DOMAIN job.holds : job.holds[k].end <= job.section.length}
        most == Largest({0} \cup fit)
        expected == [k \in 1..most |-> job.holds[k].shown]
        written == IF most = 0 THEN 0 ELSE job.holds[most].end
    IN CASE job.is = "odd" -> shown = <<>> /\ ~ answer[1].ok
         [] job.is = "whole" -> /\ shown = expected
                                /\ complains <=> written < job.section.length
                                /\ answer[1].ok
         [] job.is = "changed" ->
              \A k \in DOMAIN shown :
                shown[k][1] = "note" =>
                  LET behind == IF k = 1 THEN 0 ELSE shown[k - 1][3] + shown[k - 1][4]
                  IN /\ behind + 12 + Len(shown[k][2]) <= shown[k][3]
                     /\ shown[k][3] + shown[k][4] <= job.section.length

\* A dump as strings shows every character of the section that can be printed once and in
\* order, a line for each string or part of one up to a new line, with its place unless it goes
\* on behind a new line; a dump as bytes has all bytes with their addresses.  With -z both show
\* what was compressed, or fail, and only then the strings may not end in the buffer.
DumpShown ==
  Of("dump") /\ answer # None =>
    LET unpacked == job.decompress /\ job.section.packed # "no" /\ job.section.size # 0
        text == IF unpacked THEN job.plain ELSE job.section.text
        strings == answer[1].out
        rows == answer[2].out
        shown == FlattenSeq([l \in DOMAIN strings |-> strings[l].shown])
        printable(k) == SectionsOf!ISPRINT(text[k])
        ends(k) == text[k] \in {0, SectionsOf!NEWLINE}
    IN IF SectionsOf!Empty(job.section) THEN answer = <<SectionsOf!NoData, SectionsOf!NoData>>
       ELSE IF job.broken THEN \A d \in 1..2 : answer[d] = SectionsOf!Failed
       ELSE /\ SelectSeq(shown, printable) = SelectSeq([k \in DOMAIN text |-> k], printable)
            /\ \A l \in DOMAIN strings :
                 LET line == strings[l]
                     first == line.shown[1]
                     before == IF l = 1 THEN 0 ELSE Last(strings[l - 1].shown)
                 IN /\ printable(first) /\ line.at \in {first - 1, -1}
                    /\ \A k \in first..Last(line.shown) : ~ ends(k)
                    /\ l > 1 => \E k \in before..first : ends(k)
                    /\ line.at = -1 <=> /\ l > 1
                                       /\ text[before + 1] = SectionsOf!NEWLINE
                                       /\ text[before + 2] # 0
                    /\ line.by = SectionsOf!Beyond => unpacked /\ l = Len(strings)
            /\ FlattenSeq([r \in DOMAIN rows |-> rows[r].bytes]) = text
            /\ \A r \in DOMAIN rows : rows[r].addr = job.section.addr + 4 * (r - 1)

-----------------------------------------------------------------------------
(* readelf: hash tables and groups of sections.                            *)

CountSymbols ==
  /\ Of("hash") /\ answer = None
  /\ answer' = TablesOf!histograms(job.file)
  /\ UNCHANGED job

ListGroups ==
  /\ Of("groups") /\ answer = None
  /\ answer' = SectionsOf!process_section_groups(job.sections)
  /\ UNCHANGED job

\* From either hash table, or both, readelf gets the number of symbols that were hashed, and
\* its histograms count each symbol once, in the bucket where it was put.  Of a damaged table
\* nothing outside of it is read, and no chain is followed forever.
SymbolsCounted ==
  Of("hash") /\ answer # None =>
    LET sizes == [b \in DOMAIN job.buckets |-> Len(job.buckets[b])]
        hashed == FoldLeft(LAMBDA n, s : n + s, 0, sizes)
        most == Largest({0} \cup ToSet(sizes))
        expected == [l \in 0..most |-> Cardinality({b \in DOMAIN sizes : sizes[b] = l})]
        sum(c) == FoldSet(LAMBDA l, n : n + c[l], 0, DOMAIN c)
    IN IF job.is = "whole"
       THEN /\ answer.syms = IF hashed = 0 /\ job.file.hash < 0 THEN 0 ELSE job.symidx + hashed
            /\ \A h \in ToSet(answer.shown) : h.counts = expected /\ h.nsyms = hashed /\ ~ h.corrupt
            /\ {h.of : h \in ToSet(answer.shown)} =
                 (IF job.file.hash < 0 THEN {} ELSE {"sysv"})
                   \cup (IF job.file.gnu_hash < 0 \/ hashed = 0 THEN {} ELSE {"gnu"})
       ELSE \A h \in ToSet(answer.shown) : sum(h.counts) > 0 /\ h.nsyms <= 2 * TablesOf!FileSize(job.file)

\* A section is in one group at most, the first that names it; each group that can be read is
\* listed with its own name, whatever tables the groups before it used; and what is listed is
\* what the search for unwind sections later finds.
GroupsListed ==
  Of("groups") /\ answer # None =>
    LET sections == job.sections
        at(n) == {k \in DOMAIN answer.out : answer.out[k] = <<"member", n>>}
        \* the group in whose list a place of the output is
        group(k) == answer.out[Largest({j \in 1..k : answer.out[j][1] = "group"})][2]
        symtab(i) == sections[sections[i].sh_link]
        fine(i) == /\ sections[i].type = "group" /\ sections[i].words # <<>>
                   /\ sections[i].sh_link \in DOMAIN sections /\ symtab(i).type = "symtab"
                   /\ sections[i].sh_info < Len(symtab(i).symbols)
                   /\ LET sym == symtab(i).symbols[sections[i].sh_info + 1]
                      IN sym.section # SectionsOf!None => sym.section \in (DOMAIN sections \ {0})
        name(i) == LET sym == symtab(i).symbols[sections[i].sh_info + 1]
                       strtab == symtab(i).sh_link
                   IN IF sym.section # SectionsOf!None THEN <<"section", sym.section>>
                      ELSE IF strtab \in DOMAIN sections /\ sym.st_name < sections[strtab].size
                      THEN <<"string", strtab, sym.st_name>> ELSE <<"corrupt">>
        words(i) == ToSet(SubSeq(sections[i].words, 2, Len(sections[i].words)))
    IN /\ SelectSeq(answer.out, LAMBDA t : t[1] = "group")
            = [k \in DOMAIN job.groups |-> <<"group", job.groups[k], name(job.groups[k])>>]
       /\ ToSet(job.groups) = {i \in DOMAIN sections : fine(i)}
       /\ \A n \in DOMAIN sections :
            LET names == {i \in ToSet(job.groups) : n \in words(i)}
            IN IF names = {} THEN at(n) = {} /\ answer.of[n] = SectionsOf!None
               ELSE IF n = 0 THEN answer.of[0] = Largest(names)
               ELSE /\ Cardinality(at(n)) = 1
                    /\ \A k \in at(n) : group(k) = Smallest(names)
                    /\ answer.of[n] = Smallest(names)

\* VersionsShown, NotesShown, DumpShown, SymbolsCounted and GroupsListed: no table that readelf walks over is
\* shown in part, twice, or with what belongs to another.
TablesShown == VersionsShown /\ NotesShown /\ DumpShown /\ SymbolsCounted /\ GroupsListed

-----------------------------------------------------------------------------
(* readelf: relocations.  What is to happen to a section comes in groups   *)
(* of relocations, in a field each: one that puts a value there; those     *)
(* that add to it and subtract from it; two or three whose difference is   *)
(* put there; and those that are to be ignored.                            *)

ApplyRelocations ==
  /\ Of("relocs") /\ answer = None
  /\ answer' = RelocsOf!relocated(job.file)
  /\ UNCHANGED job

Symbol(r) == job.file.symtab[r.sym].value
FieldKind(r) == RelocsOf!KindsOf(job.file.machine, r.type)[1]
\* The field that a group of relocations is for, and what is to be there.
FieldOf(g, type, bytes) ==
  LET r == Last(g.relocs)
      first == g.relocs[1]
      there == RelocsOf!byte_get(bytes, r.offset, FieldKind(r).size)
      addend(k) == IF type = "RELA" /\ job.file.machine # "SH" THEN k.addend ELSE there
      partial == type = "RELA" /\ RelocsOf!PartialInplace(job.file.machine, r.type)
      signed(k) == IF FieldKind(k).how = "sub" THEN 0 - Symbol(k) ELSE Symbol(k)
  IN CASE g.how = "one" ->
            [at |-> r.offset, size |-> FieldKind(r).size,
             value |-> Symbol(r) + addend(r) + (IF partial THEN there ELSE 0)
                         - (IF FieldKind(r).how # "pcrel" THEN 0
                            ELSE r.offset + (IF job.file.machine = "PARISC" THEN 8 ELSE 0))]
       [] g.how = "sums" -> [at |-> r.offset, size |-> FieldKind(r).size,
                             value |-> FoldLeft(LAMBDA n, k : n + signed(k), there, g.relocs)]
       [] g.how = "six" -> [at |-> r.offset, size |-> 1,
                            value |-> ((Symbol(first) + first.addend - (IF Len(g.relocs) = 1 THEN 0 ELSE Symbol(r))) % 4)
                                        + there - (there % 4)]
       [] g.how = "difference" -> [at |-> r.offset, size |-> g.size, value |-> Symbol(r) + r.addend - Symbol(first)]
       [] g.how = "operands" ->
            [at |-> r.offset, size |-> g.size,
             value |-> Symbol(first) + first.addend - Symbol(g.relocs[2]) - g.relocs[2].addend]
       [] g.how = "ignored" -> [at |-> 0, size |-> 0, value |-> 0]

\* Each field of a section gets the value of its symbol, with the addend or with what is there
\* already, relative to the place or not, in as many bytes as the type says, and no other byte
\* changes: relocations that are out of the section, without a symbol, of a file, unknown or
\* void do nothing.  Additions to a field and subtractions from it may come in any order.  A
\* symbol that is kept for the next relocation is only used by the next that can, in the same
\* section.  No type of a machine is taken for two kinds.
RelocsApplied ==
  Of("relocs") /\ answer # None =>
    \A n \in DOMAIN answer :
      LET bytes == job.file.sections[n]
          relsec == job.file.relsecs[n]
          fields == [k \in DOMAIN job.groups[n] |-> FieldOf(job.groups[n][k], relsec.type, bytes)]
          in(p) == {k \in DOMAIN fields : p \in fields[k].at..(fields[k].at + fields[k].size - 1)}
          byte(f, p) == ((f.value % RelocsOf!VMA) \div 8 ^ (p - f.at)) % 8
      IN /\ answer[n].ok
         /\ \A p \in DOMAIN bytes :
              answer[n].bytes[p] = IF in(p) = {} THEN bytes[p] ELSE byte(fields[CHOOSE k \in in(p) : TRUE], p)
         /\ \A r \in ToSet(relsec.relocs) : Len(RelocsOf!KindsOf(job.file.machine, r.type)) <= 1

=============================================================================

------------------------------- MODULE Objdumps -------------------------------
(***************************************************************************)
(* The jobs of objdump -d and objdump -r, and what is expected of their    *)
(* answers.                                                                *)
(***************************************************************************)
EXTENDS Dumps

ListOf == INSTANCE RelocListing
DisOf == INSTANCE Disassembly WITH Context <- 2, LF <- 10, CR <- 13, InsnOctets <- 2, DataOctets <- 3

Disassemble ==
  /\ Of("objdump") /\ answer = None
  /\ answer' = DisOf!disassemble_data(job)
  /\ UNCHANGED job

Entries(out, sec, kinds) == SelectSeq(out, LAMBDA t : t.what \in kinds /\ t.section = sec)
LinesIn(out, sec) == Entries(out, sec, {"insn", "data", "zeroes"})
Vma(sec) == job.abfd.sections[sec].vma

\* The part of a section that is to be disassembled.
From(sec) == IF job.start_address <= Vma(sec) THEN 0 ELSE job.start_address - Vma(sec)
Until(sec) ==
  LET size == Len(job.abfd.sections[sec].data)
  IN Smallest({size} \cup (IF job.stop_address = -1 THEN {} ELSE {Largest({0, job.stop_address - Vma(sec)})}))
Chosen(sec) ==
  LET section == job.abfd.sections[sec]
  IN /\ job.disassemble_all \/ section.code \/ section.name \in job.only_list
     /\ job.only_list = {} \/ section.name \in job.only_list
     /\ section.readable /\ From(sec) < Until(sec)

\* Symbols that can head a part of a section.
Heads(sec) ==
  {sym \in ToSet((IF job.abfd.syms = <<>> THEN job.abfd.dynsyms ELSE job.abfd.syms) \o job.abfd.synthsyms) :
     /\ sym.section \in DOMAIN job.abfd.sections
     /\ job.abfd.sections[sym.section].name = job.abfd.sections[sec].name
     /\ sym.name # 0 /\ "mapping" \notin sym.traits
     /\ {"DEBUGGING", "SECTION_SYM"} \cap sym.flags = {} \/ "significant" \in sym.traits}

\* Every octet is shown once, in a line or among skipped zeroes; code that goes on behind a
\* symbol (where it may) is shown again there, and what follows an instruction that cannot be
\* read is not shown up to the next symbol.  The octets of a line are all there, in rows, and
\* each in one (chunks of more than one octet for instructions that end before the next symbol).
OctetsShown(out, sec) ==
  LET lines == LinesIn(out, sec)
      ends == {Until(sec)} \cup {h.value - Vma(sec) : h \in Heads(sec)}
      end(l) == Smallest({p \in ends : p > l.at})
      over == job.disassemble_all \/ ~ job.abfd.sections[sec].code
      count(p) == Cardinality({k \in DOMAIN lines : p \in lines[k].at..(lines[k].at + lines[k].octets - 1)})
      lost(p) == \E l \in ToSet(lines) : l.octets = 0 /\ l.at <= p /\ p < end(l)
      row(l) == FlattenSeq([k \in DOMAIN l.rows |-> l.rows[k].octets])
      shown(l) == l.at..(Smallest({l.at + l.octets, end(l)}) - 1)
      whole(l) == job.machine.chunk = 1 \/ (l.what = "insn" /\ l.at + l.octets <= end(l))
  IN /\ \A p \in From(sec)..(Until(sec) - 1) :
          IF lost(p) THEN count(p) = 0 \/ over ELSE count(p) = 1 \/ (over /\ count(p) > 1)
     /\ \A k \in 2..Len(lines) : lines[k - 1].at < lines[k].at
     /\ \A l \in ToSet(lines) :
          /\ l.what = "zeroes" => \A p \in shown(l) : job.abfd.sections[sec].data[p + 1] = 0
          /\ l.what \in {"insn", "data"} /\ whole(l) =>
               IF job.show_raw_insn < 0 \/ (job.prefix_addresses /\ job.show_raw_insn = 0) THEN row(l) = <<>>
               ELSE ToSet(row(l)) = shown(l) /\ Len(row(l)) = Cardinality(shown(l))

\* Each part is headed by its symbol: one of the section that has this address (at the start,
\* the nearest one below, or else above), a function if there is one.
PartsHeaded(out, sec) ==
  LET labels == Entries(out, sec, {"label"})
      heads == Heads(sec)
      start == Vma(sec) + From(sec)
      below == {h.value : h \in heads} \cap (0..start)
      first == IF below = {} THEN {h.value : h \in heads} \cap {Smallest({h.value : h \in heads})} ELSE {Largest(below)}
      places == {From(sec)} \cup {h.value - Vma(sec) : h \in {g \in heads : g.value > start /\ g.value < Vma(sec) + Until(sec)}}
      function(h) == "FUNCTION" \in h.flags /\ {"compiled", "file"} \cap h.traits = {} /\ "FILE" \notin h.flags
  IN /\ {l.at : l \in ToSet(labels)} = places /\ Len(labels) = Cardinality(places)
     /\ \A l \in ToSet(labels) :
          IF l.sym = <<>> THEN heads = {}
          ELSE /\ l.sym[1] \in heads
               /\ l.sym[1].value \in (IF l.at = From(sec) THEN first ELSE {Vma(sec) + l.at})
               /\ function(l.sym[1]) \/ \A h \in heads : h.value = l.sym[1].value => ~ function(h)

\* Each relocation of what is shown follows the line it belongs to, once and in order.
RelocsFollow(out, sec) ==
  LET dynamic == job.abfd.dynamic /\ job.dump_dynamic_reloc_info
      all == IF dynamic THEN job.abfd.dynrels ELSE job.abfd.sections[sec].relocs
      base == IF dynamic THEN Vma(sec) ELSE 0
      begin == CHOOSE k \in DOMAIN out : out[k].what = "section" /\ out[k].section = sec
      end == Smallest({k \in (begin + 1)..(Len(out) + 1) : k > Len(out) \/ out[k].what = "section"})
      mine == SelectSeq([k \in 1..(end - begin - 1) |-> begin + k], LAMBDA k : out[k].what = "reloc")
      line(k) == out[Largest({j \in begin..(k - 1) : out[j].what \in {"insn", "data", "zeroes"}})]
      offset(r) == r.address - base
      within == {r \in ToSet(all) : offset(r) \in From(sec)..(Until(sec) - 1)}
  IN /\ \A n \in DOMAIN mine :
          LET r == out[mine[n]].reloc
          IN /\ offset(r) \in line(mine[n]).at..(line(mine[n]).at + line(mine[n]).octets - 1)
             /\ out[mine[n]].at = Vma(sec) + offset(r)
             /\ n > 1 => out[mine[n - 1]].reloc.address <= r.address
     /\ {out[mine[n]].reloc : n \in DOMAIN mine} = within /\ Len(mine) = Cardinality(within)

\* An instruction is shown with the first relocation that lies in it (also if it lies in the part
\* that a symbol cuts off), no data and no other with one.
RelocsUsed(out, sec) ==
  LET data == job.abfd.sections[sec].data
      whole(p) == IF data[p + 1] \in 2..3 /\ p + data[p + 1] <= Len(data) THEN data[p + 1] ELSE 1
  IN \A l \in ToSet(LinesIn(out, sec)) :
       l.what = "insn" /\ l.octets > 0 =>
         LET max == job.machine.max_reloc_offset
             in == {r.address : r \in {q \in ToSet(job.abfd.sections[sec].relocs) :
                                        q.address \in l.at..(l.at + whole(l.at) - 1)}}
         IN IF in = {} \/ (max >= 0 /\ Smallest(in) - l.at > max) THEN l.reloc = <<>>
            ELSE l.reloc # <<>> /\ l.reloc[1].address = Smallest(in)

\* With --disassemble=SYMBOL: the octets of this function or up to the next one (or the next
\* symbol that is no local label), if this is the symbol that heads them.
PartUntil(labels, headed, sec, sym) ==
  LET ends(l) == l.sym # <<>> /\ IF "FUNCTION" \in sym.flags THEN "FUNCTION" \in l.sym[1].flags
                                ELSE "label" \notin l.sym[1].traits
  IN IF "FUNCTION" \in sym.flags /\ sym.size > 0 THEN labels[headed].at + sym.size
     ELSE Smallest({Until(sec)} \cup {labels[k].at : k \in {j \in DOMAIN labels : j > headed /\ ends(labels[j])}})
PartOf(labels, headed, sec) ==
  IF headed = 0 THEN {} ELSE labels[headed].at..(PartUntil(labels, headed, sec, labels[headed].sym[1]) - 1)
PartIn(labels, sec) == PartOf(labels, SelectInSeq(labels, LAMBDA l : l.sym # <<>> /\ l.sym[1].name = job.symbol[1]), sec)
PartShown(out, sec) ==
  LET all == DisOf!disassemble_data([job EXCEPT !.symbol = <<>>]).out
  IN UNION {l.at..(l.at + l.octets - 1) : l \in ToSet(LinesIn(out, sec))} = PartIn(Entries(all, sec, {"label"}), sec)

\* A section is disassembled from its start or --start-address to its end or --stop-address,
\* each octet and each relocation once, and each part below its symbol, although the symbols of
\* all sections are in one table, sorted anew for each section.
DisassemblyShown ==
  Of("objdump") /\ answer # None =>
    LET out == answer.out
        sections == SelectSeq([k \in DOMAIN job.abfd.sections |-> k], Chosen)
        headers == SelectSeq(out, LAMBDA t : t.what = "section")
        readable == job.machine.short = 1
    IN /\ [k \in DOMAIN headers |-> headers[k].section] = sections
       /\ \A sec \in ToSet(sections) :
            IF job.symbol # <<>> THEN PartShown(out, sec)
            ELSE /\ OctetsShown(out, sec)
                 /\ ~ job.prefix_addresses => PartsHeaded(out, sec)
                 /\ (job.dump_reloc_info \/ job.dump_dynamic_reloc_info) /\ readable => RelocsFollow(out, sec)
                 /\ job.machine.needs_relocs /\ readable /\ ~ job.disassemble_all => RelocsUsed(out, sec)

-----------------------------------------------------------------------------
(* objdump -d -l -S                                                        *)

InfoOf(line) == job.abfd.sections[line.section].lines[line.at + 1]

\* The source shown above a line of code: that of its line, unless it was shown last, with up to
\* two lines before it (or, at first and so wanted, all) that no code of this file had come up
\* to; and of a file found under its name or, by the name without directories, with -I.
SourceAbove(out, k, before, info) ==
  LET file == job.holds[info.path]
      mine == {i \in before : InfoOf(out[i])[1].path = info.path}
      line(i) == InfoOf(out[i])[1].linenumber
      highest == Largest({0} \cup {line(i) : i \in mine})
      whole == job.source.file_start_context /\ mine = {}
      lines == {info.linenumber} \cup {l \in 1..(info.linenumber - 1) : l > highest /\ (whole \/ l >= info.linenumber - 2)}
      above == SubSeq(out, Largest({0} \cup {i \in 1..(k - 1) : out[i].what # "source"}) + 1, k - 1)
      same == mine # {} /\ line(Largest(mine)) = info.linenumber
  IN IF info.path = <<>> \/ info.linenumber = 0 \/ same THEN above = <<>>
     ELSE /\ {t.line : t \in ToSet(above)} = lines \cap DOMAIN file /\ Len(above) = Cardinality(lines \cap DOMAIN file)
          /\ \A n \in DOMAIN above : /\ above[n].text = file[above[n].line]
                                     /\ n > 1 => above[n - 1].line < above[n].line

\* Above each line of code, what was shown last is its function, its line and its discriminator,
\* and its source: in whatever order the code came from its files, into whichever function, and
\* although not every address has a line.  (Only another file with the same line goes unnoticed.)
SourceShown ==
  Of("objdump") /\ answer # None =>
    LET out == answer.out
        code == {k \in DOMAIN out : out[k].what \in {"insn", "data"} /\ InfoOf(out[k]) # <<>>}
        info(k) == InfoOf(out[k])[1]
        last(what, k) == Largest({0} \cup {i \in 1..(k - 1) : out[i].what = what})
        sourced(i) == info(i).path # <<>> /\ info(i).linenumber > 0
    IN /\ job.source.with_line_numbers => \A k \in code :
            /\ info(k).functionname # <<>> => last("function", k) # 0 /\ out[last("function", k)].name = info(k).functionname
            /\ info(k).linenumber > 0 => /\ last("line", k) > last("function", k)
                                         /\ out[last("line", k)].line = info(k).linenumber
                                         /\ out[last("line", k)].discriminator = info(k).discriminator
       /\ IF job.source.with_source_code
          THEN \A k \in code : SourceAbove(out, k, {i \in code : i < k /\ sourced(i)}, info(k))
          ELSE last("source", Len(out) + 1) = 0

-----------------------------------------------------------------------------
(* objdump -d --visualize-jumps                                            *)

\* Where the instructions of a part start.
Starts(sec, start, end) ==
  LET size(p) == LET octet == job.abfd.sections[sec].data[p + 1] IN IF octet \in 2..3 THEN octet ELSE 1
      step(s, p) == IF p # s.next THEN s ELSE [next |-> p + size(p), starts |-> s.starts \cup {p}]
  IN FoldLeft(step, [next |-> start, starts |-> {}], [k \in 1..(end - start) |-> start + k - 1]).starts

\* In the picture of a part that is shown as instructions, each target of jumps has a column, in the target's colour, from the
\* first to the last of its place and those of its jumps and nowhere else: with a corner at either
\* end and a branch where a jump starts or arrives; two targets share one only where they are
\* apart; and on the right each address shows whether it jumps, is jumped to, or both.
JumpsDrawn ==
  Of("objdump") /\ answer # None /\ job.visualize_jumps =>
    \A sec \in DOMAIN job.abfd.sections :
      LET labels == Entries(answer.out, sec, {"label"})
          data == job.abfd.sections[sec].data
          begin(n) == labels[n].at
          end(n) == IF n < Len(labels) THEN labels[n + 1].at ELSE Until(sec)
          target(p) == data[p + 1] - 10
          coded(n) == \A l \in ToSet(Entries(answer.out, sec, {"data"})) : l.at < begin(n) \/ l.at >= end(n)
      IN \A n \in DOMAIN labels : labels[n].sym # <<>> /\ coded(n) =>
           LET jumps == {p \in Starts(sec, begin(n), end(n)) : target(p) \in begin(n)..(end(n) - 1)}
               ends == {target(p) : p \in jumps}
               from(e) == {p \in jumps : target(p) = e}
               low(e) == Smallest(from(e) \cup {e})
               high(e) == Largest(from(e) \cup {e})
               rows == UNION {ToSet(l.rows) : l \in {t \in ToSet(Entries(answer.out, sec, {"insn"})) :
                                                       t.at >= begin(n) /\ t.at < end(n)}}
               columns(row, e) == {c \in DOMAIN row.picture : /\ c % 3 = 0 /\ row.picture[c].color = Vma(sec) + e
                                                              /\ row.picture[c].mark \notin {" ", "-"}}
               right(row) == row.picture[Cardinality(DOMAIN row.picture) - 1].mark
               leaves(p) == p \in jumps
               arrives(p) == p \in ends /\ target(p) # p
           IN IF ends = {} THEN \A row \in rows : row.picture = <<>>
              ELSE \A row \in rows :
                /\ \A e \in ends :
                     IF row.at \notin low(e)..high(e) THEN columns(row, e) = {}
                     ELSE \E c \in DOMAIN row.picture :
                            /\ \A other \in rows : columns(other, e) \subseteq {c}
                            /\ columns(row, e) = {c}
                            /\ LET mark == row.picture[c].mark
                               IN IF row.at = low(e) THEN mark = "/" ELSE IF row.at = high(e)
                                  THEN mark = "\\" \/ (mark = "+" /\ e \in from(e))
                                  ELSE /\ mark \in {"|", "+", ">"}
                                       /\ mark = "|" <=> row.at \notin from(e) \cup {e}
                                       /\ mark = ">" => row.at = e
                /\ right(row) = CASE leaves(row.at) /\ arrives(row.at) -> "X"
                                  [] leaves(row.at) /\ ~ arrives(row.at) -> "-"
                                  [] ~ leaves(row.at) /\ arrives(row.at) -> ">"
                                  [] OTHER -> " "

-----------------------------------------------------------------------------
(* objdump -r -R                                                           *)

ListRelocations ==
  /\ Of("objdump -r") /\ answer = None
  /\ answer' = ListOf!main(job)
  /\ UNCHANGED job

\* The objects that are looked at, and whether each file and member is one.
Opened == FlattenSeq([f \in DOMAIN job.files |-> IF job.files[f].missing THEN <<>> ELSE job.files[f].members])
IsObject(o) == o.format \in {"object", "core"}

\* The part of the output that begins at place k, up to the next header.
PartAt(out, k, headers) ==
  SubSeq(out, k + 1, Smallest({n \in (k + 1)..(Len(out) + 1) : n > Len(out) \/ out[n].what \in headers}) - 1)

\* A set of relocations is listed in its order, but the two halves of a R_SPARC_OLO10 as one with
\* both addends, and only from --start-address to --stop-address; of those at --stop-address, which
\* the usage (objdump.c:282) leaves out and the code lists, nothing is said.
SetListed(o, relocs, all) ==
  LET second(k) == /\ o.sparc /\ k > 1 /\ relocs[k].type = "R_SPARC_13" /\ relocs[k - 1].type = "R_SPARC_LO10"
                   /\ relocs[k - 1].address = relocs[k].address
      mine == SelectSeq([k \in DOMAIN relocs |-> k], LAMBDA k : ~ second(k) /\ relocs[k].address >= job.start_address
                            /\ (job.stop_address = -1 \/ relocs[k].address < job.stop_address))
      listed == SelectSeq(all, LAMBDA t : t.address # job.stop_address)
      both(k) == k < Len(relocs) /\ second(k + 1)
      total(k) == relocs[k].addend + IF both(k) THEN relocs[k + 1].addend ELSE 0
      sum(addends) == FoldLeft(LAMBDA a, b : a + b, 0, addends)
  IN /\ Len(listed) = Len(mine)
     /\ \A n \in DOMAIN mine :
          /\ listed[n].address = relocs[mine[n]].address
          /\ sum(listed[n].addends) = total(mine[n])
          /\ listed[n].type = IF both(mine[n]) THEN "R_SPARC_OLO10" ELSE relocs[mine[n]].type

\* Above each relocation of a section, what was shown last is its function and its line, in its
\* file (unless this or the last one has no name); no function twice; and the line is shown again
\* for another discriminator than that of the relocation with a line before.
PlacesListed(infos, part) ==
  LET functions == SelectSeq(part, LAMBDA t : t.what = "function")
      found(k) == infos[part[k].address + 1]
      lined == SelectSeq([k \in DOMAIN part |-> k],
                         LAMBDA k : part[k].what = "reloc" /\ found(k) # <<>> /\ found(k)[1].linenumber > 0)
  IN /\ \A n \in 2..Len(functions) : functions[n - 1] # functions[n]
     /\ \A k \in DOMAIN part :
          part[k].what = "reloc" /\ found(k) # <<>> =>
            LET info == found(k)[1]
                last(what) == Largest({0} \cup {i \in 1..(k - 1) : part[i].what = what})
                named == info.filename # <<>> /\ last("line") # 0 /\ part[last("line")].file # <<>>
            IN /\ info.functionname # <<>> => last("function") # 0 /\ part[last("function")].name = info.functionname
               /\ info.linenumber > 0 => /\ last("line") # 0 /\ part[last("line")].line = info.linenumber
                                         /\ named => part[last("line")].file = info.filename
     /\ \A n \in 2..Len(lined) :
          found(lined[n - 1])[1].discriminator # found(lined[n])[1].discriminator
            => \E i \in lined[n - 1]..lined[n] : part[i].what = "line"

\* Every section of every object is listed that has relocations and was asked for, each with its
\* own, until one cannot be read: then nothing follows.  -j warns of its sections, once each, if
\* no object had any of them (or none was looked for, without -r).
RelocsListed ==
  Of("objdump -r") /\ answer # None =>
    LET out == answer.out
        objects == SelectSeq(Opened, IsObject)
        wanted(section) == job.j = <<>> \/ section.name \in ToSet(job.j)
        tables(o) == (IF job.dump_reloc_info
                      THEN SelectSeq(o.sections, LAMBDA section : wanted(section) /\ section.reloc) ELSE <<>>)
                     \o (IF job.dump_dynamic_reloc_info THEN <<[name |-> 0, table |-> o.dynamic, infos |-> <<>>]>> ELSE <<>>)
        all == FlattenSeq([n \in DOMAIN objects |-> LET t == tables(objects[n])
                                                    IN [k \in DOMAIN t |-> [o |-> objects[n], of |-> t[k]]]])
        bad == {k \in DOMAIN all : all[k].of.table.size < 0 \/ ~ all[k].of.table.readable}
        headers == {"relocs", "dynamic relocs"}
        places == SelectSeq([k \in DOMAIN out |-> k], LAMBDA k : out[k].what \in headers)
        shown == IF bad = {} THEN Len(all) ELSE Smallest(bad) - 1
        unseen == SelectSeq(out, LAMBDA t : t.what = "unseen")
        seen == job.dump_reloc_info /\ \E o \in ToSet(objects) : \E section \in ToSet(o.sections) : section.name \in ToSet(job.j)
    IN /\ Len(places) \in shown..(shown + IF bad = {} THEN 0 ELSE 1)
       /\ \A n \in 1..shown :
            LET part == PartAt(out, places[n], headers \cup {"file", "archive", "unseen"})
                relocs == SelectSeq(part, LAMBDA t : t.what = "reloc")
            IN /\ out[places[n]].name = all[n].of.name
               /\ SetListed(all[n].o, IF all[n].of.table.size = 0 THEN <<>> ELSE all[n].of.table.relocs, relocs)
               /\ job.with_line_numbers /\ all[n].of.name # 0 => PlacesListed(all[n].of.infos, part)
       /\ Len(unseen) = Cardinality({t.name : t \in ToSet(unseen)})
       /\ {t.name : t \in ToSet(unseen)} = IF seen \/ bad # {} THEN {} ELSE ToSet(job.j)
       /\ answer.exit_status = 0 <=> /\ bad = {} /\ unseen = <<>>
                                     /\ \A file \in ToSet(job.files) : ~ file.missing /\ ~ file.corrupt
                                     /\ \A o \in ToSet(Opened) : IsObject(o)

\* objdump shows of each section what is there, where it is.
ListingsShown == DisassemblyShown /\ RelocsListed

=============================================================================

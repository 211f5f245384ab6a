----------------------------- MODULE Disassembly -----------------------------
(***************************************************************************)
(* objdump.c: -d, the sections block by block, from symbol to symbol, the  *)
(* code of a block line by line.  c has the options, the object (abfd) and *)
(* the machine; what shows lines of code is told where they are, not how   *)
(* they look.  s is the state of one run: the output, what show_line       *)
(* remembers, and what the disassembler last left in disassemble_info.     *)
(***************************************************************************)
EXTENDS SourceLines, Jumps

CONSTANTS
  InsnOctets, DataOctets   \* octets in a line, of instructions and of data

-----------------------------------------------------------------------------
(* The symbols that disassembly uses, their order, and the search for the  *)
(* one that an address belongs to.  Names of symbols and of sections are   *)
(* numbers, 0 the empty name; what objdump looks for in a name is in       *)
(* traits.  A value is an address.                                         *)

UND == -1
COM == -2
ABS == -3

One(b) == IF b THEN 1 ELSE 0
SectionName(abfd, n) == IF n \in DOMAIN abfd.sections THEN abfd.sections[n].name ELSE n

remove_useless_symbols(symbols) ==
  SelectSeq(symbols, LAMBDA sym : /\ sym.name # 0
                                  /\ {"DEBUGGING", "SECTION_SYM"} \cap sym.flags # {} => "significant" \in sym.traits
                                  /\ sym.section \notin {UND, COM})

\* The order of symbols while a section is disassembled: the first number that differs decides.
SymbolKey(abfd, section, sym) ==
  LET sized == abfd.elf /\ {"SECTION_SYM", "SYNTHETIC"} \cap sym.flags = {}
  IN <<sym.value,
       One(SectionName(abfd, sym.section) # abfd.sections[section].name),
       One("compiled" \in sym.traits),
       One("FILE" \in sym.flags \/ "file" \in sym.traits),
       One("DEBUGGING" \in sym.flags),
       One("SECTION_SYM" \in sym.flags),
       One("FUNCTION" \notin sym.flags),
       One("OBJECT" \notin sym.flags),
       One("LOCAL" \in sym.flags),
       One("GLOBAL" \notin sym.flags),
       0 - (IF sized THEN sym.size ELSE 0),
       One("dot" \in sym.traits),
       sym.name>>
compare_symbols(abfd, section, a, b) ==
  LET s == SymbolKey(abfd, section, a)
      t == SymbolKey(abfd, section, b)
      differ == {p \in DOMAIN s : s[p] # t[p]}
  IN IF differ = {} THEN 0 ELSE s[Min(differ)] - t[Min(differ)]

\* Sorted by compare(a, b); equal ones stay as they are.
SortedBy(seq, compare(_, _)) ==
  LET before(i, k) == LET d == compare(seq[i], seq[k]) IN d < 0 \/ (d = 0 /\ i < k)
      rank == [k \in DOMAIN seq |-> Cardinality({i \in DOMAIN seq : before(i, k)}) + 1]
  IN [n \in DOMAIN seq |-> seq[CHOOSE k \in DOMAIN seq : rank[k] = n]]
sorted_syms(abfd, section, symbols) == SortedBy(symbols, LAMBDA a, b : compare_symbols(abfd, section, a, b))
compare_relocs(a, b) == a.address - b.address

\* The symbol_is_valid of the target.
symbol_is_valid(sym) == "mapping" \notin sym.traits

sym_ok(abfd, want_section, sym, sec) ==
  /\ want_section => /\ sym.owner = "file" => sym.section = sec
                     /\ SectionName(abfd, sym.section) = abfd.sections[sec].name
  /\ symbol_is_valid(sym)

\* The binary search: min is a symbol at vma, or the last one below it, or the first of all.
Nearest(sorted, vma) ==
  LET step(s, k) ==
        LET this == (s.max_count + s.min) \div 2
        IN IF s.hit \/ s.min + 1 >= s.max_count THEN s
           ELSE IF sorted[this + 1].value > vma THEN [s EXCEPT !.max_count = this]
           ELSE [s EXCEPT !.min = this, !.hit = sorted[this + 1].value = vma]
  IN FoldLeft(step, [min |-> 0, max_count |-> Len(sorted), hit |-> FALSE], [k \in DOMAIN sorted |-> k])

\* Among the symbols of that value, places first to last: one of the section or, as they are
\* not suitable, one before them, or one behind; 0: there is none.
Suitable(abfd, sorted, sec, want_section, first, last) ==
  LET ok == {k \in DOMAIN sorted : sym_ok(abfd, want_section, sorted[k], sec)}
      below == {k \in ok : k <= last}
      above == {k \in ok : k > first}
      same(k) == {i \in below : sorted[i].value = sorted[k].value}
  IN IF first \in ok THEN first
     ELSE IF below # {} THEN Min(same(Max(below)))
     ELSE IF above # {} THEN Min(above) ELSE 0

\* The symbol of a dynamic relocation at this address, if it says more.
FromReloc(abfd, want_section, sym, vma) ==
  LET vmaOf == IF sym.section \in DOMAIN abfd.sections THEN abfd.sections[sym.section].vma ELSE 0
      there == SelectSeq(abfd.dynrels, LAMBDA r : /\ r.address = vma /\ r.sym # <<>>
                                                  /\ r.sym[1].section # ABS)
  IN IF want_section \/ sym.value - vmaOf = vma \/ "SYNTHETIC" \in sym.flags \/ there = <<>> THEN sym
     ELSE there[1].sym[1]

\* The symbols of that value, as far as the search came: one of this section, or a suitable one.
Group(sorted, near) == {k \in 1..near.max_count : sorted[k].value = sorted[near.min + 1].value}
Found(abfd, sorted, vma, want_section, within, place) ==
  IF within # {} THEN <<[sym |-> sorted[Min(within)], place |-> Min(within)]>>
  ELSE IF place = 0 THEN <<>>
  ELSE <<[sym |-> FromReloc(abfd, want_section, sorted[place], vma), place |-> place]>>
FoundIn(abfd, sorted, sec, vma, want_section, group) ==
  Found(abfd, sorted, vma, want_section, {k \in group : sym_ok(abfd, TRUE, sorted[k], sec)},
        Suitable(abfd, sorted, sec, want_section, Min(group), Max(group)))

\* <<>>, or the symbol and its place.
find_symbol_for_address(abfd, sorted, sec, vma, require_sec) ==
  LET section == abfd.sections[sec]
      want_section == require_sec \/ (abfd.has_reloc /\ vma \in section.vma..(section.vma + Len(section.data) - 1))
  IN IF sorted = <<>> THEN <<>>
     ELSE FoundIn(abfd, sorted, sec, vma, want_section, Group(sorted, Nearest(sorted, vma)))

\* What objdump_print_addr names for an address: a symbol, and the address relative to it.
\* reloc is empty or a relocation of the instruction.
objdump_print_addr(abfd, sorted, sec, vma, reloc) ==
  LET adjusted == reloc # <<>> /\ reloc[1].sym # <<>>
      addr == IF adjusted THEN vma + reloc[1].sym[1].value ELSE vma
      naming(sym) == <<sym, IF abfd.linked /\ sym.section = UND THEN 0 ELSE addr - sym.value>>
      named(found) == IF found = <<>> THEN <<>> ELSE naming(found[1].sym)
  IN IF sorted = <<>> THEN <<>>
     ELSE IF adjusted /\ reloc[1].sym[1].section = UND THEN naming(reloc[1].sym[1])
     ELSE named(find_symbol_for_address(abfd, sorted, sec, addr, FALSE))

-----------------------------------------------------------------------------
(* The disassembler of a machine, here one whose instructions have one to  *)
(* three octets: 4 has a delay slot, and from 10 on they jump to a place   *)
(* of the section.  stop is stop_vma; an instruction that is not all there *)
(* is short.                                                               *)
disassemble_fn(c, sec, at, stop) ==
  LET section == c.abfd.sections[sec]
      octet == section.data[at + 1]
      size == IF octet \in 2..3 THEN octet ELSE 1
      short == at + size > (IF stop = -1 THEN Len(section.data) ELSE stop)
      pieces == IF short THEN 1 ELSE c.machine.chunk
  IN [size |-> IF short THEN c.machine.short ELSE size,
      target |-> IF octet >= 10 THEN section.vma + octet - 10 ELSE -1,
      delay |-> octet = 4,
      chunk |-> IF size % pieces = 0 THEN pieces ELSE 1]
Insn(c, b, at) ==
  disassemble_fn(c, b.section, at,
                 IF c.disassemble_all \/ ~ c.abfd.sections[b.section].code THEN -1 ELSE b.stop)

-----------------------------------------------------------------------------
(* A block b: a part of a section, with its instructions or its data.      *)

\* The jumps of a block.
FoundJumps(c, b) ==
  LET vma == c.abfd.sections[b.section].vma
      jump(f, insn) ==
        [at |-> IF insn.size < 0 THEN b.stop ELSE f.at + insn.size,
         chunk |-> insn.chunk,
         found |-> IF insn.target \in (vma + b.start)..(vma + b.stop - 1)
                   THEN Append(f.found, [at |-> vma + f.at, target |-> insn.target]) ELSE f.found]
      step(f, k) == IF f.at >= b.stop THEN f ELSE jump(f, Insn(c, b, f.at))
  IN FoldLeft(step, [at |-> b.start, found |-> <<>>, chunk |-> 0], [k \in 1..(b.stop - b.start) |-> k])

Zeroes(c, b, at) ==
  LET data == c.abfd.sections[b.section].data
  IN Min({p \in at..b.stop : p = b.stop \/ data[p + 1] # 0}) - at

\* How many zeroes are skipped here.
Skipped(s, c, b) ==
  LET octets == IF c.disassemble_zeroes THEN 0 ELSE Zeroes(c, b, s.at)
      all == s.at + octets = b.stop
  IN IF c.disassemble_zeroes \/ s.delay \/ ~ (octets >= c.machine.skip_zeroes
                                               \/ (all /\ octets < c.machine.skip_zeroes_at_end))
     THEN 0
     ELSE IF all THEN octets ELSE octets - (octets % 4)

\* The relocation an instruction is printed with.
InsnReloc(s, c, b) ==
  LET distance == s.rel[1].address - b.rel_offset - s.at
      max == c.machine.max_reloc_offset
      insn_size == IF distance <= 0 \/ (max >= 0 /\ distance > max) THEN 0
                   ELSE IF c.insn_width # 0 THEN c.insn_width
                   ELSE disassemble_fn(c, b.section, s.at, -1).size
  IN IF ~ c.machine.needs_relocs \/ c.abfd.linked \/ s.rel = <<>> THEN <<>>
     ELSE IF distance = 0 \/ (distance > 0 /\ distance < insn_size) THEN <<s.rel[1]>> ELSE <<>>

\* The octets of a row, from..to, in chunks: by their places.
Octets(c, b, chunk, from, to) ==
  LET octets(j) == [k \in 1..chunk |-> IF c.machine.little THEN j + chunk - k ELSE j + k - 1]
      count == (to - from + chunk - 1) \div chunk
      at(n) == from + (n - 1) * chunk
  IN FlattenSeq([n \in 1..count |-> IF at(n) + chunk <= b.stop THEN octets(at(n)) ELSE <<>>])

Width(c, b) ==
  IF c.insn_width # 0 THEN c.insn_width
  ELSE IF ~ b.insns THEN DataOctets
  ELSE IF c.machine.bytes_per_line # 0 THEN c.machine.bytes_per_line ELSE InsnOctets

\* The rows of a line: the first may have all octets.
Rows(c, b, at, octets, width, chunk) ==
  LET raw == IF c.prefix_addresses THEN c.show_raw_insn > 0 ELSE c.show_raw_insn >= 0
      first == IF octets > width /\ ~ c.prefix_addresses /\ ~ c.wide_output THEN width ELSE octets
      count == IF raw THEN 1 + ((octets - first + width - 1) \div width) ELSE 1
      from(k) == IF k = 1 THEN at ELSE at + first + (k - 2) * width
      to(k) == at + Min({octets, first + (k - 1) * width})
  IN [k \in 1..count |-> [at |-> from(k), octets |-> IF raw THEN Octets(c, b, chunk, from(k), to(k)) ELSE <<>>]]

\* The rows of a line with the picture of the jumps.
Pictured(s, b, rows, vma) ==
  LET step(d, row) ==
        LET v == jump_info_visualize_address(d.jumps, vma + row.at, b.max_level)
        IN [jumps |-> v.jumps, rows |-> Append(d.rows, row @@ [picture |-> v.line])]
  IN IF b.max_level < 0 THEN [jumps |-> <<>>, rows |-> [k \in DOMAIN rows |-> rows[k] @@ [picture |-> <<>>]]]
     ELSE FoldLeft(step, [jumps |-> s.jumps, rows |-> <<>>], rows)

\* A line for octets that were found to belong together.  The first row shows its picture even if
\* the instruction cannot be read.
Line(s, c, b, octets, insn, drawn, reloc) ==
  LET line == [what |-> IF b.insns THEN "insn" ELSE "data", section |-> b.section, at |-> s.at,
               octets |-> IF octets < 1 THEN 0 ELSE octets, rows |-> drawn.rows,
               reloc |-> reloc,
               operand |-> IF b.insns /\ insn.target # -1 /\ octets > 0
                           THEN objdump_print_addr(c.abfd, b.sorted, b.section, insn.target, reloc)
                           ELSE <<>>]
  IN [s EXCEPT !.out = Append(@, line), !.jumps = drawn.jumps,
               !.delay = IF b.insns THEN insn.delay ELSE @,
               !.chunk = IF b.insns THEN insn.chunk ELSE @,
               !.ended = octets < 1, !.exit_status = IF octets = 0 THEN 1 ELSE @]

LineOf(s, c, b, insn, octets, width) ==
  LET chunk == IF b.insns THEN insn.chunk ELSE s.chunk
      rows == IF octets < 1 THEN <<[at |-> s.at, octets |-> <<>>]>>
              ELSE Rows(c, b, s.at, octets, width, IF chunk = 0 THEN 1 ELSE chunk)
  IN Line(s, c, b, octets, insn, Pictured(s, b, rows, c.abfd.sections[b.section].vma),
          IF b.insns THEN InsnReloc(s, c, b) ELSE <<>>)

\* Mutant: relocations of what is skipped stay.
Advanced_NotAll(s, c, b, octets) ==
  [s EXCEPT !.rel = IF @ # <<>> /\ @[1].address < b.rel_offset + s.at + octets THEN Tail(@) ELSE @,
            !.out = IF s.rel # <<>> /\ s.rel[1].address < b.rel_offset + s.at + octets
                    THEN Append(@, [what |-> "reloc", reloc |-> s.rel[1], at |-> s.rel[1].address]) ELSE @,
            !.at = @ + octets]

\* The relocations up to the end of what was shown.
Advanced(s, c, b, octets) ==
  LET end == b.rel_offset + s.at + octets
      passed == SelectInSeq(s.rel, LAMBDA q : q.address >= end)
      count == IF passed = 0 THEN Len(s.rel) ELSE passed - 1
      vma == c.abfd.sections[b.section].vma
      shown == [k \in 1..count |-> [what |-> "reloc", reloc |-> s.rel[k], at |-> vma - b.rel_offset + s.rel[k].address]]
  IN [s EXCEPT !.rel = SubSeq(@, count + 1, Len(@)),
               !.out = IF c.dump_reloc_info \/ c.dump_dynamic_reloc_info THEN @ \o shown ELSE @,
               !.at = @ + octets]

\* A line, and its source above it.
Sourced(s, c, b, insn, width) ==
  LineOf(show_line(s, c.source, c.abfd.sections[b.section].lines[s.at + 1]), c, b, insn,
         IF b.insns THEN insn.size ELSE Min({width, b.stop - s.at}), width)
Zeroed(s, b, skipped) ==
  [s EXCEPT !.out = Append(@, [what |-> "zeroes", section |-> b.section, at |-> s.at, octets |-> skipped])]

Followed(line, c, b) == IF line.ended THEN line ELSE Advanced(line, c, b, Last(line.out).octets)
NextLine(s, c, b, skipped) ==
  Followed(IF skipped > 0 THEN Zeroed(s, b, skipped) ELSE Sourced(s, c, b, Insn(c, b, s.at), Width(c, b)), c, b)

disassemble_bytes(s, c, b) ==
  LET step(t, k) == IF t.at >= b.stop \/ t.ended THEN t ELSE NextLine(t, c, b, Skipped(t, c, b))
  IN FoldLeft(step, [s EXCEPT !.at = b.start, !.ended = FALSE, !.delay = FALSE], [k \in 1..(b.stop - b.start) |-> k])

-----------------------------------------------------------------------------
(* A section.  t has the state s, the place, the stop and the symbol.      *)

\* With --disassemble=SYMBOL: whether to print from here, and until when.
Selected(t, c, sym) ==
  IF sym = <<>> \/ c.symbol = <<>> THEN t
  ELSE IF t.do_print
  THEN [t EXCEPT !.do_print = CASE t.loop_until = "function_sym" -> "FUNCTION" \notin sym[1].flags
                                [] t.loop_until = "next_sym" -> "label" \in sym[1].traits
                                [] OTHER -> TRUE]
  ELSE IF sym[1].name # c.symbol[1] THEN t
  ELSE IF "FUNCTION" \notin sym[1].flags THEN [t EXCEPT !.do_print = TRUE, !.loop_until = "next_sym"]
  ELSE IF c.abfd.elf /\ sym[1].size > 0
  THEN [t EXCEPT !.do_print = TRUE, !.loop_until = "stop_offset_reached", !.stop = t.at + sym[1].size]
  ELSE [t EXCEPT !.do_print = TRUE, !.loop_until = "function_sym"]

\* The place of the next symbol behind this one; beyond all: there is none.
NextPlace(c, sec, sorted, sym, place) ==
  LET valid(n) == /\ SectionName(c.abfd, n.section) = c.abfd.sections[sec].name
                  /\ n.value > sym.value /\ symbol_is_valid(n)
  IN Min({k \in place..(Len(sorted) + 1) : k > Len(sorted) \/ valid(sorted[k])})

Block(t, c, sec, sorted, rel_offset, stop) ==
  LET sym == t.sym
      addr == c.abfd.sections[sec].vma + t.at
      insns == \/ c.disassemble_all \/ sym = <<>>
               \/ sym # <<>> /\ \/ sym[1].owner # "file" \/ sym[1].section # sec \/ sym[1].value > addr
                                \/ "OBJECT" \notin sym[1].flags /\ "compiled" \notin sym[1].traits
                                \/ "FUNCTION" \in sym[1].flags
  IN [section |-> sec, insns |-> insns, start |-> t.at, stop |-> stop, rel_offset |-> rel_offset,
      sorted |-> sorted, max_level |-> -1]

\* A block is printed, with its jumps and its label.
WithJumps(s, c, b, jumps) ==
  disassemble_bytes([s EXCEPT !.jumps = jumps], c, [b EXCEPT !.max_level = Max({-1} \cup {ji.level : ji \in ToSet(jumps)})])
PrintWith(s, c, b, f) == WithJumps([s EXCEPT !.chunk = f.chunk], c, b, disassemble_jumps(f.found))
PrintBlock(t, c, b) ==
  LET label == [what |-> "label", section |-> b.section, at |-> t.at, sym |-> t.sym]
      s == IF c.prefix_addresses THEN t.s ELSE [t.s EXCEPT !.out = Append(@, label)]
  IN IF ~ t.do_print THEN t.s
     ELSE PrintWith(s, c, b, IF c.visualize_jumps /\ t.sym # <<>> THEN FoundJumps(c, b)
                             ELSE [found |-> <<>>, chunk |-> s.chunk])

NextBlock(t, c, sec, sorted, rel_offset, next) ==
  LET vma == c.abfd.sections[sec].vma
      end == IF next.sym = <<>> THEN t.stop ELSE next.sym[1].value - vma
      stop == IF end > t.stop \/ end <= t.at THEN t.stop ELSE end
  IN [t EXCEPT !.s = PrintBlock(t, c, Block(t, c, sec, sorted, rel_offset, stop)),
               !.at = stop, !.sym = next.sym, !.place = next.place]

\* The symbol behind the block that starts here.
NextSym(t, c, sec, sorted) ==
  LET addr == c.abfd.sections[sec].vma + t.at
      place == NextPlace(c, sec, sorted, t.sym[1], t.place)
  IN IF t.sym = <<>> \/ (t.sym # <<>> /\ t.sym[1].value > addr) THEN [sym |-> t.sym, place |-> t.place]
     ELSE [sym |-> IF place > Len(sorted) THEN <<>> ELSE <<sorted[place]>>, place |-> place]

Blocks(s, c, sec, sorted, rel_offset, start, stop, found) ==
  LET first == [s |-> s, at |-> start, stop |-> stop, do_print |-> c.symbol = <<>>,
                loop_until |-> "stop_offset_reached",
                sym |-> IF found = <<>> THEN <<>> ELSE <<found[1].sym>>,
                place |-> IF found = <<>> THEN 1 ELSE found[1].place]
      block(t) == NextBlock(t, c, sec, sorted, rel_offset, NextSym(t, c, sec, sorted))
      step(t, k) == IF t.at >= t.stop THEN t ELSE block(Selected(t, c, t.sym))
  IN FoldLeft(step, first, [k \in DOMAIN c.abfd.sections[sec].data |-> k]).s

\* The relocations to use: rel_offset is what their addresses are relative to.
Relocations(c, section) ==
  IF c.abfd.dynamic /\ c.dump_dynamic_reloc_info
  THEN [rel |-> SortedBy(c.abfd.dynrels, compare_relocs), rel_offset |-> section.vma]
  ELSE IF c.dump_reloc_info \/ c.machine.needs_relocs
  THEN [rel |-> SortedBy(section.relocs, compare_relocs), rel_offset |-> 0]
  ELSE [rel |-> <<>>, rel_offset |-> 0]

disassemble_section(s, c, sec, symbols) ==
  LET section == c.abfd.sections[sec]
      size == Len(section.data)
      start == IF c.start_address = -1 \/ c.start_address < section.vma THEN 0 ELSE c.start_address - section.vma
      stop == IF c.stop_address = -1 THEN size
              ELSE Min({size, IF c.stop_address < section.vma THEN 0 ELSE c.stop_address - section.vma})
      r == Relocations(c, section)
      behind == SelectSeq(r.rel, LAMBDA q : q.address >= r.rel_offset + start)
      headed == [s EXCEPT !.rel = behind, !.out = Append(@, [what |-> "section", section |-> sec])]
      shown(sorted) == Blocks(headed, c, sec, sorted, r.rel_offset, start, stop,
                              find_symbol_for_address(c.abfd, sorted, sec, section.vma + start, TRUE))
  IN IF ~ c.disassemble_all /\ c.only_list = {} /\ ~ section.code THEN s
     ELSE IF (c.only_list # {} /\ section.name \notin c.only_list) \/ start >= stop \/ ~ section.readable THEN s
     ELSE shown(sorted_syms(c.abfd, sec, symbols))

\* All sections, one after the other.
disassemble_data(c) ==
  LET symbols == remove_useless_symbols(IF c.abfd.syms # <<>> THEN c.abfd.syms ELSE c.abfd.dynsyms) \o c.abfd.synthsyms
      start == Unshown @@ [out |-> <<>>, rel |-> <<>>, at |-> 0, ended |-> FALSE, delay |-> FALSE, chunk |-> 0,
                           jumps |-> <<>>, exit_status |-> 0]
  IN FoldLeft(LAMBDA s, sec : disassemble_section(s, c, sec, symbols), start, [k \in DOMAIN c.abfd.sections |-> k])
=============================================================================

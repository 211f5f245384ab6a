-------------------------------- MODULE Sections --------------------------------
(***************************************************************************)
(* readelf.c: -p, -x, -g and -n.  The contents of a section are a sequence *)
(* of bytes; what get_data reads has a 0 behind it, other buffers have     *)
(* Beyond, of which nothing is known.                                      *)
(***************************************************************************)
EXTENDS Integers, Sequences, FiniteSets, SequencesExt

CONSTANT Row   \* the bytes in a line of a hex dump

NoData == [ok |-> TRUE, out |-> <<>>]
Failed == [ok |-> FALSE, out |-> <<>>]
Beyond == -1

ISPRINT(c) == c \in 32..126
NEWLINE == 10
\* The bytes of the multibyte character at a place.
mbrtowc(text, at) ==
  IF text[at] \in 192..223 /\ at < Len(text) /\ text[at + 1] \in 128..191 THEN 2 ELSE 1

-----------------------------------------------------------------------------
(* Compressed sections: streams, one behind the other, each with what it   *)
(* stands for, or broken.                                                  *)

uncompress_section_contents(streams, uncompressed_size) ==
  LET whole == FlattenSeq([k \in DOMAIN streams |-> streams[k].text])
  IN IF Len(whole) = uncompressed_size /\ \A k \in DOMAIN streams : streams[k].ok
     THEN [ok |-> TRUE, text |-> whole] ELSE [ok |-> FALSE, text |-> <<>>]

\* What is dumped: the contents, or what they stand for, with what lies behind.
Contents(section, decompress_dumps) ==
  LET plain == [ok |-> TRUE, text |-> section.text, behind |-> 0]
      u == uncompress_section_contents(section.streams, section.size)
  IN IF ~ decompress_dumps \/ section.packed = "no" THEN plain
     ELSE IF section.packed = "chdr" /\ (section.header = "short" \/ section.header = "other")
     THEN [plain EXCEPT !.ok = FALSE]
     ELSE IF section.size = 0 THEN plain
     ELSE [ok |-> u.ok, text |-> u.text, behind |-> Beyond]

-----------------------------------------------------------------------------
\* A string up to its 0 or new line: what of it is shown, and where it ends.
RECURSIVE StringAt(_, _, _, _)
StringAt(text, behind, at, shown) ==
  LET c == IF at <= Len(text) THEN text[at] ELSE behind
      n == IF ISPRINT(c) \/ c < 32 \/ c = 127 THEN 1 ELSE mbrtowc(text, at)
  IN IF c \in {0, Beyond} \/ c = NEWLINE THEN [shown |-> shown, end |-> at + 1, by |-> c]
     ELSE StringAt(text, behind, at + n, Append(shown, at))

\* Behind a new line the string goes on, unless a 0 follows.
Continues(text, behind, s) ==
  s.by = NEWLINE /\ (IF s.end <= Len(text) THEN text[s.end] ELSE behind) # 0

\* The lines from a place on: where they start, whether they continue the last one, and the
\* places of the characters that are shown.
RECURSIVE Strings(_, _, _, _)
Strings(text, behind, at, continuing) ==
  LET printable == {k \in at..Len(text) : ISPRINT(text[k])}
      first == CHOOSE k \in printable : \A j \in printable : k <= j
      s == StringAt(text, behind, first, <<>>)
  IN IF printable = {} THEN <<>>
     ELSE <<[at |-> IF continuing THEN -1 ELSE first - 1, shown |-> s.shown, by |-> s.by]>>
            \o Strings(text, behind, s.end, Continues(text, behind, s))

Empty(section) == section.text = <<>> \/ section.nobits

dump_section_as_strings(section, decompress_dumps) ==
  LET c == Contents(section, decompress_dumps)
  IN IF Empty(section) THEN NoData
     ELSE IF ~ section.readable \/ ~ c.ok THEN Failed
     ELSE [ok |-> TRUE, out |-> Strings(c.text, c.behind, 1, FALSE)]

\* The lines of a hex dump.
RECURSIVE Rows(_, _)
Rows(text, addr) ==
  LET lbytes == IF Len(text) > Row THEN Row ELSE Len(text)
  IN IF text = <<>> THEN <<>>
     ELSE <<[addr |-> addr, bytes |-> SubSeq(text, 1, lbytes),
             chars |-> [k \in 1..lbytes |-> IF ISPRINT(text[k]) THEN text[k] ELSE 46]]>>
            \o Rows(SubSeq(text, lbytes + 1, Len(text)), addr + lbytes)

dump_section_as_bytes(section, decompress_dumps) ==
  LET c == Contents(section, decompress_dumps)
  IN IF Empty(section) THEN NoData
     ELSE IF ~ section.readable \/ ~ c.ok THEN Failed
     ELSE [ok |-> TRUE, out |-> Rows(c.text, section.addr)]

-----------------------------------------------------------------------------
(* Groups: sections are numbered from 0.  A group has sh_link, the symbol  *)
(* table; sh_info, a symbol that names it; and words, flags first.  A      *)
(* symbol table has its symbols and sh_link, the string table.  Both       *)
(* tables of a group are kept for the next one.                            *)

None == -1

RECURSIVE Members(_, _, _, _, _)
Members(sections, s, group, words, j) ==
  LET entry == words[j]
      taken == s.of[entry]
      add == [s EXCEPT !.of[entry] = group, !.out = Append(@, <<"member", entry>>)]
      complain(t, what) == [t EXCEPT !.out = Append(@, <<what, entry>>)]
      told == IF s.warned THEN s ELSE complain([s EXCEPT !.warned = TRUE], "zero")
  IN IF j > Len(words) THEN s
     ELSE Members(sections, IF entry \notin DOMAIN sections THEN complain(s, "beyond")
                            ELSE IF taken = None THEN add
                            ELSE IF entry # 0 THEN complain(s, "taken")
                            ELSE [told EXCEPT !.of[entry] = group, !.out = Append(@, <<"member", entry>>)],
                  group, words, j + 1)

\* Mutant: whatever string table was read is taken.
Strtab_Kept(sections, s, symtab) ==
  LET link == sections[symtab].sh_link
  IN IF s.strtab # None \/ link \notin DOMAIN sections THEN s.strtab ELSE link

\* The string table that names a group; it is that of the last group if that had the same.
Strtab(sections, s, symtab) ==
  LET link == sections[symtab].sh_link
  IN IF link \notin DOMAIN sections THEN None ELSE IF s.strtab # link THEN link ELSE s.strtab

Group(sections, s, i) ==
  LET g == sections[i]
      linked == /\ g.sh_link \in DOMAIN sections
                /\ sections[g.sh_link].type = "symtab"
      syms == sections[g.sh_link].symbols
      sym == syms[g.sh_info + 1]
      bySection == sym.section # None
      strtab == IF bySection THEN None ELSE Strtab(sections, s, g.sh_link)
      name == IF bySection THEN <<"section", sym.section>>
              ELSE IF strtab = None THEN <<"corrupt">>
              ELSE IF sym.st_name < sections[strtab].size THEN <<"string", strtab, sym.st_name>> ELSE <<"corrupt">>
      bad(t) == [t EXCEPT !.out = Append(@, <<"bad", i>>)]
      named == [s EXCEPT !.strtab = strtab]
      titled == [named EXCEPT !.out = Append(@, <<"group", i, name>>)]
  IN IF ~ linked THEN bad(s)
     ELSE IF g.sh_info >= Len(syms) THEN bad(s)
     ELSE IF bySection /\ sym.section \notin (DOMAIN sections \ {0}) THEN bad(s)
     ELSE IF g.words = <<>> THEN named   \* cannot be read
     ELSE Members(sections, titled, i, g.words, 2)

process_section_groups(sections) ==
  LET start == [of |-> [n \in DOMAIN sections |-> None], strtab |-> None, warned |-> FALSE, out |-> <<>>]
      groups == SelectSeq([n \in 1..Cardinality(DOMAIN sections) |-> n - 1], LAMBDA n : sections[n].type = "group")
      end == FoldLeft(LAMBDA s, i : Group(sections, s, i), start, groups)
  IN [out |-> end.out, of |-> end.of]

-----------------------------------------------------------------------------
(* Notes: a buffer is a function from 0 on to bytes, with the 0 that       *)
(* get_data puts behind it; of a word's bytes only the low two are told    *)
(* apart.                                                                  *)

Word(buf, at) == buf[at] + 256 * buf[at + 1]
AlignUp(n, align) == ((n + align - 1) \div align) * align
Complaint == <<"complaint">>

\* A note at a place: where its name and description are, and the next one.
Note(buf, at, align, vms) ==
  LET header == IF vms THEN 24 ELSE 12
      namesz == Word(buf, at)
      descsz == Word(buf, at + header \div 3)
      desc == IF vms THEN header + AlignUp(namesz, 8) ELSE AlignUp(header + namesz, align)
  IN [namesz |-> namesz, name |-> at + header, descsz |-> descsz, desc |-> at + desc,
      next |-> at + IF vms THEN desc + AlignUp(descsz, 8) ELSE AlignUp(desc + descsz, align)]

Invalid(note, end) ==
  \/ note.desc - note.name < note.namesz \/ note.desc - note.name > end - note.name
  \/ note.next - note.desc < note.descsz \/ note.next > end

\* The name as a string, which ends where it has a 0 and else behind namesz.
NameText(buf, note) ==
  LET zeros == {k \in note.name..(note.name + note.namesz - 1) : buf[k] = 0}
      end == IF zeros = {} THEN note.name + note.namesz ELSE CHOOSE k \in zeros : \A j \in zeros : k <= j
  IN [k \in 1..(end - note.name) |-> buf[note.name + k - 1]]

RECURSIVE NotesFrom(_, _, _, _, _)
NotesFrom(buf, length, align, vms, at) ==
  LET header == IF vms THEN 24 ELSE 12
      note == Note(buf, at, align, vms)
  IN IF at >= length THEN <<>>
     ELSE IF length - at < header THEN <<Complaint>>
     ELSE IF Invalid(note, length) THEN <<Complaint>>
     ELSE << <<"note", NameText(buf, note), note.desc, note.descsz>> >>
            \o NotesFrom(buf, length, align, vms, note.next)

process_notes_at(section) ==
  LET align == IF section.align < 4 THEN 4 ELSE section.align
  IN IF section.length <= 0 THEN [out |-> <<>>, ok |-> FALSE]
     ELSE IF align \notin {4, 8} THEN [out |-> <<Complaint>>, ok |-> FALSE]
     ELSE [out |-> NotesFrom(section.buf, section.length, align, section.vms, 0), ok |-> TRUE]

-----------------------------------------------------------------------------
(* Notes of Renesas V850, whose name and description have four bytes each. *)

sizeof_External_Note == 13   \* with the first byte of a name

RECURSIVE V850From(_, _, _)
V850From(buf, length, at) ==
  LET name == at + 12
      namesz == Word(buf, at)
      descsz == Word(buf, at + 4)
      beyond == name + AlignUp(namesz, 4) >= length
      kept == IF beyond THEN 0 ELSE namesz
      desc == name + AlignUp(kept, 4)
      next == desc + AlignUp(descsz, 4)
      complaint == IF beyond THEN <<Complaint>> ELSE <<>>
      fits == kept = 4 /\ descsz = 4
  IN IF at + sizeof_External_Note >= length THEN <<>>
     ELSE IF next > length \/ name + kept > length THEN complaint \o <<Complaint>>
     ELSE complaint \o << <<"v850", IF fits THEN desc ELSE -1>> >> \o V850From(buf, length, next)

process_v850_notes(section) ==
  LET shown == V850From(section.buf, section.length, 0)
  IN IF section.length <= 0 THEN [out |-> <<>>, ok |-> FALSE]
     ELSE [out |-> shown, ok |-> \A t \in ToSet(shown) : t # <<"v850", -1>>]
=============================================================================

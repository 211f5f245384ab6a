------------------------------- MODULE Relocs -------------------------------
(***************************************************************************)
(* readelf.c: apply_relocations, which puts the values of symbols into     *)
(* debug sections, and target_specific_reloc_handling, which remembers a   *)
(* symbol from one relocation to the next.  A byte has three bits, of      *)
(* which the lower two stand for the lower six of eight.  A machine is the *)
(* name of its EM_ constant; MSP430X is EM_MSP430 with relocations of that *)
(* kind.  s is the state: the bytes of the section (from 0 on) and what is *)
(* remembered.                                                             *)
(***************************************************************************)
EXTENDS Integers, Sequences, FiniteSets, SequencesExt

None == [value |-> -1]
R_H8_DIR16 == 17
BITS == 8                   \* the values of a byte
VMA == BITS ^ 8             \* those of a bfd_vma
SIX == 4                    \* those of six bits

byte_get(bytes, at, size) ==
  FoldLeft(LAMBDA n, k : n + bytes[at + k - 1] * BITS ^ (k - 1), 0, [k \in 1..size |-> k])
byte_put(bytes, at, value, size) ==
  [p \in DOMAIN bytes |-> IF p \in at..(at + size - 1) THEN ((value % VMA) \div BITS ^ (p - at)) % BITS ELSE bytes[p]]
IN_RANGE(bytes, at, size) == at \in DOMAIN bytes /\ at + size <= Cardinality(DOMAIN bytes)

-----------------------------------------------------------------------------
(* The types of relocations of each machine that is known.                 *)

All(machines, types) == [m \in machines |-> types]
Types(table, machine) == IF machine \in DOMAIN table THEN table[machine] ELSE {}

is_32bit_abs_reloc ==
  All({"386", "IAMCU", "68K", "860", "ALPHA", "ARC", "AVR_OLD", "AVR", "CSKY", "CYGNUS_FRV", "FT32", "H8S", "H8_300",
       "H8_300H", "MCORE", "MICROBLAZE", "CYGNUS_MN10200", "MN10200", "CYGNUS_MN10300", "MN10300", "MOXIE",
       "MSP430_OLD", "MSP430", "MSP430X", "NIOS32", "OR1K", "PJ", "PJ_OLD", "PPC64", "PPC", "RISCV", "RL78", "RX",
       "S370", "SH", "TI_C6000", "TILEPRO", "VAX", "WEBASSEMBLY", "XSTORMY16", "XTENSA_OLD", "XTENSA"}, {1})
  @@ All({"960", "ARM", "IP2K_OLD", "IP2K", "IQ2000", "METAG", "MIPS", "MT", "TILEGX"}, {2})
  @@ All({"ADAPTEVA_EPIPHANY", "CRIS", "CR16", "DLX", "CYGNUS_FR30", "FR30", "LATTICEMICO32", "M32C_OLD", "M32C",
          "VISIUM", "XC16X", "C166"}, {3})
  @@ All({"ARC_COMPACT", "ARC_COMPACT2", "CYGNUS_MEP", "MMIX", "S390_OLD", "S390", "XGATE"}, {4})
  @@ All({"CYGNUS_D10V", "D10V", "68HC11", "68HC12", "SPU", "CYGNUS_V850", "V850", "Z80"}, {6})
  @@ All({"CYGNUS_D30V", "D30V", "ALTERA_NIOS2"}, {12}) @@ All({"X86_64", "L1OM", "K1OM"}, {10})
  @@ All({"SPARC32PLUS", "SPARCV9", "SPARC"}, {3, 23}) @@ All({"BPF", "TI_PRU"}, {11})
  @@ All({"AARCH64"}, {258, 1}) @@ All({"BLACKFIN"}, {18}) @@ All({"CRX"}, {15}) @@ All({"M32R"}, {34})
  @@ All({"IA_64"}, {100, 101, 36, 37}) @@ All({"S12Z"}, {6, 7}) @@ All({"NDS32"}, {20}) @@ All({"SCORE"}, {8})
  @@ All({"PARISC"}, {1, 2, 41}) @@ All({"V800"}, {51})

is_32bit_pcrel_reloc ==
  All({"386", "IAMCU", "MICROBLAZE", "SH", "X86_64", "L1OM", "K1OM"}, {2}) @@ All({"68K", "TILEPRO", "VAX"}, {4})
  @@ All({"ADAPTEVA_EPIPHANY", "SPARC32PLUS", "SPARCV9", "SPARC", "TILEGX", "VISIUM"}, {6})
  @@ All({"ARC_COMPACT", "ARC_COMPACT2"}, {49}) @@ All({"AVR_OLD", "AVR"}, {36}) @@ All({"PPC", "PPC64"}, {26})
  @@ All({"S390_OLD", "S390"}, {5}) @@ All({"XTENSA_OLD", "XTENSA"}, {14}) @@ All({"OR1K", "PARISC"}, {9})
  @@ All({"AARCH64"}, {261}) @@ All({"ALPHA"}, {10}) @@ All({"ARM"}, {3}) @@ All({"RISCV"}, {57}) @@ All({"SPU"}, {13})

is_64bit_abs_reloc ==
  All({"X86_64", "L1OM", "K1OM", "TILEGX"}, {1}) @@ All({"SPARC32PLUS", "SPARCV9", "SPARC"}, {32, 54})
  @@ All({"S390_OLD", "S390"}, {22}) @@ All({"ALPHA", "RISCV"}, {2}) @@ All({"AARCH64"}, {257})
  @@ All({"IA_64"}, {38, 39}) @@ All({"PARISC"}, {80}) @@ All({"PPC64"}, {38}) @@ All({"MIPS"}, {18})

is_64bit_pcrel_reloc ==
  All({"X86_64", "L1OM", "K1OM"}, {24}) @@ All({"SPARC32PLUS", "SPARCV9", "SPARC"}, {46})
  @@ All({"S390_OLD", "S390"}, {23}) @@ All({"ALPHA"}, {11}) @@ All({"AARCH64"}, {260}) @@ All({"IA_64"}, {78, 79})
  @@ All({"PARISC"}, {72}) @@ All({"PPC64"}, {44}) @@ All({"TILEGX"}, {5})

is_24bit_abs_reloc == All({"CYGNUS_MN10200", "MN10200"}, {4}) @@ All({"FT32", "Z80"}, {5})

is_16bit_abs_reloc ==
  All({"ARC", "ARC_COMPACT", "ARC_COMPACT2", "FT32", "CYGNUS_MN10200", "MN10200", "CYGNUS_MN10300", "MN10300",
       "MSP430X", "OR1K", "TI_C6000", "VISIUM", "XC16X", "C166"}, {2})
  @@ All({"IP2K_OLD", "IP2K", "M32C_OLD", "M32C"}, {1}) @@ All({"AVR_OLD", "AVR", "Z80"}, {4})
  @@ All({"CYGNUS_D10V", "D10V", "XGATE"}, {3}) @@ All({"H8S", "H8_300", "H8_300H"}, {R_H8_DIR16})
  @@ All({"ADAPTEVA_EPIPHANY", "MSP430", "MSP430_OLD"}, {5}) @@ All({"NDS32"}, {19}) @@ All({"ALTERA_NIOS2"}, {13})
  @@ All({"NIOS32"}, {9}) @@ All({"RISCV"}, {55}) @@ All({"TI_PRU"}, {8})

is_8bit_abs_reloc == All({"RISCV"}, {54}) @@ All({"Z80"}, {1})
is_6bit_abs_reloc == All({"RISCV"}, {53})
is_inplace_add_reloc == [size \in {1, 2, 4, 8} |->
  All({"RISCV"}, {CASE size = 1 -> 33 [] size = 2 -> 34 [] size = 4 -> 35 [] size = 8 -> 36})]
is_inplace_sub_reloc == [size \in {1, 2, 4, 8} |->
  All({"RISCV"}, {CASE size = 1 -> 37 [] size = 2 -> 38 [] size = 4 -> 39 [] size = 8 -> 40})]
is_6bit_inplace_sub_reloc == All({"RISCV"}, {52})

is_none_reloc ==
  All({"386", "68K", "ADAPTEVA_EPIPHANY", "ALPHA", "ALTERA_NIOS2", "ARC", "ARC_COMPACT2", "ARC_COMPACT", "ARM", "C166",
       "CRIS", "FT32", "IA_64", "K1OM", "L1OM", "M32R", "MIPS", "MN10300", "MOXIE", "NIOS32", "OR1K", "PARISC", "PPC64",
       "PPC", "RISCV", "S390", "S390_OLD", "SH", "SPARC32PLUS", "SPARC", "SPARCV9", "TILEGX", "TILEPRO", "TI_C6000",
       "X86_64", "XC16X", "Z80", "WEBASSEMBLY"}, {0})
  @@ All({"AVR_OLD", "AVR"}, {0, 30, 31, 32}) @@ All({"XTENSA_OLD", "XTENSA"}, {0, 17, 18, 19} \cup 57..62)
  @@ All({"AARCH64"}, {0, 256}) @@ All({"METAG"}, {3}) @@ All({"NDS32"}, {0} \cup 204..207)
  @@ All({"TI_PRU"}, {0, 65, 66, 67})

\* The tests of apply_relocations in their order.
Kinds ==
  LET kind(how, size, table) == [how |-> how, size |-> size, table |-> table]
  IN <<kind("none", 0, is_none_reloc),
       kind("abs", 4, is_32bit_abs_reloc), kind("pcrel", 4, is_32bit_pcrel_reloc),
       kind("abs", 8, is_64bit_abs_reloc), kind("pcrel", 8, is_64bit_pcrel_reloc),
       kind("abs", 3, is_24bit_abs_reloc), kind("abs", 2, is_16bit_abs_reloc), kind("abs", 1, is_8bit_abs_reloc),
       kind("abs6", 1, is_6bit_abs_reloc)>>
     \o FlattenSeq([k \in 1..4 |-> LET size == <<4, 8, 2, 1>>[k]
                                   IN <<kind("sub", size, is_inplace_sub_reloc[size]),
                                        kind("add", size, is_inplace_add_reloc[size])>>])
     \o <<kind("sub6", 1, is_6bit_inplace_sub_reloc)>>
KindsOf(machine, type) == SelectSeq(Kinds, LAMBDA k : type \in Types(k.table, machine))

-----------------------------------------------------------------------------
(* Relocations of some machines that say something about the next one.     *)

Forgotten == [saved |-> None, saved_sym1 |-> 0, saved_sym2 |-> 0, value |-> 0]

\* Mutant: the call without a relocation does nothing.
Discarded_Never(s, machine) == s

\* The call without a relocation: value stays.
Discarded(s, machine) ==
  IF machine \in {"MSP430", "MSP430X", "MSP430_OLD", "MN10300", "CYGNUS_MN10300"} THEN [s EXCEPT !.saved = None]
  ELSE IF machine = "RL78" THEN [s EXCEPT !.saved_sym1 = 0, !.saved_sym2 = 0]
  ELSE s

Put(s, at, value, size) ==
  IF IN_RANGE(s.bytes, at, size) THEN [s EXCEPT !.bytes = byte_put(@, at, value, size)] ELSE s

Saves(machine) ==
  CASE machine \in {"MN10300", "CYGNUS_MN10300"} -> {33}
    [] machine \in {"MSP430", "MSP430_OLD"} -> {10, 12, 21, 23}
    [] machine = "MSP430X" -> {21, 23}
    [] OTHER -> {}
Uses(machine) ==
  CASE machine \in {"MN10300", "CYGNUS_MN10300"} -> {1, 2}
    [] machine \in {"MSP430", "MSP430_OLD"} -> {1, 3, 5, 9, 11}
    [] machine = "MSP430X" -> {1, 3, 2, 15, 22}
    [] OTHER -> {}

\* The bytes of a ULEB128, whose upper bit says that there is another; 0: it does not end.
LebSize(bytes, at) ==
  LET ends == {p \in DOMAIN bytes : p >= at /\ bytes[p] < BITS \div 2}
  IN IF ends = {} THEN 0 ELSE (CHOOSE p \in ends : \A q \in ends : p <= q) - at + 1
DiffSize(s, machine, r) ==
  IF r.type = 1 THEN 4
  ELSE IF (machine = "MSP430X" /\ r.type = 22) \/ (machine \in {"MSP430", "MSP430_OLD"} /\ r.type = 11)
  THEN LebSize(s.bytes, r.offset)
  ELSE 2

\* The state behind a relocation of this kind; empty: it is none.
target_specific_reloc_handling(s, machine, r, symtab) ==
  LET known == r.sym \in DOMAIN symtab
      size == DiffSize(s, machine, r)
      differ == IF known /\ size > 0 THEN Put(s, r.offset, r.addend + symtab[r.sym].value - s.saved.value, size) ELSE s
  IN IF r.type \in Saves(machine) THEN <<IF known THEN [s EXCEPT !.saved = symtab[r.sym]] ELSE s>>
     ELSE IF r.type \in Uses(machine) /\ s.saved # None THEN <<[differ EXCEPT !.saved = None]>>
     ELSE IF machine \in {"MN10300", "CYGNUS_MN10300"} /\ r.type = 34 THEN <<s>>
     ELSE IF machine # "RL78" THEN <<>>
     ELSE IF r.type = 128
     THEN <<[s EXCEPT !.saved_sym1 = s.saved_sym2,
                      !.saved_sym2 = IF known THEN symtab[r.sym].value + r.addend ELSE @]>>
     ELSE IF r.type = 131
     THEN <<[s EXCEPT !.value = s.saved_sym1 - s.saved_sym2, !.saved_sym1 = 0, !.saved_sym2 = 0]>>
     ELSE IF r.type \in {65, 67}
     THEN <<[Put(s, r.offset, s.value, IF r.type = 65 THEN 4 ELSE 2) EXCEPT !.value = 0]>>
     ELSE <<>>

-----------------------------------------------------------------------------
(* apply_relocations.                                                      *)

STT_SECTION == 3
STT_COMMON == 5

\* Where an addend is in the section, as with REL, although the relocation has one.
PartialInplace(machine, type) ==
  \/ machine \in {"XTENSA", "PJ", "PJ_OLD"} /\ type = 1
  \/ machine \in {"D30V", "CYGNUS_D30V"} /\ type = 12

Addend(s, machine, r, is_rela, kind) ==
  LET there == byte_get(s.bytes, r.offset, kind.size)
  IN (IF is_rela THEN r.addend ELSE 0)
     + (IF is_rela /\ ~ PartialInplace(machine, r.type) /\ kind.how \notin {"add", "sub", "sub6"} THEN 0
        ELSE IF kind.how = "sub6" THEN there % SIX ELSE there)

Applied(s, machine, r, sym, is_rela, kind) ==
  LET addend == Addend(s, machine, r, is_rela, kind)
      top == s.bytes[r.offset] - (s.bytes[r.offset] % SIX)
      value == CASE kind.how = "pcrel" -> addend - (IF machine = "PARISC" THEN 8 ELSE 0) + sym.value - r.offset
                 [] kind.how \in {"abs", "add"} -> addend + sym.value
                 [] kind.how = "sub" -> addend - sym.value
                 [] kind.how = "abs6" -> ((addend + sym.value) % SIX) + top
                 [] kind.how = "sub6" -> ((addend - sym.value) % SIX) + top
  IN [s EXCEPT !.bytes = byte_put(@, r.offset, value, kind.size)]

\* A relocation that the machine has no special use for.
Relocation(s, machine, r, symtab, is_rela) ==
  LET kinds == KindsOf(machine, r.type)
      sym == symtab[r.sym]
  IN IF kinds = <<>> \/ kinds[1].how = "none" THEN s
     ELSE IF ~ IN_RANGE(s.bytes, r.offset, kinds[1].size) \/ r.sym \notin DOMAIN symtab THEN s
     ELSE IF r.sym # 0 /\ sym.type # STT_COMMON /\ sym.type > STT_SECTION THEN s
     ELSE Applied(s, machine, r, sym, is_rela, kinds[1])

\* The first section of relocations that is for this one.  s.ok is the result.
apply_relocations(s, file, section) ==
  LET fits(c) == c.type \in {"RELA", "REL"} /\ c.info = section /\ c.relocs # <<>> /\ c.link # "none"
      first == SelectInSeq(file.relsecs, fits)
      relsec == file.relsecs[first]
      is_rela == relsec.type = "RELA" /\ file.machine # "SH"
      step(t, r) == LET special == target_specific_reloc_handling(t, file.machine, r, file.symtab)
                    IN IF special # <<>> THEN special[1] ELSE Relocation(t, file.machine, r, file.symtab, is_rela)
  IN IF ~ file.relocatable \/ first = 0 THEN [s EXCEPT !.ok = TRUE]
     ELSE IF relsec.link # "symbols" \/ ~ relsec.readable THEN [s EXCEPT !.ok = FALSE]
     ELSE [Discarded(FoldLeft(step, s, relsec.relocs), file.machine) EXCEPT !.ok = TRUE]

\* One section after the other.
relocated(file) ==
  LET start == Forgotten @@ [bytes |-> <<>>, ok |-> TRUE, out |-> <<>>]
      add(t) == [t EXCEPT !.out = Append(@, [bytes |-> t.bytes, ok |-> t.ok])]
  IN FoldLeft(LAMBDA s, n : add(apply_relocations([s EXCEPT !.bytes = file.sections[n]], file, n)),
              start, [n \in DOMAIN file.sections |-> n]).out
=============================================================================

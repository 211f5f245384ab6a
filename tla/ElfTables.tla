-------------------------------- MODULE ElfTables --------------------------------
(***************************************************************************)
(* readelf.c: walks over tables whose entries say where the next one is.   *)
(* A buffer is a function from 0 on; reading behind its end has no value.  *)
(* Version sections consist of words, and places in them are numbers of    *)
(* words; a half-word has four bits instead of 16, so that HIDDEN, 0x8000, *)
(* is 8.  Names are indices into a string table of strtab_size bytes.      *)
(***************************************************************************)
EXTENDS Integers, Sequences, FiniteSets, SequencesExt

VERDEF == 5   \* the sizes of the structures
VERDAUX == 2
VERNEED == 4
VERNAUX == 4
HIDDEN == 8
VERSYM_VERSION(d) == d % HIDDEN
Size(buf) == Cardinality(DOMAIN buf)
Low(w) == w % 16
High(w) == w \div 16

Verdef(buf, at) == [ndx |-> Low(buf[at + 1]), cnt |-> High(buf[at + 1]), flags |-> High(buf[at]),
                    aux |-> buf[at + 3], next |-> buf[at + 4]]
Verdaux(buf, at) == [name |-> buf[at], next |-> buf[at + 1]]
Verneed(buf, at) == [cnt |-> High(buf[at]), file |-> buf[at + 1], aux |-> buf[at + 2], next |-> buf[at + 3]]
Vernaux(buf, at) == [other |-> High(buf[at + 1]), name |-> buf[at + 2], next |-> buf[at + 3]]

Complaint == <<"complaint">>

-----------------------------------------------------------------------------
(* process_version_sections                                                *)

\* The names of a definition behind its first.  aux is the last one read, j counts them.
RECURSIVE Parents(_, _, _, _, _)
Parents(buf, at, aux, cnt, j) ==
  LET past == at + aux.next
  IN IF j >= cnt THEN <<>>
     ELSE IF aux.next < VERDAUX /\ ~ (j = cnt - 1 /\ aux.next = 0) THEN <<Complaint>>
     ELSE IF aux.next > Size(buf) - at \/ past + VERDAUX > Size(buf) THEN <<Complaint>>
     ELSE <<<<"parent", Verdaux(buf, past).name>>>> \o Parents(buf, past, Verdaux(buf, past), cnt, j + 1)

\* A definition and its names; ends: the walk ends here.
Definition(buf, at) ==
  LET ent == Verdef(buf, at)
      first == Verdaux(buf, at + ent.aux)
      beyond == ent.aux > Size(buf) - at \/ at + ent.aux + VERDAUX > Size(buf)
  IN [shown |-> <<<<"def", ent.ndx>>>>
                \o IF beyond THEN <<>>
                   ELSE <<<<"name", first.name>>>> \o Parents(buf, at + ent.aux, first, ent.cnt, 1),
      ends |-> beyond]

RECURSIVE Needed(_, _, _, _)
Needed(buf, at, cnt, j) ==
  IF j >= cnt THEN <<>>
  ELSE IF at + VERNAUX > Size(buf) THEN <<Complaint>>
  ELSE LET aux == Vernaux(buf, at)
           shown == <<<<"version", aux.other, aux.name>>>>
           invalid == aux.next < VERNAUX /\ ~ (j = cnt - 1 /\ aux.next = 0)
       IN shown \o (IF invalid \/ aux.next > Size(buf) - at
                    THEN <<Complaint>> ELSE Needed(buf, at + aux.next, cnt, j + 1))

Need(buf, at) ==
  LET ent == Verneed(buf, at)
      head == <<<<"need", ent.file>>>>
  IN IF ent.aux > Size(buf) - at THEN [shown |-> head, ends |-> TRUE]
     ELSE [shown |-> head \o Needed(buf, at + ent.aux, ent.cnt, 0), ends |-> FALSE]

\* The entries of a section from the one at a place on, which is number cnt of sh_info.
RECURSIVE Entries(_, _, _, _, _)
Entries(buf, kind, sh_info, at, cnt) ==
  LET size == IF kind = "verdef" THEN VERDEF ELSE VERNEED
      entry == IF kind = "verdef" THEN Definition(buf, at) ELSE Need(buf, at)
      next == IF kind = "verdef" THEN Verdef(buf, at).next ELSE Verneed(buf, at).next
      invalid == next < size /\ ~ (cnt = sh_info - 1 /\ next = 0)
  IN IF cnt >= sh_info THEN <<>>
     ELSE IF at + size > Size(buf) THEN <<Complaint>>
     ELSE IF entry.ends \/ invalid \/ next > Size(buf) - at THEN entry.shown \o <<Complaint>>
     ELSE entry.shown \o Entries(buf, kind, sh_info, at + next, cnt + 1)

process_version_sections(section) == Entries(section.buf, section.kind, section.sh_info, 0, 0)

-----------------------------------------------------------------------------
(* The version of a symbol, for the listing of versions and for that of    *)
(* symbols.  A file has words, the places verdef and verneed in them (-1:  *)
(* no such table), and strtab_size.                                        *)

\* The name of an index of a string table.
NameOf(file, index) == IF index < file.strtab_size THEN index ELSE -1

Unreadable == [ndx |-> 0, cnt |-> 0, flags |-> 0, aux |-> 0, next |-> 0]

\* The definition with an index, as the walks find it, with its place; max is the greatest index seen.
RECURSIVE FindDefinition(_, _, _, _)
FindDefinition(buf, at, ndx, max) ==
  LET ivd == IF at + VERDEF > Size(buf) THEN Unreadable ELSE Verdef(buf, at)
      seen == IF VERSYM_VERSION(ivd.ndx) > max THEN VERSYM_VERSION(ivd.ndx) ELSE max
  IN IF ivd.ndx = ndx \/ ivd.next = 0
     THEN [found |-> ivd.ndx = ndx, at |-> at, ivd |-> ivd, max |-> seen]
     ELSE FindDefinition(buf, at + ivd.next, ndx, seen)

\* The name of a needed version: <<>> if no file has it.
RECURSIVE FindVernaux(_, _, _)
FindVernaux(buf, at, other) ==
  IF at + VERNAUX > Size(buf) THEN <<>>
  ELSE LET aux == Vernaux(buf, at)
       IN IF aux.other = other THEN <<aux.name>>
          ELSE IF aux.next = 0 THEN <<>> ELSE FindVernaux(buf, at + aux.next, other)

RECURSIVE FindNeed(_, _, _)
FindNeed(buf, at, other) ==
  IF at + VERNEED > Size(buf) THEN <<>>
  ELSE LET ivn == Verneed(buf, at)
           aux == FindVernaux(buf, at + ivn.aux, other)
       IN IF aux # <<>> \/ ivn.next = 0 THEN aux ELSE FindNeed(buf, at + ivn.next, other)

\* The name of a definition that was found.
FirstName(file, d) ==
  LET at == d.at + d.ivd.aux
  IN IF at + VERDAUX > Size(file.words) THEN <<>> ELSE <<Verdaux(file.words, at).name>>

\* What the listing of versions prints beside the entry of a symbol: a name, -1 for one that is
\* invalid, "both", or nothing.
SymbolVersion(file, d) ==
  LET needed == IF file.verneed < 0 THEN <<>> ELSE FindNeed(file.words, file.verneed, d)
      name == IF needed = <<>> THEN <<>> ELSE <<NameOf(file, needed[1])>>
      def == FindDefinition(file.words, file.verdef, VERSYM_VERSION(d), 0)
      found == def.found /\ def.at + VERDEF <= Size(file.words)
      defined == FirstName(file, def)
  IN CASE d \in {0, 1} -> <<>>
       [] d = HIDDEN + 1 \/ file.verdef < 0 \/ ~ found -> name
       [] defined = <<>> -> <<>>
       [] NameOf(file, defined[1]) < 0 -> <<-1>>
       [] name \notin {<<>>, <<-1>>} -> <<"both">>
       [] OTHER -> defined

process_versym(file) ==
  [k \in DOMAIN file.versym |-> IF k > Len(file.symbols) THEN <<>> ELSE SymbolVersion(file, file.versym[k])]

VER_FLG_BASE == 1

\* The version in the listing of symbols, and whether it is shown as the default, as one of
\* several, or as needed.
get_symbol_version_string(file, d, symbol) ==
  LET looks == symbol.defined /\ d # HIDDEN + 1 /\ file.verdef >= 0
      def == IF looks THEN FindDefinition(file.words, file.verdef, VERSYM_VERSION(d), 0)
             ELSE [found |-> FALSE, max |-> 0]
      base == def.found /\ def.ivd.ndx = 1 /\ def.ivd.flags = VER_FLG_BASE
      defined == IF def.found THEN FirstName(file, def) ELSE <<>>
      needed == IF file.verneed < 0 THEN <<>> ELSE FindNeed(file.words, file.verneed, d)
      corrupt == /\ file.verneed >= 0 /\ VERSYM_VERSION(d) > def.max
                 /\ def.max # 0 \/ VERSYM_VERSION(d) # 1
      info == IF d >= HIDDEN THEN "hidden" ELSE "public"
  IN CASE d = 0 \/ base -> <<>>
       [] defined # <<>> /\ defined # <<symbol.st_name>> -> <<NameOf(file, defined[1]), info>>
       [] needed # <<>> -> <<NameOf(file, needed[1]), "undefined">>
       [] corrupt -> <<-1, info>>
       [] OTHER -> <<>>

print_dynamic_symbols(file) ==
  [k \in DOMAIN file.symbols |-> get_symbol_version_string(file, file.versym[k], file.symbols[k])]

-----------------------------------------------------------------------------
(* DT_HASH and DT_GNU_HASH, from which the number of dynamic symbols is    *)
(* taken, and the histograms of their buckets.  A file has words (a        *)
(* function from 0 on), segments to load, and the addresses hash, gnu_hash *)
(* and xhash, in words; -1: there is no such table.  A table that may be   *)
(* missing is a sequence of at most one.                                   *)

FileSize(f) == Cardinality(DOMAIN f.words)
Missing == <<>>

\* The first segment that holds what lies at an address; without one, the address itself.
offset_from_vma(f, vma, size) ==
  LET holds == {k \in DOMAIN f.loads : /\ vma >= f.loads[k].vaddr - (f.loads[k].vaddr % f.loads[k].align)
                                       /\ vma + size <= f.loads[k].vaddr + f.loads[k].filesz}
      seg == f.loads[CHOOSE k \in holds : \A j \in holds : k <= j]
  IN IF holds = {} THEN vma ELSE vma - seg.vaddr + seg.offset

get_dynamic_data(f, at, number) ==
  IF number > FileSize(f) \/ at < 0 \/ at + number > FileSize(f) THEN Missing
  ELSE <<[k \in 0..(number - 1) |-> f.words[at + k]]>>

\* DT_HASH: the number of chains is that of symbols.
SysvTable(nb, nc, buckets, chains) ==
  IF nb = 0 \/ nc = 0 \/ buckets = Missing \/ chains = Missing THEN Missing
  ELSE <<[nbuckets |-> nb, nchains |-> nc, buckets |-> buckets[1], chains |-> chains[1]]>>
SysvHash(f) ==
  LET at == offset_from_vma(f, f.hash, 4)
      table(nb, nc) == SysvTable(nb, nc, get_dynamic_data(f, at + 2, nb), get_dynamic_data(f, at + 2 + nb, nc))
      read(sizes) == IF sizes = Missing THEN Missing ELSE table(sizes[1][0], sizes[1][1])
  IN IF f.hash < 0 THEN Missing ELSE read(get_dynamic_data(f, at, 2))

\* How many symbols from one on are in its chain.
RECURSIVE ChainLength(_, _, _)
ChainLength(chains, n, off) ==
  IF off < n /\ chains[off] % 2 = 0 THEN 1 + ChainLength(chains, n, off + 1) ELSE 1

\* How many words up to and with the end of the last chain; 0: the file ends before.
RECURSIVE LastChain(_, _, _)
LastChain(f, at, n) ==
  IF at < 0 \/ at >= FileSize(f) THEN 0
  ELSE IF f.words[at] % 2 = 1 THEN n + 1 ELSE LastChain(f, at + 1, n + 1)

\* DT_GNU_HASH: the chains are read up to the end of the one that starts last.  g is what was
\* read so far; vma is the place of the buckets.
GnuChains(f, g, chains, xlat) ==
  IF chains = Missing \/ (f.xhash /\ xlat = Missing) THEN Missing
  ELSE <<[g EXCEPT !.chains = chains[1],
                   !.xlat = IF f.xhash THEN xlat[1] ELSE [k \in 0..(g.nchains - 1) |-> g.symidx + k]]>>
GnuRest(f, g, last, rest) ==
  LET nchains == last - g.symidx + rest
      at(n) == get_dynamic_data(f, offset_from_vma(f, g.vma + g.n + n, 1), nchains)
  IN IF rest = 0 THEN Missing ELSE GnuChains(f, [g EXCEPT !.nchains = nchains], at(0), at(nchains))
GnuBuckets(f, g) ==
  LET used == {g.buckets[b] : b \in DOMAIN g.buckets} \ {0}
      rest(last) == GnuRest(f, g, last, LastChain(f, offset_from_vma(f, g.vma + g.n + last - g.symidx, 1), 0))
  IN IF used = {} \/ \E m \in used : m < g.symidx THEN Missing
     ELSE rest(CHOOSE m \in used : \A k \in used : k <= m)
GnuHash(f) ==
  LET table(head, vma, buckets) ==
        IF buckets = Missing THEN Missing
        ELSE GnuBuckets(f, [n |-> head[0], symidx |-> head[1], vma |-> vma, buckets |-> buckets[1], nchains |-> 0,
                            chains |-> <<>>, xlat |-> <<>>])
      in(head, vma) == table(head, vma, get_dynamic_data(f, offset_from_vma(f, vma, 1), head[0]))
      read(head) == IF head = Missing THEN Missing ELSE in(head[1], f.gnu_hash + 4 + head[1][2] * f.wide)
  IN IF f.gnu_hash < 0 THEN Missing ELSE read(get_dynamic_data(f, offset_from_vma(f, f.gnu_hash, 4), 4))

\* The symbols that the chains of a table lead to.
GnuSymbols(g) ==
  LET in(b) == g.buckets[b] - g.symidx
  IN UNION {{g.xlat[off] : off \in {o \in in(b)..(in(b) + ChainLength(g.chains, g.nchains, in(b)) - 1) : o < g.nchains}} :
              b \in {b \in 0..(g.n - 1) : g.buckets[b] # 0}}

\* The number of dynamic symbols, and the tables that are kept.
get_num_dynamic_syms(f) ==
  LET counted(sysv, gnu) ==
        LET most == {0} \cup (IF sysv = Missing THEN {} ELSE {sysv[1].nchains})
                        \cup (IF gnu = Missing THEN {} ELSE {n + 1 : n \in GnuSymbols(gnu[1])})
        IN [syms |-> CHOOSE n \in most : \A m \in most : m <= n, sysv |-> sysv, gnu |-> gnu]
  IN counted(SysvHash(f), GnuHash(f))

-----------------------------------------------------------------------------
(* Histograms.                                                             *)

\* A chain from a symbol on: how long it is, and what was visited; a symbol that was visited
\* before, or that does not exist, ends it.
RECURSIVE Chain(_, _, _, _)
Chain(h, si, visited, length) ==
  IF si = 0 THEN [length |-> length, visited |-> visited, corrupt |-> FALSE]
  ELSE IF si >= h.nchains \/ si \in visited THEN [length |-> length + 1, visited |-> visited, corrupt |-> TRUE]
  ELSE Chain(h, h.chains[si], visited \cup {si}, length + 1)

\* How many buckets have each length, up to the greatest, and the sum of all.
Counts(lengths) ==
  LET most == CHOOSE m \in ToSet(lengths) \cup {0} : \A k \in DOMAIN lengths : lengths[k] <= m
  IN [counts |-> [l \in 0..most |-> Cardinality({k \in DOMAIN lengths : lengths[k] = l})],
      nsyms |-> FoldLeft(LAMBDA n, l : n + l, 0, lengths)]

SysvHistogram(h) ==
  LET step(s, b) == LET c == Chain(h, h.buckets[b - 1], s.visited, 0)
                    IN [lengths |-> Append(s.lengths, c.length), visited |-> c.visited,
                        corrupt |-> s.corrupt \/ c.corrupt]
      all == FoldLeft(step, [lengths |-> <<>>, visited |-> {}, corrupt |-> FALSE], [b \in 1..h.nbuckets |-> b])
  IN [of |-> "sysv", corrupt |-> all.corrupt] @@ Counts(all.lengths)

GnuHistogram(g) ==
  [of |-> "gnu", corrupt |-> FALSE]
    @@ Counts([b \in 1..g.n |-> IF g.buckets[b - 1] = 0 THEN 0
                                ELSE ChainLength(g.chains, g.nchains, g.buckets[b - 1] - g.symidx)])

\* -I: what process_symbol_table does with the tables.
histograms(f) ==
  LET shown(t) == [syms |-> t.syms,
                   shown |-> (IF t.sysv = Missing THEN <<>> ELSE <<SysvHistogram(t.sysv[1])>>)
                             \o (IF t.gnu = Missing THEN <<>> ELSE <<GnuHistogram(t.gnu[1])>>)]
  IN shown(get_num_dynamic_syms(f))
=============================================================================

------------------------------- MODULE Du -------------------------------
(***************************************************************************)
(* du.c: process_file and du_files, which add up the sizes of a hierarchy  *)
(* from the changes of the level between one entry of fts and the next.    *)
(*                                                                         *)
(* A hierarchy is the sequence of its files in preorder.  A file has its   *)
(* level, whether it is a directory, its inode, and a fault: it matches    *)
(* --exclude, cannot be accessed, cannot be read as a directory, or fts    *)
(* fails there.  Left out: time stamps, -x, cycles, and thresholds.        *)
(***************************************************************************)
EXTENDS Integers, Sequences, FiniteSets, SequencesExt, FiniteSetsExt

CONSTANTS UINTMAX_MAX

SizeOf(ino) == 2 ^ (ino - 1)

\* What is below a file in the hierarchy h.
Below(h, k) ==
  LET after == {j \in (k + 1)..Len(h) : h[j].level <= h[k].level}
  IN (k + 1)..(IF after = {} THEN Len(h) ELSE Min(after) - 1)

\* What fts returns, each entry with the number of its file: a directory twice.
RECURSIVE Entries(_, _, _)
Entries(h, k, last) ==
  IF k > last THEN <<>>
  ELSE LET below == Below(h, k) \cap k..last
           next == k + Cardinality(below) + 1
           entry(info) == <<[file |-> k, info |-> info]>>
       IN (IF h[k].fault = "NS" THEN entry("NS")
           ELSE IF ~ h[k].dir THEN entry("F")
           ELSE IF h[k].fault = "DNR" THEN entry("D") \o entry("DNR")
           ELSE entry("D") \o Entries(h, k + 1, next - 1) \o entry("DP"))
          \o Entries(h, next, last)

duinfo_init == [size |-> 0, inodes |-> 0]
duinfo_add(a, b) ==
  LET sum == (a.size + b.size) % (UINTMAX_MAX + 1)
  IN [size |-> IF a.size <= sum THEN sum ELSE UINTMAX_MAX, inodes |-> a.inodes + b.inodes]

(* The state between two calls: the accumulators of each level, prev_level *)
(* and whether there was a call, the inodes that are known, what was added *)
(* up and printed, and whether an assertion failed.                        *)
Start(h) ==
  LET levels == {h[k].level : k \in DOMAIN h}
  IN [dulvl |-> [l \in levels |-> [ent |-> duinfo_init, subdir |-> duinfo_init]],
      called |-> FALSE, prev_level |-> 0, di_files |-> {}, tot_dui |-> duinfo_init,
      printed |-> <<>>, failed |-> FALSE]

\* The accumulators when an entry of a level comes after one of prev_level.
Levels_OneCleared(s, level) ==   \* mutant: only the level that is reached is cleared
  LET new == [ent |-> duinfo_init, subdir |-> duinfo_init]
      prev == s.dulvl[s.prev_level]
  IN IF s.called /\ level > s.prev_level THEN [s.dulvl EXCEPT ![level] = new]
     ELSE IF s.called /\ level < s.prev_level
     THEN [s.dulvl EXCEPT ![level].subdir = duinfo_add(duinfo_add(@, prev.ent), prev.subdir)]
     ELSE s.dulvl
Levels(s, level) ==
  LET new == [ent |-> duinfo_init, subdir |-> duinfo_init]
      prev == s.dulvl[s.prev_level]
  IN IF s.called /\ level > s.prev_level
     THEN [l \in DOMAIN s.dulvl |-> IF l \in (s.prev_level + 1)..level THEN new ELSE s.dulvl[l]]
     ELSE IF s.called /\ level < s.prev_level
     THEN [s.dulvl EXCEPT ![level].subdir = duinfo_add(duinfo_add(@, prev.ent), prev.subdir)]
     ELSE s.dulvl

\* Whether an entry is ignored, which is not asked for a directory in postorder.
Ignored(s, f, info, o) ==
  /\ info \notin {"DP", "DNR"}
  /\ \/ f.fault = "excluded"
     \/ ~ o.count_all /\ (o.hash_all \/ (~ f.dir /\ f.nlink > 1)) /\ f.ino \in s.di_files

process_file(s, e, h, o) ==
  LET f == h[e.file]
      dui == [size |-> SizeOf(f.ino), inodes |-> 1]
      hashes == ~ o.count_all /\ (o.hash_all \/ (~ f.dir /\ f.nlink > 1))
      known == IF e.info \in {"D", "F"} /\ hashes THEN s.di_files \cup {f.ino} ELSE s.di_files
      ascends == s.called /\ f.level < s.prev_level
      prev == s.dulvl[s.prev_level]
      subtree == IF ~ ascends THEN dui
                 ELSE IF o.separate_dirs THEN duinfo_add(dui, prev.ent)
                 ELSE duinfo_add(duinfo_add(dui, prev.ent), prev.subdir)
      isDir == e.info \in {"DP", "DNR"}
      dulvl == Levels(s, f.level)
  IN IF e.info = "NS" THEN s
     ELSE IF e.info = "D" THEN [s EXCEPT !.di_files = known]
     ELSE [s EXCEPT
       !.di_files = known, !.called = TRUE, !.prev_level = f.level,
       !.failed = @ \/ (ascends /\ f.level # s.prev_level - 1),
       !.dulvl = IF o.separate_dirs /\ isDir THEN dulvl
                 ELSE [dulvl EXCEPT ![f.level].ent = duinfo_add(@, dui)],
       !.tot_dui = duinfo_add(@, dui),
       !.printed = IF ((isDir \/ o.all) /\ f.level <= o.max_depth) \/ f.level = 0
                   THEN Append(@, <<e.file, subtree>>) ELSE @]

\* One call of du_files: the entries of one operand, until fts fails.  What is in an ignored
\* directory is skipped.
du_files(s, entries, h, o) ==
  LET RECURSIVE Loop(_, _)
      Loop(t, es) ==
        IF es = <<>> \/ h[es[1].file].fault = "STOP" THEN [t EXCEPT !.prev_level = 0]
        ELSE IF ~ Ignored(t, h[es[1].file], es[1].info, o) THEN Loop(process_file(t, es[1], h, o), Tail(es))
        ELSE Loop(t, SelectSeq(es, LAMBDA e : e.file \notin {es[1].file} \cup Below(h, es[1].file)))
  IN Loop(s, entries)

\* The operands, which are the files of level 0, one after the other.
du(h, o) ==
  LET operands == SetToSortSeq({k \in DOMAIN h : h[k].level = 0}, <)
  IN FoldLeft(LAMBDA s, k : du_files(s, Entries(h, k, k + Cardinality(Below(h, k))), h, o),
              Start(h), operands)
=============================================================================

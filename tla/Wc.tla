---------------------------------- MODULE Wc ----------------------------------
(***************************************************************************)
(* wc.c.  A byte is its number in ASCII or UTF-8.  A file is a record: the *)
(* packets that reads return from where it is positioned (start_pos),      *)
(* whether the last read fails, and what fstat says of it (regular, size   *)
(* and blksize); a name is "file", "missing" or "empty".  A job has the    *)
(* counts to print, whether the locale is multibyte (mb), the files, and   *)
(* where their names are from ("args", or with --files0-from a "list" that *)
(* is read at once or a "stream").                                         *)
(*                                                                         *)
(* Left out: widths of the columns, and standard input, which without names*)
(* is a file as well, that is named twice.                                 *)
(***************************************************************************)
EXTENDS Integers, Sequences, FiniteSets, SequencesExt

CONSTANTS BUFFER_SIZE, page_size

\* mbrtowc in UTF-8, for characters of two and three bytes: their length, or that they are
\* invalid or incomplete.
Invalid == -1
Incomplete == -2
LengthOf(lead) == CASE lead < 128 -> 1 [] lead \in {194, 195} -> 2 [] lead = 227 -> 3 [] OTHER -> 0
mbrtowc(b) ==
  LET n == LengthOf(b[1])
      there == IF n < Len(b) THEN n ELSE Len(b)
  IN IF n = 0 \/ \E k \in 2..there : b[k] \notin 128..191 THEN Invalid
     ELSE IF there < n THEN Incomplete ELSE n

is_basic(c) == c \in 9..13 \/ c \in (32..126) \ {36, 64, 96}
Printing(c, wide) == c \in 32..126 \/ (wide /\ c > 127)
Space(c) == c \in {32, 194}   \* of what is printing: 194 begins the no-break space
Columns(c) == IF c = 227 THEN 2 ELSE 1

\* One character, known by its first byte.
Scanned(s, c, wide) ==
  LET ends_line == c \in {10, 12, 13}
      separates == ends_line \/ c \in {9, 11} \/ (Printing(c, wide) /\ Space(c))
  IN [s EXCEPT
        !.lines = @ + (IF c = 10 THEN 1 ELSE 0), !.chars = @ + 1,
        !.linelength = IF ends_line /\ s.linepos > @ THEN s.linepos ELSE @,
        !.linepos = IF ends_line THEN 0 ELSE IF c = 9 THEN @ + 8 - (@ % 8)
                    ELSE IF Printing(c, wide) THEN @ + Columns(c) ELSE @,
        !.words = @ + (IF separates /\ s.in_word THEN 1 ELSE 0),
        !.in_word = ~ separates /\ (@ \/ Printing(c, wide))]

\* A round of the loop over multibyte characters.
RECURSIVE ScanWide(_, _)
ScanWide(s, b) ==
  IF b = <<>> THEN [s EXCEPT !.rest = <<>>]
  ELSE LET basic == ~ s.in_shift /\ is_basic(b[1])
           n == IF basic THEN 1 ELSE mbrtowc(b)
       IN CASE n = Incomplete ->
                 [s EXCEPT !.in_shift = TRUE, !.rest = IF Len(b) = BUFFER_SIZE THEN Tail(b) ELSE b]
            [] n = Invalid -> ScanWide([s EXCEPT !.in_shift = TRUE], Tail(b))
            [] OTHER -> ScanWide(Scanned([s EXCEPT !.in_shift = FALSE], b[1], ~ basic),
                                 SubSeq(b, n + 1, Len(b)))

ScanBytes(s, b) == FoldLeft(LAMBDA t, c : Scanned(t, c, FALSE), s, b)

safe_read(packets, n) ==
  LET first == Head(packets)
  IN IF Len(first) <= n THEN [got |-> first, left |-> Tail(packets)]
     ELSE [got |-> SubSeq(first, 1, n), left |-> <<SubSeq(first, n + 1, Len(first))>> \o Tail(packets)]

\* Rounds of the loops over characters, until there is no more to read.
RECURSIVE Rounds(_, _, _)
Rounds(s, packets, mb) ==
  IF packets = <<>> THEN s
  ELSE LET r == safe_read(packets, BUFFER_SIZE - Len(s.rest))
           t == [s EXCEPT !.bytes = @ + Len(r.got)]
       IN Rounds(IF mb THEN ScanWide(t, s.rest \o r.got) ELSE ScanBytes(t, r.got), r.left, mb)

Nothing == [lines |-> 0, words |-> 0, chars |-> 0, bytes |-> 0, linelength |-> 0]
Start == Nothing @@ [linepos |-> 0, in_word |-> FALSE, in_shift |-> FALSE, rest |-> <<>>]

CountChars(file, mb) ==
  LET s == Rounds(Start, file.packets, mb)
  IN [s EXCEPT !.linelength = IF s.linepos > @ THEN s.linepos ELSE @,
               !.words = @ + (IF s.in_word THEN 1 ELSE 0)]

\* Counting lines only, by one of two loops that count the same.
CountLines(file) ==
  LET bytes == FlattenSeq(file.packets)
  IN [Start EXCEPT !.bytes = Len(bytes), !.lines = Cardinality({k \in DOMAIN bytes : bytes[k] = 10})]

\* Counting bytes only: by the size that fstat says, or what is behind a place near the end
\* of the file.  lseek goes there from where the file is, not from its beginning.
hi_pos(st) == st.size - (st.size % (st.blksize + 1))
BySize(st) == st.regular /\ st.size % page_size # 0
Seeks(file, st) ==
  st.regular /\ ~ BySize(st) /\ file.regular /\ file.start_pos < hi_pos(st)
CountBytes(file, st) ==
  LET skipped == IF Seeks(file, st) THEN hi_pos(st) ELSE 0
      left == Len(FlattenSeq(file.packets)) - skipped
      passed == IF Seeks(file, st) THEN hi_pos(st) - file.start_pos ELSE 0
  IN [Start EXCEPT !.bytes =
        IF BySize(st) THEN IF st.size < file.start_pos THEN 0 ELSE st.size - file.start_pos
        ELSE passed + (IF left > 0 THEN left ELSE 0)]

\* wc: st is what fstatus holds.  The counts, and what fstatus holds then (no status is <<>>).
wc(file, st, job) ==
  LET single == ~ job.mb
      count_bytes == "bytes" \in job.print \/ (single /\ "chars" \in job.print)
      count_chars == ~ single /\ "chars" \in job.print
      count_complicated == job.print \cap {"words", "linelength"} # {}
      only_bytes == count_bytes /\ ~ count_chars /\ "lines" \notin job.print /\ ~ count_complicated
      counted(s, now) == [counts |-> [s EXCEPT !.chars = IF single THEN s.bytes ELSE @],
                          st |-> now, ok |-> ~ file.fails \/ (only_bytes /\ BySize(now[1]))]
      bytes(now) == counted(CountBytes(file, now[1]), now)
  IN IF only_bytes THEN bytes(IF st = <<>> THEN <<file>> ELSE st)
     ELSE counted(IF ~ count_chars /\ ~ count_complicated THEN CountLines(file)
                  ELSE CountChars(file, job.mb), st)

wc_file(file, st, job) ==
  IF file.name = "missing" THEN [opened |-> FALSE, ok |-> FALSE, st |-> st]
  ELSE [opened |-> TRUE] @@ wc(file, st, job)

write_counts(counts, job) == [c \in job.print |-> counts[c]]

Added(total, counts) ==
  [c \in DOMAIN total |-> IF c = "linelength"
                          THEN IF counts[c] > total[c] THEN counts[c] ELSE total[c]
                          ELSE total[c] + counts[c]]

\* What is known of the files before they are read: nothing, or the status of each.
get_input_fstatus(files, job) ==
  IF job.from = "stream" \/ files = <<>> \/ (Len(files) = 1 /\ Cardinality(job.print) = 1)
  THEN [i \in {0} |-> <<>>]
  ELSE [i \in 0..(Len(files) - 1) |-> IF files[i + 1].name = "file" THEN <<files[i + 1]>> ELSE <<>>]

\* With what wc_file says of a file.
WithCounts(m, r, at, job) ==
  [m EXCEPT !.ok = @ /\ r.ok,
            !.rows = IF r.opened THEN Append(@, write_counts(r.counts, job)) ELSE @,
            !.total = IF r.opened THEN Added(@, r.counts) ELSE @,
            !.fstatus[at] = r.st]

\* Mutant: the status of one file of a stream is used for the next one.
NextFile_KeepsStatus(m, i, job) ==
  LET at == IF job.from = "stream" THEN 0 ELSE i
  IN IF job.files[i + 1].name = "empty" THEN [m EXCEPT !.ok = FALSE]
     ELSE WithCounts(m, wc_file(job.files[i + 1], m.fstatus[at], job), at, job)

\* A round of main's loop over the names.
NextFile(m, i, job) ==
  LET at == IF job.from = "stream" THEN 0 ELSE i
      next == IF job.files[i + 1].name = "empty" THEN [m EXCEPT !.ok = FALSE]
              ELSE WithCounts(m, wc_file(job.files[i + 1], m.fstatus[at], job), at, job)
  IN [next EXCEPT !.fstatus[0] = IF job.from = "stream" THEN <<>> ELSE @]

main(job) ==
  LET start == [ok |-> TRUE, rows |-> <<>>, total |-> Nothing, fstatus |-> get_input_fstatus(job.files, job)]
      m == FoldLeft(LAMBDA s, k : NextFile(s, k - 1, job), start, [k \in DOMAIN job.files |-> k])
  IN [ok |-> m.ok,
      rows |-> m.rows \o (IF Len(job.files) > 1 THEN <<write_counts(m.total, job)>> ELSE <<>>)]
=============================================================================

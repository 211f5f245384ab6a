------------------------------- MODULE HeadElide -------------------------------
(***************************************************************************)
(* head.c: the first bytes or lines of an input, or all but the last.      *)
(*                                                                         *)
(* A byte is a number.  An input is a sequence of packets, none of them    *)
(* empty: what one safe_read can return at most.  A regular file is one    *)
(* packet from its current position on.  Left out: headers, read and write *)
(* errors, and the options that choose between the functions.              *)
(***************************************************************************)
EXTENDS Integers, Sequences, FiniteSets, SequencesExt

CONSTANTS
  BUFSIZ, READ_BUFSIZE,
  THRESHOLD,   \* HEAD_TAIL_PIPE_BYTECOUNT_THRESHOLD
  SIZE_MAX,
  line_end,
  Garbage      \* a byte that was never read

Bytes(packets) == FlattenSeq(packets)
From(bytes, k) == SubSeq(bytes, k + 1, Len(bytes))
Newlines(bytes) == {k \in DOMAIN bytes : bytes[k] = line_end}

safe_read(packets, n) ==
  IF packets = <<>> THEN [got |-> <<>>, rest |-> <<>>]
  ELSE LET k == Min({n, Len(Head(packets))})
       IN [got |-> SubSeq(Head(packets), 1, k),
           rest |-> IF k = Len(Head(packets)) THEN Tail(packets)
                    ELSE <<From(Head(packets), k)>> \o Tail(packets)]

\* No more than n bytes; fails if there are fewer.
RECURSIVE copy_fd(_, _, _)
copy_fd(packets, n, out) ==
  IF n = 0 THEN [out |-> out, ok |-> TRUE]
  ELSE LET r == safe_read(packets, Min({BUFSIZ, n}))
       IN IF r.got = <<>> THEN [out |-> out, ok |-> FALSE]
          ELSE copy_fd(r.rest, n - Len(r.got), out \o r.got)

-----------------------------------------------------------------------------
(* elide_tail_bytes_pipe: what it writes.  full_read returns fewer bytes   *)
(* than it is asked for only at the end.                                   *)

\* The two buffers: got is b[i], previous is b[!i], and first has none before it.
RECURSIVE DoubleBuffer(_, _, _, _)
DoubleBuffer(bytes, previous, first, n_elide) ==
  LET n_to_read == READ_BUFSIZE + n_elide
      n_read == Min({n_to_read, Len(bytes)})
      eof    == n_read < n_to_read
      delta  == IF eof /\ n_read <= n_elide THEN n_elide - n_read ELSE 0
      out    == (IF first THEN <<>> ELSE SubSeq(previous, READ_BUFSIZE + 1, n_to_read - delta))
                  \o SubSeq(bytes, 1, n_read - n_elide)
  IN IF eof THEN out
     ELSE out \o DoubleBuffer(From(bytes, n_read), SubSeq(bytes, 1, n_read), FALSE, n_elide)

\* n bytes of a buffer of the ring, from an index on.  n is a size_t.
Wrote(buffer, from, n) ==
  [k \in 1..(n % (SIZE_MAX + 1)) |->
     IF from + k <= READ_BUFSIZE THEN buffer[from + k] ELSE Garbage]

\* The ring b of n_bufs buffers: one is read, and the oldest one written once all are in use.
RECURSIVE ReadRing(_, _, _, _, _, _)
ReadRing(bytes, b, i, n_bufs, buffered_enough, out) ==
  LET n_read == Min({READ_BUFSIZE, Len(bytes)})
      i_next == (i + 1) % n_bufs
      filled == [b EXCEPT ![i] = SubSeq(bytes, 1, n_read) \o From(@, n_read)]
      enough == buffered_enough \/ i + 1 = n_bufs
      more   == IF enough THEN out \o Wrote(filled[i_next], 0, n_read) ELSE out
  IN IF n_read < READ_BUFSIZE
     THEN [b |-> filled, i |-> i_next, n_read |-> n_read, enough |-> enough, out |-> more]
     ELSE ReadRing(From(bytes, n_read), filled, i_next, n_bufs, enough, more)

\* What is written after the end of the input, of the rem bytes by which n_elide was rounded up.
Remainder_OneBuffer(r, rem, n_bufs) ==   \* mutant: never two buffers
  IF r.enough THEN Wrote(r.b[r.i], r.n_read, Min({rem, READ_BUFSIZE - r.n_read}))
  ELSE IF r.i + 1 = n_bufs
  THEN Wrote(r.b[(r.i + 1) % n_bufs], 0, r.n_read - (READ_BUFSIZE - rem)) ELSE <<>>
Remainder(r, rem, n_bufs) ==
  LET i_next == (r.i + 1) % n_bufs
      left   == READ_BUFSIZE - r.n_read
  IN IF r.enough
     THEN IF rem < left THEN Wrote(r.b[r.i], r.n_read, rem)
          ELSE Wrote(r.b[r.i], r.n_read, left) \o Wrote(r.b[i_next], 0, rem - left)
     ELSE IF r.i + 1 = n_bufs THEN Wrote(r.b[i_next], 0, r.n_read - (READ_BUFSIZE - rem))
     ELSE <<>>

elide_tail_bytes_pipe(bytes, n_elide) ==
  IF n_elide <= THRESHOLD THEN DoubleBuffer(bytes, <<>>, TRUE, n_elide)
  ELSE LET rem == READ_BUFSIZE - (n_elide % READ_BUFSIZE)
           n_bufs == (n_elide + rem) \div READ_BUFSIZE + 1
           empty == [i \in 0..(n_bufs - 1) |-> [k \in 1..READ_BUFSIZE |-> Garbage]]
           r == ReadRing(bytes, empty, 0, n_bufs, FALSE, <<>>)
       IN r.out \o Remainder(r, rem, n_bufs)

\* A large regular file, whose size may be more than what is left of it when it is read.
elide_tail_bytes_file(packets, size, n_elide) ==
  IF size <= n_elide THEN [out |-> <<>>, ok |-> TRUE]
  ELSE copy_fd(packets, size - n_elide, <<>>)

-----------------------------------------------------------------------------
(* elide_tail_lines_pipe *)

\* The list of buffers: what is read is appended to the last one if there is room, or linked
\* behind it; the first is written if there are enough lines behind it.
RECURSIVE ReadLines(_, _, _, _)
ReadLines(packets, buffers, n_elide, out) ==
  LET r == safe_read(packets, BUFSIZ)
      total == Cardinality(Newlines(Bytes(buffers) \o r.got))
  IN IF r.got = <<>> THEN [buffers |-> buffers, out |-> out]
     ELSE IF n_elide = 0 THEN ReadLines(r.rest, buffers, n_elide, out \o r.got)
     ELSE IF Len(r.got) + Len(Last(buffers)) < BUFSIZ
     THEN ReadLines(r.rest, [buffers EXCEPT ![Len(buffers)] = @ \o r.got], n_elide, out)
     ELSE IF n_elide < total - Cardinality(Newlines(buffers[1]))
     THEN ReadLines(r.rest, Append(Tail(buffers), r.got), n_elide, out \o buffers[1])
     ELSE ReadLines(r.rest, Append(buffers, r.got), n_elide, out)

\* The first buffers while there are enough lines behind them, and then the first lines of a
\* buffer.  An incomplete line at the end counts for the last buffer.
RECURSIVE WriteBuffers(_, _, _)
WriteBuffers(buffers, n_elide, incomplete) ==
  LET b == buffers[1]
      total == Cardinality(Newlines(Bytes(buffers))) + incomplete
      nlines == Cardinality(Newlines(b)) + (IF Len(buffers) = 1 THEN incomplete ELSE 0)
      n == total - n_elide
      nth == {k \in Newlines(b) : Cardinality(Newlines(SubSeq(b, 1, k))) = n}
  IN IF n_elide < total - nlines THEN b \o WriteBuffers(Tail(buffers), n_elide, incomplete)
     ELSE IF n_elide < total THEN SubSeq(b, 1, CHOOSE k \in nth : TRUE)
     ELSE <<>>

elide_tail_lines_pipe(packets, n_elide) ==
  LET r == ReadLines(packets, << <<>> >>, n_elide, <<>>)
      last == Last(r.buffers)
      incomplete == IF last # <<>> /\ Last(last) # line_end THEN 1 ELSE 0
  IN r.out \o WriteBuffers(r.buffers, n_elide, incomplete)

-----------------------------------------------------------------------------
(* elide_tail_lines_seekable *)

\* The buffer at pos is searched backward from its n-th byte on, then the one before it.
RECURSIVE ScanBack(_, _, _, _, _)
ScanBack(file, start_pos, pos, bytes, n_lines) ==
  LET ends == Newlines(bytes)
      nth  == {k \in ends : Cardinality({e \in ends : e > k}) = n_lines}
      blocks == SubSeq(file, pos - BUFSIZ + 1, pos)
  IN IF nth # {}
     THEN LET k == CHOOSE k \in nth : TRUE
          IN copy_fd(<<From(file, start_pos)>>, pos - start_pos, <<>>).out \o SubSeq(bytes, 1, k)
     ELSE IF pos = start_pos THEN <<>>
     ELSE ScanBack(file, start_pos, pos - BUFSIZ, blocks, n_lines - Cardinality(ends))

elide_tail_lines_seekable(file, n_lines, start_pos) ==
  LET size == Len(file)
      part == (size - start_pos) % BUFSIZ
      pos  == size - (IF part = 0 THEN BUFSIZ ELSE part)
      bytes == From(file, pos)
  IN IF n_lines = 0
     THEN copy_fd(<<From(file, start_pos)>>, pos - start_pos, <<>>).out \o bytes
     ELSE ScanBack(file, start_pos, pos, bytes,
                   IF Last(bytes) # line_end THEN n_lines - 1 ELSE n_lines)

-----------------------------------------------------------------------------
RECURSIVE head_bytes(_, _)
head_bytes(packets, n) ==
  LET r == safe_read(packets, Min({BUFSIZ, n}))
  IN IF n = 0 \/ r.got = <<>> THEN <<>> ELSE r.got \o head_bytes(r.rest, n - Len(r.got))

RECURSIVE head_lines(_, _)
head_lines(packets, n) ==
  LET r == safe_read(packets, BUFSIZ)
      ends == Newlines(r.got)
      nth  == {k \in ends : Cardinality({e \in ends : e <= k}) = n}
  IN IF n = 0 \/ r.got = <<>> THEN <<>>
     ELSE IF nth = {} THEN r.got \o head_lines(r.rest, n - Cardinality(ends))
     ELSE SubSeq(r.got, 1, CHOOSE k \in nth : TRUE)
\* head, elide_tail_bytes_file and elide_tail_lines_file: an input is a pipe, or a file at
\* start_pos, which is large if its size is more than a block.
head(input, n, count_lines, elide_from_end) ==
  LET file == Bytes(input.packets)
      ahead == From(file, input.start_pos)
      packets == IF input.kind = "pipe" THEN input.packets
                 ELSE IF ahead = <<>> THEN <<>> ELSE <<ahead>>
  IN IF ~ elide_from_end
     THEN IF count_lines THEN head_lines(packets, n) ELSE head_bytes(packets, n)
     ELSE IF input.kind # "large"
     THEN IF count_lines THEN elide_tail_lines_pipe(packets, n) ELSE elide_tail_bytes_pipe(ahead, n)
     ELSE IF ~ count_lines THEN elide_tail_bytes_file(packets, Len(ahead), n).out
     ELSE IF ahead = <<>> THEN <<>>
     ELSE elide_tail_lines_seekable(file, n, input.start_pos)
=============================================================================

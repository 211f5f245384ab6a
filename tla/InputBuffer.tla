------------------------------- MODULE InputBuffer -------------------------------
(***************************************************************************)
(* The input buffer of sort.c: sort_buffer_size, initbuf, fillbuf and the  *)
(* loop of sort() that fills the buffer, concatenates files that end while *)
(* there is room, and hands over one bufferful of lines after the other.   *)
(*                                                                         *)
(* The buffer holds bytes from its beginning and the table of lines from   *)
(* its end.  A byte is Eol or another one, and what is in the table is the *)
(* place of a line among the bytes.  Left out: the positions of keys, the  *)
(* NUL that stands for Eol in the buffer until write_line puts it back,    *)
(* and merge_buffer_size, which later merges size their buffers by.        *)
(***************************************************************************)
EXTENDS Integers, Sequences, FiniteSets, SequencesExt

CONSTANTS
  Eol,
  Inputs,     \* the inputs that are considered: sequences of files, sequences of bytes
  Bounds,     \* the values of size_bound: -S, or default_sort_size
  LineSize,   \* sizeof (struct line)
  LineBytes,  \* the values of bytes_per_line: enough for the regions of the merge
  SIZE_MAX    \* the largest value of a size_t

ASSUME BufferAssumption ==
  /\ LineSize \in Nat \ {0} /\ Bounds \subseteq Nat \ {0} /\ SIZE_MAX \in Nat
  /\ LineBytes \subseteq Nat /\ \A b \in LineBytes : b >= LineSize
  /\ LET bytes == UNION {ToSet(f) : f \in UNION {ToSet(fs) : fs \in Inputs}}
     IN Inputs \subseteq Seq(Seq(bytes))

VARIABLES
  input,       \* the files
  bound,       \* size_bound
  line_bytes,  \* buf.line_bytes
  alloc,       \* buf.alloc; at first, the size that is asked for
  text,        \* the bytes in the buffer, buf.used of them
  lines,       \* the table: where each line starts, and how long it is
  left,        \* buf.left
  eof,         \* buf.eof
  rest,        \* what is still to be read of the open file
  files,       \* the files that are still to be opened
  bufferfuls,  \* what was handed over
  direct,      \* whether it went to the output, not to temporary files
  halved,      \* whether malloc failed at first
  pc

parameters == <<input, bound, line_bytes, halved>>
source == <<rest, files>>
result == <<bufferfuls, direct>>
buffer == <<alloc, text, lines, left, eof>>
vars == <<parameters, source, result, buffer, pc>>

\* Subtraction of size_t.
Minus(a, b) == (a - b) % (SIZE_MAX + 1)

\* The room the lines of regular files need at worst, within a bound.  Once the size is
\* the bound, that is what is returned.
sort_buffer_size(fs, most, lb) ==
  FoldLeft(LAMBDA size, f :
             LET worst_case == Len(f) * (lb + 1) + 1
             IN IF size = most \/ Minus(most, size) <= worst_case THEN most
                ELSE size + worst_case, lb + 2, fs)

Init ==
  /\ input \in Inputs /\ bound \in Bounds /\ line_bytes \in LineBytes
  /\ alloc = sort_buffer_size(input, bound, line_bytes)
  /\ text = <<>> /\ lines = <<>> /\ left = 0 /\ eof = FALSE
  /\ rest = <<>> /\ files = input
  /\ bufferfuls = <<>> /\ direct = FALSE /\ halved = FALSE
  /\ pc = "initbuf"

\* One round of initbuf, in which malloc succeeds or fails.
initbuf ==
  LET aligned == alloc + LineSize - (alloc % LineSize)
      half    == aligned \div 2
  IN /\ pc = "initbuf"
     /\ \/ alloc' = aligned /\ pc' = "open" /\ UNCHANGED halved
        \/ /\ alloc' = half /\ halved' = TRUE
           /\ pc' = IF half <= line_bytes + 1 THEN "died" ELSE "initbuf"
     /\ UNCHANGED <<input, bound, line_bytes, source, result, text, lines, left, eof>>

\* sort() opens the next file, or has read all of them.
Open ==
  /\ pc = "open" /\ files # <<>>
  /\ rest' = Head(files) /\ files' = Tail(files)
  /\ eof' = FALSE
  /\ pc' = "fillbuf"
  /\ UNCHANGED <<parameters, result, alloc, text, lines, left>>

NoMore == pc = "open" /\ files = <<>> /\ pc' = "done"
          /\ UNCHANGED <<parameters, source, result, buffer>>

-----------------------------------------------------------------------------
(* fillbuf *)

\* Where the first line starts that is not in the table.
line_start == IF lines = <<>> THEN 0 ELSE Last(lines).start + Last(lines).length

\* The bytes between the text and the room of the table.
avail == alloc - Len(text) - line_bytes * Len(lines)

\* The call: a file that has ended, or the move of what is left to the beginning.
Moved == SubSeq(text, Len(text) - left + 1, Len(text))
Fill ==
  /\ pc = "fillbuf"
  /\ IF eof THEN pc' = "open" /\ UNCHANGED <<text, lines>>
     ELSE /\ pc' = "read"
          /\ IF Len(text) # left THEN text' = Moved /\ lines' = <<>>
                                 ELSE UNCHANGED <<text, lines>>
  /\ UNCHANGED <<parameters, source, result, alloc, left, eof>>

\* So many bytes that there is room for their lines, and for an Eol that is added.
readsize == (avail - 1) \div (line_bytes + 1)

\* A set of places as a sequence, the first place first.
BySize(places) ==
  [k \in 1..Cardinality(places) |-> CHOOSE x \in places : Cardinality({y \in places : y <= x}) = k]

\* The lines that end in what is new of the bytes t.
NewLines(t) ==
  LET ends == BySize({k \in (Len(text) + 1)..Len(t) : t[k] = Eol})
      from(k) == IF k = 1 THEN line_start ELSE ends[k - 1]
  IN [k \in DOMAIN ends |-> [start |-> from(k), length |-> ends[k] - from(k)]]

\* Whether an Eol is added to the bytes t at the end of a file.
MustEnd_Empty(t) == Len(t) > 0 /\ Last(t) # Eol /\ lines = <<>>   \* mutant: only a first line
MustEnd(t) == line_start # Len(t) /\ Last(t) # Eol

\* fread and the search for lines.  A short count means the end of the file.
Read ==
  LET count == Min({readsize, Len(rest)})
      ends  == Len(rest) < readsize
      more  == text \o SubSeq(rest, 1, count)
      all   == IF ends /\ MustEnd(more) THEN Append(more, Eol) ELSE more
  IN /\ pc = "read" /\ line_bytes + 1 < avail
     /\ rest' = SubSeq(rest, count + 1, Len(rest))
     /\ eof' = ends
     /\ IF ends /\ more = <<>>
        THEN pc' = "open" /\ UNCHANGED <<text, lines>>
        ELSE /\ text' = all
             /\ lines' = lines \o NewLines(all)
             /\ pc' = IF ends THEN "filled" ELSE "read"
     /\ UNCHANGED <<parameters, result, files, alloc, left>>

\* x2nrealloc
Grown_Not == alloc \div LineSize   \* mutant: the table stays as it is
Grown == LET n == alloc \div LineSize IN n + n \div 2 + 1

\* No more is read: there are lines, or the line is too long for the buffer.
Left == Len(text) - line_start
Filled ==
  /\ pc = "filled" \/ (pc = "read" /\ line_bytes + 1 >= avail)
  /\ IF lines # <<>>
     THEN left' = Left /\ pc' = "lines" /\ UNCHANGED alloc
     ELSE alloc' = Grown * LineSize /\ pc' = "read" /\ UNCHANGED left
  /\ UNCHANGED <<parameters, source, result, text, lines, eof>>

-----------------------------------------------------------------------------
(* sort(), after fillbuf returned true *)

MayConcatenate == eof /\ files # <<>> /\ line_bytes + 1 < avail

Concatenate ==
  /\ pc = "lines" /\ MayConcatenate
  /\ left' = Len(text)
  /\ pc' = "open"
  /\ UNCHANGED <<parameters, source, result, alloc, text, lines, eof>>

\* The lines go to a temporary file, or to the output if they are all there are.
HandOver ==
  /\ pc = "lines" /\ ~MayConcatenate
  /\ bufferfuls' = Append(bufferfuls,
       [k \in DOMAIN lines |-> SubSeq(text, lines[k].start + 1, lines[k].start + lines[k].length)])
  /\ direct' = (eof /\ files = <<>> /\ bufferfuls = <<>> /\ left = 0)
  /\ pc' = IF direct' THEN "done" ELSE "fillbuf"
  /\ UNCHANGED <<parameters, source, buffer>>

Next == initbuf \/ Open \/ NoMore \/ Fill \/ Read \/ Filled \/ Concatenate \/ HandOver

\* There is one thread, and nothing it waits for.
Spec == Init /\ [][Next]_vars /\ WF_vars(Next)

-----------------------------------------------------------------------------
(* Properties *)

\* The lines of the bytes s; the last one need not have an Eol.
LinesOf(s) ==
  LET t    == IF s # <<>> /\ Last(s) # Eol THEN Append(s, Eol) ELSE s
      ends == BySize({k \in DOMAIN t : t[k] = Eol})
  IN [k \in DOMAIN ends |-> SubSeq(t, (IF k = 1 THEN 1 ELSE ends[k - 1] + 1), ends[k])]

AllLinesOf(fs) == FlattenSeq([k \in DOMAIN fs |-> LinesOf(fs[k])])

\* What was read and not handed over.
Kept == CASE pc \in {"read", "filled", "lines"} -> text
          [] pc \in {"open", "fillbuf"} -> Moved
          [] OTHER -> <<>>

Sized == ~halved /\ sort_buffer_size(input, bound, line_bytes) # bound

\* Every line of the input is handed over once, in order, whole and with an Eol,
\* wherever reads end, the buffer grows and files are concatenated; the last line of
\* a file is not joined to the first of the next.
\* And the size that sort_buffer_size computes is enough: if it is not cut by the bound,
\* and is allocated, everything is read into one buffer, which does not grow, and
\* the end of the last file is seen before the buffer is handed over, so that no
\* temporary file is written.
\* And the bytes, and the Eol that fillbuf supplies, never reach the table of lines with
\* the room that is reserved for merging them.
EachLineOnce ==
  /\ FlattenSeq(bufferfuls) \o LinesOf(Kept \o rest) \o AllLinesOf(files) = AllLinesOf(input)
  /\ Sized => /\ pc = "done" => direct \/ AllLinesOf(input) = <<>>
              /\ bufferfuls # <<>> => direct
  /\ pc \notin {"initbuf", "died"} => avail >= 0

\* All of the input is read in the end; the buffer grows until a line fits.
Terminates == <>(pc \in {"done", "died"})
=============================================================================

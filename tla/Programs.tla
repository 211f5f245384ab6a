-------------------------------- MODULE Programs --------------------------------
(***************************************************************************)
(* The jobs of the programs of GNU coreutils, and what is expected of      *)
(* their answers.                                                          *)
(***************************************************************************)
EXTENDS Objdumps

CONSTANTS
  blanks,     \* the characters that separate fields
  line_end,   \* the character at the end of head's lines
  Garbage,    \* what memory holds that was never written
  BUFSIZ, THRESHOLD, SIZE_MAX,
  UINTMAX_MAX, COUNT_MAX,   \* UINTMAX_MAX of du and of uniq
  MAXWORDS, MAXCHARS, max_width, goal_width,
  ENC_BLOCKSIZE, DEC_BLOCKSIZE, Eol, Pad

ASSUME HeadAssumption == BUFSIZ > 0 /\ THRESHOLD >= 2 * BUFSIZ
ASSUME BasencAssumption == ENC_BLOCKSIZE > 0 /\ DEC_BLOCKSIZE > 0 /\ Eol > 15 /\ Pad > 15

TAB_DEFAULT == -1

MergeOf  == INSTANCE MergeFiles
KeyOf    == INSTANCE Keys
HeadOf   == INSTANCE HeadElide WITH READ_BUFSIZE <- BUFSIZ
UniqOf   == INSTANCE Uniq WITH Blanks <- blanks, UINTMAX_MAX <- COUNT_MAX
CommOf   == INSTANCE Comm
FmtOf    == INSTANCE Fmt WITH DEF_INDENT <- 3
DuOf     == INSTANCE Du
BasencOf == INSTANCE Basenc
WcOf     == INSTANCE Wc WITH BUFFER_SIZE <- 4, page_size <- 4
FoldOf   == INSTANCE Fold WITH TAB_WIDTH <- 4

-----------------------------------------------------------------------------
(* sort: the lines one thread sorts.  The table has a slot that belongs to *)
(* others before and behind the lines and the scratch space.               *)

Scratch == IF job.to_temp THEN Len(job.keys) ELSE Len(job.keys) \div 2
Table ==
  LET n == Len(job.keys)
      place(p) == Scratch + 2 + n - p
  IN [p \in 0..(Scratch + n + 2) |->
        IF place(p) \in 1..n THEN [key |-> job.keys[place(p)], id |-> place(p)]
        ELSE [key |-> 0, id |-> 0 - p]]

SortOf == INSTANCE SequentialSort WITH Addresses <- DOMAIN Table

SortLines ==
  /\ Of("sequential_sort") /\ answer = None
  /\ answer' = SortOf!sequential_sort[[memory |-> Table, lines |-> Scratch + 2 + Len(job.keys),
                                       nlines |-> Len(job.keys), temp |-> Scratch + 1,
                                       to_temp |-> job.to_temp]]
  /\ UNCHANGED job

\* sequential_sort leaves the lines in order, equal ones as they were, where its caller wants
\* them, and stores to nothing but the lines and the scratch space it was given (half a line
\* per line, or one if the result is to be there).
SortedInPlace ==
  Of("sequential_sort") /\ answer # None =>
    LET n == Len(job.keys)
        dest == IF job.to_temp THEN Scratch + 1 ELSE Scratch + 2 + n
        sorted == InOrder({[key |-> job.keys[i], id |-> i] : i \in 1..n})
    IN /\ \A k \in 1..n : answer[dest - k] = sorted[k]
       /\ \A p \in {0, Scratch + 1, Scratch + n + 2} : answer[p] = Table[p]

-----------------------------------------------------------------------------
(* sort: a merge of files, and -c.  The id of a line grows from file to    *)
(* file and from line to line.                                             *)

MergeFilesOnce ==
  /\ Of("mergefps") /\ answer = None
  /\ answer' = MergeOf!mergefps(job.inputs, job.ntemps, job.unique)
  /\ UNCHANGED job

CheckFile ==
  /\ Of("check") /\ answer = None
  /\ answer' = <<MergeOf!check(job.file, job.unique)>>
  /\ UNCHANGED job

\* However the files' lines come in bufferfuls and whichever file ends first: mergefps writes
\* every line, in order, equal lines in the order of the files (under -u only the first), and
\* removes each temporary file once and no other file.  And -c reports the first line that is
\* less than (with -u, not greater than) the one before it, whatever bufferful either is in.
MergedStably ==
  /\ Of("mergefps") /\ answer # None =>
       LET all == UNION {ToSet(FlattenSeq(job.inputs[f])) : f \in DOMAIN job.inputs}
       IN /\ answer.out = InOrder(IF job.unique THEN FirstOfEquals(all) ELSE all)
          /\ Len(answer.zapped) = job.ntemps /\ ToSet(answer.zapped) = 1..job.ntemps
          /\ answer.out # <<>> => MergeOf!check(<<answer.out>>, job.unique) = 0
  /\ Of("check") /\ answer # None =>
       LET lines == FlattenSeq(job.file)
           bad == {i \in 2..Len(lines) : IF job.unique THEN lines[i - 1].key >= lines[i].key
                                         ELSE lines[i - 1].key > lines[i].key}
       IN answer[1] = IF bad = {} THEN 0 ELSE Smallest(bad)

-----------------------------------------------------------------------------
(* sort: -k                                                                *)

Keylist == KeyOf!inherited([k \in DOMAIN job.defs |-> KeyOf!key_of(job.defs[k], job.options[k])],
                           job.global)

CompareLines ==
  /\ Of("compare") /\ answer = None
  /\ answer' = <<KeyOf!compare(job.a, job.b,
                               [keylist |-> Keylist, tab |-> job.tab, unique |-> job.unique,
                                stable |-> FALSE, reverse |-> job.global.reverse])>>
  /\ UNCHANGED job

\* Where the fields of a line start: at its start and behind each tab or, without -t, before
\* each blank that follows a character that is none.
FieldStarts(line) ==
  {0} \cup {p \in 1..Len(line) :
              IF job.tab # TAB_DEFAULT THEN line[p] = job.tab
              ELSE p < Len(line) /\ line[p] \notin blanks /\ line[p + 1] \in blanks}
FieldStart(line, f) ==
  LET starts == FieldStarts(line)
  IN IF f > Cardinality(starts) THEN Len(line)
     ELSE CHOOSE p \in starts : Cardinality({q \in starts : q < p}) = f - 1
FieldEnd(line, f) ==
  IF f >= Cardinality(FieldStarts(line)) THEN Len(line)
  ELSE FieldStart(line, f + 1) - (IF job.tab # TAB_DEFAULT THEN 1 ELSE 0)

\* The text that F.C,F.C selects.  With b, characters count from the first that is no blank.
Selected(line, def, options) ==
  LET from(p, b) == IF b THEN Smallest({q \in p..Len(line) : q = Len(line) \/ line[q + 1] \notin blanks})
                    ELSE p
      character(f, c, b) == from(FieldStart(line, f), b) + c
      start == character(def.sword, IF def.schar = 0 THEN 0 ELSE def.schar - 1, options.skipsblanks)
      end == IF def.eword = 0 THEN Len(line)
             ELSE IF def.echar = 0 THEN FieldEnd(line, def.eword)
             ELSE character(def.eword, def.echar, options.skipeblanks)
      text == SubSeq(line, start + 1, Smallest({end, Len(line)}))
      kept == SelectSeq(text, LAMBDA c : c \notin options.ignore)
  IN [k \in DOMAIN kept |-> IF options.translate = <<>> THEN kept[k] ELSE options.translate[kept[k]]]

\* The order of texts: by the first character that differs, or the shorter one first.
TextLess(s, t) ==
  \E k \in 1..Len(t) : /\ \A i \in 1..(k - 1) : i \in DOMAIN s /\ s[i] = t[i]
                       /\ k > Len(s) \/ s[k] < t[k]

\* What -k F.C,F.C says, with fields that are missing, empty or cut by the other end, blanks
\* that are skipped, characters that are ignored or folded, and options that a key without
\* its own takes from the command: the first key in which two lines differ decides, then (but
\* with -u not) the whole line, in reverse with -r.
KeysOrder ==
  Of("compare") /\ answer # None =>
    LET plain(o) == o.ignore = {} /\ o.translate = <<>> /\ ~ o.skipsblanks /\ ~ o.skipeblanks
        options(k) == IF plain(job.options[k]) /\ ~ job.options[k].reverse
                      THEN job.global ELSE job.options[k]
        whole == [sword |-> 1, schar |-> 0, eword |-> 0, echar |-> 0]
        lastResort == ~ (job.unique /\ (job.defs # <<>> \/ ~ plain(job.global)))
        \* the texts that decide, in their order: of a and b, and whether they are reversed
        two(def, o) == <<Selected(job.a, def, o), Selected(job.b, def, o), o.reverse>>
        defs == IF job.defs = <<>> THEN <<whole>> ELSE job.defs
        texts == [k \in DOMAIN defs |-> two(defs[k], IF job.defs = <<>> THEN job.global ELSE options(k))]
                 \o (IF lastResort THEN << <<job.a, job.b, job.global.reverse>> >> ELSE <<>>)
        decides(text) == IF TextLess(text[1], text[2]) # text[3] THEN answer[1] < 0 ELSE answer[1] > 0
        first(differing) == IF differing = <<>> THEN answer[1] = 0 ELSE decides(differing[1])
    IN first(SelectSeq(texts, LAMBDA text : text[1] # text[2]))

-----------------------------------------------------------------------------
(* head                                                                    *)

PrintHead ==
  /\ Of("head") /\ answer = None
  /\ answer' = <<HeadOf!head(job.input, job.n, job.count_lines, job.elide_from_end)>>
  /\ UNCHANGED job

\* The first n bytes or lines of what is ahead in the input, or all but the last n.
Ahead == SubSeq(FlattenSeq(job.input.packets), job.input.start_pos + 1,
                Len(FlattenSeq(job.input.packets)))
HeadOfInput ==
  LET ends == {k \in DOMAIN Ahead : ~ job.count_lines \/ Ahead[k] = line_end \/ k = Len(Ahead)}
      n == Cardinality(ends)
      kept == IF ~ job.elide_from_end THEN Smallest({n, job.n})
              ELSE Largest({0, n - job.n})
      last == {k \in ends : Cardinality({e \in ends : e <= k}) = kept}
  IN SubSeq(Ahead, 1, IF last = {} THEN 0 ELSE CHOOSE k \in last : TRUE)

\* The input ends in the last of the buffers of elide_tail_bytes_pipe, although it is shorter
\* than what is to be elided.
ShortOfElided ==
  /\ job.elide_from_end /\ ~ job.count_lines /\ job.input.kind # "large" /\ job.n > THRESHOLD
  /\ Len(Ahead) < job.n /\ Len(Ahead) >= (job.n \div BUFSIZ) * BUFSIZ

\* However the input is cut into packets and wherever in the buffers it ends, head prints what
\* it is asked to, and never memory it has not read.  (Except for ShortOfElided.)
HeadKeeps ==
  Of("head") /\ answer # None /\ ~ ShortOfElided => answer[1] = HeadOfInput

\* "This happens when n_elide < file_size < n_elide_round", head.c:426: where the input ends
\* in the last buffer, it is at least as long as what is to be elided, so that what head
\* prints is a beginning of it.
LastBufferIsEnough == Of("head") /\ answer # None => IsPrefix(answer[1], Ahead)

-----------------------------------------------------------------------------
(* uniq                                                                    *)

FilterLines ==
  /\ Of("uniq") /\ answer = None
  /\ answer' = <<UniqOf!check_file(job.lines, job.o)>>
  /\ UNCHANGED job

\* What is compared of a line: "a field is a run of blanks, then non-blank characters.
\* Fields are skipped before chars."
Compared(line) ==
  LET ends == {p \in 1..Len(line) : line[p] \notin blanks /\ (p = Len(line) \/ line[p + 1] \in blanks)}
      behind == {p \in ends : Cardinality({q \in ends : q <= p}) = job.o.skip_fields}
      from == (IF job.o.skip_fields = 0 THEN 0 ELSE IF behind = {} THEN Len(line)
               ELSE CHOOSE p \in behind : TRUE) + job.o.skip_chars
  IN SubSeq(line, from + 1, Smallest({Len(line), from + job.o.check_chars}))

\* uniq's output is what its options ask of each group of lines that compare equal, up to the
\* last group and its end: the group's first line, with -c its size (or the greatest count
\* there is), all its lines with -D or --group, and the empty lines that separate groups.
GroupsOnce ==
  Of("uniq") /\ answer # None =>
    LET n == Len(job.lines)
        alike(i, j) == Compared(job.lines[i]) = Compared(job.lines[j])
        groups == Ranked(Runs(n, alike), LAMBDA a, b : a[1] < b[1])
        all(g) == [k \in 1..(g[2] - g[1] + 1) |-> <<0, job.lines[g[1] + k - 1]>>]
        size(g) == Smallest({g[2] - g[1] + 1, COUNT_MAX})
        first(g) == << <<IF job.o.count THEN size(g) ELSE 0, job.lines[g[1]]>> >>
        shown == SelectSeq(groups, LAMBDA g : IF g[1] = g[2] THEN job.o.output_unique
                                              ELSE job.o.output_first_repeated)
        text(g) == IF job.o.grouping # "none" \/ (job.o.output_later_repeated /\ g[1] < g[2])
                   THEN all(g) ELSE first(g)
        before(k) == \/ job.o.grouping \in {"prepend", "both"} \/ job.o.delimit_groups = "prepend"
                     \/ k > 1 /\ (job.o.grouping \in {"append", "separate"} \/ job.o.delimit_groups = "separate")
        behind == shown # <<>> /\ job.o.grouping \in {"append", "both"}
    IN answer[1] = FlattenSeq([k \in DOMAIN shown |->
                     (IF before(k) THEN << <<>> >> ELSE <<>>) \o text(shown[k])])
                   \o (IF behind THEN << <<>> >> ELSE <<>>)

-----------------------------------------------------------------------------
(* comm                                                                    *)

CompareFiles ==
  /\ Of("comm") /\ answer = None
  /\ answer' = CommOf!compare_files(job.files, job.o)
  /\ UNCHANGED job

Times(line, lines) == Cardinality({k \in DOMAIN lines : lines[k] = line})
Sorted(lines) == \A k \in 2..Len(lines) : lines[k - 1] <= lines[k]

\* comm never complains of files that are in order, and names no file that is.  If it does not
\* complain, each line was paired as often as both files have it and is in the column where it
\* belongs, also with files that are not in order; and --check-order complains of every one.
PairsRight ==
  Of("comm") /\ answer # None =>
    LET one == job.files[1]
        two == job.files[2]
        paired(line) == Smallest({Times(line, one), Times(line, two)})
        times(line) == <<Times(line, one) - paired(line), Times(line, two) - paired(line), paired(line)>>
        tabs(class) == Cardinality({c \in job.o.columns : c < class})
    IN /\ \A i \in answer.warned : ~ Sorted(job.files[i])
       /\ job.o.check_input_order = "enabled" /\ answer.warned = {} => Sorted(one) /\ Sorted(two)
       /\ answer.warned = {} /\ ((Sorted(one) /\ Sorted(two)) \/ job.o.check_input_order # "disabled") =>
            /\ \A line \in ToSet(one) \cup ToSet(two), class \in job.o.columns :
                 Times(<<class, tabs(class), line>>, answer.out) = times(line)[class]
            /\ \A k \in DOMAIN answer.out : answer.out[k][1] \in job.o.columns
            /\ answer.total[1] + answer.total[3] = Len(one)
            /\ answer.total[2] + answer.total[3] = Len(two)

-----------------------------------------------------------------------------
(* fmt                                                                     *)

FormatLines ==
  /\ Of("fmt") /\ answer = None
  /\ answer' = <<FmtOf!fmt(job.lines, job.o)>>
  /\ UNCHANGED job

IsText(c) == c[1] > 0
Width(tokens) == FoldLeft(LAMBDA sum, c : sum + (IF IsText(c) THEN 1 ELSE c[2]), 0, tokens)

FmtBreaks(out) == {k \in DOMAIN out : out[k] = FmtOf!NewLine}
\* The line that a break ends.
LineBefore(out, k) ==
  LET before == {b \in FmtBreaks(out) : b < k}
  IN SubSeq(out, IF before = {} THEN 1 ELSE Largest(before) + 1, k - 1)

\* A line is too wide only if it is a single word ("The only output lines longer than this will
\* each comprise a single word", fmt.c:188).  Said of paragraphs where a word that does not fit in
\* the array of characters is the last one.
LongLinesOneWord ==
  Of("fmt") /\ answer # None =>
    \A k \in FmtBreaks(answer[1]) :
      LET line == LineBefore(answer[1], k)
      IN Width(line) < max_width \/ \A c, d \in ToSet(line) : IsText(c) /\ IsText(d) => c[1] = d[1]

\* However often a paragraph fills the arrays of words and characters and is flushed in the
\* middle of a word: each word is written once, in order and in one piece, with a space or a
\* new line between it and the next, and LongLinesOneWord.
WordsKept ==
  Of("fmt") /\ answer # None =>
    LET out == answer[1]
        words == FlattenSeq([l \in DOMAIN job.lines |-> job.lines[l].words])
        text == FlattenSeq([w \in DOMAIN words |-> words[w].chars])
    IN /\ SelectSeq(out, IsText) = text
       /\ \A k \in 2..Len(out) : IsText(out[k - 1]) /\ IsText(out[k]) => out[k][1] = out[k - 1][1]
       /\ \A k \in 2..Len(out) : ~ IsText(out[k]) /\ IsText(out[k - 1]) =>
            \A j \in (k + 1)..Len(out) : out[j][1] # out[k - 1][1]
       /\ out = <<>> \/ Last(out) = FmtOf!NewLine
       /\ LongLinesOneWord

-----------------------------------------------------------------------------
(* du                                                                      *)

AddUp ==
  /\ Of("du") /\ answer = None
  /\ answer' = <<DuOf!du(job.h, job.o)>>
  /\ UNCHANGED job

\* The files that a file is in, with itself, and its operand.
Above(k) == {j \in 1..k : k = j \/ k \in DuOf!Below(job.h, j)}
\* fts reaches a file unless it fails before, in the same operand, or somewhere above it.
Reached(k) ==
  /\ \A j \in Above(k) : job.h[j].fault \notin {"excluded", "STOP"}
  /\ \A j \in Above(k) \ {k} : job.h[j].fault \notin {"DNR", "NS"}
  /\ ~ \E j \in 1..(k - 1) : job.h[j].fault = "STOP" /\ Smallest(Above(j)) = Smallest(Above(k))
\* A hard link counts where du meets it first; so does a file of two operands.
Twice(k) ==
  \E j \in 1..(k - 1) : /\ ~ job.o.count_all /\ Reached(j) /\ job.h[j].fault # "NS"
                        /\ job.h[j].ino = job.h[k].ino
                        /\ job.o.hash_all \/ (~ job.h[k].dir /\ job.h[k].nlink > 1)
Seen(k) == Reached(k) /\ job.h[k].fault # "NS" /\ \A j \in Above(k) : ~ Twice(j)
\* A directory is left unless fts fails in it.
LeftOf(k) ==
  \/ ~ job.h[k].dir \/ job.h[k].fault = "DNR"
  \/ ~ \E j \in DuOf!Below(job.h, k) : job.h[j].fault = "STOP" /\ \A i \in Above(j) \ {j} : Seen(i)
Counts(k) == Seen(k) /\ LeftOf(k)
\* What the size of a file or directory is made of.  With -S, not what its directories hold.
Within(k) ==
  {j \in {k} \cup DuOf!Below(job.h, k) :
     /\ Counts(j)
     /\ j = k \/ ~ job.o.separate_dirs \/ (~ job.h[j].dir /\ job.h[j].level = job.h[k].level + 1)}
Total(files) ==
  LET sum == FoldLeft(LAMBDA n, k : n + DuOf!SizeOf(job.h[k].ino), 0, SetToSeq(files))
  IN [size |-> Smallest({sum, UINTMAX_MAX}), inodes |-> Cardinality(files)]

\* Over a hierarchy whose levels fall by more than one, with links, files that vanish or are
\* excluded, and an operand that ends in the middle: du prints once each directory it has left
\* (and each file with -a) no deeper than --max-depth, with the sum of what it holds, each
\* file counted once; the grand total has every file; and no assertion of process_file fails.
SizesAddUp ==
  Of("du") /\ answer # None =>
    LET shown == {k \in DOMAIN job.h : /\ Counts(k)
                                       /\ \/ (job.h[k].dir \/ job.o.all) /\ job.h[k].level <= job.o.max_depth
                                          \/ job.h[k].level = 0}
    IN /\ ~ answer[1].failed
       /\ Len(answer[1].printed) = Cardinality(shown)
       /\ ToSet(answer[1].printed) = {<<k, Total(Within(k))>> : k \in shown}
       /\ answer[1].tot_dui = Total({k \in DOMAIN job.h : Counts(k)})

-----------------------------------------------------------------------------
(* basenc: text is encoded, loses its last characters, gets one that is no *)
(* digit behind every few characters, and is decoded.                      *)

Encoded == BasencOf!do_encode(job.base, job.bytes, job.wrap)
Digits(text) == SelectSeq(text, LAMBDA c : BasencOf!isbase(job.base, c))
Noisy(text) ==
  IF job.every = 0 THEN text
  ELSE FlattenSeq([k \in DOMAIN text |-> IF k % job.every = 0 THEN <<text[k], Garbage>> ELSE <<text[k]>>])

EncodeAndDecode ==
  /\ Of("basenc") /\ answer = None
  /\ answer' = LET text == SubSeq(Encoded, 1, Len(Encoded) - job.cut)
               IN <<Encoded, text, BasencOf!do_decode(job.base, Noisy(text), job.ignore_garbage)>>
  /\ UNCHANGED job

\* What do_encode writes are lines of exactly wrap_column characters and a last one of no more
\* and not empty; do_decode gives the bytes back, whatever buffers the text falls into, new
\* lines and ignored characters included; it says so if the text ends within a byte or has
\* another character, after the bytes before that; and its buffer is large enough.
DecodesBack ==
  Of("basenc") /\ answer # None =>
    LET encoded == answer[1]
        decoded == answer[3]
        eols == {k \in DOMAIN encoded : encoded[k] = Eol}
        perByte == BasencOf!base_length(job.base, 1)
        whole == Len(Digits(answer[2])) \div perByte
        bad == job.every \in 1..Len(answer[2]) /\ ~ job.ignore_garbage
    IN /\ IF job.wrap = 0 THEN eols = {}
          ELSE /\ \A k \in DOMAIN encoded : k % (job.wrap + 1) = 0 => k \in eols
               /\ \A k \in eols : k % (job.wrap + 1) = 0 \/ k = Len(encoded)
               /\ encoded # <<>> => Last(encoded) = Eol /\ Head(encoded) # Eol
       /\ Len(Digits(encoded)) = perByte * Len(job.bytes)
       /\ IsPrefix(decoded.out, job.bytes)
       /\ ~ bad => Len(decoded.out) = whole
       /\ decoded.ok <=> ~ bad /\ Len(Digits(answer[2])) = whole * perByte
       /\ bad => Len(decoded.out) = Len(Digits(SubSeq(answer[2], 1, job.every))) \div perByte
       /\ decoded.most <= DEC_BLOCKSIZE

-----------------------------------------------------------------------------
(* wc                                                                      *)

CountWords ==
  /\ Of("wc") /\ answer = None
  /\ answer' = WcOf!main(job)
  /\ UNCHANGED job

\* Where the characters of a text begin, those that are complete and valid.
Characters(text) ==
  {k \in DOMAIN text : LET n == IF job.mb THEN WcOf!LengthOf(text[k]) ELSE 1
                       IN /\ n > 0 /\ k + n - 1 <= Len(text)
                          /\ \A i \in (k + 1)..(k + n - 1) : text[i] \in 128..191}
EndsLine(c) == c \in {10, 12, 13}
CountsOf(text) ==
  LET at == Characters(text)
      visible == {k \in at : WcOf!Printing(text[k], job.mb)}
      spaces == {k \in at : EndsLine(text[k]) \/ text[k] \in {9, 11} \/ (k \in visible /\ WcOf!Space(text[k]))}
      inWords == visible \ spaces
      beginsWord(k) == \A j \in inWords : j < k => \E s \in spaces : j < s /\ s < k
      width(stretch) ==
        FoldLeft(LAMBDA n, k : IF text[k] = 9 THEN (n \div 8 + 1) * 8
                               ELSE IF k \in visible THEN n + WcOf!Columns(text[k]) ELSE n, 0, stretch)
      upTo(k) == SelectSeq([i \in 1..k |-> i],
                           LAMBDA i : i \in at /\ \A j \in at \cap (i..k) : ~ EndsLine(text[j]))
  IN [lines |-> Cardinality({k \in at : text[k] = 10}), words |-> Cardinality({k \in inWords : beginsWord(k)}),
      chars |-> Cardinality(at), bytes |-> Len(text),
      linelength |-> Largest({0} \cup {width(upTo(k)) : k \in at})]

\* wc -c of a file that it finds in the middle and whose size is a multiple of a page.
SeeksFromMiddle ==
  \E file \in ToSet(job.files) : file.start_pos > 0 /\ job.print = {"bytes"} /\ WcOf!Seeks(file, file)

\* However reads cut the files, also within a character, whichever loop counts and wherever
\* the sizes that fstat knows are used instead of reading: each count that is asked for is
\* what the whole text has, for each file that can be read, and for all of them together.
\* (Except for SeeksFromMiddle.)
WordsCounted ==
  Of("wc") /\ answer # None /\ ~ SeeksFromMiddle =>
    LET found == SelectSeq(job.files, LAMBDA file : file.name = "file")
        counts == [k \in DOMAIN found |-> CountsOf(FlattenSeq(found[k].packets))]
        total(c) == IF c = "linelength" THEN Largest({0} \cup {counts[k][c] : k \in DOMAIN counts})
                    ELSE FoldLeft(LAMBDA n, r : n + r[c], 0, counts)
        rows == [k \in DOMAIN counts |-> [c \in job.print |-> counts[k][c]]]
    IN /\ answer.rows = rows \o (IF Len(job.files) > 1 THEN <<[c \in job.print |-> total(c)]>> ELSE <<>>)
       /\ answer.ok <=> \A file \in ToSet(job.files) : file.name = "file" /\ ~ file.fails

-----------------------------------------------------------------------------
(* fold                                                                    *)

FoldLines ==
  /\ Of("fold") /\ answer = None
  /\ answer' = FoldOf!main(job)
  /\ UNCHANGED job

\* The places of a text's new lines, as numbers of other characters before them.
BreaksAt(text, n) ==
  Cardinality({k \in DOMAIN text : /\ text[k] = FoldOf!Newline
                                   /\ Cardinality({i \in 1..k : text[i] # FoldOf!Newline}) = n})

\* What stands in the text behind n characters other than new lines, up to the next new line.
RestOfLine(text, n) ==
  LET plain(k) == Cardinality({i \in 1..k : text[i] # FoldOf!Newline})
      first == Smallest({k \in DOMAIN text : plain(k) > n})
      rest == {k \in first..Len(text) : \A i \in first..k : text[i] # FoldOf!Newline}
  IN SubSeq(text, first, Largest(rest))

\* fold loses and adds nothing but new lines.  Only its first character takes a line beyond
\* the width; no line is broken as long as what comes next (with -s, up to a blank) fits; and
\* with -s it is broken after a blank if it has one, the columns of what is moved to the next
\* line being counted anew.
LinesFolded ==
  Of("fold") /\ answer # None =>
    LET text == job.files[1].text
        out == answer.out
        plain(s) == SelectSeq(s, LAMBDA c : c # FoldOf!Newline)
        column(s) == FoldLeft(LAMBDA n, c : FoldOf!adjust_column(n, c, job.count_bytes), 0, s)
        wide(s) == column(s) > job.width
        breaks == {k \in DOMAIN out : out[k] = FoldOf!Newline}
        starts == {1} \cup {k + 1 : k \in breaks}
        ends == breaks \cup {Len(out) + 1}
        end(k) == Smallest({e \in ends : e >= k})
        line(k) == SubSeq(out, k, end(k) - 1)
        \* a break that may be the text's own is not looked at
        added == {k \in starts : /\ end(k) < Len(out)
                                 /\ BreaksAt(text, Len(plain(SubSeq(out, 1, end(k))))) = 0}
    IN /\ plain(out) = plain(text)
       /\ \A n \in 0..Len(text) : BreaksAt(text, n) <= BreaksAt(out, n)
       /\ \A k \in starts, n \in 2..Len(out) : n <= Len(line(k)) => ~ wide(SubSeq(line(k), 1, n))
       /\ \A k \in added :
            LET next == RestOfLine(text, Len(plain(SubSeq(out, 1, end(k)))))
                blank == {j \in DOMAIN next : FoldOf!Blank(next[j])}
            IN /\ \E n \in DOMAIN next : /\ wide(line(k) \o SubSeq(next, 1, n))
                                         /\ n = 1 \/ (job.break_spaces /\ \A j \in blank : n <= j)
               /\ job.break_spaces /\ (\E j \in DOMAIN line(k) : FoldOf!Blank(line(k)[j])) =>
                    FoldOf!Blank(Last(line(k)))

-----------------------------------------------------------------------------
Next == \/ SortLines \/ MergeFilesOnce \/ CheckFile \/ CompareLines
        \/ PrintHead \/ FilterLines \/ CompareFiles \/ FormatLines \/ AddUp \/ EncodeAndDecode
        \/ CountWords \/ FoldLines \/ ShowObjects \/ ListVersions \/ NameSymbols
        \/ ListNotes \/ DumpSection \/ CountSymbols \/ ListGroups \/ ApplyRelocations \/ Disassemble
        \/ ListRelocations

Spec == Init /\ [][Next]_vars
=============================================================================

------------------------------- MODULE Fmt -------------------------------
(***************************************************************************)
(* fmt.c: paragraphs are read into a buffer of MAXCHARS characters and an  *)
(* array of MAXWORDS words, from which flush_paragraph writes some lines   *)
(* whenever they are full.                                                 *)
(*                                                                         *)
(* An input is a sequence of lines, each with its indent and its words; a  *)
(* word has characters, the space behind it, and what check_punctuation    *)
(* finds out.  Output is a sequence of characters, of spaces <<0, n>> and  *)
(* of NewLine.  Left out: prefixes, and tabs.                              *)
(***************************************************************************)
EXTENDS Integers, Sequences, FiniteSets, SequencesExt

CONSTANTS MAXWORDS, MAXCHARS, DEF_INDENT, max_width, goal_width

NewLine == <<0, 0>>
Space(n) == IF n > 0 THEN << <<0, n>> >> ELSE <<>>

(* A paragraph: the characters in parabuf, the words that are complete, of *)
(* which each has its length, the indents, and what was written.           *)

SQR(n) == n * n
SHORT_COST(n) == SQR(n * 10)
RAGGED_COST(n) == SHORT_COST(n) \div 2

base_cost(words, this) ==
  LET w == words[this]
      before == IF this = 1 THEN 0
                ELSE IF words[this - 1].period
                THEN IF words[this - 1].final THEN 0 - SQR(50) ELSE SQR(600)
                ELSE IF words[this - 1].punct THEN 0 - SQR(40)
                ELSE IF this > 2 /\ words[this - 2].final
                THEN SQR(200) \div (words[this - 1].length + 2) ELSE 0
  IN SQR(70) + before + (IF w.paren THEN 0 - SQR(40)
                         ELSE IF w.final THEN SQR(150) \div (w.length + 2) ELSE 0)

\* best[s] is the break, the line length and the cost of the best way to format from s on.
line_cost(words, best, next, len) ==
  IF next > Len(words) THEN 0
  ELSE SHORT_COST(goal_width - len)
       + (IF best[next].next_break <= Len(words) THEN RAGGED_COST(len - best[next].line_length) ELSE 0)

\* From the last word back to the first: the cheapest of the lines that can start with a word.
\* The earlier of two equal breaks is taken.
fmt_paragraph(p) ==
  LET words == p.words
      n == Len(words)
      RECURSIVE Suffix(_, _)
      Suffix(start, best) ==
        IF start = 0 THEN best
        ELSE LET len[w \in (start + 1)..(n + 1)] ==
                   IF w = start + 1
                   THEN (IF start = 1 THEN p.first_indent ELSE p.other_indent) + words[start].length
                   ELSE len[w - 1] + words[w - 2].space + words[w - 1].length
                 breaks == {w \in DOMAIN len : w = start + 1 \/ len[w] < max_width}
                 cost(w) == line_cost(words, best, w, len[w]) + best[w].cost
                            + (IF start = 1 /\ p.last_line_length > 0
                               THEN RAGGED_COST(len[w] - p.last_line_length) ELSE 0)
                 way(w) == [next_break |-> w, line_length |-> len[w],
                            cost |-> cost(w) + base_cost(words, start)]
             IN Suffix(start - 1, [best EXCEPT ![start] =
                  way(CHOOSE w \in breaks : \A v \in breaks :
                        cost(w) < cost(v) \/ (cost(w) = cost(v) /\ w <= v))])
  IN Suffix(n, [s \in 1..(n + 1) |-> [next_break |-> n + 1, line_length |-> 0, cost |-> 0]])

\* Where the text of a word starts in parabuf.
TextOf(words, w) == FoldLeft(LAMBDA sum, v : sum + v.length, 0, SubSeq(words, 1, w - 1))

put_line(p, w, next, indent) ==
  LET Put(v) == SubSeq(p.text, TextOf(p.words, v) + 1, TextOf(p.words, v) + p.words[v].length)
                  \o (IF v = next - 1 THEN <<NewLine>> ELSE Space(p.words[v].space))
      line == [v \in 1..(next - w) |-> Put(w + v - 1)]
  IN Space(indent) \o FlattenSeq(line)

RECURSIVE put_lines(_, _, _, _)
put_lines(p, best, w, finish) ==
  IF w = finish THEN p
  ELSE put_lines([p EXCEPT !.out = @ \o put_line(p, w, best[w].next_break,
                                     IF w = 1 THEN p.first_indent ELSE p.other_indent),
                           !.last_line_length = best[w].line_length],
                 best, best[w].next_break, finish)

\* The words from split_point on are moved down, and with them an incomplete one.
MovedDown_TextStays(p, split_point) ==   \* mutant: the characters are not moved
  [p EXCEPT !.words = SubSeq(@, split_point, Len(@))]
MovedDown(p, split_point) ==
  [p EXCEPT !.text = SubSeq(@, TextOf(p.words, split_point) + 1, Len(@)),
            !.words = SubSeq(@, split_point, Len(@))]

\* The cheapest of the breaks but the last ones, which have LINE_CREDIT against them.
Flushed(p, best) ==
  LET n == Len(p.words)
      cost(w) == best[w].cost - best[best[w].next_break].cost
      RECURSIVE Split(_, _, _)
      Split(w, split_point, best_break) ==
        IF w > n THEN split_point
        ELSE IF best_break = <<>> \/ (best_break # <<>> /\ cost(w) < best_break[1])
        THEN Split(best[w].next_break, w, <<cost(w) + SQR(3)>>)
        ELSE Split(best[w].next_break, split_point, <<best_break[1] + SQR(3)>>)
      written(split_point) == MovedDown(put_lines(p, best, 1, split_point), split_point)
  IN written(Split(best[1].next_break, n + 1, <<>>))

flush_paragraph(p) ==
  IF p.words = <<>> THEN [p EXCEPT !.out = @ \o p.text, !.text = <<>>]
  ELSE Flushed(p, fmt_paragraph(p))

set_other_indent(p, same_paragraph, in_column, mode) ==
  [p EXCEPT !.other_indent =
     IF mode = "crown" THEN IF same_paragraph THEN in_column ELSE p.first_indent
     ELSE IF mode = "tagged"
     THEN IF same_paragraph /\ in_column # p.first_indent THEN in_column
          ELSE IF @ = p.first_indent THEN IF @ = 0 THEN DEF_INDENT ELSE 0 ELSE @
     ELSE p.first_indent]

\* A word is complete: its length is that of the text behind the words before it.
WordEnds(read, w, last, in_column, o) ==
  LET final == w.ends \/ (w.period /\ (last \/ w.space > 1))
      length == Len(read.text) - TextOf(read.words, Len(read.words) + 1)
      word == [length |-> length,
               space |-> IF last \/ o.uniform THEN IF final THEN 2 ELSE 1 ELSE w.space,
               paren |-> w.paren, period |-> w.period, punct |-> w.punct, final |-> final]
      column == in_column + length + (IF last THEN 0 ELSE w.space)
      room == IF Len(read.words) < MAXWORDS - 2 THEN read
              ELSE flush_paragraph(set_other_indent(read, TRUE, column, o.mode))
  IN [paragraph |-> [room EXCEPT !.words = Append(@, word)], in_column |-> column]

\* One word is read, which starts in in_column and is the last of its line or not.
ReadWord(p, w, last, in_column, o) ==
  LET Full(q) == IF Len(q.text) < MAXCHARS THEN q
                 ELSE flush_paragraph(set_other_indent(q, TRUE, in_column, o.mode))
      Char(q, c) == [Full(q) EXCEPT !.text = Append(@, c)]
  IN WordEnds(FoldLeft(Char, p, w.chars), w, last, in_column, o)

get_line(p, line, o) ==
  LET Word(r, i) == ReadWord(r.paragraph, line.words[i], i = Len(line.words), r.in_column, o)
  IN FoldLeft(Word, [paragraph |-> p, in_column |-> line.indent],
              [i \in DOMAIN line.words |-> i]).paragraph

\* The lines of a paragraph after the first, as long as they belong to it.
RECURSIVE MoreLines(_, _, _, _)
MoreLines(p, lines, o, first) ==
  LET same_para == lines # <<>> /\ lines[1].words # <<>>
      continues == /\ o.mode # "split" /\ same_para
                   /\ \/ first /\ o.mode = "crown"
                      \/ first /\ o.mode = "tagged" /\ lines[1].indent # p.first_indent
                      \/ ~ (first /\ o.mode \in {"crown", "tagged"}) /\ lines[1].indent = p.other_indent
  IN IF continues THEN MoreLines(get_line(p, lines[1], o), Tail(lines), o, FALSE)
     ELSE [paragraph |-> p, lines |-> lines]

\* A paragraph is read, whose last word ends a sentence.
get_paragraph(lines, other_indent, o, out) ==
  LET start == [text |-> <<>>, words |-> <<>>, out |-> out, last_line_length |-> 0,
                first_indent |-> lines[1].indent, other_indent |-> other_indent]
      next == Tail(lines)
      one == set_other_indent(get_line(start, lines[1], o), next # <<>> /\ next[1].words # <<>>,
                              IF next = <<>> THEN 0 ELSE next[1].indent, o.mode)
      ended(p) == [p EXCEPT !.words[Len(p.words)].period = TRUE, !.words[Len(p.words)].final = TRUE]
      all(r) == [paragraph |-> ended(r.paragraph), lines |-> r.lines]
  IN all(MoreLines(one, next, o, TRUE))

put_paragraph(p) == put_lines(p, fmt_paragraph(p), 1, Len(p.words) + 1)

\* Blank lines are copied; a paragraph is read, formatted and written.
RECURSIVE Paragraphs(_, _, _, _)
Paragraphs(lines, other_indent, o, out) ==
  IF lines = <<>> THEN out
  ELSE IF lines[1].words = <<>> THEN Paragraphs(Tail(lines), other_indent, o, Append(out, NewLine))
  ELSE LET rest(r) == Paragraphs(r.lines, r.paragraph.other_indent, o, put_paragraph(r.paragraph).out)
       IN rest(get_paragraph(lines, other_indent, o, out))

fmt(lines, o) == Paragraphs(lines, 0, o, <<>>)
=============================================================================

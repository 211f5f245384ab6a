------------------------------- MODULE Basenc -------------------------------
(***************************************************************************)
(* basenc.c: do_encode, wrap_write and do_decode, with the encodings that  *)
(* are written in basenc.c itself: base16, base2msbf and base2lsbf.  A     *)
(* byte is a number.  A character of the encoded text is the value of a    *)
(* digit, Eol, Pad (=), or any other one.                                  *)
(*                                                                         *)
(* Left out: base32 and base64, which are a library's, and z85, whose      *)
(* arithmetic of 32 bits does not fit TLC's integers.                      *)
(***************************************************************************)
EXTENDS Integers, Sequences, SequencesExt

CONSTANTS
  ENC_BLOCKSIZE, DEC_BLOCKSIZE,
  Eol, Pad

Bit(c, i) == (c \div 2 ^ i) % 2

base_length(base, len) == IF base = "base16" THEN len * 2 ELSE len * 8
isbase(base, ch) == ch \in IF base = "base16" THEN 0..15 ELSE 0..1

base_encode(base, bytes) ==
  FlattenSeq([k \in DOMAIN bytes |->
    IF base = "base16" THEN <<bytes[k] \div 16, bytes[k] % 16>>
    ELSE [i \in 1..8 |-> Bit(bytes[k], IF base = "base2msbf" THEN 8 - i ELSE i - 1)]])

\* The text that wrap_write adds, and current_column behind it.
RECURSIVE wrap_write(_, _, _, _)
wrap_write(text, wrap_column, current_column, out) ==
  IF text = <<>> THEN [out |-> out, column |-> current_column]
  ELSE IF wrap_column = 0 THEN [out |-> out \o text, column |-> current_column]
  ELSE LET to_write == Min({wrap_column - current_column, Len(text)})
       IN IF to_write = 0 THEN wrap_write(text, wrap_column, 0, Append(out, Eol))
          ELSE wrap_write(SubSeq(text, to_write + 1, Len(text)), wrap_column,
                          current_column + to_write, out \o SubSeq(text, 1, to_write))

\* One block of the input after the other, until one is short.
do_encode(base, bytes, wrap_column) ==
  LET RECURSIVE Block(_, _)
      Block(rest, w) ==
        LET sum == Min({ENC_BLOCKSIZE, Len(rest)})
            v == wrap_write(base_encode(base, SubSeq(rest, 1, sum)), wrap_column, w.column, w.out)
        IN IF sum < ENC_BLOCKSIZE THEN v ELSE Block(SubSeq(rest, sum + 1, Len(rest)), v)
      r == Block(bytes, [out |-> <<>>, column |-> 0])
  IN IF wrap_column > 0 /\ r.column > 0 THEN Append(r.out, Eol) ELSE r.out

-----------------------------------------------------------------------------
(* The state of a decoder: the digits of an incomplete byte as a number,   *)
(* how many there are of base16, and the index i of base2.                 *)

base_decode_ctx_init(base) == [octet |-> 0, have_nibble |-> FALSE, i |-> IF base = "base16" THEN 1 ELSE 0]

\* One digit: the context behind it, and the byte that it completes, if it does.
Digit(base, ctx, d) ==
  IF base = "base16"
  THEN [ctx |-> [ctx EXCEPT !.octet = d, !.have_nibble = ~ @],
        out |-> IF ctx.have_nibble THEN <<ctx.octet * 16 + d>> ELSE <<>>]
  ELSE LET place == IF base = "base2lsbf" THEN ctx.i ELSE IF ctx.i = 0 THEN 7 ELSE ctx.i - 1
           octet == ctx.octet + d * 2 ^ place
           i     == IF base = "base2lsbf" THEN (ctx.i + 1) % 8 ELSE place
       IN [ctx |-> [ctx EXCEPT !.octet = IF i = 0 THEN 0 ELSE octet, !.i = i],
           out |-> IF i = 0 THEN <<octet>> ELSE <<>>]

\* A buffer is decoded up to its first character that is no digit.  An empty one asks whether
\* a byte is incomplete.
base_decode_ctx_NoCarry(base, ctx0, in) ==   \* mutant: a buffer starts with a new byte
  LET RECURSIVE Decode(_, _, _)
      Decode(ctx, rest, out) ==
        IF rest = <<>> THEN [ctx |-> ctx, out |-> out, ok |-> TRUE]
        ELSE IF Head(rest) = Eol THEN Decode(ctx, Tail(rest), out)
        ELSE IF ~ isbase(base, Head(rest)) THEN [ctx |-> ctx, out |-> out, ok |-> FALSE]
        ELSE LET r == Digit(base, ctx, Head(rest)) IN Decode(r.ctx, Tail(rest), out \o r.out)
  IN Decode(base_decode_ctx_init(base), in, <<>>)
base_decode_ctx(base, ctx0, in) ==
  LET RECURSIVE Decode(_, _, _)
      Decode(ctx, rest, out) ==
        IF rest = <<>> THEN [ctx |-> ctx, out |-> out, ok |-> TRUE]
        ELSE IF Head(rest) = Eol THEN Decode(ctx, Tail(rest), out)
        ELSE IF ~ isbase(base, Head(rest)) THEN [ctx |-> ctx, out |-> out, ok |-> FALSE]
        ELSE LET r == Digit(base, ctx, Head(rest)) IN Decode(r.ctx, Tail(rest), out \o r.out)
  IN IF in # <<>> THEN Decode(ctx0, in, <<>>)
     ELSE [ctx |-> ctx0, out |-> <<>>,
           ok |-> IF base = "base16" THEN ~ ctx0.have_nibble ELSE ctx0.i = 0]

\* fread until the buffer is full or the file has ended, without what -i ignores.
RECURSIVE Filled(_, _, _, _)
Filled(base, inbuf, rest, ignore_garbage) ==
  LET room == base_length(base, DEC_BLOCKSIZE) - Len(inbuf)
      n == Min({room, Len(rest)})
      got == SelectSeq(SubSeq(rest, 1, n),
                       LAMBDA ch : ~ ignore_garbage \/ isbase(base, ch) \/ ch = Pad)
  IN IF room = 0 \/ n < room
     THEN [inbuf |-> inbuf \o got, rest |-> SubSeq(rest, n + 1, Len(rest)), feof |-> room > 0]
     ELSE Filled(base, inbuf \o got, SubSeq(rest, n + 1, Len(rest)), ignore_garbage)

\* One buffer after the other; after the last one, what is in the context is asked for.  Also
\* the most that was put into outbuf.
do_decode(base, text, ignore_garbage) ==
  LET RECURSIVE Buffer(_, _, _, _)
      Buffer(ctx, rest, out, most) ==
        LET f == Filled(base, <<>>, rest, ignore_garbage)
            r == base_decode_ctx(base, ctx, f.inbuf)
            o == out \o r.out
            m == IF Len(r.out) > most THEN Len(r.out) ELSE most
            flushed == r.ctx.i = 0 \/ base_decode_ctx(base, r.ctx, <<>>).ok
        IN IF ~ r.ok THEN [out |-> o, ok |-> FALSE, most |-> m]
           ELSE IF f.feof THEN [out |-> o, ok |-> flushed, most |-> m]
           ELSE Buffer(r.ctx, f.rest, o, m)
  IN Buffer(base_decode_ctx_init(base), text, <<>>, 0)
=============================================================================

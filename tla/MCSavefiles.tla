------------------------------ MODULE MCSavefiles ------------------------------
(***************************************************************************)
(* Options for Savefiles: every combination of -C, -G and -W, and -z.      *)
(***************************************************************************)
EXTENDS Savefiles

SomeOptions ==
  {[Cflag |-> c, Gflag |-> g, Wflag |-> w, zflag |-> FALSE] : c \in {0, 1}, g \in {0, 2}, w \in {0, 1, 2}}
  \cup {[Cflag |-> 1, Gflag |-> g, Wflag |-> 2, zflag |-> TRUE] : g \in {0, 2}}
=============================================================================

------------------------------ MODULE MCInputBuffer ------------------------------
(***************************************************************************)
(* Inputs for InputBuffer: one file of up to six bytes, two of up to       *)
(* three, three of up to two.                                              *)
(***************************************************************************)
EXTENDS InputBuffer

Bytes == {"a", Eol}
FilesOf(n) == UNION {[1..k -> Bytes] : k \in 0..n}
SomeInputs == {<<f>> : f \in FilesOf(6)} \cup (FilesOf(3) \X FilesOf(3))
                \cup (FilesOf(1) \X FilesOf(2) \X FilesOf(2))
=============================================================================

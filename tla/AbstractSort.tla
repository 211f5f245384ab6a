------------------------------ MODULE AbstractSort ------------------------------
(***************************************************************************)
(* What sort's internal sort promises: the lines of the buffer come out    *)
(* one after the other, in order, equal lines as the input had them, and   *)
(* under -u only the first of several equal lines.                         *)
(***************************************************************************)
EXTENDS Integers, Sequences

CONSTANTS NLines,  \* lines in the buffer
          Inputs,  \* the sequences of NLines keys the buffer may hold
          Unique   \* the -u option

VARIABLES input,  \* the key of each line
          out     \* the lines written; a line is its place in the input

\* A stable order: the key decides, then the place in the input.
Before(a, b) == input[a] < input[b] \/ (input[a] = input[b] /\ a < b)

\* The lines that are still to be written.
Left == {b \in 1..NLines :
           /\ \A i \in DOMAIN out : out[i] # b
           /\ Unique => \A a \in 1..(b - 1) : input[a] # input[b]}

Init == input \in Inputs /\ out = <<>>

Write == \E a \in Left : /\ out' = Append(out, a)
                         /\ \A b \in Left \ {a} : Before(a, b)
                         /\ UNCHANGED input

Spec == Init /\ [][Write]_<<input, out>>

\* Every line is written in the end.
FairSpec == Spec /\ WF_<<input, out>>(Write)
=============================================================================

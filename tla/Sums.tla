-------------------------------- MODULE Sums --------------------------------
(***************************************************************************)
(* The sum a loop over a table computes: a total that starts at zero and   *)
(* has one entry's contribution added per round.                           *)
(***************************************************************************)
EXTENDS Integers, Sequences

\* The total after each round, and after none.
PrefixSums(s) ==
    LET total[i \in 0..Len(s)] == IF i = 0 THEN 0 ELSE total[i - 1] + s[i]
    IN  total

SumSeq(s) == PrefixSums(s)[Len(s)]
=============================================================================

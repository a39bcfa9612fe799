--------------------------- MODULE InOrderStream ---------------------------
(***************************************************************************)
(* What a decoder may rely on when it reads one direction of a TCP flow:   *)
(* the bytes it sees are a run of consecutive positions of the sender's    *)
(* stream, at most Capacity of them; the run only ever grows at its end    *)
(* while the reader is open, never grows again once it is closed, and is   *)
(* otherwise discarded as a whole.                                         *)
(*                                                                         *)
(* tcp_reassembly.c promises this to capture.c; TcpReassembly refines it.  *)
(***************************************************************************)
EXTENDS Integers, Sequences

CONSTANT Capacity   \* bytes one direction may hold

VARIABLES out,      \* positions readable by a decoder, oldest first
          open      \* FALSE once the direction refuses further data

vars == <<out, open>>

\* The elements of s are consecutive stream positions.
IsRun(s) == \A i \in 1..Len(s) : s[i] = s[1] + i - 1

\* t is s with at least one element added at its end.
Extends(t, s) == /\ Len(s) < Len(t)
                 /\ \A i \in 1..Len(s) : t[i] = s[i]

Init == out = <<>> /\ open = TRUE

(* The first bytes fix where the run starts; later bytes continue it. The  *)
(* step that fills the buffer may close the stream at once.                *)
Extend ==
    /\ open
    /\ Extends(out', out)
    /\ IsRun(out')
    /\ Len(out') <= Capacity
    /\ open' \in BOOLEAN

Close == open' = FALSE /\ out' = out

Discard == out' = <<>> /\ open' \in BOOLEAN

Next == Extend \/ Close \/ Discard

Spec == Init /\ [][Next]_vars
============================================================================

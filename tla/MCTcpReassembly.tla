-------------------------- MODULE MCTcpReassembly --------------------------
(***************************************************************************)
(* Instances of TcpReassembly for TLC.                                     *)
(***************************************************************************)
EXTENDS TcpReassemblyCalls

Plain(p, n) == [pos |-> p, len |-> n, syn |-> FALSE, fin |-> FALSE, rst |-> FALSE]

\* Every cut of the stream, the SYN with and without data, and the FIN.
MCSegments ==
    {s \in {Plain(p, n) : p \in 0..StreamLen, n \in 1..3} :
        s.pos + s.len <= StreamLen}
    \cup {[Plain(0, n) EXCEPT !.syn = TRUE] : n \in {0, 2}}
    \cup {[Plain(StreamLen - n, n) EXCEPT !.fin = TRUE] : n \in {0, 1}}
    \cup {[Plain(StreamLen, 0) EXCEPT !.rst = TRUE]}

(* As above, but one FIN segment lost its last two bytes to the snap length.    *)
MCTruncatedSegments ==
    MCSegments \cup {[Plain(StreamLen - 3, 1) EXCEPT !.fin = TRUE]}
============================================================================

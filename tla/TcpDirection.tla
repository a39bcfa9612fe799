---------------------------- MODULE TcpDirection ----------------------------
(***************************************************************************)
(* One direction of a TCP flow as the flow table and the capture loop see  *)
(* it: the sticky flags, whether it still takes data, whether it owns      *)
(* buffers, and its anomaly counters. The bytes are left out; what         *)
(* process_segment makes of them is a choice among outcomes.               *)
(*                                                                         *)
(* Each operator is one operation of tcp_reassembly.h as a function (or,   *)
(* where bytes or malloc decide, a set of results) of the direction's      *)
(* state. TcpReassemblyCalls shows that TcpReassembly does nothing else.   *)
(***************************************************************************)
EXTENDS Integers

CONSTANTS
    CounterNames,   \* the anomaly counters of TcpReassemblyDirection
    MaxCount        \* bound: what one call may add to one counter

ASSUME MaxCountAssumption == MaxCount \in Nat

NoCounts == [c \in CounterNames |-> 0]

DirectionType ==
    [fin_seen : BOOLEAN, rst_seen : BOOLEAN, unusable : BOOLEAN,
     allocated : BOOLEAN,                   \* stream.data != NULL
     counts : [CounterNames -> Nat]]

\* A direction whose struct is all zero.
Zeroed == [fin_seen |-> FALSE, rst_seen |-> FALSE, unusable |-> FALSE,
           allocated |-> FALSE, counts |-> NoCounts]

\* f holds the header flags fin and rst of a segment.
track_flags(d, f) == [d EXCEPT !.fin_seen = @ \/ f.fin, !.rst_seen = @ \/ f.rst]

\* The memset comes first, so nothing of d survives even when malloc fails.
direction_init(ok) == [Zeroed EXCEPT !.allocated = ok]

release_buffers(d) == [d EXCEPT !.allocated = FALSE]

Increments == [CounterNames -> 0..MaxCount]
Plus(c, e) == [n \in CounterNames |-> c[n] + e[n]]

\* The flags are noted first, then the bytes decide usability and counters.
Processed(d, f, u, e) == [track_flags(d, f) EXCEPT !.unusable = u, !.counts = Plus(@, e)]

\* The states process_segment may leave: an unusable direction is not touched.
process_segment(d, f) ==
    IF d.unusable THEN {d}
    ELSE {Processed(d, f, u, e) : u \in BOOLEAN, e \in Increments}
=============================================================================

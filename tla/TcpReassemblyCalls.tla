------------------------- MODULE TcpReassemblyCalls -------------------------
(***************************************************************************)
(* TcpReassembly one call at a time. The history variable seen is the      *)
(* interface state of the direction after the last call that returned, so  *)
(* the iterations of the flush loop are part of the call they belong to.   *)
(***************************************************************************)
EXTENDS TcpReassembly

VARIABLE seen

Interface == INSTANCE TcpDirection
                 WITH CounterNames <- CounterNames, MaxCount <- MaxPending + 1

direction == [fin_seen |-> fin_seen, rst_seen |-> rst_seen, unusable |-> unusable,
              allocated |-> capacity > 0, counts |-> counters]

callVars == <<vars, seen>>

CallInit == Init /\ seen = direction

CallNext == Next /\ seen' = IF pc' = "idle" THEN direction' ELSE seen

CallSpec ==
    CallInit /\ [][CallNext]_callVars /\ WF_vars(flush_pending_segments)

CallStep ==
    \/ \E ok \in BOOLEAN : seen' = Interface!direction_init(ok)
    \/ seen' = Interface!release_buffers(seen)
    \/ \E s \in Segments : seen' = Interface!track_flags(seen, s)
    \/ \E s \in Segments : seen.allocated /\ seen' \in Interface!process_segment(seen, s)

(* Every call of tcp_reassembly.c, flush loop included, has one of the     *)
(* effects TcpDirection allows it: flags are only forgotten by the memset  *)
(* of init and cleanup, an unusable direction changes in no way at all,    *)
(* buffers come and go only through init, release and cleanup, and no call *)
(* adds more to a counter than one event per pending segment and its own.  *)
CallsMatchInterface == [][CallStep]_seen
=============================================================================

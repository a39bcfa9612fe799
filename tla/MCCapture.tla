----------------------------- MODULE MCCapture -----------------------------
(***************************************************************************)
(* Instances of Capture for TLC.                                           *)
(***************************************************************************)
EXTENDS Capture

CONSTANTS f1, f2

MCFlows == {f1, f2}

MCConfigs ==
    {c \in [offline : BOOLEAN, write : BOOLEAN, log : BOOLEAN, decode_app : BOOLEAN,
            reassemble : BOOLEAN, app_filter : BOOLEAN, json : BOOLEAN, flush_exit : BOOLEAN,
            max_packets : {0, 2}] :
        /\ c.reassemble \/ c.app_filter => c.decode_app
        /\ c.write = c.log
        /\ c.json => c.reassemble
        /\ c.flush_exit => c.log}
============================================================================

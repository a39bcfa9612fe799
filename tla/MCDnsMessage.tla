---------------------------- MODULE MCDnsMessage ----------------------------
(***************************************************************************)
(* Instance of DnsMessage for TLC: every message of up to five octets      *)
(* behind a header of two, and every framed buffer of up to five octets.   *)
(***************************************************************************)
EXTENDS DnsMessage

Messages(n) == UNION {[1..k -> Octets] : k \in 0..n}

MCBuffers ==
    {<<<<1, h>> \o m, FALSE>> : h \in {0, 192}, m \in Messages(5)}
    \cup {<<m, framing>> : m \in Messages(3), framing \in BOOLEAN}
    \cup {<<<<0, n>> \o m, TRUE>> : n \in {1, 2, 4}, m \in Messages(3)}
    \cup {<<<<0, 4, 1, 0>> \o m, TRUE>> : m \in Messages(3)}
=============================================================================

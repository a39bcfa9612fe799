-------------------------- MODULE MCIpv4Fragments --------------------------
(***************************************************************************)
(* Instances of Ipv4Fragments for TLC, with offsets in units of two bytes. *)
(***************************************************************************)
EXTENDS Ipv4Fragments

Piece(key, sent, offset, length, more, time) ==
    [key |-> key, sent |-> sent, offset |-> offset, length |-> length, more |-> more,
     header_length |-> IF offset = 0 THEN 3 ELSE 2, time |-> time]

(* Key 1 carries datagram 1 (five bytes, cut in two ways), and after the   *)
(* timeout datagram 2 (four bytes); keys 2 and 3 compete for the table.     *)
MCWellBehaved ==
    {Piece(1, 1, 0, 2, TRUE, t) : t \in {0, 1}}
    \cup {Piece(1, 1, 2, 2, TRUE, 0), Piece(1, 1, 0, 4, TRUE, 0), Piece(1, 1, 4, 1, FALSE, 1)}
    \cup {Piece(1, 2, 0, 2, TRUE, 3), Piece(1, 2, 2, 2, FALSE, 3)}
    \cup {Piece(2, 3, 2, 1, FALSE, 1), Piece(2, 3, 0, 2, TRUE, 3),
          Piece(3, 4, 0, 2, TRUE, 1)}

(* Fragments cut short by the snap length, last fragments that disagree,   *)
(* identifications reused at once, timestamps that jump, and datagrams     *)
(* that only exceed the length limit with the first fragment's header.     *)
MCHostile ==
    {Piece(1, 1, 0, 2, TRUE, t) : t \in {0, 2}}
    \cup {Piece(1, 1, 2, 2, TRUE, 0), Piece(1, 1, 4, 2, FALSE, 0), Piece(1, 1, 4, 1, FALSE, 2)}
    \cup {Piece(1, 2, 2, 2, FALSE, 0), Piece(1, 2, 0, 1, TRUE, 0), Piece(1, 2, 2, 0, FALSE, 0)}
    \cup {Piece(2, 3, 6, 2, FALSE, 2), Piece(2, 3, 0, 2, TRUE, 0),
          Piece(3, 4, 0, 2, TRUE, 0)}

MCTraffics == {MCWellBehaved, MCHostile}
============================================================================

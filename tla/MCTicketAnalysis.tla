--------------------------- MODULE MCTicketAnalysis ---------------------------
(* Instances of TicketAnalysis for TLC. *)
EXTENDS TicketAnalysis

CONSTANTS k1, malformed, t1, t2

Limits(crash, disconnect, replay) ==
  [i \in Interruption |-> CASE i = "crash" -> crash
                            [] i = "disconnect" -> disconnect
                            [] i = "replay" -> replay]

OverlapLimit == Limits(1, 1, 1)
ExclusiveLimit == Limits(2, 0, 2)
=============================================================================

------------------------- MODULE MCDocumentIngestion -------------------------
(* Instance of DocumentIngestion for TLC: how often each interruption happens. *)
EXTENDS DocumentIngestion, TLC

CONSTANTS d1, t1, t2

Limits(crash, disconnect, replay, apiCrash) ==
  [i \in Interruption |-> CASE i = "crash" -> crash
                            [] i = "disconnect" -> disconnect
                            [] i = "replay" -> replay
                            [] i = "apiCrash" -> apiCrash]

OverlapLimit == Limits(1, 1, 2, 1)
StuckLimit == Limits(1, 1, 1, 1)

TaskSymmetry == Permutations(Task)
=============================================================================

--------------------------- MODULE MCWorkerQueue ---------------------------
(* Two producer threads submitting two tasks each to one worker whose      *)
(* queue limit is 1, so that addTask both accepts and rejects.             *)
EXTENDS WorkerQueue, TLC

CONSTANTS p1, p2

MCProducers == {p1, p2}
=============================================================================

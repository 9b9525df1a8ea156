---------------------------- MODULE MCCountdown ----------------------------
(* Countdown with two handlers, buckets 0, 5 and 10 ms, and timeouts   *)
(* that land in bucket 0, in bucket 1 and in the top bucket.               *)
EXTENDS Countdown, TLC

CONSTANTS h1, h2

MCHandlers == {h1, h2}
MCTimeouts == {3, 12}
MCSymmetry == Permutations(MCHandlers)
=============================================================================

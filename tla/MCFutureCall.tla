--------------------------- MODULE MCFutureCall ---------------------------
(* Three calls on one connection: a Future and an AsyncFuture made with   *)
(* the same sequence number, so that push meets a repeated sn, and an     *)
(* AsyncFuture with a sequence number of its own.                         *)
EXTENDS FutureCall, TLC

CONSTANTS f1, f2, f3, s1, s2

MCFutures == {f1, f2, f3}
MCSNs == {s1, s2}
MCSn == (f1 :> s1) @@ (f2 :> s1) @@ (f3 :> s2)
MCKind == (f1 :> "sync") @@ (f2 :> "async") @@ (f3 :> "async")
=============================================================================

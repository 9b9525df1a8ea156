------------------------------ MODULE ByteQueue ------------------------------
(***************************************************************************)
(* What lin_io::ByteBuffer promises its users (src/utils/bytebuffer.h,     *)
(* header comment and usage notes): a byte queue that appends at the tail, *)
(* reads and erases at the head, grows by itself, and refuses room only    *)
(* when the request would take it past its limit.                          *)
(*                                                                         *)
(* Bytes are stamped with the order they were produced in (next), so a     *)
(* byte dropped, duplicated or reordered by the buffer shows.              *)
(***************************************************************************)
EXTENDS Naturals, Sequences

CONSTANTS
    Limit,      \* ByteBuffer::_limit
    MaxStamp    \* bytes produced in a behaviour

VARIABLES
    q,          \* the valid bytes, head first
    next,       \* stamp of the next byte produced
    err         \* outcome of the last operation: "ok" or "limit"

vars == <<q, next, err>>

Fresh(n) == [i \in 1 .. n |-> next + i - 1]

(* Append n new bytes (write, or a read of n bytes into reserved room).    *)
Put(n) ==
    /\ next + n - 1 <= MaxStamp
    /\ q' = q \o Fresh(n)
    /\ next' = next + n
    /\ err' = "ok"

(* A request for n bytes of room refused: allowed only past the limit.     *)
Refuse(n) ==
    /\ Len(q) + n > Limit
    /\ err' = "limit"
    /\ UNCHANGED <<q, next>>

(* Erase up to n bytes from the head.                                      *)
Take(n) ==
    /\ q' = SubSeq(q, IF n < Len(q) THEN n + 1 ELSE Len(q) + 1, Len(q))
    /\ err' = "ok"
    /\ UNCHANGED next

(* Drop n bytes from the tail, when there are that many.                   *)
Unput(n) ==
    /\ q' = IF Len(q) >= n THEN SubSeq(q, 1, Len(q) - n) ELSE q
    /\ err' = "ok"
    /\ UNCHANGED next

Init ==
    /\ q = <<>>
    /\ next = 1
    /\ err = "ok"

Next ==
    \E n \in 0 .. MaxStamp :
        Put(n) \/ Refuse(n) \/ Take(n) \/ Unput(n)

Spec == Init /\ [][Next]_vars
=============================================================================

----------------------------- MODULE ByteBuffer -----------------------------
(***************************************************************************)
(* lin_io::ByteBuffer (src/utils/bytebuffer.h) as TcpConnection and        *)
(* UdpConnection use it for _input and _output, and the serializer for     *)
(* its output.  The buffer is the memory block [0, cap) with the valid     *)
(* bytes in [head, tail); reserve() first moves the bytes down to close    *)
(* the hole before head (recycle) and only then allocates a larger block   *)
(* (alloc, 2x growth rounded up to BLOCK_SIZE), throwing                   *)
(* ResourceLimitException when size() + n would pass _limit.               *)
(*                                                                         *)
(* Sizes are scaled: InitCap stands for the 1024-byte _stackbuff, Block    *)
(* for BLOCK_SIZE (4096), ReadChunk for the 4 * 1024 onRead asks for.      *)
(* Bytes are stamps (ByteQueue); 0 is a byte no one wrote.  _x2 is the     *)
(* default true (TcpConnection and UdpConnection use ByteBuffer()).        *)
(* _high_water_mark feeds only gc(), which nothing calls.                  *)
(***************************************************************************)
EXTENDS Naturals, Sequences

CONSTANTS
    InitCap,    \* sizeof _stackbuff
    Block,      \* BLOCK_SIZE
    Limit,      \* _limit
    ReadChunk,  \* the minimum room TcpConnection::onRead reserves
    MaxWrite,   \* largest single write
    MaxStamp    \* bytes produced in a behaviour

VARIABLES
    buf,        \* [mem, head, tail, cap]: _data[0 .. _cap), _head, _tail
    next,       \* stamp of the next byte produced
    err,        \* "limit" when the last operation threw ResourceLimitException
    oob         \* a store landed at or past _data + _cap

vars == <<buf, next, err, oob>>

Size(b) == b.tail - b.head
Space(b) == b.cap - b.tail
Contents(b) == [i \in 1 .. Size(b) |-> b.mem[b.head + i - 1]]
Fresh(n) == [i \in 1 .. n |-> next + i - 1]
MinOf(a, b) == IF a < b THEN a ELSE b
MaxOf(a, b) == IF a > b THEN a ELSE b

-----------------------------------------------------------------------------
(* blocked_size: round up to a multiple of BLOCK_SIZE.                     *)
BlockedSize(sz) == ((sz + Block - 1) \div Block) * Block

(* alloc_size, _x2 branch: for (n = _cap; n < sz; n <<= 1).                *)
RECURSIVE Doubled(_, _)
Doubled(n, sz) == IF n < sz THEN Doubled(2 * n, sz) ELSE n

AllocSize(b, sz) == BlockedSize(Doubled(b.cap, sz))

(* recycle: memmove(_data, _head, n), head = 0, tail = n.                  *)
Recycle(b) ==
    [b EXCEPT !.mem = [i \in 0 .. b.cap - 1 |->
                         IF i < Size(b) THEN b.mem[b.head + i] ELSE b.mem[i]],
              !.head = 0,
              !.tail = Size(b)]

(* alloc's new block filled from _data instead of _head (mutant of Grow).  *)
GrowFromData(b, n) ==
    LET nc == AllocSize(b, Size(b) + n)
    IN  [mem |-> [i \in 0 .. nc - 1 |-> IF i < Size(b) THEN b.mem[i] ELSE 0],
         head |-> 0, tail |-> Size(b), cap |-> nc]

(* alloc, second half: new char[newCap], memcpy(ptr, _head, sz).           *)
Grow(b, n) ==
    LET nc == AllocSize(b, Size(b) + n)
    IN  [mem |-> [i \in 0 .. nc - 1 |-> IF i < Size(b) THEN b.mem[b.head + i] ELSE 0],
         head |-> 0, tail |-> Size(b), cap |-> nc]

(* reserve(n) throws: no room, no room after recycle, and alloc_size(sz +  *)
(* n) is past _limit.                                                      *)
Throws(b, n) ==
    /\ Space(b) < n
    /\ b.head + b.cap - b.tail < n
    /\ Size(b) + n > Limit

(* reserve(n) when it does not throw.                                      *)
Reserve(b, n) ==
    IF Space(b) >= n THEN b
    ELSE IF b.head + b.cap - b.tail >= n THEN Recycle(b)
    ELSE Grow(b, n)

(* Store the bytes s from offset at; a store past the block is flagged.    *)
Store(b, at, s) ==
    [b EXCEPT !.mem = [i \in DOMAIN b.mem |->
                         IF at <= i /\ i < at + Len(s) THEN s[i - at + 1] ELSE b.mem[i]]]

Past(b, at, len) == at + len > b.cap

-----------------------------------------------------------------------------
(* write(dat, sz): reserve(sz), memcpy at _tail, _tail += sz.              *)
Write(n) ==
    /\ next + n - 1 <= MaxStamp
    /\ IF Throws(buf, n)
       THEN /\ err' = "limit"
            /\ UNCHANGED <<buf, next, oob>>
       ELSE LET r == Reserve(buf, n)
            IN  /\ buf' = [Store(r, r.tail, Fresh(n)) EXCEPT !.tail = r.tail + n]
                /\ next' = next + n
                /\ err' = "ok"
                /\ oob' = (oob \/ Past(r, r.tail, n))

(* onRead asking recv for the whole sz (mutant of Recv).                  *)
RecvWholeChunk(k) ==
    LET sz == MaxOf(Space(buf), ReadChunk) IN
    IF Throws(buf, sz)
    THEN /\ k = 0
         /\ err' = "limit"
         /\ UNCHANGED <<buf, next, oob>>
    ELSE LET r == Reserve(buf, sz)
         IN  /\ k <= sz
             /\ next + k - 1 <= MaxStamp
             /\ IF k > 0
                THEN /\ buf' = [Store(r, r.tail, Fresh(k) \o <<0>>)
                                  EXCEPT !.tail = MinOf(r.tail + k, r.cap)]
                     /\ oob' = (oob \/ Past(r, r.tail, k + 1))
                ELSE /\ buf' = r
                     /\ UNCHANGED oob
             /\ next' = next + k
             /\ err' = "ok"

(* The buffer half of TcpConnection::onRead (and UdpConnection::onRead):   *)
(* sz = max(space(), 4 * 1024); w = reserve(sz); k = recv(w, sz - 1);      *)
(* if k > 0 { w[k] = 0; advance(k) }.  advance clamps _tail at _data +     *)
(* _cap.                                                                   *)
Recv(k) ==
    LET sz == MaxOf(Space(buf), ReadChunk) IN
    IF Throws(buf, sz)
    THEN /\ k = 0
         /\ err' = "limit"
         /\ UNCHANGED <<buf, next, oob>>
    ELSE LET r == Reserve(buf, sz)
         IN  /\ k <= sz - 1
             /\ next + k - 1 <= MaxStamp
             /\ IF k > 0
                THEN /\ buf' = [Store(r, r.tail, Fresh(k) \o <<0>>)
                                  EXCEPT !.tail = MinOf(r.tail + k, r.cap)]
                     /\ oob' = (oob \/ Past(r, r.tail, k + 1))
                ELSE /\ buf' = r
                     /\ UNCHANGED oob
             /\ next' = next + k
             /\ err' = "ok"

(* erase(sz), sz != -1: head += min(size, sz); when empty, head = tail =   *)
(* _data.                                                                  *)
Erase(n) ==
    /\ LET h == buf.head + MinOf(Size(buf), n)
       IN  buf' = IF h >= buf.tail THEN [buf EXCEPT !.head = 0, !.tail = 0]
                                    ELSE [buf EXCEPT !.head = h]
    /\ err' = "ok"
    /\ UNCHANGED <<next, oob>>

(* erase() with the default -1: clear.                                     *)
EraseAll ==
    /\ buf' = [buf EXCEPT !.head = 0, !.tail = 0]
    /\ err' = "ok"
    /\ UNCHANGED <<next, oob>>

(* back(n) without its size check (mutant of Back).                       *)
BackUnchecked(n) ==
    /\ buf' = [buf EXCEPT !.tail = @ - n]
    /\ err' = "ok"
    /\ UNCHANGED <<next, oob>>

(* back(n): drop n bytes from the tail when there are that many.           *)
Back(n) ==
    /\ buf' = IF Size(buf) >= n THEN [buf EXCEPT !.tail = @ - n] ELSE buf
    /\ err' = "ok"
    /\ UNCHANGED <<next, oob>>

(* ByteBuffer(): _data = _stackbuff, head = tail = _data, _cap = 1024.     *)
Init ==
    /\ buf = [mem |-> [i \in 0 .. InitCap - 1 |-> 0], head |-> 0, tail |-> 0, cap |-> InitCap]
    /\ next = 1
    /\ err = "ok"
    /\ oob = FALSE

Next ==
    \/ \E n \in 1 .. MaxWrite : Write(n)
    \/ \E k \in 0 .. MaxStamp : Recv(k)
    \/ \E n \in 0 .. Size(buf) + 1 : Erase(n)
    \/ EraseAll
    \/ \E n \in 1 .. MaxWrite : Back(n)

Spec == Init /\ [][Next]_vars

-----------------------------------------------------------------------------
TypeOK ==
    /\ buf.cap \in {InitCap} \cup {Block * i : i \in 1 .. Limit}
    /\ buf.mem \in [0 .. buf.cap - 1 -> 0 .. MaxStamp]
    /\ 0 <= buf.head /\ buf.head <= buf.tail /\ buf.tail <= buf.cap
    /\ next \in 1 .. MaxStamp + 1 /\ err \in {"ok", "limit"} /\ oob \in BOOLEAN

(* onRead reads at most sz - 1 bytes into the sz reserved so that its      *)
(* w[readBytes] = 0 terminator stays inside the block; no write, read or   *)
(* terminator ever stores at or past _data + _cap.                         *)
InBounds == ~oob

(* ByteBuffer implements the byte queue its header comment describes:     *)
(* through recycle, growth, erase's reset and advance's clamp the bytes    *)
(* in [head, tail) are exactly the bytes written and read in, in order,    *)
(* minus those erased at the head or dropped at the tail; and reserve      *)
(* throws only when the request would take the size past _limit.          *)
Queue == INSTANCE ByteQueue WITH q <- Contents(buf)

QueueSpec == Queue!Spec
=============================================================================

------------------------------- MODULE Varint -------------------------------
(***************************************************************************)
(* The varint codec (src/utils/varint.h, varint.cpp) and the protocol       *)
(* buffer field helpers built on it (namespace pb in serializer.h), as the  *)
(* Serializer and Deserializer call them through ByteBuffer::write_varint   *)
(* and Deserializer::read_varint.                                          *)
(*                                                                         *)
(* A varint stores 7 bits per byte, low group first, bit 0x80 set on every *)
(* byte but the last; signed values are zigzag-encoded first.  The word    *)
(* widths are scaled so that TLC can enumerate every value: W64 stands for *)
(* 64 and keeps its shape (whole 7-bit groups and a last byte that holds   *)
(* one bit: 64 = 9 * 7 + 1, 15 = 2 * 7 + 1), W32 stands for 32 (32 = 4 * 7  *)
(* + 4, 11 = 7 + 4).  MaxVarintBytes and MaxVarint32Bytes are the code's   *)
(* max_varint_bytes (10) and max_varint32_bytes (5) at those widths.       *)
(* Fixed-width fields (write_uint32, read(4), read(8)) keep their byte     *)
(* counts; byte order is the default LITTLE_ENDIAN on a little-endian      *)
(* host, so hton32/ntoh32 are the identity.  Bytes are 0 .. 255.           *)
(***************************************************************************)
EXTENDS Integers, Sequences, Bitwise

CONSTANTS
    W64,                \* bits of int64_t / uint64_t
    W32,                \* bits of int32_t / uint32_t
    MaxVarintBytes,     \* Varint::max_varint_bytes
    MaxVarint32Bytes,   \* Varint::max_varint32_bytes
    Prefixes            \* bytes a ByteBuffer holds when a Serializer is made on it

ASSUME /\ MaxVarintBytes = (W64 + 6) \div 7
       /\ MaxVarint32Bytes = (W32 + 6) \div 7
       /\ W32 < W64

(* Two's complement at width w: the unsigned image of a signed value and   *)
(* back; a cast between the two is one of these.                           *)
Unsigned(i, w) == i % 2^w
Signed(u, w) == IF u >= 2^(w - 1) THEN u - 2^w ELSE u
Ones(w) == 2^w - 1
SignedRange(w) == -(2^(w - 1)) .. 2^(w - 1) - 1

(* zigzag32 with i >> 31 shifting zeros in (mutant of zigzag32).           *)
zigzag32Logical(i) == ((2 * Unsigned(i, W32)) % 2^W32) ^^ (Unsigned(i, W32) \div 2^(W32 - 1))

(* zigzag32(i) == (i << 1) ^ (i >> 31): the shift right is arithmetic.     *)
zigzag32(i) == ((2 * Unsigned(i, W32)) % 2^W32) ^^ (IF i < 0 THEN Ones(W32) ELSE 0)

(* zigzag(i) == (i << 1) ^ (i >> 63).                                      *)
zigzag(i) == ((2 * Unsigned(i, W64)) % 2^W64) ^^ (IF i < 0 THEN Ones(W64) ELSE 0)

(* zagzig(u) == (u >> 1) ^ -static_cast<int64_t>(u & 1), returned as an    *)
(* int64_t.                                                                *)
zagzig(u) == Signed((u \div 2) ^^ (IF u % 2 = 1 THEN Ones(W64) ELSE 0), W64)

(* The byte count of the if-chains of varint_size32 / varint_size64: the   *)
(* first k with value < 1 << 7k, else the maximum.                         *)
SizeIn(value, max) ==
    LET ks == {k \in 1 .. max - 1 : value < 2^(7 * k)}
    IN  IF ks = {} THEN max ELSE CHOOSE k \in ks : \A j \in ks : k <= j

(* varint_size64 with value <= 1 << 7k for value < 1 << 7k (mutant).      *)
varint_size64Le(value) ==
    LET ks == {k \in 1 .. MaxVarintBytes - 1 : value <= 2^(7 * k)}
    IN  IF ks = {} THEN MaxVarintBytes ELSE CHOOSE k \in ks : \A j \in ks : k <= j

varint_size32(value) == SizeIn(value, MaxVarint32Bytes)
varint_size64(value) == SizeIn(value, MaxVarintBytes)

(* write_u32 / write_u64: target[j] = (value >> 7j) | 0x80 cut to a byte,  *)
(* for j < size; target[size - 1] &= 0x7F.  write_u64's split into part0,  *)
(* part1, part2 at bits 28 and 56 and its goto ladder store the same       *)
(* bytes.                                                                  *)
Encode(value, n) ==
    [j \in 1 .. n |-> LET g == (value \div 2^(7 * (j - 1))) % 128
                      IN  IF j < n THEN g + 128 ELSE g]

write_u32(value) == Encode(value, varint_size32(value))
write_u64(value) == Encode(value, varint_size64(value))

(* ByteBuffer::write_varint32 / write_varint (Serializer::write_varint32,  *)
(* write_varint): the zigzag image, written at _tail.                      *)
write_varint32(v) == write_u32(zigzag32(v))
write_varint(v) == write_u64(zigzag(v))

(* A decode result: n bytes taken (0: failure, value left as it was), the  *)
(* value, and whether the decoder dereferenced a byte past the size it     *)
(* was given.                                                              *)
Result(n, value, over) == [n |-> n, value |-> value, over |-> over]

(* read_u64: OR in (b & 0x7F) << 7j until a byte without 0x80; after       *)
(* max_varint_bytes bytes, return 0.  It trusts the buffer to be long      *)
(* enough (the header says so): j past Len(s) is a read out of bounds.    *)
RECURSIVE ReadU64From(_, _, _, _)
ReadU64From(s, j, acc, over) ==
    IF j > MaxVarintBytes THEN Result(0, 0, over)
    ELSE LET b   == IF j <= Len(s) THEN s[j] ELSE 0
             o   == over \/ j > Len(s)
             acc2 == (acc + (b % 128) * 2^(7 * (j - 1))) % 2^W64
         IN  IF b < 128 THEN Result(j, acc2, o) ELSE ReadU64From(s, j + 1, acc2, o)

read_u64(s) == ReadU64From(s, 1, 0, FALSE)

(* The slow loop of Varint::read: i < max_varint_bytes && ptr < tail.      *)
RECURSIVE SlowFrom(_, _, _)
SlowFrom(s, i, acc) ==
    IF i >= MaxVarintBytes \/ i >= Len(s) THEN Result(0, 0, FALSE)
    ELSE LET acc2 == (acc + (s[i + 1] % 128) * 2^(7 * i)) % 2^W64
         IN  IF s[i + 1] < 128 THEN Result(i + 1, zagzig(acc2), FALSE)
                              ELSE SlowFrom(s, i + 1, acc2)

Zagzigged(r) == IF r.n > 0 THEN [r EXCEPT !.value = zagzig(@)] ELSE r

(* Varint::read with the fast path's test missing its ! (mutant).         *)
Varint_readNot(s) ==
    IF Len(s) = 0 THEN Result(0, 0, FALSE)
    ELSE IF s[1] < 128 THEN Result(1, zagzig(s[1]), FALSE)
    ELSE IF Len(s) >= MaxVarintBytes \/ s[Len(s)] >= 128
         THEN Zagzigged(read_u64(s))
         ELSE SlowFrom(s, 0, 0)

(* Varint::read(bytes, size, value): one byte below 0x80 at once; read_u64 *)
(* when size >= max_varint_bytes or the last byte ends a varint; else the  *)
(* bounded slow loop.                                                      *)
Varint_read(s) ==
    IF Len(s) = 0 THEN Result(0, 0, FALSE)
    ELSE IF s[1] < 128 THEN Result(1, zagzig(s[1]), FALSE)
    ELSE IF Len(s) >= MaxVarintBytes \/ s[Len(s)] < 128
         THEN Zagzigged(read_u64(s))
         ELSE SlowFrom(s, 0, 0)
-----------------------------------------------------------------------------
(* The Deserializer as the bytes it has not consumed; a read that throws   *)
(* RuntimeException ("not enough data") leaves ok FALSE.                   *)
Taken(val, rest) == [ok |-> TRUE, val |-> val, rest |-> rest]
Thrown(s) == [ok |-> FALSE, val |-> 0, rest |-> s]
Drop(s, k) == SubSeq(s, k + 1, Len(s))

(* Deserializer::read_varint: Varint::read over the remaining size_.      *)
read_varint(s) ==
    LET r == Varint_read(s)
    IN  IF r.n <= 0 THEN Thrown(s) ELSE Taken(r.value, Drop(s, r.n))

(* Deserializer::read(k).                                                  *)
read(s, k) == IF Len(s) < k THEN Thrown(s) ELSE Taken(SubSeq(s, 1, k), Drop(s, k))

(* Deserializer::read_uint32, little-endian.                               *)
read_uint32(s) ==
    IF Len(s) < 4 THEN Thrown(s)
    ELSE Taken(s[1] + 256 * s[2] + 65536 * s[3] + 16777216 * s[4], Drop(s, 4))

(* Serializer::write_uint32, little-endian.                                *)
write_uint32(u) == [j \in 1 .. 4 |-> (u \div 256^(j - 1)) % 256]

(* pb::Tag wire types.                                                     *)
VARINT == 0
FIXED64 == 1
VARBLOCK == 2
FIXED32 == 5
BLOCK == 6

(* Tag::make(type, key) == (key << 3) | (type & 0x07) on int32_t; type and *)
(* key read back from the uint32_t tag.                                    *)
Tag_make(type, key) == Signed(((8 * Unsigned(key, W32)) % 2^W32) | (type % 8), W32)
Tag_type(tag) == tag % 8
Tag_key(tag) == tag \div 8

(* Tag::sizeoftag: 1 byte for key < 0x10, 2 below 0x800, else              *)
(* Varint::size(make(type, key)).                                          *)
sizeoftag(type, key) ==
    IF key < 16 THEN 1 ELSE IF key < 2048 THEN 2
    ELSE varint_size64(zigzag(Tag_make(type, key)))

(* pb::write_tag / read_tag.                                               *)
write_tag(type, index) == write_varint32(Tag_make(type, index))
read_tag(s) == LET r == read_varint(s) IN [r EXCEPT !.val = Unsigned(@, W32)]

(* pb::write_block: a varint32 or a uint32 length, then the bytes.         *)
write_block(dat, type) ==
    IF type = VARBLOCK THEN write_varint32(Len(dat)) \o dat
    ELSE write_uint32(Len(dat)) \o dat

(* A Serializer over a ByteBuffer: buf is the buffer's bytes [head, tail), *)
(* off its offset_ (the buffer's size when the Serializer was made).       *)
(* position() is size() = buffer size - offset_; replace() indexes the     *)
(* buffer itself, buffer_[pos], and checks pos + n against size().      *)
position(pk) == Len(pk.buf) - pk.off
replace_uint32(pk, pos, u) ==
    IF pos + 4 > position(pk) THEN Thrown(pk)
    ELSE Taken(pos + 4,
               [pk EXCEPT !.buf = [i \in DOMAIN @ |->
                    IF pos < i /\ i <= pos + 4 THEN write_uint32(u)[i - pos] ELSE @[i]]])

(* pb::write_object of an object that marshals to the bytes inner: as one  *)
(* VARBLOCK through a scratch Serializer, or in place as a BLOCK: write a  *)
(* 0 length, marshal, then replace it with position() - 4 - pos.           *)
write_object(pk, inner, type) ==
    IF type = VARBLOCK THEN [pk EXCEPT !.buf = @ \o write_block(inner, VARBLOCK)]
    ELSE LET pos == position(pk)
             pk1 == [pk EXCEPT !.buf = @ \o write_uint32(0) \o inner]
             r   == replace_uint32(pk1, pos, position(pk1) - 4 - pos)
         IN  IF r.ok THEN r.rest ELSE pk1

(* pb::skip with the BLOCK case reading the size but not the data          *)
(* (mutant of skip).                                                       *)
skipBlockHeader(s, type) ==
    CASE type = VARINT -> read_varint(s)
      [] type = FIXED32 -> read(s, 4)
      [] type = FIXED64 -> read(s, 8)
      [] type = BLOCK -> read_uint32(s)
      [] type = VARBLOCK -> LET z == read_varint(s) IN
                            IF z.ok THEN read(z.rest, Unsigned(z.val, W32)) ELSE z
      [] OTHER -> Thrown(s)

(* pb::skip(upk, type): discard one field's payload; an unknown type       *)
(* throws.                                                                 *)
skip(s, type) ==
    CASE type = VARINT -> read_varint(s)
      [] type = FIXED32 -> read(s, 4)
      [] type = FIXED64 -> read(s, 8)
      [] type = BLOCK -> LET z == read_uint32(s) IN
                         IF z.ok THEN read(z.rest, z.val) ELSE z
      [] type = VARBLOCK -> LET z == read_varint(s) IN
                            IF z.ok THEN read(z.rest, Unsigned(z.val, W32)) ELSE z
      [] OTHER -> Thrown(s)

(* pb::read_block: the length as a uint32 (BLOCK) or varint (VARBLOCK),    *)
(* then a Deserializer over that many bytes.                               *)
read_block(s, type) ==
    LET z == IF type = BLOCK THEN read_uint32(s)
             ELSE IF type = VARBLOCK
                  THEN LET v == read_varint(s) IN [v EXCEPT !.val = Unsigned(@, W32)]
             ELSE Thrown(s)
    IN  IF z.ok THEN read(z.rest, z.val) ELSE z
-----------------------------------------------------------------------------
(* Inputs the codec is checked over: bytes that may follow a varint in a   *)
(* buffer, byte values that differ in the continuation bit and the data    *)
(* bits, and the fields a message is made of.                              *)
Trails == {<<>>, <<0>>, <<128>>, <<255, 1>>}
ByteKinds == {1, 127, 128, 255}
SeqsUpTo(S, n) == UNION {[1 .. k -> S] : k \in 0 .. n}
Keys == {1, 15, 127}
Inners == {<<>>, <<128>>, <<0, 255>>}
(* Values for Prefixes: Pack's own empty buffer, or also a buffer that    *)
(* already held a byte.                                                    *)
FreshBuffer == {<<>>}
UsedBuffer == {<<>>, <<7>>}
VarintValues == {0, -1, 2^(W64 - 1) - 1, -(2^(W64 - 1))}

(* A message field as write_tag and the payload writer put it on a         *)
(* Serializer whose ByteBuffer already held pre: the bytes from offset_ on. *)
Framed(pre, type, key, inner) ==
    LET pk0 == [buf |-> pre \o write_tag(type, key), off |-> Len(pre)]
        pk  == IF type \in {BLOCK, VARBLOCK} THEN write_object(pk0, inner, type)
               ELSE [pk0 EXCEPT !.buf = @ \o inner]
    IN  Drop(pk.buf, pk.off)

Fields ==
    {[type |-> VARINT, key |-> k, inner |-> write_varint(v)] : k \in Keys, v \in VarintValues}
    \cup {[type |-> FIXED32, key |-> k, inner |-> <<1, 2, 3, 4>>] : k \in Keys}
    \cup {[type |-> FIXED64, key |-> k, inner |-> [j \in 1 .. 8 |-> 128 + j]] : k \in Keys}
    \cup {[type |-> ty, key |-> k, inner |-> d] : ty \in {BLOCK, VARBLOCK}, k \in Keys, d \in Inners}

(* write_varint then Varint::read gives back every int64 value and its     *)
(* byte count, whatever follows it in the buffer (read_u64's fast path)    *)
(* and when the buffer ends with it (the slow loop); a buffer cut inside   *)
(* the varint reads as "not enough data", never as a shorter value.  This  *)
(* is the round trip test_varint::testSerialize asserts for a few values.  *)
VarintRoundTrip ==
    \A v \in SignedRange(W64) :
        LET e == write_varint(v)
        IN  /\ \A t \in Trails : Varint_read(e \o t) = Result(Len(e), v, FALSE)
            /\ \A k \in 1 .. Len(e) - 1 : Varint_read(SubSeq(e, 1, k)).n = 0

(* Varint::read never dereferences a byte past the size it is given: the   *)
(* fast path hands read_u64, which trusts the buffer, only buffers of      *)
(* max_varint_bytes or more, or buffers whose last byte ends a varint.     *)
ReadInBounds ==
    \A s \in SeqsUpTo(ByteKinds, MaxVarintBytes + 1) : ~Varint_read(s).over

(* Tags and VARBLOCK lengths are written with write_varint32 (zigzag32,    *)
(* write_u32) and read with the 64-bit read_varint (read_u64, zagzig):     *)
(* every int32 value, the negative ones included, reads back unchanged.    *)
Varint32Compat ==
    \A v \in SignedRange(W32) :
        LET e == write_varint32(v) IN Varint_read(e) = Result(Len(e), v, FALSE)

(* A field written by write_tag and write_varint, a fixed payload, or      *)
(* write_object (VARBLOCK through a scratch buffer, BLOCK by patching its  *)
(* length in place with replace_uint32) is read back by read_tag, whose    *)
(* type and key are the written ones, and pb::skip then consumes exactly   *)
(* that field, leaving what follows; read_block returns the object bytes.  *)
FieldsFramed ==
    \A f \in Fields, pre \in Prefixes, t \in Trails :
        LET tg == read_tag(Framed(pre, f.type, f.key, f.inner) \o t)
            r  == skip(tg.rest, Tag_type(tg.val))
        IN  /\ tg.ok /\ Tag_type(tg.val) = f.type /\ Tag_key(tg.val) = f.key
            /\ r.ok /\ r.rest = t
            /\ f.type \in {BLOCK, VARBLOCK} => read_block(tg.rest, f.type).val = f.inner

(* Tag::sizeoftag(type, key) is the number of bytes write_tag writes for   *)
(* that field ("4 bits [1,15]" take one byte, "11 bits [16,2047]" two).    *)
TagSizeExact ==
    \A type \in {VARINT, FIXED64, VARBLOCK, FIXED32, BLOCK}, key \in 1 .. 127 :
        sizeoftag(type, key) = Len(write_tag(type, key))
=============================================================================

------------------------------- MODULE GBitArray -------------------------------
(***************************************************************************)
(* The operations of GBitArray (bitarray.c) on one array.                  *)
(*                                                                         *)
(* An array is a record.  Its bytes are the set "data" of the positions of *)
(* the 1 bits of the allocated bytes, which go past bit_len up to the end  *)
(* of the last byte: these padding bits are in the code as well, and some  *)
(* operations set or read them.  The iterator (byte_pos, bit_pos) is the   *)
(* one number byte_pos * ByteBits + bit_pos, since 0 <= bit_pos < ByteBits *)
(* always.                                                                 *)
(*                                                                         *)
(* ByteBits is 8 in the code.  Nothing but the place where padding starts  *)
(* depends on it, so the model checker uses smaller bytes.                 *)
(***************************************************************************)
EXTENDS Integers, FiniteSets, FiniteSetsExt

CONSTANT ByteBits   (* The number of bits of a byte, which is positive. *)

(* The value iter_next returns when there is no next bit. *)
NoBit == -1

(* The number of bytes that hold n bits. *)
ByteLen(n) == (n + ByteBits - 1) \div ByteBits

(* All the bit positions of the bytes of an array of n bits. *)
Allocated(n) == 0 .. (ByteLen(n) * ByteBits - 1)

(* The bits the array is meant to hold: the padding left out. *)
Value(a) == {p \in a.data : p < a.bit_len}

(* An iterator that has run past "bytes" bytes; bit_pos is left alone. *)
PastByte(a, bytes) == bytes * ByteBits + (a.pos % ByteBits)

(* Broken: the bytes are reallocated and not cleared. *)
ResizeKeepsBits(a, n) ==
  [bit_len |-> n, data |-> {p \in a.data : p < n}, num_set |-> 0,
   pos |-> PastByte(a, ByteLen(n) + 1)]

Resize(a, n) ==
  [bit_len |-> n, data |-> {}, num_set |-> 0, pos |-> PastByte(a, ByteLen(n) + 1)]

(* GObject zero-fills the fields; init resizes to 0 and new to n bits. *)
New(n) ==
  Resize([bit_len |-> 0, data |-> {}, num_set |-> 0, pos |-> 0], n)

(* The old bytes, padding included, are kept and whole new bytes are zero. *)
Extend(a, num) == [a EXCEPT !.bit_len = @ + num]

(* The copy compares and resizes by bytes, not by bits. *)
Copy(lhs, rhs) ==
  LET fit == IF ByteLen(lhs.bit_len) # ByteLen(rhs.bit_len)
             THEN Resize(lhs, rhs.bit_len)
             ELSE lhs
  IN  [fit EXCEPT !.data = rhs.data, !.num_set = rhs.num_set]

GetBit(a, p) == p \in a.data

SetBit(a, p) ==
  IF p \in a.data
  THEN a
  ELSE [a EXCEPT !.data = @ \union {p}, !.num_set = @ + 1]

(* Broken: the count goes down although the bit was clear already. *)
ClearBitUnchecked(a, p) ==
  [a EXCEPT !.data = @ \ {p}, !.num_set = @ - 1]

ClearBit(a, p) ==
  IF p \in a.data
  THEN [a EXCEPT !.data = @ \ {p}, !.num_set = @ - 1]
  ELSE a

FlipBit(a, p) == IF p \in a.data THEN ClearBit(a, p) ELSE SetBit(a, p)

SetBitVal(a, p, val) == IF val THEN SetBit(a, p) ELSE ClearBit(a, p)

(* Broken: the recount takes the whole last byte. *)
SetRangeCountsPadding(a, start, stop, val) ==
  LET data == IF val THEN a.data \union (start .. stop)
                     ELSE a.data \ (start .. stop)
  IN  [a EXCEPT !.data = data, !.num_set = Cardinality(data)]

(* Broken: no recount after bytes were written whole. *)
SetRangeNoRecount(a, start, stop, val) ==
  [a EXCEPT !.data = IF val THEN @ \union (start .. stop)
                            ELSE @ \ (start .. stop)]

(* Within one byte the count follows the bits changed; over several bytes  *)
(* they are written whole and count_bits counts again.                     *)
SetRange(a, start, stop, val) ==
  LET range == start .. stop
      data  == IF val THEN a.data \union range ELSE a.data \ range
      num   == IF start \div ByteBits = stop \div ByteBits
               THEN a.num_set + Cardinality(data) - Cardinality(a.data)
               ELSE Cardinality({p \in data : p < a.bit_len})
  IN  [a EXCEPT !.data = data, !.num_set = num]

(* Every byte is overwritten, padding included. *)
Reset(a, val) ==
  [a EXCEPT !.data    = IF val THEN Allocated(a.bit_len) ELSE {},
            !.num_set = IF val THEN a.bit_len ELSE 0]

(* The loop over the bytes compares lhs with itself and so never differs. *)
Equal(lhs, rhs) ==
  /\ lhs.bit_len = rhs.bit_len
  /\ lhs.num_set = rhs.num_set

(* The bytes as a base-2 number, last byte most significant. *)
SerialCompare(a, b) ==
  LET differ == (a.data \ b.data) \union (b.data \ a.data)
  IN  IF differ = {} THEN 0 ELSE IF Max(differ) \in b.data THEN -1 ELSE 1

IterReset(a) == [a EXCEPT !.pos = -1]

(* Broken: a padding bit is returned as an index. *)
IterNextIntoPadding(a) ==
  LET ahead == {p \in a.data : p > a.pos}
  IN  IF ahead = {}
      THEN <<[a EXCEPT !.pos = PastByte(a, ByteLen(a.bit_len))], NoBit>>
      ELSE <<[a EXCEPT !.pos = Min(ahead)], Min(ahead)>>

(* Broken: a new byte is entered at its second bit. *)
IterNextSkipsByteStart(a) ==
  LET ahead == {p \in a.data : p > a.pos /\ (p % ByteBits # 0 \/ p = 0)}
  IN  IF ahead = {}
      THEN <<[a EXCEPT !.pos = PastByte(a, ByteLen(a.bit_len))], NoBit>>
      ELSE <<[a EXCEPT !.pos = Min(ahead)], Min(ahead)>>

(* iter_next as the pair of the array it leaves and the index it returns.  *)
IterNext(a) ==
  LET bytes == ByteLen(a.bit_len)
      ahead == {p \in a.data : p > a.pos}
      found == Min(ahead)
      past  == a.pos \div ByteBits >= bytes
  IN  CASE past -> <<a, NoBit>>
        [] ~past /\ ahead = {} -> <<[a EXCEPT !.pos = PastByte(a, bytes)], NoBit>>
        [] ~past /\ ahead # {} -> <<[a EXCEPT !.pos = found],
                                  IF found >= a.bit_len THEN NoBit ELSE found>>

===============================================================================

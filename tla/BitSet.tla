--------------------------------- MODULE BitSet ---------------------------------
(***************************************************************************)
(* What GBitArray promises its users: each array is a set of numbers below *)
(* its length, the number of bits set is the size of that set, arrays are  *)
(* equal when their values are and ordered as the numbers they spell, and  *)
(* an iteration returns the members from the smallest on.                  *)
(*                                                                         *)
(* This is the view every other module takes of a bit array: the           *)
(* eligibility vector and the hint of a test and the strata of an          *)
(* algorithm are plain sets there.  BitArrays shows which ways of using    *)
(* the code keep the promise.                                              *)
(***************************************************************************)
EXTENDS Integers, FiniteSets, FiniteSetsExt

CONSTANTS
  Ids,      (* The arrays.                                        *)
  MaxLen    (* A bound on the length of an array, for TLC.        *)

VARIABLES
  len,      (* The length of each array.                          *)
  bits,     (* The set each array holds.                          *)
  cursor,   (* The member an iteration returned last, -1 when it  *)
            (* has just been reset, Ended when it is over.        *)
  out       (* The result of the last operation, 0 if it has none *)

vars == <<len, bits, cursor, out>>

Ended == MaxLen

Bit(b) == IF b THEN 1 ELSE 0

(* The base-2 number that a set below n spells, its member p worth 2^p:    *)
(* read from the highest position on.                                      *)
Number(n, S) ==
  LET read[k \in 0 .. n] == IF k = 0 THEN 0 ELSE 2 * read[k - 1] + Bit(n - k \in S)
  IN  read[n]

Init ==
  /\ len \in [Ids -> 0 .. MaxLen]
  /\ bits   = [a \in Ids |-> {}]
  /\ cursor = [a \in Ids |-> Ended]
  /\ out    = 0

(* resize: every bit is cleared and no iteration survives. *)
Resize(a, n) ==
  /\ len'    = [len EXCEPT ![a] = n]
  /\ bits'   = [bits EXCEPT ![a] = {}]
  /\ cursor' = [cursor EXCEPT ![a] = Ended]
  /\ out'    = 0

(* extend: the members are kept and none is added. *)
Extend(a, num) ==
  /\ len' = [len EXCEPT ![a] = @ + num]
  /\ out' = 0
  /\ UNCHANGED <<bits, cursor>>

Copy(l, r) ==
  /\ len'  = [len EXCEPT ![l] = len[r]]
  /\ bits' = [bits EXCEPT ![l] = bits[r]]
  /\ out'  = 0
  /\ UNCHANGED cursor

(* The operations that only change members: set and clear a bit, a range,  *)
(* or all of them.                                                         *)
Put(a, S, val) ==
  /\ S \subseteq 0 .. len[a] - 1
  /\ bits' = [bits EXCEPT ![a] = IF val THEN @ \union S ELSE @ \ S]
  /\ out'  = 0
  /\ UNCHANGED <<len, cursor>>

Flip(a, p) ==
  /\ bits' = [bits EXCEPT ![a] = IF p \in @ THEN @ \ {p} ELSE @ \union {p}]
  /\ out'  = Bit(p \notin bits[a])
  /\ UNCHANGED <<len, cursor>>

Count(a) ==
  /\ out' = Cardinality(bits[a])
  /\ UNCHANGED <<len, bits, cursor>>

(* "FALSE if not the same length, TRUE if they have the same value"        *)
(* (bitarray.c:357-359).                                                   *)
Equal(l, r) ==
  /\ out' = Bit(len[l] = len[r] /\ bits[l] = bits[r])
  /\ UNCHANGED <<len, bits, cursor>>

(* "0 if a == b, -1 if a < b, and 1 if a > b", the arrays taken as base-2  *)
(* integers (bitarray.c:377-380).                                          *)
Compare(l, r) ==
  LET a == Number(len[l], bits[l])
      b == Number(len[r], bits[r])
  IN  /\ len[l] = len[r]
      /\ \/ a < b /\ out' = -1
         \/ a = b /\ out' = 0
         \/ a > b /\ out' = 1
      /\ UNCHANGED <<len, bits, cursor>>

IterReset(a) ==
  /\ cursor' = [cursor EXCEPT ![a] = -1]
  /\ out'    = 0
  /\ UNCHANGED <<len, bits>>

IterNext(a) ==
  LET ahead == {p \in bits[a] : p > cursor[a]}
  IN  /\ cursor[a] # Ended
      /\ \/ /\ ahead # {}
            /\ cursor' = [cursor EXCEPT ![a] = Min(ahead)]
            /\ out'    = Min(ahead)
         \/ /\ ahead = {}
            /\ cursor' = [cursor EXCEPT ![a] = Ended]
            /\ out'    = -1
      /\ UNCHANGED <<len, bits>>

Next ==
  \E a \in Ids :
    \/ \E n \in 0 .. MaxLen : Resize(a, n) \/ Extend(a, n)
    \/ \E b \in Ids : Copy(a, b) \/ Equal(a, b) \/ Compare(a, b)
    \/ \E S \in SUBSET (0 .. len[a] - 1), val \in BOOLEAN : Put(a, S, val)
    \/ \E p \in 0 .. len[a] - 1 : Flip(a, p)
    \/ Count(a)
    \/ IterReset(a)
    \/ IterNext(a)

Spec == Init /\ [][Next]_vars

===============================================================================

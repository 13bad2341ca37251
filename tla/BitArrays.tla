------------------------------- MODULE BitArrays -------------------------------
(***************************************************************************)
(* A few GBitArray objects and the calls made on them, one action per      *)
(* function of bitarray.c that changes an array or whose result depends on *)
(* more than one bit.                                                      *)
(*                                                                         *)
(* A program uses some of the arrays and some of the functions.  Three     *)
(* such usages occur in the library:                                       *)
(*   - the eligibility vectors and the strata (test.c, stratify.c): the    *)
(*     length never changes, and vectors are filled and copied;            *)
(*   - the attributes of points (point.c, class_rates.c): the length never *)
(*     changes, and arrays are copied and compared, but never filled;      *)
(*   - the characteristics (administrand.c): arrays are resized and        *)
(*     extended, but never filled with ones and never copied.              *)
(* Each keeps the promise of BitSet, but for equal.  A program that mixes  *)
(* them would not: extend, copy and serial_compare go by bytes, and show   *)
(* the padding bits a fill has set.                                        *)
(***************************************************************************)
EXTENDS GBitArray

CONSTANTS
  Ids,      (* The arrays.                                           *)
  MaxLen,   (* A bound on the length of an array, for TLC.           *)
  Usages    (* What programs use: records of                         *)
            (*   arrays  the arrays, a subset of Ids,                *)
            (*   longest the length none of them exceeds,            *)
            (*   calls   the names of the functions.                 *)

UsagesInRange ==
  /\ MaxLen \in Nat
  /\ \A u \in Usages : u.arrays \subseteq Ids /\ u.longest \in 1 .. MaxLen

(* What keeps the promise of BitSet: a program that extends arrays neither *)
(* fills nor copies any, and one that copies does not resize them.         *)
Unmixed ==
  \A u \in Usages :
    /\ "extend" \in u.calls => "fill" \notin u.calls /\ "copy" \notin u.calls
    /\ "resize" \in u.calls => "copy" \notin u.calls

(* What keeps comparisons as documented: serial_compare sees the padding   *)
(* bits that a fill sets, and equal goes by the lengths and counts alone,  *)
(* which tells arrays of one bit apart and no others.                      *)
Comparable(u) ==
  /\ "compare" \in u.calls => "fill" \notin u.calls
  /\ "equal" \in u.calls => u.longest = 1

VARIABLES
  usage,      (* The usage of the program at hand, fixed.                 *)
  arr,        (* The arrays.                                              *)
  iterating,  (* Whether an iteration is under way: reset, and not ended. *)
  out         (* The result of the last call, 0 if it has none.           *)

vars == <<usage, arr, iterating, out>>

Positions(a) == 0 .. arr[a].bit_len - 1

(* The arrays are created with one length, that of the bank.               *)
Init ==
  /\ usage \in Usages
  /\ \E n \in 1 .. usage.longest : arr = [a \in Ids |-> New(n)]
  /\ iterating = [a \in Ids |-> FALSE]
  /\ out = 0

Becomes(a, array, result) ==
  /\ a \in usage.arrays
  /\ arr' = [arr EXCEPT ![a] = array]
  /\ out' = result
  /\ UNCHANGED usage

(***************************************************************************)
(* The functions.  The g_return_if_fail guards on positions are conjuncts. *)
(***************************************************************************)

CallResize(a, n) ==
  /\ "resize" \in usage.calls
  /\ n <= usage.longest
  /\ Becomes(a, Resize(arr[a], n), 0)
  /\ iterating' = [iterating EXCEPT ![a] = FALSE]

CallExtend(a, num) ==
  /\ "extend" \in usage.calls
  /\ arr[a].bit_len + num <= usage.longest
  /\ Becomes(a, Extend(arr[a], num), 0)
  /\ UNCHANGED iterating

CallCopy(l, r) ==
  /\ "copy" \in usage.calls
  /\ Becomes(l, Copy(arr[l], arr[r]), 0)
  /\ UNCHANGED iterating

CallSetBitVal(a, p, val) ==
  /\ p < arr[a].bit_len
  /\ Becomes(a, SetBitVal(arr[a], p, val), 0)
  /\ UNCHANGED iterating

CallFlipBit(a, p) ==
  /\ p < arr[a].bit_len
  /\ Becomes(a, FlipBit(arr[a], p), IF GetBit(FlipBit(arr[a], p), p) THEN 1 ELSE 0)
  /\ UNCHANGED iterating

CallSetRange(a, start, stop, val) ==
  /\ start <= stop
  /\ stop < arr[a].bit_len
  /\ Becomes(a, SetRange(arr[a], start, stop, val), 0)
  /\ UNCHANGED iterating

CallReset(a, val) ==
  /\ val => "fill" \in usage.calls
  /\ Becomes(a, Reset(arr[a], val), 0)
  /\ UNCHANGED iterating

CallGetNumSet(a) ==
  /\ Becomes(a, arr[a], arr[a].num_set)
  /\ UNCHANGED iterating

CallEqual(l, r) ==
  /\ "equal" \in usage.calls
  /\ Becomes(l, arr[l], IF Equal(arr[l], arr[r]) THEN 1 ELSE 0)
  /\ UNCHANGED iterating

CallSerialCompare(l, r) ==
  /\ "compare" \in usage.calls
  /\ arr[l].bit_len = arr[r].bit_len
  /\ Becomes(l, arr[l], SerialCompare(arr[l], arr[r]))
  /\ UNCHANGED iterating

CallIterReset(a) ==
  /\ Becomes(a, IterReset(arr[a]), 0)
  /\ iterating' = [iterating EXCEPT ![a] = TRUE]

(* Every loop of the library stops at the first -1, and none iterates over *)
(* an array of no bits, for which iter_next would read from NULL.          *)
CallIterNext(a) ==
  LET next == IterNext(arr[a])
  IN  /\ iterating[a]
      /\ arr[a].bit_len > 0
      /\ Becomes(a, next[1], next[2])
      /\ iterating' = [iterating EXCEPT ![a] = next[2] # NoBit]

Next ==
  \E a \in Ids :
    \/ \E n \in 0 .. MaxLen : CallResize(a, n) \/ CallExtend(a, n)
    \/ \E b \in Ids : CallCopy(a, b) \/ CallEqual(a, b) \/ CallSerialCompare(a, b)
    \/ \E p \in Positions(a), val \in BOOLEAN : CallSetBitVal(a, p, val)
    \/ \E p \in Positions(a) : CallFlipBit(a, p)
    \/ \E p, q \in Positions(a), val \in BOOLEAN : CallSetRange(a, p, q, val)
    \/ \E val \in BOOLEAN : CallReset(a, val)
    \/ CallGetNumSet(a)
    \/ CallIterReset(a)
    \/ CallIterNext(a)

Spec == Init /\ [][Next]_vars

-------------------------------------------------------------------------------

(* num_set, which the selection algorithms draw random numbers from and    *)
(* which every caller reads instead of counting, is the number of bits     *)
(* below bit_len that are set: the incremental updates, the recount of     *)
(* set_range and the padding bits of the last byte never disagree.         *)
NumSetExact == \A a \in Ids : arr[a].num_set = Cardinality(Value(arr[a]))

(* The arrays implement sets: every result (the new value of a flipped     *)
(* bit, the number of bits set, the order of two arrays, each index of an  *)
(* iteration interleaved with any other call) is the one BitSet allows.    *)
Sets == INSTANCE BitSet WITH
  len    <- [a \in Ids |-> arr[a].bit_len],
  bits   <- [a \in Ids |-> Value(arr[a])],
  cursor <- [a \in Ids |-> IF iterating[a] THEN arr[a].pos ELSE MaxLen]

RefinesBitSet == Sets!Spec

(* Each call of equal answers as documented: "TRUE if lhs and rhs have the *)
(* same value" (bitarray.c:359).  It does not: the loop over the bytes     *)
(* compares lhs with itself (bitarray.c:368), so that arrays of two bits   *)
(* or more with equally many set are all equal.                            *)
DocumentedEqual == [][\A l, r \in Ids : CallEqual(l, r) => Sets!Equal(l, r)]_vars

===============================================================================

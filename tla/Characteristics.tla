------------------------------ MODULE Characteristics ------------------------------
(***************************************************************************)
(* The characteristics of administrands (administrand.c): one table gives  *)
(* each registered characteristic a bit position, and every administrand   *)
(* that exists has a bit array of the length of the table.                 *)
(*                                                                         *)
(* administrands, the tree of the objects that exist, is the domain of     *)
(* characteristics.  Objects are compared by their address, modelled as    *)
(* identity.                                                               *)
(***************************************************************************)
EXTENDS Integers, Sequences, FiniteSets

CONSTANTS
  ByteBits,        (* Bits of a byte, see GBitArray.                       *)
  Objects,         (* The administrands a program creates.                 *)
  Quarks,          (* The characteristics.                                 *)
  MaxRegistered,   (* Bound: the registrations between two resets.         *)
  RegisterAgain    (* Whether the program registers a characteristic that  *)
                   (* has been registered before.                          *)

Bits == INSTANCE GBitArray

VARIABLES
  quark_to_char,   (* The hash table: the position of each characteristic. *)
  char_to_quark,   (* The array: the characteristic at each position.      *)
  characteristics, (* The bit array of each administrand that exists.      *)
  iterated,        (* What an iteration over the characteristics yielded.  *)
  having           (* History: the characteristics the program gave each.  *)

table == <<quark_to_char, char_to_quark>>
vars == <<table, characteristics, iterated, having>>

NoQuark == "0"      (* The quark 0, always in the table at position 0.     *)
NoObject == "none"
NotIterated == [of |-> NoObject, found |-> {}]

Registered == DOMAIN quark_to_char
Existing == DOMAIN characteristics

Init ==
  /\ quark_to_char = [q \in {NoQuark} |-> 0]
  /\ char_to_quark = <<NoQuark>>
  /\ characteristics = <<>>
  /\ iterated = NotIterated
  /\ having = [a \in Objects |-> {}]

(* The position a lookup of q gives: 0 if it is not in the table.          *)
Position(q) == IF q \in Registered THEN quark_to_char[q] ELSE 0

With(f, x, y) == [z \in DOMAIN f \union {x} |-> IF z = x THEN y ELSE f[z]]

-------------------------------------------------------------------------------

(* oscats_administrand_init: new administrands have the table's length.    *)
Create(a) ==
  /\ a \notin Existing
  /\ characteristics' = With(characteristics, a, Bits!New(Cardinality(Registered)))
  /\ having' = [having EXCEPT ![a] = {}]
  /\ UNCHANGED <<table, iterated>>

Dispose(a) ==
  /\ a \in Existing
  /\ characteristics' = [b \in Existing \ {a} |-> characteristics[b]]
  /\ having' = [having EXCEPT ![a] = {}]
  /\ iterated' = NotIterated
  /\ UNCHANGED table

(* The table with q at the position after the last, and the bit arrays of  *)
(* all administrands one bit longer.                                       *)
Registering(q, arrays) ==
  /\ Len(char_to_quark) <= MaxRegistered
  /\ quark_to_char' = With(quark_to_char, q, Cardinality(Registered))
  /\ char_to_quark' = Append(char_to_quark, q)
  /\ arrays = [a \in Existing |-> Bits!Extend(characteristics[a], 1)]

(* oscats_administrand_register_characteristic *)
Register(q) ==
  /\ RegisterAgain \/ q \notin Registered
  /\ Registering(q, characteristics')
  /\ UNCHANGED <<iterated, having>>

(* oscats_administrand_reset_characteristics *)
ResetTable ==
  /\ quark_to_char' = [q \in {NoQuark} |-> 0]
  /\ char_to_quark' = <<NoQuark>>
  /\ characteristics' = [a \in Existing |-> Bits!Resize(characteristics[a], 1)]
  /\ having' = [a \in Objects |-> {}]
  /\ iterated' = NotIterated

(* Broken: the position is looked up before q is registered only.          *)
SetStale(a, q) ==
  /\ a \in Existing
  /\ \/ /\ Position(q) # 0
        /\ characteristics' = [characteristics EXCEPT ![a] = Bits!SetBit(@, Position(q))]
        /\ UNCHANGED table
     \/ /\ Position(q) = 0
        /\ \E arrays \in {[b \in Existing |-> Bits!Extend(characteristics[b], 1)]} :
             /\ Registering(q, arrays)
             /\ characteristics' =
                  [arrays EXCEPT ![a] = Bits!SetBit(@, Position(q))]
  /\ having' = [having EXCEPT ![a] = @ \union {q}]
  /\ UNCHANGED iterated

(* oscats_administrand_set_characteristic: registers q first if its        *)
(* position is 0.                                                          *)
Set(a, q) ==
  /\ a \in Existing
  /\ \/ /\ Position(q) # 0
        /\ characteristics' = [characteristics EXCEPT ![a] = Bits!SetBit(@, Position(q))]
        /\ UNCHANGED table
     \/ /\ Position(q) = 0
        /\ \E arrays \in {[b \in Existing |-> Bits!Extend(characteristics[b], 1)]} :
             /\ Registering(q, arrays)
             /\ characteristics' =
                  [arrays EXCEPT ![a] = Bits!SetBit(@, Cardinality(Registered))]
  /\ having' = [having EXCEPT ![a] = @ \union {q}]
  /\ UNCHANGED iterated

(* oscats_administrand_clear_characteristic *)
Clear(a, q) ==
  /\ a \in Existing
  /\ characteristics' = IF Position(q) = 0 THEN characteristics
                        ELSE [characteristics EXCEPT ![a] = Bits!ClearBit(@, Position(q))]
  /\ having' = [having EXCEPT ![a] = @ \ {q}]
  /\ UNCHANGED <<table, iterated>>

(* oscats_administrand_clear_characteristics *)
ClearAll(a) ==
  /\ a \in Existing
  /\ characteristics' = [characteristics EXCEPT ![a] = Bits!Reset(@, FALSE)]
  /\ having' = [having EXCEPT ![a] = {}]
  /\ UNCHANGED <<table, iterated>>

(* oscats_administrand_has_characteristic *)
Has(a, q) == Bits!GetBit(characteristics[a], Position(q))

(* The array and what was returned last, after iter_reset and each of some *)
(* calls of iter_next.                                                     *)
Steps(array, calls) ==
  LET step[n \in 0 .. calls] ==
        IF n = 0 THEN [array |-> Bits!IterReset(array), at |-> 0]
        ELSE LET r == Bits!IterNext(step[n - 1].array)
             IN  [array |-> r[1], at |-> r[2]]
  IN  step

(* iter_reset, and iter_next until it returns 0.                           *)
Iterate(a) ==
  LET calls == Len(char_to_quark) + 1
      step  == Steps(characteristics[a], calls)
      last  == CHOOSE n \in 1 .. calls :
                 /\ step[n].at = Bits!NoBit
                 /\ \A m \in 1 .. n - 1 : step[m].at # Bits!NoBit
  IN  /\ a \in Existing
      /\ iterated' = [of |-> a,
                      found |-> {char_to_quark[step[n].at + 1] : n \in 1 .. last - 1}]
      /\ characteristics' = [characteristics EXCEPT ![a] = step[last].array]
      /\ UNCHANGED <<table, having>>

Next ==
  \/ \E a \in Objects : Create(a) \/ Dispose(a) \/ ClearAll(a) \/ Iterate(a)
  \/ \E q \in Quarks : Register(q)
  \/ \E a \in Objects, q \in Quarks : Set(a, q) \/ Clear(a, q)
  \/ ResetTable

Spec == Init /\ [][Next]_vars

-------------------------------------------------------------------------------

(* An administrand has exactly the characteristics given to it, those that *)
(* are not in the table not among them.                                    *)
HasWhatWasSet ==
  \A a \in Existing, q \in Quarks : Has(a, q) <=> q \in having[a]

(* An iteration yields exactly those.                                      *)
IterationComplete ==
  [][iterated' # iterated /\ iterated'.of # NoObject
       => iterated'.found = having[iterated'.of]]_vars

===============================================================================

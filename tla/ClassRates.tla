------------------------------- MODULE ClassRates -------------------------------
(***************************************************************************)
(* The rates of correct classification (OscatsAlgClassRates,               *)
(* class_rates.c): at the end of each test the true and the estimated      *)
(* attributes of the examinee are compared, and the outcome is counted     *)
(* over all examinees and by true pattern.                                 *)
(*                                                                         *)
(* One examinee object stands for all: before each test the program gives  *)
(* it whatever points and default names it likes.  Points (point.c) have   *)
(* binary dimensions only, in the bit array "bin"; their addresses are the *)
(* domain of bin, and a released address is used again.                    *)
(***************************************************************************)
EXTENDS Examinee, Naturals, Sequences, FiniteSets

CONSTANTS
  ByteBits,      (* Bits of a byte, see GBitArray.                         *)
  Addresses,     (* Where points are: one more than there are names.       *)
  AlgNames,      (* The names the algorithm may be given, or NoName.       *)
  Spaces,        (* The numbers of dimensions of the spaces there are.     *)
  MaxExaminees   (* Bound: the examinees tested.                           *)

ASSUME ClassRatesAssumption ==
  /\ ByteBits \in Nat \ {0}
  /\ AlgNames \subseteq Names \union {NoName}
  /\ Spaces \subseteq Nat \ {0}
  /\ NoPoint \notin Addresses
  /\ Cardinality(Addresses) > Cardinality(Names)

Bits == INSTANCE GBitArray

VARIABLES
  e,       (* The examinee.                                                *)
  bin,     (* The bit array of each point there is.                        *)
  alg,     (* The OscatsAlgClassRates object.                              *)
  tested   (* History: the true and the estimated patterns of the tests    *)
           (* that ended with points to compare.                           *)

vars == <<e, bin, alg, tested>>

(* correct_attribute is NULL until the first examinee.  The tree is a set  *)
(* of nodes.                                                               *)
NewAlg(simKey, estKey) ==
  [simKey |-> simKey, estKey |-> estKey, num_examinees |-> 0, num_attrs |-> 0,
   correct_attribute |-> <<>>, correct_patterns |-> 0, misclassify_hist |-> <<>>,
   rate_by_pattern |-> {}]

Init ==
  /\ e = NewExaminee
  /\ bin = <<>>
  /\ alg \in {NewAlg(s, t) : s, t \in AlgNames}
  /\ tested = <<>>

-------------------------------------------------------------------------------

(* oscats_examinee_init_theta: a new point, its bits clear, takes the name *)
(* and the point that had it is freed.                                     *)
InitTheta(name, num_bin) ==
  LET point == CHOOSE p \in Addresses : p \notin DOMAIN bin
  IN  /\ e' = SetTheta(e, name, point)
      /\ bin' = [p \in Owned(e') |-> IF p = point THEN Bits!New(num_bin) ELSE bin[p]]
      /\ UNCHANGED <<alg, tested>>

ChangeSimKey(name) ==
  /\ e' = SetSimKey(e, name)
  /\ UNCHANGED <<bin, alg, tested>>

ChangeEstKey(name) ==
  /\ e' = SetEstKey(e, name)
  /\ UNCHANGED <<bin, alg, tested>>

(* oscats_point_set_bin on the point of a name.                            *)
SetBin(name, dim, value) ==
  LET point == GetTheta(e, name)
  IN  /\ point # NoPoint
      /\ dim < bin[point].bit_len
      /\ bin' = [bin EXCEPT ![point] = Bits!SetBitVal(@, dim, value)]
      /\ UNCHANGED <<e, alg, tested>>

(* oscats_space_compatible                                                 *)
Compatible(p, q) ==
  p # NoPoint /\ q # NoPoint /\ bin[p].bit_len = bin[q].bit_len

(* oscats_point_copy                                                       *)
CopyPoint(to, from) ==
  LET lhs == GetTheta(e, to)
      rhs == GetTheta(e, from)
  IN  /\ Compatible(lhs, rhs)
      /\ bin' = [bin EXCEPT ![lhs] = Bits!Copy(@, bin[rhs])]
      /\ UNCHANGED <<e, alg, tested>>

-------------------------------------------------------------------------------

(* The points compared: the algorithm's own names, or the cached defaults. *)
AlphaTrue == IF alg.simKey # NoName THEN GetTheta(e, alg.simKey) ELSE e.simTheta
AlphaHat == IF alg.estKey # NoName THEN GetTheta(e, alg.estKey) ELSE e.estTheta

(* Broken: the tree is ordered by equal.                                   *)
LookupEqual(tree, attr) == {node \in tree : Bits!Equal(attr, node.attr)}

(* g_tree_lookup: the node of attr, if there is one.                       *)
Lookup(tree, attr) == {node \in tree : Bits!SerialCompare(attr, node.attr) = 0}

(* The tree with one more examinee counted under attr, and counted as      *)
(* classified correctly if it was.                                         *)
Tabulated(tree, attr, correct) ==
  LET found == Lookup(tree, attr)
      node  == IF found = {} THEN [attr |-> attr, tested |-> 0, correct |-> 0]
               ELSE CHOOSE n \in found : TRUE
  IN  (tree \ found) \union
        {[node EXCEPT !.tested  = @ + 1,
                      !.correct = IF correct THEN @ + 1 ELSE @]}

(* The counters with one more examinee in them.                            *)
Counted(data, truth, hat) ==
  LET n      == data.num_attrs
      agree  == {i \in 0 .. n - 1 : Bits!GetBit(truth, i) = Bits!GetBit(hat, i)}
      num    == n - Cardinality(agree)
  IN  [data EXCEPT
        !.num_examinees     = @ + 1,
        !.correct_attribute = [i \in 0 .. n - 1 |-> IF i \in agree THEN @[i] + 1 ELSE @[i]],
        !.correct_patterns  = IF num = 0 THEN @ + 1 ELSE @,
        !.misclassify_hist[num] = @ + 1,
        !.rate_by_pattern   = Tabulated(@, truth, num = 0)]

(* Broken: new counters for an examinee of another number of attributes.   *)
AllocatedAgain(data, n) ==
  IF data.num_attrs = n THEN data
  ELSE [data EXCEPT !.num_attrs = n,
                    !.correct_attribute = [i \in 0 .. n - 1 |-> 0],
                    !.misclassify_hist  = [i \in 0 .. n |-> 0]]

(* The counters allocated for n attributes, unless they are there.         *)
Allocated(data, n) ==
  IF data.correct_attribute # <<>> THEN data
  ELSE [data EXCEPT !.num_attrs = n,
                    !.correct_attribute = [i \in 0 .. n - 1 |-> 0],
                    !.misclassify_hist  = [i \in 0 .. n |-> 0]]

(* What the program takes for the pattern under a name, and under the      *)
(* default key if the algorithm was given none; for the history.           *)
PatternOf(name, key) == bin[GetTheta(e, IF name # NoName THEN name ELSE key)]

(* The handler of ::finalize.  An examinee of another number of attributes *)
(* than the first is not counted.                                          *)
Finalize ==
  /\ Len(tested) < MaxExaminees
  /\ Compatible(AlphaTrue, AlphaHat)
  /\ LET truth == bin[AlphaTrue]
         data  == Allocated(alg, truth.bit_len)
     IN  alg' = IF data.num_attrs = truth.bit_len
                THEN Counted(data, truth, bin[AlphaHat]) ELSE data
  /\ tested' = Append(tested, [truth |-> PatternOf(alg.simKey, e.simKey),
                               hat   |-> PatternOf(alg.estKey, e.estKey)])
  /\ UNCHANGED <<e, bin>>

Next ==
  \/ \E name \in Names, num_bin \in Spaces : InitTheta(name, num_bin)
  \/ \E name \in Names \union {NoName} : ChangeSimKey(name) \/ ChangeEstKey(name)
  \/ \E name \in Names, value \in BOOLEAN :
       \E dim \in 0 .. Bits!Max(Spaces) - 1 : SetBin(name, dim, value)
  \/ \E to, from \in Names : CopyPoint(to, from)
  \/ Finalize

Spec == Init /\ [][Next]_vars

-------------------------------------------------------------------------------

(* The default points are those under the default names, however names and *)
(* points were changed; no cached pointer is left to a point released.     *)
ThetaCached ==
  /\ e.simTheta = GetTheta(e, e.simKey)
  /\ e.estTheta = GetTheta(e, e.estKey)
  /\ {e.simTheta, e.estTheta} \ {NoPoint} \subseteq DOMAIN bin

(* The tests that count: those with as many attributes as the first.       *)
Comparable == {t \in DOMAIN tested : tested[t].truth.bit_len = tested[1].truth.bit_len}

(* The dimensions on which the classification of test t was wrong.         *)
Wrong(t) == (Bits!Value(tested[t].truth) \ Bits!Value(tested[t].hat))
            \union (Bits!Value(tested[t].hat) \ Bits!Value(tested[t].truth))

(* The counters are those of the examinees tested: how many, how many with *)
(* each attribute right, with all right, and with each number wrong.       *)
RatesExact ==
  /\ alg.num_examinees = Cardinality(Comparable)
  /\ alg.correct_patterns = Cardinality({t \in Comparable : Wrong(t) = {}})
  /\ \A i \in 0 .. alg.num_attrs - 1 :
       alg.correct_attribute[i] = Cardinality({t \in Comparable : i \notin Wrong(t)})
  /\ tested # <<>> => \A num \in 0 .. alg.num_attrs :
       alg.misclassify_hist[num] = Cardinality({t \in Comparable : Cardinality(Wrong(t)) = num})

(* Asking for a pattern finds one node, and the examinees who have it, by  *)
(* whatever point the question is asked and however the examinees' own     *)
(* points changed since.                                                   *)
PatternsCounted ==
  tested # <<>> =>
    \A pattern \in SUBSET (0 .. alg.num_attrs - 1) :
      LET asked == [Bits!New(alg.num_attrs) EXCEPT !.data = pattern]
          have  == {t \in Comparable : Bits!Value(tested[t].truth) = pattern}
          found == Lookup(alg.rate_by_pattern, asked)
      IN  IF have = {} THEN found = {}
          ELSE \E node \in found :
                 /\ found = {node}
                 /\ node.tested = Cardinality(have)
                 /\ node.correct = Cardinality({t \in have : Wrong(t) = {}})

===============================================================================

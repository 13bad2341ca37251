------------------------------ MODULE StratifyCalls ------------------------------
(***************************************************************************)
(* A program that stratifies one bank again and again, with any number of  *)
(* strata and blocks.  CatTest iterates over the strata.                   *)
(***************************************************************************)
EXTENDS Stratify, Integers

CONSTANTS
  MaxParts,    (* Bound: strata and blocks of one call.                    *)
  FValues,     (* The values of the stratification criterion.              *)
  BlockValues  (* The values of the block criterion.                       *)

ASSUME CriteriaAssumption ==
  /\ FValues \subseteq Int
  /\ BlockValues \subseteq Int

VARIABLES
  stratify,    (* The object.                                              *)
  f, block,    (* The criteria, fixed for the bank.                        *)
  n_blocks     (* History: the blocks of the last stratification.          *)

vars == <<stratify, f, block, n_blocks>>

Init ==
  /\ stratify = Unstratified
  /\ f \in [Items -> FValues]
  /\ block \in [Items -> BlockValues]
  /\ n_blocks = 0

Restratify(n, m) ==
  /\ stratify' = Stratified(stratify, n, f, m, block)
  /\ n_blocks' = IF m > 1 THEN m ELSE 1
  /\ UNCHANGED <<f, block>>

Next == \E n \in 1 .. MaxParts, m \in 0 .. MaxParts : Restratify(n, m)

Spec == Init /\ [][Next]_vars

-------------------------------------------------------------------------------

(* Every item of the bank is in exactly one stratum, whatever the numbers  *)
(* of strata and blocks and however often the bank was stratified before.  *)
StrataPartition ==
  n_blocks # 0 =>
    \A i \in Items : \E s \in DOMAIN stratify.strata :
      /\ i \in stratify.strata[s]
      /\ \A t \in DOMAIN stratify.strata \ {s} : i \notin stratify.strata[t]

(* What "stratify using the criterion f within blocks" means: the bank can *)
(* be cut, in the order of the block criterion, into blocks whose sizes    *)
(* differ by at most 1, and within each block the strata have sizes that   *)
(* differ by at most 1 and are in the order of f.                          *)
StratifiedWithinBlocks ==
  LET strata == stratify.strata
      differByOne(S, T) ==
        /\ Cardinality(S) <= Cardinality(T) + 1
        /\ Cardinality(T) <= Cardinality(S) + 1
      usable == IF n_blocks > 1 THEN block ELSE [i \in Items |-> 0]
  IN  n_blocks # 0 =>
        \E part \in [Items -> 1 .. n_blocks] :
          LET of(b) == {i \in Items : part[i] = b}
          IN  /\ \A i, j \in Items : part[i] < part[j] => usable[i] <= usable[j]
              /\ \A b, c \in 1 .. n_blocks : differByOne(of(b), of(c))
              /\ \A b \in 1 .. n_blocks : \A s, t \in DOMAIN strata :
                   /\ differByOne(of(b) \intersect strata[s], of(b) \intersect strata[t])
                   /\ s < t => \A i \in of(b) \intersect strata[s],
                                  j \in of(b) \intersect strata[t] : f[i] <= f[j]

===============================================================================

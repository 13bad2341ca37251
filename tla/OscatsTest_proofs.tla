--------------------------- MODULE OscatsTest_proofs ---------------------------
(***************************************************************************)
(* Theorems about the administration loop, for every bank, every bound and *)
(* every behaviour of the handlers.                                        *)
(***************************************************************************)
EXTENDS OscatsTest, TLAPS

(* The seen_items array of the code is exactly what was administered.      *)
SeenIsGiven == seen = given

(* The loop never runs without a hint: the call supplies one.              *)
HintReady == pc # "idle" => hint \in SUBSET Items

(* An item that can still be selected, approved or administered has not    *)
(* been seen.  This is what keeps NoItemTwice true: the items seen are     *)
(* removed once per try, several signals before the item selected is added *)
(* to them.                                                                *)
EligibleUnseen ==
  /\ pc \in {"filter", "select"} => eligible \intersect Seen = {}
  /\ pc = "approve" => item_index \notin Seen
  /\ pc = "administer" => item_index \in Items \ Seen

(* The loop warns only on its way out.                                     *)
WarnedAtEnd == pc \notin {"finalize", "idle"} => warned = "none"

(* The inductive invariant. *)
IInv ==
  /\ TypeOK
  /\ SeenIsGiven
  /\ HintReady
  /\ EligibleUnseen
  /\ NoItemTwice
  /\ ItemsCounted
  /\ TriesCounted
  /\ WarnedAtEnd

LEMMA NoItemFacts == NoItem \notin Items /\ Items \subseteq Int /\ NoItem \in Int
  BY NumItemsAssumption DEF NoItem, Items

LEMMA InitIInv == Init => IInv
  <1> SUFFICES ASSUME Init PROVE IInv
    OBVIOUS
  <1>1. TypeOK
    BY ItermaxAssumption DEF Init, TypeOK
  <1>2. SeenIsGiven /\ HintReady /\ EligibleUnseen /\ NoItemTwice
    BY DEF Init, SeenIsGiven, HintReady, EligibleUnseen, NoItemTwice
  <1>3. ItemsCounted /\ TriesCounted /\ WarnedAtEnd
    BY ItermaxAssumption DEF Init, ItemsCounted, TriesCounted, WarnedAtEnd
  <1> QED
    BY <1>1, <1>2, <1>3 DEF IInv

(* Each step of the loop keeps the type invariant.                         *)
LEMMA TypeStep == IInv /\ [Next]_vars => TypeOK'
  <1> SUFFICES ASSUME IInv, [Next]_vars
               PROVE  TypeOK'
    OBVIOUS
  <1> USE ItermaxAssumption DEF IInv, TypeOK, taken, loop, vars
  <1>1. CASE Administer
    BY <1>1 DEF Administer
  <1>2. ASSUME NEW h \in SUBSET Items, SetHint(h) PROVE TypeOK'
    BY <1>2 DEF SetHint
  <1>3. CASE EmitInitialize
    BY <1>3 DEF EmitInitialize
  <1>4. CASE Propose
    BY <1>4 DEF Propose, TriesCounted, HintReady, FreshItems
  <1>5. ASSUME NEW left \in Filtered, EmitFilter(left) PROVE TypeOK'
    BY <1>5 DEF EmitFilter, Filtered
  <1>6. ASSUME NEW choice \in Selectable, EmitSelect(choice)
        PROVE  TypeOK'
    BY <1>6 DEF EmitSelect, Selectable
  <1>7. ASSUME NEW reselect \in Approvals, EmitApprove(reselect) PROVE TypeOK'
    BY <1>7 DEF EmitApprove
  <1>8. ASSUME NEW record \in BOOLEAN, EmitAdminister(record) PROVE TypeOK'
    BY <1>8 DEF EmitAdminister, EligibleUnseen
  <1>9. CASE EmitAdministered
    BY <1>9 DEF EmitAdministered
  <1>10. ASSUME NEW stop \in BOOLEAN, EmitStopcrit(stop) PROVE TypeOK'
    BY <1>10 DEF EmitStopcrit, AnotherItem, ItemsCounted
  <1>11. CASE EmitFinalize
    BY <1>11 DEF EmitFinalize
  <1>12. CASE UNCHANGED vars
    BY <1>12
  <1> QED
    BY <1>1, <1>2, <1>3, <1>4, <1>5, <1>6, <1>7, <1>8, <1>9, <1>10, <1>11,
       <1>12 DEF Next, Step

(* Only ::administer changes what was seen, and it appends to both.        *)
LEMMA SeenIsGivenStep == IInv /\ [Next]_vars => SeenIsGiven'
  BY DEF IInv, SeenIsGiven, Next, Step, vars, loop, taken, Administer, SetHint,
         EmitInitialize, Propose, EmitFilter, EmitSelect, EmitApprove,
         EmitAdminister, EmitAdministered, EmitStopcrit, EmitFinalize

LEMMA HintReadyStep == IInv /\ [Next]_vars => HintReady'
  BY DEF IInv, TypeOK, HintReady, Next, Step, vars, loop, taken, Administer,
         SetHint, EmitInitialize, Propose, EmitFilter, EmitSelect, EmitApprove,
         EmitAdminister, EmitAdministered, EmitStopcrit, EmitFinalize

(* While seen is left alone, so is the set of the items seen.              *)
LEMMA SeenUnchanged == seen' = seen => Seen' = Seen
  BY DEF Seen

LEMMA EligibleUnseenStep == IInv /\ [Next]_vars => EligibleUnseen'
  <1> SUFFICES ASSUME IInv, [Next]_vars
               PROVE  EligibleUnseen'
    OBVIOUS
  <1> USE NoItemFacts DEF IInv, TypeOK, EligibleUnseen, taken, loop, vars
  <1>1. CASE Administer
    BY <1>1 DEF Administer
  <1>2. ASSUME NEW h \in SUBSET Items, SetHint(h) PROVE EligibleUnseen'
    BY <1>2, SeenUnchanged DEF SetHint
  <1>3. CASE EmitInitialize
    BY <1>3 DEF EmitInitialize
  <1>4. CASE Propose
    BY <1>4, SeenUnchanged DEF Propose, FreshItems
  <1>5. ASSUME NEW left \in Filtered, EmitFilter(left) PROVE EligibleUnseen'
    BY <1>5, SeenUnchanged DEF EmitFilter, Filtered
  <1>6. ASSUME NEW choice \in Selectable, EmitSelect(choice)
        PROVE  EligibleUnseen'
    <2>1. Seen \subseteq Items
      BY DEF Seen
    <2> QED
      BY <1>6, <2>1, SeenUnchanged DEF EmitSelect, Selectable
  <1>7. ASSUME NEW reselect \in Approvals, EmitApprove(reselect)
        PROVE  EligibleUnseen'
    BY <1>7, SeenUnchanged DEF EmitApprove
  <1>8. ASSUME NEW record \in BOOLEAN, EmitAdminister(record)
        PROVE  EligibleUnseen'
    BY <1>8 DEF EmitAdminister
  <1>9. CASE EmitAdministered
    BY <1>9 DEF EmitAdministered
  <1>10. ASSUME NEW stop \in BOOLEAN, EmitStopcrit(stop) PROVE EligibleUnseen'
    BY <1>10 DEF EmitStopcrit
  <1>11. CASE EmitFinalize
    BY <1>11 DEF EmitFinalize
  <1>12. CASE UNCHANGED vars
    BY <1>12, SeenUnchanged
  <1> QED
    BY <1>1, <1>2, <1>3, <1>4, <1>5, <1>6, <1>7, <1>8, <1>9, <1>10, <1>11,
       <1>12 DEF Next, Step

LEMMA NoItemTwiceStep == IInv /\ [Next]_vars => NoItemTwice'
  <1> SUFFICES ASSUME IInv, [Next]_vars
               PROVE  NoItemTwice'
    OBVIOUS
  <1>1. ASSUME NEW record \in BOOLEAN, EmitAdminister(record)
        PROVE  NoItemTwice'
    <2>1. given \in Seq(Items) /\ given' = Append(given, item_index)
      BY <1>1 DEF IInv, TypeOK, EmitAdminister
    <2>2. \A p \in 1 .. Len(given) : given[p] # item_index
      BY <1>1 DEF IInv, SeenIsGiven, EligibleUnseen, EmitAdminister, Seen
    <2> QED
      BY <2>1, <2>2 DEF IInv, NoItemTwice
  <1>2. CASE Administer
    BY <1>2 DEF Administer, NoItemTwice
  <1>3. CASE given' = given
    BY <1>3 DEF IInv, NoItemTwice
  <1> QED
    BY <1>1, <1>2, <1>3
    DEF Next, Step, vars, loop, taken, SetHint, EmitInitialize, Propose,
        EmitFilter, EmitSelect, EmitApprove, EmitAdministered, EmitStopcrit,
        EmitFinalize

LEMMA ItemsCountedStep == IInv /\ [Next]_vars => ItemsCounted'
  <1> SUFFICES ASSUME IInv, [Next]_vars
               PROVE  ItemsCounted'
    OBVIOUS
  <1> USE ItermaxAssumption DEF IInv, TypeOK, ItemsCounted, taken, loop, vars
  <1>1. CASE Administer
    BY <1>1 DEF Administer
  <1>2. ASSUME NEW h \in SUBSET Items, SetHint(h) PROVE ItemsCounted'
    BY <1>2 DEF SetHint
  <1>3. CASE EmitInitialize
    BY <1>3 DEF EmitInitialize
  <1>4. CASE Propose
    BY <1>4 DEF Propose
  <1>5. ASSUME NEW left \in Filtered, EmitFilter(left) PROVE ItemsCounted'
    BY <1>5 DEF EmitFilter
  <1>6. ASSUME NEW choice \in Selectable, EmitSelect(choice)
        PROVE  ItemsCounted'
    BY <1>6 DEF EmitSelect
  <1>7. ASSUME NEW reselect \in Approvals, EmitApprove(reselect)
        PROVE  ItemsCounted'
    <2>1. /\ warned' \in {warned, "no_item"}
          /\ pc' \in {"propose", "finalize", "administer"}
          /\ UNCHANGED <<given, iter_items>>
      BY <1>7 DEF EmitApprove
    <2>2. Len(given) = iter_items /\ iter_items < ItermaxItems
      BY <1>7 DEF EmitApprove
    <2>3. iter_items # ItermaxItems /\ warned # "max_items"
      BY <2>2
    <2>4. warned' # "max_items"
      BY <2>1, <2>3
    <2>5. /\ Len(given') = iter_items' /\ iter_items' < ItermaxItems
          /\ iter_items' # ItermaxItems
      BY <2>1, <2>2, <2>3
    <2> QED
      BY <2>1, <2>4, <2>5
  <1>8. ASSUME NEW record \in BOOLEAN, EmitAdminister(record)
        PROVE  ItemsCounted'
    <2>1. Len(given') = Len(given) + 1
      BY <1>8 DEF EmitAdminister, EligibleUnseen
    <2>2. /\ pc' = "administered" /\ warned' = "none"
          /\ Len(given) = iter_items /\ iter_items < ItermaxItems
          /\ iter_items' = iter_items
      BY <1>8 DEF EmitAdminister, WarnedAtEnd
    <2> QED
      BY <2>1, <2>2
  <1>9. CASE EmitAdministered
    BY <1>9 DEF EmitAdministered
  <1>10. ASSUME NEW stop \in BOOLEAN, EmitStopcrit(stop) PROVE ItemsCounted'
    <2>1. /\ Len(given) = iter_items + 1
          /\ iter_items + 1 <= ItermaxItems
          /\ warned = "none"
          /\ given' = given
          /\ iter_items \in Nat /\ ItermaxItems \in Nat
      BY <1>10 DEF EmitStopcrit
    <2>2. CASE AnotherItem(stop)
      BY <1>10, <2>1, <2>2 DEF EmitStopcrit, AnotherItem
    <2>3. CASE ~AnotherItem(stop) /\ stop
      BY <1>10, <2>1, <2>3 DEF EmitStopcrit, AnotherItem
    <2>4. CASE ~AnotherItem(stop) /\ ~stop
      BY <1>10, <2>1, <2>4 DEF EmitStopcrit, AnotherItem
    <2> QED
      BY <2>2, <2>3, <2>4
  <1>11. CASE EmitFinalize
    BY <1>11 DEF EmitFinalize
  <1>12. CASE UNCHANGED vars
    BY <1>12
  <1> QED
    BY <1>1, <1>2, <1>3, <1>4, <1>5, <1>6, <1>7, <1>8, <1>9, <1>10, <1>11,
       <1>12 DEF Next, Step

LEMMA TriesCountedStep == IInv /\ [Next]_vars => TriesCounted'
  <1> SUFFICES ASSUME IInv, [Next]_vars
               PROVE  TriesCounted'
    OBVIOUS
  <1> USE ItermaxAssumption DEF IInv, TypeOK, TriesCounted, taken, loop, vars
  <1>1. CASE Administer
    BY <1>1 DEF Administer
  <1>2. ASSUME NEW h \in SUBSET Items, SetHint(h) PROVE TriesCounted'
    BY <1>2 DEF SetHint
  <1>3. CASE EmitInitialize
    BY <1>3 DEF EmitInitialize, WarnedAtEnd
  <1>4. CASE Propose
    BY <1>4 DEF Propose, OutOfTries, WarnedAtEnd
  <1>5. ASSUME NEW left \in Filtered, EmitFilter(left) PROVE TriesCounted'
    BY <1>5 DEF EmitFilter
  <1>6. ASSUME NEW choice \in Selectable, EmitSelect(choice)
        PROVE  TriesCounted'
    BY <1>6 DEF EmitSelect
  <1>7. ASSUME NEW reselect \in Approvals, EmitApprove(reselect)
        PROVE  TriesCounted'
    BY <1>7 DEF EmitApprove
  <1>8. ASSUME NEW record \in BOOLEAN, EmitAdminister(record)
        PROVE  TriesCounted'
    BY <1>8 DEF EmitAdminister
  <1>9. CASE EmitAdministered
    BY <1>9 DEF EmitAdministered
  <1>10. ASSUME NEW stop \in BOOLEAN, EmitStopcrit(stop) PROVE TriesCounted'
    BY <1>10 DEF EmitStopcrit, AnotherItem, WarnedAtEnd
  <1>11. CASE EmitFinalize
    BY <1>11 DEF EmitFinalize
  <1>12. CASE UNCHANGED vars
    BY <1>12
  <1> QED
    BY <1>1, <1>2, <1>3, <1>4, <1>5, <1>6, <1>7, <1>8, <1>9, <1>10, <1>11,
       <1>12 DEF Next, Step

LEMMA WarnedAtEndStep == IInv /\ [Next]_vars => WarnedAtEnd'
  BY DEF IInv, TypeOK, WarnedAtEnd, Next, Step, vars, loop, taken, Administer,
         SetHint, EmitInitialize, Propose, EmitFilter, EmitSelect, EmitApprove,
         EmitAdminister, EmitAdministered, EmitStopcrit, EmitFinalize

LEMMA IInvStep == IInv /\ [Next]_vars => IInv'
  BY TypeStep, SeenIsGivenStep, HintReadyStep, EligibleUnseenStep,
     NoItemTwiceStep, ItemsCountedStep, TriesCountedStep, WarnedAtEndStep
  DEF IInv

(* Every state of every run of the loop satisfies the inductive invariant. *)
THEOREM Invariance == Spec => []IInv
  BY InitIInv, IInvStep, PTL DEF Spec

-------------------------------------------------------------------------------

(* The loop stays within its types: the eligibility vectors within the     *)
(* bank, the counters within their limits, and no NULL item administered.  *)
THEOREM TypeCorrect == Spec => []TypeOK
  <1>1. IInv => TypeOK
    BY DEF IInv
  <1> QED
    BY <1>1, Invariance, PTL

(* No examinee is administered an item twice in one test.                  *)
THEOREM NoRepetition == Spec => []NoItemTwice
  <1>1. IInv => NoItemTwice
    BY DEF IInv
  <1> QED
    BY <1>1, Invariance, PTL

(* No test is longer than itermax_items, and the counters and the warnings *)
(* of the loop are about the items really administered.                    *)
THEOREM BoundedLength == Spec => []ItemsCounted
  <1>1. IInv => ItemsCounted
    BY DEF IInv
  <1> QED
    BY <1>1, Invariance, PTL

(* No selection takes more than itermax_select tries.                      *)
THEOREM BoundedTries == Spec => []TriesCounted
  <1>1. IInv => TriesCounted
    BY DEF IInv
  <1> QED
    BY <1>1, Invariance, PTL

(* One step of the loop is one step of Administration, or none.            *)
LEMMA RefinementStep ==
  IInv /\ [Next]_vars => [Promise!Next]_(Promise!vars)
  <1> SUFFICES ASSUME IInv, [Next]_vars
               PROVE  [Promise!Next]_(Promise!vars)
    OBVIOUS
  <1> USE DEF Promise!vars, taken, loop, vars
  <1>1. CASE Administer
    BY <1>1 DEF Administer, Promise!Next, Promise!Begin
  <1>2. ASSUME NEW record \in BOOLEAN, EmitAdminister(record)
        PROVE  Promise!Next
    <2>1. item_index \in Items
      BY <1>2 DEF IInv, EligibleUnseen, EmitAdminister
    <2>2. \A p \in 1 .. Len(given) : given[p] # item_index
      BY <1>2 DEF IInv, SeenIsGiven, EligibleUnseen, EmitAdminister, Seen
    <2>3. Len(given) < ItermaxItems
      BY <1>2 DEF IInv, ItemsCounted, EmitAdminister
    <2>4. Promise!Give(item_index, record)
      BY <1>2, <2>2, <2>3 DEF EmitAdminister, Promise!Give
    <2> QED
      BY <2>1, <2>4 DEF Promise!Next
  <1>3. CASE EmitFinalize
    BY <1>3 DEF EmitFinalize, Promise!Next, Promise!Finalize
  <1>4. CASE Propose
    BY <1>4 DEF Propose, Promise!Next, Promise!End
  <1>5. ASSUME NEW reselect \in Approvals, EmitApprove(reselect)
        PROVE  [Promise!Next]_(Promise!vars)
    BY <1>5 DEF EmitApprove, Promise!Next, Promise!End
  <1>6. ASSUME NEW stop \in BOOLEAN, EmitStopcrit(stop)
        PROVE  [Promise!Next]_(Promise!vars)
    BY <1>6 DEF EmitStopcrit, Promise!Next, Promise!End
  <1>7. ASSUME \/ EmitInitialize \/ EmitAdministered
               \/ \E left \in Filtered : EmitFilter(left)
               \/ \E choice \in Selectable : EmitSelect(choice)
               \/ \E h \in SUBSET Items : SetHint(h)
               \/ UNCHANGED vars
        PROVE  UNCHANGED Promise!vars
    BY <1>7 DEF EmitInitialize, EmitAdministered, EmitFilter, EmitSelect, SetHint
  <1> QED
    BY <1>1, <1>2, <1>3, <1>4, <1>5, <1>6, <1>7 DEF Next, Step

(* The loop keeps the promise of Administration, for any handlers.         *)
THEOREM Refinement == Spec => RefinesAdministration
  <1>1. Init => Promise!Init
    BY DEF Init, Promise!Init
  <1> QED
    BY <1>1, RefinementStep, Invariance, PTL
    DEF Spec, RefinesAdministration, Promise!Spec

===============================================================================

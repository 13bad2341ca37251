------------------------------- MODULE OscatsTest -------------------------------
(***************************************************************************)
(* The administration loop of a test (oscats_test_administer, test.c).     *)
(*                                                                         *)
(* The algorithms of a test are handlers of the signals the loop emits.    *)
(* Each emission is one action, with what the handlers decide as its       *)
(* parameters: here they decide anything the documentation of the signal   *)
(* allows, in CatTest they are the handlers of particular algorithms.      *)
(* Handlers run between the steps of the loop and may call                 *)
(* oscats_test_set_hint, so the loop shares the hint with them.            *)
(*                                                                         *)
(* Items are numbered as in the bank.  The bank is frozen while the test   *)
(* exists, so NumItems, the length of every eligibility vector, is fixed.  *)
(***************************************************************************)
EXTENDS Naturals, Integers, Sequences

CONSTANTS
  NumItems,           (* The number of items of the bank.                  *)
  ItermaxSelect,      (* itermax-select: tries at selecting one item.      *)
  ItermaxItems,       (* itermax-items: items of one test.                 *)
  Approving           (* Whether handlers are connected to ::approve:      *)
                      (* always, never, or BOOLEAN when they come and go.  *)

ASSUME NumItemsAssumption == NumItems \in Nat \ {0}
ASSUME ItermaxAssumption ==
  /\ ItermaxSelect \in Nat \ {0}
  /\ ItermaxItems \in Nat \ {0}
ASSUME ApproveAssumption == Approving \subseteq BOOLEAN

VARIABLES
  pc,           (* Where the loop is: the signal it emits next, "propose"  *)
                (* at the head of the selection loop, "idle" outside.      *)
  hint,         (* test->hint: the items eligible to begin with, or NoHint *)
  eligible,     (* The items eligible for this selection.                  *)
  seen,         (* seen_items: the items administered, in order.           *)
  iter_select,  (* Tries at selecting the next item.                       *)
  iter_items,   (* Complete passes of the item loop.                       *)
  item_index,   (* The item proposed.                                      *)
  items,        (* e->items: the items recorded for the examinee.          *)
  warned,       (* The warning the loop has logged about this test.        *)
  given         (* History: the items ::administer was emitted for.        *)

taken == <<seen, items, given>>
loop  == <<pc, eligible, iter_select, iter_items, item_index, warned, taken>>
vars  == <<hint, loop>>

Items == 0 .. NumItems - 1

(* What a select handler returns when it finds no item. *)
NoItem == -1

(* test->hint before the first administration. *)
NoHint == {NoItem}

Seen == {seen[p] : p \in 1 .. Len(seen)}

Init ==
  /\ pc = "idle"
  /\ hint = NoHint
  /\ eligible = {}
  /\ seen = <<>>
  /\ iter_select = 0
  /\ iter_items = 0
  /\ item_index = NoItem
  /\ items = <<>>
  /\ warned = "none"
  /\ given = <<>>

(***************************************************************************)
(* The calls of the program.                                               *)
(***************************************************************************)

(* The call itself up to the first signal, oscats_examinee_prep included.  *)
Administer ==
  /\ pc = "idle"
  /\ pc' = "initialize"
  /\ hint' = IF hint = NoHint THEN Items ELSE hint
  /\ eligible' = {}
  /\ seen' = <<>>
  /\ iter_select' = 0
  /\ iter_items' = 0
  /\ item_index' = NoItem
  /\ items' = <<>>
  /\ warned' = "none"
  /\ given' = <<>>

(* oscats_test_set_hint, by a handler or between administrations.          *)
SetHint(h) ==
  /\ hint' = h
  /\ UNCHANGED loop

(***************************************************************************)
(* The steps of the loop.                                                  *)
(***************************************************************************)

EmitInitialize ==
  /\ pc = "initialize"
  /\ pc' = "propose"
  /\ iter_select' = 0
  /\ UNCHANGED <<hint, eligible, iter_items, item_index, warned, taken>>

(* Broken: the items seen stay eligible.                                   *)
HintedItems == hint

(* The items a selection starts from.                                      *)
FreshItems == hint \ Seen

(* Broken: one try too many.                                               *)
OutOfTriesLate == iter_select > ItermaxSelect

OutOfTries == iter_select = ItermaxSelect

(* One more try: eligible is the hint less the items seen.  When there     *)
(* have been itermax_select tries, the test is abandoned.                  *)
Propose ==
  /\ pc = "propose"
  /\ iter_select' = iter_select + 1
  /\ \/ /\ OutOfTries
        /\ warned' = "select"
        /\ pc' = "finalize"
        /\ UNCHANGED <<eligible, item_index>>
     \/ /\ ~OutOfTries
        /\ item_index' = NoItem
        /\ eligible' = FreshItems
        /\ pc' = "filter"
        /\ UNCHANGED warned
  /\ UNCHANGED <<hint, iter_items, taken>>

(* The eligible items become what the handlers of ::filter leave.          *)
EmitFilter(left) ==
  /\ pc = "filter"
  /\ eligible' = left
  /\ pc' = "select"
  /\ UNCHANGED <<hint, iter_select, iter_items, item_index, warned, taken>>

(* The item selected is the answer of the last handler of ::select.        *)
EmitSelect(choice) ==
  /\ pc = "select"
  /\ item_index' = choice
  /\ pc' = "approve"
  /\ UNCHANGED <<hint, eligible, iter_select, iter_items, warned, taken>>

(* Broken: the count of tries starts again with every rejection.           *)
EmitApproveForgetsTries(reselect) ==
  /\ pc = "approve"
  /\ pc' = CASE reselect -> "propose"
             [] ~reselect /\ item_index = NoItem -> "finalize"
             [] OTHER -> "administer"
  /\ warned' = IF pc' = "finalize" THEN "no_item" ELSE warned
  /\ iter_select' = 0
  /\ UNCHANGED <<hint, eligible, iter_items, item_index, taken>>

(* Broken: a NULL item is administered when no handler rejects it.         *)
EmitApproveUnchecked(reselect) ==
  /\ pc = "approve"
  /\ pc' = IF reselect THEN "propose" ELSE "administer"
  /\ UNCHANGED <<hint, eligible, iter_select, iter_items, item_index, warned, taken>>

(* A rejection leads to another try; a NULL item nobody rejected abandons  *)
(* the test.                                                               *)
EmitApprove(reselect) ==
  /\ pc = "approve"
  /\ pc' = CASE reselect -> "propose"
             [] ~reselect /\ item_index = NoItem -> "finalize"
             [] OTHER -> "administer"
  /\ warned' = IF pc' = "finalize" THEN "no_item" ELSE warned
  /\ UNCHANGED <<hint, eligible, iter_select, iter_items, item_index, taken>>

(* Broken: only recorded items are remembered as seen.                     *)
EmitAdministerSeesRecorded(record) ==
  /\ pc = "administer"
  /\ given' = Append(given, item_index)
  /\ seen'  = IF record THEN Append(seen, item_index) ELSE seen
  /\ items' = IF record THEN Append(items, item_index) ELSE items
  /\ pc' = "administered"
  /\ UNCHANGED <<hint, eligible, iter_select, iter_items, item_index, warned>>

(* The administer handler records the response with                        *)
(* oscats_examinee_add_item, or not; the item counts as seen either way.   *)
EmitAdminister(record) ==
  /\ pc = "administer"
  /\ given' = Append(given, item_index)
  /\ seen'  = Append(seen, item_index)
  /\ items' = IF record THEN Append(items, item_index) ELSE items
  /\ pc' = "administered"
  /\ UNCHANGED <<hint, eligible, iter_select, iter_items, item_index, warned>>

EmitAdministered ==
  /\ pc = "administered"
  /\ pc' = "stopcrit"
  /\ UNCHANGED <<hint, eligible, iter_select, iter_items, item_index, warned, taken>>

(* Broken: the comparison uses the count before the increment.             *)
AnotherItemLate(stop) == ~stop /\ iter_items < ItermaxItems

(* while (!stop && ++iter_items < itermax_items)                           *)
AnotherItem(stop) == ~stop /\ iter_items + 1 < ItermaxItems

(* The end of the item loop, and the warning after it.                     *)
EmitStopcrit(stop) ==
  /\ pc = "stopcrit"
  /\ iter_items' = IF stop THEN iter_items ELSE iter_items + 1
  /\ \/ /\ AnotherItem(stop)
        /\ pc' = "propose"
        /\ iter_select' = 0
        /\ UNCHANGED warned
     \/ /\ ~AnotherItem(stop)
        /\ pc' = "finalize"
        /\ warned' = IF iter_items' = ItermaxItems THEN "max_items" ELSE warned
        /\ UNCHANGED iter_select
  /\ UNCHANGED <<hint, eligible, item_index, taken>>

EmitFinalize ==
  /\ pc = "finalize"
  /\ pc' = "idle"
  /\ UNCHANGED <<hint, eligible, iter_select, iter_items, item_index, warned, taken>>

(***************************************************************************)
(* What the documentation of the signals asks of their handlers.           *)
(***************************************************************************)

(* ::filter may clear bits, and may set bits of items not seen.            *)
Filtered == {left \in SUBSET Items : left \intersect Seen \subseteq eligible}

(* ::select returns an eligible item, or -1.                               *)
Selectable == eligible \union {NoItem}

(* Handlers of ::approve must reject a NULL item; with no handler nothing  *)
(* is rejected.                                                            *)
Approvals ==
  {reselect \in BOOLEAN : \E connected \in Approving :
     IF connected THEN item_index = NoItem => reselect ELSE ~reselect}

Step ==
  \/ EmitInitialize
  \/ Propose
  \/ \E left \in Filtered : EmitFilter(left)
  \/ \E choice \in Selectable : EmitSelect(choice)
  \/ \E reselect \in Approvals : EmitApprove(reselect)
  \/ \E record \in BOOLEAN : EmitAdminister(record)
  \/ EmitAdministered
  \/ \E stop \in BOOLEAN : EmitStopcrit(stop)
  \/ EmitFinalize

Next ==
  \/ Administer
  \/ \E h \in SUBSET Items : SetHint(h)
  \/ Step

Spec == Init /\ [][Next]_vars

(* The loop is synchronous code: it goes on as long as the handlers return.*)
FairSpec == Spec /\ WF_vars(Step)

-------------------------------------------------------------------------------

(* In particular the NULL item is never administered.                      *)
TypeOK ==
  /\ pc \in {"idle", "initialize", "propose", "filter", "select", "approve",
             "administer", "administered", "stopcrit", "finalize"}
  /\ hint \in (SUBSET Items) \union {NoHint}
  /\ eligible \in SUBSET Items
  /\ seen \in Seq(Items)
  /\ iter_select \in 0 .. ItermaxSelect + 1
  /\ iter_items \in 0 .. ItermaxItems
  /\ item_index \in Items \union {NoItem}
  /\ items \in Seq(Items)
  /\ warned \in {"none", "select", "no_item", "max_items"}
  /\ given \in Seq(Items)

(* "Whether or not the response is recorded, items are still not           *)
(* administered more than once", however the hint changes between two      *)
(* selections, whatever the filters do and whatever was rejected.          *)
NoItemTwice ==
  \A p, q \in 1 .. Len(given) : given[p] = given[q] => p = q

(* "The test will never have more than itermax_items items", the passes    *)
(* counted agree with the items administered, and the maximum is reported  *)
(* when it, not the stopping criterion, ended the test.                    *)
ItemsCounted ==
  /\ Len(given) <= ItermaxItems
  /\ pc \in {"administered", "stopcrit"} => Len(given) = iter_items + 1
  /\ pc \in {"initialize", "propose", "filter", "select", "approve",
             "administer"} => /\ Len(given) = iter_items
                              /\ iter_items < ItermaxItems
  /\ (warned = "max_items") <=> (iter_items = ItermaxItems)
  /\ warned # "none" => Len(given) = iter_items

(* Every selection has between 1 and itermax_select tries, and the test is *)
(* abandoned for lack of an item only after all of them.                   *)
TriesCounted ==
  /\ pc \in {"filter", "select", "approve", "administer"}
       => iter_select \in 1 .. ItermaxSelect
  /\ pc = "propose" => iter_select \in 0 .. ItermaxSelect
  /\ (warned = "select") <=> (iter_select = ItermaxSelect + 1)

(* The loop implements Administration: see there for what this promises.   *)
Promise == INSTANCE Administration WITH
  Limit <- ItermaxItems,
  phase <- CASE pc = "idle" -> "idle"
             [] pc = "finalize" -> "over"
             [] OTHER -> "running",
  kept  <- items

RefinesAdministration == Promise!Spec

(* Every administration ends, and so emits ::finalize: "it is guaranteed   *)
(* that the test will emit ::finalize, even if the test is aborted".       *)
EveryTestEnds == (pc # "idle") ~> (pc = "idle")

===============================================================================

---------------------------------- MODULE CatTest ----------------------------------
(***************************************************************************)
(* A computerized adaptive test as examples/ex04.py assembles it: the loop *)
(* of OscatsTest with the handlers of five algorithms,                     *)
(*   ::initialize    Astrat, ExposureCounter                               *)
(*   ::select        PickRand (or a chooser: any eligible item)            *)
(*   ::administer    Simulate, or a handler that does not record all items *)
(*   ::administered  Astrat, ExposureCounter                               *)
(*   ::stopcrit      FixedLength                                           *)
(* and, when one is connected, a handler of ::approve that rejects items.  *)
(*                                                                         *)
(* The handlers of one emission run one after the other, each as one step, *)
(* in the order in which the algorithms were registered: any.  A handler   *)
(* that only computes its answer is part of the step that emits.           *)
(***************************************************************************)
EXTENDS Naturals, Integers, Sequences, FiniteSets

CONSTANTS
  NumItems, ItermaxSelect, ItermaxItems, Approving,         (* OscatsTest  *)
  Settings, Discr, Diff,                                    (* Astrat      *)
  FixedLen,       (* FixedLength:len, the length of the test.              *)
  Recording,      (* What the administer handler may do: {TRUE} is         *)
                  (* Simulate:auto-record, BOOLEAN a handler that leaves   *)
                  (* some items out.                                       *)
  RestratifyAt,   (* Where in the loop the program calls restratify.       *)
  MaxExaminees    (* Bound: examinees tested.                              *)

ASSUME LoopAssumption ==
  /\ NumItems \in Nat \ {0}
  /\ ItermaxSelect \in Nat \ {0}
  /\ ItermaxItems \in Nat \ {0}
  /\ Approving \subseteq BOOLEAN
ASSUME FixedLenAssumption == FixedLen \in Nat \ {0}
(* Only the order of the parameters matters: integers stand for them.      *)
ASSUME SettingsAssumption ==
  \A s \in Settings : /\ s.quota \in Seq(Nat \ {0}) /\ s.quota # <<>>
                      /\ s.blocks \in Nat
                      /\ Discr[s.key] \in [0 .. NumItems - 1 -> Int]
                      /\ Diff[s.key] \in [0 .. NumItems - 1 -> Int]
ASSUME RecordingAssumption == Recording \subseteq BOOLEAN

VARIABLES
  pc, hint, eligible, seen, iter_select, iter_items, item_index, items,
  warned, given,                                            (* OscatsTest  *)
  setting, stratify, cur, rem, flag,                        (* Astrat      *)
  num_examinees, counts,                                    (* ExposureCounter *)
  pending         (* The algorithms whose handlers of the signal pc have   *)
                  (* not run yet.                                          *)

Test == INSTANCE OscatsTest
AlgAstrat == INSTANCE Astrat
Counter == INSTANCE ExposureCounter WITH Items <- 0 .. NumItems - 1

loop    == <<pc, eligible, seen, iter_select, iter_items, item_index, items,
             warned, given>>
astrat  == <<setting, stratify, cur, rem, flag>>
counter == <<num_examinees, counts>>
vars    == <<loop, hint, astrat, counter, pending>>

Items == 0 .. NumItems - 1
NoItem == -1

Handlers(signal) ==
  IF signal \in {"initialize", "administered"} THEN {"astrat", "counter"} ELSE {}

(* The algorithms are registered with a new test.                          *)
Init ==
  /\ Test!Init
  /\ \E s \in Settings : AlgAstrat!Register(s)
  /\ Counter!Init
  /\ pending = {}

-------------------------------------------------------------------------------

(* A step of the loop: the emission before it is over, and the next begins.*)
Loop(step) ==
  /\ pending = {}
  /\ step
  /\ pending' = Handlers(pc')
  /\ UNCHANGED <<astrat, counter>>

Runs(alg, signal) ==
  /\ pc = signal
  /\ alg \in pending
  /\ pending' = pending \ {alg}
  /\ UNCHANGED loop

(* pick_rand.c: select()                                                   *)
(* Broken: it picks from the items of the hint.                            *)
PickRandHinted == IF hint = {} THEN {NoItem} ELSE hint
PickRand == IF eligible = {} THEN {NoItem} ELSE eligible

(* fixed_length.c: stopcrit()                                              *)
(* Broken: it stops one item late.                                         *)
StopcritLate == Len(items) > FixedLen
Stopcrit == Len(items) >= FixedLen

(* Whether the item administered is the last one recorded, which is how    *)
(* Astrat learns that it was recorded.                                     *)
LastRecorded == items # <<>> /\ items[Len(items)] = item_index

Administer == num_examinees < MaxExaminees /\ Loop(Test!Administer)

EmitInitialize == Loop(Test!EmitInitialize)
Propose == Loop(Test!Propose)
EmitFilter == Loop(Test!EmitFilter(eligible))
EmitSelect == \E choice \in PickRand : Loop(Test!EmitSelect(choice))
EmitApprove == \E reselect \in Test!Approvals : Loop(Test!EmitApprove(reselect))
EmitAdminister == \E record \in Recording : Loop(Test!EmitAdminister(record))
EmitAdministered == Loop(Test!EmitAdministered)
EmitStopcrit == Loop(Test!EmitStopcrit(Stopcrit))
EmitFinalize == Loop(Test!EmitFinalize)

AstratInitialize ==
  /\ Runs("astrat", "initialize")
  /\ AlgAstrat!Initialize
  /\ UNCHANGED counter

AstratAdministered ==
  /\ Runs("astrat", "administered")
  /\ AlgAstrat!Administered(LastRecorded)
  /\ UNCHANGED counter

CounterInitialize ==
  /\ Runs("counter", "initialize")
  /\ Counter!Initialize
  /\ UNCHANGED <<hint, astrat>>

CounterAdministered ==
  /\ Runs("counter", "administered")
  /\ Counter!Administered(item_index)
  /\ UNCHANGED <<hint, astrat>>

(* The program restratifies, between two administrations or in a handler   *)
(* of its own.                                                             *)
Restratify(s) ==
  /\ pc \in RestratifyAt
  /\ AlgAstrat!Restratify(s)
  /\ UNCHANGED <<loop, counter, pending>>

Step ==
  \/ EmitInitialize \/ Propose \/ EmitFilter \/ EmitSelect \/ EmitApprove
  \/ EmitAdminister \/ EmitAdministered \/ EmitStopcrit \/ EmitFinalize
  \/ AstratInitialize \/ AstratAdministered
  \/ CounterInitialize \/ CounterAdministered

Next ==
  \/ Administer
  \/ \E s \in Settings : Restratify(s)
  \/ Step

Spec == Init /\ [][Next]_vars

-------------------------------------------------------------------------------

(* Whether a test is on its way and its first stratum has been set.        *)
Underway ==
  /\ pc # "idle"
  /\ ~ (pc = "initialize" /\ "astrat" \in pending)

(* The items to record before stratum s is used up. *)
Upto(s) ==
  LET total[t \in 0 .. s] == IF t = 0 THEN setting.quota[1]
                             ELSE total[t - 1] + setting.quota[t + 1]
  IN  total[s]

(* The items given that were recorded before the p-th one.                 *)
RecordedBefore(p) ==
  Cardinality({q \in 1 .. p - 1 : \E r \in 1 .. Len(items) : items[r] = given[q]})

(* What a-stratification is for: every item administered, recorded or not, *)
(* is from the stratum whose turn it is, the first one whose quota is not  *)
(* filled by the items recorded so far, or the last one.                   *)
ItemsFromTheirStratum ==
  LET last == Len(setting.quota) - 1
      turn(n) == {s \in 0 .. last : /\ n < Upto(s) \/ s = last
                                    /\ s > 0 => Upto(s - 1) <= n}
  IN  Underway => \A p \in 1 .. Len(given) :
                    \E s \in turn(RecordedBefore(p)) : given[p] \in stratify.strata[s]

(* Astrat's counters, the iterator of its stratification, the hint of the  *)
(* test and the record of the examinee stay in step.                       *)
QuotasInStep ==
  LET recorded == IF pc = "administered" /\ "astrat" \in pending /\ LastRecorded
                  THEN Len(items) - 1 ELSE Len(items)
      num == Len(setting.quota)
  IN  Underway =>
        /\ flag <=> recorded >= Upto(num - 1)
        /\ ~flag => /\ rem \in 1 .. setting.quota[cur + 1]
                    /\ rem + recorded = Upto(cur)
                    /\ stratify.next = cur + 1
                    /\ hint = stratify.strata[cur]
        /\ flag => cur = num /\ hint = stratify.strata[num - 1]

(* An exposure rate is at most 1: an item has been administered at most to *)
(* the examinees so far, and only to those before the current one if it is *)
(* not among the items given in the test on its way.                       *)
RateAtMostOne ==
  \A i \in Items :
    LET counted == \E p \in 1 .. Len(given) :
                     /\ given[p] = i
                     /\ ~ (pc = "administered" /\ "counter" \in pending /\ p = Len(given))
        before  == IF pc # "initialize" \/ "counter" \notin pending
                   THEN num_examinees - 1 ELSE num_examinees
    IN  pc # "idle" => counts[i] <= IF counted THEN before + 1 ELSE before

(* A test that is not abandoned has exactly the length asked for.          *)
FixedLengthHeld ==
  pc = "finalize" /\ warned = "none" => Len(items) = FixedLen

(* Stratification starves no test: as long as the current stratum is as    *)
(* large as its quota and the items given were recorded, a selection finds *)
(* an item of the stratum, however long ago the bank was stratified and    *)
(* whatever was rejected before.                                           *)
StratumSuffices ==
  /\ pc = "select"
  /\ ~flag
  /\ Len(items) = Len(given)
  /\ Cardinality(stratify.strata[cur]) >= setting.quota[cur + 1]
  => eligible # {}

(* The algorithms answer and act as the documentation of the signals asks: *)
(* what is proved of every test holds for this one.                        *)
RefinesTest == Test!Spec

===============================================================================

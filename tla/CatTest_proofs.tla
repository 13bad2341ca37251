--------------------------- MODULE CatTest_proofs ---------------------------
(***************************************************************************)
(* Theorems about the computerized adaptive test, for every bank, every    *)
(* setting of Astrat and every length: it is a test as OscatsTest_proofs   *)
(* assumes tests to be, so that what is proved there holds for it, and its *)
(* algorithms keep in step with the loop.                                  *)
(***************************************************************************)
EXTENDS CatTest, FiniteSetTheorems, FunctionTheorems, TLAPS

(* The theorems about the loop. *)
Loops == INSTANCE OscatsTest_proofs

(* The lemmas about the operators of Stratify; those about a program that  *)
(* stratifies one bank or chooses from it are not used.                    *)
Sorting == INSTANCE Sorting_proofs WITH
  MaxParts <- 0, FValues <- {}, BlockValues <- {},
  f <- <<>>, block <- <<>>, n_blocks <- 0,
  ChoiceItems <- 1, Dists <- {}, Nums <- {},
  use <- "stratify", num <- 1, dist <- <<>>, eligible <- {}, choice <- 0

LEMMA LoopConstants ==
  Loops!NumItemsAssumption /\ Loops!ItermaxAssumption /\ Loops!ApproveAssumption
BY LoopAssumption
DEF Loops!NumItemsAssumption, Loops!ItermaxAssumption, Loops!ApproveAssumption

LEMMA SortingConstants ==
  Sorting!BankAssumption /\ Sorting!CriteriaAssumption /\ Sorting!ChoiceAssumption
BY LoopAssumption
DEF Sorting!BankAssumption, Sorting!CriteriaAssumption, Sorting!ChoiceAssumption

-----------------------------------------------------------------------------
(* The strata.                                                             *)

(* The strata of a setting: the same whatever was stratified before. *)
StrataOf(s) == AlgAstrat!Restratified(AlgAstrat!Unstratified, s).strata

(* The instance of Astrat and that of the lemmas have the same operators.  *)
LEMMA SameCardinality == \A S : AlgAstrat!Cardinality(S) = Sorting!Cardinality(S)
BY DEF AlgAstrat!Cardinality, Sorting!Cardinality

LEMMA SameItems == AlgAstrat!Items = Items /\ Sorting!Items = Items
BY DEF AlgAstrat!Items, Sorting!Items, Items

LEMMA SameCut == \A n, k : AlgAstrat!Cut(n, k) = Sorting!Cut(n, k)
BY DEF AlgAstrat!Cut, Sorting!Cut

LEMMA SamePlace ==
  \A S, val, inserted, i :
    AlgAstrat!Place(S, val, inserted, i) = Sorting!Place(S, val, inserted, i)
BY SameCardinality DEF AlgAstrat!Place, Sorting!Place

LEMMA SameByBlock == \A blk : AlgAstrat!ByBlock(blk) = Sorting!ByBlock(blk)
BY SameItems, SamePlace DEF AlgAstrat!ByBlock, Sorting!ByBlock

LEMMA SameBlock == \A m, blk, b : AlgAstrat!Block(m, blk, b) = Sorting!Block(m, blk, b)
BY SameItems, SameByBlock, SameCut DEF AlgAstrat!Block, Sorting!Block

LEMMA SameShare ==
  ASSUME NEW n, NEW crit, NEW m, NEW blk, NEW b, NEW s
  PROVE  AlgAstrat!Share(n, crit, m, blk, b, s) = Sorting!Share(n, crit, m, blk, b, s)
BY SameBlock, SameCut, SamePlace, SameCardinality, SameByBlock
DEF AlgAstrat!Share, Sorting!Share

LEMMA SameStrata ==
  ASSUME NEW st, NEW next, NEW n, NEW crit, NEW k, NEW byBlock
  PROVE  AlgAstrat!Stratified([strata |-> st, next |-> next], n, crit, k, byBlock)
           = [strata |-> Sorting!Strata(n, crit, IF k > 1 THEN k ELSE 1,
                                        IF k > 1 THEN byBlock ELSE [i \in Items |-> 0]),
              next |-> next]
<1>1. AlgAstrat!Stratified([strata |-> st, next |-> next], n, crit, k, byBlock)
        = [[strata |-> st, next |-> next] EXCEPT
             !.strata = Sorting!Strata(n, crit, IF k > 1 THEN k ELSE 1,
                                       IF k > 1 THEN byBlock ELSE [i \in Items |-> 0])]
  BY SameShare, SameItems DEF AlgAstrat!Stratified, Sorting!Strata
<1> QED BY <1>1

LEMMA StrataFacts ==
  ASSUME NEW s \in Settings
  PROVE  LET last == Len(s.quota) - 1
         IN  /\ StrataOf(s) \in [0 .. last -> SUBSET Items]
             /\ \A t, u \in 0 .. last : \A i \in StrataOf(s)[t] \intersect StrataOf(s)[u] : t = u
             /\ \A st, next : AlgAstrat!Restratified([strata |-> st, next |-> next], s)
                                = [strata |-> StrataOf(s), next |-> next]
<1> DEFINE n == Len(s.quota)
           m == IF s.blocks > 1 THEN s.blocks ELSE 1
           val == IF s.blocks > 1 THEN Diff[s.key] ELSE [i \in Items |-> 0]
           strata == Sorting!Strata(n, Discr[s.key], m, val)
<1>1. n \in Nat \ {0} /\ m \in Nat \ {0}
  BY SettingsAssumption
<1>2. Sorting!Criterion(Discr[s.key]) /\ Sorting!Criterion(val)
  BY SettingsAssumption DEF Items, Sorting!Criterion, Sorting!Items
<1>3. \A st, next : AlgAstrat!Restratified([strata |-> st, next |-> next], s)
                      = [strata |-> strata, next |-> next]
  BY SameStrata DEF AlgAstrat!Restratified
<1>4. StrataOf(s) = strata
  <2> HIDE DEF strata
  <2>1. AlgAstrat!Restratified(AlgAstrat!Unstratified, s) = [strata |-> strata, next |-> 0]
    BY <1>3 DEF AlgAstrat!Unstratified
  <2> QED BY <2>1 DEF StrataOf
<1>5. /\ strata \in [0 .. n - 1 -> SUBSET Items]
      /\ \A t, u \in 0 .. n - 1 : \A i \in strata[t] \intersect strata[u] : t = u
  <2> HIDE DEF n, m, val
  <2>1. /\ strata \in [0 .. n - 1 -> SUBSET Sorting!Items]
        /\ \A t, u \in 0 .. n - 1 : \A i \in strata[t] \intersect strata[u] : t = u
    BY <1>1, <1>2, SortingConstants, Sorting!StratifiedPartition
  <2> QED BY <2>1, SameItems
<1> HIDE DEF strata
<1> QED BY <1>3, <1>4, <1>5

-----------------------------------------------------------------------------
(* Astrat's object and its handlers.                                       *)

AstratOK ==
  /\ setting \in Settings
  /\ stratify = [strata |-> StrataOf(setting), next |-> stratify.next]
  /\ stratify.next \in Nat

NumStrata == Len(setting.quota)

LEMMA QuotaFacts ==
  ASSUME setting \in Settings
  PROVE  /\ NumStrata \in Nat \ {0}
         /\ \A t \in 0 .. NumStrata - 1 : setting.quota[t + 1] \in Nat \ {0}
BY SettingsAssumption DEF NumStrata

LEMMA NumIsNumStrata ==
  ASSUME NEW next \in Nat, setting \in Settings
  PROVE  AlgAstrat!HasNext([strata |-> StrataOf(setting), next |-> next]) <=> next < NumStrata
<1> DEFINE last == NumStrata - 1
<1>1. NumStrata \in Nat \ {0}
  BY QuotaFacts
<1>2. DOMAIN StrataOf(setting) = 0 .. last
  BY StrataFacts DEF NumStrata
<1>3. Cardinality(0 .. last) = NumStrata
  <2>1. 0 \in Int /\ last \in Int
    BY <1>1
  <2>2. Cardinality(0 .. last) = IF 0 > last THEN 0 ELSE last - 0 + 1
    BY <2>1, FS_Interval
  <2> QED BY <1>1, <2>2
<1>4. AlgAstrat!Cardinality(0 .. last) = Cardinality(0 .. last)
  BY DEF AlgAstrat!Cardinality, Cardinality
<1> QED BY <1>2, <1>3, <1>4 DEF AlgAstrat!HasNext, AlgAstrat!Num

(* The strata are stratified anew. *)
LEMMA RestratifiedOK ==
  ASSUME AstratOK, NEW s \in Settings, Restratify(s)
  PROVE  AstratOK' /\ hint' = hint
<1>1. stratify' = [strata |-> StrataOf(s), next |-> stratify.next] /\ setting' = s
  BY StrataFacts DEF Restratify, AlgAstrat!Restratify, AstratOK
<1>2. stratify'.next = stratify.next /\ StrataOf(setting') = StrataOf(s)
  BY <1>1
<1> QED BY <1>1, <1>2 DEF AstratOK, Restratify, AlgAstrat!Restratify

(* A test starts in the first stratum. *)
LEMMA InitializeFacts ==
  ASSUME AstratOK, AlgAstrat!Initialize
  PROVE  /\ setting' = setting
         /\ stratify' = [strata |-> StrataOf(setting), next |-> 1]
         /\ hint' = StrataOf(setting)[0]
         /\ cur' = 0 /\ rem' = setting.quota[1] /\ flag' = FALSE
<1>1. AlgAstrat!Rewound(stratify) = [strata |-> StrataOf(setting), next |-> 0]
  BY DEF AlgAstrat!Rewound, AstratOK
<1>2. AlgAstrat!HasNext(AlgAstrat!Rewound(stratify))
  BY <1>1, NumIsNumStrata, QuotaFacts DEF AstratOK
<1>3. stratify' = [strata |-> StrataOf(setting), next |-> 1]
  BY <1>1, <1>2 DEF AlgAstrat!Initialize, AlgAstrat!Advanced
<1>4. hint' = StrataOf(setting)[0]
  BY <1>1 DEF AlgAstrat!Initialize, AlgAstrat!NextStratum
<1> QED BY <1>3, <1>4 DEF AlgAstrat!Initialize, AlgAstrat!Quota

(* An item counts, and perhaps it is the last one of its stratum. *)
LEMMA AdministeredFacts ==
  ASSUME AstratOK, NEW recorded \in BOOLEAN, AlgAstrat!Administered(recorded)
  PROVE  /\ setting' = setting
         /\ \/ /\ ~ (recorded /\ ~flag)
               /\ UNCHANGED <<stratify, cur, rem, flag, hint>>
            \/ /\ recorded /\ ~flag /\ rem > 1
               /\ rem' = rem - 1
               /\ UNCHANGED <<stratify, cur, flag, hint>>
            \/ /\ recorded /\ ~flag /\ rem = 1 /\ stratify.next < NumStrata
               /\ cur' = cur + 1
               /\ stratify' = [strata |-> StrataOf(setting), next |-> stratify.next + 1]
               /\ rem' = setting.quota[cur' + 1]
               /\ hint' = StrataOf(setting)[stratify.next]
               /\ flag' = flag
            \/ /\ recorded /\ ~flag /\ rem = 1 /\ ~ (stratify.next < NumStrata)
               /\ cur' = cur + 1
               /\ rem' = 0 /\ flag' = TRUE
               /\ UNCHANGED <<stratify, hint>>
<1> DEFINE O == [strata |-> StrataOf(setting), next |-> stratify.next]
<1>1. stratify = O /\ (AlgAstrat!HasNext(O) <=> stratify.next < NumStrata)
  BY NumIsNumStrata DEF AstratOK
<1>2. AlgAstrat!NextStratum(O) = StrataOf(setting)[stratify.next]
  BY DEF AlgAstrat!NextStratum
<1>3. AlgAstrat!Advanced(O) = IF stratify.next < NumStrata
                              THEN [strata |-> StrataOf(setting), next |-> stratify.next + 1]
                              ELSE O
  BY <1>1 DEF AlgAstrat!Advanced
<1> HIDE DEF O
<1>4. /\ AlgAstrat!HasNext(stratify) <=> stratify.next < NumStrata
      /\ AlgAstrat!NextStratum(stratify) = StrataOf(setting)[stratify.next]
      /\ AlgAstrat!Advanced(stratify) = IF stratify.next < NumStrata
                              THEN [strata |-> StrataOf(setting), next |-> stratify.next + 1]
                              ELSE stratify
  BY <1>1, <1>2, <1>3
<1> QED BY <1>4 DEF AlgAstrat!Administered, AlgAstrat!Counts, AlgAstrat!Quota, AlgAstrat!vars,
                    AlgAstrat!progress

(* Each handler of Astrat sets the hint to a stratum, or leaves it.        *)
LEMMA HandlersOK ==
  ASSUME AstratOK, AstratInitialize \/ AstratAdministered
  PROVE  AstratOK' /\ hint' \in (SUBSET Items) \union {hint}
<1>1. setting \in Settings /\ StrataOf(setting) \in [0 .. NumStrata - 1 -> SUBSET Items]
  BY StrataFacts DEF AstratOK, NumStrata
<1>2. NumStrata \in Nat \ {0}
  BY <1>1, QuotaFacts
<1>3. CASE AstratInitialize
  <2>1. AlgAstrat!Initialize
    BY <1>3 DEF AstratInitialize
  <2> QED BY <1>1, <1>2, <2>1, InitializeFacts DEF AstratOK
<1>4. CASE AstratAdministered
  <2>1. PICK recorded \in BOOLEAN : AlgAstrat!Administered(recorded)
    BY <1>4 DEF AstratAdministered, LastRecorded
  <2>2. \/ stratify' = stratify /\ hint' = hint
        \/ /\ stratify' = [strata |-> StrataOf(setting), next |-> stratify.next + 1]
           /\ stratify.next < NumStrata
           /\ hint' = StrataOf(setting)[stratify.next]
    BY <2>1, AdministeredFacts
  <2>3. setting' = setting
    BY <2>1, AdministeredFacts
  <2>4. stratify.next \in Nat
    BY DEF AstratOK
  <2> QED BY <1>1, <1>2, <2>2, <2>3, <2>4 DEF AstratOK
<1> QED BY <1>3, <1>4

LEMMA AstratOKInit == Init => AstratOK
<1> SUFFICES ASSUME Init PROVE AstratOK
  OBVIOUS
<1>1. PICK s \in Settings : AlgAstrat!Register(s)
  BY DEF Init
<1>2. stratify = [strata |-> StrataOf(s), next |-> 0] /\ setting = s
  BY <1>1, StrataFacts DEF AlgAstrat!Register, AlgAstrat!Unstratified
<1> QED BY <1>2 DEF AstratOK

LEMMA AstratOKStep == AstratOK /\ [Next]_vars => AstratOK'
<1> SUFFICES ASSUME AstratOK, [Next]_vars PROVE AstratOK'
  OBVIOUS
<1>1. ASSUME NEW s \in Settings, Restratify(s) PROVE AstratOK'
  BY <1>1, RestratifiedOK
<1>2. CASE AstratInitialize \/ AstratAdministered
  BY <1>2, HandlersOK
<1>3. CASE UNCHANGED <<setting, stratify>>
  BY <1>3 DEF AstratOK
<1> QED BY <1>1, <1>2, <1>3
        DEF Next, Step, vars, astrat, Loop, Administer, EmitInitialize, Propose, EmitFilter, EmitSelect,
            EmitApprove, EmitAdminister, EmitAdministered, EmitStopcrit, EmitFinalize,
            CounterInitialize, CounterAdministered

-----------------------------------------------------------------------------
(* The test is a test.                                                     *)

(* What is known of every state of the loop. *)
LEMMA LoopTypes ==
  ASSUME Loops!IInv
  PROVE  /\ Test!TypeOK
         /\ seen = given
         /\ Test!NoItemTwice /\ Test!ItemsCounted /\ Test!TriesCounted
         /\ pc \notin {"finalize", "idle"} => warned = "none"
         /\ pc = "administer" => item_index \in Items /\ \A p \in 1 .. Len(given) : given[p] # item_index
<1>1. Test!TypeOK
  BY DEF Loops!IInv, Loops!TypeOK, Test!TypeOK, Loops!Items, Test!Items, Loops!NoItem, Test!NoItem,
         Loops!NoHint, Test!NoHint
<1>2. seen = given /\ (pc \notin {"finalize", "idle"} => warned = "none")
  BY DEF Loops!IInv, Loops!SeenIsGiven, Loops!WarnedAtEnd
<1>3. Test!NoItemTwice /\ Test!ItemsCounted /\ Test!TriesCounted
  BY DEF Loops!IInv, Loops!NoItemTwice, Test!NoItemTwice, Loops!ItemsCounted, Test!ItemsCounted,
         Loops!TriesCounted, Test!TriesCounted
<1>4. pc = "administer" => item_index \in Items /\ \A p \in 1 .. Len(given) : given[p] # item_index
  BY <1>2 DEF Loops!IInv, Loops!EligibleUnseen, Loops!Items, Items, Loops!Seen
<1> QED BY <1>1, <1>2, <1>3, <1>4

LEMMA Simulation == AstratOK /\ Loops!IInv /\ [Next]_vars => [Test!Next]_(Test!vars)
<1> SUFFICES ASSUME AstratOK, Loops!IInv, [Next]_vars
             PROVE  [Test!Next]_(Test!vars)
  OBVIOUS
<1>1. CASE Administer
  BY <1>1 DEF Administer, Loop, Test!Next
<1>2. ASSUME NEW s \in Settings, Restratify(s)
      PROVE  UNCHANGED Test!vars
  BY <1>2, RestratifiedOK DEF Restratify, loop, Test!vars, Test!loop, Test!taken
<1>3. CASE AstratInitialize \/ AstratAdministered
  <2>1. hint' \in SUBSET Items \/ hint' = hint
    BY <1>3, HandlersOK
  <2>2. UNCHANGED loop
    BY <1>3 DEF AstratInitialize, AstratAdministered, Runs
  <2>3. CASE hint' \in SUBSET Items
    BY <2>2, <2>3 DEF Test!Next, Test!SetHint, Test!loop, Test!taken, loop, Items, Test!Items
  <2>4. CASE hint' = hint
    BY <2>2, <2>4 DEF Test!vars, Test!loop, Test!taken, loop
  <2> QED BY <2>1, <2>3, <2>4
<1>4. CASE CounterInitialize \/ CounterAdministered
  BY <1>4 DEF CounterInitialize, CounterAdministered, Runs, loop, Test!vars, Test!loop, Test!taken
<1>5. CASE EmitInitialize \/ Propose \/ EmitAdministered \/ EmitFinalize
  BY <1>5 DEF EmitInitialize, Propose, EmitAdministered, EmitFinalize, Loop, Test!Next, Test!Step
<1>6. CASE EmitFilter
  <2>1. eligible \in Test!Filtered
    BY LoopTypes DEF Test!TypeOK, Test!Filtered
  <2> QED BY <1>6, <2>1 DEF EmitFilter, Loop, Test!Next, Test!Step
<1>7. CASE EmitSelect
  <2>1. PickRand \subseteq Test!Selectable
    BY DEF PickRand, Test!Selectable, NoItem, Test!NoItem
  <2> QED BY <1>7, <2>1 DEF EmitSelect, Loop, Test!Next, Test!Step
<1>8. CASE EmitApprove
  BY <1>8 DEF EmitApprove, Loop, Test!Next, Test!Step
<1>9. CASE EmitAdminister
  BY <1>9, RecordingAssumption DEF EmitAdminister, Loop, Test!Next, Test!Step
<1>10. CASE EmitStopcrit
  <2>1. Stopcrit \in BOOLEAN
    BY DEF Stopcrit
  <2> QED BY <1>10, <2>1 DEF EmitStopcrit, Loop, Test!Next, Test!Step
<1>11. CASE UNCHANGED vars
  BY <1>11 DEF vars, loop, Test!vars, Test!loop, Test!taken
<1> QED BY <1>1, <1>2, <1>3, <1>4, <1>5, <1>6, <1>7, <1>8, <1>9, <1>10, <1>11 DEF Next, Step

LEMMA SameLoop ==
  /\ Test!Init => Loops!Init
  /\ [Test!Next]_(Test!vars) => [Loops!Next]_(Loops!vars)
<1>1. Test!Init => Loops!Init
  BY DEF Test!Init, Loops!Init, Test!NoItem, Loops!NoItem, Test!NoHint, Loops!NoHint
<1>2. [Test!Next]_(Test!vars) => [Loops!Next]_(Loops!vars)
  BY DEF Test!Next, Loops!Next, Test!vars, Loops!vars, Test!loop, Loops!loop, Test!taken, Loops!taken,
         Test!NoItem, Loops!NoItem, Test!NoHint, Loops!NoHint, Test!Items, Loops!Items,
         Test!Seen, Loops!Seen, Test!Administer, Loops!Administer, Test!SetHint, Loops!SetHint,
         Test!Step, Loops!Step, Test!EmitInitialize, Loops!EmitInitialize, Test!FreshItems,
         Loops!FreshItems, Test!OutOfTries, Loops!OutOfTries, Test!Propose, Loops!Propose,
         Test!EmitFilter, Loops!EmitFilter, Test!EmitSelect, Loops!EmitSelect, Test!EmitApprove,
         Loops!EmitApprove, Test!EmitAdminister, Loops!EmitAdminister, Test!EmitAdministered,
         Loops!EmitAdministered, Test!AnotherItem, Loops!AnotherItem, Test!EmitStopcrit,
         Loops!EmitStopcrit, Test!EmitFinalize, Loops!EmitFinalize, Test!Filtered, Loops!Filtered,
         Test!Selectable, Loops!Selectable, Test!Approvals, Loops!Approvals
<1> QED BY <1>1, <1>2

(* What every state of the test satisfies, whenever the program restratifies. *)
Base == AstratOK /\ Loops!IInv

LEMMA BaseInit == Init => Base
BY AstratOKInit, SameLoop, LoopConstants, Loops!InitIInv DEF Base, Init

LEMMA BaseStep == Base /\ [Next]_vars => Base'
<1> SUFFICES ASSUME Base, [Next]_vars PROVE Base'
  OBVIOUS
<1>1. [Loops!Next]_(Loops!vars)
  BY Simulation, SameLoop DEF Base
<1>2. Loops!IInv'
  BY <1>1, LoopConstants, Loops!IInvStep DEF Base
<1> QED BY <1>2, AstratOKStep DEF Base

LEMMA BaseAlways == Spec => []Base
BY BaseInit, BaseStep, PTL DEF Spec

(* The adaptive test is a test of OscatsTest: its algorithms answer and    *)
(* act as the documentation of the signals asks.                           *)
THEOREM TestIsATest == Spec => RefinesTest
<1>1. Init => Test!Init
  BY DEF Init
<1>2. Base /\ [Next]_vars => [Test!Next]_(Test!vars)
  BY Simulation DEF Base
<1> QED BY <1>1, <1>2, BaseAlways, PTL DEF Spec, RefinesTest, Test!Spec

(* So what is proved of every test holds for this one: no item twice, no   *)
(* test longer than itermax_items, no selection of more than               *)
(* itermax_select tries.                                                   *)
THEOREM PromisesKept == Spec => [](Test!NoItemTwice /\ Test!ItemsCounted /\ Test!TriesCounted)
<1>1. Base => Test!NoItemTwice /\ Test!ItemsCounted /\ Test!TriesCounted
  BY LoopTypes DEF Base
<1> QED BY <1>1, BaseAlways, PTL

-----------------------------------------------------------------------------
(* The exposure counter.                                                   *)

(* The two handlers of a signal run between its emission and the next.     *)
PendingOK == pending \subseteq Handlers(pc)

(* Whether an administration of item i in this test has been counted, and  *)
(* the examinees that had been tested before.                              *)
Counted(i) ==
  \E p \in 1 .. Len(given) :
    /\ given[p] = i
    /\ ~ (pc = "administered" /\ "counter" \in pending /\ p = Len(given))
Before ==
  IF pc # "initialize" \/ "counter" \notin pending THEN num_examinees - 1 ELSE num_examinees

Exposed == \A i \in Items : counts[i] <= IF Counted(i) THEN Before + 1 ELSE Before

RateInv ==
  /\ num_examinees \in Nat
  /\ counts \in [Items -> Nat]
  /\ PendingOK
  /\ pc = "idle" => \A i \in Items : counts[i] <= num_examinees
  /\ pc = "initialize" => given = <<>>
  /\ pc = "administered" => given # <<>> /\ item_index = given[Len(given)]
  /\ pc # "idle" => Exposed

LEMMA RateInit == Init => RateInv
BY DEF Init, Counter!Init, Test!Init, RateInv, PendingOK, Items

LEMMA RateStep == Base /\ RateInv /\ [Next]_vars => RateInv'
<1> SUFFICES ASSUME Base, RateInv, [Next]_vars PROVE RateInv'
  OBVIOUS
<1>0. given \in Seq(Items) /\ (pc = "administer" => item_index \in Items)
  BY LoopTypes DEF Base, Test!TypeOK, Test!Items, Items
<1> USE DEF RateInv, PendingOK, Handlers, counter
<1>1. CASE Administer
  <2>1. /\ pc = "idle" /\ pc' = "initialize" /\ given' = <<>> /\ pending' = Handlers("initialize")
        /\ num_examinees' = num_examinees /\ counts' = counts
    BY <1>1 DEF Administer, Loop, Test!Administer
  <2>2. Before' = num_examinees
    BY <2>1 DEF Before
  <2>3. \A i \in Items : ~Counted(i)'
    BY <2>1 DEF Counted
  <2> QED BY <2>1, <2>2, <2>3 DEF Exposed
<1>2. CASE CounterInitialize
  <2>1. /\ pc = "initialize" /\ pc' = pc /\ given' = given /\ pending' = pending \ {"counter"}
        /\ num_examinees' = num_examinees + 1 /\ counts' = counts /\ "counter" \in pending
    BY <1>2 DEF CounterInitialize, Runs, Counter!Initialize, loop
  <2>2. Before' = num_examinees /\ Before = num_examinees
    BY <2>1 DEF Before
  <2>3. \A i \in Items : Counted(i)' <=> Counted(i)
    BY <2>1 DEF Counted
  <2> QED BY <2>1, <2>2, <2>3 DEF Exposed
<1>3. CASE CounterAdministered
  <2>1. /\ pc = "administered" /\ pc' = pc /\ given' = given /\ pending' = pending \ {"counter"}
        /\ num_examinees' = num_examinees /\ "counter" \in pending /\ item_index' = item_index
        /\ counts' = [counts EXCEPT ![item_index] = @ + 1]
    BY <1>3 DEF CounterAdministered, Runs, Counter!Administered, loop
  <2>2. Before' = Before /\ Before \in Int
    BY <2>1 DEF Before
  <2>3. Len(given) \in Nat \ {0} /\ item_index = given[Len(given)] /\ item_index \in Items
    BY <1>0, <2>1
  <2>4. \A i \in Items : i = item_index => Counted(i)'
    BY <2>1, <2>3 DEF Counted
  <2>5. ~Counted(item_index)
    <3>1. \A p \in 1 .. Len(given) : given[p] = item_index => p = Len(given)
      BY <2>3, LoopTypes DEF Base, Test!NoItemTwice
    <3> QED BY <2>1, <3>1 DEF Counted
  <2>6. \A i \in Items : Counted(i) => Counted(i)'
    BY <2>1 DEF Counted
  <2>7. counts[item_index] <= Before
    BY <2>1, <2>3, <2>5 DEF Exposed
  <2>8. \A i \in Items : counts'[i] = IF i = item_index THEN counts[i] + 1 ELSE counts[i]
    BY <2>1
  <2>9. Exposed'
    <3> SUFFICES ASSUME NEW i \in Items
                 PROVE  counts'[i] <= IF Counted(i)' THEN Before' + 1 ELSE Before'
      BY DEF Exposed
    <3>1. counts[i] <= IF Counted(i) THEN Before + 1 ELSE Before
      BY <2>1 DEF Exposed
    <3>2. CASE i = item_index
      <4>1. counts'[i] = counts[i] + 1 /\ counts[i] <= Before /\ counts[i] \in Int
        BY <2>7, <2>8, <3>2
      <4> QED BY <2>2, <2>4, <3>2, <4>1
    <3>3. CASE i # item_index
      <4>1. counts'[i] = counts[i] /\ counts[i] \in Int
        BY <2>8, <3>3
      <4>2. Counted(i) <=> Counted(i)'
        BY <2>1, <2>3, <2>6, <3>3 DEF Counted
      <4> QED BY <2>2, <3>1, <4>1, <4>2
    <3> QED BY <3>2, <3>3
  <2>10. counts' \in [Items -> Nat]
    BY <2>1, <2>3
  <2> QED BY <2>1, <2>9, <2>10
<1>4. CASE EmitAdminister
  <2>1. /\ pc = "administer" /\ pc' = "administered" /\ given' = Append(given, item_index)
        /\ item_index' = item_index /\ pending' = Handlers("administered")
        /\ num_examinees' = num_examinees /\ counts' = counts /\ pending = {}
    BY <1>4 DEF EmitAdminister, Loop, Test!EmitAdminister
  <2>2. Before' = Before
    BY <2>1 DEF Before
  <2>3. \A i \in Items : Counted(i) <=> Counted(i)'
    BY <1>0, <2>1 DEF Counted
  <2>4. given' # <<>> /\ item_index' = given'[Len(given')]
    BY <1>0, <2>1
  <2> QED BY <2>1, <2>2, <2>3, <2>4 DEF Exposed
<1>5. CASE EmitFinalize
  <2>1. /\ pc = "finalize" /\ pc' = "idle" /\ pending = {} /\ pending' = {}
        /\ num_examinees' = num_examinees /\ counts' = counts
    BY <1>5 DEF EmitFinalize, Loop, Test!EmitFinalize
  <2>2. Before = num_examinees - 1
    BY <2>1 DEF Before
  <2>3. \A i \in Items : counts[i] <= num_examinees
    BY <2>1, <2>2 DEF Exposed
  <2> QED BY <2>1, <2>3
<1>6. CASE \/ EmitInitialize \/ Propose \/ EmitFilter \/ EmitSelect \/ EmitApprove
           \/ EmitAdministered \/ EmitStopcrit
  <2>1. /\ pending = {} /\ pending' = Handlers(pc') /\ given' = given
        /\ num_examinees' = num_examinees /\ counts' = counts
        /\ pc # "idle" /\ pc' \notin {"idle", "initialize", "administered"}
    BY <1>6 DEF EmitInitialize, Propose, EmitFilter, EmitSelect, EmitApprove, EmitAdministered,
                EmitStopcrit, Loop, Test!EmitInitialize, Test!Propose, Test!EmitFilter, Test!EmitSelect,
                Test!EmitApprove, Test!EmitAdministered, Test!EmitStopcrit, Test!taken
  <2>2. Before' = Before
    BY <2>1 DEF Before
  <2>3. \A i \in Items : Counted(i) <=> Counted(i)'
    BY <2>1 DEF Counted
  <2> QED BY <2>1, <2>2, <2>3 DEF Exposed
<1>7. CASE AstratInitialize \/ AstratAdministered
  <2>1. /\ pending' = pending \ {"astrat"} /\ UNCHANGED <<loop, counter>>
    BY <1>7 DEF AstratInitialize, AstratAdministered, Runs
  <2>2. Before' = Before /\ \A i \in Items : Counted(i) <=> Counted(i)'
    BY <2>1 DEF Before, Counted, loop
  <2> QED BY <2>1, <2>2 DEF Exposed, loop
<1>8. CASE UNCHANGED <<loop, counter, pending>>
  <2>1. Before' = Before /\ \A i \in Items : Counted(i) <=> Counted(i)'
    BY <1>8 DEF Before, Counted, loop
  <2> QED BY <1>8, <2>1 DEF Exposed, loop
<1> QED BY <1>1, <1>2, <1>3, <1>4, <1>5, <1>6, <1>7, <1>8
        DEF Next, Step, Restratify, vars

(* No exposure rate is above 1, between the handlers of a signal too       *)
(* (administered() of exposure_counter.c, which counts without looking).   *)
THEOREM ExposureRates == Spec => []RateAtMostOne
<1>1. RateInv => RateAtMostOne
  BY DEF RateInv, Exposed, Counted, Before, RateAtMostOne
<1> QED BY <1>1, RateInit, RateStep, BaseAlways, PTL DEF Spec

-----------------------------------------------------------------------------
(* The fixed length.                                                       *)

LengthInv ==
  /\ pc \in {"initialize", "propose", "filter", "select", "approve", "administer"}
       => Len(items) < FixedLen
  /\ pc \in {"administered", "stopcrit"} => Len(items) <= FixedLen
  /\ FixedLengthHeld

LEMMA LengthStep == Base /\ LengthInv /\ [Next]_vars => LengthInv'
<1> SUFFICES ASSUME Base, LengthInv, [Next]_vars PROVE LengthInv'
  OBVIOUS
<1>0. items \in Seq(Test!Items) /\ FixedLen \in Nat \ {0}
  BY LoopTypes, FixedLenAssumption DEF Base, Test!TypeOK
<1> USE DEF LengthInv, FixedLengthHeld
<1>1. CASE Administer
  BY <1>0, <1>1 DEF Administer, Loop, Test!Administer
<1>2. CASE EmitInitialize \/ EmitFilter \/ EmitSelect \/ EmitAdministered \/ EmitFinalize
  BY <1>2 DEF EmitInitialize, EmitFilter, EmitSelect, EmitAdministered, EmitFinalize, Loop,
              Test!EmitInitialize, Test!EmitFilter, Test!EmitSelect, Test!EmitAdministered,
              Test!EmitFinalize, Test!taken
<1>3. CASE Propose
  BY <1>3 DEF Propose, Loop, Test!Propose, Test!taken
<1>4. CASE EmitApprove
  BY <1>4 DEF EmitApprove, Loop, Test!EmitApprove, Test!taken
<1>5. CASE EmitAdminister
  <2>1. /\ pc = "administer" /\ pc' = "administered"
        /\ items' = items \/ items' = Append(items, item_index)
    BY <1>5 DEF EmitAdminister, Loop, Test!EmitAdminister
  <2>2. Len(items') <= Len(items) + 1
    BY <1>0, <2>1, LoopTypes DEF Base, Test!TypeOK
  <2> QED BY <1>0, <2>1, <2>2
<1>6. CASE EmitStopcrit
  <2>1. pc = "stopcrit" /\ items' = items /\ pc' \in {"propose", "finalize"}
    BY <1>6 DEF EmitStopcrit, Loop, Test!EmitStopcrit, Test!taken
  <2>2. CASE Stopcrit
    BY <1>0, <1>6, <2>1, <2>2 DEF EmitStopcrit, Loop, Test!EmitStopcrit, Test!AnotherItem, Stopcrit
  <2>3. CASE ~Stopcrit
    <3>1. iter_items + 1 <= ItermaxItems /\ iter_items \in Nat
      BY <2>1, LoopTypes DEF Base, Test!TypeOK, Test!ItemsCounted
    <3>2. pc' = "finalize" => warned' = "max_items"
      BY <1>6, <2>3, <3>1, LoopAssumption
      DEF EmitStopcrit, Loop, Test!EmitStopcrit, Test!AnotherItem
    <3>3. Len(items) < FixedLen
      BY <1>0, <2>3 DEF Stopcrit
    <3> QED BY <2>1, <3>2, <3>3
  <2> QED BY <2>2, <2>3
<1>7. CASE UNCHANGED loop
  BY <1>7 DEF loop
<1> QED BY <1>1, <1>2, <1>3, <1>4, <1>5, <1>6, <1>7
        DEF Next, Step, Restratify, vars, AstratInitialize, AstratAdministered, CounterInitialize,
            CounterAdministered, Runs

(* A test that is not abandoned ends with the length asked for, however    *)
(* many of the items administered are not recorded (fixed_length.c).       *)
THEOREM LengthAsAsked == Spec => []FixedLengthHeld
<1>1. Init => LengthInv
  BY DEF Init, Test!Init, LengthInv, FixedLengthHeld
<1>2. LengthInv => FixedLengthHeld
  BY DEF LengthInv
<1> QED BY <1>1, <1>2, LengthStep, BaseAlways, PTL DEF Spec

-----------------------------------------------------------------------------
(* The items to record up to a stratum.                                    *)

Total(s) ==
  LET total[t \in 0 .. s] == IF t = 0 THEN setting.quota[1]
                             ELSE total[t - 1] + setting.quota[t + 1]
  IN  total

IsTotal(g, s) ==
  g = [t \in 0 .. s |-> IF t = 0 THEN setting.quota[1] ELSE g[t - 1] + setting.quota[t + 1]]

LEMMA TotalExists ==
  ASSUME setting \in Settings, NEW s \in 0 .. NumStrata - 1
  PROVE  \E g \in [0 .. s -> Nat \ {0}] : IsTotal(g, s)
<1> DEFINE Found == {m \in Nat : m < NumStrata => \E g \in [0 .. m -> Nat \ {0}] : IsTotal(g, m)}
<1>0. NumStrata \in Nat \ {0} /\ \A t \in 0 .. NumStrata - 1 : setting.quota[t + 1] \in Nat \ {0}
  BY QuotaFacts
<1>1. 0 \in Found
  <2> DEFINE g == [t \in 0 .. 0 |-> setting.quota[1]]
  <2>1. setting.quota[0 + 1] \in Nat \ {0}
    BY <1>0
  <2>2. g \in [0 .. 0 -> Nat \ {0}] /\ IsTotal(g, 0)
    BY <2>1 DEF IsTotal
  <2> QED BY <2>2
<1>2. ASSUME NEW m \in Nat, m \in Found PROVE m + 1 \in Found
  <2>1. SUFFICES ASSUME m + 1 < NumStrata
                 PROVE  \E h \in [0 .. m + 1 -> Nat \ {0}] : IsTotal(h, m + 1)
    OBVIOUS
  <2>2. PICK g \in [0 .. m -> Nat \ {0}] : IsTotal(g, m)
    BY <1>0, <1>2, <2>1
  <2> DEFINE h == [t \in 0 .. m + 1 |-> IF t = m + 1 THEN g[m] + setting.quota[m + 2] ELSE g[t]]
  <2>3. setting.quota[m + 2] \in Nat \ {0}
    <3>1. m + 1 \in 0 .. NumStrata - 1 /\ (m + 1) + 1 = m + 2
      BY <1>0, <2>1
    <3> QED BY <1>0, <3>1
  <2>4. h \in [0 .. m + 1 -> Nat \ {0}]
    BY <2>3
  <2>5. \A t \in 0 .. m : g[t] = IF t = 0 THEN setting.quota[1] ELSE g[t - 1] + setting.quota[t + 1]
    BY <2>2 DEF IsTotal
  <2>6. \A t \in 0 .. m + 1 :
          h[t] = IF t = 0 THEN setting.quota[1] ELSE h[t - 1] + setting.quota[t + 1]
    <3> TAKE t \in 0 .. m + 1
    <3>1. CASE t = m + 1
      BY <3>1
    <3>2. CASE t # m + 1
      BY <3>2, <2>5
    <3> QED BY <3>1, <3>2
  <2>7. IsTotal(h, m + 1)
    BY <2>6 DEF IsTotal
  <2> QED BY <2>4, <2>7
<1>3. s \in Found
  <2> HIDE DEF Found
  <2> QED BY <1>0, <1>1, <1>2, SortingConstants, Sorting!Induction
<1> QED BY <1>0, <1>3

LEMMA TotalEquation ==
  ASSUME setting \in Settings, NEW s \in 0 .. NumStrata - 1
  PROVE  /\ \A t \in 0 .. s : Total(s)[t] = IF t = 0 THEN setting.quota[1]
                                           ELSE Total(s)[t - 1] + setting.quota[t + 1]
<1>1. PICK g : IsTotal(g, s)
  BY TotalExists
<1>2. IsTotal(Total(s), s)
  BY <1>1 DEF Total, IsTotal
<1> HIDE DEF Total
<1> QED BY <1>2 DEF IsTotal

(* The totals of different strata agree. *)
LEMMA TotalAgrees ==
  ASSUME setting \in Settings, NEW u \in 0 .. NumStrata - 1, NEW s \in 0 .. u, NEW t \in 0 .. s
  PROVE  Total(s)[t] = Total(u)[t]
<1> DEFINE Same == {m \in Nat : m <= s => Total(s)[m] = Total(u)[m]}
<1>0. NumStrata \in Nat \ {0}
  BY QuotaFacts
<1>1. 0 \in Same
  BY <1>0, TotalEquation
<1>2. ASSUME NEW m \in Nat, m \in Same PROVE m + 1 \in Same
  <2>1. SUFFICES ASSUME m + 1 <= s PROVE Total(s)[m + 1] = Total(u)[m + 1]
    OBVIOUS
  <2>2. Total(s)[m] = Total(u)[m]
    BY <1>2, <2>1
  <2>3. m + 1 \in 0 .. s /\ m + 1 \in 0 .. u /\ (m + 1) - 1 = m /\ m + 1 # 0 /\ s \in 0 .. NumStrata - 1
    BY <1>0, <2>1
  <2>4. Total(s)[m + 1] = Total(s)[m] + setting.quota[(m + 1) + 1]
    BY <2>3, TotalEquation
  <2>5. Total(u)[m + 1] = Total(u)[m] + setting.quota[(m + 1) + 1]
    BY <2>3, TotalEquation
  <2> QED BY <2>2, <2>4, <2>5
<1>3. t \in Same
  <2> HIDE DEF Same
  <2> QED BY <1>1, <1>2, SortingConstants, Sorting!Induction
<1> QED BY <1>3

LEMMA UptoFacts ==
  ASSUME setting \in Settings
  PROVE  /\ Upto(0) = setting.quota[1]
         /\ \A t \in 1 .. NumStrata - 1 : Upto(t) = Upto(t - 1) + setting.quota[t + 1]
         /\ \A t \in 0 .. NumStrata - 1 : Upto(t) \in Nat \ {0}
         /\ \A t \in 0 .. NumStrata - 1 : Upto(t) <= Upto(NumStrata - 1)
<1>0. NumStrata \in Nat \ {0} /\ \A t \in 0 .. NumStrata - 1 : setting.quota[t + 1] \in Nat \ {0}
  BY QuotaFacts
<1>1. \A s : Upto(s) = Total(s)[s]
  BY DEF Upto, Total
<1>2. Upto(0) = setting.quota[1]
  BY <1>0, <1>1, TotalEquation
<1>3. ASSUME NEW t \in 1 .. NumStrata - 1
      PROVE  Upto(t) = Upto(t - 1) + setting.quota[t + 1]
  <2>1. t \in 0 .. NumStrata - 1 /\ t - 1 \in 0 .. t /\ t \in 0 .. t /\ t # 0 /\ t - 1 \in 0 .. t - 1
    BY <1>0
  <2>2. Total(t)[t] = Total(t)[t - 1] + setting.quota[t + 1]
    BY <2>1, TotalEquation
  <2>3. Total(t - 1)[t - 1] = Total(t)[t - 1]
    BY <2>1, TotalAgrees
  <2> QED BY <1>1, <2>2, <2>3
<1> DEFINE Positive == {m \in Nat : m < NumStrata => Upto(m) \in Nat \ {0}}
           Below == {m \in Nat : m < NumStrata => \A t \in 0 .. m : Upto(t) <= Upto(m)}
<1> HIDE DEF NumStrata
<1>4. 0 \in Positive
  BY <1>0, <1>2
<1>5. ASSUME NEW m \in Nat, m \in Positive PROVE m + 1 \in Positive
  <2>1. SUFFICES ASSUME m + 1 < NumStrata PROVE Upto(m + 1) \in Nat \ {0}
    OBVIOUS
  <2>2. m + 1 \in 1 .. NumStrata - 1 /\ (m + 1) - 1 = m /\ m + 1 \in 0 .. NumStrata - 1 /\ m < NumStrata
    BY <1>0, <2>1
  <2>3. Upto(m + 1) = Upto(m) + setting.quota[(m + 1) + 1] /\ setting.quota[(m + 1) + 1] \in Nat \ {0}
    BY <1>0, <1>3, <2>2
  <2>4. Upto(m) \in Nat \ {0}
    BY <1>5, <2>2
  <2> QED BY <2>3, <2>4
<1>6. Nat \subseteq Positive
  <2> HIDE DEF Positive
  <2> QED BY <1>4, <1>5, SortingConstants, Sorting!Induction
<1>7. \A t \in 0 .. NumStrata - 1 : Upto(t) \in Nat \ {0}
  BY <1>0, <1>6
<1>8. 0 \in Below
  BY <1>0, <1>7
<1>9. ASSUME NEW m \in Nat, m \in Below PROVE m + 1 \in Below
  <2>1. SUFFICES ASSUME m + 1 < NumStrata PROVE \A t \in 0 .. m + 1 : Upto(t) <= Upto(m + 1)
    OBVIOUS
  <2>2. m + 1 \in 1 .. NumStrata - 1 /\ (m + 1) - 1 = m /\ m + 1 \in 0 .. NumStrata - 1 /\ m < NumStrata
        /\ m \in 0 .. NumStrata - 1
    BY <1>0, <2>1
  <2>3. Upto(m + 1) = Upto(m) + setting.quota[(m + 1) + 1] /\ setting.quota[(m + 1) + 1] \in Nat \ {0}
    BY <1>0, <1>3, <2>2
  <2>4. \A t \in 0 .. m : Upto(t) <= Upto(m)
    BY <1>9, <2>2
  <2>5. \A t \in 0 .. m + 1 : Upto(t) \in Nat
    BY <1>0, <1>7, <2>2
  <2>6. Upto(m) <= Upto(m + 1) /\ Upto(m) \in Nat /\ Upto(m + 1) \in Nat
    BY <1>7, <2>2, <2>3
  <2> SUFFICES ASSUME NEW t \in 0 .. m + 1 PROVE Upto(t) <= Upto(m + 1)
    OBVIOUS
  <2>7. CASE t = m + 1
    BY <2>6, <2>7
  <2>8. CASE t \in 0 .. m
    BY <2>4, <2>5, <2>6, <2>8
  <2> QED BY <2>7, <2>8
<1>10. Nat \subseteq Below
  <2> HIDE DEF Below
  <2> QED BY <1>8, <1>9, SortingConstants, Sorting!Induction
<1>11. NumStrata - 1 \in Nat /\ NumStrata - 1 < NumStrata
  BY <1>0
<1>12. \A t \in 0 .. NumStrata - 1 : Upto(t) <= Upto(NumStrata - 1)
  BY <1>10, <1>11
<1> QED BY <1>2, <1>3, <1>7, <1>12

-----------------------------------------------------------------------------
(* Astrat and the loop, when the program restratifies between tests only.  *)

(* The items recorded that Astrat knows of. *)
Recorded ==
  IF pc = "administered" /\ "astrat" \in pending /\ LastRecorded
  THEN Len(items) - 1 ELSE Len(items)

InStep ==
  /\ flag \in BOOLEAN
  /\ flag <=> Recorded >= Upto(NumStrata - 1)
  /\ ~flag => /\ cur \in 0 .. NumStrata - 1
              /\ rem \in 1 .. setting.quota[cur + 1]
              /\ rem + Recorded = Upto(cur)
              /\ stratify.next = cur + 1
              /\ hint = stratify.strata[cur]
  /\ flag => cur = NumStrata /\ hint = stratify.strata[NumStrata - 1]

(* Only items administered are recorded. *)
ItemsGiven == \A r \in 1 .. Len(items) : \E q \in 1 .. Len(given) : items[r] = given[q]

QuotaInv ==
  /\ PendingOK
  /\ pc = "initialize" => items = <<>> /\ given = <<>>
  /\ ItemsGiven
  /\ Underway => InStep

LEMMA QuotaInit == Init => QuotaInv
BY DEF Init, Test!Init, QuotaInv, PendingOK, ItemsGiven, Underway

LEMMA PendingStep == PendingOK /\ [Next]_vars => PendingOK'
BY DEF PendingOK, Next, Step, Restratify, vars, loop, Administer, Loop, EmitInitialize, Propose,
       EmitFilter, EmitSelect, EmitApprove, EmitAdminister, EmitAdministered, EmitStopcrit,
       EmitFinalize, AstratInitialize, AstratAdministered, CounterInitialize,
       CounterAdministered, Runs

LEMMA ItemsGivenStep ==
  Base /\ QuotaInv /\ [Next]_vars =>
    /\ ItemsGiven'
    /\ (pc = "initialize" => items = <<>> /\ given = <<>>)'
<1> SUFFICES ASSUME Base, QuotaInv, [Next]_vars
             PROVE  /\ ItemsGiven'
                    /\ (pc = "initialize" => items = <<>> /\ given = <<>>)'
  OBVIOUS
<1>0. given \in Seq(Test!Items) /\ items \in Seq(Test!Items)
  BY LoopTypes DEF Base, Test!TypeOK
<1>1. CASE Administer
  BY <1>1 DEF Administer, Loop, Test!Administer, ItemsGiven
<1>2. CASE EmitAdminister
  <2>1. PICK record : Test!EmitAdminister(record)
    BY <1>2 DEF EmitAdminister, Loop
  <2>2. /\ given' = Append(given, item_index) /\ pc' = "administered"
        /\ items' = IF record THEN Append(items, item_index) ELSE items
    BY <2>1 DEF Test!EmitAdminister
  <2>3. \A r \in 1 .. Len(items) : \E q \in 1 .. Len(given') : items[r] = given'[q]
    BY <1>0, <2>2 DEF QuotaInv, ItemsGiven
  <2>4. given'[Len(given')] = item_index /\ Len(given') \in 1 .. Len(given')
    BY <1>0, <2>2
  <2>5. CASE record
    BY <1>0, <2>2, <2>3, <2>4, <2>5 DEF ItemsGiven
  <2>6. CASE ~record
    BY <2>2, <2>3, <2>6 DEF ItemsGiven
  <2> QED BY <2>2, <2>5, <2>6
<1>3. CASE UNCHANGED <<items, given>> /\ (pc' = "initialize" => pc = "initialize")
  BY <1>3 DEF QuotaInv, ItemsGiven
<1> QED BY <1>1, <1>2, <1>3
        DEF Next, Step, Restratify, vars, loop, Loop, EmitInitialize, Propose, EmitFilter, EmitSelect,
            EmitApprove, EmitAdministered, EmitStopcrit, EmitFinalize, AstratInitialize,
            AstratAdministered, CounterInitialize, CounterAdministered, Runs,
            Test!EmitInitialize, Test!Propose, Test!EmitFilter, Test!EmitSelect, Test!EmitApprove,
            Test!EmitAdministered, Test!EmitStopcrit, Test!EmitFinalize, Test!taken

(* A test begins: nothing is recorded, and the whole first quota is left.  *)
LEMMA InStepInitialize ==
  ASSUME Base, QuotaInv, AstratInitialize
  PROVE  InStep'
<1>0. setting \in Settings
  BY DEF Base, AstratOK
<1>1. /\ setting' = setting /\ stratify' = [strata |-> StrataOf(setting), next |-> 1]
      /\ hint' = StrataOf(setting)[0] /\ cur' = 0 /\ rem' = setting.quota[1] /\ flag' = FALSE
  BY InitializeFacts DEF AstratInitialize, Base
<1>2. pc' = "initialize" /\ items' = <<>>
  BY DEF QuotaInv, AstratInitialize, Runs, loop
<1>3. Recorded' = 0
  BY <1>2 DEF Recorded
<1>4. (\A s : Upto(s)' = Upto(s)) /\ NumStrata' = NumStrata
  BY <1>1 DEF Upto, NumStrata
<1>5. /\ Upto(0) = setting.quota[1] /\ Upto(NumStrata - 1) \in Nat \ {0} /\ Upto(0) \in Nat \ {0}
      /\ NumStrata \in Nat \ {0}
  <2>1. NumStrata \in Nat \ {0}
    BY <1>0, QuotaFacts
  <2>2. 0 \in 0 .. NumStrata - 1 /\ NumStrata - 1 \in 0 .. NumStrata - 1
    BY <2>1
  <2> QED BY <1>0, <2>1, <2>2, UptoFacts
<1>6. stratify'.next = 1 /\ hint' = stratify'.strata[0] /\ setting'.quota[1] = rem'
  BY <1>1
<1>7. rem' \in 1 .. setting'.quota[1] /\ rem' + Recorded' = Upto(0)
  BY <1>1, <1>3, <1>5
<1>8. ~ (Recorded' >= Upto(NumStrata - 1))
  BY <1>3, <1>5
<1> HIDE DEF NumStrata
<1>9. Upto(cur)' = Upto(0)
  BY <1>1 DEF Upto
<1>10. Upto(NumStrata - 1)' = Upto(NumStrata - 1)
  BY <1>1, <1>4 DEF Upto
<1>11. cur' \in 0 .. NumStrata' - 1 /\ rem' \in 1 .. setting'.quota[cur' + 1]
  BY <1>1, <1>4, <1>5, <1>7
<1>12. stratify'.next = cur' + 1 /\ hint' = stratify'.strata[cur']
  BY <1>1, <1>6
<1> QED BY <1>1, <1>7, <1>8, <1>9, <1>10, <1>11, <1>12 DEF InStep

(* Astrat learns of the item administered.                                 *)
LEMMA InStepAdministered ==
  ASSUME Base, QuotaInv, AstratAdministered
  PROVE  InStep'
<1>0. /\ setting \in Settings /\ NumStrata \in Nat \ {0}
      /\ stratify = [strata |-> StrataOf(setting), next |-> stratify.next]
  BY QuotaFacts DEF Base, AstratOK
<1>1. InStep /\ pc = "administered" /\ "astrat" \in pending /\ items' = items
      /\ pc' = "administered" /\ "astrat" \notin pending'
  BY DEF QuotaInv, Underway, AstratAdministered, Runs, loop
<1>2. Recorded' = Len(items) /\ Recorded = IF LastRecorded THEN Len(items) - 1 ELSE Len(items)
  BY <1>1 DEF Recorded
<1>3. Len(items) \in Nat
  BY LoopTypes DEF Base, Test!TypeOK
<1>4. setting' = setting /\ (\A s : Upto(s)' = Upto(s)) /\ NumStrata' = NumStrata
  <2>1. setting' = setting
    BY AdministeredFacts DEF AstratAdministered, Base, LastRecorded
  <2> QED BY <2>1 DEF Upto, NumStrata
<1>5. /\ \A t \in 1 .. NumStrata - 1 : Upto(t) = Upto(t - 1) + setting.quota[t + 1]
      /\ \A t \in 0 .. NumStrata - 1 : Upto(t) \in Nat \ {0} /\ Upto(t) <= Upto(NumStrata - 1)
      /\ \A t \in 0 .. NumStrata - 1 : setting.quota[t + 1] \in Nat \ {0}
  BY <1>0, UptoFacts, QuotaFacts
<1>6. AlgAstrat!Administered(LastRecorded) /\ LastRecorded \in BOOLEAN
  BY DEF AstratAdministered, LastRecorded
<1>7. NumStrata - 1 \in 0 .. NumStrata - 1
  BY <1>0
<1> HIDE DEF NumStrata
<1>8. CASE /\ ~ (LastRecorded /\ ~flag)
           /\ UNCHANGED <<stratify, cur, rem, flag, hint>>
  <2>1. CASE ~LastRecorded
    BY <1>1, <1>2, <1>4, <1>8, <2>1 DEF InStep
  <2>2. CASE flag
    <3>1. Recorded' >= Upto(NumStrata - 1)
      BY <1>1, <1>2, <1>3, <1>5, <1>7, <2>2 DEF InStep
    <3> QED BY <1>1, <1>4, <1>8, <2>2, <3>1 DEF InStep
  <2> QED BY <1>8, <2>1, <2>2
<1>9. CASE /\ LastRecorded /\ ~flag /\ rem > 1
           /\ rem' = rem - 1
           /\ UNCHANGED <<stratify, cur, flag, hint>>
  <2>1. /\ cur \in 0 .. NumStrata - 1 /\ rem \in 1 .. setting.quota[cur + 1]
        /\ rem + (Len(items) - 1) = Upto(cur)
    BY <1>1, <1>2, <1>9 DEF InStep
  <2>2. Upto(cur) \in Nat /\ Upto(cur) <= Upto(NumStrata - 1) /\ Upto(NumStrata - 1) \in Nat
        /\ setting.quota[cur + 1] \in Nat
    BY <1>5, <1>7, <2>1
  <2>3. ~ (Recorded' >= Upto(NumStrata - 1)) /\ rem' + Recorded' = Upto(cur)
        /\ rem' \in 1 .. setting.quota[cur + 1]
    BY <1>2, <1>3, <1>9, <2>1, <2>2
  <2> QED BY <1>1, <1>4, <1>9, <2>1, <2>3 DEF InStep
<1>10. CASE /\ LastRecorded /\ ~flag /\ rem = 1 /\ stratify.next < NumStrata
            /\ cur' = cur + 1
            /\ stratify' = [strata |-> StrataOf(setting), next |-> stratify.next + 1]
            /\ rem' = setting.quota[cur' + 1]
            /\ hint' = StrataOf(setting)[stratify.next]
            /\ flag' = flag
  <2>1. /\ cur \in 0 .. NumStrata - 1 /\ 1 + (Len(items) - 1) = Upto(cur) /\ stratify.next = cur + 1
    BY <1>1, <1>2, <1>10 DEF InStep
  <2>2. cur + 1 \in 1 .. NumStrata - 1 /\ cur + 1 \in 0 .. NumStrata - 1 /\ (cur + 1) - 1 = cur
    BY <1>0, <1>10, <2>1
  <2>3. /\ Upto(cur + 1) = Upto(cur) + setting.quota[(cur + 1) + 1]
        /\ setting.quota[(cur + 1) + 1] \in Nat \ {0}
        /\ Upto(cur + 1) \in Nat /\ Upto(cur + 1) <= Upto(NumStrata - 1) /\ Upto(NumStrata - 1) \in Nat
        /\ Upto(cur) \in Nat
    BY <1>5, <1>7, <2>1, <2>2
  <2>4. rem' + Recorded' = Upto(cur') /\ ~ (Recorded' >= Upto(NumStrata - 1)) /\ rem' \in 1 .. setting.quota[cur' + 1]
    BY <1>2, <1>3, <1>10, <2>1, <2>3
  <2>5. /\ stratify'.next = cur' + 1 /\ stratify'.strata = StrataOf(setting)
        /\ hint' = StrataOf(setting)[cur'] /\ cur' \in 0 .. NumStrata - 1
    BY <1>10, <2>1, <2>2
  <2>6. Upto(cur)' = Upto(cur')
    BY <1>4 DEF Upto
  <2> QED BY <1>1, <1>4, <1>10, <2>4, <2>5, <2>6 DEF InStep
<1>11. CASE /\ LastRecorded /\ ~flag /\ rem = 1 /\ ~ (stratify.next < NumStrata)
            /\ cur' = cur + 1
            /\ rem' = 0 /\ flag' = TRUE
            /\ UNCHANGED <<stratify, hint>>
  <2>1. /\ cur \in 0 .. NumStrata - 1 /\ 1 + (Len(items) - 1) = Upto(cur) /\ stratify.next = cur + 1
        /\ hint = stratify.strata[cur]
    BY <1>1, <1>2, <1>11 DEF InStep
  <2>2. cur = NumStrata - 1 /\ cur' = NumStrata
    BY <1>0, <1>11, <2>1
  <2>3. Recorded' >= Upto(NumStrata - 1)
    BY <1>2, <1>3, <1>5, <1>7, <2>1, <2>2
  <2> QED BY <1>4, <1>11, <2>1, <2>2, <2>3 DEF InStep
<1> QED BY <1>6, <1>8, <1>9, <1>10, <1>11, AdministeredFacts DEF Base

(* The item administered is recorded as the last one, or not at all.       *)
LEMMA InStepAdminister ==
  ASSUME Base, QuotaInv, EmitAdminister
  PROVE  InStep'
<1>0. given \in Seq(Test!Items) /\ items \in Seq(Test!Items)
  BY LoopTypes DEF Base, Test!TypeOK
<1>1. PICK record : Test!EmitAdminister(record)
  BY DEF EmitAdminister, Loop
<1>2. /\ pc = "administer" /\ pc' = "administered" /\ item_index' = item_index
      /\ items' = IF record THEN Append(items, item_index) ELSE items
      /\ hint' = hint
  BY <1>1 DEF Test!EmitAdminister
<1>3. pending' = {"astrat", "counter"} /\ UNCHANGED astrat
  BY <1>2 DEF EmitAdminister, Loop, Handlers
<1>4. \A r \in 1 .. Len(items) : items[r] # item_index
  BY <1>2, LoopTypes DEF Base, QuotaInv, ItemsGiven
<1>5. InStep /\ Recorded = Len(items)
  BY <1>2 DEF QuotaInv, Underway, Recorded
<1>6. Recorded' = Len(items)
  <2>1. CASE record
    <3>1. items' = Append(items, item_index)
      BY <1>2, <2>1
    <3>2. Len(items') = Len(items) + 1 /\ items' # <<>> /\ items'[Len(items')] = item_index
      BY <1>0, <3>1
    <3>3. LastRecorded'
      BY <1>2, <3>2 DEF LastRecorded
    <3> QED BY <1>0, <1>2, <1>3, <3>2, <3>3 DEF Recorded
  <2>2. CASE ~record
    <3>1. items' = items
      BY <1>2, <2>2
    <3>2. ~LastRecorded'
      BY <1>0, <1>2, <1>4, <3>1 DEF LastRecorded
    <3> QED BY <3>1, <3>2 DEF Recorded
  <2> QED BY <2>1, <2>2
<1> QED BY <1>2, <1>3, <1>5, <1>6 DEF InStep, astrat, Upto, NumStrata

(* Nothing that Astrat steers by changes. *)
LEMMA InStepUnchanged ==
  ASSUME InStep, UNCHANGED <<astrat, hint>>, Recorded' = Recorded
  PROVE  InStep'
BY DEF InStep, astrat, Upto, NumStrata

LEMMA QuotaStep ==
  ASSUME RestratifyAt \subseteq {"idle"}
  PROVE  Base /\ QuotaInv /\ [Next]_vars => QuotaInv'
<1> SUFFICES ASSUME Base, QuotaInv, [Next]_vars PROVE (Underway => InStep)'
  BY PendingStep, ItemsGivenStep DEF QuotaInv
<1>1. CASE Administer
  BY <1>1 DEF Administer, Loop, Test!Administer, Underway, Handlers
<1>2. ASSUME NEW s \in Settings, Restratify(s) PROVE ~Underway'
  BY <1>2 DEF Restratify, Underway, loop
<1>3. CASE AstratInitialize
  BY <1>3, InStepInitialize
<1>4. CASE AstratAdministered
  BY <1>4, InStepAdministered
<1>5. CASE EmitAdminister
  BY <1>5, InStepAdminister
<1>6. CASE EmitFinalize
  BY <1>6 DEF EmitFinalize, Loop, Test!EmitFinalize, Underway
<1>7. CASE \/ EmitInitialize \/ Propose \/ EmitFilter \/ EmitSelect \/ EmitApprove
           \/ EmitAdministered \/ EmitStopcrit
  <2>1. /\ pending = {} /\ UNCHANGED <<astrat, hint, items>>
        /\ pc # "idle" /\ pc' # "administered"
    BY <1>7 DEF EmitInitialize, Propose, EmitFilter, EmitSelect, EmitApprove, EmitAdministered,
                EmitStopcrit, Loop, Test!EmitInitialize, Test!Propose, Test!EmitFilter, Test!EmitSelect,
                Test!EmitApprove, Test!EmitAdministered, Test!EmitStopcrit, Test!taken
  <2>2. Underway /\ Recorded' = Recorded
    BY <2>1 DEF Underway, Recorded
  <2> QED BY <2>1, <2>2, InStepUnchanged DEF QuotaInv
<1>8. CASE CounterInitialize \/ CounterAdministered \/ UNCHANGED vars
  <2>1. /\ UNCHANGED <<loop, astrat, hint>> /\ ("astrat" \in pending' <=> "astrat" \in pending)
    BY <1>8 DEF CounterInitialize, CounterAdministered, Runs, vars
  <2>2. (Underway' <=> Underway) /\ Recorded' = Recorded
    BY <2>1 DEF Underway, Recorded, LastRecorded, loop
  <2> QED BY <2>1, <2>2, InStepUnchanged DEF QuotaInv
<1> QED BY <1>1, <1>2, <1>3, <1>4, <1>5, <1>6, <1>7, <1>8 DEF Next, Step

(* Astrat, its stratification, the hint and the record stay in step in     *)
(* every test of a program that restratifies between tests only            *)
(* (initialize() and administered() of astrat.c).                          *)
THEOREM QuotasStayInStep ==
  ASSUME RestratifyAt \subseteq {"idle"}
  PROVE  Spec => []QuotasInStep
<1>1. Base /\ QuotaInv => QuotasInStep
  BY DEF QuotaInv, InStep, Recorded, NumStrata, QuotasInStep
<1> QED BY <1>1, QuotaInit, QuotaStep, BaseAlways, PTL DEF Spec

-----------------------------------------------------------------------------
(* Every item from the stratum whose turn it is.                           *)

(* The places before the p-th of the items given and recorded. *)
RecordedPlaces(p) ==
  {q \in 1 .. p - 1 : \E r \in 1 .. Len(items) : items[r] = given[q]}

Turn(n) ==
  {s \in 0 .. NumStrata - 1 : /\ n < Upto(s) \/ s = NumStrata - 1
                              /\ s > 0 => Upto(s - 1) <= n}

FromTurn ==
  \A p \in 1 .. Len(given) :
    \E s \in Turn(Cardinality(RecordedPlaces(p))) : given[p] \in stratify.strata[s]

(* Each item recorded was given once. *)
PlacesCounted == Cardinality(RecordedPlaces(Len(given) + 1)) = Len(items)

(* A selection starts from the hint and ends with an item of it. *)
FromHint ==
  /\ pc \in {"filter", "select"}
       => eligible = hint \ {given[p] : p \in 1 .. Len(given)}
  /\ pc = "approve" => item_index \in hint \union {NoItem}
  /\ pc = "administer" => item_index \in hint

StratumInv ==
  /\ QuotaInv
  /\ FromHint
  /\ pc # "idle" => PlacesCounted
  /\ Underway => FromTurn

LEMMA PlacesFinite ==
  ASSUME NEW p \in Nat
  PROVE  /\ IsFiniteSet(RecordedPlaces(p)) /\ Cardinality(RecordedPlaces(p)) \in Nat
<1>1. IsFiniteSet(1 .. p - 1)
  <2>1. 1 \in Int /\ p - 1 \in Int
    OBVIOUS
  <2> QED BY <2>1, FS_Interval
<1>2. RecordedPlaces(p) \in SUBSET (1 .. p - 1)
  BY DEF RecordedPlaces
<1> HIDE DEF RecordedPlaces
<1> QED BY <1>1, <1>2, FS_Subset, FS_CardinalityType

LEMMA FromHintStep ==
  ASSUME Base, StratumInv, [Next]_vars
  PROVE  FromHint'
<1>0. seen = given
  BY LoopTypes DEF Base
<1> USE DEF FromHint
<1>1. CASE Propose
  BY <1>0, <1>1 DEF Propose, Loop, Test!Propose, Test!FreshItems, Test!Seen, Test!taken
<1>2. CASE EmitFilter
  BY <1>2 DEF StratumInv, EmitFilter, Loop, Test!EmitFilter, Test!taken
<1>3. CASE EmitSelect
  <2>1. PICK choice \in PickRand : Test!EmitSelect(choice)
    BY <1>3 DEF EmitSelect, Loop
  <2>2. eligible \subseteq hint
    BY <2>1 DEF StratumInv, Test!EmitSelect
  <2>3. choice \in hint \union {NoItem}
    BY <2>2 DEF PickRand
  <2> QED BY <2>1, <2>3 DEF Test!EmitSelect
<1>4. CASE EmitApprove
  <2>1. PICK reselect : Test!EmitApprove(reselect)
    BY <1>4 DEF EmitApprove, Loop
  <2>2. pc = "approve" /\ item_index' = item_index /\ hint' = hint
        /\ pc' \in {"propose", "finalize", "administer"}
    BY <2>1 DEF Test!EmitApprove
  <2>3. pc' = "administer" => item_index # NoItem
    BY <2>1 DEF Test!EmitApprove, Test!NoItem, NoItem
  <2> QED BY <2>2, <2>3 DEF StratumInv
<1>5. CASE pc' \notin {"filter", "select", "approve", "administer"}
  BY <1>5
<1>6. ASSUME pc' \in {"filter", "select", "approve", "administer"}, ~Propose, ~EmitFilter, ~EmitSelect, ~EmitApprove
      PROVE  UNCHANGED <<loop, hint>>
  <2>1. ~ (Administer \/ EmitInitialize \/ EmitAdminister \/ EmitAdministered \/ EmitStopcrit \/ EmitFinalize)
    BY <1>6 DEF Administer, EmitInitialize, EmitAdminister, EmitAdministered, EmitStopcrit, EmitFinalize,
                Loop, Test!Administer, Test!EmitInitialize, Test!EmitAdminister, Test!EmitAdministered,
                Test!EmitStopcrit, Test!EmitFinalize
  <2>2. ~ (AstratInitialize \/ AstratAdministered)
    BY <1>6 DEF AstratInitialize, AstratAdministered, Runs, loop
  <2> QED BY <1>6, <2>1, <2>2 DEF Next, Step, vars, Restratify, AlgAstrat!Restratify, CounterInitialize,
                                  CounterAdministered, Runs
<1>7. CASE UNCHANGED <<loop, hint>>
  BY <1>7 DEF StratumInv, loop
<1> QED BY <1>1, <1>2, <1>3, <1>4, <1>5, <1>6, <1>7

(* What the emission of ::administer adds to the items given and recorded. *)
LEMMA PlacesAdminister ==
  ASSUME Base, StratumInv, EmitAdminister
  PROVE  /\ given' = Append(given, item_index) /\ given \in Seq(Test!Items)
         /\ \A p \in 1 .. Len(given) + 1 : RecordedPlaces(p)' = RecordedPlaces(p)
         /\ PlacesCounted'
<1>0. given \in Seq(Test!Items) /\ items \in Seq(Test!Items)
  BY LoopTypes DEF Base, Test!TypeOK
<1>1. PICK record : Test!EmitAdminister(record)
  BY DEF EmitAdminister, Loop
<1>2. /\ pc = "administer" /\ given' = Append(given, item_index)
      /\ items' = IF record THEN Append(items, item_index) ELSE items
  BY <1>1 DEF Test!EmitAdminister
<1>3. \A q \in 1 .. Len(given) : given[q] # item_index
  BY <1>2, LoopTypes DEF Base
<1>4. \A r \in 1 .. Len(items) : items[r] # item_index
  BY <1>3 DEF StratumInv, QuotaInv, ItemsGiven
<1>5. ASSUME NEW q \in 1 .. Len(given)
      PROVE  (\E r \in 1 .. Len(items') : items'[r] = given'[q])
               <=> (\E r \in 1 .. Len(items) : items[r] = given[q])
  <2>1. given'[q] = given[q] /\ given[q] # item_index
    BY <1>0, <1>2, <1>3
  <2>2. CASE record
    <3>1. items' = Append(items, item_index)
      BY <1>2, <2>2
    <3>2. Len(items') = Len(items) + 1 /\ items'[Len(items) + 1] = item_index
          /\ \A r \in 1 .. Len(items) : items'[r] = items[r]
      BY <1>0, <3>1
    <3>3. Len(items) \in Nat
      BY <1>0
    <3> QED BY <2>1, <3>2, <3>3
  <2>3. CASE ~record
    BY <1>2, <2>1, <2>3
  <2> QED BY <2>2, <2>3
<1>6. ASSUME NEW p \in 1 .. Len(given) + 1 PROVE RecordedPlaces(p)' = RecordedPlaces(p)
  <2>1. 1 .. p - 1 \subseteq 1 .. Len(given)
    BY <1>0
  <2> QED BY <1>5, <2>1 DEF RecordedPlaces
<1> DEFINE n == Len(given) + 1
           old == RecordedPlaces(n)
<1>7. n \in Nat /\ Len(given') = n /\ given'[n] = item_index
  BY <1>0, <1>2
<1>8. Cardinality(old) = Len(items) /\ IsFiniteSet(old) /\ n \notin old
  <2>1. PlacesCounted
    BY <1>2 DEF StratumInv
  <2>2. n \notin old
    BY <1>7 DEF RecordedPlaces
  <2> QED BY <1>7, <2>1, <2>2, PlacesFinite DEF PlacesCounted
<1>9. RecordedPlaces(Len(given) + 1)' =
        {q \in 1 .. n : \E r \in 1 .. Len(items') : items'[r] = given'[q]}
  BY <1>7 DEF RecordedPlaces
<1>10. 1 .. n = (1 .. n - 1) \union {n} /\ n - 1 = Len(given)
  BY <1>0, <1>7
<1>11. old = {q \in 1 .. n - 1 : \E r \in 1 .. Len(items') : items'[r] = given'[q]}
  BY <1>5, <1>10 DEF RecordedPlaces
<1>12. ASSUME record PROVE PlacesCounted'
  <2>1. items' = Append(items, item_index) /\ Len(items') = Len(items) + 1
    BY <1>0, <1>2, <1>12
  <2>2. items'[Len(items')] = given'[n] /\ Len(items') \in 1 .. Len(items')
    BY <1>0, <1>7, <2>1
  <2>3. RecordedPlaces(Len(given) + 1)' = old \union {n}
    <3> HIDE DEF n, old
    <3> QED BY <1>9, <1>10, <1>11, <2>2
  <2>4. Cardinality(old \union {n}) = Len(items) + 1
    <3> HIDE DEF n, old
    <3> QED BY <1>8, FS_AddElement
  <2> QED BY <2>1, <2>3, <2>4 DEF PlacesCounted
<1>13. ASSUME ~record PROVE PlacesCounted'
  <2>1. items' = items
    BY <1>2, <1>13
  <2>2. RecordedPlaces(Len(given) + 1)' = old
    <3>1. ~ \E r \in 1 .. Len(items') : items'[r] = given'[n]
      BY <1>4, <1>7, <2>1
    <3> HIDE DEF n, old
    <3> QED BY <1>9, <1>10, <1>11, <3>1
  <2> QED BY <1>8, <2>1, <2>2 DEF PlacesCounted
<1> QED BY <1>0, <1>2, <1>6, <1>12, <1>13

LEMMA PlacesStep ==
  ASSUME Base, StratumInv, [Next]_vars
  PROVE  (pc # "idle" => PlacesCounted)'
<1>1. CASE Administer
  <2>1. given' = <<>> /\ items' = <<>>
    BY <1>1 DEF Administer, Loop, Test!Administer
  <2>2. RecordedPlaces(Len(given) + 1)' = {}
    BY <2>1 DEF RecordedPlaces
  <2>3. Len(items') = 0
    BY <2>1
  <2> QED BY <2>2, <2>3, FS_EmptySet DEF PlacesCounted
<1>2. CASE EmitAdminister
  BY <1>2, PlacesAdminister
<1>3. CASE UNCHANGED <<items, given>> /\ (pc' # "idle" => pc # "idle")
  BY <1>3 DEF StratumInv, PlacesCounted, RecordedPlaces
<1> QED BY <1>1, <1>2, <1>3
        DEF Next, Step, Restratify, vars, loop, Loop, EmitInitialize, Propose, EmitFilter, EmitSelect,
            EmitApprove, EmitAdministered, EmitStopcrit, EmitFinalize, AstratInitialize,
            AstratAdministered, CounterInitialize, CounterAdministered, Runs,
            Test!EmitInitialize, Test!Propose, Test!EmitFilter, Test!EmitSelect, Test!EmitApprove,
            Test!EmitAdministered, Test!EmitStopcrit, Test!EmitFinalize, Test!taken

(* The stratum that the hint is has its turn. *)
LEMMA HintHasTurn ==
  ASSUME setting \in Settings, InStep, Recorded \in Nat
  PROVE  \E s \in Turn(Recorded) : hint = stratify.strata[s]
<1>0. NumStrata \in Nat \ {0} /\ NumStrata - 1 \in 0 .. NumStrata - 1
  BY QuotaFacts
<1>1. /\ \A t \in 1 .. NumStrata - 1 : Upto(t) = Upto(t - 1) + setting.quota[t + 1]
      /\ \A t \in 0 .. NumStrata - 1 : Upto(t) \in Nat \ {0} /\ Upto(t) <= Upto(NumStrata - 1)
      /\ \A t \in 0 .. NumStrata - 1 : setting.quota[t + 1] \in Nat \ {0}
  BY UptoFacts, QuotaFacts
<1> HIDE DEF NumStrata
<1>2. CASE ~flag
  <2>1. /\ cur \in 0 .. NumStrata - 1 /\ rem \in 1 .. setting.quota[cur + 1]
        /\ rem + Recorded = Upto(cur) /\ hint = stratify.strata[cur]
    BY <1>2 DEF InStep
  <2>2. setting.quota[cur + 1] \in Nat /\ Upto(cur) \in Nat
    BY <1>1, <2>1
  <2>3. Recorded < Upto(cur)
    BY <2>1, <2>2
  <2>4. ASSUME cur > 0 PROVE Upto(cur - 1) <= Recorded
    <3>1. cur \in 1 .. NumStrata - 1 /\ cur - 1 \in 0 .. NumStrata - 1
      BY <1>0, <2>1, <2>4
    <3>2. Upto(cur) = Upto(cur - 1) + setting.quota[cur + 1] /\ Upto(cur - 1) \in Nat
      BY <1>1, <3>1
    <3> QED BY <2>1, <2>2, <3>2
  <2> QED BY <2>1, <2>3, <2>4 DEF Turn
<1>3. CASE flag
  <2>1. hint = stratify.strata[NumStrata - 1] /\ Recorded >= Upto(NumStrata - 1)
    BY <1>3 DEF InStep
  <2>2. ASSUME NumStrata - 1 > 0 PROVE Upto((NumStrata - 1) - 1) <= Recorded
    <3>1. (NumStrata - 1) - 1 \in 0 .. NumStrata - 1
      BY <1>0, <2>2
    <3> QED BY <1>0, <1>1, <2>1, <3>1
  <2> QED BY <1>0, <2>1, <2>2 DEF Turn
<1> QED BY <1>2, <1>3 DEF InStep

(* The next item given is from the stratum of the hint. *)
LEMMA FromTurnAdminister ==
  ASSUME Base, StratumInv, EmitAdminister
  PROVE  FromTurn'
<1>1. /\ given' = Append(given, item_index) /\ given \in Seq(Test!Items)
      /\ \A p \in 1 .. Len(given) + 1 : RecordedPlaces(p)' = RecordedPlaces(p)
  BY PlacesAdminister
<1>2. /\ pc = "administer" /\ UNCHANGED astrat
  BY DEF EmitAdminister, Loop, Test!EmitAdminister
<1>3. /\ stratify' = stratify /\ \A n : Turn(n)' = Turn(n)
  BY <1>2 DEF astrat, Turn, NumStrata, Upto
<1>4. InStep /\ FromTurn /\ PlacesCounted /\ item_index \in hint /\ Recorded = Len(items)
  BY <1>2 DEF StratumInv, QuotaInv, Underway, FromHint, Recorded
<1>5. \E s \in Turn(Len(items)) : item_index \in stratify.strata[s]
  <2>1. Recorded \in Nat
    BY <1>4, LoopTypes DEF Base, Test!TypeOK
  <2>2. setting \in Settings
    BY DEF Base, AstratOK
  <2> QED BY <1>4, <2>1, <2>2, HintHasTurn
<1>6. ASSUME NEW p \in 1 .. Len(given')
      PROVE  \E s \in Turn(Cardinality(RecordedPlaces(p)))' : given'[p] \in stratify'.strata[s]
  <2>1. Len(given') = Len(given) + 1 /\ Len(given) \in Nat
    BY <1>1
  <2>2. RecordedPlaces(p)' = RecordedPlaces(p)
    BY <1>1, <2>1
  <2>3. CASE p = Len(given) + 1
    <3>1. Cardinality(RecordedPlaces(p)) = Len(items) /\ given'[p] = item_index
      BY <1>1, <1>4, <2>3 DEF PlacesCounted
    <3> QED BY <1>3, <1>5, <2>2, <3>1
  <2>4. CASE p \in 1 .. Len(given)
    <3>1. given'[p] = given[p]
      BY <1>1, <2>4
    <3> QED BY <1>3, <1>4, <2>2, <2>4, <3>1 DEF FromTurn
  <2> QED BY <2>1, <2>3, <2>4
<1> QED BY <1>6 DEF FromTurn

LEMMA FromTurnStep ==
  ASSUME RestratifyAt \subseteq {"idle"}, Base, StratumInv, [Next]_vars
  PROVE  (Underway => FromTurn)'
<1>0. AstratOK
  BY DEF Base
<1>1. CASE Administer
  BY <1>1 DEF Administer, Loop, Test!Administer, Underway, Handlers
<1>2. ASSUME NEW s \in Settings, Restratify(s) PROVE ~Underway'
  BY <1>2 DEF Restratify, Underway, loop
<1>3. CASE AstratInitialize
  <2>1. given' = <<>>
    BY <1>3 DEF StratumInv, QuotaInv, AstratInitialize, Runs, loop
  <2> QED BY <2>1 DEF FromTurn
<1>4. CASE AstratAdministered
  <2>1. Underway /\ UNCHANGED <<given, items>>
    BY <1>4 DEF AstratAdministered, Runs, loop, Underway
  <2>2. setting' = setting /\ stratify'.strata = stratify.strata
    <3>1. AlgAstrat!Administered(LastRecorded) /\ LastRecorded \in BOOLEAN
      BY <1>4 DEF AstratAdministered, LastRecorded
    <3>2. setting' = setting
      BY <1>0, <3>1, AdministeredFacts
    <3>3. \/ stratify' = stratify
          \/ stratify' = [strata |-> StrataOf(setting), next |-> stratify.next + 1]
      BY <1>0, <3>1, AdministeredFacts
    <3> QED BY <1>0, <3>2, <3>3 DEF AstratOK
  <2>3. \A n : Turn(n)' = Turn(n)
    BY <2>2 DEF Turn, NumStrata, Upto
  <2>4. \A p : RecordedPlaces(p)' = RecordedPlaces(p)
    BY <2>1 DEF RecordedPlaces
  <2> QED BY <2>1, <2>2, <2>3, <2>4 DEF StratumInv, FromTurn
<1>5. CASE EmitAdminister
  BY <1>5, FromTurnAdminister
<1>6. CASE EmitFinalize
  BY <1>6 DEF EmitFinalize, Loop, Test!EmitFinalize, Underway
<1>7. CASE UNCHANGED <<given, items, setting, stratify>> /\ (Underway' => Underway)
  <2>1. (\A n : Turn(n)' = Turn(n)) /\ (\A p : RecordedPlaces(p)' = RecordedPlaces(p))
    BY <1>7 DEF Turn, NumStrata, Upto, RecordedPlaces
  <2> QED BY <1>7, <2>1 DEF StratumInv, FromTurn
<1>8. CASE \/ EmitInitialize \/ Propose \/ EmitFilter \/ EmitSelect \/ EmitApprove
           \/ EmitAdministered \/ EmitStopcrit
  <2>1. pending = {} /\ pc # "idle" /\ UNCHANGED <<astrat, items, given>>
    BY <1>8 DEF EmitInitialize, Propose, EmitFilter, EmitSelect, EmitApprove, EmitAdministered,
                EmitStopcrit, Loop, Test!EmitInitialize, Test!Propose, Test!EmitFilter, Test!EmitSelect,
                Test!EmitApprove, Test!EmitAdministered, Test!EmitStopcrit, Test!taken
  <2> QED BY <1>7, <2>1 DEF Underway, astrat
<1>9. CASE CounterInitialize \/ CounterAdministered \/ UNCHANGED vars
  <2>1. UNCHANGED <<loop, astrat>> /\ ("astrat" \in pending' <=> "astrat" \in pending)
    BY <1>9 DEF CounterInitialize, CounterAdministered, Runs, vars
  <2> QED BY <1>7, <2>1 DEF Underway, loop, astrat
<1> QED BY <1>1, <1>2, <1>3, <1>4, <1>5, <1>6, <1>8, <1>9 DEF Next, Step

LEMMA StratumInit == Init => StratumInv
BY QuotaInit DEF Init, Test!Init, StratumInv, FromHint, Underway

LEMMA StratumStep ==
  ASSUME RestratifyAt \subseteq {"idle"}
  PROVE  Base /\ StratumInv /\ [Next]_vars => StratumInv'
BY QuotaStep, FromHintStep, PlacesStep, FromTurnStep DEF StratumInv

(* Every item administered is from the stratum whose turn it is, in every  *)
(* test of a program that restratifies between tests only: the handlers of *)
(* astrat.c reach the selection through the hint alone.                    *)
THEOREM ItemsFromTheirStrata ==
  ASSUME RestratifyAt \subseteq {"idle"}
  PROVE  Spec => []ItemsFromTheirStratum
<1>1. StratumInv => ItemsFromTheirStratum
  BY DEF StratumInv, FromTurn, Turn, RecordedPlaces, NumStrata, ItemsFromTheirStratum, RecordedBefore
<1> QED BY <1>1, StratumInit, StratumStep, BaseAlways, PTL DEF Spec

-----------------------------------------------------------------------------
(* No test starves.                                                        *)

(* When all items given are recorded, the p-th has p - 1 before it.        *)
LEMMA AllPlaces ==
  ASSUME Base, PlacesCounted, Len(items) = Len(given), NEW p \in 1 .. Len(given)
  PROVE  Cardinality(RecordedPlaces(p)) = p - 1
<1> DEFINE n == Len(given)
           all == RecordedPlaces(n + 1)
<1>1. n \in Nat
  BY LoopTypes DEF Base, Test!TypeOK
<1>2. IsFiniteSet(1 .. n) /\ Cardinality(1 .. n) = n
  <2>1. 1 \in Int /\ n \in Int
    BY <1>1
  <2>2. IsFiniteSet(1 .. n) /\ Cardinality(1 .. n) = IF 1 > n THEN 0 ELSE n - 1 + 1
    BY <2>1, FS_Interval
  <2> QED BY <1>1, <2>2
<1>3. all \in SUBSET (1 .. n) /\ Cardinality(all) = n
  <2>1. (n + 1) - 1 = n
    BY <1>1
  <2> QED BY <2>1 DEF PlacesCounted, RecordedPlaces
<1>4. all = 1 .. n
  <2> HIDE DEF all, n
  <2> QED BY <1>2, <1>3, FS_Subset
<1>5. RecordedPlaces(p) = 1 .. p - 1
  BY <1>1, <1>4 DEF RecordedPlaces
<1>6. Cardinality(1 .. p - 1) = p - 1
  <2>1. 1 \in Int /\ p - 1 \in Int
    OBVIOUS
  <2>2. Cardinality(1 .. p - 1) = IF 1 > p - 1 THEN 0 ELSE (p - 1) - 1 + 1
    BY <2>1, FS_Interval
  <2> QED BY <1>1, <2>2
<1> QED BY <1>5, <1>6

(* Astrat starves no test (initialize() and administered() of astrat.c     *)
(* with the loop of test.c): while all items are recorded, a stratum as    *)
(* large as its quota has an item left for every selection.                *)
THEOREM NoStratumStarves ==
  ASSUME RestratifyAt \subseteq {"idle"}
  PROVE  Spec => []StratumSuffices
<1>1. Base /\ StratumInv => StratumSuffices
  <2> SUFFICES ASSUME Base, StratumInv, pc = "select", ~flag, Len(items) = Len(given),
                      Cardinality(stratify.strata[cur]) >= setting.quota[cur + 1],
                      eligible = {}
               PROVE  FALSE
    BY DEF StratumSuffices
  <2> DEFINE n == Len(given)
             start == IF cur = 0 THEN 0 ELSE Upto(cur - 1)
             places == start + 1 .. n
             stratum == stratify.strata[cur]
  <2>1. /\ InStep /\ FromTurn /\ PlacesCounted /\ eligible = hint \ {given[p] : p \in 1 .. n}
        /\ Recorded = n
    BY DEF StratumInv, QuotaInv, Underway, FromHint, Recorded
  <2>2. n \in Nat
    BY LoopTypes DEF Base, Test!TypeOK
  <2>3. /\ setting \in Settings /\ NumStrata \in Nat \ {0}
        /\ \A t, u \in 0 .. NumStrata - 1 :
             \A i \in stratify.strata[t] \intersect stratify.strata[u] : t = u
    <3>1. stratify.strata = StrataOf(setting) /\ setting \in Settings
      BY DEF Base, AstratOK
    <3> QED BY <3>1, StrataFacts, QuotaFacts DEF NumStrata
  <2>4. /\ cur \in 0 .. NumStrata - 1 /\ rem \in 1 .. setting.quota[cur + 1]
        /\ rem + n = Upto(cur) /\ hint = stratum
    BY <2>1 DEF InStep
  <2>5. setting.quota[cur + 1] \in Nat /\ start \in Nat /\ Upto(cur) = start + setting.quota[cur + 1]
    <3>1. setting.quota[cur + 1] \in Nat
      BY <2>3, <2>4, QuotaFacts
    <3>2. CASE cur = 0
      BY <2>3, <3>1, <3>2, UptoFacts
    <3>3. CASE cur # 0
      <4>1. cur \in 1 .. NumStrata - 1 /\ cur - 1 \in 0 .. NumStrata - 1
        BY <2>3, <2>4, <3>3
      <4> HIDE DEF NumStrata
      <4> QED BY <2>3, <3>1, <3>3, <4>1, UptoFacts
    <3> QED BY <3>2, <3>3
  <2>6. ASSUME NEW i \in stratum PROVE \E p \in places : given[p] = i
    <3>1. PICK p \in 1 .. n : given[p] = i
      BY <2>1, <2>4
    <3>2. PICK s \in Turn(Cardinality(RecordedPlaces(p))) : given[p] \in stratify.strata[s]
      BY <2>1 DEF FromTurn
    <3>3. s \in 0 .. NumStrata - 1
      BY <3>2 DEF Turn
    <3>4. s = cur
      BY <2>3, <2>4, <3>1, <3>2, <3>3
    <3>5. Cardinality(RecordedPlaces(p)) = p - 1
      BY <2>1, AllPlaces
    <3>6. cur > 0 => Upto(cur - 1) <= p - 1
      BY <3>2, <3>4, <3>5 DEF Turn
    <3>7. start <= p - 1
      BY <2>4, <3>6
    <3> HIDE DEF start
    <3>8. p \in places
      BY <2>2, <2>5, <3>7
    <3> QED BY <3>1, <3>8
  <2> HIDE DEF start
  <2>7. n - start < setting.quota[cur + 1]
    BY <2>2, <2>4, <2>5
  <2>8. IsFiniteSet(places) /\ Cardinality(places) < setting.quota[cur + 1]
    <3>1. start + 1 \in Int /\ n \in Int
      BY <2>2, <2>5
    <3>2. IsFiniteSet(places) /\ Cardinality(places) = IF start + 1 > n THEN 0 ELSE n - (start + 1) + 1
      BY <3>1, FS_Interval
    <3>3. setting.quota[cur + 1] > 0
      BY <2>4, <2>5
    <3> QED BY <2>2, <2>5, <2>7, <3>2, <3>3
  <2>9. Cardinality(stratum) <= Cardinality(places)
    <3> DEFINE place == [i \in stratum |-> CHOOSE p \in places : given[p] = i]
    <3> HIDE DEF places, stratum
    <3>1. \A i \in stratum : place[i] \in places /\ given[place[i]] = i
      BY <2>6
    <3>2. place \in [stratum -> places]
      BY <3>1
    <3>3. \A i, j \in stratum : place[i] = place[j] => i = j
      <4> HIDE DEF place
      <4> QED BY <3>1
    <3>4. place \in Injection(stratum, places)
      <4> HIDE DEF place
      <4> QED BY <3>2, <3>3, Fun_IsInj
    <3> QED BY <2>8, <3>4, FS_Injection
  <2>10. Cardinality(places) \in Nat /\ Cardinality(stratum) \in Nat
    <3>1. stratum \in SUBSET Items /\ IsFiniteSet(Items)
      <4>1. stratum \in SUBSET Items
        BY <2>4, StrataFacts DEF Base, AstratOK, NumStrata
      <4>2. IsFiniteSet(0 .. NumItems - 1)
        <5>1. 0 \in Int /\ NumItems - 1 \in Int
          BY LoopAssumption
        <5> QED BY <5>1, FS_Interval
      <4> QED BY <4>1, <4>2 DEF Items
    <3> HIDE DEF places, stratum
    <3> QED BY <2>8, <3>1, FS_Subset, FS_CardinalityType
  <2> HIDE DEF places
  <2> QED BY <2>5, <2>8, <2>9, <2>10
<1> QED BY <1>1, StratumInit, StratumStep, BaseAlways, PTL DEF Spec
=============================================================================

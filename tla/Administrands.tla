------------------------------- MODULE Administrands -------------------------------
(***************************************************************************)
(* Items, item banks and the tests that freeze them (administrand.c,       *)
(* item.c, itembank.c, and the construction and disposal of OscatsTest).   *)
(*                                                                         *)
(* A bank holds items and other banks, the same one more than once if the  *)
(* program adds it more than once.  Banks are numbered and hold only banks *)
(* of lower number: a bank inside itself would recurse without end.  The   *)
(* program may call any operation at any time, also while tests exist; an  *)
(* operation that is refused changes nothing and is no step.               *)
(***************************************************************************)
EXTENDS Integers, FiniteSets, FiniteSetsExt, Functions

CONSTANTS
  Items,       (* The items.                                               *)
  NumBanks,    (* The number of item banks.                                *)
  Tests,       (* The test objects.                                        *)
  Names,       (* The model names.                                         *)
  DefaultName, (* The name "default".                                      *)
  Models,      (* The model objects.                                       *)
  MaxCopies    (* Bound: times an administrand is in one bank.             *)

ASSUME NamesAssumption == DefaultName \in Names
ASSUME NumBanksAssumption == NumBanks \in Nat
ASSUME TestsAssumption == IsFiniteSet(Tests)

VARIABLES
  contents,      (* How often each administrand is in a bank's items.      *)
  tests,         (* The bank of each test, or NoBank if there is no test.  *)
  freeze_count,  (* item->freeze_count, of items and banks.                *)
  models,        (* item->models: the model of each name, or NoModel.      *)
  defaultKey,    (* item->defaultKey: the name of the default model.       *)
  defaultmodel   (* item->defaultmodel: the default model itself.          *)

modelVars == <<models, defaultKey, defaultmodel>>
vars == <<contents, tests, freeze_count, modelVars>>

Banks == 1 .. NumBanks
Administrands == Items \union Banks
NoBank == 0
NoModel == "none"
ZeroName == "0"      (* The quark 0 as an argument: the default.           *)

Init ==
  /\ contents = [b \in Banks |-> [x \in Administrands |-> 0]]
  /\ tests = [t \in Tests |-> NoBank]
  /\ freeze_count = [x \in Administrands |-> 0]
  /\ models = [i \in Items |-> [n \in Names |-> NoModel]]
  /\ defaultKey = [i \in Items |-> DefaultName]
  /\ defaultmodel = [i \in Items |-> NoModel]

-------------------------------------------------------------------------------

(* How often the calls of freeze on bank b reach x inside of b, each bank  *)
(* calling it on all its administrands.                                    *)
Visits(b) ==
  LET visits[c \in Banks] ==
        [x \in Administrands |->
           contents[c][x] + SumFunction([d \in 1 .. c - 1 |-> contents[c][d] * visits[d][x]])]
  IN  visits[b]

(* Broken: the items of an inner bank are not frozen.                      *)
FreezeCallsShallow(b) ==
  [x \in Administrands |-> contents[b][x] + (IF x = b THEN 1 ELSE 0)]

(* The calls of freeze, or of unfreeze, on each administrand.              *)
FreezeCalls(b) ==
  [x \in Administrands |-> Visits(b)[x] + (IF x = b THEN 1 ELSE 0)]

(* Broken: an administrand that is frozen is not counted again.            *)
NewTestFlag(t, b) ==
  /\ tests[t] = NoBank
  /\ tests' = [tests EXCEPT ![t] = b]
  /\ freeze_count' = [x \in Administrands |->
                        IF FreezeCalls(b)[x] > 0 THEN 1 ELSE freeze_count[x]]
  /\ UNCHANGED <<contents, modelVars>>

(* The construction of a test with bank b freezes the bank.                *)
NewTest(t, b) ==
  /\ tests[t] = NoBank
  /\ tests' = [tests EXCEPT ![t] = b]
  /\ freeze_count' = [x \in Administrands |-> freeze_count[x] + FreezeCalls(b)[x]]
  /\ UNCHANGED <<contents, modelVars>>

(* The disposal unfreezes it; a count does not go below 0.                 *)
DisposeTest(t) ==
  /\ tests[t] # NoBank
  /\ tests' = [tests EXCEPT ![t] = NoBank]
  /\ freeze_count' = [x \in Administrands |->
                        Max({0, freeze_count[x] - FreezeCalls(tests[t])[x]})]
  /\ UNCHANGED <<contents, modelVars>>

(* oscats_item_bank_add_item *)
AddItem(b, x) ==
  /\ freeze_count[b] = 0
  /\ contents[b][x] < MaxCopies
  /\ contents' = [contents EXCEPT ![b][x] = @ + 1]
  /\ UNCHANGED <<tests, freeze_count, modelVars>>

(* oscats_item_bank_remove_item *)
RemoveItem(b, x) ==
  /\ freeze_count[b] = 0
  /\ contents[b][x] > 0
  /\ contents' = [contents EXCEPT ![b][x] = @ - 1]
  /\ UNCHANGED <<tests, freeze_count, modelVars>>

(* Broken: the default model is cached only if it is set by name 0.        *)
SetModelByKey(i, name, model) ==
  LET key == IF name = ZeroName THEN defaultKey[i] ELSE name
  IN  /\ freeze_count[i] = 0
      /\ models' = [models EXCEPT ![i][key] = model]
      /\ defaultmodel' = IF name = ZeroName
                         THEN [defaultmodel EXCEPT ![i] = model] ELSE defaultmodel
      /\ UNCHANGED <<contents, tests, freeze_count, defaultKey>>

(* oscats_administrand_set_model on an item; a bank has no models.         *)
SetModel(i, name, model) ==
  LET key == IF name = ZeroName THEN defaultKey[i] ELSE name
  IN  /\ freeze_count[i] = 0
      /\ models' = [models EXCEPT ![i][key] = model]
      /\ defaultmodel' = IF key = defaultKey[i]
                         THEN [defaultmodel EXCEPT ![i] = model] ELSE defaultmodel
      /\ UNCHANGED <<contents, tests, freeze_count, defaultKey>>

(* The items a call of set_default_model on a bank or an item changes: a   *)
(* frozen administrand refuses the call, for itself and all inside it.     *)
Unfrozen(x) ==
  LET within[b \in Banks] ==
        {i \in Items : contents[b][i] > 0 /\ freeze_count[i] = 0} \union
        UNION {within[c] : c \in {d \in 1 .. b - 1 : /\ contents[b][d] > 0
                                                     /\ freeze_count[d] = 0}}
  IN  CASE freeze_count[x] > 0               -> {}
        [] freeze_count[x] = 0 /\ x \in Banks -> within[x]
        [] OTHER                             -> {x}

(* oscats_administrand_set_default_model *)
SetDefaultModel(x, name) ==
  LET key == IF name = ZeroName THEN DefaultName ELSE name
  IN  /\ defaultKey' = [i \in Items |-> IF i \in Unfrozen(x) THEN key ELSE defaultKey[i]]
      /\ defaultmodel' = [i \in Items |-> IF i \in Unfrozen(x) THEN models[i][key]
                                                               ELSE defaultmodel[i]]
      /\ UNCHANGED <<contents, tests, freeze_count, models>>

(* A model has one owner: the program sets models not in use.              *)
Free == Models \ {models[i][n] : i \in Items, n \in Names}

Next ==
  \/ \E t \in Tests, b \in Banks : NewTest(t, b)
  \/ \E t \in Tests : DisposeTest(t)
  \/ \E b \in Banks : \E x \in Items \union 1 .. b - 1 :
       AddItem(b, x) \/ RemoveItem(b, x)
  \/ \E i \in Items, name \in Names \union {ZeroName}, model \in Free :
       SetModel(i, name, model)
  \/ \E x \in Administrands, name \in Names \union {ZeroName} : SetDefaultModel(x, name)

Spec == Init /\ [][Next]_vars

-------------------------------------------------------------------------------

Live == {t \in Tests : tests[t] # NoBank}

(* What the test t uses: its bank and all that is inside.                  *)
InTest(t) == {tests[t]} \union {x \in Administrands : Visits(tests[t])[x] > 0}

(* An administrand is frozen as often as the tests that exist reach it:    *)
(* freezing and unfreezing balance, because the banks they walk through    *)
(* cannot have changed in between.                                         *)
FreezeExact ==
  \A x \in Administrands :
    freeze_count[x] =
      SumFunction([t \in Live |-> Visits(tests[t])[x] + (IF x = tests[t] THEN 1 ELSE 0)])

(* A step leaves the banks of a test and the models of its items alone.    *)
TestUntouched(t) ==
  \A x \in InTest(t) :
    /\ x \in Banks => contents'[x] = contents[x]
    /\ x \in Items => /\ models'[x] = models[x]
                      /\ defaultKey'[x] = defaultKey[x]
                      /\ defaultmodel'[x] = defaultmodel[x]

(* "Once an administrand is added (directly or indirectly) to a test,      *)
(* changes to its list of models are no longer permitted": while a test    *)
(* exists neither what is in its banks nor the models of its items change. *)
NothingChangesInTest ==
  [][\A t \in Live : tests'[t] = tests[t] => TestUntouched(t)]_vars

(* The default model an item caches is the model its default name names.   *)
DefaultCached ==
  \A i \in Items : defaultmodel[i] = models[i][defaultKey[i]]

===============================================================================

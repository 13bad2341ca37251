------------------------------- MODULE Objects -------------------------------
(***************************************************************************)
(* The life of one object of any class: it is created with a value for     *)
(* each property that needs one, configured, registered for a test if it   *)
(* is an algorithm, given other objects to keep, and disposed when its     *)
(* last reference is dropped, by the program or by the test.  Meanwhile    *)
(* the program may drop its references to the other objects.               *)
(***************************************************************************)
EXTENDS DataClasses

CONSTANTS Points, Items, Models,
          Unset,       \* no value
          Subjects,    \* the classes to consider
          MaxGiven,    \* Bound: values other than the defaults
          MaxListed    \* Bound: elements of an array

Algorithms == {"fixed_length", "simulate", "class_rates", "pick_rand", "exposure_counter",
               "closest_diff", "max_fisher", "max_kl", "estimate", "astrat"}
ModelClasses == {"nominal", "pc", "gpc", "gr"}

Classes ==
    [fixed_length |-> FixedLength, simulate |-> Simulate, class_rates |-> ClassRates,
     pick_rand |-> <<>>, exposure_counter |-> <<>>, closest_diff |-> ClosestDiff,
     max_fisher |-> MaxFisher, max_kl |-> MaxKl, estimate |-> Estimate, astrat |-> Astrat,
     nominal |-> Nominal, pc |-> PartialCredit, gpc |-> GeneralizedPartialCredit,
     gr |-> GradedResponse, chooser |-> Chooser, stratify |-> Stratify, test |-> Test,
     examinee |-> Examinee, item |-> Administrand, item_bank |-> ItemBank, space |-> Space,
     point |-> Point]

ASSUME ObjectsAssumption ==
    /\ Subjects \subseteq DOMAIN Classes /\ MaxGiven \in Nat /\ MaxListed \in Nat
    /\ Banks \union Vectors \union Spaces \union Covariates \union Points \union Items
         \union Models \union {TestBank, NewCovariates} \subseteq Things
    /\ Null \notin Things

(* The values that the methods make of those they are given.               *)
Made ==
    Nat \union {Generated, <<FirstDim>>, <<"none">>}
      \union [of : Matrices, times : {1, 2}]
      \union {CopyOf(covariates) : covariates \in Covariates}
      \union {[i \in 1 .. n |-> 2] : n \in Counts \union {0}}

(* Only a property that is an object has objects; a model is given some    *)
(* covariates to copy.                                                     *)
ASSUME ValuesAssumption ==
    /\ \A t \in Things : t \notin Made
    /\ \A c \in DOMAIN Classes : \A p \in DOMAIN Classes[c] \ {"covariates"} :
         Classes[c][p].kind # "object" =>
             (Classes[c][p].range \union {Classes[c][p].first}) \intersect Things = {}
    /\ Counts \subseteq Nat
    /\ \A quotas \in Quotas : Len(quotas) \in Nat

(* No property is ever given what stands for no value.                     *)
ASSUME UnsetAssumption ==
    /\ Unset \notin Things \union {Null, <<>>} /\ Null \notin Made
    /\ \A c \in DOMAIN Classes : \A p \in DOMAIN Classes[c] :
         Unset \notin Classes[c][p].range \union {Classes[c][p].first}

\* The fields that no property sets.
Private(c) ==
    CASE c \in {"closest_diff", "max_fisher"} -> {"chooser.bank"}
      [] c = "max_kl"   -> {"chooser.bank", "space", "theta.space"}
      [] c = "astrat"   -> {"stratify.bank"}
      [] c = "examinee" -> {"simDefault", "estDefault"}
      [] c = "item"     -> {"default", "other"}
      [] OTHER          -> {}

\* The properties whose values can be read back: sizeHint has no reader, and
\* that of Nitems copies to a GValue that is not initialised.
Readable(c) == DOMAIN Classes[c] \ {"sizeHint", "Nitems"}

-----------------------------------------------------------------------------
(* The methods of the classes.                                             *)

SetOf(c, s, p, v) ==
    CASE c = "max_kl"   -> MaxKlSet(s, p, v)
      [] c = "estimate" -> EstimateSet(s, p, v)
      [] c = "astrat"   -> AstratSet(s, p, v)
      [] c = "test"     -> TestSet(s, p, v)
      [] c = "space"    -> SpaceSet(s, p, v)
      [] c \in ModelClasses -> ModelSet(Classes[c], s, p, v)
      [] OTHER          -> Set(Classes[c], s, p, v)

GetOf(c, s, p) ==
    CASE c = "max_kl"   -> MaxKlGet(s, p)
      [] c = "estimate" -> EstimateGet(s, p)
      [] c = "examinee" /\ p = "covariates" -> Get(Examinee, ExamineeReadCovariates(s), p)
      [] c \in ModelClasses -> ModelGet(Classes[c], s, p)
      [] OTHER          -> Get(Classes[c], s, p)

ConstructedOf(c, s) ==
    CASE c = "space" -> SpaceConstructed(s)
      [] c \in ModelClasses -> ModelConstructed(s)
      [] OTHER -> s

RegisterOf(c, s) ==
    CASE c = "fixed_length"     -> FixedLengthRegister(s)
      [] c = "simulate"         -> SimulateRegister(s)
      [] c = "class_rates"      -> ClassRatesRegister(s)
      [] c = "pick_rand"        -> PickRandRegister(s)
      [] c = "exposure_counter" -> ExposureCounterRegister(s)
      [] c = "closest_diff"     -> ClosestDiffRegister(s)
      [] c = "max_fisher"       -> MaxFisherRegister(s)
      [] c = "max_kl"           -> MaxKlRegister(s)
      [] c = "estimate"         -> EstimateRegister(s)
      [] c = "astrat"           -> AstratRegister(s)

DisposeOf(c, s) ==
    CASE c = "chooser"      -> ChooserDispose(s)
      [] c = "closest_diff" -> ClosestDiffDispose(s)
      [] c = "max_fisher"   -> MaxFisherDispose(s)
      [] c = "max_kl"       -> MaxKlDispose(s)
      [] c = "estimate"     -> EstimateDispose(s)
      [] c = "stratify"     -> StratifyDispose(s)
      [] c = "astrat"       -> AstratDispose(s)
      [] c = "test"         -> TestDispose(s)
      [] c = "examinee"     -> ExamineeDispose(s)
      [] c = "item"         -> ItemDispose(s)
      [] c = "item_bank"    -> ItemBankDispose(s)
      [] c = "point"        -> PointDispose(s)
      [] c \in ModelClasses -> ModelDispose(s)
      [] OTHER              -> s

-----------------------------------------------------------------------------
VARIABLES class,    \* the class of the object
          s,        \* the object
          phase,    \* "creation", "life", "gone" or "crash"
          todo,     \* the properties still to be set at creation
          asked,    \* History: what each property was last set to
          given,    \* History: how many values were given
          held,     \* the references of the program to the other objects
          keeps,    \* the references of the program to the object
          test      \* whether the test is there, which refers to its bank

vars == <<class, s, phase, todo, asked, given, held, keeps, test>>
program == <<held, keeps, test>>
requests == <<todo, asked, given>>

One(condition) == IF condition THEN 1 ELSE 0

Init ==
    /\ class \in Subjects
    /\ held = [t \in Things |-> One(t # NewCovariates)]
    /\ test = TRUE
    /\ LET floating == class \in Algorithms
           refs == [t \in Things |-> held[t] + One(t = TestBank)]
       IN  /\ s = New(Classes[class], Private(class), refs, floating)
           /\ keeps = One(~floating)
    /\ phase = "creation"
    /\ todo = SetAtCreation(Classes[class])
    /\ asked = [p \in SetAtCreation(Classes[class]) \union SetLater(Classes[class]) |-> Unset]
    /\ given = 0

\* An object can be passed by a program that has a reference to it.
Available(v) == v \in Things => held[v] > 0 /\ s.refs[v] > 0

\* What a call leaves of the object: it may be the last that returns.
Becomes(after, next) == s' = after /\ phase' = IF after.crashed THEN "crash" ELSE next

\* Dropping n references to the object; without any it is disposed.
Dropped(object, n) ==
    LET left == [object EXCEPT !.count = IF @ < n THEN 0 ELSE @ - n]
    IN  IF left.count = 0 THEN DisposeOf(class, left) ELSE left
-----------------------------------------------------------------------------
(* Properties.                                                             *)

\* g_object_new, which gives the defaults to the properties not given.
GiveAtCreation(p, v) ==
    /\ phase = "creation" /\ p \in todo /\ Available(v)
    /\ given < MaxGiven \/ v = Classes[class][p].first
    /\ Becomes(SetOf(class, s, p, v), phase)
    /\ todo' = todo \ {p}
    /\ asked' = [asked EXCEPT ![p] = v]
    /\ given' = given + One(v # Classes[class][p].first)
    /\ UNCHANGED <<class, program>>

Created ==
    /\ phase = "creation" /\ todo = {}
    /\ Becomes(ConstructedOf(class, s), "life")
    /\ UNCHANGED <<class, requests, program>>

\* What the documentation says may not be set, which changes nothing: Nstrata
\* when there are quotas, Nitems for strata of equal size or without any
\* quota, and max but for every dimension.
MayBeSet(p, v) ==
    CASE p = "Nstrata" -> asked["equal"] \/ asked["Nitems"] = Unset
      [] p = "Nitems"  -> ~asked["equal"] /\ v \notin {Null, <<>>}
      [] p = "max"     -> v # Null /\ Len(v) = asked["numNat"]
      [] OTHER         -> TRUE

SetProperty(p, v) ==
    /\ phase = "life" /\ given < MaxGiven /\ Available(v)
    /\ Becomes(SetOf(class, s, p, v), phase)
    /\ asked' = IF MayBeSet(p, v) THEN [asked EXCEPT ![p] = v] ELSE asked
    /\ given' = given + 1
    /\ UNCHANGED <<class, todo, program>>

-----------------------------------------------------------------------------
(* References.                                                             *)

Register ==
    /\ phase = "life" /\ class \in Algorithms /\ test /\ s.handlers = 0
    /\ Becomes(RegisterOf(class, RefSink(s)), phase)
    /\ UNCHANGED <<class, requests, program>>

\* The program takes a reference of its own.
Keep ==
    /\ phase = "life" /\ keeps = 0
    /\ Becomes(RefSink(s), phase)
    /\ keeps' = 1
    /\ UNCHANGED <<class, requests, held, test>>

\* It drops it, or the floating one.
Release ==
    /\ phase = "life" /\ (keeps = 1 \/ s.floating)
    /\ LET left == Dropped([s EXCEPT !.floating = FALSE], 1)
       IN  Becomes(left, IF left.count = 0 THEN "gone" ELSE phase)
    /\ keeps' = 0
    /\ UNCHANGED <<class, requests, held, test>>

\* The connections end, then the bank is unreferenced.
DropTest ==
    /\ phase \in {"life", "gone"} /\ test
    /\ LET ended == Dropped([s EXCEPT !.handlers = 0], s.handlers)
       IN  Becomes([ended EXCEPT !.refs = Unref(@, TestBank)],
                   IF ended.count = 0 THEN "gone" ELSE phase)
    /\ test' = FALSE
    /\ UNCHANGED <<class, requests, held, keeps>>

Drop(t) ==
    /\ phase \in {"life", "gone"} /\ held[t] > 0
    /\ s' = [s EXCEPT !.refs = Unref(@, t)]
    /\ held' = [held EXCEPT ![t] = @ - 1]
    /\ UNCHANGED <<class, phase, requests, keeps, test>>

-----------------------------------------------------------------------------
(* Objects that are kept.                                                  *)

Living(c) == phase = "life" /\ class = c

\* A call that hands over the reference of the program, or not.
HandOver(after, t) ==
    /\ held[t] > 0
    /\ s' = after
    /\ held' = [held EXCEPT ![t] = @ - 1]
    /\ UNCHANGED <<class, phase, requests, keeps, test>>
Lend(after, t) == held[t] > 0 /\ s' = after /\ UNCHANGED <<class, phase, requests, program>>

ReadCovariates ==
    /\ Living("examinee")
    /\ s' = ExamineeReadCovariates(s)
    /\ UNCHANGED <<class, phase, requests, program>>
SetTheta(name, theta) == Living("examinee") /\ HandOver(ExamineeSetTheta(s, name, theta), theta)
Prep == Living("examinee") /\ s' = ExamineePrep(s) /\ UNCHANGED <<class, phase, requests, program>>
Record(item) ==
    /\ Living("examinee") /\ s.listed[item] < MaxListed
    /\ Lend(ExamineeAddItem(s, item), item)

SetModel(name, model) == Living("item") /\ HandOver(ItemSetModel(s, name, model), model)
AddItem(item) ==
    /\ Living("item_bank") /\ s.listed[item] < MaxListed
    /\ Lend(ItemBankAddItem(s, item), item)
RemoveItem(item) == Living("item_bank") /\ Lend(ItemBankRemoveItem(s, item), item)

Resize(space) == Living("max_kl") /\ Lend(MaxKlResize(s, space), space)

\* The objects the program may drop are those the object can refer to.
Related(c) ==
    (UNION {Classes[c][p].range \intersect Things :
              p \in {q \in DOMAIN Classes[c] : Classes[c][q].kind = "object"}})
    \union (CASE c = "examinee"  -> Points \union Items
              [] c = "item"      -> Models
              [] c = "item_bank" -> Items
              [] c = "max_kl"    -> Spaces
              [] OTHER           -> {})
    \union {TestBank}

Next ==
    \/ \E p \in SetAtCreation(Classes[class]) :
         \E v \in Classes[class][p].range \union {Classes[class][p].first} : GiveAtCreation(p, v)
    \/ Created
    \/ \E p \in SetLater(Classes[class]) : \E v \in Classes[class][p].range : SetProperty(p, v)
    \/ Register \/ Keep \/ Release \/ DropTest
    \/ \E t \in Related(class) : Drop(t)
    \/ ReadCovariates \/ Prep
    \/ \E name \in {"simDefault", "estDefault"}, theta \in Points : SetTheta(name, theta)
    \/ \E item \in Items : Record(item) \/ AddItem(item) \/ RemoveItem(item)
    \/ \E name \in {"default", "other"}, model \in Models : SetModel(name, model)
    \/ \E space \in Spaces : Resize(space)

Spec == Init /\ [][Next]_vars
-----------------------------------------------------------------------------
(* The matrix last given for Sigma does not have the size of the first.    *)
OfAnotherSize == s.val["Sigma"] # Null /\ s.val["Sigma"].times = 2

(* What the documentation promises of a property that was set: its value,  *)
(* but for keys, where NULL is the same as an empty string, identifiers,   *)
(* which are made up, the number of strata, which is that of the quotas    *)
(* unless the strata are of equal size, the dimensions and covariates of a *)
(* model and the covariates of an examinee, which have defaults.           *)
Promised(p) ==
    LET a == asked[p] IN
    CASE a = Unset -> Unset
      [] p = "Nstrata" /\ a # Unset /\ ~asked["equal"] ->
           IF asked["Nitems"] = Unset THEN Unset ELSE Len(asked["Nitems"])
      [] p \in {"modelKey", "thetaKey", "simKey", "estKey"} /\ a = Null -> ""
      [] p = "id" /\ a = Null -> Generated
      [] p = "dims" /\ a # Unset /\ asked["space"] = Null -> Unset
      [] p = "dims" /\ a \in {Null, <<>>} /\ asked["space"] # Null -> <<FirstDim>>
      [] p = "covariates" /\ a = Null /\ class = "examinee" -> NewCovariates
      [] p = "covariates" /\ a \in Things /\ class # "examinee" -> CopyOf(a)
      [] p = "Dprior" /\ a \in Things /\ s.refs[a] = 0 -> Unset
      [] p = "Sigma" /\ a # Unset /\ OfAnotherSize -> Unset
      [] OTHER -> a

(* Whatever was set before or after, and in whatever order g_object_new    *)
(* sets the properties, each one reads as it was last set (the prior       *)
(* probabilities as long as the vector exists, and Sigma unless it is      *)
(* given a matrix of another size than the one it has).                    *)
ReadsAsSet ==
    phase = "life" =>
        \A p \in Readable(class) \intersect DOMAIN asked :
            Promised(p) # Unset => GetOf(class, s, p) = Promised(p)

(* Every reference is dropped once and by its owner: an object is there as *)
(* long as the program, a connection, a field or an array refers to it,    *)
(* and no longer.  The vectors of prior probabilities are excepted, to     *)
(* which the setters take no reference.  A test freezes its own bank only. *)
Referring(t) == Cardinality({f \in DOMAIN s.val : s.val[f] = t}) + s.listed[t]

Counted ==
    phase # "crash" =>
        /\ s.count = keeps + s.handlers + One(s.floating)
        /\ \A t \in Things \ Vectors :
             s.refs[t] = held[t] + Referring(t) + One(test /\ t = TestBank)
        /\ class = "test" => s.frozen = {s.val["itembank"]} \ {Null}

(* The handlers of the a-stratified algorithm read the quota of each of    *)
(* Nstrata strata from the array: it has as many, however often either     *)
(* property was set.                                                       *)
QuotasFitStrata ==
    class = "astrat" /\ s.val["Nitems"] # Null =>
        /\ s.val["equal"] = FALSE
        /\ s.val["Nstrata"] = Len(s.val["Nitems"])

(* What estimate.c says of the property mu, the mean of the prior: "The    *)
(* value is copied".                                                       *)
DocumentedMu ==
    "mu" \in DOMAIN asked /\ asked["mu"] # Unset => s.val["mu"] = asked["mu"]
=============================================================================

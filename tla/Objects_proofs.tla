---------------------------- MODULE Objects_proofs ----------------------------
(***************************************************************************)
(* The quotas of an a-stratified algorithm fit its strata, in whatever     *)
(* order its properties are set and whatever else happens to it; every     *)
(* reference that an object of any class takes or is given is dropped      *)
(* once, by its owner; and every property reads as it was last set.        *)
(***************************************************************************)
EXTENDS Objects, TLAPS, FiniteSetTheorems

Fields == {"equal", "Nstrata", "Nblocks", "Nequal", "Nitems", "modelKey", "Ncur",
           "stratify.bank"}

(* An object that has the fields of the algorithm.                         *)
IsAstrat(o) == "val" \in DOMAIN o /\ DOMAIN o.val = Fields

Fit(o) == o.val["Nitems"] # Null =>
             o.val["equal"] = FALSE /\ o.val["Nstrata"] = Len(o.val["Nitems"])

(* Quotas cannot be given at creation, and from then on "equal" is decided.*)
Creating == /\ todo \subseteq {"equal", "Nstrata", "Nblocks", "Nequal"}
            /\ s.val["Nitems"] = Null
            /\ "equal" \notin todo => s.val["equal"] \in BOOLEAN

AstratInv ==
    class = "astrat" =>
        /\ IsAstrat(s)
        /\ Fit(s)
        /\ phase = "creation" => Creating
        /\ phase = "life" => s.val["equal"] \in BOOLEAN

(* What changes no property.                                               *)
SameProperties(after) ==
    IsAstrat(after) /\ \A f \in Fields \ {"stratify.bank"} : after.val[f] = s.val[f]

(* The class among all classes.                                            *)
LEMMA AstratClass == Classes["astrat"] = Astrat
  BY DEF Classes

(* The properties of the class: the four that g_object_new always sets,    *)
(* and those the program sets later.                                       *)
LEMMA AstratProperties ==
    /\ SetAtCreation(Astrat) = {"equal", "Nstrata", "Nblocks", "Nequal"}
    /\ SetLater(Astrat) = {"Nstrata", "Nblocks", "Nequal", "Nitems", "modelKey"}
    /\ DOMAIN Astrat = Fields \ {"stratify.bank"}
    /\ Astrat["equal"].range = BOOLEAN /\ Astrat["equal"].first = TRUE
    /\ \A p \in {"equal", "Nstrata", "Nblocks", "Nequal"} : Astrat[p].kind = "value"
    /\ Astrat["modelKey"].kind = "key" /\ Astrat["Nitems"].first = Null
  BY DEF SetAtCreation, SetLater, Astrat, Fields, ConstructOnly, Construct, Plain, ReadOnly, Key

-----------------------------------------------------------------------------
(* The setters.                                                            *)

(* Setting one of the properties of the algorithm keeps its fields, and    *)
(* what fits still does.                                                   *)
LEMMA SetFits ==
    ASSUME class = "astrat", IsAstrat(s), Fit(s),
           NEW p \in DOMAIN Astrat \ {"Ncur"}, NEW v,
           s.val["equal"] \in BOOLEAN \/ p # "Nitems",
           p = "equal" => s.val["Nitems"] = Null
    PROVE  LET after == SetOf(class, s, p, v)
           IN  /\ IsAstrat(after) /\ Fit(after)
               /\ p # "equal" => after.val["equal"] = s.val["equal"]
               /\ p # "Nitems" => after.val["Nitems"] = s.val["Nitems"]
<1> DEFINE after == SetOf(class, s, p, v)
<1>1. after = AstratSet(s, p, v)
  BY DEF SetOf, ModelClasses
<1>2. p \in {"equal", "Nstrata", "Nblocks", "Nequal", "Nitems", "modelKey"}
  BY AstratProperties DEF Fields
<1>3. CASE p = "Nitems"
  <2>1. \/ after = s
        \/ /\ s.val["equal"] = FALSE
           /\ after = [s EXCEPT !.val["Nstrata"] = Len(v), !.val["Nitems"] = v]
    BY <1>1, <1>3 DEF AstratSet
  <2> QED
    <3>1. CASE after = s
      BY <3>1, <1>3
    <3>2. CASE /\ s.val["equal"] = FALSE
               /\ after = [s EXCEPT !.val["Nstrata"] = Len(v), !.val["Nitems"] = v]
      <4>1. /\ IsAstrat(after)
            /\ after.val["Nitems"] = v /\ after.val["Nstrata"] = Len(v)
            /\ after.val["equal"] = s.val["equal"]
        BY <3>2 DEF IsAstrat, Fields
      <4> QED
        BY <4>1, <3>2, <1>3 DEF Fit
    <3> QED
      BY <2>1, <3>1, <3>2
<1>4. CASE p = "Nstrata"
  <2>1. \/ after = s
        \/ s.val["Nitems"] = Null /\ after = [s EXCEPT !.val["Nstrata"] = v]
    BY <1>1, <1>4 DEF AstratSet, SetField
  <2> QED
    BY <2>1, <1>4 DEF IsAstrat, Fit, Fields
<1>5. CASE p \in {"equal", "Nblocks", "Nequal", "modelKey"}
  <2>1. after = Set(Astrat, s, p, v)
    BY <1>1, <1>5 DEF AstratSet
  <2>2. \E w : after = [s EXCEPT !.val[p] = w]
    BY <2>1, <1>5, AstratProperties DEF Set, SetField
  <2> QED
    BY <2>2, <1>5 DEF IsAstrat, Fit, Fields
<1> QED
  BY <1>2, <1>3, <1>4, <1>5

-----------------------------------------------------------------------------
(* References.                                                             *)

(* Registering the algorithm and dropping references to it change no       *)
(* property.                                                               *)
LEMMA RegisterSame ==
    ASSUME class = "astrat", IsAstrat(s)
    PROVE  SameProperties(RegisterOf(class, RefSink(s))) /\ SameProperties(RefSink(s))
<1>1. RegisterOf(class, RefSink(s)) = AstratRegister(RefSink(s))
  BY DEF RegisterOf
<1>2. SameProperties(RefSink(s))
  BY DEF RefSink, GRef, SameProperties, IsAstrat, Fields
<1>3. SameProperties(AstratRegister(RefSink(s)))
  BY <1>2 DEF AstratRegister, Taken, Connect, GRef, SameProperties, IsAstrat, Fields
<1> QED
  BY <1>1, <1>2, <1>3

(* A reference dropped changes no property.                                *)
LEMMA DroppedSame ==
    ASSUME class = "astrat", NEW object, NEW n, SameProperties(object)
    PROVE  SameProperties(Dropped(object, n))
<1> DEFINE left == [object EXCEPT !.count = IF @ < n THEN 0 ELSE @ - n]
<1>1. SameProperties(left)
  BY DEF SameProperties, IsAstrat, Fields
<1>2. DisposeOf(class, left) = Cleared(left, "stratify.bank")
  BY DEF DisposeOf, AstratDispose, ModelClasses
<1>3. SameProperties(Cleared(left, "stratify.bank"))
  BY <1>1 DEF Cleared, Given, SameProperties, IsAstrat, Fields
<1> QED
  BY <1>1, <1>2, <1>3 DEF Dropped

-----------------------------------------------------------------------------
(* No object is there at first: the invariant holds of what g_object_new   *)
(* starts from.                                                            *)
LEMMA AstratInit == Init => AstratInv
<1> SUFFICES ASSUME Init, class = "astrat" PROVE AstratInv
  BY DEF AstratInv
<1>1. Classes[class] = Astrat /\ Private(class) = {"stratify.bank"}
  BY AstratClass DEF Private
<1>2. PICK refs, floating : s = New(Astrat, {"stratify.bank"}, refs, floating)
  BY <1>1 DEF Init
<1>3. IsAstrat(s) /\ s.val["Nitems"] = Null
  BY <1>2, AstratProperties DEF New, IsAstrat, Fields
<1>4. todo = {"equal", "Nstrata", "Nblocks", "Nequal"} /\ phase = "creation"
  BY <1>1, AstratProperties DEF Init
<1> QED
  BY <1>3, <1>4 DEF AstratInv, Fit, Creating

(* Every call keeps the quotas fitting: no setter of another property      *)
(* reaches them.                                                           *)
LEMMA AstratStep == AstratInv /\ [Next]_vars => AstratInv'
<1> SUFFICES ASSUME AstratInv, [Next]_vars, class' = "astrat"
             PROVE  AstratInv'
  BY DEF AstratInv
<1>0. class = "astrat" /\ class' = class /\ Classes[class] = Astrat
  <2>1. class' = class
    BY DEF Next, vars, GiveAtCreation, Created, SetProperty, Register, Keep, Release, DropTest,
           Drop, ReadCovariates, Prep, SetTheta, Record, AddItem, RemoveItem, SetModel, Resize,
           HandOver, Lend
  <2> QED
    BY <2>1, AstratClass
<1> USE <1>0
<1>1. IsAstrat(s) /\ Fit(s)
  BY DEF AstratInv
<1>2. ASSUME NEW p, NEW v, p \in SetAtCreation(Astrat),
             v \in Astrat[p].range \union {Astrat[p].first}, GiveAtCreation(p, v)
      PROVE  AstratInv'
  <2>1. Creating /\ p \in todo /\ todo' = todo \ {p} /\ s' = SetOf(class, s, p, v)
    BY <1>2 DEF GiveAtCreation, Becomes, AstratInv
  <2>2. p \in DOMAIN Astrat \ {"Ncur"} /\ p # "Nitems"
    BY <2>1, AstratProperties DEF Creating, Fields
  <2>3. /\ IsAstrat(s') /\ Fit(s')
        /\ p # "equal" => s'.val["equal"] = s.val["equal"]
        /\ s'.val["Nitems"] = Null
    BY <1>1, <2>1, <2>2, SetFits DEF Creating
  <2>4. p = "equal" => s'.val["equal"] \in BOOLEAN
    <3> SUFFICES ASSUME p = "equal" PROVE s'.val["equal"] \in BOOLEAN
      OBVIOUS
    <3>1. s' = [s EXCEPT !.val["equal"] = v]
      BY <2>1, AstratProperties DEF SetOf, AstratSet, Set, SetField, ModelClasses
    <3>2. v \in BOOLEAN
      BY <1>2, AstratProperties
    <3> QED
      BY <3>1, <3>2, <1>1 DEF IsAstrat, Fields
  <2>5. Creating'
    BY <2>1, <2>3, <2>4 DEF Creating
  <2>6. phase' # "life"
    BY <1>2 DEF GiveAtCreation, Becomes
  <2> QED
    BY <2>3, <2>5, <2>6 DEF AstratInv
<1>3. CASE Created
  <2>1. s' = s /\ phase' \in {"life", "crash"} /\ Creating /\ todo = {}
    BY <1>3 DEF Created, Becomes, ConstructedOf, ModelClasses, AstratInv
  <2>2. s.val["equal"] \in BOOLEAN
    BY <2>1 DEF Creating
  <2> QED
    BY <1>1, <2>1, <2>2 DEF AstratInv, IsAstrat, Fit
<1>4. ASSUME NEW p, NEW v, p \in SetLater(Astrat), SetProperty(p, v)
      PROVE  AstratInv'
  <2>1. s' = SetOf(class, s, p, v) /\ phase' \in {"life", "crash"} /\ s.val["equal"] \in BOOLEAN
    BY <1>4 DEF SetProperty, Becomes, AstratInv
  <2>2. p \in DOMAIN Astrat \ {"Ncur"} /\ p # "equal"
    BY <1>4, AstratProperties DEF Fields
  <2>3. IsAstrat(s') /\ Fit(s') /\ s'.val["equal"] = s.val["equal"]
    BY <1>1, <2>1, <2>2, SetFits
  <2> QED
    BY <2>1, <2>3 DEF AstratInv
<1>5. ASSUME SameProperties(s'), phase # "creation",
             phase' = "life" => phase = "life", phase' # "creation"
      PROVE  AstratInv'
  BY <1>1, <1>5 DEF AstratInv, SameProperties, IsAstrat, Fit, Fields
<1>6. CASE Register
  BY <1>1, <1>5, <1>6, RegisterSame DEF Register, Becomes
<1>7. CASE Keep
  BY <1>1, <1>5, <1>7, RegisterSame DEF Keep, Becomes
<1>8. CASE Release
  <2>1. SameProperties([s EXCEPT !.floating = FALSE])
    BY <1>1 DEF SameProperties, IsAstrat, Fields
  <2>2. SameProperties(Dropped([s EXCEPT !.floating = FALSE], 1))
    BY <2>1, DroppedSame
  <2> QED
    BY <1>5, <1>8, <2>2 DEF Release, Becomes
<1>9. CASE DropTest
  <2> DEFINE ended == Dropped([s EXCEPT !.handlers = 0], s.handlers)
  <2>1. SameProperties([s EXCEPT !.handlers = 0])
    BY <1>1 DEF SameProperties, IsAstrat, Fields
  <2>2. SameProperties(ended)
    BY <2>1, DroppedSame
  <2>3. SameProperties([ended EXCEPT !.refs = Unref(@, TestBank)])
    BY <2>2 DEF SameProperties, IsAstrat, Fields
  <2> QED
    BY <1>5, <1>9, <2>3 DEF DropTest, Becomes
<1>10. ASSUME NEW t, Drop(t) PROVE AstratInv'
  <2>1. SameProperties([s EXCEPT !.refs = Unref(@, t)])
    BY <1>1 DEF SameProperties, IsAstrat, Fields
  <2> QED
    BY <1>5, <1>10, <2>1 DEF Drop
<1>11. CASE UNCHANGED vars
  BY <1>11 DEF vars, AstratInv, IsAstrat, Fit, Creating
<1> QED
  BY <1>2, <1>3, <1>4, <1>6, <1>7, <1>8, <1>9, <1>10, <1>11
     DEF Next, ReadCovariates, Prep, SetTheta, Record, AddItem, RemoveItem, SetModel, Resize,
         Living

(* The handlers of the algorithm find a quota for every stratum, for any   *)
(* properties, references and bounds.                                      *)
THEOREM QuotasFitStrataAlways == Spec => []QuotasFitStrata
<1>1. AstratInv => QuotasFitStrata
  BY DEF AstratInv, Fit, QuotasFitStrata
<1> QED
  BY <1>1, AstratInit, AstratStep, PTL DEF Spec

-----------------------------------------------------------------------------
(* Objects and what they refer to.                                         *)

(* A count for every other object.                                         *)
Tally == [Things -> Nat]

IsObject(o) ==
    /\ DOMAIN o = {"val", "count", "floating", "handlers", "listed", "frozen", "refs", "crashed"}
    /\ o.refs \in Tally /\ o.listed \in Tally

(* What a field that holds a reference can refer to.                       *)
Target(f) == (IF f = "Dprior" THEN Vectors ELSE Things) \union {Null}

(* An object with the fields D, of which those in H hold references.       *)
HasFields(D, H, o) ==
    /\ DOMAIN o.val = D
    /\ \A f \in D : IF f \in H THEN o.val[f] \in Target(f) ELSE o.val[f] \notin Things

Pointing(val, t) == {f \in DOMAIN val : val[f] = t}
Referrers(o, t) == Cardinality(Pointing(o.val, t)) + o.listed[t]

(* Each other object has the references of o and others[t] more.           *)
Balanced(o, others) ==
    \A t \in Things \ Vectors : o.refs[t] = others[t] + Referrers(o, t)

Sound(D, H, o, others) == IsObject(o) /\ HasFields(D, H, o) /\ Balanced(o, others)

(* The fields of an algorithm that refer to the bank of its test.          *)
BankFields == {"chooser.bank", "stratify.bank"}

(* What a call that is about other objects leaves of o.                    *)
Same(o, p) ==
    /\ p.count = o.count /\ p.handlers = o.handlers /\ p.floating = o.floating
    /\ p.frozen = o.frozen

BanksStay(D, o, p) == \A f \in BankFields \cap D : p.val[f] \in {o.val[f], Null}

(* q is o with a new value in one field.                                   *)
Assigns(D, H, others, o, q, f, v) ==
    Sound(D, H, q, others) /\ Same(o, q) /\ q.val = [o.val EXCEPT ![f] = v]

Equal(a, b) == IF a = b THEN 1 ELSE 0

(* NULL is not an object, and a vector of quotas or priors is one.         *)
LEMMA NullIsNone == Null \notin Things /\ Vectors \subseteq Things
  BY ObjectsAssumption

(* One field that changes.                                                 *)
LEMMA PointingMoves ==
    ASSUME NEW val, NEW D, DOMAIN val = D, IsFiniteSet(D), NEW f \in D, NEW new, NEW t,
           NEW after, after = [val EXCEPT ![f] = new]
    PROVE  /\ Cardinality(Pointing(val, t)) \in Nat
           /\ Cardinality(Pointing(after, t)) \in Nat
           /\ val[f] = t => Cardinality(Pointing(val, t)) > 0
           /\ Cardinality(Pointing(after, t)) + Equal(val[f], t)
                = Cardinality(Pointing(val, t)) + Equal(new, t)
<1> DEFINE rest == {g \in D \ {f} : val[g] = t}
<1>1. IsFiniteSet(rest) /\ Cardinality(rest) \in Nat /\ f \notin rest
  BY FS_Subset, FS_CardinalityType
<1>2. Pointing(val, t) = IF val[f] = t THEN rest \cup {f} ELSE rest
  BY DEF Pointing
<1>3. Pointing(after, t) = IF new = t THEN rest \cup {f} ELSE rest
  BY DEF Pointing
<1>4. Cardinality(rest \cup {f}) = Cardinality(rest) + 1
  BY <1>1, FS_AddElement
<1> HIDE DEF rest
<1>7. Cardinality(Pointing(after, t)) = Cardinality(rest) + Equal(new, t)
  <2>1. CASE new = t
    BY <1>3, <1>4, <2>1 DEF Equal
  <2>2. CASE new # t
    BY <1>1, <1>3, <2>2 DEF Equal
  <2> QED BY <2>1, <2>2
<1>8. Equal(new, t) \in Nat
  BY DEF Equal
<1>5. CASE val[f] = t
  <2>1. Equal(val[f], t) = 1 /\ Cardinality(Pointing(val, t)) = Cardinality(rest) + 1
    BY <1>2, <1>4, <1>5 DEF Equal
  <2> QED BY <1>1, <1>5, <1>7, <1>8, <2>1
<1>6. CASE val[f] # t
  <2>1. Equal(val[f], t) = 0 /\ Cardinality(Pointing(val, t)) = Cardinality(rest)
    BY <1>2, <1>6 DEF Equal
  <2> QED BY <1>1, <1>6, <1>7, <1>8, <2>1
<1> QED BY <1>5, <1>6

(* An object that is referred to is there.                                 *)
LEMMA ReferredIsThere ==
    ASSUME NEW D, IsFiniteSet(D), NEW H, NEW others \in Tally,
           NEW o, Sound(D, H, o, others), NEW t \in Things \ Vectors
    PROVE  /\ Cardinality(Pointing(o.val, t)) \in Nat
           /\ o.refs[t] >= others[t] + o.listed[t]
           /\ \A f \in D : o.val[f] = t => o.refs[t] > others[t] + o.listed[t]
<1>1. /\ o.refs[t] \in Nat /\ others[t] \in Nat /\ o.listed[t] \in Nat
      /\ o.refs[t] = others[t] + (Cardinality(Pointing(o.val, t)) + o.listed[t])
  <2>1. o.refs \in Tally /\ o.listed \in Tally
    BY DEF Sound, IsObject
  <2>2. o.refs[t] = others[t] + Referrers(o, t)
    BY DEF Sound, Balanced
  <2> QED BY <2>1, <2>2 DEF Referrers, Tally
<1>2. Pointing(o.val, t) \subseteq D
  BY DEF Pointing, Sound, HasFields
<1>3. Cardinality(Pointing(o.val, t)) \in Nat
  BY <1>2, FS_Subset, FS_CardinalityType
<1>4. \A f \in D : o.val[f] = t => Cardinality(Pointing(o.val, t)) > 0
  BY PointingMoves DEF Sound, HasFields
<1> QED BY <1>1, <1>3, <1>4

(* A field and the counts that change together.                            *)
LEMMA FieldMoves ==
    ASSUME NEW D, IsFiniteSet(D), NEW H, NEW others \in Tally,
           NEW o, Sound(D, H, o, others),
           NEW f \in D, NEW new, IF f \in H THEN new \in Target(f) ELSE new \notin Things,
           NEW p, IsObject(p), p.val = [o.val EXCEPT ![f] = new], p.listed = o.listed,
           NEW left \in Tally,
           \A t \in Things \ Vectors :
              p.refs[t] + others[t] + Equal(o.val[f], t) = o.refs[t] + left[t] + Equal(new, t)
    PROVE  Sound(D, H, p, left)
<1>1. HasFields(D, H, p)
  BY DEF Sound, HasFields
<1>2. ASSUME NEW t \in Things \ Vectors
      PROVE  p.refs[t] = left[t] + Referrers(p, t)
  <2> DEFINE before == Cardinality(Pointing(o.val, t))
             after == Cardinality(Pointing(p.val, t))
  <2>1. before \in Nat /\ after \in Nat /\ after + Equal(o.val[f], t) = before + Equal(new, t)
    <3>1. DOMAIN o.val = D
      BY DEF Sound, HasFields
    <3> QED BY <3>1, PointingMoves
  <2>2. /\ o.refs[t] = others[t] + Referrers(o, t)
        /\ Referrers(o, t) = before + o.listed[t] /\ Referrers(p, t) = after + o.listed[t]
        /\ p.refs[t] + others[t] + Equal(o.val[f], t) = o.refs[t] + left[t] + Equal(new, t)
    BY DEF Sound, Balanced, Referrers
  <2>3. /\ o.refs[t] \in Nat /\ p.refs[t] \in Nat /\ o.listed[t] \in Nat
        /\ others[t] \in Nat /\ left[t] \in Nat
        /\ Equal(o.val[f], t) \in Nat /\ Equal(new, t) \in Nat
    BY DEF Sound, IsObject, Equal, Tally
  <2> HIDE DEF before, after
  <2> QED BY <2>1, <2>2, <2>3
<1> QED BY <1>1, <1>2 DEF Sound, Balanced

-----------------------------------------------------------------------------
(* The operators on objects.                                               *)

(* What only touches the rest of an object.                                *)
LEMMA RestMoves ==
    ASSUME NEW D, NEW H, NEW others, NEW o, Sound(D, H, o, others),
           NEW p, IsObject(p), p.val = o.val, p.refs = o.refs, p.listed = o.listed
    PROVE  Sound(D, H, p, others)
  BY DEF Sound, HasFields, Balanced, Referrers

(* A value that is no object changes no reference.                         *)
LEMMA SetFieldSound ==
    ASSUME NEW D, IsFiniteSet(D), NEW H, NEW others \in Tally,
           NEW o, Sound(D, H, o, others), NEW f \in D \ H, NEW v, v \notin Things
    PROVE  Assigns(D, H, others, o, SetField(o, f, v), f, v)
<1> DEFINE p == SetField(o, f, v)
<1>1. IsObject(p) /\ p.val = [o.val EXCEPT ![f] = v] /\ p.listed = o.listed /\ p.refs = o.refs
  BY DEF SetField, IsObject, Sound
<1>2. Same(o, p)
  BY DEF SetField, IsObject, Sound, Same
<1> HIDE DEF p
<1>3. \A t \in Things \ Vectors :
         p.refs[t] + others[t] + Equal(o.val[f], t) = o.refs[t] + others[t] + Equal(v, t)
  <2> SUFFICES ASSUME NEW t \in Things \ Vectors
               PROVE  o.refs[t] + others[t] + Equal(o.val[f], t) = o.refs[t] + others[t] + Equal(v, t)
    BY <1>1
  <2>1. o.val[f] # t /\ v # t
    BY DEF Sound, HasFields
  <2> QED BY <2>1 DEF Equal
<1>4. Sound(D, H, p, others)
  <2>1. f \in D /\ (IF f \in H THEN v \in Target(f) ELSE v \notin Things)
    OBVIOUS
  <2> QED BY <1>1, <1>3, <2>1, FieldMoves
<1> QED BY <1>1, <1>2, <1>4 DEF p, Assigns

(* Counts without those of an object that is no longer referred to.        *)
LEMMA RefsType ==
    ASSUME NEW refs \in Tally, NEW thing \in Things \union {Null}
    PROVE  /\ Ref(refs, thing) \in Tally /\ Unref(refs, thing) \in Tally
           /\ \A t \in Things :
                /\ Ref(refs, thing)[t] = refs[t] + Equal(thing, t)
                /\ refs[t] > 0 => Unref(refs, thing)[t] + Equal(thing, t) = refs[t]
                /\ t # thing => Unref(refs, thing)[t] = refs[t]
                /\ Unref(refs, thing)[t] \in Nat
<1>1. CASE thing = Null
  BY <1>1, NullIsNone DEF Ref, Unref, Equal, Tally
<1>2. CASE thing \in Things /\ refs[thing] = 0
  <2>1. thing # Null
    BY <1>2, NullIsNone
  <2> QED BY <1>2, <2>1 DEF Ref, Unref, Equal, Tally
<1>3. CASE thing \in Things /\ refs[thing] # 0
  <2>1. thing # Null /\ refs[thing] - 1 \in Nat
    BY <1>3, NullIsNone DEF Tally
  <2> QED BY <1>3, <2>1 DEF Ref, Unref, Equal, Tally
<1> QED BY <1>1, <1>2, <1>3

(* A field that passes its reference on.                                   *)
LEMMA ReplacedSound ==
    ASSUME NEW D, IsFiniteSet(D), NEW H \in SUBSET D, NEW others \in Tally,
           NEW o, Sound(D, H, o, others), NEW f \in H, f # "Dprior",
           NEW v \in Things \union {Null}
    PROVE  Assigns(D, H, others, o, Replaced(o, f, v), f, v)
<1> DEFINE p == Replaced(o, f, v)
           old == o.val[f]
           between == Unref(o.refs, old)
<1>1. /\ p.val = [o.val EXCEPT ![f] = v] /\ p.listed = o.listed
      /\ p.refs = Ref(between, v) /\ Same(o, p)
  BY DEF Replaced, IsObject, Sound, Same, HasFields
<1>2. old \in Things \union {Null} /\ v \in Target(f) /\ o.refs \in Tally
  BY DEF Sound, HasFields, IsObject, Target
<1>3. between \in Tally /\ Ref(between, v) \in Tally
  BY <1>2, RefsType
<1>4. IsObject(p)
  <2>1. DOMAIN p = DOMAIN o
    BY DEF Replaced
  <2>3. p.refs \in Tally /\ p.listed \in Tally
    BY <1>1, <1>3 DEF Sound, IsObject
  <2> HIDE DEF p
  <2> QED BY <2>1, <2>3 DEF IsObject, Sound
<1> HIDE DEF p
<1>5. ASSUME NEW t \in Things \ Vectors
      PROVE  p.refs[t] + others[t] + Equal(o.val[f], t) = o.refs[t] + others[t] + Equal(v, t)
  <2>1. p.refs[t] = between[t] + Equal(v, t)
    <3> HIDE DEF between
    <3> QED BY <1>1, <1>3, RefsType
  <2>2. between[t] + Equal(old, t) = o.refs[t]
    <3>1. CASE old = t
      <4>1. o.refs[t] > others[t] + o.listed[t]
        BY <3>1, ReferredIsThere
      <4>2. o.refs[t] > 0
        BY <4>1 DEF Sound, IsObject, Tally
      <4> QED BY <1>2, <4>2, RefsType
    <3>2. CASE old # t
      <4>1. between[t] = o.refs[t] /\ between[t] \in Nat
        BY <1>2, <1>3, <3>2, RefsType
      <4>2. Equal(old, t) = 0
        BY <3>2 DEF Equal
      <4> QED BY <4>1, <4>2
    <3> QED BY <3>1, <3>2
  <2>3. between[t] \in Nat /\ others[t] \in Nat /\ Equal(old, t) \in Nat /\ Equal(v, t) \in Nat
    BY <1>3 DEF Equal, Tally
  <2> HIDE DEF between
  <2> QED BY <2>1, <2>2, <2>3
<1>6. Sound(D, H, p, others)
  <2>1. f \in D /\ (IF f \in H THEN v \in Target(f) ELSE v \notin Things)
    BY <1>2
  <2> QED BY <1>1, <1>4, <1>5, <2>1, FieldMoves
<1> QED BY <1>1, <1>6 DEF p, Assigns

(* A field that drops what it has, for what somebody else gives away.      *)
LEMMA GivenSound ==
    ASSUME NEW D, IsFiniteSet(D), NEW H \in SUBSET D, NEW others \in Tally,
           NEW o, Sound(D, H, o, others), NEW f \in H, NEW v \in Target(f),
           NEW left \in Tally,
           \A t \in Things \ Vectors : others[t] = left[t] + Equal(v, t)
    PROVE  /\ Sound(D, H, Given(o, f, v), left)
           /\ Same(o, Given(o, f, v))
           /\ Given(o, f, v).val = [o.val EXCEPT ![f] = v]
<1> DEFINE p == Given(o, f, v)
           old == o.val[f]
<1>1. /\ p.val = [o.val EXCEPT ![f] = v] /\ p.listed = o.listed
      /\ p.refs = Unref(o.refs, old) /\ Same(o, p)
  BY DEF Given, IsObject, Sound, Same, HasFields
<1>2. old \in Things \union {Null} /\ o.refs \in Tally
  BY NullIsNone DEF Sound, HasFields, IsObject, Target
<1>3. p.refs \in Tally
  BY <1>1, <1>2, RefsType
<1>4. IsObject(p)
  <2>1. DOMAIN p = DOMAIN o
    BY DEF Given
  <2> HIDE DEF p
  <2> QED BY <1>1, <1>3, <2>1 DEF IsObject, Sound
<1> HIDE DEF p
<1>5. ASSUME NEW t \in Things \ Vectors
      PROVE  p.refs[t] + others[t] + Equal(o.val[f], t) = o.refs[t] + left[t] + Equal(v, t)
  <2>1. p.refs[t] + Equal(old, t) = o.refs[t]
    <3>1. CASE old = t
      <4>1. o.refs[t] > others[t] + o.listed[t]
        BY <3>1, ReferredIsThere
      <4>2. o.refs[t] > 0
        BY <4>1 DEF Sound, IsObject, Tally
      <4>3. Unref(o.refs, old)[t] + Equal(old, t) = o.refs[t]
        BY <1>2, <4>2, RefsType
      <4> QED BY <1>1, <4>3
    <3>2. CASE old # t
      <4>3. Unref(o.refs, old)[t] = o.refs[t] /\ Unref(o.refs, old)[t] \in Nat
        BY <1>2, <3>2, RefsType
      <4>1. p.refs[t] = o.refs[t] /\ p.refs[t] \in Nat
        BY <1>1, <4>3
      <4>2. Equal(old, t) = 0
        BY <3>2 DEF Equal
      <4> QED BY <4>1, <4>2
    <3> QED BY <3>1, <3>2
  <2>2. p.refs[t] \in Nat /\ left[t] \in Nat /\ Equal(old, t) \in Nat /\ Equal(v, t) \in Nat
    BY <1>3 DEF Equal, Tally
  <2> QED BY <2>1, <2>2
<1>6. Sound(D, H, p, left)
  <2>1. f \in D /\ (IF f \in H THEN v \in Target(f) ELSE v \notin Things)
    OBVIOUS
  <2> QED BY <1>1, <1>4, <1>5, <2>1, FieldMoves
<1> QED BY <1>1, <1>6 DEF p

(* g_clear_object drops what the field refers to.                          *)
LEMMA ClearedSound ==
    ASSUME NEW D, IsFiniteSet(D), NEW H \in SUBSET D, NEW others \in Tally,
           NEW o, Sound(D, H, o, others), NEW f \in H
    PROVE  Assigns(D, H, others, o, Cleared(o, f), f, Null)
<1>1. Null \in Target(f)
  BY DEF Target
<1>2. \A t \in Things \ Vectors : others[t] = others[t] + Equal(Null, t)
  BY NullIsNone DEF Equal, Tally
<1> QED BY <1>1, <1>2, GivenSound DEF Cleared, Assigns

(* The prior takes no reference, and the vectors are not balanced.         *)
LEMMA DpriorSound ==
    ASSUME NEW D, IsFiniteSet(D), NEW H \in SUBSET D, NEW others \in Tally,
           NEW o, Sound(D, H, o, others), "Dprior" \in H, NEW v \in Vectors \union {Null}
    PROVE  Assigns(D, H, others, o, SetDprior(o, v), "Dprior", v)
<1>1. v \in Target("Dprior")
  BY DEF Target
<1>2. \A t \in Things \ Vectors : others[t] = others[t] + Equal(v, t)
  BY NullIsNone DEF Equal, Tally
<1> QED BY <1>1, <1>2, GivenSound DEF SetDprior, Assigns

(* The program hands its reference over.                                   *)
LEMMA HandedSound ==
    ASSUME NEW D, IsFiniteSet(D), NEW H \in SUBSET D, NEW others \in Tally,
           NEW o, Sound(D, H, o, others), NEW f \in H, f # "Dprior",
           NEW t \in Things, others[t] > 0
    PROVE  /\ Sound(D, H, Given(o, f, t), [others EXCEPT ![t] = @ - 1])
           /\ Same(o, Given(o, f, t))
           /\ Given(o, f, t).val = [o.val EXCEPT ![f] = t]
<1> DEFINE left == [others EXCEPT ![t] = @ - 1]
<1>1. t \in Target(f)
  BY DEF Target
<1>2. left \in Tally
  BY DEF Tally
<1>3. \A u \in Things \ Vectors : others[u] = left[u] + Equal(t, u)
  BY DEF Equal, Tally
<1> HIDE DEF left
<1>4. /\ Sound(D, H, Given(o, f, t), left)
      /\ Same(o, Given(o, f, t))
      /\ Given(o, f, t).val = [o.val EXCEPT ![f] = t]
  BY <1>1, <1>2, <1>3, GivenSound
<1> QED BY <1>4 DEF left

(* Arrays.                                                                 *)
LEMMA ListMoves ==
    ASSUME NEW D, IsFiniteSet(D), NEW H, NEW others \in Tally,
           NEW o, Sound(D, H, o, others),
           NEW p, IsObject(p), p.val = o.val,
           \A t \in Things \ Vectors : p.refs[t] + o.listed[t] = o.refs[t] + p.listed[t]
    PROVE  Sound(D, H, p, others)
<1>1. HasFields(D, H, p)
  BY DEF Sound, HasFields
<1>2. ASSUME NEW t \in Things \ Vectors
      PROVE  p.refs[t] = others[t] + Referrers(p, t)
  <2> DEFINE pointing == Cardinality(Pointing(o.val, t))
  <2>1. pointing \in Nat
    BY ReferredIsThere
  <2>2. /\ o.refs[t] = others[t] + Referrers(o, t)
        /\ Referrers(o, t) = pointing + o.listed[t] /\ Referrers(p, t) = pointing + p.listed[t]
        /\ p.refs[t] + o.listed[t] = o.refs[t] + p.listed[t]
    BY DEF Sound, Balanced, Referrers
  <2>3. /\ o.refs[t] \in Nat /\ p.refs[t] \in Nat /\ o.listed[t] \in Nat /\ p.listed[t] \in Nat
        /\ others[t] \in Nat
    BY DEF Sound, IsObject, Tally
  <2> HIDE DEF pointing
  <2> QED BY <2>1, <2>2, <2>3
<1> QED BY <1>1, <1>2 DEF Sound, Balanced

(* An item that is listed is referred to once more.                        *)
LEMMA ListedSound ==
    ASSUME NEW D, IsFiniteSet(D), NEW H, NEW others \in Tally,
           NEW o, Sound(D, H, o, others), NEW thing \in Things
    PROVE  /\ Sound(D, H, Listed(o, thing), others) /\ Same(o, Listed(o, thing))
           /\ Listed(o, thing).val = o.val
<1> DEFINE p == Listed(o, thing)
<1>1. /\ p.val = o.val /\ p.refs = Ref(o.refs, thing) /\ Same(o, p) /\ DOMAIN p = DOMAIN o
      /\ p.listed = [o.listed EXCEPT ![thing] = @ + 1]
  BY DEF Listed, Sound, IsObject, Same
<1>2. o.refs \in Tally /\ o.listed \in Tally
  BY DEF Sound, IsObject
<1>6. thing \in Things \union {Null}
  OBVIOUS
<1> HIDE DEF p
<1>3. p.refs \in Tally /\ p.listed \in Tally
  <2>1. p.refs \in Tally
    BY <1>1, <1>2, <1>6, RefsType
  <2>2. o.listed[thing] + 1 \in Nat
    BY <1>2 DEF Tally
  <2>3. p.listed \in Tally
    BY <1>1, <1>2, <2>2 DEF Tally
  <2> QED BY <2>1, <2>3
<1>4. IsObject(p)
  BY <1>1, <1>3 DEF IsObject, Sound
<1>5. ASSUME NEW t \in Things \ Vectors
      PROVE  p.refs[t] + o.listed[t] = o.refs[t] + p.listed[t]
  <2>1. p.refs[t] = o.refs[t] + Equal(thing, t)
    <3>1. Ref(o.refs, thing)[t] = o.refs[t] + Equal(thing, t)
      BY <1>2, <1>6, RefsType
    <3> QED BY <1>1, <3>1
  <2>2. p.listed[t] = o.listed[t] + Equal(thing, t)
    BY <1>1, <1>2 DEF Equal, Tally
  <2>3. Equal(thing, t) \in Nat /\ o.refs[t] \in Nat /\ o.listed[t] \in Nat
    BY <1>2 DEF Equal, Tally
  <2> QED BY <2>1, <2>2, <2>3
<1> QED BY <1>1, <1>4, <1>5, ListMoves DEF p

(* An item that is taken off the list is referred to once less, if it was  *)
(* listed.                                                                 *)
LEMMA UnlistedSound ==
    ASSUME NEW D, IsFiniteSet(D), NEW H, NEW others \in Tally,
           NEW o, Sound(D, H, o, others), NEW thing \in Things
    PROVE  /\ Sound(D, H, Unlisted(o, thing), others) /\ Same(o, Unlisted(o, thing))
           /\ Unlisted(o, thing).val = o.val
<1> DEFINE p == Unlisted(o, thing)
<1>1. CASE o.listed[thing] = 0
  BY <1>1 DEF Unlisted, Same
<1>2. CASE o.listed[thing] # 0
  <2>1. /\ p.val = o.val /\ p.refs = Unref(o.refs, thing) /\ Same(o, p) /\ DOMAIN p = DOMAIN o
        /\ p.listed = [o.listed EXCEPT ![thing] = @ - 1]
    BY <1>2 DEF Unlisted, Sound, IsObject, Same
  <2>2. o.refs \in Tally /\ o.listed \in Tally
    BY DEF Sound, IsObject
  <2>6. thing \in Things \union {Null}
    OBVIOUS
  <2> HIDE DEF p
  <2>3. p.refs \in Tally /\ p.listed \in Tally
    <3>1. p.refs \in Tally
      BY <2>1, <2>2, <2>6, RefsType
    <3>2. o.listed[thing] - 1 \in Nat
      BY <1>2, <2>2 DEF Tally
    <3>3. p.listed \in Tally
      BY <2>1, <2>2, <3>2 DEF Tally
    <3> QED BY <3>1, <3>3
  <2>4. IsObject(p)
    BY <2>1, <2>3 DEF IsObject, Sound
  <2>5. ASSUME NEW t \in Things \ Vectors
        PROVE  p.refs[t] + o.listed[t] = o.refs[t] + p.listed[t]
    <3>1. CASE t = thing
      <4>1. o.refs[t] > 0
        <5>1. o.refs[t] >= others[t] + o.listed[t]
          BY ReferredIsThere
        <5> QED BY <1>2, <2>2, <3>1, <5>1 DEF Tally
      <4>2. p.refs[t] + Equal(thing, t) = o.refs[t] /\ Equal(thing, t) = 1
        BY <2>1, <2>2, <2>6, <3>1, <4>1, RefsType DEF Equal
      <4> QED BY <2>1, <2>2, <2>3, <3>1, <4>2 DEF Tally
    <3>2. CASE t # thing
      <4>1. Unref(o.refs, thing)[t] = o.refs[t]
        BY <2>2, <2>6, <3>2, RefsType
      <4>2. p.listed[t] = o.listed[t]
        BY <2>1, <2>2, <3>2 DEF Tally
      <4> QED BY <2>1, <4>1, <4>2
    <3> QED BY <3>1, <3>2
  <2> QED BY <2>1, <2>4, <2>5, ListMoves DEF p
<1> QED BY <1>1, <1>2

(* Every item listed is dropped as often as it was listed.                 *)
LEMMA ListEmptiedSound ==
    ASSUME NEW D, IsFiniteSet(D), NEW H, NEW others \in Tally,
           NEW o, Sound(D, H, o, others)
    PROVE  /\ Sound(D, H, ListEmptied(o), others) /\ Same(o, ListEmptied(o))
           /\ ListEmptied(o).val = o.val
<1> DEFINE p == ListEmptied(o)
<1>1. /\ p.val = o.val /\ Same(o, p) /\ DOMAIN p = DOMAIN o
      /\ p.listed = [t \in Things |-> 0]
      /\ p.refs = [t \in Things |-> IF o.refs[t] < o.listed[t] THEN 0 ELSE o.refs[t] - o.listed[t]]
  BY DEF ListEmptied, Sound, IsObject, Same
<1>2. o.refs \in Tally /\ o.listed \in Tally
  BY DEF Sound, IsObject
<1> HIDE DEF p
<1>3. p.refs \in Tally /\ p.listed \in Tally
  BY <1>1, <1>2 DEF Tally
<1>4. IsObject(p)
  BY <1>1, <1>3 DEF IsObject, Sound
<1>5. ASSUME NEW t \in Things \ Vectors
      PROVE  p.refs[t] + o.listed[t] = o.refs[t] + p.listed[t]
  <2>1. o.refs[t] >= o.listed[t]
    BY <1>2, ReferredIsThere DEF Tally
  <2> QED BY <1>1, <1>2, <2>1 DEF Tally
<1> QED BY <1>1, <1>4, <1>5, ListMoves DEF p

(* Connections and references to the object itself.                        *)
LEMMA CountsSound ==
    ASSUME NEW D, NEW H, NEW others, NEW o, Sound(D, H, o, others)
    PROVE  /\ Sound(D, H, GRef(o), others) /\ GRef(o).val = o.val
           /\ Sound(D, H, Connect(o), others) /\ Connect(o).val = o.val
           /\ Sound(D, H, RefSink(o), others) /\ RefSink(o).val = o.val
           /\ Sound(D, H, Crash(o), others) /\ Crash(o).val = o.val /\ Same(o, Crash(o))
<1>1. IsObject(GRef(o)) /\ GRef(o).val = o.val /\ GRef(o).refs = o.refs /\ GRef(o).listed = o.listed
  BY DEF GRef, Sound, IsObject
<1>2. /\ IsObject(Connect(o)) /\ Connect(o).val = o.val /\ Connect(o).refs = o.refs
      /\ Connect(o).listed = o.listed
  BY DEF Connect, Sound, IsObject
<1>3. /\ IsObject(RefSink(o)) /\ RefSink(o).val = o.val /\ RefSink(o).refs = o.refs
      /\ RefSink(o).listed = o.listed
  BY DEF RefSink, GRef, Sound, IsObject
<1>4. /\ IsObject(Crash(o)) /\ Crash(o).val = o.val /\ Crash(o).refs = o.refs
      /\ Crash(o).listed = o.listed /\ Same(o, Crash(o))
  BY DEF Crash, Sound, IsObject, Same
<1> QED BY <1>1, <1>2, <1>3, <1>4, RestMoves


(* Fields that hold no references.                                         *)
LEMMA ValuesMove ==
    ASSUME NEW D, NEW H \in SUBSET D, NEW others, NEW o, Sound(D, H, o, others),
           NEW p, IsObject(p), p.refs = o.refs, p.listed = o.listed, DOMAIN p.val = D,
           \A f \in H : p.val[f] = o.val[f],
           \A f \in D \ H : p.val[f] \notin Things
    PROVE  Sound(D, H, p, others)
<1>1. HasFields(D, H, p)
  BY DEF Sound, HasFields
<1>2. ASSUME NEW t \in Things PROVE Pointing(p.val, t) = Pointing(o.val, t)
  BY DEF Sound, HasFields, Pointing
<1> QED BY <1>1, <1>2 DEF Sound, Balanced, Referrers

(* A field without a reference that takes one.                             *)
LEMMA TakenSound ==
    ASSUME NEW D, IsFiniteSet(D), NEW H \in SUBSET D, NEW others \in Tally,
           NEW o, Sound(D, H, o, others), NEW f \in H, f # "Dprior", o.val[f] = Null,
           NEW v \in Things
    PROVE  Assigns(D, H, others, o, Taken(o, f, v), f, v)
<1>1. Unref(o.refs, o.val[f]) = o.refs
  BY DEF Unref
<1>2. Taken(o, f, v) = Replaced(o, f, v)
  BY <1>1 DEF Taken, Replaced
<1> QED BY <1>2, ReplacedSound

-----------------------------------------------------------------------------
(* The classes.                                                            *)

FieldsOf(c) == DOMAIN Classes[c] \union Private(c)
HoldersOf(c) == {p \in DOMAIN Classes[c] : Classes[c][p].kind = "object"} \union Private(c)

(* Of each class: an object is given for a property that has one, and none *)
(* for any other; no property sets the bank of an algorithm.               *)
Declared(K) ==
    /\ IsFiniteSet(DOMAIN K) /\ BankFields \intersect DOMAIN K = {}
    /\ \A p \in DOMAIN K : K[p].kind = "object" =>
          K[p].first = Null /\ K[p].range \subseteq Target(p)

(* At most five names are finitely many.                                   *)
LEMMA FewFinite ==
    ASSUME NEW a, NEW b, NEW c, NEW d, NEW e
    PROVE  /\ IsFiniteSet({}) /\ IsFiniteSet({a}) /\ IsFiniteSet({a, b})
           /\ IsFiniteSet({a, b, c}) /\ IsFiniteSet({a, b, c, d})
           /\ IsFiniteSet({a, b, c, d, e})
<1>1. IsFiniteSet({})
  BY FS_EmptySet
<1>2. IsFiniteSet({} \union {a})
  BY <1>1, FS_AddElement
<1>3. {} \union {a} = {a}
  OBVIOUS
<1>4. IsFiniteSet({a} \union {b})
  BY <1>2, <1>3, FS_AddElement
<1>5. {a} \union {b} = {a, b}
  OBVIOUS
<1>6. IsFiniteSet({a, b} \union {c})
  BY <1>4, <1>5, FS_AddElement
<1>7. {a, b} \union {c} = {a, b, c}
  OBVIOUS
<1>8. IsFiniteSet({a, b, c} \union {d})
  BY <1>6, <1>7, FS_AddElement
<1>9. {a, b, c} \union {d} = {a, b, c, d}
  OBVIOUS
<1>10. IsFiniteSet({a, b, c, d} \union {e})
  BY <1>8, <1>9, FS_AddElement
<1>11. {a, b, c, d} \union {e} = {a, b, c, d, e}
  OBVIOUS
<1> QED BY <1>1, <1>2, <1>3, <1>4, <1>5, <1>6, <1>7, <1>8, <1>9, <1>10, <1>11

(* At most nine names are finitely many, as the properties of a class are. *)
LEMMA NineFinite ==
    ASSUME NEW a, NEW b, NEW c, NEW d, NEW e, NEW f, NEW g, NEW h, NEW i
    PROVE  IsFiniteSet({a, b, c, d, e, f, g, h, i}) /\ IsFiniteSet({a, b, c, d, e, f, g})
<1>1. IsFiniteSet({a, b, c, d, e}) /\ IsFiniteSet({f, g, h, i}) /\ IsFiniteSet({f, g})
  BY FewFinite
<1>2. /\ IsFiniteSet({a, b, c, d, e} \union {f, g, h, i})
      /\ IsFiniteSet({a, b, c, d, e} \union {f, g})
  BY <1>1, FS_Union
<1>3. /\ {a, b, c, d, e} \union {f, g, h, i} = {a, b, c, d, e, f, g, h, i}
      /\ {a, b, c, d, e} \union {f, g} = {a, b, c, d, e, f, g}
  OBVIOUS
<1> QED BY <1>2, <1>3

(* What the assumption on objects says, one kind of object at a time.      *)
LEMMA ObjectsAreThings ==
    /\ Banks \subseteq Things /\ Spaces \subseteq Things /\ Covariates \subseteq Things
    /\ Points \subseteq Things /\ Items \subseteq Things /\ Models \subseteq Things
    /\ Vectors \subseteq Things /\ TestBank \in Things /\ NewCovariates \in Things
  BY ObjectsAssumption

(* The properties of the algorithms are declared as they should be.        *)
LEMMA AlgorithmsDeclared ==
    /\ Declared(FixedLength) /\ Declared(Simulate) /\ Declared(ClassRates) /\ Declared(<<>>)
    /\ Declared(Chooser) /\ Declared(ClosestDiff) /\ Declared(MaxFisher)
    /\ Declared(MaxKl) /\ Declared(Estimate) /\ Declared(Stratify) /\ Declared(Astrat)
<1> USE DEF Declared, ConstructOnly, Construct, Plain, ReadOnly, Key, NumChosen, OrNull, Target,
            BankFields
<1>1. Declared(FixedLength)
  <2> DEFINE names == {"len"}
  <2>1. DOMAIN FixedLength = names
    BY DEF FixedLength
  <2>2. IsFiniteSet(names)
    BY FewFinite
  <2>3. IsFiniteSet(DOMAIN FixedLength)
    BY <2>1, <2>2
  <2> QED BY <2>1, <2>3 DEF FixedLength
<1>2. Declared(Simulate)
  <2> DEFINE names == {"auto_record", "modelKey", "thetaKey"}
  <2>1. DOMAIN Simulate = names
    BY DEF Simulate
  <2>2. IsFiniteSet(names)
    BY FewFinite
  <2>3. IsFiniteSet(DOMAIN Simulate)
    BY <2>1, <2>2
  <2> QED BY <2>1, <2>3 DEF Simulate
<1>3. Declared(ClassRates)
  <2> DEFINE names == {"by_pattern", "simKey", "estKey"}
  <2>1. DOMAIN ClassRates = names
    BY DEF ClassRates
  <2>2. IsFiniteSet(names)
    BY FewFinite
  <2>3. IsFiniteSet(DOMAIN ClassRates)
    BY <2>1, <2>2
  <2> QED BY <2>1, <2>3 DEF ClassRates
<1>4. Declared(Chooser)
  <2> DEFINE names == {"num", "itembank"}
  <2>1. DOMAIN Chooser = names
    BY DEF Chooser
  <2>2. IsFiniteSet(names)
    BY FewFinite
  <2>3. IsFiniteSet(DOMAIN Chooser)
    BY <2>1, <2>2
  <2> QED BY <2>1, <2>3, ObjectsAreThings DEF Chooser
<1>5. Declared(ClosestDiff)
  <2> DEFINE names == {"num", "modelKey", "thetaKey"}
  <2>1. DOMAIN ClosestDiff = names
    BY DEF ClosestDiff
  <2>2. IsFiniteSet(names)
    BY FewFinite
  <2>3. IsFiniteSet(DOMAIN ClosestDiff)
    BY <2>1, <2>2
  <2> QED BY <2>1, <2>3 DEF ClosestDiff
<1>6. Declared(MaxFisher)
  <2> DEFINE names == {"num", "A_opt", "modelKey", "thetaKey"}
  <2>1. DOMAIN MaxFisher = names
    BY DEF MaxFisher
  <2>2. IsFiniteSet(names)
    BY FewFinite
  <2>3. IsFiniteSet(DOMAIN MaxFisher)
    BY <2>1, <2>2
  <2> QED BY <2>1, <2>3 DEF MaxFisher
<1>7. Declared(MaxKl)
  <2> DEFINE names == {"num", "inf_bounds", "posterior", "c", "mu", "Sigma", "Dprior",
                   "modelKey", "thetaKey"}
  <2>1. DOMAIN MaxKl = names
    BY DEF MaxKl
  <2>2. IsFiniteSet(names)
    BY NineFinite
  <2>3. IsFiniteSet(DOMAIN MaxKl)
    BY <2>1, <2>2
  <2> QED BY <2>1, <2>3 DEF MaxKl
<1>8. Declared(Estimate)
  <2> DEFINE names == {"independent", "posterior", "Nposterior", "mu", "Sigma", "Dprior",
                   "tol", "modelKey", "thetaKey"}
  <2>1. DOMAIN Estimate = names
    BY DEF Estimate
  <2>2. IsFiniteSet(names)
    BY NineFinite
  <2>3. IsFiniteSet(DOMAIN Estimate)
    BY <2>1, <2>2
  <2> QED BY <2>1, <2>3 DEF Estimate
<1>9. Declared(Stratify)
  <2> DEFINE names == {"num", "itembank"}
  <2>1. DOMAIN Stratify = names
    BY DEF Stratify
  <2>2. IsFiniteSet(names)
    BY FewFinite
  <2>3. IsFiniteSet(DOMAIN Stratify)
    BY <2>1, <2>2
  <2> QED BY <2>1, <2>3, ObjectsAreThings DEF Stratify
<1>10. Declared(Astrat)
  <2> DEFINE names == {"equal", "Nstrata", "Nblocks", "Nequal", "Nitems", "modelKey",
                   "Ncur"}
  <2>1. DOMAIN Astrat = names
    BY DEF Astrat
  <2>2. IsFiniteSet(names)
    BY NineFinite
  <2>3. IsFiniteSet(DOMAIN Astrat)
    BY <2>1, <2>2
  <2> QED BY <2>1, <2>3 DEF Astrat
<1>11. Declared(<<>>)
  <2>1. DOMAIN <<>> = {}
    OBVIOUS
  <2> QED BY <2>1, FewFinite
<1> QED BY <1>1, <1>2, <1>3, <1>4, <1>5, <1>6, <1>7, <1>8, <1>9, <1>10, <1>11

ModelFields == {"space", "dims", "covariates", "Ncat"}

(* The four models have the same properties.                               *)
LEMMA ModelDeclared ==
    ASSUME NEW K, K = WithCategories(Model)
    PROVE  /\ Declared(K) /\ DOMAIN K = ModelFields
           /\ K["space"].kind = "object" /\ K["space"].range = Spaces
           /\ K["dims"].kind = "value"
           /\ K["covariates"].kind = "value" /\ K["covariates"].range = OrNull(Covariates)
           /\ K["covariates"].first = Null
           /\ K["Ncat"] = Ncat
<1>1. DOMAIN Model = {"space", "dims", "covariates"}
  BY DEF Model
<1>2. DOMAIN K = ModelFields
  BY <1>1 DEF WithCategories, ModelFields
<1>3. K["Ncat"] = Ncat /\ \A p \in {"space", "dims", "covariates"} : K[p] = Model[p]
  BY <1>1 DEF WithCategories
<1>4. /\ Model["space"] = ConstructOnly("object", Spaces, Null)
      /\ Model["dims"].kind = "value"
      /\ Model["covariates"] = ConstructOnly("value", OrNull(Covariates), Null)
  BY DEF Model, ConstructOnly
<1>10. IsFiniteSet(ModelFields)
  BY FewFinite DEF ModelFields
<1>5. IsFiniteSet(DOMAIN K) /\ BankFields \intersect DOMAIN K = {}
  BY <1>2, <1>10 DEF ModelFields, BankFields
<1>6. Ncat.kind = "value"
  BY DEF Ncat, ConstructOnly
<1>7. /\ K["space"].kind = "object" /\ K["space"].range = Spaces /\ K["space"].first = Null
      /\ K["dims"].kind = "value"
      /\ K["covariates"].kind = "value" /\ K["covariates"].range = OrNull(Covariates)
      /\ K["covariates"].first = Null
  BY <1>3, <1>4 DEF ConstructOnly
<1>8. Spaces \subseteq Target("space")
  BY ObjectsAreThings DEF Target
<1>9. \A p \in DOMAIN K : K[p].kind = "object" => p = "space"
  BY <1>2, <1>3, <1>6, <1>7 DEF ModelFields
<1> QED BY <1>2, <1>3, <1>5, <1>7, <1>8, <1>9 DEF Declared

(* The properties of the data classes and of the test are declared as they *)
(* should be.                                                              *)
LEMMA DataDeclared ==
    /\ Declared(Test) /\ Declared(Examinee) /\ Declared(Administrand) /\ Declared(ItemBank)
    /\ Declared(Space) /\ Declared(Point)
<1> USE DEF Declared, ConstructOnly, Plain, ReadOnly, OrNull, Target, BankFields, ID
<1>1. Declared(Test)
  <2> DEFINE names == {"id", "itembank", "length_hint", "itermax_select", "itermax_items"}
  <2>1. DOMAIN Test = names
    BY DEF Test
  <2>2. IsFiniteSet(names)
    BY FewFinite
  <2>3. IsFiniteSet(DOMAIN Test)
    BY <2>1, <2>2
  <2> QED BY <2>1, <2>3, ObjectsAreThings DEF Test
<1>2. Declared(Examinee)
  <2> DEFINE names == {"id", "covariates"}
  <2>1. DOMAIN Examinee = names
    BY DEF Examinee
  <2>2. IsFiniteSet(names)
    BY FewFinite
  <2>3. IsFiniteSet(DOMAIN Examinee)
    BY <2>1, <2>2
  <2> QED BY <2>1, <2>3, ObjectsAreThings DEF Examinee
<1>3. Declared(Administrand)
  <2> DEFINE names == {"id", "frozen"}
  <2>1. DOMAIN Administrand = names
    BY DEF Administrand
  <2>2. IsFiniteSet(names)
    BY FewFinite
  <2>3. IsFiniteSet(DOMAIN Administrand)
    BY <2>1, <2>2
  <2> QED BY <2>1, <2>3 DEF Administrand
<1>4. Declared(ItemBank)
  <2> DEFINE names == {"id", "frozen", "sizeHint"}
  <2>1. DOMAIN ItemBank = names
    BY DEF ItemBank
  <2>2. IsFiniteSet(names)
    BY FewFinite
  <2>3. IsFiniteSet(DOMAIN ItemBank)
    BY <2>1, <2>2
  <2> QED BY <2>1, <2>3 DEF ItemBank
<1>5. Declared(Space)
  <2> DEFINE names == {"id", "numCont", "numBin", "numNat", "max"}
  <2>1. DOMAIN Space = names
    BY DEF Space
  <2>2. IsFiniteSet(names)
    BY FewFinite
  <2>3. IsFiniteSet(DOMAIN Space)
    BY <2>1, <2>2
  <2> QED BY <2>1, <2>3 DEF Space
<1>6. Declared(Point)
  <2> DEFINE names == {"space"}
  <2>1. DOMAIN Point = names
    BY DEF Point
  <2>2. IsFiniteSet(names)
    BY FewFinite
  <2>3. IsFiniteSet(DOMAIN Point)
    BY <2>1, <2>2
  <2> QED BY <2>1, <2>3, ObjectsAreThings DEF Point
<1> QED BY <1>1, <1>2, <1>3, <1>4, <1>5, <1>6

(* The class among all classes.                                            *)
LEMMA ClassNames ==
    /\ DOMAIN Classes = Algorithms \union ModelClasses
         \union {"chooser", "stratify", "test", "examinee", "item", "item_bank", "space", "point"}
    /\ Classes["fixed_length"] = FixedLength /\ Classes["simulate"] = Simulate
    /\ Classes["class_rates"] = ClassRates /\ Classes["pick_rand"] = <<>>
    /\ Classes["exposure_counter"] = <<>> /\ Classes["closest_diff"] = ClosestDiff
    /\ Classes["max_fisher"] = MaxFisher /\ Classes["max_kl"] = MaxKl
    /\ Classes["estimate"] = Estimate /\ Classes["astrat"] = Astrat
    /\ Classes["chooser"] = Chooser /\ Classes["stratify"] = Stratify
    /\ Classes["test"] = Test /\ Classes["examinee"] = Examinee
    /\ Classes["item"] = Administrand /\ Classes["item_bank"] = ItemBank
    /\ Classes["space"] = Space /\ Classes["point"] = Point
    /\ \A c \in ModelClasses : Classes[c] = WithCategories(Model)
<1>1. DOMAIN Classes = Algorithms \union ModelClasses
         \union {"chooser", "stratify", "test", "examinee", "item", "item_bank", "space", "point"}
  BY DEF Classes, Algorithms, ModelClasses
<1>2. \A c \in ModelClasses : Classes[c] = WithCategories(Model)
  BY DEF Classes, ModelClasses, Nominal, PartialCredit, GeneralizedPartialCredit, GradedResponse
<1>3. /\ Classes["fixed_length"] = FixedLength /\ Classes["simulate"] = Simulate
      /\ Classes["class_rates"] = ClassRates /\ Classes["pick_rand"] = <<>>
      /\ Classes["exposure_counter"] = <<>> /\ Classes["closest_diff"] = ClosestDiff
      /\ Classes["max_fisher"] = MaxFisher /\ Classes["max_kl"] = MaxKl
      /\ Classes["estimate"] = Estimate /\ Classes["astrat"] = Astrat
  BY DEF Classes
<1>4. /\ Classes["chooser"] = Chooser /\ Classes["stratify"] = Stratify
      /\ Classes["test"] = Test /\ Classes["examinee"] = Examinee
      /\ Classes["item"] = Administrand /\ Classes["item_bank"] = ItemBank
      /\ Classes["space"] = Space /\ Classes["point"] = Point
  BY DEF Classes
<1> QED BY <1>1, <1>2, <1>3, <1>4

(* So the properties of every class are.                                   *)
LEMMA AllDeclared == \A c \in DOMAIN Classes : Declared(Classes[c])
<1>1. \A c \in ModelClasses : Declared(Classes[c])
  BY ClassNames, ModelDeclared
<1>2. \A c \in Algorithms : Declared(Classes[c])
  BY ClassNames, AlgorithmsDeclared DEF Algorithms
<1>3. \A c \in {"chooser", "stratify", "test", "examinee", "item", "item_bank", "space", "point"} :
         Declared(Classes[c])
  BY ClassNames, AlgorithmsDeclared, DataDeclared
<1> QED BY <1>1, <1>2, <1>3, ClassNames

(* No property sets a private field.                                       *)
LEMMA PrivateApart == \A c \in DOMAIN Classes : Private(c) \intersect DOMAIN Classes[c] = {}
<1>1. \A c \in {"closest_diff", "max_fisher", "astrat"} : Private(c) \subseteq BankFields
  BY DEF Private, BankFields
<1>2. Private("max_kl") \intersect DOMAIN MaxKl = {}
  BY DEF Private, MaxKl
<1>3. /\ Private("examinee") \intersect DOMAIN Examinee = {}
      /\ Private("item") \intersect DOMAIN Administrand = {}
  BY DEF Private, Examinee, Administrand
<1>4. \A c \in DOMAIN Classes :
         c \notin {"closest_diff", "max_fisher", "astrat", "max_kl", "examinee", "item"} =>
            Private(c) = {}
  BY DEF Private
<1> QED BY <1>1, <1>2, <1>3, <1>4, ClassNames, AllDeclared DEF Declared

(* An object of any class has finitely many fields.                        *)
LEMMA FieldsFinite ==
    ASSUME NEW c \in DOMAIN Classes
    PROVE  /\ IsFiniteSet(FieldsOf(c)) /\ HoldersOf(c) \in SUBSET FieldsOf(c)
           /\ \A p \in DOMAIN Classes[c] : p \in HoldersOf(c) <=> Classes[c][p].kind = "object"
<1>1. IsFiniteSet(DOMAIN Classes[c])
  BY AllDeclared DEF Declared
<1>2. IsFiniteSet(Private(c))
  <2>1. /\ IsFiniteSet({}) /\ IsFiniteSet({"chooser.bank"}) /\ IsFiniteSet({"stratify.bank"})
        /\ IsFiniteSet({"chooser.bank", "space", "theta.space"})
        /\ IsFiniteSet({"simDefault", "estDefault"}) /\ IsFiniteSet({"default", "other"})
    BY FewFinite
  <2> QED BY <2>1 DEF Private
<1>3. IsFiniteSet(FieldsOf(c))
  BY <1>1, <1>2, FS_Union DEF FieldsOf
<1> QED BY <1>3, PrivateApart DEF HoldersOf, FieldsOf

IsFactor(half) == half = Null \/ half \in [of : Matrices, times : {1, 2}]

(* The factor of Sigma, in the classes that have one.                      *)
HasFactor(c, o) == c \in {"max_kl", "estimate"} => IsFactor(o.val["Sigma"])

(* The object is as sound as one of its class should be.                   *)
Proper(c, o, others) == Sound(FieldsOf(c), HoldersOf(c), o, others) /\ HasFactor(c, o)

(* What a setter changes: one of the properties, or none.                  *)
SetsOnly(c, o, q) ==
    /\ Same(o, q)
    /\ \A f \in Private(c) : q.val[f] = o.val[f]

(* What Set stores for a value.                                            *)
Stored(K, p, v) ==
    IF K[p].kind = "key" THEN Quark(v) ELSE IF K[p].kind = "id" THEN Identifier(v) ELSE v

(* A property that has no object is given none, and is not a field that    *)
(* holds a reference.                                                      *)
LEMMA PlainField ==
    ASSUME NEW c \in DOMAIN Classes, NEW p \in DOMAIN Classes[c], p # "covariates",
           Classes[c][p].kind # "object",
           NEW v \in Classes[c][p].range \union {Classes[c][p].first}
    PROVE  p \in FieldsOf(c) \ HoldersOf(c) /\ v \notin Things
<1>1. p \in FieldsOf(c) \ HoldersOf(c)
  BY FieldsFinite DEF FieldsOf
<1>2. v \notin Things
  BY ValuesAssumption
<1> QED BY <1>1, <1>2

(* Setting a property that is an object, and one that is not.              *)
LEMMA SetObjectSound ==
    ASSUME NEW D, IsFiniteSet(D), NEW H \in SUBSET D, NEW others \in Tally,
           NEW o, Sound(D, H, o, others), NEW K, NEW p \in H, p # "Dprior",
           K[p].kind = "object", NEW v \in Things \union {Null}
    PROVE  Assigns(D, H, others, o, Set(K, o, p, v), p, Stored(K, p, v))
<1>1. Set(K, o, p, v) = Replaced(o, p, v) /\ Stored(K, p, v) = v
  BY DEF Set, Stored
<1>2. Assigns(D, H, others, o, Replaced(o, p, v), p, v)
  BY ReplacedSound
<1> QED BY <1>1, <1>2

(* The usual setter stores a value that is no object.                      *)
LEMMA SetValueSound ==
    ASSUME NEW D, IsFiniteSet(D), NEW H, NEW others \in Tally,
           NEW o, Sound(D, H, o, others), NEW K, NEW p \in D \ H,
           K[p].kind # "object", NEW v, v \notin Things
    PROVE  Assigns(D, H, others, o, Set(K, o, p, v), p, Stored(K, p, v))
<1> DEFINE w == Stored(K, p, v)
<1>1. Set(K, o, p, v) = SetField(o, p, w)
  BY DEF Set, Stored
<1>2. w \notin Things
  <2>1. Generated \notin Things /\ Null \notin Things
    BY ValuesAssumption, NullIsNone DEF Made
  <2> QED BY <2>1 DEF Stored, Quark, Identifier
<1> HIDE DEF w
<1>3. Assigns(D, H, others, o, SetField(o, p, w), p, w)
  BY <1>2, SetFieldSound
<1> QED BY <1>1, <1>3 DEF w

(* The usual setter of any property keeps the references accounted for.    *)
LEMMA PlainSetSound ==
    ASSUME NEW c \in DOMAIN Classes, NEW others \in Tally,
           NEW o, Sound(FieldsOf(c), HoldersOf(c), o, others),
           NEW p \in DOMAIN Classes[c], p # "Dprior",
           p = "covariates" => Classes[c][p].kind = "object",
           NEW v \in Classes[c][p].range \union {Classes[c][p].first}
    PROVE  Assigns(FieldsOf(c), HoldersOf(c), others, o,
                   Set(Classes[c], o, p, v), p, Stored(Classes[c], p, v))
<1> DEFINE K == Classes[c]
           D == FieldsOf(c)
           H == HoldersOf(c)
<1>1. IsFiniteSet(D) /\ H \in SUBSET D /\ p \in D /\ Sound(D, H, o, others)
  BY FieldsFinite DEF FieldsOf
<1>2. K[p].kind = "object" => p \in H /\ v \in Things \union {Null}
  <2>1. K[p].kind = "object" => p \in H /\ v \in Target(p) \union {Null}
    BY FieldsFinite, AllDeclared DEF Declared
  <2> QED BY <2>1, NullIsNone DEF Target
<1>3. K[p].kind # "object" => p \notin H /\ v \notin Things
  BY PlainField
<1> HIDE DEF D, H, K
<1>4. CASE K[p].kind = "object"
  <2>1. Assigns(D, H, others, o, Set(K, o, p, v), p, Stored(K, p, v))
    BY <1>1, <1>2, <1>4, SetObjectSound
  <2> QED BY <2>1 DEF D, H, K
<1>5. CASE K[p].kind # "object"
  <2>1. Assigns(D, H, others, o, Set(K, o, p, v), p, Stored(K, p, v))
    BY <1>1, <1>3, <1>5, SetValueSound
  <2> QED BY <2>1 DEF D, H, K
<1> QED BY <1>4, <1>5

(* One field that changes.                                                 *)
LEMMA OneFieldProper ==
    ASSUME NEW c \in DOMAIN Classes, NEW others \in Tally, NEW o, Proper(c, o, others),
           NEW p \in DOMAIN Classes[c], NEW q, NEW w,
           Assigns(FieldsOf(c), HoldersOf(c), others, o, q, p, w),
           p = "Sigma" => IsFactor(w)
    PROVE  Proper(c, q, others) /\ SetsOnly(c, o, q)
<1>1. DOMAIN o.val = FieldsOf(c) /\ q.val = [o.val EXCEPT ![p] = w]
  BY DEF Proper, Sound, HasFields, Assigns
<1>2. \A f \in Private(c) : q.val[f] = o.val[f]
  BY <1>1, PrivateApart DEF FieldsOf
<1>3. HasFactor(c, q)
  <2> SUFFICES ASSUME c \in {"max_kl", "estimate"} PROVE IsFactor(q.val["Sigma"])
    BY DEF HasFactor
  <2>1. "Sigma" \in DOMAIN Classes[c]
    BY ClassNames DEF MaxKl, Estimate
  <2>2. IsFactor(o.val["Sigma"])
    BY DEF Proper, HasFactor
  <2>3. q.val["Sigma"] = IF p = "Sigma" THEN w ELSE o.val["Sigma"]
    BY <1>1, <2>1 DEF FieldsOf
  <2> QED BY <2>2, <2>3
<1> QED BY <1>2, <1>3 DEF Proper, SetsOnly, Assigns

(* A setter that stores nothing, or crashes, changes no reference.         *)
LEMMA UnchangedProper ==
    ASSUME NEW c, NEW others, NEW o, Proper(c, o, others)
    PROVE  /\ SetsOnly(c, o, o)
           /\ Proper(c, Crash(o), others) /\ SetsOnly(c, o, Crash(o))
<1>1. /\ Sound(FieldsOf(c), HoldersOf(c), Crash(o), others) /\ Crash(o).val = o.val
      /\ Same(o, Crash(o))
  BY CountsSound DEF Proper
<1> QED BY <1>1 DEF Proper, SetsOnly, HasFactor, Same

(* The usual setter sets its own property and no other field.              *)
LEMMA SetPlainProper ==
    ASSUME NEW c \in DOMAIN Classes, NEW others \in Tally, NEW o, Proper(c, o, others),
           NEW p \in DOMAIN Classes[c], p \notin {"Dprior", "Sigma"},
           p = "covariates" => Classes[c][p].kind = "object",
           NEW v \in Classes[c][p].range \union {Classes[c][p].first}
    PROVE  /\ Proper(c, Set(Classes[c], o, p, v), others)
           /\ SetsOnly(c, o, Set(Classes[c], o, p, v))
<1> DEFINE q == Set(Classes[c], o, p, v)
           w == Stored(Classes[c], p, v)
<1>1. Assigns(FieldsOf(c), HoldersOf(c), others, o, q, p, w)
  BY PlainSetSound DEF Proper
<1> HIDE DEF q, w
<1>2. Proper(c, q, others) /\ SetsOnly(c, o, q)
  BY <1>1, OneFieldProper
<1> QED BY <1>2 DEF q

(* One field that is assigned a value keeps the object sound.              *)
LEMMA SetFieldProper ==
    ASSUME NEW c \in DOMAIN Classes, NEW others \in Tally, NEW o, Proper(c, o, others),
           NEW p \in DOMAIN Classes[c], Classes[c][p].kind # "object",
           NEW w, w \notin Things, p = "Sigma" => IsFactor(w)
    PROVE  /\ Proper(c, SetField(o, p, w), others)
           /\ SetsOnly(c, o, SetField(o, p, w))
<1> DEFINE q == SetField(o, p, w)
           D == FieldsOf(c)
           H == HoldersOf(c)
<1>1. IsFiniteSet(D) /\ p \in D \ H /\ Sound(D, H, o, others)
  BY FieldsFinite DEF FieldsOf, Proper
<1>2. Assigns(D, H, others, o, q, p, w)
  <2> HIDE DEF D, H
  <2> QED BY <1>1, SetFieldSound
<1> HIDE DEF q
<1>3. Proper(c, q, others) /\ SetsOnly(c, o, q)
  BY <1>2, OneFieldProper
<1> QED BY <1>3 DEF q

-----------------------------------------------------------------------------
(* The setters that are not the usual one.                                 *)

(* The prior of max_kl and estimate: the old vectors are dropped with the  *)
(* factor of Sigma.                                                        *)
LEMMA SetPriorProper ==
    ASSUME NEW c \in {"max_kl", "estimate"}, NEW others \in Tally, NEW o, Proper(c, o, others),
           NEW p \in DOMAIN Classes[c],
           NEW v \in Classes[c][p].range \union {Classes[c][p].first}
    PROVE  /\ Proper(c, SetPrior(Classes[c], o, p, v), others)
           /\ SetsOnly(c, o, SetPrior(Classes[c], o, p, v))
<1> DEFINE K == Classes[c]
<1>1. c \in DOMAIN Classes /\ (K = MaxKl \/ K = Estimate)
  BY ClassNames DEF Algorithms
<1>2. /\ {"mu", "Sigma", "Dprior"} \subseteq DOMAIN K /\ "covariates" \notin DOMAIN K
      /\ K["mu"].kind = "value" /\ K["Sigma"].kind = "value" /\ K["Dprior"].kind = "object"
      /\ K["Sigma"].range \union {K["Sigma"].first} = OrNull(Matrices)
      /\ K["Dprior"].range \union {K["Dprior"].first} = OrNull(Vectors)
  <2>1. /\ {"mu", "Sigma", "Dprior"} \subseteq DOMAIN K /\ "covariates" \notin DOMAIN K
        /\ K["Sigma"] \in {Construct("value", OrNull(Matrices), Null),
                          Plain("value", OrNull(Matrices), Null)}
        /\ K["mu"] \in {Construct("value", OrNull(Matrices), Null),
                       Plain("value", OrNull(Matrices), Null)}
        /\ K["Dprior"] = Plain("object", OrNull(Vectors), Null)
    <3>1. CASE K = MaxKl
      <4> HIDE DEF K
      <4> QED BY <3>1 DEF MaxKl
    <3>2. CASE K = Estimate
      <4> HIDE DEF K
      <4> QED BY <3>2 DEF Estimate
    <3> QED BY <1>1, <3>1, <3>2
  <2> HIDE DEF K
  <2>2. /\ K["mu"].kind = "value" /\ K["Sigma"].kind = "value" /\ K["Dprior"].kind = "object"
        /\ K["Sigma"].range = OrNull(Matrices) /\ K["Sigma"].first = Null
        /\ K["Dprior"].range = OrNull(Vectors) /\ K["Dprior"].first = Null
    BY <2>1 DEF Construct, Plain
  <2> QED BY <2>1, <2>2 DEF OrNull
<1>3. CASE p = "mu"
  <2>1. v \notin Things /\ Null \notin Things
    BY <1>1, <1>2, <1>3, PlainField, NullIsNone
  <2>2. \/ SetPrior(K, o, p, v) = Crash(o)
        \/ \E w : w \notin Things /\ SetPrior(K, o, p, v) = SetField(o, "mu", w)
    BY <1>3, <2>1 DEF SetPrior, SetMu
  <2> QED BY <1>1, <1>2, <2>2, SetFieldProper, UnchangedProper
<1>4. CASE p = "Sigma"
  <2>1. v \in Matrices \union {Null}
    BY <1>2, <1>4 DEF OrNull
  <2>2. IsFactor(o.val["Sigma"])
    BY DEF Proper, HasFactor
  <2>3. PICK w : IsFactor(w) /\ SetPrior(K, o, p, v) = SetField(o, "Sigma", w)
    <3> DEFINE half == o.val["Sigma"]
    <3>1. SetPrior(K, o, p, v) = SetSigma(o, v)
      BY <1>4 DEF SetPrior
    <3>2. CASE v = Null
      BY <3>1, <3>2 DEF SetSigma, IsFactor
    <3>3. CASE v # Null /\ half # Null /\ SizeOf(half.of) # SizeOf(v)
      <4>1. half \in [of : Matrices, times : {1, 2}]
        BY <2>2, <3>3 DEF IsFactor
      <4>2. [half EXCEPT !.times = 2] \in [of : Matrices, times : {1, 2}]
        BY <4>1
      <4> QED BY <3>1, <3>3, <4>2 DEF SetSigma, IsFactor
    <3>4. CASE v # Null /\ ~(half # Null /\ SizeOf(half.of) # SizeOf(v))
      <4>1. Cholesky(v) \in [of : Matrices, times : {1, 2}]
        BY <2>1, <3>4 DEF Cholesky
      <4>2. SetSigma(o, v) = SetField(o, "Sigma", Cholesky(v))
        BY <3>4 DEF SetSigma
      <4> QED BY <3>1, <4>1, <4>2 DEF IsFactor
    <3> QED BY <3>2, <3>3, <3>4
  <2>4. w \notin Things
    <3>1. w \in Made \union {Null}
      BY <2>3 DEF IsFactor, Made
    <3> QED BY <3>1, ValuesAssumption, NullIsNone
  <2> QED BY <1>1, <1>2, <2>3, <2>4, SetFieldProper
<1>5. CASE p = "Dprior"
  <2>1. v \in Vectors \union {Null} /\ SetPrior(K, o, p, v) = SetDprior(o, v)
    BY <1>2, <1>5 DEF OrNull, SetPrior
  <2>2. IsFiniteSet(FieldsOf(c)) /\ HoldersOf(c) \in SUBSET FieldsOf(c) /\ "Dprior" \in HoldersOf(c)
    BY <1>1, <1>2, FieldsFinite
  <2> DEFINE q == SetDprior(o, v)
  <2>3. Assigns(FieldsOf(c), HoldersOf(c), others, o, q, "Dprior", v)
    BY <2>1, <2>2, DpriorSound DEF Proper
  <2> HIDE DEF q
  <2>4. Proper(c, q, others) /\ SetsOnly(c, o, q)
    BY <1>1, <1>2, <2>3, OneFieldProper
  <2> QED BY <2>1, <2>4 DEF q
<1>6. CASE p \notin {"mu", "Sigma", "Dprior"}
  <2>1. SetPrior(K, o, p, v) = Set(K, o, p, v)
    BY <1>6 DEF SetPrior
  <2> QED BY <1>1, <1>2, <1>6, <2>1, SetPlainProper
<1> QED BY <1>3, <1>4, <1>5, <1>6

(* The quotas and the strata of an a-stratified algorithm.                 *)
LEMMA SetAstratProper ==
    ASSUME NEW others \in Tally, NEW o, Proper("astrat", o, others),
           NEW p \in DOMAIN Astrat, NEW v \in Astrat[p].range \union {Astrat[p].first}
    PROVE  /\ Proper("astrat", AstratSet(o, p, v), others)
           /\ SetsOnly("astrat", o, AstratSet(o, p, v))
<1> DEFINE q == AstratSet(o, p, v)
<1>1. "astrat" \in DOMAIN Classes /\ Classes["astrat"] = Astrat
  BY ClassNames DEF Algorithms
<1>2. /\ {"Nstrata", "Nitems"} \subseteq DOMAIN Astrat
      /\ DOMAIN Astrat \intersect {"covariates", "Dprior", "Sigma"} = {}
      /\ Astrat["Nstrata"].kind = "value" /\ Astrat["Nitems"].kind = "value"
      /\ Astrat["Nitems"].range \union {Astrat["Nitems"].first} = OrNull(Quotas)
  BY DEF Astrat, Construct, Plain, OrNull
<1>3. CASE q = o
  BY <1>3, UnchangedProper
<1>4. CASE p = "Nstrata" /\ q # o
  <2>1. q = SetField(o, p, v) /\ v \notin Things
    BY <1>1, <1>2, <1>4, PlainField DEF AstratSet
  <2> QED BY <1>1, <1>2, <1>4, <2>1, SetFieldProper
<1>5. CASE p = "Nitems" /\ q # o
  <2>1. q = [o EXCEPT !.val["Nstrata"] = Len(v), !.val["Nitems"] = v] /\ v # Null
    BY <1>5 DEF AstratSet
  <2>2. v \in Quotas /\ Len(v) \in Nat /\ v \notin Things /\ Len(v) \notin Things
    <3>1. v \in Quotas
      BY <1>2, <1>5, <2>1 DEF OrNull
    <3>2. Len(v) \in Nat /\ Len(v) \notin Things
      BY <3>1, ValuesAssumption DEF Made
    <3> QED BY <1>1, <1>2, <1>5, <3>1, <3>2, PlainField
  <2> DEFINE between == SetField(o, "Nstrata", Len(v))
  <2>3. Proper("astrat", between, others) /\ SetsOnly("astrat", o, between)
    BY <1>1, <1>2, <2>2, SetFieldProper
  <2>4. q = SetField(between, "Nitems", v)
    <3>1. IsObject(o) /\ DOMAIN o.val = FieldsOf("astrat")
      BY DEF Proper, Sound, HasFields
    <3> QED BY <2>1, <3>1 DEF SetField, IsObject
  <2> HIDE DEF between
  <2>5. Proper("astrat", q, others) /\ SetsOnly("astrat", between, q)
    BY <1>1, <1>2, <2>2, <2>3, <2>4, SetFieldProper
  <2> QED BY <2>3, <2>5 DEF SetsOnly, Same
<1>6. CASE p \notin {"Nstrata", "Nitems"}
  <2>1. q = Set(Astrat, o, p, v)
    BY <1>6 DEF AstratSet
  <2> QED BY <1>1, <1>2, <2>1, SetPlainProper
<1> QED BY <1>3, <1>4, <1>5, <1>6

(* The dimensions of a latent space.                                       *)
LEMMA SetSpaceProper ==
    ASSUME NEW others \in Tally, NEW o, Proper("space", o, others),
           NEW p \in DOMAIN Space, NEW v \in Space[p].range \union {Space[p].first}
    PROVE  /\ Proper("space", SpaceSet(o, p, v), others)
           /\ SetsOnly("space", o, SpaceSet(o, p, v))
           /\ SpaceSet(o, p, v).val["numNat"] = IF p = "numNat" THEN v ELSE o.val["numNat"]
<1> DEFINE q == SpaceSet(o, p, v)
<1>1. "space" \in DOMAIN Classes /\ Classes["space"] = Space
  BY ClassNames
<1>2. /\ {"max", "numNat"} \subseteq DOMAIN Space
      /\ DOMAIN Space \intersect {"covariates", "Dprior", "Sigma"} = {}
      /\ Space["max"].kind = "value" /\ Space["numNat"].kind = "value"
  BY DEF Space, ConstructOnly, Plain
<1>0. DOMAIN o.val = FieldsOf("space") /\ {"max", "numNat"} \subseteq FieldsOf("space")
  BY <1>1, <1>2 DEF Proper, Sound, HasFields, FieldsOf
<1>3. CASE p = "max"
  <2>1. v \notin Things /\ (q = o \/ q = SetField(o, p, v))
    BY <1>1, <1>2, <1>3, PlainField DEF SpaceSet
  <2>2. "val" \in DOMAIN o
    BY DEF Proper, Sound, IsObject
  <2>3. q.val["numNat"] = o.val["numNat"]
    BY <1>0, <1>3, <2>1, <2>2 DEF SetField
  <2>4. /\ Proper("space", SetField(o, p, v), others)
        /\ SetsOnly("space", o, SetField(o, p, v))
    BY <1>1, <1>2, <1>3, <2>1, SetFieldProper
  <2> HIDE DEF q
  <2>5. Proper("space", q, others) /\ SetsOnly("space", o, q)
    BY <2>1, <2>4, UnchangedProper
  <2> QED BY <1>3, <2>3, <2>5 DEF q
<1>4. CASE p # "max"
  <2>1. q = Set(Space, o, p, v)
    BY <1>4 DEF SpaceSet
  <2>2. q.val = [o.val EXCEPT ![p] = Stored(Space, p, v)]
    BY <1>1, <1>2, <2>1, PlainSetSound DEF Proper, Assigns
  <2>3. q.val["numNat"] = IF p = "numNat" THEN v ELSE o.val["numNat"]
    BY <1>0, <1>2, <2>2 DEF Stored
  <2> QED BY <1>1, <1>2, <2>1, <2>3, SetPlainProper
<1> QED BY <1>3, <1>4

(* The properties of a model; the covariates it is given are copied.       *)
LEMMA SetModelProper ==
    ASSUME NEW c \in ModelClasses, NEW others \in Tally, NEW o, Proper(c, o, others),
           NEW p \in DOMAIN Classes[c],
           NEW v \in Classes[c][p].range \union {Classes[c][p].first}
    PROVE  /\ Proper(c, ModelSet(Classes[c], o, p, v), others)
           /\ SetsOnly(c, o, ModelSet(Classes[c], o, p, v))
<1> DEFINE K == Classes[c]
           q == ModelSet(K, o, p, v)
<1>1. c \in DOMAIN Classes /\ K = WithCategories(Model)
  BY ClassNames
<1>2. /\ DOMAIN K = ModelFields
      /\ K["covariates"].kind = "value" /\ K["covariates"].range = OrNull(Covariates)
      /\ K["covariates"].first = Null
      /\ K["Ncat"] = Ncat
  BY <1>1, ModelDeclared
<1>3. CASE p = "Ncat"
  <2>1. q = SetField(o, p, v - 1)
    BY <1>3 DEF ModelSet
  <2>2. Ncat.kind = "value" /\ v \in AtLeast(3) \union {3}
    BY <1>2, <1>3 DEF Ncat, ConstructOnly
  <2>3. v - 1 \notin Things
    <3>1. v \in Nat /\ v >= 3
      BY <2>2, ValuesAssumption DEF AtLeast
    <3>2. v - 1 \in Nat
      BY <3>1
    <3> QED BY <3>2, ValuesAssumption DEF Made
  <2> QED BY <1>1, <1>2, <1>3, <2>1, <2>2, <2>3, SetFieldProper
<1>4. CASE p = "covariates"
  <2>1. q = o \/ (v # Null /\ q = SetField(o, p, CopyOf(v)))
    BY <1>4 DEF ModelSet
  <2>2. CASE v # Null /\ q = SetField(o, p, CopyOf(v))
    <3>1. v \in Covariates
      BY <1>2, <1>4, <2>2 DEF OrNull
    <3>2. CopyOf(v) \notin Things
      BY <3>1, ValuesAssumption DEF Made
    <3> QED BY <1>1, <1>2, <1>4, <2>2, <3>2, SetFieldProper
  <2> QED BY <2>1, <2>2, UnchangedProper
<1>5. CASE p \notin {"Ncat", "covariates"}
  <2>1. q = Set(K, o, p, v)
    BY <1>5 DEF ModelSet
  <2> QED BY <1>1, <1>2, <1>5, <2>1, SetPlainProper DEF ModelFields
<1> QED BY <1>3, <1>4, <1>5

(* The references to the object itself are as they were.                   *)
SameCounts(o, q) == q.count = o.count /\ q.handlers = o.handlers /\ q.floating = o.floating

(* A test freezes its own bank only.                                       *)
FreezesOwn(c, o) == c = "test" => o.frozen = {o.val["itembank"]} \ {Null}

(* What setting a property does to an object of any class.                 *)
SetsProperty(c, o, q, p, v) ==
    /\ SameCounts(o, q)
    /\ \A f \in Private(c) : q.val[f] = o.val[f]
    /\ c = "space" => q.val["numNat"] = IF p = "numNat" THEN v ELSE o.val["numNat"]
    /\ c = "test" /\ p # "itembank" => q.val["itembank"] = o.val["itembank"]

(* The bank of a test is referred to and frozen when it is given.          *)
LEMMA SetTestProper ==
    ASSUME NEW others \in Tally, NEW o, Proper("test", o, others), FreezesOwn("test", o),
           NEW p \in DOMAIN Test, p = "itembank" => o.val["itembank"] = Null,
           NEW v \in Test[p].range \union {Test[p].first}
    PROVE  /\ Proper("test", TestSet(o, p, v), others) /\ FreezesOwn("test", TestSet(o, p, v))
           /\ SetsProperty("test", o, TestSet(o, p, v), p, v)
<1> DEFINE r == Set(Test, o, p, v)
           q == TestSet(o, p, v)
<1>1. "test" \in DOMAIN Classes /\ Classes["test"] = Test
  BY ClassNames
<1>2. DOMAIN Test = {"id", "itembank", "length_hint", "itermax_select", "itermax_items"}
      /\ Test["itembank"].kind = "object"
  BY DEF Test, ConstructOnly
<1>3. Assigns(FieldsOf("test"), HoldersOf("test"), others, o, r, p, Stored(Test, p, v))
  BY <1>1, <1>2, PlainSetSound DEF Proper
<1>4. Proper("test", r, others) /\ SetsOnly("test", o, r)
  BY <1>1, <1>2, <1>3, OneFieldProper
<1>5. DOMAIN o.val = FieldsOf("test") /\ p \in FieldsOf("test") /\ "itembank" \in FieldsOf("test")
  BY <1>1, <1>2 DEF Proper, Sound, HasFields, FieldsOf
<1>6. r.val["itembank"] = IF p = "itembank" THEN v ELSE o.val["itembank"]
  BY <1>2, <1>3, <1>5 DEF Assigns, Stored
<1>7. IsObject(r)
  BY <1>4 DEF Proper, Sound
<1>8. CASE p = "itembank" /\ v # Null
  <2>1. q = [r EXCEPT !.frozen = @ \union {v}]
    BY <1>8 DEF TestSet
  <2> HIDE DEF r, q
  <2>2. /\ IsObject(q) /\ q.val = r.val /\ q.refs = r.refs /\ q.listed = r.listed
        /\ SameCounts(r, q) /\ q.frozen = r.frozen \union {v}
    BY <1>7, <2>1 DEF IsObject, SameCounts
  <2>3. Sound(FieldsOf("test"), HoldersOf("test"), q, others)
    BY <1>4, <2>2, RestMoves DEF Proper
  <2>4. r.frozen = {}
    BY <1>4, <1>8 DEF FreezesOwn, SetsOnly, Same
  <2>5. FreezesOwn("test", q)
    BY <1>6, <1>8, <2>2, <2>4 DEF FreezesOwn
  <2> QED BY <1>4, <1>8, <2>2, <2>3, <2>5 DEF Proper, HasFactor, SetsProperty, SetsOnly, Same, SameCounts, q
<1>9. CASE ~(p = "itembank" /\ v # Null)
  <2>1. q = r
    BY <1>9 DEF TestSet
  <2> HIDE DEF r, q
  <2>2. FreezesOwn("test", r)
    <3>1. r.frozen = o.frozen
      BY <1>4 DEF SetsOnly, Same
    <3> QED BY <1>6, <1>9, <3>1 DEF FreezesOwn
  <2> QED BY <1>4, <1>6, <2>1, <2>2 DEF SetsProperty, SetsOnly, Same, SameCounts, q
<1> QED BY <1>8, <1>9

(* The classes with the usual setter.                                      *)
LEMMA UsualProperties ==
    ASSUME NEW c \in DOMAIN Classes,
           c \notin {"max_kl", "estimate", "astrat", "test", "space"} \union ModelClasses
    PROVE  /\ DOMAIN Classes[c] \intersect {"Dprior", "Sigma"} = {}
           /\ \A p \in DOMAIN Classes[c] : p = "covariates" => Classes[c][p].kind = "object"
<1>1. /\ DOMAIN FixedLength \intersect {"Dprior", "Sigma", "covariates"} = {}
      /\ DOMAIN Simulate \intersect {"Dprior", "Sigma", "covariates"} = {}
      /\ DOMAIN ClassRates \intersect {"Dprior", "Sigma", "covariates"} = {}
      /\ DOMAIN <<>> \intersect {"Dprior", "Sigma", "covariates"} = {}
  BY DEF FixedLength, Simulate, ClassRates
<1>2. /\ DOMAIN Chooser \intersect {"Dprior", "Sigma", "covariates"} = {}
      /\ DOMAIN ClosestDiff \intersect {"Dprior", "Sigma", "covariates"} = {}
      /\ DOMAIN MaxFisher \intersect {"Dprior", "Sigma", "covariates"} = {}
      /\ DOMAIN Stratify \intersect {"Dprior", "Sigma", "covariates"} = {}
  BY DEF Chooser, ClosestDiff, MaxFisher, Stratify
<1>3. /\ DOMAIN Administrand \intersect {"Dprior", "Sigma", "covariates"} = {}
      /\ DOMAIN ItemBank \intersect {"Dprior", "Sigma", "covariates"} = {}
      /\ DOMAIN Point \intersect {"Dprior", "Sigma", "covariates"} = {}
  BY DEF Administrand, ItemBank, Point
<1>4. DOMAIN Examinee = {"id", "covariates"} /\ Examinee["covariates"].kind = "object"
  BY DEF Examinee, Plain
<1>5. c \in {"fixed_length", "simulate", "class_rates", "pick_rand", "exposure_counter",
             "closest_diff", "max_fisher", "chooser", "stratify", "examinee", "item",
             "item_bank", "point"}
  BY ClassNames DEF Algorithms
<1>6. CASE c = "examinee"
  BY <1>4, <1>6, ClassNames
<1>7. CASE c # "examinee"
  <2>1. DOMAIN Classes[c] \intersect {"Dprior", "Sigma", "covariates"} = {}
    BY <1>1, <1>2, <1>3, <1>5, <1>7, ClassNames
  <2> QED BY <2>1
<1> QED BY <1>6, <1>7

(* Every setter.                                                           *)
LEMMA SetOfProper ==
    ASSUME NEW c \in DOMAIN Classes, NEW others \in Tally, NEW o, Proper(c, o, others),
           FreezesOwn(c, o),
           NEW p \in DOMAIN Classes[c], c = "test" /\ p = "itembank" => o.val["itembank"] = Null,
           NEW v \in Classes[c][p].range \union {Classes[c][p].first}
    PROVE  /\ Proper(c, SetOf(c, o, p, v), others) /\ FreezesOwn(c, SetOf(c, o, p, v))
           /\ SetsProperty(c, o, SetOf(c, o, p, v), p, v)
<1> DEFINE q == SetOf(c, o, p, v)
<1>1. CASE c = "test"
  <2>1. q = TestSet(o, p, v) /\ Classes[c] = Test
    BY <1>1, ClassNames DEF SetOf, ModelClasses
  <2> QED BY <1>1, <2>1, SetTestProper
<1>2. ASSUME c # "test", c # "space", Proper(c, q, others), SetsOnly(c, o, q)
      PROVE  Proper(c, q, others) /\ FreezesOwn(c, q) /\ SetsProperty(c, o, q, p, v)
  BY <1>2 DEF FreezesOwn, SetsProperty, SetsOnly, Same, SameCounts
<1>3. CASE c = "space"
  <2>1. q = SpaceSet(o, p, v) /\ Classes[c] = Space
    BY <1>3, ClassNames DEF SetOf, ModelClasses
  <2>2. /\ Proper("space", q, others) /\ SetsOnly("space", o, q)
        /\ q.val["numNat"] = IF p = "numNat" THEN v ELSE o.val["numNat"]
    BY <1>3, <2>1, SetSpaceProper
  <2> HIDE DEF q
  <2> QED BY <1>3, <2>2 DEF FreezesOwn, SetsProperty, SetsOnly, Same, SameCounts, q
<1>4. CASE c \in {"max_kl", "estimate"}
  <2>1. q = SetPrior(Classes[c], o, p, v)
    BY <1>4, ClassNames DEF SetOf, MaxKlSet, EstimateSet, ModelClasses
  <2>2. Proper(c, q, others) /\ SetsOnly(c, o, q)
    BY <1>4, <2>1, SetPriorProper
  <2> QED BY <1>2, <1>4, <2>2
<1>5. CASE c = "astrat"
  <2>1. q = AstratSet(o, p, v) /\ Classes[c] = Astrat
    BY <1>5, ClassNames DEF SetOf, ModelClasses
  <2>2. Proper(c, q, others) /\ SetsOnly(c, o, q)
    BY <1>5, <2>1, SetAstratProper
  <2> QED BY <1>2, <1>5, <2>2
<1>6. CASE c \in ModelClasses
  <2>1. q = ModelSet(Classes[c], o, p, v)
    BY <1>6 DEF SetOf, ModelClasses
  <2>2. Proper(c, q, others) /\ SetsOnly(c, o, q)
    BY <1>6, <2>1, SetModelProper
  <2> QED BY <1>2, <1>6, <2>2 DEF ModelClasses
<1>7. CASE c \notin {"max_kl", "estimate", "astrat", "test", "space"} \union ModelClasses
  <2>1. q = Set(Classes[c], o, p, v)
    BY <1>7 DEF SetOf
  <2>2. /\ p \notin {"Dprior", "Sigma"}
        /\ p = "covariates" => Classes[c][p].kind = "object"
    BY <1>7, UsualProperties
  <2>3. Proper(c, q, others) /\ SetsOnly(c, o, q)
    BY <2>1, <2>2, SetPlainProper
  <2> QED BY <1>2, <1>7, <2>3
<1> QED BY <1>1, <1>3, <1>4, <1>5, <1>6, <1>7

(* g_object_new calls the constructor when all the properties are set.     *)
LEMMA ConstructedProper ==
    ASSUME NEW c \in DOMAIN Classes, NEW others \in Tally, NEW o, Proper(c, o, others),
           c = "space" => o.val["numNat"] \in Counts \union {0}
    PROVE  Proper(c, ConstructedOf(c, o), others) /\ SetsOnly(c, o, ConstructedOf(c, o))
<1>1. CASE c = "space"
  <2> DEFINE w == [i \in 1 .. o.val["numNat"] |-> 2]
  <2>1. ConstructedOf(c, o) = SetField(o, "max", w)
    BY <1>1 DEF ConstructedOf, SpaceConstructed, ModelClasses
  <2>2. w \notin Things
    BY <1>1, ValuesAssumption DEF Made
  <2>3. "max" \in DOMAIN Classes[c] /\ Classes[c]["max"].kind = "value"
    BY <1>1, ClassNames DEF Space, Plain
  <2> HIDE DEF w
  <2> QED BY <2>1, <2>2, <2>3, SetFieldProper
<1>2. CASE c \in ModelClasses
  <2>1. \/ ConstructedOf(c, o) = o
        \/ ConstructedOf(c, o) = SetField(o, "dims", <<"none">>)
        \/ ConstructedOf(c, o) = SetField(o, "dims", <<FirstDim>>)
    BY <1>2 DEF ConstructedOf, ModelConstructed, ModelClasses
  <2>2. <<"none">> \notin Things /\ <<FirstDim>> \notin Things
    BY ValuesAssumption DEF Made
  <2>3. "dims" \in DOMAIN Classes[c] /\ Classes[c]["dims"].kind = "value"
    BY <1>2, ClassNames, ModelDeclared DEF ModelFields
  <2> QED BY <2>1, <2>2, <2>3, SetFieldProper, UnchangedProper
<1>3. CASE c # "space" /\ c \notin ModelClasses
  <2>1. ConstructedOf(c, o) = o
    BY <1>3 DEF ConstructedOf
  <2> QED BY <2>1, UnchangedProper
<1> QED BY <1>1, <1>2, <1>3

(* A connection counts a handler.                                          *)
LEMMA ConnectProper ==
    ASSUME NEW c, NEW others, NEW o, Proper(c, o, others)
    PROVE  /\ Proper(c, Connect(o), others)
           /\ Connect(o).count = o.count /\ Connect(o).handlers = o.handlers + 1
           /\ Connect(o).floating = o.floating
<1>1. IsObject(o) /\ Sound(FieldsOf(c), HoldersOf(c), Connect(o), others) /\ Connect(o).val = o.val
  BY CountsSound DEF Proper, Sound
<1>2. Proper(c, Connect(o), others)
  BY <1>1 DEF Proper, HasFactor
<1> QED BY <1>1, <1>2 DEF Connect, IsObject

(* A reference that an algorithm takes to itself counts it.                *)
LEMMA GRefProper ==
    ASSUME NEW c, NEW others, NEW o, Proper(c, o, others)
    PROVE  /\ Proper(c, GRef(o), others)
           /\ GRef(o).count = o.count + 1 /\ GRef(o).handlers = o.handlers
           /\ GRef(o).floating = o.floating
<1>1. IsObject(o) /\ Sound(FieldsOf(c), HoldersOf(c), GRef(o), others) /\ GRef(o).val = o.val
  BY CountsSound DEF Proper, Sound
<1>2. Proper(c, GRef(o), others)
  BY <1>1 DEF Proper, HasFactor
<1> QED BY <1>1, <1>2 DEF GRef, IsObject

(* Somebody sinks the floating reference or takes another.                 *)
LEMMA RefSinkProper ==
    ASSUME NEW c, NEW others, NEW o, Proper(c, o, others), o.floating \in BOOLEAN
    PROVE  /\ Proper(c, RefSink(o), others) /\ RefSink(o).val = o.val
           /\ RefSink(o).count = IF o.floating THEN o.count ELSE o.count + 1
           /\ RefSink(o).handlers = o.handlers /\ RefSink(o).floating = FALSE
           /\ RefSink(o).frozen = o.frozen
<1>1. /\ IsObject(o) /\ Sound(FieldsOf(c), HoldersOf(c), RefSink(o), others)
      /\ RefSink(o).val = o.val
  BY CountsSound DEF Proper, Sound
<1>2. Proper(c, RefSink(o), others)
  BY <1>1 DEF Proper, HasFactor
<1>3. /\ RefSink(o).count = IF o.floating THEN o.count ELSE o.count + 1
      /\ RefSink(o).handlers = o.handlers /\ RefSink(o).floating = FALSE
      /\ RefSink(o).frozen = o.frozen
  BY <1>1 DEF RefSink, GRef, IsObject
<1> QED BY <1>1, <1>2, <1>3

(* The algorithm takes the bank of the test, which it does not have yet.   *)
LEMMA TakeBankProper ==
    ASSUME NEW c \in DOMAIN Classes, NEW others \in Tally, NEW o, Proper(c, o, others),
           NEW f \in BankFields \intersect Private(c), o.val[f] = Null
    PROVE  Proper(c, Taken(o, f, TestBank), others) /\ Same(o, Taken(o, f, TestBank))
<1> DEFINE D == FieldsOf(c)
           H == HoldersOf(c)
           q == Taken(o, f, TestBank)
<1>1. IsFiniteSet(D) /\ H \in SUBSET D /\ f \in H /\ Sound(D, H, o, others) /\ DOMAIN o.val = D
  BY FieldsFinite DEF HoldersOf, Proper, Sound, HasFields
<1>2. f # "Dprior" /\ f # "Sigma" /\ TestBank \in Things
  BY ObjectsAreThings DEF BankFields
<1>3. Assigns(D, H, others, o, q, f, TestBank)
  <2> HIDE DEF D, H
  <2> QED BY <1>1, <1>2, TakenSound
<1>4. HasFactor(c, q)
  <2> SUFFICES ASSUME c \in {"max_kl", "estimate"} PROVE IsFactor(q.val["Sigma"])
    BY DEF HasFactor
  <2>1. "Sigma" \in D
    BY ClassNames DEF MaxKl, Estimate, FieldsOf
  <2>2. q.val["Sigma"] = o.val["Sigma"]
    BY <1>1, <1>2, <1>3, <2>1 DEF Assigns
  <2> QED BY <2>2 DEF Proper, HasFactor
<1> QED BY <1>3, <1>4 DEF Assigns, Proper

(* What a registration does: each connection comes with one reference, the *)
(* first with the one that was sunk.                                       *)
Registers(c, others, o, q) ==
    /\ Proper(c, q, others) /\ q.floating = o.floating
    /\ \E n \in Nat : q.handlers = o.handlers + n + 1 /\ q.count = o.count + n

(* Registration takes the bank once, and all its connections but one take  *)
(* a reference.                                                            *)
LEMMA RegisterProper ==
    ASSUME NEW c \in Algorithms, NEW others \in Tally, NEW o, Proper(c, o, others),
           o.count \in Nat, o.handlers = 0,
           \A f \in BankFields \intersect Private(c) : o.val[f] = Null
    PROVE  Registers(c, others, o, RegisterOf(c, o))
<1> DEFINE q == RegisterOf(c, o)
<1>0. c \in DOMAIN Classes
  BY ClassNames
<1>1. ASSUME NEW r, Proper(c, r, others), Same(o, r)
      PROVE  /\ Registers(c, others, o, Connect(r))
             /\ Registers(c, others, o, GRef(Connect(Connect(r))))
             /\ Registers(c, others, o, Connect(GRef(Connect(r))))
  <2>1. /\ Proper(c, Connect(r), others) /\ Connect(r).count = o.count
        /\ Connect(r).handlers = 1 /\ Connect(r).floating = o.floating
    BY <1>1, ConnectProper DEF Same
  <2>2. /\ Proper(c, Connect(Connect(r)), others) /\ Connect(Connect(r)).count = o.count
        /\ Connect(Connect(r)).handlers = 2 /\ Connect(Connect(r)).floating = o.floating
    BY <2>1, ConnectProper
  <2>3. /\ Proper(c, GRef(Connect(Connect(r))), others)
        /\ GRef(Connect(Connect(r))).count = o.count + 1
        /\ GRef(Connect(Connect(r))).handlers = 2
        /\ GRef(Connect(Connect(r))).floating = o.floating
    BY <2>2, GRefProper
  <2>4. /\ Proper(c, GRef(Connect(r)), others) /\ GRef(Connect(r)).count = o.count + 1
        /\ GRef(Connect(r)).handlers = 1 /\ GRef(Connect(r)).floating = o.floating
    BY <2>1, GRefProper
  <2>5. /\ Proper(c, Connect(GRef(Connect(r))), others)
        /\ Connect(GRef(Connect(r))).count = o.count + 1
        /\ Connect(GRef(Connect(r))).handlers = 2
        /\ Connect(GRef(Connect(r))).floating = o.floating
    BY <2>4, ConnectProper
  <2>6. o.handlers + 0 + 1 = 1 /\ o.count + 0 = o.count /\ o.handlers + 1 + 1 = 2
    OBVIOUS
  <2>7. Registers(c, others, o, Connect(r))
    BY <2>1, <2>6 DEF Registers
  <2>8. Registers(c, others, o, GRef(Connect(Connect(r))))
    BY <2>3, <2>6 DEF Registers
  <2>9. Registers(c, others, o, Connect(GRef(Connect(r))))
    BY <2>5, <2>6 DEF Registers
  <2> QED BY <2>7, <2>8, <2>9
<1>2. Same(o, o)
  BY DEF Same
<1>3. ASSUME NEW f \in BankFields \intersect Private(c)
      PROVE  Proper(c, Taken(o, f, TestBank), others) /\ Same(o, Taken(o, f, TestBank))
  BY <1>0, TakeBankProper
<1>4. CASE c \in {"fixed_length", "simulate", "class_rates", "pick_rand", "estimate"}
  <2>1. q = Connect(o)
    BY <1>4 DEF RegisterOf, FixedLengthRegister, SimulateRegister, ClassRatesRegister,
                PickRandRegister, EstimateRegister
  <2> QED BY <1>1, <1>2, <2>1
<1>5. CASE c = "exposure_counter"
  <2>1. q = GRef(Connect(Connect(o)))
    BY <1>5 DEF RegisterOf, ExposureCounterRegister
  <2> QED BY <1>1, <1>2, <2>1
<1>6. CASE c = "closest_diff"
  <2>1. q = Connect(Taken(o, "chooser.bank", TestBank))
    BY <1>6 DEF RegisterOf, ClosestDiffRegister, TakeBank
  <2>2. "chooser.bank" \in BankFields \intersect Private(c)
    BY <1>6 DEF BankFields, Private
  <2> QED BY <1>1, <1>3, <2>1, <2>2
<1>7. CASE c \in {"max_fisher", "max_kl"}
  <2>1. q = GRef(Connect(Connect(Taken(o, "chooser.bank", TestBank))))
    BY <1>7 DEF RegisterOf, MaxFisherRegister, MaxKlRegister, TakeBank
  <2>2. "chooser.bank" \in BankFields \intersect Private(c)
    BY <1>7 DEF BankFields, Private
  <2> QED BY <1>1, <1>3, <2>1, <2>2
<1>8. CASE c = "astrat"
  <2>1. q = Connect(GRef(Connect(Taken(o, "stratify.bank", TestBank))))
    BY <1>8 DEF RegisterOf, AstratRegister
  <2>2. "stratify.bank" \in BankFields \intersect Private(c)
    BY <1>8 DEF BankFields, Private
  <2> QED BY <1>1, <1>3, <2>1, <2>2
<1> QED BY <1>4, <1>5, <1>6, <1>7, <1>8 DEF Algorithms

-----------------------------------------------------------------------------
(* What only gives up references.                                          *)
GivesUp(c, others, o, q) ==
    /\ Proper(c, q, others) /\ Same(o, q)
    /\ \A f \in FieldsOf(c) : q.val[f] \in {o.val[f], Null}

(* g_clear_object gives up the object of a field.                          *)
LEMMA ClearedGivesUp ==
    ASSUME NEW c \in DOMAIN Classes, NEW others \in Tally, NEW o, Proper(c, o, others),
           NEW f \in HoldersOf(c)
    PROVE  GivesUp(c, others, o, Cleared(o, f)) /\ Cleared(o, f).val[f] = Null
<1> DEFINE D == FieldsOf(c)
           H == HoldersOf(c)
           q == Cleared(o, f)
<1>1. IsFiniteSet(D) /\ H \in SUBSET D /\ f \in H /\ Sound(D, H, o, others) /\ DOMAIN o.val = D
  BY FieldsFinite DEF Proper, Sound, HasFields
<1>2. Assigns(D, H, others, o, q, f, Null)
  <2> HIDE DEF D, H
  <2> QED BY <1>1, ClearedSound
<1>3. /\ q.val[f] = Null /\ \A g \in D : q.val[g] \in {o.val[g], Null}
      /\ Sound(D, H, q, others) /\ Same(o, q)
  BY <1>1, <1>2 DEF Assigns
<1>4. HasFactor(c, q)
  <2> SUFFICES ASSUME c \in {"max_kl", "estimate"} PROVE IsFactor(q.val["Sigma"])
    BY DEF HasFactor
  <2>1. "Sigma" \in D
    BY ClassNames DEF MaxKl, Estimate, FieldsOf
  <2> QED BY <1>3, <2>1 DEF Proper, HasFactor, IsFactor
<1> QED BY <1>3, <1>4 DEF GivesUp, Proper

(* Emptying the array gives up the items it lists.                         *)
LEMMA ListEmptiedGivesUp ==
    ASSUME NEW c \in DOMAIN Classes, NEW others \in Tally, NEW o, Proper(c, o, others)
    PROVE  GivesUp(c, others, o, ListEmptied(o))
<1> DEFINE D == FieldsOf(c)
           H == HoldersOf(c)
<1>1. IsFiniteSet(D) /\ Sound(D, H, o, others)
  BY FieldsFinite DEF Proper
<1>2. /\ Sound(D, H, ListEmptied(o), others) /\ Same(o, ListEmptied(o))
      /\ ListEmptied(o).val = o.val
  <2> HIDE DEF D, H
  <2> QED BY <1>1, ListEmptiedSound
<1> QED BY <1>2 DEF GivesUp, Proper, HasFactor

(* What gives up something after something else gives up both.             *)
LEMMA GivesUpMore ==
    ASSUME NEW c, NEW others, NEW o, NEW q, NEW r,
           GivesUp(c, others, o, q), GivesUp(c, others, q, r)
    PROVE  GivesUp(c, others, o, r)
  BY DEF GivesUp, Same

(* Giving up nothing, or crashing, takes no reference.                     *)
LEMMA KeepsGivesUp ==
    ASSUME NEW c, NEW others, NEW o, Proper(c, o, others)
    PROVE  GivesUp(c, others, o, o) /\ GivesUp(c, others, o, Crash(o))
<1>1. Proper(c, Crash(o), others) /\ Same(o, Crash(o)) /\ Crash(o).val = o.val
  BY UnchangedProper, CountsSound DEF SetsOnly, Proper
<1> QED BY <1>1 DEF GivesUp, Same

(* The fields that the destructors clear.                                  *)
LEMMA HoldersHave ==
    /\ "itembank" \in HoldersOf("chooser") /\ "itembank" \in HoldersOf("stratify")
    /\ "itembank" \in HoldersOf("test") /\ "space" \in HoldersOf("point")
    /\ "chooser.bank" \in HoldersOf("closest_diff") /\ "chooser.bank" \in HoldersOf("max_fisher")
    /\ {"chooser.bank", "space", "theta.space", "Dprior"} \subseteq HoldersOf("max_kl")
    /\ "Dprior" \in HoldersOf("estimate") /\ "stratify.bank" \in HoldersOf("astrat")
    /\ {"simDefault", "estDefault", "covariates"} \subseteq HoldersOf("examinee")
    /\ {"default", "other"} \subseteq HoldersOf("item")
    /\ \A c \in ModelClasses : "space" \in HoldersOf(c)
<1>1. "itembank" \in HoldersOf("chooser") /\ "itembank" \in HoldersOf("stratify")
  BY ClassNames DEF HoldersOf, Chooser, Stratify, Plain, ConstructOnly
<1>2. "itembank" \in HoldersOf("test") /\ "space" \in HoldersOf("point")
  BY ClassNames DEF HoldersOf, Test, Point, ConstructOnly
<1>3. /\ "chooser.bank" \in HoldersOf("closest_diff") /\ "chooser.bank" \in HoldersOf("max_fisher")
      /\ {"chooser.bank", "space", "theta.space"} \subseteq HoldersOf("max_kl")
      /\ "stratify.bank" \in HoldersOf("astrat")
      /\ {"simDefault", "estDefault"} \subseteq HoldersOf("examinee")
      /\ {"default", "other"} \subseteq HoldersOf("item")
  BY DEF HoldersOf, Private
<1>4. "Dprior" \in HoldersOf("max_kl")
  BY ClassNames DEF HoldersOf, MaxKl, Plain
<1>5. "Dprior" \in HoldersOf("estimate")
  BY ClassNames DEF HoldersOf, Estimate, Plain
<1>6. "covariates" \in HoldersOf("examinee")
  BY ClassNames DEF HoldersOf, Examinee, Plain
<1>7. \A c \in ModelClasses : "space" \in HoldersOf(c)
  BY ClassNames, ModelDeclared DEF HoldersOf, ModelFields
<1> QED BY <1>1, <1>2, <1>3, <1>4, <1>5, <1>6, <1>7

(* What a destructor does: an object may crash in it, and a test thaws its *)
(* bank.                                                                   *)
Disposes(c, others, o, q) ==
    /\ Proper(c, q, others) /\ SameCounts(o, q) /\ FreezesOwn(c, q)
    /\ \A f \in FieldsOf(c) : q.val[f] \in {o.val[f], Null}

(* The destructor of every class drops what its fields refer to, and a     *)
(* test thaws its bank.                                                    *)
LEMMA DisposeProper ==
    ASSUME NEW c \in DOMAIN Classes, NEW others \in Tally, NEW o, Proper(c, o, others),
           FreezesOwn(c, o)
    PROVE  Disposes(c, others, o, DisposeOf(c, o))
<1> DEFINE q == DisposeOf(c, o)
<1>1. ASSUME GivesUp(c, others, o, q), c # "test" PROVE Disposes(c, others, o, q)
  BY <1>1 DEF GivesUp, Disposes, Same, SameCounts, FreezesOwn
<1>2. ASSUME NEW r, GivesUp(c, others, o, r), NEW f \in HoldersOf(c)
      PROVE  GivesUp(c, others, o, Cleared(r, f))
  <2>1. GivesUp(c, others, r, Cleared(r, f))
    BY <1>2, ClearedGivesUp DEF GivesUp
  <2> QED BY <1>2, <2>1, GivesUpMore
<1>3. ASSUME NEW r, GivesUp(c, others, o, r) PROVE GivesUp(c, others, o, ListEmptied(r))
  <2>1. GivesUp(c, others, r, ListEmptied(r))
    BY <1>3, ListEmptiedGivesUp DEF GivesUp
  <2> QED BY <1>3, <2>1, GivesUpMore
<1>4. GivesUp(c, others, o, o) /\ GivesUp(c, others, o, Crash(o))
  BY KeepsGivesUp
<1>5. CASE c \in {"chooser", "stratify"}
  <2>1. q = Cleared(o, "itembank")
    BY <1>5 DEF DisposeOf, ModelClasses, ChooserDispose, StratifyDispose
  <2> QED BY <1>1, <1>2, <1>4, <1>5, <2>1, HoldersHave
<1>6. CASE c \in {"closest_diff", "max_fisher"}
  <2>1. q = Cleared(o, "chooser.bank")
    BY <1>6 DEF DisposeOf, ModelClasses, ClosestDiffDispose, MaxFisherDispose
  <2> QED BY <1>1, <1>2, <1>4, <1>6, <2>1, HoldersHave
<1>7. CASE c = "max_kl"
  <2>1. q = Cleared(Cleared(Cleared(Cleared(o, "chooser.bank"), "space"), "Dprior"), "theta.space")
    BY <1>7 DEF DisposeOf, ModelClasses, MaxKlDispose
  <2>2. {"chooser.bank", "space", "theta.space", "Dprior"} \subseteq HoldersOf(c)
    BY <1>7, HoldersHave
  <2>3. GivesUp(c, others, o, Cleared(o, "chooser.bank"))
    BY <1>2, <1>4, <2>2
  <2>4. GivesUp(c, others, o, Cleared(Cleared(o, "chooser.bank"), "space"))
    BY <1>2, <2>2, <2>3
  <2>5. GivesUp(c, others, o, Cleared(Cleared(Cleared(o, "chooser.bank"), "space"), "Dprior"))
    BY <1>2, <2>2, <2>4
  <2>6. GivesUp(c, others, o, q)
    BY <1>2, <2>1, <2>2, <2>5
  <2> QED BY <1>1, <1>7, <2>6
<1>8. CASE c = "estimate"
  <2>1. q = Crash(o) \/ q = Cleared(o, "Dprior")
    BY <1>8 DEF DisposeOf, ModelClasses, EstimateDispose
  <2>2. GivesUp(c, others, o, Cleared(o, "Dprior"))
    BY <1>2, <1>4, <1>8, HoldersHave
  <2> QED BY <1>1, <1>4, <1>8, <2>1, <2>2
<1>9. CASE c = "astrat"
  <2>1. q = Cleared(o, "stratify.bank")
    BY <1>9 DEF DisposeOf, ModelClasses, AstratDispose
  <2> QED BY <1>1, <1>2, <1>4, <1>9, <2>1, HoldersHave
<1>10. CASE c = "test"
  <2> DEFINE r == Cleared(o, "itembank")
  <2>1. q = [r EXCEPT !.frozen = @ \ {o.val["itembank"]}]
    BY <1>10 DEF DisposeOf, ModelClasses, TestDispose
  <2>2. GivesUp(c, others, o, r) /\ r.val["itembank"] = Null
    BY <1>10, HoldersHave, ClearedGivesUp
  <2> HIDE DEF q, r
  <2>3. IsObject(r) /\ Sound(FieldsOf(c), HoldersOf(c), r, others) /\ Same(o, r)
    BY <2>2 DEF GivesUp, Proper, Sound
  <2>4. /\ IsObject(q) /\ q.val = r.val /\ q.refs = r.refs /\ q.listed = r.listed
        /\ SameCounts(o, q) /\ q.frozen = o.frozen \ {o.val["itembank"]}
    BY <2>1, <2>3 DEF IsObject, SameCounts, Same
  <2>5. Sound(FieldsOf(c), HoldersOf(c), q, others)
    BY <2>3, <2>4, RestMoves
  <2>6. FreezesOwn(c, q)
    BY <1>10, <2>2, <2>4 DEF FreezesOwn
  <2>7. HasFactor(c, q)
    BY <1>10 DEF HasFactor
  <2>8. Disposes(c, others, o, q)
    BY <2>2, <2>4, <2>5, <2>6, <2>7 DEF Disposes, GivesUp, Proper
  <2> QED BY <2>8 DEF q
<1>11. CASE c = "examinee"
  <2>1. q = ListEmptied(Cleared(Cleared(Cleared(o, "simDefault"), "estDefault"), "covariates"))
    BY <1>11 DEF DisposeOf, ModelClasses, ExamineeDispose
  <2>2. {"simDefault", "estDefault", "covariates"} \subseteq HoldersOf(c)
    BY <1>11, HoldersHave
  <2>3. GivesUp(c, others, o, Cleared(o, "simDefault"))
    BY <1>2, <1>4, <2>2
  <2>4. GivesUp(c, others, o, Cleared(Cleared(o, "simDefault"), "estDefault"))
    BY <1>2, <2>2, <2>3
  <2>5. GivesUp(c, others, o, Cleared(Cleared(Cleared(o, "simDefault"), "estDefault"), "covariates"))
    BY <1>2, <2>2, <2>4
  <2> QED BY <1>1, <1>3, <1>11, <2>1, <2>5
<1>12. CASE c = "item"
  <2>1. q = Cleared(Cleared(o, "default"), "other")
    BY <1>12 DEF DisposeOf, ModelClasses, ItemDispose
  <2>2. {"default", "other"} \subseteq HoldersOf(c)
    BY <1>12, HoldersHave
  <2>3. GivesUp(c, others, o, Cleared(o, "default"))
    BY <1>2, <1>4, <2>2
  <2> QED BY <1>1, <1>2, <1>12, <2>1, <2>2, <2>3
<1>13. CASE c = "item_bank"
  <2>1. q = ListEmptied(o)
    BY <1>13 DEF DisposeOf, ModelClasses, ItemBankDispose
  <2> QED BY <1>1, <1>3, <1>4, <1>13, <2>1
<1>14. CASE c \in {"point"} \union ModelClasses
  <2>1. q = Cleared(o, "space")
    BY <1>14 DEF DisposeOf, ModelClasses, PointDispose, ModelDispose
  <2>2. "space" \in HoldersOf(c) /\ c # "test"
    BY <1>14, HoldersHave DEF ModelClasses
  <2> QED BY <1>1, <1>2, <1>4, <2>1, <2>2
<1>15. CASE c \notin {"chooser", "stratify", "closest_diff", "max_fisher", "max_kl", "estimate",
                      "astrat", "test", "examinee", "item", "item_bank", "point"}
                     \union ModelClasses
  <2>1. q = o
    BY <1>15 DEF DisposeOf
  <2> QED BY <1>1, <1>4, <1>15, <2>1
<1> QED BY <1>5, <1>6, <1>7, <1>8, <1>9, <1>10, <1>11, <1>12, <1>13, <1>14, <1>15

(* Dropping references to the object.                                      *)
LEMMA DroppedProper ==
    ASSUME NEW c \in DOMAIN Classes, c = class, NEW others \in Tally, NEW o, Proper(c, o, others),
           FreezesOwn(c, o), o.count \in Nat, NEW n \in Nat, o.count >= n
    PROVE  /\ Proper(c, Dropped(o, n), others) /\ FreezesOwn(c, Dropped(o, n))
           /\ Dropped(o, n).count = o.count - n /\ Dropped(o, n).handlers = o.handlers
           /\ Dropped(o, n).floating = o.floating
           /\ \A f \in FieldsOf(c) : Dropped(o, n).val[f] \in {o.val[f], Null}
<1> DEFINE left == [o EXCEPT !.count = IF @ < n THEN 0 ELSE @ - n]
<1>1. IsObject(o) /\ Sound(FieldsOf(c), HoldersOf(c), o, others)
  BY DEF Proper, Sound
<1>2. /\ IsObject(left) /\ left.val = o.val /\ left.refs = o.refs /\ left.listed = o.listed
      /\ left.count = o.count - n /\ left.handlers = o.handlers /\ left.floating = o.floating
      /\ left.frozen = o.frozen
  BY <1>1 DEF IsObject
<1>3. Dropped(o, n) = left \/ Dropped(o, n) = DisposeOf(c, left)
  BY DEF Dropped
<1> HIDE DEF left
<1>4. Sound(FieldsOf(c), HoldersOf(c), left, others)
  BY <1>1, <1>2, RestMoves
<1>5. Proper(c, left, others) /\ FreezesOwn(c, left)
  BY <1>2, <1>4 DEF Proper, HasFactor, FreezesOwn
<1>6. Disposes(c, others, left, DisposeOf(c, left))
  BY <1>5, DisposeProper
<1> QED BY <1>2, <1>3, <1>5, <1>6 DEF Disposes, SameCounts

-----------------------------------------------------------------------------
(* The other objects.                                                      *)

(* Somebody drops a reference of his own to another object.                *)
LEMMA UnrefProper ==
    ASSUME NEW c \in DOMAIN Classes, NEW others \in Tally, NEW o, Proper(c, o, others),
           NEW t \in Things, others[t] > 0, NEW q, q = [o EXCEPT !.refs = Unref(@, t)]
    PROVE  /\ Proper(c, q, [others EXCEPT ![t] = @ - 1]) /\ Same(o, q) /\ q.val = o.val
<1> DEFINE left == [others EXCEPT ![t] = @ - 1]
           D == FieldsOf(c)
           H == HoldersOf(c)
<1>1. IsFiniteSet(D) /\ Sound(D, H, o, others) /\ IsObject(o)
  BY FieldsFinite DEF Proper, Sound
<1>2. DOMAIN q = DOMAIN o /\ q.val = o.val /\ q.listed = o.listed /\ Same(o, q)
      /\ q.refs = Unref(o.refs, t)
  BY <1>1 DEF IsObject, Same
<1>3. o.refs \in Tally /\ q.refs \in Tally /\ t \in Things \union {Null}
  BY <1>1, <1>2, RefsType DEF IsObject
<1>4. IsObject(q)
  BY <1>1, <1>2, <1>3 DEF IsObject
<1>5. HasFields(D, H, q)
  BY <1>1, <1>2 DEF Sound, HasFields
<1>6. ASSUME NEW u \in Things \ Vectors PROVE q.refs[u] = left[u] + Referrers(q, u)
  <2> DEFINE n == Referrers(o, u)
  <2>1. Referrers(q, u) = n /\ o.refs[u] = others[u] + n
    BY <1>1, <1>2 DEF Referrers, Sound, Balanced
  <2>2. n \in Nat
    <3>1. Cardinality(Pointing(o.val, u)) \in Nat
      <4> HIDE DEF D, H
      <4> QED BY <1>1, ReferredIsThere
    <3>2. o.listed[u] \in Nat
      BY <1>1 DEF IsObject, Tally
    <3> QED BY <3>1, <3>2 DEF Referrers
  <2>3. others[u] \in Nat /\ o.refs[u] \in Nat /\ q.refs[u] \in Nat
    BY <1>3 DEF Tally
  <2> HIDE DEF n
  <2>4. CASE u = t
    <3>1. o.refs[t] > 0
      BY <2>1, <2>2, <2>3, <2>4
    <3>4. Unref(o.refs, t)[t] + Equal(t, t) = o.refs[t]
      BY <1>3, <3>1, RefsType
    <3>2. q.refs[t] + Equal(t, t) = o.refs[t]
      BY <1>2, <3>4
    <3>3. q.refs[t] + 1 = o.refs[t] /\ left[u] = others[u] - 1
      BY <2>4, <3>2 DEF Equal, Tally
    <3> QED BY <2>1, <2>2, <2>3, <2>4, <3>3
  <2>5. CASE u # t
    <3>3. Unref(o.refs, t)[u] = o.refs[u]
      BY <1>3, <2>5, RefsType
    <3>1. q.refs[u] = o.refs[u]
      BY <1>2, <3>3
    <3>2. left[u] = others[u]
      BY <2>5 DEF Tally
    <3> QED BY <2>1, <3>1, <3>2
  <2> QED BY <2>4, <2>5
<1>7. HasFactor(c, q)
  BY <1>2 DEF Proper, HasFactor
<1> QED BY <1>2, <1>4, <1>5, <1>6, <1>7 DEF Proper, Sound, Balanced

(* What the program and the test refer to.                                 *)
Owned == [t \in Things |-> held[t] + One(test /\ t = TestBank)]

(* The inductive invariant: the counts, and what the next call relies on:  *)
(* the bank is taken once, as long as the test is there; a test has no     *)
(* bank before it is given one; a space knows its dimensions when it makes *)
(* their maxima.                                                           *)
Accounted ==
    /\ Proper(class, s, Owned) /\ FreezesOwn(class, s)
    /\ keeps \in {0, 1} /\ s.handlers \in Nat /\ s.floating \in BOOLEAN
    /\ s.count = keeps + s.handlers + One(s.floating)
    /\ keeps = 1 => ~s.floating
    /\ test /\ s.handlers = 0 => \A f \in BankFields \intersect Private(class) : s.val[f] = Null
    /\ phase = "creation" =>
         /\ class = "test" /\ "itembank" \in todo => s.val["itembank"] = Null
         /\ class = "space" /\ "numNat" \notin todo => s.val["numNat"] \in Counts \union {0}

CountInv ==
    /\ class \in DOMAIN Classes /\ held \in Tally /\ test \in BOOLEAN
    /\ todo \subseteq SetAtCreation(Classes[class])
    /\ phase # "crash" => Accounted

(* The references from outside are counts, and the test has one to its     *)
(* bank.                                                                   *)
LEMMA OwnedType ==
    ASSUME held \in Tally
    PROVE  /\ Owned \in Tally /\ \A t \in Things : Owned[t] >= held[t]
           /\ test => Owned[TestBank] > 0
  BY ObjectsAreThings DEF Tally, Owned, One

(* A model is given its covariates at creation, an examinee later.         *)
LEMMA CovariatesLater ==
    ASSUME NEW c \in DOMAIN Classes, "covariates" \in DOMAIN Classes[c]
    PROVE  Classes[c]["covariates"].first = Null
<1>1. CASE c \in ModelClasses
  BY <1>1, ClassNames, ModelDeclared
<1>2. CASE c \in {"max_kl", "estimate", "astrat", "test", "space"}
  BY <1>2, ClassNames DEF MaxKl, Estimate, Astrat, Test, Space
<1>3. CASE c \notin {"max_kl", "estimate", "astrat", "test", "space"} \union ModelClasses
  BY <1>3, UsualProperties, AllDeclared DEF Declared
<1> QED BY <1>1, <1>2, <1>3

(* A new object refers to no other.                                        *)
LEMMA NewProper ==
    ASSUME NEW c \in DOMAIN Classes, NEW others \in Tally, NEW floating,
           NEW o, o = New(Classes[c], Private(c), others, floating)
    PROVE  /\ Proper(c, o, others) /\ o.count = 1 /\ o.handlers = 0 /\ o.floating = floating
           /\ o.frozen = {}
           /\ \A f \in FieldsOf(c) : f \in Private(c) \union SetAtCreation(Classes[c]) =>
                o.val[f] = Null
<1> DEFINE D == FieldsOf(c)
           H == HoldersOf(c)
<1>1. /\ o.count = 1 /\ o.handlers = 0 /\ o.floating = floating /\ o.frozen = {}
      /\ o.refs = others /\ o.listed = [t \in Things |-> 0]
      /\ DOMAIN o = {"val", "count", "floating", "handlers", "listed", "frozen", "refs", "crashed"}
      /\ o.val = [f \in D |-> IF f \in Private(c) \union SetAtCreation(Classes[c]) THEN Null
                              ELSE Classes[c][f].first]
  BY DEF New, FieldsOf
<1>2. IsObject(o)
  BY <1>1 DEF IsObject, Tally
<1>3. ASSUME NEW f \in D
      PROVE  IF f \in H THEN o.val[f] = Null ELSE o.val[f] \notin Things
  <2>1. CASE f \in Private(c) \union SetAtCreation(Classes[c])
    BY <1>1, <2>1, NullIsNone
  <2>2. CASE f \notin Private(c) \union SetAtCreation(Classes[c])
    <3>1. f \in DOMAIN Classes[c] /\ o.val[f] = Classes[c][f].first
      BY <1>1, <2>2 DEF FieldsOf
    <3>2. Classes[c][f].kind = "object" => Classes[c][f].first = Null
      BY <3>1, AllDeclared DEF Declared
    <3>3. f \in H <=> Classes[c][f].kind = "object"
      BY <3>1, FieldsFinite
    <3>4. CASE f # "covariates"
      BY <3>1, <3>2, <3>3, <3>4, PlainField
    <3>5. CASE f = "covariates"
      <4>1. Classes[c][f].first = Null
        BY <2>2, <3>1, <3>2, <3>5, CovariatesLater
      <4> QED BY <3>1, <4>1, NullIsNone
    <3> QED BY <3>4, <3>5
  <2> QED BY <2>1, <2>2
<1>4. HasFields(D, H, o)
  <2>1. \A f \in D : Null \in Target(f)
    BY DEF Target
  <2>2. DOMAIN o.val = D
    BY <1>1
  <2> HIDE DEF D, H
  <2> QED BY <1>3, <2>1, <2>2 DEF HasFields
<1>5. ASSUME NEW t \in Things PROVE Referrers(o, t) = 0
  <2>1. Pointing(o.val, t) = {}
    <3>1. DOMAIN o.val = D
      BY <1>1
    <3> HIDE DEF D, H
    <3> QED BY <1>3, <3>1, NullIsNone DEF Pointing
  <2>2. Cardinality(Pointing(o.val, t)) = 0
    BY <2>1, FS_EmptySet
  <2>3. o.listed[t] = 0
    BY <1>1
  <2> HIDE DEF D, H
  <2> QED BY <2>2, <2>3 DEF Referrers
<1>6. Balanced(o, others)
  <2>1. \A t \in Things : others[t] = others[t] + 0
    BY DEF Tally
  <2> QED BY <1>1, <1>5, <2>1 DEF Balanced
<1>7. HasFactor(c, o)
  <2> SUFFICES ASSUME c \in {"max_kl", "estimate"} PROVE IsFactor(o.val["Sigma"])
    BY DEF HasFactor
  <2>1. "Sigma" \in DOMAIN Classes[c] /\ Classes[c]["Sigma"].first = Null
    BY ClassNames DEF MaxKl, Estimate, Construct, Plain
  <2>2. o.val["Sigma"] = Null
    BY <1>1, <2>1 DEF FieldsOf
  <2> QED BY <2>2 DEF IsFactor
<1> QED BY <1>1, <1>2, <1>4, <1>6, <1>7 DEF Proper, Sound

(* A field other than the factor of Sigma.                                 *)
LEMMA HolderProper ==
    ASSUME NEW c \in DOMAIN Classes, NEW others, NEW o, Proper(c, o, others),
           NEW f \in FieldsOf(c), f # "Sigma", NEW left, NEW v,
           NEW q, Sound(FieldsOf(c), HoldersOf(c), q, left), q.val = [o.val EXCEPT ![f] = v]
    PROVE  /\ Proper(c, q, left)
           /\ \A g \in FieldsOf(c) : g # f => q.val[g] = o.val[g]
<1>1. DOMAIN o.val = FieldsOf(c)
  BY DEF Proper, Sound, HasFields
<1>2. \A g \in FieldsOf(c) : g # f => q.val[g] = o.val[g]
  BY <1>1
<1>3. c \in {"max_kl", "estimate"} => "Sigma" \in FieldsOf(c)
  BY ClassNames DEF MaxKl, Estimate, FieldsOf
<1> QED BY <1>2, <1>3 DEF Proper, HasFactor

(* A field whose object is replaced drops the old one and refers to the    *)
(* new one.                                                                *)
LEMMA ReplacedProper ==
    ASSUME NEW c \in DOMAIN Classes, NEW others \in Tally, NEW o, Proper(c, o, others),
           NEW f \in HoldersOf(c), f \notin {"Dprior", "Sigma"}, NEW v \in Things
    PROVE  /\ Proper(c, Replaced(o, f, v), others) /\ Same(o, Replaced(o, f, v))
           /\ \A g \in FieldsOf(c) : g # f => Replaced(o, f, v).val[g] = o.val[g]
<1> DEFINE D == FieldsOf(c)
           H == HoldersOf(c)
           q == Replaced(o, f, v)
<1>1. /\ IsFiniteSet(D) /\ H \in SUBSET D /\ Sound(D, H, o, others) /\ f \in D /\ f \in H
      /\ f # "Dprior" /\ f # "Sigma" /\ v \in Things \union {Null}
  BY FieldsFinite DEF Proper
<1>2. Assigns(D, H, others, o, q, f, v)
  <2> HIDE DEF D, H
  <2> QED BY <1>1, ReplacedSound
<1>3. Sound(D, H, q, others) /\ Same(o, q) /\ q.val = [o.val EXCEPT ![f] = v]
  BY <1>2 DEF Assigns
<1> HIDE DEF q
<1>4. Proper(c, q, others) /\ \A g \in FieldsOf(c) : g # f => q.val[g] = o.val[g]
  BY <1>1, <1>3, HolderProper
<1> QED BY <1>3, <1>4 DEF q

(* The reference that a method is handed is no longer from outside.        *)
LEMMA HandedProper ==
    ASSUME NEW c \in DOMAIN Classes, NEW others \in Tally, NEW o, Proper(c, o, others),
           NEW f \in HoldersOf(c), f \notin {"Dprior", "Sigma"}, NEW t \in Things, others[t] > 0
    PROVE  /\ Proper(c, Given(o, f, t), [others EXCEPT ![t] = @ - 1]) /\ Same(o, Given(o, f, t))
           /\ \A g \in FieldsOf(c) : g # f => Given(o, f, t).val[g] = o.val[g]
<1> DEFINE D == FieldsOf(c)
           H == HoldersOf(c)
           q == Given(o, f, t)
           left == [others EXCEPT ![t] = @ - 1]
<1>1. /\ IsFiniteSet(D) /\ H \in SUBSET D /\ Sound(D, H, o, others) /\ f \in D /\ f \in H
      /\ f # "Dprior" /\ f # "Sigma"
  BY FieldsFinite DEF Proper
<1>2. Sound(D, H, q, left) /\ Same(o, q) /\ q.val = [o.val EXCEPT ![f] = t]
  <2> HIDE DEF D, H
  <2> QED BY <1>1, HandedSound
<1> HIDE DEF q, left
<1>3. Proper(c, q, left) /\ \A g \in FieldsOf(c) : g # f => q.val[g] = o.val[g]
  BY <1>1, <1>2, HolderProper
<1> QED BY <1>2, <1>3 DEF q, left

(* The items of an array have a reference for each place they are listed   *)
(* in.                                                                     *)
LEMMA ArraysProper ==
    ASSUME NEW c \in DOMAIN Classes, NEW others \in Tally, NEW o, Proper(c, o, others),
           NEW t \in Things
    PROVE  /\ Proper(c, Listed(o, t), others) /\ Same(o, Listed(o, t))
           /\ Proper(c, Unlisted(o, t), others) /\ Same(o, Unlisted(o, t))
           /\ Proper(c, ListEmptied(o), others) /\ Same(o, ListEmptied(o))
<1> DEFINE D == FieldsOf(c)
           H == HoldersOf(c)
<1>1. IsFiniteSet(D) /\ Sound(D, H, o, others)
  BY FieldsFinite DEF Proper
<1> HIDE DEF D, H
<1>2. /\ Sound(D, H, Listed(o, t), others) /\ Same(o, Listed(o, t)) /\ Listed(o, t).val = o.val
  BY <1>1, ListedSound
<1>3. /\ Sound(D, H, Unlisted(o, t), others) /\ Same(o, Unlisted(o, t))
      /\ Unlisted(o, t).val = o.val
  BY <1>1, UnlistedSound
<1>4. /\ Sound(D, H, ListEmptied(o), others) /\ Same(o, ListEmptied(o))
      /\ ListEmptied(o).val = o.val
  BY <1>1, ListEmptiedSound
<1> QED BY <1>2, <1>3, <1>4 DEF D, H, Proper, HasFactor

-----------------------------------------------------------------------------
(* What g_object_new starts from refers to nothing.                        *)
LEMMA CountInit == Init => CountInv
<1> SUFFICES ASSUME Init PROVE CountInv
  OBVIOUS
<1>1. /\ class \in DOMAIN Classes /\ test = TRUE /\ phase = "creation"
      /\ todo = SetAtCreation(Classes[class])
  BY ObjectsAssumption DEF Init
<1>2. held \in Tally
  BY DEF Init, One, Tally
<1> DEFINE floating == class \in Algorithms
<1>3. /\ floating \in BOOLEAN /\ keeps = One(~floating)
      /\ s = New(Classes[class], Private(class), Owned, floating)
  <2>1. /\ s = New(Classes[class], Private(class), [t \in Things |-> held[t] + One(t = TestBank)],
                   floating)
        /\ keeps = One(~floating)
    BY DEF Init
  <2>2. floating \in BOOLEAN
    OBVIOUS
  <2> HIDE DEF floating
  <2>3. Owned = [t \in Things |-> held[t] + One(t = TestBank)]
    BY <1>1 DEF Owned, One
  <2> QED BY <2>1, <2>2, <2>3
<1> HIDE DEF floating
<1>4. /\ Proper(class, s, Owned) /\ s.count = 1 /\ s.handlers = 0 /\ s.floating = floating
      /\ s.frozen = {}
      /\ \A f \in FieldsOf(class) : f \in Private(class) \union SetAtCreation(Classes[class]) =>
           s.val[f] = Null
  BY <1>1, <1>2, <1>3, OwnedType, NewProper
<1>5. class = "test" => s.val["itembank"] = Null
  <2>1. "itembank" \in DOMAIN Test /\ "itembank" \in SetAtCreation(Test)
    BY DEF Test, SetAtCreation, ConstructOnly
  <2> QED BY <1>4, <2>1, ClassNames DEF FieldsOf
<1>6. class = "space" => "numNat" \in todo
  <2>1. "numNat" \in SetAtCreation(Space)
    BY DEF Space, SetAtCreation, ConstructOnly
  <2> QED BY <1>1, <2>1, ClassNames
<1>7. FreezesOwn(class, s)
  BY <1>4, <1>5 DEF FreezesOwn
<1>8. keeps \in {0, 1} /\ (keeps = 1 => ~floating) /\ 1 = keeps + 0 + One(floating)
  BY <1>3 DEF One
<1>9. \A f \in Private(class) : s.val[f] = Null
  BY <1>4 DEF FieldsOf
<1>10. /\ s.handlers \in Nat /\ s.floating \in BOOLEAN
       /\ s.count = keeps + s.handlers + One(s.floating) /\ (keeps = 1 => ~s.floating)
  <2>1. s.handlers = 0 /\ s.count = 1 /\ s.floating = floating
    BY <1>4
  <2> QED BY <1>3, <1>8, <2>1
<1>11. Accounted
  BY <1>4, <1>5, <1>6, <1>7, <1>8, <1>9, <1>10 DEF Accounted
<1> QED BY <1>1, <1>2, <1>11 DEF CountInv

(* A call on a living object that leaves the references to it alone.       *)
LEMMA StaysAccounted ==
    ASSUME CountInv, phase # "crash", phase' # "creation", class # "test",
           UNCHANGED <<class, todo, keeps>>, held' \in Tally, test' \in BOOLEAN, test' => test,
           Proper(class, s', Owned'), Same(s, s'),
           \A f \in BankFields \intersect Private(class) : s'.val[f] = s.val[f]
    PROVE  CountInv'
<1>1. Accounted
  BY DEF CountInv
<1>2. FreezesOwn(class, s')
  BY DEF FreezesOwn
<1>3. s'.handlers = s.handlers /\ s'.floating = s.floating /\ s'.count = s.count
  BY DEF Same
<1>4. Accounted'
  BY <1>1, <1>2, <1>3 DEF Accounted
<1> QED BY <1>4 DEF CountInv

(* Properties.                                                             *)
LEMMA SetAccounted ==
    ASSUME CountInv, phase # "crash",
           NEW p \in DOMAIN Classes[class],
           NEW v \in Classes[class][p].range \union {Classes[class][p].first},
           class = "test" /\ p = "itembank" => p \in todo /\ phase = "creation",
           phase' = "creation" => phase = "creation",
           s' = SetOf(class, s, p, v), todo' \in {todo, todo \ {p}},
           class = "test" /\ p = "itembank" => p \notin todo',
           UNCHANGED <<class, program>>
    PROVE  CountInv'
<1>1. Accounted /\ class \in DOMAIN Classes /\ Owned \in Tally
  BY OwnedType DEF CountInv
<1>2. /\ Proper(class, s', Owned) /\ FreezesOwn(class, s')
      /\ SetsProperty(class, s, s', p, v)
  BY <1>1, SetOfProper DEF Accounted
<1>3. /\ class' = class /\ held' = held /\ keeps' = keeps /\ test' = test /\ Owned' = Owned
  BY DEF program, Owned
<1>4. /\ s'.count = s.count /\ s'.handlers = s.handlers /\ s'.floating = s.floating
      /\ \A f \in Private(class) : s'.val[f] = s.val[f]
  BY <1>2 DEF SetsProperty, SameCounts
<1>5. ASSUME phase' = "creation", class = "test", "itembank" \in todo'
      PROVE  s'.val["itembank"] = Null
  <2>1. "itembank" \in todo /\ p # "itembank"
    BY <1>5
  <2> QED BY <1>1, <1>2, <1>5, <2>1 DEF SetsProperty, Accounted
<1>6. ASSUME phase' = "creation", class = "space", "numNat" \notin todo'
      PROVE  s'.val["numNat"] \in Counts \union {0}
  <2>1. CASE p = "numNat"
    <3>1. Classes[class]["numNat"] = ConstructOnly("value", Counts, 0)
      BY <1>6, ClassNames DEF Space
    <3>2. v \in Counts \union {0}
      BY <2>1, <3>1 DEF ConstructOnly
    <3> QED BY <1>2, <1>6, <2>1, <3>2 DEF SetsProperty
  <2>2. CASE p # "numNat"
    <3>1. "numNat" \notin todo
      BY <1>6, <2>2
    <3> QED BY <1>1, <1>2, <1>6, <2>2, <3>1 DEF SetsProperty, Accounted
  <2> QED BY <2>1, <2>2
<1>7. Accounted'
  <2>1. /\ s'.handlers \in Nat /\ s'.floating \in BOOLEAN
        /\ s'.count = keeps + s'.handlers + One(s'.floating) /\ (keeps = 1 => ~s'.floating)
    BY <1>1, <1>4 DEF Accounted
  <2>2. test /\ s'.handlers = 0 => \A f \in BankFields \intersect Private(class) : s'.val[f] = Null
    BY <1>1, <1>4 DEF Accounted
  <2> QED BY <1>1, <1>2, <1>3, <1>5, <1>6, <2>1, <2>2 DEF Accounted
<1>8. todo' \subseteq SetAtCreation(Classes[class])
  BY DEF CountInv
<1> QED BY <1>3, <1>7, <1>8 DEF CountInv

(* References to the object.                                               *)
LEMMA RegisterAccounted == CountInv /\ Register => CountInv'
<1> SUFFICES ASSUME CountInv, Register PROVE CountInv'
  OBVIOUS
<1>1. /\ Accounted /\ class \in DOMAIN Classes /\ class \in Algorithms /\ Owned \in Tally
      /\ test /\ s.handlers = 0 /\ class \notin {"test", "space"}
  BY OwnedType DEF CountInv, Register, Algorithms
<1>2. /\ class' = class /\ held' = held /\ keeps' = keeps /\ test' = test /\ Owned' = Owned
      /\ todo' = todo /\ s' = RegisterOf(class, RefSink(s)) /\ phase' # "creation"
  BY DEF Register, Becomes, program, requests, Owned
<1> DEFINE o == RefSink(s)
<1>12. Proper(class, s, Owned) /\ s.floating \in BOOLEAN
  BY <1>1 DEF Accounted
<1>3. /\ Proper(class, o, Owned) /\ o.val = s.val
      /\ o.count = IF s.floating THEN s.count ELSE s.count + 1
      /\ o.handlers = 0 /\ o.floating = FALSE
  <2>1. /\ Proper(class, o, Owned) /\ o.val = s.val
        /\ o.count = IF s.floating THEN s.count ELSE s.count + 1
        /\ o.handlers = s.handlers /\ o.floating = FALSE
    BY <1>12, RefSinkProper
  <2> QED BY <1>1, <2>1
<1> HIDE DEF o
<1>4. s.count \in Nat /\ o.count = keeps + 1 /\ o.count \in Nat
  BY <1>1, <1>3 DEF Accounted, One
<1>5. \A f \in BankFields \intersect Private(class) : o.val[f] = Null
  BY <1>1, <1>3 DEF Accounted
<1>6. Registers(class, Owned, o, RegisterOf(class, o))
  BY <1>1, <1>3, <1>4, <1>5, RegisterProper
<1>7. s' = RegisterOf(class, o)
  BY <1>2 DEF o
<1>8. Proper(class, s', Owned) /\ s'.floating = FALSE
  BY <1>3, <1>6, <1>7 DEF Registers
<1>9. PICK n \in Nat : s'.handlers = o.handlers + n + 1 /\ s'.count = o.count + n
  BY <1>6, <1>7 DEF Registers
<1>10. s'.handlers \in Nat /\ s'.handlers > 0 /\ s'.count = keeps + s'.handlers + 0
  BY <1>1, <1>3, <1>4, <1>9 DEF Accounted
<1>11. Accounted'
  <2>1. One(s'.floating) = 0
    BY <1>8 DEF One
  <2>2. s'.count = keeps' + s'.handlers + One(s'.floating) /\ keeps' \in {0, 1}
    BY <1>1, <1>2, <1>10, <2>1 DEF Accounted
  <2>5. s'.handlers # 0
    BY <1>10
  <2>3. s'.floating \in BOOLEAN /\ (keeps' = 1 => ~s'.floating) /\ s'.handlers # 0
    BY <1>8, <2>5
  <2>4. FreezesOwn(class, s')
    BY <1>1 DEF FreezesOwn
  <2> QED BY <1>2, <1>8, <1>10, <2>2, <2>3, <2>4 DEF Accounted
<1> QED BY <1>1, <1>2, <1>11 DEF CountInv

(* The program takes another reference to the object.                      *)
LEMMA KeepAccounted == CountInv /\ Keep => CountInv'
<1> SUFFICES ASSUME CountInv, Keep PROVE CountInv'
  OBVIOUS
<1>1. Accounted /\ class \in DOMAIN Classes /\ keeps = 0
  BY DEF CountInv, Keep
<1>2. /\ class' = class /\ held' = held /\ keeps' = 1 /\ test' = test /\ Owned' = Owned
      /\ todo' = todo /\ s' = RefSink(s) /\ phase' # "creation"
  BY DEF Keep, Becomes, requests, Owned
<1>7. Proper(class, s, Owned) /\ s.floating \in BOOLEAN
  BY <1>1 DEF Accounted
<1>3. /\ Proper(class, s', Owned) /\ s'.val = s.val /\ s'.frozen = s.frozen
      /\ s'.count = IF s.floating THEN s.count ELSE s.count + 1
      /\ s'.handlers = s.handlers /\ s'.floating = FALSE
  BY <1>2, <1>7, RefSinkProper
<1>4. s'.count = 1 + s'.handlers + 0 /\ One(s'.floating) = 0
  BY <1>1, <1>3 DEF Accounted, One
<1>5. FreezesOwn(class, s')
  BY <1>1, <1>3 DEF Accounted, FreezesOwn
<1>6. Accounted'
  BY <1>1, <1>2, <1>3, <1>4, <1>5 DEF Accounted
<1> QED BY <1>1, <1>2, <1>6 DEF CountInv

(* The object with a reference fewer that is not a connection's.           *)
LEMMA ReleaseAccounted == CountInv /\ Release => CountInv'
<1> SUFFICES ASSUME CountInv, Release PROVE CountInv'
  OBVIOUS
<1> DEFINE o == [s EXCEPT !.floating = FALSE]
           q == Dropped(o, 1)
<1>1. /\ Accounted /\ class \in DOMAIN Classes /\ Owned \in Tally /\ (keeps = 1 \/ s.floating)
  BY OwnedType DEF CountInv, Release
<1>2. /\ class' = class /\ held' = held /\ keeps' = 0 /\ test' = test /\ Owned' = Owned
      /\ todo' = todo /\ s' = q
  BY DEF Release, Becomes, requests, Owned
<1>3. IsObject(s) /\ Sound(FieldsOf(class), HoldersOf(class), s, Owned)
  BY <1>1 DEF Accounted, Proper, Sound
<1>4. /\ IsObject(o) /\ o.val = s.val /\ o.refs = s.refs /\ o.listed = s.listed
      /\ o.count = s.count /\ o.handlers = s.handlers /\ o.floating = FALSE /\ o.frozen = s.frozen
  BY <1>3 DEF IsObject
<1> HIDE DEF o
<1>5. Sound(FieldsOf(class), HoldersOf(class), o, Owned)
  BY <1>3, <1>4, RestMoves
<1>6. Proper(class, o, Owned) /\ FreezesOwn(class, o)
  BY <1>1, <1>4, <1>5 DEF Accounted, Proper, HasFactor, FreezesOwn
<1>7. s.handlers \in Nat /\ o.count = s.handlers + 1 /\ o.count \in Nat /\ o.count >= 1
  BY <1>1, <1>4 DEF Accounted, One
<1>8. /\ Proper(class, q, Owned) /\ FreezesOwn(class, q)
      /\ q.count = o.count - 1 /\ q.handlers = o.handlers /\ q.floating = o.floating
      /\ \A f \in FieldsOf(class) : q.val[f] \in {o.val[f], Null}
  BY <1>1, <1>6, <1>7, DroppedProper
<1> HIDE DEF q
<1>9. q.count = 0 + q.handlers + 0 /\ q.handlers \in Nat /\ q.floating = FALSE /\ One(q.floating) = 0
  BY <1>4, <1>7, <1>8 DEF One
<1>10. test /\ q.handlers = 0 => \A f \in BankFields \intersect Private(class) : q.val[f] = Null
  BY <1>1, <1>4, <1>8 DEF Accounted, FieldsOf
<1>11. phase' # "creation"
  BY DEF Release, Becomes
<1>12. Accounted'
  BY <1>1, <1>2, <1>8, <1>9, <1>10, <1>11 DEF Accounted
<1> QED BY <1>1, <1>2, <1>12 DEF CountInv

(* The test ends its connections and drops its bank.                       *)
LEMMA DropTestAccounted == CountInv /\ DropTest => CountInv'
<1> SUFFICES ASSUME CountInv, DropTest PROVE CountInv'
  OBVIOUS
<1> DEFINE o == [s EXCEPT !.handlers = 0]
           n == s.handlers
           ended == Dropped(o, n)
           left == [Owned EXCEPT ![TestBank] = @ - 1]
<1>1. /\ Accounted /\ class \in DOMAIN Classes /\ Owned \in Tally /\ test
      /\ Owned[TestBank] > 0 /\ TestBank \in Things
  BY OwnedType, ObjectsAreThings DEF CountInv, DropTest
<1>2. /\ class' = class /\ held' = held /\ keeps' = keeps /\ test' = FALSE
      /\ todo' = todo /\ s' = [ended EXCEPT !.refs = Unref(@, TestBank)] /\ phase' # "creation"
  BY DEF DropTest, Becomes, requests
<1>3. Owned' = left
  <2>1. ASSUME NEW u \in Things PROVE Owned'[u] = left[u]
    <3>1. held[u] \in Nat
      BY DEF CountInv, Tally
    <3>2. Owned'[u] = held[u] + One(test' /\ u = TestBank) /\ One(test' /\ u = TestBank) = 0
      BY <1>2 DEF Owned, One
    <3>3. left[u] = IF u = TestBank THEN Owned[u] - 1 ELSE Owned[u]
      BY DEF Owned
    <3>4. Owned[u] = IF u = TestBank THEN held[u] + 1 ELSE held[u] + 0
      BY <1>1 DEF Owned, One
    <3> QED BY <3>1, <3>2, <3>3, <3>4
  <2>2. DOMAIN Owned' = Things /\ DOMAIN left = Things
    BY DEF Owned
  <2> HIDE DEF left
  <2> QED BY <2>1, <2>2 DEF Owned, left
<1>4. IsObject(s) /\ Sound(FieldsOf(class), HoldersOf(class), s, Owned) /\ n \in Nat
  BY <1>1 DEF Accounted, Proper, Sound
<1>5. /\ IsObject(o) /\ o.val = s.val /\ o.refs = s.refs /\ o.listed = s.listed
      /\ o.count = s.count /\ o.handlers = 0 /\ o.floating = s.floating /\ o.frozen = s.frozen
  BY <1>4 DEF IsObject
<1> HIDE DEF o, left
<1>6. Sound(FieldsOf(class), HoldersOf(class), o, Owned)
  BY <1>4, <1>5, RestMoves
<1>7. Proper(class, o, Owned) /\ FreezesOwn(class, o)
  BY <1>1, <1>5, <1>6 DEF Accounted, Proper, HasFactor, FreezesOwn
<1>8. o.count \in Nat /\ o.count >= n /\ o.count - n = keeps + One(s.floating)
  BY <1>1, <1>4, <1>5 DEF Accounted, One
<1>9. /\ Proper(class, ended, Owned) /\ FreezesOwn(class, ended)
      /\ ended.count = o.count - n /\ ended.handlers = o.handlers /\ ended.floating = o.floating
  <2> HIDE DEF n
  <2> QED BY <1>1, <1>4, <1>7, <1>8, DroppedProper
<1> HIDE DEF ended, n
<1>10. Proper(class, s', left) /\ Same(ended, s') /\ s'.val = ended.val
  BY <1>1, <1>2, <1>9, UnrefProper DEF left
<1>11. /\ s'.handlers = 0 /\ s'.floating = s.floating
       /\ s'.count = keeps + One(s.floating) /\ s'.frozen = ended.frozen
  BY <1>5, <1>8, <1>9, <1>10 DEF Same
<1>12. FreezesOwn(class, s')
  BY <1>9, <1>10, <1>11 DEF FreezesOwn
<1>13. s'.count = keeps' + s'.handlers + One(s'.floating) /\ s'.handlers \in Nat
  <2>1. keeps \in Nat /\ One(s.floating) \in Nat
    BY <1>1 DEF Accounted, One
  <2> QED BY <1>2, <1>11, <2>1
<1>14. Accounted'
  BY <1>1, <1>2, <1>3, <1>10, <1>11, <1>12, <1>13 DEF Accounted
<1> QED BY <1>1, <1>2, <1>14 DEF CountInv

(* The program drops a reference to another object.                        *)
LEMMA HandsOver ==
    ASSUME held \in Tally, NEW t \in Things, held[t] > 0, held' = [held EXCEPT ![t] = @ - 1],
           test' = test
    PROVE  /\ Owned' = [Owned EXCEPT ![t] = @ - 1] /\ held' \in Tally
           /\ Owned \in Tally /\ Owned[t] > 0
<1>1. held' \in Tally /\ Owned \in Tally /\ Owned[t] > 0
  BY OwnedType DEF Tally
<1>2. ASSUME NEW u \in Things PROVE Owned'[u] = [Owned EXCEPT ![t] = @ - 1][u]
  <2>1. One(test /\ u = TestBank) \in Nat /\ held[u] \in Nat /\ held[t] \in Nat
    BY DEF One, Tally
  <2>2. /\ Owned'[u] = held'[u] + One(test /\ u = TestBank)
        /\ Owned[u] = held[u] + One(test /\ u = TestBank)
    BY DEF Owned
  <2>3. /\ held'[u] = IF u = t THEN held[u] - 1 ELSE held[u]
        /\ [Owned EXCEPT ![t] = @ - 1][u] = IF u = t THEN Owned[u] - 1 ELSE Owned[u]
    BY DEF Tally, Owned
  <2> QED BY <2>1, <2>2, <2>3
<1>3. DOMAIN Owned' = Things /\ DOMAIN Owned = Things
  BY DEF Owned
<1> QED BY <1>1, <1>2, <1>3 DEF Owned

(* The program drops a reference of its own to what it gave.               *)
LEMMA DropAccounted ==
    ASSUME CountInv, NEW t \in Things, Drop(t)
    PROVE  CountInv'
<1>1. /\ Accounted /\ class \in DOMAIN Classes /\ held \in Tally /\ held[t] > 0
      /\ phase \notin {"crash", "creation"}
  BY DEF CountInv, Drop
<1>2. /\ class' = class /\ keeps' = keeps /\ test' = test /\ todo' = todo /\ phase' = phase
      /\ held' = [held EXCEPT ![t] = @ - 1] /\ s' = [s EXCEPT !.refs = Unref(@, t)]
  BY DEF Drop, requests
<1>3. /\ Owned' = [Owned EXCEPT ![t] = @ - 1] /\ held' \in Tally
      /\ Owned \in Tally /\ Owned[t] > 0
  BY <1>1, <1>2, HandsOver
<1>4. Proper(class, s', Owned') /\ Same(s, s') /\ s'.val = s.val
  <2>1. Proper(class, s, Owned)
    BY <1>1 DEF Accounted
  <2> DEFINE q == [s EXCEPT !.refs = Unref(@, t)]
             others == Owned
  <2>2. s' = q /\ q = [s EXCEPT !.refs = Unref(@, t)] /\ Proper(class, s, others)
        /\ others \in Tally /\ others[t] > 0
    BY <1>2, <1>3, <2>1
  <2> HIDE DEF q, others
  <2>3. /\ Proper(class, q, [others EXCEPT ![t] = @ - 1]) /\ Same(s, q) /\ q.val = s.val
    BY <1>1, <2>2, UnrefProper
  <2> QED BY <1>3, <2>2, <2>3 DEF others
<1>5. FreezesOwn(class, s') /\ s'.handlers = s.handlers /\ s'.floating = s.floating
      /\ s'.count = s.count
  BY <1>1, <1>4 DEF Accounted, FreezesOwn, Same
<1>6. Accounted'
  BY <1>1, <1>2, <1>4, <1>5 DEF Accounted
<1> QED BY <1>1, <1>2, <1>3, <1>6 DEF CountInv

-----------------------------------------------------------------------------
(* Objects that are kept.                                                  *)

(* A field that takes over a reference of the program.                     *)
LEMMA HandOverAccounted ==
    ASSUME CountInv, phase = "life", class \in DOMAIN Classes, class # "test",
           NEW f \in HoldersOf(class), f \notin {"Dprior", "Sigma"} \union BankFields,
           NEW t \in Things, HandOver(Given(s, f, t), t)
    PROVE  CountInv'
<1>1. Accounted /\ held \in Tally /\ held[t] > 0 /\ test \in BOOLEAN
  BY DEF CountInv, HandOver
<1>2. /\ class' = class /\ keeps' = keeps /\ test' = test /\ todo' = todo /\ phase' = phase
      /\ held' = [held EXCEPT ![t] = @ - 1] /\ s' = Given(s, f, t)
  BY DEF HandOver, requests
<1>3. /\ Owned' = [Owned EXCEPT ![t] = @ - 1] /\ held' \in Tally
      /\ Owned \in Tally /\ Owned[t] > 0
  BY <1>1, <1>2, HandsOver
<1>4. /\ Proper(class, s', Owned') /\ Same(s, s')
      /\ \A g \in FieldsOf(class) : g # f => s'.val[g] = s.val[g]
  <2>1. Proper(class, s, Owned) /\ f \notin {"Dprior", "Sigma"}
    BY <1>1 DEF Accounted
  <2>2. /\ Proper(class, Given(s, f, t), [Owned EXCEPT ![t] = @ - 1]) /\ Same(s, Given(s, f, t))
        /\ \A g \in FieldsOf(class) : g # f => Given(s, f, t).val[g] = s.val[g]
    BY <1>3, <2>1, HandedProper
  <2> QED BY <1>2, <1>3, <2>2
<1>5. \A g \in BankFields \intersect Private(class) : s'.val[g] = s.val[g]
  BY <1>4 DEF FieldsOf
<1> QED BY <1>1, <1>2, <1>3, <1>4, <1>5, StaysAccounted

(* A call that takes references of its own, or drops them.                 *)
LEMMA LendAccounted ==
    ASSUME CountInv, phase = "life", class \in DOMAIN Classes, class # "test",
           UNCHANGED <<class, phase, requests, program>>,
           Proper(class, s', Owned), Same(s, s'),
           \A f \in BankFields \intersect Private(class) : s'.val[f] = s.val[f]
    PROVE  CountInv'
<1>1. /\ class' = class /\ keeps' = keeps /\ test' = test /\ todo' = todo /\ phase' = phase
      /\ held' = held /\ Owned' = Owned
  BY DEF program, requests, Owned
<1>2. held \in Tally /\ test \in BOOLEAN
  BY DEF CountInv
<1> QED BY <1>1, <1>2, StaysAccounted

(* The classes that list or hold items and points have no field for the    *)
(* bank of an algorithm.                                                   *)
LEMMA NoBanks == \A c \in {"examinee", "item", "item_bank"} : BankFields \intersect Private(c) = {}
  BY DEF BankFields, Private

(* The covariates of an examinee are created at the first reading.         *)
LEMMA ReadCovariatesAccounted == CountInv /\ ReadCovariates => CountInv'
<1> SUFFICES ASSUME CountInv, ReadCovariates PROVE CountInv'
  OBVIOUS
<1>1. /\ class = "examinee" /\ phase = "life" /\ UNCHANGED <<class, phase, requests, program>>
      /\ s' = ExamineeReadCovariates(s)
  BY DEF ReadCovariates, Living
<1>2. /\ Proper(class, s, Owned) /\ class \in DOMAIN Classes /\ Owned \in Tally
      /\ "covariates" \in HoldersOf(class) /\ NewCovariates \in Things
  BY <1>1, OwnedType, HoldersHave, ObjectsAreThings DEF CountInv, Accounted
<1>3. Proper(class, s', Owned) /\ Same(s, s')
  <2>1. CASE s.val["covariates"] # Null
    BY <1>1, <1>2, <2>1 DEF ExamineeReadCovariates, Same
  <2>2. CASE s.val["covariates"] = Null
    <3>1. Unref(s.refs, s.val["covariates"]) = s.refs
      BY <2>2 DEF Unref
    <3>2. s' = Replaced(s, "covariates", NewCovariates)
      BY <1>1, <2>2, <3>1 DEF ExamineeReadCovariates, Replaced
    <3>3. "covariates" \notin {"Dprior", "Sigma"}
      OBVIOUS
    <3> QED BY <1>2, <3>2, <3>3, ReplacedProper
  <2> QED BY <2>1, <2>2
<1> QED BY <1>1, <1>2, <1>3, NoBanks, LendAccounted

(* The algorithm is given a space that may have another size.              *)
LEMMA ResizeAccounted ==
    ASSUME CountInv, NEW space \in Spaces, Resize(space)
    PROVE  CountInv'
<1>1. /\ class = "max_kl" /\ phase = "life" /\ UNCHANGED <<class, phase, requests, program>>
      /\ s' = MaxKlResize(s, space)
  BY DEF Resize, Living, Lend
<1>2. /\ Proper(class, s, Owned) /\ class \in DOMAIN Classes /\ Owned \in Tally
      /\ {"chooser.bank", "space", "theta.space"} \subseteq HoldersOf(class) /\ space \in Things
  BY <1>1, OwnedType, HoldersHave, ObjectsAreThings DEF CountInv, Accounted
<1> DEFINE pointed == Replaced(s, "theta.space", space)
           q == Replaced(pointed, "space", space)
<1>3. s' = pointed \/ s' = q
  BY <1>1 DEF MaxKlResize
<1>4. "chooser.bank" \in FieldsOf(class)
  BY <1>2, FieldsFinite
<1>7. /\ "theta.space" \notin {"Dprior", "Sigma"} /\ "space" \notin {"Dprior", "Sigma"}
  OBVIOUS
<1>5. /\ Proper(class, pointed, Owned) /\ Same(s, pointed)
      /\ pointed.val["chooser.bank"] = s.val["chooser.bank"]
  <2>1. /\ Proper(class, pointed, Owned) /\ Same(s, pointed)
        /\ \A g \in FieldsOf(class) : g # "theta.space" => pointed.val[g] = s.val[g]
    BY <1>2, <1>7, ReplacedProper
  <2> QED BY <1>4, <2>1
<1> HIDE DEF pointed
<1>6. /\ Proper(class, q, Owned) /\ Same(pointed, q)
      /\ q.val["chooser.bank"] = pointed.val["chooser.bank"]
  <2>1. /\ Proper(class, q, Owned) /\ Same(pointed, q)
        /\ \A g \in FieldsOf(class) : g # "space" => q.val[g] = pointed.val[g]
    BY <1>2, <1>5, <1>7, ReplacedProper
  <2> QED BY <1>4, <2>1
<1> HIDE DEF q
<1>8. Proper(class, s', Owned) /\ Same(s, s') /\ s'.val["chooser.bank"] = s.val["chooser.bank"]
  BY <1>3, <1>5, <1>6 DEF Same
<1>9. BankFields \intersect Private(class) = {"chooser.bank"} /\ class # "test"
  BY <1>1 DEF BankFields, Private
<1> QED BY <1>1, <1>2, <1>8, <1>9, LendAccounted

(* An item is recorded, added or removed.                                  *)
LEMMA ArraysAccounted ==
    ASSUME CountInv, class \in {"examinee", "item_bank"}, phase = "life",
           UNCHANGED <<class, phase, requests, program>>,
           NEW t \in Things, s' \in {Listed(s, t), Unlisted(s, t), ListEmptied(s)}
    PROVE  CountInv'
<1>1. Proper(class, s, Owned) /\ class \in DOMAIN Classes /\ Owned \in Tally /\ class # "test"
  BY OwnedType, ClassNames DEF CountInv, Accounted
<1>2. Proper(class, s', Owned) /\ Same(s, s')
  BY <1>1, ArraysProper
<1> QED BY <1>1, <1>2, NoBanks, LendAccounted

(* Every call keeps the references accounted for.                          *)
LEMMA CountStep == CountInv /\ [Next]_vars => CountInv'
<1> SUFFICES ASSUME CountInv, [Next]_vars PROVE CountInv'
  OBVIOUS
<1>1. ASSUME NEW p \in SetAtCreation(Classes[class]),
             NEW v \in Classes[class][p].range \union {Classes[class][p].first},
             GiveAtCreation(p, v)
      PROVE  CountInv'
  <2>1. /\ phase = "creation" /\ p \in todo /\ s' = SetOf(class, s, p, v) /\ todo' = todo \ {p}
        /\ UNCHANGED <<class, program>>
    BY <1>1 DEF GiveAtCreation, Becomes
  <2>2. p \in DOMAIN Classes[class] /\ p \notin todo'
    BY <2>1 DEF SetAtCreation
  <2> QED BY <2>1, <2>2, SetAccounted
<1>2. CASE Created
  <2>1. /\ phase = "creation" /\ todo = {} /\ s' = ConstructedOf(class, s)
        /\ phase' # "creation"
        /\ class' = class /\ keeps' = keeps /\ test' = test /\ todo' = todo /\ held' = held
        /\ Owned' = Owned
    BY <1>2 DEF Created, Becomes, requests, program, Owned
  <2>2. /\ Accounted /\ class \in DOMAIN Classes /\ Owned \in Tally
        /\ Proper(class, s, Owned)
        /\ class = "space" => s.val["numNat"] \in Counts \union {0}
    BY <2>1, OwnedType DEF CountInv, Accounted
  <2>3. Proper(class, s', Owned) /\ SetsOnly(class, s, s')
    BY <2>1, <2>2, ConstructedProper
  <2>4. CASE class = "test"
    <3>1. s' = s
      BY <2>1, <2>4 DEF ConstructedOf, ModelClasses
    <3>2. Accounted'
      BY <2>1, <2>2, <2>3, <3>1 DEF Accounted, FreezesOwn
    <3> QED BY <2>1, <2>2, <3>2 DEF CountInv
  <2>5. CASE class # "test"
    <3>1. Same(s, s') /\ \A f \in BankFields \intersect Private(class) : s'.val[f] = s.val[f]
      BY <2>3 DEF SetsOnly
    <3>2. held' \in Tally /\ test' \in BOOLEAN /\ (test' => test)
      BY <2>1 DEF CountInv
    <3> QED BY <2>1, <2>3, <2>5, <3>1, <3>2, StaysAccounted
  <2> QED BY <2>4, <2>5
<1>3. ASSUME NEW p \in SetLater(Classes[class]), NEW v \in Classes[class][p].range,
             SetProperty(p, v)
      PROVE  CountInv'
  <2>1. /\ phase = "life" /\ s' = SetOf(class, s, p, v) /\ todo' = todo
        /\ UNCHANGED <<class, program>> /\ phase' # "creation"
    BY <1>3 DEF SetProperty, Becomes
  <2>2. p \in DOMAIN Classes[class]
    BY DEF SetLater
  <2>3. ~(class = "test" /\ p = "itembank")
    BY ClassNames DEF SetLater, Test, ConstructOnly
  <2> QED BY <2>1, <2>2, <2>3, SetAccounted
<1>4. ASSUME NEW t \in Related(class), Drop(t) PROVE CountInv'
  <2>1. t \in Things
    <3> DEFINE ranges == UNION {Classes[class][p].range \intersect Things :
                          p \in {q \in DOMAIN Classes[class] : Classes[class][q].kind = "object"}}
               kept == CASE class = "examinee"  -> Points \union Items
                         [] class = "item"      -> Models
                         [] class = "item_bank" -> Items
                         [] class = "max_kl"    -> Spaces
                         [] OTHER               -> {}
    <3>1. ranges \subseteq Things
      OBVIOUS
    <3>2. kept \subseteq Things
      BY ObjectsAreThings
    <3>3. Related(class) = ranges \union kept \union {TestBank}
      BY DEF Related
    <3> HIDE DEF ranges, kept
    <3> QED BY <1>4, <3>1, <3>2, <3>3, ObjectsAreThings
  <2> QED BY <1>4, <2>1, DropAccounted
<1>5. CASE Prep
  <2>1. /\ class = "examinee" /\ phase = "life" /\ s' = ListEmptied(s)
        /\ UNCHANGED <<class, phase, requests, program>>
    BY <1>5 DEF Prep, Living, ExamineePrep
  <2> QED BY <2>1, ArraysAccounted, ObjectsAreThings
<1>6. ASSUME NEW name \in {"simDefault", "estDefault"}, NEW theta \in Points, SetTheta(name, theta)
      PROVE  CountInv'
  <2>1. class = "examinee" /\ phase = "life" /\ HandOver(Given(s, name, theta), theta)
    BY <1>6 DEF SetTheta, Living, ExamineeSetTheta
  <2>2. /\ class \in DOMAIN Classes /\ theta \in Things /\ name \in HoldersOf(class)
        /\ name \notin {"Dprior", "Sigma"} \union BankFields
    BY <2>1, ObjectsAreThings, HoldersHave DEF CountInv, BankFields
  <2> QED BY <2>1, <2>2, HandOverAccounted
<1>7. ASSUME NEW item \in Items, Record(item) \/ AddItem(item) \/ RemoveItem(item)
      PROVE  CountInv'
  <2>1. /\ class \in {"examinee", "item_bank"} /\ phase = "life"
        /\ s' \in {Listed(s, item), Unlisted(s, item), ListEmptied(s)}
        /\ UNCHANGED <<class, phase, requests, program>>
    BY <1>7 DEF Record, AddItem, RemoveItem, Lend, Living, ExamineeAddItem, ItemBankAddItem,
                ItemBankRemoveItem
  <2> QED BY <2>1, ArraysAccounted, ObjectsAreThings
<1>8. ASSUME NEW name \in {"default", "other"}, NEW model \in Models, SetModel(name, model)
      PROVE  CountInv'
  <2>1. class = "item" /\ phase = "life" /\ HandOver(Given(s, name, model), model)
    BY <1>8 DEF SetModel, Living, ItemSetModel
  <2>2. /\ class \in DOMAIN Classes /\ model \in Things /\ name \in HoldersOf(class)
        /\ name \notin {"Dprior", "Sigma"} \union BankFields
    BY <2>1, ObjectsAreThings, HoldersHave DEF CountInv, BankFields
  <2> QED BY <2>1, <2>2, HandOverAccounted
<1>9. CASE UNCHANGED vars
  BY <1>9 DEF vars, CountInv, Accounted, Owned
<1>10. CASE Register \/ Keep \/ Release \/ DropTest \/ ReadCovariates
  BY <1>10, RegisterAccounted, KeepAccounted, ReleaseAccounted, DropTestAccounted,
     ReadCovariatesAccounted
<1>11. ASSUME NEW space \in Spaces, Resize(space) PROVE CountInv'
  BY <1>11, ResizeAccounted
<1> QED
  BY <1>1, <1>2, <1>3, <1>4, <1>5, <1>6, <1>7, <1>8, <1>9, <1>10, <1>11 DEF Next

(* The references that are accounted for are those the fields, the arrays  *)
(* and the connections have.                                               *)
LEMMA CountInvCounted == CountInv => Counted
<1> SUFFICES ASSUME CountInv, Accounted PROVE Counted
  BY DEF CountInv, Counted
<1> DEFINE D == FieldsOf(class)
           H == HoldersOf(class)
<1>4. IsFiniteSet(D) /\ Sound(D, H, s, Owned) /\ Owned \in Tally /\ held \in Tally
  BY OwnedType, FieldsFinite DEF CountInv, Accounted, Proper
<1> HIDE DEF D, H
<1>1. s.count = keeps + s.handlers + One(s.floating)
  BY DEF Accounted
<1>2. ASSUME NEW t \in Things \ Vectors
      PROVE  s.refs[t] = held[t] + Referring(t) + One(test /\ t = TestBank)
  <2>1. s.refs[t] = Owned[t] + Referrers(s, t) /\ Owned[t] = held[t] + One(test /\ t = TestBank)
    BY <1>4 DEF Sound, Balanced, Owned
  <2>2. Referrers(s, t) = Referring(t)
    BY DEF Referrers, Referring, Pointing
  <2>3. Referrers(s, t) \in Nat
    <3>1. Cardinality(Pointing(s.val, t)) \in Nat
      BY <1>4, ReferredIsThere
    <3>2. s.listed[t] \in Nat
      BY <1>4 DEF Sound, IsObject, Tally
    <3> QED BY <3>1, <3>2 DEF Referrers
  <2>4. held[t] \in Nat /\ One(test /\ t = TestBank) \in Nat
    BY <1>4 DEF One, Tally
  <2> QED BY <2>1, <2>2, <2>3, <2>4
<1>3. class = "test" => s.frozen = {s.val["itembank"]} \ {Null}
  BY DEF Accounted, FreezesOwn
<1> QED BY <1>1, <1>2, <1>3 DEF Counted

(* Every reference is dropped once and by its owner, for any class, any    *)
(* objects and any order of the calls.                                     *)
THEOREM CountedAlways == Spec => []Counted
<1> QED BY CountInit, CountStep, CountInvCounted, PTL DEF Spec

-----------------------------------------------------------------------------
(* Properties read as they were set.                                       *)

(* What remains of the value a that a property p was last set to.          *)
Odd == {"Ncat", "Sigma", "covariates", "Nstrata", "Nitems", "dims"}

Kept(c, creating, val, want, p) ==
    LET a == want[p] IN
    /\ p \notin Odd => val[p] = Stored(Classes[c], p, a)
    /\ p = "Ncat" => val[p] = a - 1
    /\ p = "Sigma" =>
         /\ a = Null => val[p] = Null
         /\ a # Null => val[p] # Null /\ (val[p].times = 2 \/ val[p] = Cholesky(a))
    /\ p = "covariates" =>
         /\ c \in ModelClasses => val[p] = IF a = Null THEN Null ELSE CopyOf(a)
         /\ c \notin ModelClasses => val[p] = a \/ (a = Null /\ val[p] = NewCovariates)
    /\ p = "Nstrata" /\ val["Nitems"] = Null => val[p] = a
    /\ p = "Nitems" => val[p] # Null /\ val["Nstrata"] = Len(a)
    /\ p = "dims" =>
         /\ creating => val[p] = a
         /\ ~creating /\ want["space"] # Null =>
              val[p] = IF a \in {Null, <<>>} THEN <<FirstDim>> ELSE a

\* The properties that are ever set.
Settable(c) == SetAtCreation(Classes[c]) \union SetLater(Classes[c])

(* A property that is set has a value of its range, which its field keeps; *)
(* at creation those that are still to be set are zero and no other was    *)
(* set, and afterwards all of those given at creation have been.           *)
ReadInv ==
    phase \in {"creation", "life"} =>
        /\ DOMAIN asked = Settable(class)
        /\ todo \subseteq SetAtCreation(Classes[class])
        /\ phase = "life" => todo = {}
        /\ \A p \in Settable(class) :
             /\ asked[p] # Unset => asked[p] \in Classes[class][p].range
                                                 \union {Classes[class][p].first}
             /\ asked[p] # Unset => Kept(class, phase = "creation", s.val, asked, p)
             /\ asked[p] = Unset => p \notin SetAtCreation(Classes[class]) \/ p \in todo
             /\ phase = "creation" /\ p \notin SetAtCreation(Classes[class]) => asked[p] = Unset
             /\ p \in todo => s.val[p] = Null

KeyNames == {"modelKey", "thetaKey", "simKey", "estKey"}
PriorNames == {"mu", "Sigma", "Dprior"}
StrataNames == {"equal", "Nstrata", "Nitems"}

(* Which classes have the properties that are not set like all others.     *)
Named(c, K) ==
    \A p \in DOMAIN K :
        /\ K[p].kind = "key" <=> p \in KeyNames
        /\ K[p].kind = "id" <=> p = "id"
        /\ p \in StrataNames => c = "astrat"
        /\ p \in PriorNames => c \in {"max_kl", "estimate"}
        /\ p \in {"dims", "Ncat"} => c \in ModelClasses
        /\ p = "covariates" => c = "examinee" \/ c \in ModelClasses
        /\ p \in {"max", "numNat"} => c = "space"

(* The properties of the algorithms have their names.                      *)
LEMMA AlgorithmsNamed == \A c \in Algorithms : Named(c, Classes[c])
<1> USE DEF Named, ConstructOnly, Construct, Plain, ReadOnly, Key, NumChosen, KeyNames,
            PriorNames, StrataNames
<1>1. Named("fixed_length", FixedLength)
  BY DEF FixedLength
<1>2. Named("simulate", Simulate)
  BY DEF Simulate
<1>3. Named("class_rates", ClassRates)
  BY DEF ClassRates
<1>4. Named("pick_rand", <<>>) /\ Named("exposure_counter", <<>>)
  OBVIOUS
<1>5. Named("closest_diff", ClosestDiff)
  BY DEF ClosestDiff
<1>6. Named("max_fisher", MaxFisher)
  BY DEF MaxFisher
<1>7. Named("max_kl", MaxKl)
  BY DEF MaxKl
<1>8. Named("estimate", Estimate)
  BY DEF Estimate
<1>9. Named("astrat", Astrat)
  BY DEF Astrat
<1> HIDE DEF Named
<1> QED
  BY <1>1, <1>2, <1>3, <1>4, <1>5, <1>6, <1>7, <1>8, <1>9, ClassNames DEF Algorithms

(* So have those of all classes.                                           *)
LEMMA AllNamed == \A c \in DOMAIN Classes : Named(c, Classes[c])
<1> USE DEF Named, ConstructOnly, Construct, Plain, ReadOnly, Key, NumChosen, KeyNames,
            PriorNames, StrataNames, ID
<1>1. Named("chooser", Chooser) /\ Named("stratify", Stratify)
  BY DEF Chooser, Stratify
<1>2. Named("test", Test)
  BY DEF Test
<1>3. Named("examinee", Examinee)
  BY DEF Examinee
<1>4. Named("item", Administrand) /\ Named("item_bank", ItemBank)
  BY DEF Administrand, ItemBank
<1>5. Named("space", Space) /\ Named("point", Point)
  BY DEF Space, Point
<1>6. ASSUME NEW c \in ModelClasses PROVE Named(c, WithCategories(Model))
  <2> DEFINE K == WithCategories(Model)
  <2>1. /\ DOMAIN K = ModelFields /\ K["space"].kind = "object" /\ K["dims"].kind = "value"
        /\ K["covariates"].kind = "value" /\ K["Ncat"] = Ncat
    BY ModelDeclared
  <2> HIDE DEF K
  <2>2. Named(c, K)
    BY <2>1 DEF ModelFields, Ncat
  <2> QED BY <2>2 DEF K
<1> HIDE DEF Named
<1> QED
  BY <1>1, <1>2, <1>3, <1>4, <1>5, <1>6, AlgorithmsNamed, ClassNames

(* A model is described when it is created, and when a property of the     *)
(* other classes may be set.                                               *)
LEMMA WhenSet ==
    /\ \A c \in ModelClasses : SetLater(Classes[c]) = {} /\ SetAtCreation(Classes[c]) = ModelFields
    /\ "numNat" \in SetAtCreation(Space) /\ "max" \notin SetAtCreation(Space)
    /\ "numNat" \notin SetLater(Space) /\ "covariates" \notin SetAtCreation(Examinee)
<1>1. ASSUME NEW c \in ModelClasses
      PROVE  SetLater(Classes[c]) = {} /\ SetAtCreation(Classes[c]) = ModelFields
  <2> DEFINE K == Classes[c]
  <2>1. K = WithCategories(Model)
    BY ClassNames
  <2>2. /\ DOMAIN Model = {"space", "dims", "covariates"}
        /\ \A p \in DOMAIN Model : Model[p].when = "creation"
    BY DEF Model, ConstructOnly
  <2>3. DOMAIN K = ModelFields /\ \A p \in DOMAIN Model : K[p] = Model[p]
    BY <2>1, <2>2 DEF WithCategories, ModelFields
  <2>4. K["Ncat"] = Ncat /\ Ncat.when = "creation"
    BY <2>1, ModelDeclared DEF Ncat, ConstructOnly
  <2> HIDE DEF K
  <2>5. \A p \in DOMAIN K : K[p].when = "creation"
    BY <2>2, <2>3, <2>4 DEF ModelFields
  <2>6. SetLater(K) = {} /\ SetAtCreation(K) = ModelFields
    BY <2>3, <2>5 DEF SetLater, SetAtCreation
  <2> QED BY <2>6 DEF K
<1>2. /\ "numNat" \in SetAtCreation(Space) /\ "max" \notin SetAtCreation(Space)
      /\ "numNat" \notin SetLater(Space)
  BY DEF Space, SetAtCreation, SetLater, ConstructOnly, Plain, ID
<1>3. "covariates" \notin SetAtCreation(Examinee)
  BY DEF Examinee, SetAtCreation, ConstructOnly, Plain, ID
<1> QED BY <1>1, <1>2, <1>3

(* What a setter that returns leaves in the fields that have properties.   *)
Takes(c, o, p, v, q) ==
    /\ \A f \in DOMAIN Classes[c] :
         f # p /\ ~(p = "Nitems" /\ f = "Nstrata") => q.val[f] = o.val[f]
    /\ p \notin Odd \union {"max"} => q.val[p] = Stored(Classes[c], p, v)
    /\ p = "max" => q.val[p] = IF v = Null \/ Len(v) # o.val["numNat"] THEN o.val[p] ELSE v
    /\ p = "Ncat" => q.val[p] = v - 1
    /\ p = "Sigma" =>
         /\ v = Null => q.val[p] = Null
         /\ v # Null => q.val[p] # Null /\ (q.val[p].times = 2 \/ q.val[p] = Cholesky(v))
    /\ p = "covariates" =>
         q.val[p] = IF c \notin ModelClasses THEN v
                    ELSE IF v = Null THEN o.val[p] ELSE CopyOf(v)
    /\ p = "Nstrata" => q.val[p] = IF o.val["Nitems"] = Null THEN v ELSE o.val[p]
    /\ p = "Nitems" =>
         LET refused == o.val["equal"] \/ v \in {Null, <<>>}
         IN  /\ q.val[p] = IF refused THEN o.val[p] ELSE v
             /\ q.val["Nstrata"] = IF refused THEN o.val["Nstrata"] ELSE Len(v)
    /\ p = "dims" => q.val[p] = v

(* An object with the fields of its class.                                 *)
HasAll(c, o) ==
    /\ IsObject(o) /\ DOMAIN o.val = FieldsOf(c) /\ HasFactor(c, o)

(* What writing a field leaves of the others.                              *)
LEMMA FieldValues ==
    ASSUME NEW o, IsObject(o), NEW p, NEW v
    PROVE  /\ SetField(o, p, v).val = [o.val EXCEPT ![p] = v]
           /\ Given(o, p, v).val = [o.val EXCEPT ![p] = v]
BY DEF SetField, Given, IsObject

(* The setter that most properties have writes one field.                  *)
LEMMA SetValues ==
    ASSUME NEW o, IsObject(o), NEW K, NEW p, NEW v
    PROVE  Set(K, o, p, v).val = [o.val EXCEPT ![p] = Stored(K, p, v)]
<1>1. CASE K[p].kind = "object"
  BY <1>1 DEF Set, Replaced, Stored, IsObject
<1>2. CASE K[p].kind # "object"
  BY <1>2 DEF Set, SetField, Stored, IsObject
<1> QED BY <1>1, <1>2

(* A setter that writes one field.                                         *)
LEMMA OneFieldTakes ==
    ASSUME NEW c \in DOMAIN Classes, NEW o, HasAll(c, o), NEW p \in DOMAIN Classes[c],
           p \notin Odd \union {"max"}, NEW v,
           NEW q, q.val = [o.val EXCEPT ![p] = Stored(Classes[c], p, v)]
    PROVE  Takes(c, o, p, v, q)
<1>1. p \in DOMAIN o.val /\ DOMAIN Classes[c] \subseteq DOMAIN o.val
  BY DEF HasAll, FieldsOf
<1>2. q.val[p] = Stored(Classes[c], p, v) /\ \A f \in DOMAIN Classes[c] : f # p => q.val[f] = o.val[f]
  BY <1>1
<1> QED BY <1>2 DEF Takes, Odd

(* The setter that most properties have.                                   *)
LEMMA PlainTakes ==
    ASSUME NEW c \in DOMAIN Classes, NEW o, HasAll(c, o), NEW p \in DOMAIN Classes[c],
           p \notin Odd \union {"max"}, NEW v
    PROVE  Takes(c, o, p, v, Set(Classes[c], o, p, v))
<1> DEFINE q == Set(Classes[c], o, p, v)
<1>1. q.val = [o.val EXCEPT ![p] = Stored(Classes[c], p, v)]
  BY SetValues DEF HasAll
<1>2. Takes(c, o, p, v, q)
  <2> HIDE DEF q
  <2> QED BY <1>1, OneFieldTakes
<1> QED BY <1>2

(* The setters of the priors: a mean that is no NULL pointer does not      *)
(* return, and a matrix of another size leaves the factor there was.       *)
LEMMA PriorTakes ==
    ASSUME NEW c \in {"max_kl", "estimate"}, NEW o, HasAll(c, o), NEW p \in DOMAIN Classes[c],
           NEW v \in Classes[c][p].range \union {Classes[c][p].first},
           NEW q, q = SetPrior(Classes[c], o, p, v), ~q.crashed
    PROVE  Takes(c, o, p, v, q)
<1> DEFINE K == Classes[c]
<1>1. /\ c \in DOMAIN Classes /\ p \in DOMAIN o.val /\ IsObject(o) /\ c \notin ModelClasses
      /\ DOMAIN K \subseteq DOMAIN o.val
  BY ClassNames DEF Algorithms, HasAll, FieldsOf, ModelClasses
<1>2. K = MaxKl \/ K = Estimate
  BY ClassNames
<1>3. Named(c, K)
  BY <1>1, AllNamed
<1>4. p \notin {"Ncat", "covariates", "Nstrata", "Nitems", "dims", "max"}
  BY <1>1, <1>3 DEF Named, ModelClasses, StrataNames
<1>5. CASE p = "Sigma"
  <2>1. v \in Matrices \union {Null}
    BY <1>2, <1>5 DEF MaxKl, Estimate, Construct, Plain, OrNull
  <2>2. IsFactor(o.val["Sigma"])
    BY DEF HasAll, HasFactor
  <2>3. q = SetSigma(o, v)
    BY <1>5 DEF SetPrior
  <2>4. \A w : SetField(o, "Sigma", w).val = [o.val EXCEPT !["Sigma"] = w]
    BY <1>1 DEF SetField, IsObject
  <2>5. \A w : SetField(o, "Sigma", w).val["Sigma"] = w
               /\ \A f \in DOMAIN K : f # "Sigma" => SetField(o, "Sigma", w).val[f] = o.val[f]
    BY <1>1, <1>5, <2>4
  <2>6. \A half \in [of : Matrices, times : {1, 2}] : half # Null
    BY UnsetAssumption DEF Made
  <2>7. CASE v = Null
    <3>1. q = SetField(o, "Sigma", Null)
      BY <2>3, <2>7 DEF SetSigma
    <3> QED BY <1>4, <1>5, <2>5, <2>7, <3>1 DEF Takes, Odd
  <2>8. CASE v # Null
    <3>1. v \in Matrices
      BY <2>1, <2>8
    <3>2. CASE o.val["Sigma"] # Null /\ SizeOf(o.val["Sigma"].of) # SizeOf(v)
      <4> DEFINE w == [o.val["Sigma"] EXCEPT !.times = 2]
      <4>1. q = SetField(o, "Sigma", w)
        BY <2>3, <2>8, <3>2 DEF SetSigma
      <4>2. w \in [of : Matrices, times : {1, 2}] /\ w.times = 2
        BY <2>2, <3>2 DEF IsFactor
      <4> HIDE DEF w
      <4>3. w # Null
        BY <2>6, <4>2
      <4> QED BY <1>4, <1>5, <2>5, <2>8, <4>1, <4>2, <4>3 DEF Takes, Odd
    <3>3. CASE ~(o.val["Sigma"] # Null /\ SizeOf(o.val["Sigma"].of) # SizeOf(v))
      <4>1. q = SetField(o, "Sigma", Cholesky(v))
        BY <2>3, <2>8, <3>3 DEF SetSigma
      <4>2. Cholesky(v) \in [of : Matrices, times : {1, 2}]
        BY <3>1 DEF Cholesky
      <4>3. Cholesky(v) # Null
        BY <2>6, <4>2
      <4> QED BY <1>4, <1>5, <2>5, <2>8, <4>1, <4>3 DEF Takes, Odd
    <3> QED BY <3>2, <3>3
  <2> QED BY <2>7, <2>8
<1>6. CASE p = "mu"
  <2>1. q = SetMu(o, v)
    BY <1>6 DEF SetPrior
  <2>2. Crash(o).crashed = TRUE
    BY <1>1 DEF Crash, IsObject
  <2>3. q = SetField(o, "mu", v)
    BY <2>1, <2>2 DEF SetMu
  <2>4. q.val = [o.val EXCEPT !["mu"] = v]
    BY <1>1, <2>3 DEF SetField, IsObject
  <2>5. Stored(K, p, v) = v
    BY <1>3, <1>6 DEF Named, Stored, KeyNames
  <2> QED BY <1>1, <1>6, <2>4, <2>5, OneFieldTakes DEF Odd
<1>7. CASE p = "Dprior"
  <2>1. q = Given(o, "Dprior", v)
    BY <1>7 DEF SetPrior, SetDprior
  <2>2. q.val = [o.val EXCEPT !["Dprior"] = v]
    BY <1>1, <2>1 DEF Given, IsObject
  <2>3. Stored(K, p, v) = v
    BY <1>3, <1>7 DEF Named, Stored, KeyNames
  <2> QED BY <1>1, <1>7, <2>2, <2>3, OneFieldTakes DEF Odd
<1>8. CASE p \notin {"mu", "Sigma", "Dprior"}
  <2>1. q = Set(K, o, p, v)
    BY <1>8 DEF SetPrior
  <2> QED BY <1>1, <1>4, <1>8, <2>1, PlainTakes DEF Odd
<1> QED BY <1>5, <1>6, <1>7, <1>8

(* The setter of the models copies the covariates.                         *)
LEMMA ModelTakes ==
    ASSUME NEW c \in ModelClasses, NEW o, HasAll(c, o), NEW p \in DOMAIN Classes[c], NEW v,
           NEW q, q = ModelSet(Classes[c], o, p, v)
    PROVE  Takes(c, o, p, v, q)
<1> DEFINE K == Classes[c]
<1>1. /\ c \in DOMAIN Classes /\ p \in DOMAIN o.val /\ IsObject(o)
      /\ DOMAIN K \subseteq DOMAIN o.val
  BY ClassNames DEF HasAll, FieldsOf
<1>2. K = WithCategories(Model)
  BY ClassNames
<1>3. DOMAIN K = ModelFields /\ K["dims"].kind = "value"
  BY <1>2, ModelDeclared
<1>4. p \notin {"Sigma", "Nstrata", "Nitems", "max"}
  BY <1>3 DEF ModelFields
<1>5. CASE p = "Ncat"
  <2>1. q.val = [o.val EXCEPT ![p] = v - 1]
    BY <1>1, <1>5 DEF ModelSet, SetField, IsObject
  <2>2. q.val[p] = v - 1 /\ \A f \in DOMAIN K : f # p => q.val[f] = o.val[f]
    BY <1>1, <2>1
  <2> QED BY <1>5, <2>2 DEF Takes, Odd
<1>6. CASE p = "covariates"
  <2>1. CASE v = Null
    <3>1. q = o
      BY <1>6, <2>1 DEF ModelSet
    <3> QED BY <1>6, <2>1, <3>1 DEF Takes, Odd
  <2>2. CASE v # Null
    <3>1. q.val = [o.val EXCEPT ![p] = CopyOf(v)]
      BY <1>1, <1>6, <2>2 DEF ModelSet, SetField, IsObject
    <3>2. q.val[p] = CopyOf(v) /\ \A f \in DOMAIN K : f # p => q.val[f] = o.val[f]
      BY <1>1, <3>1
    <3> QED BY <1>6, <2>2, <3>2 DEF Takes, Odd
  <2> QED BY <2>1, <2>2
<1>7. CASE p = "dims"
  <2>1. q = Set(K, o, p, v)
    BY <1>7 DEF ModelSet
  <2>2. q.val = [o.val EXCEPT ![p] = Stored(K, p, v)]
    BY <1>1, <2>1, SetValues
  <2>3. Stored(K, p, v) = v
    BY <1>3, <1>7 DEF Stored
  <2>4. q.val[p] = v /\ \A f \in DOMAIN K : f # p => q.val[f] = o.val[f]
    BY <1>1, <2>2, <2>3
  <2> QED BY <1>7, <2>4 DEF Takes, Odd
<1>8. CASE p \notin {"Ncat", "covariates", "dims"}
  <2>1. q = Set(K, o, p, v)
    BY <1>8 DEF ModelSet
  <2> QED BY <1>1, <1>4, <1>8, <2>1, PlainTakes DEF Odd
<1> QED BY <1>5, <1>6, <1>7, <1>8

(* The setter of a space takes one maximum for each dimension.             *)
LEMMA SpaceTakes ==
    ASSUME NEW o, HasAll("space", o), NEW p \in DOMAIN Space, NEW v,
           NEW q, q = SpaceSet(o, p, v)
    PROVE  Takes("space", o, p, v, q)
<1>1. /\ "space" \in DOMAIN Classes /\ Classes["space"] = Space
      /\ p \in DOMAIN o.val /\ IsObject(o) /\ DOMAIN Space \subseteq DOMAIN o.val
  BY ClassNames DEF HasAll, FieldsOf
<1>2. p \notin Odd
  BY DEF Space, Odd
<1>3. CASE p = "max"
  <2>1. CASE v = Null \/ Len(v) # o.val["numNat"]
    <3>1. q = o
      BY <1>3, <2>1 DEF SpaceSet
    <3> QED BY <1>3, <2>1, <3>1 DEF Takes, Odd
  <2>2. CASE ~(v = Null \/ Len(v) # o.val["numNat"])
    <3>1. q.val = [o.val EXCEPT ![p] = v]
      BY <1>1, <1>3, <2>2 DEF SpaceSet, SetField, IsObject
    <3>2. q.val[p] = v /\ \A f \in DOMAIN Space : f # p => q.val[f] = o.val[f]
      BY <1>1, <3>1
    <3> QED BY <1>1, <1>3, <2>2, <3>2 DEF Takes, Odd
  <2> QED BY <2>1, <2>2
<1>4. CASE p # "max"
  <2>1. q = Set(Classes["space"], o, p, v)
    BY <1>1, <1>4 DEF SpaceSet
  <2> QED BY <1>1, <1>2, <1>4, <2>1, PlainTakes
<1> QED BY <1>3, <1>4

(* The setter of the a-stratified algorithm: quotas give their number.     *)
LEMMA AstratTakes ==
    ASSUME NEW o, HasAll("astrat", o), NEW p \in DOMAIN Astrat, NEW v,
           NEW q, q = AstratSet(o, p, v)
    PROVE  Takes("astrat", o, p, v, q)
<1>1. /\ "astrat" \in DOMAIN Classes /\ Classes["astrat"] = Astrat
      /\ p \in DOMAIN o.val /\ IsObject(o) /\ DOMAIN Astrat \subseteq DOMAIN o.val
  BY ClassNames DEF HasAll, FieldsOf, Algorithms
<1>2. /\ p \notin {"Ncat", "Sigma", "covariates", "dims", "max"}
      /\ "Nstrata" \in DOMAIN Astrat /\ "Nitems" \in DOMAIN Astrat
  BY DEF Astrat
<1>3. CASE p = "Nstrata"
  <2>1. CASE o.val["Nitems"] # Null
    <3>1. q = o
      BY <1>3, <2>1 DEF AstratSet
    <3> QED BY <1>3, <2>1, <3>1 DEF Takes, Odd
  <2>2. CASE o.val["Nitems"] = Null
    <3>1. q.val = [o.val EXCEPT ![p] = v]
      BY <1>1, <1>3, <2>2 DEF AstratSet, SetField, IsObject
    <3>2. q.val[p] = v /\ \A f \in DOMAIN Astrat : f # p => q.val[f] = o.val[f]
      BY <1>1, <3>1
    <3> QED BY <1>1, <1>3, <2>2, <3>2 DEF Takes, Odd
  <2> QED BY <2>1, <2>2
<1>4. CASE p = "Nitems"
  <2>1. CASE o.val["equal"] \/ v = Null \/ v = <<>>
    <3>1. q = o
      BY <1>4, <2>1 DEF AstratSet
    <3> QED BY <1>4, <2>1, <3>1 DEF Takes, Odd
  <2>2. CASE ~(o.val["equal"] \/ v = Null \/ v = <<>>)
    <3>1. q = [o EXCEPT !.val["Nstrata"] = Len(v), !.val["Nitems"] = v]
      BY <1>4, <2>2 DEF AstratSet
    <3>2. q.val = [[o.val EXCEPT !["Nstrata"] = Len(v)] EXCEPT !["Nitems"] = v]
      BY <1>1, <3>1 DEF IsObject
    <3>3. /\ q.val["Nitems"] = v /\ q.val["Nstrata"] = Len(v)
          /\ \A f \in DOMAIN Astrat : f \notin {"Nitems", "Nstrata"} => q.val[f] = o.val[f]
      BY <1>1, <1>2, <3>2
    <3> QED BY <1>1, <1>4, <2>2, <3>3 DEF Takes, Odd
  <2> QED BY <2>1, <2>2
<1>5. CASE p \notin {"Nstrata", "Nitems"}
  <2>1. q = Set(Classes["astrat"], o, p, v)
    BY <1>1, <1>5 DEF AstratSet
  <2> QED BY <1>1, <1>2, <1>5, <2>1, PlainTakes DEF Odd
<1> QED BY <1>3, <1>4, <1>5

(* The setter of every class.                                              *)
LEMMA SetOfTakes ==
    ASSUME NEW c \in DOMAIN Classes, NEW o, HasAll(c, o), NEW p \in DOMAIN Classes[c],
           NEW v \in Classes[c][p].range \union {Classes[c][p].first},
           NEW q, q = SetOf(c, o, p, v), ~q.crashed
    PROVE  Takes(c, o, p, v, q)
<1>1. p \in DOMAIN o.val /\ IsObject(o) /\ DOMAIN Classes[c] \subseteq DOMAIN o.val
  BY DEF HasAll, FieldsOf
<1>2. Named(c, Classes[c])
  BY AllNamed
<1>3. CASE c \in {"max_kl", "estimate"}
  <2>1. q = SetPrior(Classes[c], o, p, v)
    BY <1>3, ClassNames DEF SetOf, MaxKlSet, EstimateSet, ModelClasses
  <2> QED BY <1>3, <2>1, PriorTakes
<1>4. CASE c = "astrat"
  <2>1. q = AstratSet(o, p, v) /\ p \in DOMAIN Astrat
    BY <1>4, ClassNames DEF SetOf, ModelClasses
  <2> QED BY <1>4, <2>1, AstratTakes
<1>5. CASE c = "space"
  <2>1. q = SpaceSet(o, p, v) /\ p \in DOMAIN Space
    BY <1>5, ClassNames DEF SetOf, ModelClasses
  <2> QED BY <1>5, <2>1, SpaceTakes
<1>6. CASE c \in ModelClasses
  <2>1. q = ModelSet(Classes[c], o, p, v)
    BY <1>6 DEF SetOf, ModelClasses
  <2> QED BY <1>6, <2>1, ModelTakes
<1>7. CASE c = "test"
  <2>1. p \notin Odd \union {"max"}
    BY <1>2, <1>7 DEF Named, Odd, StrataNames, PriorNames, ModelClasses
  <2>2. q = TestSet(o, p, v) /\ Classes[c] = Test
    BY <1>7, ClassNames DEF SetOf, ModelClasses
  <2>3. Set(Test, o, p, v).val = [o.val EXCEPT ![p] = Stored(Test, p, v)]
    BY <1>1, SetValues
  <2>4. IsObject(Set(Test, o, p, v)) \/ "val" \in DOMAIN Set(Test, o, p, v)
    BY <1>1 DEF Set, Replaced, SetField, IsObject
  <2>5. q.val = Set(Test, o, p, v).val
    BY <2>2, <2>4 DEF TestSet, IsObject
  <2> QED BY <2>1, <2>2, <2>3, <2>5, OneFieldTakes
<1>8. CASE c \notin {"max_kl", "estimate", "astrat", "test", "space"} \union ModelClasses
  <2>1. q = Set(Classes[c], o, p, v)
    BY <1>8 DEF SetOf
  <2>2. p \notin (Odd \ {"covariates"}) \union {"max"}
    BY <1>2, <1>8 DEF Named, Odd, StrataNames, PriorNames
  <2>3. CASE p = "covariates"
    <3>1. c = "examinee" /\ Classes[c] = Examinee
      BY <1>2, <1>8, <2>3, ClassNames DEF Named
    <3>2. Examinee["covariates"].kind = "object"
      BY DEF Examinee, Plain
    <3>3. Stored(Classes[c], p, v) = v
      BY <2>3, <3>1, <3>2 DEF Stored
    <3>4. q.val = [o.val EXCEPT ![p] = v]
      BY <1>1, <2>1, <3>3, SetValues
    <3>5. q.val[p] = v /\ \A f \in DOMAIN Classes[c] : f # p => q.val[f] = o.val[f]
      BY <1>1, <3>4
    <3> QED BY <1>8, <2>3, <3>5 DEF Takes, Odd
  <2>4. CASE p # "covariates"
    <3> QED BY <2>1, <2>2, <2>4, PlainTakes DEF Odd
  <2> QED BY <2>3, <2>4
<1> QED BY <1>3, <1>4, <1>5, <1>6, <1>7, <1>8

(* The numbers and quotas of strata belong to one class.                   *)
LEMMA StrataTogether ==
    ASSUME NEW c \in DOMAIN Classes, NEW p \in DOMAIN Classes[c], p \in StrataNames
    PROVE  /\ c = "astrat" /\ Classes[c] = Astrat /\ {"Nstrata", "Nitems"} \subseteq DOMAIN Classes[c]
           /\ "equal" \in SetAtCreation(Classes[c]) /\ "equal" \notin SetLater(Classes[c])
           /\ "Nitems" \notin SetAtCreation(Classes[c])
<1>1. c = "astrat" /\ Classes[c] = Astrat
  BY AllNamed, ClassNames DEF Named
<1> QED BY <1>1, AstratProperties DEF Fields

(* What can be set is declared.                                            *)
LEMMA Settables ==
    \A c \in DOMAIN Classes : Settable(c) \subseteq DOMAIN Classes[c]
BY DEF Settable, SetAtCreation, SetLater

(* A step that leaves the fields keeps what the properties were set to.    *)
LEMMA KeptFrame ==
    ASSUME NEW c \in DOMAIN Classes, NEW p \in DOMAIN Classes[c], NEW creating \in BOOLEAN,
           NEW val, NEW after, \A f \in DOMAIN Classes[c] : after[f] = val[f],
           NEW want, NEW later, later[p] = want[p],
           ~creating /\ p = "dims" => later["space"] = want["space"],
           Kept(c, creating, val, want, p)
    PROVE  Kept(c, creating, after, later, p)
<1>1. after[p] = val[p]
  OBVIOUS
<1>2. CASE p \in {"Nstrata", "Nitems"}
  <2>1. after["Nitems"] = val["Nitems"] /\ after["Nstrata"] = val["Nstrata"]
    BY <1>2, StrataTogether DEF StrataNames
  <2> QED BY <1>1, <1>2, <2>1 DEF Kept, Odd
<1>3. CASE p \notin {"Nstrata", "Nitems"}
  BY <1>1, <1>3 DEF Kept
<1> QED BY <1>2, <1>3

(* An object as long as no call has crashed.                               *)
LEMMA LivingHasAll ==
    ASSUME CountInv, phase # "crash"
    PROVE  class \in DOMAIN Classes /\ HasAll(class, s)
BY DEF CountInv, Accounted, Proper, Sound, HasFields, HasAll

(* So does a step that ends the life of the object.                        *)
LEMMA ReadFrame ==
    ASSUME ReadInv, class \in DOMAIN Classes, class' = class, UNCHANGED requests,
           phase' \in {"gone", "crash"} \/
             (/\ phase' = phase
              /\ \A f \in DOMAIN Classes[class] : s'.val[f] = s.val[f])
    PROVE  ReadInv'
<1>1. asked' = asked /\ todo' = todo /\ given' = given
  BY DEF requests
<1>2. SUFFICES ASSUME phase' \in {"creation", "life"} PROVE ReadInv'
  BY DEF ReadInv
<1>3. phase' = phase /\ \A f \in DOMAIN Classes[class] : s'.val[f] = s.val[f]
  BY <1>2
<1>4. /\ DOMAIN asked' = Settable(class') /\ todo' \subseteq SetAtCreation(Classes[class'])
      /\ phase' = "life" => todo' = {}
  BY <1>1, <1>2, <1>3 DEF ReadInv
<1>5. ASSUME NEW p \in Settable(class)
      PROVE  /\ asked'[p] # Unset => asked'[p] \in Classes[class'][p].range
                                                  \union {Classes[class'][p].first}
             /\ asked'[p] # Unset => Kept(class', phase' = "creation", s'.val, asked', p)
             /\ asked'[p] = Unset => p \notin SetAtCreation(Classes[class']) \/ p \in todo'
             /\ phase' = "creation" /\ p \notin SetAtCreation(Classes[class']) => asked'[p] = Unset
             /\ p \in todo' => s'.val[p] = Null
  <2>1. p \in DOMAIN Classes[class] /\ s'.val[p] = s.val[p]
    BY <1>3, Settables
  <2>2. asked[p] # Unset => Kept(class, phase = "creation", s.val, asked, p)
    BY <1>2, <1>3 DEF ReadInv
  <2>3. asked[p] # Unset => Kept(class, phase = "creation", s'.val, asked, p)
    BY <1>3, <2>1, <2>2, KeptFrame
  <2> QED BY <1>1, <1>2, <1>3, <2>1, <2>3 DEF ReadInv
<1> QED BY <1>4, <1>5 DEF ReadInv

(* What a setter takes is what is kept.                                    *)
LEMMA TakesKept ==
    ASSUME NEW c \in DOMAIN Classes, NEW p \in DOMAIN Classes[c], NEW creating \in BOOLEAN,
           NEW o, NEW v, NEW q, Takes(c, o, p, v, q), NEW want, want[p] = v,
           ~creating => p # "dims",
           p = "max" => v # Null /\ Len(v) = o.val["numNat"],
           p = "covariates" /\ c \in ModelClasses => o.val[p] = Null,
           p = "Nitems" => ~o.val["equal"] /\ v \notin {Null, <<>>}
    PROVE  Kept(c, creating, q.val, want, p)
<1>1. CASE p = "Nstrata"
  <2>1. q.val["Nitems"] = o.val["Nitems"]
    BY <1>1, StrataTogether DEF Takes, StrataNames
  <2> QED BY <1>1, <2>1 DEF Takes, Kept, Odd
<1>2. CASE p = "max"
  <2>1. Stored(Classes[c], p, v) = v
    BY <1>2, AllNamed DEF Named, Stored, KeyNames
  <2> QED BY <1>2, <2>1 DEF Takes, Kept, Odd
<1>3. CASE p = "covariates"
  BY <1>3 DEF Takes, Kept, Odd
<1>4. CASE p = "Nitems"
  BY <1>4 DEF Takes, Kept, Odd
<1>5. CASE p \in {"dims", "Ncat", "Sigma"}
  BY <1>5 DEF Takes, Kept, Odd
<1>6. CASE p \notin Odd \union {"max"}
  BY <1>6 DEF Takes, Kept, Odd
<1> QED BY <1>1, <1>2, <1>3, <1>4, <1>5, <1>6 DEF Odd

(* It leaves what the others were set to.                                  *)
LEMMA OthersKept ==
    ASSUME NEW c \in DOMAIN Classes, NEW p \in DOMAIN Classes[c], NEW creating \in BOOLEAN,
           NEW o, NEW v, NEW q, Takes(c, o, p, v, q), NEW want, NEW later,
           NEW r \in DOMAIN Classes[c], r # p, later[r] = want[r],
           ~creating /\ r = "dims" => later["space"] = want["space"],
           p = "Nstrata" => r # "Nitems" \/ q.val["Nstrata"] = o.val["Nstrata"],
           p = "Nitems" /\ r = "Nstrata" => q.val["Nitems"] # Null,
           Kept(c, creating, o.val, want, r)
    PROVE  Kept(c, creating, q.val, later, r)
<1>1. CASE r \in {"Nitems", "Nstrata"}
  <2>1. {"Nstrata", "Nitems"} \subseteq DOMAIN Classes[c]
    BY <1>1, StrataTogether DEF StrataNames
  <2>2. CASE r = "Nstrata"
    <3>1. p # "Nitems" => q.val["Nitems"] = o.val["Nitems"] /\ q.val[r] = o.val[r]
      BY <2>1, <2>2 DEF Takes
    <3> QED BY <2>2, <3>1 DEF Kept, Odd
  <2>3. CASE r = "Nitems"
    <3>1. q.val["Nitems"] = o.val["Nitems"] /\ q.val["Nstrata"] = o.val["Nstrata"]
      BY <2>1, <2>3 DEF Takes
    <3> QED BY <2>3, <3>1 DEF Kept, Odd
  <2> QED BY <1>1, <2>2, <2>3
<1>2. CASE r \notin {"Nitems", "Nstrata"}
  <2>1. q.val[r] = o.val[r]
    BY <1>2 DEF Takes
  <2> QED BY <1>2, <2>1 DEF Kept
<1> QED BY <1>1, <1>2

(* A property that is set at creation reads as it was set.                 *)
LEMMA GiveReads ==
    ASSUME CountInv, AstratInv, ReadInv, NEW p \in SetAtCreation(Classes[class]),
           NEW v \in Classes[class][p].range \union {Classes[class][p].first},
           GiveAtCreation(p, v)
    PROVE  ReadInv'
<1> DEFINE K == Classes[class]
<1>1. /\ phase = "creation" /\ p \in todo /\ s' = SetOf(class, s, p, v)
      /\ phase' = IF s'.crashed THEN "crash" ELSE "creation"
      /\ todo' = todo \ {p} /\ asked' = [asked EXCEPT ![p] = v] /\ class' = class
  BY DEF GiveAtCreation, Becomes
<1>2. SUFFICES ASSUME phase' # "crash" PROVE ReadInv'
  BY DEF ReadInv
<1>3. phase' = "creation" /\ ~s'.crashed
  BY <1>1, <1>2
<1>4. class \in DOMAIN Classes /\ HasAll(class, s)
  BY <1>1, LivingHasAll
<1>5. p \in DOMAIN K /\ Settable(class) \subseteq DOMAIN K /\ p \in Settable(class)
  BY <1>4, Settables DEF SetAtCreation, Settable
<1>6. Takes(class, s, p, v, s')
  BY <1>1, <1>3, <1>4, <1>5, SetOfTakes
<1>7. /\ DOMAIN asked = Settable(class) /\ todo \subseteq SetAtCreation(K) /\ s.val[p] = Null
      /\ \A r \in Settable(class) \ SetAtCreation(K) : asked[r] = Unset
  BY <1>1, <1>5 DEF ReadInv
<1>8. asked'[p] = v /\ v # Unset /\ \A r \in Settable(class) : r # p => asked'[r] = asked[r]
  BY <1>1, <1>4, <1>5, <1>7, UnsetAssumption
<1>9. p # "Nitems" /\ p # "max"
  <2>1. p # "Nitems"
    BY <1>4, <1>5, StrataTogether DEF StrataNames
  <2>2. p # "max"
    BY <1>4, <1>5, WhenSet, AllNamed, ClassNames DEF Named
  <2> QED BY <2>1, <2>2
<1>10. Kept(class, TRUE, s'.val, asked', p)
  BY <1>4, <1>5, <1>6, <1>7, <1>8, <1>9, TakesKept
<1>11. ASSUME NEW r \in Settable(class), r # p, asked[r] # Unset
       PROVE  Kept(class, TRUE, s'.val, asked', r)
  <2>1. r \in SetAtCreation(K) /\ r # "Nitems" /\ r \in DOMAIN K
    BY <1>4, <1>5, <1>7, <1>11, StrataTogether DEF StrataNames
  <2>2. Kept(class, TRUE, s.val, asked, r)
    BY <1>1, <1>11 DEF ReadInv
  <2> QED BY <1>4, <1>5, <1>6, <1>8, <1>9, <1>11, <2>1, <2>2, OthersKept
<1>12. ASSUME NEW r \in Settable(class), r # p, r \in todo PROVE s'.val[r] = Null
  <2>1. s'.val[r] = s.val[r]
    BY <1>5, <1>6, <1>9, <1>12 DEF Takes
  <2> QED BY <1>1, <1>12, <2>1 DEF ReadInv
<1>13. /\ DOMAIN asked' = Settable(class') /\ todo' \subseteq SetAtCreation(Classes[class'])
       /\ phase' # "life"
  BY <1>1, <1>3, <1>7
<1>14. ASSUME NEW r \in Settable(class)
       PROVE  /\ asked'[r] # Unset => asked'[r] \in Classes[class'][r].range
                                                   \union {Classes[class'][r].first}
              /\ asked'[r] # Unset => Kept(class', phase' = "creation", s'.val, asked', r)
              /\ asked'[r] = Unset => r \notin SetAtCreation(Classes[class']) \/ r \in todo'
              /\ phase' = "creation" /\ r \notin SetAtCreation(Classes[class']) =>
                    asked'[r] = Unset
              /\ r \in todo' => s'.val[r] = Null
  <2>1. CASE r = p
    BY <1>1, <1>3, <1>8, <1>10, <2>1
  <2>2. CASE r # p
    BY <1>1, <1>3, <1>7, <1>8, <1>11, <1>12, <2>2 DEF ReadInv
  <2> QED BY <2>1, <2>2
<1> QED BY <1>1, <1>13, <1>14 DEF ReadInv

(* So does one that is set later, or the setter changes nothing.           *)
LEMMA SetReads ==
    ASSUME CountInv, AstratInv, ReadInv, NEW p \in SetLater(Classes[class]),
           NEW v \in Classes[class][p].range, SetProperty(p, v)
    PROVE  ReadInv'
<1> DEFINE K == Classes[class]
<1>1. /\ phase = "life" /\ s' = SetOf(class, s, p, v)
      /\ phase' = IF s'.crashed THEN "crash" ELSE "life"
      /\ asked' = (IF MayBeSet(p, v) THEN [asked EXCEPT ![p] = v] ELSE asked)
      /\ todo' = todo /\ class' = class
  BY DEF SetProperty, Becomes
<1>2. SUFFICES ASSUME phase' # "crash" PROVE ReadInv'
  BY DEF ReadInv
<1>3. phase' = "life" /\ ~s'.crashed
  BY <1>1, <1>2
<1>4. class \in DOMAIN Classes /\ HasAll(class, s)
  BY <1>1, LivingHasAll
<1>5. p \in DOMAIN K /\ Settable(class) \subseteq DOMAIN K /\ p \in Settable(class)
  BY <1>4, Settables DEF SetLater, Settable
<1>6. Takes(class, s, p, v, s')
  BY <1>1, <1>3, <1>4, <1>5, SetOfTakes
<1>7. /\ DOMAIN asked = Settable(class) /\ todo = {}
      /\ \A r \in SetAtCreation(K) : asked[r] # Unset
      /\ \A r \in Settable(class) : asked[r] # Unset => Kept(class, FALSE, s.val, asked, r)
  <2>1. SetAtCreation(K) \subseteq Settable(class)
    BY DEF Settable
  <2> QED BY <1>1, <2>1 DEF ReadInv
<1>8. v # Unset
  BY <1>4, <1>5, UnsetAssumption
<1>9. class \notin ModelClasses
  BY <1>4, WhenSet
<1>10. p # "dims" /\ p # "Ncat" /\ p # "numNat" /\ \A r \in DOMAIN K : r # "dims"
  <2>1. \A r \in DOMAIN K : r # "dims" /\ r # "Ncat"
    BY <1>4, <1>9, AllNamed DEF Named
  <2>2. p # "numNat"
    BY <1>4, <1>5, WhenSet, AllNamed, ClassNames DEF Named
  <2> QED BY <1>5, <2>1, <2>2
<1>11. p \in StrataNames => class = "astrat" /\ s.val["equal"] = asked["equal"]
                              /\ s.val["equal"] \in BOOLEAN
  <2> SUFFICES ASSUME p \in StrataNames
               PROVE  class = "astrat" /\ s.val["equal"] = asked["equal"]
                        /\ s.val["equal"] \in BOOLEAN
    OBVIOUS
  <2>1. class = "astrat" /\ "equal" \in SetAtCreation(K) /\ "equal" \in Settable(class)
    BY <1>4, <1>5, StrataTogether DEF Settable
  <2>2. Kept(class, FALSE, s.val, asked, "equal") /\ "equal" \in DOMAIN K
    BY <1>5, <1>7, <2>1
  <2>3. Stored(K, "equal", asked["equal"]) = asked["equal"]
    BY <1>4, <2>2, AllNamed DEF Named, Stored, KeyNames
  <2> QED BY <1>1, <2>1, <2>2, <2>3 DEF Kept, Odd, AstratInv
<1>12. p = "max" => s.val["numNat"] = asked["numNat"]
  <2> SUFFICES ASSUME p = "max" PROVE s.val["numNat"] = asked["numNat"]
    OBVIOUS
  <2>1. class = "space" /\ "numNat" \in SetAtCreation(K) /\ "numNat" \in Settable(class)
    BY <1>4, <1>5, AllNamed, WhenSet, ClassNames DEF Settable, Named
  <2>2. Kept(class, FALSE, s.val, asked, "numNat") /\ "numNat" \in DOMAIN K
    BY <1>5, <1>7, <2>1
  <2>3. Stored(K, "numNat", asked["numNat"]) = asked["numNat"]
    BY <1>4, <2>2, AllNamed DEF Named, Stored, KeyNames
  <2> QED BY <2>2, <2>3 DEF Kept, Odd
<1>13. p = "Nstrata" /\ asked["Nitems"] # Unset => s'.val["Nstrata"] = s.val["Nstrata"]
  <2> SUFFICES ASSUME p = "Nstrata", asked["Nitems"] # Unset
               PROVE  s'.val["Nstrata"] = s.val["Nstrata"]
    OBVIOUS
  <2>1. class = "astrat" /\ "Nitems" \in Settable(class)
    BY <1>4, <1>5, <1>11, ClassNames, AstratProperties DEF StrataNames, Settable
  <2>2. Kept(class, FALSE, s.val, asked, "Nitems")
    BY <1>7, <2>1
  <2>3. s.val["Nitems"] # Null
    BY <2>2 DEF Kept
  <2> QED BY <1>6, <2>3 DEF Takes
<1>14. CASE MayBeSet(p, v)
  <2>1. asked' = [asked EXCEPT ![p] = v]
    BY <1>1, <1>14
  <2>2. asked'[p] = v /\ \A r \in Settable(class) : r # p => asked'[r] = asked[r]
    BY <1>5, <1>7, <2>1
  <2>3. p = "max" => v # Null /\ Len(v) = s.val["numNat"]
    BY <1>12, <1>14 DEF MayBeSet
  <2>4. p = "Nitems" => ~s.val["equal"] /\ v \notin {Null, <<>>}
    BY <1>11, <1>14 DEF MayBeSet, StrataNames
  <2>5. Kept(class, FALSE, s'.val, asked', p)
    BY <1>4, <1>5, <1>6, <1>9, <1>10, <2>2, <2>3, <2>4, TakesKept
  <2>6. p = "Nitems" => s'.val["Nitems"] # Null
    BY <1>6, <2>4 DEF Takes
  <2>7. ASSUME NEW r \in Settable(class), r # p, asked[r] # Unset
        PROVE  Kept(class, FALSE, s'.val, asked', r)
    <3>1. Kept(class, FALSE, s.val, asked, r) /\ r \in DOMAIN K /\ r # "dims"
      BY <1>5, <1>7, <1>10, <2>7
    <3>2. p = "Nstrata" /\ r = "Nitems" => s'.val["Nstrata"] = s.val["Nstrata"]
      BY <1>13, <2>7
    <3> QED BY <1>4, <1>5, <1>6, <2>2, <2>6, <2>7, <3>1, <3>2, OthersKept
  <2>8. DOMAIN asked' = Settable(class)
    BY <1>7, <2>1
  <2>9. ASSUME NEW r \in Settable(class)
        PROVE  /\ asked'[r] # Unset => asked'[r] \in K[r].range \union {K[r].first}
               /\ asked'[r] # Unset => Kept(class, FALSE, s'.val, asked', r)
               /\ asked'[r] = Unset => r \notin SetAtCreation(K)
    <3>1. CASE r = p
      BY <1>8, <2>2, <2>5, <3>1
    <3>2. CASE r # p
      BY <1>1, <1>7, <2>2, <2>7, <3>2 DEF ReadInv
    <3> QED BY <3>1, <3>2
  <2> QED BY <1>1, <1>3, <1>7, <2>8, <2>9 DEF ReadInv
<1>15. CASE ~MayBeSet(p, v)
  <2>1. asked' = asked
    BY <1>1, <1>15
  <2>2. p \in {"Nstrata", "Nitems", "max"}
    BY <1>15 DEF MayBeSet
  <2>3. s'.val[p] = s.val[p] /\ (p = "Nitems" => s'.val["Nstrata"] = s.val["Nstrata"])
    <3>1. CASE p = "Nstrata"
      <4>1. asked["Nitems"] # Unset
        BY <1>15, <3>1 DEF MayBeSet
      <4> QED BY <1>13, <3>1, <4>1
    <3>2. CASE p = "Nitems"
      <4>1. s.val["equal"] \/ v \in {Null, <<>>}
        BY <1>11, <1>15, <3>2 DEF MayBeSet, StrataNames
      <4> QED BY <1>6, <3>2, <4>1 DEF Takes
    <3>3. CASE p = "max"
      <4>1. v = Null \/ Len(v) # s.val["numNat"]
        BY <1>12, <1>15, <3>3 DEF MayBeSet
      <4> QED BY <1>6, <3>3, <4>1 DEF Takes
    <3> QED BY <2>2, <3>1, <3>2, <3>3
  <2>4. \A f \in DOMAIN K : s'.val[f] = s.val[f]
    BY <1>6, <2>3 DEF Takes
  <2>5. ASSUME NEW r \in Settable(class), asked[r] # Unset
        PROVE  Kept(class, FALSE, s'.val, asked, r)
    <3>1. Kept(class, FALSE, s.val, asked, r) /\ r \in DOMAIN K
      BY <1>5, <1>7, <2>5
    <3> QED BY <1>4, <2>4, <3>1, KeptFrame
  <2>6. ASSUME NEW r \in Settable(class)
        PROVE  /\ asked'[r] # Unset => asked'[r] \in K[r].range \union {K[r].first}
               /\ asked'[r] # Unset => Kept(class, FALSE, s'.val, asked', r)
               /\ asked'[r] = Unset => r \notin SetAtCreation(K)
    BY <1>1, <1>7, <2>1, <2>5 DEF ReadInv
  <2> QED BY <1>1, <1>3, <1>7, <2>1, <2>6 DEF ReadInv
<1> QED BY <1>14, <1>15

(* What is done when all properties are set changes the dimensions of a    *)
(* model and the maxima of a space, which no one has set.                  *)
LEMMA CreatedReads == CountInv /\ AstratInv /\ ReadInv /\ Created => ReadInv'
<1> SUFFICES ASSUME CountInv, AstratInv, ReadInv, Created PROVE ReadInv'
  OBVIOUS
<1> DEFINE K == Classes[class]
<1>1. /\ phase = "creation" /\ todo = {} /\ s' = ConstructedOf(class, s)
      /\ phase' \in {"life", "crash"} /\ asked' = asked /\ todo' = todo /\ class' = class
  BY DEF Created, Becomes, requests
<1>2. class \in DOMAIN Classes /\ IsObject(s) /\ DOMAIN s.val = FieldsOf(class)
  BY <1>1, LivingHasAll DEF HasAll
<1>3. /\ DOMAIN asked = Settable(class)
      /\ \A r \in Settable(class) :
           /\ asked[r] # Unset => Kept(class, TRUE, s.val, asked, r)
           /\ asked[r] # Unset <=> r \in SetAtCreation(K)
           /\ asked[r] # Unset => asked[r] \in K[r].range \union {K[r].first}
  BY <1>1 DEF ReadInv
<1>4. Settable(class) \subseteq DOMAIN K /\ DOMAIN K \subseteq DOMAIN s.val
  BY <1>2, Settables DEF FieldsOf
<1>5. ASSUME NEW r \in Settable(class), asked[r] # Unset
      PROVE  Kept(class, FALSE, s'.val, asked, r)
  <2>1. CASE class = "space"
    <3>1. s'.val = [s.val EXCEPT !["max"] = [i \in 1 .. s.val["numNat"] |-> 2]]
      BY <1>1, <1>2, <2>1
         DEF ConstructedOf, SpaceConstructed, SetField, IsObject, ModelClasses
    <3>2. \A f \in DOMAIN K : f # "max" => s'.val[f] = s.val[f]
      BY <1>4, <3>1
    <3>3. r # "max" /\ r \notin Odd
      <4>1. K = Space /\ r \in SetAtCreation(K) /\ r \in DOMAIN Space
        BY <1>3, <1>4, <1>5, <2>1, ClassNames
      <4>2. r # "max"
        BY <4>1, WhenSet
      <4>3. r \notin Odd
        BY <4>1 DEF Space, Odd
      <4> QED BY <4>2, <4>3
    <3> QED BY <1>3, <1>4, <1>5, <3>2, <3>3 DEF Kept, Odd
  <2>2. CASE class \in ModelClasses
    <3>1. s' = ModelConstructed(s) /\ class # "space"
      BY <1>1, <2>2 DEF ConstructedOf, ModelClasses
    <3>2. /\ SetAtCreation(K) = ModelFields /\ ModelFields \subseteq Settable(class)
          /\ DOMAIN K = ModelFields /\ K["space"].kind = "object"
      BY <2>2, WhenSet, ClassNames, ModelDeclared DEF Settable
    <3>3. asked["space"] # Unset /\ s.val["space"] = asked["space"]
      <4>1. "space" \in Settable(class) /\ asked["space"] # Unset
        BY <1>3, <3>2 DEF ModelFields
      <4>2. Kept(class, TRUE, s.val, asked, "space")
        BY <1>3, <4>1
      <4> QED BY <3>2, <4>1, <4>2 DEF Kept, Odd, Stored
    <3>4. \A w : SetField(s, "dims", w).val = [s.val EXCEPT !["dims"] = w]
      BY <1>2 DEF SetField, IsObject
    <3>5. /\ \A f \in DOMAIN K : f # "dims" => s'.val[f] = s.val[f]
          /\ s.val["space"] # Null =>
                s'.val["dims"] = IF s.val["dims"] \in {Null, <<>>} THEN <<FirstDim>>
                                 ELSE s.val["dims"]
      <4>1. "dims" \in DOMAIN s.val
        BY <1>4, <3>2 DEF ModelFields
      <4>2. CASE s.val["space"] = Null
        <5>1. s' = SetField(s, "dims", <<"none">>)
          BY <3>1, <4>2 DEF ModelConstructed
        <5>2. s'.val = [s.val EXCEPT !["dims"] = <<"none">>]
          BY <3>4, <5>1
        <5> QED BY <1>4, <4>2, <5>2
      <4>3. CASE s.val["space"] # Null /\ s.val["dims"] \in {Null, <<>>}
        <5>1. s' = SetField(s, "dims", <<FirstDim>>)
          BY <3>1, <4>3 DEF ModelConstructed
        <5>2. s'.val = [s.val EXCEPT !["dims"] = <<FirstDim>>]
          BY <3>4, <5>1
        <5> QED BY <1>4, <4>1, <4>3, <5>2
      <4>4. CASE s.val["space"] # Null /\ s.val["dims"] \notin {Null, <<>>}
        <5>1. s' = s
          BY <3>1, <4>4 DEF ModelConstructed
        <5> QED BY <4>4, <5>1
      <4> QED BY <4>2, <4>3, <4>4
    <3>6. Kept(class, TRUE, s.val, asked, r) /\ r \in ModelFields
      BY <1>3, <1>4, <1>5, <3>2
    <3>7. CASE r = "dims"
      BY <3>3, <3>5, <3>6, <3>7 DEF Kept, Odd
    <3>8. CASE r # "dims"
      <4>1. s'.val[r] = s.val[r] /\ r \notin {"Nstrata", "Nitems"}
        BY <3>2, <3>5, <3>6, <3>8 DEF ModelFields
      <4> QED BY <3>6, <3>8, <4>1 DEF Kept
    <3> QED BY <3>7, <3>8
  <2>3. CASE class \notin {"space"} \union ModelClasses
    <3>1. s' = s
      BY <1>1, <2>3 DEF ConstructedOf
    <3>2. r # "dims" /\ Kept(class, TRUE, s.val, asked, r)
      BY <1>2, <1>3, <1>4, <1>5, <2>3, AllNamed DEF Named
    <3> QED BY <3>1, <3>2 DEF Kept
  <2> QED BY <2>1, <2>2, <2>3
<1>6. ASSUME NEW r \in Settable(class)
      PROVE  /\ asked'[r] # Unset => asked'[r] \in Classes[class'][r].range
                                                  \union {Classes[class'][r].first}
             /\ asked'[r] # Unset => Kept(class', FALSE, s'.val, asked', r)
             /\ asked'[r] = Unset => r \notin SetAtCreation(Classes[class']) \/ r \in todo'
             /\ r \in todo' => s'.val[r] = Null
  BY <1>1, <1>3, <1>5
<1>7. /\ DOMAIN asked' = Settable(class') /\ todo' \subseteq SetAtCreation(Classes[class'])
      /\ todo' = {}
  BY <1>1, <1>3
<1>8. CASE phase' = "life"
  BY <1>1, <1>6, <1>7, <1>8 DEF ReadInv
<1>9. CASE phase' = "crash"
  BY <1>9 DEF ReadInv
<1> QED BY <1>1, <1>8, <1>9

(* What becomes of an object that is registered.                           *)
LEMMA RegisterReads ==
    ASSUME NEW c \in Algorithms, NEW o, IsObject(o), DOMAIN o.val = FieldsOf(c)
    PROVE  \A f \in DOMAIN Classes[c] : RegisterOf(c, RefSink(o)).val[f] = o.val[f]
<1> DEFINE r == RefSink(o)
<1>1. r.val = o.val /\ DOMAIN r = DOMAIN o /\ "val" \in DOMAIN r
  BY DEF RefSink, GRef, IsObject
<1>2. \A q : "val" \in DOMAIN q => Connect(q).val = q.val /\ GRef(q).val = q.val
                                     /\ "val" \in DOMAIN Connect(q) /\ "val" \in DOMAIN GRef(q)
  BY DEF Connect, GRef
<1> DEFINE taken(f) == Taken(r, f, TestBank)
<1>3. \A f : /\ taken(f).val = [r.val EXCEPT ![f] = TestBank]
             /\ "val" \in DOMAIN taken(f)
  BY <1>1 DEF Taken
<1>4. c \in DOMAIN Classes /\ Private(c) \intersect DOMAIN Classes[c] = {}
  BY ClassNames, PrivateApart
<1>5. \A f \in DOMAIN Classes[c] : f \notin BankFields /\ f \in DOMAIN o.val
  BY <1>4, AllDeclared DEF Declared, FieldsOf
<1>6. \A f \in BankFields : \A g \in DOMAIN Classes[c] : taken(f).val[g] = o.val[g]
  <2> SUFFICES ASSUME NEW f \in BankFields, NEW g \in DOMAIN Classes[c]
               PROVE  taken(f).val[g] = o.val[g]
    OBVIOUS
  <2>1. taken(f).val = [r.val EXCEPT ![f] = TestBank]
    BY <1>3
  <2>2. g # f /\ g \in DOMAIN r.val
    BY <1>1, <1>5
  <2> HIDE DEF taken, r
  <2> QED BY <1>1, <2>1, <2>2
<1> HIDE DEF r, taken
<1>7. CASE c \in {"fixed_length", "simulate", "class_rates", "pick_rand", "estimate"}
  <2>1. RegisterOf(c, r) = Connect(r)
    BY <1>7 DEF RegisterOf, FixedLengthRegister, SimulateRegister, ClassRatesRegister,
       PickRandRegister, EstimateRegister
  <2> QED BY <1>1, <1>2, <2>1 DEF r
<1>8. CASE c = "exposure_counter"
  <2>1. RegisterOf(c, r) = GRef(Connect(Connect(r)))
    BY <1>8 DEF RegisterOf, ExposureCounterRegister
  <2> QED BY <1>1, <1>2, <2>1 DEF r
<1>9. CASE c = "closest_diff"
  <2>1. RegisterOf(c, r) = Connect(taken("chooser.bank"))
    BY <1>9 DEF RegisterOf, ClosestDiffRegister, TakeBank, taken
  <2> QED BY <1>2, <1>3, <1>6, <2>1 DEF r, BankFields
<1>10. CASE c \in {"max_fisher", "max_kl"}
  <2>1. RegisterOf(c, r) = GRef(Connect(Connect(taken("chooser.bank"))))
    BY <1>10 DEF RegisterOf, MaxFisherRegister, MaxKlRegister, TakeBank, taken
  <2> QED BY <1>2, <1>3, <1>6, <2>1 DEF r, BankFields
<1>11. CASE c = "astrat"
  <2>1. RegisterOf(c, r) = Connect(GRef(Connect(taken("stratify.bank"))))
    BY <1>11 DEF RegisterOf, AstratRegister, taken
  <2> QED BY <1>2, <1>3, <1>6, <2>1 DEF r, BankFields
<1> QED BY <1>7, <1>8, <1>9, <1>10, <1>11 DEF Algorithms

(* Without a reference an object is gone, and with one it is as it was.    *)
LEMMA DroppedReads ==
    ASSUME CountInv, ReadInv, phase # "crash", NEW o, IsObject(o), o.val = s.val,
           o.refs = s.refs, o.listed = s.listed, o.frozen = s.frozen,
           o.count \in Nat, NEW n \in Nat, o.count >= n,
           NEW q, q = Dropped(o, n)
    PROVE  q.count = 0 \/ (IsObject(q) /\ q.val = s.val)
<1>1. /\ Accounted /\ class \in DOMAIN Classes /\ Owned \in Tally
  BY OwnedType DEF CountInv
<1>2. Sound(FieldsOf(class), HoldersOf(class), s, Owned)
  BY <1>1 DEF Accounted, Proper
<1>3. Sound(FieldsOf(class), HoldersOf(class), o, Owned)
  BY <1>2, RestMoves
<1>4. Proper(class, o, Owned) /\ FreezesOwn(class, o)
  BY <1>1, <1>3 DEF Accounted, Proper, HasFactor, FreezesOwn
<1>5. q.count = o.count - n
  <2>1. Dropped(o, n).count = o.count - n
    BY <1>1, <1>4, DroppedProper
  <2> QED BY <2>1
<1> DEFINE left == [o EXCEPT !.count = IF @ < n THEN 0 ELSE @ - n]
<1>6. left.count = o.count - n /\ left.val = o.val /\ IsObject(left)
  BY DEF IsObject
<1>7. CASE left.count = 0
  BY <1>5, <1>6, <1>7
<1>8. CASE left.count # 0
  <2>1. q = left
    BY <1>8 DEF Dropped
  <2> HIDE DEF left
  <2> QED BY <1>6, <2>1
<1> QED BY <1>7, <1>8

(* The program drops its reference.                                        *)
LEMMA ReleaseReads == CountInv /\ ReadInv /\ Release => ReadInv'
<1> SUFFICES ASSUME CountInv, ReadInv, Release PROVE ReadInv'
  OBVIOUS
<1> DEFINE o == [s EXCEPT !.floating = FALSE]
           q == Dropped(o, 1)
<1>1. /\ Accounted /\ class \in DOMAIN Classes /\ (keeps = 1 \/ s.floating) /\ phase = "life"
  BY DEF CountInv, Release
<1>2. /\ class' = class /\ UNCHANGED requests /\ s' = q
      /\ phase' = IF q.crashed THEN "crash" ELSE IF q.count = 0 THEN "gone" ELSE phase
  BY DEF Release, Becomes
<1>3. IsObject(s)
  BY <1>1 DEF Accounted, Proper, Sound
<1>4. /\ IsObject(o) /\ o.val = s.val /\ o.refs = s.refs /\ o.listed = s.listed
      /\ o.count = s.count /\ o.frozen = s.frozen
  BY <1>3 DEF IsObject
<1>5. o.count \in Nat /\ o.count >= 1
  <2>1. s.handlers \in Nat /\ s.count = s.handlers + 1
    BY <1>1 DEF Accounted, One
  <2> QED BY <1>4, <2>1
<1> HIDE DEF o
<1>6. q.count = 0 \/ (IsObject(q) /\ q.val = s.val)
  BY <1>1, <1>4, <1>5, DroppedReads
<1> HIDE DEF q
<1>7. CASE q.crashed \/ q.count = 0
  BY <1>1, <1>2, <1>7, ReadFrame
<1>8. CASE ~q.crashed /\ q.count # 0
  <2>1. phase' = phase /\ \A f \in DOMAIN Classes[class] : s'.val[f] = s.val[f]
    BY <1>2, <1>6, <1>8
  <2> QED BY <1>1, <1>2, <2>1, ReadFrame
<1> QED BY <1>7, <1>8

(* The test is dropped.                                                    *)
LEMMA DropTestReads == CountInv /\ ReadInv /\ DropTest => ReadInv'
<1> SUFFICES ASSUME CountInv, ReadInv, DropTest PROVE ReadInv'
  OBVIOUS
<1> DEFINE o == [s EXCEPT !.handlers = 0]
           q == Dropped(o, s.handlers)
<1>1. Accounted /\ class \in DOMAIN Classes /\ phase \in {"life", "gone"}
  BY DEF CountInv, DropTest
<1>2. /\ class' = class /\ UNCHANGED requests /\ s' = [q EXCEPT !.refs = Unref(@, TestBank)]
      /\ phase' = IF s'.crashed THEN "crash" ELSE IF q.count = 0 THEN "gone" ELSE phase
  BY DEF DropTest, Becomes
<1>3. IsObject(s)
  BY <1>1 DEF Accounted, Proper, Sound
<1>4. /\ IsObject(o) /\ o.val = s.val /\ o.refs = s.refs /\ o.listed = s.listed
      /\ o.count = s.count /\ o.frozen = s.frozen
  BY <1>3 DEF IsObject
<1>5. s.handlers \in Nat /\ o.count \in Nat /\ o.count >= s.handlers
  <2>1. /\ s.handlers \in Nat /\ keeps \in {0, 1}
        /\ s.count = keeps + s.handlers + One(s.floating) /\ One(s.floating) \in {0, 1}
    BY <1>1 DEF Accounted, One
  <2> QED BY <1>4, <2>1
<1> HIDE DEF o
<1>6. q.count = 0 \/ (IsObject(q) /\ q.val = s.val)
  BY <1>1, <1>4, <1>5, DroppedReads
<1>7. CASE phase' \in {"gone", "crash"}
  BY <1>1, <1>2, <1>7, ReadFrame
<1>8. CASE phase' \notin {"gone", "crash"}
  <2>1. phase' = phase /\ q.count # 0
    BY <1>2, <1>8
  <2>2. s'.val = q.val
    <3>1. IsObject(q)
      BY <1>6, <2>1
    <3> HIDE DEF q
    <3> QED BY <1>2, <3>1 DEF IsObject
  <2> HIDE DEF q
  <2>3. \A f \in DOMAIN Classes[class] : s'.val[f] = s.val[f]
    BY <1>6, <2>1, <2>2
  <2> QED BY <1>1, <1>2, <2>1, <2>3, ReadFrame
<1> QED BY <1>7, <1>8

(* An examinee without covariates creates them when they are read.         *)
LEMMA ReadCovariatesReads == CountInv /\ ReadInv /\ ReadCovariates => ReadInv'
<1> SUFFICES ASSUME CountInv, ReadInv, ReadCovariates PROVE ReadInv'
  OBVIOUS
<1> DEFINE K == Classes[class]
<1>1. /\ class = "examinee" /\ phase = "life" /\ s' = ExamineeReadCovariates(s)
      /\ class' = class /\ phase' = phase /\ UNCHANGED requests
      /\ asked' = asked /\ todo' = todo
  BY DEF ReadCovariates, Living, requests
<1>2. class \in DOMAIN Classes /\ HasAll(class, s) /\ K = Examinee
  BY <1>1, LivingHasAll, ClassNames
<1>3. IsObject(s) /\ "covariates" \in DOMAIN K /\ DOMAIN K \subseteq DOMAIN s.val
  BY <1>2 DEF HasAll, FieldsOf, Examinee
<1>4. CASE s.val["covariates"] # Null
  <2>1. s' = s
    BY <1>1, <1>4 DEF ExamineeReadCovariates
  <2> QED BY <1>1, <1>2, <2>1, ReadFrame
<1>5. CASE s.val["covariates"] = Null
  <2>1. s'.val = [s.val EXCEPT !["covariates"] = NewCovariates]
    BY <1>1, <1>3, <1>5 DEF ExamineeReadCovariates, IsObject
  <2>2. /\ s'.val["covariates"] = NewCovariates
        /\ \A f \in DOMAIN K : f # "covariates" => s'.val[f] = s.val[f]
    BY <1>3, <2>1
  <2>3. ASSUME NEW r \in Settable(class), asked[r] # Unset
        PROVE  Kept(class, FALSE, s'.val, asked, r)
    <3>1. Kept(class, FALSE, s.val, asked, r)
      BY <1>1, <2>3 DEF ReadInv
    <3>2. r \in DOMAIN K /\ r \notin {"Nstrata", "Nitems"}
      BY <1>2, Settables DEF Examinee
    <3>3. CASE r = "covariates"
      <4>1. class \notin ModelClasses /\ NewCovariates # Null
        BY <1>1, ObjectsAreThings, NullIsNone DEF ModelClasses
      <4> QED BY <1>5, <2>2, <3>1, <3>3, <4>1 DEF Kept, Odd
    <3>4. CASE r # "covariates"
      <4>1. s'.val[r] = s.val[r]
        BY <2>2, <3>2, <3>4
      <4> QED BY <3>1, <3>2, <3>4, <4>1 DEF Kept
    <3> QED BY <3>3, <3>4
  <2>4. ASSUME NEW r \in Settable(class)
        PROVE  /\ asked'[r] # Unset => asked'[r] \in Classes[class'][r].range
                                                    \union {Classes[class'][r].first}
               /\ asked'[r] # Unset => Kept(class', FALSE, s'.val, asked', r)
               /\ asked'[r] = Unset => r \notin SetAtCreation(Classes[class']) \/ r \in todo'
    BY <1>1, <2>3 DEF ReadInv
  <2>5. /\ DOMAIN asked' = Settable(class') /\ todo' \subseteq SetAtCreation(Classes[class'])
        /\ todo' = {}
    BY <1>1 DEF ReadInv
  <2> QED BY <1>1, <2>4, <2>5 DEF ReadInv
<1> QED BY <1>4, <1>5

(* Every step keeps what the properties were set to.                       *)
LEMMA ReadStep == CountInv /\ AstratInv /\ ReadInv /\ [Next]_vars => ReadInv'
<1> SUFFICES ASSUME CountInv, AstratInv, ReadInv, [Next]_vars PROVE ReadInv'
  OBVIOUS
<1> DEFINE Stays == \A f \in DOMAIN Classes[class] : s'.val[f] = s.val[f]
<1>1. class \in DOMAIN Classes /\ Private(class) \intersect DOMAIN Classes[class] = {}
  BY PrivateApart DEF CountInv
<1>2. phase # "crash" => IsObject(s) /\ DOMAIN Classes[class] \subseteq DOMAIN s.val
  BY LivingHasAll DEF HasAll, FieldsOf
<1>3. ASSUME class' = class, UNCHANGED requests, phase' \in {phase, "crash"}, s'.val = s.val
      PROVE  ReadInv'
  BY <1>1, <1>3, ReadFrame
<1>4. ASSUME NEW f \in Private(class), NEW v, phase = "life", s' = Given(s, f, v),
             UNCHANGED <<class, phase, requests>>
      PROVE  ReadInv'
  <2>1. s'.val = [s.val EXCEPT ![f] = v]
    BY <1>2, <1>4 DEF Given, IsObject
  <2>2. \A g \in DOMAIN Classes[class] : s'.val[g] = s.val[g]
    BY <1>1, <1>2, <1>4, <2>1
  <2> QED BY <1>1, <1>4, <2>2, ReadFrame
<1>5. ASSUME NEW p \in SetAtCreation(Classes[class]),
             NEW v \in Classes[class][p].range \union {Classes[class][p].first},
             GiveAtCreation(p, v)
      PROVE  ReadInv'
  BY <1>5, GiveReads
<1>6. ASSUME NEW p \in SetLater(Classes[class]), NEW v \in Classes[class][p].range,
             SetProperty(p, v)
      PROVE  ReadInv'
  BY <1>6, SetReads
<1>7. CASE Register
  <2>1. /\ class \in Algorithms /\ phase = "life" /\ s' = RegisterOf(class, RefSink(s))
        /\ class' = class /\ UNCHANGED requests /\ phase' \in {phase, "crash"}
    BY <1>7 DEF Register, Becomes
  <2>2. \A f \in DOMAIN Classes[class] : s'.val[f] = s.val[f]
    BY <2>1, LivingHasAll, RegisterReads DEF HasAll
  <2> QED BY <1>1, <2>1, <2>2, ReadFrame
<1>8. CASE Keep
  <2>1. /\ phase = "life" /\ s' = RefSink(s)
        /\ class' = class /\ UNCHANGED requests /\ phase' \in {phase, "crash"}
    BY <1>8 DEF Keep, Becomes
  <2>2. s'.val = s.val
    BY <1>2, <2>1 DEF RefSink, GRef, IsObject
  <2> QED BY <1>3, <2>1, <2>2
<1>9. ASSUME NEW t, Drop(t) PROVE ReadInv'
  <2>1. /\ phase \in {"life", "gone"} /\ s' = [s EXCEPT !.refs = Unref(@, t)]
        /\ class' = class /\ UNCHANGED requests /\ phase' \in {phase, "crash"}
    BY <1>9 DEF Drop
  <2>2. s'.val = s.val
    BY <1>2, <2>1 DEF IsObject
  <2> QED BY <1>3, <2>1, <2>2
<1>10. CASE Prep
  <2>1. /\ phase = "life" /\ s' = ListEmptied(s)
        /\ class' = class /\ UNCHANGED requests /\ phase' \in {phase, "crash"}
    BY <1>10 DEF Prep, Living, ExamineePrep
  <2>2. s'.val = s.val
    BY <1>2, <2>1 DEF ListEmptied, IsObject
  <2> QED BY <1>3, <2>1, <2>2
<1>11. ASSUME NEW name \in {"simDefault", "estDefault"}, NEW theta, SetTheta(name, theta)
       PROVE  ReadInv'
  <2>1. /\ class = "examinee" /\ phase = "life" /\ s' = Given(s, name, theta)
        /\ UNCHANGED <<class, phase, requests>>
    BY <1>11 DEF SetTheta, Living, HandOver, ExamineeSetTheta
  <2>2. name \in Private(class)
    BY <2>1 DEF Private
  <2> QED BY <1>4, <2>1, <2>2
<1>12. ASSUME NEW name \in {"default", "other"}, NEW model, SetModel(name, model)
       PROVE  ReadInv'
  <2>1. /\ class = "item" /\ phase = "life" /\ s' = Given(s, name, model)
        /\ UNCHANGED <<class, phase, requests>>
    BY <1>12 DEF SetModel, Living, HandOver, ItemSetModel
  <2>2. name \in Private(class)
    BY <2>1 DEF Private
  <2> QED BY <1>4, <2>1, <2>2
<1>13. ASSUME NEW item, Record(item) \/ AddItem(item) \/ RemoveItem(item) PROVE ReadInv'
  <2>1. /\ phase = "life" /\ s' \in {Listed(s, item), Unlisted(s, item)}
        /\ class' = class /\ UNCHANGED requests /\ phase' \in {phase, "crash"}
    BY <1>13 DEF Record, AddItem, RemoveItem, Living, Lend, ExamineeAddItem, ItemBankAddItem,
       ItemBankRemoveItem
  <2>2. s'.val = s.val
    BY <1>2, <2>1 DEF Listed, Unlisted, IsObject
  <2> QED BY <1>3, <2>1, <2>2
<1>14. ASSUME NEW space, Resize(space) PROVE ReadInv'
  <2>1. /\ class = "max_kl" /\ phase = "life" /\ s' = MaxKlResize(s, space)
        /\ class' = class /\ UNCHANGED requests /\ phase' = phase
    BY <1>14 DEF Resize, Living, Lend
  <2>2. "theta.space" \in Private(class) /\ "space" \in Private(class)
    BY <2>1 DEF Private
  <2> DEFINE pointed == Replaced(s, "theta.space", space)
  <2>3. pointed.val = [s.val EXCEPT !["theta.space"] = space] /\ "val" \in DOMAIN pointed
        /\ "refs" \in DOMAIN pointed
    BY <1>2, <2>1 DEF Replaced, IsObject
  <2>4. Replaced(pointed, "space", space).val = [pointed.val EXCEPT !["space"] = space]
    <3> HIDE DEF pointed
    <3> QED BY <2>3 DEF Replaced
  <2>5. s' \in {pointed, Replaced(pointed, "space", space)}
    BY <2>1 DEF MaxKlResize
  <2>6. \A g \in DOMAIN Classes[class] : g # "theta.space" /\ g # "space" /\ g \in DOMAIN s.val
    BY <1>1, <1>2, <2>1, <2>2
  <2> HIDE DEF pointed
  <2>7. \A g \in DOMAIN Classes[class] : s'.val[g] = s.val[g]
    BY <2>3, <2>4, <2>5, <2>6
  <2> QED BY <1>1, <2>1, <2>7, ReadFrame
<1>15. CASE UNCHANGED vars
  <2>1. class' = class /\ UNCHANGED requests /\ phase' = phase /\ s' = s
    BY <1>15 DEF vars, requests
  <2> QED BY <1>3, <2>1
<1> QED
  BY <1>5, <1>6, <1>7, <1>8, <1>9, <1>10, <1>11, <1>12, <1>13, <1>14, <1>15,
     CreatedReads, ReleaseReads, DropTestReads, ReadCovariatesReads DEF Next

(* No property was set at first.                                           *)
LEMMA ReadInit == Init => ReadInv
<1> SUFFICES ASSUME Init PROVE ReadInv
  OBVIOUS
<1>1. class \in DOMAIN Classes
  BY ObjectsAssumption DEF Init
<1> DEFINE K == Classes[class]
           refs == [t \in Things |-> held[t] + One(t = TestBank)]
<1>2. /\ phase = "creation" /\ todo = SetAtCreation(K)
      /\ asked = [p \in Settable(class) |-> Unset]
      /\ s = New(K, Private(class), refs, class \in Algorithms)
  BY DEF Init, Settable
<1>3. ASSUME NEW p \in todo PROVE s.val[p] = Null
  <2>1. p \in DOMAIN K /\ p \in SetAtCreation(K)
    BY <1>2 DEF SetAtCreation
  <2> HIDE DEF refs, K
  <2> QED BY <1>2, <2>1 DEF New
<1>4. todo \subseteq Settable(class)
  BY <1>2 DEF Settable
<1>5. DOMAIN asked = Settable(class) /\ \A p \in Settable(class) : asked[p] = Unset
  BY <1>2
<1> QED BY <1>2, <1>3, <1>4, <1>5 DEF ReadInv

(* What is kept of a value reads as the documentation promises.            *)
LEMMA ReadInvReads == CountInv /\ AstratInv /\ ReadInv => ReadsAsSet
<1> SUFFICES ASSUME CountInv, AstratInv, ReadInv, phase = "life",
                    NEW p \in Readable(class) \intersect DOMAIN asked, Promised(p) # Unset
             PROVE  GetOf(class, s, p) = Promised(p)
  BY DEF ReadsAsSet
<1> DEFINE K == Classes[class]
           a == asked[p]
<1>1. class \in DOMAIN Classes /\ HasAll(class, s)
  BY LivingHasAll
<1>2. /\ p \in Settable(class) /\ p \in DOMAIN K /\ p # "Nitems"
      /\ \A r \in SetAtCreation(K) : r \in Settable(class) /\ asked[r] # Unset
      /\ \A r \in Settable(class) :
           /\ asked[r] # Unset => Kept(class, FALSE, s.val, asked, r)
           /\ asked[r] # Unset => asked[r] \in K[r].range \union {K[r].first}
  BY DEF ReadInv, Readable, Settable
<1>3. a # Unset
  BY UnsetAssumption, NullIsNone DEF Promised
<1>4. Kept(class, FALSE, s.val, asked, p) /\ a \in K[p].range \union {K[p].first}
  BY <1>2, <1>3
<1>5. Named(class, K)
  BY <1>1, AllNamed
<1> HIDE DEF a
<1>6. CASE p = "Nstrata"
  <2>1. /\ class = "astrat" /\ "equal" \in SetAtCreation(K) /\ K[p].kind = "value"
    BY <1>1, <1>2, <1>6, StrataTogether, AstratProperties, ClassNames DEF StrataNames
  <2>2. GetOf(class, s, p) = s.val["Nstrata"]
    BY <1>6, <2>1 DEF GetOf, Get, ModelClasses
  <2>3. s.val["equal"] = asked["equal"] /\ s.val["equal"] \in BOOLEAN
    <3>1. Kept(class, FALSE, s.val, asked, "equal")
      BY <1>2, <2>1
    <3>2. Stored(K, "equal", asked["equal"]) = asked["equal"]
      BY <2>1, <1>5 DEF Named, Stored, KeyNames, SetAtCreation
    <3> QED BY <2>1, <3>1, <3>2 DEF Kept, Odd, AstratInv
  <2>4. CASE asked["equal"]
    <3>1. Promised(p) = a
      BY <1>3, <1>6, <2>4 DEF Promised, a
    <3>2. s.val["Nitems"] = Null
      BY <2>1, <2>3, <2>4 DEF AstratInv, Fit
    <3> QED BY <1>4, <1>6, <2>2, <3>1, <3>2 DEF Kept, a
  <2>5. CASE ~asked["equal"]
    <3>1. Promised(p) = IF asked["Nitems"] = Unset THEN Unset ELSE Len(asked["Nitems"])
      BY <1>3, <1>6, <2>5 DEF Promised, a
    <3>2. asked["Nitems"] # Unset /\ Promised(p) = Len(asked["Nitems"])
      BY <3>1
    <3>3. Kept(class, FALSE, s.val, asked, "Nitems")
      <4>1. "Nitems" \in Settable(class)
        BY <2>1, AstratProperties, ClassNames DEF Settable
      <4> QED BY <1>2, <3>2, <4>1
    <3> QED BY <2>2, <3>2, <3>3 DEF Kept
  <2> QED BY <2>4, <2>5
<1>7. CASE p = "Sigma"
  <2>1. class \in {"max_kl", "estimate"} /\ GetOf(class, s, p) = SigmaOf(s.val["Sigma"])
    <3>1. class \in {"max_kl", "estimate"}
      BY <1>2, <1>5, <1>7 DEF Named, PriorNames
    <3> QED BY <1>7, <3>1 DEF GetOf, MaxKlGet, EstimateGet, ModelClasses
  <2>2. CASE a = Null
    <3>1. s.val["Sigma"] = Null
      BY <1>4, <1>7, <2>2 DEF Kept, a
    <3>2. Promised(p) = Null
      BY <1>3, <1>7, <2>2, <3>1 DEF Promised, a, OfAnotherSize
    <3> QED BY <2>1, <3>1, <3>2 DEF SigmaOf
  <2>3. CASE a # Null
    <3>1. s.val["Sigma"] # Null /\ (s.val["Sigma"].times = 2 \/ s.val["Sigma"] = Cholesky(a))
      BY <1>4, <1>7, <2>3 DEF Kept, a
    <3>2. ~OfAnotherSize
      BY <1>3, <1>7 DEF Promised, a
    <3>3. s.val["Sigma"] = Cholesky(a)
      BY <3>1, <3>2 DEF OfAnotherSize
    <3>4. Promised(p) = a
      BY <1>3, <1>7, <3>2 DEF Promised, a
    <3> QED BY <2>1, <3>1, <3>3, <3>4 DEF SigmaOf, Cholesky
  <2> QED BY <2>2, <2>3
<1>8. CASE p \in {"dims", "Ncat"}
  <2>1. class \in ModelClasses /\ K[p].kind # "key"
    BY <1>2, <1>5, <1>8 DEF Named, KeyNames
  <2>2. "space" \in SetAtCreation(K) /\ K = WithCategories(Model)
    BY <2>1, WhenSet, ClassNames DEF ModelFields
  <2>3. CASE p = "Ncat"
    <3>1. GetOf(class, s, p) = s.val[p] + 1
      BY <2>1, <2>3 DEF GetOf, ModelGet, ModelClasses
    <3>2. a \in Nat /\ s.val[p] = a - 1
      <4>1. K[p] = Ncat
        BY <2>2, <2>3, ModelDeclared
      <4>2. a \in Counts \union {3}
        BY <1>4, <4>1 DEF Ncat, ConstructOnly, AtLeast
      <4>3. Counts \subseteq Nat
        BY ValuesAssumption
      <4>4. a \in Nat
        BY <4>2, <4>3
      <4> QED BY <1>4, <2>3, <4>4 DEF Kept, a
    <3>3. Promised(p) = a
      BY <1>3, <2>3 DEF Promised, a
    <3> QED BY <3>1, <3>2, <3>3
  <2>4. CASE p = "dims"
    <3>1. GetOf(class, s, p) = s.val[p]
      BY <2>1, <2>4 DEF GetOf, ModelGet, Get, ModelClasses
    <3>2. asked["space"] # Null
      BY <1>3, <2>4 DEF Promised, a
    <3>3. s.val[p] = IF a \in {Null, <<>>} THEN <<FirstDim>> ELSE a
      BY <1>4, <2>4, <3>2 DEF Kept, Odd, a
    <3>4. Promised(p) = IF a \in {Null, <<>>} THEN <<FirstDim>> ELSE a
      BY <1>3, <2>4, <3>2 DEF Promised, a
    <3> QED BY <3>1, <3>3, <3>4
  <2> QED BY <1>8, <2>3, <2>4
<1>9. CASE p = "covariates"
  <2>1. CASE class \in ModelClasses
    <3>1. GetOf(class, s, p) = s.val[p]
      BY <1>2, <1>5, <1>9, <2>1 DEF GetOf, ModelGet, Get, ModelClasses, Named, KeyNames
    <3>2. s.val[p] = IF a = Null THEN Null ELSE CopyOf(a)
      BY <1>4, <1>9, <2>1 DEF Kept, Odd, a
    <3>3. a \in Covariates \union {Null}
      <4>1. K = WithCategories(Model)
        BY <2>1, ClassNames
      <4> QED BY <1>4, <1>9, <4>1, ModelDeclared DEF OrNull
    <3>4. a \in Things <=> a # Null
      BY <3>3, ObjectsAreThings, NullIsNone
    <3>5. Promised(p) = IF a = Null THEN Null ELSE CopyOf(a)
      BY <1>3, <1>9, <2>1, <3>4 DEF Promised, a, ModelClasses
    <3> QED BY <3>1, <3>2, <3>5
  <2>2. CASE class \notin ModelClasses
    <3>1. class = "examinee" /\ K = Examinee
      BY <1>2, <1>5, <1>9, <2>2, ClassNames DEF Named
    <3>2. s.val[p] = a \/ (a = Null /\ s.val[p] = NewCovariates)
      BY <1>4, <1>9, <2>2 DEF Kept, Odd, a
    <3>3. Promised(p) = IF a = Null THEN NewCovariates ELSE a
      BY <1>3, <1>9, <3>1 DEF Promised, a
    <3>4. GetOf(class, s, p) = ExamineeReadCovariates(s).val[p]
      BY <1>9, <3>1 DEF GetOf, Get, Examinee, Plain, ModelClasses
    <3>5. ExamineeReadCovariates(s).val[p] = IF s.val[p] = Null THEN NewCovariates ELSE s.val[p]
      <4>1. IsObject(s) /\ p \in DOMAIN s.val
        BY <1>1, <1>2 DEF HasAll, FieldsOf
      <4> QED BY <1>9, <4>1 DEF ExamineeReadCovariates, IsObject
    <3>6. NewCovariates # Null
      BY ObjectsAreThings, NullIsNone
    <3> QED BY <3>2, <3>3, <3>4, <3>5, <3>6
  <2> QED BY <2>1, <2>2
<1>10. CASE p \notin Odd
  <2>1. s.val[p] = Stored(K, p, a)
    BY <1>4, <1>10 DEF Kept, a
  <2>2. GetOf(class, s, p) = Get(K, s, p)
    <3>1. p # "Sigma" /\ p # "Ncat" /\ p # "covariates"
      BY <1>10 DEF Odd
    <3>2. class = "max_kl" => K = MaxKl
      BY ClassNames
    <3>3. class = "estimate" => K = Estimate
      BY ClassNames
    <3> HIDE DEF K
    <3>4. GetOf(class, s, p) = Get(Classes[class], s, p)
      BY <3>1, <3>2, <3>3 DEF GetOf, MaxKlGet, EstimateGet, ModelGet, K
    <3> QED BY <3>4 DEF K
  <2>3. CASE K[p].kind = "key"
    <3>1. p \in KeyNames
      BY <1>2, <1>5, <2>3 DEF Named
    <3>2. Promised(p) = IF a = Null THEN "" ELSE a
      BY <1>3, <3>1 DEF Promised, a, KeyNames
    <3>3. s.val[p] = Quark(a) /\ GetOf(class, s, p) = Text(s.val[p])
      BY <2>1, <2>2, <2>3 DEF Get, Stored
    <3>4. CASE a = Null \/ a = ""
      BY <3>2, <3>3, <3>4, Zenon DEF Text, Quark
    <3>5. CASE a # Null /\ a # ""
      BY <3>2, <3>3, <3>5, Zenon DEF Text, Quark
    <3> QED BY <3>4, <3>5
  <2>4. CASE K[p].kind = "id"
    <3>1. p = "id"
      BY <1>2, <1>5, <2>4 DEF Named
    <3>2. Promised(p) = IF a = Null THEN Generated ELSE a
      BY <1>3, <3>1 DEF Promised, a
    <3> QED BY <2>1, <2>2, <2>4, <3>2 DEF Get, Stored, Identifier
  <2>5. CASE K[p].kind \notin {"key", "id"}
    <3>1. p \notin KeyNames /\ p # "id"
      BY <1>2, <1>5, <2>5 DEF Named
    <3>2. Promised(p) = a
      BY <1>3, <1>10, <3>1 DEF Promised, a, KeyNames, Odd
    <3> QED BY <2>1, <2>2, <2>5, <3>2 DEF Get, Stored
  <2> QED BY <2>3, <2>4, <2>5
<1> QED BY <1>2, <1>6, <1>7, <1>8, <1>9, <1>10 DEF Odd

(* Whatever was set before or after, and in whatever order g_object_new    *)
(* sets the properties, each property of an object of any class reads as   *)
(* it was last set: the setters and getters of all classes, however many   *)
(* values, classes of objects, and changes of references there are.        *)
THEOREM ReadsAsSetAlways == Spec => []ReadsAsSet
<1>1. Init => CountInv /\ AstratInv /\ ReadInv
  BY CountInit, AstratInit, ReadInit
<1>2. CountInv /\ AstratInv /\ ReadInv /\ [Next]_vars => CountInv' /\ AstratInv' /\ ReadInv'
  BY CountStep, AstratStep, ReadStep
<1>3. CountInv /\ AstratInv /\ ReadInv => ReadsAsSet
  BY ReadInvReads
<1> QED BY <1>1, <1>2, <1>3, PTL DEF Spec
=============================================================================

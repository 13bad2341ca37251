------------------------------ MODULE GObject ------------------------------
(***************************************************************************)
(* What oscats uses of GObject: properties that are declared with a range  *)
(* and a default, and the counting of references.                          *)
(*                                                                         *)
(* An object is a record of                                                *)
(*   val       the fields of its C structure, by name; those that a        *)
(*             property sets have the name of the property,                *)
(*   count     its reference count,                                        *)
(*   floating  whether one of these references belongs to nobody yet,      *)
(*   handlers  the signal connections that drop a reference as they end,   *)
(*   listed    how often each other object is in the array it keeps,       *)
(*   frozen    the banks it has frozen,                                    *)
(*   refs      the reference counts of the other objects,                  *)
(*   crashed   whether a call dereferenced an invalid pointer.             *)
(***************************************************************************)
EXTENDS Naturals, FiniteSets

CONSTANTS Null,       \* the NULL pointer, and the quark 0
          Generated,  \* an identifier made from the address of the object
          Things      \* the objects an object refers to

-----------------------------------------------------------------------------
(* A property is declared with the values it may have and the one it has   *)
(* first: the default, which GObject gives to a property that is set at    *)
(* creation, or what the zeroed structure holds, as it gives the default   *)
(* to no other.                                                            *)

ConstructOnly(kind, range, default) ==
    [when |-> "creation", kind |-> kind, range |-> range, first |-> default]
Construct(kind, range, default) ==
    [when |-> "always", kind |-> kind, range |-> range, first |-> default]
Plain(kind, range, zero) ==
    [when |-> "later", kind |-> kind, range |-> range, first |-> zero]
ReadOnly(zero) ==
    [when |-> "never", kind |-> "value", range |-> {}, first |-> zero]

SetAtCreation(class) == {p \in DOMAIN class : class[p].when \in {"creation", "always"}}
SetLater(class) == {p \in DOMAIN class : class[p].when \in {"later", "always"}}

\* A new object of a class, with further fields that no property sets.
New(class, private, refs, floating) ==
    [val |-> [f \in DOMAIN class \union private |->
                IF f \in private \union SetAtCreation(class) THEN Null ELSE class[f].first],
     count |-> 1, floating |-> floating, handlers |-> 0,
     listed |-> [t \in Things |-> 0], frozen |-> {}, refs |-> refs, crashed |-> FALSE]

-----------------------------------------------------------------------------
(* References.                                                             *)

Ref(refs, thing) ==
    IF thing = Null THEN refs ELSE [refs EXCEPT ![thing] = @ + 1]

\* An object that is no longer there stays so.
Unref(refs, thing) ==
    IF thing = Null \/ refs[thing] = 0 THEN refs ELSE [refs EXCEPT ![thing] = @ - 1]

Crash(s) == [s EXCEPT !.crashed = TRUE]

SetField(s, field, v) == [s EXCEPT !.val[field] = v]

\* The field takes a reference, whatever it has.
Taken(s, field, thing) == [s EXCEPT !.val[field] = thing, !.refs = Ref(@, thing)]

\* The field drops the reference it has and takes one to the new value.
Replaced(s, field, thing) ==
    [s EXCEPT !.val[field] = thing, !.refs = Ref(Unref(@, s.val[field]), thing)]

\* The same, with a reference that the caller gives away.
Given(s, field, thing) ==
    [s EXCEPT !.val[field] = thing, !.refs = Unref(@, s.val[field])]

Cleared(s, field) == Given(s, field, Null)

\* Arrays whose elements are unreferenced when they are removed.
Listed(s, thing) == [s EXCEPT !.listed[thing] = @ + 1, !.refs = Ref(@, thing)]
Unlisted(s, thing) ==
    IF s.listed[thing] = 0 THEN s
    ELSE [s EXCEPT !.listed[thing] = @ - 1, !.refs = Unref(@, thing)]
ListEmptied(s) ==
    [s EXCEPT !.listed = [t \in Things |-> 0],
              !.refs = [t \in Things |->
                          IF @[t] < s.listed[t] THEN 0 ELSE @[t] - s.listed[t]]]

GRef(s) == [s EXCEPT !.count = @ + 1]

\* g_object_ref_sink
RefSink(s) == IF s.floating THEN [s EXCEPT !.floating = FALSE] ELSE GRef(s)

-----------------------------------------------------------------------------
(* The setters and getters that most properties have.                      *)

\* A key is stored as a quark; no key, or an empty one, as 0.
Quark(key) == IF key = "" THEN Null ELSE key
Text(quark) == IF quark = Null THEN "" ELSE quark

\* An identifier is copied, or made up.
Identifier(id) == IF id = Null THEN Generated ELSE id

Set(class, s, p, v) ==
    CASE class[p].kind = "object" -> Replaced(s, p, v)
      [] class[p].kind = "key"    -> SetField(s, p, Quark(v))
      [] class[p].kind = "id"     -> SetField(s, p, Identifier(v))
      [] OTHER                    -> SetField(s, p, v)

Get(class, s, p) ==
    IF class[p].kind = "key" THEN Text(s.val[p]) ELSE s.val[p]
=============================================================================

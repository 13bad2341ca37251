-------------------------------- MODULE Examinee --------------------------------
(***************************************************************************)
(* The abilities of an examinee (OscatsExaminee, examinee.c): points under *)
(* names, and which of the names are the defaults for simulation and for   *)
(* estimation.  The two default points are cached beside the table.        *)
(*                                                                         *)
(* An examinee is a record and a point an address, an element of Points.   *)
(***************************************************************************)

CONSTANTS
  Names,      (* The names of points, the two defaults among them.         *)
  SimDefault, (* The quark "simDefault".                                   *)
  EstDefault, (* The quark "estDefault".                                   *)
  NoName,     (* The quark 0.                                              *)
  NoPoint     (* NULL.                                                     *)

ASSUME NamesAssumption == {SimDefault, EstDefault} \subseteq Names /\ NoName \notin Names

NewExaminee ==
  [simKey |-> SimDefault, simTheta |-> NoPoint,
   estKey |-> EstDefault, estTheta |-> NoPoint,
   theta  |-> [name \in Names |-> NoPoint]]

(* The points an examinee owns.                                            *)
Owned(e) == {e.theta[name] : name \in Names} \ {NoPoint}

GetTheta(e, name) == e.theta[name]

(* Broken: the cache is left at the point of the old key.                  *)
SetSimKeyOnly(e, name) ==
  [e EXCEPT !.simKey = IF name = NoName THEN SimDefault ELSE name]

SetSimKey(e, name) ==
  LET key == IF name = NoName THEN SimDefault ELSE name
  IN  [e EXCEPT !.simKey = key, !.simTheta = GetTheta(e, key)]

SetEstKey(e, name) ==
  LET key == IF name = NoName THEN EstDefault ELSE name
  IN  [e EXCEPT !.estKey = key, !.estTheta = GetTheta(e, key)]

(* Broken: a name that is the default for both updates one cache.          *)
SetThetaElse(e, name, point) ==
  [e EXCEPT !.theta[name] = point,
            !.simTheta = IF name = e.simKey THEN point ELSE @,
            !.estTheta = IF name = e.estKey /\ name # e.simKey THEN point ELSE @]

(* The point that had the name is released.                                *)
SetTheta(e, name, point) ==
  [e EXCEPT !.theta[name] = point,
            !.simTheta = IF name = e.simKey THEN point ELSE @,
            !.estTheta = IF name = e.estKey THEN point ELSE @]

===============================================================================

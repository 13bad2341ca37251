---------------------------------- MODULE Astrat ----------------------------------
(***************************************************************************)
(* The a-stratified algorithm (OscatsAlgAstrat, astrat.c): it stratifies   *)
(* the bank by discrimination within blocks of difficulty and steers the   *)
(* test through the strata with the hint, a quota of recorded items from   *)
(* each.                                                                   *)
(*                                                                         *)
(* A setting stands for the properties of the object:                      *)
(*   quota   the items to select from each stratum, a sequence: Nitems,    *)
(*           or Nstrata times Nequal when "equal" is TRUE,                 *)
(*   blocks  Nblocks,                                                      *)
(*   key     modelKey, which decides the parameters a and b of the items.  *)
(***************************************************************************)
EXTENDS Stratify, Integers, Sequences

CONSTANTS
  Discr,      (* Discr[key][i]: the discrimination of item i by the model. *)
  Diff        (* Diff[key][i]: its difficulty.                             *)

VARIABLES
  setting,    (* The properties.                                           *)
  stratify,   (* The OscatsAlgStratify object.                             *)
  cur,        (* Ncur: the number of the current stratum.                  *)
  rem,        (* Items still to record from it.                            *)
  flag,       (* Whether all strata have been used up.                     *)
  hint        (* The hint of the test.                                     *)

progress == <<cur, rem, flag>>
vars == <<setting, stratify, progress>>

Restratified(object, s) ==
  Stratified(object, Len(s.quota), Discr[s.key], s.blocks, Diff[s.key])

(* Broken: the quota of the stratum just left.                             *)
QuotaOfPrevious(s) == setting.quota[IF s = 0 THEN 1 ELSE s]

(* Broken: one item too many.                                              *)
QuotaOneMore(s) == setting.quota[s + 1] + 1

(* The items to record from stratum s. *)
Quota(s) == setting.quota[s + 1]

(* Broken: items that are not recorded count too.                          *)
CountsAll(recorded) == ~flag

(* Only recorded items count, and none once all strata are used up.        *)
Counts(recorded) == recorded /\ ~flag

(* alg_register: a new object is stratified with the initial setting.      *)
Register(s) ==
  /\ setting = s
  /\ stratify = Restratified(Unstratified, s)
  /\ cur = 0
  /\ rem = s.quota[1]
  /\ flag = FALSE

(* The program changes the properties and calls                            *)
(* oscats_alg_astrat_restratify.                                           *)
Restratify(s) ==
  /\ setting' = s
  /\ stratify' = Restratified(stratify, s)
  /\ cur' = 0
  /\ rem' = s.quota[1]
  /\ flag' = FALSE
  /\ UNCHANGED hint

(* initialize(): the test starts in the first stratum.                     *)
Initialize ==
  /\ cur' = 0
  /\ rem' = Quota(0)
  /\ flag' = FALSE
  /\ stratify' = Advanced(Rewound(stratify))
  /\ hint' = NextStratum(Rewound(stratify))
  /\ UNCHANGED setting

(* administered(): an item that was recorded counts.  With the last one of *)
(* its quota the test moves to the next stratum, or stays in the last.     *)
Administered(recorded) ==
  \/ /\ ~Counts(recorded)
     /\ UNCHANGED <<vars, hint>>
  \/ /\ Counts(recorded) /\ rem > 1
     /\ rem' = rem - 1
     /\ UNCHANGED <<setting, stratify, cur, flag, hint>>
  \/ /\ Counts(recorded) /\ rem = 1
     /\ cur' = cur + 1
     /\ stratify' = Advanced(stratify)
     /\ \/ /\ HasNext(stratify)
           /\ rem' = Quota(cur')
           /\ hint' = NextStratum(stratify)
           /\ UNCHANGED flag
        \/ /\ ~HasNext(stratify)
           /\ rem' = 0
           /\ flag' = TRUE
           /\ UNCHANGED hint
     /\ UNCHANGED setting

===============================================================================

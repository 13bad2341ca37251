----------------------------- MODULE Administration -----------------------------
(***************************************************************************)
(* What oscats_test_administer promises, whatever algorithms are connected *)
(* to the test: an examinee is given items one at a time, none twice and   *)
(* never more than Limit of them; the administrator may record any of the  *)
(* responses; and every administration that begins is finalized once,      *)
(* after its last item.                                                    *)
(***************************************************************************)
EXTENDS Naturals, Sequences

CONSTANTS
  Items,    (* The items of the bank.                         *)
  Limit     (* The maximum number of items of one test.       *)

VARIABLES
  phase,    (* "idle", "running", or "over" before finalizing *)
  given,    (* The items given to the examinee, in order.     *)
  kept      (* Those whose responses were recorded, in order. *)

vars == <<phase, given, kept>>

Init ==
  /\ phase = "idle"
  /\ given = <<>>
  /\ kept  = <<>>

Begin ==
  /\ phase  = "idle"
  /\ phase' = "running"
  /\ given' = <<>>
  /\ kept'  = <<>>

Give(item, record) ==
  /\ phase = "running"
  /\ Len(given) < Limit
  /\ \A p \in 1 .. Len(given) : given[p] # item
  /\ given' = Append(given, item)
  /\ kept'  = IF record THEN Append(kept, item) ELSE kept
  /\ UNCHANGED phase

End ==
  /\ phase  = "running"
  /\ phase' = "over"
  /\ UNCHANGED <<given, kept>>

Finalize ==
  /\ phase  = "over"
  /\ phase' = "idle"
  /\ UNCHANGED <<given, kept>>

Next ==
  \/ Begin
  \/ \E item \in Items, record \in BOOLEAN : Give(item, record)
  \/ End
  \/ Finalize

Spec == Init /\ [][Next]_vars

===============================================================================

------------------------------ MODULE MCHandoff ------------------------------
(***************************************************************************)
(* Handoff for TLC, with two handlers of declines, and states told apart   *)
(* only by what the properties and later steps can tell apart.             *)
(*                                                                         *)
(*   - Which of the two handlers is where does not matter.                 *)
(*   - requires_human_handoff of a run is set before it is looked at:      *)
(*     triage sets it, and it is FALSE where a node leaves it alone.       *)
(*   - The rows of a kind do not matter once the kind is in doubled, which *)
(*     is emptied only with the rows.                                      *)
(*   - Of the word, only whether it is owed, and only while no release has *)
(*     been overrun.  Of spoilt, only its value while the word is owed: on *)
(*     a free thread it is escalation_sent, and a hold that ends sets it.  *)
(*   - The commands that are accepted are those that are done, and of      *)
(*     their notes only the ones that nothing overruns must be kept.       *)
(*                                                                         *)
(* The bound OneAtATimeForLeads: on a thread whose customer is a lead, the *)
(* next decline is not handled before the last one has been.  The second   *)
(* handler tells on the escalation row, the lead on what a turn delivers.  *)
(***************************************************************************)
EXTENDS Handoff

ASSUME TwoHandlers == Cardinality(Handlers) = 2

Counted(kind) == IF kind \in doubled THEN 0 ELSE rows[kind]
Standing ==
    IF word # "owed" \/ overrun # {} THEN "settled" ELSE IF spoilt THEN "spoilt" ELSE "owed"

Binding(s) == [s EXCEPT !.notes = @ \ overrun]

View == <<Binding(ckpt), Binding([run EXCEPT !.requires = FALSE]), pc, route, connect, due,
          {decline[h] : h \in Handlers}, commands, overrun,
          Standing, Counted("lead"), Counted("escalation"), doubled>>

OneAtATimeForLeads ==
    ckpt.lead => Cardinality({h \in Handlers : decline[h].at # "idle"}) <= 1
=============================================================================

---------------------------- MODULE MCWalkthrough ----------------------------
(***************************************************************************)
(* An instance of Walkthrough for TLC: a lock with its verified dearer     *)
(* model, and a door phone that pairs with either.                         *)
(***************************************************************************)
EXTENDS Walkthrough

MCProducts == {"base", "premium", "phone"}
MCUpgrade == [p \in {"base"} |-> "premium"]
MCProposals == {{"base"}, {"phone"}}
=============================================================================

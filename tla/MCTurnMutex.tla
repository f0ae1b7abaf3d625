----------------------------- MODULE MCTurnMutex -----------------------------
(***************************************************************************)
(* Instances of TurnMutex for TLC.                                         *)
(***************************************************************************)
EXTENDS TurnMutex

CONSTANTS m1, m2, m3

ThreeMessages == {m1, m2, m3}
=============================================================================

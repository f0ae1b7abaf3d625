----------------------------- MODULE MCCheckout -----------------------------
(***************************************************************************)
(* Instances of Checkout for TLC.  "swap", "next" and "quote" differ only  *)
(* in what they render, so one of them stands for all three except where a *)
(* run takes every button.                                                 *)
(***************************************************************************)
EXTENDS Checkout

AllTaps == {"apply", "add"} \cup WalkthroughTaps
FewTaps == {"apply", "next"}
=============================================================================

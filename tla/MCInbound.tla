------------------------------ MODULE MCInbound ------------------------------
(***************************************************************************)
(* An instance of Inbound for TLC: one payload with two messages, and a    *)
(* Razorpay event without an id.                                           *)
(***************************************************************************)
EXTENDS Inbound

MCBatches == << <<"m1", "m2">>, <<"e1">> >>
=============================================================================

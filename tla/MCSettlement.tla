---------------------------- MODULE MCSettlement ----------------------------
(***************************************************************************)
(* Instances of Settlement for TLC: the bounds are in the cfg files.       *)
(*                                                                         *)
(* The handlers are told apart by what they handle and where they are, not *)
(* by the order in which their events came: View has a bag of them.  No    *)
(* action and no property looks at the order.                              *)
(***************************************************************************)
EXTENDS Settlement

AtWork == {work[e] : e \in 1 .. Len(work)}
Alike(d) == Cardinality({e \in 1 .. Len(work) : work[e] = d})

View == <<money, attempts, declines, rows, [d \in AtWork |-> Alike(d)],
          count, held, claims, receipts, overtaken>>
=============================================================================

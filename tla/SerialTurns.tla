----------------------------- MODULE SerialTurns -----------------------------
(***************************************************************************)
(* What wa_mutex promises: the turns of one conversation thread are        *)
(* processed one at a time.  A turn may also vanish with its worker.       *)
(***************************************************************************)
CONSTANT Tasks

VARIABLE active  \* the tasks whose turn is being processed

Init == active = {}

Begin(t) == active = {} /\ active' = {t}

End(t) == t \in active /\ active' = active \ {t}

Next == \E t \in Tasks : Begin(t) \/ End(t)

Spec == Init /\ [][Next]_active
=============================================================================

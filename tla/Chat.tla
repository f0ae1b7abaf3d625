-------------------------------- MODULE Chat --------------------------------
(***************************************************************************)
(* What a customer should see of the agent's replies: each message is      *)
(* answered by at most one reply, the bubbles of a reply arrive from the   *)
(* first one on, without a gap, and "as consecutive chat bubbles": no      *)
(* bubble of another reply gets in between.                                *)
(***************************************************************************)
EXTENDS Naturals, Sequences

CONSTANTS Messages, Bubbles
VARIABLE chat   \* the bubbles seen, as <<message, index>>

Init == chat = <<>>

\* The next bubble of the reply that is being read.
Continue(m) ==
    /\ chat # <<>>
    /\ LET last == chat[Len(chat)] IN
         last[1] = m /\ last[2] < Bubbles /\ chat' = Append(chat, <<m, last[2] + 1>>)

\* The first bubble of a reply.
Begin(m) ==
    /\ \A i \in 1 .. Len(chat) : chat[i][1] # m
    /\ chat' = Append(chat, <<m, 1>>)

Next == \E m \in Messages : Continue(m) \/ Begin(m)

Spec == Init /\ [][Next]_chat
=============================================================================

--------------------------- MODULE CheckoutProofs ---------------------------
(***************************************************************************)
(* Proofs about Checkout, for every bound, every set of buttons and both   *)
(* values of Overlap and Faults.  The inductive invariant is IInv; each of *)
(* its conjuncts has a lemma saying that a step preserves it.  One order's *)
(* single link is proved without Faults, the end of a paid order without   *)
(* Overlap: each fails with the other switch on.                           *)
(***************************************************************************)
EXTENDS Checkout, TLAPS

\* Init establishes the inductive invariant: nothing is priced, tapped or minted.
LEMMA InitIInv == Init => IInv
  BY BoundsAreNaturals
  DEF Init, IInv, TypeOK, Room, Budget, Owed, Delivery, Delivered, Naming,
      NamelessOnlyThroughEscalation, Blank, State, Versions, NoOrder, Messages,
      Routes, Link, MayMint

\* The blank state and every update the actions make are states again.
LEMMA BlankIsState == Blank \in State
  BY DEF Blank, State, Versions, NoOrder

\* Letting a hold go leaves a well-formed state.
LEMMA ReleasedIsState ==
  ASSUME NEW s \in State
  PROVE  Released(s) \in State
  BY DEF Released, State

\* Whichever way triage sees the thread, it sees a well-formed state.
LEMMA SeenAreStates == run \in State => \A s \in Seen : s \in State
  BY ReleasedIsState DEF Seen

\* Minting a link or changing the newest one keeps a sequence of links.
LEMMA AppendLink ==
  ASSUME links \in Seq(Link), snap \in State, route \in Routes,
         snap.pending # NoOrder
  PROVE  /\ Append(links, NewLink) \in Seq(Link)
         /\ Len(Append(links, NewLink)) = Len(links) + 1
  <1>1. NewLink \in Link
    BY DEF NewLink, Link, State, Versions, NoOrder
  <1> QED  BY <1>1

\* Marking a link as received keeps a sequence of links.
LEMMA UpdateSeen ==
  ASSUME links \in Seq(Link), NEW i \in 1 .. Len(links), NEW b \in BOOLEAN
  PROVE  /\ [links EXCEPT ![i].seen = b] \in Seq(Link)
         /\ Len([links EXCEPT ![i].seen = b]) = Len(links)
  <1>1. links[i] \in Link
    OBVIOUS
  <1>2. [links[i] EXCEPT !.seen = b] \in Link
    BY <1>1 DEF Link
  <1> QED  BY <1>2

\* So does recording a paid event on it.
LEMMA UpdateEvents ==
  ASSUME links \in Seq(Link), NEW i \in 1 .. Len(links), links[i].events < 2
  PROVE  /\ [links EXCEPT ![i].events = @ + 1] \in Seq(Link)
         /\ Len([links EXCEPT ![i].events = @ + 1]) = Len(links)
  <1>1. links[i] \in Link
    OBVIOUS
  <1>2. [links[i] EXCEPT !.events = @ + 1] \in Link
    BY <1>1 DEF Link
  <1> QED  BY <1>2

-----------------------------------------------------------------------------
(* Types.                                                                  *)

\* What a triage return leaves well-typed, whatever it decided.
LEMMA DecideTypes ==
  ASSUME TypeOK, Room, NEW s \in State, NEW to \in Routes, Decide(s, to),
         confirms' \in 0 .. MaxConfirms, tapped' \in {NoOrder} \cup Versions
  PROVE  TypeOK' /\ Room'
  BY DEF TypeOK, Room, Decide

\* The hold only changes the route, so the types survive it.
LEMMA AnsweredByTypes ==
  ASSUME TypeOK, Room, NEW s \in State, NEW to \in Routes, AnsweredBy(s, to),
         confirms' \in 0 .. MaxConfirms, tapped' \in {NoOrder} \cup Versions
  PROVE  TypeOK' /\ Room'
  <1> DEFINE chosen == IF s.hold /\ to # "adversarial" THEN "escalation" ELSE to
  <1>1. chosen \in Routes
    BY DEF Routes
  <1>2. Decide(s, chosen)
    BY DEF AnsweredBy
  <1> HIDE DEF chosen
  <1> QED  BY <1>1, <1>2, DecideTypes

\* A node that leaves the order alone keeps the types.
LEMMA KeepTypes ==
  ASSUME TypeOK, Room, pc = "node", NEW s \in State, Keep(s)
  PROVE  TypeOK' /\ Room'
  BY DEF TypeOK, Room, Keep, Answer

\* A node that shows an order has room for the new version.
LEMMA AdvanceTypes ==
  ASSUME TypeOK, Room, pc = "node", NEW s \in State, Advance(s)
  PROVE  TypeOK' /\ Room'
  <1> DEFINE t == [s EXCEPT !.pending = versions + 1, !.confirmed = FALSE,
                            !.linkSent = FALSE, !.taps = {}]
  <1>1. versions + 1 \in Versions /\ versions' = versions + 1
    BY BoundsAreNaturals DEF TypeOK, Room, Versions, Advance
  <1>2. t \in State
    BY <1>1 DEF State
  <1>3. Answer(t)
    BY DEF Advance
  <1> HIDE DEF t
  <1>4. ckpt' = t /\ run' = t /\ pc' = "snapshot"
    BY <1>3 DEF Answer
  <1>5. UNCHANGED <<snap, msg, route, links, confirms, tapped>>
    BY <1>3 DEF Answer
  <1> QED  BY <1>1, <1>2, <1>4, <1>5 DEF TypeOK, Room, Versions

\* Ending the turn resets its variables to well-typed values.
LEMMA EndTurnTypes ==
  ASSUME TypeOK, Room, EndTurn, ckpt' \in State, links' \in Seq(Link),
         Len(links') <= MaxLinks, UNCHANGED <<versions, confirms, tapped>>
  PROVE  TypeOK' /\ Room'
  BY BlankIsState DEF TypeOK, Room, EndTurn, Messages, Routes

\* Triage only moves to well-typed states.
LEMMA TriageTypes ==
  ASSUME TypeOK, Room, Triage
  PROVE  TypeOK' /\ Room'
  <1>1. run \in State /\ \A s \in Seen : s \in State
    BY SeenAreStates DEF TypeOK
  <1>2. confirms \in 0 .. MaxConfirms /\ tapped \in {NoOrder} \cup Versions
    BY DEF TypeOK
  <1>3. "sales" \in Routes /\ "escalation" \in Routes
    BY DEF Routes
  <1>4. CASE TriageConfirm
    <2>1. PICK s \in Seen : AnsweredBy([s EXCEPT !.confirmed = TRUE], "sales")
      BY <1>4 DEF TriageConfirm
    <2>2. [s EXCEPT !.confirmed = TRUE] \in State
      BY <1>1, <2>1 DEF State
    <2>3. pc = "triage"
      BY <2>1 DEF AnsweredBy, Decide
    <2>4. confirms' \in 0 .. MaxConfirms
      BY <1>2, <1>4, <2>3, BoundsAreNaturals DEF TriageConfirm, Room
    <2>5. tapped' \in {NoOrder} \cup Versions
      BY <1>1, <1>4 DEF TriageConfirm, State
    <2> QED  BY <1>3, <2>1, <2>2, <2>4, <2>5, AnsweredByTypes
  <1>5. CASE TriageConnect
    <2>1. PICK s \in Seen : Decide([s EXCEPT !.confirmed = FALSE], "escalation")
      BY <1>5 DEF TriageConnect
    <2>2. [s EXCEPT !.confirmed = FALSE] \in State
      BY <1>1, <2>1 DEF State
    <2> QED  BY <1>2, <1>3, <1>5, <2>1, <2>2, DecideTypes DEF TriageConnect
  <1>6. CASE TriageTap
    <2>1. PICK s \in Seen :
            AnsweredBy([s EXCEPT !.confirmed = FALSE, !.taps = @ \cup {msg}], "sales")
      BY <1>6 DEF TriageTap
    <2>2. [s EXCEPT !.confirmed = FALSE, !.taps = @ \cup {msg}] \in State
      BY <1>1, <1>6, <2>1 DEF State, TriageTap
    <2> QED  BY <1>2, <1>3, <1>6, <2>1, <2>2, AnsweredByTypes DEF TriageTap
  <1>7. CASE TriageModel
    <2> DEFINE calm(s) == [s EXCEPT !.confirmed = FALSE]
               kept(s) == [calm(s) EXCEPT !.fault = s.hold /\ s.fault]
               anew(s) == [calm(s) EXCEPT !.fault = FALSE]
    <2>1. PICK s \in Seen :
            \/ AnsweredBy(calm(s), "sales")
            \/ \E to \in Routes : AnsweredBy(kept(s), to)
            \/ Decide(anew(s), "escalation")
      BY <1>7 DEF TriageModel
    <2>2. calm(s) \in State /\ kept(s) \in State /\ anew(s) \in State
      BY <1>1, <2>1 DEF State
    <2>3. confirms' = confirms /\ tapped' = tapped
      BY <1>7 DEF TriageModel
    <2> HIDE DEF calm, kept, anew
    <2> QED  BY <1>2, <1>3, <2>1, <2>2, <2>3, AnsweredByTypes, DecideTypes
  <1>8. CASE TriageModelFails
    <2>1. [run EXCEPT !.confirmed = FALSE, !.fault = TRUE] \in State
      BY <1>1 DEF State
    <2> QED  BY <1>2, <1>3, <1>8, <2>1, DecideTypes DEF TriageModelFails
  <1> QED  BY <1>4, <1>5, <1>6, <1>7, <1>8 DEF Triage

\* The answering nodes only move to well-typed states.
LEMMA NodeTypes ==
  ASSUME TypeOK, Room, Node
  PROVE  TypeOK' /\ Room'
  <1>1. run \in State
    BY DEF TypeOK
  <1>2. pc = "node"
    BY DEF Node, Escalate, AdversarialBlock, CityReply, NameReply, ReAsk, AckConfirm,
           Reprice, Walkthrough, ModelReplies, ModelFails, TapTurn, ModelTurn,
           NotAReply, InSalesNode
  <1>3. CASE Escalate
    <2>1. [run EXCEPT !.hold = @ \/ ~run.fault] \in State
      BY <1>1 DEF State
    <2> QED  BY <1>2, <1>3, <2>1, KeepTypes DEF Escalate
  <1>4. CASE AdversarialBlock \/ ReAsk
    BY <1>1, <1>2, <1>4, KeepTypes DEF AdversarialBlock, ReAsk
  <1>5. CASE CityReply
    <2>1. [run EXCEPT !.awaiting = FALSE, !.confirmed = TRUE] \in State
      BY <1>1 DEF State
    <2> QED  BY <1>2, <1>5, <2>1, KeepTypes DEF CityReply
  <1>6. CASE NameReply
    <2>1. PICK cityToo \in BOOLEAN :
            Keep([run EXCEPT !.named = TRUE, !.confirmed = TRUE, !.awaiting = ~cityToo])
      BY <1>6 DEF NameReply
    <2>2. [run EXCEPT !.named = TRUE, !.confirmed = TRUE, !.awaiting = ~cityToo] \in State
      BY <1>1 DEF State
    <2> QED  BY <1>2, <2>1, <2>2, KeepTypes
  <1>7. CASE AckConfirm
    <2>1. [run EXCEPT !.awaiting = ~run.named] \in State
      BY <1>1 DEF State
    <2> QED  BY <1>2, <1>7, <2>1, KeepTypes DEF AckConfirm
  <1>8. ASSUME NEW tap, Reprice(tap)
        PROVE  TypeOK' /\ Room'
    <2>1. [run EXCEPT !.taps = @ \ {tap}] \in State
      BY <1>1 DEF State
    <2> QED  BY <1>1, <1>2, <1>8, <2>1, KeepTypes, AdvanceTypes DEF Reprice
  <1>9. CASE Walkthrough
    BY <1>1, <1>2, <1>9, AdvanceTypes DEF Walkthrough
  <1>10. CASE ModelReplies
    <2> DEFINE s(named) == [run EXCEPT !.named = named]
    <2>1. PICK named \in {run.named, TRUE} : Keep(s(named)) \/ Advance(s(named))
      BY <1>10 DEF ModelReplies
    <2>2. s(named) \in State
      BY <1>1, <2>1 DEF State
    <2> HIDE DEF s
    <2> QED  BY <1>2, <2>1, <2>2, KeepTypes, AdvanceTypes
  <1>11. CASE ModelFails
    <2> DEFINE t == IF route = "probe" THEN run ELSE [run EXCEPT !.fault = TRUE]
    <2>1. t \in State
      BY <1>1 DEF State
    <2>2. Keep(t)
      BY <1>11 DEF ModelFails
    <2> HIDE DEF t
    <2> QED  BY <1>2, <2>1, <2>2, KeepTypes
  <1> QED  BY <1>3, <1>4, <1>5, <1>6, <1>7, <1>8, <1>9, <1>10, <1>11 DEF Node

\* So do the mint block and a turn that raises.
LEMMA MintTypes ==
  ASSUME TypeOK, Room, Delivery, Mint \/ EndEarly
  PROVE  TypeOK' /\ Room'
  <1>1. links \in Seq(Link) /\ Len(links) <= MaxLinks /\ ckpt \in State
    BY DEF TypeOK
  <1>2. CASE EndEarly \/ NoMint \/ MintRefused
    BY <1>1, <1>2, EndTurnTypes DEF EndEarly, NoMint, MintRefused
  <1>3. CASE PassGate
    BY <1>1, <1>3 DEF PassGate, TypeOK, Room
  <1>4. ASSUME pc = "mint"
        PROVE  /\ Append(links, NewLink) \in Seq(Link)
               /\ Len(Append(links, NewLink)) = Len(links) + 1
               /\ Len(links) + 1 <= MaxLinks
    <2>1. snap \in State /\ route \in Routes /\ snap.pending # NoOrder
      BY <1>4 DEF TypeOK, Delivery
    <2>2. Len(links) < MaxLinks
      BY <1>4 DEF Room
    <2> QED  BY <1>1, <2>1, <2>2, AppendLink, BoundsAreNaturals
  <1>5. CASE CreateLink
    <2>1. links' = Append(links, NewLink) /\ pc = "mint"
      BY <1>5 DEF CreateLink
    <2>2. links' # <<>>
      BY <1>1, <2>1
    <2> QED  BY <1>4, <1>5, <2>1, <2>2 DEF CreateLink, TypeOK, Room
  <1>6. CASE MintAnswerLost
    BY <1>1, <1>4, <1>6, EndTurnTypes DEF MintAnswerLost
  <1>7. ASSUME pc = "send", NEW b \in BOOLEAN
        PROVE  /\ [links EXCEPT ![Len(links)].seen = b] \in Seq(Link)
               /\ Len([links EXCEPT ![Len(links)].seen = b]) = Len(links)
               /\ Len(links) \in 1 .. Len(links)
    <2>1. Len(links) \in 1 .. Len(links)
      BY <1>1, <1>7 DEF Room
    <2> QED  BY <1>1, <2>1, UpdateSeen
  <1>8. CASE SendLink
    <2>1. links' \in Seq(Link) /\ Len(links') = Len(links)
      BY <1>7, <1>8 DEF SendLink
    <2>2. links # <<>>
      BY <1>8 DEF SendLink, Room
    <2>3. links' # <<>>
      BY <1>1, <2>1, <2>2
    <2> QED  BY <1>8, <2>1, <2>3 DEF SendLink, TypeOK, Room
  <1>9. CASE SendLinkRaises
    <2>1. links' \in Seq(Link) /\ Len(links') = Len(links)
      BY <1>7, <1>9 DEF SendLinkRaises
    <2> QED  BY <1>1, <1>9, <2>1, EndTurnTypes DEF SendLinkRaises
  <1>10. CASE MarkSent
    <2>1. ckpt' \in State
      BY <1>1, <1>10 DEF MarkSent, State
    <2> QED  BY <1>1, <1>10, <2>1, EndTurnTypes DEF MarkSent
  <1> QED  BY <1>2, <1>3, <1>5, <1>6, <1>8, <1>9, <1>10 DEF Mint

\* And the writers outside the mutex.
LEMMA EnvironmentTypes ==
  ASSUME TypeOK, Room, Environment
  PROVE  TypeOK' /\ Room'
  <1>1. links \in Seq(Link) /\ ckpt \in State
    BY DEF TypeOK
  <1>2. ASSUME NEW i \in 1 .. Len(links), PaidEvent(i)
        PROVE  TypeOK' /\ Room'
    <2>1. links' \in Seq(Link) /\ Len(links') = Len(links)
      BY <1>1, <1>2, UpdateEvents DEF PaidEvent
    <2>2. ckpt' \in State
      BY <1>1, <1>2 DEF PaidEvent, State
    <2>3. links # <<>> => links' # <<>>
      BY <1>1, <2>1
    <2> QED  BY <1>2, <2>1, <2>2, <2>3 DEF PaidEvent, TypeOK, Room
  <1>3. CASE DeclineEscalates \/ StaffRelease
    <2>1. ckpt' \in State
      BY <1>1, <1>3, ReleasedIsState DEF DeclineEscalates, StaffRelease, State
    <2> QED  BY <1>3, <2>1 DEF DeclineEscalates, StaffRelease, TypeOK, Room
  <1> QED  BY <1>2, <1>3 DEF Environment

\* Every step keeps the types and the room a turn started with.
LEMMA TypeStep ==
  ASSUME IInv, [Next]_vars
  PROVE  TypeOK' /\ Room'
  <1>1. TypeOK /\ Room /\ Delivery
    BY DEF IInv
  <1>2. ASSUME NEW m \in Messages, ReceiveMessage(m)
        PROVE  TypeOK' /\ Room'
    BY <1>1, <1>2 DEF ReceiveMessage, TypeOK, Room
  <1>3. CASE Turn
    BY <1>1, <1>3, TriageTypes, NodeTypes, MintTypes DEF Turn
  <1>4. CASE Environment
    BY <1>1, <1>4, EnvironmentTypes
  <1>5. CASE UNCHANGED vars
    BY <1>1, <1>5 DEF vars, TypeOK, Room
  <1> QED  BY <1>2, <1>3, <1>4, <1>5 DEF Next

-----------------------------------------------------------------------------
(* One tap, one link.                                                      *)

\* What every triage return has in common: it keeps the order, the dedup flag,
\* the question and the name, and authorises nothing unless it is the tap.
Quiet(s, t) ==
    /\ t.pending = s.pending /\ t.linkSent = s.linkSent
    /\ t.awaiting = s.awaiting /\ t.named = s.named

\* Every triage return keeps the name, the outstanding question and the order,
\* and only a confirm tap leaves the order confirmed.
LEMMA TriageReturns ==
  ASSUME TypeOK, Triage
  PROVE  /\ pc = "triage" /\ pc' = "node" /\ ckpt' = run'
         /\ UNCHANGED <<snap, links>>
         /\ Quiet(run, run')
         /\ \/ confirms' = confirms + 1 /\ route' # "adversarial"
            \/ confirms' = confirms /\ ~run'.confirmed
  <1>1. \A s \in Seen : s \in State /\ Quiet(run, s)
    <2>1. run \in State
      BY DEF TypeOK
    <2>2. Released(run) \in State /\ Quiet(run, Released(run))
      BY <2>1 DEF Released, State, Quiet
    <2>3. Quiet(run, run)
      BY DEF Quiet
    <2> QED  BY <2>1, <2>2, <2>3 DEF Seen
  <1>2. /\ pc = "triage" /\ pc' = "node" /\ ckpt' = run'
        /\ UNCHANGED <<snap, links>>
    BY DEF Triage, TriageConfirm, TriageConnect, TriageTap, TriageModel,
           TriageModelFails, AnsweredBy, Decide
  <1>3. CASE TriageConfirm
    <2>1. PICK s \in Seen : AnsweredBy([s EXCEPT !.confirmed = TRUE], "sales")
      BY <1>3 DEF TriageConfirm
    <2>2. run' = [s EXCEPT !.confirmed = TRUE] /\ route' # "adversarial"
      BY <2>1 DEF AnsweredBy, Decide
    <2>3. s \in State /\ Quiet(run, s)
      BY <1>1
    <2>4. Quiet(run, run')
      BY <2>2, <2>3 DEF State, Quiet
    <2> QED  BY <1>2, <1>3, <2>2, <2>4 DEF TriageConfirm
  <1>4. CASE TriageConnect \/ TriageTap
    <2>1. PICK s \in Seen :
            \/ run' = [s EXCEPT !.confirmed = FALSE]
            \/ run' = [s EXCEPT !.confirmed = FALSE, !.taps = @ \cup {msg}]
      BY <1>4 DEF TriageConnect, TriageTap, AnsweredBy, Decide
    <2>2. s \in State /\ Quiet(run, s)
      BY <1>1
    <2>3. Quiet(run, run') /\ ~run'.confirmed
      BY <2>1, <2>2 DEF State, Quiet
    <2> QED  BY <1>2, <1>4, <2>3 DEF TriageConnect, TriageTap
  <1>5. CASE TriageModel
    <2> DEFINE calm(s) == [s EXCEPT !.confirmed = FALSE]
    <2>1. PICK s \in Seen :
            \/ run' = calm(s)
            \/ run' = [calm(s) EXCEPT !.fault = s.hold /\ s.fault]
            \/ run' = [calm(s) EXCEPT !.fault = FALSE]
      BY <1>5 DEF TriageModel, AnsweredBy, Decide
    <2>2. s \in State /\ Quiet(run, s)
      BY <1>1
    <2>3. Quiet(run, run') /\ ~run'.confirmed
      BY <2>1, <2>2 DEF State, Quiet
    <2> QED  BY <1>2, <1>5, <2>3 DEF TriageModel
  <1>6. CASE TriageModelFails
    <2>1. run' = [run EXCEPT !.confirmed = FALSE, !.fault = TRUE] /\ run \in State
      BY <1>6 DEF TriageModelFails, Decide, TypeOK
    <2>2. Quiet(run, run') /\ ~run'.confirmed
      BY <2>1 DEF State, Quiet
    <2> QED  BY <1>2, <1>6, <2>2 DEF TriageModelFails
  <1> QED  BY <1>3, <1>4, <1>5, <1>6 DEF Triage

\* Triage spends no tap: a confirm turn carries a fresh one in.
LEMMA TriageBudget ==
  ASSUME TypeOK, Budget, Triage
  PROVE  Budget'
  BY TriageReturns DEF Quiet, Budget, Owed, TypeOK

\* Only an answer to the outstanding question authorises a mint without a tap,
\* and it uses up the tap the question was holding.
LEMMA NodeBudget ==
  ASSUME TypeOK, Budget, Node
  PROVE  Budget'
  <1>1. /\ pc = "node" /\ pc' = "snapshot" /\ links' = links
        /\ ckpt' = run' /\ confirms' = confirms
    BY DEF Node, Escalate, AdversarialBlock, CityReply, NameReply, ReAsk, AckConfirm,
           Reprice, Walkthrough, ModelReplies, ModelFails, TapTurn, ModelTurn,
           NotAReply, InSalesNode, Keep, Advance, Answer
  <1> DEFINE Idle == run'.awaiting = run.awaiting /\ (run'.confirmed => run.confirmed)
             Spend == run.awaiting \/ (run.confirmed /\ ~run.awaiting)
  <1>2. ASSUME Escalate \/ AdversarialBlock \/ ReAsk
        PROVE  Idle
    BY <1>2 DEF Escalate, AdversarialBlock, ReAsk, Keep, Answer, TypeOK, State
  <1>3. ASSUME CityReply \/ NameReply
        PROVE  Spend
    BY <1>3 DEF CityReply, NameReply, DetailsOutstanding
  <1>4. ASSUME AckConfirm
        PROVE  Spend
    BY <1>4 DEF AckConfirm, ConfirmTurn
  <1>6. ASSUME NEW tap, Reprice(tap)
        PROVE  Idle
    BY <1>6 DEF Reprice, Keep, Advance, Answer, TypeOK, State
  <1>7. ASSUME Walkthrough
        PROVE  Idle
    BY <1>7 DEF Walkthrough, Advance, Answer, TypeOK, State
  <1>8. ASSUME ModelReplies
        PROVE  Idle
    BY <1>8 DEF ModelReplies, Keep, Advance, Answer, TypeOK, State
  <1>9. ASSUME ModelFails
        PROVE  Idle
    BY <1>9 DEF ModelFails, Keep, Answer, TypeOK, State
  <1>10. Idle \/ Spend
    BY <1>2, <1>3, <1>4, <1>6, <1>7, <1>8, <1>9 DEF Node
  <1> QED  BY <1>1, <1>10 DEF Budget, Owed, MayMint, TypeOK, State

\* A mint spends the tap its gate found; a raise spends nothing.
LEMMA MintBudget ==
  ASSUME TypeOK, Room, Budget, Delivery, Mint \/ EndEarly
  PROVE  Budget'
  <1>1. links \in Seq(Link)
    BY DEF TypeOK
  <1>2. CASE PassGate
    BY <1>2 DEF PassGate, Budget, Owed, MayMint
  <1>3. CASE EndEarly \/ NoMint \/ MintRefused
    BY <1>3 DEF EndEarly, NoMint, MintRefused, EndTurn, Budget, Owed
  <1>4. CASE CreateLink \/ MintAnswerLost
    <2>1. pc = "mint" /\ Len(links') = Len(links) + 1
      BY <1>1, <1>4 DEF CreateLink, MintAnswerLost
    <2>2. Len(links) < confirms /\ ~ckpt.awaiting
      BY <2>1 DEF Budget
    <2> QED  BY <1>1, <1>4, <2>1, <2>2
             DEF CreateLink, MintAnswerLost, EndTurn, Budget, Owed, TypeOK
  <1>5. CASE SendLink \/ SendLinkRaises
    <2>1. Len(links') = Len(links)
      BY <1>1, <1>5 DEF SendLink, SendLinkRaises
    <2> QED  BY <1>5, <2>1 DEF SendLink, SendLinkRaises, EndTurn, Budget, Owed
  <1>6. CASE MarkSent
    <2>1. ckpt'.awaiting = ckpt.awaiting
      BY <1>6 DEF MarkSent, TypeOK, State
    <2> QED  BY <1>6, <2>1 DEF MarkSent, EndTurn, Budget, Owed
  <1> QED  BY <1>2, <1>3, <1>4, <1>5, <1>6 DEF Mint

\* Webhooks and staff never hand out a tap and never move the question.
LEMMA EnvironmentBudget ==
  ASSUME TypeOK, Budget, Environment
  PROVE  Budget'
  <1>1. links \in Seq(Link)
    BY DEF TypeOK
  <1>2. Len(links') = Len(links)
    BY <1>1 DEF Environment, PaidEvent, DeclineEscalates, StaffRelease
  <1>3. /\ ckpt'.awaiting = ckpt.awaiting
        /\ MayMint(ckpt') => MayMint(ckpt)
    BY DEF Environment, PaidEvent, DeclineEscalates, StaffRelease, Released, MayMint,
           TypeOK, State
  <1>4. pc' = pc /\ run' = run /\ confirms' = confirms
    BY DEF Environment, PaidEvent, DeclineEscalates, StaffRelease
  <1> QED  BY <1>2, <1>3, <1>4 DEF Budget, Owed, MayMint

\* Every step keeps the accounting of taps, links and outstanding questions.
LEMMA BudgetStep ==
  ASSUME IInv, [Next]_vars
  PROVE  Budget'
  <1>1. TypeOK /\ Room /\ Budget /\ Delivery
    BY DEF IInv
  <1>2. ASSUME NEW m \in Messages, ReceiveMessage(m)
        PROVE  Budget'
    BY <1>1, <1>2 DEF ReceiveMessage, Budget, Owed
  <1>3. CASE Turn
    BY <1>1, <1>3, TriageBudget, NodeBudget, MintBudget DEF Turn
  <1>4. CASE Environment
    BY <1>1, <1>4, EnvironmentBudget
  <1>5. CASE UNCHANGED vars
    BY <1>1, <1>5 DEF vars, Budget, Owed, MayMint
  <1> QED  BY <1>2, <1>3, <1>4, <1>5 DEF Next

-----------------------------------------------------------------------------
(* Sent means delivered.                                                   *)

\* The turn's node works on the order triage left it, or shows a fresh one.
LEMMA NodeShows ==
  ASSUME TypeOK, Node
  PROVE  /\ pc = "node" /\ pc' = "snapshot" /\ ckpt' = run'
         /\ UNCHANGED <<snap, links>>
         /\ \/ /\ run'.pending = run.pending /\ run'.linkSent = run.linkSent
               /\ versions' = versions
            \/ /\ run'.pending = versions + 1 /\ ~run'.linkSent
               /\ versions' = versions + 1
  <1>1. run \in State
    BY DEF TypeOK
  <1>2. /\ pc = "node" /\ pc' = "snapshot" /\ ckpt' = run'
        /\ UNCHANGED <<snap, links>>
    BY DEF Node, Escalate, AdversarialBlock, CityReply, NameReply, ReAsk, AckConfirm,
           Reprice, Walkthrough, ModelReplies, ModelFails, TapTurn, ModelTurn,
           NotAReply, InSalesNode, Keep, Advance, Answer
  <1> DEFINE Same == /\ run'.pending = run.pending /\ run'.linkSent = run.linkSent
                     /\ versions' = versions
             Anew == /\ run'.pending = versions + 1 /\ ~run'.linkSent
                     /\ versions' = versions + 1
  <1>3. ASSUME NEW s \in State, Advance(s)
        PROVE  Anew
    BY <1>3 DEF Advance, Answer, State
  <1>4. ASSUME Escalate \/ AdversarialBlock \/ ReAsk \/ CityReply \/ AckConfirm \/ ModelFails
        PROVE  Same
    BY <1>1, <1>4 DEF Escalate, AdversarialBlock, ReAsk, CityReply, AckConfirm,
                      ModelFails, Keep, Answer, State
  <1>5. ASSUME NameReply
        PROVE  Same
    BY <1>1, <1>5 DEF NameReply, Keep, Answer, State
  <1>6. ASSUME NEW tap, Reprice(tap)
        PROVE  Same \/ Anew
    <2>1. Advance(run) \/ Keep([run EXCEPT !.taps = @ \ {tap}])
      BY <1>6 DEF Reprice
    <2>2. CASE Keep([run EXCEPT !.taps = @ \ {tap}])
      BY <1>1, <2>2 DEF Keep, Answer, State
    <2> HIDE DEF Same, Anew
    <2> QED  BY <1>1, <1>3, <2>1, <2>2
  <1>7. ASSUME Walkthrough
        PROVE  Anew
    BY <1>1, <1>3, <1>7 DEF Walkthrough
  <1>8. ASSUME ModelReplies
        PROVE  Same \/ Anew
    <2> DEFINE s(named) == [run EXCEPT !.named = named]
    <2>1. PICK named \in {run.named, TRUE} : Keep(s(named)) \/ Advance(s(named))
      BY <1>8 DEF ModelReplies
    <2>2. /\ s(named) \in State
          /\ s(named).pending = run.pending /\ s(named).linkSent = run.linkSent
      BY <1>1, <2>1 DEF State
    <2> HIDE DEF s
    <2>3. CASE Keep(s(named))
      BY <2>2, <2>3 DEF Keep, Answer
    <2> HIDE DEF Same, Anew
    <2> QED  BY <1>3, <2>1, <2>2, <2>3
  <1>9. Same \/ Anew
    <2> HIDE DEF Same, Anew
    <2> QED  BY <1>4, <1>5, <1>6, <1>7, <1>8 DEF Node
  <1> QED  BY <1>2, <1>9

\* A node keeps the order and its dedup flag together, or clears the flag.
LEMMA NodeDelivery ==
  ASSUME TypeOK, Delivery, Node
  PROVE  Delivery'
  BY NodeShows DEF Delivery, Delivered

\* Adding a link or an event keeps what was delivered delivered.
LEMMA StillDelivered ==
  ASSUME TypeOK, NEW s, Delivered(s), links' \in Seq(Link), Len(links') >= Len(links),
         \A i \in 1 .. Len(links) :
           links'[i].version = links[i].version /\ (links[i].seen => links'[i].seen)
  PROVE  s.linkSent /\ s.pending # NoOrder =>
           \E i \in 1 .. Len(links') : links'[i].version = s.pending /\ links'[i].seen
  <1> SUFFICES ASSUME s.linkSent, s.pending # NoOrder
               PROVE  \E i \in 1 .. Len(links') :
                        links'[i].version = s.pending /\ links'[i].seen
    OBVIOUS
  <1>1. PICK i \in 1 .. Len(links) : links[i].version = s.pending /\ links[i].seen
    BY DEF Delivered
  <1>2. Len(links) \in Nat /\ Len(links') \in Nat
    BY DEF TypeOK
  <1>3. i \in 1 .. Len(links')
    BY <1>2
  <1> QED  BY <1>1, <1>3

\* The flag is written after the send, for the link that was sent.
LEMMA MintDelivery ==
  ASSUME TypeOK, TypeOK', Room, Delivery, Mint \/ EndEarly
  PROVE  Delivery'
  <1>1. links \in Seq(Link) /\ links' \in Seq(Link) /\ ckpt \in State
    BY DEF TypeOK
  <1>2. ~Blank.linkSent
    BY DEF Blank
  <1>3. CASE PassGate
    BY <1>3 DEF PassGate, MayMint, Delivery, Delivered
  <1>4. CASE EndEarly \/ NoMint \/ MintRefused
    BY <1>2, <1>4 DEF EndEarly, NoMint, MintRefused, EndTurn, Delivery, Delivered
  <1>5. ASSUME CreateLink \/ MintAnswerLost
        PROVE  /\ Len(links') = Len(links) + 1
               /\ \A i \in 1 .. Len(links) : links'[i] = links[i]
               /\ links'[Len(links')] = NewLink
    BY <1>1, <1>5 DEF CreateLink, MintAnswerLost
  <1>6. CASE CreateLink
    <2>1. Delivered(ckpt)' /\ Delivered(run)'
      BY <1>1, <1>5, <1>6, StillDelivered DEF CreateLink, Delivery, Delivered
    <2>2. NewLink.version = snap.pending /\ ~NewLink.seen
      BY DEF NewLink
    <2> QED  BY <1>5, <1>6, <2>1, <2>2 DEF CreateLink, Delivery
  <1>7. CASE MintAnswerLost
    <2>1. Delivered(ckpt)'
      BY <1>1, <1>5, <1>7, StillDelivered DEF MintAnswerLost, Delivery, Delivered
    <2>2. Delivered(run)'
      BY <1>2, <1>7 DEF MintAnswerLost, EndTurn, Delivered
    <2> QED  BY <1>7, <2>1, <2>2 DEF MintAnswerLost, EndTurn, Delivery
  <1>8. ASSUME NEW b \in BOOLEAN, links' = [links EXCEPT ![Len(links)].seen = b], pc = "send"
        PROVE  /\ Len(links') = Len(links) /\ Len(links) \in 1 .. Len(links)
               /\ \A i \in 1 .. Len(links) : links'[i].version = links[i].version
               /\ \A i \in 1 .. Len(links) : i # Len(links) => links'[i] = links[i]
               /\ links'[Len(links)].seen = b
    <2>1. \A i \in 1 .. Len(links) : links[i] \in Link
      BY <1>1
    <2>2. Len(links) \in 1 .. Len(links)
      BY <1>1, <1>8 DEF Room
    <2> QED  BY <1>1, <1>8, <2>1, <2>2 DEF Link
  <1>9. CASE SendLink
    <2>1. pc = "send" /\ links' = [links EXCEPT ![Len(links)].seen = TRUE]
      BY <1>9 DEF SendLink
    <2>2. \A i \in 1 .. Len(links) :
            links'[i].version = links[i].version /\ (links[i].seen => links'[i].seen)
      BY <1>8, <2>1
    <2>3. Delivered(ckpt)' /\ Delivered(run)'
      BY <1>1, <1>8, <1>9, <2>1, <2>2, StillDelivered DEF SendLink, Delivery, Delivered
    <2> QED  BY <1>8, <1>9, <2>1, <2>2, <2>3 DEF SendLink, Delivery
  <1>10. CASE SendLinkRaises
    <2>1. PICK b \in BOOLEAN : links' = [links EXCEPT ![Len(links)].seen = b]
      BY <1>10 DEF SendLinkRaises
    <2>2. pc = "send" /\ ckpt' = ckpt /\ run' = Blank /\ pc' = "idle"
      BY <1>10 DEF SendLinkRaises, EndTurn
    <2>3. \A i \in 1 .. Len(links) :
            links'[i].version = links[i].version /\ (links[i].seen => links'[i].seen)
      BY <1>8, <2>1, <2>2 DEF Delivery
    <2>4. Delivered(ckpt)'
      BY <1>1, <1>8, <2>1, <2>2, <2>3, StillDelivered DEF Delivery, Delivered
    <2> QED  BY <1>2, <2>2, <2>4 DEF Delivery, Delivered
  <1>11. CASE MarkSent
    <2>1. /\ pc = "mark" /\ pc' = "idle" /\ links' = links /\ run' = Blank
          /\ ckpt'.pending = ckpt.pending
      BY <1>1, <1>11 DEF MarkSent, EndTurn, State
    <2>2. Len(links) \in 1 .. Len(links)
      BY <1>1, <2>1 DEF Room
    <2>3. /\ links[Len(links)].version = snap.pending /\ links[Len(links)].seen
          /\ ckpt.pending \in {snap.pending, NoOrder}
      BY <2>1 DEF Delivery
    <2>4. Delivered(ckpt)'
      BY <2>1, <2>2, <2>3 DEF Delivered
    <2> QED  BY <1>2, <2>1, <2>4 DEF Delivery, Delivered
  <1> QED  BY <1>3, <1>4, <1>6, <1>7, <1>9, <1>10, <1>11 DEF Mint

\* Webhooks and staff never set payment_link_sent and never show an order.
LEMMA EnvironmentDelivery ==
  ASSUME TypeOK, TypeOK', Room, Delivery, Environment
  PROVE  Delivery'
  <1>1. links \in Seq(Link) /\ links' \in Seq(Link) /\ ckpt \in State
    BY DEF TypeOK
  <1>2. /\ Len(links') = Len(links)
        /\ \A i \in 1 .. Len(links) :
             links'[i].version = links[i].version /\ links'[i].seen = links[i].seen
    <2>1. \A i \in 1 .. Len(links) : links[i] \in Link
      BY <1>1
    <2> QED  BY <1>1, <2>1 DEF Environment, PaidEvent, DeclineEscalates, StaffRelease, Link
  <1>3. /\ ckpt'.linkSent = ckpt.linkSent
        /\ ckpt'.pending \in {ckpt.pending, NoOrder}
    BY <1>1 DEF Environment, PaidEvent, DeclineEscalates, StaffRelease, Released, State
  <1>4. run' = run /\ snap' = snap /\ pc' = pc
    BY DEF Environment, PaidEvent, DeclineEscalates, StaffRelease
  <1>5. Delivered(ckpt)'
    BY <1>1, <1>2, <1>3, StillDelivered DEF Delivery, Delivered
  <1>6. Delivered(run)'
    BY <1>1, <1>2, <1>4, StillDelivered DEF Delivery, Delivered
  <1>7. pc \in {"send", "mark"} => Len(links) \in 1 .. Len(links)
    BY <1>1 DEF Room
  <1> QED  BY <1>2, <1>3, <1>4, <1>5, <1>6, <1>7 DEF Delivery

\* Every step keeps "sent means delivered" for every copy of the state.
LEMMA DeliveryStep ==
  ASSUME IInv, TypeOK', [Next]_vars
  PROVE  Delivery'
  <1>1. TypeOK /\ Room /\ Delivery
    BY DEF IInv
  <1>2. ASSUME NEW m \in Messages, ReceiveMessage(m)
        PROVE  Delivery'
    BY <1>1, <1>2 DEF ReceiveMessage, Delivery, Delivered
  <1>3. CASE Triage
    BY <1>1, <1>3, TriageReturns DEF Quiet, Delivery, Delivered
  <1>4. CASE Node \/ Mint \/ EndEarly
    BY <1>1, <1>4, NodeDelivery, MintDelivery
  <1>5. CASE Environment
    BY <1>1, <1>5, EnvironmentDelivery
  <1>6. CASE UNCHANGED vars
    BY <1>1, <1>6 DEF vars, Delivery, Delivered
  <1> QED  BY <1>2, <1>3, <1>4, <1>5, <1>6 DEF Next, Turn

-----------------------------------------------------------------------------
(* Names on links.                                                         *)

\* What passes the gate after a node has a name, or never met the sales node.
LEMMA NodeNaming ==
  ASSUME TypeOK, Naming, Node
  PROVE  Naming'
  <1>1. run \in State
    BY DEF TypeOK
  <1>2. pc' = "snapshot" /\ links' = links /\ ckpt' = run' /\ route' = route
    BY DEF Node, Escalate, AdversarialBlock, CityReply, NameReply, ReAsk, AckConfirm,
           Reprice, Walkthrough, ModelReplies, ModelFails, Keep, Advance, Answer
  <1> DEFINE Fine == MayMint(run') => run'.named \/ route = "escalation"
  <1>3. ASSUME NEW s \in State, Advance(s)
        PROVE  ~run'.confirmed
    BY <1>3 DEF Advance, Answer, State
  <1>4. ASSUME Escalate \/ AdversarialBlock
        PROVE  Fine
    BY <1>1, <1>4 DEF Escalate, AdversarialBlock, Keep, Answer, Naming, MayMint, State
  <1>5. ASSUME CityReply \/ ReAsk \/ AckConfirm
        PROVE  Fine
    BY <1>1, <1>5 DEF CityReply, ReAsk, AckConfirm, DetailsOutstanding, Keep, Answer,
                      MayMint, State
  <1>6. ASSUME NameReply
        PROVE  Fine
    BY <1>1, <1>6 DEF NameReply, Keep, Answer, State
  <1>7. ASSUME NEW tap, Reprice(tap)
        PROVE  Fine
    BY <1>1, <1>3, <1>7 DEF Reprice, TapTurn, ConfirmTurn, Keep, Answer, MayMint, State
  <1>8. ASSUME Walkthrough
        PROVE  Fine
    BY <1>1, <1>3, <1>8 DEF Walkthrough, MayMint
  <1>9. ASSUME ModelReplies
        PROVE  Fine
    <2> DEFINE s(named) == [run EXCEPT !.named = named]
    <2>1. PICK named \in {run.named, TRUE} : Keep(s(named)) \/ Advance(s(named))
      BY <1>9 DEF ModelReplies
    <2>2. s(named) \in State /\ (MayMint(s(named)) => ConfirmTurn)
      BY <1>1, <2>1 DEF State, MayMint, ConfirmTurn
    <2>3. ~ConfirmTurn
      BY <1>9 DEF ModelReplies, ModelTurn
    <2> HIDE DEF s
    <2> QED  BY <1>3, <2>1, <2>2, <2>3 DEF Keep, Answer, MayMint
  <1>10. ASSUME ModelFails
         PROVE  Fine
    BY <1>1, <1>10 DEF ModelFails, ModelTurn, ConfirmTurn, Keep, Answer, MayMint, State
  <1>11. Fine
    BY <1>4, <1>5, <1>6, <1>7, <1>8, <1>9, <1>10 DEF Node
  <1> QED  BY <1>2, <1>11 DEF Naming, NamelessOnlyThroughEscalation

\* The mint block puts on the link the name its gate found.
LEMMA MintNaming ==
  ASSUME TypeOK, Room, Naming, Mint \/ EndEarly
  PROVE  Naming'
  <1>1. links \in Seq(Link)
    BY DEF TypeOK
  <1>2. CASE PassGate
    BY <1>2 DEF PassGate, Naming, NamelessOnlyThroughEscalation
  <1>3. CASE EndEarly \/ NoMint \/ MintRefused \/ MarkSent
    BY <1>3 DEF EndEarly, NoMint, MintRefused, MarkSent, EndTurn, Naming,
                NamelessOnlyThroughEscalation
  <1>4. CASE CreateLink \/ MintAnswerLost
    <2>1. /\ Len(links') = Len(links) + 1
          /\ \A i \in 1 .. Len(links) : links'[i] = links[i]
          /\ links'[Len(links')] = NewLink
      BY <1>1, <1>4 DEF CreateLink, MintAnswerLost
    <2>2. NewLink.named \/ NewLink.through = "escalation"
      BY <1>4 DEF CreateLink, MintAnswerLost, Naming, NewLink
    <2>3. pc' \in {"send", "idle"}
      BY <1>4 DEF CreateLink, MintAnswerLost, EndTurn
    <2>4. NamelessOnlyThroughEscalation'
      BY <1>1, <2>1, <2>2 DEF Naming, NamelessOnlyThroughEscalation
    <2> QED  BY <2>3, <2>4 DEF Naming
  <1>5. CASE SendLink \/ SendLinkRaises
    <2>1. \A i \in 1 .. Len(links) : links[i] \in Link
      BY <1>1
    <2>2. /\ Len(links') = Len(links)
          /\ \A i \in 1 .. Len(links) : /\ links'[i].named = links[i].named
                                        /\ links'[i].through = links[i].through
      BY <1>1, <1>5, <2>1 DEF SendLink, SendLinkRaises, Link
    <2>3. pc' \in {"mark", "idle"}
      BY <1>5 DEF SendLink, SendLinkRaises, EndTurn
    <2> QED  BY <2>2, <2>3 DEF Naming, NamelessOnlyThroughEscalation
  <1> QED  BY <1>2, <1>3, <1>4, <1>5 DEF Mint

\* Webhooks and staff never take a name away and never confirm an order.
LEMMA EnvironmentNaming ==
  ASSUME TypeOK, Naming, Environment
  PROVE  Naming'
  <1>1. links \in Seq(Link) /\ ckpt \in State
    BY DEF TypeOK
  <1>2. /\ Len(links') = Len(links)
        /\ \A i \in 1 .. Len(links) : /\ links'[i].named = links[i].named
                                      /\ links'[i].through = links[i].through
    <2>1. \A i \in 1 .. Len(links) : links[i] \in Link
      BY <1>1
    <2> QED  BY <1>1, <2>1 DEF Environment, PaidEvent, DeclineEscalates, StaffRelease, Link
  <1>3. ckpt'.named = ckpt.named /\ (MayMint(ckpt') => MayMint(ckpt))
    BY <1>1 DEF Environment, PaidEvent, DeclineEscalates, StaffRelease, Released, MayMint,
                State
  <1>4. run' = run /\ snap' = snap /\ pc' = pc /\ route' = route
    BY DEF Environment, PaidEvent, DeclineEscalates, StaffRelease
  <1> QED  BY <1>2, <1>3, <1>4 DEF Naming, NamelessOnlyThroughEscalation

\* Every step keeps unnamed orders out of the gate, the bypass apart.
LEMMA NamingStep ==
  ASSUME IInv, [Next]_vars
  PROVE  Naming'
  <1>1. TypeOK /\ Room /\ Naming
    BY DEF IInv
  <1>2. ASSUME NEW m \in Messages, ReceiveMessage(m)
        PROVE  Naming'
    BY <1>1, <1>2 DEF ReceiveMessage, Naming, NamelessOnlyThroughEscalation
  <1>3. CASE Triage
    BY <1>1, <1>3, TriageReturns DEF Naming, NamelessOnlyThroughEscalation
  <1>4. CASE Node \/ Mint \/ EndEarly
    BY <1>1, <1>4, NodeNaming, MintNaming
  <1>5. CASE Environment
    BY <1>1, <1>5, EnvironmentNaming
  <1>6. CASE UNCHANGED vars
    BY <1>1, <1>6 DEF vars, Naming, NamelessOnlyThroughEscalation, MayMint
  <1> QED  BY <1>2, <1>3, <1>4, <1>5, <1>6 DEF Next, Turn

-----------------------------------------------------------------------------
(* The theorems.                                                           *)

\* IInv is an inductive invariant of the checkout.
THEOREM Invariance == Spec => []IInv
  <1>1. Init => IInv
    BY InitIInv
  <1>2. IInv /\ [Next]_vars => IInv'
    <2> SUFFICES ASSUME IInv, [Next]_vars
                 PROVE  IInv'
      OBVIOUS
    <2>1. TypeOK' /\ Room'
      BY TypeStep
    <2>2. Budget' /\ Delivery' /\ Naming'
      BY <2>1, BudgetStep, DeliveryStep, NamingStep
    <2> QED  BY <2>1, <2>2 DEF IInv
  <1> QED  BY <1>1, <1>2, PTL DEF Spec

\* Every variable keeps its type.
THEOREM TypeCorrect == Spec => []TypeOK
  <1>1. IInv => TypeOK
    BY DEF IInv
  <1> QED  BY <1>1, Invariance, PTL

\* "No tap, no link": there are never more payment links than confirm taps,
\* whatever fails and however webhooks and staff commands interleave with turns.
THEOREM NoTapNoLink == Spec => []OneTapOneLink
  <1>1. IInv => OneTapOneLink
    BY DEF IInv, TypeOK, Budget, Owed, OneTapOneLink
  <1> QED  BY <1>1, Invariance, PTL

\* payment_link_sent is never set for an order whose link the customer lacks.
THEOREM SentIsDelivered == Spec => []SentMeansDelivered
  <1>1. IInv => SentMeansDelivered
    BY DEF IInv, Delivery, Delivered, SentMeansDelivered
  <1> QED  BY <1>1, Invariance, PTL

\* Only a turn that bypassed the sales node mints a link with nobody's name.
THEOREM NamelessBypass == Spec => []NamelessOnlyThroughEscalation
  <1>1. IInv => NamelessOnlyThroughEscalation
    BY DEF IInv, Naming
  <1> QED  BY <1>1, Invariance, PTL

-----------------------------------------------------------------------------
(* The hold.                                                               *)

\* A held thread is answered by the escalation node or the adversarial block.
NeverSoldTo == pc = "node" /\ route \in {"sales", "probe"} => ~run.hold

\* Triage is the only way into a node, and it routes around a held thread.
LEMMA HoldStep == NeverSoldTo /\ [Next]_vars => NeverSoldTo'
  <1> SUFFICES ASSUME NeverSoldTo, [Next]_vars PROVE NeverSoldTo'
    OBVIOUS
  <1>1. ASSUME NEW m \in Messages, ReceiveMessage(m) PROVE NeverSoldTo'
    BY <1>1 DEF ReceiveMessage, NeverSoldTo
  <1>2. ASSUME NEW s, NEW to, AnsweredBy(s, to) PROVE NeverSoldTo'
    BY <1>2 DEF AnsweredBy, Decide, NeverSoldTo
  <1>3. ASSUME NEW s, Decide(s, "escalation") PROVE NeverSoldTo'
    BY <1>3 DEF Decide, NeverSoldTo
  <1>4. CASE Triage
    BY <1>2, <1>3, <1>4
    DEF Triage, TriageConfirm, TriageConnect, TriageTap, TriageModel, TriageModelFails
  <1>5. ASSUME NEW s, Answer(s) PROVE NeverSoldTo'
    BY <1>5 DEF Answer, NeverSoldTo
  <1>6. CASE Node
    BY <1>5, <1>6
    DEF Node, Escalate, AdversarialBlock, CityReply, NameReply, ReAsk, AckConfirm,
        Reprice, Walkthrough, ModelReplies, ModelFails, Keep, Advance
  <1>7. CASE Mint \/ EndEarly
    BY <1>7
    DEF Mint, PassGate, NoMint, MintRefused, CreateLink, MintAnswerLost, SendLink,
        SendLinkRaises, MarkSent, EndEarly, EndTurn, NeverSoldTo
  <1>8. CASE Environment
    BY <1>8 DEF Environment, PaidEvent, DeclineEscalates, StaffRelease, NeverSoldTo
  <1>9. CASE UNCHANGED vars
    BY <1>9 DEF vars, NeverSoldTo
  <1> QED  BY <1>1, <1>4, <1>6, <1>7, <1>8, <1>9 DEF Next, Turn

\* An order is only ever shown by a node a held thread is not sent to.
LEMMA HoldShow ==
  NeverSoldTo /\ [Next]_vars => (versions' # versions => ~run.hold)
  <1> SUFFICES ASSUME NeverSoldTo, [Next]_vars, versions' # versions PROVE ~run.hold
    OBVIOUS
  <1>1. CASE InSalesNode
    BY <1>1 DEF InSalesNode, NeverSoldTo
  <1>2. CASE ~InSalesNode
    <2>1. \A m \in Messages : ~ReceiveMessage(m)
      BY DEF ReceiveMessage
    <2>2. ~Triage
      BY DEF Triage, TriageConfirm, TriageConnect, TriageTap, TriageModel,
             TriageModelFails, AnsweredBy, Decide
    <2>3. ~Node
      BY <1>2
      DEF Node, Escalate, AdversarialBlock, CityReply, NameReply, ReAsk, AckConfirm,
          Reprice, Walkthrough, ModelReplies, ModelFails, Keep, TapTurn, ModelTurn,
          NotAReply
    <2>4. ~Mint /\ ~EndEarly
      BY DEF Mint, PassGate, NoMint, MintRefused, CreateLink, MintAnswerLost, SendLink,
             SendLinkRaises, MarkSent, EndEarly
    <2>5. ~Environment
      BY DEF Environment, PaidEvent, DeclineEscalates, StaffRelease
    <2>6. ~UNCHANGED vars
      BY DEF vars
    <2> QED  BY <2>1, <2>2, <2>3, <2>4, <2>5, <2>6 DEF Next, Turn
  <1> QED  BY <1>1, <1>2

\* While a person holds the thread no turn re-prices or re-shows the order.
THEOREM HeldOrderStands == Spec => HeldThreadKeepsItsOrder
  <1>1. Init => NeverSoldTo
    BY DEF Init, NeverSoldTo
  <1>2. NeverSoldTo /\ [Next]_vars => [versions' # versions => ~run.hold]_vars
    BY HoldShow
  <1> QED  BY <1>1, <1>2, HoldStep, PTL DEF Spec, HeldThreadKeepsItsOrder
-----------------------------------------------------------------------------
(* What a step does to the orders and the links.                           *)

\* A webhook or a send changes what is known of a link, never whose it is.
SameLinks ==
    /\ Len(links') = Len(links)
    /\ \A i \in 1 .. Len(links) : links'[i].version = links[i].version

\* Orders are numbered from one.
LEMMA LinkVersions ==
  ASSUME TypeOK
  PROVE  /\ links \in Seq(Link) /\ versions \in Nat
         /\ \A i \in 1 .. Len(links) : links[i].version \in Nat /\ links[i].version # 0
  <1>1. \A i \in 1 .. Len(links) : links[i] \in Link
    BY DEF TypeOK
  <1>2. \A l \in Link : l.version \in Nat /\ l.version # 0
    BY DEF Link, Versions
  <1> QED  BY <1>1, <1>2 DEF TypeOK

\* The mint block adds one link, for the order its gate saw, and marks it.
LEMMA MintLinks ==
  ASSUME TypeOK, Room, Delivery, Mint \/ EndEarly
  PROVE  /\ versions' = versions
         /\ ckpt'.pending = ckpt.pending
         /\ \/ /\ pc = "mint" /\ ckpt' = ckpt
               /\ Len(links') = Len(links) + 1
               /\ \A i \in 1 .. Len(links) : links'[i] = links[i]
               /\ links'[Len(links')].version = snap.pending
               /\ links'[Len(links')].events = 0
            \/ /\ SameLinks
               /\ \A i \in 1 .. Len(links) : links'[i].events = links[i].events
  <1>1. links \in Seq(Link) /\ ckpt \in State /\ \A i \in 1 .. Len(links) : links[i] \in Link
    BY DEF TypeOK
  <1>2. CASE EndEarly \/ NoMint \/ MintRefused \/ PassGate
    BY <1>2 DEF EndEarly, NoMint, MintRefused, PassGate, SameLinks
  <1>3. CASE CreateLink \/ MintAnswerLost
    <2>1. /\ Len(links') = Len(links) + 1
          /\ \A i \in 1 .. Len(links) : links'[i] = links[i]
          /\ links'[Len(links')] = NewLink
      BY <1>1, <1>3 DEF CreateLink, MintAnswerLost
    <2>2. NewLink.version = snap.pending /\ NewLink.events = 0
      BY DEF NewLink
    <2> QED  BY <1>3, <2>1, <2>2 DEF CreateLink, MintAnswerLost
  <1>4. CASE SendLink \/ SendLinkRaises
    <2>1. Len(links) \in 1 .. Len(links)
      BY <1>1, <1>4 DEF SendLink, SendLinkRaises, Room
    <2>2. PICK b : links' = [links EXCEPT ![Len(links)].seen = b]
      BY <1>4 DEF SendLink, SendLinkRaises
    <2>3. SameLinks /\ \A i \in 1 .. Len(links) : links'[i].events = links[i].events
      BY <1>1, <2>1, <2>2 DEF Link, SameLinks
    <2> QED  BY <1>4, <2>3 DEF SendLink, SendLinkRaises
  <1>5. CASE MarkSent
    BY <1>1, <1>5 DEF MarkSent, State, SameLinks
  <1> QED  BY <1>2, <1>3, <1>4, <1>5 DEF Mint

\* The writers outside the mutex at most take the order out of the checkpoint.
LEMMA EnvironmentOrders ==
  ASSUME TypeOK, Environment
  PROVE  /\ UNCHANGED <<run, snap, pc, versions>>
         /\ SameLinks
         /\ ckpt'.linkSent = ckpt.linkSent
         /\ \/ ckpt'.pending = NoOrder /\ Outside
            \/ ckpt'.pending = ckpt.pending /\ links' = links
  <1>1. links \in Seq(Link) /\ ckpt \in State /\ \A i \in 1 .. Len(links) : links[i] \in Link
    BY DEF TypeOK
  <1>2. ASSUME NEW i \in 1 .. Len(links), PaidEvent(i)
        PROVE  /\ SameLinks /\ ckpt'.linkSent = ckpt.linkSent
               /\ ckpt'.pending = NoOrder /\ Outside
               /\ UNCHANGED <<run, snap, pc, versions>>
    BY <1>1, <1>2 DEF PaidEvent, Link, State, SameLinks
  <1>3. CASE DeclineEscalates \/ StaffRelease
    BY <1>1, <1>3 DEF DeclineEscalates, StaffRelease, Released, State, SameLinks
  <1> QED  BY <1>2, <1>3 DEF Environment

-----------------------------------------------------------------------------
(* One order, one link.                                                    *)

\* Versions are handed out in order: no copy of the state and no link holds
\* one that has not been shown yet.
Fresh ==
    /\ ckpt.pending <= versions /\ run.pending <= versions /\ snap.pending <= versions
    /\ \A i \in 1 .. Len(links) : links[i].version <= versions

\* Every step keeps to the versions that were shown.
LEMMA FreshStep ==
  ASSUME IInv, TypeOK', Fresh, [Next]_vars
  PROVE  Fresh'
  <1>1. TypeOK /\ Room /\ Delivery
    BY DEF IInv
  <1>2. /\ links \in Seq(Link) /\ versions \in Nat /\ Blank.pending = 0
        /\ \A i \in 1 .. Len(links) : links[i].version \in Nat
    BY <1>1, LinkVersions DEF Blank, NoOrder
  <1>3. /\ ckpt.pending \in Nat /\ run.pending \in Nat /\ snap.pending \in Nat
    BY <1>1 DEF TypeOK, State, Versions, NoOrder
  <1>4. ASSUME NEW m \in Messages, ReceiveMessage(m)
        PROVE  Fresh'
    BY <1>4 DEF ReceiveMessage, Fresh
  <1>5. CASE Triage
    <2>1. versions' = versions
      BY <1>5 DEF Triage, TriageConfirm, TriageConnect, TriageTap, TriageModel,
                  TriageModelFails, AnsweredBy, Decide
    <2> QED  BY <1>1, <1>5, <2>1, TriageReturns DEF Quiet, Fresh
  <1>6. CASE Node
    BY <1>1, <1>2, <1>3, <1>6, NodeShows DEF Fresh
  <1>7. CASE Mint \/ EndEarly
    <2>1. run' \in {run, Blank} /\ snap' \in {snap, ckpt, Blank}
      BY <1>7 DEF Mint, PassGate, NoMint, MintRefused, CreateLink, MintAnswerLost,
                  SendLink, SendLinkRaises, MarkSent, EndEarly, EndTurn
    <2>2. /\ versions' = versions /\ ckpt'.pending = ckpt.pending
          /\ \A i \in 1 .. Len(links') : links'[i].version <= versions
      BY <1>1, <1>2, <1>7, MintLinks DEF Fresh, SameLinks
    <2> QED  BY <1>2, <2>1, <2>2 DEF Fresh
  <1>8. CASE Environment
    BY <1>1, <1>2, <1>8, EnvironmentOrders DEF Fresh, SameLinks, NoOrder
  <1>9. CASE UNCHANGED vars
    BY <1>9 DEF vars, Fresh
  <1> QED  BY <1>4, <1>5, <1>6, <1>7, <1>8, <1>9 DEF Next, Turn

\* Minted: an order with a link is marked as sent in the checkpoint and in the
\* run; the worker is still to mark it only between the mint and the mark.
Flagged(s) == \A i \in 1 .. Len(links) : links[i].version = s.pending => s.linkSent
Minted ==
    /\ pc \notin {"send", "mark"} => Flagged(ckpt)
    /\ pc \in {"triage", "node"} => Flagged(run)
    /\ pc = "mint" => \A i \in 1 .. Len(links) : links[i].version # snap.pending
    /\ OneLinkPerOrder

\* Where nothing fails, what is minted is marked before the thread's next turn,
\* whatever webhooks and colleagues do to the checkpoint meanwhile.
LEMMA MintedStep ==
  ASSUME ~Faults, IInv, TypeOK', Fresh, Minted, [Next]_vars
  PROVE  Minted'
  <1>1. TypeOK /\ Room /\ Delivery
    BY DEF IInv
  <1>2. /\ links \in Seq(Link) /\ versions \in Nat /\ ckpt \in State
        /\ \A i \in 1 .. Len(links) : links[i].version \in Nat /\ links[i].version # 0
    BY <1>1, LinkVersions DEF TypeOK
  <1>3. ASSUME NEW m \in Messages, ReceiveMessage(m)
        PROVE  Minted'
    BY <1>3 DEF ReceiveMessage, Minted, Flagged, OneLinkPerOrder
  <1>4. CASE Triage
    BY <1>1, <1>4, TriageReturns DEF Quiet, Minted, Flagged, OneLinkPerOrder
  <1>5. CASE Node
    <2>1. /\ pc = "node" /\ pc' = "snapshot" /\ ckpt' = run' /\ links' = links
      BY <1>1, <1>5, NodeShows
    <2>2. Flagged(ckpt)'
      BY <1>1, <1>2, <1>5, <2>1, NodeShows DEF Fresh, Minted, Flagged
    <2> QED  BY <2>1, <2>2 DEF Minted, OneLinkPerOrder
  <1>6. CASE PassGate
    BY <1>6 DEF PassGate, MayMint, Minted, Flagged, OneLinkPerOrder
  <1>7. CASE NoMint \/ EndEarly
    BY <1>7 DEF NoMint, EndEarly, EndTurn, Minted, Flagged, OneLinkPerOrder
  <1>8. CASE CreateLink
    <2>1. pc = "mint" /\ pc' = "send"
      BY <1>8 DEF CreateLink
    <2>2. /\ Len(links') = Len(links) + 1
          /\ \A i \in 1 .. Len(links) : links'[i] = links[i]
          /\ links'[Len(links')] = NewLink
      BY <1>2, <1>8 DEF CreateLink
    <2>3. NewLink.version = snap.pending
      BY DEF NewLink
    <2>4. OneLinkPerOrder'
      BY <1>2, <2>1, <2>2, <2>3 DEF Minted, OneLinkPerOrder
    <2> QED  BY <2>1, <2>4 DEF Minted
  <1>9. CASE SendLink
    <2>1. pc = "send" /\ pc' = "mark"
      BY <1>9 DEF SendLink
    <2>2. SameLinks
      BY <1>1, <1>9, <2>1, MintLinks DEF Mint
    <2> QED  BY <2>1, <2>2 DEF Minted, SameLinks, OneLinkPerOrder
  <1>10. CASE MarkSent
    BY <1>2, <1>10 DEF MarkSent, EndTurn, State, Minted, Flagged, OneLinkPerOrder
  <1>11. ~MintRefused /\ ~MintAnswerLost /\ ~SendLinkRaises
    BY DEF MintRefused, MintAnswerLost, SendLinkRaises
  <1>12. CASE Environment
    BY <1>1, <1>2, <1>12, EnvironmentOrders
    DEF Minted, Flagged, SameLinks, OneLinkPerOrder, NoOrder
  <1>13. CASE UNCHANGED vars
    BY <1>13 DEF vars, Minted, Flagged, OneLinkPerOrder
  <1> QED  BY <1>3, <1>4, <1>5, <1>6, <1>7, <1>8, <1>9, <1>10, <1>11, <1>12, <1>13
           DEF Next, Turn, Mint

\* docs/architecture.md, "a success cannot double-charge": no order has two
\* links while nothing fails, also when webhooks and colleagues write into the
\* middle of a turn.
THEOREM OneOrderOneLink ==
  ASSUME ~Faults
  PROVE  Spec => []OneLinkPerOrder
  <1>1. Init => Fresh /\ Minted
    BY DEF Init, Fresh, Minted, Flagged, OneLinkPerOrder, Blank, NoOrder
  <1>2. IInv /\ TypeOK' /\ Fresh /\ Minted /\ [Next]_vars => Fresh' /\ Minted'
    BY FreshStep, MintedStep
  <1>3. Minted => OneLinkPerOrder
    BY DEF Minted
  <1> QED  BY <1>1, <1>2, <1>3, Invariance, TypeCorrect, PTL DEF Spec

-----------------------------------------------------------------------------
(* A paid order is over.                                                   *)

\* Unpaid: the order in hand is none whose payment was recorded.
Unpaid(s) == \A i \in 1 .. Len(links) : links[i].events > 0 => s.pending # links[i].version
Settled ==
    /\ Unpaid(ckpt)
    /\ pc \in {"triage", "node"} => Unpaid(run)

\* Between turns a paid event takes the order away for good: later orders are
\* later versions, and no turn holds an older copy.
LEMMA SettledStep ==
  ASSUME ~Overlap, IInv, TypeOK', Fresh, Settled, [Next]_vars
  PROVE  Settled'
  <1>1. TypeOK /\ Room /\ Delivery
    BY DEF IInv
  <1>2. /\ links \in Seq(Link) /\ versions \in Nat
        /\ \A i \in 1 .. Len(links) : links[i].version \in Nat /\ links[i].version # 0
    BY <1>1, LinkVersions
  <1>3. ASSUME NEW m \in Messages, ReceiveMessage(m)
        PROVE  Settled'
    BY <1>3 DEF ReceiveMessage, Settled, Unpaid
  <1>4. CASE Triage
    BY <1>1, <1>4, TriageReturns DEF Quiet, Settled, Unpaid
  <1>5. CASE Node
    BY <1>1, <1>2, <1>5, NodeShows DEF Fresh, Settled, Unpaid
  <1>6. CASE Mint \/ EndEarly
    <2>1. pc' \notin {"triage", "node"}
      BY <1>6 DEF Mint, PassGate, NoMint, MintRefused, CreateLink, MintAnswerLost,
                  SendLink, SendLinkRaises, MarkSent, EndEarly, EndTurn
    <2>2. Unpaid(ckpt)'
      BY <1>1, <1>2, <1>6, MintLinks DEF Settled, Unpaid, SameLinks
    <2> QED  BY <2>1, <2>2 DEF Settled
  <1>7. CASE Environment
    BY <1>1, <1>2, <1>7, EnvironmentOrders
    DEF Outside, Settled, Unpaid, SameLinks, NoOrder
  <1>8. CASE UNCHANGED vars
    BY <1>8 DEF vars, Settled, Unpaid
  <1> QED  BY <1>3, <1>4, <1>5, <1>6, <1>7, <1>8 DEF Next, Turn

\* An order whose payment was recorded is never pending again, whatever fails,
\* as long as no paid event lands in the middle of a turn.
THEOREM PaidIsOver ==
  ASSUME ~Overlap
  PROVE  Spec => []PaidNeverPending
  <1>1. Init => Fresh /\ Settled
    BY DEF Init, Fresh, Settled, Unpaid, Blank, NoOrder
  <1>2. IInv /\ TypeOK' /\ Fresh /\ Settled /\ [Next]_vars => Fresh' /\ Settled'
    BY FreshStep, SettledStep
  <1>3. Settled => PaidNeverPending
    BY DEF Settled, Unpaid, PaidNeverPending
  <1> QED  BY <1>1, <1>2, <1>3, Invariance, TypeCorrect, PTL DEF Spec
=============================================================================

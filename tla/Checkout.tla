------------------------------ MODULE Checkout ------------------------------
(***************************************************************************)
(* The money path of one conversation thread: what a customer's turn does  *)
(* to the checkpointed order, when the worker mints a payment link after   *)
(* the turn, and what a Razorpay event, a repeated decline or a colleague  *)
(* writes into the same checkpoint.                                        *)
(*                                                                         *)
(* Turns of one thread are serialised by wa_mutex, so one turn is in       *)
(* progress at most.  The worker's payment task and a staff command run    *)
(* outside the mutex (tasks/processing.py, taskiq_confirm_payment and      *)
(* _handle_staff_command): Overlap says whether they may land mid-turn.    *)
(*                                                                         *)
(* An order is abstracted to its version: a fresh number for every priced  *)
(* showing of it (every sales.py::_advance), because the code asks for a   *)
(* new authorisation whenever an order is re-priced or shown again.        *)
(***************************************************************************)
EXTENDS Naturals, Sequences

CONSTANTS
    MaxVersions,  \* bound: pricings and showings of an order
    MaxLinks,     \* bound: payment links at Razorpay
    MaxConfirms,  \* bound: "Confirm & pay" taps
    Taps,         \* the re-pricing and walkthrough buttons in play
    Overlap,      \* may a webhook or a staff command land during a turn?
    Faults        \* may the LLM, the database, Razorpay or Meta fail?

WalkthroughTaps == {"swap", "next", "quote"}

ASSUME BoundsAreNaturals ==
    MaxVersions \in Nat /\ MaxLinks \in Nat /\ MaxConfirms \in Nat
ASSUME TapsAreButtons == Taps \subseteq {"apply", "add"} \cup WalkthroughTaps
ASSUME FlagsAreBoolean == Overlap \in BOOLEAN /\ Faults \in BOOLEAN

VARIABLES
    ckpt,      \* the thread's latest LangGraph checkpoint
    run,       \* the values the running graph works on
    snap,      \* the post-turn snapshot the mint block acts on
    pc,        \* where the turn is
    msg,       \* the message being answered
    route,     \* the node triage chose
    versions,  \* pricings issued so far
    links,     \* the payment links that exist at Razorpay
    confirms,  \* history: confirm taps seen by triage
    tapped     \* history: the version pending at the last confirm tap

vars == <<ckpt, run, snap, pc, msg, route, versions, links, confirms, tapped>>

\* What a message is to triage: a known button or its wording, another button,
\* other words, or a type the worker reads no text from (a location pin).
Messages == {"confirm", "connect", "button", "text", "pin"} \cup Taps
Routes == {"sales", "probe", "escalation", "adversarial"}
Versions == 1 .. MaxVersions
NoOrder == 0

\* The checkpoint fields the money path reads: pending_order,
\* checkout_confirmed, payment_link_sent, awaiting_pay_details, customer_name
\* (known or not), the *_requested flags, handoff_active (handoff_notified is
\* always written with it) and whether handoff_reason is "error".
State == [pending : {NoOrder} \cup Versions, confirmed : BOOLEAN,
          linkSent : BOOLEAN, awaiting : BOOLEAN, named : BOOLEAN,
          taps : SUBSET Taps, hold : BOOLEAN, fault : BOOLEAN]

\* A link, the order and the name it was minted for, the node the turn went
\* through, whether the customer got its url, and the paid events received.
Link == [version : Versions, named : BOOLEAN, through : Routes,
         seen : BOOLEAN, events : 0 .. 2]

Blank == [pending |-> NoOrder, confirmed |-> FALSE, linkSent |-> FALSE,
          awaiting |-> FALSE, named |-> FALSE, taps |-> {},
          hold |-> FALSE, fault |-> FALSE]

\* The variables' types: every copy of the state is a well-formed state.
TypeOK ==
    /\ ckpt \in State /\ run \in State /\ snap \in State
    /\ pc \in {"idle", "triage", "node", "snapshot", "mint", "send", "mark"}
    /\ msg \in Messages
    /\ route \in Routes
    /\ versions \in 0 .. MaxVersions
    /\ links \in Seq(Link) /\ Len(links) <= MaxLinks
    /\ confirms \in 0 .. MaxConfirms
    /\ tapped \in {NoOrder} \cup Versions

Init ==
    /\ ckpt = Blank /\ run = Blank /\ snap = Blank
    /\ pc = "idle" /\ msg = "text" /\ route = "sales"
    /\ versions = 0 /\ links = <<>> /\ confirms = 0 /\ tapped = NoOrder

-----------------------------------------------------------------------------
(* A turn starts and ends.                                                 *)

\* The worker holds the mutex and starts the graph on the latest checkpoint.
ReceiveMessage(m) ==
    /\ pc = "idle"
    /\ versions < MaxVersions /\ Len(links) < MaxLinks
    /\ m = "confirm" => confirms < MaxConfirms
    /\ pc' = "triage" /\ msg' = m /\ run' = ckpt
    /\ UNCHANGED <<ckpt, snap, route, versions, links, confirms, tapped>>

EndTurn ==
    /\ pc' = "idle"
    /\ run' = Blank /\ snap' = Blank /\ msg' = "text" /\ route' = "sales"

\* The task ends where it is: "Empty text input", or an exception outside the
\* fail-soft blocks (a reply or a brochure apology that cannot be sent).
EndEarly ==
    /\ \/ pc = "triage" /\ msg = "pin"
       \/ Faults /\ pc \in {"node", "snapshot"}
    /\ EndTurn
    /\ UNCHANGED <<ckpt, versions, links, confirms, tapped>>

-----------------------------------------------------------------------------
(* Triage.                                                                 *)

\* Each node writes a whole checkpoint from the run's own values.
Decide(s, to) ==
    /\ pc = "triage"
    /\ run' = s /\ ckpt' = s /\ route' = to /\ pc' = "node"
    /\ UNCHANGED <<snap, msg, versions, links>>

\* Mutant: the route ignores handoff_active.
AnsweredByMutant(s, to) == Decide(s, to)

\* route_after_triage: only adversarial deflection comes before the hold.
AnsweredBy(s, to) ==
    Decide(s, IF s.hold /\ to # "adversarial" THEN "escalation" ELSE to)

\* The thread as triage sees it: a hold past HANDOFF_MAX_HOLD_HOURS is let go.
Released(s) == [s EXCEPT !.hold = FALSE, !.fault = FALSE]
Seen == {run} \cup (IF run.hold THEN {Released(run)} ELSE {})

TriageConfirm ==
    /\ msg = "confirm"
    /\ \E s \in Seen : AnsweredBy([s EXCEPT !.confirmed = TRUE], "sales")
    /\ confirms' = confirms + 1
    /\ tapped' = run.pending

TriageConnect ==
    /\ msg = "connect"
    /\ \E s \in Seen : Decide([s EXCEPT !.confirmed = FALSE], "escalation")
    /\ UNCHANGED <<confirms, tapped>>

TriageTap ==
    /\ msg \in Taps /\ run.pending # NoOrder
    /\ \E s \in Seen :
         AnsweredBy([s EXCEPT !.confirmed = FALSE, !.taps = @ \cup {msg}], "sales")
    /\ UNCHANGED <<confirms, tapped>>

NeedsModel == msg \in {"button", "text"} \/ (msg \in Taps /\ run.pending = NoOrder)

\* Mutant: the classifier's return forgets "checkout_confirmed": is_confirm.
TriageModelMutant ==
    /\ NeedsModel
    /\ \E s \in Seen, to \in Routes : AnsweredBy(s, to)
    /\ UNCHANGED <<confirms, tapped>>

\* The classifier's answer.  The reason survives a ghost return untouched, and
\* otherwise only while the thread is held; a fresh escalation replaces it.
TriageModel ==
    /\ NeedsModel
    /\ \E s \in Seen :
         LET calm == [s EXCEPT !.confirmed = FALSE]
             kept == [calm EXCEPT !.fault = s.hold /\ s.fault]
         IN  \/ AnsweredBy(calm, "sales")
             \/ \E to \in Routes : AnsweredBy(kept, to)
             \/ Decide([calm EXCEPT !.fault = FALSE], "escalation")
    /\ UNCHANGED <<confirms, tapped>>

\* The classifier failed: this return leaves an auto-release out.
TriageModelFails ==
    /\ Faults /\ NeedsModel
    /\ Decide([run EXCEPT !.confirmed = FALSE, !.fault = TRUE], "escalation")
    /\ UNCHANGED <<confirms, tapped>>

-----------------------------------------------------------------------------
(* The answering node.                                                     *)

Answer(s) ==
    /\ run' = s /\ ckpt' = s /\ pc' = "snapshot"
    /\ UNCHANGED <<snap, msg, route, links, confirms, tapped>>

Keep(s) == Answer(s) /\ UNCHANGED versions

\* node_human_escalation: sticky, except for a technical error.
Escalate ==
    /\ pc = "node" /\ route = "escalation"
    /\ Keep([run EXCEPT !.hold = @ \/ ~run.fault])

AdversarialBlock ==
    /\ pc = "node" /\ route = "adversarial"
    /\ Keep(run)

\* _execute_sales_node, entered directly or through node_human_probe.
InSalesNode == pc = "node" /\ route \in {"sales", "probe"}

DetailsOutstanding ==
    run.awaiting /\ run.pending # NoOrder /\ ~run.linkSent

\* Mutant: the city step does not clear awaiting_pay_details.
CityReplyMutant ==
    /\ InSalesNode /\ DetailsOutstanding /\ run.named
    /\ Keep([run EXCEPT !.confirmed = TRUE])

\* The name is on file: whatever the message was, the link goes out.
CityReply ==
    /\ InSalesNode /\ DetailsOutstanding /\ run.named
    /\ Keep([run EXCEPT !.awaiting = FALSE, !.confirmed = TRUE])

\* Words, "Confirm & pay" typed out among them, have no "[" in them.
MayBeTyped == msg # "button"

\* A typed reply parsed as a name and a city, or as a name alone.
NameReply ==
    /\ InSalesNode /\ DetailsOutstanding /\ ~run.named /\ MayBeTyped
    /\ \E cityToo \in BOOLEAN :
         Keep([run EXCEPT !.named = TRUE, !.confirmed = TRUE, !.awaiting = ~cityToo])

\* A button where a name was asked for: ask again.
ReAsk ==
    /\ InSalesNode /\ DetailsOutstanding /\ ~run.named /\ msg # "text"
    /\ Keep(run)

NotAReply == InSalesNode /\ (DetailsOutstanding => ~run.named /\ MayBeTyped)

ConfirmTurn ==
    run.confirmed /\ run.pending # NoOrder /\ ~run.linkSent /\ ~run.awaiting

\* Mutant: the confirm path asks for the name without setting the flag.
AckConfirmMutant ==
    /\ NotAReply /\ ConfirmTurn
    /\ Keep(run)

\* The confirm tap: hold the link while nobody's name is on file.
AckConfirm ==
    /\ NotAReply /\ ConfirmTurn
    /\ Keep([run EXCEPT !.awaiting = ~run.named])

\* Mutant: a new showing of the order leaves payment_link_sent alone.
AdvanceMutant(s) ==
    /\ Answer([s EXCEPT !.pending = versions + 1, !.confirmed = FALSE, !.taps = {}])
    /\ versions' = versions + 1

\* _advance: the only place an order is put on screen.
Advance(s) ==
    /\ Answer([s EXCEPT !.pending = versions + 1, !.confirmed = FALSE,
                        !.linkSent = FALSE, !.taps = {}])
    /\ versions' = versions + 1

TapTurn == NotAReply /\ ~ConfirmTurn /\ run.pending # NoOrder

\* _reprice_with_best_offer and _add_complement_to_order drop their own flag
\* and nothing else when there is no offer, no product or a guardrail refusal.
Reprice(tap) ==
    /\ TapTurn /\ tap \in run.taps
    /\ tap = "add" => "apply" \notin run.taps
    /\ \/ Advance(run)
       \/ Keep([run EXCEPT !.taps = @ \ {tap}])

\* A swap, "next" and "show the price" always render a beat, also when the
\* swap itself could not be done.
Walkthrough ==
    /\ TapTurn /\ run.taps \cap {"apply", "add"} = {}
    /\ run.taps \cap WalkthroughTaps # {}
    /\ Advance(run)

ModelTurn == NotAReply /\ ~ConfirmTurn /\ (run.taps = {} \/ run.pending = NoOrder)

\* The model answers: it may capture the name, and unless this is a confirm
\* turn it may propose products that are priced into a new pending_order.
ModelReplies ==
    /\ ModelTurn
    /\ \E named \in {run.named, TRUE} :
         LET s == [run EXCEPT !.named = named]
         IN  Keep(s) \/ (~run.confirmed /\ Advance(s))

\* The model fails: an apology with handoff_reason "error", which
\* node_human_probe throws away with the rest of the result.
ModelFails ==
    /\ Faults /\ ModelTurn
    /\ Keep(IF route = "probe" THEN run ELSE [run EXCEPT !.fault = TRUE])

-----------------------------------------------------------------------------
(* After the turn: the snapshot, the gate and the mint.                    *)

MayMint(s) ==
    s.confirmed /\ s.pending # NoOrder /\ ~s.linkSent /\ ~s.awaiting

PassGate ==
    /\ pc = "snapshot" /\ MayMint(ckpt)
    /\ snap' = ckpt /\ pc' = "mint"
    /\ UNCHANGED <<ckpt, run, msg, route, versions, links, confirms, tapped>>

\* Nothing to mint, or the snapshot could not be read.
NoMint ==
    /\ pc = "snapshot" /\ (~MayMint(ckpt) \/ Faults)
    /\ EndTurn
    /\ UNCHANGED <<ckpt, versions, links, confirms, tapped>>

\* The guardrail refused the order at fresh prices, or Razorpay refused it.
MintRefused ==
    /\ Faults /\ pc = "mint"
    /\ EndTurn
    /\ UNCHANGED <<ckpt, versions, links, confirms, tapped>>

NewLink == [version |-> snap.pending, named |-> snap.named, through |-> route,
            seen |-> FALSE, events |-> 0]

CreateLink ==
    /\ pc = "mint"
    /\ links' = Append(links, NewLink) /\ pc' = "send"
    /\ UNCHANGED <<ckpt, run, snap, msg, route, versions, confirms, tapped>>

\* Razorpay made the link; its answer timed out, so the worker has no link.
MintAnswerLost ==
    /\ Faults /\ pc = "mint"
    /\ links' = Append(links, NewLink)
    /\ EndTurn
    /\ UNCHANGED <<ckpt, versions, confirms, tapped>>

SendLink ==
    /\ pc = "send"
    /\ links' = [links EXCEPT ![Len(links)].seen = TRUE]
    /\ pc' = "mark"
    /\ UNCHANGED <<ckpt, run, snap, msg, route, versions, confirms, tapped>>

\* dispatch_message raised after its retries; Meta may have delivered.
SendLinkRaises ==
    /\ Faults /\ pc = "send"
    /\ \E seen \in BOOLEAN : links' = [links EXCEPT ![Len(links)].seen = seen]
    /\ EndTurn
    /\ UNCHANGED <<ckpt, versions, confirms, tapped>>

\* Mutant: the worker never writes payment_link_sent.
MarkSentMutant ==
    /\ pc = "mark"
    /\ EndTurn
    /\ UNCHANGED <<ckpt, versions, links, confirms, tapped>>

\* payment_link_sent, written last; the write itself may fail, fail-soft.
MarkSent ==
    /\ pc = "mark"
    /\ \/ ckpt' = [ckpt EXCEPT !.linkSent = TRUE]
       \/ Faults /\ UNCHANGED ckpt
    /\ EndTurn
    /\ UNCHANGED <<versions, links, confirms, tapped>>

-----------------------------------------------------------------------------
(* Writers outside the mutex: aupdate_state on the latest checkpoint.      *)

Outside == Overlap \/ pc = "idle"

\* Mutant: the paid branch leaves pending_order in state.
PaidEventMutant(i) ==
    /\ Outside
    /\ links[i].seen /\ links[i].events < 2
    /\ links' = [links EXCEPT ![i].events = @ + 1]
    /\ ckpt' = [ckpt EXCEPT !.confirmed = FALSE]
    /\ UNCHANGED <<run, snap, pc, msg, route, versions, confirms, tapped>>

\* payment_link.paid and payment.captured: two events for the same money.
PaidEvent(i) ==
    /\ Outside
    /\ links[i].seen /\ links[i].events < 2
    /\ links' = [links EXCEPT ![i].events = @ + 1]
    /\ ckpt' = [ckpt EXCEPT !.pending = NoOrder, !.confirmed = FALSE]
    /\ UNCHANGED <<run, snap, pc, msg, route, versions, confirms, tapped>>

\* The decline that reaches MAX_PAYMENT_FAILURES.
DeclineEscalates ==
    /\ Outside
    /\ \E i \in 1 .. Len(links) : links[i].seen
    /\ ckpt' = [ckpt EXCEPT !.hold = TRUE, !.fault = FALSE]
    /\ UNCHANGED <<run, snap, pc, msg, route, versions, links, confirms, tapped>>

\* A colleague's #back or #done, or resolve_handoff.py, with a note.
StaffRelease ==
    /\ Outside
    /\ ckpt.hold
    /\ ckpt' = Released(ckpt)
    /\ UNCHANGED <<run, snap, pc, msg, route, versions, links, confirms, tapped>>

-----------------------------------------------------------------------------
Triage == TriageConfirm \/ TriageConnect \/ TriageTap \/ TriageModel \/ TriageModelFails

Node ==
    \/ Escalate \/ AdversarialBlock
    \/ CityReply \/ NameReply \/ ReAsk \/ AckConfirm
    \/ Reprice("apply") \/ Reprice("add") \/ Walkthrough
    \/ ModelReplies \/ ModelFails

Mint ==
    \/ PassGate \/ NoMint \/ MintRefused \/ CreateLink \/ MintAnswerLost
    \/ SendLink \/ SendLinkRaises \/ MarkSent

Turn == Triage \/ Node \/ Mint \/ EndEarly

Environment ==
    \/ \E i \in 1 .. Len(links) : PaidEvent(i)
    \/ DeclineEscalates
    \/ StaffRelease

Next == (\E m \in Messages : ReceiveMessage(m)) \/ Turn \/ Environment

Spec == Init /\ [][Next]_vars

\* Every await in a turn has a timeout, so a turn that has begun goes on.
FairSpec == Spec /\ WF_vars(Turn)

-----------------------------------------------------------------------------
(* Properties.                                                             *)

\* "No tap, no link": every payment link in existence has a confirm tap of its
\* own, however turns crash, links fail and webhooks interleave.
OneTapOneLink == Len(links) <= confirms

\* payment_link_sent blocks the pay button, so it is set only for an order
\* whose link the customer has: a failure never leaves them without a way to pay.
SentMeansDelivered ==
    ckpt.linkSent /\ ckpt.pending # NoOrder =>
        \E i \in 1 .. Len(links) : links[i].version = ckpt.pending /\ links[i].seen

\* The name is asked for before the mint: a link without a name on it can only
\* come from a turn that never reached the sales node.
NamelessOnlyThroughEscalation ==
    \A i \in 1 .. Len(links) : links[i].named \/ links[i].through = "escalation"

\* While a person holds the thread no turn re-prices or re-shows the order.
HeldThreadKeepsItsOrder == [][versions' # versions => ~run.hold]_vars

\* The inductive strengthening of the three invariants above.
\*
\* Room: a turn starts only with room for one pricing, one link and one tap.
Room ==
    /\ pc \in {"triage", "node"} => versions < MaxVersions
    /\ pc \in {"triage", "node", "snapshot", "mint"} => Len(links) < MaxLinks
    /\ pc = "triage" /\ msg = "confirm" => confirms < MaxConfirms
    /\ pc \in {"send", "mark"} => links # <<>>

\* Budget: a tap is spent on a link or still owed one.  An outstanding name
\* question holds one tap back, a confirm turn carries one in.
Owed(s) == IF s.awaiting THEN 1 ELSE 0
Budget ==
    /\ Len(links) + Owed(ckpt) <= confirms
    /\ pc \in {"triage", "node"} => run.awaiting = ckpt.awaiting
    /\ pc = "node" /\ run.confirmed => Len(links) + Owed(run) < confirms
    /\ pc = "snapshot" /\ MayMint(ckpt) => Len(links) < confirms
    /\ pc = "mint" => Len(links) < confirms /\ ~ckpt.awaiting

\* Delivery: whichever copy of the state says "sent", the link was seen; the
\* link being sent is the newest one, for the order still in state if any.
Delivered(s) ==
    s.linkSent /\ s.pending # NoOrder =>
        \E i \in 1 .. Len(links) : links[i].version = s.pending /\ links[i].seen
Delivery ==
    /\ Delivered(ckpt) /\ Delivered(run)
    /\ pc \in {"mint", "send", "mark"} =>
         ckpt.pending \in {snap.pending, NoOrder} /\ snap.pending # NoOrder
    /\ pc \in {"send", "mark"} => links[Len(links)].version = snap.pending
    /\ pc = "send" => ~links[Len(links)].seen
    /\ pc = "mark" => links[Len(links)].seen

\* Naming: what may mint has a name or went round the sales node.
Naming ==
    /\ pc = "node" /\ route = "adversarial" => ~run.confirmed
    /\ pc = "snapshot" /\ MayMint(ckpt) => ckpt.named \/ route = "escalation"
    /\ pc = "mint" => snap.named \/ route = "escalation"
    /\ NamelessOnlyThroughEscalation

\* The inductive invariant of the checkout: what every reachable state of the
\* turn, the gate and the mint block satisfies.
IInv == TypeOK /\ Room /\ Budget /\ Delivery /\ Naming

\* An order whose payment was recorded is never pending again.
PaidNeverPending ==
    \A i \in 1 .. Len(links) : links[i].events > 0 => ckpt.pending # links[i].version

\* A confirm tap on a priced, unpaid order of a named customer on a thread
\* nobody holds ends with that order's link in the customer's hands.
Asking(v) ==
    /\ pc = "triage" /\ msg = "confirm"
    /\ run.pending = v /\ run.named /\ ~run.linkSent /\ ~run.hold
ConfirmLeadsToLink ==
    \A v \in Versions : Asking(v) ~>
        (\E i \in 1 .. Len(links) : links[i].version = v /\ links[i].seen)

\* docs/architecture.md: a new total, or a re-shown one, needs a new
\* authorisation: a link is minted for the version that was tapped.
LinkIsForTappedOrder ==
    [][Len(links') > Len(links) => links'[Len(links')].version = tapped]_vars

\* docs/architecture.md: a success cannot double-charge: no order has two links.
OneLinkPerOrder ==
    \A i, j \in 1 .. Len(links) : links[i].version = links[j].version => i = j
=============================================================================

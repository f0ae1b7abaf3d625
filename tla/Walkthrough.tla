---------------------------- MODULE Walkthrough ----------------------------
(***************************************************************************)
(* The consultative walkthrough between "I'll take it" and a price: the    *)
(* dearer model of what the customer picked, the product that pairs with   *)
(* it, the offer of a price, the price (sales.py::_next_beat, _advance and *)
(* the six taps answered without a model).                                 *)
(*                                                                         *)
(* Turns of a thread are serialised, so a turn is triage's step and the    *)
(* answering node's.  Amounts are in Money, minting in Checkout, holds in  *)
(* Handoff; here those turns are only turns answered elsewhere (Divert).   *)
(***************************************************************************)
EXTENDS Integers, FiniteSets, FiniteSetsExt

CONSTANTS
    Products,    \* the catalogue
    Upgrade,     \* discounts.UPGRADES: a product's verified dearer model
    Proposals,   \* the sets of products the model puts in an order
    Tiers,       \* products after which no offer asks for one more
    MaxRaised,   \* bound: flags raised at once
    OldButtons,  \* are buttons of earlier messages tapped?
    Faults       \* may the catalogue, the guardrail or the model fail?

ASSUME UpgradesAreProducts ==
    DOMAIN Upgrade \subseteq Products /\ \A p \in DOMAIN Upgrade : Upgrade[p] \in Products \ {p}
ASSUME ProposalsAreOrders == Proposals \subseteq (SUBSET Products) \ {{}}
ASSUME BoundsAreTyped == Tiers \in Nat /\ MaxRaised \in Nat /\ OldButtons \in BOOLEAN /\ Faults \in BOOLEAN

VARIABLES
    st,       \* the checkpoint's walkthrough fields
    pc,       \* "idle", or "node" between triage and the answering node
    msg,      \* the message being answered
    screen,   \* the walkthrough and pay buttons under the last message
    offered,  \* the buttons somewhere in the chat
    cards,    \* step-up cards in the chat's messages, by product replaced
    seen,     \* history: has the pending order's total been on screen?
    due,      \* history: flags raised and not acted on since
    last      \* history: what the last reply showed, and whether asked to

vars == <<st, pc, msg, screen, offered, cards, seen, due, last>>

Taps == {"apply", "add", "swap", "next", "quote"}
Flags == Taps \cup {"specs"}      \* the *_requested flags, specs_unavailable
None == "none"

\* A priced order: its lines, whether an offer is applied, the product a
\* step-up would replace, the pairing product and whether a tier rewards it.
\* FESTIVE5 makes an offer available to every order.
Order == [lines : (SUBSET Products) \ {{}}, applied : BOOLEAN,
          up : DOMAIN Upgrade \cup {None}, comp : Products \cup {None}, tier : BOOLEAN]
NoOrder == [lines |-> {}, applied |-> FALSE, up |-> None, comp |-> None, tier |-> FALSE]
Charge(o) == [lines |-> o.lines, applied |-> o.applied]

\* pending_order, consult_stage, consult_order_key, the flags, paid_line_items
State == [pending : Order \cup {NoOrder}, stage : 0 .. 4, key : SUBSET Products,
          flags : SUBSET Flags, paid : SUBSET Products]

\* What a message can be: a tap, "Confirm & pay", or words.
Message == [kind : Taps \cup {"confirm", "words"}, live : BOOLEAN]
Words == [kind |-> "words", live |-> FALSE]

TypeOK ==
    /\ st \in State
    /\ pc \in {"idle", "node"}
    /\ msg \in Message
    /\ screen \subseteq offered /\ offered \subseteq Taps \cup {"pay"}
    /\ cards \in [DOMAIN Upgrade -> Nat]
    /\ seen \in BOOLEAN
    /\ due \subseteq Flags
    /\ last \in [shows : {"total", "agent", "note"}, asked : BOOLEAN]

Init ==
    /\ st = [pending |-> NoOrder, stage |-> 0, key |-> {}, flags |-> {}, paid |-> {}]
    /\ pc = "idle" /\ msg = Words
    /\ screen = {} /\ offered = {}
    /\ cards = [p \in DOMAIN Upgrade |-> 0]
    /\ seen = FALSE /\ due = {}
    /\ last = [shows |-> "note", asked |-> FALSE]

HasOrder == st.pending # NoOrder

-----------------------------------------------------------------------------
(* Triage.                                                                 *)

Receive(m, flags) ==
    /\ pc = "idle" /\ pc' = "node" /\ msg' = m
    /\ Cardinality(flags) <= MaxRaised
    /\ st' = [st EXCEPT !.flags = flags]
    /\ UNCHANGED <<screen, offered, cards, seen, last>>

\* A walkthrough or re-pricing tap counts only while an order is pending;
\* without one it is a message for the classifier like any other.
ReceiveTap(b) ==
    /\ b \in IF OldButtons THEN offered ELSE screen
    /\ IF HasOrder
       THEN Receive([kind |-> b, live |-> b \in screen], st.flags \cup {b}) /\ due' = due \cup {b}
       ELSE Receive(Words, st.flags) /\ UNCHANGED due

ReceiveConfirm ==
    /\ "pay" \in IF OldButtons THEN offered ELSE screen
    /\ Receive([kind |-> "confirm", live |-> "pay" \in screen], st.flags) /\ UNCHANGED due

ReceiveWords == Receive(Words, st.flags) /\ UNCHANGED due

\* Words that go through node_retrieve_technical_context: it raises
\* specs_unavailable for a named product nothing was found about, and
\* lowers it otherwise.
Retrieve ==
    \/ /\ Receive(Words, st.flags \cup {"specs"})
       /\ due' = due \cup {"specs"}
    \/ /\ Receive(Words, st.flags \ {"specs"})
       /\ due' = due \ {"specs"}

-----------------------------------------------------------------------------
(* The order and its beats.                                                *)

IsNewSale(o) == st.key # {} /\ st.key \cap o.lines = {}

StageAfter == [hold |-> 0, upsell |-> 1, crosssell |-> 2, quote_ask |-> 3, quote |-> 4]

CanUpgrade(o) == o.up # None
CanPair(o) == o.comp # None /\ o.tier

\* A beat with nothing validated to say is skipped.
NextBeat(o, stage) ==
    IF stage < StageAfter.upsell /\ CanUpgrade(o) THEN "upsell"
    ELSE IF stage < StageAfter.crosssell /\ CanPair(o) THEN "crosssell"
    ELSE IF stage < StageAfter.quote_ask THEN "quote_ask"
    ELSE "quote"

\* _quote_options: Apply or Add in slot one, never both.
QuoteOptions(o) ==
    {"pay"} \cup (IF ~o.applied THEN {"apply"} ELSE IF o.comp # None THEN {"add"} ELSE {})

Buttons(o, beat) ==
    CASE beat = "upsell"    -> {"swap", "next"}
      [] beat = "crosssell" -> {"add", "next"}
      [] beat \in {"quote_ask", "hold"} -> {"quote"}
      [] beat = "quote"     -> QuoteOptions(o)

\* The customer asked for a price, or tapped a button the chat has moved past.
Asked(by) ==
    \/ by \in {"asked", "quote", "apply"}
    \/ by \in Taps /\ msg # [kind |-> by, live |-> TRUE]

\* One reply: the buttons under it, what it shows, and what brought it about.
Show(buttons, shows, by) ==
    /\ pc' = "idle"
    /\ screen' = buttons /\ offered' = offered \cup buttons
    /\ msg' = Words
    /\ last' = [shows |-> shows, asked |-> Asked(by)]

\* Mutant: the *_requested flags outlive the step that answered them.
AdvanceMutant(o, stage, beat, by) ==
    /\ st' = [st EXCEPT !.pending = o, !.stage = Max({stage, StageAfter[beat]}),
                        !.key = o.lines]
    /\ Show(Buttons(o, beat), "agent", by)
    /\ due' = due \ {by}
    /\ UNCHANGED <<cards, seen>>

\* _advance: the one writer of consult_stage and consult_order_key.
Advance(o, stage, beat, by) ==
    /\ st' = [st EXCEPT !.pending = o, !.stage = Max({stage, StageAfter[beat]}),
                        !.key = o.lines, !.flags = @ \ Taps]
    /\ Show(Buttons(o, beat), IF beat = "quote" THEN "total" ELSE "agent", by)
    /\ cards' = IF beat = "upsell" THEN [cards EXCEPT ![o.up] = @ + 1] ELSE cards
    /\ seen' = (beat = "quote" \/ (seen /\ Charge(o) = Charge(st.pending)))
    /\ due' = due \ {by}

-----------------------------------------------------------------------------
(* The answering node, in the order of its branches.                       *)

\* The turn is answered by something else: the hold, the name and city
\* questions, the confirm acknowledgement.  A tap's flag stays raised.
Divert ==
    /\ pc = "node"
    /\ Show({}, "note", "elsewhere")
    /\ UNCHANGED <<st, cards, seen, due>>

\* A tap answered without touching the walkthrough but for its own flag.
Note(b, o, buttons) ==
    /\ st' = [st EXCEPT !.pending = o, !.flags = @ \ {b}]
    /\ Show(buttons, "note", b)
    /\ due' = due \ {b}
    /\ UNCHANGED <<cards, seen>>

TapPending == HasOrder /\ st.flags \cap Taps # {}

\* The taps whose branch comes before another's.
Before == [apply |-> {}, add |-> {"apply"}, swap |-> {"apply", "add"},
           next |-> {"apply", "add", "swap"}, quote |-> {"apply", "add", "swap", "next"}]

Answering(b) ==
    /\ pc = "node" /\ HasOrder
    /\ b \in st.flags /\ st.flags \cap Before[b] = {}

\* _reprice_with_best_offer
ApplyOffer ==
    /\ Answering("apply")
    /\ Advance([st.pending EXCEPT !.applied = TRUE], st.stage, "quote", "apply")

ApplyRefused ==
    /\ Faults /\ Answering("apply")
    /\ Note("apply", st.pending, {})

\* Mutant: the tap is not checked for a stored pairing.
AddComplementMutant ==
    /\ Answering("add")
    /\ LET o == [st.pending EXCEPT !.lines = @ \cup {st.pending.comp},
                                   !.applied = TRUE, !.comp = None, !.tier = FALSE]
       IN  Advance(o, st.stage, NextBeat(o, st.stage), "add")

\* _add_complement_to_order: the pairing is a line now, the step-up stays.
AddComplement ==
    /\ Answering("add")
    /\ st.pending.comp \in Products \ st.pending.lines
    /\ LET o == [st.pending EXCEPT !.lines = @ \cup {st.pending.comp},
                                   !.applied = TRUE, !.comp = None, !.tier = FALSE]
       IN  Advance(o, st.stage, NextBeat(o, st.stage), "add")

\* Its _fallback re-offers the order under the buttons of a quote.
AddRefused ==
    /\ Answering("add")
    /\ Faults \/ st.pending.comp \in st.pending.lines \cup {None}
    /\ LET o == [st.pending EXCEPT !.comp = None, !.tier = FALSE]
       IN  Note("add", o, QuoteOptions(o))

CanSwap(o) ==
    IF o.up = None THEN FALSE ELSE o.up \in o.lines /\ Upgrade[o.up] \notin o.lines

\* _swap_upgrade_in_order: the swapped line may change the nearest tier.
SwapUpgrade ==
    /\ Answering("swap") /\ CanSwap(st.pending)
    /\ \E tier \in {FALSE, st.pending.tier} :
         LET up == st.pending.up
             o == [st.pending EXCEPT !.lines = (@ \ {up}) \cup {Upgrade[up]},
                                     !.applied = TRUE, !.up = None, !.tier = tier]
         IN  Advance(o, st.stage, NextBeat(o, st.stage), "swap")

SwapRefused ==
    /\ Answering("swap") /\ (Faults \/ ~CanSwap(st.pending))
    /\ LET o == [st.pending EXCEPT !.up = None]
       IN  Advance(o, st.stage, NextBeat(o, st.stage), "swap")

ConsultNext ==
    /\ Answering("next")
    /\ Advance(st.pending, st.stage, NextBeat(st.pending, st.stage), "next")

QuoteNow ==
    /\ Answering("quote")
    /\ Advance(st.pending, st.stage, "quote", "quote")

\* The grounding refusal.
RefuseSpecs ==
    /\ pc = "node" /\ ~TapPending /\ "specs" \in st.flags
    /\ st' = [st EXCEPT !.flags = @ \ {"specs"}]
    /\ Show({}, "note", "elsewhere")
    /\ due' = due \ {"specs"}
    /\ UNCHANGED <<cards, seen>>

ModelTurn == pc = "node" /\ ~TapPending /\ "specs" \notin st.flags

ModelFails ==
    /\ Faults /\ ModelTurn
    /\ Show({}, "note", "elsewhere")
    /\ UNCHANGED <<st, cards, seen, due>>

\* _keep_price_reachable: while the price is the question on the table, every
\* reply of the model carries the button that shows it.
KeepPriceReachable ==
    IF HasOrder /\ st.stage = StageAfter.quote_ask THEN {"quote"} ELSE {}

\* Mutant: only a held price keeps its button.
ModelRepliesMutant ==
    /\ ModelTurn
    /\ Show({}, "agent", "model")
    /\ UNCHANGED <<st, cards, seen, due>>

\* The model proposes nothing, or what it proposes is not built: a confirm
\* turn, the paid order again, nothing that can be priced.
ModelReplies ==
    /\ ModelTurn
    /\ Show(KeepPriceReachable, "agent", "model")
    /\ UNCHANGED <<st, cards, seen, due>>

\* _step_up_already_shown: a card with its price difference, not a mention.
AlreadyShown(p) == cards[p] > 0

\* Mutant: the cards already shown are forgotten.
UpgradeValidMutant(o) == o.up = None \/ CanSwap(o)

\* _validate_upgrade: the dearer model of a line, not in the order itself, whose
\* card the customer has not decided on.
UpgradeValid(o) == o.up = None \/ (CanSwap(o) /\ ~AlreadyShown(o.up))

\* _validate_complement: a product that is no line, and pays by reaching a tier.
ComplementValid(o) ==
    /\ o.comp \notin o.lines
    /\ o.tier = (o.comp # None)
    /\ o.comp # None => Cardinality(o.lines) < Tiers

\* _build_pending_order, for what the model proposes.
Built == {o \in Order : o.lines \in Proposals /\ UpgradeValid(o) /\ ComplementValid(o)}

\* _reproposes_paid_order
AlreadyPaid(o) == o.lines \subseteq st.paid

Stage(o) == IF IsNewSale(o) THEN 0 ELSE st.stage

\* Mutant: the price is not held back while the question is on screen.
BeatForMutant(o, asked) == IF asked THEN "quote" ELSE NextBeat(o, Stage(o))

\* The next beat; the price if asked for outright; nothing while "Shall I
\* show you the price?" is unanswered.
BeatFor(o, asked) ==
    IF asked THEN "quote"
    ELSE IF Stage(o) = StageAfter.quote_ask THEN "hold"
    ELSE NextBeat(o, Stage(o))

ModelProposes ==
    /\ ModelTurn /\ msg.kind # "confirm"
    /\ \E o \in Built, asked \in BOOLEAN :
         /\ ~AlreadyPaid(o)
         /\ Advance(o, Stage(o), BeatFor(o, asked), IF asked THEN "asked" ELSE "model")

-----------------------------------------------------------------------------

\* A payment of the pending order is recorded.
OrderPaid ==
    /\ pc = "idle" /\ HasOrder /\ "pay" \in offered
    /\ st' = [st EXCEPT !.pending = NoOrder, !.paid = st.pending.lines]
    /\ seen' = FALSE
    /\ UNCHANGED <<pc, msg, screen, offered, cards, due, last>>

Next ==
    \/ \E b \in Taps : ReceiveTap(b)
    \/ ReceiveConfirm \/ ReceiveWords \/ Retrieve
    \/ Divert
    \/ ApplyOffer \/ ApplyRefused
    \/ AddComplement \/ AddRefused
    \/ SwapUpgrade \/ SwapRefused
    \/ ConsultNext \/ QuoteNow
    \/ RefuseSpecs \/ ModelFails \/ ModelReplies \/ ModelProposes
    \/ OrderPaid

Spec == Init /\ [][Next]_vars

-----------------------------------------------------------------------------
(* Properties.                                                             *)

\* A step-up is put to the customer once: its card is a decided either/or,
\* whatever orders and sales come after it (_step_up_already_shown).
StepUpDecidedOnce == \A p \in DOMAIN Upgrade : cards[p] <= 1

\* A raised flag is acted on at most once: what a tap asked for, or a failed
\* retrieval called for, is never done again on a later message.
FlagsActOnce == st.flags \subseteq due

\* While "Shall I show you the price?" is unanswered, every reply of a beat or
\* of the model carries the button that answers it.
PriceStaysReachable ==
    st.stage = StageAfter.quote_ask /\ HasOrder
    /\ last.shows = "agent" /\ pc = "idle" => "quote" \in screen

\* The first total of a sale answers a tap for it or words asking for it,
\* unless the tap is on a button the chat has moved past (a double tap).
PriceWaitsToBeAsked ==
    [][pc = "node" /\ pc' = "idle" /\ last'.shows = "total" /\ st.stage < 4
       => last'.asked]_vars

\* "Confirm & pay" is offered under an order whose total the customer has
\* seen (disputed: see the README).
PayFollowsTotal == "pay" \in screen /\ HasOrder => seen
=============================================================================

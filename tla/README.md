# A TLA+ model of the sales agent

The repository is a WhatsApp sales agent: customers' messages enter through a FastAPI
webhook, a TaskIQ worker runs each one through a LangGraph graph, and an order that the
customer authorises becomes a Razorpay payment link. Code, never the language model, decides
what may be charged and when. This directory models that code: the modules, the TLC
instances that check them, and the TLAPS proofs.

Paths below are relative to the repository; `processing.py` is `src/tasks/processing.py`,
`sales.py` and `triage.py` are in `src/graph/nodes/`.

## 1. The system

| Component | State it keeps | Operations | Modelled in |
|---|---|---|---|
| Ingestion (`api/webhooks.py`) | Redis keys `idem_in:*`, `idem_rzp:*`; the task queue | verify, claim, enqueue, answer | Inbound |
| Turn mutex (`storage/cache.py`, `processing.py`) | `wa_mutex:<thread>` with a TTL; a keepalive per turn | acquire, poll, drop, extend, release, expire | TurnMutex, SerialTurns |
| Triage and routing (`triage.py`, `workflow.py`) | checkpoint fields (`graph/state.py`) | recognise a tap, classify, let an old hold go, route | Checkout, Handoff, Walkthrough |
| Sales node (`sales.py`) | the same checkpoint | name and city questions, confirm, beats and suggestions, five re-pricing and walkthrough taps, model turn | Checkout, Walkthrough, Money |
| Mint block (`processing.py`, `services/razorpay_service.py`) | `payment_link_sent`; the links at Razorpay | gate, re-validate, create, send, mark | Checkout, Money |
| Settlement (`taskiq_confirm_payment`) | `PaymentOrder` rows, `payment_failure_count`, `paid-notify` keys | paid, failed, expired | Settlement; the effect on the checkpoint in Checkout and Handoff |
| Staff handoff (`handoff_control.py`, `triage.py`) | `handoff_active`, `handoff_reason`, `human_request_count`, notes | escalate, hold, auto-release, `#back`/`#done` | Handoff; what it means for the money path in Checkout |
| Lead and escalation delivery (`crm_handoff.py`, `lead_sink.py`) | `lead_sent`, `escalation_sent` | deliver a row, set its flag | Handoff |
| Dispatch (`services/whatsapp.py`) | `idem_out:*` keys | claim, send with retries, release | Inbound, which implements Chat |
| Pricing, discounts, guardrails (`logic/`, `core/guardrails.py`) | none; the price table | resolve, price, discount, validate, re-price on a tap | Money |
| Retrieval (`rag.py`, `rag/`) | `specs_unavailable`; external indices | search, raise or lower the flag | the flag in Walkthrough |
| Semantic memory, prompts, LLM access | external services | recall, generate | no: their outcome is a nondeterministic choice |
| Heartbeat, tracing, scripts, configuration | none that other code reads | | no |

How they interact. The webhook enqueues a task per message. The task takes `wa_mutex`, runs
triage and one answering node, each of which writes a checkpoint, sends the replies, reads
the checkpoint again, delivers a lead or an escalation to the team and, if the gate is open, mints. A Razorpay event is a task of its own
that takes no mutex: it writes the audit row, then the checkpoint, then sends. A colleague's
command takes no mutex either. So the checkpoint has three writers of which only one is
serialised, and the hard behaviour of the system is there: what a write from outside does to a
running turn, what a failure between two effects of the mint leaves behind, what flag of an
earlier turn a later turn finds, and what two handlers of one payment do to each other.

What makes each part correct, in short:

- turn and mint: no link without a tap; the tap and the link are about the same order; one
  order, one link; what the state says was sent was delivered; a tap eventually yields a link;
- triage and handoff: nobody sells on a thread a person holds; a request for a person is
  honoured;
- mutex: turns of one customer are serial, and a dead turn does not lock the customer out;
- settlement: each payment is recorded, stays recorded, and is receipted exactly once;
  declines are counted exactly;
- ingestion and dispatch: what was answered with a 2xx is in somebody's hands, an id is processed
  once, and a reply reaches the customer whole, in order and once;
- handoff delivery: no hold without the team, one row per hold, no colleague's note lost;
- walkthrough: a tap acts once, a step-up is asked once, the price waits until it is asked for and
  is always one tap away;
- pricing: the amount is re-derivable, in bounds, and the amount that is charged.

## 2. Modules

| Module | What it is |
|---|---|
| `Checkout.tla` | one thread's order, from a message to a link, with webhooks and staff |
| `MCCheckout.tla` | its instances: which buttons are in play |
| `CheckoutProofs.tla` | its theorems |
| `SerialTurns.tla` | the abstract promise of the mutex: turns begin and end one at a time |
| `TurnMutex.tla` | the mutex as implemented, with time |
| `MCTurnMutex.tla`, `TurnMutexProofs.tla` | its instance and its theorems |
| `Settlement.tla`, `MCSettlement.tla` | the event handlers, one step per await |
| `SettlementProofs.tla` | its theorems |
| `Money.tla`, `MCMoney.tla` | what an order contains and costs, from a proposal to the mint |
| `MoneyProofs.tla` | its theorems |
| `FiniteLemmas.tla` | what the proofs about Money and Settlement need of finite sets, folds and sums |
| `Chat.tla` | the abstract promise of the pipeline: the chat a customer should see |
| `Inbound.tla`, `MCInbound.tla` | webhook, queue, worker and dispatch, with failures anywhere |
| `InboundProofs.tla` | its theorems, the refinement of Chat among them |
| `Handoff.tla`, `MCHandoff.tla` | a thread that a person takes over, the rows that tell the team, the commands that give it back |
| `HandoffProofs.tla` | its theorems |
| `Walkthrough.tla`, `MCWalkthrough.tla` | the beats, buttons and flags between a pick and its price |
| `WalkthroughProofs.tla` | its theorems |

Definitions whose comment begins with "Mutant:" are plausible bugs, next to the definition
they alter; no `Next` uses them. Each property has one that violates it (`PROJECT.json`).

### Checkout

`ckpt` is the thread's latest checkpoint, `run` the values the running graph works on, `snap`
the post-turn read the mint block acts on, `pc` how far the turn is. An order is abstracted to
its *version*: every `sales.py::_advance` shows a priced order and resets the authorisation, so
each such showing takes a fresh number. What the order contains, and which beat is shown, is
left out. `links` are the links at Razorpay, each with the order and name it was minted for, the
node its turn went through, whether the customer received it, and its paid events so far.
`confirms` and `tapped` are history variables.

A turn is `ReceiveMessage`, one `Triage` action per return of `node_triage`, one `Node` action
per return of the answering node (the order of `_execute_sales_node`'s branches is in the
guards), and the `Mint` actions. Only the fields the money path reads are kept.

- LangGraph's semantics are external and used as the code relies on them: a run starts from
  the latest checkpoint, each node writes a whole checkpoint from the run's own values, and an
  `aupdate_state` during a run is overwritten by the run's next write. `Decide` and `Answer`
  therefore write `ckpt' = s` from `run`, while the writers outside the mutex change `ckpt` only.
- The classifier and the model are nondeterministic. A message is what triage can tell apart: a
  known button (typed wording of it counts, as in the code), another button, words, or "pin", a
  type the worker reads no text from.
- `Faults` lets the model, the database, Razorpay and Meta fail where the code has a path for
  it: the classifier's and the model's fallbacks, a refused mint, a link whose answer is lost, a
  send that raises (delivered or not), a flag that is not written, a turn that ends in an
  exception. `max_retries` on the tasks has no effect without a retry middleware, and
  `tasks/broker.py` configures none, so an exception ends the task.
- `Overlap` lets a Razorpay event, an escalating decline or a staff command land mid-turn.

Left out: a duplicate delivery by Meta inside one dispatch, and the brochure, which writes a flag
the money path does not read (an apology that raises is `EndEarly`). The lead and escalation rows
are in Handoff.

### TurnMutex

Each task polls (`Acquire`, `Miss`, `Drop`), runs, stops its keepalive and releases. Time is a
tick: the TTL runs down, keepalives come due. A keepalive that is due may be late for as long
as the scheduler likes, may die on a Redis error, and extends the lock whoever owns it, because
`EXPIRE` does not ask. `onTime` is history: no keepalive has died or been late. The code's
30 s, 10 s and 30 polls are `Lease`, `Period` and `Attempts`.

### Settlement

Each delivered event is an element of `work` with its handler's program counter and its own
copies of what it read: the row, that row's status (SQLAlchemy writes an attribute only if it
differs from the value it loaded) and the count. Steps are split at the awaits. `rows` are the
audit rows, oldest first; a refused mint writes one without a link. `payment.captured` and
`payment.failed` carry no link, so `FindRow` gives them the newest row of the thread. Razorpay
itself (`Pay`, `Decline`, `Expire`) is external. `overtaken` is history: a payment was written on a
row that a handler of another kind had read before and not written yet. Not modelled here: an unreachable database,
which ends the handler, the amounts, and the staff release that resets the count.

### Money

The order that Checkout numbers, with what is in it. `order` is `pending_order` with its lines in
the order of `line_items`, `catalogue` is `products_pricing`, and `link` is `payment_link_sent`
together with whether the mint's price lookup answered. The operators are the functions of
`discounts.py` and `guardrails.py` one for one (`PriceLines`, `ApplyOffer`, `Best`, `Nudges` and
`Nearest` for `next_offer_hint`, `Allowed`), and each tap is an action that ends in `Show`, the
effect of `_advance`. A tap that changes nothing, and a mint that is refused, is a stutter.

- A name resolves to the first active of `Rows[name]`: the exact row, then the normalised one,
  then the longest catalogue name inside it. Names that normalise to two rows are left out.
- Amounts are integers in the smallest unit and rounding is half up, which is what `round` with
  its 1e-9 nudge does to them; line totals are computed instead of stored, so the guardrail's
  comparison of the two is left out. The guardrail's tolerance of 0.01 is one unit.
- The model proposes any names and any offer. Which suggestion survives its wording is a choice:
  a jargon, a figure or a card already shown only ever drop one. `Propose` happens once, since
  `_build_pending_order` does not read the order it replaces.

### Chat and Inbound

Chat is what the customer should see: `Begin` a reply to a message that has none yet, `Continue`
the reply that is being read. Inbound has a record per webhook handler (`hooks`) and per task
(`tasks`), each with its program counter; their steps are the awaits of `api/webhooks.py` (SET NX,
enqueue, answer) and of the worker and `dispatch_message` (lock, claim, post, retry, give back).
`claimed` and `sent` are the Redis keys at both ends, `chat` is what has arrived; `spilled` and
`stuck` are history: the claims that a broken handler, a dead worker or a failing Redis left behind.

- A delivery is answered or breaks at any await, before or after the push; the provider delivers
  until it has seen a 2xx. A read timeout may come after Meta has taken the message, so
  `PostFails` may deliver; a copy of the bubble that arrived last is not counted as a new one.
- A task that raises or whose worker dies is not run again: `tasks/broker.py` has no retry
  middleware, and a popped task is in no list.
- "One turn at a time" is taken from TurnMutex, with `Drop` for a task that polls in vain. The lock
  is polled without a queue, so the later of two waiting messages may be answered first.
- A bad signature and a malformed body are refused before any state changes. The keys are assumed
  to outlive the provider's redeliveries. The 24-hour template of `dispatch_message` is left out:
  a reply is sent well within 24 hours of its message.

### Handoff

`ckpt` and `run` are as in Checkout, with the fields that escalation reads and writes; `due` are
the rows that the snapshot after the turn called for. `decline` has the handlers of declines, one per
task that may be at one (`Handlers`), with the count each is going to write: it reads the count,
writes it, says sorry, reads `escalation_sent`, delivers and sets the flag, one step per await.
`commands` are the colleagues' commands. Neither takes a mutex: they interleave
at every await with a turn and with each other. One action per return of `node_triage` and per
ending of the answering nodes; `AutoRelease`, `Upset`, `Calm` and `Reason` are the code's updates.
`word`, `spoilt`, `rows`, `doubled`, `accepted` and `overrun` are history and state the properties:
whether the team knows of the present hold, how many rows it has had, which kind of row may come
twice because two have read its flag before either set it, or it was not set or taken back
(`Doubles`), and which notes were written beside another writer. Left out: what a row says, and the brochure.

### Walkthrough

`st` has the walkthrough's fields of the checkpoint, `screen` the buttons under the last message,
`offered` all buttons in the chat, which stay tappable (`OldButtons`). Each tap is answered by the
action of its branch in `_execute_sales_node`, in the order of the branches (`Before`); `Advance` is
`_advance`, `NextBeat` is `_next_beat`, `Built` what `_build_pending_order` can leave of what the
model proposes: any suggestion that `UpgradeValid` and `ComplementValid` let through. What an
order costs is left to Money, so whether a pairing reaches a tier is a choice. `Divert` is a turn
that another branch or node answers; a tap's flag stays raised across it. `Faults` lets a look-up,
the guardrail or the model fail.

## 3. What the runs show

Run with `tlc -workers 2 -config <cfg> <module>`.

| Run | States | Shows |
|---|---|---|
| `checkout_overlap` | 385,915 | with every failure and with events landing mid-turn: `OneTapOneLink`, `SentMeansDelivered`, `NamelessOnlyThroughEscalation`, `HeldThreadKeepsItsOrder`, and that `IInv` is an invariant |
| `checkout_live` | 248,828 | every button, nothing failing, nothing mid-turn: `OneLinkPerOrder`, `PaidNeverPending`, `ConfirmLeadsToLink` |
| `turn_mutex` | 74,482 | `MutualExclusion`, the refinement `Serial`, `ReleasesOnlyItsOwn`, `DeadOwnersLockExpires`, with crashes, late and dying keepalives, failing releases; no deadlock |
| `settlement` | 304,827 | handlers overlapping at every await, a redelivery without an id, rows that are not written, receipts that Meta refuses: `ReceiptOnce`, `EscalatesOnlyWhenDeclined`, `TakenBackOnlyByAnOlderRead`, `PaymentIsRecorded`, `PaymentIsReceipted` |
| `money` | 13,056 | orders of up to two names, every tap in every order, one edit of the catalogue at any moment: `QuoteIsPayable`, `ArithmeticAgrees`, `ApplyIsBest`, `AddKeepsItsPromise`, `ChargesWhatTheCatalogueSays` |
| `inbound` | 136,709 | two deliveries in any overlap of a payload with two messages and of an event without an id, with breaks anywhere: `EnqueuedOnce`, `AnsweredIsAccountedFor`, `KeptClaimWasSent`, the refinement `Reads`, `AnsweredIsHandled` |
| `handoff` (module `MCHandoff`) | 875,372 | turns, two handlers of declines that may both escalate and a command, interleaved at every await, rows and flags failing: `HoldReachesTeam`, `TeamIsToldOnce`, `NotesAreKept`, `HoldEndsWithANote`, `ConnectHolds`; no deadlock |
| `walkthrough` | 1,270,484 | taps on new and old buttons, words, failing look-ups, any proposal: `StepUpDecidedOnce`, `FlagsActOnce`, `PriceStaysReachable`, `PriceWaitsToBeAsked`; no deadlock |

Several properties name what they excuse; each excuse is a behaviour of the code, listed under
"Seen while modelling", and the property says that nothing else has the same effect.

Four runs find a disagreement between the code and what the repository says of it; TLC's
counterexample is the story in each case.

| Run | Property violated | Story |
|---|---|---|
| `checkout_authorisation` | `LinkIsForTappedOrder` | Tap without a name; the worker asks for it. The next words are not a name and the model rebuilds the quote: `_advance` clears `checkout_confirmed`, not `awaiting_pay_details`. The name comes: the new order is authorised by the old tap (`architecture.md`: "a new total — or a re-shown one — needs a new authorisation"). |
| `checkout_lost_payment` | `PaidNeverPending` | A payment is recorded while a turn runs; the turn's next node writes the old `pending_order` back (`README.md`: "A paid order can never be quoted or minted again"). |
| `settlement_paid_taken_back` | `PaidStaysPaid` | The handler of the last decline reads the row and the count. Before it writes, the customer has paid and the payment's handler writes "paid". The check `row.status != "paid"` (`processing.py:740`) looks at the copy that was read before, and "failed" is written over the payment (`models.py:91`: "proposed -> link_created -> paid \| failed \| expired"). |
| `walkthrough_unseen_total` | `PayFollowsTotal` | At the pairing beat, "Add it" is tapped and cannot be carried out; `_fallback` re-offers the order with the buttons of a quote, so "Confirm & pay" stands under an order whose total the customer has never been shown (the comment at `sales.py:1149`: "The existing quote is still valid and still payable"). |

`PaidNeverPending` holds in `checkout_live`, with `Overlap` off. That is the reason for `Overlap` and
`Faults`: they separate what the design guarantees from what it guarantees only
if nothing lands at the wrong moment. Settlement has no such switch: its handlers always overlap, and
`TakenBackOnlyByAnOlderRead` says how far `PaidStaysPaid` fails.

### Seen while modelling

These follow from the same models, with a property of one line or a changed constant; they
have no run of their own, because nothing in the repository promises the contrary as plainly,
because the code accepts them, or because a passing property already names them.

Checkout and settlement:

- A confirm tap on a held thread sets `checkout_confirmed` and is routed to the escalation
  node, past the name question, and the gate mints a link with no name.
  `NamelessOnlyThroughEscalation` says this is the only way.
- The link is made, the send raises or the flag is not written (`processing.py:348`); the customer
  taps again and there are two links. `OneLinkPerOrder` holds in `checkout_live`, where nothing fails.
- The city question is answered with a location pin; the worker finds no text in it and returns
  (`processing.py:517`), so the order waits for words.
- While the city question is open any message, an old button too, authorises the
  mint (`sales.py`: "Whatever comes back, the link goes out").
- The second event for a payment clears `pending_order` again, including a newer quote.
- Two declines that read the count together are counted as one (`processing.py:730`).
- A redelivery without an event id counts a decline twice (`_handle_payment_failure` says it relies
  on the edge for this); `EscalatesOnlyWhenDeclined` counts it as one too.
- A receipt that Meta refuses for good is lost, since the claim is not given back;
  `PaymentIsReceipted` names the handler that raised.
- An expiry of the link takes a recorded payment back in the same way as a decline does
  (`processing.py:1094`), on a row that `payment.captured` settled for another link of the thread.
- With two links on a thread, `payment.captured` marks the newest row paid, also when the older
  link was paid; `payment_link.paid` names its link.

Money:

- An order whose every product was retired after the quote is minted at the old amount: the lookup
  answers with nothing, and `... or None` (`processing.py:317`) makes that the value of a lookup that
  failed. If one product is still sold the mint re-prices (`ChargesWhatTheCatalogueSays`).
- Lines are merged by the string that was requested, before it is resolved (`discounts.py:304`): "6 SW"
  and "Golden 6 SW" in one proposal are two lines of one product, each with a quantity cap, and earn
  the two-product offer. The docstring says that duplicates are merged. The next add or swap tap
  merges them and is refused, because the line count does not grow.
- A pairing that was retired between the quote and the tap may resolve, by substring, to another
  product ("6 SW - DIMMER" to "6 SW"), which is added in its place.

Inbound:

- A handler that breaks between its claim and the push has spilled the message: the redelivery is
  blocked as a duplicate (`webhooks.py:83`). The same holds for a task that is dropped or that fails:
  `docs/architecture.md:491` speaks of a retry of the task, which no middleware makes.
- A worker that dies between a bubble's claim and its send leaves the claim set.

Handoff:

- A customer who taps "Connect me now" on a thread whose `handoff_reason` is still "error" is
  answered but not held (`triage.py:86`; `ConnectHolds` excuses exactly this).
- A technical failure sets `escalation_sent` and nothing resets it but a release, so a hold that
  comes later is not delivered. The automatic release resets neither `escalation_sent` nor
  `lead_sent` nor the decline count. `HoldReachesTeam` excuses both.
- Two handlers of declines that both escalate read `escalation_sent` before either sets it
  (`processing.py:807-811`), and the team gets the row twice; a handler beside a turn's delivery does
  the same. `docs/architecture.md:461` says "exactly once each". A turn that began before the flag
  was set writes its older value back, and the next snapshot delivers again. `TeamIsToldOnce` names
  these and the unwritten flag as the only ways.
- Two declines that overlap, or one whose state cannot be read, write a count that is too small.
- A release that lands in a turn is overwritten by the turn's next write: the colleague was told
  "Released", the thread is still held and the note is gone. `NotesAreKept` names it.
- The classifier's failure during a hold overwrites the reason with "error", although
  `triage.py:456` calls every other reason sticky; it and the ghost's return leave `human_request_count` as it is.
- A first calm ask for a person that also needs retrieval goes to the escalation node and holds the
  thread at once: `route_after_rag` knows no `HUMAN_PROBE`.
- A lead that is still flagged after a release is delivered again.

Walkthrough:

- A double tap on "Just this for now", "Add it" or "Swap" at the price question shows the price
  unasked (`docs/architecture.md:199-201`); `PriceWaitsToBeAsked` excuses only buttons that the chat
  has moved past.
- A swap to the dearer model and back is an order with no product in common with the one before,
  hence a new sale, whose beats start over (`docs/architecture.md:186`: "no beat is ever replayed").
- The model may suggest as a pairing the product that the step-up swaps to; after the swap the
  pairing card offers a product that is in the order.

### Bounds

`ReceiveMessage` needs room for one showing, one link and one tap, so a turn that has begun is never
cut short by a bound; the bounds only end the conversation. Two versions and two links give a second
order after a first and a second link for the same order; three versions are used where the story
needs a rebuild after a tap, or another order after a payment. `FewTaps` takes "next" for the three
walkthrough buttons, which differ only in what they render; `checkout_live` has all five buttons.
The mutex runs three tasks, so that a turn can be late while a second has the lock and a third
waits; `Lease = 3`, `Period = 1` keep the code's ratio. Settlement needs two events for a payment
and, for `Limit = 2`, two declines, or one and its redelivery, hence `MaxEvents = 4`;
`settlement_paid_taken_back` has three attempts for two declines and a payment. `MCSettlement` has a
`VIEW` that forgets the order in which the events came (no action and no property looks at it);
without it the instance has 762,042 states and passes too. With a second link these bounds are out
of TLC's reach: `MaxLinks = 2` passes with one attempt and three events (`Limit = 1`, `MaxRepeats =
0`; 145,628 states), and the theorems are for any number of links. Money has a step-up pair, two
panels with one name inside the other, a second spelling and two prices for one of them, quantities
above the cap, tiers that a tap reaches, `MaxPct` below the largest offer, and limits that the best
offer or one tap crosses; amounts are those of `seed_pricing.py` divided by about 100. One edit is
enough for every change of one product between two steps. Inbound has a payload with two messages
(the second one must not be lost behind a duplicate first), an event whose redelivery no id stops,
and replies of two bubbles with two attempts each, so that a reply can break off, be retried, and be
followed by another; two deliveries are enough for a redelivery that overlaps the first, and the
proofs are for any number. Handoff has one command, since one races a turn, a decline or both; the
races among several are covered by the theorems, which are for any `Notes`. Two handlers of declines
are enough for one to come between the read and the write of the other; the theorems are for any
`Handlers`. `MaxFailures = 2` makes one decline harmless and the next one escalate, and `MaxDeclines
= 2` lets two overlapping ones do so. `MCHandoff` has a `VIEW`, which leaves out which handler is
where and the parts of the history that no property and no later step can tell apart (its comment
says why each may go), and a `CONSTRAINT`, the bound `OneAtATimeForLeads`: two handlers of declines
at once only while the customer is not a lead. Without the constraint the instance has 2,376,438
states, and without the view as well 20,982,634; both pass, and take longer than a run should.
Walkthrough has a product with a dearer model and a third one that pairs with either, proposals of
each kind of new order, and two raised flags at once, for a flag that an earlier turn left beside a
new tap; `Tiers = 3` lets every order of up to three products earn an offer.
`walkthrough_unseen_total` needs neither old buttons nor a second flag. Links and rows are ordered,
and the tasks of the mutex are few, so no symmetry is used.

`CHECK_DEADLOCK FALSE` appears where a model stops because its bound is reached or its conversation
ends (Checkout, Settlement, Money, Inbound). TurnMutex always has a `Tick`, and a customer can
always write to Handoff and Walkthrough: these check deadlock.

### Fairness

- Checkout: `WF_vars(Turn)`. Every await of a turn (Redis, the model, Razorpay, Meta) has a
  timeout, so a turn that began goes on. Nothing is assumed of customers, events or staff.
- TurnMutex: time passes, Redis answers or raises, turns end. No fairness says that a keepalive
  wakes on time, or that a waiting task gets the lock.
- Settlement: weak fairness for the worker, which goes on with some handler while there is one;
  events are finitely many, so each handler comes to its end. None for customers or Razorpay.
- Inbound: weak fairness for each handler and each task, whose awaits return or raise and whose
  polling ends; none for the provider, which need not deliver again, and none for crashes.
- Handoff and Walkthrough state no liveness.

## 4. What is proved

The seven `*Proofs` modules and `FiniteLemmas` hold for every value of the constants under the assumptions of the
modules: bounds are naturals, buttons are known, switches are Booleans; the lease is longer
than the keepalive's period, there is at least one poll, and "nobody" is not a task; the colleagues'
commands are finitely many; payloads are non-empty sequences, no id is in two places, an event is
alone in its payload, and at least one send is attempted; a product's dearer model is another
product, and a proposal is a non-empty set of products; a product's own row comes first where its
name is looked up, every product has a price, and the registry has an offer of nothing. A theorem
that needs more says so in its own hypotheses, named below with what justifies them.

Checkout:

- `Invariance`: `Spec => []IInv`. None of the three safety properties is inductive. `IInv` adds
  to the types: **Room** (a turn begins only with room to finish), **Budget** (taps are counted
  against links *plus* those still owed: an outstanding name question holds one tap back, a
  confirm turn carries one in, so the gate is only ever open with a tap to spare), **Delivery**
  (each copy of the state, the run's and the checkpoint's, claims delivery only of a delivered
  link, and the newest link belongs to the order being minted), **Naming** (what may mint has a
  name or went through the escalation node). Each conjunct is its own chain of lemmas, one per
  group of actions: `TriageTypes`, `NodeTypes`, ...; `TriageBudget`, `NodeBudget`, ....
- `TypeCorrect`, `NoTapNoLink`, `SentIsDelivered`, `NamelessBypass` follow from it.
- `HeldOrderStands`: `Spec => HeldThreadKeepsItsOrder`, from a smaller invariant of its own
  (`NeverSoldTo`: a held thread is never in the sales node).
- `OneOrderOneLink`: `~Faults` implies `Spec => []OneLinkPerOrder`. Stronger than the run, which has
  `Overlap` off too: events and commands in the middle of a turn do not make a second link. The
  invariant adds `Fresh` (no copy of the state and no link is of a version not yet shown) and
  `Minted` (outside the two steps between a link and its flag, each copy whose order has a link says
  so). `~Faults` cannot go: a flag that is not written leaves the gate open.
- `PaidIsOver`: `~Overlap` implies `Spec => []PaidNeverPending`, whatever fails. `Settled` says that
  no copy a turn may write back has a paid order in it. `checkout_lost_payment` is the
  counterexample with `Overlap`.

The turn mutex:

- `MutexInvariance`: `Spec => []MInv`. The strengthening is `Covered`: while keepalives are on
  time, a running turn owns the lock, its keepalive is alive, and TTL plus time waited is at
  least the lease.
- `MutexSafety`, and `MutexRefinement`: `TurnMutex` implements `SerialTurns` with
  `active <- IF onTime THEN Active ELSE {}`.
- `LateReleaseIsHarmless`: `ReleasesOnlyItsOwn`, whether keepalives are on time or not.
  `MutexTypes`: the types, whatever crashes.

Settlement:

- `ReceiptsAreSingle`: `Spec => []ReceiptOnce`, for any number of links, payments, events and
  redeliveries. A count of at most one receipt is not inductive: `RInv` says who holds a payment's
  claim, that a handler about to send is the only one that does, and that each receipt sent was
  claimed (`ReceiptInvariance`).
- `SettlementTypes`, by `LInv`. That the rows fit their bound and the count its range takes a count
  of who may still write: a row comes with a link, a refusal, or one handler that is past its write,
  and a handler's own count is at most one ahead of the declines that were handled.
- `EscalationIsEarned`: `Spec => []EscalatesOnlyWhenDeclined`. `Heard` (`HeardInvariance`) relates the
  events delivered to what happened at Razorpay.
- `PaidIsTakenBackByOlderReads`: `Spec => TakenBackOnlyByAnOlderRead`, for handlers that overlap in
  any way. Until a payment is written under an older read, whoever has read a row that is paid by now
  and may yet give it up has read it as paid (`Fresh`), and then leaves it alone; that the order was
  given up at all takes the declines or the expiry (`ExpiriesAreReal`).

Handoff:

- `HandoffInvariance`: `Spec => []HInv`. A note is lost through a copy, so `HInv` says of each
  copy that may yet be written (the checkpoint, the run's, the list each command has read) that the
  notes nothing was written beside are in it. `HandoffTypes`, `NotesSurvive`, `HoldsEndWithANote` and
  `ConnectBeginsAHold` follow.
- `TeamToldOnce`, from `TInv` (`RowsInvariance`), for any number of handlers. Of each kind that is not
  in `doubled`: a row that came has its flag, or its deliverer is about to set it; a row that is
  about to come is the first; and of the turn and the handlers at most one has read "not sent" and
  has still to set the flag (`OneTells`). Two that have read it are in `doubled`, by `Doubles`.
- `HoldIsReported`, from `WInv`: an untold hold always has somebody on the way to tell of it, the
  turn's list or a decline's handler, unless `escalation_sent` stands for something else.

Inbound:

- `InboundTypes`: the types, where handlers and tasks are in their payload and reply, and that one
  turn is in progress. Its lemmas `HandlerHandles` and `WorkerWorks` reduce the actions to five
  effects on a handler and six on a task, which the other proofs go through.
- `NeverEnqueuedTwice`, by `EInv`: the claim comes first, and its holder is alone with it until
  the task exists. `NoneForgotten`, by `AInv`: what a handler has put behind it is accounted for,
  and so is every claim. A duplicate is passed over on the strength of another handler's claim, so
  neither holds without the other. `ClaimsAreHonest` is inductive beside the types.
- `RepliesAreWhole`: Inbound implements Chat. `CInv` says that only a message whose turn has begun
  is in the chat, and that the chat ends where the reply in progress expects it to: before its next
  bubble, or, after a timeout that delivered, with it. `EInv` is needed: an id enqueued twice is answered twice.

Walkthrough:

- `WalkthroughInvariance`: `Spec => []WInv`, the four properties' strengthening. A step-up is not
  shown twice because the only way back to stage 0 is a new sale, whose suggestion was validated:
  **PendingWasShown** says that a pending order is past stage 0, so no tap leads to its step-up. The
  price waits because of **OnlyThePriceIsNext**: at the price question neither the screen nor a live
  tap asks for a next beat. `AdvanceKeeps` says what `_advance` preserves for any beat that `Fits` its
  stage; each branch then shows that its beat does.
- `FlagsAreSpent`, `StepUpsAreDecided`, `PriceIsATapAway`, `WalkthroughTypes` follow; `PriceWaits` is
  the action property, from the same steps.

Money, for any catalogue, names, prices, registry, limits and proposals:

- `MoneyInvariance`: `Spec => []MInv`. To the types it adds `Published` (a price in the catalogue is
  one of its product's) and `Sound`: the subtotal, percentage, discount and amount of an order are
  what `ApplyOffer` makes of its own lines and offer, and the guardrail accepts it at the lines' own
  prices. So each tap is shown to carry on from an order whose money is right, and what it is edited
  into is right again. `MoneyTypes` and the theorems below rest on it.
- `ArithmeticAlwaysAgrees` and `QuotesArePayable`: what `apply_offer` computes passes the guardrail's
  own computation, under every offer, and the check of the mint while prices stand. This is where
  sums are needed: fees are never more than the total, so the discountable part is a natural.
- `ApplyTapIsBest`: no offer of the registry beats the one that `Best` takes. A larger percentage
  takes no less off (`PercentIsMonotone`), and `Dearest` is a largest among the entitled.
- `AddTapKeepsItsPromise`: `TiersAreNear` implies `AddKeepsItsPromise`. `Nearest` is a choice by
  cross-multiplied fractions; that there is one (`NearestIsNudge`) follows because any two tiers of
  the same kind have the same denominator. One more line adds to the sum (`GrownCostsMore`), so the
  tier is then earned. No tier of `discounts.py:39-73` needs more than three products. With a tier of
  four the statement is false: two products are two short of it, which counts as near.
- `MintsAtCatalogue`: `PricesApart` implies `ChargesWhatTheCatalogueSays`. The guardrail compares
  unit prices and fees to the paisa, not names, so it cannot tell a retired product from one that its
  name falls back to, nor a price from one a paisa off. `PricesApart` says that there are no such two
  prices; it holds for `scripts/seed_pricing.py`, where every name inside another has a price of its
  own ("6 SW" and "6 SW FAN", "2 SW" and "2 Way 2 SW").

`MCMoney` has TLC evaluate `PricesApart` and `TiersAreNear` for the instance it checks.

`FiniteLemmas` has what these need and the libraries do not say in a form the provers can use. The
library's induction theorems take a predicate; `Counting` and `Parts` take a *set* instead, of
naturals or of parts of a finite set, and a set of counterexamples has a least one (`Least`). From
`Parts` comes that a fold over a finite set exists (`Recursion`), so that `SumFunction` of the
community modules is what its recursion says (`SumIsFold`), independent of the order (`AnyFirst`)
and monotone (`SumIsMonotone`). Line lists are proved about position by position in the same way.

The strengthenings were checked by TLC on the instances of the runs before they were proved:
Checkout's `Fresh`, `Minted` and `Settled` with the switches of their theorems (260,911 and 340,989
states), `MInv` on the 13,056 states of `money`, `TInv` and `WInv` on the 2,376,438 of `handoff` without its constraint.

Model-checked only: the liveness properties (`ConfirmLeadsToLink`, `DeadOwnersLockExpires`,
`PaymentIsRecorded`, `PaymentIsReceipted`, `AnsweredIsHandled`), which are out of the proof system's
reach. Every other property of a passing run is stated by a theorem. A violation run is a TLC
counterexample and needs no proof.

## 5. Plan

In order of importance:

1. What the helpers of Money return for every input, as far as the properties do not need it yet:
   that `Nudges` never offers a tier the order has, that `Merged` names each product once.
2. A composition of TurnMutex with Inbound that replaces "one turn at a time" by the lock.
3. `EscalationIsEarned` across the checkpoint: Settlement's count as the one that Handoff's handlers read.

### Not modelled

- Semantic memory, prompts and the model itself: their results are choices in the models, and
  nothing here depends on which. Similarity search and ingestion of documents are data to the graph;
  the flag that the retrieval node leaves is in Walkthrough.
- The heartbeat (typing dots) and tracing write nothing that other code reads.
- Scripts and configuration are outside the running service; `resolve_handoff.py` calls the release
  that Handoff models.
- The wording of what is sent (quotes, receipts, rows for the team) and the checks on the model's
  text: data that the properties do not tell apart.
- The brochure: a document that is sent once, whose claim is never given back; the mint sees it
  only as a point where a turn may end.

----------------------------- MODULE Settlement -----------------------------
(***************************************************************************)
(* What Razorpay's events do to the audit rows, the decline counter and    *)
(* the chat of one thread.  taskiq_confirm_payment runs outside wa_mutex,  *)
(* so the handlers of several events interleave at every await: each       *)
(* handler finds a row, then writes it, then writes the state, then sends. *)
(*                                                                         *)
(* A link is a number, in the order of minting; a payment attempt is a     *)
(* number too (Razorpay's payment id).  Razorpay itself is external: it    *)
(* sends payment_link.paid and payment.captured for one payment, in any    *)
(* order, payment.failed for a decline and payment_link.expired.           *)
(***************************************************************************)
EXTENDS Naturals, Sequences, FiniteSets

CONSTANTS
    MaxLinks,     \* bound: links minted on the thread, and refused mints
    MaxAttempts,  \* bound: payment attempts, accepted or declined
    MaxEvents,    \* bound: events delivered, redeliveries included
    Limit,        \* MAX_PAYMENT_FAILURES
    MaxRepeats,   \* bound: redeliveries that carry no X-Razorpay-Event-Id
    AuditFails,   \* may the row of a new link fail to be written?
    SendFails     \* may Meta refuse a receipt for good?

ASSUME BoundsAreNaturals ==
    MaxLinks \in Nat /\ MaxAttempts \in Nat /\ MaxEvents \in Nat
    /\ MaxRepeats \in Nat /\ Limit \in Nat \ {0}
ASSUME FlagsAreBoolean ==
    {AuditFails, SendFails} \subseteq BOOLEAN

Links == 1 .. MaxLinks
Attempts == 1 .. MaxAttempts
Kinds == {"linkPaid", "captured", "failed", "expired"}
MaxRows == 2 * MaxLinks + MaxEvents
NoRow == 0
NoLink == 0
NoPayment == 0

VARIABLES
    money,     \* each link at Razorpay: "open", "paid" or "expired"
    attempts,  \* payment attempts made
    declines,  \* how many of them were declined
    rows,      \* PaymentOrder rows, oldest first
    work,      \* the event deliveries and how far their handlers are
    count,     \* payment_failure_count
    held,      \* has a decline tripped the escalation?
    claims,    \* payments whose confirmation sequence is claimed
    receipts,  \* receipts sent, per payment attempt
    overtaken  \* history: a row became paid under a handler that had read it

vars == <<money, attempts, declines, rows, work, count, held, claims, receipts, overtaken>>

Row == [link : {NoLink} \cup Links,
        status : {"link_created", "paid", "failed", "expired"}]

\* A delivery: the event, and its handler's own copy of what it has read.
Delivery == [kind : Kinds, link : Links, pay : {NoPayment} \cup Attempts,
             pc : {"queued", "tally", "write", "state", "notify", "send", "done", "raised"},
             row : {NoRow} \cup 1 .. MaxRows,
             read : {"none", "link_created", "paid", "failed", "expired"},
             tally : 0 .. MaxEvents + 1]

\* The variables' types: a row's status is one of the lifecycle in models.py.
TypeOK ==
    /\ money \in Seq({"open", "paid", "expired"}) /\ Len(money) <= MaxLinks
    /\ attempts \in 0 .. MaxAttempts
    /\ declines \in 0 .. attempts
    /\ rows \in Seq(Row) /\ Len(rows) <= MaxRows
    /\ work \in Seq(Delivery) /\ Len(work) <= MaxEvents
    /\ count \in 0 .. MaxEvents
    /\ held \in BOOLEAN
    /\ claims \subseteq Attempts
    /\ receipts \in [Attempts -> 0 .. MaxEvents]
    /\ overtaken \in BOOLEAN

Init ==
    /\ money = <<>> /\ attempts = 0 /\ declines = 0
    /\ rows = <<>> /\ work = <<>>
    /\ count = 0 /\ held = FALSE
    /\ claims = {} /\ receipts = [p \in Attempts |-> 0]
    /\ overtaken = FALSE

-----------------------------------------------------------------------------
(* The world outside: the worker mints, the customer pays, Razorpay sends. *)

Delivered(kind, link, pay) ==
    [kind |-> kind, link |-> link, pay |-> pay, pc |-> "queued",
     row |-> NoRow, read |-> "none", tally |-> 0]

\* _process_checkout: a link, and an audit row whose write is fail-soft.
MintLink ==
    /\ Len(money) < MaxLinks
    /\ money' = Append(money, "open")
    /\ \/ rows' = Append(rows, [link |-> Len(money) + 1, status |-> "link_created"])
       \/ AuditFails /\ UNCHANGED rows
    /\ UNCHANGED <<attempts, declines, work, count, held, claims, receipts, overtaken>>

\* The guardrail or Razorpay refused the order: a row without a link.
MintRefused ==
    /\ Len(rows) < MaxLinks + Len(money)
    /\ rows' = Append(rows, [link |-> NoLink, status |-> "failed"])
    /\ UNCHANGED <<money, attempts, declines, work, count, held, claims, receipts, overtaken>>

\* The customer pays: one payment, two events.
Pay(l) ==
    /\ money[l] = "open"
    /\ attempts < MaxAttempts /\ Len(work) + 2 <= MaxEvents
    /\ attempts' = attempts + 1
    /\ money' = [money EXCEPT ![l] = "paid"]
    /\ work' = work \o <<Delivered("linkPaid", l, attempts + 1),
                         Delivered("captured", l, attempts + 1)>>
    /\ UNCHANGED <<declines, rows, count, held, claims, receipts, overtaken>>

Decline(l) ==
    /\ money[l] = "open"
    /\ attempts < MaxAttempts /\ Len(work) < MaxEvents
    /\ attempts' = attempts + 1 /\ declines' = declines + 1
    /\ work' = Append(work, Delivered("failed", l, attempts + 1))
    /\ UNCHANGED <<money, rows, count, held, claims, receipts, overtaken>>

Expire(l) ==
    /\ money[l] = "open" /\ Len(work) < MaxEvents
    /\ money' = [money EXCEPT ![l] = "expired"]
    /\ work' = Append(work, Delivered("expired", l, NoPayment))
    /\ UNCHANGED <<attempts, declines, rows, count, held, claims, receipts, overtaken>>

Repeats ==
    Len(work) - (2 * attempts - declines + Cardinality({l \in 1 .. Len(money) : money[l] = "expired"}))

\* Razorpay delivers an event again.  The edge drops it by its event id; one
\* without an id goes to the worker again.
Redeliver(e) ==
    /\ Repeats < MaxRepeats /\ Len(work) < MaxEvents
    /\ work' = Append(work, Delivered(work[e].kind, work[e].link, work[e].pay))
    /\ UNCHANGED <<money, attempts, declines, rows, count, held, claims, receipts, overtaken>>

-----------------------------------------------------------------------------
(* The handler.                                                            *)

\* Payment events carry no link entity; link events carry one.
LinkOf(d) == IF d.kind \in {"linkPaid", "expired"} THEN d.link ELSE NoLink
Paid(d) == d.kind \in {"linkPaid", "captured"}

Latest(S) == IF S = {} THEN NoRow ELSE CHOOSE i \in S : \A j \in S : j <= i

\* _find_payment_order: the newest row of the link, else of the thread.
FindRow(d) ==
    LET own == {i \in 1 .. Len(rows) : rows[i].link = LinkOf(d) /\ LinkOf(d) # NoLink}
    IN  IF own # {} THEN Latest(own) ELSE Latest(1 .. Len(rows))

Step(e, d) == work' = [work EXCEPT ![e] = d]

\* Loads the row; the session keeps this status however long the handler takes.
Find(e) ==
    LET d == work[e]
        r == FindRow(d)
    IN  /\ d.pc = "queued"
        /\ Step(e, [d EXCEPT !.pc = IF d.kind = "failed" THEN "tally" ELSE "write",
                             !.row = r,
                             !.read = IF r = NoRow THEN "none" ELSE rows[r].status])
        /\ UNCHANGED <<money, attempts, declines, rows, count, held, claims, receipts, overtaken>>

\* A decline reads the count it is going to write.
ReadCount(e) ==
    /\ work[e].pc = "tally"
    /\ Step(e, [work[e] EXCEPT !.pc = "write", !.tally = count + 1])
    /\ UNCHANGED <<money, attempts, declines, rows, count, held, claims, receipts, overtaken>>

\* Only a changed attribute is written: a row read as paid keeps whatever the
\* database holds by now.
SetStatus(d, status) ==
    rows' = IF d.read = status THEN rows
            ELSE [rows EXCEPT ![d.row].status = status]

\* The row is committed; the handler has no more to do with it.
Written(d, pc) == [d EXCEPT !.pc = pc, !.row = NoRow, !.read = "none"]

\* A handler that has read a row and may yet write that the order was given up.
Holds(d) == ~Paid(d) /\ d.pc \in {"tally", "write"} /\ d.row # NoRow

\* The payment is written on a row that such a handler has read as not paid.
Overtakes(d) ==
    \E e \in 1 .. Len(work) :
        Holds(work[e]) /\ work[e].row = d.row /\ work[e].read # "paid"

\* Mutant: the paid branch leaves the row's status alone.
WritePaidMutant(e) ==
    LET d == work[e] IN
    /\ d.pc = "write" /\ Paid(d)
    /\ Step(e, [d EXCEPT !.pc = "state"])
    /\ UNCHANGED <<money, attempts, declines, rows, count, held, claims, receipts, overtaken>>

\* Mutant: the row's status is the event's name.
WritePaidAsNamed(e) ==
    LET d == work[e] IN
    /\ d.pc = "write" /\ Paid(d)
    /\ IF d.row = NoRow
       THEN rows' = Append(rows, [link |-> LinkOf(d), status |-> d.kind])
       ELSE SetStatus(d, d.kind)
    /\ Step(e, [d EXCEPT !.pc = "state"])
    /\ UNCHANGED <<money, attempts, declines, count, held, claims, receipts, overtaken>>

\* status = "paid", or a new row when there is none.
WritePaid(e) ==
    LET d == work[e] IN
    /\ d.pc = "write" /\ Paid(d)
    /\ IF d.row = NoRow
       THEN rows' = Append(rows, [link |-> LinkOf(d), status |-> "paid"])
       ELSE SetStatus(d, "paid")
    /\ Step(e, Written(d, "state"))
    /\ overtaken' = (overtaken \/ Overtakes(d))
    /\ UNCHANGED <<money, attempts, declines, count, held, claims, receipts>>

\* Mutant: no receipt while a person holds the thread.
ClearStateMutant(e) ==
    LET d == work[e] IN
    /\ d.pc = "state" /\ Paid(d)
    /\ count' = 0
    /\ Step(e, [d EXCEPT !.pc = IF held THEN "done" ELSE "notify"])
    /\ UNCHANGED <<money, attempts, declines, rows, held, claims, receipts, overtaken>>

\* aupdate_state clears the order and the decline count, for every paid event.
ClearState(e) ==
    LET d == work[e] IN
    /\ d.pc = "state" /\ Paid(d)
    /\ count' = 0
    /\ Step(e, [d EXCEPT !.pc = "notify"])
    /\ UNCHANGED <<money, attempts, declines, rows, held, claims, receipts, overtaken>>

\* paid-notify's key.  Both paid events carry the payment entity, so its id is
\* the key; the fallbacks for an event without one are not reached.
Key(d) == d.pay

\* Mutant: the confirmation is sent without claiming the sequence.
ClaimMutant(e) ==
    LET d == work[e] IN
    /\ d.pc = "notify"
    /\ Step(e, [d EXCEPT !.pc = "send"])
    /\ UNCHANGED <<money, attempts, declines, rows, count, held, claims, receipts, overtaken>>

\* _send_payment_confirmation: one event owns the celebration and the receipt.
Claim(e) ==
    LET d == work[e] IN
    /\ d.pc = "notify"
    /\ claims' = claims \cup {Key(d)}
    /\ Step(e, [d EXCEPT !.pc = IF Key(d) \in claims THEN "done" ELSE "send"])
    /\ UNCHANGED <<money, attempts, declines, rows, count, held, receipts, overtaken>>

SendReceipt(e) ==
    LET d == work[e] IN
    /\ d.pc = "send"
    /\ receipts' = [receipts EXCEPT ![d.pay] = @ + 1]
    /\ Step(e, [d EXCEPT !.pc = "done"])
    /\ UNCHANGED <<money, attempts, declines, rows, count, held, claims, overtaken>>

\* dispatch_message raised after its retries: the task ends, and the sequence
\* stays claimed.
SendReceiptRaises(e) ==
    /\ SendFails /\ work[e].pc = "send"
    /\ Step(e, [work[e] EXCEPT !.pc = "raised"])
    /\ UNCHANGED <<money, attempts, declines, rows, count, held, claims, receipts, overtaken>>

Escalates(d) == d.tally >= Limit

\* Mutant: a decline gives the order up whatever the row said.
WriteFailedMutant(e) ==
    LET d == work[e] IN
    /\ d.pc = "write" /\ d.kind = "failed"
    /\ rows' = IF d.row # NoRow /\ Escalates(d)
               THEN [rows EXCEPT ![d.row].status = "failed"] ELSE rows
    /\ Step(e, [d EXCEPT !.pc = "state"])
    /\ UNCHANGED <<money, attempts, declines, count, held, claims, receipts, overtaken>>

\* The last decline gives the order up, unless the row was read as paid.
WriteFailed(e) ==
    LET d == work[e] IN
    /\ d.pc = "write" /\ d.kind = "failed"
    /\ IF d.row # NoRow /\ d.read # "paid" /\ Escalates(d)
       THEN SetStatus(d, "failed") ELSE UNCHANGED rows
    /\ Step(e, Written(d, "state"))
    /\ UNCHANGED <<money, attempts, declines, count, held, claims, receipts, overtaken>>

\* Mutant: an off-by-one in the threshold.
CountDeclineMutant(e) ==
    LET d == work[e] IN
    /\ d.pc = "state" /\ d.kind = "failed"
    /\ count' = d.tally
    /\ held' = (held \/ d.tally >= Limit - 1)
    /\ Step(e, [d EXCEPT !.pc = "done"])
    /\ UNCHANGED <<money, attempts, declines, rows, claims, receipts, overtaken>>

\* The count read before the awaits is written after them.
CountDecline(e) ==
    LET d == work[e] IN
    /\ d.pc = "state" /\ d.kind = "failed"
    /\ count' = d.tally
    /\ held' = (held \/ Escalates(d))
    /\ Step(e, [d EXCEPT !.pc = "done"])
    /\ UNCHANGED <<money, attempts, declines, rows, claims, receipts, overtaken>>

WriteExpired(e) ==
    LET d == work[e] IN
    /\ d.pc = "write" /\ d.kind = "expired"
    /\ IF d.row # NoRow /\ d.read # "paid"
       THEN SetStatus(d, "expired") ELSE UNCHANGED rows
    /\ Step(e, Written(d, "done"))
    /\ UNCHANGED <<money, attempts, declines, count, held, claims, receipts, overtaken>>

Handle(e) ==
    \/ Find(e) \/ ReadCount(e)
    \/ WritePaid(e) \/ ClearState(e) \/ Claim(e)
    \/ SendReceipt(e) \/ SendReceiptRaises(e)
    \/ WriteFailed(e) \/ CountDecline(e)
    \/ WriteExpired(e)

Next ==
    \/ MintLink \/ MintRefused
    \/ \E l \in 1 .. Len(money) : Pay(l) \/ Decline(l) \/ Expire(l)
    \/ \E e \in 1 .. Len(work) : Redeliver(e) \/ Handle(e)

Spec == Init /\ [][Next]_vars

\* The worker goes on with some handler while there is one; events are finitely
\* many, so each queued event is handled and each handler ends.
FairSpec == Spec /\ WF_vars(\E e \in 1 .. Len(work) : Handle(e))

-----------------------------------------------------------------------------
(* Properties.                                                             *)

\* Two events for the same money make one receipt, in any interleaving.
ReceiptOnce == \A p \in Attempts : receipts[p] <= 1

\* A thread is not escalated for declines that did not happen, redeliveries
\* that the edge could not recognise counted in.
EscalatesOnlyWhenDeclined == held => declines + Repeats >= Limit

\* models.py: paid is where the life of a row ends.
PaidStaysPaid ==
    [][\A i \in 1 .. Len(rows) : rows[i].status = "paid" => rows'[i].status = "paid"]_vars

\* A recorded payment is taken back only once a payment has been written on a
\* row under a handler that had read it before (the session's old copy), and
\* only on a thread whose declines reached the limit or that saw a link expire.
TakenBackOnlyByAnOlderRead ==
    [][\A i \in 1 .. Len(rows) :
         rows[i].status = "paid" /\ rows'[i].status # "paid" =>
            /\ overtaken
            /\ declines + Repeats >= Limit \/ \E l \in 1 .. Len(money) : money[l] = "expired"]_vars

\* Money that moved stays recorded on its link's row, unless the record was
\* written under a handler that had read the row before.
PaymentIsRecorded ==
    \A l \in Links :
        (\E i \in 1 .. Len(rows) : rows[i].link = l /\ money[l] = "paid") ~>
            (overtaken \/ \E i \in 1 .. Len(rows) : rows[i].link = l /\ rows[i].status = "paid")

\* Every payment gets its receipt, or Meta refused it.
PaymentIsReceipted ==
    \A l \in Links :
        (l <= Len(money) /\ money[l] = "paid") ~>
            (\E e \in 1 .. Len(work) :
                /\ work[e].link = l /\ work[e].pay \in Attempts
                /\ receipts[work[e].pay] = 1 \/ work[e].pc = "raised")
=============================================================================

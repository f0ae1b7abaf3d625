-------------------------- MODULE SettlementProofs --------------------------
(***************************************************************************)
(* Proofs about Settlement, for any number of links, payments, events and  *)
(* redeliveries: one payment makes at most one receipt, the rows and the   *)
(* count stay within what was minted and heard of, a hold is earned by     *)
(* declines, and a recorded payment is taken back only by a handler that   *)
(* read the row before, on a thread that was given up.  All of it in any   *)
(* interleaving of the handlers.                                           *)
(***************************************************************************)
EXTENDS Settlement, FiniteLemmas

Jobs == DOMAIN work

\* work is a sequence, whatever its deliveries hold.
WorkIsSequence == work \in Seq({work[e] : e \in 1 .. Len(work)})

\* A delivery is a record with these fields.
IsDelivery(d) ==
    DOMAIN d = {"kind", "link", "pay", "pc", "row", "read", "tally"}

WorkIsDeliveries == \A e \in Jobs : IsDelivery(work[e])

\* An event about money carries the payment it is about.
PaymentsAreNamed ==
    \A e \in Jobs :
        /\ Paid(work[e]) => work[e].pay \in Attempts
        /\ work[e].pc \in {"notify", "send"} => work[e].pay \in Attempts

\* The handler that is about to send a receipt owns its payment's claim, no
\* receipt has been sent for it, and no other handler is about to.
SenderOwnsClaim ==
    /\ \A e \in Jobs : work[e].pc = "send" =>
         work[e].pay \in claims /\ receipts[work[e].pay] = 0
    /\ \A e, f \in Jobs :
         work[e].pc = "send" /\ work[f].pc = "send" /\ work[e].pay = work[f].pay => e = f

\* A receipt that was sent was claimed before.
ReceiptsAreClaimed ==
    /\ receipts \in [Attempts -> Nat]
    /\ \A p \in Attempts : receipts[p] <= 1 /\ (receipts[p] = 1 => p \in claims)

\* The inductive invariant behind ReceiptOnce.
RInv ==
    /\ attempts \in Nat
    /\ WorkIsSequence /\ WorkIsDeliveries
    /\ PaymentsAreNamed
    /\ SenderOwnsClaim
    /\ ReceiptsAreClaimed

-----------------------------------------------------------------------------

\* Nothing is claimed or sent at the start.
LEMMA InitRInv == Init => RInv
  <1> SUFFICES ASSUME Init PROVE RInv
    OBVIOUS
  <1>1. work = <<>> /\ Jobs = {} /\ Len(work) = 0
    BY DEF Init, Jobs
  <1>2. WorkIsSequence
    BY <1>1 DEF WorkIsSequence
  <1> QED  BY <1>1, <1>2 DEF Init, RInv, WorkIsDeliveries, PaymentsAreNamed, SenderOwnsClaim, ReceiptsAreClaimed

\* The jobs are numbered from one.
LEMMA JobsAreNumbered ==
  ASSUME WorkIsSequence
  PROVE  Len(work) \in Nat /\ Jobs = 1 .. Len(work)
  BY DEF WorkIsSequence, Jobs

\* A sequence is a sequence of its own values.
LEMMA OwnValues ==
  ASSUME NEW S, NEW s \in Seq(S)
  PROVE  s \in Seq({s[e] : e \in 1 .. Len(s)})
  <1>1. s \in [1 .. Len(s) -> {s[e] : e \in 1 .. Len(s)}] /\ Len(s) \in Nat
    OBVIOUS
  <1> QED  BY <1>1, SeqDef

\* work stays a sequence.
LEMMA StillSequence ==
  ASSUME NEW S, work' \in Seq(S)
  PROVE  WorkIsSequence'
  BY OwnValues DEF WorkIsSequence

\* What comes with new deliveries at the end of work: nothing changes for the
\* old ones, and the new ones are queued and name their payment.
LEMMA DeliveriesAdded ==
  ASSUME RInv, WorkIsSequence',
         \A e \in Jobs : e \in Jobs' /\ work'[e] = work[e],
         \A e \in Jobs' \ Jobs :
            /\ IsDelivery(work'[e]) /\ work'[e].pc = "queued"
            /\ Paid(work'[e]) => work'[e].pay \in Attempts,
         attempts' \in Nat, UNCHANGED <<claims, receipts>>
  PROVE  RInv'
  <1>1. PaymentsAreNamed'
    BY DEF RInv, PaymentsAreNamed, Paid
  <1>2. SenderOwnsClaim'
    BY DEF RInv, SenderOwnsClaim
  <1>3. WorkIsDeliveries'
    BY DEF RInv, WorkIsDeliveries, IsDelivery
  <1> QED  BY <1>1, <1>2, <1>3 DEF RInv, ReceiptsAreClaimed

\* One more delivery.
LEMMA OneAdded ==
  ASSUME RInv, NEW d, work' = Append(work, d),
         IsDelivery(d), d.pc = "queued", Paid(d) => d.pay \in Attempts,
         attempts' \in Nat, UNCHANGED <<claims, receipts>>
  PROVE  RInv'
  <1> DEFINE S == {work[e] : e \in 1 .. Len(work)} \cup {d}
  <1>1. Len(work) \in Nat /\ Jobs = 1 .. Len(work)
    BY JobsAreNumbered DEF RInv
  <1>2. work \in Seq(S) /\ d \in S
    BY <1>1, SeqDef DEF RInv, WorkIsSequence
  <1> HIDE DEF S
  <1>3. /\ work' \in Seq(S)
        /\ Len(work') = Len(work) + 1
        /\ \A i \in 1 .. Len(work) : work'[i] = work[i]
        /\ work'[Len(work) + 1] = d
    BY <1>2, AppendProperties
  <1>4. WorkIsSequence'
    BY <1>3, StillSequence
  <1>5. Jobs' = 1 .. Len(work) + 1
    BY <1>1, <1>3 DEF Jobs
  <1> QED  BY <1>1, <1>3, <1>4, <1>5, DeliveriesAdded

\* Two more deliveries.
LEMMA TwoAdded ==
  ASSUME RInv, NEW a, NEW b, work' = work \o <<a, b>>,
         IsDelivery(a), IsDelivery(b), a.pc = "queued", b.pc = "queued",
         a.pay \in Attempts, b.pay \in Attempts,
         attempts' \in Nat, UNCHANGED <<claims, receipts>>
  PROVE  RInv'
  <1> DEFINE S == {work[e] : e \in 1 .. Len(work)} \cup {a, b}
  <1>1. Len(work) \in Nat /\ Jobs = 1 .. Len(work)
    BY JobsAreNumbered DEF RInv
  <1>2. work \in Seq(S) /\ <<a, b>> \in Seq(S) /\ Len(<<a, b>>) = 2
    BY <1>1, SeqDef DEF RInv, WorkIsSequence
  <1> HIDE DEF S
  <1>3. /\ work' \in Seq(S)
        /\ Len(work') = Len(work) + 2
        /\ \A i \in 1 .. Len(work) + 2 : work'[i] =
              IF i <= Len(work) THEN work[i] ELSE <<a, b>>[i - Len(work)]
    BY <1>2, ConcatProperties
  <1>4. WorkIsSequence'
    BY <1>3, StillSequence
  <1>5. Jobs' = 1 .. Len(work) + 2
    BY <1>1, <1>3 DEF Jobs
  <1>6. \A e \in Jobs : e \in Jobs' /\ work'[e] = work[e]
    BY <1>1, <1>3, <1>5
  <1>7. \A e \in Jobs' \ Jobs : work'[e] = a \/ work'[e] = b
    BY <1>1, <1>3, <1>5
  <1> QED  BY <1>4, <1>6, <1>7, DeliveriesAdded DEF Paid

\* One handler's step writes its own delivery and leaves the others alone.
LEMMA OneWritten ==
  ASSUME RInv, NEW e \in Jobs, NEW d, IsDelivery(d), Step(e, d)
  PROVE  /\ WorkIsSequence' /\ WorkIsDeliveries' /\ Jobs' = Jobs
         /\ \A j \in Jobs : work'[j] = IF j = e THEN d ELSE work[j]
  <1> DEFINE S == {work[i] : i \in 1 .. Len(work)} \cup {d}
  <1>1. Len(work) \in Nat /\ Jobs = 1 .. Len(work)
    BY JobsAreNumbered DEF RInv
  <1>2. work \in Seq(S) /\ d \in S
    BY <1>1, SeqDef DEF RInv, WorkIsSequence
  <1> HIDE DEF S
  <1>3. /\ work' \in Seq(S)
        /\ Len(work') = Len(work)
        /\ \A j \in 1 .. Len(work) : work'[j] = IF j = e THEN d ELSE work[j]
    BY <1>1, <1>2, ExceptSeq DEF Step
  <1>4. WorkIsSequence'
    BY <1>3, StillSequence
  <1>5. Jobs' = Jobs /\ \A j \in Jobs : work'[j] = IF j = e THEN d ELSE work[j]
    BY <1>1, <1>3 DEF Jobs
  <1>6. WorkIsDeliveries'
    BY <1>5 DEF RInv, WorkIsDeliveries, IsDelivery
  <1> QED  BY <1>4, <1>5, <1>6

\* A delivery moved on to another stage is the same event.
LEMMA MovedOn ==
  ASSUME NEW d, IsDelivery(d), NEW pc
  PROVE  LET c == [d EXCEPT !.pc = pc]
         IN  IsDelivery(c) /\ c.pc = pc /\ c.kind = d.kind /\ c.pay = d.pay
  BY DEF IsDelivery

\* Nor does it become another one when its row is written.
LEMMA WrittenOn ==
  ASSUME NEW d, IsDelivery(d), NEW pc
  PROVE  LET c == Written(d, pc)
         IN  IsDelivery(c) /\ c.pc = pc /\ c.kind = d.kind /\ c.pay = d.pay
  BY DEF IsDelivery, Written

\* A step of one handler that neither claims nor sends: it keeps its event, and
\* only a paid event goes on to notify.
LEMMA HandlerGoesOn ==
  ASSUME RInv, NEW e \in Jobs, NEW d, IsDelivery(d), Step(e, d),
         d.kind = work[e].kind, d.pay = work[e].pay,
         d.pc # "send", d.pc = "notify" => Paid(work[e]),
         UNCHANGED <<attempts, claims, receipts>>
  PROVE  RInv'
  <1>1. /\ WorkIsSequence' /\ WorkIsDeliveries' /\ Jobs' = Jobs
        /\ \A j \in Jobs : work'[j] = IF j = e THEN d ELSE work[j]
    BY OneWritten
  <1>2. PaymentsAreNamed'
    BY <1>1 DEF RInv, PaymentsAreNamed, Paid
  <1>3. SenderOwnsClaim'
    BY <1>1 DEF RInv, SenderOwnsClaim
  <1> QED  BY <1>1, <1>2, <1>3 DEF RInv, ReceiptsAreClaimed

\* The same for a step that only moves its handler on.
LEMMA HandlerMoves ==
  ASSUME RInv, NEW e \in Jobs, NEW pc, Step(e, [work[e] EXCEPT !.pc = pc]),
         pc # "send", pc = "notify" => Paid(work[e]),
         UNCHANGED <<attempts, claims, receipts>>
  PROVE  RInv'
  <1> DEFINE d == [work[e] EXCEPT !.pc = pc]
  <1>1. IsDelivery(work[e])
    BY DEF RInv, WorkIsDeliveries
  <1>2. IsDelivery(d) /\ d.pc = pc /\ d.kind = work[e].kind /\ d.pay = work[e].pay
    BY <1>1, MovedOn
  <1>3. Step(e, d)
    OBVIOUS
  <1> HIDE DEF d
  <1> QED  BY <1>2, <1>3, HandlerGoesOn

\* A handler claims its payment, or finds it claimed.
LEMMA ClaimStep ==
  ASSUME RInv, NEW e \in Jobs, Claim(e)
  PROVE  RInv'
  <1> DEFINE pc == IF work[e].pay \in claims THEN "done" ELSE "send"
             d == [work[e] EXCEPT !.pc = pc]
  <1>1. /\ Step(e, d) /\ claims' = claims \cup {work[e].pay}
        /\ work[e].pc = "notify" /\ UNCHANGED <<attempts, receipts>>
    BY DEF Claim, Key
  <1>2. IsDelivery(d) /\ d.pc = pc /\ d.kind = work[e].kind /\ d.pay = work[e].pay
    <2>1. IsDelivery(work[e])
      BY DEF RInv, WorkIsDeliveries
    <2> HIDE DEF pc
    <2> QED  BY <2>1, MovedOn
  <1>3. work[e].pay \in Attempts
    BY <1>1 DEF RInv, PaymentsAreNamed
  <1> HIDE DEF d
  <1>4. /\ WorkIsSequence' /\ WorkIsDeliveries' /\ Jobs' = Jobs
        /\ \A j \in Jobs : work'[j] = IF j = e THEN d ELSE work[j]
    BY <1>1, <1>2, OneWritten
  <1>5. PaymentsAreNamed'
    BY <1>2, <1>3, <1>4 DEF RInv, PaymentsAreNamed, Paid
  <1>6. ReceiptsAreClaimed'
    BY <1>1 DEF RInv, ReceiptsAreClaimed
  <1>7. SenderOwnsClaim'
    <2>1. \A f \in Jobs : work'[f].pc = "send" =>
            \/ f # e /\ work[f].pc = "send" /\ work[f].pay \in claims
                 /\ work'[f].pay = work[f].pay /\ receipts[work[f].pay] = 0
            \/ f = e /\ work[e].pay \notin claims /\ work'[f].pay = work[e].pay
      BY <1>2, <1>4 DEF RInv, SenderOwnsClaim
    <2>2. work[e].pay \notin claims => receipts[work[e].pay] = 0
      BY <1>3 DEF RInv, ReceiptsAreClaimed
    <2>3. \A f \in Jobs' : work'[f].pc = "send" =>
            work'[f].pay \in claims' /\ receipts'[work'[f].pay] = 0
      BY <1>1, <1>4, <2>1, <2>2
    <2>4. \A f, g \in Jobs' :
            work'[f].pc = "send" /\ work'[g].pc = "send" /\ work'[f].pay = work'[g].pay => f = g
      BY <1>4, <2>1 DEF RInv, SenderOwnsClaim
    <2> QED  BY <2>3, <2>4 DEF SenderOwnsClaim
  <1> QED  BY <1>1, <1>4, <1>5, <1>6, <1>7 DEF RInv

\* The owner of the claim sends the payment's receipt and is done.
LEMMA SendStep ==
  ASSUME RInv, NEW e \in Jobs, SendReceipt(e)
  PROVE  RInv'
  <1> DEFINE p == work[e].pay
             d == [work[e] EXCEPT !.pc = "done"]
  <1>1. /\ Step(e, d) /\ receipts' = [receipts EXCEPT ![p] = @ + 1]
        /\ work[e].pc = "send" /\ UNCHANGED <<attempts, claims>>
    BY DEF SendReceipt
  <1>2. IsDelivery(d) /\ d.pc = "done" /\ d.kind = work[e].kind /\ d.pay = p
    BY MovedOn DEF RInv, WorkIsDeliveries
  <1>3. p \in Attempts /\ p \in claims /\ receipts[p] = 0
    BY <1>1 DEF RInv, PaymentsAreNamed, SenderOwnsClaim
  <1> HIDE DEF d
  <1>4. /\ WorkIsSequence' /\ WorkIsDeliveries' /\ Jobs' = Jobs
        /\ \A j \in Jobs : work'[j] = IF j = e THEN d ELSE work[j]
    BY <1>1, <1>2, OneWritten
  <1>5. PaymentsAreNamed'
    BY <1>2, <1>3, <1>4 DEF RInv, PaymentsAreNamed, Paid
  <1>6. /\ receipts' \in [Attempts -> Nat] /\ receipts'[p] = 1
        /\ \A q \in Attempts : q # p => receipts'[q] = receipts[q]
    BY <1>1, <1>3 DEF RInv, ReceiptsAreClaimed
  <1>7. ReceiptsAreClaimed'
    BY <1>1, <1>3, <1>6 DEF RInv, ReceiptsAreClaimed
  <1>8. SenderOwnsClaim'
    <2>1. \A f \in Jobs : work'[f].pc = "send" =>
            /\ f # e /\ work[f].pc = "send" /\ work'[f] = work[f]
            /\ work[f].pay # p /\ work[f].pay \in Attempts
      BY <1>1, <1>2, <1>4 DEF RInv, SenderOwnsClaim, PaymentsAreNamed
    <2> QED  BY <1>1, <1>4, <1>6, <2>1 DEF RInv, SenderOwnsClaim
  <1> QED  BY <1>1, <1>4, <1>5, <1>7, <1>8 DEF RInv

\* The steps of a handler that neither claim nor send a receipt.
LEMMA OtherSteps ==
  ASSUME RInv, NEW e \in Jobs,
         \/ Find(e) \/ ReadCount(e) \/ WritePaid(e) \/ ClearState(e)
         \/ SendReceiptRaises(e)
         \/ WriteFailed(e) \/ CountDecline(e) \/ WriteExpired(e)
  PROVE  RInv'
  <1>0. IsDelivery(work[e])
    BY DEF RInv, WorkIsDeliveries
  <1>1. CASE Find(e)
    <2> DEFINE pc == IF work[e].kind = "failed" THEN "tally" ELSE "write"
               row == FindRow(work[e])
               read == IF row = NoRow THEN "none" ELSE rows[row].status
               d == [work[e] EXCEPT !.pc = pc, !.row = row, !.read = read]
    <2>1. Step(e, d) /\ UNCHANGED <<attempts, claims, receipts>>
      BY <1>1 DEF Find
    <2>2. pc # "send" /\ pc # "notify"
      OBVIOUS
    <2> HIDE DEF pc, row, read
    <2>3. IsDelivery(d) /\ d.pc = pc /\ d.kind = work[e].kind /\ d.pay = work[e].pay
      BY <1>0 DEF IsDelivery
    <2> HIDE DEF d
    <2> QED  BY <2>1, <2>2, <2>3, HandlerGoesOn
  <1>2. CASE ReadCount(e)
    <2> DEFINE d == [work[e] EXCEPT !.pc = "write", !.tally = count + 1]
    <2>1. IsDelivery(d) /\ d.pc = "write" /\ d.kind = work[e].kind /\ d.pay = work[e].pay
      BY <1>0 DEF IsDelivery
    <2>2. Step(e, d) /\ UNCHANGED <<attempts, claims, receipts>>
      BY <1>2 DEF ReadCount
    <2> HIDE DEF d
    <2> QED  BY <2>1, <2>2, HandlerGoesOn
  <1>3. CASE ClearState(e)
    <2>1. Paid(work[e]) /\ Step(e, [work[e] EXCEPT !.pc = "notify"])
      BY <1>3 DEF ClearState
    <2> QED  BY <1>3, <2>1, HandlerMoves DEF ClearState
  <1>4. ASSUME WritePaid(e) \/ WriteFailed(e) \/ WriteExpired(e)
        PROVE  RInv'
    <2>1. PICK pc \in {"state", "done"} :
            Step(e, Written(work[e], pc)) /\ UNCHANGED <<attempts, claims, receipts>>
      BY <1>4 DEF WritePaid, WriteFailed, WriteExpired
    <2> DEFINE d == Written(work[e], pc)
    <2>2. IsDelivery(d) /\ d.pc = pc /\ d.kind = work[e].kind /\ d.pay = work[e].pay
      BY <1>0, WrittenOn
    <2> HIDE DEF d
    <2> QED  BY <2>1, <2>2, HandlerGoesOn DEF d
  <1>5. ASSUME CountDecline(e) \/ SendReceiptRaises(e)
        PROVE  RInv'
    <2>1. PICK pc \in {"done", "raised"} :
            Step(e, [work[e] EXCEPT !.pc = pc]) /\ UNCHANGED <<attempts, claims, receipts>>
      BY <1>5 DEF CountDecline, SendReceiptRaises
    <2> QED  BY <2>1, HandlerMoves
  <1> QED  BY <1>1, <1>2, <1>3, <1>4, <1>5

\* What the world outside does: it delivers events, and sends nothing itself.
LEMMA WorldSteps ==
  ASSUME RInv,
         \/ MintLink \/ MintRefused
         \/ \E l \in 1 .. Len(money) : Pay(l) \/ Decline(l) \/ Expire(l)
         \/ \E e \in Jobs : Redeliver(e)
  PROVE  RInv'
  <1>1. CASE MintLink \/ MintRefused
    BY <1>1 DEF MintLink, MintRefused, RInv, WorkIsSequence, WorkIsDeliveries, Jobs,
                PaymentsAreNamed, SenderOwnsClaim, ReceiptsAreClaimed
  <1>2. ASSUME NEW l, Pay(l)
        PROVE  RInv'
    <2>1. attempts + 1 \in Attempts /\ attempts' \in Nat
      BY <1>2, BoundsAreNaturals DEF Pay, RInv, Attempts
    <2>2. /\ IsDelivery(Delivered("linkPaid", l, attempts + 1))
          /\ IsDelivery(Delivered("captured", l, attempts + 1))
      BY DEF Delivered, IsDelivery
    <2> QED  BY <1>2, <2>1, <2>2, TwoAdded DEF Pay, Delivered
  <1>3. ASSUME NEW l, Decline(l)
        PROVE  RInv'
    <2>1. IsDelivery(Delivered("failed", l, attempts + 1)) /\ attempts' \in Nat
      BY <1>3 DEF Delivered, IsDelivery, Decline, RInv
    <2> QED  BY <1>3, <2>1, OneAdded DEF Decline, Delivered, Paid
  <1>4. ASSUME NEW l, Expire(l)
        PROVE  RInv'
    <2>1. IsDelivery(Delivered("expired", l, NoPayment)) /\ attempts' \in Nat
      BY <1>4 DEF Delivered, IsDelivery, Expire, RInv
    <2> QED  BY <1>4, <2>1, OneAdded DEF Expire, Delivered, Paid
  <1>5. ASSUME NEW e \in Jobs, Redeliver(e)
        PROVE  RInv'
    <2> DEFINE d == Delivered(work[e].kind, work[e].link, work[e].pay)
    <2>1. IsDelivery(d) /\ d.pc = "queued" /\ (Paid(d) => d.pay \in Attempts)
      BY DEF Delivered, IsDelivery, Paid, RInv, PaymentsAreNamed
    <2>2. attempts' \in Nat /\ work' = Append(work, d) /\ UNCHANGED <<claims, receipts>>
      BY <1>5 DEF Redeliver, RInv
    <2> HIDE DEF d
    <2> QED  BY <2>1, <2>2, OneAdded
  <1> QED  BY <1>1, <1>2, <1>3, <1>4, <1>5

\* RInv is an inductive invariant.
THEOREM ReceiptInvariance == Spec => []RInv
  <1>1. RInv /\ [Next]_vars => RInv'
    <2> SUFFICES ASSUME RInv, [Next]_vars PROVE RInv'
      OBVIOUS
    <2>1. Jobs = 1 .. Len(work)
      BY JobsAreNumbered DEF RInv
    <2>2. CASE UNCHANGED vars
      BY <2>2 DEF vars, RInv, WorkIsSequence, WorkIsDeliveries, Jobs,
                  PaymentsAreNamed, SenderOwnsClaim, ReceiptsAreClaimed
    <2>3. ASSUME NEW e \in Jobs, Handle(e)
          PROVE  RInv'
      BY <2>3, ClaimStep, SendStep, OtherSteps DEF Handle
    <2> QED  BY <2>1, <2>2, <2>3, WorldSteps DEF Next
  <1> QED  BY <1>1, InitRInv, PTL DEF Spec

\* processing.py: payment_link.paid and payment.captured for the same money, and
\* any redelivery of either, make one receipt.
THEOREM ReceiptsAreSingle == Spec => []ReceiptOnce
  <1>1. RInv => ReceiptOnce
    BY DEF RInv, ReceiptsAreClaimed, ReceiptOnce
  <1> QED  BY <1>1, ReceiptInvariance, PTL
-----------------------------------------------------------------------------
(* The rows of the thread.                                                *)

\* Latest picks the newest of some rows.
LEMMA LatestIsMember ==
  ASSUME NEW n \in Nat, NEW S, S \subseteq 1 .. n, S # {}
  PROVE  Latest(S) \in S
  <1>1. S \subseteq 0 .. n
    OBVIOUS
  <1>2. \E i \in S : \A j \in S : i >= j
    BY <1>1, Greatest
  <1>3. \E i \in S : \A j \in S : j <= i
    <2>1. \A i, j \in S : i >= j <=> j <= i
      OBVIOUS
    <2> QED  BY <1>2, <2>1
  <1> QED  BY <1>3 DEF Latest

\* _find_payment_order returns a row of the thread, or none.
LEMMA FindRowRange ==
  ASSUME TypeOK, NEW d
  PROVE  FindRow(d) \in 0 .. Len(rows)
  <1> DEFINE own == {i \in 1 .. Len(rows) : rows[i].link = LinkOf(d) /\ LinkOf(d) # NoLink}
  <1>1. Len(rows) \in Nat
    BY DEF TypeOK
  <1>2. own \subseteq 1 .. Len(rows) /\ FindRow(d) = IF own # {} THEN Latest(own) ELSE Latest(1 .. Len(rows))
    BY DEF FindRow
  <1> HIDE DEF own
  <1>3. CASE own # {}
    <2>1. Latest(own) \in own
      BY <1>1, <1>2, <1>3, LatestIsMember
    <2>2. FindRow(d) \in 1 .. Len(rows)
      BY <1>2, <1>3, <2>1
    <2> QED  BY <1>1, <2>2
  <1>4. CASE own = {} /\ 1 .. Len(rows) # {}
    <2>1. Latest(1 .. Len(rows)) \in 1 .. Len(rows)
      BY <1>1, <1>4, LatestIsMember
    <2> QED  BY <1>1, <1>2, <1>4, <2>1
  <1>5. CASE own = {} /\ 1 .. Len(rows) = {}
    BY <1>1, <1>2, <1>5 DEF Latest, NoRow
  <1> QED  BY <1>3, <1>4, <1>5
-----------------------------------------------------------------------------
(* Types, and the ledger: which handlers have written a row or the count.  *)

Stages == {"queued", "tally", "write", "state", "notify", "send", "done", "raised"}
Late == {"state", "notify", "send", "done", "raised"}

\* The handlers past their row's write, and the declines that were counted.
Wrote == {e \in 1 .. Len(work) : work[e].pc \in Late}
Counted == {e \in 1 .. Len(work) : work[e].kind = "failed" /\ work[e].pc = "done"}

\* A row comes with a link, a refusal, or at most one handler each; the row a
\* handler found is still there.
RowsAreOwned ==
    /\ Len(rows) <= MaxLinks + Len(money) + Cardinality(Wrote)
    /\ \A e \in 1 .. Len(work) : work[e].row <= Len(rows)

\* The counter never runs ahead of the declines handled, nor does what a
\* handler is about to write by more than its own; so neither does the hold.
CountIsEarned ==
    /\ count <= Cardinality(Counted)
    /\ \A e \in 1 .. Len(work) : work[e].tally <= Cardinality(Counted) + 1
    /\ held => Limit <= Cardinality(Counted)

\* The inductive invariant behind TypeOK.
LInv == TypeOK /\ RowsAreOwned /\ CountIsEarned

\* Both sets are sets of jobs, whatever step is taken.
LEMMA JobSets ==
  ASSUME NEW n \in Nat, Len(work) = n
  PROVE  /\ Wrote \subseteq 1 .. n /\ Counted \subseteq 1 .. n
         /\ Cardinality(Wrote) \in 0 .. n /\ Cardinality(Counted) \in 0 .. n
  <1>1. Wrote \subseteq 1 .. n /\ Counted \subseteq 1 .. n
    BY DEF Wrote, Counted
  <1>2. Cardinality(Wrote) \in Nat /\ Cardinality(Wrote) <= n
    BY <1>1, Size
  <1>3. Cardinality(Counted) \in Nat /\ Cardinality(Counted) <= n
    BY <1>1, Size
  <1> QED  BY <1>1, <1>2, <1>3

\* What a delivery holds.
LEMMA DeliveryFields ==
  ASSUME TypeOK, NEW e \in 1 .. Len(work)
  PROVE  /\ work[e] \in Delivery
         /\ work[e].kind \in Kinds /\ work[e].link \in Links
         /\ work[e].pay \in {NoPayment} \cup Attempts
         /\ work[e].row \in Nat /\ work[e].tally \in Nat
  <1>1. work[e] \in Delivery
    BY DEF TypeOK
  <1> QED  BY <1>1 DEF Delivery, NoRow

\* At the start there is no row, no delivery and no decline.
LEMMA InitLInv == Init => LInv
  <1> SUFFICES ASSUME Init PROVE LInv
    OBVIOUS
  <1>1. money = <<>> /\ rows = <<>> /\ work = <<>> /\ count = 0 /\ held = FALSE
    BY DEF Init
  <1>2. Cardinality(Wrote) \in Nat /\ Cardinality(Counted) \in Nat
    BY <1>1, JobSets
  <1>3. TypeOK
    <2>1. receipts \in [Attempts -> 0 .. MaxEvents] /\ claims \subseteq Attempts
      BY BoundsAreNaturals DEF Init
    <2>2. attempts \in 0 .. MaxAttempts /\ declines \in 0 .. attempts /\ count \in 0 .. MaxEvents
      BY BoundsAreNaturals DEF Init
    <2>3. Len(money) = 0 /\ Len(rows) = 0 /\ Len(work) = 0
      BY <1>1
    <2>7. overtaken \in BOOLEAN
      BY DEF Init
    <2>4. MaxRows \in Nat
      BY BoundsAreNaturals DEF MaxRows
    <2>5. /\ money \in Seq({"open", "paid", "expired"}) /\ rows \in Seq(Row)
          /\ work \in Seq(Delivery)
      BY <1>1
    <2>6. Len(money) <= MaxLinks /\ Len(rows) <= MaxRows /\ Len(work) <= MaxEvents
      BY BoundsAreNaturals, <2>3, <2>4
    <2> QED  BY <1>1, <2>1, <2>2, <2>5, <2>6, <2>7 DEF TypeOK
  <1> QED  BY BoundsAreNaturals, <1>1, <1>2, <1>3 DEF LInv, RowsAreOwned, CountIsEarned

\* What Razorpay adds to the end of work is a queued delivery, and changes
\* nothing of the ledger.
LEMMA LedgerOfNew ==
  ASSUME LInv, Len(work') \in Nat, Len(work') >= Len(work), Len(money') = Len(money),
         \A e \in 1 .. Len(work) : work'[e] = work[e],
         \A e \in 1 .. Len(work') :
            e > Len(work) =>
                work'[e].pc = "queued" /\ work'[e].row = NoRow /\ work'[e].tally = 0,
         UNCHANGED <<rows, count, held>>
  PROVE  RowsAreOwned' /\ CountIsEarned'
  <1>1. Len(work) \in Nat /\ Len(rows) \in Nat
    BY DEF LInv, TypeOK
  <1>2. Wrote' = Wrote /\ Counted' = Counted
    <2>1. \A e \in 1 .. Len(work) : e \in 1 .. Len(work') /\ work'[e] = work[e]
      BY <1>1
    <2>2. \A e \in 1 .. Len(work') : e \in 1 .. Len(work) \/ work'[e].pc = "queued"
      BY <1>1
    <2>3. Wrote' = Wrote
      BY <2>1, <2>2 DEF Wrote, Late
    <2>4. Counted' = Counted
      BY <2>1, <2>2 DEF Counted
    <2> QED  BY <2>3, <2>4
  <1>3. Cardinality(Counted) \in Nat
    BY <1>1, JobSets
  <1>4. \A e \in 1 .. Len(work') :
          work'[e].row <= Len(rows) /\ work'[e].tally <= Cardinality(Counted) + 1
    <2>1. TAKE e \in 1 .. Len(work')
    <2>2. CASE e > Len(work)
      BY <1>1, <1>3, <2>2 DEF NoRow
    <2>3. CASE e \in 1 .. Len(work)
      BY <2>3 DEF LInv, RowsAreOwned, CountIsEarned
    <2> QED  BY <1>1, <2>2, <2>3
  <1> QED  BY <1>1, <1>2, <1>4 DEF LInv, RowsAreOwned, CountIsEarned

\* One delivery more, or two for a payment.
LEMMA OneMoreDelivery ==
  ASSUME LInv, Len(work) < MaxEvents, NEW d \in Delivery,
         d.pc = "queued", d.row = NoRow, d.tally = 0,
         work' = Append(work, d), Len(money') = Len(money), UNCHANGED <<rows, count, held>>
  PROVE  /\ work' \in Seq(Delivery) /\ Len(work') <= MaxEvents
         /\ RowsAreOwned' /\ CountIsEarned'
  <1>1. work \in Seq(Delivery) /\ Len(work) \in Nat
    BY DEF LInv, TypeOK
  <1>2. /\ work' \in Seq(Delivery) /\ Len(work') = Len(work) + 1
        /\ \A e \in 1 .. Len(work) : work'[e] = work[e]
        /\ work'[Len(work) + 1] = d
    BY <1>1, AppendProperties
  <1>3. \A e \in 1 .. Len(work') : e > Len(work) => work'[e] = d
    BY <1>1, <1>2
  <1>4. RowsAreOwned' /\ CountIsEarned'
    BY <1>1, <1>2, <1>3, LedgerOfNew
  <1> QED  BY BoundsAreNaturals, <1>1, <1>2, <1>4

\* Razorpay's two events of one payment.
LEMMA TwoMoreDeliveries ==
  ASSUME LInv, Len(work) + 2 <= MaxEvents, NEW a \in Delivery, NEW b \in Delivery,
         a.pc = "queued", a.row = NoRow, a.tally = 0,
         b.pc = "queued", b.row = NoRow, b.tally = 0,
         work' = work \o <<a, b>>, Len(money') = Len(money), UNCHANGED <<rows, count, held>>
  PROVE  /\ work' \in Seq(Delivery) /\ Len(work') <= MaxEvents
         /\ RowsAreOwned' /\ CountIsEarned'
  <1>1. work \in Seq(Delivery) /\ Len(work) \in Nat
    BY DEF LInv, TypeOK
  <1>2. <<a, b>> \in Seq(Delivery) /\ Len(<<a, b>>) = 2
    OBVIOUS
  <1>3. /\ work' \in Seq(Delivery) /\ Len(work') = Len(work) + 2
        /\ \A i \in 1 .. Len(work) + 2 : work'[i] =
              IF i <= Len(work) THEN work[i] ELSE <<a, b>>[i - Len(work)]
    BY <1>1, <1>2, ConcatProperties
  <1>4. \A e \in 1 .. Len(work) : work'[e] = work[e]
    BY <1>1, <1>3
  <1>5. \A e \in 1 .. Len(work') : e > Len(work) => work'[e] = a \/ work'[e] = b
    BY <1>1, <1>3
  <1>6. RowsAreOwned' /\ CountIsEarned'
    BY <1>1, <1>3, <1>4, <1>5, LedgerOfNew
  <1> QED  BY <1>3, <1>6

\* What a link becomes at Razorpay.
LEMMA MoneyMoves ==
  ASSUME TypeOK, NEW l \in 1 .. Len(money), NEW m \in {"open", "paid", "expired"},
         money' = [money EXCEPT ![l] = m]
  PROVE  /\ money' \in Seq({"open", "paid", "expired"}) /\ Len(money') = Len(money)
         /\ \A k \in 1 .. Len(money) : money'[k] = IF k = l THEN m ELSE money[k]
  BY ExceptSeq DEF TypeOK

\* A fresh delivery is well-typed.
LEMMA FreshDelivery ==
  ASSUME NEW kind \in Kinds, NEW link \in Links, NEW pay \in {NoPayment} \cup Attempts
  PROVE  LET d == Delivered(kind, link, pay)
         IN  d \in Delivery /\ d.pc = "queued" /\ d.row = NoRow /\ d.tally = 0
  BY BoundsAreNaturals DEF Delivered, Delivery

\* Rows are only ever added, and a row that is added is owned: the handlers'
\* side of the ledger stands.
LEMMA LedgerOfRows ==
  ASSUME LInv, Len(rows') \in Nat, Len(rows') >= Len(rows),
         Len(rows') <= MaxLinks + Len(money') + Cardinality(Wrote),
         UNCHANGED <<work, count, held>>
  PROVE  RowsAreOwned' /\ CountIsEarned' /\ Wrote' = Wrote
  <1>1. Wrote' = Wrote /\ Counted' = Counted
    BY DEF Wrote, Counted
  <1>2. Len(rows) \in Nat /\ \A e \in 1 .. Len(work) : work[e].row \in Nat
    BY DeliveryFields DEF LInv, TypeOK
  <1>3. \A e \in 1 .. Len(work) : work[e].row <= Len(rows')
    BY <1>2 DEF LInv, RowsAreOwned
  <1> QED  BY <1>1, <1>3 DEF LInv, RowsAreOwned, CountIsEarned

\* The rows the ledger accounts for fit the bound.
LEMMA RowsFit ==
  ASSUME NEW r \in Nat, NEW m \in 0 .. MaxLinks, NEW n \in 0 .. MaxEvents, NEW c \in 0 .. n,
         r <= MaxLinks + m + c
  PROVE  r <= MaxRows
  BY BoundsAreNaturals DEF MaxRows

\* The customer and Razorpay keep the types and the ledger.
LEMMA WorldLedger ==
  ASSUME LInv, RInv,
         \/ MintLink \/ MintRefused
         \/ \E l \in 1 .. Len(money) : Pay(l) \/ Decline(l) \/ Expire(l)
         \/ \E e \in Jobs : Redeliver(e)
  PROVE  LInv'
  <1>1. /\ TypeOK /\ Len(work) \in 0 .. MaxEvents /\ Len(rows) \in Nat
        /\ Len(money) \in 0 .. MaxLinks /\ rows \in Seq(Row)
        /\ MaxLinks \in Nat /\ MaxEvents \in Nat
    BY BoundsAreNaturals DEF LInv, TypeOK
  <1>2. Cardinality(Wrote) \in 0 .. Len(work)
    BY <1>1, JobSets
  <1>3. \A l \in 1 .. Len(money) : l \in Links
    BY <1>1 DEF Links
  <1>4. CASE MintLink
    <2>1. /\ money' \in Seq({"open", "paid", "expired"}) /\ Len(money') = Len(money) + 1
          /\ Len(money) + 1 <= MaxLinks
      BY <1>1, <1>4, AppendProperties DEF MintLink, TypeOK
    <2> DEFINE r == [link |-> Len(money) + 1, status |-> "link_created"]
    <2>2. r \in Row
      BY <1>1, <2>1 DEF Row, Links
    <2>3. rows' = Append(rows, r) \/ rows' = rows
      BY <1>4 DEF MintLink
    <2> HIDE DEF r
    <2>4. rows' \in Seq(Row) /\ Len(rows') \in {Len(rows), Len(rows) + 1}
      <3>1. rows \in Seq(Row)
        BY <1>1
      <3>2. Append(rows, r) \in Seq(Row) /\ Len(Append(rows, r)) = Len(rows) + 1
        BY <2>2, <3>1, AppendProperties
      <3> QED  BY <2>3, <3>1, <3>2
    <2>5. Len(rows') <= MaxLinks + Len(money') + Cardinality(Wrote)
      BY <1>1, <1>2, <2>1, <2>4 DEF LInv, RowsAreOwned
    <2>6. RowsAreOwned' /\ CountIsEarned'
      BY <1>1, <1>4, <2>4, <2>5, LedgerOfRows DEF MintLink
    <2>7. Len(rows') \in Nat /\ Len(money') \in 0 .. MaxLinks
      BY <1>1, <2>1, <2>4
    <2>8. Len(rows') <= MaxRows
      BY <1>1, <1>2, <2>5, <2>7, RowsFit
    <2> QED  BY <1>1, <1>4, <2>1, <2>4, <2>6, <2>8 DEF MintLink, LInv, TypeOK
  <1>5. CASE MintRefused
    <2> DEFINE r == [link |-> NoLink, status |-> "failed"]
    <2>1. r \in Row
      BY DEF Row
    <2>2. rows' = Append(rows, r) /\ Len(rows) < MaxLinks + Len(money)
      BY <1>5 DEF MintRefused
    <2> HIDE DEF r
    <2>3. rows' \in Seq(Row) /\ Len(rows') = Len(rows) + 1
      BY <1>1, <2>1, <2>2, AppendProperties
    <2>4. money' = money
      BY <1>5 DEF MintRefused
    <2>5. Len(rows') <= MaxLinks + Len(money') + Cardinality(Wrote)
      BY <1>1, <1>2, <2>2, <2>3, <2>4
    <2>6. RowsAreOwned' /\ CountIsEarned'
      BY <1>1, <1>5, <2>3, <2>5, LedgerOfRows DEF MintRefused
    <2>7. Len(rows') \in Nat /\ Len(money') \in 0 .. MaxLinks
      BY <1>1, <2>3, <2>4
    <2>8. Len(rows') <= MaxRows
      BY <1>1, <1>2, <2>5, <2>7, RowsFit
    <2> QED  BY <1>1, <1>5, <2>3, <2>6, <2>8 DEF MintRefused, LInv, TypeOK
  <1>6. ASSUME NEW l \in 1 .. Len(money), Pay(l)
        PROVE  LInv'
    <2>1. attempts + 1 \in Attempts /\ attempts' = attempts + 1 /\ declines' \in 0 .. attempts'
          /\ attempts' \in 0 .. MaxAttempts
      BY BoundsAreNaturals, <1>1, <1>6 DEF Pay, TypeOK, Attempts
    <2>2. /\ money' \in Seq({"open", "paid", "expired"}) /\ Len(money') = Len(money)
      BY <1>1, <1>6, MoneyMoves DEF Pay
    <2> DEFINE a == Delivered("linkPaid", l, attempts + 1)
               b == Delivered("captured", l, attempts + 1)
    <2>3. /\ a \in Delivery /\ a.pc = "queued" /\ a.row = NoRow /\ a.tally = 0
          /\ b \in Delivery /\ b.pc = "queued" /\ b.row = NoRow /\ b.tally = 0
      BY <1>3, <2>1, FreshDelivery DEF Kinds
    <2>4. work' = work \o <<a, b>> /\ Len(work) + 2 <= MaxEvents
      BY <1>6 DEF Pay
    <2> HIDE DEF a, b
    <2>5. /\ work' \in Seq(Delivery) /\ Len(work') <= MaxEvents
          /\ RowsAreOwned' /\ CountIsEarned'
      BY <1>6, <2>2, <2>3, <2>4, TwoMoreDeliveries DEF Pay
    <2> QED  BY <1>1, <1>6, <2>1, <2>2, <2>5 DEF Pay, LInv, TypeOK
  <1>7. ASSUME NEW l \in 1 .. Len(money), Decline(l)
        PROVE  LInv'
    <2>1. attempts + 1 \in Attempts /\ attempts' = attempts + 1 /\ declines' \in 0 .. attempts'
          /\ attempts' \in 0 .. MaxAttempts
      BY BoundsAreNaturals, <1>1, <1>7 DEF Decline, TypeOK, Attempts
    <2> DEFINE a == Delivered("failed", l, attempts + 1)
    <2>2. a \in Delivery /\ a.pc = "queued" /\ a.row = NoRow /\ a.tally = 0
      BY <1>3, <2>1, FreshDelivery DEF Kinds
    <2>3. work' = Append(work, a)
      BY <1>7 DEF Decline
    <2> HIDE DEF a
    <2>4. /\ work' \in Seq(Delivery) /\ Len(work') <= MaxEvents
          /\ RowsAreOwned' /\ CountIsEarned'
      BY <1>7, <2>2, <2>3, OneMoreDelivery DEF Decline
    <2> QED  BY <1>1, <1>7, <2>1, <2>4 DEF Decline, LInv, TypeOK
  <1>8. ASSUME NEW l \in 1 .. Len(money), Expire(l)
        PROVE  LInv'
    <2>1. money' \in Seq({"open", "paid", "expired"}) /\ Len(money') = Len(money)
      BY <1>1, <1>8, MoneyMoves DEF Expire
    <2> DEFINE a == Delivered("expired", l, NoPayment)
    <2>2. a \in Delivery /\ a.pc = "queued" /\ a.row = NoRow /\ a.tally = 0
      BY <1>3, FreshDelivery DEF Kinds
    <2>3. work' = Append(work, a)
      BY <1>8 DEF Expire
    <2> HIDE DEF a
    <2>4. /\ work' \in Seq(Delivery) /\ Len(work') <= MaxEvents
          /\ RowsAreOwned' /\ CountIsEarned'
      BY <1>8, <2>1, <2>2, <2>3, OneMoreDelivery DEF Expire
    <2> QED  BY <1>1, <1>8, <2>1, <2>4 DEF Expire, LInv, TypeOK
  <1>9. ASSUME NEW e \in Jobs, Redeliver(e)
        PROVE  LInv'
    <2>1. e \in 1 .. Len(work)
      BY JobsAreNumbered DEF RInv
    <2> DEFINE a == Delivered(work[e].kind, work[e].link, work[e].pay)
    <2>2. a \in Delivery /\ a.pc = "queued" /\ a.row = NoRow /\ a.tally = 0
      BY <1>1, <2>1, DeliveryFields, FreshDelivery
    <2>3. work' = Append(work, a)
      BY <1>9 DEF Redeliver
    <2> HIDE DEF a
    <2>4. /\ work' \in Seq(Delivery) /\ Len(work') <= MaxEvents
          /\ RowsAreOwned' /\ CountIsEarned'
      BY <1>9, <2>2, <2>3, OneMoreDelivery DEF Redeliver
    <2> QED  BY <1>1, <1>9, <2>4 DEF Redeliver, LInv, TypeOK
  <1> QED  BY <1>4, <1>5, <1>6, <1>7, <1>8, <1>9

\* One handler's step writes its own delivery; the others' stay, and neither
\* set loses a job.
LEMMA HandlerFrame ==
  ASSUME LInv, NEW e \in 1 .. Len(work), NEW d \in Delivery, Step(e, d),
         work[e].pc # "done", d.kind = work[e].kind,
         work[e].pc \in Late => d.pc \in Late
  PROVE  /\ work' \in Seq(Delivery) /\ Len(work') = Len(work)
         /\ \A j \in 1 .. Len(work) : work'[j] = IF j = e THEN d ELSE work[j]
         /\ Cardinality(Wrote) <= Cardinality(Wrote')
         /\ Cardinality(Counted) <= Cardinality(Counted')
         /\ work[e].pc \notin Late /\ d.pc \in Late =>
              Cardinality(Wrote') = Cardinality(Wrote) + 1
         /\ d.kind = "failed" /\ d.pc = "done" =>
              Cardinality(Counted') = Cardinality(Counted) + 1
         /\ Cardinality(Wrote') \in 0 .. Len(work')
         /\ Cardinality(Counted') \in 0 .. Len(work')
  <1>1. work \in Seq(Delivery) /\ Len(work) \in Nat
    BY DEF LInv, TypeOK
  <1>2. /\ work' \in Seq(Delivery) /\ Len(work') = Len(work)
        /\ \A j \in 1 .. Len(work) : work'[j] = IF j = e THEN d ELSE work[j]
    BY <1>1, ExceptSeq DEF Step
  <1>3. Wrote \subseteq Wrote' /\ Counted \subseteq Counted'
    BY <1>2 DEF Wrote, Counted
  <1>4. Wrote' \subseteq 1 .. Len(work) /\ Counted' \subseteq 1 .. Len(work)
    BY <1>2 DEF Wrote, Counted
  <1>5. Cardinality(Wrote) <= Cardinality(Wrote') /\ Cardinality(Counted) <= Cardinality(Counted')
    BY <1>1, <1>3, <1>4, NoFewer
  <1>6. Cardinality(Wrote') \in Nat /\ Cardinality(Wrote') <= Len(work)
    BY <1>1, <1>4, Size
  <1>7. Cardinality(Counted') \in Nat /\ Cardinality(Counted') <= Len(work)
    BY <1>1, <1>4, Size
  <1>8. ASSUME work[e].pc \notin Late, d.pc \in Late
        PROVE  Cardinality(Wrote') = Cardinality(Wrote) + 1
    <2>1. Wrote' = Wrote \cup {e} /\ e \notin Wrote
      BY <1>2, <1>8 DEF Wrote
    <2> QED  BY <1>1, <1>3, <1>4, <2>1, OneMore
  <1>9. ASSUME d.kind = "failed", d.pc = "done"
        PROVE  Cardinality(Counted') = Cardinality(Counted) + 1
    <2>1. Counted' = Counted \cup {e} /\ e \notin Counted
      BY <1>2, <1>9 DEF Counted
    <2> QED  BY <1>1, <1>3, <1>4, <2>1, OneMore
  <1> QED  BY <1>1, <1>2, <1>5, <1>6, <1>7, <1>8, <1>9

\* What every handler step has to show to keep the types and the ledger.
LEMMA HandlerStep ==
  ASSUME LInv, NEW e \in 1 .. Len(work), NEW d \in Delivery, Step(e, d),
         work[e].pc # "done", d.kind = work[e].kind,
         work[e].pc \in Late => d.pc \in Late,
         rows' \in Seq(Row),
         \/ Len(rows') = Len(rows)
         \/ Len(rows') = Len(rows) + 1 /\ work[e].pc \notin Late /\ d.pc \in Late,
         d.row <= Len(rows'),
         d.tally <= Cardinality(Counted) + 1,
         \/ count' \in {0, count} /\ held' = held
         \/ /\ d.kind = "failed" /\ d.pc = "done"
            /\ count' = work[e].tally /\ held' \in BOOLEAN
            /\ held' => held \/ work[e].tally >= Limit,
         UNCHANGED <<money, attempts, declines>>,
         claims' \subseteq Attempts, receipts' \in [Attempts -> 0 .. MaxEvents],
         overtaken' \in BOOLEAN
  PROVE  LInv'
  <1>1. /\ TypeOK /\ Len(work) \in 0 .. MaxEvents /\ Len(rows) \in Nat
        /\ Len(money) \in 0 .. MaxLinks /\ count \in Nat
        /\ MaxLinks \in Nat /\ MaxEvents \in Nat /\ Limit \in Nat
    BY BoundsAreNaturals DEF LInv, TypeOK
  <1>2. Cardinality(Wrote) \in Nat /\ Cardinality(Counted) \in Nat
    BY <1>1, JobSets
  <1>3. /\ work' \in Seq(Delivery) /\ Len(work') = Len(work)
        /\ \A j \in 1 .. Len(work) : work'[j] = IF j = e THEN d ELSE work[j]
        /\ Cardinality(Wrote) <= Cardinality(Wrote')
        /\ Cardinality(Counted) <= Cardinality(Counted')
        /\ work[e].pc \notin Late /\ d.pc \in Late =>
             Cardinality(Wrote') = Cardinality(Wrote) + 1
        /\ d.kind = "failed" /\ d.pc = "done" =>
             Cardinality(Counted') = Cardinality(Counted) + 1
        /\ Cardinality(Wrote') \in 0 .. Len(work')
        /\ Cardinality(Counted') \in 0 .. Len(work')
    BY HandlerFrame
  <1>4. \A j \in 1 .. Len(work) : work[j].row \in Nat /\ work[j].tally \in Nat
    BY <1>1, DeliveryFields
  <1>5. Len(rows') \in Nat /\ Len(rows') >= Len(rows) /\ d.row \in Nat /\ d.tally \in Nat
    BY <1>1 DEF Delivery, NoRow
  <1>6. RowsAreOwned'
    <2>1. Len(rows') <= MaxLinks + Len(money') + Cardinality(Wrote')
      <3>1. Cardinality(Wrote') \in Nat /\ money' = money
        BY <1>1, <1>3
      <3>2. Len(rows) <= MaxLinks + Len(money) + Cardinality(Wrote)
        BY DEF LInv, RowsAreOwned
      <3>3. CASE Len(rows') = Len(rows)
        <4>1. Cardinality(Wrote) <= Cardinality(Wrote')
          BY <1>3
        <4> QED  BY <1>1, <1>2, <3>1, <3>2, <3>3, <4>1
      <3>4. CASE Len(rows') = Len(rows) + 1 /\ work[e].pc \notin Late /\ d.pc \in Late
        <4>1. Cardinality(Wrote') = Cardinality(Wrote) + 1 /\ Len(rows') = Len(rows) + 1
          BY <1>3, <3>4
        <4>2. Len(rows) \in Nat /\ Len(money) \in Nat /\ MaxLinks \in Nat /\ Cardinality(Wrote) \in Nat
          BY <1>1, <1>2
        <4> QED  BY <3>1, <3>2, <4>1, <4>2
      <3> QED  BY <3>3, <3>4
    <2>2. \A j \in 1 .. Len(work') : work'[j].row <= Len(rows')
      <3> TAKE j \in 1 .. Len(work')
      <3>1. j \in 1 .. Len(work) /\ work'[j] = IF j = e THEN d ELSE work[j]
        BY <1>3
      <3>2. work[j].row \in Nat /\ work[j].row <= Len(rows)
        BY <1>4, <3>1 DEF LInv, RowsAreOwned
      <3> QED  BY <1>1, <1>5, <3>1, <3>2
    <2> QED  BY <2>1, <2>2 DEF RowsAreOwned
  <1>7. CountIsEarned'
    <2>1. \A j \in 1 .. Len(work') : work'[j].tally <= Cardinality(Counted') + 1
      <3>1. Cardinality(Counted') \in Nat
        BY <1>1, <1>3
      <3>2. \A j \in 1 .. Len(work) : work[j].tally <= Cardinality(Counted) + 1
        BY DEF LInv, CountIsEarned
      <3>3. \A j \in 1 .. Len(work) : work'[j].tally <= Cardinality(Counted) + 1
        BY <1>3, <3>2
      <3>4. \A j \in 1 .. Len(work) : work'[j].tally \in Nat
        BY <1>3, <1>4, <1>5
      <3> QED  BY <1>2, <1>3, <3>1, <3>3, <3>4
    <2>2. count' <= Cardinality(Counted') /\ (held' => Limit <= Cardinality(Counted'))
      <3>1. Cardinality(Counted') \in Nat /\ Cardinality(Counted) <= Cardinality(Counted')
        BY <1>1, <1>3
      <3>2. /\ count <= Cardinality(Counted) /\ (held => Limit <= Cardinality(Counted))
            /\ work[e].tally \in Nat /\ work[e].tally <= Cardinality(Counted) + 1
        BY <1>4 DEF LInv, CountIsEarned
      <3>3. CASE count' \in {0, count} /\ held' = held
        <4>1. \A n \in Nat : n <= Cardinality(Counted) => n <= Cardinality(Counted')
          BY <1>2, <3>1
        <4>2. count \in Nat /\ Limit \in Nat /\ 0 \in Nat /\ 0 <= Cardinality(Counted)
          BY <1>1, <1>2
        <4> QED  BY <3>2, <3>3, <4>1, <4>2
      <3>4. CASE /\ d.kind = "failed" /\ d.pc = "done"
                 /\ count' = work[e].tally /\ held' \in BOOLEAN
                 /\ held' => held \/ work[e].tally >= Limit
        <4>1. Cardinality(Counted') = Cardinality(Counted) + 1
          BY <1>3, <3>4
        <4>2. count' <= Cardinality(Counted')
          BY <3>2, <3>4, <4>1
        <4>3. held' => Limit <= Cardinality(Counted')
          <5>1. Limit \in Nat /\ Cardinality(Counted) \in Nat
            BY <1>1, <1>2
          <5> QED  BY <3>2, <3>4, <4>1, <5>1
        <4> QED  BY <4>2, <4>3
      <3> QED  BY <3>3, <3>4
    <2> QED  BY <2>1, <2>2 DEF CountIsEarned
  <1>8. count' \in 0 .. MaxEvents /\ held' \in BOOLEAN
    <2>1. count' \in Nat
      BY <1>1, <1>4
    <2>2. count' <= Cardinality(Counted') /\ Cardinality(Counted') \in 0 .. Len(work')
      BY <1>3, <1>7 DEF CountIsEarned
    <2>3. Len(work') = Len(work) /\ held' \in BOOLEAN
      BY <1>1, <1>3 DEF TypeOK
    <2> QED  BY <1>1, <2>1, <2>2, <2>3
  <1>9. Len(rows') <= MaxRows
    BY <1>1, <1>3, <1>5, <1>6, RowsFit DEF RowsAreOwned
  <1> QED  BY <1>1, <1>3, <1>6, <1>7, <1>8, <1>9 DEF LInv, TypeOK

\* A delivery moved on to another stage is well-typed and has read the same.
LEMMA MovedDelivery ==
  ASSUME NEW d \in Delivery, NEW pc \in Stages
  PROVE  LET c == [d EXCEPT !.pc = pc]
         IN  /\ c \in Delivery /\ c.pc = pc /\ c.kind = d.kind /\ c.row = d.row
             /\ c.read = d.read /\ c.tally = d.tally
  BY DEF Delivery, Stages

\* Once its row is written, it has read none.
LEMMA WrittenDelivery ==
  ASSUME NEW d \in Delivery, NEW pc \in Stages
  PROVE  LET c == Written(d, pc)
         IN  /\ c \in Delivery /\ c.pc = pc /\ c.kind = d.kind /\ c.link = d.link
             /\ c.row = NoRow /\ c.tally = d.tally
  BY DEF Delivery, Stages, Written

\* Writing a row's status changes that row's status at most.
LEMMA StatusWritten ==
  ASSUME TypeOK, NEW d, d.row \in 1 .. Len(rows),
         NEW status \in {"link_created", "paid", "failed", "expired"}, SetStatus(d, status)
  PROVE  /\ rows' \in Seq(Row) /\ Len(rows') = Len(rows)
         /\ \A i \in 1 .. Len(rows) :
              rows'[i].status = IF i = d.row /\ d.read # status
                                THEN status ELSE rows[i].status
  <1>1. rows \in Seq(Row) /\ rows[d.row] \in Row
    BY DEF TypeOK
  <1> DEFINE r == [rows[d.row] EXCEPT !.status = status]
  <1>2. r \in Row /\ r.status = status
    BY <1>1 DEF Row
  <1>3. rows' = IF d.read = status THEN rows ELSE [rows EXCEPT ![d.row] = r]
    BY DEF SetStatus
  <1> HIDE DEF r
  <1> QED  BY <1>1, <1>2, <1>3, ExceptSeq

\* A handler that finds no row and reads no count.
LEMMA MovesOnly ==
  ASSUME LInv, RInv, NEW e \in 1 .. Len(work), NEW pc \in Stages,
         Step(e, [work[e] EXCEPT !.pc = pc]) \/ Step(e, Written(work[e], pc)),
         work[e].pc # "done",
         work[e].pc \in Late => pc \in Late,
         rows' \in Seq(Row),
         \/ Len(rows') = Len(rows)
         \/ Len(rows') = Len(rows) + 1 /\ work[e].pc \notin Late /\ pc \in Late,
         \/ count' \in {0, count} /\ held' = held
         \/ /\ work[e].kind = "failed" /\ pc = "done"
            /\ count' = work[e].tally /\ held' \in BOOLEAN
            /\ held' => held \/ work[e].tally >= Limit,
         UNCHANGED <<money, attempts, declines>>,
         claims' \subseteq Attempts, receipts' \in [Attempts -> 0 .. MaxEvents],
         overtaken' \in BOOLEAN
  PROVE  LInv'
  <1>1. work[e] \in Delivery /\ work[e].row \in Nat /\ Len(rows) \in Nat /\ Len(rows') \in Nat
    BY DeliveryFields DEF LInv, TypeOK
  <1>2. PICK d \in Delivery :
          /\ d.pc = pc /\ d.kind = work[e].kind /\ d.row \in {NoRow, work[e].row}
          /\ d.tally = work[e].tally /\ Step(e, d)
    <2> DEFINE m == [work[e] EXCEPT !.pc = pc]
               w == Written(work[e], pc)
    <2>1. /\ m \in Delivery /\ m.pc = pc /\ m.kind = work[e].kind /\ m.row = work[e].row
          /\ m.tally = work[e].tally
      BY <1>1, MovedDelivery
    <2>2. /\ w \in Delivery /\ w.pc = pc /\ w.kind = work[e].kind /\ w.row = NoRow
          /\ w.tally = work[e].tally
      BY <1>1, WrittenDelivery
    <2>3. Step(e, m) \/ Step(e, w)
      OBVIOUS
    <2> HIDE DEF m, w
    <2> QED  BY <2>1, <2>2, <2>3
  <1>3. Step(e, d)
    BY <1>2
  <1>4. d.row <= Len(rows')
    BY <1>1, <1>2 DEF LInv, RowsAreOwned, NoRow
  <1>5. d.tally <= Cardinality(Counted) + 1
    BY <1>2 DEF LInv, CountIsEarned
  <1> QED  BY <1>2, <1>3, <1>4, <1>5, HandlerStep

\* Every step of a handler keeps the types and the ledger.
LEMMA HandlerLedger ==
  ASSUME LInv, RInv, NEW e \in 1 .. Len(work), Handle(e)
  PROVE  LInv'
  <1>1. /\ TypeOK /\ Len(rows) \in 0 .. MaxRows /\ rows \in Seq(Row) /\ Len(work) \in Nat
        /\ claims \subseteq Attempts /\ receipts \in [Attempts -> 0 .. MaxEvents]
        /\ count \in 0 .. MaxEvents /\ MaxRows \in Nat /\ held \in BOOLEAN
        /\ overtaken \in BOOLEAN
    BY BoundsAreNaturals DEF LInv, TypeOK, MaxRows
  <1>2. /\ work[e] \in Delivery /\ work[e].row \in Nat /\ work[e].row <= Len(rows)
        /\ work[e].link \in Links /\ work[e].tally \in Nat
    BY <1>1, DeliveryFields DEF LInv, RowsAreOwned
  <1>3. {"write", "state", "notify", "send", "done", "raised"} \subseteq Stages
    BY DEF Stages
  <1>4. e \in Jobs
    BY JobsAreNumbered DEF RInv
  <1>5. CASE Find(e)
    <2> DEFINE pc == IF work[e].kind = "failed" THEN "tally" ELSE "write"
               row == FindRow(work[e])
               read == IF row = NoRow THEN "none" ELSE rows[row].status
               d == [work[e] EXCEPT !.pc = pc, !.row = row, !.read = read]
    <2>1. /\ Step(e, d) /\ work[e].pc = "queued"
          /\ UNCHANGED <<money, attempts, declines, rows, count, held, claims, receipts, overtaken>>
      BY <1>5 DEF Find
    <2>2. row \in 0 .. Len(rows)
      BY <1>1, FindRowRange
    <2> HIDE DEF row
    <2>3. row \in {NoRow} \cup 1 .. MaxRows /\ row <= Len(rows)
      BY <1>1, <2>2 DEF NoRow
    <2>4. read \in {"none", "link_created", "paid", "failed", "expired"}
      <3>1. CASE row # NoRow
        <4>1. rows[row] \in Row
          BY <1>1, <2>2, <3>1 DEF NoRow
        <4> QED  BY <3>1, <4>1 DEF Row
      <3> QED  BY <3>1
    <2>5. pc \in {"tally", "write"}
      OBVIOUS
    <2> HIDE DEF pc, read
    <2>6. /\ d \in Delivery /\ d.pc = pc /\ d.row = row /\ d.kind = work[e].kind
          /\ d.tally = work[e].tally
      BY <1>2, <2>3, <2>4, <2>5 DEF Delivery
    <2>7. d.tally <= Cardinality(Counted) + 1
      BY <2>6 DEF LInv, CountIsEarned
    <2> HIDE DEF d
    <2> QED  BY <1>1, <2>1, <2>3, <2>5, <2>6, <2>7, HandlerStep DEF Late
  <1>6. CASE ReadCount(e)
    <2>1. PICK t : t = count + 1
      OBVIOUS
    <2>2. t \in 0 .. MaxEvents + 1 /\ t <= Cardinality(Counted) + 1
      <3>1. Cardinality(Counted) \in Nat
        BY <1>1, JobSets
      <3> QED  BY BoundsAreNaturals, <1>1, <2>1, <3>1 DEF LInv, CountIsEarned
    <2> DEFINE d == [work[e] EXCEPT !.pc = "write", !.tally = t]
    <2>3. /\ Step(e, d) /\ work[e].pc = "tally"
          /\ UNCHANGED <<money, attempts, declines, rows, count, held, claims, receipts, overtaken>>
      BY <1>6, <2>1 DEF ReadCount
    <2>4. /\ d \in Delivery /\ d.pc = "write" /\ d.row = work[e].row
          /\ d.kind = work[e].kind /\ d.tally = t
      BY <1>2, <2>2 DEF Delivery
    <2> HIDE DEF d
    <2> QED  BY <1>1, <1>2, <2>2, <2>3, <2>4, HandlerStep DEF Late
  <1>7. CASE WritePaid(e)
    <2>1. rows' \in Seq(Row) /\ Len(rows') \in {Len(rows), Len(rows) + 1}
      <3>1. CASE work[e].row = NoRow
        <4> DEFINE r == [link |-> LinkOf(work[e]), status |-> "paid"]
        <4>1. r \in Row
          BY <1>2 DEF Row, LinkOf
        <4>2. rows' = Append(rows, r)
          BY <1>7, <3>1 DEF WritePaid
        <4> HIDE DEF r
        <4> QED  BY <1>1, <4>1, <4>2, AppendProperties
      <3>2. CASE work[e].row # NoRow
        <4>1. work[e].row \in 1 .. Len(rows)
          BY <1>1, <1>2, <3>2 DEF NoRow
        <4> QED  BY <1>1, <1>7, <3>2, <4>1, StatusWritten DEF WritePaid
      <3> QED  BY <3>1, <3>2
    <2>2. overtaken' \in BOOLEAN
      BY <1>1, <1>7 DEF WritePaid, Overtakes
    <2> QED  BY <1>1, <1>3, <1>7, <2>1, <2>2, MovesOnly DEF WritePaid, Late
  <1>8. CASE WriteFailed(e) \/ WriteExpired(e)
    <2>1. rows' \in Seq(Row) /\ Len(rows') = Len(rows)
      <3>1. CASE rows' = rows
        BY <1>1, <3>1
      <3>2. CASE rows' # rows
        <4>1. /\ work[e].row # NoRow
              /\ SetStatus(work[e], "failed") \/ SetStatus(work[e], "expired")
          BY <1>8, <3>2 DEF WriteFailed, WriteExpired
        <4>2. work[e].row \in 1 .. Len(rows)
          BY <1>1, <1>2, <4>1 DEF NoRow
        <4> QED  BY <1>1, <4>1, <4>2, StatusWritten
      <3> QED  BY <3>1, <3>2
    <2>2. Step(e, Written(work[e], "state")) \/ Step(e, Written(work[e], "done"))
      BY <1>8 DEF WriteFailed, WriteExpired
    <2>3. /\ work[e].pc = "write"
          /\ UNCHANGED <<money, attempts, declines, count, held, claims, receipts, overtaken>>
      BY <1>8 DEF WriteFailed, WriteExpired
    <2> QED  BY <1>1, <1>3, <2>1, <2>2, <2>3, MovesOnly DEF Late
  <1>9. CASE ClearState(e)
    BY <1>1, <1>3, <1>9, MovesOnly DEF ClearState, Late
  <1>10. CASE Claim(e)
    <2>1. work[e].pay \in Attempts
      BY <1>4, <1>10 DEF Claim, RInv, PaymentsAreNamed
    <2> DEFINE pc == IF work[e].pay \in claims THEN "done" ELSE "send"
    <2>2. Step(e, [work[e] EXCEPT !.pc = pc]) /\ pc \in {"send", "done"}
      BY <1>10 DEF Claim, Key
    <2> HIDE DEF pc
    <2>3. claims' \subseteq Attempts
      BY <1>1, <1>10, <2>1 DEF Claim, Key
    <2>4. /\ work[e].pc = "notify"
          /\ UNCHANGED <<money, attempts, declines, rows, count, held, receipts, overtaken>>
      BY <1>10 DEF Claim
    <2> QED  BY <1>1, <1>3, <2>2, <2>3, <2>4, MovesOnly DEF Late
  <1>11. CASE SendReceipt(e)
    <2>1. work[e].pay \in Attempts /\ receipts[work[e].pay] = 0
      BY <1>4, <1>11 DEF SendReceipt, RInv, PaymentsAreNamed, SenderOwnsClaim
    <2>2. MaxEvents \in Nat /\ MaxEvents >= 1
      BY BoundsAreNaturals, <1>1 DEF TypeOK
    <2>3. receipts' \in [Attempts -> 0 .. MaxEvents]
      BY <1>1, <1>11, <2>1, <2>2 DEF SendReceipt
    <2> QED  BY <1>1, <1>3, <1>11, <2>3, MovesOnly DEF SendReceipt, Late
  <1>12. CASE SendReceiptRaises(e)
    BY <1>1, <1>3, <1>12, MovesOnly DEF SendReceiptRaises, Late
  <1>13. CASE CountDecline(e)
    <2>1. held' \in BOOLEAN /\ (held' => held \/ work[e].tally >= Limit)
      BY <1>1, <1>13 DEF CountDecline, Escalates
    <2> QED  BY <1>1, <1>3, <1>13, <2>1, MovesOnly DEF CountDecline, Late
  <1> QED  BY <1>5, <1>6, <1>7, <1>8, <1>9, <1>10, <1>11, <1>12, <1>13 DEF Handle

\* LInv is an inductive invariant, together with RInv.
THEOREM LedgerInvariance == Spec => []LInv
  <1>1. LInv /\ RInv /\ [Next]_vars => LInv'
    <2> SUFFICES ASSUME LInv, RInv, [Next]_vars PROVE LInv'
      OBVIOUS
    <2>1. Jobs = 1 .. Len(work)
      BY JobsAreNumbered DEF RInv
    <2>2. CASE UNCHANGED vars
      BY <2>2 DEF vars, LInv, TypeOK, RowsAreOwned, CountIsEarned, Wrote, Counted
    <2> QED  BY <2>1, <2>2, WorldLedger, HandlerLedger DEF Next
  <1> QED  BY <1>1, InitLInv, ReceiptInvariance, PTL DEF Spec

\* Every variable keeps its type: the rows fit the bound that links, refusals
\* and handlers set, and the counter never outruns the events.
THEOREM SettlementTypes == Spec => []TypeOK
  <1>1. LInv => TypeOK
    BY DEF LInv
  <1> QED  BY <1>1, LedgerInvariance, PTL

-----------------------------------------------------------------------------
(* Declines and the hold.                                                  *)

Failed == {e \in 1 .. Len(work) : work[e].kind = "failed"}
Expired == {l \in 1 .. Len(money) : money[l] = "expired"}

\* Every delivery is an event of Razorpay's or a repeat of one, and the
\* declines the worker hears of are declines or repeats.
Heard ==
    /\ Repeats \in 0 .. MaxRepeats
    /\ Cardinality(Failed) <= declines + Repeats

\* A handler's step leaves its delivery the same event.
LEMMA SameEvent ==
  ASSUME TypeOK, NEW e \in 1 .. Len(work), Handle(e)
  PROVE  \E d : Step(e, d) /\ d.kind = work[e].kind /\ d.link = work[e].link
  <1>0. work[e] \in Delivery
    BY DeliveryFields
  <1>1. ASSUME NEW pc, Step(e, [work[e] EXCEPT !.pc = pc])
        PROVE  \E d : Step(e, d) /\ d.kind = work[e].kind /\ d.link = work[e].link
    BY <1>0, <1>1 DEF Delivery
  <1>2. ASSUME NEW pc, NEW row, NEW read,
               Step(e, [work[e] EXCEPT !.pc = pc, !.row = row, !.read = read])
        PROVE  \E d : Step(e, d) /\ d.kind = work[e].kind /\ d.link = work[e].link
    <2> DEFINE c == [work[e] EXCEPT !.pc = pc, !.row = row, !.read = read]
    <2>1. c.kind = work[e].kind /\ c.link = work[e].link
      BY <1>0 DEF Delivery
    <2>2. Step(e, c)
      BY <1>2
    <2> HIDE DEF c
    <2> QED  BY <2>1, <2>2
  <1>3. ASSUME NEW tally, Step(e, [work[e] EXCEPT !.pc = "write", !.tally = tally])
        PROVE  \E d : Step(e, d) /\ d.kind = work[e].kind /\ d.link = work[e].link
    <2> DEFINE c == [work[e] EXCEPT !.pc = "write", !.tally = tally]
    <2>1. c.kind = work[e].kind /\ c.link = work[e].link
      BY <1>0 DEF Delivery
    <2>2. Step(e, c)
      BY <1>3
    <2> HIDE DEF c
    <2> QED  BY <2>1, <2>2
  <1>4. CASE Claim(e)
    <2> DEFINE pc == IF Key(work[e]) \in claims THEN "done" ELSE "send"
    <2>1. Step(e, [work[e] EXCEPT !.pc = pc])
      BY <1>4 DEF Claim
    <2> HIDE DEF pc
    <2> QED  BY <1>1, <2>1
  <1>5. CASE ClearState(e) \/ SendReceipt(e) \/ SendReceiptRaises(e) \/ CountDecline(e)
    <2>1. \/ Step(e, [work[e] EXCEPT !.pc = "notify"])
          \/ Step(e, [work[e] EXCEPT !.pc = "done"])
          \/ Step(e, [work[e] EXCEPT !.pc = "raised"])
      BY <1>5 DEF ClearState, SendReceipt, SendReceiptRaises, CountDecline
    <2> QED  BY <1>1, <2>1
  <1>8. CASE WritePaid(e) \/ WriteFailed(e) \/ WriteExpired(e)
    <2>1. Step(e, Written(work[e], "state")) \/ Step(e, Written(work[e], "done"))
      BY <1>8 DEF WritePaid, WriteFailed, WriteExpired
    <2> QED  BY <1>0, <2>1, WrittenDelivery DEF Stages
  <1>6. CASE Find(e)
    <2> DEFINE pc == IF work[e].kind = "failed" THEN "tally" ELSE "write"
               row == FindRow(work[e])
               read == IF row = NoRow THEN "none" ELSE rows[row].status
    <2>1. Step(e, [work[e] EXCEPT !.pc = pc, !.row = row, !.read = read])
      BY <1>6 DEF Find
    <2> HIDE DEF pc, row, read
    <2> QED  BY <1>2, <2>1
  <1>7. CASE ReadCount(e)
    BY <1>3, <1>7 DEF ReadCount
  <1> QED  BY <1>4, <1>5, <1>6, <1>7, <1>8 DEF Handle

\* Handlers leave what was delivered and what happened alone.
LEMMA HeardByHandler ==
  ASSUME LInv, RInv, Heard, NEW e \in 1 .. Len(work), Handle(e)
  PROVE  Heard'
  <1>1. work \in Seq(Delivery) /\ work[e] \in Delivery
    BY DEF LInv, TypeOK
  <1>2. UNCHANGED <<money, attempts, declines>>
    BY DEF Handle, Find, ReadCount, WritePaid, ClearState, Claim, SendReceipt,
           SendReceiptRaises, WriteFailed, CountDecline, WriteExpired
  <1>3. PICK d : Step(e, d) /\ d.kind = work[e].kind
    BY SameEvent DEF LInv
  <1>5. Len(work') = Len(work) /\ \A j \in 1 .. Len(work) : work'[j] = IF j = e THEN d ELSE work[j]
    BY <1>1, <1>3 DEF Step
  <1>6. Failed' = Failed /\ Repeats' = Repeats
    BY <1>2, <1>3, <1>5 DEF Failed, Repeats
  <1> QED  BY <1>2, <1>6 DEF Heard

\* A delivery at the end of work is heard of once.
LEMMA HeardOfOne ==
  ASSUME LInv, NEW a, work' = Append(work, a)
  PROVE  /\ Len(work') = Len(work) + 1
         /\ Cardinality(Failed) \in Nat /\ Cardinality(Failed') \in Nat
         /\ Cardinality(Failed') <= Cardinality(Failed) + 1
         /\ a.kind # "failed" => Failed' = Failed
  <1>1. work \in Seq(Delivery) /\ Len(work) \in Nat
    BY DEF LInv, TypeOK
  <1>2. /\ Len(work') = Len(work) + 1 /\ work'[Len(work) + 1] = a
        /\ \A e \in 1 .. Len(work) : work'[e] = work[e]
    BY <1>1
  <1>3. Failed' = IF a.kind = "failed" THEN Failed \cup {Len(work) + 1} ELSE Failed
    BY <1>1, <1>2 DEF Failed
  <1>4. Failed \subseteq 1 .. Len(work) /\ Len(work) + 1 \notin Failed
    BY <1>1 DEF Failed
  <1>5. Cardinality(Failed) \in Nat
    BY <1>1, <1>4, Size
  <1>6. Cardinality(Failed \cup {Len(work) + 1}) = Cardinality(Failed) + 1
    BY <1>1, <1>4, OneMore
  <1> QED  BY <1>2, <1>3, <1>5, <1>6

\* The customer's and Razorpay's steps keep count of what was delivered.
LEMMA HeardOfWorld ==
  ASSUME LInv, RInv, Heard,
         \/ MintLink \/ MintRefused
         \/ \E l \in 1 .. Len(money) : Pay(l) \/ Decline(l) \/ Expire(l)
         \/ \E e \in Jobs : Redeliver(e)
  PROVE  Heard'
  <1>1. /\ TypeOK /\ Len(work) \in Nat /\ Len(money) \in Nat /\ work \in Seq(Delivery)
        /\ attempts \in Nat /\ declines \in Nat
        /\ money \in Seq({"open", "paid", "expired"}) /\ MaxRepeats \in Nat
    BY BoundsAreNaturals DEF LInv, TypeOK
  <1>2. Expired \subseteq 1 .. Len(money) /\ Cardinality(Expired) \in Nat
    BY <1>1, Size DEF Expired
  <1>3. /\ Repeats = Len(work) - (2 * attempts - declines + Cardinality(Expired))
        /\ Repeats' = Len(work') - (2 * attempts' - declines' + Cardinality(Expired'))
    BY DEF Repeats, Expired
  <1>4. CASE MintLink
    <2>1. Expired' = Expired
      <3>1. /\ Len(money') = Len(money) + 1 /\ money'[Len(money) + 1] = "open"
            /\ \A l \in 1 .. Len(money) : money'[l] = money[l]
        BY <1>1, <1>4 DEF MintLink
      <3> QED  BY <1>1, <3>1 DEF Expired
    <2>2. work' = work /\ attempts' = attempts /\ declines' = declines /\ Failed' = Failed
      BY <1>4 DEF MintLink, Failed
    <2> QED  BY <1>3, <2>1, <2>2 DEF Heard
  <1>5. CASE MintRefused
    BY <1>5 DEF MintRefused, Heard, Repeats, Failed
  <1>6. ASSUME NEW l \in 1 .. Len(money), Pay(l)
        PROVE  Heard'
    <2>1. money[l] = "open" /\ \A k \in 1 .. Len(money) : money'[k] = IF k = l THEN "paid" ELSE money[k]
      BY <1>1, <1>6, MoneyMoves DEF Pay
    <2>2. Expired' = Expired
      BY <1>1, <1>6, <2>1, MoneyMoves DEF Pay, Expired
    <2> DEFINE a == Delivered("linkPaid", l, attempts + 1)
               b == Delivered("captured", l, attempts + 1)
    <2>3. a.kind # "failed" /\ b.kind # "failed" /\ work' = work \o <<a, b>>
      BY <1>6 DEF Delivered, Pay
    <2> HIDE DEF a, b
    <2>4. /\ Len(work') = Len(work) + 2
          /\ \A e \in 1 .. Len(work) : work'[e] = work[e]
          /\ work'[Len(work) + 1] = a /\ work'[Len(work) + 2] = b
      BY <1>1, <2>3
    <2>5. \A e \in 1 .. Len(work') : e \in 1 .. Len(work) \/ work'[e] = a \/ work'[e] = b
      BY <1>1, <2>4
    <2>6. Failed' = Failed
      BY <1>1, <2>3, <2>4, <2>5 DEF Failed
    <2>7. attempts' = attempts + 1 /\ declines' = declines
      BY <1>6 DEF Pay
    <2>8. Repeats' = Repeats
      BY <1>1, <1>2, <1>3, <2>2, <2>4, <2>7
    <2> QED  BY <2>6, <2>7, <2>8 DEF Heard
  <1>7. ASSUME NEW l \in 1 .. Len(money), Decline(l)
        PROVE  Heard'
    <2>1. /\ Len(work') = Len(work) + 1
          /\ Cardinality(Failed) \in Nat /\ Cardinality(Failed') \in Nat
          /\ Cardinality(Failed') <= Cardinality(Failed) + 1
      BY <1>7, HeardOfOne DEF Decline
    <2>2. attempts' = attempts + 1 /\ declines' = declines + 1 /\ Expired' = Expired
      BY <1>7 DEF Decline, Expired
    <2>3. Repeats' = Repeats
      BY <1>1, <1>2, <1>3, <2>1, <2>2
    <2> QED  BY <1>1, <2>1, <2>2, <2>3 DEF Heard
  <1>8. ASSUME NEW l \in 1 .. Len(money), Expire(l)
        PROVE  Heard'
    <2>1. money[l] = "open" /\ \A k \in 1 .. Len(money) : money'[k] = IF k = l THEN "expired" ELSE money[k]
      BY <1>1, <1>8, MoneyMoves DEF Expire
    <2>2. Expired' = Expired \cup {l} /\ l \notin Expired
      BY <1>1, <1>8, <2>1, MoneyMoves DEF Expire, Expired
    <2>3. Cardinality(Expired') = Cardinality(Expired) + 1
      BY <1>1, <1>2, <2>2, OneMore
    <2>4. Len(work') = Len(work) + 1 /\ Failed' = Failed
      BY <1>8, HeardOfOne DEF Expire, Delivered
    <2>5. attempts' = attempts /\ declines' = declines
      BY <1>8 DEF Expire
    <2>6. Repeats' = Repeats
      BY <1>1, <1>2, <1>3, <2>3, <2>4, <2>5
    <2> QED  BY <2>4, <2>5, <2>6 DEF Heard
  <1>9. ASSUME NEW e \in Jobs, Redeliver(e)
        PROVE  Heard'
    <2>1. /\ Len(work') = Len(work) + 1
          /\ Cardinality(Failed) \in Nat /\ Cardinality(Failed') \in Nat
          /\ Cardinality(Failed') <= Cardinality(Failed) + 1
      BY <1>9, HeardOfOne DEF Redeliver
    <2>2. /\ attempts' = attempts /\ declines' = declines /\ Expired' = Expired
          /\ Repeats < MaxRepeats
      BY <1>9 DEF Redeliver, Expired
    <2>3. Repeats' = Repeats + 1
      BY <1>1, <1>2, <1>3, <2>1, <2>2
    <2> QED  BY <1>1, <2>1, <2>2, <2>3 DEF Heard
  <1> QED  BY <1>4, <1>5, <1>6, <1>7, <1>8, <1>9

\* What the worker heard of is what happened, and repeats.
THEOREM HeardInvariance == Spec => []Heard
  <1>1. Init => Heard
    <2> SUFFICES ASSUME Init PROVE Heard
      OBVIOUS
    <2>1. Len(work) = 0 /\ Len(money) = 0 /\ attempts = 0 /\ declines = 0
      BY DEF Init
    <2>2. Failed = {} /\ Expired = {}
      BY <2>1 DEF Failed, Expired
    <2> QED  BY BoundsAreNaturals, <2>1, <2>2, FS_EmptySet DEF Heard, Repeats, Expired
  <1>2. LInv /\ RInv /\ Heard /\ [Next]_vars => Heard'
    <2> SUFFICES ASSUME LInv, RInv, Heard, [Next]_vars PROVE Heard'
      OBVIOUS
    <2>1. Jobs = 1 .. Len(work)
      BY JobsAreNumbered DEF RInv
    <2>2. CASE UNCHANGED vars
      BY <2>2 DEF vars, Heard, Repeats, Failed
    <2> QED  BY <2>1, <2>2, HeardOfWorld, HeardByHandler DEF Next
  <1> QED  BY <1>1, <1>2, LedgerInvariance, ReceiptInvariance, PTL DEF Spec

\* Limit deliveries of a decline were worth Limit declines, or repeats of them.
LEMMA HeardEnough ==
  ASSUME LInv, Heard, NEW n \in Nat, Limit <= n, n <= Cardinality(Failed)
  PROVE  declines + Repeats >= Limit
  <1>1. Len(work) \in Nat /\ declines \in Nat /\ Repeats \in Nat /\ Limit \in Nat
    BY BoundsAreNaturals DEF LInv, TypeOK, Heard
  <1>2. Failed \subseteq 1 .. Len(work)
    BY DEF Failed
  <1>3. Cardinality(Failed) \in Nat /\ Cardinality(Failed) <= declines + Repeats
    BY <1>1, <1>2, Size DEF Heard
  <1> QED  BY <1>1, <1>3

\* A thread is escalated only when that many payments were declined, deliveries
\* the edge could not recognise as repeats counted in.
THEOREM EscalationIsEarned == Spec => []EscalatesOnlyWhenDeclined
  <1>1. LInv /\ Heard => EscalatesOnlyWhenDeclined
    <2> SUFFICES ASSUME LInv, Heard, held PROVE declines + Repeats >= Limit
      BY DEF EscalatesOnlyWhenDeclined
    <2>1. Len(work) \in Nat
      BY DEF LInv, TypeOK
    <2>2. Failed \subseteq 1 .. Len(work) /\ Counted \subseteq Failed
      BY DEF Failed, Counted
    <2>3. Cardinality(Counted) <= Cardinality(Failed)
      BY <2>1, <2>2, NoFewer
    <2>4. Limit <= Cardinality(Counted) /\ Cardinality(Counted) \in Nat
      BY <2>1, JobSets DEF LInv, CountIsEarned
    <2> QED  BY <2>3, <2>4, HeardEnough
  <1> QED  BY <1>1, LedgerInvariance, HeardInvariance, PTL

-----------------------------------------------------------------------------
(* Who takes a recorded payment back.                                      *)

\* Unless a payment was recorded under a handler that had read the row, who
\* holds a row that is paid has read that it is.
Fresh ==
    overtaken \/ \A e \in 1 .. Len(work) :
        Holds(work[e]) => (rows[work[e].row].status = "paid" => work[e].read = "paid")

\* An expiry that the worker hears of has happened.
ExpiriesAreReal ==
    \A e \in 1 .. Len(work) : work[e].kind = "expired" =>
        work[e].link \in 1 .. Len(money) /\ money[work[e].link] = "expired"

\* Rows that are only added, and deliveries that are only queued.
LEMMA FreshGrows ==
  ASSUME LInv, Fresh, overtaken' = overtaken,
         Len(work') \in Nat, Len(work') >= Len(work),
         \A e \in 1 .. Len(work) : work'[e] = work[e],
         \A e \in 1 .. Len(work') : e > Len(work) => work'[e].pc = "queued",
         \A i \in 1 .. Len(rows) : rows'[i] = rows[i]
  PROVE  Fresh'
  <1>1. Len(work) \in Nat /\ Len(rows) \in Nat
    BY DEF LInv, TypeOK
  <1>2. \A e \in 1 .. Len(work') : Holds(work'[e]) => e \in 1 .. Len(work) /\ work'[e] = work[e]
    BY <1>1 DEF Holds
  <1>3. \A e \in 1 .. Len(work) : Holds(work[e]) => work[e].row \in 1 .. Len(rows)
    BY <1>1, DeliveryFields DEF LInv, RowsAreOwned, NoRow, Holds
  <1> QED  BY <1>2, <1>3 DEF Fresh

\* A handler's step by which no row becomes paid.
LEMMA FreshHandles ==
  ASSUME LInv, Fresh, overtaken' = overtaken,
         NEW e \in 1 .. Len(work), NEW d, Step(e, d),
         Holds(d) => (rows'[d.row].status = "paid" => d.read = "paid"),
         \A i \in 1 .. Len(rows) : rows'[i].status = "paid" => rows[i].status = "paid"
  PROVE  Fresh'
  <1>1. work \in Seq(Delivery) /\ Len(work) \in Nat /\ Len(rows) \in Nat
    BY DEF LInv, TypeOK
  <1>2. /\ Len(work') = Len(work)
        /\ \A j \in 1 .. Len(work) : work'[j] = IF j = e THEN d ELSE work[j]
    BY <1>1 DEF Step
  <1>3. \A j \in 1 .. Len(work) : Holds(work[j]) => work[j].row \in 1 .. Len(rows)
    BY <1>1, DeliveryFields DEF LInv, RowsAreOwned, NoRow, Holds
  <1> QED  BY <1>2, <1>3 DEF Fresh

\* The same for a handler that does not hold its row any more.
LEMMA FreshMoves ==
  ASSUME LInv, Fresh, overtaken' = overtaken, NEW e \in 1 .. Len(work),
         NEW pc \in Stages, pc \notin {"tally", "write"},
         Step(e, [work[e] EXCEPT !.pc = pc]) \/ Step(e, Written(work[e], pc)),
         \A i \in 1 .. Len(rows) : rows'[i].status = "paid" => rows[i].status = "paid"
  PROVE  Fresh'
  <1>1. work[e] \in Delivery
    BY DeliveryFields DEF LInv
  <1>2. PICK d : d.pc = pc /\ Step(e, d)
    BY <1>1, MovedDelivery, WrittenDelivery
  <1>3. ~Holds(d)
    BY <1>2 DEF Holds
  <1> QED  BY <1>2, <1>3, FreshHandles

\* The customer's and Razorpay's steps.
LEMMA FreshInWorld ==
  ASSUME LInv, Fresh,
         \/ MintLink \/ MintRefused
         \/ \E l \in 1 .. Len(money) : Pay(l) \/ Decline(l) \/ Expire(l)
         \/ \E e \in 1 .. Len(work) : Redeliver(e)
  PROVE  Fresh'
  <1>1. Len(work) \in Nat /\ Len(rows) \in Nat /\ work \in Seq(Delivery) /\ rows \in Seq(Row)
    BY DEF LInv, TypeOK
  <1>2. CASE MintLink \/ MintRefused
    <2>1. work' = work /\ overtaken' = overtaken
      BY <1>2 DEF MintLink, MintRefused
    <2>2. PICK r : rows' = Append(rows, r) \/ rows' = rows
      BY <1>2 DEF MintLink, MintRefused
    <2>3. \A i \in 1 .. Len(rows) : rows'[i] = rows[i]
      BY <1>1, <2>2
    <2> QED  BY <1>1, <2>1, <2>3, FreshGrows
  <1>3. ASSUME NEW a, a.pc = "queued", work' = Append(work, a), UNCHANGED <<rows, overtaken>>
        PROVE  Fresh'
    <2>1. /\ Len(work') = Len(work) + 1 /\ work'[Len(work) + 1] = a
          /\ \A e \in 1 .. Len(work) : work'[e] = work[e]
      BY <1>1, <1>3
    <2>2. \A e \in 1 .. Len(work') : e > Len(work) => work'[e] = a
      BY <1>1, <2>1
    <2> QED  BY <1>1, <1>3, <2>1, <2>2, FreshGrows
  <1>4. ASSUME NEW l, Decline(l) \/ Expire(l)
        PROVE  Fresh'
    BY <1>3, <1>4 DEF Decline, Expire, Delivered
  <1>5. ASSUME NEW e, Redeliver(e)
        PROVE  Fresh'
    BY <1>3, <1>5 DEF Redeliver, Delivered
  <1>6. ASSUME NEW l, Pay(l)
        PROVE  Fresh'
    <2> DEFINE a == Delivered("linkPaid", l, attempts + 1)
               b == Delivered("captured", l, attempts + 1)
    <2>1. a.pc = "queued" /\ b.pc = "queued"
      BY DEF Delivered
    <2>2. work' = work \o <<a, b>> /\ UNCHANGED <<rows, overtaken>>
      BY <1>6 DEF Pay
    <2> HIDE DEF a, b
    <2>3. /\ Len(work') = Len(work) + 2
          /\ \A e \in 1 .. Len(work) : work'[e] = work[e]
          /\ work'[Len(work) + 1] = a /\ work'[Len(work) + 2] = b
      BY <1>1, <2>2
    <2>4. \A e \in 1 .. Len(work') : e > Len(work) => work'[e] = a \/ work'[e] = b
      BY <1>1, <2>3
    <2> QED  BY <1>1, <2>1, <2>2, <2>3, <2>4, FreshGrows
  <1> QED  BY <1>2, <1>4, <1>5, <1>6

\* Recording a payment: whoever holds that row and has not read it as paid is
\* overtaken.
LEMMA FreshWhenPaid ==
  ASSUME LInv, Fresh, NEW e \in 1 .. Len(work), WritePaid(e), ~overtaken'
  PROVE  Fresh'
  <1>1. /\ TypeOK /\ work \in Seq(Delivery) /\ rows \in Seq(Row)
        /\ Len(work) \in Nat /\ Len(rows) \in Nat /\ work[e] \in Delivery
    BY DeliveryFields DEF LInv, TypeOK
  <1>2. ~overtaken /\ ~Overtakes(work[e]) /\ Step(e, Written(work[e], "state"))
    BY DEF WritePaid
  <1>3. \A j \in 1 .. Len(work) : Holds(work[j]) => work[j].row \in 1 .. Len(rows)
    BY <1>1, DeliveryFields DEF LInv, RowsAreOwned, NoRow, Holds
  <1>4. PICK d : d.pc = "state" /\ Step(e, d)
    BY <1>1, <1>2, WrittenDelivery DEF Stages
  <1>5. /\ Len(work') = Len(work)
        /\ \A j \in 1 .. Len(work) : work'[j] = IF j = e THEN d ELSE work[j]
    BY <1>1, <1>4 DEF Step
  <1>6. \A i \in 1 .. Len(rows) : rows'[i].status = "paid" => rows[i].status = "paid" \/ i = work[e].row
    <2>1. CASE work[e].row = NoRow
      <3>1. PICK r : rows' = Append(rows, r)
        BY <2>1 DEF WritePaid
      <3> QED  BY <1>1, <3>1
    <2>2. CASE work[e].row # NoRow
      <3>1. work[e].row \in 1 .. Len(rows)
        BY <1>1, <2>2, DeliveryFields DEF LInv, RowsAreOwned, NoRow
      <3> QED  BY <1>1, <2>2, <3>1, StatusWritten DEF WritePaid
    <2> QED  BY <2>1, <2>2
  <1>7. \A j \in 1 .. Len(work) : Holds(work[j]) /\ work[j].row = work[e].row => work[j].read = "paid"
    BY <1>2 DEF Overtakes
  <1>8. ASSUME NEW j \in 1 .. Len(work'), Holds(work'[j]), rows'[work'[j].row].status = "paid"
        PROVE  work'[j].read = "paid"
    <2>1. j \in 1 .. Len(work) /\ work'[j] = work[j] /\ Holds(work[j])
      BY <1>4, <1>5, <1>8 DEF Holds
    <2>2. rows[work[j].row].status = "paid" \/ work[j].row = work[e].row
      BY <1>3, <1>6, <1>8, <2>1
    <2> QED  BY <1>2, <1>7, <2>1, <2>2 DEF Fresh
  <1> QED  BY <1>8 DEF Fresh

\* Every step of a handler.
LEMMA FreshInHandlers ==
  ASSUME LInv, Fresh, NEW e \in 1 .. Len(work), Handle(e)
  PROVE  Fresh'
  <1>1. TypeOK /\ work[e] \in Delivery /\ rows \in Seq(Row) /\ Len(rows) \in Nat
    BY DeliveryFields DEF LInv, TypeOK
  <1>2. CASE Find(e)
    <2> DEFINE pc == IF work[e].kind = "failed" THEN "tally" ELSE "write"
               row == FindRow(work[e])
               read == IF row = NoRow THEN "none" ELSE rows[row].status
               d == [work[e] EXCEPT !.pc = pc, !.row = row, !.read = read]
    <2>1. Step(e, d) /\ UNCHANGED <<rows, overtaken>>
      BY <1>2 DEF Find
    <2>2. row # NoRow => read = rows[row].status
      OBVIOUS
    <2> HIDE DEF pc, row, read
    <2>3. d.row = row /\ d.read = read
      BY <1>1 DEF Delivery
    <2> HIDE DEF d
    <2> QED  BY <2>1, <2>2, <2>3, FreshHandles DEF Holds
  <1>3. CASE ReadCount(e)
    <2>1. PICK t : t = count + 1
      OBVIOUS
    <2> DEFINE d == [work[e] EXCEPT !.pc = "write", !.tally = t]
    <2>2. Step(e, d) /\ work[e].pc = "tally" /\ UNCHANGED <<rows, overtaken>>
      BY <1>3, <2>1 DEF ReadCount
    <2>3. d.row = work[e].row /\ d.read = work[e].read /\ d.kind = work[e].kind
      BY <1>1 DEF Delivery
    <2> HIDE DEF d
    <2>4. Holds(d) => Holds(work[e])
      BY <2>2, <2>3 DEF Holds, Paid
    <2>5. Holds(d) => overtaken \/ (rows'[d.row].status = "paid" => d.read = "paid")
      BY <2>2, <2>3, <2>4 DEF Fresh
    <2>6. CASE overtaken
      BY <2>2, <2>6 DEF Fresh
    <2>7. CASE ~overtaken
      BY <2>2, <2>5, <2>7, FreshHandles
    <2> QED  BY <2>6, <2>7
  <1>4. CASE WritePaid(e)
    <2>1. CASE overtaken'
      BY <2>1 DEF Fresh
    <2> QED  BY <1>4, <2>1, FreshWhenPaid
  <1>5. CASE WriteFailed(e) \/ WriteExpired(e)
    <2>1. \A i \in 1 .. Len(rows) : rows'[i].status = "paid" => rows[i].status = "paid"
      <3>1. CASE rows' = rows
        BY <3>1
      <3>2. CASE rows' # rows
        <4>1. PICK status \in {"failed", "expired"} :
                work[e].row # NoRow /\ SetStatus(work[e], status)
          BY <1>5, <3>2 DEF WriteFailed, WriteExpired
        <4>2. work[e].row \in 1 .. Len(rows)
          BY <1>1, <4>1, DeliveryFields DEF LInv, RowsAreOwned, NoRow
        <4> QED  BY <1>1, <4>1, <4>2, StatusWritten
      <3> QED  BY <3>1, <3>2
    <2>2. PICK pc \in {"state", "done"} : Step(e, Written(work[e], pc)) /\ overtaken' = overtaken
      BY <1>5 DEF WriteFailed, WriteExpired
    <2> QED  BY <2>1, <2>2, FreshMoves DEF Stages
  <1>6. CASE Claim(e)
    <2> DEFINE pc == IF Key(work[e]) \in claims THEN "done" ELSE "send"
    <2>1. Step(e, [work[e] EXCEPT !.pc = pc]) /\ pc \in {"send", "done"}
          /\ UNCHANGED <<rows, overtaken>>
      BY <1>6 DEF Claim
    <2> HIDE DEF pc
    <2> QED  BY <2>1, FreshMoves DEF Stages
  <1>7. CASE ClearState(e) \/ SendReceipt(e) \/ SendReceiptRaises(e) \/ CountDecline(e)
    <2>1. PICK pc \in {"notify", "done", "raised"} :
            Step(e, [work[e] EXCEPT !.pc = pc]) /\ UNCHANGED <<rows, overtaken>>
      BY <1>7 DEF ClearState, SendReceipt, SendReceiptRaises, CountDecline
    <2> QED  BY <2>1, FreshMoves DEF Stages
  <1> QED  BY <1>2, <1>3, <1>4, <1>5, <1>6, <1>7 DEF Handle

\* Expiries are real, and stay so: an expired link is never opened again.
LEMMA ExpiriesStayReal ==
  ASSUME LInv, ExpiriesAreReal, Next
  PROVE  ExpiriesAreReal'
  <1>1. /\ TypeOK /\ Len(work) \in Nat /\ Len(money) \in Nat /\ work \in Seq(Delivery)
        /\ money \in Seq({"open", "paid", "expired"})
    BY DEF LInv, TypeOK
  <1>2. \A e \in 1 .. Len(work) : work[e].link \in Nat
    BY <1>1, DeliveryFields DEF Links
  <1>3. ASSUME NEW a, work' = Append(work, a), Len(money') = Len(money),
               \A l \in 1 .. Len(money) : money[l] = "expired" => money'[l] = "expired",
               a.kind = "expired" => a.link \in 1 .. Len(money) /\ money'[a.link] = "expired"
        PROVE  ExpiriesAreReal'
    <2>1. /\ Len(work') = Len(work) + 1 /\ work'[Len(work) + 1] = a
          /\ \A e \in 1 .. Len(work) : work'[e] = work[e]
      BY <1>1, <1>3
    <2>2. \A e \in 1 .. Len(work') : e \in 1 .. Len(work) \/ work'[e] = a
      BY <1>1, <2>1
    <2> QED  BY <1>3, <2>1, <2>2 DEF ExpiriesAreReal
  <1>4. CASE MintLink
    <2>1. /\ Len(money') = Len(money) + 1 /\ \A l \in 1 .. Len(money) : money'[l] = money[l]
          /\ work' = work
      BY <1>1, <1>4 DEF MintLink
    <2> QED  BY <1>1, <2>1 DEF ExpiriesAreReal
  <1>5. CASE MintRefused
    BY <1>5 DEF MintRefused, ExpiriesAreReal
  <1>6. ASSUME NEW l \in 1 .. Len(money), Pay(l)
        PROVE  ExpiriesAreReal'
    <2>1. /\ money[l] = "open" /\ Len(money') = Len(money)
          /\ \A k \in 1 .. Len(money) : money'[k] = IF k = l THEN "paid" ELSE money[k]
      BY <1>1, <1>6, MoneyMoves DEF Pay
    <2> DEFINE a == Delivered("linkPaid", l, attempts + 1)
               b == Delivered("captured", l, attempts + 1)
    <2>2. a.kind # "expired" /\ b.kind # "expired" /\ work' = work \o <<a, b>>
      BY <1>6 DEF Delivered, Pay
    <2> HIDE DEF a, b
    <2>3. /\ Len(work') = Len(work) + 2
          /\ \A e \in 1 .. Len(work) : work'[e] = work[e]
          /\ work'[Len(work) + 1] = a /\ work'[Len(work) + 2] = b
      BY <1>1, <2>2
    <2>4. \A e \in 1 .. Len(work') : e \in 1 .. Len(work) \/ work'[e] = a \/ work'[e] = b
      BY <1>1, <2>3
    <2> QED  BY <2>1, <2>2, <2>3, <2>4 DEF ExpiriesAreReal
  <1>7. ASSUME NEW l \in 1 .. Len(money), Decline(l)
        PROVE  ExpiriesAreReal'
    BY <1>3, <1>7 DEF Decline, Delivered
  <1>8. ASSUME NEW l \in 1 .. Len(money), Expire(l)
        PROVE  ExpiriesAreReal'
    <2>1. /\ Len(money') = Len(money)
          /\ \A k \in 1 .. Len(money) : money'[k] = IF k = l THEN "expired" ELSE money[k]
      BY <1>1, <1>8, MoneyMoves DEF Expire
    <2> DEFINE a == Delivered("expired", l, NoPayment)
    <2>2. a.link = l /\ work' = Append(work, a)
      BY <1>8 DEF Expire, Delivered
    <2> HIDE DEF a
    <2> QED  BY <1>3, <2>1, <2>2
  <1>9. ASSUME NEW e \in 1 .. Len(work), Redeliver(e)
        PROVE  ExpiriesAreReal'
    <2> DEFINE a == Delivered(work[e].kind, work[e].link, work[e].pay)
    <2>1. a.kind = work[e].kind /\ a.link = work[e].link /\ work' = Append(work, a) /\ money' = money
      BY <1>9 DEF Redeliver, Delivered
    <2> HIDE DEF a
    <2> QED  BY <1>3, <2>1 DEF ExpiriesAreReal
  <1>10. ASSUME NEW e \in 1 .. Len(work), Handle(e)
         PROVE  ExpiriesAreReal'
    <2>1. PICK d : Step(e, d) /\ d.kind = work[e].kind /\ d.link = work[e].link
      BY <1>1, <1>10, SameEvent
    <2>2. Len(work') = Len(work) /\ \A j \in 1 .. Len(work) : work'[j] = IF j = e THEN d ELSE work[j]
      BY <1>1, <2>1 DEF Step
    <2>3. money' = money
      BY <1>10 DEF Handle, Find, ReadCount, WritePaid, ClearState, Claim, SendReceipt,
             SendReceiptRaises, WriteFailed, CountDecline, WriteExpired
    <2> QED  BY <2>1, <2>2, <2>3 DEF ExpiriesAreReal
  <1> QED  BY <1>4, <1>5, <1>6, <1>7, <1>8, <1>9, <1>10 DEF Next

\* Who writes something else on a paid row has read it before the payment, and
\* was told of a last decline or an expiry.
LEMMA TakenBack ==
  ASSUME LInv, Heard, Fresh, ExpiriesAreReal, Next,
         NEW i \in 1 .. Len(rows), rows[i].status = "paid", rows'[i].status # "paid"
  PROVE  /\ overtaken
         /\ declines + Repeats >= Limit \/ \E l \in 1 .. Len(money) : money[l] = "expired"
  <1>1. /\ TypeOK /\ Len(rows) \in Nat /\ rows \in Seq(Row) /\ Len(work) \in Nat
        /\ Limit \in Nat
    BY BoundsAreNaturals DEF LInv, TypeOK
  <1>2. rows' # rows /\ ~\E r : rows' = Append(rows, r)
    BY <1>1
  <1>3. ~(MintLink \/ MintRefused)
    BY <1>2 DEF MintLink, MintRefused
  <1>4. ASSUME NEW l, Pay(l) \/ Decline(l) \/ Expire(l) \/ Redeliver(l)
        PROVE  FALSE
    BY <1>2, <1>4 DEF Pay, Decline, Expire, Redeliver
  <1>5. PICK e \in 1 .. Len(work) : Handle(e)
    BY <1>3, <1>4 DEF Next
  <1>6. \A status \in {"paid", "failed", "expired"} :
          work[e].row # NoRow /\ SetStatus(work[e], status) => i = work[e].row /\ status # "paid"
    <2> TAKE status \in {"paid", "failed", "expired"}
    <2> HAVE work[e].row # NoRow /\ SetStatus(work[e], status)
    <2>1. work[e].row \in 1 .. Len(rows)
      BY <1>1, DeliveryFields DEF LInv, RowsAreOwned, NoRow
    <2> QED  BY <1>1, <2>1, StatusWritten
  <1>7. ~WritePaid(e)
    BY <1>2, <1>6 DEF WritePaid
  <1>8. WriteFailed(e) \/ WriteExpired(e)
    BY <1>2, <1>5, <1>7 DEF Handle, Find, ReadCount, ClearState, Claim, SendReceipt,
                            SendReceiptRaises, CountDecline
  <1>9. overtaken
    <2>1. Holds(work[e]) /\ work[e].read # "paid" /\ i = work[e].row
      BY <1>2, <1>6, <1>8 DEF WriteFailed, WriteExpired, Holds, Paid
    <2> QED  BY <2>1 DEF Fresh
  <1>10. CASE WriteFailed(e)
    <2>1. work[e].tally >= Limit /\ work[e].kind = "failed" /\ work[e].pc = "write"
      BY <1>2, <1>10 DEF WriteFailed, Escalates
    <2>2. /\ Counted \subseteq 1 .. Len(work) /\ e \notin Counted
          /\ Counted \cup {e} \subseteq Failed /\ Failed \subseteq 1 .. Len(work)
      BY <2>1 DEF Counted, Failed
    <2>3. Cardinality(Counted \cup {e}) = Cardinality(Counted) + 1
      BY <1>1, <2>2, OneMore
    <2>4. Cardinality(Counted) + 1 <= Cardinality(Failed)
      BY <1>1, <2>2, <2>3, NoFewer
    <2>5. Cardinality(Counted) \in Nat /\ Cardinality(Failed) \in Nat
      BY <1>1, <2>2, Size
    <2>6. work[e].tally \in Nat /\ work[e].tally <= Cardinality(Counted) + 1
      BY <1>1, DeliveryFields DEF LInv, CountIsEarned
    <2>7. Limit <= work[e].tally /\ work[e].tally <= Cardinality(Failed)
      BY <1>1, <2>1, <2>4, <2>5, <2>6
    <2> QED  BY <1>9, <2>6, <2>7, HeardEnough
  <1>11. CASE WriteExpired(e)
    BY <1>9, <1>11 DEF WriteExpired, ExpiriesAreReal
  <1> QED  BY <1>8, <1>10, <1>11

\* A recorded payment is taken back by no handler but one that had read the row
\* before it was recorded, and only on a thread that was given up.
THEOREM PaidIsTakenBackByOlderReads == Spec => TakenBackOnlyByAnOlderRead
  <1>1. Init => Fresh /\ ExpiriesAreReal
    BY DEF Init, Fresh, ExpiriesAreReal
  <1>2. LInv /\ Fresh /\ ExpiriesAreReal /\ [Next]_vars => (Fresh /\ ExpiriesAreReal)'
    <2>1. ASSUME LInv, Fresh, Next
          PROVE  Fresh'
      BY <2>1, FreshInWorld, FreshInHandlers DEF Next
    <2>2. CASE UNCHANGED vars
      BY <2>2 DEF vars, Fresh, ExpiriesAreReal
    <2> QED  BY <2>1, <2>2, ExpiriesStayReal
  <1>3. LInv /\ Heard /\ Fresh /\ ExpiriesAreReal /\ [Next]_vars =>
          [\A i \in 1 .. Len(rows) :
             rows[i].status = "paid" /\ rows'[i].status # "paid" =>
                /\ overtaken
                /\ declines + Repeats >= Limit
                     \/ \E l \in 1 .. Len(money) : money[l] = "expired"]_vars
    BY TakenBack
  <1> QED  BY <1>1, <1>2, <1>3, LedgerInvariance, HeardInvariance, PTL
           DEF Spec, TakenBackOnlyByAnOlderRead
=============================================================================

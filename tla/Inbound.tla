------------------------------- MODULE Inbound -------------------------------
(***************************************************************************)
(* From a webhook to the bubbles of a reply, for one customer.  The edge   *)
(* claims each message id and enqueues a task; a worker runs the tasks,    *)
(* one turn at a time; a turn sends its bubbles, each under a claim of its *)
(* own.  Handlers of one payload overlap when the provider delivers it     *)
(* again, and everything may break between a claim and what it was for.    *)
(*                                                                         *)
(* External: the provider delivers a payload until it has been answered    *)
(* with a 2xx, and accepts, refuses or times out on what it is sent.       *)
(***************************************************************************)
EXTENDS Naturals, Sequences

CONSTANTS
    Batches,       \* the payloads: sequences of ids of messages or events
    Events,        \* the ids that are Razorpay events, not messages
    Anonymous,     \* the events without an X-Razorpay-Event-Id
    Bubbles,       \* bound: bubbles in a reply
    SendAttempts,  \* _SEND_ATTEMPTS
    MaxDeliveries  \* bound: deliveries, of whatever payload

ASSUME BatchesAreBatches ==
    /\ Batches # <<>>
    /\ \A b \in DOMAIN Batches :
         Len(Batches[b]) \in Nat \ {0} /\ DOMAIN Batches[b] = 1 .. Len(Batches[b])
ASSUME IdsAreUnique ==
    \A b, c \in DOMAIN Batches : \A i \in DOMAIN Batches[b], j \in DOMAIN Batches[c] :
        Batches[b][i] = Batches[c][j] => b = c /\ i = j
ASSUME EventsAreAlone ==
    /\ Anonymous \subseteq Events
    /\ \A b \in DOMAIN Batches : \A i \in DOMAIN Batches[b] :
         Batches[b][i] \in Events => Len(Batches[b]) = 1
ASSUME BoundsAreNaturals ==
    Bubbles \in Nat /\ SendAttempts \in Nat \ {0} /\ MaxDeliveries \in Nat

Ids == UNION {{Batches[b][i] : i \in DOMAIN Batches[b]} : b \in DOMAIN Batches}
Messages == Ids \ Events
Identified == Ids \ Anonymous

VARIABLES
    hooks,      \* the webhook handlers and how far each is
    acked,      \* payloads the provider has a 2xx for
    claimed,    \* ids claimed at the edge (idem_in, idem_rzp)
    spilled,    \* ids claimed by a handler that broke before enqueuing them
    tasks,      \* the tasks, in the order they were enqueued
    sent,       \* bubbles claimed by a dispatch (idem_out)
    chat,       \* the bubbles the customer has, copies of the last one aside
    stuck       \* bubbles whose claim a failure has left behind

vars == <<hooks, acked, claimed, spilled, tasks, sent, chat, stuck>>

Hook == [batch : DOMAIN Batches, pos : Nat \ {0},
         pc : {"claim", "enqueue", "answer", "gone"}]
Task == [id : Ids, bubble : 1 .. Bubbles + 1, tries : 0 .. SendAttempts,
         pc : {"queued", "reply", "post", "giveBack", "over", "dropped"}]
Bubble == Messages \X (1 .. Bubbles)

\* The variables' types.
TypeOK ==
    /\ hooks \in Seq(Hook)
    /\ \A h \in DOMAIN hooks : hooks[h].pos <= Len(Batches[hooks[h].batch]) + 1
    /\ acked \subseteq DOMAIN Batches
    /\ claimed \subseteq Identified /\ spilled \subseteq Ids
    /\ tasks \in Seq(Task)
    /\ sent \subseteq Bubble /\ stuck \subseteq Bubble
    /\ chat \in Seq(Bubble)

Init ==
    /\ hooks = <<>> /\ acked = {} /\ claimed = {} /\ spilled = {}
    /\ tasks = <<>> /\ sent = {} /\ chat = <<>> /\ stuck = {}

edge == <<hooks, acked, claimed, spilled>>
worker == <<sent, chat, stuck>>

-----------------------------------------------------------------------------
(* The edge: one handler per delivery.                                     *)

\* External: a payload that has no 2xx yet is delivered (again).
Deliver(b) ==
    /\ b \notin acked /\ Len(hooks) < MaxDeliveries
    /\ hooks' = Append(hooks, [batch |-> b, pos |-> 1, pc |-> "claim"])
    /\ UNCHANGED <<acked, claimed, spilled, tasks, worker>>

Id(h) == Batches[hooks[h].batch][hooks[h].pos]
To(h, pc) == hooks' = [hooks EXCEPT ![h].pc = pc]

\* On to the payload's next message, or to the answer.
NextMessage(h) ==
    LET pos == hooks[h].pos + 1
        more == pos <= Len(Batches[hooks[h].batch])
    IN  hooks' = [hooks EXCEPT ![h].pos = pos,
                               ![h].pc = IF more THEN "claim" ELSE "answer"]

\* Mutant: the id is looked up now and claimed when the task has been pushed.
ClaimLate(h) ==
    /\ hooks[h].pc = "claim" /\ Id(h) \notin claimed
    /\ To(h, "enqueue")
    /\ UNCHANGED <<acked, claimed, spilled, tasks, worker>>

\* SET NX: this handler is the one that enqueues the message.
Claim(h) ==
    /\ hooks[h].pc = "claim" /\ Id(h) \notin claimed
    /\ claimed' = claimed \cup ({Id(h)} \ Anonymous)
    /\ To(h, "enqueue")
    /\ UNCHANGED <<acked, spilled, tasks, worker>>

\* Mutant: a duplicate answers the whole payload.
DuplicateReturns(h) ==
    /\ hooks[h].pc = "claim" /\ Id(h) \in claimed
    /\ To(h, "answer")
    /\ UNCHANGED <<acked, claimed, spilled, tasks, worker>>

\* "Duplicate webhook payload blocked at ingestion."
Duplicate(h) ==
    /\ hooks[h].pc = "claim" /\ Id(h) \in claimed
    /\ NextMessage(h)
    /\ UNCHANGED <<acked, claimed, spilled, tasks, worker>>

Queued(id) == [id |-> id, bubble |-> 1, tries |-> 0, pc |-> "queued"]

Enqueue(h) ==
    /\ hooks[h].pc = "enqueue"
    /\ tasks' = Append(tasks, Queued(Id(h)))
    /\ NextMessage(h)
    /\ UNCHANGED <<acked, claimed, spilled, worker>>

Leaves(h) == hooks' = [hooks EXCEPT ![h].pc = "gone", ![h].pos = 1]

\* Redis or the process fails: no 2xx, and the claim stays.
HookBreaks(h) ==
    /\ hooks[h].pc \in {"claim", "enqueue"}
    /\ spilled' = IF hooks[h].pc = "enqueue" THEN spilled \cup {Id(h)} ELSE spilled
    /\ Leaves(h)
    /\ UNCHANGED <<acked, claimed, tasks, worker>>

\* The task was pushed, but the handler did not learn it.
BreaksAfterPush(h) ==
    /\ hooks[h].pc = "enqueue"
    /\ tasks' = Append(tasks, Queued(Id(h)))
    /\ Leaves(h)
    /\ UNCHANGED <<acked, claimed, spilled, worker>>

\* 202, or 200 for a repeated event; the provider may not see it in time.
Answer(h) ==
    /\ hooks[h].pc = "answer"
    /\ acked' \in {acked, acked \cup {hooks[h].batch}}
    /\ Leaves(h)
    /\ UNCHANGED <<claimed, spilled, tasks, worker>>

-----------------------------------------------------------------------------
(* The worker.                                                             *)

InTurn(t) == tasks[t].pc \in {"reply", "post", "giveBack"}
Step(t, task) == tasks' = [tasks EXCEPT ![t] = task]
Goes(t, pc) == Step(t, [tasks[t] EXCEPT !.pc = pc])
Ends(t, pc) == Step(t, [tasks[t] EXCEPT !.pc = pc, !.bubble = 1, !.tries = 0])

\* A task gets wa_mutex (TurnMutex: one turn at a time).
BeginTurn(t) ==
    /\ tasks[t].pc = "queued" /\ tasks[t].id \in Messages
    /\ \A u \in DOMAIN tasks : ~InTurn(u)
    /\ Goes(t, "reply")
    /\ UNCHANGED <<edge, worker>>

\* 30 polls of a lock that another turn holds, or has left behind.
Drop(t) ==
    /\ tasks[t].pc = "queued" /\ tasks[t].id \in Messages
    /\ \E u \in DOMAIN tasks : InTurn(u) \/ (tasks[u].id \in Messages /\ tasks[u].pc = "over")
    /\ Ends(t, "dropped")
    /\ UNCHANGED <<edge, worker>>

\* An event takes no lock and makes no turn: its handler is in Settlement.
HandleEvent(t) ==
    /\ tasks[t].pc = "queued" /\ tasks[t].id \in Events
    /\ Ends(t, "over")
    /\ UNCHANGED <<edge, worker>>

\* The graph has no more bubbles for this turn, or had none at all; or it
\* raised: broker.py configures no retry middleware, so max_retries does not
\* bring a task back.
EndTurn(t) ==
    /\ tasks[t].pc = "reply"
    /\ Ends(t, "over")
    /\ UNCHANGED <<edge, worker>>

Key(t) == <<tasks[t].id, tasks[t].bubble>>
NextBubble(t) == [tasks[t] EXCEPT !.bubble = @ + 1, !.tries = 0, !.pc = "reply"]

\* dispatch_message: the bubble is claimed before it is sent.
ClaimBubble(t) ==
    /\ tasks[t].pc = "reply" /\ tasks[t].bubble <= Bubbles
    /\ sent' = sent \cup {Key(t)}
    /\ IF Key(t) \in sent THEN Step(t, NextBubble(t)) ELSE Goes(t, "post")
    /\ UNCHANGED <<edge, chat, stuck>>

\* A bubble reaches the customer; a copy of the last one is not a new one.
Arrive(bubble) ==
    chat' = IF chat # <<>> /\ chat[Len(chat)] = bubble THEN chat ELSE Append(chat, bubble)

PostAccepted(t) ==
    /\ tasks[t].pc = "post"
    /\ Arrive(Key(t))
    /\ Step(t, NextBubble(t))
    /\ UNCHANGED <<edge, sent, stuck>>

\* Mutant: the count starts over after the last attempt.
PostFailsForever(t) ==
    /\ tasks[t].pc = "post"
    /\ Arrive(Key(t)) \/ UNCHANGED chat
    /\ Step(t, [tasks[t] EXCEPT !.tries = (@ + 1) % SendAttempts])
    /\ UNCHANGED <<edge, sent, stuck>>

\* Mutant: a bubble that was given up is skipped, and the reply goes on.
PostFailsSoft(t) ==
    /\ tasks[t].pc = "post"
    /\ LET n == tasks[t].tries + 1 IN
         Step(t, IF n = SendAttempts THEN NextBubble(t) ELSE [tasks[t] EXCEPT !.tries = n])
    /\ UNCHANGED <<edge, worker>>

\* A timeout, a reset, a 429 or a 5xx: tried again, up to SendAttempts times.
\* A read timeout may come after Meta has taken the message.
PostFails(t) ==
    /\ tasks[t].pc = "post"
    /\ Arrive(Key(t)) \/ UNCHANGED chat
    /\ LET n == tasks[t].tries + 1 IN
         Step(t, [tasks[t] EXCEPT !.tries = n,
                                  !.pc = IF n = SendAttempts THEN "giveBack" ELSE "post"])
    /\ UNCHANGED <<edge, sent, stuck>>

\* Mutant: the exception of the last attempt passes the claim by.
PostRefusedMutant(t) ==
    /\ tasks[t].pc = "post"
    /\ Ends(t, "over")
    /\ UNCHANGED <<edge, worker>>

\* Any other status is raised at once.
PostRefused(t) ==
    /\ tasks[t].pc = "post"
    /\ Goes(t, "giveBack")
    /\ UNCHANGED <<edge, worker>>

\* release_idempotency, then the exception ends the task.
GiveBack(t) ==
    /\ tasks[t].pc = "giveBack"
    /\ sent' = sent \ {Key(t)}
    /\ Ends(t, "over")
    /\ UNCHANGED <<edge, chat, stuck>>

\* The release is best-effort: a Redis failure is only logged.
GiveBackFails(t) ==
    /\ tasks[t].pc = "giveBack"
    /\ stuck' = stuck \cup {Key(t)}
    /\ Ends(t, "over")
    /\ UNCHANGED <<edge, sent, chat>>

\* The worker dies with the task: a popped task is in no list any more.
Crash(t) ==
    /\ tasks[t].pc = "queued" \/ InTurn(t)
    /\ stuck' = IF tasks[t].pc \in {"post", "giveBack"} THEN stuck \cup {Key(t)} ELSE stuck
    /\ Ends(t, IF InTurn(t) THEN "over" ELSE "dropped")
    /\ UNCHANGED <<edge, sent, chat>>

Handler(h) ==
    \/ Claim(h) \/ Duplicate(h) \/ Enqueue(h) \/ Answer(h)
    \/ HookBreaks(h) \/ BreaksAfterPush(h)

Worker(t) ==
    \/ BeginTurn(t) \/ Drop(t) \/ HandleEvent(t)
    \/ EndTurn(t)
    \/ ClaimBubble(t) \/ PostAccepted(t) \/ PostFails(t) \/ PostRefused(t)
    \/ GiveBack(t) \/ GiveBackFails(t)

Next ==
    \/ \E b \in DOMAIN Batches : Deliver(b)
    \/ \E h \in DOMAIN hooks : Handler(h)
    \/ \E t \in DOMAIN tasks : Worker(t) \/ Crash(t)

Spec == Init /\ [][Next]_vars

Longest == CHOOSE n \in {Len(Batches[b]) : b \in DOMAIN Batches} :
    \A b \in DOMAIN Batches : Len(Batches[b]) <= n

\* Every await of a handler or a task returns or raises; polling ends.
FairSpec ==
    /\ Spec
    /\ \A h \in 1 .. MaxDeliveries : WF_vars(h \in DOMAIN hooks /\ Handler(h))
    /\ \A t \in 1 .. MaxDeliveries * Longest : WF_vars(t \in DOMAIN tasks /\ Worker(t))

-----------------------------------------------------------------------------
(* Properties.                                                             *)

\* An id is enqueued once, however often and in whatever overlap its payload is
\* delivered; only an event without an id may be processed again.
EnqueuedOnce ==
    \A t, u \in DOMAIN tasks : tasks[t].id = tasks[u].id /\ t # u => tasks[t].id \in Anonymous

\* A 2xx ends the redeliveries, so it must not cover a message that nobody has
\* in hand: each one is queued, about to be by the handler that claimed it, or
\* that handler broke.
AnsweredIsAccountedFor ==
    \A b \in acked : \A i \in DOMAIN Batches[b] :
        \/ \E t \in DOMAIN tasks : tasks[t].id = Batches[b][i]
        \/ \E h \in DOMAIN hooks : hooks[h].pc = "enqueue" /\ Id(h) = Batches[b][i]
        \/ Batches[b][i] \in spilled

\* A claim that is kept is a bubble the customer has, one being sent, or one
\* that a dead worker or a failing Redis left behind.
KeptClaimWasSent ==
    \A bubble \in sent \ stuck :
        \/ \E i \in DOMAIN chat : chat[i] = bubble
        \/ \E t \in DOMAIN tasks : Key(t) = bubble /\ tasks[t].pc \in {"post", "giveBack"}

\* Replies arrive whole and in order, whatever fails: the chat is an abstract one.
Replies == INSTANCE Chat
Reads == Replies!Spec

\* A message whose payload was answered comes to an end: its turn is over, it
\* was dropped behind another turn, or its claim was spilled.
AnsweredIsHandled ==
    \A b \in DOMAIN Batches : \A i \in DOMAIN Batches[b] :
        b \in acked ~>
            \/ Batches[b][i] \in spilled
            \/ \E t \in DOMAIN tasks : tasks[t].id = Batches[b][i]
                  /\ tasks[t].pc \in {"over", "dropped"}
=============================================================================

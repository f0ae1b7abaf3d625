---------------------------- MODULE InboundProofs ----------------------------
(***************************************************************************)
(* Proofs about Inbound, for any payloads, any number of deliveries in any *)
(* overlap, any number of bubbles and attempts, and failures anywhere.     *)
(***************************************************************************)
EXTENDS Inbound, SequenceTheorems, TLAPS

Hooks == DOMAIN hooks
Tasks == DOMAIN tasks

\* A handler at a message is inside its payload; one that answers is past it.
HooksInside ==
    \A h \in Hooks :
        /\ hooks[h].pc \in {"claim", "enqueue"} => hooks[h].pos <= Len(Batches[hooks[h].batch])
        /\ hooks[h].pc = "answer" => hooks[h].pos > Len(Batches[hooks[h].batch])

\* A turn is a message's; what is posted is a bubble with an attempt left.
TasksInside ==
    \A t \in Tasks :
        /\ InTurn(t) => tasks[t].id \in Messages
        /\ tasks[t].pc = "queued" => tasks[t].bubble = 1
        /\ tasks[t].pc \in {"queued", "reply"} => tasks[t].tries = 0
        /\ tasks[t].pc \in {"post", "giveBack"} => tasks[t].bubble <= Bubbles
        /\ tasks[t].pc = "post" => tasks[t].tries < SendAttempts

\* TurnMutex: one turn at a time.
OneTurn == \A t, u \in Tasks : InTurn(t) /\ InTurn(u) => t = u

Base == TypeOK /\ HooksInside /\ TasksInside /\ OneTurn

-----------------------------------------------------------------------------
(* What the steps do to the two lists.                                     *)

LEMMA IdsAreIds ==
  ASSUME NEW b \in DOMAIN Batches, NEW i \in DOMAIN Batches[b]
  PROVE  Batches[b][i] \in Ids
  BY DEF Ids

LEMMA MessagesAreIdentified == Messages \subseteq Identified /\ Identified \subseteq Ids
  BY EventsAreAlone DEF Messages, Identified

\* A handler at a message has an id.
LEMMA HookHasId ==
  ASSUME Base, NEW h \in Hooks, hooks[h].pc \in {"claim", "enqueue"}
  PROVE  Id(h) \in Ids /\ hooks[h].pos \in DOMAIN Batches[hooks[h].batch]
                       /\ hooks[h].batch \in DOMAIN Batches
  <1>1. hooks[h] \in Hook
    BY ElementOfSeq DEF Base, TypeOK, Hooks
  <1>2. /\ hooks[h].batch \in DOMAIN Batches /\ hooks[h].pos \in Nat \ {0}
        /\ hooks[h].pos <= Len(Batches[hooks[h].batch])
    BY <1>1 DEF Base, HooksInside, Hook
  <1>3. hooks[h].pos \in DOMAIN Batches[hooks[h].batch]
    BY <1>2, BatchesAreBatches
  <1> QED  BY <1>2, <1>3, IdsAreIds DEF Id

\* One task is written, the others stay.
LEMMA OneTaskWritten ==
  ASSUME tasks \in Seq(Task), NEW t \in Tasks, NEW d \in Task, Step(t, d)
  PROVE  /\ tasks' \in Seq(Task) /\ Tasks' = Tasks
         /\ \A u \in Tasks : tasks'[u] = IF u = t THEN d ELSE tasks[u]
  <1>1. Tasks = 1 .. Len(tasks) /\ Len(tasks) \in Nat
    BY DEF Tasks
  <1>2. /\ tasks' \in Seq(Task) /\ Len(tasks') = Len(tasks)
        /\ \A u \in 1 .. Len(tasks) : tasks'[u] = IF u = t THEN d ELSE tasks[u]
    BY <1>1, ExceptSeq DEF Step
  <1> QED  BY <1>1, <1>2 DEF Tasks

\* One task is added at the end.
LEMMA OneTaskPushed ==
  ASSUME tasks \in Seq(Task), NEW d \in Task, tasks' = Append(tasks, d)
  PROVE  /\ tasks' \in Seq(Task)
         /\ \E n : n \notin Tasks /\ Tasks' = Tasks \cup {n} /\ tasks'[n] = d
         /\ \A u \in Tasks : tasks'[u] = tasks[u]
  <1>1. Tasks = 1 .. Len(tasks) /\ Len(tasks) \in Nat
    BY DEF Tasks
  <1>2. /\ tasks' \in Seq(Task) /\ Len(tasks') = Len(tasks) + 1
        /\ \A i \in 1 .. Len(tasks) : tasks'[i] = tasks[i]
        /\ tasks'[Len(tasks) + 1] = d
    BY AppendProperties
  <1>3. Tasks' = Tasks \cup {Len(tasks) + 1} /\ Len(tasks) + 1 \notin Tasks
    BY <1>1, <1>2 DEF Tasks
  <1> QED  BY <1>1, <1>2, <1>3

\* The same for the handlers.
LEMMA OneHookWritten ==
  ASSUME hooks \in Seq(Hook), NEW h \in Hooks, NEW d \in Hook, hooks' = [hooks EXCEPT ![h] = d]
  PROVE  /\ hooks' \in Seq(Hook) /\ Hooks' = Hooks
         /\ \A u \in Hooks : hooks'[u] = IF u = h THEN d ELSE hooks[u]
  <1>1. Hooks = 1 .. Len(hooks) /\ Len(hooks) \in Nat
    BY DEF Hooks
  <1>2. /\ hooks' \in Seq(Hook) /\ Len(hooks') = Len(hooks)
        /\ \A u \in 1 .. Len(hooks) : hooks'[u] = IF u = h THEN d ELSE hooks[u]
    BY <1>1, ExceptSeq
  <1> QED  BY <1>1, <1>2 DEF Hooks

LEMMA OneHookPushed ==
  ASSUME hooks \in Seq(Hook), NEW d \in Hook, hooks' = Append(hooks, d)
  PROVE  /\ hooks' \in Seq(Hook)
         /\ \E n : n \notin Hooks /\ Hooks' = Hooks \cup {n} /\ hooks'[n] = d
         /\ \A u \in Hooks : hooks'[u] = hooks[u]
  <1>1. Hooks = 1 .. Len(hooks) /\ Len(hooks) \in Nat
    BY DEF Hooks
  <1>2. /\ hooks' \in Seq(Hook) /\ Len(hooks') = Len(hooks) + 1
        /\ \A i \in 1 .. Len(hooks) : hooks'[i] = hooks[i]
        /\ hooks'[Len(hooks) + 1] = d
    BY AppendProperties
  <1>3. Hooks' = Hooks \cup {Len(hooks) + 1} /\ Len(hooks) + 1 \notin Hooks
    BY <1>1, <1>2 DEF Hooks
  <1> QED  BY <1>1, <1>2, <1>3

-----------------------------------------------------------------------------
(* What a step of the worker does to the task at hand, which becomes d.    *)

Begins(t, d) ==
    /\ tasks[t].pc = "queued" /\ tasks[t].id \in Messages
    /\ \A u \in Tasks : ~InTurn(u)
    /\ d.pc = "reply" /\ d.bubble = 1 /\ d.tries = 0
    /\ UNCHANGED worker

Stops(t, d) ==
    /\ d.pc \in {"over", "dropped"} /\ chat' = chat
    /\ \/ tasks[t].pc \notin {"post", "giveBack"} /\ UNCHANGED <<sent, stuck>>
       \/ tasks[t].pc = "giveBack" /\ sent' = sent \ {Key(t)} /\ stuck' = stuck
       \/ tasks[t].pc \in {"post", "giveBack"} /\ sent' = sent /\ stuck' = stuck \cup {Key(t)}

Claims(t, d) ==
    /\ tasks[t].pc = "reply" /\ tasks[t].bubble <= Bubbles /\ Key(t) \notin sent
    /\ d.pc = "post" /\ d.bubble = tasks[t].bubble /\ d.tries = 0
    /\ sent' = sent \cup {Key(t)} /\ UNCHANGED <<chat, stuck>>

Skips(t, d) ==
    /\ tasks[t].pc = "reply" /\ tasks[t].bubble <= Bubbles /\ Key(t) \in sent
    /\ d.pc = "reply" /\ d.bubble = tasks[t].bubble + 1 /\ d.tries = 0
    /\ UNCHANGED worker

Posts(t, d) ==
    /\ tasks[t].pc = "post" /\ Arrive(Key(t))
    /\ d.pc = "reply" /\ d.bubble = tasks[t].bubble + 1 /\ d.tries = 0
    /\ UNCHANGED <<sent, stuck>>

Fails(t, d) ==
    /\ tasks[t].pc = "post" /\ (Arrive(Key(t)) \/ UNCHANGED chat)
    /\ d.pc \in {"post", "giveBack"} /\ d.bubble = tasks[t].bubble
    /\ d.pc = "post" => d.tries < SendAttempts
    /\ UNCHANGED <<sent, stuck>>

Works(t, d) ==
    \/ Begins(t, d) \/ Stops(t, d) \/ Claims(t, d)
    \/ Skips(t, d) \/ Posts(t, d) \/ Fails(t, d)

LEMMA Ended ==
  ASSUME Base, NEW t \in Tasks, NEW pc \in {"over", "dropped"}, Ends(t, pc)
  PROVE  \E d \in Task : Step(t, d) /\ d.id = tasks[t].id /\ d.pc = pc
  <1>1. tasks[t] \in Task
    BY ElementOfSeq DEF Base, TypeOK, Tasks
  <1>2. /\ \E b \in 1 .. Bubbles + 1 : b = 1
        /\ \E n \in 0 .. SendAttempts : n = 0
    BY BoundsAreNaturals
  <1>3. PICK b \in 1 .. Bubbles + 1 : b = 1
    BY <1>2
  <1>4. PICK n \in 0 .. SendAttempts : n = 0
    BY <1>2
  <1> DEFINE d == [tasks[t] EXCEPT !.pc = pc, !.bubble = b, !.tries = n]
  <1>5. d \in Task /\ d.id = tasks[t].id /\ d.pc = pc
    BY <1>1 DEF Task
  <1>6. Step(t, d)
    BY <1>3, <1>4 DEF Ends
  <1> QED  BY <1>5, <1>6

LEMMA WorkerWorks ==
  ASSUME Base, NEW t \in Tasks, Worker(t) \/ Crash(t)
  PROVE  /\ UNCHANGED edge
         /\ \E d \in Task : Step(t, d) /\ d.id = tasks[t].id /\ Works(t, d)
  <1> DEFINE T == tasks[t]
  <1>1. T \in Task
    BY ElementOfSeq DEF Base, TypeOK, Tasks
  <1>2. /\ T.bubble \in 1 .. Bubbles + 1 /\ T.tries \in 0 .. SendAttempts
        /\ Bubbles \in Nat /\ SendAttempts \in Nat /\ SendAttempts # 0
    BY <1>1, BoundsAreNaturals DEF Task
  <1>3. CASE BeginTurn(t)
    <2> DEFINE d == [T EXCEPT !.pc = "reply"]
    <2>1. d \in Task /\ d.id = T.id /\ d.pc = "reply" /\ d.bubble = T.bubble /\ d.tries = T.tries
      BY <1>1 DEF Task
    <2>2. T.bubble = 1 /\ T.tries = 0
      BY <1>3 DEF BeginTurn, Base, TasksInside
    <2>3. Step(t, d) /\ UNCHANGED edge
      BY <1>3 DEF BeginTurn, Goes
    <2>4. Begins(t, d)
      BY <1>3, <2>1, <2>2 DEF BeginTurn, Begins, Tasks
    <2> QED  BY <2>1, <2>3, <2>4 DEF Works
  <1>4. CASE Drop(t) \/ HandleEvent(t) \/ EndTurn(t)
    <2>1. PICK pc \in {"over", "dropped"} : Ends(t, pc)
      BY <1>4 DEF Drop, HandleEvent, EndTurn
    <2>2. PICK d \in Task : Step(t, d) /\ d.id = T.id /\ d.pc = pc
      BY <2>1, Ended
    <2>3. UNCHANGED edge /\ Stops(t, d)
      BY <1>4, <2>2 DEF Drop, HandleEvent, EndTurn, Stops, worker
    <2> QED  BY <2>2, <2>3 DEF Works
  <1>5. CASE GiveBack(t) \/ GiveBackFails(t)
    <2>1. PICK d \in Task : Step(t, d) /\ d.id = T.id /\ d.pc = "over"
      BY <1>5, Ended DEF GiveBack, GiveBackFails
    <2>2. UNCHANGED edge /\ Stops(t, d)
      BY <1>5, <2>1 DEF GiveBack, GiveBackFails, Stops
    <2> QED  BY <2>1, <2>2 DEF Works
  <1>6. CASE Crash(t)
    <2>1. PICK pc \in {"over", "dropped"} : Ends(t, pc)
      BY <1>6 DEF Crash
    <2>2. PICK d \in Task : Step(t, d) /\ d.id = T.id /\ d.pc = pc
      BY <2>1, Ended
    <2>3. UNCHANGED edge /\ Stops(t, d)
      BY <1>6, <2>2 DEF Crash, Stops
    <2> QED  BY <2>2, <2>3 DEF Works
  <1>7. CASE PostRefused(t)
    <2> DEFINE d == [T EXCEPT !.pc = "giveBack"]
    <2>1. d \in Task /\ d.id = T.id /\ d.pc = "giveBack" /\ d.bubble = T.bubble
      BY <1>1 DEF Task
    <2>2. Step(t, d) /\ UNCHANGED edge
      BY <1>7 DEF PostRefused, Goes
    <2>3. Fails(t, d)
      BY <1>7, <2>1 DEF PostRefused, Fails, worker
    <2> QED  BY <2>1, <2>2, <2>3 DEF Works
  <1>8. CASE PostFails(t)
    <2> DEFINE n == T.tries + 1
               pc == IF n = SendAttempts THEN "giveBack" ELSE "post"
               d == [T EXCEPT !.tries = n, !.pc = pc]
    <2>1. T.tries < SendAttempts
      BY <1>8 DEF PostFails, Base, TasksInside
    <2>2. n \in 0 .. SendAttempts /\ pc \in {"post", "giveBack"}
      BY <1>2, <2>1
    <2>3. Step(t, d) /\ UNCHANGED edge
      BY <1>8 DEF PostFails
    <2>4. pc = "post" => n < SendAttempts
      BY <1>2, <2>1
    <2>5. d \in Task /\ d.id = T.id /\ d.pc = pc /\ d.bubble = T.bubble /\ d.tries = n
      <3> HIDE DEF n, pc
      <3> QED  BY <1>1, <2>2 DEF Task
    <2>6. Fails(t, d)
      <3> HIDE DEF d, pc, n
      <3> QED  BY <1>8, <2>2, <2>4, <2>5 DEF PostFails, Fails
    <2> QED  BY <2>3, <2>5, <2>6 DEF Works
  <1>9. ASSUME T.pc \in {"reply", "post"}, T.bubble <= Bubbles
        PROVE  /\ NextBubble(t) \in Task /\ NextBubble(t).id = T.id
               /\ NextBubble(t).pc = "reply" /\ NextBubble(t).tries = 0
               /\ NextBubble(t).bubble = T.bubble + 1
    <2>1. PICK b \in 1 .. Bubbles + 1 : b = T.bubble + 1
      BY <1>2, <1>9
    <2>2. PICK n \in 0 .. SendAttempts : n = 0
      BY <1>2
    <2>3. NextBubble(t) = [T EXCEPT !.bubble = b, !.tries = n, !.pc = "reply"]
      BY <2>1, <2>2 DEF NextBubble
    <2> QED  BY <1>1, <2>1, <2>2, <2>3 DEF Task
  <1>10. CASE PostAccepted(t)
    <2>1. T.bubble <= Bubbles
      BY <1>10 DEF PostAccepted, Base, TasksInside
    <2>2. Step(t, NextBubble(t)) /\ UNCHANGED edge /\ T.pc = "post"
      BY <1>10 DEF PostAccepted
    <2>3. Posts(t, NextBubble(t))
      BY <1>9, <1>10, <2>1 DEF PostAccepted, Posts
    <2> QED  BY <1>9, <2>1, <2>2, <2>3 DEF Works
  <1>11. CASE ClaimBubble(t) /\ Key(t) \in sent
    <2>1. Step(t, NextBubble(t)) /\ UNCHANGED edge /\ T.pc = "reply" /\ T.bubble <= Bubbles
      BY <1>11 DEF ClaimBubble
    <2>2. sent' = sent /\ UNCHANGED worker
      BY <1>11 DEF ClaimBubble, worker
    <2>3. Skips(t, NextBubble(t))
      BY <1>9, <1>11, <2>1, <2>2 DEF Skips
    <2> QED  BY <1>9, <2>1, <2>3 DEF Works
  <1>12. CASE ClaimBubble(t) /\ Key(t) \notin sent
    <2> DEFINE d == [T EXCEPT !.pc = "post"]
    <2>1. d \in Task /\ d.id = T.id /\ d.pc = "post" /\ d.bubble = T.bubble /\ d.tries = T.tries
      BY <1>1 DEF Task
    <2>2. Step(t, d) /\ UNCHANGED edge /\ T.tries = 0
      BY <1>12 DEF ClaimBubble, Goes, Base, TasksInside
    <2>3. Claims(t, d)
      <3> HIDE DEF d
      <3> QED  BY <1>12, <2>1, <2>2 DEF ClaimBubble, Claims
    <2> QED  BY <2>1, <2>2, <2>3 DEF Works
  <1> QED  BY <1>3, <1>4, <1>5, <1>6, <1>7, <1>8, <1>10, <1>11, <1>12 DEF Worker

-----------------------------------------------------------------------------
(* What a step of a handler does to it: it becomes d.                      *)

Advances(h, d) ==
    /\ d.pos = hooks[h].pos + 1
    /\ d.pc = "claim" => d.pos <= Len(Batches[d.batch])
    /\ d.pc = "answer" => d.pos > Len(Batches[d.batch])
    /\ d.pc \in {"claim", "answer"}

Takes(h, d) ==
    /\ hooks[h].pc = "claim" /\ Id(h) \notin claimed
    /\ claimed' = claimed \cup ({Id(h)} \ Anonymous)
    /\ d.pc = "enqueue" /\ d.pos = hooks[h].pos
    /\ UNCHANGED <<acked, spilled, tasks>>

Passes(h, d) ==
    /\ hooks[h].pc = "claim" /\ Id(h) \in claimed
    /\ Advances(h, d)
    /\ UNCHANGED <<acked, claimed, spilled, tasks>>

Pushes(h, d) ==
    /\ hooks[h].pc = "enqueue"
    /\ tasks' = Append(tasks, Queued(Id(h)))
    /\ Advances(h, d) \/ (d.pc = "gone" /\ d.pos = 1)
    /\ UNCHANGED <<acked, claimed, spilled>>

Breaks(h, d) ==
    /\ hooks[h].pc \in {"claim", "enqueue"}
    /\ d.pc = "gone" /\ d.pos = 1
    /\ spilled' = IF hooks[h].pc = "enqueue" THEN spilled \cup {Id(h)} ELSE spilled
    /\ UNCHANGED <<acked, claimed, tasks>>

Answers(h, d) ==
    /\ hooks[h].pc = "answer"
    /\ d.pc = "gone" /\ d.pos = 1
    /\ acked' \in {acked, acked \cup {hooks[h].batch}}
    /\ UNCHANGED <<claimed, spilled, tasks>>

Handles(h, d) ==
    Takes(h, d) \/ Passes(h, d) \/ Pushes(h, d) \/ Breaks(h, d) \/ Answers(h, d)

LEMMA HandlerHandles ==
  ASSUME Base, NEW h \in Hooks, Handler(h)
  PROVE  /\ UNCHANGED worker
         /\ \E d \in Hook : /\ hooks' = [hooks EXCEPT ![h] = d]
                            /\ d.batch = hooks[h].batch /\ Handles(h, d)
  <1> DEFINE H == hooks[h]
             L == Len(Batches[H.batch])
  <1>1. H \in Hook
    BY ElementOfSeq DEF Base, TypeOK, Hooks
  <1>2. H.batch \in DOMAIN Batches /\ H.pos \in Nat \ {0} /\ L \in Nat \ {0}
    BY <1>1, BatchesAreBatches DEF Hook
  <1>3. ASSUME NextMessage(h)
        PROVE  \E d \in Hook : /\ hooks' = [hooks EXCEPT ![h] = d]
                               /\ d.batch = H.batch /\ Advances(h, d)
    <2> DEFINE pos == H.pos + 1
               pc == IF pos <= L THEN "claim" ELSE "answer"
               d == [H EXCEPT !.pos = pos, !.pc = pc]
    <2>1. pos \in Nat \ {0} /\ pc \in {"claim", "answer"}
      BY <1>2
    <2>2. (pc = "claim" => pos <= L) /\ (pc = "answer" => pos > L)
      BY <1>2
    <2>3. hooks' = [hooks EXCEPT ![h] = d]
      BY <1>3 DEF NextMessage
    <2>4. d \in Hook /\ d.batch = H.batch /\ d.pos = pos /\ d.pc = pc
      <3> HIDE DEF pos, pc
      <3> QED  BY <1>1, <2>1 DEF Hook
    <2>5. Advances(h, d)
      <3> HIDE DEF d, pc
      <3> QED  BY <2>1, <2>2, <2>4 DEF Advances
    <2> QED  BY <2>3, <2>4, <2>5
  <1>4. ASSUME Leaves(h)
        PROVE  \E d \in Hook : /\ hooks' = [hooks EXCEPT ![h] = d]
                               /\ d.batch = H.batch /\ d.pc = "gone" /\ d.pos = 1
    <2>1. PICK n \in Nat \ {0} : n = 1
      OBVIOUS
    <2> DEFINE d == [H EXCEPT !.pc = "gone", !.pos = n]
    <2>2. d \in Hook /\ d.batch = H.batch /\ d.pc = "gone" /\ d.pos = n
      BY <1>1 DEF Hook
    <2>3. hooks' = [hooks EXCEPT ![h] = d]
      BY <1>4, <2>1 DEF Leaves
    <2> QED  BY <2>1, <2>2, <2>3
  <1>5. CASE Claim(h)
    <2> DEFINE d == [H EXCEPT !.pc = "enqueue"]
    <2>1. d \in Hook /\ d.batch = H.batch /\ d.pos = H.pos /\ d.pc = "enqueue"
      BY <1>1 DEF Hook
    <2>2. hooks' = [hooks EXCEPT ![h] = d]
      BY <1>5 DEF Claim, To
    <2>3. Takes(h, d) /\ UNCHANGED worker
      <3> HIDE DEF d
      <3> QED  BY <1>5, <2>1 DEF Claim, Takes
    <2> QED  BY <2>1, <2>2, <2>3 DEF Handles
  <1>6. CASE Duplicate(h)
    BY <1>3, <1>6 DEF Duplicate, Handles, Passes
  <1>7. CASE Enqueue(h)
    BY <1>3, <1>7 DEF Enqueue, Handles, Pushes
  <1>8. CASE BreaksAfterPush(h)
    BY <1>4, <1>8 DEF BreaksAfterPush, Handles, Pushes
  <1>9. CASE HookBreaks(h)
    BY <1>4, <1>9 DEF HookBreaks, Handles, Breaks
  <1>10. CASE Answer(h)
    BY <1>4, <1>10 DEF Answer, Handles, Answers
  <1> QED  BY <1>5, <1>6, <1>7, <1>8, <1>9, <1>10 DEF Handler

\* A new delivery is a handler at the payload's first message.
LEMMA Delivered ==
  ASSUME Base, NEW b \in DOMAIN Batches, Deliver(b)
  PROVE  /\ UNCHANGED <<acked, claimed, spilled, tasks, sent, chat, stuck>>
         /\ \E d \in Hook : /\ hooks' = Append(hooks, d)
                            /\ d.batch = b /\ d.pos = 1 /\ d.pc = "claim"
  <1>1. PICK n \in Nat \ {0} : n = 1
    OBVIOUS
  <1> DEFINE d == [batch |-> b, pos |-> n, pc |-> "claim"]
  <1>2. d \in Hook /\ d.batch = b /\ d.pos = n /\ d.pc = "claim"
    BY DEF Hook
  <1>3. hooks' = Append(hooks, d)
    BY <1>1 DEF Deliver
  <1> QED  BY <1>1, <1>2, <1>3 DEF Deliver, worker

-----------------------------------------------------------------------------
(* Types, and where the handlers and the tasks are.                        *)

LEMMA QueuedIsTask ==
  ASSUME NEW id \in Ids
  PROVE  Queued(id) \in Task /\ Queued(id).id = id /\ Queued(id).pc = "queued"
         /\ Queued(id).bubble = 1 /\ Queued(id).tries = 0
  <1>1. PICK b \in 1 .. Bubbles + 1 : b = 1
    BY BoundsAreNaturals
  <1>2. PICK n \in 0 .. SendAttempts : n = 0
    BY BoundsAreNaturals
  <1>3. Queued(id) = [id |-> id, bubble |-> b, tries |-> n, pc |-> "queued"]
    BY <1>1, <1>2 DEF Queued
  <1>4. [id |-> id, bubble |-> b, tries |-> n, pc |-> "queued"] \in Task
    BY DEF Task
  <1> QED  BY <1>1, <1>2, <1>3, <1>4

LEMMA TaskFields ==
  ASSUME NEW d \in Task
  PROVE  d.id \in Ids /\ d.bubble \in 1 .. Bubbles + 1 /\ d.bubble \in Nat
         /\ d.tries \in 0 .. SendAttempts
  BY BoundsAreNaturals DEF Task

\* The bubbles a task claims and posts.
LEMMA KeyIsBubble ==
  ASSUME Base, NEW t \in Tasks, InTurn(t), tasks[t].bubble <= Bubbles
  PROVE  Key(t) \in Bubble
  <1>1. tasks[t] \in Task
    BY ElementOfSeq DEF Base, TypeOK, Tasks
  <1>2. tasks[t].id \in Messages /\ tasks[t].bubble \in 1 .. Bubbles
    BY <1>1, TaskFields, BoundsAreNaturals DEF Base, TasksInside
  <1> QED  BY <1>2 DEF Key, Bubble

\* What arrives is in the chat, and nothing leaves it.
LEMMA Arrived ==
  ASSUME chat \in Seq(Bubble), NEW k \in Bubble, Arrive(k)
  PROVE  /\ chat' \in Seq(Bubble)
         /\ \E i \in DOMAIN chat' : chat'[i] = k
         /\ \A i \in DOMAIN chat : i \in DOMAIN chat' /\ chat'[i] = chat[i]
         /\ \A i \in DOMAIN chat' : chat'[i] = k \/ (i \in DOMAIN chat /\ chat'[i] = chat[i])
         /\ chat' # <<>> /\ chat'[Len(chat')] = k
  <1>1. CASE chat # <<>> /\ chat[Len(chat)] = k
    <2>1. chat' = chat
      BY <1>1 DEF Arrive
    <2>2. Len(chat) \in DOMAIN chat
      BY <1>1, EmptySeq
    <2> QED  BY <1>1, <2>1, <2>2
  <1>2. CASE ~(chat # <<>> /\ chat[Len(chat)] = k)
    <2>1. chat' = Append(chat, k)
      BY <1>2 DEF Arrive
    <2>2. /\ chat' \in Seq(Bubble) /\ Len(chat') = Len(chat) + 1 /\ Len(chat) \in Nat
          /\ \A i \in 1 .. Len(chat) : chat'[i] = chat[i]
          /\ chat'[Len(chat) + 1] = k
      BY <2>1, AppendProperties
    <2>3. DOMAIN chat = 1 .. Len(chat) /\ DOMAIN chat' = 1 .. Len(chat) + 1
      BY <2>2
    <2>4. Len(chat) + 1 \in 1 .. Len(chat) + 1 /\ chat' # <<>>
      BY <2>2
    <2> QED  BY <2>2, <2>3, <2>4
  <1> QED  BY <1>1, <1>2

LEMMA BaseInit == Init => Base
  <1> SUFFICES ASSUME Init PROVE Base
    OBVIOUS
  <1>1. TypeOK
    BY DEF Init, TypeOK
  <1>2. Hooks = {} /\ Tasks = {}
    BY DEF Init, Hooks, Tasks
  <1> QED  BY <1>1, <1>2 DEF Base, HooksInside, TasksInside, OneTurn

LEMMA BaseDeliver ==
  ASSUME Base, NEW b \in DOMAIN Batches, Deliver(b)
  PROVE  Base'
  <1>1. PICK d \in Hook : hooks' = Append(hooks, d) /\ d.batch = b /\ d.pos = 1 /\ d.pc = "claim"
    BY Delivered
  <1>2. UNCHANGED <<acked, claimed, spilled, tasks, sent, chat, stuck>>
    BY Delivered
  <1>3. hooks \in Seq(Hook)
    BY DEF Base, TypeOK
  <1>4. /\ hooks' \in Seq(Hook)
        /\ \A u \in Hooks : hooks'[u] = hooks[u]
    BY <1>1, <1>3, OneHookPushed
  <1>5. PICK n : n \notin Hooks /\ Hooks' = Hooks \cup {n} /\ hooks'[n] = d
    BY <1>1, <1>3, OneHookPushed
  <1>6. Len(Batches[b]) \in Nat \ {0}
    BY BatchesAreBatches
  <1>7. d.pos <= Len(Batches[d.batch]) + 1 /\ d.pos <= Len(Batches[d.batch])
    BY <1>1, <1>6
  <1>8. TypeOK'
    BY <1>2, <1>4, <1>5, <1>7 DEF Base, TypeOK, Hooks, Tasks
  <1>9. HooksInside'
    BY <1>1, <1>4, <1>5, <1>7 DEF Base, HooksInside
  <1>10. (TasksInside /\ OneTurn)'
    BY <1>2 DEF Base, TasksInside, OneTurn, Tasks, InTurn
  <1> QED  BY <1>8, <1>9, <1>10 DEF Base

LEMMA BaseHandler ==
  ASSUME Base, NEW h \in Hooks, Handler(h)
  PROVE  Base'
  <1>1. PICK d \in Hook : /\ hooks' = [hooks EXCEPT ![h] = d]
                          /\ d.batch = hooks[h].batch /\ Handles(h, d)
    BY HandlerHandles
  <1>2. UNCHANGED <<sent, chat, stuck>>
    BY HandlerHandles DEF worker
  <1>3. /\ hooks' \in Seq(Hook) /\ Hooks' = Hooks
        /\ \A u \in Hooks : hooks'[u] = IF u = h THEN d ELSE hooks[u]
    BY <1>1, OneHookWritten DEF Base, TypeOK
  <1>4. hooks[h] \in Hook
    BY ElementOfSeq DEF Base, TypeOK, Hooks
  <1>5. /\ d.batch \in DOMAIN Batches /\ d.pos \in Nat \ {0} /\ hooks[h].pos \in Nat \ {0}
        /\ Len(Batches[d.batch]) \in Nat \ {0}
    BY <1>1, <1>4, BatchesAreBatches DEF Hook
  <1>6. hooks[h].pc \in {"claim", "enqueue"} => hooks[h].pos <= Len(Batches[d.batch])
    BY <1>1 DEF Base, HooksInside
  <1>7. /\ d.pos <= Len(Batches[d.batch]) + 1
        /\ d.pc \in {"claim", "enqueue"} => d.pos <= Len(Batches[d.batch])
        /\ d.pc = "answer" => d.pos > Len(Batches[d.batch])
    <2>1. CASE Takes(h, d)
      BY <1>5, <1>6, <2>1 DEF Takes
    <2>2. CASE Advances(h, d) /\ hooks[h].pc \in {"claim", "enqueue"}
      BY <1>5, <1>6, <2>2 DEF Advances
    <2>3. CASE d.pc = "gone" /\ d.pos = 1
      BY <1>5, <2>3
    <2> QED  BY <1>1, <2>1, <2>2, <2>3 DEF Handles, Passes, Pushes, Breaks, Answers
  <1>8. hooks[h].pc \in {"claim", "enqueue"} => Id(h) \in Ids
    BY HookHasId
  <1>9. /\ acked' \subseteq DOMAIN Batches
        /\ claimed' \subseteq Identified /\ spilled' \subseteq Ids
    BY <1>1, <1>5, <1>8 DEF Handles, Takes, Passes, Pushes, Breaks, Answers, Base, TypeOK, Identified
  <1>10. CASE tasks' = tasks
    <2>1. (TasksInside /\ OneTurn)' /\ tasks' \in Seq(Task)
      BY <1>10 DEF Base, TypeOK, TasksInside, OneTurn, Tasks, InTurn
    <2>2. TypeOK'
      BY <1>2, <1>3, <1>7, <1>9, <2>1 DEF Base, TypeOK, Hooks
    <2>3. HooksInside'
      BY <1>3, <1>7 DEF Base, HooksInside
    <2> QED  BY <2>1, <2>2, <2>3 DEF Base
  <1>11. CASE Pushes(h, d)
    <2> DEFINE e == Queued(Id(h))
    <2>1. e \in Task /\ e.pc = "queued" /\ e.bubble = 1 /\ e.tries = 0
      BY <1>8, <1>11, QueuedIsTask DEF Pushes
    <2>2. tasks' = Append(tasks, e) /\ tasks \in Seq(Task)
      BY <1>11 DEF Pushes, Base, TypeOK
    <2> HIDE DEF e
    <2>3. tasks' \in Seq(Task) /\ \A u \in Tasks : tasks'[u] = tasks[u]
      BY <2>1, <2>2, OneTaskPushed
    <2>4. PICK n : n \notin Tasks /\ Tasks' = Tasks \cup {n} /\ tasks'[n] = e
      BY <2>1, <2>2, OneTaskPushed
    <2>5. TypeOK'
      BY <1>2, <1>3, <1>7, <1>9, <2>3 DEF Base, TypeOK, Hooks
    <2>6. HooksInside'
      BY <1>3, <1>7 DEF Base, HooksInside
    <2>7. TasksInside'
      BY <2>1, <2>3, <2>4 DEF Base, TasksInside, InTurn
    <2>8. OneTurn'
      BY <2>1, <2>3, <2>4 DEF Base, OneTurn, InTurn
    <2> QED  BY <2>5, <2>6, <2>7, <2>8 DEF Base
  <1> QED  BY <1>1, <1>10, <1>11 DEF Handles, Takes, Passes, Breaks, Answers

LEMMA BaseWorker ==
  ASSUME Base, NEW t \in Tasks, Worker(t) \/ Crash(t)
  PROVE  Base'
  <1>1. PICK d \in Task : Step(t, d) /\ d.id = tasks[t].id /\ Works(t, d)
    BY WorkerWorks
  <1>2. UNCHANGED edge
    BY WorkerWorks
  <1>3. /\ tasks' \in Seq(Task) /\ Tasks' = Tasks
        /\ \A u \in Tasks : tasks'[u] = IF u = t THEN d ELSE tasks[u]
    BY <1>1, OneTaskWritten DEF Base, TypeOK
  <1>4. tasks[t] \in Task
    BY ElementOfSeq DEF Base, TypeOK, Tasks
  <1>5. InTurn(t) => tasks[t].id \in Messages
    BY DEF Base, TasksInside
  <1>6. /\ d.pc \in {"reply", "post", "giveBack"} => d.id \in Messages
        /\ d.pc = "queued" => d.bubble = 1
        /\ d.pc \in {"queued", "reply"} => d.tries = 0
        /\ d.pc \in {"post", "giveBack"} => d.bubble <= Bubbles
        /\ d.pc = "post" => d.tries < SendAttempts
    <2>1. CASE Begins(t, d)
      BY <1>1, <2>1 DEF Begins
    <2>2. CASE Stops(t, d)
      BY <2>2 DEF Stops
    <2>3. CASE Claims(t, d)
      BY <1>1, <1>5, <2>3, BoundsAreNaturals DEF Claims, InTurn
    <2>4. CASE Skips(t, d) \/ Posts(t, d)
      BY <1>1, <1>5, <2>4 DEF Skips, Posts, InTurn
    <2>5. CASE Fails(t, d)
      BY <1>1, <1>5, <2>5 DEF Fails, InTurn, Base, TasksInside
    <2> QED  BY <1>1, <2>1, <2>2, <2>3, <2>4, <2>5 DEF Works
  <1>7. TasksInside'
    <2>1. InTurn(t)' => d.pc \in {"reply", "post", "giveBack"}
      BY <1>3 DEF InTurn
    <2>2. \A u \in Tasks : u # t => (InTurn(u)' <=> InTurn(u))
      BY <1>3 DEF InTurn
    <2> QED  BY <1>3, <1>6, <2>1, <2>2 DEF Base, TasksInside
  <1>8. OneTurn'
    <2>1. \A u \in Tasks : u # t => (InTurn(u)' <=> InTurn(u))
      BY <1>3 DEF InTurn
    <2>2. InTurn(t)' => InTurn(t) \/ (\A u \in Tasks : ~InTurn(u))
      BY <1>1, <1>3 DEF InTurn, Works, Begins, Stops, Claims, Skips, Posts, Fails
    <2> QED  BY <1>3, <2>1, <2>2 DEF Base, OneTurn
  <1>9. /\ sent' \subseteq Bubble /\ stuck' \subseteq Bubble /\ chat' \in Seq(Bubble)
    <2>1. tasks[t].pc \in {"post", "giveBack"} => Key(t) \in Bubble
      BY KeyIsBubble DEF InTurn, Base, TasksInside
    <2>2. tasks[t].pc = "reply" /\ tasks[t].bubble <= Bubbles => Key(t) \in Bubble
      BY KeyIsBubble DEF InTurn
    <2>3. tasks[t].pc = "post" /\ Arrive(Key(t)) => chat' \in Seq(Bubble)
      BY <2>1, Arrived DEF Base, TypeOK
    <2> QED  BY <1>1, <2>1, <2>2, <2>3
             DEF Works, Begins, Stops, Claims, Skips, Posts, Fails, worker, Base, TypeOK
  <1>10. TypeOK'
    BY <1>2, <1>3, <1>9 DEF Base, TypeOK, edge
  <1>11. HooksInside'
    BY <1>2 DEF Base, HooksInside, Hooks, edge
  <1> QED  BY <1>7, <1>8, <1>10, <1>11 DEF Base

LEMMA BaseStutter == Base /\ UNCHANGED vars => Base'
  BY DEF Base, TypeOK, HooksInside, TasksInside, OneTurn, Hooks, Tasks, InTurn, vars

LEMMA BaseNext == Base /\ [Next]_vars => Base'
  BY BaseDeliver, BaseHandler, BaseWorker, BaseStutter DEF Next, Hooks, Tasks

\* Whatever is delivered, fails or overlaps, the variables keep their types and
\* one turn at a time is in progress.
THEOREM InboundTypes == Spec => []Base
  BY BaseInit, BaseNext, PTL DEF Spec

-----------------------------------------------------------------------------
(* An id is enqueued once.                                                 *)

Enqueuing(h) == hooks[h].pc = "enqueue" /\ Id(h) \in Identified

\* The claim is what makes it so: whoever enqueues an id holds its claim, before
\* there is a task with the id, and is alone with it.
ClaimComesFirst ==
    /\ \A t \in Tasks : tasks[t].id \in Identified => tasks[t].id \in claimed
    /\ \A h \in Hooks : Enqueuing(h) =>
         Id(h) \in claimed /\ \A t \in Tasks : tasks[t].id # Id(h)

OneEnqueuesIt == \A g, h \in Hooks : Enqueuing(g) /\ Enqueuing(h) /\ Id(g) = Id(h) => g = h

EInv == ClaimComesFirst /\ OneEnqueuesIt /\ EnqueuedOnce

LEMMA EInvInit == Init => EInv
  <1>1. Init => Hooks = {} /\ Tasks = {}
    BY DEF Init, Hooks, Tasks
  <1> QED  BY <1>1 DEF EInv, ClaimComesFirst, OneEnqueuesIt, EnqueuedOnce, Tasks

\* A handler that did not move is where it was.
LEMMA IdStays ==
  ASSUME NEW h, hooks'[h] = hooks[h]
  PROVE  Id(h)' = Id(h) /\ (Enqueuing(h)' <=> Enqueuing(h))
  BY DEF Id, Enqueuing

LEMMA EInvDeliver ==
  ASSUME Base, EInv, NEW b \in DOMAIN Batches, Deliver(b)
  PROVE  EInv'
  <1>1. PICK d \in Hook : hooks' = Append(hooks, d) /\ d.pc = "claim"
    BY Delivered
  <1>2. UNCHANGED <<claimed, tasks>>
    BY Delivered
  <1>3. \A u \in Hooks : hooks'[u] = hooks[u]
    BY <1>1, OneHookPushed DEF Base, TypeOK
  <1>4. PICK n : n \notin Hooks /\ Hooks' = Hooks \cup {n} /\ hooks'[n] = d
    BY <1>1, OneHookPushed DEF Base, TypeOK
  <1>5. ~Enqueuing(n)'
    BY <1>1, <1>4 DEF Enqueuing
  <1>6. \A u \in Hooks : Id(u)' = Id(u) /\ (Enqueuing(u)' <=> Enqueuing(u))
    BY <1>3, IdStays
  <1>7. ClaimComesFirst'
    BY <1>2, <1>4, <1>5, <1>6 DEF EInv, ClaimComesFirst, Tasks
  <1>8. OneEnqueuesIt'
    BY <1>4, <1>5, <1>6 DEF EInv, OneEnqueuesIt
  <1>9. EnqueuedOnce'
    BY <1>2 DEF EInv, EnqueuedOnce
  <1> QED  BY <1>7, <1>8, <1>9 DEF EInv

LEMMA EInvHandler ==
  ASSUME Base, EInv, NEW h \in Hooks, Handler(h)
  PROVE  EInv'
  <1>1. PICK d \in Hook : /\ hooks' = [hooks EXCEPT ![h] = d]
                          /\ d.batch = hooks[h].batch /\ Handles(h, d)
    BY HandlerHandles
  <1>2. /\ Hooks' = Hooks
        /\ \A u \in Hooks : hooks'[u] = IF u = h THEN d ELSE hooks[u]
    BY <1>1, OneHookWritten DEF Base, TypeOK
  <1>3. \A u \in Hooks : u # h => Id(u)' = Id(u) /\ (Enqueuing(u)' <=> Enqueuing(u))
    BY <1>2, IdStays
  <1>4. CASE Takes(h, d)
    <2>1. Id(h)' = Id(h) /\ tasks' = tasks /\ Id(h) \notin claimed
      BY <1>1, <1>2, <1>4 DEF Takes, Id
    <2>2. Id(h) \in Ids
      BY <1>4, HookHasId DEF Takes
    <2>3. claimed \subseteq claimed' /\ (Id(h) \in Identified => Id(h) \in claimed')
      BY <1>4, <2>2 DEF Takes, Identified
    <2>4. \A t \in Tasks : Id(h) \in Identified => tasks[t].id # Id(h)
      BY <2>1 DEF EInv, ClaimComesFirst
    <2>5. Enqueuing(h)' => Id(h) \in Identified
      BY <2>1 DEF Enqueuing
    <2>6. ClaimComesFirst'
      BY <1>2, <1>3, <2>1, <2>3, <2>4, <2>5 DEF EInv, ClaimComesFirst, Tasks
    <2>7. \A u \in Hooks : u # h /\ Enqueuing(u) => Id(u) # Id(h)
      BY <2>1 DEF EInv, ClaimComesFirst
    <2>8. OneEnqueuesIt'
      BY <1>2, <1>3, <2>1, <2>7 DEF EInv, OneEnqueuesIt
    <2>9. EnqueuedOnce'
      BY <2>1 DEF EInv, EnqueuedOnce
    <2> QED  BY <2>6, <2>8, <2>9 DEF EInv
  <1>5. CASE Passes(h, d) \/ Breaks(h, d) \/ Answers(h, d)
    <2>1. UNCHANGED <<tasks, claimed>> /\ d.pc # "enqueue"
      BY <1>5 DEF Passes, Advances, Breaks, Answers
    <2>2. ~Enqueuing(h)'
      BY <1>2, <2>1 DEF Enqueuing
    <2>3. ClaimComesFirst'
      BY <1>2, <1>3, <2>1, <2>2 DEF EInv, ClaimComesFirst, Tasks
    <2>4. OneEnqueuesIt'
      BY <1>2, <1>3, <2>2 DEF EInv, OneEnqueuesIt
    <2>5. EnqueuedOnce'
      BY <2>1 DEF EInv, EnqueuedOnce
    <2> QED  BY <2>3, <2>4, <2>5 DEF EInv
  <1>6. CASE Pushes(h, d)
    <2> DEFINE e == Queued(Id(h))
    <2>1. Id(h) \in Ids /\ e \in Task /\ e.id = Id(h)
      BY <1>6, HookHasId, QueuedIsTask DEF Pushes
    <2>2. tasks' = Append(tasks, e) /\ claimed' = claimed /\ d.pc # "enqueue"
      BY <1>6 DEF Pushes, Advances
    <2> HIDE DEF e
    <2>3. \A u \in Tasks : tasks'[u] = tasks[u]
      BY <2>1, <2>2, OneTaskPushed DEF Base, TypeOK
    <2>4. PICK n : n \notin Tasks /\ Tasks' = Tasks \cup {n} /\ tasks'[n] = e
      BY <2>1, <2>2, OneTaskPushed DEF Base, TypeOK
    <2>5. ~Enqueuing(h)'
      BY <1>2, <2>2 DEF Enqueuing
    <2>6. Id(h) \in Identified => Enqueuing(h)
      BY <1>6 DEF Pushes, Enqueuing
    <2>7. \A u \in Hooks : u # h /\ Enqueuing(u) => Id(u) # Id(h)
      BY <2>6 DEF EInv, OneEnqueuesIt, Enqueuing
    <2>8. ClaimComesFirst'
      <3>1. \A t \in Tasks' : tasks'[t].id \in Identified => tasks'[t].id \in claimed'
        BY <2>1, <2>2, <2>3, <2>4, <2>6 DEF EInv, ClaimComesFirst
      <3>2. ASSUME NEW u \in Hooks, u # h, Enqueuing(u)
            PROVE  Id(u) \in claimed' /\ \A t \in Tasks' : tasks'[t].id # Id(u)
        BY <2>1, <2>2, <2>3, <2>4, <2>7, <3>2 DEF EInv, ClaimComesFirst
      <3> QED  BY <1>2, <1>3, <2>5, <3>1, <3>2 DEF ClaimComesFirst
    <2>9. OneEnqueuesIt'
      BY <1>2, <1>3, <2>5 DEF EInv, OneEnqueuesIt
    <2>10. \A t \in Tasks : tasks[t].id = Id(h) => Id(h) \in Anonymous
      BY <2>1, <2>6 DEF EInv, ClaimComesFirst, Identified
    <2>11. EnqueuedOnce'
      BY <2>1, <2>3, <2>4, <2>10 DEF EInv, EnqueuedOnce, Tasks
    <2> QED  BY <2>8, <2>9, <2>11 DEF EInv
  <1> QED  BY <1>1, <1>4, <1>5, <1>6 DEF Handles

LEMMA EInvWorker ==
  ASSUME Base, EInv, NEW t \in Tasks, Worker(t) \/ Crash(t)
  PROVE  EInv'
  <1>1. PICK d \in Task : Step(t, d) /\ d.id = tasks[t].id
    BY WorkerWorks
  <1>2. UNCHANGED edge
    BY WorkerWorks
  <1>3. /\ Tasks' = Tasks
        /\ \A u \in Tasks : tasks'[u].id = tasks[u].id
    BY <1>1, OneTaskWritten DEF Base, TypeOK
  <1>4. /\ Hooks' = Hooks /\ claimed' = claimed
        /\ \A u \in Hooks : Id(u)' = Id(u) /\ (Enqueuing(u)' <=> Enqueuing(u))
    BY <1>2, IdStays DEF edge, Hooks
  <1>5. ClaimComesFirst' /\ OneEnqueuesIt'
    BY <1>3, <1>4 DEF EInv, ClaimComesFirst, OneEnqueuesIt
  <1>6. EnqueuedOnce'
    BY <1>3 DEF EInv, EnqueuedOnce, Tasks
  <1> QED  BY <1>5, <1>6 DEF EInv

LEMMA EInvStutter == EInv /\ UNCHANGED vars => EInv'
  BY DEF EInv, ClaimComesFirst, OneEnqueuesIt, EnqueuedOnce, Hooks, Tasks, Enqueuing, Id, vars

LEMMA EInvNext == Base /\ EInv /\ [Next]_vars => EInv'
  BY EInvDeliver, EInvHandler, EInvWorker, EInvStutter DEF Next, Hooks, Tasks

\* However often, and in whatever overlap, a payload is delivered, and whatever
\* breaks, an id that can be told from others is enqueued once.
THEOREM NeverEnqueuedTwice == Spec => []EnqueuedOnce
  <1>1. EInv => EnqueuedOnce
    BY DEF EInv
  <1> QED  BY InboundTypes, EInvInit, EInvNext, <1>1, PTL DEF Spec

-----------------------------------------------------------------------------
(* A 2xx leaves no message in nobody's hands.                              *)

AccountedFor(id) ==
    \/ \E t \in Tasks : tasks[t].id = id
    \/ \E h \in Hooks : hooks[h].pc = "enqueue" /\ Id(h) = id
    \/ id \in spilled

\* What a handler has put behind it is accounted for, and so is every claim: a
\* duplicate is passed over on the strength of the other handler's claim.
Behind(h) ==
    \A i \in DOMAIN Batches[hooks[h].batch] :
        hooks[h].pc # "gone" /\ i < hooks[h].pos => AccountedFor(Batches[hooks[h].batch][i])

AInv ==
    /\ \A id \in claimed : AccountedFor(id)
    /\ \A h \in Hooks : Behind(h)
    /\ \A b \in acked : \A i \in DOMAIN Batches[b] : AccountedFor(Batches[b][i])

LEMMA AInvInit == Init => AInv
  BY DEF Init, AInv, Hooks

\* A step that forgets no id keeps what was put behind a handler that stays.
LEMMA BehindStays ==
  ASSUME NEW h, hooks'[h] = hooks[h], Behind(h),
         \A id : AccountedFor(id) => AccountedFor(id)'
  PROVE  Behind(h)'
  BY DEF Behind

LEMMA AInvDeliver ==
  ASSUME Base, AInv, NEW b \in DOMAIN Batches, Deliver(b)
  PROVE  AInv'
  <1>1. PICK d \in Hook : /\ hooks' = Append(hooks, d)
                          /\ d.batch = b /\ d.pos = 1 /\ d.pc = "claim"
    BY Delivered
  <1>2. UNCHANGED <<acked, claimed, spilled, tasks>>
    BY Delivered
  <1>3. \A u \in Hooks : hooks'[u] = hooks[u]
    BY <1>1, OneHookPushed DEF Base, TypeOK
  <1>4. PICK n : n \notin Hooks /\ Hooks' = Hooks \cup {n} /\ hooks'[n] = d
    BY <1>1, OneHookPushed DEF Base, TypeOK
  <1>5. \A u \in Hooks : Id(u)' = Id(u)
    BY <1>3, IdStays
  <1>6. \A id : AccountedFor(id) => AccountedFor(id)'
    BY <1>2, <1>3, <1>4, <1>5 DEF AccountedFor, Tasks
  <1>7. DOMAIN Batches[b] = 1 .. Len(Batches[b]) /\ Len(Batches[b]) \in Nat
    BY BatchesAreBatches
  <1>8. Behind(n)'
    BY <1>1, <1>4, <1>7 DEF Behind
  <1>9. \A h \in Hooks' : Behind(h)'
    BY <1>3, <1>4, <1>6, <1>8, BehindStays DEF AInv
  <1> QED  BY <1>2, <1>6, <1>9 DEF AInv

LEMMA AInvHandler ==
  ASSUME Base, AInv, NEW h \in Hooks, Handler(h)
  PROVE  AInv'
  <1>1. PICK d \in Hook : /\ hooks' = [hooks EXCEPT ![h] = d]
                          /\ d.batch = hooks[h].batch /\ Handles(h, d)
    BY HandlerHandles
  <1>2. /\ Hooks' = Hooks
        /\ \A u \in Hooks : hooks'[u] = IF u = h THEN d ELSE hooks[u]
    BY <1>1, OneHookWritten DEF Base, TypeOK
  <1>3. \A u \in Hooks : u # h => hooks'[u] = hooks[u] /\ Id(u)' = Id(u)
    BY <1>2, IdStays
  <1>4. hooks[h] \in Hook
    BY ElementOfSeq DEF Base, TypeOK, Hooks
  <1>5. /\ hooks[h].batch \in DOMAIN Batches /\ hooks[h].pos \in Nat \ {0}
        /\ DOMAIN Batches[hooks[h].batch] = 1 .. Len(Batches[hooks[h].batch])
        /\ Len(Batches[hooks[h].batch]) \in Nat
    BY <1>4, BatchesAreBatches DEF Hook
  <1>6. PICK b : b = hooks[h].batch
    OBVIOUS
  <1>7. PICK j : j = Id(h)
    OBVIOUS
  <1>8. hooks[h].pc = "enqueue" => AccountedFor(j)'
    <2>1. CASE Pushes(h, d)
      <3>1. PICK e : e = Queued(j)
        OBVIOUS
      <3>2. e \in Task /\ e.id = j /\ tasks' = Append(tasks, e)
        BY <1>7, <2>1, <3>1, HookHasId, QueuedIsTask DEF Pushes
      <3>3. \E n \in Tasks' : tasks'[n] = e
        BY <3>2, OneTaskPushed DEF Base, TypeOK
      <3> QED  BY <3>2, <3>3 DEF AccountedFor
    <2>2. CASE Breaks(h, d)
      BY <1>7, <2>2 DEF Breaks, AccountedFor
    <2> QED  BY <1>1, <2>1, <2>2 DEF Handles, Takes, Passes, Answers
  <1>9. /\ \A t \in Tasks : t \in Tasks' /\ tasks'[t] = tasks[t]
        /\ spilled \subseteq spilled'
    <2>1. CASE Pushes(h, d)
      <3> DEFINE e == Queued(Id(h))
      <3>1. e \in Task /\ tasks' = Append(tasks, e) /\ spilled' = spilled
        BY <2>1, HookHasId, QueuedIsTask DEF Pushes
      <3> HIDE DEF e
      <3> QED  BY <3>1, OneTaskPushed DEF Base, TypeOK
    <2>2. CASE tasks' = tasks
      BY <1>1, <2>2 DEF Tasks, Handles, Takes, Passes, Pushes, Breaks, Answers
    <2> QED  BY <1>1, <2>1, <2>2 DEF Handles, Takes, Passes, Breaks, Answers
  <1>10. ASSUME NEW id, AccountedFor(id) PROVE AccountedFor(id)'
    <2>1. CASE (\E t \in Tasks : tasks[t].id = id) \/ id \in spilled
      BY <1>9, <2>1 DEF AccountedFor
    <2>2. CASE \E u \in Hooks : u # h /\ hooks[u].pc = "enqueue" /\ Id(u) = id
      BY <1>2, <1>3, <2>2 DEF AccountedFor
    <2>3. CASE hooks[h].pc = "enqueue" /\ j = id
      BY <1>8, <2>3
    <2> QED  BY <1>10, <1>7, <2>1, <2>2, <2>3 DEF AccountedFor
  <1>11. \A id \in claimed' : AccountedFor(id)'
    <2>1. CASE Takes(h, d)
      <3>1. Id(h)' = j
        BY <1>1, <1>2, <1>7, <2>1 DEF Takes, Id
      <3>2. AccountedFor(j)'
        BY <1>2, <2>1, <3>1 DEF Takes, AccountedFor
      <3>3. \A id \in claimed' : id \in claimed \/ id = j
        BY <1>7, <2>1 DEF Takes
      <3> QED  BY <1>10, <3>2, <3>3 DEF AInv
    <2>2. CASE claimed' = claimed
      BY <1>10, <2>2 DEF AInv
    <2> QED  BY <1>1, <2>1, <2>2 DEF Handles, Passes, Pushes, Breaks, Answers
  <1>12. Behind(h)'
    <2> DEFINE B == Batches[b]
    <2>1. \A i \in DOMAIN B : hooks[h].pc # "gone" /\ i < hooks[h].pos => AccountedFor(B[i])'
      BY <1>10, <1>6 DEF AInv, Behind
    <2>2. CASE Takes(h, d)
      BY <1>1, <1>2, <1>6, <2>1, <2>2 DEF Takes, Behind
    <2>3. CASE (Passes(h, d) \/ Pushes(h, d)) /\ Advances(h, d)
      <3>1. AccountedFor(j)'
        BY <1>8, <1>10, <1>7, <2>3 DEF Passes, Pushes, AInv
      <3>2. j = B[hooks[h].pos] /\ d.pos = hooks[h].pos + 1 /\ hooks[h].pc # "gone"
        BY <1>6, <1>7, <2>3 DEF Id, Advances, Passes, Pushes
      <3>3. \A i \in DOMAIN B : i < d.pos => i < hooks[h].pos \/ i = hooks[h].pos
        BY <1>5, <1>6, <3>2
      <3>4. \A i \in DOMAIN B : i < d.pos => AccountedFor(B[i])'
        BY <2>1, <3>1, <3>2, <3>3
      <3> QED  BY <1>1, <1>2, <1>6, <3>4 DEF Behind
    <2>4. CASE d.pc = "gone"
      BY <1>2, <2>4 DEF Behind
    <2> QED  BY <1>1, <2>2, <2>3, <2>4 DEF Handles, Passes, Pushes, Breaks, Answers
  <1>13. \A u \in Hooks' : Behind(u)'
    BY <1>2, <1>3, <1>10, <1>12, BehindStays DEF AInv
  <1>14. \A c \in acked' : \A i \in DOMAIN Batches[c] : AccountedFor(Batches[c][i])'
    <2>1. CASE Answers(h, d)
      <3>1. hooks[h].pos > Len(Batches[hooks[h].batch]) /\ hooks[h].pc = "answer"
        BY <2>1 DEF Answers, Base, HooksInside
      <3>2. \A i \in DOMAIN Batches[hooks[h].batch] : AccountedFor(Batches[hooks[h].batch][i])
        BY <1>5, <3>1 DEF AInv, Behind
      <3>3. \A c \in acked' : c \in acked \/ c = hooks[h].batch
        BY <2>1 DEF Answers
      <3> QED  BY <1>10, <3>2, <3>3 DEF AInv
    <2>2. CASE acked' = acked
      BY <1>10, <2>2 DEF AInv
    <2> QED  BY <1>1, <2>1, <2>2 DEF Handles, Takes, Passes, Pushes, Breaks
  <1> QED  BY <1>11, <1>13, <1>14 DEF AInv

LEMMA AInvWorker ==
  ASSUME Base, AInv, NEW t \in Tasks, Worker(t) \/ Crash(t)
  PROVE  AInv'
  <1>1. PICK d \in Task : Step(t, d) /\ d.id = tasks[t].id
    BY WorkerWorks
  <1>2. UNCHANGED edge
    BY WorkerWorks
  <1>3. Tasks' = Tasks /\ \A u \in Tasks : tasks'[u].id = tasks[u].id
    BY <1>1, OneTaskWritten DEF Base, TypeOK
  <1>4. \A id : AccountedFor(id) => AccountedFor(id)'
    BY <1>2, <1>3 DEF AccountedFor, Hooks, Id, edge
  <1> QED  BY <1>2, <1>4 DEF AInv, Behind, Hooks, edge

LEMMA AInvStutter == AInv /\ UNCHANGED vars => AInv'
  BY DEF AInv, Behind, AccountedFor, Hooks, Tasks, Id, vars

LEMMA AInvNext == Base /\ AInv /\ [Next]_vars => AInv'
  BY AInvDeliver, AInvHandler, AInvWorker, AInvStutter DEF Next, Hooks, Tasks

\* Once a payload has its 2xx, each of its messages has a task, a handler about to
\* enqueue it, or a broken handler that held its claim.
THEOREM NoneForgotten == Spec => []AnsweredIsAccountedFor
  <1>1. AInv => AnsweredIsAccountedFor
    BY DEF AInv, AccountedFor, AnsweredIsAccountedFor, Hooks, Tasks
  <1> QED  BY InboundTypes, AInvInit, AInvNext, <1>1, PTL DEF Spec

-----------------------------------------------------------------------------
(* A claim on a bubble that is kept is a bubble that was sent.             *)

LEMMA KeptInit == Init => KeptClaimWasSent
  BY DEF Init, KeptClaimWasSent

LEMMA KeptWorker ==
  ASSUME Base, KeptClaimWasSent, NEW t \in Tasks, Worker(t) \/ Crash(t)
  PROVE  KeptClaimWasSent'
  <1>1. PICK d \in Task : Step(t, d) /\ d.id = tasks[t].id /\ Works(t, d)
    BY WorkerWorks
  <1>2. /\ Tasks' = Tasks
        /\ \A u \in Tasks : tasks'[u] = IF u = t THEN d ELSE tasks[u]
    BY <1>1, OneTaskWritten DEF Base, TypeOK
  <1> DEFINE InChat(k) == \E i \in DOMAIN chat : chat[i] = k
             InHand(k) == \E u \in Tasks : Key(u) = k /\ tasks[u].pc \in {"post", "giveBack"}
  <1>3. ASSUME NEW k, InChat(k) PROVE InChat(k)'
    <2>1. tasks[t].pc = "post" => Key(t) \in Bubble
      BY KeyIsBubble DEF InTurn, Base, TasksInside
    <2>2. CASE tasks[t].pc = "post" /\ Arrive(Key(t))
      BY <1>3, <2>1, <2>2, Arrived DEF Base, TypeOK
    <2>3. CASE chat' = chat
      BY <1>3, <2>3
    <2> QED  BY <1>1, <2>2, <2>3 DEF Works, Begins, Stops, Claims, Skips, Posts, Fails, worker
  <1>4. \A u \in Tasks : u # t => Key(u)' = Key(u) /\ tasks'[u] = tasks[u]
    BY <1>2 DEF Key
  <1>5. ASSUME NEW k, InHand(k), k # Key(t) PROVE InHand(k)'
    BY <1>2, <1>4, <1>5
  <1>6. ASSUME NEW k \in sent' \ stuck' PROVE InChat(k)' \/ InHand(k)'
    <2>1. k # Key(t) => k \in sent \ stuck
      BY <1>1, <1>6 DEF Works, Begins, Stops, Claims, Skips, Posts, Fails, worker
    <2>2. CASE k # Key(t)
      BY <1>3, <1>5, <2>1, <2>2 DEF KeptClaimWasSent, Tasks
    <2>3. CASE k = Key(t) /\ d.pc \in {"post", "giveBack"} /\ d.bubble = tasks[t].bubble
      <3>1. Key(t)' = Key(t)
        BY <1>1, <1>2, <2>3 DEF Key
      <3> QED  BY <1>2, <2>3, <3>1
    <2>4. CASE k = Key(t) /\ Posts(t, d)
      <3>1. Key(t) \in Bubble
        BY <2>4, KeyIsBubble DEF Posts, InTurn, Base, TasksInside
      <3> QED  BY <2>4, <3>1, Arrived DEF Posts, Base, TypeOK
    <2>5. CASE k = Key(t) /\ tasks[t].pc \notin {"post", "giveBack"} /\ UNCHANGED worker
      <3>1. \A u \in Tasks : tasks[u].pc \in {"post", "giveBack"} /\ u # t =>
                u \in Tasks' /\ tasks'[u] = tasks[u] /\ Key(u)' = Key(u)
        BY <1>2, <1>4
      <3>2. k \in sent \ stuck /\ chat' = chat
        BY <1>6, <2>5 DEF worker
      <3> QED  BY <2>5, <3>1, <3>2 DEF KeptClaimWasSent, Tasks
    <2>6. CASE k = Key(t) /\ Stops(t, d) /\ tasks[t].pc \in {"post", "giveBack"}
      BY <1>6, <2>6 DEF Stops
    <2> QED  BY <1>1, <2>2, <2>3, <2>4, <2>5, <2>6
             DEF Works, Begins, Stops, Claims, Skips, Fails, worker
  <1> QED  BY <1>6 DEF KeptClaimWasSent, Tasks

LEMMA KeptNext == Base /\ KeptClaimWasSent /\ [Next]_vars => KeptClaimWasSent'
  <1> SUFFICES ASSUME Base, KeptClaimWasSent, [Next]_vars PROVE KeptClaimWasSent'
    OBVIOUS
  <1>1. CASE \E t \in Tasks : Worker(t) \/ Crash(t)
    BY <1>1, KeptWorker
  <1>2. CASE UNCHANGED <<sent, stuck, chat, tasks>>
    BY <1>2 DEF KeptClaimWasSent, Key
  <1>3. ASSUME NEW h \in Hooks, Handler(h) PROVE KeptClaimWasSent'
    <2>1. PICK d \in Hook : d.batch = hooks[h].batch /\ Handles(h, d)
      BY <1>3, HandlerHandles
    <2>2. UNCHANGED <<sent, stuck, chat>>
      BY <1>3, HandlerHandles DEF worker
    <2>3. \A t \in Tasks : t \in Tasks' /\ tasks'[t] = tasks[t]
      <3>1. CASE Pushes(h, d)
        <4> DEFINE e == Queued(Id(h))
        <4>1. e \in Task /\ tasks' = Append(tasks, e)
          BY <3>1, HookHasId, QueuedIsTask DEF Pushes
        <4> HIDE DEF e
        <4> QED  BY <4>1, OneTaskPushed DEF Base, TypeOK
      <3>2. CASE tasks' = tasks
        BY <3>2 DEF Tasks
      <3> QED  BY <2>1, <3>1, <3>2 DEF Handles, Takes, Passes, Breaks, Answers
    <2>4. \A t \in Tasks : Key(t)' = Key(t)
      BY <2>3 DEF Key
    <2> QED  BY <2>2, <2>3, <2>4 DEF KeptClaimWasSent, Tasks
  <1> QED  BY <1>1, <1>2, <1>3, Delivered DEF Next, Hooks, Tasks, vars

\* The claim a failed send keeps is one that a dead worker or a failing Redis left:
\* every other claim is of a bubble the customer has or is being sent.
THEOREM ClaimsAreHonest == Spec => []KeptClaimWasSent
  BY InboundTypes, KeptInit, KeptNext, PTL DEF Spec

-----------------------------------------------------------------------------
(* The chat is an abstract one: replies whole, in order and once.          *)

\* A bubble in the chat, or claimed, is of a message whose turn has begun.
Begun(m) == \E t \in Tasks : tasks[t].id = m /\ tasks[t].pc # "queued"

OnlyBegunSpeak ==
    /\ \A i \in DOMAIN chat : Begun(chat[i][1])
    /\ \A k \in sent : Begun(k[1])

\* What the customer has of the reply in progress ends before its next bubble.
Expects(t) ==
    \/ tasks[t].bubble = 1 /\ \A i \in DOMAIN chat : chat[i][1] # tasks[t].id
    \/ chat # <<>> /\ chat[Len(chat)] = <<tasks[t].id, tasks[t].bubble - 1>>

Delivers(t) == chat # <<>> /\ chat[Len(chat)] = Key(t)

\* The reply's claims run as far as the bubble it is at, so none is skipped.
ReplyInStep ==
    \A t \in Tasks :
        /\ tasks[t].pc = "reply" => Expects(t)
        /\ tasks[t].pc = "post" => Expects(t) \/ Delivers(t)
        /\ \A k \in sent : k[1] = tasks[t].id =>
             /\ tasks[t].pc = "reply" => k[2] < tasks[t].bubble
             /\ tasks[t].pc = "post" => k[2] <= tasks[t].bubble

CInv == OnlyBegunSpeak /\ ReplyInStep

LEMMA CInvInit == Init => CInv
  <1>1. Init => Tasks = {} /\ chat = <<>> /\ sent = {}
    BY DEF Init, Tasks
  <1> QED  BY <1>1 DEF CInv, OnlyBegunSpeak, ReplyInStep

\* A message has one task.
LEMMA OneTaskEach ==
  ASSUME EInv, Base, NEW t \in Tasks, NEW u \in Tasks, tasks[t].id = tasks[u].id,
         tasks[t].id \in Messages
  PROVE  t = u
  BY MessagesAreIdentified DEF EInv, EnqueuedOnce, Tasks, Identified

\* The bubble that is posted is the abstract chat's next step, or no step.
LEMMA ArrivalIsAStep ==
  ASSUME Base, NEW t \in Tasks, tasks[t].pc = "post", Expects(t) \/ Delivers(t),
         Arrive(Key(t))
  PROVE  Replies!Next \/ chat' = chat
  <1>1. CASE Delivers(t)
    BY <1>1 DEF Delivers, Arrive
  <1>2. CASE Expects(t) /\ ~Delivers(t)
    <2>1. chat' = Append(chat, <<tasks[t].id, tasks[t].bubble>>)
      BY <1>2 DEF Arrive, Delivers, Key
    <2>2. tasks[t].id \in Messages /\ tasks[t].bubble <= Bubbles
      BY DEF Base, TasksInside, InTurn
    <2>3. tasks[t].bubble \in Nat /\ tasks[t].bubble >= 1 /\ Bubbles \in Nat
      <3>1. tasks[t] \in Task
        BY ElementOfSeq DEF Base, TypeOK, Tasks
      <3> QED  BY <3>1, BoundsAreNaturals DEF Task
    <2>4. CASE tasks[t].bubble = 1 /\ \A i \in DOMAIN chat : chat[i][1] # tasks[t].id
      <3>1. DOMAIN chat = 1 .. Len(chat)
        BY DEF Base, TypeOK
      <3>2. Replies!Begin(tasks[t].id)
        BY <2>1, <2>4, <3>1 DEF Replies!Begin
      <3> QED  BY <2>2, <3>2 DEF Replies!Next
    <2>5. CASE chat # <<>> /\ chat[Len(chat)] = <<tasks[t].id, tasks[t].bubble - 1>>
      <3>1. /\ chat[Len(chat)][1] = tasks[t].id
            /\ chat[Len(chat)][2] = tasks[t].bubble - 1
        BY <2>5
      <3>2. chat[Len(chat)][2] < Bubbles /\ chat[Len(chat)][2] + 1 = tasks[t].bubble
        BY <2>2, <2>3, <3>1
      <3>3. Replies!Continue(tasks[t].id)
        BY <2>1, <2>5, <3>1, <3>2 DEF Replies!Continue
      <3> QED  BY <2>2, <3>3 DEF Replies!Next
    <2> QED  BY <1>2, <2>4, <2>5 DEF Expects
  <1> QED  BY <1>1, <1>2

LEMMA CInvWorker ==
  ASSUME Base, EInv, CInv, NEW t \in Tasks, Worker(t) \/ Crash(t)
  PROVE  CInv' /\ (Replies!Next \/ chat' = chat)
  <1>1. PICK d \in Task : Step(t, d) /\ d.id = tasks[t].id /\ Works(t, d)
    BY WorkerWorks
  <1>2. /\ Tasks' = Tasks
        /\ \A u \in Tasks : tasks'[u] = IF u = t THEN d ELSE tasks[u]
    BY <1>1, OneTaskWritten DEF Base, TypeOK
  <1>3. /\ tasks[t] \in Task /\ tasks[t].bubble \in Nat /\ d.bubble \in Nat
    BY <1>1, ElementOfSeq, TaskFields DEF Base, TypeOK, Tasks
  <1>4. d.pc # "queued"
    BY <1>1 DEF Works, Begins, Stops, Claims, Skips, Posts, Fails
  <1>5. ASSUME NEW m, Begun(m) PROVE Begun(m)'
    BY <1>1, <1>2, <1>4, <1>5 DEF Begun
  <1>6. PICK k : k = Key(t)
    OBVIOUS
  <1>7. k = Key(t) /\ k[1] = tasks[t].id /\ k[2] = tasks[t].bubble
    BY <1>6 DEF Key
  <1>8. Begun(k[1])'
    BY <1>1, <1>2, <1>4, <1>7 DEF Begun
  <1>9. tasks[t].pc = "post" /\ Arrive(k) =>
          /\ \A i \in DOMAIN chat' : chat'[i] = k \/ (i \in DOMAIN chat /\ chat'[i] = chat[i])
          /\ chat' # <<>> /\ chat'[Len(chat')] = k
    <2>1. tasks[t].pc = "post" => k \in Bubble
      BY <1>7, KeyIsBubble DEF InTurn, Base, TasksInside
    <2> QED  BY <2>1, Arrived DEF Base, TypeOK
  <1>10. OnlyBegunSpeak'
    <2>1. \A l \in sent' : l = k \/ l \in sent
      BY <1>1, <1>7 DEF Works, Begins, Stops, Claims, Skips, Posts, Fails, worker
    <2>2. \A i \in DOMAIN chat' : chat'[i] = k \/ (i \in DOMAIN chat /\ chat'[i] = chat[i])
      BY <1>1, <1>7, <1>9 DEF Works, Begins, Stops, Claims, Skips, Posts, Fails, worker
    <2> QED  BY <1>5, <1>8, <2>1, <2>2 DEF CInv, OnlyBegunSpeak
  <1>11. \A u \in Tasks : u # t /\ InTurn(t) => tasks[u].pc \notin {"reply", "post"}
    BY DEF Base, OneTurn, InTurn
  <1>12. ASSUME tasks[t].pc = "queued", tasks[t].id \in Messages
         PROVE  ~Begun(tasks[t].id)
    BY <1>12, OneTaskEach DEF Begun
  <1>13. d.pc = "reply" => Expects(t)'
    <2>1. CASE Begins(t, d)
      <3>1. d.bubble = 1 /\ chat' = chat /\ ~Begun(tasks[t].id)
        BY <1>12, <2>1 DEF Begins, worker
      <3>2. \A i \in DOMAIN chat : chat[i][1] # tasks[t].id
        BY <3>1 DEF CInv, OnlyBegunSpeak
      <3> QED  BY <1>1, <1>2, <3>1, <3>2 DEF Expects
    <2>2. CASE Posts(t, d)
      <3>1. chat' # <<>> /\ chat'[Len(chat')] = <<d.id, d.bubble - 1>>
        BY <1>1, <1>3, <1>7, <1>9, <2>2 DEF Posts, Key
      <3> QED  BY <1>2, <3>1 DEF Expects
    <2>3. CASE Skips(t, d)
      BY <1>3, <1>7, <2>3 DEF Skips, CInv, ReplyInStep
    <2> QED  BY <1>1, <2>1, <2>2, <2>3 DEF Works, Stops, Claims, Fails
  <1>14. d.pc = "post" => Expects(t)' \/ Delivers(t)'
    <2>1. CASE Claims(t, d)
      BY <1>1, <1>2, <2>1 DEF Claims, CInv, ReplyInStep, Expects
    <2>2. CASE Fails(t, d) /\ chat' = chat
      BY <1>1, <1>2, <2>2 DEF Fails, CInv, ReplyInStep, Expects, Delivers, Key
    <2>3. CASE Fails(t, d) /\ Arrive(Key(t))
      <3>1. Key(t)' = k
        BY <1>1, <1>2, <1>7, <2>3 DEF Fails, Key
      <3> QED  BY <1>7, <1>9, <2>3, <3>1 DEF Fails, Delivers
    <2> QED  BY <1>1, <2>1, <2>2, <2>3 DEF Works, Begins, Stops, Skips, Posts, Fails
  <1>15. \A l \in sent' : l[1] = d.id =>
           /\ d.pc = "reply" => l[2] < d.bubble
           /\ d.pc = "post" => l[2] <= d.bubble
    <2>1. CASE Begins(t, d)
      BY <1>1, <1>12, <2>1 DEF Begins, CInv, OnlyBegunSpeak, worker
    <2>2. CASE Claims(t, d)
      <3>1. \A l \in sent : l[1] = d.id => l[2] < d.bubble /\ l[2] \in Nat
        BY <1>1, <2>2, BoundsAreNaturals DEF Claims, CInv, ReplyInStep, Base, TypeOK, Bubble
      <3>2. \A l \in sent' : l = k \/ l \in sent
        BY <1>7, <2>2 DEF Claims
      <3> QED  BY <1>3, <1>7, <2>2, <3>1, <3>2 DEF Claims
    <2>3. CASE Skips(t, d)
      BY <1>3, <1>7, <2>3 DEF Skips, CInv, ReplyInStep
    <2>4. CASE Posts(t, d) \/ Fails(t, d)
      <3>1. sent' = sent /\ tasks[t].pc = "post"
        BY <2>4 DEF Posts, Fails
      <3>2. \A l \in sent : l[1] = d.id => l[2] <= tasks[t].bubble /\ l[2] \in Nat
        BY <1>1, <3>1, BoundsAreNaturals DEF CInv, ReplyInStep, Base, TypeOK, Bubble
      <3> QED  BY <1>3, <2>4, <3>1, <3>2 DEF Posts, Fails
    <2>5. CASE Stops(t, d)
      BY <2>5 DEF Stops
    <2> QED  BY <1>1, <2>1, <2>2, <2>3, <2>4, <2>5 DEF Works
  <1>16. ASSUME NEW u \in Tasks, u # t, tasks[u].pc \in {"reply", "post"}
         PROVE  UNCHANGED <<chat, sent>>
    <2>1. InTurn(u) /\ ~InTurn(t)
      BY <1>11, <1>16 DEF InTurn
    <2> QED  BY <1>1, <2>1 DEF InTurn, Works, Begins, Stops, Claims, Skips, Posts, Fails
  <1>17. ASSUME NEW u \in Tasks, u # t
         PROVE  /\ tasks'[u].pc = "reply" => Expects(u)'
                /\ tasks'[u].pc = "post" => Expects(u)' \/ Delivers(u)'
                /\ \A l \in sent' : l[1] = tasks'[u].id =>
                     /\ tasks'[u].pc = "reply" => l[2] < tasks'[u].bubble
                     /\ tasks'[u].pc = "post" => l[2] <= tasks'[u].bubble
    BY <1>2, <1>16, <1>17 DEF CInv, ReplyInStep, Expects, Delivers, Key
  <1>18. ReplyInStep'
    BY <1>2, <1>13, <1>14, <1>15, <1>17 DEF ReplyInStep
  <1>19. Replies!Next \/ chat' = chat
    <2>1. CASE tasks[t].pc = "post" /\ Arrive(Key(t))
      BY <2>1, ArrivalIsAStep DEF CInv, ReplyInStep
    <2> QED  BY <1>1, <2>1 DEF Works, Begins, Stops, Claims, Skips, Posts, Fails, worker
  <1> QED  BY <1>10, <1>18, <1>19 DEF CInv

LEMMA CInvEdge ==
  ASSUME Base, CInv, UNCHANGED worker, \A t \in Tasks : t \in Tasks' /\ tasks'[t] = tasks[t],
         \A t \in Tasks' : t \notin Tasks => tasks'[t].pc = "queued"
  PROVE  CInv'
  <1>1. \A m : Begun(m) => Begun(m)'
    BY DEF Begun
  <1>2. OnlyBegunSpeak'
    BY <1>1 DEF CInv, OnlyBegunSpeak, worker
  <1>3. \A t \in Tasks' : tasks'[t].pc \in {"reply", "post"} => t \in Tasks
    OBVIOUS
  <1>4. ReplyInStep'
    BY <1>3 DEF CInv, ReplyInStep, Expects, Delivers, Key, worker
  <1> QED  BY <1>2, <1>4 DEF CInv

LEMMA CInvNext == Base /\ EInv /\ CInv /\ [Next]_vars => CInv' /\ [Replies!Next]_chat
  <1> SUFFICES ASSUME Base, EInv, CInv, [Next]_vars PROVE CInv' /\ [Replies!Next]_chat
    OBVIOUS
  <1>1. CASE \E t \in Tasks : Worker(t) \/ Crash(t)
    BY <1>1, CInvWorker
  <1>2. CASE UNCHANGED <<sent, stuck, chat, tasks>>
    BY <1>2, CInvEdge DEF worker, Tasks
  <1>3. ASSUME NEW h \in Hooks, Handler(h) PROVE CInv' /\ chat' = chat
    <2>1. PICK d \in Hook : d.batch = hooks[h].batch /\ Handles(h, d)
      BY <1>3, HandlerHandles
    <2>2. UNCHANGED worker
      BY <1>3, HandlerHandles
    <2>3. CASE Pushes(h, d)
      <3> DEFINE e == Queued(Id(h))
      <3>1. e \in Task /\ tasks' = Append(tasks, e) /\ e.pc = "queued"
        BY <2>3, HookHasId, QueuedIsTask DEF Pushes
      <3> HIDE DEF e
      <3>2. \A t \in Tasks : t \in Tasks' /\ tasks'[t] = tasks[t]
        BY <3>1, OneTaskPushed DEF Base, TypeOK
      <3>3. PICK n : Tasks' = Tasks \cup {n} /\ tasks'[n] = e
        BY <3>1, OneTaskPushed DEF Base, TypeOK
      <3>4. \A t \in Tasks' : t \notin Tasks => tasks'[t].pc = "queued"
        BY <3>1, <3>3
      <3> QED  BY <2>2, <3>2, <3>4, CInvEdge DEF worker
    <2>4. CASE tasks' = tasks
      BY <2>2, <2>4, CInvEdge DEF Tasks, worker
    <2> QED  BY <2>1, <2>3, <2>4 DEF Handles, Takes, Passes, Breaks, Answers
  <1> QED  BY <1>1, <1>2, <1>3, Delivered DEF Next, Hooks, Tasks, vars

\* The pipeline implements the chat: whatever is delivered twice, dropped, retried,
\* timed out or crashed, each reply is seen from its first bubble on, in order,
\* without another reply in between, and never twice.
THEOREM RepliesAreWhole == Spec => Reads
  <1>1. Init => Replies!Init
    BY DEF Init, Replies!Init
  <1> QED  BY InboundTypes, EInvInit, EInvNext, CInvInit, CInvNext, <1>1, PTL
           DEF Spec, Reads, Replies!Spec
=============================================================================

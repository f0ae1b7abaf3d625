------------------------------- MODULE Handoff -------------------------------
(***************************************************************************)
(* When a person takes a thread over, and whether the team learns of it:   *)
(* one customer's thread, its turns, the rows that the worker delivers     *)
(* after a turn, the handlers of declined payments, and the commands by    *)
(* which colleagues give the thread back.                                  *)
(*                                                                         *)
(* Turns are serialised by wa_mutex.  Declines and commands take no mutex: *)
(* they interleave with a turn and with each other at every await.         *)
(* A turn's nodes write whole checkpoints from the values of the run; all  *)
(* else merges fields into the latest checkpoint.                          *)
(***************************************************************************)
EXTENDS Naturals, Sequences, FiniteSets

CONSTANTS
    Handlers,     \* the tasks that may handle declines at the same time
    Notes,        \* the #done and #back commands, each with its note
    MaxFailures,  \* MAX_PAYMENT_FAILURES
    MaxDeclines   \* bound: declines between two resets of their count

ASSUME NotesAreFinite == IsFiniteSet(Notes) /\ "auto" \notin Notes
ASSUME DeclinesAreNaturals == MaxFailures \in Nat \ {0} /\ MaxDeclines \in Nat

VARIABLES
    ckpt,      \* the thread's latest checkpoint
    run,       \* the values the running graph works on
    pc,        \* where the turn is
    route,     \* the node triage chose
    connect,   \* was it for a tap on "Connect me now"?
    due,       \* what the worker has still to deliver after this turn
    decline,   \* each handler of a decline: where it is, the count to write
    commands,  \* each command: not sent, done, or the notes it has read
    word,      \* history: does the team know of the present hold?
    spoilt,    \* history: escalation_sent stands for something else
    rows,      \* history: rows of each kind since the last release, up to 2
    doubled,   \* history: the kinds whose row may come again, see Doubles
    accepted,  \* history: notes of the commands that were answered "Released"
    overrun    \* history: of these, the ones written beside another writer

vars == <<ckpt, run, pc, route, connect, due, decline, commands,
          word, spoilt, rows, doubled, accepted, overrun>>

Kinds == {"lead", "escalation"}

\* requires_human_handoff, handoff_active (with handoff_notified), whether
\* handoff_reason is "error", escalation_sent, lead_ready_for_handoff,
\* lead_sent, human_request_count, payment_failure_count, handoff_notes.
State == [requires : BOOLEAN, hold : BOOLEAN, error : BOOLEAN, sent : BOOLEAN,
          lead : BOOLEAN, leadSent : BOOLEAN,
          asks : 0 .. 1, declines : 0 .. MaxDeclines,
          notes : SUBSET (Notes \cup {"auto"})]

Blank == [requires |-> FALSE, hold |-> FALSE, error |-> FALSE, sent |-> FALSE,
          lead |-> FALSE, leadSent |-> FALSE,
          asks |-> 0, declines |-> 0, notes |-> {}]

Resting == [at |-> "idle", tally |-> 0]
NotSent == [at |-> "new", read |-> {}]
Done == [at |-> "done", read |-> {}]

\* The variables' types; a command's read copy is a copy of the notes.
TypeOK ==
    /\ ckpt \in State /\ run \in State
    /\ pc \in {"idle", "triage", "node", "snapshot", "deliver", "flag"}
    /\ route \in {"sales", "probe", "escalation", "adversarial"}
    /\ connect \in BOOLEAN
    /\ due \in Seq(Kinds)
    /\ decline \in [Handlers -> [at : {"idle", "count", "alert", "row", "flag"},
                                 tally : 0 .. MaxDeclines]]
    /\ commands \in [Notes -> [at : {"new", "read", "done"},
                               read : SUBSET (Notes \cup {"auto"})]]
    /\ word \in {"free", "owed", "told", "missed"}
    /\ spoilt \in BOOLEAN /\ doubled \subseteq Kinds
    /\ rows \in [Kinds -> 0 .. 2]
    /\ accepted \subseteq Notes /\ overrun \subseteq accepted

Init ==
    /\ ckpt = Blank /\ run = Blank /\ pc = "idle" /\ route = "sales"
    /\ connect = FALSE /\ due = <<>>
    /\ decline = [h \in Handlers |-> Resting] /\ commands = [n \in Notes |-> NotSent]
    /\ word = "free" /\ spoilt = FALSE /\ doubled = {}
    /\ rows = [k \in Kinds |-> 0] /\ accepted = {} /\ overrun = {}

turn == <<run, pc, route, connect, due>>
outside == <<decline, commands>>
staffOnly == <<accepted, overrun>>

\* A hold that begins is owed to the team.
Owing(s) == IF ~s.hold THEN "free" ELSE IF ~ckpt.hold THEN "owed" ELSE word

\* The handlers that have escalated, and of these the ones that have read "not
\* sent" and have not set the flag yet.
Escalating == {h \in Handlers : decline[h].at \in {"alert", "row", "flag"}}
Telling == {h \in Handlers : decline[h].at \in {"row", "flag"}}

\* Has the turn read so, and not set the flag yet?
TurnTells == \E i \in DOMAIN due : due[i] = "escalation"

\* A second row of the kind may come: two have read "not sent" before either
\* sets the flag, or the flag is not set or taken back.
Doubles(kind, b) == doubled' = doubled \cup (IF b THEN {kind} ELSE {})

\* A checkpoint is saved.  escalation_sent is spoilt when it is set on a thread
\* that nobody holds or for a row older than the hold, or outlives a hold; a
\* turn takes it back when it writes the value that it began with.
Save(s) ==
    /\ ckpt' = s
    /\ word' = Owing(s)
    /\ LET set == ~ckpt.sent /\ (~s.hold \/ (Escalating # {} /\ word = "owed"))
           outlives == ckpt.hold /\ ~s.hold
       IN  spoilt' = (s.sent /\ (spoilt \/ set \/ outlives))
    /\ Doubles("escalation", ckpt.sent /\ ~s.sent)

-----------------------------------------------------------------------------
(* Triage.                                                                 *)

ReceiveMessage ==
    /\ pc = "idle"
    /\ pc' = "triage" /\ run' = ckpt
    /\ UNCHANGED <<ckpt, route, connect, due, outside, word, spoilt, rows, doubled, staffOnly>>

EndTurn ==
    /\ pc' = "idle" /\ run' = Blank /\ route' = "sales" /\ connect' = FALSE /\ due' = <<>>

\* What is owed and not delivered has to wait for the customer's next message.
Missed == IF word = "owed" THEN "missed" ELSE word

\* "Empty text input", or a voice note that was not transcribed.
Void ==
    /\ pc = "triage"
    /\ EndTurn
    /\ UNCHANGED <<ckpt, outside, word, spoilt, rows, doubled, staffOnly>>

\* route_after_triage: only adversarial deflection comes before the hold.
Decide(s, to) ==
    /\ pc = "triage" /\ pc' = "node"
    /\ run' = s /\ Save(s)
    /\ UNCHANGED <<due, outside, rows, staffOnly>>
    /\ route' = IF to # "adversarial" /\ (s.requires \/ s.hold) THEN "escalation" ELSE to

\* Mutant: the note of the time limit takes the place of the colleagues' notes.
AutoReleaseMutant(s) ==
    [s EXCEPT !.hold = FALSE, !.error = FALSE, !.requires = FALSE, !.notes = {"auto"}]

\* A hold past HANDOFF_MAX_HOLD_HOURS is let go, with a note that says so.
AutoRelease(s) ==
    [s EXCEPT !.hold = FALSE, !.error = FALSE, !.requires = FALSE,
              !.notes = @ \cup {"auto"}]
Seen == {run} \cup (IF run.hold THEN {AutoRelease(run)} ELSE {})

Calm(s) == [s EXCEPT !.requires = FALSE, !.asks = 0]

\* "Confirm & pay" and the buttons that act on the pending order.
TriageTap ==
    /\ \E s \in Seen : Decide(Calm(s), "sales")
    /\ UNCHANGED connect

\* Mutant: the tap is answered as a first calm ask.
TriageConnectMutant ==
    /\ connect' = TRUE
    /\ \E s \in Seen : Decide([s EXCEPT !.requires = FALSE, !.asks = 1], "probe")

\* "handoff_reason or 'requested'": a reason that is there stays.
TriageConnect ==
    /\ connect' = TRUE
    /\ \E s \in Seen : Decide([s EXCEPT !.requires = TRUE, !.asks = 0], "escalation")

\* The classifier fails: what the auto-release decided is not returned.
TriageFails ==
    /\ UNCHANGED connect
    /\ Decide([run EXCEPT !.requires = TRUE, !.error = TRUE], "escalation")

\* After 48 hours; the count of asks and the reason are left as they are.
TriageGhost ==
    /\ UNCHANGED connect
    /\ \E s \in Seen : Decide([s EXCEPT !.requires = FALSE], "sales")

\* The reason is carried over only while the thread is held.
Reason(s) == [s EXCEPT !.error = @ /\ s.hold]

\* Mutant: an escalation does not start the count of asks over.
UpsetMutant(s) == [s EXCEPT !.requires = TRUE, !.asks = @ + 1, !.error = FALSE]

Upset(s) == [s EXCEPT !.requires = TRUE, !.asks = 0, !.error = FALSE]

\* What the classifier found: anger, its class HUMAN_ESCALATION, a calm ask for
\* a person (route_after_rag knows no HUMAN_PROBE: with the flag TECHNICAL_RAG
\* the first one falls to the escalation too), an attack, or anything else.
TriageModel ==
    /\ UNCHANGED connect
    /\ \E s \in {Reason(t) : t \in Seen} :
         \/ Decide(Upset(s), "escalation")
         \/ Decide([Calm(s) EXCEPT !.requires = TRUE], "escalation")
         \/ s.asks = 1 /\ Decide(Upset(s), "escalation")
         \/ s.asks = 0 /\ \E to \in {"probe", "escalation"} :
                Decide([s EXCEPT !.requires = FALSE, !.asks = 1], to)
         \/ Decide(Calm(s), "adversarial")
         \/ Decide(Calm(s), "sales")

-----------------------------------------------------------------------------
(* The answering node.                                                     *)

Answer(s) ==
    /\ pc = "node" /\ pc' = "snapshot"
    /\ Save(s)
    /\ run' = Blank /\ route' = "sales" /\ connect' = FALSE
    /\ UNCHANGED <<due, outside, rows, staffOnly>>

\* Mutant: the hold follows the reason, on a held thread too.
EscalateMutant ==
    /\ route = "escalation"
    /\ Answer([run EXCEPT !.requires = TRUE, !.hold = ~run.error])

\* The holding line on a held thread; else the announcement, which holds the
\* thread unless the reason is a technical failure.
Escalate ==
    /\ route = "escalation"
    /\ Answer([run EXCEPT !.requires = TRUE, !.hold = @ \/ ~run.error])

AdversarialBlock ==
    /\ route = "adversarial"
    /\ Answer([run EXCEPT !.requires = FALSE])

\* The taps of _execute_sales_node that need no model return before it.
TapAnswered ==
    /\ route = "sales"
    /\ Answer(run)

\* Once the model has called the customer a lead, they stay one.
ModelReplies ==
    /\ route \in {"sales", "probe"}
    /\ \E lead \in BOOLEAN : Answer([run EXCEPT !.lead = @ \/ lead])

\* The probe swallows the failure; any other node leaves it to the team.
ModelFails ==
    /\ route \in {"sales", "probe"}
    /\ Answer(IF route = "probe" THEN run
              ELSE [run EXCEPT !.requires = TRUE, !.error = TRUE])

\* The replies cannot be sent: the task ends before anything is delivered.
TurnRaises ==
    /\ pc \in {"node", "snapshot"}
    /\ EndTurn
    /\ word' = Missed
    /\ UNCHANGED <<ckpt, outside, spoilt, rows, doubled, staffOnly>>

-----------------------------------------------------------------------------
(* After the turn: two rows, off one snapshot.                             *)

Owed(s) ==
    (IF s.lead /\ ~s.leadSent THEN <<"lead">> ELSE <<>>)
      \o (IF s.requires /\ ~s.sent THEN <<"escalation">> ELSE <<>>)

\* Mutant: requires_human_handoff alone decides, not the flag.
SnapshotMutant ==
    /\ pc = "snapshot"
    /\ pc' = "deliver" /\ due' = Owed([ckpt EXCEPT !.sent = FALSE])
    /\ UNCHANGED <<ckpt, run, route, connect, outside, word, spoilt, rows, doubled, staffOnly>>

Snapshot ==
    /\ pc = "snapshot"
    /\ pc' = "deliver" /\ due' = Owed(ckpt)
    /\ Doubles("escalation", ckpt.requires /\ ~ckpt.sent /\ Telling # {})
    /\ UNCHANGED <<ckpt, run, route, connect, outside, word, spoilt, rows, staffOnly>>

\* A snapshot that cannot be read is an empty one.
SnapshotFails ==
    /\ pc = "snapshot"
    /\ EndTurn
    /\ word' = Missed
    /\ UNCHANGED <<ckpt, outside, spoilt, rows, doubled, staffOnly>>

\* A row goes to the sinks.  They fail softly: what none of them took is only
\* in the log, and the caller is not told.
Row(kind) ==
    /\ rows' = [rows EXCEPT ![kind] = IF @ = 2 THEN 2 ELSE @ + 1]
    /\ IF kind = "escalation" /\ ckpt.hold THEN word' \in {"told", Missed}
                                           ELSE word' = word

DeliverRow ==
    /\ pc = "deliver" /\ due # <<>>
    /\ Row(Head(due))
    /\ pc' = "flag"
    /\ UNCHANGED <<ckpt, run, route, connect, due, outside, spoilt, doubled, staffOnly>>

SetFlag ==
    /\ pc = "flag"
    /\ Save(IF Head(due) = "lead" THEN [ckpt EXCEPT !.leadSent = TRUE]
                                  ELSE [ckpt EXCEPT !.sent = TRUE])
    /\ pc' = "deliver" /\ due' = Tail(due)
    /\ UNCHANGED <<run, route, connect, outside, rows, staffOnly>>

\* One try block for both rows: a flag that is not written ends both.
FlagFails ==
    /\ pc = "flag"
    /\ EndTurn
    /\ word' = Missed /\ Doubles(Head(due), TRUE)
    /\ UNCHANGED <<ckpt, outside, spoilt, rows, staffOnly>>

Delivered ==
    /\ pc = "deliver" /\ due = <<>>
    /\ EndTurn
    /\ UNCHANGED <<ckpt, outside, word, spoilt, rows, doubled, staffOnly>>

-----------------------------------------------------------------------------
(* _handle_payment_failure.                                                *)

Goes(h, at) == decline' = [decline EXCEPT ![h] = [at |-> at, tally |-> 0]]

\* The count is read; a state that cannot be read has none.
DeclineReads(h) ==
    /\ decline[h].at = "idle" /\ ckpt.declines < MaxDeclines
    /\ \E n \in {ckpt.declines + 1, 1} :
         decline' = [decline EXCEPT ![h] = [at |-> "count", tally |-> n]]
    /\ UNCHANGED <<ckpt, turn, commands, word, spoilt, rows, doubled, staffOnly>>

\* It is written after the row is: until then others may have written theirs.
\* The one that reaches the limit takes the thread away.
DeclineWrites(h) ==
    /\ decline[h].at = "count"
    /\ LET n == decline[h].tally IN
         IF n < MaxFailures
         THEN /\ Save([ckpt EXCEPT !.declines = n])
              /\ Goes(h, "idle")
         ELSE /\ Save([ckpt EXCEPT !.declines = n, !.requires = TRUE,
                                   !.hold = TRUE, !.error = FALSE])
              /\ Goes(h, "alert")
    /\ UNCHANGED <<turn, commands, rows, staffOnly>>

\* The row or the count cannot be written; or "I've asked a colleague to take
\* this over" cannot be sent, or the state not be read again after it: the
\* handler ends before the alert.
DeclineFails(h) ==
    /\ decline[h].at \in {"count", "alert"}
    /\ Goes(h, "idle")
    /\ word' = IF decline[h].at = "alert" THEN Missed ELSE word
    /\ UNCHANGED <<ckpt, turn, commands, spoilt, rows, doubled, staffOnly>>

\* The state is read again: somebody may have told the team meanwhile.  A flag
\* that stands for something else is believed too.
Alert(h) ==
    /\ decline[h].at = "alert"
    /\ \/ ckpt.sent /\ Goes(h, "idle") /\ UNCHANGED doubled
          /\ word' = IF spoilt THEN Missed ELSE word
       \/ ~ckpt.sent /\ Goes(h, "row") /\ UNCHANGED word
          /\ Doubles("escalation", TurnTells \/ Telling # {})
    /\ UNCHANGED <<ckpt, turn, commands, spoilt, rows, staffOnly>>

AlertRow(h) ==
    /\ decline[h].at = "row"
    /\ Row("escalation")
    /\ Goes(h, "flag")
    /\ UNCHANGED <<ckpt, turn, commands, spoilt, doubled, staffOnly>>

AlertFlag(h) ==
    /\ decline[h].at = "flag"
    /\ \/ Save([ckpt EXCEPT !.sent = TRUE])
       \/ Doubles("escalation", TRUE) /\ word' = Missed /\ UNCHANGED <<ckpt, spoilt>>
    /\ Goes(h, "idle")
    /\ UNCHANGED <<turn, commands, rows, staffOnly>>

-----------------------------------------------------------------------------
(* release_handoff.                                                        *)

\* A number on the allowlist, a thread that is found, a note and a hold: any
\* other command is answered and changes nothing.
Accepts(n) == commands[n].at = "new" /\ ckpt.hold

\* The command reads the thread, its notes with it.
CommandReads(n) ==
    /\ Accepts(n)
    /\ commands' = [commands EXCEPT ![n] = [at |-> "read", read |-> ckpt.notes]]
    /\ UNCHANGED <<ckpt, turn, decline, word, spoilt, rows, doubled, staffOnly>>

\* Mutant: the delivery flags survive the release.
BackMutant(s, notes) ==
    [s EXCEPT !.hold = FALSE, !.error = FALSE, !.requires = FALSE, !.declines = 0,
              !.notes = notes]

Back(s, notes) ==
    [s EXCEPT !.hold = FALSE, !.error = FALSE, !.requires = FALSE, !.declines = 0,
              !.notes = notes, !.leadSent = FALSE, !.sent = FALSE]

\* Two that will each deliver a row, or have, and then set the flag.
Crowded == \E h \in Telling : TurnTells \/ Telling # {h}

\* The hold is cleared and the list that was read is written back, longer by
\* one.  Another writer that has read the list before will overwrite it.
CommandWrites(n) ==
    /\ commands[n].at = "read"
    /\ ckpt' = Back(ckpt, commands[n].read \cup {n})
    /\ commands' = [commands EXCEPT ![n] = Done]
    /\ accepted' = accepted \cup {n}
    /\ overrun' = overrun \cup
         (IF pc \in {"triage", "node"} \/ \E o \in Notes \ {n} : commands[o].at = "read"
          THEN {n} ELSE {})
    /\ word' = "free" /\ spoilt' = FALSE
    /\ rows' = [k \in Kinds |-> 0]
    /\ doubled' = IF Crowded THEN {"escalation"} ELSE {}
    /\ UNCHANGED <<turn, decline>>

-----------------------------------------------------------------------------
Triage == TriageTap \/ TriageConnect \/ TriageFails \/ TriageGhost \/ TriageModel

Turn ==
    \/ Void \/ Triage
    \/ Escalate \/ AdversarialBlock \/ TapAnswered \/ ModelReplies \/ ModelFails
    \/ TurnRaises \/ Snapshot \/ SnapshotFails
    \/ DeliverRow \/ SetFlag \/ FlagFails
    \/ Delivered

Decline(h) ==
    \/ DeclineReads(h) \/ DeclineWrites(h) \/ DeclineFails(h)
    \/ Alert(h) \/ AlertRow(h) \/ AlertFlag(h)

Next ==
    \/ ReceiveMessage
    \/ Turn
    \/ \E h \in Handlers : Decline(h)
    \/ \E n \in Notes : CommandReads(n) \/ CommandWrites(n)

Spec == Init /\ [][Next]_vars

-----------------------------------------------------------------------------
(* Properties.                                                             *)

AtRest == pc = "idle" /\ \A h \in Handlers : decline[h].at = "idle"

\* No hold is the team's without the team: when nothing is under way, a row
\* about the present hold was delivered, or its delivery failed, or the flag
\* that says so was left by something else than a row about a hold: a
\* technical failure, a hold that timed out, a release that was overwritten.
HoldReachesTeam == AtRest /\ word = "owed" => spoilt \/ overrun # {}

\* Until a colleague gives the thread back, the team gets one row of each kind,
\* unless the flag of that kind is not written; and the escalation, unless its
\* flag is taken back by a turn that began before it was set, or two (a turn
\* and a decline's handler, or two handlers) both read it before either set it.
TeamIsToldOnce == \A k \in Kinds \ doubled : rows[k] <= 1

\* What a colleague wrote with a release is in the checkpoint for good, unless
\* it was written beside a turn or another command.
NotesAreKept == accepted \ overrun \subseteq ckpt.notes

\* A hold ends with a note, a colleague's or the one of the time limit; or a
\* turn that began before it writes the older state back.
HoldEndsWithANote ==
    [][ckpt.hold /\ ~ckpt'.hold =>
         \/ accepted' # accepted
         \/ "auto" \in ckpt'.notes
         \/ pc \in {"triage", "node"} /\ ~run.hold]_vars

\* A customer who taps "Connect me now" is held for a person when the turn has
\* answered, unless the thread still carries the reason of an earlier technical
\* failure, which the tap does not replace.
ConnectHolds ==
    [][connect /\ pc' = "snapshot" => ckpt'.hold \/ run.error]_vars
=============================================================================

---------------------------- MODULE HandoffProofs ----------------------------
(***************************************************************************)
(* Proofs about Handoff, for any number of commands, any limit and any     *)
(* number of declines: the types, that a note is not lost but to a writer  *)
(* beside it, how a hold ends, that "Connect me now" begins one, and that  *)
(* the team is told of each hold, once.                                    *)
(***************************************************************************)
EXTENDS Handoff, SequenceTheorems, TLAPS

\* A turn sets a flag only for a row it has still on its list.
FlagHasARow == pc = "flag" => due # <<>>

\* A tap on "Connect me now" is only ever under way to the escalation node.
ConnectEscalates == connect => pc = "node" /\ route = "escalation"

\* A command is answered "Released" once, when it has written.
AcceptedIsDone == \A n \in accepted : commands[n].at = "done"

\* The notes nothing was written beside are in every copy that may yet be
\* written: the checkpoint, the run's, the list a command has read.
Safe == accepted \ overrun
CopiesHaveNotes ==
    /\ Safe \subseteq ckpt.notes
    /\ pc \in {"triage", "node"} => Safe \subseteq run.notes
    /\ \A n \in Notes : commands[n].at = "read" => Safe \subseteq commands[n].read

\* The inductive invariant.
HInv ==
    /\ TypeOK
    /\ FlagHasARow
    /\ ConnectEscalates
    /\ AcceptedIsDone
    /\ CopiesHaveNotes

-----------------------------------------------------------------------------

LEMMA BlankIsState == Blank \in State
  BY DeclinesAreNaturals DEF Blank, State

LEMMA InitHInv == Init => HInv
  <1> SUFFICES ASSUME Init PROVE HInv
    OBVIOUS
  <1>1. TypeOK
    <2>1. rows \in [Kinds -> 0 .. 2] /\ due \in Seq(Kinds)
      BY DEF Init
    <2>2. commands \in [Notes -> [at : {"new", "read", "done"},
                                  read : SUBSET (Notes \cup {"auto"})]]
      BY DEF Init, NotSent
    <2>3. decline \in [Handlers -> [at : {"idle", "count", "alert", "row", "flag"},
                                    tally : 0 .. MaxDeclines]]
      BY DeclinesAreNaturals DEF Init, Resting
    <2> QED  BY <2>1, <2>2, <2>3, BlankIsState DEF Init, TypeOK
  <1> QED  BY <1>1 DEF Init, HInv, FlagHasARow, ConnectEscalates, AcceptedIsDone,
                       CopiesHaveNotes, Safe, NotSent, Blank

\* Which kinds may have a second row.
LEMMA DoublesTypes ==
  ASSUME TypeOK, NEW k \in Kinds, NEW b, Doubles(k, b)
  PROVE  doubled' \subseteq Kinds
  BY DEF Doubles, TypeOK

\* What a save leaves in the variables it writes.
LEMMA SaveTypes ==
  ASSUME TypeOK, NEW s \in State, Save(s)
  PROVE  /\ ckpt' = s /\ ckpt' \in State
         /\ word' \in {"free", "owed", "told", "missed"}
         /\ spoilt' \in BOOLEAN /\ doubled' \subseteq Kinds
  <1>1. word' \in {"free", "owed", "told", "missed"}
    BY DEF Save, Owing, TypeOK
  <1>2. spoilt' \in BOOLEAN
    BY DEF Save
  <1>3. doubled' \subseteq Kinds
    BY DoublesTypes DEF Save, Kinds
  <1> QED  BY <1>1, <1>2, <1>3 DEF Save

-----------------------------------------------------------------------------
(* Triage.                                                                 *)

\* The delivery flags of two states are the same.
SameFlags(s, t) == s.sent = t.sent /\ s.leadSent = t.leadSent

\* What triage may read: the run, or the run let go of with a note about it.
LEMMA SeenIsState ==
  ASSUME TypeOK, NEW t \in Seen
  PROVE  /\ t \in State /\ run.notes \subseteq t.notes
         /\ run.hold => t.hold \/ "auto" \in t.notes
         /\ t.hold => run.hold
         /\ SameFlags(t, run)
  <1>1. run \in State
    BY DEF TypeOK
  <1>2. CASE t = run
    BY <1>1, <1>2 DEF SameFlags
  <1>3. CASE t = AutoRelease(run)
    BY <1>1, <1>3 DEF AutoRelease, State, SameFlags
  <1> QED  BY <1>2, <1>3 DEF Seen

\* The count of asks and the flag it leads to are all these change.
Recount(t, b, n) == [t EXCEPT !.requires = b, !.asks = n]

LEMMA Recounted ==
  ASSUME NEW t \in State, NEW b \in BOOLEAN, NEW i \in {0, 1}
  PROVE  LET s == Recount(t, b, i)
         IN  /\ s \in State /\ s.notes = t.notes /\ s.hold = t.hold /\ s.requires = b
             /\ SameFlags(s, t)
  <1> PICK n \in 0 .. 1 : n = i
    OBVIOUS
  <1>1. LET s == Recount(t, b, n)
        IN  /\ s \in State /\ s.notes = t.notes /\ s.hold = t.hold /\ s.requires = b
            /\ SameFlags(s, t)
    BY DEF State, Recount, SameFlags
  <1> QED  BY <1>1

LEMMA CalmIsState ==
  ASSUME NEW t \in State
  PROVE  /\ Calm(t) \in State /\ Calm(t).notes = t.notes /\ Calm(t).hold = t.hold
         /\ SameFlags(Calm(t), t)
  <1>1. Calm(t) = Recount(t, FALSE, 0)
    BY DEF Calm, Recount
  <1>2. 0 \in {0, 1} /\ FALSE \in BOOLEAN
    OBVIOUS
  <1> QED  BY <1>1, <1>2, Recounted

LEMMA UpsetIsState ==
  ASSUME NEW t \in State
  PROVE  /\ Upset(t) \in State /\ Upset(t).notes = t.notes /\ Upset(t).hold = t.hold
         /\ SameFlags(Upset(t), t)
  <1> DEFINE s == Recount(t, TRUE, 0)
  <1>1. s \in State /\ s.notes = t.notes /\ s.hold = t.hold /\ SameFlags(s, t)
    BY Recounted
  <1>2. Upset(t) = [s EXCEPT !.error = FALSE]
    BY DEF Upset, Recount
  <1> HIDE DEF s
  <1> QED  BY <1>1, <1>2 DEF State, SameFlags

\* What a step of triage decides: a well-formed state with every note, in which
\* a hold is gone only with a note about it, and the tap goes to the team.
Decision(s, to) ==
    /\ Decide(s, to)
    /\ s \in State /\ run.notes \subseteq s.notes /\ SameFlags(s, run)
    /\ run.hold => s.hold \/ "auto" \in s.notes
    /\ s.hold => run.hold
    /\ to \in {"sales", "probe", "escalation", "adversarial"}
    /\ connect' \in BOOLEAN /\ (connect' => s.requires /\ to = "escalation")

LEMMA TriageDecides ==
  ASSUME HInv, pc = "triage", Triage
  PROVE  \E s, to : Decision(s, to)
  <1>0. TypeOK /\ run \in State /\ connect = FALSE
    BY DEF HInv, TypeOK, ConnectEscalates
  <1>1. CASE TriageTap
    <2>1. PICK t \in Seen : Decide(Calm(t), "sales")
      BY <1>1 DEF TriageTap
    <2> DEFINE s == Calm(t)
    <2>2. /\ t \in State /\ run.notes \subseteq t.notes /\ SameFlags(t, run)
          /\ run.hold => t.hold \/ "auto" \in t.notes
          /\ t.hold => run.hold
      BY <1>0, SeenIsState
    <2>3. s \in State /\ s.notes = t.notes /\ s.hold = t.hold /\ SameFlags(s, t)
      BY <2>2, CalmIsState
    <2> HIDE DEF s
    <2>4. Decision(s, "sales")
      BY <1>0, <1>1, <2>1, <2>2, <2>3 DEF Decision, TriageTap, SameFlags, s
    <2> QED  BY <2>4
  <1>2. CASE TriageConnect
    <2> DEFINE S(t) == Recount(t, TRUE, 0)
    <2>1. PICK t \in Seen : Decide(S(t), "escalation")
      BY <1>2 DEF TriageConnect, Recount
    <2>2. S(t) \in State /\ S(t).notes = t.notes /\ S(t).hold = t.hold /\ S(t).requires = TRUE
          /\ SameFlags(S(t), t)
      BY SeenIsState, <1>0, Recounted
    <2> HIDE DEF S
    <2>3. Decision(S(t), "escalation")
      BY <1>0, <1>2, <2>1, <2>2, SeenIsState DEF Decision, TriageConnect, SameFlags
    <2> QED  BY <2>3
  <1>3. CASE TriageFails
    <2> DEFINE s == [run EXCEPT !.requires = TRUE, !.error = TRUE]
    <2>1. Decision(s, "escalation")
      BY <1>0, <1>3 DEF Decision, TriageFails, State, SameFlags
    <2> QED  BY <2>1
  <1>4. CASE TriageGhost
    <2> DEFINE S(t) == [t EXCEPT !.requires = FALSE]
    <2>1. PICK t \in Seen : Decide(S(t), "sales")
      BY <1>4 DEF TriageGhost
    <2>2. Decision(S(t), "sales")
      BY <1>0, <1>4, <2>1, SeenIsState DEF Decision, TriageGhost, State, SameFlags
    <2> QED  BY <2>2
  <1>5. CASE TriageModel
    <2> DEFINE Ask(s) == Recount(s, FALSE, 1)
               Class(s) == [Calm(s) EXCEPT !.requires = TRUE]
    <2>1. PICK t \in Seen :
            \/ Decide(Upset(Reason(t)), "escalation")
            \/ Decide(Class(Reason(t)), "escalation")
            \/ \E to \in {"probe", "escalation"} : Decide(Ask(Reason(t)), to)
            \/ Decide(Calm(Reason(t)), "adversarial")
            \/ Decide(Calm(Reason(t)), "sales")
      BY <1>5 DEF TriageModel, Recount
    <2> DEFINE r == Reason(t)
    <2>2. /\ r \in State /\ run.notes \subseteq r.notes /\ SameFlags(r, run)
          /\ run.hold => r.hold \/ "auto" \in r.notes
          /\ r.hold => run.hold
      BY <1>0, SeenIsState DEF Reason, State, SameFlags
    <2>3. connect' = FALSE
      BY <1>0, <1>5 DEF TriageModel
    <2> HIDE DEF r
    <2>4. \A s \in {Upset(r), Class(r), Ask(r), Calm(r)} :
            /\ s \in State /\ run.notes \subseteq s.notes /\ SameFlags(s, run)
            /\ run.hold => s.hold \/ "auto" \in s.notes
            /\ s.hold => run.hold
      <3>1. Class(r) \in State /\ Class(r).notes = r.notes /\ Class(r).hold = r.hold
            /\ SameFlags(Class(r), r)
        <4> DEFINE c == Calm(r)
        <4>1. c \in State /\ c.notes = r.notes /\ c.hold = r.hold /\ SameFlags(c, r)
          BY <2>2, CalmIsState
        <4> HIDE DEF c
        <4>2. LET s == [c EXCEPT !.requires = TRUE]
              IN  s \in State /\ s.notes = c.notes /\ s.hold = c.hold /\ SameFlags(s, c)
          BY <4>1 DEF State, SameFlags
        <4> QED  BY <4>1, <4>2 DEF c, SameFlags
      <3>2. Ask(r) \in State /\ Ask(r).notes = r.notes /\ Ask(r).hold = r.hold
            /\ SameFlags(Ask(r), r)
        BY <2>2, Recounted
      <3>3. /\ Calm(r) \in State /\ Calm(r).notes = r.notes /\ Calm(r).hold = r.hold
            /\ SameFlags(Calm(r), r)
        BY <2>2, CalmIsState
      <3>4. /\ Upset(r) \in State /\ Upset(r).notes = r.notes /\ Upset(r).hold = r.hold
            /\ SameFlags(Upset(r), r)
        BY <2>2, UpsetIsState
      <3> HIDE DEF Ask, Class
      <3>5. \A s \in {Upset(r), Class(r), Ask(r), Calm(r)} :
              s \in State /\ s.notes = r.notes /\ s.hold = r.hold /\ SameFlags(s, r)
        BY <3>1, <3>2, <3>3, <3>4
      <3> QED  BY <2>2, <3>5 DEF SameFlags
    <2> HIDE DEF Ask, Class
    <2>5. \E s \in {Upset(r), Class(r), Ask(r), Calm(r)},
             to \in {"sales", "probe", "escalation", "adversarial"} : Decide(s, to)
      BY <2>1 DEF r
    <2> QED  BY <2>3, <2>4, <2>5 DEF Decision
  <1> QED  BY <1>1, <1>2, <1>3, <1>4, <1>5 DEF Triage

LEMMA TriageKeepsHInv ==
  ASSUME HInv, pc = "triage", NEW s, NEW to, Decision(s, to)
  PROVE  HInv'
  <1>0. /\ TypeOK /\ s \in State /\ Decide(s, to)
        /\ ckpt' = s /\ run' = s /\ pc' = "node"
        /\ UNCHANGED <<due, decline, commands, rows, accepted, overrun>>
    BY DEF HInv, Decision, Decide, Save, outside, staffOnly
  <1>1. TypeOK'
    <2>1. /\ word' \in {"free", "owed", "told", "missed"} /\ spoilt' \in BOOLEAN
          /\ doubled' \subseteq Kinds
      BY <1>0, SaveTypes DEF Decide
    <2>2. route' \in {"sales", "probe", "escalation", "adversarial"} /\ connect' \in BOOLEAN
      BY DEF Decision, Decide
    <2> QED  BY <1>0, <2>1, <2>2 DEF TypeOK
  <1>2. FlagHasARow'
    BY <1>0 DEF FlagHasARow
  <1>3. ConnectEscalates'
    BY DEF Decision, Decide, ConnectEscalates
  <1>4. AcceptedIsDone'
    BY <1>0 DEF HInv, AcceptedIsDone
  <1>5. CopiesHaveNotes'
    BY <1>0 DEF HInv, CopiesHaveNotes, Safe, Decision
  <1> QED  BY <1>1, <1>2, <1>3, <1>4, <1>5 DEF HInv

-----------------------------------------------------------------------------
(* The answering node.                                                     *)

\* What the node leaves: the run's notes, its hold if there was one, and the
\* one the escalation begins.
Reply(s) ==
    /\ Answer(s)
    /\ s \in State /\ s.notes = run.notes /\ SameFlags(s, run)
    /\ run.hold => s.hold
    /\ s.hold => run.hold \/ s.requires
    /\ route = "escalation" => s.hold \/ run.error

LEMMA NodeReplies ==
  ASSUME TypeOK,
         Escalate \/ AdversarialBlock \/ TapAnswered \/ ModelReplies \/ ModelFails
  PROVE  \E s : Reply(s)
  <1>0. run \in State
    BY DEF TypeOK
  <1>1. CASE Escalate
    <2> DEFINE s == [run EXCEPT !.requires = TRUE, !.hold = @ \/ ~run.error]
    <2>1. Reply(s)
      BY <1>0, <1>1 DEF Escalate, Reply, State, SameFlags
    <2> QED  BY <2>1
  <1>2. CASE AdversarialBlock
    <2> DEFINE s == [run EXCEPT !.requires = FALSE]
    <2>1. Reply(s)
      BY <1>0, <1>2 DEF AdversarialBlock, Reply, State, SameFlags
    <2> QED  BY <2>1
  <1>3. CASE TapAnswered
    <2>1. Reply(run)
      BY <1>0, <1>3 DEF TapAnswered, Reply, SameFlags
    <2> QED  BY <2>1
  <1>4. CASE ModelReplies
    <2> DEFINE S(lead) == [run EXCEPT !.lead = @ \/ lead]
    <2>1. PICK lead \in BOOLEAN : Answer(S(lead))
      BY <1>4 DEF ModelReplies
    <2>2. Reply(S(lead))
      BY <1>0, <1>4, <2>1 DEF ModelReplies, Reply, State, SameFlags
    <2> QED  BY <2>2
  <1>5. CASE ModelFails
    <2> DEFINE e == [run EXCEPT !.requires = TRUE, !.error = TRUE]
    <2>1. Reply(run) \/ Reply(e)
      <3>1. e \in State /\ e.notes = run.notes /\ e.hold = run.hold /\ SameFlags(e, run)
        BY <1>0 DEF State, SameFlags
      <3> HIDE DEF e
      <3>2. Answer(run) \/ Answer(e)
        BY <1>5 DEF ModelFails, e
      <3>3. route # "escalation"
        BY <1>5 DEF ModelFails
      <3> QED  BY <1>0, <3>1, <3>2, <3>3 DEF Reply, SameFlags
    <2> QED  BY <2>1
  <1> QED  BY <1>1, <1>2, <1>3, <1>4, <1>5

LEMMA NodeKeepsHInv ==
  ASSUME HInv, NEW s, Reply(s)
  PROVE  HInv'
  <1>0. /\ TypeOK /\ s \in State /\ Save(s) /\ pc = "node"
        /\ ckpt' = s /\ run' = Blank /\ pc' = "snapshot" /\ route' = "sales" /\ connect' = FALSE
        /\ UNCHANGED <<due, decline, commands, rows, accepted, overrun>>
    BY DEF HInv, Reply, Answer, Save, outside, staffOnly
  <1>1. TypeOK'
    <2>1. /\ word' \in {"free", "owed", "told", "missed"} /\ spoilt' \in BOOLEAN
          /\ doubled' \subseteq Kinds
      BY <1>0, SaveTypes
    <2> QED  BY <1>0, <2>1, BlankIsState DEF TypeOK
  <1>2. FlagHasARow' /\ ConnectEscalates'
    BY <1>0 DEF FlagHasARow, ConnectEscalates
  <1>3. AcceptedIsDone'
    BY <1>0 DEF HInv, AcceptedIsDone
  <1>4. CopiesHaveNotes'
    BY <1>0 DEF HInv, CopiesHaveNotes, Safe, Reply
  <1> QED  BY <1>1, <1>2, <1>3, <1>4 DEF HInv

-----------------------------------------------------------------------------
(* The deliveries after the turn, and the turns that end early.            *)

\* A step that writes no notes, and leaves no node at work.
LEMMA NotesUntouched ==
  ASSUME HInv, ckpt'.notes = ckpt.notes,
         pc' \notin {"triage", "node"} \/ (pc' = pc /\ run' = run),
         UNCHANGED <<commands, accepted, overrun>>
  PROVE  AcceptedIsDone' /\ CopiesHaveNotes'
  BY DEF HInv, AcceptedIsDone, CopiesHaveNotes, Safe

\* EndTurn forgets the run.
LEMMA EndTurnTypes ==
  ASSUME EndTurn
  PROVE  /\ pc' = "idle" /\ run' \in State /\ route' = "sales"
         /\ connect' = FALSE /\ due' \in Seq(Kinds)
         /\ FlagHasARow' /\ ConnectEscalates'
  BY BlankIsState DEF EndTurn, FlagHasARow, ConnectEscalates

LEMMA EndingsKeepHInv ==
  ASSUME HInv, Void \/ TurnRaises \/ SnapshotFails \/ FlagFails \/ Delivered
  PROVE  HInv'
  <1>1. /\ EndTurn
        /\ UNCHANGED <<ckpt, decline, commands, spoilt, rows, accepted, overrun>>
    BY DEF Void, TurnRaises, SnapshotFails, FlagFails, Delivered, outside, staffOnly
  <1>2. /\ word' \in {"free", "owed", "told", "missed"} /\ doubled' \subseteq Kinds
    <2>1. CASE FlagFails
      <3>1. Head(due) \in Kinds /\ TypeOK
        BY <2>1, HeadTailProperties DEF HInv, TypeOK, FlagHasARow, FlagFails
      <3> QED  BY <2>1, <3>1, DoublesTypes DEF TypeOK, FlagFails, Missed
    <2>2. CASE ~FlagFails
      BY <2>2 DEF HInv, TypeOK, Void, TurnRaises, SnapshotFails, Delivered, Missed
    <2> QED  BY <2>1, <2>2
  <1>3. TypeOK'
    BY <1>1, <1>2, EndTurnTypes DEF HInv, TypeOK
  <1> QED  BY <1>1, <1>3, EndTurnTypes, NotesUntouched DEF HInv

\* What the worker finds to deliver is a list of rows.
LEMMA OwedTypes ==
  ASSUME NEW s
  PROVE  Owed(s) \in Seq(Kinds)
  <1>1. /\ <<"lead">> \in Seq(Kinds) /\ <<"escalation">> \in Seq(Kinds) /\ <<>> \in Seq(Kinds)
    BY DEF Kinds
  <1> QED  BY <1>1, ConcatProperties DEF Owed

LEMMA RowTypes ==
  ASSUME TypeOK, NEW k \in Kinds, Row(k)
  PROVE  /\ rows' \in [Kinds -> 0 .. 2]
         /\ word' \in {"free", "owed", "told", "missed"}
  <1>1. rows' \in [Kinds -> 0 .. 2]
    BY DEF TypeOK, Row
  <1> QED  BY <1>1 DEF TypeOK, Row, Missed

LEMMA DeliveriesKeepHInv ==
  ASSUME HInv, Snapshot \/ DeliverRow \/ SetFlag
  PROVE  HInv'
  <1>0. TypeOK
    BY DEF HInv
  <1>1. CASE Snapshot
    <2>1. TypeOK'
      <3>1. doubled' \subseteq Kinds
        BY <1>0, <1>1, DoublesTypes DEF Snapshot, Kinds
      <3> QED  BY <1>0, <1>1, <3>1, OwedTypes DEF TypeOK, Snapshot, outside, staffOnly
    <2>2. FlagHasARow' /\ ConnectEscalates'
      BY <1>1 DEF HInv, Snapshot, FlagHasARow, ConnectEscalates
    <2> QED  BY <1>1, <2>1, <2>2, NotesUntouched DEF HInv, Snapshot, outside, staffOnly
  <1>2. CASE DeliverRow
    <2>1. Head(due) \in Kinds
      BY <1>0, <1>2, HeadTailProperties DEF DeliverRow, TypeOK
    <2>2. /\ rows' \in [Kinds -> 0 .. 2] /\ word' \in {"free", "owed", "told", "missed"}
      BY <1>0, <1>2, <2>1, RowTypes DEF DeliverRow
    <2>3. TypeOK'
      BY <1>0, <1>2, <2>2 DEF TypeOK, DeliverRow, outside, staffOnly
    <2>4. FlagHasARow' /\ ConnectEscalates'
      BY <1>2 DEF HInv, DeliverRow, FlagHasARow, ConnectEscalates
    <2> QED  BY <1>2, <2>3, <2>4, NotesUntouched DEF HInv, DeliverRow, outside, staffOnly
  <1>3. CASE SetFlag
    <2>1. due # <<>> /\ due \in Seq(Kinds) /\ ckpt \in State
      BY <1>0, <1>3 DEF HInv, FlagHasARow, SetFlag, TypeOK
    <2>2. Tail(due) \in Seq(Kinds)
      BY <2>1, HeadTailProperties
    <2>3. PICK s \in State : Save(s) /\ s.notes = ckpt.notes
      <3>1. /\ [ckpt EXCEPT !.leadSent = TRUE] \in State
            /\ [ckpt EXCEPT !.leadSent = TRUE].notes = ckpt.notes
            /\ [ckpt EXCEPT !.sent = TRUE] \in State
            /\ [ckpt EXCEPT !.sent = TRUE].notes = ckpt.notes
        BY <2>1 DEF State
      <3> QED  BY <1>3, <3>1 DEF SetFlag
    <2>4. TypeOK'
      BY <1>0, <1>3, <2>2, <2>3, SaveTypes DEF TypeOK, SetFlag, outside, staffOnly
    <2>5. FlagHasARow' /\ ConnectEscalates'
      BY <1>3 DEF HInv, SetFlag, FlagHasARow, ConnectEscalates
    <2>6. ckpt'.notes = ckpt.notes
      BY <2>3 DEF Save
    <2> QED  BY <1>3, <2>4, <2>5, <2>6, NotesUntouched DEF HInv, SetFlag, outside, staffOnly
  <1> QED  BY <1>1, <1>2, <1>3

\* A message is answered from the latest checkpoint.
LEMMA ReceiveKeepsHInv ==
  ASSUME HInv, ReceiveMessage
  PROVE  HInv'
  <1>1. TypeOK'
    BY DEF HInv, TypeOK, ReceiveMessage, outside, staffOnly
  <1>2. FlagHasARow' /\ ConnectEscalates' /\ AcceptedIsDone'
    BY DEF HInv, ReceiveMessage, FlagHasARow, ConnectEscalates, AcceptedIsDone, outside, staffOnly
  <1>3. CopiesHaveNotes'
    BY DEF HInv, ReceiveMessage, CopiesHaveNotes, Safe, outside, staffOnly
  <1> QED  BY <1>1, <1>2, <1>3 DEF HInv

-----------------------------------------------------------------------------
(* The decline's handler and the commands.                                 *)

\* The handler goes on, or ends; the others stay where they are.
LEMMA GoesTypes ==
  ASSUME TypeOK, NEW h \in Handlers, NEW at \in {"idle", "count", "alert", "row", "flag"},
         NEW n \in 0 .. MaxDeclines,
         decline' = [decline EXCEPT ![h] = [at |-> at, tally |-> n]]
  PROVE  /\ decline' \in [Handlers -> [at : {"idle", "count", "alert", "row", "flag"},
                                       tally : 0 .. MaxDeclines]]
         /\ decline'[h].at = at
         /\ \A g \in Handlers \ {h} : decline'[g] = decline[g]
  <1> DEFINE r == [at |-> at, tally |-> n]
  <1>1. r \in [at : {"idle", "count", "alert", "row", "flag"}, tally : 0 .. MaxDeclines]
        /\ r.at = at
    OBVIOUS
  <1>2. decline' = [decline EXCEPT ![h] = r]
    OBVIOUS
  <1> HIDE DEF r
  <1> QED  BY <1>1, <1>2 DEF TypeOK

LEMMA Goes0 ==
  ASSUME TypeOK, NEW h \in Handlers, NEW at \in {"idle", "count", "alert", "row", "flag"},
         Goes(h, at)
  PROVE  /\ decline' \in [Handlers -> [at : {"idle", "count", "alert", "row", "flag"},
                                       tally : 0 .. MaxDeclines]]
         /\ decline'[h].at = at
         /\ \A g \in Handlers \ {h} : decline'[g] = decline[g]
  <1> PICK n \in 0 .. MaxDeclines : n = 0
    BY DeclinesAreNaturals
  <1>1. decline' = [decline EXCEPT ![h] = [at |-> at, tally |-> n]]
    BY DEF Goes
  <1> QED  BY <1>1, GoesTypes

\* The count is written, and with the last one the escalation.
Count(s, n) == [s EXCEPT !.declines = n]
Escalation(s, n) ==
    [s EXCEPT !.declines = n, !.requires = TRUE, !.hold = TRUE, !.error = FALSE]

LEMMA CountedIsState ==
  ASSUME NEW s \in State, NEW n \in 0 .. MaxDeclines
  PROVE  /\ Count(s, n) \in State /\ Count(s, n).notes = s.notes
         /\ SameFlags(Count(s, n), s)
         /\ Count(s, n).hold = s.hold /\ Count(s, n).requires = s.requires
         /\ Escalation(s, n) \in State /\ Escalation(s, n).notes = s.notes
         /\ SameFlags(Escalation(s, n), s)
         /\ Escalation(s, n).hold = TRUE /\ Escalation(s, n).requires = TRUE
  <1> DEFINE c == Count(s, n)
             e == [c EXCEPT !.requires = TRUE, !.hold = TRUE, !.error = FALSE]
  <1>1. /\ c \in State /\ c.notes = s.notes /\ SameFlags(c, s)
        /\ c.hold = s.hold /\ c.requires = s.requires
    BY DEF Count, State, SameFlags
  <1>2. Escalation(s, n) = e
    BY DEF Escalation, Count
  <1> HIDE DEF c
  <1>3. /\ e \in State /\ e.notes = c.notes /\ SameFlags(e, c)
        /\ e.hold = TRUE /\ e.requires = TRUE
    BY <1>1 DEF State, SameFlags
  <1> HIDE DEF e
  <1>4. SameFlags(e, s)
    BY <1>1, <1>3 DEF SameFlags
  <1> QED  BY <1>1, <1>2, <1>3, <1>4 DEF c

\* What the second write of a handler, or a turn's, puts into the state.
LEMMA SentIsState ==
  ASSUME NEW s \in State
  PROVE  LET t == [s EXCEPT !.sent = TRUE]
         IN  /\ t \in State /\ t.notes = s.notes /\ t.sent = TRUE /\ t.leadSent = s.leadSent
             /\ t.hold = s.hold /\ t.requires = s.requires
  BY DEF State

LEMMA DeclinesKeepHInv ==
  ASSUME HInv, NEW h \in Handlers, Decline(h)
  PROVE  HInv'
  <1>0. TypeOK /\ ckpt \in State
    BY DEF HInv, TypeOK
  <1>1. /\ UNCHANGED <<run, pc, route, connect, due, commands, accepted, overrun>>
    BY DEF Decline, DeclineReads, DeclineWrites, DeclineFails, Alert, AlertRow, AlertFlag,
           turn, staffOnly
  <1>2. decline' \in [Handlers -> [at : {"idle", "count", "alert", "row", "flag"},
                                   tally : 0 .. MaxDeclines]]
    <2>1. CASE DeclineReads(h)
      <3>1. {ckpt.declines + 1, 1} \subseteq 0 .. MaxDeclines
        BY <1>0, <2>1, DeclinesAreNaturals DEF DeclineReads, State
      <3> QED  BY <1>0, <2>1, <3>1, GoesTypes DEF DeclineReads
    <2>2. CASE \E at \in {"idle", "alert", "row", "flag"} : Goes(h, at)
      BY <1>0, <2>2, Goes0
    <2> QED  BY <2>1, <2>2 DEF Decline, DeclineWrites, DeclineFails, Alert, AlertRow, AlertFlag
  <1>3. /\ ckpt' \in State /\ ckpt'.notes = ckpt.notes
        /\ word' \in {"free", "owed", "told", "missed"} /\ spoilt' \in BOOLEAN
        /\ rows' \in [Kinds -> 0 .. 2] /\ doubled' \subseteq Kinds
    <2>1. CASE DeclineReads(h)
      BY <1>0, <2>1 DEF DeclineReads, TypeOK, staffOnly
    <2>2. CASE DeclineWrites(h)
      <3> DEFINE n == decline[h].tally
      <3>1. n \in 0 .. MaxDeclines
        BY <1>0 DEF TypeOK
      <3>2. Save(Count(ckpt, n)) \/ Save(Escalation(ckpt, n))
        BY <2>2 DEF DeclineWrites, Count, Escalation
      <3>3. rows' = rows
        BY <2>2 DEF DeclineWrites
      <3> HIDE DEF n
      <3>4. PICK s \in State : Save(s) /\ s.notes = ckpt.notes
        BY <1>0, <3>1, <3>2, CountedIsState
      <3> QED  BY <1>0, <3>3, <3>4, SaveTypes DEF TypeOK
    <2>3. CASE DeclineFails(h)
      BY <1>0, <2>3 DEF DeclineFails, TypeOK, Missed
    <2>4. CASE Alert(h)
      <3>1. doubled' \subseteq Kinds
        BY <1>0, <2>4, DoublesTypes DEF Alert, TypeOK, Kinds
      <3> QED  BY <1>0, <2>4, <3>1 DEF Alert, TypeOK, Missed
    <2>5. CASE AlertRow(h)
      BY <1>0, <2>5, RowTypes DEF AlertRow, TypeOK, Kinds
    <2>6. CASE AlertFlag(h)
      <3> DEFINE s == [ckpt EXCEPT !.sent = TRUE]
      <3>1. s \in State /\ s.notes = ckpt.notes
        BY <1>0, SentIsState
      <3> HIDE DEF s
      <3>2. rows' = rows
        BY <2>6 DEF AlertFlag
      <3>3. CASE Save(s)
        BY <1>0, <3>1, <3>2, <3>3, SaveTypes DEF TypeOK
      <3>4. CASE UNCHANGED <<ckpt, spoilt>> /\ word' = Missed /\ Doubles("escalation", TRUE)
        <4>1. doubled' \subseteq Kinds
          BY <1>0, <3>4, DoublesTypes DEF Kinds
        <4> QED  BY <1>0, <3>2, <3>4, <4>1 DEF TypeOK, Missed
      <3> QED  BY <2>6, <3>3, <3>4 DEF AlertFlag, s
    <2> QED  BY <2>1, <2>2, <2>3, <2>4, <2>5, <2>6 DEF Decline
  <1>4. TypeOK'
    BY <1>0, <1>1, <1>2, <1>3 DEF TypeOK
  <1>5. FlagHasARow' /\ ConnectEscalates'
    BY <1>1 DEF HInv, FlagHasARow, ConnectEscalates
  <1> QED  BY <1>1, <1>3, <1>4, <1>5, NotesUntouched DEF HInv

LEMMA ReadKeepsHInv ==
  ASSUME HInv, NEW n \in Notes, CommandReads(n)
  PROVE  HInv'
  <1> DEFINE c == [at |-> "read", read |-> ckpt.notes]
  <1>1. /\ TypeOK /\ ckpt \in State /\ commands[n].at = "new"
        /\ commands' = [commands EXCEPT ![n] = c]
        /\ UNCHANGED <<ckpt, run, pc, route, connect, due, decline, word, spoilt, rows,
                       doubled, accepted, overrun>>
    BY DEF HInv, TypeOK, CommandReads, Accepts, turn, staffOnly
  <1>2. c \in [at : {"new", "read", "done"}, read : SUBSET (Notes \cup {"auto"})]
    BY <1>1 DEF State
  <1>3. /\ DOMAIN commands = Notes
        /\ commands' \in [Notes -> [at : {"new", "read", "done"},
                                    read : SUBSET (Notes \cup {"auto"})]]
        /\ \A m \in Notes : commands'[m] = IF m = n THEN c ELSE commands[m]
    <2> HIDE DEF c
    <2> QED  BY <1>1, <1>2 DEF TypeOK
  <1>4. TypeOK'
    BY <1>1, <1>3 DEF TypeOK
  <1>5. FlagHasARow' /\ ConnectEscalates'
    BY <1>1 DEF HInv, FlagHasARow, ConnectEscalates
  <1>6. AcceptedIsDone'
    BY <1>1, <1>3 DEF HInv, AcceptedIsDone, TypeOK
  <1>7. CopiesHaveNotes'
    BY <1>1, <1>3 DEF HInv, CopiesHaveNotes, Safe
  <1> QED  BY <1>4, <1>5, <1>6, <1>7 DEF HInv

LEMMA WriteKeepsHInv ==
  ASSUME HInv, NEW n \in Notes, CommandWrites(n)
  PROVE  HInv'
  <1> DEFINE list == commands[n].read \cup {n}
             b == Back(ckpt, list)
             beside == pc \in {"triage", "node"}
                         \/ \E o \in Notes \ {n} : commands[o].at = "read"
  <1>1. /\ TypeOK /\ ckpt \in State /\ commands[n].at = "read"
        /\ ckpt' = b /\ commands' = [commands EXCEPT ![n] = Done]
        /\ accepted' = accepted \cup {n}
        /\ overrun' = overrun \cup (IF beside THEN {n} ELSE {})
        /\ UNCHANGED <<run, pc, route, connect, due, decline>>
    BY DEF HInv, TypeOK, CommandWrites, turn
  <1>2. list \in SUBSET (Notes \cup {"auto"})
    BY <1>1 DEF TypeOK
  <1>3. b \in State /\ b.notes = list
    <2> HIDE DEF list
    <2>1. 0 \in 0 .. MaxDeclines
      BY DeclinesAreNaturals
    <2> PICK z \in 0 .. MaxDeclines : z = 0
      BY <2>1
    <2> DEFINE s == [ckpt EXCEPT !.hold = FALSE, !.error = FALSE, !.requires = FALSE,
                                 !.declines = z, !.notes = list]
    <2>2. s \in State /\ s.notes = list
      BY <1>1, <1>2 DEF State
    <2>3. b = [s EXCEPT !.leadSent = FALSE, !.sent = FALSE]
      BY DEF Back
    <2> HIDE DEF s
    <2> QED  BY <2>2, <2>3 DEF State
  <1>4. /\ word' = "free" /\ spoilt' = FALSE
        /\ rows' \in [Kinds -> 0 .. 2] /\ doubled' \subseteq Kinds
    <2>1. rows' = [k \in Kinds |-> 0] /\ word' = "free" /\ spoilt' = FALSE
      BY DEF CommandWrites
    <2>2. rows' \in [Kinds -> 0 .. 2]
      BY <2>1
    <2>3. doubled' \subseteq Kinds
      BY DEF CommandWrites, Kinds
    <2> QED  BY <2>1, <2>2, <2>3
  <1>5. Done \in [at : {"new", "read", "done"}, read : SUBSET (Notes \cup {"auto"})]
        /\ Done.at = "done"
    BY DEF Done
  <1>6. /\ DOMAIN commands = Notes
        /\ commands' \in [Notes -> [at : {"new", "read", "done"},
                                    read : SUBSET (Notes \cup {"auto"})]]
        /\ \A m \in Notes : commands'[m] = IF m = n THEN Done ELSE commands[m]
    BY <1>1, <1>5 DEF TypeOK
  <1> HIDE DEF list, b
  <1>7. TypeOK'
    BY <1>1, <1>3, <1>4, <1>6 DEF TypeOK
  <1>8. FlagHasARow' /\ ConnectEscalates'
    BY <1>1 DEF HInv, FlagHasARow, ConnectEscalates
  <1>9. AcceptedIsDone'
    BY <1>1, <1>5, <1>6 DEF HInv, AcceptedIsDone, TypeOK
  <1>10. CopiesHaveNotes'
    <2>1. Safe' \subseteq Safe \cup {n}
      BY <1>1 DEF Safe
    <2>2. Safe' \subseteq ckpt'.notes
      BY <1>1, <1>3, <2>1 DEF HInv, CopiesHaveNotes, list
    <2>3. ASSUME beside PROVE Safe' \subseteq Safe
      BY <1>1, <2>3 DEF Safe
    <2>4. pc' \in {"triage", "node"} => Safe' \subseteq run'.notes
      BY <1>1, <2>3 DEF HInv, CopiesHaveNotes
    <2>5. ASSUME NEW m \in Notes, commands'[m].at = "read"
          PROVE  Safe' \subseteq commands'[m].read
      <3>1. m # n /\ commands[m].at = "read" /\ commands'[m].read = commands[m].read
        BY <1>5, <1>6, <2>5
      <3> QED  BY <2>3, <3>1 DEF HInv, CopiesHaveNotes
    <2> QED  BY <2>2, <2>4, <2>5 DEF CopiesHaveNotes
  <1> QED  BY <1>7, <1>8, <1>9, <1>10 DEF HInv

-----------------------------------------------------------------------------

LEMMA HInvInductive == HInv /\ [Next]_vars => HInv'
  <1> SUFFICES ASSUME HInv, [Next]_vars PROVE HInv'
    OBVIOUS
  <1>1. CASE UNCHANGED vars
    BY <1>1 DEF vars, HInv, TypeOK, FlagHasARow, ConnectEscalates, AcceptedIsDone,
                CopiesHaveNotes, Safe
  <1>2. ASSUME Triage
        PROVE  HInv'
    <2>1. pc = "triage"
      BY <1>2 DEF Triage, TriageTap, TriageConnect, TriageFails, TriageGhost, TriageModel, Decide
    <2> QED  BY <1>2, <2>1, TriageDecides, TriageKeepsHInv
  <1>3. ASSUME Escalate \/ AdversarialBlock \/ TapAnswered \/ ModelReplies \/ ModelFails
        PROVE  HInv'
    BY <1>3, NodeReplies, NodeKeepsHInv DEF HInv
  <1> QED  BY <1>1, <1>2, <1>3, EndingsKeepHInv, DeliveriesKeepHInv, ReceiveKeepsHInv,
              DeclinesKeepHInv, ReadKeepsHInv, WriteKeepsHInv DEF Next, Turn

\* HInv is an inductive invariant.
THEOREM HandoffInvariance == Spec => []HInv
  BY InitHInv, HInvInductive, PTL DEF Spec

\* Every variable keeps its type.
THEOREM HandoffTypes == Spec => []TypeOK
  <1>1. HInv => TypeOK
    BY DEF HInv
  <1> QED  BY <1>1, HandoffInvariance, PTL

\* handoff_control.py appends to the notes it has read: for any number of
\* colleagues and turns, a note nothing was written beside stays.
THEOREM NotesSurvive == Spec => []NotesAreKept
  <1>1. HInv => NotesAreKept
    BY DEF HInv, CopiesHaveNotes, Safe, NotesAreKept
  <1> QED  BY <1>1, HandoffInvariance, PTL

-----------------------------------------------------------------------------
(* What a step does to a hold.                                             *)

\* A step that takes a hold away is triage's, with the note of the time limit;
\* an older run's, writing its own state back; or a command's, accepted now.
LEMMA HoldStep ==
  ASSUME HInv, Next, ckpt.hold, ~ckpt'.hold
  PROVE  \/ accepted' # accepted
         \/ "auto" \in ckpt'.notes
         \/ pc \in {"triage", "node"} /\ ~run.hold
  <1>0. TypeOK /\ ckpt \in State
    BY DEF HInv, TypeOK
  <1>1. CASE Triage
    <2>1. pc = "triage"
      BY <1>1 DEF Triage, TriageTap, TriageConnect, TriageFails, TriageGhost, TriageModel, Decide
    <2>2. PICK s, to : Decision(s, to)
      BY <1>1, <2>1, TriageDecides
    <2> QED  BY <2>1, <2>2 DEF Decision, Decide, Save
  <1>2. CASE Escalate \/ AdversarialBlock \/ TapAnswered \/ ModelReplies \/ ModelFails
    <2>1. PICK s : Reply(s)
      BY <1>0, <1>2, NodeReplies
    <2> QED  BY <2>1 DEF Reply, Answer, Save
  <1>3. ASSUME NEW n \in Notes, CommandWrites(n)
        PROVE  accepted' # accepted
    <2>1. commands[n].at = "read" /\ accepted' = accepted \cup {n}
      BY <1>3 DEF CommandWrites
    <2> QED  BY <2>1 DEF HInv, AcceptedIsDone
  <1>4. CASE SetFlag
    <2>1. ckpt' \in {[ckpt EXCEPT !.leadSent = TRUE], [ckpt EXCEPT !.sent = TRUE]}
      BY <1>4 DEF SetFlag, Save
    <2> QED  BY <1>0, <2>1 DEF State
  <1>5. ASSUME NEW h \in Handlers, AlertFlag(h)
        PROVE  ckpt'.hold
    <2>1. ckpt' \in {ckpt, [ckpt EXCEPT !.sent = TRUE]}
      BY <1>5 DEF AlertFlag, Save
    <2> QED  BY <1>0, <2>1, SentIsState
  <1>6. ASSUME NEW h \in Handlers, DeclineWrites(h)
        PROVE  ckpt'.hold
    <2> DEFINE n == decline[h].tally
    <2>1. ckpt' \in {Count(ckpt, n), Escalation(ckpt, n)}
      BY <1>6 DEF DeclineWrites, Save, Count, Escalation
    <2>2. n \in 0 .. MaxDeclines
      BY <1>0 DEF TypeOK
    <2> HIDE DEF n
    <2> QED  BY <1>0, <2>1, <2>2, CountedIsState
  <1>7. ckpt' # ckpt
    OBVIOUS
  <1> QED  BY <1>1, <1>2, <1>3, <1>4, <1>5, <1>6, <1>7
           DEF Next, Turn, ReceiveMessage, Void, TurnRaises, Snapshot, SnapshotFails, DeliverRow,
               FlagFails, Delivered, Decline, DeclineReads, DeclineFails, Alert, AlertRow,
               CommandReads

\* No hold ends silently: whatever the order of turns, declines and commands, a
\* note tells of it, unless a run older than the hold writes its state back.
THEOREM HoldsEndWithANote == Spec => HoldEndsWithANote
  <1>1. HInv /\ [Next]_vars
          => [ckpt.hold /\ ~ckpt'.hold =>
                \/ accepted' # accepted
                \/ "auto" \in ckpt'.notes
                \/ pc \in {"triage", "node"} /\ ~run.hold]_vars
    BY HoldStep
  <1> QED  BY <1>1, HandoffInvariance, PTL DEF Spec, HoldEndsWithANote

\* triage.py::connect_now and node_human_escalation: the tap has put the thread
\* into a colleague's hands when the turn has answered, but for the old reason.
THEOREM ConnectBeginsAHold == Spec => ConnectHolds
  <1>1. HInv /\ [Next]_vars
          => [connect /\ pc' = "snapshot" => ckpt'.hold \/ run.error]_vars
    <2> SUFFICES ASSUME HInv, Next, connect, pc' = "snapshot"
                 PROVE  ckpt'.hold \/ run.error
      OBVIOUS
    <2>1. pc = "node" /\ route = "escalation" /\ TypeOK
      BY DEF HInv, ConnectEscalates
    <2>2. CASE Escalate \/ AdversarialBlock \/ TapAnswered \/ ModelReplies \/ ModelFails
      <3>1. PICK s : Reply(s)
        BY <2>1, <2>2, NodeReplies
      <3> QED  BY <2>1, <3>1 DEF Reply, Answer, Save
    <2>3. CASE Triage
      BY <2>1, <2>3 DEF Triage, TriageTap, TriageConnect, TriageFails, TriageGhost, TriageModel, Decide
    <2>4. pc' # pc
      BY <2>1
    <2> QED  BY <2>1, <2>2, <2>3, <2>4
             DEF Next, Turn, ReceiveMessage, Void, TurnRaises, EndTurn, Snapshot, SnapshotFails, DeliverRow,
                 SetFlag, FlagFails, Delivered, Decline, DeclineReads, DeclineWrites,
                 DeclineFails, Alert, AlertRow, AlertFlag, turn, CommandReads, CommandWrites
  <1> QED  BY <1>1, HandoffInvariance, PTL DEF Spec, ConnectHolds

-----------------------------------------------------------------------------
(* One row of each kind.                                                   *)

\* The flag that a row of this kind sets.
FlagOf(s, k) == IF k = "lead" THEN s.leadSent ELSE s.sent

\* What is on the worker's list and not delivered: all of it, or all but the
\* first row, whose flag is about to be set.
Listed(k) == \E i \in DOMAIN due : due[i] = k
Waiting(k) ==
    \/ pc = "deliver" /\ Listed(k)
    \/ pc = "flag" /\ Len(due) = 2 /\ k = "escalation"

Lists == {<<>>, <<"lead">>, <<"escalation">>, <<"lead", "escalation">>}

\* A handler is about to deliver a row; one has delivered it, and is about to
\* say so.
Alerting(k) == k = "escalation" /\ \E h \in Handlers : decline[h].at = "row"
Flagging(k) == k = "escalation" /\ \E h \in Handlers : decline[h].at = "flag"

\* A row that came has its flag, or its deliverer is about to set it; a row that
\* is about to come is the first.
RowsHaveFlags(k) ==
    /\ rows[k] \in {0, 1}
    /\ rows[k] = 1 => FlagOf(ckpt, k) \/ Flagging(k) \/ (pc = "flag" /\ due[1] = k)
    /\ Waiting(k) \/ Alerting(k) => rows[k] = 0

\* At most one, of the turn and the handlers, has read "not sent" and has still
\* to set the flag.
OneTells ==
    /\ \A g, h \in Telling : g = h
    /\ TurnTells => Telling = {}

\* The inductive invariant behind TeamIsToldOnce.  Only turns set lead_sent, so
\* the run knows of the lead's row; of the escalation's it may not.
TInv ==
    /\ due \in Lists
    /\ pc \notin {"deliver", "flag"} => due = <<>>
    /\ \A k \in Kinds \ doubled : RowsHaveFlags(k)
    /\ pc \in {"triage", "node"} /\ "lead" \notin doubled /\ rows["lead"] = 1 => run.leadSent
    /\ "escalation" \notin doubled => OneTells

LEMMA InitTInv == Init => TInv
  BY DEF Init, TInv, RowsHaveFlags, OneTells, Telling, TurnTells, Alerting, Flagging, Lists,
         Waiting, Listed, Kinds, Resting

\* The lists, read from the front.
LEMMA ListFacts ==
  ASSUME due \in Lists, due # <<>>
  PROVE  /\ Head(due) = due[1] /\ due[1] \in Kinds
         /\ Listed(due[1])
         /\ Tail(due) \in Lists
         /\ Len(due) = 2 => due[1] = "lead" /\ Listed("escalation") /\ Tail(due) = <<"escalation">>
         /\ Len(due) # 2 => Tail(due) = <<>>
  <1>1. CASE due = <<"lead">>
    BY <1>1 DEF Lists, Kinds, Listed
  <1>2. CASE due = <<"escalation">>
    BY <1>2 DEF Lists, Kinds, Listed
  <1>3. CASE due = <<"lead", "escalation">>
    BY <1>3 DEF Lists, Kinds, Listed
  <1> QED  BY <1>1, <1>2, <1>3 DEF Lists

\* What a save says of the flags.
LEMMA SaveFlags ==
  ASSUME NEW s, Save(s)
  PROVE  /\ ckpt' = s /\ doubled \subseteq doubled' /\ ("lead" \in doubled' => "lead" \in doubled)
         /\ "escalation" \notin doubled' /\ ckpt.sent => s.sent
  BY DEF Save, Doubles

\* A step of a turn that leaves the rows and the handlers alone, and no list of
\* rows: what has a flag keeps it, or may come twice.
LEMMA ToNoList ==
  ASSUME TInv, pc' \notin {"deliver", "flag"}, due' = <<>>, doubled \subseteq doubled',
         rows' = rows, decline' = decline,
         \A k \in Kinds \ doubled' :
            /\ FlagOf(ckpt, k) /\ rows[k] = 1 => FlagOf(ckpt', k)
            /\ ~(pc = "flag" /\ due[1] = k),
         pc' \in {"triage", "node"} /\ "lead" \notin doubled' /\ rows["lead"] = 1 => run'.leadSent
  PROVE  TInv'
  <1>1. due' \in Lists /\ ~TurnTells'
    BY DEF Lists, TurnTells
  <1>2. ASSUME NEW k \in Kinds, k \notin doubled'
        PROVE  RowsHaveFlags(k)'
    <2>1. RowsHaveFlags(k)
      BY <1>2 DEF TInv
    <2>2. ~Waiting(k)' /\ Alerting(k)' = Alerting(k) /\ Flagging(k)' = Flagging(k)
      BY DEF Waiting, Alerting, Flagging
    <2> QED  BY <1>2, <2>1, <2>2 DEF RowsHaveFlags
  <1>3. "escalation" \notin doubled' => OneTells'
    BY <1>1 DEF TInv, OneTells, Telling
  <1> QED  BY <1>1, <1>2, <1>3 DEF TInv

\* The turn up to its answer, and its end.
LEMMA TurnKeepsTInv ==
  ASSUME HInv, TInv,
         \/ ReceiveMessage \/ (\E s, to : Decision(s, to)) \/ (\E s : Reply(s))
         \/ Void \/ TurnRaises \/ SnapshotFails \/ FlagFails \/ Delivered
  PROVE  TInv'
  <1>1. CASE ReceiveMessage
    <2>1. /\ pc = "idle" /\ pc' = "triage" /\ due' = <<>> /\ run' = ckpt
          /\ UNCHANGED <<ckpt, rows, decline, doubled>>
      BY <1>1 DEF TInv, ReceiveMessage, outside
    <2>2. "lead" \notin doubled /\ rows["lead"] = 1 => ckpt.leadSent
      BY <2>1 DEF TInv, RowsHaveFlags, FlagOf, Flagging, Kinds
    <2> QED  BY <2>1, <2>2, ToNoList
  <1>2. ASSUME NEW s, Save(s), SameFlags(s, run), pc \in {"triage", "node"},
               pc' \notin {"deliver", "flag"}, pc' \in {"triage", "node"} => run' = s,
               UNCHANGED <<due, rows, decline>>
        PROVE  TInv'
    <2>1. /\ ckpt' = s /\ doubled \subseteq doubled' /\ due' = <<>>
          /\ "lead" \notin doubled' /\ rows["lead"] = 1 => s.leadSent
          /\ "escalation" \notin doubled' /\ ckpt.sent => s.sent
      BY <1>2, SaveFlags DEF TInv, SameFlags
    <2> QED  BY <1>2, <2>1, ToNoList DEF FlagOf, Kinds
  <1>3. ASSUME NEW s, NEW to, Decision(s, to)
        PROVE  TInv'
    BY <1>2, <1>3 DEF Decision, Decide, outside
  <1>4. ASSUME NEW s, Reply(s)
        PROVE  TInv'
    BY <1>2, <1>4 DEF Reply, Answer, outside
  <1>5. CASE Void \/ TurnRaises \/ SnapshotFails \/ Delivered
    <2>1. /\ pc # "flag" /\ pc' = "idle" /\ due' = <<>>
          /\ UNCHANGED <<ckpt, decline, rows, doubled>>
      BY <1>5 DEF Void, TurnRaises, SnapshotFails, Delivered, EndTurn, outside
    <2> QED  BY <2>1, ToNoList
  <1>6. CASE FlagFails
    <2>1. /\ pc' = "idle" /\ due' = <<>> /\ doubled' = doubled \cup {Head(due)}
          /\ UNCHANGED <<ckpt, decline, rows>>
      BY <1>6 DEF FlagFails, EndTurn, Doubles, outside
    <2>2. Head(due) = due[1]
      BY <1>6, ListFacts DEF TInv, HInv, FlagHasARow, FlagFails
    <2> QED  BY <2>1, <2>2, ToNoList
  <1> QED  BY <1>1, <1>3, <1>4, <1>5, <1>6

\* Both rows on one list.
LEMMA LeadThenEscalation == <<"lead">> \o <<"escalation">> = <<"lead", "escalation">>
  <1> DEFINE a == <<"lead">>
             b == <<"escalation">>
             c == <<"lead", "escalation">>
  <1>1. /\ a \in Seq(Kinds) /\ b \in Seq(Kinds) /\ c \in Seq(Kinds)
        /\ Len(a) = 1 /\ Len(b) = 1 /\ Len(c) = 2
        /\ a[1] = "lead" /\ b[1] = "escalation" /\ c[1] = "lead" /\ c[2] = "escalation"
    BY DEF Kinds
  <1> HIDE DEF a, b, c
  <1>2. /\ a \o b \in Seq(Kinds) /\ Len(a \o b) = 2
        /\ (a \o b)[1] = a[1] /\ (a \o b)[2] = b[1]
    <2>1. /\ a \o b \in Seq(Kinds) /\ Len(a \o b) = Len(a) + Len(b)
          /\ \A i \in 1 .. Len(a) + Len(b) :
                (a \o b)[i] = IF i <= Len(a) THEN a[i] ELSE b[i - Len(a)]
      BY <1>1, ConcatProperties
    <2>2. Len(a) + Len(b) = 2 /\ 1 \in 1 .. 2 /\ 2 \in 1 .. 2 /\ 2 - Len(a) = 1
      BY <1>1
    <2>3. (a \o b)[1] = a[1]
      BY <1>1, <2>1, <2>2
    <2>4. (a \o b)[2] = b[1]
      BY <1>1, <2>1, <2>2
    <2> QED  BY <2>1, <2>2, <2>3, <2>4
  <1>3. a \o b = c
    BY <1>1, <1>2, SeqEqual
  <1> QED  BY <1>3 DEF a, b, c

\* The deliveries: a row is listed because its flag is not set, delivered once,
\* and taken off the list with its flag.
LEMMA DeliveriesKeepTInv ==
  ASSUME HInv, TInv, Snapshot \/ DeliverRow \/ SetFlag
  PROVE  TInv'
  <1>0. /\ ckpt \in State /\ rows \in [Kinds -> 0 .. 2] /\ DOMAIN rows = Kinds /\ due \in Lists
        /\ decline' = decline
    BY DEF HInv, TypeOK, TInv, Snapshot, DeliverRow, SetFlag, outside
  <1>00. Telling' = Telling /\ \A k \in Kinds : /\ Alerting(k)' = Alerting(k)
                                               /\ Flagging(k)' = Flagging(k)
    BY <1>0 DEF Telling, Alerting, Flagging
  <1>1. CASE Snapshot
    <2>1. /\ pc = "snapshot" /\ pc' = "deliver" /\ due' = Owed(ckpt)
          /\ UNCHANGED <<ckpt, rows>> /\ doubled \subseteq doubled'
          /\ "escalation" \notin doubled' /\ ckpt.requires /\ ~ckpt.sent => Telling = {}
      BY <1>1 DEF Snapshot, Doubles
    <2>2. /\ Owed(ckpt) \in Lists
          /\ \A k \in Kinds : (\E i \in DOMAIN Owed(ckpt) : Owed(ckpt)[i] = k) => ~FlagOf(ckpt, k)
          /\ (\E i \in DOMAIN Owed(ckpt) : Owed(ckpt)[i] = "escalation")
               => ckpt.requires /\ ~ckpt.sent
      <3> DEFINE l == ckpt.lead /\ ~ckpt.leadSent
                 e == ckpt.requires /\ ~ckpt.sent
      <3>1. Owed(ckpt) = IF l THEN IF e THEN <<"lead", "escalation">> ELSE <<"lead">>
                              ELSE IF e THEN <<"escalation">> ELSE <<>>
        <4>1. Owed(ckpt) = (IF l THEN <<"lead">> ELSE <<>>) \o (IF e THEN <<"escalation">> ELSE <<>>)
          BY DEF Owed
        <4> HIDE DEF l, e
        <4>2. /\ <<"lead">> \o <<>> = <<"lead">> /\ <<>> \o <<"escalation">> = <<"escalation">>
              /\ <<>> \o <<>> = <<>>
          OBVIOUS
        <4>3. CASE l /\ e
          BY <4>1, <4>3, LeadThenEscalation
        <4>4. CASE l /\ ~e
          BY <4>1, <4>2, <4>4
        <4>5. CASE ~l /\ e
          BY <4>1, <4>2, <4>5
        <4>6. CASE ~l /\ ~e
          BY <4>1, <4>2, <4>6
        <4> QED  BY <4>3, <4>4, <4>5, <4>6
      <3> QED  BY <3>1 DEF Lists, Kinds, FlagOf
    <2>3. /\ \A k \in Kinds : Waiting(k)' => ~FlagOf(ckpt, k)
          /\ TurnTells' => ~FlagOf(ckpt, "escalation")
      BY <2>1, <2>2 DEF Waiting, Listed, TurnTells, Kinds
    <2>4. TurnTells' => ckpt.requires /\ ~ckpt.sent
      BY <2>1, <2>2 DEF TurnTells
    <2>5. ASSUME NEW k \in Kinds, k \notin doubled'
          PROVE  RowsHaveFlags(k)'
      <3>1. RowsHaveFlags(k)
        BY <2>1, <2>5 DEF TInv
      <3>2. Waiting(k)' /\ k = "escalation" => Telling = {}
        BY <2>1, <2>4, <2>5 DEF Waiting, Listed, TurnTells
      <3>3. Waiting(k)' => ~Flagging(k)
        BY <3>2 DEF Flagging, Telling
      <3> QED  BY <1>0, <1>00, <2>1, <2>3, <3>1, <3>3 DEF RowsHaveFlags
    <2>6. "escalation" \notin doubled' => OneTells'
      BY <1>00, <2>1, <2>4 DEF TInv, OneTells
    <2> QED  BY <2>1, <2>2, <2>5, <2>6 DEF TInv
  <1>2. CASE DeliverRow
    <2>1. /\ pc = "deliver" /\ pc' = "flag" /\ due # <<>> /\ due' = due
          /\ rows' = [rows EXCEPT ![Head(due)] = IF @ = 2 THEN 2 ELSE @ + 1]
          /\ UNCHANGED <<ckpt, doubled>>
      BY <1>2 DEF DeliverRow, Row
    <2>2. /\ Head(due) = due[1] /\ due[1] \in Kinds /\ Waiting(due[1])
          /\ Len(due) = 2 => due[1] = "lead" /\ Waiting("escalation")
      BY <1>0, <2>1, ListFacts DEF Waiting
    <2>3. due[1] = "escalation" => TurnTells
      BY <1>0, <2>1, ListFacts DEF TurnTells, Listed
    <2>4. ASSUME NEW k \in Kinds, k \notin doubled
          PROVE  RowsHaveFlags(k)'
      <3>1. RowsHaveFlags(k) /\ (k = "escalation" => OneTells)
        BY <2>4 DEF TInv
      <3>2. CASE k = due[1]
        <4>1. rows'[k] = 1
          BY <1>0, <2>1, <2>2, <3>1, <3>2 DEF RowsHaveFlags
        <4>2. ~Alerting(k)
          BY <2>3, <3>1, <3>2 DEF Alerting, OneTells, Telling
        <4>3. ~Waiting(k)'
          BY <2>1, <2>2, <3>2 DEF Waiting
        <4> QED  BY <1>00, <2>1, <3>2, <4>1, <4>2, <4>3 DEF RowsHaveFlags
      <3>3. CASE k # due[1]
        <4>1. rows'[k] = rows[k]
          BY <1>0, <2>1, <2>2, <3>3
        <4>2. Waiting(k)' => Waiting(k)
          BY <2>1, <2>2 DEF Waiting
        <4> QED  BY <1>00, <2>1, <3>1, <3>3, <4>1, <4>2 DEF RowsHaveFlags
      <3> QED  BY <3>2, <3>3
    <2>5. TurnTells' = TurnTells
      BY <2>1 DEF TurnTells
    <2> QED  BY <1>0, <1>00, <2>1, <2>4, <2>5 DEF TInv, OneTells
  <1>3. CASE SetFlag
    <2> DEFINE s == IF Head(due) = "lead" THEN [ckpt EXCEPT !.leadSent = TRUE]
                                          ELSE [ckpt EXCEPT !.sent = TRUE]
    <2>1. /\ pc = "flag" /\ pc' = "deliver" /\ due' = Tail(due) /\ due # <<>>
          /\ Save(s) /\ rows' = rows
      BY <1>3 DEF HInv, FlagHasARow, SetFlag
    <2>2. /\ Tail(due) \in Lists /\ Head(due) = due[1]
          /\ \A k \in Kinds : Waiting(k)' => Waiting(k)
      BY <1>0, <2>1, ListFacts DEF Waiting, Listed
    <2>3. \A k \in Kinds : FlagOf(s, k) \/ (FlagOf(s, k) = FlagOf(ckpt, k) /\ k # due[1])
      BY <1>0, <2>2, ListFacts, <2>1 DEF FlagOf, State, Kinds
    <2>4. TurnTells' => TurnTells
      <3>1. Tail(due) \in {<<>>, <<"escalation">>} /\ (Tail(due) # <<>> => Listed("escalation"))
        BY <1>0, <2>1, ListFacts
      <3> QED  BY <2>1, <3>1 DEF TurnTells, Listed
    <2> HIDE DEF s
    <2>5. ckpt' = s /\ doubled \subseteq doubled'
      BY <2>1, SaveFlags
    <2>6. ASSUME NEW k \in Kinds, k \notin doubled'
          PROVE  RowsHaveFlags(k)'
      <3>1. RowsHaveFlags(k)
        BY <2>5, <2>6 DEF TInv
      <3> QED  BY <1>00, <2>1, <2>2, <2>3, <2>5, <3>1 DEF RowsHaveFlags
    <2>7. "escalation" \notin doubled' => OneTells'
      BY <1>00, <2>4, <2>5 DEF TInv, OneTells
    <2> QED  BY <2>1, <2>2, <2>6, <2>7 DEF TInv
  <1> QED  BY <1>1, <1>2, <1>3

\* A step that delivers nothing and moves no handler to or from a delivery.
LEMMA NothingDelivered ==
  ASSUME TInv, UNCHANGED <<pc, run, due, rows, doubled>>, SameFlags(ckpt', ckpt),
         \A h \in Handlers : \/ decline'[h] = decline[h]
                             \/ {decline[h].at, decline'[h].at} \cap {"row", "flag"} = {}
  PROVE  TInv'
  <1>1. /\ Telling' = Telling /\ TurnTells' = TurnTells
        /\ \A k \in Kinds : Alerting(k)' = Alerting(k) /\ Flagging(k)' = Flagging(k)
    BY DEF Telling, Alerting, Flagging, TurnTells
  <1>2. \A k \in Kinds : Waiting(k)' = Waiting(k) /\ FlagOf(ckpt', k) = FlagOf(ckpt, k)
    BY DEF Waiting, Listed, FlagOf, SameFlags
  <1>3. \A k \in Kinds : RowsHaveFlags(k) => RowsHaveFlags(k)'
    BY <1>1, <1>2 DEF RowsHaveFlags
  <1> QED  BY <1>1, <1>3 DEF TInv, OneTells

\* The decline's handlers.
LEMMA DeclinesKeepTInv ==
  ASSUME HInv, TInv, NEW h \in Handlers, Decline(h)
  PROVE  TInv'
  <1>0. /\ TypeOK /\ ckpt \in State /\ rows \in [Kinds -> 0 .. 2] /\ DOMAIN rows = Kinds
        /\ UNCHANGED <<pc, run, due>>
    BY DEF HInv, TypeOK, Decline, DeclineReads, DeclineWrites, DeclineFails, Alert, AlertRow,
           AlertFlag, turn
  <1>00. TurnTells' = TurnTells /\ \A k \in Kinds : Waiting(k)' = Waiting(k)
    BY <1>0 DEF TurnTells, Waiting, Listed
  <1>1. CASE DeclineReads(h)
    <2>1. decline[h].at = "idle" /\ UNCHANGED <<ckpt, rows, doubled>>
      BY <1>1 DEF DeclineReads
    <2>2. PICK n \in 0 .. MaxDeclines : decline' = [decline EXCEPT ![h] = [at |-> "count", tally |-> n]]
      <3>1. {ckpt.declines + 1, 1} \subseteq 0 .. MaxDeclines
        BY <1>0, <1>1, DeclinesAreNaturals DEF DeclineReads, State
      <3> QED  BY <1>1, <3>1 DEF DeclineReads
    <2>3. decline'[h].at = "count" /\ \A g \in Handlers \ {h} : decline'[g] = decline[g]
      BY <1>0, <2>2, GoesTypes
    <2> QED  BY <1>0, <2>1, <2>3, NothingDelivered DEF SameFlags
  <1>2. CASE DeclineWrites(h)
    <2> DEFINE n == decline[h].tally
    <2>1. n \in 0 .. MaxDeclines /\ decline[h].at = "count" /\ rows' = rows
      BY <1>0, <1>2 DEF TypeOK, DeclineWrites
    <2>2. \E at \in {"idle", "alert"} : Goes(h, at)
      BY <1>2 DEF DeclineWrites
    <2>3. Save(Count(ckpt, n)) \/ Save(Escalation(ckpt, n))
      BY <1>2 DEF DeclineWrites, Count, Escalation
    <2> HIDE DEF n
    <2>4. PICK s : Save(s) /\ SameFlags(s, ckpt)
      BY <1>0, <2>1, <2>3, CountedIsState
    <2>5. ckpt' = s /\ doubled' = doubled
      BY <2>4 DEF Save, Doubles, SameFlags
    <2>6. /\ decline'[h].at \in {"idle", "alert"}
          /\ \A g \in Handlers \ {h} : decline'[g] = decline[g]
      BY <1>0, <2>2, Goes0
    <2> QED  BY <1>0, <2>1, <2>4, <2>5, <2>6, NothingDelivered
  <1>3. CASE DeclineFails(h)
    <2>1. /\ decline[h].at \in {"count", "alert"} /\ Goes(h, "idle")
          /\ UNCHANGED <<ckpt, rows, doubled>>
      BY <1>3 DEF DeclineFails
    <2>2. decline'[h].at = "idle" /\ \A g \in Handlers \ {h} : decline'[g] = decline[g]
      BY <1>0, <2>1, Goes0
    <2> QED  BY <1>0, <2>1, <2>2, NothingDelivered DEF SameFlags
  <1>4. CASE Alert(h)
    <2>1. decline[h].at = "alert" /\ UNCHANGED <<ckpt, rows>>
      BY <1>4 DEF Alert
    <2>2. CASE Goes(h, "idle") /\ UNCHANGED doubled
      <3>1. decline'[h].at = "idle" /\ \A g \in Handlers \ {h} : decline'[g] = decline[g]
        BY <1>0, <2>2, Goes0
      <3> QED  BY <1>0, <2>1, <2>2, <3>1, NothingDelivered DEF SameFlags
    <2>3. CASE ~ckpt.sent /\ Goes(h, "row") /\ Doubles("escalation", TurnTells \/ Telling # {})
      <3>1. decline'[h].at = "row" /\ \A g \in Handlers \ {h} : decline'[g] = decline[g]
        BY <1>0, <2>3, Goes0
      <3>2. /\ doubled \subseteq doubled' /\ ("lead" \in doubled' => "lead" \in doubled)
            /\ "escalation" \notin doubled' => ~TurnTells /\ Telling = {}
        BY <2>3 DEF Doubles
      <3>3. Telling' = Telling \cup {h}
        BY <3>1 DEF Telling
      <3>4. ASSUME NEW k \in Kinds, k \notin doubled'
            PROVE  RowsHaveFlags(k)'
        <4>1. RowsHaveFlags(k)
          BY <3>2, <3>4 DEF TInv
        <4>2. CASE k = "lead"
          BY <1>0, <1>00, <2>1, <4>1, <4>2 DEF RowsHaveFlags, Alerting, Flagging
        <4>3. CASE k = "escalation"
          <5>1. ~Flagging(k)
            BY <3>2, <3>4, <4>3 DEF Flagging, Telling
          <5>2. ~(pc = "flag" /\ due[1] = k)
            BY <3>2, <3>4, <4>3, ListFacts DEF TInv, TurnTells, Listed, HInv, FlagHasARow
          <5>3. rows[k] = 0
            BY <2>3, <4>1, <4>3, <5>1, <5>2 DEF RowsHaveFlags, FlagOf
          <5> QED  BY <2>1, <5>3 DEF RowsHaveFlags
        <4> QED  BY <4>2, <4>3 DEF Kinds
      <3>5. "escalation" \notin doubled' => OneTells'
        BY <1>00, <3>2, <3>3 DEF OneTells
      <3> QED  BY <1>0, <2>1, <3>2, <3>4, <3>5 DEF TInv
    <2> QED  BY <1>4, <2>2, <2>3 DEF Alert
  <1>5. CASE AlertRow(h)
    <2>1. /\ decline[h].at = "row" /\ Goes(h, "flag") /\ UNCHANGED <<ckpt, doubled>>
          /\ rows' = [rows EXCEPT !["escalation"] = IF @ = 2 THEN 2 ELSE @ + 1]
      BY <1>5 DEF AlertRow, Row
    <2>2. decline'[h].at = "flag" /\ \A g \in Handlers \ {h} : decline'[g] = decline[g]
      BY <1>0, <2>1, Goes0
    <2>3. h \in Telling /\ Telling' = Telling
      BY <2>1, <2>2 DEF Telling
    <2>4. rows'["lead"] = rows["lead"]
      BY <1>0, <2>1 DEF Kinds
    <2>5. ASSUME NEW k \in Kinds, k \notin doubled
          PROVE  RowsHaveFlags(k)'
      <3>1. RowsHaveFlags(k)
        BY <2>5 DEF TInv
      <3>2. CASE k = "lead"
        BY <1>0, <1>00, <2>1, <2>4, <3>1, <3>2 DEF RowsHaveFlags, Alerting, Flagging
      <3>3. CASE k = "escalation"
        <4>1. Telling = {h} /\ ~TurnTells
          BY <2>3, <2>5, <3>3 DEF TInv, OneTells
        <4>2. rows'[k] = 1
          BY <1>0, <2>1, <3>1, <3>3 DEF RowsHaveFlags, Alerting
        <4>3. ~Alerting(k)' /\ Flagging(k)'
          BY <2>2, <2>3, <3>3, <4>1 DEF Alerting, Flagging, Telling
        <4>4. ~Waiting(k)'
          <5>1. Len(due) = 2 => Listed("escalation")
            <6>1. due \in Lists
              BY DEF TInv
            <6>2. Len(due) = 2 => due # <<>>
              OBVIOUS
            <6> QED  BY <6>1, <6>2, ListFacts
          <5>2. ~Listed("escalation")
            BY <4>1 DEF TurnTells, Listed
          <5> QED  BY <1>00, <3>3, <5>1, <5>2 DEF Waiting
        <4> QED  BY <4>2, <4>3, <4>4 DEF RowsHaveFlags
      <3> QED  BY <3>2, <3>3 DEF Kinds
    <2> QED  BY <1>0, <1>00, <2>1, <2>3, <2>4, <2>5 DEF TInv, OneTells
  <1>6. CASE AlertFlag(h)
    <2> DEFINE s == [ckpt EXCEPT !.sent = TRUE]
    <2>1. decline[h].at = "flag" /\ Goes(h, "idle") /\ rows' = rows
      BY <1>6 DEF AlertFlag
    <2>2. decline'[h].at = "idle" /\ \A g \in Handlers \ {h} : decline'[g] = decline[g]
      BY <1>0, <2>1, Goes0
    <2>3. Telling' \subseteq Telling
      BY <2>2 DEF Telling
    <2>4. s.sent = TRUE /\ s.leadSent = ckpt.leadSent
      BY <1>0, SentIsState
    <2>5. Save(s) \/ (Doubles("escalation", TRUE) /\ ckpt' = ckpt)
      BY <1>6 DEF AlertFlag
    <2> HIDE DEF s
    <2>6. /\ doubled \subseteq doubled' /\ ("lead" \in doubled' => "lead" \in doubled)
          /\ ckpt'.leadSent = ckpt.leadSent
          /\ "escalation" \notin doubled' => ckpt'.sent
      BY <2>4, <2>5, SaveFlags DEF Doubles
    <2>7. ASSUME NEW k \in Kinds, k \notin doubled'
          PROVE  RowsHaveFlags(k)'
      <3>1. RowsHaveFlags(k)
        BY <2>6, <2>7 DEF TInv
      <3>2. CASE k = "lead"
        BY <1>0, <1>00, <2>1, <2>6, <3>1, <3>2 DEF RowsHaveFlags, FlagOf, Alerting, Flagging
      <3>3. CASE k = "escalation"
        <4>1. Alerting(k)' => Alerting(k)
          BY <2>2 DEF Alerting
        <4> QED  BY <1>00, <2>1, <2>6, <2>7, <3>1, <3>3, <4>1 DEF RowsHaveFlags, FlagOf
      <3> QED  BY <3>2, <3>3 DEF Kinds
    <2>8. "escalation" \notin doubled' => OneTells'
      BY <1>00, <2>3, <2>6 DEF TInv, OneTells
    <2> QED  BY <1>0, <2>1, <2>6, <2>7, <2>8 DEF TInv
  <1> QED  BY <1>1, <1>2, <1>3, <1>4, <1>5, <1>6 DEF Decline

\* The commands: a release counts the rows anew, with who is about to deliver.
LEMMA CommandsKeepTInv ==
  ASSUME HInv, TInv, \E n \in Notes : CommandReads(n) \/ CommandWrites(n)
  PROVE  TInv'
  <1>1. ASSUME NEW n \in Notes, CommandReads(n)
        PROVE  TInv'
    BY <1>1, NothingDelivered DEF CommandReads, turn, SameFlags
  <1>2. ASSUME NEW n \in Notes, CommandWrites(n)
        PROVE  TInv'
    <2>1. /\ rows' = [k \in Kinds |-> 0] /\ UNCHANGED <<due, pc, decline>>
          /\ "escalation" \notin doubled' => ~Crowded
      BY <1>2 DEF CommandWrites, turn
    <2>2. \A k \in Kinds : rows'[k] = 0
      BY <2>1
    <2>3. ASSUME "escalation" \notin doubled'
          PROVE  OneTells'
      <3>1. Telling' = Telling /\ TurnTells' = TurnTells
        BY <2>1 DEF Telling, TurnTells
      <3>2. \A h \in Telling : ~TurnTells /\ Telling = {h}
        BY <2>1, <2>3 DEF Crowded
      <3> QED  BY <3>1, <3>2 DEF OneTells
    <2> QED  BY <2>1, <2>2, <2>3 DEF TInv, RowsHaveFlags, Kinds
  <1> QED  BY <1>1, <1>2

\* TInv is an inductive invariant, beside HInv.
THEOREM RowsInvariance == Spec => []TInv
  <1>1. HInv /\ TInv /\ [Next]_vars => TInv'
    <2> SUFFICES ASSUME HInv, TInv, [Next]_vars PROVE TInv'
      OBVIOUS
    <2>1. CASE UNCHANGED vars
      BY <2>1, NothingDelivered DEF vars, SameFlags
    <2>2. ASSUME Triage
          PROVE  TInv'
      <3>1. pc = "triage"
        BY <2>2 DEF Triage, TriageTap, TriageConnect, TriageFails, TriageGhost, TriageModel, Decide
      <3> QED  BY <2>2, <3>1, TriageDecides, TurnKeepsTInv
    <2>3. ASSUME Escalate \/ AdversarialBlock \/ TapAnswered \/ ModelReplies \/ ModelFails
          PROVE  TInv'
      BY <2>3, NodeReplies, TurnKeepsTInv DEF HInv
    <2> QED  BY <2>1, <2>2, <2>3, TurnKeepsTInv, DeliveriesKeepTInv, DeclinesKeepTInv,
              CommandsKeepTInv DEF Next, Turn
  <1> QED  BY <1>1, InitTInv, HandoffInvariance, PTL DEF Spec

\* processing.py::_process_leads_and_handoffs and the decline's alert: between two
\* releases the team gets one row of each kind, however turns, any number of
\* declines and commands interleave, unless a flag is not written; for the
\* escalation, nor is its flag taken back by an older turn, nor have two (two
\* handlers of declines, or one and a turn) read it before either sets it.
THEOREM TeamToldOnce == Spec => []TeamIsToldOnce
  <1>1. TInv => TeamIsToldOnce
    BY DEF TInv, RowsHaveFlags, TeamIsToldOnce
  <1> QED  BY <1>1, RowsInvariance, PTL

-----------------------------------------------------------------------------
(* A hold is reported.                                                     *)

\* Somebody is still to deliver a row about the present hold.
UnderWay ==
    \/ \E h \in Handlers : decline[h].at \in {"alert", "row"}
    \/ pc = "snapshot" /\ ckpt.requires
    \/ Waiting("escalation")

\* What the team knows of the present hold, and whether escalation_sent says so.
Reported ==
    /\ word = "free" <=> ~ckpt.hold
    /\ spoilt => ckpt.sent
    /\ ckpt.sent => spoilt \/ word \in {"told", "missed"}
    /\ pc \in {"triage", "node"} =>
         /\ run.sent => ckpt.sent
         /\ run.hold => ckpt.hold
         /\ run.hold /\ ckpt.sent /\ word = "owed" => run.sent \/ UnderWay
    /\ word = "owed" => spoilt \/ UnderWay

\* The inductive invariant behind HoldReachesTeam.
WInv == overrun # {} \/ Reported

LEMMA InitWInv == Init => WInv
  BY DEF Init, Blank, WInv, Reported

\* A save, in terms of what the invariant reads.
LEMMA SaveReports ==
  ASSUME TypeOK, Reported, NEW s \in State, Save(s), s.sent => ckpt.sent
  PROVE  /\ ckpt' = s
         /\ word' = "free" <=> ~s.hold
         /\ word' = "owed" => ~ckpt.hold \/ word = "owed"
         /\ ckpt.hold /\ s.hold => word' = word
         /\ spoilt' => s.sent
         /\ s.sent => spoilt' \/ word' \in {"told", "missed"}
         /\ s.sent /\ spoilt => spoilt'
  <1>1. ckpt' = s /\ word' = Owing(s) /\ word \in {"free", "owed", "told", "missed"}
    BY DEF Save, TypeOK
  <1>2. /\ word' = "free" <=> ~s.hold
        /\ word' = "owed" => ~ckpt.hold \/ word = "owed"
        /\ ckpt.hold /\ s.hold => word' = word
    BY <1>1 DEF Owing, Reported
  <1>3. /\ spoilt' => s.sent
        /\ s.sent /\ spoilt => spoilt'
        /\ s.sent /\ ckpt.hold /\ ~s.hold => spoilt'
    BY DEF Save
  <1>4. s.sent => spoilt' \/ word' \in {"told", "missed"}
    BY <1>2, <1>3 DEF Reported
  <1> QED  BY <1>1, <1>2, <1>3, <1>4

\* The turn up to its answer: a hold begins with the team's row ahead of it.
LEMMA TurnReports ==
  ASSUME HInv, Reported, overrun' = {},
         \/ ReceiveMessage
         \/ (pc = "triage" /\ \E s, to : Decision(s, to))
         \/ (\E s : Reply(s))
  PROVE  Reported'
  <1>0. TypeOK /\ ckpt \in State /\ run \in State
    BY DEF HInv, TypeOK
  <1>1. CASE ReceiveMessage
    BY <1>1 DEF Reported, ReceiveMessage, UnderWay, Waiting, outside
  <1>2. ASSUME NEW s, NEW to, Decision(s, to), pc = "triage"
        PROVE  Reported'
    <2>1. /\ s \in State /\ Save(s) /\ s.sent = run.sent /\ (s.hold => run.hold)
          /\ run' = s /\ pc' = "node" /\ decline' = decline
      BY <1>2 DEF Decision, Decide, SameFlags, outside
    <2>2. (s.sent => ckpt.sent) /\ (s.hold => ckpt.hold)
      BY <1>2, <2>1 DEF Reported
    <2>3. word' = "owed" => word = "owed" /\ s.hold
      BY <1>0, <2>1, <2>2, SaveReports
    <2>4. word' = "owed" => spoilt' \/ UnderWay'
      <3> SUFFICES ASSUME word' = "owed" PROVE spoilt' \/ UnderWay'
        OBVIOUS
      <3>1. (spoilt /\ s.sent) \/ UnderWay
        BY <1>2, <2>1, <2>3 DEF Reported
      <3>2. CASE spoilt /\ s.sent
        BY <1>0, <2>1, <2>2, <3>2, SaveReports
      <3>3. CASE UnderWay
        BY <1>2, <2>1, <3>3 DEF UnderWay, Waiting
      <3> QED  BY <3>1, <3>2, <3>3
    <2> QED  BY <1>0, <2>1, <2>2, <2>4, SaveReports DEF Reported
  <1>3. ASSUME NEW s, Reply(s)
        PROVE  Reported'
    <2>1. /\ pc = "node" /\ s \in State /\ Save(s) /\ s.sent = run.sent
          /\ (s.hold => run.hold \/ s.requires)
          /\ pc' = "snapshot" /\ decline' = decline
      BY <1>3 DEF Reply, Answer, SameFlags, outside
    <2>2. s.sent => ckpt.sent
      BY <2>1 DEF Reported
    <2>3. word' = "owed" => spoilt' \/ UnderWay'
      <3> SUFFICES ASSUME word' = "owed" PROVE spoilt' \/ UnderWay'
        OBVIOUS
      <3>1. s.hold /\ ckpt' = s
        BY <1>0, <2>1, <2>2, SaveReports
      <3>2. CASE ~run.hold
        BY <2>1, <3>1, <3>2 DEF UnderWay
      <3>3. CASE run.hold
        <4>1. word = "owed"
          BY <1>0, <2>1, <2>2, <3>1, <3>3, SaveReports DEF Reported
        <4>2. (spoilt /\ s.sent) \/ UnderWay
          BY <2>1, <3>3, <4>1 DEF Reported
        <4>3. CASE spoilt /\ s.sent
          BY <1>0, <2>1, <2>2, <4>3, SaveReports
        <4>4. CASE UnderWay
          BY <2>1, <4>4 DEF UnderWay, Waiting
        <4> QED  BY <4>2, <4>3, <4>4
      <3> QED  BY <3>2, <3>3
    <2> QED  BY <1>0, <2>1, <2>2, <2>3, SaveReports DEF Reported
  <1> QED  BY <1>1, <1>2, <1>3

\* The deliveries: the row that is listed for a hold reaches the team, or what
\* keeps it back is remembered.
LEMMA DeliveriesReport ==
  ASSUME HInv, TInv, Reported,
         \/ Snapshot \/ DeliverRow \/ SetFlag
         \/ Void \/ TurnRaises \/ SnapshotFails \/ FlagFails \/ Delivered
  PROVE  Reported'
  <1>0. TypeOK /\ ckpt \in State /\ due \in Lists
    BY DEF HInv, TypeOK, TInv
  <1>1. CASE Snapshot
    <2>1. /\ pc = "snapshot" /\ pc' = "deliver" /\ due' = Owed(ckpt)
          /\ UNCHANGED <<ckpt, decline, word, spoilt>>
      BY <1>1 DEF Snapshot, outside
    <2>2. ckpt.requires /\ ~ckpt.sent => Waiting("escalation")'
      <3>1. ckpt.requires /\ ~ckpt.sent =>
              Owed(ckpt) \in {<<"escalation">>, <<"lead", "escalation">>}
        <4> SUFFICES ASSUME ckpt.requires, ~ckpt.sent
                     PROVE  Owed(ckpt) \in {<<"escalation">>, <<"lead", "escalation">>}
          OBVIOUS
        <4>1. <<>> \o <<"escalation">> = <<"escalation">>
          OBVIOUS
        <4>2. CASE ckpt.lead /\ ~ckpt.leadSent
          BY <4>2, LeadThenEscalation DEF Owed
        <4>3. CASE ~(ckpt.lead /\ ~ckpt.leadSent)
          BY <4>1, <4>3 DEF Owed
        <4> QED  BY <4>2, <4>3
      <3> QED  BY <2>1, <3>1 DEF Waiting, Listed
    <2>3. word = "owed" => spoilt \/ UnderWay'
      BY <2>1, <2>2 DEF Reported, UnderWay, Waiting
    <2> QED  BY <2>1, <2>3 DEF Reported
  <1>2. CASE DeliverRow
    <2>1. /\ pc = "deliver" /\ pc' = "flag" /\ due # <<>> /\ due' = due
          /\ UNCHANGED <<ckpt, decline, spoilt>> /\ Row(Head(due))
      BY <1>2 DEF DeliverRow, outside
    <2>2. (word' \in {"told", "missed"} /\ ckpt.hold) \/ word' = word
      BY <1>0, <2>1 DEF Row, Missed, Reported, TypeOK
    <2>3. word' = "owed" => spoilt \/ UnderWay'
      <3> SUFFICES ASSUME word' = "owed", ~spoilt PROVE UnderWay'
        OBVIOUS
      <3>1. word = "owed" /\ ckpt.hold /\ UnderWay
        BY <2>2 DEF Reported
      <3>2. Head(due) # "escalation"
        BY <2>1, <3>1 DEF Row, Missed
      <3>3. Len(due) = 2 \/ ~Listed("escalation")
        BY <1>0, <2>1, <3>2 DEF Lists, Listed
      <3> QED  BY <2>1, <3>1, <3>3 DEF UnderWay, Waiting
    <2> QED  BY <2>1, <2>2, <2>3 DEF Reported
  <1>3. CASE SetFlag
    <2> DEFINE s == IF Head(due) = "lead" THEN [ckpt EXCEPT !.leadSent = TRUE]
                                          ELSE [ckpt EXCEPT !.sent = TRUE]
    <2>1. /\ pc = "flag" /\ pc' = "deliver" /\ due' = Tail(due) /\ due # <<>>
          /\ Save(s) /\ decline' = decline
      BY <1>3 DEF HInv, FlagHasARow, SetFlag, outside
    <2>2. Waiting("escalation") => Waiting("escalation")'
      BY <1>0, <2>1, ListFacts DEF Waiting, Listed
    <2>3. CASE Head(due) = "lead"
      <3>1. s \in State /\ s.sent = ckpt.sent /\ s.hold = ckpt.hold /\ s.requires = ckpt.requires
        BY <1>0, <2>3 DEF State
      <3> HIDE DEF s
      <3> QED  BY <1>0, <2>1, <2>2, <3>1, SaveReports DEF Reported, UnderWay
    <2>4. CASE Head(due) # "lead"
      <3>1. s \in State /\ s.sent = TRUE /\ s.hold = ckpt.hold /\ s.requires = ckpt.requires
        BY <1>0, <2>4 DEF State
      <3>2. word' = word /\ ckpt' = s
        BY <1>0, <2>1, <3>1 DEF Save, Owing, Reported
      <3> HIDE DEF s
      <3>3. /\ spoilt => spoilt'
            /\ ~ckpt.sent /\ ~s.hold => spoilt'
            /\ ~ckpt.sent /\ Escalating # {} /\ word = "owed" => spoilt'
        BY <2>1, <3>1 DEF Save
      <3>4. ~Waiting("escalation") /\ pc # "snapshot"
        BY <1>0, <2>1, <2>4, ListFacts DEF Waiting
      <3>5. word = "owed" => spoilt'
        BY <3>3, <3>4 DEF Reported, UnderWay, Escalating
      <3>6. word = "free" => spoilt'
        BY <3>1, <3>3 DEF Reported
      <3>7. word \in {"free", "owed", "told", "missed"}
        BY <1>0 DEF TypeOK
      <3> QED  BY <2>1, <3>1, <3>2, <3>5, <3>6, <3>7 DEF Reported
    <2> QED  BY <2>3, <2>4
  <1>4. CASE Void
    BY <1>4 DEF Void, EndTurn, Reported, UnderWay, Waiting, outside
  <1>5. CASE TurnRaises \/ SnapshotFails \/ FlagFails
    <2>1. /\ pc' = "idle" /\ UNCHANGED <<ckpt, decline, spoilt>>
          /\ word' = IF word = "owed" THEN "missed" ELSE word
      BY <1>5 DEF TurnRaises, SnapshotFails, FlagFails, EndTurn, Missed, outside
    <2> QED  BY <2>1 DEF Reported
  <1>6. CASE Delivered
    <2>1. /\ pc = "deliver" /\ due = <<>> /\ pc' = "idle" /\ UNCHANGED <<ckpt, decline, spoilt, word>>
      BY <1>6 DEF Delivered, EndTurn, outside
    <2>2. ~Waiting("escalation")
      BY <2>1 DEF Waiting, Listed
    <2> QED  BY <2>1, <2>2 DEF Reported, UnderWay
  <1> QED  BY <1>1, <1>2, <1>3, <1>4, <1>5, <1>6

\* The declines' handlers: one that takes the thread away has the team's row
\* ahead of it, until it delivers it, fails, or finds the flag set.
LEMMA DeclinesReport ==
  ASSUME HInv, Reported, NEW h \in Handlers, Decline(h)
  PROVE  Reported'
  <1>0. /\ TypeOK /\ ckpt \in State /\ word \in {"free", "owed", "told", "missed"}
        /\ UNCHANGED <<pc, run, due>>
    BY DEF HInv, TypeOK, Decline, DeclineReads, DeclineWrites, DeclineFails, Alert, AlertRow,
           AlertFlag, turn
  <1>00. Waiting("escalation")' = Waiting("escalation")
    BY <1>0 DEF Waiting, Listed
  <1>1. ASSUME decline[h].at \in {"alert", "row"} => decline'[h].at \in {"alert", "row"},
               \A g \in Handlers \ {h} : decline'[g] = decline[g],
               pc = "snapshot" /\ ckpt.requires => ckpt'.requires
        PROVE  UnderWay => UnderWay'
    BY <1>0, <1>00, <1>1 DEF UnderWay
  <1>2. CASE DeclineReads(h)
    <2>1. decline[h].at = "idle" /\ UNCHANGED <<ckpt, word, spoilt>>
      BY <1>2 DEF DeclineReads
    <2>2. \A g \in Handlers \ {h} : decline'[g] = decline[g]
      BY <1>0, <1>2 DEF DeclineReads, TypeOK
    <2>3. UnderWay => UnderWay'
      BY <1>1, <2>1, <2>2
    <2> QED  BY <1>0, <2>1, <2>3 DEF Reported
  <1>3. CASE DeclineWrites(h)
    <2> DEFINE n == decline[h].tally
    <2>1. n \in 0 .. MaxDeclines /\ decline[h].at = "count"
      BY <1>0, <1>3 DEF TypeOK, DeclineWrites
    <2>2. \/ Save(Count(ckpt, n)) /\ Goes(h, "idle")
          \/ Save(Escalation(ckpt, n)) /\ Goes(h, "alert")
      BY <1>3 DEF DeclineWrites, Count, Escalation
    <2> DEFINE c == Count(ckpt, n)
               e == Escalation(ckpt, n)
    <2>3. /\ c \in State /\ c.sent = ckpt.sent /\ c.hold = ckpt.hold /\ c.requires = ckpt.requires
          /\ e \in State /\ e.sent = ckpt.sent /\ e.hold = TRUE /\ e.requires = TRUE
      BY <1>0, <2>1, CountedIsState DEF SameFlags
    <2> HIDE DEF c, e, n
    <2>4. CASE Save(c) /\ Goes(h, "idle")
      <3>1. word' = word /\ ckpt' = c
        BY <1>0, <2>3, <2>4 DEF Save, Owing, Reported
      <3>2. \A g \in Handlers \ {h} : decline'[g] = decline[g]
        BY <1>0, <2>4, Goes0
      <3>3. UnderWay => UnderWay'
        BY <1>1, <2>1, <2>3, <3>1, <3>2
      <3> QED  BY <1>0, <2>3, <2>4, <3>1, <3>3, SaveReports DEF Reported
    <2>5. CASE Save(e) /\ Goes(h, "alert")
      <3>1. ckpt' = e
        BY <2>5 DEF Save
      <3>2. decline'[h].at = "alert"
        BY <1>0, <2>5, Goes0
      <3>3. UnderWay'
        BY <3>2 DEF UnderWay
      <3> QED  BY <1>0, <2>3, <2>5, <3>1, <3>3, SaveReports DEF Reported
    <2> QED  BY <2>2, <2>4, <2>5 DEF c, e
  <1>4. CASE DeclineFails(h)
    <2>1. /\ Goes(h, "idle") /\ UNCHANGED <<ckpt, spoilt>>
          /\ word' = IF decline[h].at = "alert" /\ word = "owed" THEN "missed" ELSE word
          /\ decline[h].at \in {"count", "alert"}
      BY <1>4 DEF DeclineFails, Missed
    <2>2. \A g \in Handlers \ {h} : decline'[g] = decline[g]
      BY <1>0, <2>1, Goes0
    <2>3. word' = "owed" => (UnderWay => UnderWay')
      BY <1>1, <2>1, <2>2
    <2> QED  BY <1>0, <2>1, <2>3 DEF Reported
  <1>5. CASE Alert(h)
    <2>1. UNCHANGED <<ckpt, spoilt>> /\ decline[h].at = "alert"
      BY <1>5 DEF Alert
    <2>2. CASE ckpt.sent /\ word' = IF spoilt THEN Missed ELSE word
      BY <1>0, <2>1, <2>2 DEF Reported, Missed
    <2>3. CASE ~ckpt.sent /\ Goes(h, "row") /\ UNCHANGED word
      <3>1. decline'[h].at = "row" /\ \A g \in Handlers \ {h} : decline'[g] = decline[g]
        BY <1>0, <2>3, Goes0
      <3>2. UnderWay => UnderWay'
        BY <1>1, <2>1, <3>1
      <3> QED  BY <1>0, <2>1, <2>3, <3>2 DEF Reported
    <2> QED  BY <1>5, <2>2, <2>3 DEF Alert
  <1>6. CASE AlertRow(h)
    <2>1. UNCHANGED <<ckpt, spoilt>> /\ Row("escalation")
      BY <1>6 DEF AlertRow
    <2>2. \/ word' \in {"told", "missed"} /\ ckpt.hold
          \/ ~ckpt.hold /\ word' = word
      BY <1>0, <2>1 DEF Row, Missed, Reported
    <2> QED  BY <1>0, <2>1, <2>2 DEF Reported
  <1>7. CASE AlertFlag(h)
    <2> DEFINE s == [ckpt EXCEPT !.sent = TRUE]
    <2>1. /\ decline[h].at = "flag" /\ Goes(h, "idle")
          /\ \/ Save(s)
             \/ word' = (IF word = "owed" THEN "missed" ELSE word) /\ UNCHANGED <<ckpt, spoilt>>
      BY <1>7 DEF AlertFlag, Missed
    <2>2. s \in State /\ s.sent = TRUE /\ s.hold = ckpt.hold /\ s.requires = ckpt.requires
      BY <1>0, SentIsState
    <2> HIDE DEF s
    <2>3. CASE Save(s)
      <3>1. h \in Escalating
        BY <2>1 DEF Escalating
      <3>2. /\ ckpt' = s /\ word' = word
            /\ spoilt => spoilt'
            /\ ~ckpt.sent /\ ~s.hold => spoilt'
            /\ ~ckpt.sent /\ word = "owed" => spoilt'
        BY <1>0, <2>2, <2>3, <3>1 DEF Save, Owing, Reported
      <3>3. word = "owed" => spoilt'
        BY <3>2 DEF Reported
      <3>4. word = "free" => spoilt'
        BY <2>2, <3>2 DEF Reported
      <3>5. UnderWay => UnderWay'
        <4>1. \A g \in Handlers \ {h} : decline'[g] = decline[g]
          BY <1>0, <2>1, Goes0
        <4> QED  BY <1>1, <2>1, <2>2, <3>2, <4>1
      <3>6. pc \in {"triage", "node"} /\ run.hold /\ word = "owed" => run.sent \/ UnderWay
        BY DEF Reported
      <3> QED  BY <1>0, <2>2, <3>2, <3>3, <3>4, <3>5, <3>6 DEF Reported
    <2>4. CASE word' = (IF word = "owed" THEN "missed" ELSE word) /\ UNCHANGED <<ckpt, spoilt>>
      BY <1>0, <2>4 DEF Reported
    <2> QED  BY <2>1, <2>3, <2>4
  <1> QED  BY <1>2, <1>3, <1>4, <1>5, <1>6, <1>7 DEF Decline

\* The commands.
LEMMA CommandsReport ==
  ASSUME HInv, Reported, overrun' = {},
         \E n \in Notes : CommandReads(n) \/ CommandWrites(n)
  PROVE  Reported'
  <1>0. TypeOK /\ ckpt \in State
    BY DEF HInv, TypeOK
  <1>1. ASSUME NEW n \in Notes, CommandReads(n)
        PROVE  Reported'
    BY <1>1 DEF CommandReads, turn, Reported, UnderWay, Waiting, Listed
  <1>2. ASSUME NEW n \in Notes, CommandWrites(n)
        PROVE  Reported'
    <2>1. /\ word' = "free" /\ spoilt' = FALSE /\ UNCHANGED <<run, pc>>
          /\ ckpt' = Back(ckpt, commands[n].read \cup {n})
      BY <1>2 DEF CommandWrites, turn
    <2>2. ckpt'.hold = FALSE /\ ckpt'.sent = FALSE
      <3> DEFINE list == commands[n].read \cup {n}
      <3>1. DOMAIN ckpt = DOMAIN Blank
        BY <1>0 DEF State, Blank
      <3> HIDE DEF list
      <3> QED  BY <1>0, <2>1, <3>1 DEF Back, State, list
    <2>3. pc \notin {"triage", "node"}
      BY <1>2 DEF CommandWrites
    <2> QED  BY <2>1, <2>2, <2>3 DEF Reported
  <1> QED  BY <1>1, <1>2

\* A release that was written beside another writer is not forgotten.
LEMMA OverrunStays == [Next]_vars => overrun \subseteq overrun'
  BY DEF Next, vars, ReceiveMessage, Turn, Void, Triage, TriageTap, TriageConnect, TriageFails,
         TriageGhost, TriageModel, Decide, Escalate, AdversarialBlock, TapAnswered, ModelReplies,
         ModelFails, Answer, TurnRaises, Snapshot, SnapshotFails, DeliverRow, SetFlag, FlagFails,
         Delivered, Decline, DeclineReads, DeclineWrites, DeclineFails, Alert, AlertRow, AlertFlag,
         CommandReads, CommandWrites, staffOnly

\* No thread is a colleague's without a colleague: at rest, a row about the
\* present hold was delivered, or failed to be, or escalation_sent stands for
\* something else, or a release was overwritten.
THEOREM HoldIsReported == Spec => []HoldReachesTeam
  <1>1. HInv /\ TInv /\ WInv /\ [Next]_vars => WInv'
    <2> SUFFICES ASSUME HInv, TInv, WInv, [Next]_vars, overrun' = {}
                 PROVE  Reported'
      BY DEF WInv
    <2>1. Reported
      BY OverrunStays DEF WInv
    <2>2. CASE UNCHANGED vars
      BY <2>1, <2>2 DEF vars, Reported, UnderWay, Waiting, Listed
    <2>3. ASSUME Triage
          PROVE  Reported'
      <3>1. pc = "triage"
        BY <2>3 DEF Triage, TriageTap, TriageConnect, TriageFails, TriageGhost, TriageModel, Decide
      <3> QED  BY <2>1, <2>3, <3>1, TriageDecides, TurnReports
    <2>4. ASSUME Escalate \/ AdversarialBlock \/ TapAnswered \/ ModelReplies \/ ModelFails
          PROVE  Reported'
      BY <2>1, <2>4, NodeReplies, TurnReports DEF HInv
    <2> QED  BY <2>1, <2>2, <2>3, <2>4, TurnReports, DeliveriesReport, DeclinesReport,
             CommandsReport DEF Next, Turn
  <1>2. WInv => HoldReachesTeam
    BY DEF WInv, Reported, UnderWay, Waiting, HoldReachesTeam, AtRest
  <1> QED  BY <1>1, <1>2, InitWInv, HandoffInvariance, RowsInvariance, PTL DEF Spec
=============================================================================

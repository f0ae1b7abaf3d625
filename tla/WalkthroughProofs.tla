-------------------------- MODULE WalkthroughProofs --------------------------
(***************************************************************************)
(* Proofs about Walkthrough, for any catalogue, registry of step-ups,      *)
(* proposals and bounds, with old buttons and failures or without.         *)
(***************************************************************************)
EXTENDS Walkthrough, TLAPS

Beats == {"hold", "upsell", "crosssell", "quote_ask", "quote"}
Movers == {"swap", "add", "next"}    \* the taps that ask for the next beat

\* A pending order has been shown, at least as the beat it was put in for, so
\* no tap can lead back to its step-up.
PendingWasShown == HasOrder => st.stage > 0

\* While the price is the question no button on screen asks for the next beat,
\* and no tap on the last message does.
OnlyThePriceIsNext ==
    HasOrder /\ st.stage = 3 =>
        /\ screen \cap Movers = {}
        /\ pc = "node" /\ msg.live => msg.kind \notin Movers

\* The inductive invariant.
WInv ==
    /\ TypeOK
    /\ FlagsActOnce
    /\ StepUpDecidedOnce
    /\ PriceStaysReachable
    /\ PendingWasShown
    /\ OnlyThePriceIsNext

-----------------------------------------------------------------------------
(* What the steps write.                                                   *)

LEMMA MaxOfTwo ==
  ASSUME NEW a \in Nat, NEW b \in Nat
  PROVE  Max({a, b}) = IF a >= b THEN a ELSE b
  <1> DEFINE m == IF a >= b THEN a ELSE b
  <1>1. m \in {a, b} /\ \A y \in {a, b} : m >= y
    OBVIOUS
  <1>2. Max({a, b}) \in {a, b} /\ \A y \in {a, b} : Max({a, b}) >= y
    BY <1>1 DEF Max
  <1> QED  BY <1>2

LEMMA StateFields ==
  ASSUME st \in State
  PROVE  /\ st.pending \in Order \cup {NoOrder} /\ st.stage \in 0 .. 4
         /\ st.key \in SUBSET Products /\ st.flags \in SUBSET Flags
         /\ st.paid \in SUBSET Products
         /\ HasOrder => st.pending \in Order
  BY DEF State, HasOrder

LEMMA OrderFields ==
  ASSUME NEW o \in Order
  PROVE  /\ o.lines \in SUBSET Products /\ o.lines # {} /\ o.applied \in BOOLEAN
         /\ o.up \in DOMAIN Upgrade \cup {None} /\ o.comp \in Products \cup {None}
         /\ o.tier \in BOOLEAN
         /\ o # NoOrder
  <1>1. /\ o.lines \in SUBSET Products /\ o.lines # {} /\ o.applied \in BOOLEAN
        /\ o.up \in DOMAIN Upgrade \cup {None} /\ o.comp \in Products \cup {None}
        /\ o.tier \in BOOLEAN
    BY DEF Order
  <1>2. NoOrder.lines = {}
    BY DEF NoOrder
  <1> QED  BY <1>1, <1>2

LEMMA Written ==
  ASSUME st \in State, NEW p \in Order \cup {NoOrder}, NEW n \in 0 .. 4,
         NEW k \in SUBSET Products, NEW f \in SUBSET Flags,
         st' = [st EXCEPT !.pending = p, !.stage = n, !.key = k, !.flags = f]
  PROVE  /\ st' \in State
         /\ st'.pending = p /\ st'.stage = n /\ st'.key = k /\ st'.flags = f
  BY DEF State

LEMMA FlagsWritten ==
  ASSUME st \in State, NEW p \in Order \cup {NoOrder}, NEW f \in SUBSET Flags,
         st' = [st EXCEPT !.pending = p, !.flags = f]
  PROVE  /\ st' \in State
         /\ st'.pending = p /\ st'.flags = f /\ st'.stage = st.stage
  BY DEF State

LEMMA OnlyFlagsWritten ==
  ASSUME st \in State, NEW f \in SUBSET Flags, st' = [st EXCEPT !.flags = f]
  PROVE  /\ st' \in State
         /\ st'.pending = st.pending /\ st'.flags = f /\ st'.stage = st.stage
  BY DEF State

\* A reply leaves the thread idle; what it shows is on screen.
LEMMA Shown ==
  ASSUME TypeOK, NEW buttons \in SUBSET (Taps \cup {"pay"}),
         NEW shows \in {"total", "agent", "note"}, NEW by, Show(buttons, shows, by)
  PROVE  /\ pc' = "idle" /\ screen' = buttons
         /\ screen' \subseteq offered' /\ offered' \subseteq Taps \cup {"pay"}
         /\ msg' \in Message /\ last' \in [shows : {"total", "agent", "note"}, asked : BOOLEAN]
         /\ last'.shows = shows /\ last'.asked = Asked(by)
  <1>1. Asked(by) \in BOOLEAN
    BY DEF Asked
  <1>2. Words \in Message
    BY DEF Words, Message
  <1>3. last' = [shows |-> shows, asked |-> Asked(by)]
    BY DEF Show
  <1> QED  BY <1>1, <1>2, <1>3 DEF Show, TypeOK

LEMMA ButtonsAreButtons ==
  ASSUME NEW o \in Order, NEW beat \in Beats
  PROVE  /\ Buttons(o, beat) \in SUBSET (Taps \cup {"pay"})
         /\ beat \in {"hold", "quote_ask"} => Buttons(o, beat) = {"quote"}
         /\ QuoteOptions(o) \in SUBSET (Taps \cup {"pay"})
  BY DEF Beats, Buttons, QuoteOptions, Taps

\* Where each beat stands, and when the next one is which.
LEMMA BeatsHaveStages ==
  /\ StageAfter.hold = 0 /\ StageAfter.upsell = 1 /\ StageAfter.crosssell = 2
  /\ StageAfter.quote_ask = 3 /\ StageAfter.quote = 4
  /\ StageAfter["hold"] = 0 /\ StageAfter["upsell"] = 1 /\ StageAfter["crosssell"] = 2
  /\ StageAfter["quote_ask"] = 3 /\ StageAfter["quote"] = 4
  BY DEF StageAfter

\* What a beat asks of the stage it comes at, and of the order.
Fits(o, stage, beat) ==
    /\ beat = "hold" => stage = 3
    /\ beat = "upsell" => stage = 0 /\ o.up \in DOMAIN Upgrade
    /\ beat = "crosssell" => stage < 2
    /\ beat = "quote_ask" => stage < 3

LEMMA NextBeatFits ==
  ASSUME NEW o \in Order, NEW stage \in 0 .. 4
  PROVE  /\ NextBeat(o, stage) \in Beats
         /\ Fits(o, stage, NextBeat(o, stage))
         /\ NextBeat(o, stage) = "quote" => stage >= 3
  BY BeatsHaveStages, OrderFields DEF NextBeat, Beats, Fits, CanUpgrade

-----------------------------------------------------------------------------
(* _advance, at whatever beat fits the stage it is called with.            *)

LEMMA AdvanceKeeps ==
  ASSUME WInv, NEW o \in Order, NEW stage \in 0 .. 4, NEW beat \in Beats,
         NEW by \in Taps \cup {"asked", "model"},
         Fits(o, stage, beat), beat = "upsell" => cards[o.up] = 0,
         Advance(o, stage, beat, by)
  PROVE  WInv' /\ (last'.shows = "total" => beat = "quote") /\ last'.asked = Asked(by)
  <1> DEFINE buttons == Buttons(o, beat)
             shows == IF beat = "quote" THEN "total" ELSE "agent"
  <1>1. PICK n : n = Max({stage, StageAfter[beat]})
    OBVIOUS
  <1>2. /\ n \in 0 .. 4 /\ n > 0
        /\ n = 3 => beat \in {"hold", "quote_ask"}
    BY <1>1, MaxOfTwo, BeatsHaveStages DEF Fits, Beats
  <1>3. st \in State /\ st.flags \in SUBSET Flags
    BY StateFields DEF WInv, TypeOK
  <1>4. o \in Order \cup {NoOrder} /\ o.lines \in SUBSET Products /\ o # NoOrder
    BY OrderFields
  <1>5. PICK f \in SUBSET Flags : f = st.flags \ Taps
    BY <1>3
  <1>6. PICK k \in SUBSET Products : k = o.lines
    BY <1>4
  <1>7. st' = [st EXCEPT !.pending = o, !.stage = n, !.key = k, !.flags = f]
    BY <1>1, <1>5, <1>6 DEF Advance
  <1>8. st' \in State /\ st'.pending = o /\ st'.stage = n /\ st'.flags = f
    BY <1>2, <1>3, <1>4, <1>7, Written
  <1>9. buttons \in SUBSET (Taps \cup {"pay"}) /\ shows \in {"total", "agent", "note"}
    BY ButtonsAreButtons
  <1>10. Show(buttons, shows, by)
    BY DEF Advance
  <1>11. /\ pc' = "idle" /\ screen' = buttons
         /\ screen' \subseteq offered' /\ offered' \subseteq Taps \cup {"pay"}
         /\ msg' \in Message
         /\ last' \in [shows : {"total", "agent", "note"}, asked : BOOLEAN]
         /\ last'.shows = shows /\ last'.asked = Asked(by)
    <2> HIDE DEF buttons, shows
    <2> QED  BY <1>9, <1>10, Shown DEF WInv
  <1>12. cards' \in [DOMAIN Upgrade -> Nat] /\ StepUpDecidedOnce'
    <2>1. CASE beat = "upsell"
      <3>1. cards' = [cards EXCEPT ![o.up] = @ + 1] /\ o.up \in DOMAIN Upgrade /\ cards[o.up] = 0
        BY <2>1 DEF Advance, Fits
      <3>2. cards \in [DOMAIN Upgrade -> Nat]
        BY DEF WInv, TypeOK
      <3>3. \A p \in DOMAIN Upgrade : cards'[p] = IF p = o.up THEN 1 ELSE cards[p]
        BY <3>1, <3>2
      <3>4. cards' \in [DOMAIN Upgrade -> Nat]
        BY <3>1, <3>2
      <3> QED  BY <3>3, <3>4 DEF WInv, StepUpDecidedOnce
    <2>2. CASE beat # "upsell"
      BY <2>2 DEF Advance, WInv, TypeOK, StepUpDecidedOnce
    <2> QED  BY <2>1, <2>2
  <1>13. seen' \in BOOLEAN
    BY DEF Advance, WInv, TypeOK
  <1>14. due' \subseteq Flags /\ f \subseteq due'
    <2>1. due' = due \ {by} /\ due \subseteq Flags /\ st.flags \subseteq due
      BY DEF Advance, WInv, TypeOK, FlagsActOnce
    <2>2. by = "specs" => FALSE
      BY DEF Taps
    <2>3. f \subseteq {"specs"}
      BY <1>5 DEF Flags
    <2> QED  BY <1>5, <2>1, <2>2, <2>3
  <1>15. TypeOK'
    BY <1>8, <1>11, <1>12, <1>13, <1>14 DEF TypeOK
  <1>16. FlagsActOnce'
    BY <1>8, <1>14 DEF FlagsActOnce
  <1>17. n = 3 => buttons = {"quote"}
    BY <1>2, ButtonsAreButtons
  <1>18. PriceStaysReachable'
    BY <1>8, <1>11, <1>17, BeatsHaveStages DEF PriceStaysReachable
  <1>19. PendingWasShown'
    BY <1>2, <1>8 DEF PendingWasShown
  <1>20. OnlyThePriceIsNext'
    <2>1. {"quote"} \cap Movers = {}
      BY DEF Movers
    <2> QED  BY <1>8, <1>11, <1>17, <2>1 DEF OnlyThePriceIsNext
  <1> QED  BY <1>11, <1>12, <1>15, <1>16, <1>18, <1>19, <1>20 DEF WInv

-----------------------------------------------------------------------------
(* The other ways to answer.                                               *)

\* A reply that leaves the order's stage alone and has no button for a next beat.
LEMMA ReplyKeeps ==
  ASSUME WInv, NEW buttons \in SUBSET (Taps \cup {"pay"}), NEW shows \in {"agent", "note"},
         NEW by, Show(buttons, shows, by),
         st' \in State, st'.stage = st.stage, HasOrder' => HasOrder,
         due' \subseteq Flags, st'.flags \subseteq due',
         UNCHANGED <<cards, seen>>,
         HasOrder /\ st.stage = 3 => buttons \cap Movers = {},
         shows = "agent" /\ st.stage = 3 /\ HasOrder => "quote" \in buttons
  PROVE  WInv' /\ last'.shows # "total"
  <1>1. /\ pc' = "idle" /\ screen' = buttons
        /\ screen' \subseteq offered' /\ offered' \subseteq Taps \cup {"pay"}
        /\ msg' \in Message
        /\ last' \in [shows : {"total", "agent", "note"}, asked : BOOLEAN]
        /\ last'.shows = shows
    BY Shown DEF WInv
  <1>2. TypeOK'
    BY <1>1 DEF WInv, TypeOK
  <1>3. FlagsActOnce' /\ StepUpDecidedOnce'
    BY DEF WInv, FlagsActOnce, StepUpDecidedOnce
  <1>4. PriceStaysReachable'
    BY <1>1, BeatsHaveStages DEF PriceStaysReachable
  <1>5. PendingWasShown' /\ OnlyThePriceIsNext'
    BY <1>1 DEF WInv, PendingWasShown, OnlyThePriceIsNext
  <1> QED  BY <1>1, <1>2, <1>3, <1>4, <1>5 DEF WInv

\* A tap that is answered by a note.
LEMMA NoteKeeps ==
  ASSUME WInv, HasOrder, NEW b \in Taps, NEW o \in Order,
         NEW buttons \in SUBSET (Taps \cup {"pay"}), Note(b, o, buttons),
         st.stage = 3 => buttons \cap Movers = {}
  PROVE  WInv' /\ last'.shows # "total"
  <1>1. st \in State /\ st.flags \in SUBSET Flags /\ st.flags \subseteq due /\ due \subseteq Flags
    BY StateFields DEF WInv, TypeOK, FlagsActOnce
  <1>2. PICK f \in SUBSET Flags : f = st.flags \ {b}
    BY <1>1
  <1>3. st' \in State /\ st'.flags = f /\ st'.stage = st.stage
    <2>1. o \in Order \cup {NoOrder} /\ st' = [st EXCEPT !.pending = o, !.flags = f]
      BY <1>2 DEF Note
    <2> QED  BY <1>1, <2>1, FlagsWritten
  <1>4. due' = due \ {b} /\ Show(buttons, "note", b) /\ UNCHANGED <<cards, seen>>
    BY DEF Note
  <1>5. due' \subseteq Flags /\ st'.flags \subseteq due'
    BY <1>1, <1>2, <1>3, <1>4
  <1> QED  BY <1>3, <1>4, <1>5, ReplyKeeps

-----------------------------------------------------------------------------
(* Each action.                                                            *)

LEMMA InitWInv == Init => WInv
  <1> SUFFICES ASSUME Init PROVE WInv
    OBVIOUS
  <1>1. st \in State
    <2>1. PICK n \in 0 .. 4 : n = 0
      OBVIOUS
    <2> DEFINE s == [pending |-> NoOrder, stage |-> n, key |-> {}, flags |-> {}, paid |-> {}]
    <2>2. s \in State
      BY DEF State
    <2> QED  BY <2>1, <2>2 DEF Init
  <1>2. st.pending = NoOrder /\ st.flags = {}
    BY DEF Init
  <1>3. Words \in Message
    BY DEF Words, Message
  <1>4. TypeOK
    BY <1>1, <1>3 DEF Init, TypeOK
  <1> QED  BY <1>2, <1>4 DEF Init, WInv, FlagsActOnce, StepUpDecidedOnce, PriceStaysReachable,
                            PendingWasShown, OnlyThePriceIsNext, HasOrder

\* Triage raises or lowers flags and keeps the rest.
LEMMA ReceiveKeeps ==
  ASSUME WInv, NEW m \in Message, NEW f \in SUBSET Flags, Receive(m, f),
         due' \subseteq Flags, f \subseteq due',
         m.live /\ m.kind \in Movers => m.kind \in screen
  PROVE  WInv' /\ pc = "idle"
  <1>1. st \in State
    BY DEF WInv, TypeOK
  <1>2. st' \in State /\ st'.pending = st.pending /\ st'.flags = f /\ st'.stage = st.stage
    BY <1>1, OnlyFlagsWritten DEF Receive
  <1>3. pc' = "node" /\ msg' = m /\ UNCHANGED <<screen, offered, cards, seen, last>> /\ pc = "idle"
    BY DEF Receive
  <1>4. TypeOK'
    BY <1>2, <1>3 DEF WInv, TypeOK
  <1>5. FlagsActOnce' /\ StepUpDecidedOnce' /\ PriceStaysReachable'
    BY <1>2, <1>3 DEF WInv, FlagsActOnce, StepUpDecidedOnce, PriceStaysReachable
  <1>6. HasOrder' = HasOrder
    BY <1>2 DEF HasOrder
  <1>7. PendingWasShown'
    BY <1>2, <1>6 DEF WInv, PendingWasShown
  <1>8. OnlyThePriceIsNext'
    BY <1>2, <1>3, <1>6 DEF WInv, OnlyThePriceIsNext
  <1> QED  BY <1>3, <1>4, <1>5, <1>7, <1>8 DEF WInv

LEMMA TriageKeeps ==
  ASSUME WInv,
         (\E b \in Taps : ReceiveTap(b)) \/ ReceiveConfirm \/ ReceiveWords \/ Retrieve
  PROVE  WInv' /\ pc = "idle"
  <1>1. /\ st.flags \in SUBSET Flags /\ st.flags \subseteq due /\ due \subseteq Flags
        /\ "specs" \in Flags
    BY StateFields DEF WInv, TypeOK, FlagsActOnce, Flags
  <1>2. Words \in Message /\ ~Words.live
    BY DEF Words, Message
  <1>3. CASE ReceiveWords
    BY <1>1, <1>2, <1>3, ReceiveKeeps DEF ReceiveWords
  <1>4. CASE ReceiveConfirm
    <2> DEFINE m == [kind |-> "confirm", live |-> "pay" \in screen]
    <2>1. m \in Message /\ m.kind \notin Movers
      BY DEF Message, Movers
    <2>2. Receive(m, st.flags) /\ due' = due
      BY <1>4 DEF ReceiveConfirm
    <2> HIDE DEF m
    <2> QED  BY <1>1, <2>1, <2>2, ReceiveKeeps
  <1>5. CASE Retrieve
    <2>1. CASE Receive(Words, st.flags \cup {"specs"}) /\ due' = due \cup {"specs"}
      BY <1>1, <1>2, <2>1, ReceiveKeeps
    <2>2. CASE Receive(Words, st.flags \ {"specs"}) /\ due' = due \ {"specs"}
      BY <1>1, <1>2, <2>2, ReceiveKeeps
    <2> QED  BY <1>5, <2>1, <2>2 DEF Retrieve
  <1>6. ASSUME NEW b \in Taps, ReceiveTap(b) PROVE WInv' /\ pc = "idle"
    <2>1. CASE HasOrder
      <3> DEFINE m == [kind |-> b, live |-> (b \in screen)]
      <3>1. m \in Message
        BY DEF Message
      <3>2. m.live => m.kind \in screen
        BY Zenon
      <3>3. Receive(m, st.flags \cup {b}) /\ due' = due \cup {b}
        BY <1>6, <2>1 DEF ReceiveTap
      <3>4. st.flags \cup {b} \in SUBSET Flags /\ due' \subseteq Flags /\ st.flags \cup {b} \subseteq due'
        BY <1>1, <3>3 DEF Flags
      <3> HIDE DEF m
      <3> QED  BY <3>1, <3>2, <3>3, <3>4, ReceiveKeeps
    <2>2. CASE ~HasOrder
      BY <1>1, <1>2, <1>6, <2>2, ReceiveKeeps DEF ReceiveTap
    <2> QED  BY <2>1, <2>2
  <1> QED  BY <1>3, <1>4, <1>5, <1>6

\* A live tap for the next beat is not made while the price is the question, so
\* the total it shows was asked for.
LEMMA PriceIsAsked ==
  ASSUME WInv, pc = "node", HasOrder, NEW by \in Movers,
         st.stage >= 3, st.stage < 4
  PROVE  Asked(by)
  <1>1. st.stage = 3
    BY StateFields DEF WInv, TypeOK
  <1>2. msg # [kind |-> by, live |-> TRUE]
    BY <1>1 DEF WInv, OnlyThePriceIsNext
  <1> QED  BY <1>2 DEF Asked, Movers, Taps

\* What an action of the node has to show.
Kept == WInv' /\ (last'.shows = "total" /\ st.stage < 4 => last'.asked)

\* A tap leads to a beat that fits its order, or to its price.
LEMMA TapAdvances ==
  ASSUME WInv, pc = "node", HasOrder, NEW o \in Order, NEW by \in Taps, NEW beat,
         Advance(o, st.stage, beat, by),
         \/ by \in Movers /\ beat = NextBeat(o, st.stage)
         \/ by \in {"apply", "quote"} /\ beat = "quote"
  PROVE  Kept
  <1>1. st.stage \in 0 .. 4 /\ st.stage > 0
    BY StateFields DEF WInv, TypeOK, PendingWasShown
  <1>2. beat \in Beats /\ Fits(o, st.stage, beat)
    BY <1>1, NextBeatFits DEF Beats, Fits
  <1>3. beat # "upsell"
    BY <1>1, <1>2 DEF Fits
  <1>4. WInv' /\ (last'.shows = "total" => beat = "quote") /\ last'.asked = Asked(by)
    BY <1>1, <1>2, <1>3, AdvanceKeeps
  <1>5. beat = "quote" /\ st.stage < 4 => Asked(by)
    <2>1. CASE by \in {"apply", "quote"}
      BY <2>1 DEF Asked
    <2>2. CASE by \in Movers /\ beat = NextBeat(o, st.stage)
      BY <1>1, <2>2, NextBeatFits, PriceIsAsked
    <2> QED  BY <2>1, <2>2
  <1> QED  BY <1>4, <1>5 DEF Kept

LEMMA TapKeeps ==
  ASSUME WInv, ApplyOffer \/ ApplyRefused \/ AddComplement \/ AddRefused \/ SwapUpgrade
               \/ SwapRefused \/ ConsultNext \/ QuoteNow
  PROVE  Kept /\ pc = "node"
  <1> DEFINE p == st.pending
  <1>1. pc = "node" /\ HasOrder
    BY DEF ApplyOffer, ApplyRefused, AddComplement, AddRefused, SwapUpgrade, SwapRefused,
           ConsultNext, QuoteNow, Answering
  <1>2. p \in Order /\ p.lines \in SUBSET Products /\ p.lines # {}
    BY <1>1, StateFields, OrderFields DEF WInv, TypeOK
  <1>3. {"apply", "add", "swap", "next", "quote"} = Taps /\ Movers = {"add", "swap", "next"}
    BY DEF Taps, Movers
  <1>4. CASE ApplyOffer
    <2> DEFINE o == [p EXCEPT !.applied = TRUE]
    <2>1. o \in Order
      BY <1>2 DEF Order
    <2>2. Advance(o, st.stage, "quote", "apply")
      BY <1>4 DEF ApplyOffer
    <2> HIDE DEF o
    <2> QED  BY <1>1, <1>3, <2>1, <2>2, TapAdvances
  <1>5. CASE AddComplement
    <2> DEFINE o == [p EXCEPT !.lines = @ \cup {p.comp}, !.applied = TRUE, !.comp = None, !.tier = FALSE]
    <2>1. o \in Order
      <3>1. PICK l \in (SUBSET Products) \ {{}} : l = p.lines \cup {p.comp}
        BY <1>2, <1>5 DEF AddComplement
      <3>2. o = [p EXCEPT !.lines = l, !.applied = TRUE, !.comp = None, !.tier = FALSE]
        BY <3>1
      <3> QED  BY <1>2, <3>2 DEF Order
    <2>2. Advance(o, st.stage, NextBeat(o, st.stage), "add")
      BY <1>5 DEF AddComplement
    <2> HIDE DEF o
    <2> QED  BY <1>1, <1>3, <2>1, <2>2, TapAdvances
  <1>6. CASE SwapUpgrade
    <2>1. PICK tier \in {FALSE, p.tier} :
            LET o == [p EXCEPT !.lines = (@ \ {p.up}) \cup {Upgrade[p.up]},
                               !.applied = TRUE, !.up = None, !.tier = tier]
            IN  Advance(o, st.stage, NextBeat(o, st.stage), "swap")
      BY <1>6 DEF SwapUpgrade
    <2> DEFINE o == [p EXCEPT !.lines = (@ \ {p.up}) \cup {Upgrade[p.up]},
                              !.applied = TRUE, !.up = None, !.tier = tier]
    <2>2. o \in Order
      <3>1. p.up \in DOMAIN Upgrade
        BY <1>2, <1>6, OrderFields DEF SwapUpgrade, CanSwap
      <3>2. PICK l \in (SUBSET Products) \ {{}} : l = (p.lines \ {p.up}) \cup {Upgrade[p.up]}
        BY <1>2, <3>1, UpgradesAreProducts
      <3>3. tier \in BOOLEAN
        BY <1>2, <2>1, OrderFields
      <3>4. o = [p EXCEPT !.lines = l, !.applied = TRUE, !.up = None, !.tier = tier]
        BY <3>2
      <3> QED  BY <1>2, <3>3, <3>4 DEF Order
    <2>3. Advance(o, st.stage, NextBeat(o, st.stage), "swap")
      BY <2>1
    <2> HIDE DEF o
    <2> QED  BY <1>1, <1>3, <2>2, <2>3, TapAdvances
  <1>7. CASE SwapRefused
    <2> DEFINE o == [p EXCEPT !.up = None]
    <2>1. o \in Order
      BY <1>2 DEF Order
    <2>2. Advance(o, st.stage, NextBeat(o, st.stage), "swap")
      BY <1>7 DEF SwapRefused
    <2> HIDE DEF o
    <2> QED  BY <1>1, <1>3, <2>1, <2>2, TapAdvances
  <1>8. CASE ConsultNext \/ QuoteNow
    BY <1>1, <1>2, <1>3, <1>8, TapAdvances DEF ConsultNext, QuoteNow
  <1>9. CASE ApplyRefused
    <2>1. Note("apply", p, {})
      BY <1>9 DEF ApplyRefused
    <2> QED  BY <1>1, <1>2, <1>3, <2>1, NoteKeeps DEF Kept
  <1>10. CASE AddRefused
    <2> DEFINE o == [p EXCEPT !.comp = None, !.tier = FALSE]
    <2>1. o \in Order /\ o.comp = None
      BY <1>2 DEF Order
    <2>2. Note("add", o, QuoteOptions(o))
      BY <1>10 DEF AddRefused
    <2> HIDE DEF o
    <2>3. QuoteOptions(o) \in SUBSET (Taps \cup {"pay"}) /\ QuoteOptions(o) \cap Movers = {}
      BY <1>3, <2>1 DEF QuoteOptions
    <2> QED  BY <1>1, <1>3, <2>1, <2>2, <2>3, NoteKeeps DEF Kept
  <1> QED  BY <1>1, <1>4, <1>5, <1>6, <1>7, <1>8, <1>9, <1>10

LEMMA ModelKeeps ==
  ASSUME WInv, Divert \/ RefuseSpecs \/ ModelFails \/ ModelReplies \/ ModelProposes
  PROVE  Kept /\ pc = "node"
  <1>1. pc = "node"
    BY DEF Divert, RefuseSpecs, ModelFails, ModelReplies, ModelProposes, ModelTurn
  <1>2. /\ st \in State /\ st.flags \in SUBSET Flags /\ st.flags \subseteq due /\ due \subseteq Flags
        /\ st.stage \in 0 .. 4
    BY StateFields DEF WInv, TypeOK, FlagsActOnce
  <1>3. CASE Divert \/ ModelFails
    <2>1. Show({}, "note", "elsewhere") /\ UNCHANGED <<st, cards, seen, due>>
      BY <1>3 DEF Divert, ModelFails
    <2> QED  BY <1>1, <1>2, <2>1, ReplyKeeps DEF Kept, HasOrder
  <1>4. CASE RefuseSpecs
    <2>1. /\ Show({}, "note", "elsewhere") /\ UNCHANGED <<cards, seen>> /\ due' = due \ {"specs"}
          /\ st' = [st EXCEPT !.flags = st.flags \ {"specs"}]
      BY <1>4 DEF RefuseSpecs
    <2>2. PICK f \in SUBSET Flags : f = st.flags \ {"specs"}
      BY <1>2
    <2>3. st' \in State /\ st'.pending = st.pending /\ st'.flags = f /\ st'.stage = st.stage
      BY <1>2, <2>1, <2>2, OnlyFlagsWritten
    <2>4. due' \subseteq Flags /\ st'.flags \subseteq due' /\ (HasOrder' => HasOrder)
      BY <1>2, <2>1, <2>2, <2>3 DEF HasOrder
    <2> QED  BY <1>1, <2>1, <2>3, <2>4, ReplyKeeps DEF Kept
  <1>5. CASE ModelReplies
    <2>1. Show(KeepPriceReachable, "agent", "model") /\ UNCHANGED <<st, cards, seen, due>>
      BY <1>5 DEF ModelReplies
    <2>2. /\ KeepPriceReachable \in SUBSET (Taps \cup {"pay"})
          /\ KeepPriceReachable \cap Movers = {}
          /\ HasOrder /\ st.stage = 3 => "quote" \in KeepPriceReachable
      BY BeatsHaveStages DEF KeepPriceReachable, Taps, Movers
    <2> QED  BY <1>1, <1>2, <2>1, <2>2, ReplyKeeps DEF Kept, HasOrder
  <1>6. CASE ModelProposes
    <2>1. PICK o \in Built, asked \in BOOLEAN :
            Advance(o, Stage(o), BeatFor(o, asked), IF asked THEN "asked" ELSE "model")
      BY <1>6 DEF ModelProposes
    <2>2. o \in Order /\ UpgradeValid(o)
      BY DEF Built
    <2> DEFINE beat == BeatFor(o, asked)
               by == IF asked THEN "asked" ELSE "model"
    <2>3. Stage(o) \in 0 .. 4
      BY <1>2 DEF Stage
    <2>4. /\ beat \in Beats /\ Fits(o, Stage(o), beat)
          /\ beat = "quote" => asked \/ Stage(o) > 3
      BY <2>2, <2>3, NextBeatFits, BeatsHaveStages DEF BeatFor, Beats, Fits
    <2>5. beat = "upsell" => cards[o.up] = 0
      <3>1. cards \in [DOMAIN Upgrade -> Nat]
        BY DEF WInv, TypeOK
      <3>2. beat = "upsell" => o.up \in DOMAIN Upgrade /\ ~AlreadyShown(o.up)
        <4>1. o.up = None => ~CanUpgrade(o)
          BY DEF CanUpgrade
        <4>2. beat = "upsell" => CanUpgrade(o)
          BY DEF BeatFor, NextBeat
        <4> QED  BY <2>2, <2>4, <4>1, <4>2 DEF UpgradeValid, Fits
      <3> QED  BY <3>1, <3>2 DEF AlreadyShown
    <2>6. by \in Taps \cup {"asked", "model"} /\ Advance(o, Stage(o), beat, by)
      BY <2>1
    <2>7. WInv' /\ (last'.shows = "total" => beat = "quote") /\ last'.asked = Asked(by)
      <3> HIDE DEF beat, by
      <3> QED  BY <2>2, <2>3, <2>4, <2>5, <2>6, AdvanceKeeps
    <2>8. Stage(o) > 3 => st.stage = 4
      BY <1>2 DEF Stage
    <2>9. asked => Asked(by)
      BY DEF Asked
    <2> QED  BY <1>1, <1>2, <2>4, <2>7, <2>8, <2>9 DEF Kept
  <1> QED  BY <1>3, <1>4, <1>5, <1>6

LEMMA PaidKeeps == WInv /\ OrderPaid => WInv' /\ pc = "idle"
  <1> SUFFICES ASSUME WInv, OrderPaid PROVE WInv' /\ pc = "idle"
    OBVIOUS
  <1>1. st \in State /\ st.pending \in Order /\ HasOrder
    BY StateFields DEF WInv, TypeOK, OrderPaid
  <1>2. PICK l \in SUBSET Products : l = st.pending.lines
    BY <1>1, OrderFields
  <1>3. st' = [st EXCEPT !.pending = NoOrder, !.paid = l]
    BY <1>2 DEF OrderPaid
  <1>4. st' \in State /\ st'.pending = NoOrder /\ st'.flags = st.flags
    BY <1>1, <1>3 DEF State
  <1>5. ~HasOrder'
    BY <1>4 DEF HasOrder
  <1>6. TypeOK'
    BY <1>4 DEF OrderPaid, WInv, TypeOK
  <1> QED  BY <1>4, <1>5, <1>6 DEF OrderPaid, WInv, FlagsActOnce, StepUpDecidedOnce,
              PriceStaysReachable, PendingWasShown, OnlyThePriceIsNext

LEMMA StutterKeeps == WInv /\ UNCHANGED vars => WInv'
  BY DEF WInv, TypeOK, FlagsActOnce, StepUpDecidedOnce, PriceStaysReachable,
         PendingWasShown, OnlyThePriceIsNext, HasOrder, vars

LEMMA NextKeeps ==
  WInv /\ [Next]_vars =>
    /\ WInv'
    /\ [pc = "node" /\ pc' = "idle" /\ last'.shows = "total" /\ st.stage < 4 => last'.asked]_vars
  BY TriageKeeps, TapKeeps, ModelKeeps, PaidKeeps, StutterKeeps DEF Next, Kept, vars

-----------------------------------------------------------------------------

\* WInv is an inductive invariant.
THEOREM WalkthroughInvariance == Spec => []WInv
  BY InitWInv, NextKeeps, PTL DEF Spec

\* The variables keep their types: every tap leaves a well-formed order.
THEOREM WalkthroughTypes == Spec => []TypeOK
  <1>1. WInv => TypeOK
    BY DEF WInv
  <1> QED  BY <1>1, WalkthroughInvariance, PTL

\* sales.py::_advance and the branches of the node: what a tap raised, whatever
\* answers in between, is done at most once.
THEOREM FlagsAreSpent == Spec => []FlagsActOnce
  <1>1. WInv => FlagsActOnce
    BY DEF WInv
  <1> QED  BY <1>1, WalkthroughInvariance, PTL

\* sales.py::_step_up_already_shown: through any orders, swaps and new sales the
\* dearer model of a product is put to the customer once.
THEOREM StepUpsAreDecided == Spec => []StepUpDecidedOnce
  <1>1. WInv => StepUpDecidedOnce
    BY DEF WInv
  <1> QED  BY <1>1, WalkthroughInvariance, PTL

\* sales.py::_keep_price_reachable: the question and its button come together.
THEOREM PriceIsATapAway == Spec => []PriceStaysReachable
  <1>1. WInv => PriceStaysReachable
    BY DEF WInv
  <1> QED  BY <1>1, WalkthroughInvariance, PTL

\* sales.py::_next_beat: no beat and no reply of the model shows the first total
\* of a sale, but a tap for it, words asking for it or a button left behind.
THEOREM PriceWaits == Spec => PriceWaitsToBeAsked
  BY WalkthroughInvariance, NextKeeps, PTL DEF Spec, PriceWaitsToBeAsked
=============================================================================

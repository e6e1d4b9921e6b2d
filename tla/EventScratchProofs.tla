-------------------------- MODULE EventScratchProofs --------------------------
(***************************************************************************)
(* Proofs about EventScratch for every size of the array and every number  *)
(* of fills and commands.                                                  *)
(***************************************************************************)
EXTENDS EventScratch, TLAPS

\* The values that the steps store are events.
LEMMA EventsAreEvents ==
  /\ NoEvent \in Event
  /\ \A c \in 0 .. MaxCommands : Outcome(c) \in Event
  /\ \A c \in 0 .. MaxCommands, id \in Nat : Trade(c, id) \in Event
  BY ScratchAssumption DEF NoEvent, Outcome, Trade, Event

\* The count of stored fills is one of slots, and grows as long as there are any.
LEMMA StoredFacts ==
  ASSUME TypeOK
  PROVE  /\ Stored \in 0 .. MaxEventsPerCommand /\ Stored <= fills
         /\ Stored < MaxEventsPerCommand => Stored = fills
         /\ MaxEventsPerCommand \in Nat \ {0} /\ MaxFills \in Nat /\ MaxCommands \in Nat
         /\ \A i \in 0 .. Stored - 1 : i \in Slots
  BY ScratchAssumption DEF TypeOK, Stored, Slots

\* Nothing has been stored at first.
LEMMA InitScratch == Init => ScratchInductive
<1> SUFFICES ASSUME Init PROVE ScratchInductive
  OBVIOUS
<1>1. TypeOK
  <2>1. t_EventScratch \in [Units -> [Slots -> Event]] /\ beyond \in Event
    BY EventsAreEvents DEF Init
  <2>2. /\ m_ScratchCounter \in 0 .. MaxEventsPerCommand + 1
        /\ m_TradeCounter \in Nat \ {0} /\ command \in 0 .. MaxCommands
        /\ fills \in 0 .. MaxFills
    BY ScratchAssumption DEF Init
  <2>3. handling \in BOOLEAN
    BY DEF Init
  <2> QED BY <2>1, <2>2, <2>3 DEF TypeOK
<1>2. \A i \in Slots : t_EventScratch["Matching"][i].kind = "None"
  BY DEF Init, Units, NoEvent
<1>3. ~handling /\ ~HasReturned
  BY DEF Init, HasReturned
<1> QED BY <1>1, <1>2, <1>3
      DEF ScratchInductive, TradeIDsUnique, OutcomeReturned, TradesStored

\* Entering a command only resets the counters.
LEMMA ApplyScratch ==
  ASSUME ScratchInductive, Apply
  PROVE  ScratchInductive'
<1>1. TypeOK'
  BY ScratchAssumption DEF ScratchInductive, TypeOK, Apply
<1>2. m_ScratchCounter' = 0 /\ fills' = 0 /\ ~HasReturned'
  BY DEF Apply, HasReturned
<1>3. t_EventScratch' = t_EventScratch /\ m_TradeCounter' = m_TradeCounter
  BY DEF Apply
<1>4. Stored' = 0
  BY <1>2, ScratchAssumption DEF Stored
<1> QED BY <1>1, <1>2, <1>3, <1>4
      DEF ScratchInductive, TradeIDsUnique, OutcomeReturned, TradesStored

\* A fill is stored in the next slot under an id that no slot holds, or dropped.
LEMMA RecordFillScratch ==
  ASSUME ScratchInductive, RecordFill
  PROVE  ScratchInductive'
<1>1. /\ TypeOK /\ handling /\ fills < MaxFills /\ fills' = fills + 1
      /\ handling' = handling /\ command' = command /\ beyond' = beyond
      /\ m_ScratchCounter = Stored
      /\ \A i \in 0 .. Stored - 1 : t_EventScratch["Matching"][i] = TradeInSlot(i)
  BY DEF ScratchInductive, RecordFill
<1>2. /\ fills \in Nat /\ m_TradeCounter \in Nat \ {0}
      /\ MaxEventsPerCommand \in Nat \ {0} /\ command \in 0 .. MaxCommands
      /\ t_EventScratch \in [Units -> [Slots -> Event]]
      /\ MaxFills \in Nat /\ Stored \in 0 .. MaxEventsPerCommand
  BY <1>1, StoredFacts DEF TypeOK
<1>3. OutcomeReturned' /\ TradesStored'
  BY <1>1 DEF HasReturned, OutcomeReturned, TradesStored
<1>4. CASE m_ScratchCounter < MaxEventsPerCommand
  <2> DEFINE c  == m_ScratchCounter
             tr == Trade(command, m_TradeCounter)
  <2>1. /\ t_EventScratch' = [t_EventScratch EXCEPT !["Matching"][c] = tr]
        /\ m_ScratchCounter' = c + 1 /\ m_TradeCounter' = m_TradeCounter + 1
    BY <1>4 DEF RecordFill
  <2>2. c = fills /\ c \in Slots /\ tr \in Event /\ c + 1 = fills'
    BY <1>1, <1>2, <1>4, StoredFacts, EventsAreEvents DEF Slots
  <2>3. tr.kind = "Trade" /\ tr.tradeID = m_TradeCounter
    BY DEF Trade
  <2>4. Stored' = c + 1
    BY <1>2, <1>4, <2>2 DEF Stored
  <2>5. \A i \in 0 .. c : TradeInSlot(i)' = IF i = c THEN tr ELSE TradeInSlot(i)
    <3> SUFFICES ASSUME NEW i \in 0 .. c
                 PROVE  TradeInSlot(i)' = IF i = c THEN tr ELSE TradeInSlot(i)
      OBVIOUS
    <3>1. m_TradeCounter' - Stored' + i
            = IF i = c THEN m_TradeCounter ELSE m_TradeCounter - Stored + i
      BY <1>1, <1>2, <2>1, <2>2, <2>4
    <3> QED BY <1>1, <3>1 DEF TradeInSlot
  <2> HIDE DEF tr
  <2>6. /\ t_EventScratch' \in [Units -> [Slots -> Event]]
        /\ t_EventScratch'["Matching"][c] = tr
        /\ \A i \in Slots \ {c} :
             t_EventScratch'["Matching"][i] = t_EventScratch["Matching"][i]
    BY <1>2, <2>1, <2>2 DEF Units
  <2>7. TypeOK'
    BY <1>1, <1>2, <2>1, <2>2, <2>6 DEF TypeOK
  <2>8. \A i \in Slots :
          LET e == t_EventScratch["Matching"][i]
          IN  e \in Event /\ (e.kind = "Trade" => e.tradeID < m_TradeCounter)
    BY <1>2 DEF ScratchInductive, Units
  <2>9. \A i \in Slots :
          LET e == t_EventScratch'["Matching"][i]
          IN  e.kind = "Trade" => e.tradeID < m_TradeCounter'
    BY <1>2, <2>1, <2>3, <2>6, <2>8 DEF Event
  <2>10. TradeIDsUnique'
    <3> SUFFICES ASSUME NEW i \in Slots, NEW j \in Slots,
                        t_EventScratch'["Matching"][i].kind = "Trade",
                        t_EventScratch'["Matching"][j].kind = "Trade",
                        t_EventScratch'["Matching"][i].tradeID =
                          t_EventScratch'["Matching"][j].tradeID
                 PROVE  i = j
      BY DEF TradeIDsUnique
    <3>1. CASE i # c /\ j # c
      BY <2>6, <3>1 DEF ScratchInductive, TradeIDsUnique
    <3>2. CASE i = c /\ j # c
      BY <1>2, <2>3, <2>6, <2>8, <3>2
    <3>3. CASE i # c /\ j = c
      BY <1>2, <2>3, <2>6, <2>8, <3>3
    <3> QED BY <3>1, <3>2, <3>3
  <2>11. \A i \in 0 .. Stored' - 1 : t_EventScratch'["Matching"][i] = TradeInSlot(i)'
    <3> SUFFICES ASSUME NEW i \in 0 .. Stored' - 1
                 PROVE  t_EventScratch'["Matching"][i] = TradeInSlot(i)'
      OBVIOUS
    <3>1. CASE i = c
      <4>1. i \in 0 .. c
        BY <2>2, <3>1 DEF Slots
      <4> QED BY <2>5, <2>6, <3>1, <4>1
    <3>2. CASE i # c
      <4>1. i \in 0 .. c /\ i \in 0 .. Stored - 1 /\ i \in Slots \ {c}
        BY <1>1, <1>2, <2>2, <2>4, <3>2 DEF Slots
      <4>2. t_EventScratch["Matching"][i] = TradeInSlot(i)
        BY <1>1, <4>1
      <4> QED BY <2>5, <2>6, <3>2, <4>1, <4>2
    <3> QED BY <3>1, <3>2
  <2> QED BY <1>3, <2>1, <2>4, <2>7, <2>9, <2>10, <2>11 DEF ScratchInductive
<1>5. CASE ~(m_ScratchCounter < MaxEventsPerCommand)
  <2>1. /\ t_EventScratch' = t_EventScratch
        /\ m_ScratchCounter' = m_ScratchCounter /\ m_TradeCounter' = m_TradeCounter
    BY <1>5 DEF RecordFill
  <2>2. TypeOK'
    BY <1>1, <1>2, <2>1 DEF TypeOK
  <2>3. Stored' = Stored
    BY <1>1, <1>2, <1>5, StoredFacts DEF Stored
  <2>4. \A i : TradeInSlot(i)' = TradeInSlot(i)
    BY <1>1, <2>1, <2>3 DEF TradeInSlot
  <2> QED BY <1>1, <1>3, <2>1, <2>2, <2>3, <2>4 DEF ScratchInductive, TradeIDsUnique
<1> QED BY <1>4, <1>5

\* The outcome goes behind the stored fills, in the array of main or behind it.
LEMMA HandleScratch ==
  ASSUME ScratchInductive, Handle
  PROVE  ScratchInductive'
<1> DEFINE c == m_ScratchCounter
<1>1. /\ TypeOK /\ handling /\ handling' = FALSE /\ m_ScratchCounter' = c + 1
      /\ m_TradeCounter' = m_TradeCounter /\ command' = command /\ fills' = fills
      /\ c = Stored
      /\ \A i \in 0 .. Stored - 1 : t_EventScratch["Matching"][i] = TradeInSlot(i)
  BY DEF ScratchInductive, Handle
<1>2. /\ MaxEventsPerCommand \in Nat \ {0} /\ Stored \in 0 .. MaxEventsPerCommand
      /\ Outcome(command) \in Event
      /\ t_EventScratch \in [Units -> [Slots -> Event]]
  BY <1>1, StoredFacts, EventsAreEvents DEF TypeOK
<1>3. c \in 0 .. MaxEventsPerCommand /\ (c + 1) - 1 = c
      /\ c + 1 \in 0 .. MaxEventsPerCommand + 1
  BY <1>1, <1>2
<1>4. /\ t_EventScratch' \in [Units -> [Slots -> Event]]
      /\ beyond' \in Event
      /\ t_EventScratch'["Matching"] = t_EventScratch["Matching"]
      /\ Outcome(command) = IF c \in Slots THEN t_EventScratch'["main"][c]
                                           ELSE beyond'
  <2>1. CASE c \in Slots
    <3>1. t_EventScratch' = [t_EventScratch EXCEPT !["main"][c] = Outcome(command)]
          /\ beyond' = beyond
      BY <2>1 DEF Handle
    <3>2. beyond \in Event
      BY <1>1 DEF TypeOK
    <3>3. t_EventScratch'["main"][c] = Outcome(command)
      BY <1>2, <2>1, <3>1 DEF Units
    <3> QED BY <1>1, <1>2, <2>1, <3>1, <3>2, <3>3 DEF Units
  <2>2. CASE c \notin Slots
    BY <1>1, <1>2, <2>2 DEF Handle
  <2> QED BY <2>1, <2>2
<1>5. TypeOK'
  BY <1>1, <1>3, <1>4 DEF TypeOK
<1>6. OutcomeReturned'
  BY <1>1, <1>3, <1>4 DEF OutcomeReturned, SpanAt
<1>7. TradesStored'
  <2>1. Stored' = Stored /\ \A i : TradeInSlot(i)' = TradeInSlot(i)
    BY <1>1 DEF Stored, TradeInSlot
  <2> QED BY <1>1, <1>4, <2>1 DEF TradesStored
<1> QED BY <1>1, <1>4, <1>5, <1>6, <1>7 DEF ScratchInductive, TradeIDsUnique

\* Every step keeps the invariant.
LEMMA NextScratch == ScratchInductive /\ [Next]_vars => ScratchInductive'
<1> SUFFICES ASSUME ScratchInductive, [Next]_vars PROVE ScratchInductive'
  OBVIOUS
<1>1. CASE UNCHANGED vars
  BY <1>1 DEF vars, ScratchInductive, TypeOK, HasReturned, OutcomeReturned, SpanAt,
              TradeIDsUnique, TradesStored, Stored, TradeInSlot
<1>2. CASE Finished
  BY <1>1, <1>2 DEF Finished
<1> QED BY <1>1, <1>2, ApplyScratch, RecordFillScratch, HandleScratch DEF Next

\* The counter that RecordFill and Handle share stays within one of the end of
\* the array, however many fills a command makes, with all that follows from it.
THEOREM ScratchInvariant == Spec => []ScratchInductive
<1> QED BY InitScratch, NextScratch, PTL DEF Spec

\* The last event of the returned span is the outcome of this very command,
\* also when RecordFill moved the counter over slots of another array.
THEOREM OutcomeIsReturned == Spec => []OutcomeReturned
<1>1. ScratchInductive => OutcomeReturned
  BY DEF ScratchInductive
<1> QED BY <1>1, ScratchInvariant, PTL

\* Every fill for which there is a slot is stored as a trade, once, in its turn
\* and under ids without a gap, for any number of slots, commands and fills.
THEOREM TradesAreStored == Spec => []TradesStored
<1>1. ScratchInductive => TradesStored
  BY DEF ScratchInductive
<1> QED BY <1>1, ScratchInvariant, PTL

\* No two stored trades have the same id, across commands and dropped fills.
THEOREM TradeIDsAreUnique == Spec => []TradeIDsUnique
<1>1. ScratchInductive => TradeIDsUnique
  BY DEF ScratchInductive
<1> QED BY <1>1, ScratchInvariant, PTL

\* The outcome is stored behind the array only by a command that made as many
\* fills as the array has slots.
THEOREM OverrunNeedsFullArray == Spec => OverrunOnlyWhenFull
<1>1. ScratchInductive /\ [Next]_vars
        => [beyond' # beyond => fills >= MaxEventsPerCommand]_vars
  <2> SUFFICES ASSUME ScratchInductive, Next, beyond' # beyond
               PROVE  fills >= MaxEventsPerCommand
    BY DEF vars
  <2>1. Handle /\ m_ScratchCounter \notin Slots
    BY DEF Next, Apply, RecordFill, Finished, vars, Handle
  <2>2. m_ScratchCounter = Stored /\ Stored \in 0 .. MaxEventsPerCommand /\ fills \in Int
    BY <2>1, StoredFacts DEF ScratchInductive, Handle, TypeOK
  <2>3. Stored = MaxEventsPerCommand /\ Stored <= fills
    BY <2>1, <2>2, StoredFacts DEF Slots, ScratchInductive
  <2> QED BY <2>2, <2>3
<1> QED BY <1>1, ScratchInvariant, PTL DEF Spec, OverrunOnlyWhenFull
=============================================================================

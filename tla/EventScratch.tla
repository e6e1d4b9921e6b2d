----------------------------- MODULE EventScratch -----------------------------
(***************************************************************************)
(* How the events of a command travel: RecordFill and Handle store them in *)
(* t_EventScratch, and Apply returns a span of it                          *)
(* (src/src/Engine/OrderBook.hpp, OrderBook.inl).                          *)
(*                                                                         *)
(* t_EventScratch is declared `inline static thread_local` in a header, so *)
(* every translation unit has an array of its own.  RecordFill is          *)
(* instantiated in Matching.cpp, where it is called; Apply and Handle are  *)
(* instantiated in main.cpp.  m_ScratchCounter, m_TradeCounter belong to   *)
(* the OrderBook object, which both units share.                           *)
(*                                                                         *)
(* The book itself is abstracted: a command makes any number of fills.     *)
(***************************************************************************)
EXTENDS Integers

CONSTANTS
  MaxEventsPerCommand,  \* slots of the array (128)
  MaxFills,             \* bound: fills of one command
  MaxCommands           \* bound: commands of a behaviour

ASSUME ScratchAssumption ==
  MaxEventsPerCommand \in Nat \ {0} /\ MaxFills \in Nat /\ MaxCommands \in Nat

Units == {"Matching", "main"}
Slots == 0 .. MaxEventsPerCommand - 1

VARIABLES
  t_EventScratch,    \* per translation unit: slot -> event
  beyond,            \* what was stored at index MaxEventsPerCommand of main's
  m_ScratchCounter,
  m_TradeCounter,
  command,           \* number of the command under way, or of the last one
  handling,          \* Apply has been entered and has not returned
  fills              \* the fills the matching strategy reported for it

vars == <<t_EventScratch, beyond, m_ScratchCounter, m_TradeCounter,
          command, handling, fills>>

\* An event says what it reports and of which command.
NoEvent == [kind |-> "None", command |-> 0, tradeID |-> 0]
Trade(c, id) == [kind |-> "Trade", command |-> c, tradeID |-> id]
Outcome(c)   == [kind |-> "Outcome", command |-> c, tradeID |-> 0]
Event == [kind : {"None", "Trade", "Outcome"}, command : 0 .. MaxCommands,
          tradeID : Nat]

Init ==
  /\ t_EventScratch = [u \in Units |-> [i \in Slots |-> NoEvent]]
  /\ beyond = NoEvent
  /\ m_ScratchCounter = 0
  /\ m_TradeCounter = 1
  /\ command = 0
  /\ handling = FALSE
  /\ fills = 0

\* Mutant of Apply: the counter is not reset.
ApplyKeepingCounter ==
  /\ ~handling /\ command < MaxCommands
  /\ m_ScratchCounter < MaxEventsPerCommand
  /\ command' = command + 1
  /\ handling' = TRUE
  /\ fills' = 0
  /\ UNCHANGED <<t_EventScratch, beyond, m_ScratchCounter, m_TradeCounter>>

\* Apply is entered: the counter is reset, the slots are not.  A payload of
\* type None is not handled: Apply returns at once, and an empty span.
Apply ==
  /\ ~handling /\ command < MaxCommands
  /\ m_ScratchCounter' = 0
  /\ command' = command + 1
  /\ handling' \in BOOLEAN
  /\ fills' = 0
  /\ UNCHANGED <<t_EventScratch, beyond, m_TradeCounter>>

\* Mutant of RecordFill: the number of a trade is not used up.
RecordFillSameID ==
  /\ handling /\ fills < MaxFills
  /\ fills' = fills + 1
  /\ IF m_ScratchCounter < MaxEventsPerCommand
     THEN /\ t_EventScratch' = [t_EventScratch EXCEPT
               !["Matching"][m_ScratchCounter] = Trade(command, m_TradeCounter)]
          /\ m_ScratchCounter' = m_ScratchCounter + 1
     ELSE UNCHANGED <<t_EventScratch, m_ScratchCounter>>
  /\ UNCHANGED <<m_TradeCounter, beyond, command, handling>>

\* The matching strategy reports a fill.  A fill that finds the array full is
\* dropped without a trade id.
RecordFill ==
  /\ handling /\ fills < MaxFills
  /\ fills' = fills + 1
  /\ IF m_ScratchCounter < MaxEventsPerCommand
     THEN /\ t_EventScratch' = [t_EventScratch EXCEPT
               !["Matching"][m_ScratchCounter] = Trade(command, m_TradeCounter)]
          /\ m_ScratchCounter' = m_ScratchCounter + 1
          /\ m_TradeCounter' = m_TradeCounter + 1
     ELSE UNCHANGED <<t_EventScratch, m_ScratchCounter, m_TradeCounter>>
  /\ UNCHANGED <<beyond, command, handling>>

\* Mutant of Handle: the counter is incremented before it indexes.
HandlePreIncremented ==
  /\ handling
  /\ handling' = FALSE
  /\ IF m_ScratchCounter + 1 \in Slots
     THEN /\ t_EventScratch' = [t_EventScratch EXCEPT
               !["main"][m_ScratchCounter + 1] = Outcome(command)]
          /\ UNCHANGED beyond
     ELSE /\ beyond' = Outcome(command)
          /\ UNCHANGED t_EventScratch
  /\ m_ScratchCounter' = m_ScratchCounter + 1
  /\ UNCHANGED <<m_TradeCounter, command, fills>>

\* Handle stores the outcome behind the trades, whether or not there is a
\* slot left, and Apply returns.
Handle ==
  /\ handling
  /\ handling' = FALSE
  /\ IF m_ScratchCounter \in Slots
     THEN /\ t_EventScratch' = [t_EventScratch EXCEPT
               !["main"][m_ScratchCounter] = Outcome(command)]
          /\ UNCHANGED beyond
     ELSE /\ beyond' = Outcome(command)
          /\ UNCHANGED t_EventScratch
  /\ m_ScratchCounter' = m_ScratchCounter + 1
  /\ UNCHANGED <<m_TradeCounter, command, fills>>

\* All commands of the bound are done.
Finished == ~handling /\ command = MaxCommands /\ UNCHANGED vars

Next == Apply \/ RecordFill \/ Handle \/ Finished

Spec == Init /\ [][Next]_vars

-----------------------------------------------------------------------------
(* The span {t_EventScratch.data(), m_ScratchCounter} that Apply returns.  *)
(* At index MaxEventsPerCommand it reads what Handle stored there, outside *)
(* the array: undefined in C++, and the mildest outcome here.              *)

SpanAt(i) == IF i \in Slots THEN t_EventScratch["main"][i] ELSE beyond

\* Apply has returned a span that is not empty.
HasReturned == ~handling /\ m_ScratchCounter > 0

(* Properties.                                                             *)

TypeOK ==
  /\ t_EventScratch \in [Units -> [Slots -> Event]]
  /\ beyond \in Event
  /\ m_ScratchCounter \in 0 .. MaxEventsPerCommand + 1
  /\ m_TradeCounter \in Nat \ {0}
  /\ command \in 0 .. MaxCommands
  /\ handling \in BOOLEAN
  /\ fills \in 0 .. MaxFills

\* The last event of the span a caller gets is the outcome of its command,
\* never one an earlier command left in the slot (the counter that RecordFill
\* moved while it wrote another array is the index Handle stores at).
OutcomeReturned == HasReturned => SpanAt(m_ScratchCounter - 1) = Outcome(command)

\* The fills of the command under way, or of the last, that got a slot.
Stored == IF fills < MaxEventsPerCommand THEN fills ELSE MaxEventsPerCommand

\* The trade that the (i+1)-th of them is: the last of them has the last id given.
TradeInSlot(i) == Trade(command, m_TradeCounter - Stored + i)

\* The events of a command are all stored, each once: every fill that finds a
\* slot is a trade in the slot of its turn, under ids without a gap, over what
\* earlier commands left there and after any number of dropped fills, and the
\* counter that Apply returns stands behind the trades and the outcome.
TradesStored ==
  HasReturned =>
    /\ m_ScratchCounter = Stored + 1
    /\ \A i \in 0 .. Stored - 1 : t_EventScratch["Matching"][i] = TradeInSlot(i)

\* Trade ids tell trades apart, across commands and after dropped fills.
TradeIDsUnique ==
  \A i, j \in Slots :
    LET a == t_EventScratch["Matching"][i]
        b == t_EventScratch["Matching"][j]
    IN  a.kind = "Trade" /\ b.kind = "Trade" /\ a.tradeID = b.tradeID => i = j

\* Handle stores outside the array only for a command that made at least as
\* many fills as there are slots (128), whatever the commands before it did.
OverrunOnlyWhenFull ==
  [][beyond' # beyond => fills >= MaxEventsPerCommand]_vars

\* The invariant every step preserves.  While a command is handled the counter
\* is the number of its stored trades, which are in the first slots; afterwards
\* the outcome is counted too.  Trades have ids below the next one.
ScratchInductive ==
  /\ TypeOK
  /\ handling =>
       /\ m_ScratchCounter = Stored
       /\ \A i \in 0 .. Stored - 1 : t_EventScratch["Matching"][i] = TradeInSlot(i)
  /\ OutcomeReturned
  /\ TradesStored
  /\ TradeIDsUnique
  /\ \A i \in Slots :
       LET e == t_EventScratch["Matching"][i]
       IN  e.kind = "Trade" => e.tradeID < m_TradeCounter

-----------------------------------------------------------------------------
(* What the code does not keep, the property of a run that finds it        *)
(* violated.                                                               *)

\* README: "Trade - represents each completed interaction between two orders by
\* the matching algorithm", one of the events of the engine.  The trades of a
\* command stand before its outcome in the span that its caller gets.
TradesReturned ==
  HasReturned => \A i \in 0 .. Stored - 1 : SpanAt(i) = TradeInSlot(i)

=============================================================================

---------------------------- MODULE TradingEngine ----------------------------
(***************************************************************************)
(* The threads around the order book: src/src/Engine/TradingEngine.hpp     *)
(* with the ThreadSafeQueue it is fed through, used as src/src/main.cpp    *)
(* uses it.                                                                *)
(*                                                                         *)
(* Clients push commands.  The engine thread pops and applies them, sleeps *)
(* a tick when there is none, and drains the queue once it is asked to     *)
(* stop.  Main starts and stops the engine and has the depth view copied   *)
(* from the book; a viewer reads the active copy.                          *)
(*                                                                         *)
(* push and try_pop hold the mutex of the queue from their first access to *)
(* their last, so each is one step.  (Nobody waits on the condition        *)
(* variable of this queue and nobody closes it.)  Apply and the two loops  *)
(* of GetSnapshot take no lock: each is a stretch between two steps, in    *)
(* which others move.  The book is the sequence of the commands applied to *)
(* it; OrderBook says what a command does.                                 *)
(***************************************************************************)
EXTENDS Integers, Sequences

CONSTANT MaxCommands   \* bound: commands that clients push

ASSUME EngineAssumption == MaxCommands \in Nat

VARIABLES
  m_CommandQueue,
  accepted,          \* history: how many commands push returned true for
  acceptedAtStop,    \* history: accepted when the stop was requested
  engine,            \* where Run is
  cmd,               \* the command Run popped last
  processed_any,
  stop_requested,
  applied,           \* the commands for which Apply has returned
  main,              \* where main is
  inactive_idx,
  snapshot,          \* the copy OrderBook::GetSnapshot is making
  m_Snapshots,
  m_ActiveSnapshot,
  viewer,            \* where the viewer is
  active,            \* the snapshot it copies
  behind,            \* the publications since the one its last load returned
  shown              \* history: the last version of each side it got untorn

queueVars  == <<m_CommandQueue, accepted>>
engineVars == <<engine, cmd, processed_any, applied>>
stopVars   == <<stop_requested, acceptedAtStop>>
mainVars   == <<main, inactive_idx, snapshot, m_Snapshots, m_ActiveSnapshot>>
viewVars   == <<viewer, active, behind, shown>>
vars == <<queueVars, engineVars, stopVars, mainVars, viewVars>>

\* A command is its number in the order of the pushes of all clients.
Command   == 1 .. MaxCommands
NoCommand == 0

\* A side of a snapshot: the number of commands applied to the book it was
\* copied from, or Torn if the book was changed while it was copied (a data
\* race: any content at all).
Torn    == -1
Version == Nat \cup {Torn}
Empty   == [bids |-> 0, asks |-> 0]

\* After two publications any number more makes no difference to the viewer.
MostBehind == 2

Applying == engine \in {"apply", "drain_apply"}

\* What one finds when one looks at the book now.
VersionNow == IF Applying THEN Torn ELSE Len(applied)

Init ==
  /\ m_CommandQueue = <<>>
  /\ accepted = 0
  /\ acceptedAtStop = 0
  /\ engine = "none"
  /\ cmd = NoCommand
  /\ processed_any = FALSE
  /\ stop_requested = FALSE
  /\ applied = <<>>
  /\ main = "new"
  /\ inactive_idx = 0
  /\ snapshot = Empty
  /\ m_Snapshots = [i \in {0, 1} |-> Empty]
  /\ m_ActiveSnapshot = 0
  /\ viewer = "idle"
  /\ active = 0
  /\ behind = 0
  /\ shown = Empty

-----------------------------------------------------------------------------
(* Clients.                                                                *)

\* Mutant of Push: a second producer overwrites the last entry.
PushOver ==
  /\ main # "ended" /\ accepted < MaxCommands
  /\ accepted' = accepted + 1
  /\ m_CommandQueue' = IF Len(m_CommandQueue) > 1
                       THEN [m_CommandQueue EXCEPT ![Len(m_CommandQueue)] = accepted']
                       ELSE Append(m_CommandQueue, accepted')
  /\ UNCHANGED <<engineVars, stopVars, mainVars, viewVars>>

\* AddOrder, ModifyOrder or CancelOrder, by any client: push, which accepts
\* while the queue is not closed, at any time of the engine's life.
Push ==
  /\ main # "ended" /\ accepted < MaxCommands
  /\ accepted' = accepted + 1
  /\ m_CommandQueue' = Append(m_CommandQueue, accepted')
  /\ UNCHANGED <<engineVars, stopVars, mainVars, viewVars>>

-----------------------------------------------------------------------------
(* The engine thread: Run.                                                 *)

\* Mutant of CheckStop: a stop request ends the thread without a drain.
CheckStopAndLeave ==
  /\ engine = "loop"
  /\ engine' = IF stop_requested THEN "done" ELSE "pop"
  /\ processed_any' = FALSE
  /\ UNCHANGED <<cmd, applied, queueVars, stopVars, mainVars, viewVars>>

\* The condition of the outer loop.
CheckStop ==
  /\ engine = "loop"
  /\ engine' = IF stop_requested THEN "drain" ELSE "pop"
  /\ processed_any' = IF stop_requested THEN processed_any ELSE FALSE
  /\ UNCHANGED <<cmd, applied, queueVars, stopVars, mainVars, viewVars>>

\* try_pop: the front of the queue, if there is one.
TryPop(found, empty) ==
  /\ IF m_CommandQueue = <<>>
     THEN engine' = empty /\ UNCHANGED <<cmd, m_CommandQueue>>
     ELSE /\ engine' = found
          /\ cmd' = Head(m_CommandQueue)
          /\ m_CommandQueue' = Tail(m_CommandQueue)
  /\ UNCHANGED <<accepted, applied, stopVars, mainVars, viewVars>>

\* Mutant of Pop: a thread that finds the queue empty goes on looking at it.
PopForever ==
  /\ engine = "pop"
  /\ TryPop("apply", "pop")
  /\ processed_any' = (processed_any \/ m_CommandQueue # <<>>)

\* The condition of the inner loop, which does not look at the stop token.
Pop ==
  /\ engine = "pop"
  /\ TryPop("apply", IF processed_any THEN "loop" ELSE "sleep")
  /\ processed_any' = (processed_any \/ m_CommandQueue # <<>>)

\* Apply returns; its events are handled (HandleEvent does nothing).
ApplyReturns ==
  /\ engine = "apply"
  /\ engine' = "pop"
  /\ applied' = Append(applied, cmd)
  /\ UNCHANGED <<cmd, processed_any, queueVars, stopVars, mainVars, viewVars>>

\* Mutant of Wake: the thread sleeps until it is stopped.
WakeToStop ==
  /\ engine = "sleep" /\ stop_requested
  /\ engine' = "loop"
  /\ UNCHANGED <<cmd, processed_any, applied, queueVars, stopVars, mainVars, viewVars>>

\* The tick is over.
Wake ==
  /\ engine = "sleep"
  /\ engine' = "loop"
  /\ UNCHANGED <<cmd, processed_any, applied, queueVars, stopVars, mainVars, viewVars>>

\* The loop behind the main one, until the queue is seen empty.
DrainPop ==
  /\ engine = "drain"
  /\ TryPop("drain_apply", "done")
  /\ UNCHANGED processed_any

DrainApplyReturns ==
  /\ engine = "drain_apply"
  /\ engine' = "drain"
  /\ applied' = Append(applied, cmd)
  /\ UNCHANGED <<cmd, processed_any, queueVars, stopVars, mainVars, viewVars>>

Run == CheckStop \/ Pop \/ ApplyReturns \/ Wake \/ DrainPop \/ DrainApplyReturns

-----------------------------------------------------------------------------
(* Main.                                                                   *)

Start ==
  /\ main = "new" /\ main' = "idle"
  /\ engine' = "loop"
  /\ UNCHANGED <<cmd, processed_any, applied, inactive_idx, snapshot, m_Snapshots,
                 m_ActiveSnapshot, queueVars, stopVars, viewVars>>

\* Mutant of UpdateSnapshot: the snapshot after the active one, not the other one.
UpdateNextSnapshot ==
  /\ main = "idle" /\ main' = "bids"
  /\ inactive_idx' = m_ActiveSnapshot + 1
  /\ snapshot' = [snapshot EXCEPT !.bids = VersionNow]
  /\ UNCHANGED <<m_Snapshots, m_ActiveSnapshot, queueVars, engineVars, stopVars, viewVars>>

\* UpdateSnapshot up to the loop of OrderBook::GetSnapshot over the bids.
UpdateSnapshot ==
  /\ main = "idle" /\ main' = "bids"
  /\ inactive_idx' = 1 - m_ActiveSnapshot
  /\ snapshot' = [snapshot EXCEPT !.bids = VersionNow]
  /\ UNCHANGED <<m_Snapshots, m_ActiveSnapshot, queueVars, engineVars, stopVars, viewVars>>

\* Version v that a loop found as it started holds if nothing has changed.
Copied(v) == IF v = VersionNow THEN v ELSE Torn

\* The bids are copied, the loop over the asks starts.
BidsCopied ==
  /\ main = "bids" /\ main' = "asks"
  /\ snapshot' = [bids |-> Copied(snapshot.bids), asks |-> VersionNow]
  /\ UNCHANGED <<inactive_idx, m_Snapshots, m_ActiveSnapshot, queueVars, engineVars,
                 stopVars, viewVars>>

\* A copy by the viewer that overlaps with the assignment of what it copies.
Overwrites(w) == main' = "write" /\ w = "copy" /\ active = inactive_idx

\* The snapshot the viewer loaded last has got older by one publication.
OneMoreBehind == behind' = IF behind < MostBehind THEN behind + 1 ELSE behind

\* Mutant of AsksCopied: the snapshot is made active before it is assigned.
AsksCopiedPublishFirst ==
  /\ main = "asks" /\ main' = "write"
  /\ snapshot' = [snapshot EXCEPT !.asks = Copied(@)]
  /\ m_ActiveSnapshot' = inactive_idx
  /\ OneMoreBehind
  /\ viewer' = IF Overwrites(viewer) THEN "torn" ELSE viewer
  /\ UNCHANGED <<inactive_idx, m_Snapshots, active, shown, queueVars, engineVars, stopVars>>

\* The asks are copied, the assignment to the inactive snapshot starts.
AsksCopied ==
  /\ main = "asks" /\ main' = "write"
  /\ snapshot' = [snapshot EXCEPT !.asks = Copied(@)]
  /\ viewer' = IF Overwrites(viewer) THEN "torn" ELSE viewer
  /\ UNCHANGED <<inactive_idx, m_Snapshots, m_ActiveSnapshot, active, behind, shown,
                 queueVars, engineVars, stopVars>>

\* The inactive snapshot is assigned.
Written ==
  /\ main = "write" /\ main' = "publish"
  /\ m_Snapshots' = [m_Snapshots EXCEPT ![inactive_idx] = snapshot]
  /\ UNCHANGED <<inactive_idx, snapshot, m_ActiveSnapshot, queueVars, engineVars,
                 stopVars, viewVars>>

Publish ==
  /\ main = "publish" /\ main' = "idle"
  /\ m_ActiveSnapshot' = inactive_idx
  /\ OneMoreBehind
  /\ UNCHANGED <<inactive_idx, snapshot, m_Snapshots, viewer, active, shown,
                 queueVars, engineVars, stopVars>>

\* Stop, by main or by the destructor.
Stop ==
  /\ main = "idle" /\ main' = "joining"
  /\ stop_requested' = TRUE
  /\ acceptedAtStop' = accepted
  /\ UNCHANGED <<inactive_idx, snapshot, m_Snapshots, m_ActiveSnapshot, queueVars,
                 engineVars, viewVars>>

\* The destructor of m_Thread has joined the thread; the engine is gone.
Joined ==
  /\ main = "joining" /\ engine = "done" /\ viewer = "idle"
  /\ main' = "ended"
  /\ UNCHANGED <<inactive_idx, snapshot, m_Snapshots, m_ActiveSnapshot, queueVars,
                 engineVars, stopVars, viewVars>>

Main ==
  \/ Start \/ UpdateSnapshot \/ BidsCopied \/ AsksCopied \/ Written \/ Publish
  \/ Stop \/ Joined

-----------------------------------------------------------------------------
(* The viewer: TradingEngine::GetSnapshot.                                 *)

\* Snapshot i, as it was published b publications ago, has been assigned again
\* since, or is being assigned, and the load orders the copy behind none of it.
Overwritten(i, b) ==
  \/ main = "write" /\ inactive_idx = i
  \/ b = 1 /\ main = "publish"
  \/ b > 1

\* The load returns the pointer published b publications ago, and a copy of
\* what it points to starts.  (At MostBehind, a torn copy of one of the two.)
StartCopy(b) ==
  /\ behind' = b
  /\ active' = IF b = 1 THEN 1 - m_ActiveSnapshot ELSE m_ActiveSnapshot
  /\ viewer' = IF Overwritten(active', b) THEN "torn" ELSE "copy"
  /\ UNCHANGED <<shown, queueVars, engineVars, stopVars, mainVars>>

\* Mutant of LoadActive: either of the two snapshots is taken.
LoadEither ==
  /\ viewer = "idle" /\ main # "ended"
  /\ \E b \in {0, 1} : StartCopy(b)

\* The acquiring load returns the newest pointer or an older one, but none that
\* is older than what the same thread has loaded before.
LoadActive ==
  /\ viewer = "idle" /\ main # "ended"
  /\ \E b \in 0 .. behind : StartCopy(b)

\* What the viewer knows of a side after it got v of it: a torn one tells nothing.
Fresh(v, known) == IF v = Torn THEN known ELSE v

\* The copy is complete.
ActiveCopied ==
  /\ viewer \in {"copy", "torn"}
  /\ viewer' = "idle"
  /\ shown' = IF viewer = "copy"
              THEN [bids |-> Fresh(m_Snapshots[active].bids, shown.bids),
                    asks |-> Fresh(m_Snapshots[active].asks, shown.asks)]
              ELSE shown
  /\ UNCHANGED <<active, behind, queueVars, engineVars, stopVars, mainVars>>

Viewer == LoadActive \/ ActiveCopied

-----------------------------------------------------------------------------
\* The end of the process; a state with no step before it is a deadlock.
Ended == main = "ended" /\ UNCHANGED vars

Next == Push \/ Run \/ Main \/ Viewer \/ Ended

\* The scheduler lets the engine thread run, and sleep_for returns.  Main,
\* the clients and the viewer owe nobody anything.
Spec == Init /\ [][Next]_vars /\ WF_vars(Run)

-----------------------------------------------------------------------------
(* Properties.                                                             *)

Snapshots == [bids : Version, asks : Version]

\* Every variable holds a value of its kind.
TypeOK ==
  /\ m_CommandQueue \in Seq(Command) /\ applied \in Seq(Command)
  /\ accepted \in 0 .. MaxCommands /\ acceptedAtStop \in 0 .. MaxCommands
  /\ engine \in {"none", "loop", "pop", "apply", "sleep", "drain", "drain_apply", "done"}
  /\ cmd \in Command \cup {NoCommand}
  /\ Applying => cmd \in Command
  /\ processed_any \in BOOLEAN /\ stop_requested \in BOOLEAN
  /\ main \in {"new", "idle", "bids", "asks", "write", "publish", "joining", "ended"}
  /\ inactive_idx \in {0, 1} /\ m_ActiveSnapshot \in {0, 1} /\ active \in {0, 1}
  /\ snapshot \in Snapshots
  /\ shown \in [bids : Nat, asks : Nat] /\ behind \in 0 .. MostBehind
  /\ m_Snapshots \in [{0, 1} -> Snapshots]
  /\ viewer \in {"idle", "copy", "torn"}

\* The commands popped and not yet applied.
InHand == IF Applying THEN 1 ELSE 0

\* No command for which push returned true is lost, duplicated or overtaken:
\* the book has got the oldest of them in the order of their pushes, whichever
\* of the two loops of Run they went through, the next is in the engine's hand
\* if it applies one, and the others are in the queue.
NothingLost ==
  /\ \A i \in DOMAIN applied : applied[i] = i
  /\ Applying => cmd = Len(applied) + 1
  /\ \A i \in DOMAIN m_CommandQueue : m_CommandQueue[i] = Len(applied) + InHand + i
  /\ accepted = Len(applied) + InHand + Len(m_CommandQueue)

\* Every command accepted before the stop is requested is applied by the time
\* Run returns, wherever the request meets it.
StopDrains ==
  engine = "done" => stop_requested /\ Len(applied) >= acceptedAtStop

\* The double buffer: a copy by the viewer is torn only if a newer snapshot was
\* published before the tear, whichever published pointer its load returned.
\* One UpdateSnapshot during a copy of the newest is harmless.
OnlyStaleCopiesTorn ==
  [][viewer' = "torn" /\ viewer # "torn" => behind' > 0]_vars

\* What the viewer is shown never goes back: no side of a copy that is not torn
\* is of an earlier state of the book than one that it was shown before, however
\* many torn copies came between them.
ViewNeverGoesBack ==
  [][shown'.bids >= shown.bids /\ shown'.asks >= shown.asks]_vars

\* When UpdateSnapshot has returned, the active snapshot is the copy that it
\* made, whatever the viewer and the engine did meanwhile.
UpdatePublished ==
  main \in {"idle", "joining"} => m_Snapshots[m_ActiveSnapshot] = snapshot

\* While the engine thread runs, every command that push accepted is applied,
\* or the thread ends.
AcceptedIsApplied ==
  \A n \in Command :
    accepted >= n /\ engine # "none" ~> Len(applied) >= n \/ engine = "done"

\* A stop request ends the thread, also in the middle of a batch or a sleep.
\* (Clients that never stop pushing could keep the loops busy for ever.)
StopEnds == stop_requested ~> engine = "done"

\* The depth view shows the book: both sides, of one state of it.
SnapshotShowsTheBook ==
  main = "idle" =>
    LET s == m_Snapshots[m_ActiveSnapshot] IN s.bids = s.asks /\ s.bids # Torn
=============================================================================

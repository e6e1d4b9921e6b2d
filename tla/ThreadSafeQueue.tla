--------------------------- MODULE ThreadSafeQueue ---------------------------
(***************************************************************************)
(* src/src/Data-Structures/ThreadSafeQueue.hpp: a queue with a mutex, a    *)
(* condition variable and a flag that closes it.                           *)
(*                                                                         *)
(* A stretch of code under the mutex is one step.  What push and close do  *)
(* after they have released it, notify_one and notify_all, is another:     *)
(* everyone else may move in between.  A consumer that waits releases the  *)
(* mutex and falls asleep in one step, as std::condition_variable does, is *)
(* woken by a notification or for no reason, and takes the mutex again.    *)
(***************************************************************************)
EXTENDS Integers, Sequences, FiniteSets

CONSTANTS
  Producer, Consumer,   \* the threads on either side
  MaxPushes             \* bound: items that are accepted

ASSUME QueueAssumption == IsFiniteSet(Producer) /\ IsFiniteSet(Consumer) /\ MaxPushes \in Nat

VARIABLES
  m_Queue,      \* items, each its number in the order of acceptance
  m_Closed,
  notifying,    \* producers between the unlock of push and notify_one
  closing,      \* the thread in close is between the unlock and notify_all
  asleep,       \* consumers in m_CV.wait
  woken,        \* consumers woken in m_CV.wait that have not locked m_Mutex yet
  accepted,     \* history: how many items push has accepted
  delivered     \* history: the items that were popped

queueVars == <<m_Queue, m_Closed, notifying, closing, asleep, woken, accepted, delivered>>

Init ==
  /\ m_Queue = <<>>
  /\ m_Closed = FALSE
  /\ notifying = {}
  /\ closing = FALSE
  /\ asleep = {}
  /\ woken = {}
  /\ accepted = 0
  /\ delivered = <<>>

-----------------------------------------------------------------------------
(* Producers.                                                              *)

\* Mutant of Push: a producer that finds items in the queue notifies nobody.
PushNotifyIfEmpty(p) ==
  /\ p \notin notifying /\ ~m_Closed /\ accepted < MaxPushes
  /\ accepted' = accepted + 1
  /\ m_Queue' = Append(m_Queue, accepted')
  /\ notifying' = IF m_Queue = <<>> THEN notifying \cup {p} ELSE notifying
  /\ UNCHANGED <<m_Closed, closing, asleep, woken, delivered>>

\* Mutant of Push: the flag is not looked at.
PushWhenClosed(p) ==
  /\ p \notin notifying /\ accepted < MaxPushes
  /\ accepted' = accepted + 1
  /\ m_Queue' = Append(m_Queue, accepted')
  /\ notifying' = notifying \cup {p}
  /\ UNCHANGED <<m_Closed, closing, asleep, woken, delivered>>

\* push up to its unlock.  On a closed queue it returns false and changes
\* nothing.
Push(p) ==
  /\ p \notin notifying /\ ~m_Closed /\ accepted < MaxPushes
  /\ accepted' = accepted + 1
  /\ m_Queue' = Append(m_Queue, accepted')
  /\ notifying' = notifying \cup {p}
  /\ UNCHANGED <<m_Closed, closing, asleep, woken, delivered>>

\* Mutant of NotifyOne: push returns without the notification.
NotifyNobody(p) ==
  /\ p \in notifying
  /\ notifying' = notifying \ {p}
  /\ UNCHANGED <<m_Queue, m_Closed, closing, asleep, woken, accepted, delivered>>

\* notify_one wakes some sleeper, if there is one.
NotifyOne(p) ==
  /\ p \in notifying
  /\ notifying' = notifying \ {p}
  /\ \/ asleep = {} /\ UNCHANGED <<asleep, woken>>
     \/ \E c \in asleep : asleep' = asleep \ {c} /\ woken' = woken \cup {c}
  /\ UNCHANGED <<m_Queue, m_Closed, closing, accepted, delivered>>

-----------------------------------------------------------------------------
(* close.                                                                  *)

Close ==
  /\ ~closing
  /\ m_Closed' = TRUE
  /\ closing' = TRUE
  /\ UNCHANGED <<m_Queue, notifying, asleep, woken, accepted, delivered>>

\* Mutant of NotifyAll: one sleeper is woken, as by a push.
NotifyAllOne ==
  /\ closing
  /\ closing' = FALSE
  /\ \/ asleep = {} /\ UNCHANGED <<asleep, woken>>
     \/ \E c \in asleep : asleep' = asleep \ {c} /\ woken' = woken \cup {c}
  /\ UNCHANGED <<m_Queue, m_Closed, notifying, accepted, delivered>>

NotifyAll ==
  /\ closing
  /\ closing' = FALSE
  /\ asleep' = {}
  /\ woken' = woken \cup asleep
  /\ UNCHANGED <<m_Queue, m_Closed, notifying, accepted, delivered>>

-----------------------------------------------------------------------------
(* Consumers.                                                              *)

\* Mutant of TakeFront: the front of an empty queue is taken as well (as item 0).
TakeFrontOrNothing ==
  /\ delivered' = Append(delivered, IF m_Queue = <<>> THEN 0 ELSE Head(m_Queue))
  /\ m_Queue' = IF m_Queue = <<>> THEN <<>> ELSE Tail(m_Queue)

\* The front of the queue goes to the caller.
TakeFront ==
  /\ m_Queue # <<>>
  /\ delivered' = Append(delivered, Head(m_Queue))
  /\ m_Queue' = Tail(m_Queue)

\* wait_and_pop from its start, or from a wake-up, to a true result.
WaitAndPopTrue(c) ==
  /\ c \notin asleep
  /\ TakeFront
  /\ woken' = woken \ {c}
  /\ UNCHANGED <<m_Closed, notifying, closing, asleep, accepted>>

\* ... to a false result: the queue is closed and empty.
WaitAndPopFalse(c) ==
  /\ c \notin asleep
  /\ m_Closed /\ m_Queue = <<>>
  /\ woken' = woken \ {c}
  /\ UNCHANGED <<m_Queue, m_Closed, notifying, closing, asleep, accepted, delivered>>

\* ... or to sleep.
WaitAndPopSleep(c) ==
  /\ c \notin asleep
  /\ ~m_Closed /\ m_Queue = <<>>
  /\ asleep' = asleep \cup {c}
  /\ woken' = woken \ {c}
  /\ UNCHANGED <<m_Queue, m_Closed, notifying, closing, accepted, delivered>>

WaitAndPop(c) == WaitAndPopTrue(c) \/ WaitAndPopFalse(c) \/ WaitAndPopSleep(c)

SpuriousWakeUp(c) ==
  /\ c \in asleep
  /\ asleep' = asleep \ {c}
  /\ woken' = woken \cup {c}
  /\ UNCHANGED <<m_Queue, m_Closed, notifying, closing, accepted, delivered>>

\* try_pop, by a consumer that is not in wait_and_pop.
TryPop(c) ==
  /\ c \notin asleep \cup woken
  /\ TakeFront
  /\ UNCHANGED <<m_Closed, notifying, closing, asleep, woken, accepted>>

-----------------------------------------------------------------------------
Next ==
  \/ \E p \in Producer : Push(p) \/ NotifyOne(p)
  \/ Close \/ NotifyAll
  \/ \E c \in Consumer : WaitAndPop(c) \/ SpuriousWakeUp(c) \/ TryPop(c)

\* Every thread in push or close comes to its end, and every consumer calls
\* wait_and_pop again and again, which a closed and empty queue answers at once.
Spec ==
  /\ Init /\ [][Next]_queueVars
  /\ \A p \in Producer : WF_queueVars(NotifyOne(p))
  /\ WF_queueVars(NotifyAll)
  /\ \A c \in Consumer : WF_queueVars(WaitAndPop(c))

-----------------------------------------------------------------------------
(* Properties.                                                             *)

TypeOK ==
  /\ accepted \in 0 .. MaxPushes
  /\ m_Queue \in Seq(1 .. MaxPushes) /\ delivered \in Seq(1 .. MaxPushes)
  /\ m_Closed \in BOOLEAN /\ closing \in BOOLEAN
  /\ notifying \subseteq Producer
  /\ asleep \subseteq Consumer /\ woken \subseteq Consumer /\ asleep \cap woken = {}

\* No wake-up is lost.  While somebody sleeps, every item in the queue has a
\* consumer on its way to it or a notification still to come, however the
\* others overtake between the unlock of push and notify_one; and if the queue
\* is closed, notify_all is still to come.
NoLostWakeUp ==
  asleep # {} =>
    /\ Len(m_Queue) <= Cardinality(woken) + Cardinality(notifying)
    /\ m_Closed => closing

\* What each step preserves: the queue holds what was accepted and not yet
\* delivered, in order, and no wake-up is lost.
Inductive ==
  /\ TypeOK
  /\ NoLostWakeUp
  /\ accepted = Len(delivered) + Len(m_Queue)
  /\ \A i \in DOMAIN delivered : delivered[i] = i
  /\ \A i \in DOMAIN m_Queue : m_Queue[i] = Len(delivered) + i

\* Whatever push accepted is popped, as long as consumers wait for it.
AcceptedIsDelivered ==
  \A n \in 1 .. MaxPushes : accepted >= n ~> Len(delivered) >= n

\* After close nobody sleeps for ever: everyone who waits gets an answer.
CloseReleases == m_Closed ~> [](asleep = {} /\ woken = {})

\* The queue is a first-in, first-out queue: every item is delivered once, in
\* the order of acceptance, and nothing is accepted after close.
Fifo == INSTANCE FifoQueue WITH Capacity <- MaxPushes, closed <- m_Closed
ImplementsFifoQueue == Fifo!Spec
=============================================================================

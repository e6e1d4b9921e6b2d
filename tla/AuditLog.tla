------------------------------- MODULE AuditLog -------------------------------
(***************************************************************************)
(* src/src/Engine/Audit.hpp and the streams of src/src/Core/FileStream.hpp *)
(* it writes to: threads Enqueue entries, an audit thread sorts them into  *)
(* four journals, and an owner starts and stops it.                        *)
(*                                                                         *)
(* The queue between them is ThreadSafeQueue, with the audit thread as its *)
(* only consumer.  An entry is its number in the order of acceptance, and  *)
(* log[n] is the journal it is for.  The disk may refuse to write at any   *)
(* time, for good or for a while.                                          *)
(***************************************************************************)
EXTENDS Integers, Sequences, FiniteSets

CONSTANTS
  Producer,     \* the threads that call Enqueue
  Auditor,      \* the thread of Run
  MaxEntries    \* bound: entries that are accepted

ASSUME AuditAssumption == IsFiniteSet(Producer) /\ MaxEntries \in Nat

Journal == {"Snapshots", "Commands", "Events", "Trades"}

VARIABLES
  m_Queue, m_Closed, notifying, closing, asleep, woken, accepted, delivered,
  log,             \* history: the journal of each accepted entry
  m_Buffer,        \* of each stream: entries serialised and not yet written
  file,            \* of each stream: the entries that are in the file
  good,            \* of each stream: no error bit is set
  thread,          \* where the audit thread is
  next,            \* in FlushAll: the stream it writes next
  stop_requested,  \* the token of the audit thread
  owner            \* where the owner is in Stop

queueVars == <<m_Queue, m_Closed, notifying, closing, asleep, woken, accepted, delivered>>
streamVars == <<m_Buffer, file, good>>
threadVars == <<thread, next, stop_requested>>
vars == <<queueVars, streamVars, threadVars, log, owner>>

Queue == INSTANCE ThreadSafeQueue WITH Consumer <- {Auditor}, MaxPushes <- MaxEntries

Init ==
  /\ Queue!Init
  /\ log = <<>>
  /\ m_Buffer = [j \in Journal |-> <<>>]
  /\ file = [j \in Journal |-> <<>>]
  /\ good = [j \in Journal |-> TRUE]
  /\ thread = "none" /\ next = 1
  /\ stop_requested = FALSE
  /\ owner = "idle"

-----------------------------------------------------------------------------
(* Enqueue.  What push answers is ignored: an entry that comes after close *)
(* is dropped in silence.                                                  *)

Enqueue(p) ==
  /\ Queue!Push(p)
  /\ \E j \in Journal : log' = Append(log, j)
  /\ UNCHANGED <<streamVars, threadVars, owner>>

EnqueueReturns(p) ==
  /\ Queue!NotifyOne(p)
  /\ UNCHANGED <<streamVars, threadVars, log, owner>>

-----------------------------------------------------------------------------
(* A stream.                                                               *)

\* Entries of a journal leave bytes, but for snapshots: AuditBookSnapshot has
\* a Serialize that writes none.
WriteToBuffer(n) ==
  m_Buffer' = IF log[n] = "Snapshots" THEN m_Buffer
              ELSE [m_Buffer EXCEPT ![log[n]] = Append(@, n)]

Wrote(j, buffer, written, ok) ==
  /\ m_Buffer' = [m_Buffer EXCEPT ![j] = buffer]
  /\ file' = [file EXCEPT ![j] = @ \o written]
  /\ good' = [good EXCEPT ![j] = ok]

\* Some of the buffer, and not all of it, reaches the file.
WroteInPart(j, buffer, ok) ==
  \E k \in 0 .. Len(m_Buffer[j]) - 1 : Wrote(j, buffer, SubSeq(m_Buffer[j], 1, k), ok)

\* Mutant of WriteBufferToFile: the error is cleared, to write again next time.
WriteBufferRetry(j) ==
  IF m_Buffer[j] = <<>> THEN UNCHANGED streamVars
  ELSE Wrote(j, <<>>, m_Buffer[j], TRUE) \/ WroteInPart(j, m_Buffer[j], TRUE)

\* Nothing goes to a stream with an error bit, and nobody clears the bits.
\* Else all of the buffer is written, or write fails and keeps the buffer, or
\* flush fails when the buffer has been cleared already.
WriteBufferToFile(j) ==
  IF m_Buffer[j] = <<>> \/ ~good[j] THEN UNCHANGED streamVars
  ELSE \/ Wrote(j, <<>>, m_Buffer[j], TRUE)
       \/ WroteInPart(j, m_Buffer[j], FALSE)
       \/ WroteInPart(j, <<>>, FALSE)

-----------------------------------------------------------------------------
(* Run, the audit thread.                                                  *)

\* The loop looks at the token, then waits for an entry.
CheckStop ==
  /\ thread = "check"
  /\ thread' = IF stop_requested THEN "lastFlush" ELSE "pop"
  /\ UNCHANGED <<queueVars, streamVars, log, next, stop_requested, owner>>

Sleep ==
  /\ thread = "pop"
  /\ Queue!WaitAndPopSleep(Auditor)
  /\ UNCHANGED <<streamVars, threadVars, log, owner>>

WakeUp ==
  /\ Queue!SpuriousWakeUp(Auditor)
  /\ UNCHANGED <<streamVars, threadVars, log, owner>>

\* An entry is popped and put into the buffer of its journal; the interval is
\* over or it is not.
Log ==
  /\ thread = "pop"
  /\ Queue!WaitAndPopTrue(Auditor)
  /\ WriteToBuffer(Head(m_Queue))
  /\ thread' \in {"check", "flush"}
  /\ UNCHANGED <<file, good, log, next, stop_requested, owner>>

\* Mutant of LeaveLoop: a closed queue is not emptied first.
LeaveWhenClosed ==
  /\ thread = "pop" /\ Auditor \notin asleep /\ m_Closed
  /\ woken' = woken \ {Auditor}
  /\ thread' = "lastFlush"
  /\ UNCHANGED <<m_Queue, m_Closed, notifying, closing, asleep, accepted, delivered>>
  /\ UNCHANGED <<streamVars, log, next, stop_requested, owner>>

\* wait_and_pop returns false.
LeaveLoop ==
  /\ thread = "pop"
  /\ Queue!WaitAndPopFalse(Auditor)
  /\ thread' = "lastFlush"
  /\ UNCHANGED <<streamVars, log, next, stop_requested, owner>>

\* Mutant of FlushOrder.
TradesFirst == <<"Trades", "Events", "Commands", "Snapshots">>

FlushOrder == <<"Snapshots", "Commands", "Events", "Trades">>

\* Mutant of FlushStep: the loop is left without the flush behind it.
FlushInLoopOnly ==
  /\ \/ thread = "flush"
        /\ WriteBufferToFile(FlushOrder[next])
        /\ IF next < Len(FlushOrder)
             THEN next' = next + 1 /\ UNCHANGED thread
             ELSE next' = 1 /\ thread' = "check"
     \/ thread = "lastFlush" /\ thread' = "done" /\ UNCHANGED <<next, streamVars>>
  /\ UNCHANGED <<queueVars, log, stop_requested, owner>>

\* FlushAll, in the loop and behind it, stream by stream; what
\* WriteBufferToFile answers is ignored.
FlushStep ==
  /\ thread \in {"flush", "lastFlush"}
  /\ WriteBufferToFile(FlushOrder[next])
  /\ IF next < Len(FlushOrder)
       THEN next' = next + 1 /\ UNCHANGED thread
       ELSE next' = 1 /\ thread' = IF thread = "flush" THEN "check" ELSE "done"
  /\ UNCHANGED <<queueVars, log, stop_requested, owner>>

Run == CheckStop \/ Sleep \/ Log \/ LeaveLoop \/ FlushStep

-----------------------------------------------------------------------------
(* The owner.  m_Thread is joinable from Start until it is joined, also when *)
(* Run has returned.                                                         *)

Start ==
  /\ owner = "idle" /\ thread = "none"
  /\ thread' = "check"
  /\ stop_requested' = FALSE
  /\ UNCHANGED <<queueVars, streamVars, log, next, owner>>

\* Mutant of StopCloses: Stop counts on the token alone.
StopWithoutClose ==
  /\ owner = "idle"
  /\ owner' = "request"
  /\ UNCHANGED <<queueVars, streamVars, threadVars, log>>

\* Stop, also by the destructor: close, in two steps, ...
StopCloses ==
  /\ owner = "idle"
  /\ Queue!Close
  /\ owner' = "notify"
  /\ UNCHANGED <<streamVars, threadVars, log>>

StopNotifies ==
  /\ owner = "notify"
  /\ Queue!NotifyAll
  /\ owner' = "request"
  /\ UNCHANGED <<streamVars, threadVars, log>>

\* ... the request, if there is a thread to join, ...
StopRequests ==
  /\ owner = "request"
  /\ IF thread = "none"
       THEN owner' = "idle" /\ UNCHANGED stop_requested
       ELSE owner' = "join" /\ stop_requested' = TRUE
  /\ UNCHANGED <<queueVars, streamVars, log, thread, next>>

\* Mutant of StopJoins: the thread is let go instead of joined.
StopDetaches ==
  /\ owner = "join"
  /\ thread' = "none"
  /\ owner' = "idle"
  /\ UNCHANGED <<queueVars, streamVars, log, next, stop_requested>>

\* ... and the join.
StopJoins ==
  /\ owner = "join" /\ thread = "done"
  /\ thread' = "none"
  /\ owner' = "idle"
  /\ UNCHANGED <<queueVars, streamVars, log, next, stop_requested>>

Stop == StopNotifies \/ StopRequests \/ StopJoins

-----------------------------------------------------------------------------
Next ==
  \/ \E p \in Producer : Enqueue(p) \/ EnqueueReturns(p)
  \/ Run \/ WakeUp
  \/ Start \/ StopCloses \/ Stop

\* The audit thread and a thread inside Enqueue or Stop keep running.  Nobody
\* need call them, and nothing need wake a sleeper without cause.
Spec ==
  /\ Init /\ [][Next]_vars
  /\ \A p \in Producer : WF_vars(EnqueueReturns(p))
  /\ WF_vars(Run) /\ WF_vars(Stop)

-----------------------------------------------------------------------------
(* Properties.  They hold at every step, so that they tell what a crash of *)
(* the process finds in the files.                                         *)

Entry == 1 .. MaxEntries

TypeOK ==
  /\ Queue!TypeOK
  /\ log \in Seq(Journal) /\ Len(log) = accepted
  /\ m_Buffer \in [Journal -> Seq(Entry)] /\ m_Buffer["Snapshots"] = <<>>
  /\ file \in [Journal -> Seq(Entry)]
  /\ good \in [Journal -> BOOLEAN]
  /\ thread \in {"none", "check", "pop", "flush", "lastFlush", "done"}
  /\ next \in DOMAIN FlushOrder /\ (next # 1 => thread \in {"flush", "lastFlush"})
  /\ stop_requested \in BOOLEAN
  /\ owner \in {"idle", "notify", "request", "join"}

InFile(j, n) == \E i \in DOMAIN file[j] : file[j][i] = n
InBuffer(j, n) == \E i \in DOMAIN m_Buffer[j] : m_Buffer[j][i] = n

\* A journal never has a gap, a repetition or a change of order, whatever the
\* disk did: it holds the first entries of its kind, each once.
JournalIsPrefix ==
  \A j \in Journal : \A i \in DOMAIN file[j] :
    /\ log[file[j][i]] = j
    /\ \A k \in 1 .. i - 1 : file[j][k] < file[j][i]
    /\ \A n \in 1 .. file[j][i] : log[n] = j => InFile(j, n)

\* While the disk works, an entry that was popped is in its file or on its way
\* there, and it is in its file when Run has returned.  Snapshots are not.
PoppedIsJournaled ==
  \A i \in DOMAIN delivered :
    LET n == delivered[i] IN
    log[n] # "Snapshots" /\ good[log[n]] =>
      InFile(log[n], n) \/ (InBuffer(log[n], n) /\ thread \notin {"done", "none"})

Causes == [Events |-> {"Commands"}, Trades |-> {"Commands", "Events"}]

\* The journal of the commands is ahead of those of events and trades, and that
\* of the events ahead of that of the trades: while the former can be written,
\* an entry in the latter has all entries before it in the former.
CausesFirst ==
  \A k \in DOMAIN Causes : \A j \in Causes[k] :
    good[j] =>
      \A i \in DOMAIN file[k] : \A n \in 1 .. file[k][i] : log[n] = j => InFile(j, n)

\* Entries are left in the queue only by a thread that was asked to stop; Run
\* returns from a queue that it finds closed only when it has emptied it.
OnlyStopDropsEntries == thread = "done" /\ ~stop_requested => m_Closed /\ m_Queue = <<>>

\* What each step preserves.  Of each journal: its file holds the first entries
\* that were popped for it; behind them, while the stream is good, come those in
\* its buffer, and that is all there is; a buffer that FlushAll has been at, or
\* that Run has left, is empty.
Holds(f, i, j) ==
  /\ f[i] \in 1 .. Len(delivered) /\ log[f[i]] = j
  /\ \A k \in 1 .. i - 1 : f[k] < f[i]

Gapless(j) ==
  \A i \in DOMAIN file[j] :
    Holds(file[j], i, j) /\ \A n \in 1 .. file[j][i] : log[n] = j => InFile(j, n)

Pending(j) ==
  good[j] => \A i \in DOMAIN m_Buffer[j] :
    Holds(m_Buffer[j], i, j) /\ \A k \in DOMAIN file[j] : file[j][k] < m_Buffer[j][i]

Caught(j) ==
  good[j] => \A n \in 1 .. Len(delivered) : log[n] = j => InFile(j, n) \/ InBuffer(j, n)

Flushed(j) ==
  \/ thread \in {"none", "done"}
  \/ thread \in {"flush", "lastFlush"} /\ \E i \in 1 .. next - 1 : FlushOrder[i] = j

QueueInOrder ==
  /\ accepted = Len(delivered) + Len(m_Queue)
  /\ \A i \in DOMAIN delivered : delivered[i] = i
  /\ \A i \in DOMAIN m_Queue : m_Queue[i] = Len(delivered) + i

LeavesEmptyQueue ==
  thread \in {"lastFlush", "done"} /\ ~stop_requested => m_Closed /\ m_Queue = <<>>

Inductive ==
  /\ TypeOK
  /\ QueueInOrder
  /\ \A j \in Journal :
       /\ Gapless(j) /\ Pending(j)
       /\ j # "Snapshots" => Caught(j)
       /\ good[j] /\ Flushed(j) => m_Buffer[j] = <<>>
  /\ CausesFirst
  /\ LeavesEmptyQueue

\* Stop returns, wherever the audit thread is when it is called.
StopReturns == owner # "idle" ~> owner = "idle"
=============================================================================

---------------------------- MODULE AuditLogProofs ----------------------------
(***************************************************************************)
(* Proofs about AuditLog for any number of entries and of threads that     *)
(* enqueue them: whatever the disk does, a journal has no gap, nothing     *)
(* that was popped is missing while its stream is good, and a journal is   *)
(* never behind one that FlushAll writes later.                            *)
(***************************************************************************)
EXTENDS AuditLog, CommonLemmas

Journaled(j) ==
  /\ Gapless(j) /\ Pending(j)
  /\ j # "Snapshots" => Caught(j)
  /\ good[j] /\ Flushed(j) => m_Buffer[j] = <<>>

\* The parts of the invariant, journal by journal.
LEMMA InductiveParts ==
  Inductive <=> /\ TypeOK /\ QueueInOrder /\ CausesFirst /\ LeavesEmptyQueue
                /\ \A j \in Journal : Journaled(j)
  BY DEF Inductive, Journaled

\* What the type invariant says, in the form that the steps below cite.
LEMMA Types ==
  ASSUME Inductive
  PROVE  /\ MaxEntries \in Nat /\ accepted \in 0 .. MaxEntries
         /\ m_Queue \in Seq(Entry) /\ delivered \in Seq(Entry)
         /\ Len(m_Queue) \in Nat /\ DOMAIN m_Queue = 1 .. Len(m_Queue)
         /\ Len(delivered) \in Nat /\ DOMAIN delivered = 1 .. Len(delivered)
         /\ accepted = Len(delivered) + Len(m_Queue)
         /\ log \in Seq(Journal) /\ Len(log) = accepted
         /\ m_Buffer \in [Journal -> Seq(Entry)] /\ file \in [Journal -> Seq(Entry)]
         /\ good \in [Journal -> BOOLEAN]
<1>1. TypeOK /\ QueueInOrder
  BY InductiveParts
<1>2. m_Queue \in Seq(Entry) /\ delivered \in Seq(Entry) /\ accepted \in 0 .. MaxEntries
  BY <1>1 DEF TypeOK, Queue!TypeOK, Entry
<1> QED BY <1>1, <1>2, AuditAssumption DEF TypeOK, QueueInOrder

\* What is at most a popped entry was popped.
LEMMA UpTo == ASSUME NEW d \in Nat, NEW m \in 1 .. d PROVE \A n \in 1 .. m : n \in 1 .. d
  OBVIOUS

-----------------------------------------------------------------------------
(* Steps that leave streams and deliveries alone.                          *)

\* What is known of the journals stays known when the log only grows.
LEMMA Frame ==
  ASSUME Inductive, UNCHANGED <<file, m_Buffer, good, delivered>>,
         \A n \in 1 .. Len(delivered) : log'[n] = log[n]
  PROVE  /\ \A j \in Journal : /\ Gapless(j)' /\ Pending(j)'
                               /\ (j # "Snapshots" => Caught(j)')
         /\ CausesFirst'
<1> USE Types
<1>1. ASSUME NEW j \in Journal
      PROVE  Gapless(j)' /\ Pending(j)' /\ (j # "Snapshots" => Caught(j)')
  <2>0. Journaled(j)
    BY InductiveParts
  <2>1. Gapless(j)'
    <3> SUFFICES ASSUME NEW i \in DOMAIN file[j]
                 PROVE  /\ Holds(file[j], i, j)'
                        /\ \A n \in 1 .. file[j][i] : log'[n] = j => InFile(j, n)'
      BY DEF Gapless
    <3>1. /\ file[j][i] \in 1 .. Len(delivered) /\ log[file[j][i]] = j
          /\ \A k \in 1 .. i - 1 : file[j][k] < file[j][i]
          /\ \A n \in 1 .. file[j][i] : log[n] = j => InFile(j, n)
      BY <2>0 DEF Journaled, Gapless, Holds
    <3>2. \A n \in 1 .. file[j][i] : log'[n] = log[n]
      BY <3>1, UpTo
    <3>3. \A n : InFile(j, n)' <=> InFile(j, n)
      BY DEF InFile
    <3> QED BY <3>1, <3>2, <3>3 DEF Holds
  <2>2. Pending(j)'
    BY <2>0 DEF Journaled, Pending, Holds
  <2>3. j # "Snapshots" => Caught(j)'
    BY <2>0 DEF Journaled, Caught, InFile, InBuffer
  <2> QED BY <2>1, <2>2, <2>3
<1>2. CausesFirst'
  <2> SUFFICES ASSUME NEW k \in DOMAIN Causes, NEW j \in Causes[k], good[j],
                      NEW i \in DOMAIN file[k], NEW n \in 1 .. file[k][i], log'[n] = j
               PROVE  InFile(j, n)
    BY DEF CausesFirst, InFile
  <2>1. k \in Journal
    BY DEF Causes, Journal
  <2>2. file[k][i] \in 1 .. Len(delivered)
    BY <2>1, InductiveParts DEF Journaled, Gapless, Holds
  <2>3. log[n] = j
    BY <2>2, UpTo
  <2> QED BY <2>3, InductiveParts DEF CausesFirst
<1> QED BY <1>1, <1>2

\* A step of control: the threads move, queue and streams keep their contents.
LEMMA ControlStep ==
  ASSUME Inductive, TypeOK', LeavesEmptyQueue',
         UNCHANGED <<streamVars, log, m_Queue, accepted, delivered>>,
         \A j \in Journal : good[j] /\ Flushed(j)' => Flushed(j) \/ m_Buffer[j] = <<>>
  PROVE  Inductive'
<1>1. UNCHANGED <<file, m_Buffer, good, delivered>>
      /\ \A n \in 1 .. Len(delivered) : log'[n] = log[n]
  BY DEF streamVars
<1>2. QueueInOrder'
  BY InductiveParts DEF QueueInOrder
<1>3. \A j \in Journal : Journaled(j)'
  <2> SUFFICES ASSUME NEW j \in Journal PROVE Journaled(j)'
    OBVIOUS
  <2>1. good[j] /\ Flushed(j) => m_Buffer[j] = <<>>
    BY InductiveParts DEF Journaled
  <2> QED BY <1>1, <2>1, Frame DEF Journaled
<1>4. CausesFirst'
  BY <1>1, Frame
<1> QED BY <1>2, <1>3, <1>4 DEF Inductive, Journaled

\* Before Start all is empty.
LEMMA InitAudit == Init => Inductive
<1> SUFFICES ASSUME Init PROVE Inductive
  OBVIOUS
<1>1. Queue!TypeOK
  <2>1. accepted \in 0 .. MaxEntries
    BY AuditAssumption DEF Init, Queue!Init
  <2>2. m_Queue \in Seq(Entry) /\ delivered \in Seq(Entry)
    BY DEF Init, Queue!Init
  <2> QED BY <2>1, <2>2 DEF Init, Queue!Init, Queue!TypeOK, Entry
<1>2. TypeOK
  <2>1. m_Buffer \in [Journal -> Seq(Entry)] /\ file \in [Journal -> Seq(Entry)]
    BY DEF Init
  <2>2. m_Buffer["Snapshots"] = <<>>
    BY DEF Init, Journal
  <2>3. log \in Seq(Journal) /\ Len(log) = accepted
    BY DEF Init, Queue!Init
  <2>4. next \in DOMAIN FlushOrder /\ next = 1
    BY DEF Init, FlushOrder
  <2> QED BY <1>1, <2>1, <2>2, <2>3, <2>4 DEF Init, TypeOK
<1>3. QueueInOrder
  BY DEF Init, Queue!Init, QueueInOrder
<1>4. ASSUME NEW j \in Journal PROVE Journaled(j)
  <2>1. file[j] = <<>> /\ m_Buffer[j] = <<>> /\ delivered = <<>>
    BY DEF Init, Queue!Init
  <2> QED BY <2>1 DEF Journaled, Gapless, Pending, Caught
<1>5. CausesFirst
  <2>1. \A k \in DOMAIN Causes : file[k] = <<>>
    BY DEF Init, Causes, Journal
  <2> QED BY <2>1 DEF CausesFirst
<1>6. LeavesEmptyQueue
  BY DEF Init, LeavesEmptyQueue
<1> QED BY <1>2, <1>3, <1>4, <1>5, <1>6, InductiveParts

-----------------------------------------------------------------------------
(* Enqueue, the owner, and the control of Run.                             *)

\* An entry more in the queue changes nothing for the journals.
LEMMA EnqueueAudit ==
  ASSUME Inductive, NEW p \in Producer, Enqueue(p)
  PROVE  Inductive'
<1> USE Types
<1>1. PICK j \in Journal : log' = Append(log, j)
  BY DEF Enqueue
<1>2. /\ ~m_Closed /\ accepted < MaxEntries /\ accepted' = accepted + 1
      /\ m_Queue' = Append(m_Queue, accepted + 1)
      /\ notifying' = notifying \cup {p}
      /\ UNCHANGED <<m_Closed, closing, asleep, woken, delivered, m_Buffer, file,
                     good, thread, next, stop_requested, owner>>
  BY DEF Enqueue, Queue!Push, streamVars, threadVars
<1>3. /\ \A n \in 1 .. Len(delivered) : log'[n] = log[n]
      /\ log' \in Seq(Journal) /\ Len(log') = accepted'
  BY <1>1, <1>2
<1>4. m_Queue' \in Seq(Entry) /\ Len(m_Queue') = Len(m_Queue) + 1
  BY <1>2 DEF Entry
<1>5. TypeOK'
  <2>1. Queue!TypeOK'
    BY <1>2, <1>4 DEF Inductive, TypeOK, Queue!TypeOK, Entry
  <2> QED BY <1>2, <1>3, <2>1 DEF Inductive, TypeOK
<1>6. QueueInOrder'
  <2>1. /\ \A i \in DOMAIN m_Queue : m_Queue[i] = Len(delivered) + i
        /\ \A i \in DOMAIN delivered : delivered[i] = i
    BY DEF Inductive, QueueInOrder
  <2>2. m_Queue' = Append(m_Queue, Len(delivered) + Len(m_Queue) + 1)
    BY <1>2
  <2>3. Len(delivered) \in Int
    OBVIOUS
  <2>4. \A i \in DOMAIN m_Queue' : m_Queue'[i] = Len(delivered) + i
    BY ONLY <2>1, <2>2, <2>3, Types, AppendCounts, Inductive
  <2>5. accepted' = Len(delivered') + Len(m_Queue')
    BY <1>2, <1>4
  <2> QED BY <1>2, <2>1, <2>4, <2>5 DEF QueueInOrder
<1>7. /\ \A k \in Journal : /\ Gapless(k)' /\ Pending(k)'
                            /\ (k # "Snapshots" => Caught(k)')
      /\ CausesFirst'
  BY <1>2, <1>3, Frame
<1>8. ASSUME NEW k \in Journal PROVE good'[k] /\ Flushed(k)' => m_Buffer'[k] = <<>>
  BY <1>2 DEF Inductive, Flushed
<1>9. LeavesEmptyQueue'
  BY <1>2 DEF Inductive, LeavesEmptyQueue
<1> QED BY <1>5, <1>6, <1>7, <1>8, <1>9 DEF Inductive

\* Where Run starts a FlushAll, next names the first stream.
LEMMA NextIsFirst ==
  ASSUME Inductive, thread \notin {"flush", "lastFlush"}
  PROVE  next = 1
  BY DEF Inductive, TypeOK

\* Nor does a step that only moves a thread.
LEMMA ControlAudit ==
  ASSUME Inductive,
         \/ \E p \in Producer : EnqueueReturns(p)
         \/ CheckStop \/ Sleep \/ WakeUp \/ LeaveLoop
         \/ Start \/ StopCloses \/ Stop
  PROVE  Inductive'
<1>0. TypeOK /\ Queue!TypeOK /\ LeavesEmptyQueue
  BY DEF Inductive, TypeOK
<1>1. ASSUME NEW p \in Producer, EnqueueReturns(p) PROVE Inductive'
  <2>1. /\ notifying' = notifying \ {p}
        /\ \/ UNCHANGED <<asleep, woken>>
           \/ \E c \in asleep : asleep' = asleep \ {c} /\ woken' = woken \cup {c}
        /\ UNCHANGED <<m_Queue, m_Closed, closing, accepted, delivered, log, streamVars,
                       m_Buffer, file, good, thread, next, stop_requested, owner>>
    BY <1>1 DEF EnqueueReturns, Queue!NotifyOne, streamVars, threadVars
  <2>2. Queue!TypeOK'
    BY <1>0, <2>1 DEF Queue!TypeOK
  <2>3. TypeOK'
    BY <1>0, <2>1, <2>2 DEF TypeOK
  <2>4. LeavesEmptyQueue'
    BY <1>0, <2>1 DEF LeavesEmptyQueue
  <2>5. \A j \in Journal : Flushed(j)' => Flushed(j)
    BY <2>1 DEF Flushed
  <2> QED BY <2>1, <2>3, <2>4, <2>5, ControlStep
<1>2. CASE CheckStop
  <2>1. /\ thread = "check" /\ thread' \in {"lastFlush", "pop"}
        /\ thread' = "lastFlush" => stop_requested
        /\ UNCHANGED <<queueVars, m_Queue, m_Closed, accepted, delivered, log, streamVars,
                       m_Buffer, file, good, next, stop_requested, owner>>
    BY <1>2 DEF CheckStop, queueVars, streamVars
  <2>2. next = 1
    BY <2>1, NextIsFirst
  <2>3. Queue!TypeOK'
    BY <1>0, <2>1 DEF Queue!TypeOK, queueVars
  <2>4. TypeOK'
    BY <1>0, <2>1, <2>2, <2>3 DEF TypeOK
  <2>5. LeavesEmptyQueue'
    BY <2>1 DEF LeavesEmptyQueue
  <2>6. \A j \in Journal : ~Flushed(j)'
    BY <2>1, <2>2 DEF Flushed
  <2> QED BY <2>1, <2>4, <2>5, <2>6, ControlStep
<1>3. CASE Sleep \/ WakeUp
  <2>1. /\ UNCHANGED <<m_Queue, m_Closed, notifying, closing, accepted, delivered, log,
                       streamVars, m_Buffer, file, good, thread, next, stop_requested, owner>>
        /\ \/ asleep' = asleep \cup {Auditor} /\ woken' = woken \ {Auditor}
           \/ asleep' = asleep \ {Auditor} /\ woken' = woken \cup {Auditor}
    BY <1>3 DEF Sleep, WakeUp, Queue!WaitAndPopSleep, Queue!SpuriousWakeUp, streamVars, threadVars
  <2>2. Queue!TypeOK'
    BY <1>0, <2>1 DEF Queue!TypeOK
  <2>3. TypeOK'
    BY <1>0, <2>1, <2>2 DEF TypeOK
  <2>4. LeavesEmptyQueue'
    BY <1>0, <2>1 DEF LeavesEmptyQueue
  <2>5. \A j \in Journal : Flushed(j)' => Flushed(j)
    BY <2>1 DEF Flushed
  <2> QED BY <2>1, <2>3, <2>4, <2>5, ControlStep
<1>4. CASE LeaveLoop
  <2>1. /\ thread = "pop" /\ thread' = "lastFlush" /\ m_Closed /\ m_Queue = <<>>
        /\ woken' = woken \ {Auditor}
        /\ UNCHANGED <<m_Queue, m_Closed, notifying, closing, asleep, accepted, delivered, log,
                       streamVars, m_Buffer, file, good, next, stop_requested, owner>>
    BY <1>4 DEF LeaveLoop, Queue!WaitAndPopFalse, streamVars
  <2>2. next = 1
    BY <2>1, NextIsFirst
  <2>3. Queue!TypeOK'
    BY <1>0, <2>1 DEF Queue!TypeOK
  <2>4. TypeOK'
    BY <1>0, <2>1, <2>2, <2>3 DEF TypeOK
  <2>5. LeavesEmptyQueue'
    BY <2>1 DEF LeavesEmptyQueue
  <2>6. \A j \in Journal : ~Flushed(j)'
    BY <2>1, <2>2 DEF Flushed
  <2> QED BY <2>1, <2>4, <2>5, <2>6, ControlStep
<1>5. CASE Start \/ StopRequests \/ StopJoins
  <2>1. /\ UNCHANGED <<queueVars, m_Queue, m_Closed, accepted, delivered, log, streamVars,
                       m_Buffer, file, good, next>>
        /\ \/ thread = "none" /\ thread' = "check" /\ stop_requested' = FALSE /\ owner' = owner
           \/ /\ thread' = thread /\ owner' \in {"idle", "join"}
              /\ stop_requested' = stop_requested \/ stop_requested' = TRUE
           \/ /\ thread = "done" /\ thread' = "none" /\ owner' = "idle"
              /\ stop_requested' = stop_requested
    BY <1>5 DEF Start, StopRequests, StopJoins, queueVars, streamVars
  <2>2. Queue!TypeOK'
    BY <1>0, <2>1 DEF Queue!TypeOK, queueVars
  <2>3. TypeOK'
    BY <1>0, <2>1, <2>2 DEF TypeOK
  <2>4. LeavesEmptyQueue'
    BY <1>0, <2>1 DEF LeavesEmptyQueue
  <2>5. \A j \in Journal : Flushed(j)' => Flushed(j)
    BY <2>1 DEF Flushed
  <2> QED BY <2>1, <2>3, <2>4, <2>5, ControlStep
<1>6. CASE StopCloses \/ StopNotifies
  <2>1. /\ UNCHANGED <<m_Queue, notifying, accepted, delivered, log, streamVars,
                       m_Buffer, file, good, thread, next, stop_requested>>
        /\ m_Closed' \in BOOLEAN /\ closing' \in BOOLEAN
        /\ m_Closed' = TRUE \/ m_Closed' = m_Closed
        /\ \/ UNCHANGED <<asleep, woken>>
           \/ asleep' = {} /\ woken' = woken \cup asleep
        /\ owner' \in {"notify", "request"}
    BY <1>0, <1>6 DEF StopCloses, StopNotifies, Queue!Close, Queue!NotifyAll, streamVars,
                      threadVars, Queue!TypeOK
  <2>2. Queue!TypeOK'
    BY <1>0, <2>1 DEF Queue!TypeOK
  <2>3. TypeOK'
    BY <1>0, <2>1, <2>2 DEF TypeOK
  <2>4. LeavesEmptyQueue'
    BY <1>0, <2>1 DEF LeavesEmptyQueue
  <2>5. \A j \in Journal : Flushed(j)' => Flushed(j)
    BY <2>1 DEF Flushed
  <2> QED BY <2>1, <2>3, <2>4, <2>5, ControlStep
<1> QED BY <1>1, <1>2, <1>3, <1>4, <1>5, <1>6 DEF Stop

-----------------------------------------------------------------------------
(* Run pops an entry and puts it into a buffer.                            *)

\* The popped entry is the next one, newer than all in the journals.
LEMMA LogPops ==
  ASSUME Inductive, Log
  PROVE  /\ m_Queue # <<>> /\ Head(m_Queue) = Len(delivered) + 1
         /\ Head(m_Queue) \in Entry /\ Head(m_Queue) \in DOMAIN log
         /\ delivered' \in Seq(Entry) /\ Len(delivered') = Len(delivered) + 1
         /\ TypeOK' /\ QueueInOrder'
<1> USE Types
<1>1. /\ m_Queue # <<>> /\ m_Queue' = Tail(m_Queue)
      /\ delivered' = Append(delivered, Head(m_Queue))
      /\ woken' = woken \ {Auditor} /\ thread' \in {"check", "flush"}
      /\ m_Buffer' = IF log[Head(m_Queue)] = "Snapshots" THEN m_Buffer
                     ELSE [m_Buffer EXCEPT ![log[Head(m_Queue)]] = Append(@, Head(m_Queue))]
      /\ thread = "pop"
      /\ UNCHANGED <<m_Closed, notifying, closing, asleep, accepted, file, good, log,
                     next, stop_requested, owner>>
  BY DEF Log, Queue!WaitAndPopTrue, Queue!TakeFront, WriteToBuffer
<1>2. /\ \A i \in DOMAIN delivered : delivered[i] = i
      /\ \A i \in DOMAIN m_Queue : m_Queue[i] = Len(delivered) + i
  BY DEF Inductive, QueueInOrder
<1>3. /\ Head(m_Queue) = Len(delivered) + 1 /\ Head(m_Queue) \in Entry
      /\ m_Queue' \in Seq(Entry) /\ Len(m_Queue') = Len(m_Queue) - 1
      /\ delivered' \in Seq(Entry) /\ Len(delivered') = Len(delivered) + 1
      /\ \A i \in DOMAIN delivered' : delivered'[i] = i
      /\ \A i \in DOMAIN m_Queue' : m_Queue'[i] = Len(delivered') + i
  <2> DEFINE S == Entry
             q == m_Queue
             d == delivered
             r == m_Queue'
             e == delivered'
  <2>1. q \in Seq(S) /\ q # <<>> /\ d \in Seq(S) /\ r = Tail(q) /\ e = Append(d, Head(q))
    BY <1>1
  <2>2. (\A i \in DOMAIN d : d[i] = i) /\ (\A i \in DOMAIN q : q[i] = Len(d) + i)
    BY <1>2
  <2> HIDE DEF S, q, d, r, e
  <2>3. /\ Head(q) = Len(d) + 1 /\ Head(q) \in S
        /\ r \in Seq(S) /\ Len(r) = Len(q) - 1
        /\ e \in Seq(S) /\ Len(e) = Len(d) + 1
        /\ \A i \in DOMAIN e : e[i] = i
        /\ \A i \in DOMAIN r : r[i] = Len(e) + i
    <3>1. Len(d) \in Int /\ Len(d) \in Nat
      BY <2>1
    <3>2. /\ Head(q) = Len(d) + 1 /\ Head(q) \in S
          /\ r \in Seq(S) /\ Len(r) = Len(q) - 1
          /\ \A i \in DOMAIN r : r[i] = (Len(d) + 1) + i
      BY ONLY <2>1, <2>2, <3>1, TailCounts
    <3>3. /\ e \in Seq(S) /\ Len(e) = Len(d) + 1
          /\ e[Len(d) + 1] = Len(d) + 1 /\ \A i \in 1 .. Len(d) : e[i] = i
      BY ONLY <2>1, <2>2, <3>1, <3>2
    <3>4. \A i \in DOMAIN e : e[i] = i
      BY ONLY <3>1, <3>3
    <3> QED BY ONLY <3>2, <3>3, <3>4
  <2> QED BY <2>3 DEF S, q, d, r, e
<1>4. Head(m_Queue) \in DOMAIN log /\ log[Head(m_Queue)] \in Journal
  <2>1. Head(m_Queue) \in 1 .. accepted
    <3>1. Len(m_Queue) # 0
      BY <1>1
    <3>2. Len(delivered) \in Nat /\ Len(m_Queue) \in Nat /\ accepted = Len(delivered) + Len(m_Queue)
      OBVIOUS
    <3> QED BY ONLY <1>3, <3>1, <3>2
  <2>2. log \in Seq(Journal) /\ Len(log) = accepted /\ DOMAIN log = 1 .. accepted
    OBVIOUS
  <2>3. \A h \in 1 .. Len(log) : log[h] \in Journal
    BY ONLY <2>2
  <2> QED BY <2>1, <2>2, <2>3
<1>5. Queue!TypeOK'
  BY <1>1, <1>3 DEF Inductive, TypeOK, Queue!TypeOK, Entry
<1>6. m_Buffer' \in [Journal -> Seq(Entry)] /\ m_Buffer'["Snapshots"] = <<>>
  <2>1. m_Buffer["Snapshots"] = <<>>
    BY DEF Inductive, TypeOK
  <2>2. CASE log[Head(m_Queue)] = "Snapshots"
    <3>1. m_Buffer' = m_Buffer
      BY <1>1, <2>2
    <3> QED BY <2>1, <3>1
  <2>3. CASE log[Head(m_Queue)] # "Snapshots"
    <3> DEFINE l == log[Head(m_Queue)]
               a == Append(m_Buffer[l], Head(m_Queue))
    <3>1. m_Buffer' = [m_Buffer EXCEPT ![l] = a]
      BY <1>1, <2>3
    <3>2. l \in Journal /\ l # "Snapshots" /\ a \in Seq(Entry)
      BY <1>3, <1>4, <2>3
    <3>3. "Snapshots" \in Journal
      BY DEF Journal
    <3> HIDE DEF l, a
    <3> QED BY <2>1, <3>1, <3>2, <3>3
  <2> QED BY <2>2, <2>3
<1>7. next = 1
  BY <1>1, NextIsFirst
<1>8. TypeOK'
  BY <1>1, <1>5, <1>6, <1>7 DEF Inductive, TypeOK
<1>9. QueueInOrder'
  <2>1. accepted' = Len(delivered') + Len(m_Queue')
    BY <1>1, <1>3
  <2> QED BY <1>3, <2>1 DEF QueueInOrder
<1> QED BY <1>1, <1>3, <1>4, <1>8, <1>9

\* Its journal goes on with it, the others have nothing to do with it.
LEMMA LogJournaled ==
  ASSUME Inductive, Log, NEW j \in Journal
  PROVE  Journaled(j)'
<1> USE Types
<1> DEFINE n == Head(m_Queue)
           D == Len(delivered)
<1>1. /\ file' = file /\ good' = good /\ log' = log
      /\ thread = "pop" /\ thread' \in {"check", "flush"} /\ next' = next
      /\ m_Buffer' = IF log[n] = "Snapshots" THEN m_Buffer
                     ELSE [m_Buffer EXCEPT ![log[n]] = Append(@, n)]
  BY DEF Log, WriteToBuffer
<1>2. /\ n = D + 1 /\ n \in Entry /\ n \in DOMAIN log /\ log[n] \in Journal
      /\ Len(delivered') = D + 1
  BY LogPops
<1> HIDE DEF n
<1>3. \A m \in 1 .. D : m \in 1 .. Len(delivered')
  BY <1>2
<1>4. Gapless(j) /\ Pending(j) /\ (j # "Snapshots" => Caught(j))
  BY InductiveParts DEF Journaled
<1>5. \A m : InFile(j, m)' <=> InFile(j, m)
  BY <1>1 DEF InFile
<1>6. Gapless(j)'
  BY <1>1, <1>3, <1>4, <1>5 DEF Gapless, Holds
<1>7. good'[j] /\ Flushed(j)' => m_Buffer'[j] = <<>>
  <2>1. next = 1
    BY <1>1, NextIsFirst
  <2> QED BY <1>1, <2>1 DEF Flushed
<1>8. CASE j # log[n] \/ j = "Snapshots"
  <2>1. m_Buffer'[j] = m_Buffer[j]
    BY <1>1, <1>2, <1>8
  <2>2. Pending(j)'
    BY <1>1, <1>3, <1>4, <2>1 DEF Pending, Holds
  <2>3. Caught(j)' \/ j = "Snapshots"
    <3> SUFFICES ASSUME j # "Snapshots", good[j], NEW m \in 1 .. D + 1, log[m] = j
                 PROVE  InFile(j, m) \/ InBuffer(j, m)'
      BY <1>1, <1>2, <1>5 DEF Caught
    <3>1. m # n
      BY <1>8
    <3>2. m \in 1 .. D
      <4>1. Len(delivered) \in Nat
        OBVIOUS
      <4> QED BY ONLY <1>2, <3>1, <4>1, m \in 1 .. D + 1
    <3> QED BY <1>4, <2>1, <3>2 DEF Caught, InBuffer
  <2> QED BY <1>6, <1>7, <2>2, <2>3 DEF Journaled
<1>9. CASE j = log[n] /\ j # "Snapshots"
  <2> DEFINE b == m_Buffer[j]
             c == m_Buffer'[j]
  <2>1. c = Append(b, n) /\ b \in Seq(Entry)
    BY <1>1, <1>2, <1>9
  <2>2. /\ DOMAIN c = 1 .. Len(b) + 1 /\ DOMAIN b = 1 .. Len(b) /\ Len(b) \in Nat
        /\ c[Len(b) + 1] = n /\ \A i \in 1 .. Len(b) : c[i] = b[i]
    BY <2>1
  <2> HIDE DEF b, c
  <2>3. Pending(j)'
    <3> SUFFICES ASSUME good[j], NEW i \in 1 .. Len(b) + 1
                 PROVE  /\ c[i] \in 1 .. D + 1 /\ log[c[i]] = j
                        /\ \A k \in 1 .. i - 1 : c[k] < c[i]
                        /\ \A k \in DOMAIN file[j] : file[j][k] < c[i]
      BY <1>1, <1>2, <2>2 DEF Pending, Holds, c
    <3>1. \A q \in 1 .. Len(b) :
            /\ b[q] \in 1 .. D /\ log[b[q]] = j
            /\ \A k \in 1 .. q - 1 : b[k] < b[q]
            /\ \A k \in DOMAIN file[j] : file[j][k] < b[q]
      BY <1>4, <2>2 DEF Pending, Holds, b
    <3>2. CASE i \in 1 .. Len(b)
      <4>1. c[i] = b[i] /\ \A k \in 1 .. i - 1 : c[k] = b[k]
        BY <2>2, <3>2
      <4>2. /\ b[i] \in 1 .. D /\ log[b[i]] = j
            /\ \A k \in 1 .. i - 1 : b[k] < b[i]
            /\ \A k \in DOMAIN file[j] : file[j][k] < b[i]
        BY <3>1, <3>2
      <4>3. b[i] \in 1 .. D + 1
        BY <4>2
      <4> QED BY <4>1, <4>2, <4>3
    <3>3. CASE i = Len(b) + 1
      <4>1. c[i] = D + 1 /\ log[c[i]] = j
        BY <1>2, <1>9, <2>2, <3>3
      <4>2. \A k \in 1 .. i - 1 : c[k] \in 1 .. D
        BY <2>2, <3>1, <3>3
      <4>3. \A k \in DOMAIN file[j] : file[j][k] \in 1 .. D
        BY <1>4 DEF Gapless, Holds
      <4> QED BY <4>1, <4>2, <4>3
    <3> QED BY <2>2, <3>2, <3>3
  <2>4. Caught(j)'
    <3> SUFFICES ASSUME good[j], NEW m \in 1 .. D + 1, log[m] = j
                 PROVE  InFile(j, m) \/ \E q \in DOMAIN c : c[q] = m
      BY <1>1, <1>2, <1>5 DEF Caught, InBuffer, c
    <3>1. CASE m = n
      <4>1. Len(b) + 1 \in DOMAIN c
        BY <2>2
      <4> QED BY <2>2, <3>1, <4>1
    <3>2. CASE m \in 1 .. D
      <4>1. InFile(j, m) \/ \E q \in 1 .. Len(b) : b[q] = m
        BY <1>4, <1>9, <2>2, <3>2 DEF Caught, InBuffer, b
      <4>2. ASSUME NEW q \in 1 .. Len(b), b[q] = m PROVE q \in DOMAIN c /\ c[q] = m
        BY <2>2, <4>2
      <4> QED BY <4>1, <4>2
    <3>3. m = n \/ m \in 1 .. D
      <4>1. Len(delivered) \in Nat
        OBVIOUS
      <4> QED BY ONLY <1>2, <4>1, m \in 1 .. D + 1
    <3> QED BY <3>1, <3>2, <3>3
  <2> QED BY <1>6, <1>7, <2>3, <2>4 DEF Journaled
<1> QED BY <1>8, <1>9

\* A popped entry keeps the invariant.
LEMMA LogAudit ==
  ASSUME Inductive, Log
  PROVE  Inductive'
<1>1. file' = file /\ good' = good /\ log' = log /\ thread' \in {"check", "flush"}
  BY DEF Log
<1>2. CausesFirst'
  BY <1>1, InductiveParts DEF CausesFirst, InFile
<1>3. LeavesEmptyQueue'
  BY <1>1 DEF LeavesEmptyQueue
<1> QED BY <1>2, <1>3, LogPops, LogJournaled DEF Inductive, Journaled

-----------------------------------------------------------------------------
(* FlushAll writes a stream.                                               *)

\* What WriteBufferToFile may do, in one form: nothing, where there is nothing
\* to write or the stream is bad; else a prefix t of the buffer reaches the
\* file, all of it or the stream is bad from then on.
Writes(j, t, buffer, ok) ==
  /\ t \in Seq(Entry) /\ Len(t) <= Len(m_Buffer[j])
  /\ \A i \in 1 .. Len(t) : t[i] = m_Buffer[j][i]
  /\ buffer \in Seq(Entry) /\ ok \in BOOLEAN
  /\ ok => Len(t) = Len(m_Buffer[j]) /\ buffer = <<>>
  /\ m_Buffer' = [m_Buffer EXCEPT ![j] = buffer]
  /\ file' = [file EXCEPT ![j] = file[j] \o t]
  /\ good' = [good EXCEPT ![j] = ok]

\* WriteBufferToFile does no more than that.
LEMMA WriteCases ==
  ASSUME Inductive, NEW j \in Journal, WriteBufferToFile(j)
  PROVE  \/ UNCHANGED streamVars /\ (m_Buffer[j] = <<>> \/ ~good[j])
         \/ /\ good[j] /\ j # "Snapshots"
            /\ \E t, buffer, ok : Writes(j, t, buffer, ok)
<1> USE Types
<1> DEFINE b == m_Buffer[j]
<1>1. b \in Seq(Entry) /\ Len(b) \in Nat
  OBVIOUS
<1>2. CASE b = <<>> \/ ~good[j]
  BY <1>2 DEF WriteBufferToFile
<1>3. CASE b # <<>> /\ good[j]
  <2>1. j # "Snapshots"
    BY <1>3 DEF Inductive, TypeOK
  <2>2. \/ Wrote(j, <<>>, b, TRUE)
        \/ WroteInPart(j, b, FALSE) \/ WroteInPart(j, <<>>, FALSE)
    BY <1>3 DEF WriteBufferToFile
  <2>3. CASE Wrote(j, <<>>, b, TRUE)
    <3>1. Writes(j, b, <<>>, TRUE)
      BY <1>1, <2>3 DEF Wrote, Writes
    <3> QED BY <1>3, <2>1, <3>1
  <2>4. ASSUME NEW buffer \in {b, <<>>}, WroteInPart(j, buffer, FALSE)
        PROVE  \E t : Writes(j, t, buffer, FALSE)
    <3>1. PICK k \in 0 .. Len(b) - 1 : Wrote(j, buffer, SubSeq(b, 1, k), FALSE)
      BY <2>4 DEF WroteInPart
    <3> DEFINE t == SubSeq(b, 1, k)
    <3>2. t \in Seq(Entry) /\ Len(t) = k /\ \A i \in 1 .. k : t[i] = b[i]
      BY <1>1
    <3> HIDE DEF t
    <3>3. Wrote(j, buffer, t, FALSE)
      BY <3>1 DEF t
    <3>4. buffer \in Seq(Entry)
      <4>1. buffer = b \/ buffer = <<>>
        BY <2>4
      <4>2. <<>> \in Seq(Entry)
        OBVIOUS
      <4> QED BY <1>1, <4>1, <4>2
    <3>5. k <= Len(b)
      BY <1>1
    <3>6. Writes(j, t, buffer, FALSE)
      BY <3>2, <3>3, <3>4, <3>5 DEF Wrote, Writes
    <3> QED BY <3>6
  <2> QED BY <1>3, <2>1, <2>2, <2>3, <2>4
<1> QED BY <1>2, <1>3

\* g has no gap, and holds what the journal j held; when t is all of its buffer,
\* it holds whatever was popped for it.
Extended(j, t, g) ==
  /\ \A i \in DOMAIN g :
       /\ g[i] \in 1 .. Len(delivered) /\ log[g[i]] = j
       /\ \A k \in 1 .. i - 1 : g[k] < g[i]
       /\ \A n \in 1 .. g[i] : log[n] = j => \E q \in DOMAIN g : g[q] = n
  /\ \A n : InFile(j, n) => \E q \in DOMAIN g : g[q] = n
  /\ Len(t) = Len(m_Buffer[j]) =>
       \A n \in 1 .. Len(delivered) : log[n] = j => \E q \in DOMAIN g : g[q] = n

\* So does a journal with a prefix of its buffer, t, behind it.
LEMMA Extend ==
  ASSUME Inductive, NEW j \in Journal, good[j], j # "Snapshots",
         NEW t \in Seq(Entry), Len(t) <= Len(m_Buffer[j]),
         \A i \in 1 .. Len(t) : t[i] = m_Buffer[j][i],
         NEW g, g = file[j] \o t
  PROVE  Extended(j, t, g)
<1> USE Types
<1> DEFINE f == file[j]
           b == m_Buffer[j]
           F == Len(f)
           D == Len(delivered)
<1>1. f \in Seq(Entry) /\ b \in Seq(Entry)
  OBVIOUS
<1>2. /\ g \in Seq(Entry) /\ DOMAIN g = 1 .. F + Len(t) /\ DOMAIN f = 1 .. F
      /\ DOMAIN b = 1 .. Len(b) /\ F \in Nat /\ Len(t) \in Nat /\ Len(b) \in Nat
      /\ Len(t) <= Len(b) /\ D \in Nat
  BY <1>1
<1>3. \A i \in 1 .. F : g[i] = f[i]
  BY <1>1
<1>4. \A i \in 1 .. Len(t) : g[F + i] = b[i]
  <2>1. \A i \in 1 .. Len(t) : g[F + i] = t[i]
    BY <1>1
  <2> QED BY <2>1
<1>5. \A i \in 1 .. F : /\ f[i] \in 1 .. D /\ log[f[i]] = j
                        /\ \A k \in 1 .. i - 1 : f[k] < f[i]
                        /\ \A n \in 1 .. f[i] : log[n] = j => \E q \in 1 .. F : f[q] = n
  <2>1. Gapless(j)
    BY InductiveParts DEF Journaled
  <2>2. \A n : InFile(j, n) <=> \E q \in 1 .. F : f[q] = n
    BY <1>2 DEF InFile
  <2> HIDE DEF F, D
  <2>3. \A i \in 1 .. F : Holds(f, i, j) /\ \A n \in 1 .. f[i] : log[n] = j => InFile(j, n)
    BY <1>2, <2>1 DEF Gapless
  <2>4. \A i \in 1 .. F : Holds(f, i, j) => /\ f[i] \in 1 .. D /\ log[f[i]] = j
                                         /\ \A k \in 1 .. i - 1 : f[k] < f[i]
    BY DEF Holds, D
  <2> QED BY <2>2, <2>3, <2>4
<1>6. \A i \in 1 .. Len(b) : /\ b[i] \in 1 .. D /\ log[b[i]] = j
                             /\ \A k \in 1 .. i - 1 : b[k] < b[i]
                             /\ \A k \in 1 .. F : f[k] < b[i]
  BY <1>2, InductiveParts DEF Journaled, Pending, Holds
<1>7. \A n \in 1 .. D : log[n] = j =>
        (\E q \in 1 .. F : f[q] = n) \/ (\E q \in 1 .. Len(b) : b[q] = n)
  <2>1. Caught(j)
    BY InductiveParts DEF Journaled
  <2>2. \A n : InFile(j, n) <=> \E q \in 1 .. F : f[q] = n
    BY <1>2 DEF InFile
  <2>3. \A n : InBuffer(j, n) <=> \E q \in 1 .. Len(b) : b[q] = n
    BY <1>2 DEF InBuffer
  <2> QED BY <2>1, <2>2, <2>3 DEF Caught
<1>8. \A n : InFile(j, n) => \E q \in 1 .. F : f[q] = n
  BY <1>2 DEF InFile
<1> HIDE DEF f, b, F, D
<1>9. ASSUME NEW n, \E q \in 1 .. F : f[q] = n
      PROVE  \E q \in DOMAIN g : g[q] = n
  <2>1. PICK q \in 1 .. F : f[q] = n
    BY <1>9
  <2>2. q \in DOMAIN g /\ g[q] = n
    BY <1>2, <1>3, <2>1
  <2> QED BY <2>2
<1>10. ASSUME NEW n, NEW q \in 1 .. Len(t), b[q] = n
       PROVE  \E p \in DOMAIN g : g[p] = n
  <2>1. F + q \in DOMAIN g
    BY ONLY <1>2, q \in 1 .. Len(t)
  <2>2. g[F + q] = n
    BY <1>4, <1>10
  <2> QED BY <2>1, <2>2
<1> DEFINE OK(x) == /\ g[x] \in 1 .. D /\ log[g[x]] = j
                    /\ \A k \in 1 .. x - 1 : g[k] < g[x]
                    /\ \A n \in 1 .. g[x] : log[n] = j => \E q \in DOMAIN g : g[q] = n
<1>11. ASSUME NEW i \in 1 .. F
       PROVE  OK(i)
  <2>1. g[i] = f[i] /\ \A k \in 1 .. i - 1 : g[k] = f[k]
    BY ONLY <1>2, <1>3, i \in 1 .. F
  <2>2. \A n \in 1 .. f[i] : log[n] = j => \E q \in DOMAIN g : g[q] = n
    BY <1>5, <1>9
  <2>3. f[i] \in 1 .. D /\ log[f[i]] = j /\ \A k \in 1 .. i - 1 : f[k] < f[i]
    BY <1>5
  <2> QED BY ONLY <2>1, <2>2, <2>3 DEF OK
<1>12. ASSUME NEW i \in 1 .. Len(t)
       PROVE  OK(F + i)
  <2>1. g[F + i] = b[i] /\ i \in 1 .. Len(b)
    <3>1. g[F + i] = b[i]
      BY <1>4
    <3>2. i \in 1 .. Len(b)
      BY <1>2
    <3> QED BY <3>1, <3>2
  <2>2. b[i] \in 1 .. D /\ log[b[i]] = j
    BY <1>6, <2>1
  <2>3. ASSUME NEW k \in 1 .. (F + i) - 1 PROVE g[k] < b[i]
    <3>1. CASE k \in 1 .. F
      BY <1>3, <1>6, <2>1, <3>1
    <3>2. CASE k \notin 1 .. F
      <4>0. k \in Int /\ k >= 1 /\ k <= (F + i) - 1 /\ i \in Int /\ i <= Len(t)
        BY <1>2, <2>3
      <4>1. k - F \in 1 .. i - 1 /\ k = F + (k - F) /\ k - F \in 1 .. Len(t)
        BY ONLY <1>2, <3>2, <4>0
      <4>2. g[k] = b[k - F]
        BY <1>4, <4>1
      <4> QED BY <1>6, <2>1, <4>1, <4>2
    <3> QED BY <3>1, <3>2
  <2>4. ASSUME NEW n \in 1 .. b[i], log[n] = j PROVE \E q \in DOMAIN g : g[q] = n
    <3>1. n \in 1 .. D
      BY ONLY <1>2, <2>2, UpTo, n \in 1 .. b[i]
    <3>2. CASE \E q \in 1 .. F : f[q] = n
      BY <1>9, <3>2
    <3>3. ASSUME NEW q \in 1 .. Len(b), b[q] = n PROVE \E p \in DOMAIN g : g[p] = n
      <4>1. ~ (i \in 1 .. q - 1)
        <5>1. ~ (b[i] < b[q])
          BY ONLY <1>2, <2>2, <3>3, n \in 1 .. b[i]
        <5> QED BY <1>6, <5>1
      <4>2. q \in 1 .. Len(t)
        BY <1>2, <4>1
      <4> QED BY <1>10, <3>3, <4>2
    <3> QED BY <1>7, <2>4, <3>1, <3>2, <3>3
  <2>5. \A k \in 1 .. (F + i) - 1 : g[k] < g[F + i]
    BY <2>1, <2>3
  <2>6. \A n \in 1 .. g[F + i] : log[n] = j => \E q \in DOMAIN g : g[q] = n
    BY <2>1, <2>4
  <2>7. g[F + i] \in 1 .. D /\ log[g[F + i]] = j
    BY <2>1, <2>2
  <2> QED BY <2>5, <2>6, <2>7
<1> HIDE DEF OK
<1>13. ASSUME NEW i \in DOMAIN g PROVE OK(i)
  <2>1. CASE i \in 1 .. F
    BY <1>11, <2>1
  <2>2. CASE i \notin 1 .. F
    <3>1. i - F \in 1 .. Len(t) /\ i = F + (i - F)
      BY <1>2, <2>2
    <3> DEFINE e == i - F
    <3>2. e \in 1 .. Len(t) /\ i = F + e
      BY <3>1
    <3> HIDE DEF e
    <3>3. OK(F + e)
      BY <1>12, <3>2
    <3> QED BY <3>2, <3>3
  <2> QED BY <2>1, <2>2
<1>14. ASSUME Len(t) = Len(b), NEW n \in 1 .. D, log[n] = j
       PROVE  \E q \in DOMAIN g : g[q] = n
  <2>1. CASE \E q \in 1 .. F : f[q] = n
    BY <1>9, <2>1
  <2>2. CASE \E q \in 1 .. Len(b) : b[q] = n
    <3>1. PICK q \in 1 .. Len(b) : b[q] = n
      BY <2>2
    <3>2. q \in 1 .. Len(t)
      BY <1>14
    <3> QED BY <1>10, <3>1, <3>2
  <2> QED BY <1>7, <1>14, <2>1, <2>2
<1>15. \A n : InFile(j, n) => \E q \in DOMAIN g : g[q] = n
  BY <1>8, <1>9
<1> QED BY <1>2, <1>13, <1>14, <1>15 DEF D, b, OK, Extended

\* What the step of FlushAll does to thread and next: the stream that was
\* written counts as flushed, and no other does that did not before.
LEMMA FlushMoves ==
  ASSUME Inductive, FlushStep
  PROVE  /\ FlushOrder[next] \in Journal
         /\ WriteBufferToFile(FlushOrder[next])
         /\ thread' \in {"flush", "lastFlush", "check", "done"}
         /\ thread' \in {"lastFlush", "done"} => thread = "lastFlush"
         /\ next' \in DOMAIN FlushOrder /\ (next' # 1 => thread' \in {"flush", "lastFlush"})
         /\ UNCHANGED <<queueVars, log, stop_requested, owner>>
         /\ \A j \in Journal : Flushed(j)' => Flushed(j) \/ j = FlushOrder[next]
         /\ \A k \in DOMAIN Causes : k = FlushOrder[next] => \A j \in Causes[k] : Flushed(j)
<1>1. /\ thread \in {"flush", "lastFlush"} /\ next \in 1 .. 4
      /\ WriteBufferToFile(FlushOrder[next])
      /\ \/ next < 4 /\ next' = next + 1 /\ thread' = thread
         \/ next = 4 /\ next' = 1 /\ thread' = IF thread = "flush" THEN "check" ELSE "done"
      /\ UNCHANGED <<queueVars, log, stop_requested, owner>>
  <2>1. DOMAIN FlushOrder = 1 .. 4 /\ Len(FlushOrder) = 4
    BY DEF FlushOrder
  <2> QED BY <2>1 DEF FlushStep, Inductive, TypeOK
<1>2. /\ FlushOrder[1] = "Snapshots" /\ FlushOrder[2] = "Commands"
      /\ FlushOrder[3] = "Events" /\ FlushOrder[4] = "Trades" /\ DOMAIN FlushOrder = 1 .. 4
  BY DEF FlushOrder
<1>3. \A j \in Journal : j = FlushOrder[1] \/ j = FlushOrder[2] \/ j = FlushOrder[3] \/ j = FlushOrder[4]
  BY <1>2 DEF Journal
<1>4. FlushOrder[next] \in Journal
  BY <1>1, <1>2 DEF Journal
<1>5. ASSUME NEW j \in Journal, Flushed(j)' PROVE Flushed(j) \/ j = FlushOrder[next]
  <2>1. CASE next < 4
    <3>1. next' = next + 1 /\ thread' = thread
      BY <1>1, <2>1
    <3>2. PICK i \in 1 .. next' - 1 : FlushOrder[i] = j
      BY <1>1, <1>5, <3>1 DEF Flushed
    <3>3. i \in 1 .. next - 1 \/ i = next
      BY <1>1, <3>1
    <3> QED BY <1>1, <3>2, <3>3 DEF Flushed
  <2>2. CASE next = 4
    <3>1. \A i \in {1, 2, 3} : i \in 1 .. next - 1
      BY <2>2
    <3>2. j = FlushOrder[next] \/ \E i \in 1 .. next - 1 : FlushOrder[i] = j
      BY <1>3, <2>2, <3>1
    <3> QED BY <1>1, <3>2 DEF Flushed
  <2> QED BY <1>1, <2>1, <2>2
<1>6. ASSUME NEW k \in DOMAIN Causes, k = FlushOrder[next], NEW j \in Causes[k]
      PROVE  Flushed(j)
  <2>1. \/ next = 3 /\ j = "Commands"
        \/ next = 4 /\ (j = "Commands" \/ j = "Events")
    BY <1>1, <1>2, <1>6 DEF Causes
  <2>2. \E i \in 1 .. next - 1 : FlushOrder[i] = j
    <3>1. next = 3 => 2 \in 1 .. next - 1
      OBVIOUS
    <3>2. next = 4 => 2 \in 1 .. next - 1 /\ 3 \in 1 .. next - 1
      OBVIOUS
    <3> QED BY <1>2, <2>1, <3>1, <3>2
  <2> QED BY <1>1, <2>2 DEF Flushed
<1> QED BY <1>1, <1>2, <1>4, <1>5, <1>6

\* Where nothing was written.
LEMMA FlushNothing ==
  ASSUME Inductive, FlushStep, UNCHANGED streamVars,
         m_Buffer[FlushOrder[next]] = <<>> \/ ~good[FlushOrder[next]]
  PROVE  Inductive'
<1>0. TypeOK /\ Queue!TypeOK /\ LeavesEmptyQueue
  BY DEF Inductive, TypeOK
<1>1. UNCHANGED <<m_Queue, m_Closed, notifying, closing, asleep, woken, accepted, delivered,
                  m_Buffer, file, good, log, stop_requested, owner>>
  BY FlushMoves DEF queueVars, streamVars
<1>2. Queue!TypeOK'
  BY <1>0, <1>1 DEF Queue!TypeOK
<1>3. TypeOK'
  BY <1>0, <1>1, <1>2, FlushMoves DEF TypeOK
<1>4. LeavesEmptyQueue'
  BY <1>0, <1>1, FlushMoves DEF LeavesEmptyQueue
<1> QED BY <1>1, <1>3, <1>4, FlushMoves, ControlStep

\* The journal that is written, and the others.
LEMMA FlushJournaled ==
  ASSUME Inductive, FlushStep, NEW w, w = FlushOrder[next], w \in Journal,
         NEW t, NEW buffer, NEW ok, Writes(w, t, buffer, ok), good[w], w # "Snapshots",
         NEW j \in Journal
  PROVE  Journaled(j)' /\ \A n : InFile(j, n) => InFile(j, n)'
<1> USE Types
<1> DEFINE D == Len(delivered)
<1>1. /\ m_Buffer' = [m_Buffer EXCEPT ![w] = buffer]
      /\ file' = [file EXCEPT ![w] = file[w] \o t]
      /\ good' = [good EXCEPT ![w] = ok]
      /\ delivered' = delivered /\ log' = log
  BY FlushMoves DEF Writes, queueVars
<1>2. Gapless(j) /\ Pending(j) /\ (j # "Snapshots" => Caught(j))
      /\ (good[j] /\ Flushed(j) => m_Buffer[j] = <<>>)
  BY InductiveParts DEF Journaled
<1>3. CASE j # w
  <2>1. file'[j] = file[j] /\ m_Buffer'[j] = m_Buffer[j] /\ good'[j] = good[j]
    BY <1>1, <1>3
  <2>2. Flushed(j)' => Flushed(j)
    BY <1>3, FlushMoves
  <2>3. Gapless(j)' /\ \A n : InFile(j, n) <=> InFile(j, n)'
    <3>1. \A n : InFile(j, n) <=> InFile(j, n)'
      BY <2>1 DEF InFile
    <3>2. \A i \in DOMAIN file[j] : Holds(file[j], i, j)'
      BY <1>1, <1>2, <2>1 DEF Gapless, Holds
    <3>3. \A i \in DOMAIN file[j] : \A n \in 1 .. file[j][i] : log[n] = j => InFile(j, n)
      BY <1>2 DEF Gapless
    <3> QED BY ONLY <1>1, <2>1, <3>1, <3>2, <3>3 DEF Gapless
  <2>4. Pending(j)'
    BY <1>1, <1>2, <2>1 DEF Pending, Holds
  <2>5. j # "Snapshots" => Caught(j)'
    <3>1. \A n : InBuffer(j, n) <=> InBuffer(j, n)'
      BY <2>1 DEF InBuffer
    <3> QED BY ONLY <1>1, <1>2, <2>1, <2>3, <3>1 DEF Caught
  <2> QED BY <1>2, <2>1, <2>2, <2>3, <2>4, <2>5 DEF Journaled
<1>4. CASE j = w
  <2> DEFINE g == file'[j]
  <2>1. /\ t \in Seq(Entry) /\ Len(t) <= Len(m_Buffer[j])
        /\ \A i \in 1 .. Len(t) : t[i] = m_Buffer[j][i]
        /\ ok => Len(t) = Len(m_Buffer[j]) /\ buffer = <<>>
    BY <1>4 DEF Writes
  <2>2. g = file[j] \o t /\ m_Buffer'[j] = buffer /\ good'[j] = ok
    BY <1>1, <1>4
  <2>3. good[j] /\ j # "Snapshots"
    BY <1>4
  <2> HIDE DEF g
  <2>4. /\ \A i \in DOMAIN g :
             /\ g[i] \in 1 .. D /\ log[g[i]] = j
             /\ \A k \in 1 .. i - 1 : g[k] < g[i]
             /\ \A n \in 1 .. g[i] : log[n] = j => \E q \in DOMAIN g : g[q] = n
        /\ \A n : InFile(j, n) => \E q \in DOMAIN g : g[q] = n
        /\ Len(t) = Len(m_Buffer[j]) =>
             \A n \in 1 .. D : log[n] = j => \E q \in DOMAIN g : g[q] = n
    <3>1. Extended(j, t, g)
      BY ONLY Inductive, j \in Journal, <2>1, <2>2, <2>3, Extend
    <3> QED BY <3>1 DEF Extended
  <2>5. \A n : InFile(j, n)' <=> \E q \in DOMAIN g : g[q] = n
    BY DEF InFile, g
  <2>6. Gapless(j)'
    <3>1. \A i \in DOMAIN g : Holds(file[j], i, j)'
      BY <1>1, <2>4 DEF Holds, g
    <3>2. \A i \in DOMAIN g : \A n \in 1 .. g[i] : log'[n] = j => InFile(j, n)'
      BY <1>1, <2>4, <2>5
    <3> QED BY <3>1, <3>2 DEF Gapless, g
  <2>7. Pending(j)' /\ (good'[j] => m_Buffer'[j] = <<>>)
    BY <2>1, <2>2 DEF Pending
  <2>8. Caught(j)'
    BY <1>1, <2>1, <2>2, <2>4, <2>5 DEF Caught
  <2> QED BY <2>4, <2>5, <2>6, <2>7, <2>8 DEF Journaled
<1> QED BY <1>3, <1>4

\* The streams are written causes first.
LEMMA FlushCauses ==
  ASSUME Inductive, FlushStep, NEW w, w = FlushOrder[next], w \in Journal,
         NEW t, NEW buffer, NEW ok, Writes(w, t, buffer, ok), good[w], w # "Snapshots"
  PROVE  CausesFirst'
<1> USE Types
<1>1. /\ file' = [file EXCEPT ![w] = file[w] \o t] /\ good' = [good EXCEPT ![w] = ok]
      /\ log' = log /\ delivered' = delivered
  BY FlushMoves DEF Writes, queueVars
<1>2. \A j \in Journal : Journaled(j)' /\ \A n : InFile(j, n) => InFile(j, n)'
  BY FlushJournaled
<1>3. SUFFICES ASSUME NEW k \in DOMAIN Causes, NEW j \in Causes[k], good'[j],
                      NEW i \in DOMAIN file'[k], NEW n \in 1 .. file'[k][i], log'[n] = j
               PROVE  InFile(j, n)'
  BY DEF CausesFirst
<1>4. k \in Journal /\ j \in Journal /\ j # k /\ j # "Snapshots"
  BY DEF Causes, Journal
<1>5. good[j]
  BY <1>1, <1>3, <1>4
<1>6. CASE k # w
  <2>1. file'[k] = file[k]
    BY <1>1, <1>4, <1>6
  <2>2. InFile(j, n)
    BY <1>1, <1>3, <1>5, <2>1, InductiveParts DEF CausesFirst
  <2> QED BY <1>2, <1>4, <2>2
<1>7. CASE k = w
  <2>1. Flushed(j)
    BY <1>7, FlushMoves
  <2>2. m_Buffer[j] = <<>> /\ Caught(j)
    BY <1>4, <1>5, <2>1, InductiveParts DEF Journaled
  <2>3. \A m \in 1 .. Len(delivered) : log[m] = j => InFile(j, m)
    BY <1>5, <2>2 DEF Caught, InBuffer
  <2>4. file'[k][i] \in 1 .. Len(delivered)
    <3>1. Gapless(k)'
      BY <1>2, <1>4 DEF Journaled
    <3> QED BY <1>1, <1>3, <3>1 DEF Gapless, Holds
  <2>5. n \in 1 .. Len(delivered)
    BY <1>3, <2>4
  <2> QED BY <1>1, <1>2, <1>3, <1>4, <2>3, <2>5
<1> QED BY <1>6, <1>7

\* A step of FlushAll keeps the invariant, whether it writes or not.
LEMMA FlushAudit ==
  ASSUME Inductive, FlushStep
  PROVE  Inductive'
<1> USE Types
<1> DEFINE w == FlushOrder[next]
<1>1. w \in Journal /\ WriteBufferToFile(w)
  BY FlushMoves
<1>2. CASE UNCHANGED streamVars /\ (m_Buffer[w] = <<>> \/ ~good[w])
  BY <1>2, FlushNothing
<1>3. CASE good[w] /\ w # "Snapshots" /\ \E t, buffer, ok : Writes(w, t, buffer, ok)
  <2>1. PICK t, buffer, ok : Writes(w, t, buffer, ok)
    BY <1>3
  <2>2. /\ \A j \in Journal : Journaled(j)'
        /\ CausesFirst'
    BY <1>1, <1>3, <2>1, FlushJournaled, FlushCauses
  <2>3. /\ m_Buffer' = [m_Buffer EXCEPT ![w] = buffer] /\ buffer \in Seq(Entry)
        /\ file' = [file EXCEPT ![w] = file[w] \o t] /\ t \in Seq(Entry)
        /\ good' = [good EXCEPT ![w] = ok] /\ ok \in BOOLEAN
    BY <2>1 DEF Writes
  <2>4. UNCHANGED <<m_Queue, m_Closed, notifying, closing, asleep, woken, accepted, delivered,
                    log, stop_requested, owner>>
    BY FlushMoves DEF queueVars
  <2>5. TypeOK'
    <3>1. TypeOK /\ Queue!TypeOK
      BY DEF Inductive, TypeOK
    <3>2. Queue!TypeOK'
      BY <2>4, <3>1 DEF Queue!TypeOK
    <3>3. file[w] \o t \in Seq(Entry)
      BY <1>1, <2>3
    <3>4. /\ m_Buffer' \in [Journal -> Seq(Entry)] /\ file' \in [Journal -> Seq(Entry)]
          /\ good' \in [Journal -> BOOLEAN]
      BY <1>1, <2>3, <3>3
    <3>5. m_Buffer'["Snapshots"] = <<>>
      BY <1>3, <2>3, <3>1 DEF TypeOK, Journal
    <3> QED BY <2>4, <3>1, <3>2, <3>4, <3>5, FlushMoves DEF TypeOK
  <2>6. QueueInOrder'
    BY <2>4, InductiveParts DEF QueueInOrder
  <2>7. LeavesEmptyQueue'
    BY <2>4, FlushMoves, InductiveParts DEF LeavesEmptyQueue
  <2> QED BY <2>2, <2>5, <2>6, <2>7 DEF Inductive, Journaled
<1> QED BY <1>1, <1>2, <1>3, WriteCases

-----------------------------------------------------------------------------
(* The theorems.                                                           *)

\* Every step keeps the invariant.
LEMMA NextAudit == Inductive /\ [Next]_vars => Inductive'
<1> SUFFICES ASSUME Inductive, [Next]_vars PROVE Inductive'
  OBVIOUS
<1>1. ASSUME NEW p \in Producer, Enqueue(p) PROVE Inductive'
  BY <1>1, EnqueueAudit
<1>2. CASE \/ \E p \in Producer : EnqueueReturns(p)
           \/ CheckStop \/ Sleep \/ WakeUp \/ LeaveLoop
           \/ Start \/ StopCloses \/ Stop
  BY <1>2, ControlAudit
<1>3. CASE Log
  BY <1>3, LogAudit
<1>4. CASE FlushStep
  BY <1>4, FlushAudit
<1>5. CASE UNCHANGED vars
  <2>1. UNCHANGED <<queueVars, m_Queue, m_Closed, notifying, closing, asleep, woken, accepted,
                    delivered, streamVars, m_Buffer, file, good, thread, next, stop_requested,
                    log, owner>>
    BY <1>5 DEF vars, queueVars, streamVars, threadVars
  <2>2. TypeOK' /\ LeavesEmptyQueue'
    <3>1. Queue!TypeOK'
      BY <2>1 DEF Inductive, TypeOK, Queue!TypeOK
    <3> QED BY <2>1, <3>1 DEF Inductive, TypeOK, LeavesEmptyQueue
  <2>3. \A j \in Journal : Flushed(j)' => Flushed(j)
    BY <2>1 DEF Flushed
  <2> QED BY <2>1, <2>2, <2>3, ControlStep
<1> QED BY <1>1, <1>2, <1>3, <1>4, <1>5 DEF Next, Run

\* The audit's invariant: of each journal, what is in the file, behind it what is
\* in the buffer, and that nothing popped is missing while the stream is good.
THEOREM AuditInvariant == Spec => []Inductive
<1>1. Init => Inductive
  BY InitAudit
<1>2. Inductive /\ [Next]_vars => Inductive'
  BY NextAudit
<1> QED BY <1>1, <1>2, PTL DEF Spec

\* Whatever the disk refuses and wherever a write is cut off, a journal holds the
\* first entries of its kind in the order of their acceptance, each once
\* (FileStream::WriteBufferToFile).
THEOREM JournalsHaveNoGaps == Spec => []JournalIsPrefix
<1>1. Inductive => JournalIsPrefix
  BY DEF Inductive, Gapless, Holds, JournalIsPrefix
<1> QED BY <1>1, AuditInvariant, PTL

\* A popped entry is in its file or in the buffer before it, and in its file once
\* Run has returned, while the disk works (Audit::Run).
THEOREM PoppedAreJournaled == Spec => []PoppedIsJournaled
<1>1. Inductive => PoppedIsJournaled
  <2> SUFFICES ASSUME Inductive, NEW i \in DOMAIN delivered, NEW n, n = delivered[i],
                      log[n] # "Snapshots", good[log[n]]
               PROVE  InFile(log[n], n) \/ (InBuffer(log[n], n) /\ thread \notin {"done", "none"})
    BY DEF PoppedIsJournaled
  <2> USE Types
  <2>1. n = i /\ n \in 1 .. Len(delivered)
    BY InductiveParts DEF QueueInOrder
  <2>2. log[n] \in Journal
    BY <2>1
  <2>3. InFile(log[n], n) \/ InBuffer(log[n], n)
    BY <2>1, <2>2, InductiveParts DEF Journaled, Caught
  <2>4. thread \in {"done", "none"} => m_Buffer[log[n]] = <<>>
    BY <2>2, InductiveParts DEF Journaled, Flushed
  <2>5. thread \in {"done", "none"} => ~InBuffer(log[n], n)
    <3>1. DOMAIN m_Buffer[log[n]] = 1 .. Len(m_Buffer[log[n]])
      BY <2>2
    <3>2. Len(<<>>) = 0 /\ 1 .. 0 = {}
      OBVIOUS
    <3> QED BY <2>4, <3>1, <3>2 DEF InBuffer
  <2> QED BY <2>3, <2>5
<1> QED BY <1>1, AuditInvariant, PTL

\* FlushAll's order of streams is enough: an entry in the journal of events or of
\* trades has every earlier entry of the journals before it in theirs.
THEOREM CausesComeFirst == Spec => []CausesFirst
<1>1. Inductive => CausesFirst
  BY InductiveParts
<1> QED BY <1>1, AuditInvariant, PTL

\* Only a request to stop leaves accepted entries in the queue (Audit::Run).
THEOREM OnlyStopDrops == Spec => []OnlyStopDropsEntries
<1>1. Inductive => OnlyStopDropsEntries
  BY InductiveParts DEF LeavesEmptyQueue, OnlyStopDropsEntries
<1> QED BY <1>1, AuditInvariant, PTL

-----------------------------------------------------------------------------
(* The audit's queue is the ThreadSafeQueue.                               *)

\* The proofs about the queue, for one consumer.
QueueProof == INSTANCE ThreadSafeQueueProofs WITH Consumer <- {Auditor}, MaxPushes <- MaxEntries

\* A step of the audit is a step of the queue or leaves the queue alone.
LEMMA AuditStepsAreQueueSteps == [Next]_vars => [Queue!Next]_(Queue!queueVars)
<1> SUFFICES ASSUME [Next]_vars PROVE [Queue!Next]_(Queue!queueVars)
  OBVIOUS
<1>1. ASSUME NEW p \in Producer, Enqueue(p) \/ EnqueueReturns(p) PROVE Queue!Next
  BY <1>1 DEF Enqueue, EnqueueReturns, Queue!Next
<1>2. CASE Sleep \/ WakeUp \/ Log \/ LeaveLoop
  BY <1>2 DEF Sleep, WakeUp, Log, LeaveLoop, Queue!Next, Queue!WaitAndPop
<1>3. CASE StopCloses \/ StopNotifies
  BY <1>3 DEF StopCloses, StopNotifies, Queue!Next
<1>4. CASE CheckStop \/ FlushStep \/ Start \/ StopRequests \/ StopJoins \/ UNCHANGED vars
  BY <1>4 DEF CheckStop, FlushStep, Start, StopRequests, StopJoins, vars, queueVars,
         Queue!queueVars
<1> QED BY <1>1, <1>2, <1>3, <1>4 DEF Next, Run, Stop

\* What the queue's proofs assume holds of the audit's.
LEMMA QueueAssumed == QueueProof!QueueAssumption
<1>1. IsFiniteSet({Auditor})
  BY FS_Singleton
<1> QED BY <1>1, AuditAssumption DEF QueueProof!QueueAssumption, QueueProof!IsFiniteSet, IsFiniteSet

\* A step of the audit, as a step of the queue that the proofs are about.
LEMMA AuditStepsAreProvedSteps == [Next]_vars => [QueueProof!Next]_(QueueProof!queueVars)
<1>1. [Queue!Next]_(Queue!queueVars) => [QueueProof!Next]_(QueueProof!queueVars)
  BY DEF Queue!Next, QueueProof!Next, Queue!queueVars, QueueProof!queueVars,
         Queue!Push, QueueProof!Push, Queue!NotifyOne, QueueProof!NotifyOne,
         Queue!Close, QueueProof!Close, Queue!NotifyAll, QueueProof!NotifyAll,
         Queue!WaitAndPop, QueueProof!WaitAndPop, Queue!TakeFront, QueueProof!TakeFront,
         Queue!WaitAndPopTrue, QueueProof!WaitAndPopTrue,
         Queue!WaitAndPopFalse, QueueProof!WaitAndPopFalse,
         Queue!WaitAndPopSleep, QueueProof!WaitAndPopSleep,
         Queue!SpuriousWakeUp, QueueProof!SpuriousWakeUp, Queue!TryPop, QueueProof!TryPop
<1> QED BY <1>1, AuditStepsAreQueueSteps

\* The queue's invariant holds inside the audit.
LEMMA QueueInvariantInAudit == Spec => []QueueProof!Inductive
<1>1. Init => QueueProof!Inductive
  <2>1. QueueProof!Init => QueueProof!Inductive
    BY QueueAssumed, QueueProof!InitQueue
  <2> QED BY <2>1 DEF Init, Queue!Init, QueueProof!Init
<1>2. QueueProof!Inductive /\ [QueueProof!Next]_(QueueProof!queueVars) => QueueProof!Inductive'
  BY QueueAssumed, QueueProof!NextQueue
<1> QED BY <1>1, <1>2, AuditStepsAreProvedSteps, PTL DEF Spec

\* Audit uses its ThreadSafeQueue as the queue's clients may: what is proved of
\* the queue alone is true of it inside the audit.  Stop in particular leaves
\* no audit thread asleep on a closed queue with no notify_all to come.
THEOREM AuditNeverMissesWakeUp == Spec => []Queue!NoLostWakeUp
<1>1. QueueProof!Inductive => Queue!NoLostWakeUp
  <2>1. \A S : QueueProof!Cardinality(S) = Queue!Cardinality(S)
    BY DEF QueueProof!Cardinality, Queue!Cardinality
  <2> QED BY <2>1 DEF QueueProof!Inductive, QueueProof!NoLostWakeUp, Queue!NoLostWakeUp
<1> QED BY <1>1, QueueInvariantInAudit, PTL

\* The queue between the threads that log and the audit thread, as an abstract one.
AuditQueue == INSTANCE FifoQueue WITH Capacity <- MaxEntries, closed <- m_Closed

\* Entries reach the journals' thread in the order in which Enqueue put them in,
\* each once, and none after Stop has closed the queue, however often the audit
\* is stopped and started.
THEOREM AuditQueueIsFifo == Spec => AuditQueue!Spec
<1>1. Init => AuditQueue!Init
  BY DEF Init, Queue!Init, AuditQueue!Init
<1>2. QueueProof!Inductive /\ [QueueProof!Next]_(QueueProof!queueVars)
        => [AuditQueue!Next]_(AuditQueue!vars)
  <2>1. QueueProof!Inductive /\ [QueueProof!Next]_(QueueProof!queueVars)
          => [QueueProof!Fifo!Next]_(QueueProof!Fifo!vars)
    BY QueueAssumed, QueueProof!NextFifo
  <2> QED BY <2>1 DEF QueueProof!Fifo!Next, AuditQueue!Next, QueueProof!Fifo!vars, AuditQueue!vars,
         QueueProof!Fifo!Push, AuditQueue!Push, QueueProof!Fifo!Pop, AuditQueue!Pop,
         QueueProof!Fifo!Close, AuditQueue!Close
<1> QED BY <1>1, <1>2, QueueInvariantInAudit, AuditStepsAreProvedSteps, PTL
        DEF Spec, AuditQueue!Spec
=============================================================================

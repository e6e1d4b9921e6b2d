------------------------ MODULE ThreadSafeQueueProofs ------------------------
(***************************************************************************)
(* Proofs about ThreadSafeQueue for any number of producers, consumers and *)
(* items: the queue is first in, first out, and no wake-up is lost.        *)
(***************************************************************************)
EXTENDS ThreadSafeQueue, CommonLemmas

-----------------------------------------------------------------------------
(* Counting threads.                                                       *)

\* The sets that are counted are finite.
LEMMA ThreadsAreFinite ==
  ASSUME TypeOK
  PROVE  IsFiniteSet(notifying) /\ IsFiniteSet(woken)
  BY QueueAssumption, FS_Subset DEF TypeOK

\* Counting a set with a member more.
LEMMA OneMore ==
  ASSUME NEW S, IsFiniteSet(S), NEW x, x \notin S
  PROVE  Cardinality(S \cup {x}) = Cardinality(S) + 1 /\ Cardinality(S) \in Nat
  BY FS_AddElement, FS_CardinalityType

\* Counting a set with a member less.
LEMMA OneLess ==
  ASSUME NEW S, IsFiniteSet(S), NEW x, x \in S
  PROVE  Cardinality(S \ {x}) = Cardinality(S) - 1 /\ Cardinality(S) \in Nat
  BY FS_RemoveElement, FS_CardinalityType

\* A consumer that leaves m_CV.wait takes at most one from those on their way.
LEMMA AtMostOneLess ==
  ASSUME NEW S, IsFiniteSet(S), NEW x
  PROVE  /\ Cardinality(S \ {x}) >= Cardinality(S) - 1
         /\ Cardinality(S) \in Nat /\ Cardinality(S \ {x}) \in Nat
<1>1. CASE x \in S
  BY <1>1, OneLess, FS_RemoveElement, FS_CardinalityType
<1>2. CASE x \notin S
  <2>1. S \ {x} = S
    BY <1>2
  <2>2. Cardinality(S) \in Nat
    BY FS_CardinalityType
  <2>3. Cardinality(S) >= Cardinality(S) - 1
    BY <2>2
  <2> QED BY <2>1, <2>2, <2>3
<1> QED BY <1>1, <1>2

-----------------------------------------------------------------------------
(* The invariant: what is in the queue.                                    *)

Contents ==
  /\ accepted = Len(delivered) + Len(m_Queue)
  /\ \A i \in DOMAIN delivered : delivered[i] = i
  /\ \A i \in DOMAIN m_Queue : m_Queue[i] = Len(delivered) + i

\* The parts of the invariant.
LEMMA InductiveParts == Inductive <=> TypeOK /\ NoLostWakeUp /\ Contents
  BY DEF Inductive, Contents

\* What the type invariant says, in the form that the steps below cite.
LEMMA Types ==
  ASSUME Inductive
  PROVE  /\ MaxPushes \in Nat /\ accepted \in 0 .. MaxPushes
         /\ m_Queue \in Seq(1 .. MaxPushes) /\ delivered \in Seq(1 .. MaxPushes)
         /\ Len(m_Queue) \in Nat /\ DOMAIN m_Queue = 1 .. Len(m_Queue)
         /\ Len(delivered) \in Nat /\ DOMAIN delivered = 1 .. Len(delivered)
         /\ asleep \cap woken = {}
         /\ Cardinality(notifying) \in Nat /\ Cardinality(woken) \in Nat
<1>1. TypeOK
  BY DEF Inductive
<1>2. Cardinality(notifying) \in Nat /\ Cardinality(woken) \in Nat
  BY <1>1, ThreadsAreFinite, FS_CardinalityType
<1> QED BY <1>1, <1>2, QueueAssumption DEF TypeOK

\* A new queue is empty and nobody waits.
LEMMA InitQueue == Init => Inductive
<1> SUFFICES ASSUME Init PROVE Inductive
  OBVIOUS
<1>1. TypeOK
  <2>1. accepted \in 0 .. MaxPushes
    BY QueueAssumption DEF Init
  <2>2. m_Queue \in Seq(1 .. MaxPushes) /\ delivered \in Seq(1 .. MaxPushes)
    BY DEF Init
  <2> QED BY <2>1, <2>2 DEF Init, TypeOK
<1>2. NoLostWakeUp
  BY DEF Init, NoLostWakeUp
<1>3. Contents
  BY DEF Init, Contents
<1> QED BY <1>1, <1>2, <1>3, InductiveParts

\* An item that is taken is the next one.
LEMMA TakeFrontContents ==
  ASSUME Inductive, TakeFront
  PROVE  /\ m_Queue # <<>> /\ Len(m_Queue') = Len(m_Queue) - 1
         /\ m_Queue' \in Seq(1 .. MaxPushes) /\ delivered' \in Seq(1 .. MaxPushes)
         /\ delivered' = Append(delivered, Len(delivered) + 1)
         /\ Len(delivered') = Len(delivered) + 1
         /\ accepted = Len(delivered') + Len(m_Queue')
         /\ \A i \in DOMAIN delivered' : delivered'[i] = i
         /\ \A i \in DOMAIN m_Queue' : m_Queue'[i] = Len(delivered') + i
<1> USE Types
<1>1. /\ m_Queue # <<>> /\ m_Queue' = Tail(m_Queue)
      /\ delivered' = Append(delivered, Head(m_Queue))
  BY DEF TakeFront
<1>2. /\ \A i \in DOMAIN delivered : delivered[i] = i
      /\ \A i \in DOMAIN m_Queue : m_Queue[i] = Len(delivered) + i
      /\ accepted = Len(delivered) + Len(m_Queue)
  BY DEF Inductive
<1>3. /\ Head(m_Queue) = Len(delivered) + 1
      /\ m_Queue' \in Seq(1 .. MaxPushes) /\ Len(m_Queue') = Len(m_Queue) - 1
      /\ delivered' \in Seq(1 .. MaxPushes) /\ Len(delivered') = Len(delivered) + 1
      /\ \A i \in DOMAIN delivered' : delivered'[i] = i
      /\ \A i \in DOMAIN m_Queue' : m_Queue'[i] = Len(delivered') + i
  <2> DEFINE S == 1 .. MaxPushes
             q == m_Queue
             d == delivered
             r == m_Queue'
             e == delivered'
  <2>1. q \in Seq(S) /\ q # <<>> /\ d \in Seq(S) /\ r = Tail(q) /\ e = Append(d, Head(q))
    BY <1>1
  <2>2. (\A i \in DOMAIN d : d[i] = i) /\ (\A i \in DOMAIN q : q[i] = Len(d) + i)
    BY <1>2
  <2> HIDE DEF S, q, d, r, e
  <2>3. Len(d) \in Int /\ Len(d) \in Nat
    BY <2>1
  <2>4. /\ Head(q) = Len(d) + 1 /\ Head(q) \in S
        /\ r \in Seq(S) /\ Len(r) = Len(q) - 1
        /\ \A i \in DOMAIN r : r[i] = (Len(d) + 1) + i
    BY ONLY <2>1, <2>2, <2>3, TailCounts
  <2>5. /\ e \in Seq(S) /\ Len(e) = Len(d) + 1
        /\ e[Len(d) + 1] = Len(d) + 1 /\ \A i \in 1 .. Len(d) : e[i] = i
    BY ONLY <2>1, <2>2, <2>3, <2>4
  <2>6. \A i \in DOMAIN e : e[i] = i
    BY ONLY <2>3, <2>5
  <2> QED BY <2>4, <2>5, <2>6 DEF S, q, d, r, e
<1> QED BY <1>1, <1>2, <1>3

-----------------------------------------------------------------------------
(* The invariant: one lemma per action.                                    *)

\* A push adds an item and owes a notify for it.
LEMMA PushQueue ==
  ASSUME Inductive, NEW p \in Producer, Push(p)
  PROVE  Inductive'
<1> USE Types
<1>1. /\ p \notin notifying /\ ~m_Closed /\ accepted < MaxPushes
      /\ accepted' = accepted + 1 /\ m_Queue' = Append(m_Queue, accepted + 1)
      /\ notifying' = notifying \cup {p}
      /\ UNCHANGED <<m_Closed, closing, asleep, woken, delivered>>
  BY DEF Push
<1>2. Len(m_Queue') = Len(m_Queue) + 1 /\ m_Queue' \in Seq(1 .. MaxPushes)
  BY <1>1
<1>3. TypeOK'
  BY <1>1, <1>2 DEF Inductive, TypeOK
<1>4. NoLostWakeUp'
  <2>1. Cardinality(notifying') = Cardinality(notifying) + 1
    BY <1>1, ThreadsAreFinite, OneMore DEF Inductive
  <2> QED BY <1>1, <1>2, <2>1 DEF Inductive, NoLostWakeUp
<1>5. Contents'
  <2>1. accepted + 1 = Len(delivered) + Len(m_Queue) + 1
    BY DEF Inductive
  <2>2. \A i \in DOMAIN m_Queue : m_Queue[i] = Len(delivered) + i
    BY DEF Inductive
  <2>3. accepted + 1 = Len(delivered) + Len(m_Queue) + 1 /\ Len(delivered) \in Int
    BY <2>1
  <2>4. m_Queue' = Append(m_Queue, Len(delivered) + Len(m_Queue) + 1)
    BY <1>1, <2>3
  <2>5. \A i \in DOMAIN m_Queue' : m_Queue'[i] = Len(delivered) + i
    BY ONLY <2>2, <2>3, <2>4, Types, AppendCounts, Inductive
  <2>6. accepted' = Len(delivered') + Len(m_Queue')
    BY <1>1, <1>2, <2>1
  <2>7. \A i \in DOMAIN delivered' : delivered'[i] = i
    BY <1>1 DEF Inductive
  <2> QED BY <1>1, <2>5, <2>6, <2>7 DEF Contents
<1> QED BY <1>3, <1>4, <1>5 DEF Inductive, Contents

\* A wake-up moves one consumer from asleep to woken.
LEMMA WokenQueue ==
  ASSUME Inductive, NEW c \in asleep,
         asleep' = asleep \ {c}, woken' = woken \cup {c}
  PROVE  /\ asleep' \subseteq Consumer /\ woken' \subseteq Consumer
         /\ asleep' \cap woken' = {}
         /\ Cardinality(woken') = Cardinality(woken) + 1
<1>1. asleep \subseteq Consumer /\ woken \subseteq Consumer /\ asleep \cap woken = {}
  BY DEF Inductive, TypeOK
<1>2. Cardinality(woken') = Cardinality(woken) + 1
  BY <1>1, ThreadsAreFinite, OneMore DEF Inductive
<1> QED BY <1>1, <1>2

\* notify_one wakes a sleeper, where there is one.
LEMMA NotifyOneQueue ==
  ASSUME Inductive, NEW p \in Producer, NotifyOne(p)
  PROVE  Inductive'
<1> USE Types
<1>1. /\ p \in notifying /\ notifying' = notifying \ {p}
      /\ UNCHANGED <<m_Queue, m_Closed, closing, accepted, delivered>>
  BY DEF NotifyOne
<1>2. Contents'
  BY <1>1 DEF Inductive, Contents
<1>3. CASE asleep = {} /\ UNCHANGED <<asleep, woken>>
  <2>1. TypeOK'
    BY <1>1, <1>3 DEF Inductive, TypeOK
  <2>2. NoLostWakeUp'
    BY <1>3 DEF NoLostWakeUp
  <2> QED BY <1>2, <2>1, <2>2 DEF Inductive, Contents
<1>4. CASE \E c \in asleep : asleep' = asleep \ {c} /\ woken' = woken \cup {c}
  <2>1. PICK c \in asleep : asleep' = asleep \ {c} /\ woken' = woken \cup {c}
    BY <1>4
  <2>2. /\ asleep' \subseteq Consumer /\ woken' \subseteq Consumer
        /\ asleep' \cap woken' = {} /\ Cardinality(woken') = Cardinality(woken) + 1
    BY <2>1, WokenQueue
  <2>3. TypeOK'
    BY <1>1, <2>2 DEF Inductive, TypeOK
  <2>4. Cardinality(notifying') = Cardinality(notifying) - 1
    BY <1>1, ThreadsAreFinite, OneLess DEF Inductive
  <2>5. asleep # {}
    BY <2>1
  <2>6. NoLostWakeUp'
    BY <1>1, <2>2, <2>4, <2>5 DEF Inductive, NoLostWakeUp
  <2> QED BY <1>2, <2>3, <2>6 DEF Inductive, Contents
<1> QED BY <1>3, <1>4 DEF NotifyOne

\* close wakes everybody.
LEMMA CloseQueue ==
  ASSUME Inductive, Close \/ NotifyAll
  PROVE  Inductive'
<1>1. CASE Close
  <2>1. TypeOK'
    BY <1>1 DEF Inductive, TypeOK, Close
  <2>2. NoLostWakeUp'
    BY <1>1 DEF Inductive, NoLostWakeUp, Close
  <2>3. Contents'
    BY <1>1 DEF Inductive, Contents, Close
  <2> QED BY <2>1, <2>2, <2>3 DEF Inductive, Contents
<1>2. CASE NotifyAll
  <2>1. TypeOK'
    BY <1>2 DEF Inductive, TypeOK, NotifyAll
  <2>2. NoLostWakeUp'
    BY <1>2 DEF NoLostWakeUp, NotifyAll
  <2>3. Contents'
    BY <1>2 DEF Inductive, Contents, NotifyAll
  <2> QED BY <2>1, <2>2, <2>3 DEF Inductive, Contents
<1> QED BY <1>1, <1>2

\* A consumer that leaves with an item takes a wake-up and the item with it.
LEMMA WaitAndPopTrueQueue ==
  ASSUME Inductive, NEW c \in Consumer, WaitAndPopTrue(c)
  PROVE  Inductive'
<1> USE Types
<1>1. /\ TakeFront /\ woken' = woken \ {c}
      /\ UNCHANGED <<m_Closed, notifying, closing, asleep, accepted>>
  BY DEF WaitAndPopTrue
<1>2. TypeOK'
  BY <1>1, TakeFrontContents DEF Inductive, TypeOK
<1>3. NoLostWakeUp'
  <2>1. Cardinality(woken') >= Cardinality(woken) - 1 /\ Cardinality(woken') \in Nat
    BY <1>1, ThreadsAreFinite, AtMostOneLess DEF Inductive
  <2>2. Len(m_Queue') = Len(m_Queue) - 1
    BY <1>1, TakeFrontContents
  <2>3. NoLostWakeUp
    BY DEF Inductive
  <2> QED BY <1>1, <2>1, <2>2, <2>3 DEF NoLostWakeUp
<1>4. Contents'
  BY <1>1, TakeFrontContents DEF Contents
<1> QED BY <1>2, <1>3, <1>4 DEF Inductive, Contents

\* A consumer that leaves without one, or falls asleep, has found none.
LEMMA FoundEmptyQueue ==
  ASSUME Inductive, NEW c \in Consumer, WaitAndPopFalse(c) \/ WaitAndPopSleep(c)
  PROVE  Inductive'
<1> USE Types
<1>1. /\ m_Queue = <<>> /\ woken' = woken \ {c} /\ c \notin asleep
      /\ UNCHANGED <<m_Queue, m_Closed, notifying, closing, accepted, delivered>>
      /\ asleep' = asleep \/ (asleep' = asleep \cup {c} /\ ~m_Closed)
  BY DEF WaitAndPopFalse, WaitAndPopSleep
<1>2. TypeOK'
  BY <1>1 DEF Inductive, TypeOK
<1>3. NoLostWakeUp'
  <2>1. Cardinality(woken') \in Nat /\ Cardinality(notifying') \in Nat
    BY <1>1, ThreadsAreFinite, AtMostOneLess DEF Inductive
  <2> QED BY <1>1, <2>1 DEF Inductive, NoLostWakeUp
<1>4. Contents'
  BY <1>1 DEF Inductive, Contents
<1> QED BY <1>2, <1>3, <1>4 DEF Inductive, Contents

\* A wake-up without cause is one more awake.
LEMMA SpuriousWakeUpQueue ==
  ASSUME Inductive, NEW c \in Consumer, SpuriousWakeUp(c)
  PROVE  Inductive'
<1> USE Types
<1>1. /\ c \in asleep /\ asleep' = asleep \ {c} /\ woken' = woken \cup {c}
      /\ UNCHANGED <<m_Queue, m_Closed, notifying, closing, accepted, delivered>>
  BY DEF SpuriousWakeUp
<1>2. /\ asleep' \subseteq Consumer /\ woken' \subseteq Consumer
      /\ asleep' \cap woken' = {} /\ Cardinality(woken') = Cardinality(woken) + 1
  BY <1>1, WokenQueue
<1>3. TypeOK'
  BY <1>1, <1>2 DEF Inductive, TypeOK
<1>4. NoLostWakeUp'
  <2>1. asleep # {}
    BY <1>1
  <2> QED BY <1>1, <1>2, <2>1 DEF Inductive, NoLostWakeUp
<1>5. Contents'
  BY <1>1 DEF Inductive, Contents
<1> QED BY <1>3, <1>4, <1>5 DEF Inductive, Contents

\* try_pop takes an item that no sleeper was owed.
LEMMA TryPopQueue ==
  ASSUME Inductive, NEW c \in Consumer, TryPop(c)
  PROVE  Inductive'
<1> USE Types
<1>1. TakeFront /\ UNCHANGED <<m_Closed, notifying, closing, asleep, woken, accepted>>
  BY DEF TryPop
<1>2. TypeOK'
  BY <1>1, TakeFrontContents DEF Inductive, TypeOK
<1>3. NoLostWakeUp'
  BY <1>1, TakeFrontContents DEF Inductive, NoLostWakeUp
<1>4. Contents'
  BY <1>1, TakeFrontContents DEF Contents
<1> QED BY <1>2, <1>3, <1>4 DEF Inductive, Contents

\* Every step keeps the invariant.
LEMMA NextQueue == Inductive /\ [Next]_queueVars => Inductive'
<1> SUFFICES ASSUME Inductive, [Next]_queueVars PROVE Inductive'
  OBVIOUS
<1>1. CASE UNCHANGED queueVars
  <2>1. TypeOK'
    BY <1>1 DEF Inductive, TypeOK, queueVars
  <2>2. NoLostWakeUp'
    BY <1>1 DEF Inductive, NoLostWakeUp, queueVars
  <2>3. Contents'
    BY <1>1 DEF Inductive, Contents, queueVars
  <2> QED BY <2>1, <2>2, <2>3 DEF Inductive, Contents
<1> QED BY <1>1, PushQueue, NotifyOneQueue, CloseQueue, WaitAndPopTrueQueue,
           FoundEmptyQueue, SpuriousWakeUpQueue, TryPopQueue DEF Next, WaitAndPop

-----------------------------------------------------------------------------
(* Theorems.                                                               *)

\* The queue holds what was accepted and not delivered, in order, at every
\* step of any number of threads.
THEOREM QueueInvariant == Spec => []Inductive
  BY InitQueue, NextQueue, PTL DEF Spec

\* While a consumer sleeps, every item has a consumer or a notification on its
\* way, and a closed queue its notify_all.
THEOREM NoWakeUpIsLost == Spec => []NoLostWakeUp
<1>1. Inductive => NoLostWakeUp
  BY DEF Inductive
<1> QED BY <1>1, QueueInvariant, PTL

\* Every step is a push, a pop or a close of a first-in, first-out queue.
LEMMA NextFifo == Inductive /\ [Next]_queueVars => [Fifo!Next]_(Fifo!vars)
<1> SUFFICES ASSUME Inductive, [Next]_queueVars PROVE [Fifo!Next]_(Fifo!vars)
  OBVIOUS
<1> USE Types
<1>1. ASSUME NEW p \in Producer, Push(p) PROVE Fifo!Push
  <2>1. ~m_Closed /\ accepted < MaxPushes /\ accepted' = accepted + 1
        /\ UNCHANGED <<delivered, m_Closed>>
    BY <1>1 DEF Push
  <2>2. accepted - Len(delivered) < MaxPushes
    BY <2>1
  <2> QED BY <2>1, <2>2 DEF Fifo!Push
<1>2. ASSUME TakeFront, UNCHANGED <<m_Closed, accepted>> PROVE Fifo!Pop
  <2>1. Len(delivered) < accepted
    BY <1>2, TakeFrontContents DEF Inductive
  <2> QED BY <1>2, <2>1, TakeFrontContents DEF Fifo!Pop
<1>3. CASE Close
  BY <1>3 DEF Close, Fifo!Next, Fifo!Close
<1>4. ASSUME NEW c \in Consumer, WaitAndPop(c) \/ SpuriousWakeUp(c) \/ TryPop(c)
      PROVE  TakeFront \/ UNCHANGED delivered
  BY <1>4 DEF WaitAndPop, WaitAndPopTrue, WaitAndPopFalse, WaitAndPopSleep,
              SpuriousWakeUp, TryPop
<1>5. ASSUME NEW c \in Consumer, WaitAndPop(c) \/ SpuriousWakeUp(c) \/ TryPop(c)
      PROVE  UNCHANGED <<m_Closed, accepted>>
  BY <1>5 DEF WaitAndPop, WaitAndPopTrue, WaitAndPopFalse, WaitAndPopSleep,
              SpuriousWakeUp, TryPop
<1>6. ASSUME NEW p \in Producer, NotifyOne(p)
      PROVE  UNCHANGED <<accepted, delivered, m_Closed>>
  BY <1>6 DEF NotifyOne
<1>7. CASE NotifyAll
  BY <1>7 DEF NotifyAll, Fifo!vars
<1>8. CASE UNCHANGED queueVars
  BY <1>8 DEF queueVars, Fifo!vars
<1> QED BY <1>1, <1>2, <1>3, <1>4, <1>5, <1>6, <1>7, <1>8
        DEF Next, Fifo!Next, Fifo!vars

\* The queue implements a first-in, first-out queue that can be closed.
THEOREM QueueIsFifo == Spec => ImplementsFifoQueue
<1>1. Init => Fifo!Init
  BY DEF Init, Fifo!Init
<1> QED BY <1>1, NextFifo, QueueInvariant, PTL DEF Spec, ImplementsFifoQueue, Fifo!Spec
=============================================================================

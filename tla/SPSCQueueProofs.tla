--------------------------- MODULE SPSCQueueProofs ---------------------------
(***************************************************************************)
(* Proofs about SPSCQueue, for every number of slots and of items: what    *)
(* each step preserves, that the two threads never meet in a slot, and     *)
(* that the ring is a first-in, first-out queue.                           *)
(***************************************************************************)
EXTENDS SPSCQueue, TLAPS

-----------------------------------------------------------------------------
(* Arithmetic of the ring.                                                 *)

\* Division with remainder, as the masks compute it.
LEMMA DivMod ==
  ASSUME NEW n \in Nat, NEW s \in Nat \ {0}
  PROVE  /\ (n % s) \in 0 .. s - 1
         /\ n = s * (n \div s) + (n % s)
         /\ n \div s \in Nat
  OBVIOUS

\* A remainder, from how its number is written.
LEMMA ModIsUnique ==
  ASSUME NEW s \in Nat \ {0}, NEW q \in Nat, NEW r \in 0 .. s - 1,
         NEW n \in Nat, n = s * q + r
  PROVE  (n % s) = r
<1> DEFINE k == n \div s
           m == n % s
<1>1. k \in Nat /\ m \in 0 .. s - 1 /\ n = s * k + m
  BY DivMod
<1> HIDE DEF k, m
<1>2. CASE k < q
  <2>1. s * k + s <= s * q
    BY <1>1, <1>2
  <2> QED BY <2>1, <1>1
<1>3. CASE k > q
  <2>1. s * q + s <= s * k
    BY <1>1, <1>3
  <2> QED BY <2>1, <1>1
<1>4. CASE k = q
  BY <1>1, <1>4 DEF m
<1> QED BY <1>1, <1>2, <1>3, <1>4

\* An index is a slot.
LEMMA IndexIsSlot == ASSUME NEW a \in Nat PROVE Index(a) \in Slot
  BY DivMod, SPSCAssumption DEF Index, Slot

\* + 1 and the mask make the index of the next store.
LEMMA AfterIndex == ASSUME NEW a \in Nat PROVE After(Index(a)) = Index(a + 1)
<1> DEFINE q == a \div Size
           r == a % Size
<1>1. Size \in Nat \ {0}
  BY SPSCAssumption
<1>2. q \in Nat /\ r \in 0 .. Size - 1 /\ a = Size * q + r
  BY <1>1, DivMod
<1> HIDE DEF q, r
<1>3. CASE r + 1 < Size
  <2>1. a + 1 = Size * q + (r + 1)
    BY <1>1, <1>2
  <2>2. (a + 1) % Size = r + 1
    BY <1>1, <1>2, <1>3, <2>1, ModIsUnique
  <2>3. r + 1 = Size * 0 + (r + 1)
    BY <1>1, <1>2
  <2>4. (r + 1) % Size = r + 1
    BY <1>1, <1>2, <1>3, <2>3, ModIsUnique
  <2> QED BY <2>2, <2>4 DEF Index, After, r
<1>4. CASE r + 1 = Size
  <2>1. a + 1 = Size * (q + 1) + 0
    BY <1>1, <1>2, <1>4
  <2>2. (a + 1) % Size = 0
    BY <1>1, <1>2, <2>1, ModIsUnique
  <2>3. r + 1 = Size * 1 + 0
    BY <1>1, <1>2, <1>4
  <2>4. (r + 1) % Size = 0
    BY <1>1, <1>2, <2>3, ModIsUnique
  <2> QED BY <2>2, <2>4 DEF Index, After, r
<1> QED BY <1>1, <1>2, <1>3, <1>4

\* Once around the ring an index is the same again.
LEMMA AroundTheRing == ASSUME NEW a \in Nat PROVE Index(a + Size) = Index(a)
<1> DEFINE q == a \div Size
           r == a % Size
<1>1. Size \in Nat \ {0}
  BY SPSCAssumption
<1>2. q \in Nat /\ r \in 0 .. Size - 1 /\ a = Size * q + r
  BY <1>1, DivMod
<1> HIDE DEF q, r
<1>3. a + Size = Size * (q + 1) + r
  BY <1>1, <1>2
<1>4. (a + Size) % Size = r
  BY <1>1, <1>2, <1>3, ModIsUnique
<1> QED BY <1>4 DEF Index, r

\* Less than once around it is not.
LEMMA IndexApart ==
  ASSUME NEW a \in Nat, NEW b \in Nat, a < b, b < a + Size
  PROVE  Index(a) # Index(b)
<1> SUFFICES ASSUME Index(a) = Index(b) PROVE FALSE
  OBVIOUS
<1> DEFINE q == a \div Size
           r == b \div Size
           m == a % Size
<1>1. Size \in Nat \ {0}
  BY SPSCAssumption
<1>2. q \in Nat /\ m \in 0 .. Size - 1 /\ a = Size * q + m
  BY <1>1, DivMod
<1>3. r \in Nat /\ b = Size * r + m
  BY <1>1, DivMod DEF Index
<1> HIDE DEF q, r, m
<1>4. CASE r <= q
  <2>1. Size * r <= Size * q
    BY <1>1, <1>2, <1>3, <1>4
  <2> QED BY <2>1, <1>1, <1>2, <1>3
<1>5. CASE r >= q + 1
  <2>1. Size * r >= Size * q + Size
    BY <1>1, <1>2, <1>3, <1>5
  <2> QED BY <2>1, <1>1, <1>2, <1>3
<1> QED BY <1>2, <1>3, <1>4, <1>5

-----------------------------------------------------------------------------
(* The invariant.                                                          *)

\* The numbers that the invariant is about.
LEMMA Numbers ==
  ASSUME Inductive
  PROVE  /\ Size \in Nat \ {0} /\ MaxPushes \in Nat
         /\ accepted \in Nat /\ Len(delivered) \in Nat
         /\ tailSeen \in Nat /\ headSeen \in Nat
         /\ DOMAIN delivered = 1 .. Len(delivered)
  BY SPSCAssumption DEF Inductive, TypeOK

\* Before the first push nothing is in the ring.
LEMMA InitRing == Init => Inductive
<1> SUFFICES ASSUME Init PROVE Inductive
  OBVIOUS
<1>1. Size \in Nat \ {0} /\ MaxPushes \in Nat
  BY SPSCAssumption
<1>2. Index(0) = 0 /\ 0 \in Slot
  <2>1. 0 = Size * 0 + 0
    BY <1>1
  <2> QED BY <1>1, <2>1, ModIsUnique DEF Index, Slot
<1>3. TypeOK
  BY <1>1, <1>2 DEF Init, TypeOK
<1> QED BY <1>1, <1>2, <1>3 DEF Init, Inductive

\* push gets past its checks only if there is room for one more item.
LEMMA PushFindsRoomRing ==
  ASSUME Inductive, PushFindsRoom
  PROVE  Inductive'
<1> USE Numbers
<1>1. /\ accepted < MaxPushes /\ producer' = "write"
      /\ UNCHANGED <<m_Buffer, m_Head, accepted, m_Tail, m_HeadCache, consumer,
                     out, delivered, headSeen>>
  BY DEF PushFindsRoom, consumerVars
<1>2. /\ tailSeen' \in Nat /\ tailSeen <= tailSeen' /\ tailSeen' <= Len(delivered)
      /\ m_TailCache' = Index(tailSeen')
      /\ After(m_Head) # m_TailCache'
  BY DEF PushFindsRoom, LoadTail, Inductive
<1>3. m_TailCache' \in Slot
  BY <1>2, IndexIsSlot
<1>4. accepted + 1 # tailSeen' + Size
  <2>1. After(m_Head) = Index(accepted + 1)
    BY AfterIndex DEF Inductive
  <2> QED BY <1>2, <2>1, AroundTheRing
<1>5. accepted < tailSeen' + Size - 1
  BY <1>2, <1>4 DEF Inductive
<1>6. TypeOK'
  BY <1>1, <1>2, <1>3 DEF Inductive, TypeOK
<1> QED BY <1>1, <1>2, <1>5, <1>6 DEF Inductive

\* The slot that push writes holds no item that is still to be popped.
LEMMA PushWritesRing ==
  ASSUME Inductive, PushWrites
  PROVE  Inductive'
<1> USE Numbers
<1>1. /\ producer = "write" /\ producer' = "store"
      /\ m_Buffer' = [m_Buffer EXCEPT ![m_Head] = accepted + 1]
      /\ UNCHANGED <<m_Head, m_TailCache, accepted, tailSeen, m_Tail, m_HeadCache,
                     consumer, out, delivered, headSeen>>
  BY DEF PushWrites, consumerVars
<1>2. accepted < tailSeen + Size - 1 /\ accepted < MaxPushes
  BY <1>1 DEF Inductive
<1>3. m_Head \in Slot /\ m_Buffer \in [Slot -> 0 .. MaxPushes]
  BY DEF Inductive, TypeOK
<1>4. m_Buffer'[m_Head] = accepted + 1 /\ m_Buffer' \in [Slot -> 0 .. MaxPushes]
  BY <1>1, <1>2, <1>3
<1>5. \A n \in Len(delivered) + 1 .. accepted : m_Buffer'[Index(n - 1)] = n
  <2> SUFFICES ASSUME NEW n \in Len(delivered) + 1 .. accepted
               PROVE  m_Buffer'[Index(n - 1)] = n
    OBVIOUS
  <2>1. n - 1 \in Nat /\ n - 1 < accepted /\ accepted < n - 1 + Size
    BY <1>2 DEF Inductive
  <2>2. Index(n - 1) # m_Head
    BY <2>1, IndexApart DEF Inductive
  <2>3. Index(n - 1) \in Slot
    BY <2>1, IndexIsSlot
  <2> QED BY <1>1, <1>3, <2>2, <2>3 DEF Inductive
<1>6. TypeOK'
  BY <1>1, <1>4 DEF Inductive, TypeOK
<1> QED BY <1>1, <1>2, <1>4, <1>5, <1>6 DEF Inductive

\* The producer publishes the item that it wrote.
LEMMA PushStoresRing ==
  ASSUME Inductive, PushStores
  PROVE  Inductive'
<1> USE Numbers
<1>1. /\ producer = "store" /\ producer' = "idle"
      /\ m_Head' = After(m_Head) /\ accepted' = accepted + 1
      /\ UNCHANGED <<m_Buffer, m_TailCache, tailSeen, m_Tail, m_HeadCache,
                     consumer, out, delivered, headSeen>>
  BY DEF PushStores, consumerVars
<1>2. /\ accepted < tailSeen + Size - 1 /\ accepted < MaxPushes
      /\ m_Buffer[m_Head] = accepted + 1
  BY <1>1 DEF Inductive
<1>3. m_Head' = Index(accepted') /\ m_Head' \in Slot
  BY <1>1, AfterIndex, IndexIsSlot DEF Inductive
<1>4. \A n \in Len(delivered) + 1 .. accepted' : m_Buffer[Index(n - 1)] = n
  <2> SUFFICES ASSUME NEW n \in Len(delivered) + 1 .. accepted + 1
               PROVE  m_Buffer[Index(n - 1)] = n
    BY <1>1
  <2>1. CASE n = accepted + 1
    BY <1>2, <2>1 DEF Inductive
  <2>2. CASE n # accepted + 1
    <3>1. n \in Len(delivered) + 1 .. accepted
      BY <2>2
    <3>2. \A k \in Len(delivered) + 1 .. accepted : m_Buffer[Index(k - 1)] = k
      BY DEF Inductive
    <3> QED BY <3>1, <3>2
  <2> QED BY <2>1, <2>2
<1>5. TypeOK'
  BY <1>1, <1>2, <1>3 DEF Inductive, TypeOK
<1> QED BY <1>1, <1>2, <1>3, <1>4, <1>5 DEF Inductive

\* pop gets past its checks only if there is an item.
LEMMA PopFindsItemRing ==
  ASSUME Inductive, PopFindsItem
  PROVE  Inductive'
<1> USE Numbers
<1>1. /\ consumer' = "read" /\ consumer = "idle"
      /\ UNCHANGED <<m_Buffer, m_Tail, out, delivered, m_Head, m_TailCache,
                     producer, accepted, tailSeen>>
  BY DEF PopFindsItem, producerVars
<1>2. /\ headSeen' \in Nat /\ headSeen <= headSeen' /\ headSeen' <= accepted
      /\ m_HeadCache' = Index(headSeen')
      /\ m_Tail # m_HeadCache'
  BY DEF PopFindsItem, LoadHead, Inductive
<1>3. m_HeadCache' \in Slot
  BY <1>2, IndexIsSlot
<1>4. Len(delivered) < headSeen'
  BY <1>2 DEF Inductive
<1>5. TypeOK'
  BY <1>1, <1>2, <1>3 DEF Inductive, TypeOK
<1> QED BY <1>1, <1>2, <1>4, <1>5 DEF Inductive

\* The consumer reads the item that is next.
LEMMA PopReadsRing ==
  ASSUME Inductive, PopReads
  PROVE  Inductive'
<1> USE Numbers
<1>1. /\ consumer = "read" /\ consumer' = "store" /\ out' = m_Buffer[m_Tail]
      /\ UNCHANGED <<m_Buffer, m_Tail, m_HeadCache, headSeen, delivered, m_Head,
                     m_TailCache, producer, accepted, tailSeen>>
  BY DEF PopReads, producerVars
<1>2. Len(delivered) < headSeen /\ headSeen <= accepted
  BY <1>1 DEF Inductive
<1>3. out' = Len(delivered) + 1
  <2>1. Len(delivered) + 1 \in Len(delivered) + 1 .. accepted
    BY <1>2
  <2>2. m_Buffer[Index(Len(delivered) + 1 - 1)] = Len(delivered) + 1
    BY <2>1 DEF Inductive
  <2>3. Len(delivered) + 1 - 1 = Len(delivered)
    OBVIOUS
  <2> QED BY <1>1, <2>2, <2>3 DEF Inductive
<1>4. TypeOK'
  BY <1>1, <1>2, <1>3 DEF Inductive, TypeOK
<1> QED BY <1>1, <1>2, <1>3, <1>4 DEF Inductive

\* The consumer gives the slot back.
LEMMA PopStoresRing ==
  ASSUME Inductive, PopStores
  PROVE  Inductive'
<1> USE Numbers
<1>1. /\ consumer = "store" /\ consumer' = "idle"
      /\ m_Tail' = After(m_Tail) /\ delivered' = Append(delivered, out)
      /\ UNCHANGED <<m_Buffer, m_HeadCache, headSeen, out, m_Head, m_TailCache,
                     producer, accepted, tailSeen>>
  BY DEF PopStores, producerVars
<1>2. Len(delivered) < headSeen /\ out = Len(delivered) + 1
  BY <1>1 DEF Inductive
<1>3. delivered \in Seq(0 .. MaxPushes) /\ out \in 0 .. MaxPushes
  BY DEF Inductive, TypeOK
<1>4. /\ Len(delivered') = Len(delivered) + 1
      /\ delivered' \in Seq(0 .. MaxPushes)
      /\ \A i \in DOMAIN delivered' : delivered'[i] = i
  BY <1>1, <1>2, <1>3 DEF Inductive
<1>5. m_Tail' = Index(Len(delivered')) /\ m_Tail' \in Slot
  BY <1>1, <1>4, AfterIndex, IndexIsSlot DEF Inductive
<1>6. TypeOK'
  BY <1>1, <1>4, <1>5 DEF Inductive, TypeOK
<1>7. \A n \in Len(delivered') + 1 .. accepted' : m_Buffer'[Index(n - 1)] = n
  BY <1>1, <1>4 DEF Inductive
<1>8. /\ tailSeen' <= Len(delivered') /\ Len(delivered') <= headSeen'
      /\ headSeen' <= accepted' /\ accepted' <= tailSeen' + Size - 1
  BY <1>1, <1>2, <1>4 DEF Inductive
<1> QED BY <1>1, <1>4, <1>5, <1>6, <1>7, <1>8 DEF Inductive

\* A refusal leaves everything as it is, the copy of the index included.
LEMMA RefusalsRing ==
  ASSUME Inductive, PushFindsFull \/ PopFindsEmpty
  PROVE  Inductive'
<1> USE Numbers
<1>1. CASE PushFindsFull
  <2>1. /\ tailSeen' \in Nat /\ tailSeen <= tailSeen' /\ tailSeen' <= Len(delivered)
        /\ m_TailCache' = Index(tailSeen') /\ producer = "idle"
        /\ UNCHANGED <<m_Buffer, m_Head, producer, accepted, m_Tail, m_HeadCache,
                       consumer, out, delivered, headSeen>>
    BY <1>1 DEF PushFindsFull, LoadTail, consumerVars
  <2>2. TypeOK'
    BY <2>1, IndexIsSlot DEF Inductive, TypeOK
  <2> QED BY <2>1, <2>2 DEF Inductive
<1>2. CASE PopFindsEmpty
  <2>1. /\ headSeen' \in Nat /\ headSeen <= headSeen' /\ headSeen' <= accepted
        /\ m_HeadCache' = Index(headSeen') /\ consumer = "idle"
        /\ UNCHANGED <<m_Buffer, m_Tail, consumer, out, delivered, m_Head,
                       m_TailCache, producer, accepted, tailSeen>>
    BY <1>2 DEF PopFindsEmpty, LoadHead, producerVars
  <2>2. TypeOK'
    BY <2>1, IndexIsSlot DEF Inductive, TypeOK
  <2> QED BY <2>1, <2>2 DEF Inductive
<1> QED BY <1>1, <1>2

\* Every step keeps the invariant.
LEMMA NextRing == Inductive /\ [Next]_vars => Inductive'
<1> SUFFICES ASSUME Inductive, [Next]_vars PROVE Inductive'
  OBVIOUS
<1>1. CASE UNCHANGED vars
  <2>1. UNCHANGED <<m_Buffer, m_Head, m_Tail, m_TailCache, m_HeadCache, producer,
                    consumer, out, accepted, delivered, tailSeen, headSeen>>
    BY <1>1 DEF vars, producerVars, consumerVars
  <2>2. TypeOK'
    BY <2>1 DEF Inductive, TypeOK
  <2> QED BY <2>1, <2>2 DEF Inductive
<1> QED BY <1>1, PushFindsRoomRing, PushWritesRing, PushStoresRing, PopFindsItemRing,
           PopReadsRing, PopStoresRing, RefusalsRing DEF Next

-----------------------------------------------------------------------------
(* Theorems.                                                               *)

\* The indices, their cached copies and the slots agree at every step of push
\* and pop, whatever value of the other's index a load returned.
THEOREM RingInvariant == Spec => []Inductive
  BY InitRing, NextRing, PTL DEF Spec

\* Push never writes the slot that pop reads.
THEOREM SlotsAreNotShared == Spec => []NoSlotRace
<1>1. Inductive => NoSlotRace
  <2> SUFFICES ASSUME Inductive, producer = "write", consumer = "read"
               PROVE  m_Head # m_Tail
    BY DEF NoSlotRace
  <2>1. Len(delivered) < accepted /\ accepted < Len(delivered) + Size
    BY Numbers DEF Inductive
  <2> QED BY <2>1, Numbers, IndexApart DEF Inductive
<1> QED BY <1>1, RingInvariant, PTL

\* The ring implements a first-in, first-out queue for Size - 1 items: stores
\* of the head are its pushes, stores of the tail its pops.
THEOREM RingIsFifo == Spec => ImplementsFifoQueue
<1>1. Init => Fifo!Init
  BY DEF Init, Fifo!Init
<1>2. Inductive /\ [Next]_vars => [Fifo!Next]_(Fifo!vars)
  <2> SUFFICES ASSUME Inductive, [Next]_vars PROVE [Fifo!Next]_(Fifo!vars)
    OBVIOUS
  <2> USE Numbers
  <2>1. CASE PushStores
    <3>1. accepted - Len(delivered) < Size - 1
      BY <2>1 DEF PushStores, Inductive
    <3>2. accepted' = accepted + 1 /\ delivered' = delivered
      BY <2>1 DEF PushStores, consumerVars
    <3> QED BY <3>1, <3>2 DEF Fifo!Next, Fifo!Push
  <2>2. CASE PopStores
    <3>1. Len(delivered) < accepted /\ out = Len(delivered) + 1
      BY <2>2 DEF PopStores, Inductive
    <3>2. accepted' = accepted /\ delivered' = Append(delivered, Len(delivered) + 1)
      BY <2>2, <3>1 DEF PopStores, producerVars
    <3> QED BY <3>1, <3>2 DEF Fifo!Next, Fifo!Pop
  <2>3. CASE ~PushStores /\ ~PopStores
    <3>1. accepted' = accepted /\ delivered' = delivered
      BY <2>3 DEF Next, PushFindsRoom, PushFindsFull, PushWrites, PopFindsItem,
                  PopFindsEmpty, PopReads, vars, producerVars, consumerVars
    <3> QED BY <3>1 DEF Fifo!vars
  <2> QED BY <2>1, <2>2, <2>3
<1> QED BY <1>1, <1>2, RingInvariant, PTL DEF Spec, ImplementsFifoQueue, Fifo!Spec
=============================================================================

------------------------------ MODULE SPSCQueue ------------------------------
(***************************************************************************)
(* src/src/Data-Structures/SPSC-Queue.hpp: a ring of slots between one     *)
(* producer and one consumer, without a lock.                              *)
(*                                                                         *)
(* Every access to what both threads see is a step: the acquire load of    *)
(* the other's index, the access to the slot, the release store of the own *)
(* index.  A load may return any value that the index has had since the    *)
(* value that the thread loaded before, which is its cached copy.          *)
(***************************************************************************)
EXTENDS Integers, Sequences

CONSTANTS
  Size,        \* slots of the ring
  MaxPushes    \* bound: items that are accepted

ASSUME SPSCAssumption == Size \in Nat \ {0} /\ MaxPushes \in Nat

VARIABLES
  m_Buffer,      \* the item that was last put into each slot; 0 for none
  m_Head,        \* the slot that the producer writes next
  m_Tail,        \* the slot that the consumer reads next
  m_TailCache,   \* the producer's copy of m_Tail
  m_HeadCache,   \* the consumer's copy of m_Head
  producer,      \* where push is
  consumer,      \* where pop is
  out,           \* the item that pop has moved out of its slot
  accepted,      \* history: stores to m_Head, the items push has accepted
  delivered,     \* history: the items that were popped, a store to m_Tail each
  tailSeen,      \* history: the stores to m_Tail that m_TailCache has seen
  headSeen       \* history: the stores to m_Head that m_HeadCache has seen

producerVars == <<m_Head, m_TailCache, producer, accepted, tailSeen>>
consumerVars == <<m_Tail, m_HeadCache, consumer, out, delivered, headSeen>>
vars == <<m_Buffer, producerVars, consumerVars>>

Slot == 0 .. Size - 1

\* The value of an index that has been stored n times: + 1 and & BitMask each
\* time, where Size is a power of two.
Index(n) == n % Size
After(i) == (i + 1) % Size

Init ==
  /\ m_Buffer = [i \in Slot |-> 0]
  /\ m_Head = 0 /\ m_Tail = 0
  /\ m_TailCache = 0 /\ m_HeadCache = 0
  /\ producer = "idle" /\ consumer = "idle"
  /\ out = 0
  /\ accepted = 0 /\ delivered = <<>>
  /\ tailSeen = 0 /\ headSeen = 0

-----------------------------------------------------------------------------
(* push.                                                                   *)

LoadTail ==
  \E n \in tailSeen .. Len(delivered) : tailSeen' = n /\ m_TailCache' = Index(n)

\* Mutant of PushFindsRoom: the tail is loaded and not compared with again.
PushLoadsOnly ==
  /\ producer = "idle" /\ accepted < MaxPushes
  /\ \/ After(m_Head) # m_TailCache /\ UNCHANGED <<m_TailCache, tailSeen>>
     \/ After(m_Head) = m_TailCache /\ LoadTail
  /\ producer' = "write"
  /\ UNCHANGED <<m_Buffer, m_Head, accepted, consumerVars>>

\* The cached tail shows room, or it is loaded and does.
PushFindsRoom ==
  /\ producer = "idle" /\ accepted < MaxPushes
  /\ \/ After(m_Head) # m_TailCache /\ UNCHANGED <<m_TailCache, tailSeen>>
     \/ After(m_Head) = m_TailCache /\ LoadTail /\ After(m_Head) # m_TailCache'
  /\ producer' = "write"
  /\ UNCHANGED <<m_Buffer, m_Head, accepted, consumerVars>>

\* push returns false.
PushFindsFull ==
  /\ producer = "idle"
  /\ After(m_Head) = m_TailCache /\ LoadTail /\ After(m_Head) = m_TailCache'
  /\ UNCHANGED <<m_Buffer, m_Head, producer, accepted, consumerVars>>

PushWrites ==
  /\ producer = "write"
  /\ m_Buffer' = [m_Buffer EXCEPT ![m_Head] = accepted + 1]
  /\ producer' = "store"
  /\ UNCHANGED <<m_Head, m_TailCache, accepted, tailSeen, consumerVars>>

\* Mutant of PushStores: the index is not masked.
PushStoresUnmasked ==
  /\ producer = "store"
  /\ m_Head' = m_Head + 1
  /\ accepted' = accepted + 1
  /\ producer' = "idle"
  /\ UNCHANGED <<m_Buffer, m_TailCache, tailSeen, consumerVars>>

PushStores ==
  /\ producer = "store"
  /\ m_Head' = After(m_Head)
  /\ accepted' = accepted + 1
  /\ producer' = "idle"
  /\ UNCHANGED <<m_Buffer, m_TailCache, tailSeen, consumerVars>>

-----------------------------------------------------------------------------
(* pop.                                                                    *)

LoadHead ==
  \E n \in headSeen .. accepted : headSeen' = n /\ m_HeadCache' = Index(n)

\* Mutant of PopFindsItem: the head is loaded and not compared with again.
PopLoadsOnly ==
  /\ consumer = "idle"
  /\ \/ m_Tail # m_HeadCache /\ UNCHANGED <<m_HeadCache, headSeen>>
     \/ m_Tail = m_HeadCache /\ LoadHead
  /\ consumer' = "read"
  /\ UNCHANGED <<m_Buffer, m_Tail, out, delivered, producerVars>>

\* Mutant of PopFindsItem: an item is taken only if the cached head shows it.
PopTrustsCache ==
  /\ consumer = "idle"
  /\ m_Tail # m_HeadCache
  /\ consumer' = "read"
  /\ UNCHANGED <<m_Buffer, m_Tail, m_HeadCache, headSeen, out, delivered, producerVars>>

\* The cached head shows an item, or it is loaded and does.
PopFindsItem ==
  /\ consumer = "idle"
  /\ \/ m_Tail # m_HeadCache /\ UNCHANGED <<m_HeadCache, headSeen>>
     \/ m_Tail = m_HeadCache /\ LoadHead /\ m_Tail # m_HeadCache'
  /\ consumer' = "read"
  /\ UNCHANGED <<m_Buffer, m_Tail, out, delivered, producerVars>>

\* pop returns false.
PopFindsEmpty ==
  /\ consumer = "idle"
  /\ m_Tail = m_HeadCache /\ LoadHead /\ m_Tail = m_HeadCache'
  /\ UNCHANGED <<m_Buffer, m_Tail, consumer, out, delivered, producerVars>>

PopReads ==
  /\ consumer = "read"
  /\ out' = m_Buffer[m_Tail]
  /\ consumer' = "store"
  /\ UNCHANGED <<m_Buffer, m_Tail, m_HeadCache, headSeen, delivered, producerVars>>

PopStores ==
  /\ consumer = "store"
  /\ m_Tail' = After(m_Tail)
  /\ delivered' = Append(delivered, out)
  /\ consumer' = "idle"
  /\ UNCHANGED <<m_Buffer, m_HeadCache, headSeen, out, producerVars>>

-----------------------------------------------------------------------------
Next ==
  \/ PushFindsRoom \/ PushFindsFull \/ PushWrites \/ PushStores
  \/ PopFindsItem \/ PopFindsEmpty \/ PopReads \/ PopStores

\* Both threads call again when the answer was false, and a store becomes
\* visible to the other thread sooner or later.
Spec ==
  /\ Init /\ [][Next]_vars
  /\ WF_vars(PushFindsRoom) /\ WF_vars(PushWrites) /\ WF_vars(PushStores)
  /\ WF_vars(PopFindsItem) /\ WF_vars(PopReads) /\ WF_vars(PopStores)

-----------------------------------------------------------------------------
(* Properties.                                                             *)

TypeOK ==
  /\ m_Buffer \in [Slot -> 0 .. MaxPushes]
  /\ m_Head \in Slot /\ m_Tail \in Slot
  /\ m_TailCache \in Slot /\ m_HeadCache \in Slot
  /\ producer \in {"idle", "write", "store"} /\ consumer \in {"idle", "read", "store"}
  /\ accepted \in 0 .. MaxPushes
  /\ out \in 0 .. MaxPushes /\ delivered \in Seq(0 .. MaxPushes)
  /\ tailSeen \in Nat /\ headSeen \in Nat

\* What each step preserves.  An index is its number of stores modulo Size, and
\* so is a copy of it; the numbers are in the order of the ring, with a slot to
\* spare; between tail and head the slots hold the items that were accepted and
\* not popped.
Inductive ==
  /\ TypeOK
  /\ tailSeen <= Len(delivered) /\ Len(delivered) <= headSeen /\ headSeen <= accepted
  /\ accepted <= tailSeen + Size - 1
  /\ m_Head = Index(accepted) /\ m_Tail = Index(Len(delivered))
  /\ m_TailCache = Index(tailSeen) /\ m_HeadCache = Index(headSeen)
  /\ producer # "idle" => accepted < tailSeen + Size - 1 /\ accepted < MaxPushes
  /\ consumer # "idle" => Len(delivered) < headSeen
  /\ \A n \in Len(delivered) + 1 .. accepted : m_Buffer[Index(n - 1)] = n
  /\ producer = "store" => m_Buffer[m_Head] = accepted + 1
  /\ consumer = "store" => out = Len(delivered) + 1
  /\ \A i \in DOMAIN delivered : delivered[i] = i

\* No data race on a slot: while push moves an item into one, pop does not
\* read it.
NoSlotRace == producer = "write" /\ consumer = "read" => m_Head # m_Tail

\* Two threads that do not give up get every item through: neither goes on for
\* ever with a cached index that shows the queue full or empty.
AllGetThrough == <>(Len(delivered) = MaxPushes)

\* A first-in, first-out queue for one item less than there are slots: none is
\* lost, doubled, overwritten or read before it was written.
Fifo == INSTANCE FifoQueue WITH Capacity <- Size - 1, closed <- FALSE
ImplementsFifoQueue == Fifo!Spec
=============================================================================

CONSTANTS
  Producer = {p1, p2}
  Consumer = {c1, c2, c3}
  MaxPushes = 4
SPECIFICATION Spec
INVARIANT Inductive
INVARIANT NoLostWakeUp
PROPERTY AcceptedIsDelivered
PROPERTY CloseReleases
PROPERTY ImplementsFifoQueue

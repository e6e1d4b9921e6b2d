CONSTANTS
  Size = 4
  MaxPushes = 13
SPECIFICATION Spec
INVARIANT Inductive
INVARIANT NoSlotRace
PROPERTY AllGetThrough
PROPERTY ImplementsFifoQueue

CONSTANTS
  ClientID = {c1, c2}
  MinPrice = 1
  MaxPrice = 2
  QuantityModulus = 4
  MaxEventsPerCommand = 3
  MaxOrderID = 3
  Sizes = {1, 3}
  Commands <- PlainCommands
SPECIFICATION Spec
INVARIANT TypeOK
INVARIANT VolumeExact
INVARIANT FOKAllOrNothing
INVARIANT TradesAccountForFill
INVARIANT TimeOrdered
PROPERTY PriceTimePriority

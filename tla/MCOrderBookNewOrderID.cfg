CONSTANTS
  ClientID = {c1, c2}
  MinPrice = 1
  MaxPrice = 2
  QuantityModulus = 16
  MaxEventsPerCommand = 1
  MaxOrderID = 3
  Sizes = {1, 2}
  Commands <- AllCommands
SPECIFICATION Spec
PROPERTY NewIDIsTold

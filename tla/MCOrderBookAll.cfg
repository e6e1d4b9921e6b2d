CONSTANTS
  ClientID = {c1, c2}
  MinPrice = 1
  MaxPrice = 2
  QuantityModulus = 4
  MaxEventsPerCommand = 1
  MaxOrderID = 3
  Sizes = {1, 2}
  Commands <- AllCommands
SPECIFICATION Spec
INVARIANT IndexConsistent
INVARIANT Inductive
INVARIANT Uncrossed
INVARIANT PostOnlyNeverTakes
PROPERTY OnlyOwnerOrFill
PROPERTY RefusedModifyKeepsOrder
PROPERTY ImplementsPriceTimeBook
PROPERTY CommandEnds

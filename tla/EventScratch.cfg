CONSTANTS
  MaxEventsPerCommand = 3
  MaxFills = 4
  MaxCommands = 3
SPECIFICATION Spec
INVARIANT OutcomeReturned
INVARIANT TradesStored
INVARIANT ScratchInductive
PROPERTY OverrunOnlyWhenFull

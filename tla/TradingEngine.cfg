CONSTANTS
  MaxCommands = 3
SPECIFICATION Spec
INVARIANT TypeOK
INVARIANT NothingLost
INVARIANT StopDrains
PROPERTY OnlyStaleCopiesTorn
PROPERTY ViewNeverGoesBack
PROPERTY AcceptedIsApplied
PROPERTY StopEnds

CONSTANTS
  MaxCommands = 2
SPECIFICATION Spec
INVARIANT SnapshotShowsTheBook

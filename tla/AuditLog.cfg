CONSTANTS
  Producer = {p1}
  Auditor = auditor
  MaxEntries = 3
SPECIFICATION Spec
INVARIANT Inductive
INVARIANT JournalIsPrefix
INVARIANT PoppedIsJournaled
INVARIANT CausesFirst
INVARIANT OnlyStopDropsEntries
PROPERTY StopReturns

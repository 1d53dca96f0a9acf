SPECIFICATION FairSpec
CONSTANTS
  MaxIdlers = 1
  MaxTimers = 1
  MaxTransitions = 2
  MaxNotes = 2
INVARIANTS TypeOK DeferredOnlyWhileBlocked AnnouncedResultsAreKept ShutGateHasKeeper ScreenTypeLagsOnlyInTransit
PROPERTIES KeepsPromise SearchEnds DeferredResultsAreListed

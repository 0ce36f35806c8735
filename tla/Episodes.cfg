SPECIFICATION Spec
CONSTANTS
  NumStores = 2
  TickSteps = {1, 2}
  MaxTicks = 4
INVARIANTS
  EpisodesMatchObservations
  SummaryDurationsExact
  EpisodesDisjoint
CHECK_DEADLOCK FALSE

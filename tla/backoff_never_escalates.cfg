CONSTANTS
  Base = 5
  MaxDelay = 30
  MinStable = 5
  MaxStreak = 3
SPECIFICATION BackoffSpec
PROPERTY ShortConnectionEscalates

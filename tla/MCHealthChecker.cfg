SPECIFICATION hcFairSpec
CONSTANTS
  NBackends = 2
  Rise = 2
  Fall = 3
  Command <- OneCommand
  MaxFifo = 1
INVARIANTS HealthIsLastStreak OneResultPerRound
PROPERTIES StopEndsThread DownIsDetected

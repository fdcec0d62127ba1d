SPECIFICATION FairSpec
CONSTANTS
  StatusValues <- MCStatusValues
  GuestInterrupts <- MCTimerOnly
  GuestExceptions <- MCGuestExceptions
  Lines <- MCLines
  Half = 2
  MaxTime = 1
  Irqs = {1}
  MaxExec = 2
  MaxBlock = 2
INVARIANTS
  ExternalInterruptLine
  TimerPendingOnlyWhenDue
PROPERTIES
  TimerFires
  SleeperWakes
  PendingInterruptsTaken

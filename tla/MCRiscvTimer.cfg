SPECIFICATION Spec
CONSTANTS
  StatusValues <- MCStatusValues
  GuestInterrupts <- MCGuestInterrupts
  GuestExceptions <- MCGuestExceptions
  Lines <- MCLines
  Half = 2
  MaxTime = 1
  Irqs = {1}
  MaxExec = 2
  MaxBlock = 2
INVARIANT TimerWaitsForTimecmp

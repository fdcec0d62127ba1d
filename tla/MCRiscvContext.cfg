SPECIFICATION ContextSpec
CONSTANTS
  StatusValues <- MCStatusValues
  GuestInterrupts <- MCGuestInterrupts
  GuestExceptions <- MCGuestExceptions
  Lines <- MCLines
PROPERTIES
  ReturnsUndoTraps
  InterruptsRespectEnables

SPECIFICATION MCSpec
CONSTANTS
  RamPages = 2
  Choices <- MCChoices
  StatusValues <- MCStatusValues
  Targets <- MCTargets
  S <- Single
  D <- Double
  XLEN = 8
INVARIANT ExecutesAsSpecified
INVARIANT ChangedPagesAreDirty
PROPERTY FetchesAreCurrent
CHECK_DEADLOCK FALSE

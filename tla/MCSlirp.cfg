SPECIFICATION FairSpec
CONSTANTS
  SndSpace = 4
  RcvSpace = 2
  KernelBuf = 1
  SeqSpace = 16
  WinMod = 8
  LongIs64 = FALSE
  MaxSeg = 2
  MinSeg = 2
  SlirpIss = 13
  MaxRxtShift = 3
  GuestIss = 14
  GuestBuf = 1
  MaxCwnd = 2
  LinkCap = 2
  Scenarios <- Connections
INVARIANTS StreamsIntact AcknowledgedIsKept WindowIsStorable
PROPERTIES ConnectionEnds
CHECK_DEADLOCK FALSE

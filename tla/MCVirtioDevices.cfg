CONSTANTS
  NULL = NULL
  zero = zero
  full = full
  QueueNum = 2
  IdxSpace = 4
  NbSectors = 2
  Data = {zero, full}
  Requests <- MCRequests
  BufLen = 3
  RxLen = {1, 2}
  TermSize <- MCTermSize
  ConsoleBounds <- MCConsoleBounds
  UsedButton = {"BTN_LEFT", "BTN_RIGHT"}
  UsedKey = {"BTN_LEFT"}
  EventQueueNum = 4
  EventIdxSpace = 8
SPECIFICATION MCSpec
INVARIANTS NoStalledRequest InterruptUntilSeen ConsoleKeepsStreams SizeIsCurrent ButtonsAgree
PROPERTIES ImplementsDisk RequestsAnswered

SPECIFICATION MCSpec
CONSTANTS
  QueueNum = 2
  IdxSpace = 4
  Fid = {1, 2, 3}
  Ino = {1, 2, 3, 4, 5, 6}
  FsFile = {1, 2, 3, 4}
  Zero = "0"
  Junk = "?"
  BlockSize = 2
  MaxBlocks = 20
  DirentSize = 1
  CacheLimit = 3
  Name <- MCName
  Server <- MCServer
  Filelist <- MCFilelist
  Preload <- MCPreload
  Archives <- MCArchives
  Clients <- MCClients
  NbBlocks = 3
  SectorsPerBlock = 4
  SectorsPerCluster = 2
  CachedBlocksMax = 1
  MaxDiskRequests = 3
  PrefetchLists <- MCPrefetchLists
  DiskRequests <- MCWideRequests
PROPERTY ReadsReturnWrites
CHECK_DEADLOCK FALSE

CONSTANTS
  Cards <- MCCards
  BlockSize = 2
  EntriesPerSector = 2
  ClustersPerFatSector = 6
  MinClusters = 4
  Eoc = 30
  Word = 64
  Irqs = {i1}
  MemLines = {l1}
  Words = {1, 2}
  Low = 1
  High = 2
  LineBytes = 16
  Images <- MCImages
  BufferSize = 96
  HeaderBuffer = 0
  PhdrBuffer = 64
  SectBuffer = 160
  OsFlashAddress = 4194304
  PhOffset = 52
  ShOffset = 2000
  Burst = 3
  Width = 3
  Height = 4
  ScreenWidth = 4
  ScreenHeight = 5
  FrameWidth = 5
  FrameHeight = 8
  Requests <- MCRequests
  Payloads <- MCPayloads
  MaxBurst = 7
  ReplyWait = 2
SPECIFICATION BoardSpec
INVARIANTS DumpsFiles OwnAnswers WholeClock FramesAreCommands HeadersHeld OsLoaded PictureIntact FramesChecked
PROPERTIES DumpEnds Attended BootEnds
CHECK_DEADLOCK FALSE

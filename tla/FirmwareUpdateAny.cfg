SPECIFICATION Spec
CONSTANTS
  CHUNK = 1
  FLASH_PAGE_SIZE = 2
  FLASH_SIZE = 4
  short = short
  whole = whole
  Files <- MCFiles
  FileSize <- MCFileSize
  NoFile = NoFile
  NoInstall = NoInstall
  ServerNode = 126
  Erased = Erased
  Foreign = Foreign
  ServerErrors = TRUE
  LateAnswers = TRUE
  Losses = TRUE
  FlashFaults = TRUE
  MaxReads = 2
INVARIANTS BufferBounded DoneMeansInstalled
PROPERTY InstalledStays

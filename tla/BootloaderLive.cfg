SPECIFICATION FairBootSpec
CONSTANTS
  CHUNK = 1
  FLASH_PAGE_SIZE = 2
  FLASH_SIZE = 4
  short = short
  whole = whole
  Files <- MCFiles
  FileSize <- MCFileSize
  NoFile = NoFile
  NoInstall = NoInstall
  ServerNode = 126
  Erased = Erased
  Foreign = Foreign
  ServerErrors = FALSE
  LateAnswers = FALSE
  Losses = FALSE
  FlashFaults = FALSE
  MaxReads = 1
  BOOTLOADER_TIMEOUT = 3
  BOOT_DELAY = 2
  RESTART_DELAY = 1
  NodeId = 5
  NodeIdLost = TRUE
  BootloaderRequests = FALSE
  PowerCuts = FALSE
INVARIANT BootsWorkingImage
PROPERTIES RequestIsServed BootsInTheEnd

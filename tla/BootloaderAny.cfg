SPECIFICATION BootSpec
CONSTANTS
  CHUNK = 1
  FLASH_PAGE_SIZE = 2
  FLASH_SIZE = 4
  short = short
  whole = whole
  Files = {short}
  FileSize <- MCFileSize
  NoFile = NoFile
  NoInstall = NoInstall
  ServerNode = 126
  Erased = Erased
  Foreign = Foreign
  ServerErrors = TRUE
  LateAnswers = FALSE
  Losses = TRUE
  FlashFaults = TRUE
  MaxReads = 1
  BOOTLOADER_TIMEOUT = 3
  BOOT_DELAY = 2
  RESTART_DELAY = 1
  NodeId = 5
  NodeIdLost = TRUE
  BootloaderRequests = TRUE
  PowerCuts = TRUE
INVARIANT HandedOverOnce
PROPERTIES BootInterruptsNoUpdate ImplementsFirmwareUpdate

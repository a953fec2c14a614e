SPECIFICATION Spec
CONSTANTS
  CHUNK = 2
  FLASH_PAGE_SIZE = 4
  FLASH_SIZE = 8
  short = short
  whole = whole
  Files <- MCFiles
  FileSize <- MCFileSize
  NoFile = NoFile
  NoInstall = NoInstall
  ServerNode = 126
  Erased = Erased
  Foreign = Foreign
  ServerErrors = TRUE
  LateAnswers = FALSE
  Losses = FALSE
  FlashFaults = FALSE
  MaxReads = 1
INVARIANT ShortAnswerIsEOF

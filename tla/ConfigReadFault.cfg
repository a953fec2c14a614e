SPECIFICATION Spec
CONSTANTS
  EEPROM_PAGE_SIZE = 4
  CONFIG_MAX_SIZE = 16
  CONFIG_PARAM_LAST = 6
  Byte <- MCByte
  ParamSize <- MCParamSize
  CONFIGURATION_MAGIC <- MCMagic
  CONFIGURATION_VERSION <- MCVersion
  DefaultNodeId <- MCNodeId
  DefaultNodeName <- MCName
  Settings <- MCSettings
  Blank <- MCBlank
  ReadParams <- MCReadParams
  Resets = TRUE
  ReadFaults = TRUE
  WriteFaults = FALSE
PROPERTIES
  OnlyMismatchClears

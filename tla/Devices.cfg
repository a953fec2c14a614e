SPECIFICATION DevicesSpec
CONSTANTS
  MAX_OTHER_BOILER_NODES = 2
  OTHER_NODE_TIMEOUT = 2
  AGE_WRAP = 4
  Nodes = {1, 2}
  Priorities <- MCPriorities
  BLINK_SPEED = 2
  LDR_WINDOW_LENGTH = 2
  Brightness = {0, 1, 3}
  DARK = 1
  UINT16 = 8
  AIR_WRAP = 5
  RunOutTimes = {0, 2}
  TIME_WRAP = 7
  MOTION_SENSOR_MAX = 2
  Positions = {0, 1}
  HOURS = 6
  MINUTES = 3
  Ranges <- MCRanges
  VALUE_BYTES = 2
  OTHER_BYTES = 1
  ObisCodes = {1, 2}
  Units = {30}
  ValueBytes = {7, 128}
  Noise = {1, 7, 119}
  Patterns = {1, 2, 3, 4, 5, 6, 7, 8}
  Items = {0, 2}
  COUNT_WRAP = 6
  MinStable = {0, 2}
  COUNTS = 4
  PUMP_WRAP = 7
  MAX_PUMP_ON = 1
  MAX_REFILL = 2
  COOLDOWN = 1
  FRESH = 1
  Open = {13, 16}
  BYTE = 2
  ParamType <- MCType
  ParamLength <- MCLength
  Requests <- MCRequests
  NoName = NoName
  UnknownName = UnknownName
  NoParameter = NoParameter
INVARIANTS
  KeysFollowSwitches LedSettles EntryReported RoundTrip PumpEnds EvaluatesContact
PROPERTIES
  YieldsToAll YieldsToSomebody FanRunsOut DayFromStartToStop CountsStable
  AnswersWhatIsMeant

SPECIFICATION ProgramsSpec
CONSTANTS
  SYSTIME_WRAP = 7
  SYSTIME_SECOND = 1
  PERIOD = 3
  WATCHDOG = 3
  MAILBOXES = 1
  POOL = 2
  ROOM_WRAP = 12
  MOTION_TRIGGER_ACTIVE = 6
  MOTION_TRIGGER_ACTIVE_DOOR_CLOSED = 8
  MOTION_TRIGGER_BLOCK_AFTER_DOOR_CLOSE = 2
  MOTION_TRIGGER_AFTER_DOOR_CLOSE_NOT_EMPTY = 4
  PRIVATE_MODE_BUTTON_VALID_FOR = 2
  MOTION_NOW = 4
  DOOR_COUNT = 1
  KEY_COUNT = 1
  HALLWAY_LIGHTS = 3
  FADE_LENGTH = 8
  PLAY_LENGTH = 4
  DUSK = 10
  EVENING = 4
  NIGHT_MOTION = 6
  NIGHT = 2
  ALARM_WRAP = 5
  MAX_AGE = 2
  Intervals = {2, 3}
  FAST_SECOND = 2
  Melodies <- MCMelodies
  WRAP = 10
  SECOND = 2
  FirstStop = 2
  BURNER_REQUEST_DELAY = 1
  INT16 = 8
  DEVIATION_LIMIT = 2
  KELVIN = 1
  MaxOff = 6
  Configs <- MCConfigs
  Inputs <- MCInputs
INVARIANTS
  NoFlash
PROPERTIES
  RestartHappens DeadBusResets
  OnlyMotionOpens EmptiesInTheEnd
  HallwayFollows
  NoStaleTemperature AlarmIsHeard
  BurnerRests HouseIsHeated

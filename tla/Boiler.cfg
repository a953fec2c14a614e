SPECIFICATION Spec
CONSTANTS
  MAX_OTHER_BOILER_NODES = 1
  OTHER_NODE_TIMEOUT = 1
  AGE_WRAP = 3
  Nodes = {1}
  Priorities = {2}
  CONTROLLER_TIMEOUT = 1
  FAST_START = 1
  HYSTERESIS = 1
  Temperatures <- MCTemperatures
  Outputs <- MCOutputs
  Limits <- MCLimits
  DutyCycles <- MCDutyCycles
INVARIANTS HeaterOffWhenSilent HeaterOffWhenHot

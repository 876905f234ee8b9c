\* main with two priorities: a SIGTERM at any point leaves a clean device.
CONSTANTS
  NumPriorities = 2

SPECIFICATION Spec
CHECK_DEADLOCK FALSE

PROPERTY SignalLeavesDeviceClean

\* What wifi_mgr.h says of a failure to enable the access point.
CONSTANT MaxEvents = 3
SPECIFICATION Spec
PROPERTIES
  FailureReturns
CHECK_DEADLOCK FALSE

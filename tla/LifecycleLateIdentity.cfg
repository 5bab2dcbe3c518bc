SPECIFICATION Spec
CONSTANTS
  Hosts = {1}
  Bad = {}
  LateReply = TRUE
  MaxConnects = 1
  MaxFaults = 0
  MaxSilences = 2
  MaxRetries = 0
  MaxQueue = 2
  Spent <- NothingSpent
PROPERTIES ReplacedWhileProvisional
CHECK_DEADLOCK FALSE

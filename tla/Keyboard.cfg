SPECIFICATION MCSpec
CONSTANTS
  Size = 4
  LineMax = 2
  Shell = TRUE
  Asked = {1, 3}
  MaxKeys = 5
CHECK_DEADLOCK FALSE
PROPERTIES ImplementsKeyQueue LineHandedOver ShellKeysDelivered ReadCallReturns

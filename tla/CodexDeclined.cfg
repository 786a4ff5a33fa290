SPECIFICATION Spec
CONSTANTS
  Ordinary <- ServerMessages
  Bodies <- TurnIds
  MaxRequests = 8
  MaxWaiting = 12
  MaxOddities = 1
CHECK_DEADLOCK FALSE
INVARIANT DenialHeld

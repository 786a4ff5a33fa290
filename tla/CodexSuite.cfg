SPECIFICATION Spec
CONSTANTS
  Ordinary <- ServerMessages
  Bodies <- TurnIds
  MaxRequests = 8
  MaxWaiting = 12
  MaxOddities = 2
CHECK_DEADLOCK FALSE
INVARIANTS TypeOK PassIsEarned NoBlindAccept FailIsDemonstrated
PROPERTY ClientIsInbox

SPECIFICATION Spec
CONSTANTS
  Schemas <- MCSchemas
  Outgoing <- MCOutgoing
  Incoming <- MCIncoming
  Contents = {c}
  Blank = blank
  Missing = missing
  Numbers <- MCNumbers
  IntLimit = 2
  SafeLimit = 4
  LongLimit = 8
  MaxList = 2
  MaxGiven = 3
  MaxUnknown = 2
CHECK_DEADLOCK FALSE
INVARIANT TypeOK DeliveredIsSent OnlyBadNumbersAreRefused

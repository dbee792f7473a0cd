SPECIFICATION FairSpec
CHECK_DEADLOCK FALSE
CONSTANTS
  Payloads <- MixedPayloads
  SocketSize = 1
  ResultChanSize = 1
  AlarmChanSize = 1
  ResultsLimit = 3
  ResultsKept = 2
  AlarmsLimit = 2
  AlarmsKept = 1
  MaxMessages = 3
INVARIANTS
  AlarmsConserved
  AlarmBacked
PROPERTIES
  AlarmLogged
  AllEnd

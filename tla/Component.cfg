SPECIFICATION FairSpec
CONSTANTS
  Processes = {p1, p2, p3}
  NoProcess = NoProcess
  MaxDisturbances = 3
INVARIANTS
  TypeOK
  OwnerCanServe
  RunningHasItsClaim
PROPERTIES
  EndsAfterDisconnection
  StartsSettle
  ServiceReturns
CHECK_DEADLOCK FALSE

SPECIFICATION FairSpec
CONSTANTS
  Uuids <- MCUuids
  Times <- MCTimes
  Instances = {i1, i2}
  Paths <- MCPaths
  Emission = 2
  Burst = 2
  MaxWindow = 3
  MaxLosses = 1
  TypeOf <- MCTypeOf
  PriceOf <- MCPriceOf
  Calls <- MCCalls
  Requests <- MCRequests
  Polls <- MCPolls
  OrderUuid = "o1"
  TxUuid = "t1"
  UserUuid = "user"
  Now = "now"
  None = None
INVARIANTS TypeOK RateHolds CalledAsAsked ClientUnderstands GetTellsTruth
PROPERTY EveryRequestAnswered

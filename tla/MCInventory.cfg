SPECIFICATION FairSpec
CONSTANTS
  Parts <- MCParts
  Corrupt <- MCCorrupt
  Malformed <- MCMalformed
  Uuids <- MCUuids
  Requests <- MCRequests
  NameRank <- MCNameRank
  Calls = {c1, c2}
  MaxStock = 1
  NoTx = NoTx
INVARIANTS TypeOK NeverOversold ReadsAreCurrent NoDeadlock
PROPERTIES EveryCallAnswered ImplementsLedger

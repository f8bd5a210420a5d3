\* Three services and room for two records.
CONSTANTS
  Service = {1, 2, 3}
  MaxRecords = 2
  MaxUid = 2
  MaxClock = 2
  MaxMoves = 2
  MaxTrouble = 1
SPECIFICATION FairSpec
PROPERTIES RecordsLast ClosedGoFirst MemorySettles

SPECIFICATION FairSpec
CONSTANTS
  UIDS <- TwoUIDs
  Names <- TwoNames
  Remote <- SecondUID
  PasswdFails = TRUE
  LookupFails = TRUE
  MaxChanges = 2
INVARIANTS TypeOK FreshSinceRefresh
PROPERTY NamesSettle

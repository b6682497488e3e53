SPECIFICATION FairSpec
CONSTANTS
  NShards = 2
  RPS = 1
  Budgets <- OneFault
INVARIANTS CopiesSurvive
PROPERTIES MigrationCompletes

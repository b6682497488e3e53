SPECIFICATION FairSpec
CONSTANTS
  Quorum = 2
  Unsafe = FALSE
  Prompt = TRUE
  Scenarios <- OneByOne
PROPERTIES OnlyFaultsDiscard  ElectionKeepsData Converges

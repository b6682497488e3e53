SPECIFICATION FairSpec
CONSTANTS
  NShards = 2
  RPS = 1
  Templates = {"a", "b"}
  MaxEdits = 2
  Hasty = FALSE
  Prompt = TRUE
INVARIANT ShardKeepsACopy
INVARIANT OnePodAtATime
PROPERTY RolloutCompletes

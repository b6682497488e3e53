SPECIFICATION FairSpec
CONSTANTS
  Pods = {"r0", "r1"}
  Sentinels = {"s0", "s1", "s2"}
  First = "r0"
  Ghost <- Departed
  Prompt = TRUE
  Scenarios <- RenamesAndCaptures
PROPERTIES QuarantineSparesData AcknowledgedIsDone RenameKeepsData Settles

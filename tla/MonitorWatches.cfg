SPECIFICATION FairSpec
CONSTANTS
    IPs = {ip1, ip2}
    NoIP = none
    Windows = {1, 2}
    Slots = {1, 2}
    MaxAge = 2
    MaxChanges = 4
    MaxErrors = 1
INVARIANTS FiresOncePerStreak OneWatcher
PROPERTIES FiresOnEvidence MasterLossReported UnwantedWatchersEnd
CHECK_DEADLOCK FALSE

SPECIFICATION FairSpec
CONSTANTS
 Actor={bot,human}
 Automation=bot
 None=None
 MaxTime=2
 MaxWrites=3
 MaxMisses=2
 MaxClaims=2
INVARIANTS NothingIsForgotten StatusIsRecoverable
PROPERTY AlertsComeOut
CHECK_DEADLOCK FALSE

SPECIFICATION FeedSpec
CONSTANTS
 Actor={bot,human}
 None=None
 MaxTime=3
 MaxWrites=4
 MaxStarts=2
 MaxRecords=2
INVARIANT CoverageIsHonest
CHECK_DEADLOCK FALSE

SPECIFICATION Spec
CONSTANTS
  Card = {c1, c2}
  Actor = {"claude", "terry"}
  Human = {"terry"}
  BrowserUser = "terry"
  CliUser = "claude"
  Lane = {"todo", "ready_for_review", "completed", "old"}
  Review = "ready_for_review"
  Completed = "completed"
  Priority = {"P1"}
  Rank <- MCRank
  DefaultPriority = "P1"
  FirstLane = {"todo", "ready_for_review", "completed"}
  FirstCreate <- TwoCreate
  FirstMove <- TwoMove
  None = None
  KindRef = {"relates_to", "referenced_by"}
  RelationRef <- MCRelationRef
  Relations = 0
  BatchRef <- MCPairs
  ParentRef = {c1, c2}
  ArchiveRef = {c1, c2}
  MentionRef = {c1, c2}
  RetireRef = {"old"}
  GrantRef <- OneGrant
  AddRef <- OneAddition
  MigrateRef <- OneMigration
SYMMETRY Symmetry
INVARIANTS HistoriesVerify RetiredLanesAreHidden LoadsAgain

SPECIFICATION Spec
CONSTANTS
  Card = {c1, c2, c3}
  Actor = {"claude", "terry"}
  Human = {"terry"}
  BrowserUser = "terry"
  CliUser = "claude"
  Lane = {"todo", "completed"}
  Review = "ready_for_review"
  Completed = "completed"
  Priority = {"P0", "P1", "P01"}
  Rank <- MCRank
  DefaultPriority = "P1"
  FirstLane = {"todo", "completed"}
  FirstCreate <- OneCreate
  FirstMove <- OneMove
  None = None
  KindRef = {"blocks", "blocked_by"}
  RelationRef <- MCRelationRef
  Relations = 1
  BatchRef <- MCPairs
  ParentRef = {}
  ArchiveRef = {}
  MentionRef = {}
  RetireRef = {}
  GrantRef = {}
  AddRef = {}
  MigrateRef = {}
SYMMETRY Symmetry
INVARIANTS TypeOK BlockersKeepUp OrderAsDefined LanesAreInOrder
PROPERTIES PriorityChangesAreOwed

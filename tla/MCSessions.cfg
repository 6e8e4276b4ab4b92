CONSTANTS
  Tabs = {1, 2, 3}
  Nodes = {a, b}
  MaxWrites = 4
  AppTabs = {a, b}
  Links = {a, b}
  MaxSessions = 2
  MaxVisits = 3
  MaxErrors = 1
  Spaces = {1, 2}
  Forms = {a, b}
  MaxMoves = 3
  MaxPages = 2
  MaxFailures = 1
  PageTabs = {a, b}
  MaxRoleChanges = 1
  MaxFaults = 1
  MaxDrops = 1
SPECIFICATION SessionsSpec
INVARIANTS
  Convergence
  SoloHistoryIsExact
  TakingTurnsLosesNothing
  LinksOpenOnce
  TabsShowTheirSession
  ScreensShowTheirRoute
  NeverStranded
  ModesAgree
  NoGhosts
PROPERTIES
  EndedSessionsStayEnded
  ReturnsToTheWanted
  EditsAreAuthorized
SYMMETRY SessionsSymmetry
\* Every part stops where its bounds end it.
CHECK_DEADLOCK FALSE

\* Two requests at the gateway, one of each kind in a minute, one stream; two acts of a user and
\* two requests of a page in flight; four events of the search parameters; three projects,
\* three runs and three reports; two errors, of lists of one test and of one branch.
CONSTANTS
  none = none  home = home  away = away  p1 = p1  p2 = p2  q1 = q1  ann = ann
  r1 = r1  r2 = r2  r3 = r3  top = top  x1 = x1  x2 = x2  x3 = x3  z1 = z1  z2 = z2  z3 = z3
  s1 = s1  s2 = s2
  Requests = {s1, s2}  Users = {ann}  Projects = {p1}  Orgs = {home, away}  Absent = none
  Bearers <- TwoBearers  Tokens <- OneToken  Claims <- TwoClaims  Limit = 1  MaxConnections = 1
  Home = home  ProjectsOf <- ProjectsOfBoth  RunProject = p1  NoLink = none  Tests = {x1, x2}
  LastVersion = 1  MaxActs = 2  MaxRequests = 2  MaxFailures = 1
  Inputs = {"search", "branch"}  Following = {"search"}  Buttons = {"status"}
  Values = {none, top}  Empty = none  LastPage = 2  MaxEvents = 4
  ProjectIds = {z1, z2, z3}  NoProject = none  Checks = {x1, x2}  NoOne = none
  Messages <- TenMessages  NoText = "none"  Varying = {"id 1", "id 2"}  MaxReports = 3
  EndedRuns = {r1, r2, r3}  Results <- ThreeResults  Days = {1, 2}  MaxDays = 2  LastDay = 2
  Groups = {x1, x2}  Runs = {r1, r2}  TestNames = {x3, top}  BranchOf <- BranchOfOne
  NoBranch = none  NoDate = none  DefaultDays = 1  TopN = 1  PageSize = 2
  DetailTestsLimit = 1  DetailBranchesLimit = 1
  ErrorFilters <- FourFilters  MaxTime = 2  MaxStored = 2
SPECIFICATION MCSpec
SYMMETRY Symmetric
INVARIANTS Typed PagesShowWhatIsAsked ExplorerHolds AnalyticsAddUp
           ServedForTheBearer
\* After the last act of the user, event and request nothing new begins.
CHECK_DEADLOCK FALSE

\* An organization with one project: the user selects it and opens the page of errors.
CONSTANTS
  home = home  away = away  p1 = p1  p2 = p2  q1 = q1
  Orgs = {home}  Home = home  ProjectsOf <- OnlyOne  RunProject = p1  NoLink = NoLink  Tests = {}
  LastVersion = 0  MaxActs = 2  MaxRequests = 2  MaxFailures = 0
SPECIFICATION Spec
INVARIANT OneProjectShowsErrors
CHECK_DEADLOCK FALSE

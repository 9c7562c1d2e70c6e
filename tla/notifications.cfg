\* A tab of a user with two organizations, one connection allowed for each: a stream
\* breaks, the connection to Redis is lost and given up.
CONSTANTS
  tab1 = tab1  home = home  away = away  s1 = s1  s2 = s2
  Tabs = {tab1}  Slots = {s1, s2}  Orgs = {home, away}  FirstOrg <- AtHome
  MaxConnections = 1  MaxBreaks = 1  MaxLosses = 1  MaxEnds = 1  MaxRestarts = 0
SPECIFICATION Spec
SYMMETRY SlotSymmetry
INVARIANTS TypeOK ProviderLives QuietStreamsHear
\* After a logout everything may be done.
CHECK_DEADLOCK FALSE

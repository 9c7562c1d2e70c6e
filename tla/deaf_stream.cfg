\* A stream closes while its SUBSCRIBE is still to come.
CONSTANTS
  tab1 = tab1  home = home  away = away  s1 = s1  s2 = s2
  Tabs = {tab1}  Slots = {s1, s2}  Orgs = {home}  FirstOrg <- AtHome
  MaxConnections = 1  MaxBreaks = 1  MaxLosses = 0  MaxEnds = 0  MaxRestarts = 0
SPECIFICATION Spec
INVARIANT EachStreamIsSubscribed
CHECK_DEADLOCK FALSE

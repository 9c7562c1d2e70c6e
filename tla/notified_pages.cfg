\* One organization with room for both streams of the tab: a stream breaks, the connection
\* to Redis is lost, the query API restarts.
CONSTANTS
  tab1 = tab1  home = home  away = away  s1 = s1  s2 = s2
  Tabs = {tab1}  Slots = {s1, s2}  Orgs = {home}  FirstOrg <- AtHome
  MaxConnections = 2  MaxBreaks = 1  MaxLosses = 1  MaxEnds = 0  MaxRestarts = 1
SPECIFICATION FairSpec
PROPERTIES NotifiedTabsRefetch ReconnectRefetches
\* After a logout everything may be done.
CHECK_DEADLOCK FALSE

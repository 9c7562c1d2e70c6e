\* One browser of a user with two organizations: two tabs with two requests each, two of the
\* four at the same time; one loss, expiry, logout, changed password or overlap of two tabs.
\* One invitation and two calls of register; the invitation lasts for a moment.  Of three names
\* of organizations one is easy, one contains the word email, one leaves no room for a suffix.
\* Two requests with project tokens; three logins, two failures allowed; a list of three rows.
CONSTANTS
  none = none  t1 = t1  t2 = t2  s1 = s1  s2 = s2  s3 = s3  o1 = o1  o2 = o2
  ann = ann  ben = ben  home = home  i1 = i1  k1 = k1  k2 = k2
  top = top  sub = sub
  Tabs = {t1, t2}  Slots = {s1, s2}  Orgs = {o1, o2}  NoOrg = none  Silent = Silent
  Kinds = {"get", "login", "badLogin", "switch", "password", "badPassword"}
  MaxTokens = 3  MaxActive = 2  MaxExcuses = 1
  Emails = {ann, ben}  Founder = ann  Home = home  Calls = {t1, t2}
  Invitations = {i1}  Anyone = none  Bases = {"acme", "email", "long"}
  EmailBases = {"email"}  LongBases = {"long"}  Suffixes = {1}  MaxSlugRetries = 3
  Lifetime = 0  MaxTime = 1
  Organizations = {o1, o2}  Names = {"shop"}  ApiTokens = {k1, k2}  PrefixOf <- OnePrefix
  ApiCalls = {s1, s2}  NoProject = none
  Logins = {s1, s2, s3}  MaxFailures = 2  MaxOutages = 2
  Rows = {s1, s2, s3}  Groups = {top, sub}  NoGroup = none  AnyStatus = none
  ParentOf <- Below  GroupOf <- InSuite  Statuses = {1, 2}  PageSize = 1  MaxUpdates = 1
SPECIFICATION MCSpec
SYMMETRY Symmetric
INVARIANTS Typed OneRefreshPerTab SessionEndsForAReason LiveTokensAreHeld AdmittedAsInvited
           PagingMissesNothing GuardsHold
\* After the last excuse, call and request nothing new begins.
CHECK_DEADLOCK FALSE

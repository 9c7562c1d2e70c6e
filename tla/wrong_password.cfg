\* One tab, a wrong current password in the form that changes it.
CONSTANTS
  t1 = t1  t2 = t2  s1 = s1  s2 = s2  o1 = o1  o2 = o2
  Tabs = {t1}  Slots = {s1, s2}  Orgs = {o1}
  NoOrg = NoOrg  Silent = Silent
  Kinds = {"get", "login", "badPassword"}
  MaxTokens = 3  MaxActive = 2  MaxExcuses = 1
SPECIFICATION Spec
INVARIANTS WrongPasswordKeepsSession
CHECK_DEADLOCK FALSE

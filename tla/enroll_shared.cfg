\* Refuted: one row per enrolled endpoint.
SPECIFICATION Spec
CONSTANTS
  Machine = {m1, m2}
  Token = {t1, t2, t3}
  t1 = t1
  t2 = t2
  t3 = t3
  name = name
  org = org
  other = other
  Hostname <- MCHostname
  OrgOf <- MCOrgOf
  NoToken = none
  NoHost = nohost
  MaxRequests = 2
INVARIANTS
  OwnRow

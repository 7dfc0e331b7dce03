CONSTANTS
  None = None
  p = p
  v = v
  t1 = t1
  s1 = s1
  s2 = s2
  k1 = k1
  fresh = fresh
  d1 = d1
  Keys = {k1}
  FreshKey = fresh
  MaxGeneration = 2
  MaxTime = 2
  Policy <- AlphaPolicy
  Grants <- MCGrants
  Leases <- MCLeases
  Assignments <- MCAssignments
  Attempts = {t1}
  Results <- MCResults
  Principals = {p, v}
  Capabilities <- MCCapabilities
  Settlements = {s1, s2}
  Credits = {0, 1}
SPECIFICATION FairSpec
INVARIANTS
  SandboxConsented CreditEarned EffectsOnce
PROPERTIES
  WorkPreserved SubmittedSettles

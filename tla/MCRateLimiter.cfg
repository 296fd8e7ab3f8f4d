SPECIFICATION Spec
CONSTANTS
  g1 = g1
  g2 = g2
  p1 = p1
  p2 = p2
  Gateway = {g1, g2}
  WithRedis = {g1, g2}
  Tenant = {t1}
  NoTenant = NoTenant
  Proc = {p1, p2}
  Period = 6
  CfgBurst = 2
  Window = 5
  Skew <- MCSkew
  MaxSkew = 1
  MaxDelay = 1
  MaxTime = 6
SYMMETRY Symmetry
INVARIANTS LimiterTypeOK LocalQuota SharedQuota RefusedForOwnUse
CHECK_DEADLOCK FALSE

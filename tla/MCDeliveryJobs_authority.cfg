\* Authority that moves under a job: rotation, revocation, refresh, erasure, sweep.
SPECIFICATION Spec
CONSTANTS
  s1 = s1  s2 = s2  w1 = w1  w2 = w2  j1 = j1  j2 = j2
  l1 = l1  l2 = l2  i1 = i1  t1 = t1  t2 = t2  e1 = e1
  None = None
  JobIds = {j1}
  Leases = {l1}
  Installations = {i1}
  InstallationOf <- OneInstallation
  Tokens = {t1, t2}
  SourceEvents = {e1}
  Servers = {s1}
  Workers = {w1}
  ServerOf <- OneServer
  MaxDeliveryAttempts = 2
  JobLifetime = 2
  ClaimTTL = 1
  DayLength = 10
  RetryDelays = {0}
  JobTTLs = {2}
  LeaseTTL = 2
  ControlTTL = 2
  SweepInterval = 2
  SweepMargin = 1
  QueueCapacity = 1
  MaxTime = 3
  MaxEpoch = 2
  MaxGeneration = 2
  MaxFaults = 1
INVARIANTS SweepShowsUnsafe NoResurrection QueuedTokenCurrent IInv
PROPERTIES SafeOnlyAfterCleanSweep
SYMMETRY TokenSymmetry

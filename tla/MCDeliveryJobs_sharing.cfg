\* Progress of two workers whose attempts share one installation.
SPECIFICATION FairSpec
CONSTANTS
  s1 = s1  s2 = s2  w1 = w1  w2 = w2  j1 = j1  j2 = j2
  l1 = l1  l2 = l2  i1 = i1  t1 = t1  t2 = t2  e1 = e1
  None = None
  JobIds = {j1, j2}
  Leases = {l1, l2}
  Installations = {i1}
  InstallationOf <- OneInstallation
  Tokens = {t1}
  SourceEvents = {e1}
  Servers = {s1}
  Workers = {w1, w2}
  ServerOf <- OneServer
  MaxDeliveryAttempts = 1
  JobLifetime = 1
  ClaimTTL = 1
  DayLength = 10
  RetryDelays = {0}
  JobTTLs = {1}
  LeaseTTL = 5
  ControlTTL = 5
  SweepInterval = 5
  SweepMargin = 1
  QueueCapacity = 2
  MaxTime = 2
  MaxEpoch = 1
  MaxGeneration = 1
  MaxFaults = 0
PROPERTIES JobsSettle

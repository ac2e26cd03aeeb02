\* Stale claims: one job, two replicas with one worker each, claims that lapse.
SPECIFICATION Spec
CONSTANTS
  s1 = s1  s2 = s2  w1 = w1  w2 = w2  j1 = j1  j2 = j2
  l1 = l1  l2 = l2  i1 = i1  t1 = t1  t2 = t2  e1 = e1
  None = None
  JobIds = {j1}
  Leases = {l1}
  Installations = {i1}
  InstallationOf <- OneInstallation
  Tokens = {t1}
  SourceEvents = {e1}
  Servers = {s1, s2}
  Workers = {w1, w2}
  ServerOf <- ServerEach
  MaxDeliveryAttempts = 2
  JobLifetime = 3
  ClaimTTL = 1
  DayLength = 10
  RetryDelays = {0, 1}
  JobTTLs = {3}
  LeaseTTL = 9
  ControlTTL = 9
  SweepInterval = 9
  SweepMargin = 1
  QueueCapacity = 1
  MaxTime = 3
  MaxEpoch = 1
  MaxGeneration = 1
  MaxFaults = 1
INVARIANTS TypeOK EgressAuthorized NoConcurrentEgress PushesBounded TerminalObservedOnce
PROPERTIES NeverSendableAgain

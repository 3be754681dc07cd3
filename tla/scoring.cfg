\* Two groups of two calls share the lock and the semaphores.
CONSTANTS
  g1 = g1  g2 = g2  t1 = t1  t2 = t2   c1 = c1  c2 = c2
  Group <- TwoGroups
  Call <- FourCalls
  GroupOf <- CallGroup
  ScopeOf <- CallScope
  Taskless <- NoTasks
  Retries <- ScopeRetries
  Concurrency <- OnePermit
SPECIFICATION Spec
INVARIANTS PermitsConserved RewardsFromWholeGroup OverlapOnlyAfterFailure LogsFollowAttempts
PROPERTY GroupsAndCallsEnd

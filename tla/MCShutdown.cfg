SPECIFICATION ShutdownSpec
CONSTANTS
  s1 = s1
  s2 = s2
  p1 = p1
  p2 = p2
  Jobs = {1, 2, 3}
  Scopes = {s1, s2}
  PullRequests = {p1, p2}
  PullRequestOf <- MCPullRequestOf
  MaxNotices = 1
  MaxDispatches = 1
INVARIANT QueueInv
INVARIANT StartsInOrder
INVARIANT ShutdownInv
INVARIANT AbandonedAreToldOrLogged
PROPERTY EveryJobSettles
PROPERTY ShutdownEnds
CHECK_DEADLOCK FALSE

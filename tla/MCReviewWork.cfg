SPECIFICATION Spec
CONSTANTS
  Families = {"pr"}
  MaxAttempts = 3
INVARIANT CoordinatorInv
INVARIANT AtMostOnePublisher
INVARIANT WorkInv
INVARIANT RetryFollowsParent
PROPERTY RightsLostOnlyToNewer
PROPERTY ImplementsPublishRights
PROPERTY AbandonedStaysSilent
PROPERTY EnqueuedAttemptsEnd
CHECK_DEADLOCK FALSE

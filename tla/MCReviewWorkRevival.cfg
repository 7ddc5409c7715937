SPECIFICATION Spec
CONSTANTS
  Families = {"pr"}
  MaxAttempts = 3
INVARIANT CompletedStaysAuthoritative
CHECK_DEADLOCK FALSE

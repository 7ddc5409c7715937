SPECIFICATION Spec
CONSTANTS
  o1 = o1
  o2 = o2
  o3 = o3
  c1 = c1
  c2 = c2
  None = None
  Issues = {"issue"}
  Openings = {o1, o2, o3}
  Closings = {c1, c2}
  DuplicateLabel = "possible-duplicate"
  IssueOf <- MCIssueOf
  DeliveryOf <- MCDeliveryOf
SYMMETRY Twins
INVARIANT TriageTypeOK
INVARIANT OneComment
INVARIANT FeedbackIsTrue
INVARIANT TaughtOncePerIssue
CHECK_DEADLOCK FALSE

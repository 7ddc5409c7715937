SPECIFICATION Spec
CONSTANTS
  Heads = {h1, h2}
  Deliveries = {d1, d2, d3}
INVARIANT OneReviewAtATime
CHECK_DEADLOCK FALSE

SPECIFICATION Spec
CONSTANTS
  Heads = {h1, h2}
  Deliveries = {d1, d2, d3}
PROPERTY IncrementalAfterReview
CHECK_DEADLOCK FALSE

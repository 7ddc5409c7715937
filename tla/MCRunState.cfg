SPECIFICATION Spec
CONSTANTS
  Heads = {h1, h2}
  Deliveries = {d1, d2, d3}
INVARIANT TypeOK
INVARIANT ExtraReviewsFailedOpen
PROPERTY ClaimSupersedesPrior
PROPERTY NeverPendingAgain
SYMMETRY Symmetry
CHECK_DEADLOCK FALSE

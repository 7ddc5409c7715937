SPECIFICATION Spec
CONSTANTS
  Reviews = {1, 2}
  LanesOf <- MCLanesOf
  MaxCalls <- MCMaxCalls
  AutoApprove = TRUE
INVARIANT
  ReplayIsBlocked

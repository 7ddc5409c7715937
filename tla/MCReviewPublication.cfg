SPECIFICATION Spec
CONSTANTS
  Reviews = {1, 2}
  LanesOf <- MCLanesOf
  MaxCalls <- MCMaxCalls
  AutoApprove = TRUE
INVARIANTS
  OutputsInv
  FindingsBarApproval
  NoFailureNoticeBesideVerdict
  ReplayPostsNoComment
  NoSilentSuccess

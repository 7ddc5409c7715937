SPECIFICATION FairSlackSpec
CONSTANTS
  Instances = {i1}
  Deliveries = {d1}
  question = question
  followUp = followUp
  Messages = {question, followUp}
  Root <- MCRoot
  MaxRequests = 2
  BatchSize = 1
INVARIANTS
  SlackInv
  ThreadsOpenOnce
PROPERTIES
  QueuedFollowUpIsHeard
  

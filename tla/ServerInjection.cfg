CONSTANTS
  MaxAgentRequests = 1
  MaxHumanRequests = 1
  MaxVersions = 1
  MaxSites = 1
  MaxBreaks = 1
  MaxRememberedRequests = 1
SPECIFICATION Spec
INVARIANTS SentAsConsented AnswersAreTrue
PROPERTY ExecutionsEnd
CHECK_DEADLOCK FALSE

SPECIFICATION Spec
CONSTANTS
  Server = {1, 2, 3}
  Founder = {1, 2}
  Mortal = {}
  Graceful = {}
  Suitability <- MCSuitability
  Flaky <- MCStrongest
  MaxTerm = 1
  MaxChurn = 2
  MaxInFlight = 1
INVARIANTS TypeOK VotesFlowUp OneLeaderPerTerm
 
CHECK_DEADLOCK FALSE

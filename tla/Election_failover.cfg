SPECIFICATION FairSpec
CONSTANTS
  Server = {1, 2, 3}
  Founder = {1, 2, 3}
  Mortal = {1}
  Graceful = {}
  Suitability <- MCSuitability
  Flaky <- MCNoPair
  MaxTerm = 1
  MaxChurn = 0
  MaxInFlight = 1
PROPERTIES  EventuallyOne
CHECK_DEADLOCK FALSE

SPECIFICATION FairSpec
CONSTANTS
  Requests = {r1, r2, r3}
  Tokens = {t1, t2}
  MaxSlots = 1
  MaxWindows = 2
  MaxSaves = 1
  MaxFailures = 1
  None = None
INVARIANTS PairingSpendsWindow HandlersKnowTheToken
PROPERTIES PairingSpec EveryRequestEnds WindowTakesEffect
CHECK_DEADLOCK FALSE

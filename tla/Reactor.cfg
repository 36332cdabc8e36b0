SPECIFICATION FairSpec
CONSTANTS
  r1 = r1  r2 = r2  stopper = stopper
  Subs <- TwoSubs
  MaxEvents = 2
INVARIANTS WakingHasSignal
PROPERTIES ReactorGoesOn
CHECK_DEADLOCK FALSE

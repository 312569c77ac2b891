\* A wall clock that is stepped back and ahead: the cap that remains, refinement, liveness.
CONSTANTS
  t1 = t1
  t2 = t2
  t3 = t3
  Threads = {t1, t2, t3}
  Interval = 3
  Start = 4
  Back = 1
  Ahead = 1
  MaxCalls = 4
  Horizon = 6
SPECIFICATION FairSpec
INVARIANTS TypeOK MutualExclusion Spaced ShortHold
PROPERTIES EveryCallReturns CapSpec
\* The program stops calling: MaxCalls.
CHECK_DEADLOCK FALSE

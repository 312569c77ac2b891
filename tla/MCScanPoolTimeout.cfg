\* A timed-out connect is settled at once, not re-probed.
CONSTANTS
  p1 = p1
  p2 = p2
  p3 = p3
  w1 = w1
  w2 = w2
  Order <- TwoPorts
  Workers = {w1, w2}
  Technique = "connect"
  Scapy = TRUE
  MaxRetries = 1
  ScanDelay = 0
  Deadline = 0
  Truths = {"open", "closed", "filtered"}
  Faults = FALSE
  CtrlC = FALSE
  Interval = 0
  Start = 0
  Horizon = 0
SPECIFICATION Spec
INVARIANTS SilenceIsRetried
\* The scan is over.
CHECK_DEADLOCK FALSE

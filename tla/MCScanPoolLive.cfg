\* A rate-limited, delayed SYN scan with a deadline and a Ctrl-C: it ends.
CONSTANTS
  p1 = p1
  p2 = p2
  p3 = p3
  w1 = w1
  w2 = w2
  Order <- TwoPorts
  Workers = {w1, w2}
  Technique = "syn"
  Scapy = TRUE
  MaxRetries = 1
  ScanDelay = 1
  Deadline = 2
  Truths = {"open", "filtered"}
  Faults = TRUE
  CtrlC = TRUE
  Interval = 2
  Start = 2
  Horizon = 3
SPECIFICATION FairSpec
INVARIANTS Accounting RetriedCap
PROPERTIES Termination PromiseSpec
\* The scan is over.
CHECK_DEADLOCK FALSE

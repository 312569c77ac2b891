\* A SYN scan with one retry; probes may raise, the operator may press Ctrl-C.
CONSTANTS
  p1 = p1
  p2 = p2
  p3 = p3
  w1 = w1
  w2 = w2
  Order <- ThreePorts
  Workers = {w1, w2}
  Technique = "syn"
  Scapy = TRUE
  MaxRetries = 1
  ScanDelay = 0
  Deadline = 0
  Truths = {"open", "closed"}
  Faults = TRUE
  CtrlC = TRUE
  Interval = 0
  Start = 0
  Horizon = 0
SPECIFICATION Spec
INVARIANTS OpenIsHeard SilenceIsRetried CtrlCCancelsNothing
SYMMETRY WorkerSymmetry
\* The scan is over.
CHECK_DEADLOCK FALSE

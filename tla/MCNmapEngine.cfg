\* TIMING_TEMPLATES[0] has one thread at a time; short and long port lists.
CONSTANTS
  CommandLines <- AllLines
  DefaultPorts <- Default
  DefaultUdpPorts <- DefaultUdp
  FastPorts <- Fast
  Threads = 1
  Probe = 5
  MaxPort = 9
SPECIFICATION Spec
INVARIANTS AsksForItsPorts WithinBudget OpenAsTold
\* The host is scanned.
CHECK_DEADLOCK FALSE

\* Who is touched, what is done to whom, and what is recorded of it.
CONSTANTS
  a = a
  b = b
  c = c
  net = net
  www = www
  corp = corp
  ghost = ghost
  url = url
  urlc = urlc
  blank = blank
  junk = junk
  ssh = ssh
  https = https
  snmp = snmp
  Words <- MCWords
  Form <- MCForm
  Name <- MCName
  Addresses <- MCAddresses
  Resolve <- MCResolve
  MaxTargets = 2
  CommandLines <- AllLines
  DefaultPorts = {ssh, https}
  UdpPorts = {snmp}
  WebPorts = {https}
  Below <- MCBelow
  Day = 3
  Faults = TRUE
SPECIFICATION FairSpec
INVARIANTS ExcludedAddressUntouched AskedBelowCleared AbortedRunIsSilent TraceableRun
PROPERTIES PermitSpec ApprovedInWindow RunEnds
\* The program exits.
CHECK_DEADLOCK FALSE

\* A blocked name below a name that is approved.
CONSTANTS
  a = a
  b = b
  c = c
  net = net
  www = www
  corp = corp
  ghost = ghost
  url = url
  urlc = urlc
  blank = blank
  junk = junk
  ssh = ssh
  https = https
  snmp = snmp
  Words <- MCWords
  Form <- MCForm
  Name <- MCName
  Addresses <- MCAddresses
  Resolve <- MCResolve
  MaxTargets = 2
  CommandLines <- BlockedWordLines
  DefaultPorts = {ssh, https}
  UdpPorts = {snmp}
  WebPorts = {https}
  Below <- MCBelow
  Day = 1
  Faults = FALSE
SPECIFICATION Spec
INVARIANTS BlockedNameUnasked
\* The program exits.
CHECK_DEADLOCK FALSE

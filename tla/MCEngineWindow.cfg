\* A scan that goes on when its window has closed.
CONSTANTS
  a = a
  b = b
  c = c
  net = net
  www = www
  corp = corp
  ghost = ghost
  url = url
  urlc = urlc
  blank = blank
  junk = junk
  ssh = ssh
  https = https
  snmp = snmp
  Words <- MCWords
  Form <- MCForm
  Name <- MCName
  Addresses <- MCAddresses
  Resolve <- MCResolve
  MaxTargets = 2
  CommandLines <- WindowLines
  DefaultPorts = {ssh, https}
  UdpPorts = {snmp}
  WebPorts = {https}
  Below <- MCBelow
  Day = 3
  Faults = FALSE
SPECIFICATION Spec
PROPERTIES WindowRespected
\* The program exits.
CHECK_DEADLOCK FALSE

\* All lists of up to four findings of a sample, and what the analysis makes of hosts.
CONSTANTS
  Inputs <- Lists
  Lower <- Titles
  General = "general"
  INSECURE_SERVICES <- Levels
  SECURITY_HEADERS <- SecurityHeaders
  SENSITIVE_PATHS <- Paths
  CVE_DB <- Cves
  SERVICE_TO_SOFTWARE <- Keys
  VERSION_PATTERNS <- Patterns
  LowerCase <- Services
  DEFAULT_DNS_SERVERS <- Defaults
  SUBDOMAIN_WORDLIST <- Words
  CDN_IP_RANGES <- Cdns
  Scans <- MCScans
SPECIFICATION Spec
INVARIANTS TypeOK Representative RankedReport SeverityFollowsScore StatsMatchReport
INVARIANTS PortsCovered AffectedReported WeakAuthIsHeard
INVARIANTS QuietServersCostNothing OnlyOpenPortsMatter ReportsAgree
\* The report is made.
CHECK_DEADLOCK FALSE

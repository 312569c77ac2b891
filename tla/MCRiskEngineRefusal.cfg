\* A server that answers PASS by "530 Not logged in."
CONSTANTS
  Inputs <- RefusalLists
  Lower <- Titles
  General = "general"
  INSECURE_SERVICES <- Levels
  SECURITY_HEADERS <- SecurityHeaders
  SENSITIVE_PATHS <- Paths
  CVE_DB <- Cves
  SERVICE_TO_SOFTWARE <- Keys
  VERSION_PATTERNS <- Patterns
  LowerCase <- Services
  DEFAULT_DNS_SERVERS <- Defaults
  SUBDOMAIN_WORDLIST <- Words
  CDN_IP_RANGES <- Cdns
  Scans <- RefusalScans
SPECIFICATION Spec
INVARIANT AnonymousIsGranted
\* The report is made.
CHECK_DEADLOCK FALSE

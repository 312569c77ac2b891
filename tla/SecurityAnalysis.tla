--------------------------- MODULE SecurityAnalysis ---------------------------
(***************************************************************************)
(* hardener/security_analysis.py: the findings that analyze_host makes of  *)
(* a scanned and enumerated host, in order.                                *)
(*                                                                         *)
(* A title is <<rule, word, detail>>: what is constant in the source's     *)
(* text, the service or software in it, and the port, CVE, header, path or *)
(* method.                                                                 *)
(***************************************************************************)
EXTENDS Config, CveDb, TLC

When(condition, finding) == IF condition THEN <<finding>> ELSE <<>>

\* _mk
Found(host, title, impact, likelihood, cve) ==
  [title |-> title, asset |-> host.ip, cve |-> cve,
   impact |-> impact, likelihood |-> likelihood, advice |-> title[1]]
Issue(host, title, impact, likelihood) == Found(host, title, impact, likelihood, "none")

ImpactMap == [informational |-> 1, low |-> 3, medium |-> 5, high |-> 7, critical |-> 9]
DataStores == {"mongodb", "redis", "elasticsearch", "memcached"}

\* The title of the finding for an insecure service has its port.
ExposedTitle_NoPort(port) == <<"exposed on port", port.service, "">>
ExposedTitle(port) == <<"exposed on port", port.service, ToString(port.port)>>

PortFindings(host, port) ==
  LET service == LowerCase[port.service]
      has(flag) == flag \in port.flags
      I(rule, impact, likelihood) == Issue(host, <<rule, "", "">>, impact, likelihood)
      Named(rule, impact, likelihood) == Issue(host, <<rule, port.service, "">>, impact, likelihood)
  IN  When(has("smbv1"), Found(host, <<"SMBv1 protocol enabled", "", "">>, 9, 8, "CVE-2017-0144"))
      \o When(has("anonymous_login"), I("FTP anonymous login enabled", 8, 8))
      \o When(has("unauthenticated"), Named("exposed without authentication", 10, 9))
      \o When(service = "ftp" /\ ~has("ftps_supported"), I("Cleartext FTP service", 7, 6))
      \o When(service = "telnet", I("Telnet exposed (cleartext)", 8, 7))
      \o When(service = "snmp", I("SNMP service exposed", 8, 6))
      \o When(service \in DataStores /\ port.version # NoText /\ ~has("unauthenticated"),
              Named("exposed publicly", 9, 7))
      \o (IF service \in DOMAIN INSECURE_SERVICES
          THEN <<Issue(host, ExposedTitle(port), ImpactMap[INSECURE_SERVICES[service]], 5)>>
          ELSE <<>>)

\* min(10, max(3, int(cvss)))
Likelihood(cvss) == IF cvss < 3 THEN 3 ELSE IF cvss > 10 THEN 10 ELSE cvss
CveFindings(host, port) ==
  LET key == MatchSoftwareAliases(port.service, port.version)
      entries == IF port.version = NoText \/ key = "" THEN <<>> ELSE MatchCves(key, port.version)
  IN  [i \in DOMAIN entries |->
         Found(host, <<"affected by", entries[i].software, entries[i].cve>>,
               9, Likelihood(entries[i].cvss), entries[i].cve)]

\* _analyze_http: one endpoint.
HttpFindings(host, http) ==
  LET I(rule, impact, likelihood) == Issue(host, <<rule, "", "">>, impact, likelihood)
      Each(rule, list, impact, likelihood) ==
        [i \in DOMAIN list |-> Issue(host, <<rule, "", list[i]>>, impact, likelihood)]
  IN  Each("Missing HTTP security header",
           Kept(SECURITY_HEADERS, ToSet(SECURITY_HEADERS) \ http.security_headers), 3, 4)
      \o When(http.server # <<>>, I("Server header discloses software/version", 2, 6))
      \o When(http.powered_by # <<>>, I("X-Powered-By header discloses technology", 2, 5))
      \o When(http.directory_listing, I("Directory listing enabled", 5, 5))
      \o Each("Sensitive path exposed", http.found_paths, 6, 5)
      \o When(http.status # 0 /\ http.security_headers = {} /\ host.cdn = "",
              I("No HTTP security headers configured", 4, 6))
      \o When(http.cookies # <<>> /\ "httponly" \notin Range(http.cookies),
              I("Cookies set without HttpOnly/Secure flags", 6, 5))
      \o Each("Dangerous HTTP method enabled",
              Kept(http.methods, {"PUT", "DELETE", "TRACE", "PATCH"}), 6, 5)

\* analyze_host: the open ports, then their software, then the web endpoints.
Open(host) == Kept(host.ports, {port \in ToSet(host.ports) : port.state = "open"})
AnalyzeHost(host, enable_cve) ==
  LET open == Open(host)
  IN  FlattenSeq([i \in DOMAIN open |-> PortFindings(host, open[i])])
      \o (IF enable_cve THEN FlattenSeq([i \in DOMAIN open |-> CveFindings(host, open[i])]) ELSE <<>>)
      \o FlattenSeq([i \in DOMAIN host.http_audits |-> HttpFindings(host, host.http_audits[i])])
=============================================================================

------------------------------ MODULE HostReport ------------------------------
(***************************************************************************)
(* Hardener.run on the hosts that are up, from the end of stage 4 on.      *)
(* Hosts with a name are looked up; the ports a scan left are enumerated,  *)
(* audited and fingerprinted; what SecurityAnalysis finds is the list that *)
(* RiskEngine scores, deduplicates and ranks, and Reporting writes it down.*)
(*                                                                         *)
(* A host is [ip, hostname, alive, ports, net, peers, webs, ttl]: `net' is *)
(* what resolvers reply about its name, `peers' and `webs' what            *)
(* ServiceEnum and HttpAudit meet at its TCP ports, `ttl' what TtlReader   *)
(* returns.                                                                *)
(***************************************************************************)
EXTENDS RiskEngine, SecurityAnalysis, DnsDiscovery, ServiceEnum, HttpAudit, OsFingerprint, Reporting

CONSTANT Scans          \* [hosts, dns_servers, enumerate_services, os_detection, cve_check]

\* What the scan leaves of a port, and what a web server answers.
Texts == [product : STRING, numbers : Seq(Nat), prefix : Seq(Nat), digits : Seq(Nat),
          words : SUBSET STRING]
ScannedPorts == [port : Nat, protocol : {"tcp", "udp"}, service : DOMAIN LowerCase,
                 state : {"open", "closed", "filtered"}, version : Texts,
                 banners : Seq(Texts), flags : {{}}]
Responses == [status : Nat, headers : Seq(STRING \X Seq(STRING)), listing : BOOLEAN]
ASSUME HostsAssumption ==
  \A scan \in Scans :
    /\ DOMAIN scan = {"hosts", "dns_servers", "enumerate_services", "os_detection", "cve_check"}
    /\ scan.dns_servers \in Seq(STRING)
    /\ scan.hosts \in Seq(Range(scan.hosts))
    /\ \A i, j \in DOMAIN scan.hosts : scan.hosts[i].ip = scan.hosts[j].ip => i = j
    /\ \A host \in Range(scan.hosts) :
         /\ DOMAIN host = {"ip", "hostname", "alive", "ports", "net", "peers", "webs", "ttl"}
         /\ host.alive
         /\ host.ports \in Seq(ScannedPorts)
         /\ \A n \in DOMAIN host.peers :
              /\ host.peers[n].lag \in {0, 1}
              /\ \A request \in DOMAIN host.peers[n].says : host.peers[n].says[request] \in Texts
         /\ \A n \in DOMAIN host.webs : \A request \in DOMAIN host.webs[n].says :
              host.webs[n].says[request] \in Responses

\* str.lower changes neither what is constant in a title nor a port number.
ASSUME LowerAssumption ==
  \A t, u \in DOMAIN Lower : Lower[t] = Lower[u] =>
    /\ t[1] = u[1]
    /\ t[1] = "exposed on port" => t[3] = u[3]

\* The host's name, at the end of stage 4.
Infra(scan, host) ==
  IF host.hostname = "" THEN Unknown
  ELSE DiscoverHostInfrastructure(host.net, scan.dns_servers, host.hostname, host.ip)

\* Stages 6 to 8 on a host.
Enumerated(scan, host) ==
  [i \in DOMAIN host.ports |->
     IF scan.enumerate_services /\ host.ports[i].state = "open"
     THEN EnumeratePort(host.peers, host.ports[i]) ELSE host.ports[i]]
Fingerprinted(scan, host, ports, audits) ==
  [ip |-> host.ip, alive |-> host.alive, cdn |-> Infra(scan, host).cdn,
   ports |-> ports, http_audits |-> audits,
   os |-> IF scan.os_detection
          THEN FingerprintOs(ports, host.ttl, IF audits = <<>> THEN <<>> ELSE audits[1].server)
          ELSE "none"]
Audited(scan, host, ports) == Fingerprinted(scan, host, ports, HttpAudits(ports, host.webs))
Assessed(scan, host) == Audited(scan, host, Enumerated(scan, host))

\* Stage 9, and the list of stage 10.
HostsOf(scan) == [i \in DOMAIN scan.hosts |-> Assessed(scan, scan.hosts[i])]
FindingsOf(hosts, enable_cve) == FlattenSeq([i \in DOMAIN hosts |-> AnalyzeHost(hosts[i], enable_cve)])
AllFindings(scan) == FindingsOf(HostsOf(scan), scan.cve_check)

Analysed == [scan \in Scans |-> AllFindings(scan)]
HostsAfter == [scan \in Scans |-> HostsOf(scan)]

\* The scans are among what the pipeline is run on.
ASSUME ScansAssumption == \A scan \in Scans : Analysed[scan] \in Inputs

\* A host may keep the run from coming so far: in stage 4 or in stage 7.
Held(scan) ==
  \E host \in Range(scan.hosts) :
    \/ host.hostname # "" /\ HoldsLookUp(host.net, ServersOf(scan.dns_servers), host.hostname)
    \/ HoldsAudits(host.ports, host.webs)

Reported(scan) == pc = "done" /\ input = Analysed[scan] /\ ~Held(scan)
Report == {findings[i].object : i \in Range(ranked)}
Listed(host, rule) == {f \in Report : f.asset = host.ip /\ f.title[1] = rule}

\* The report that is written.
Written(scan) == [hosts |-> HostsAfter[scan], findings |-> [i \in DOMAIN ranked |-> findings[ranked[i]]]]
-----------------------------------------------------------------------------
(***************************************************************************)
(* Every open port with an insecure service is in the report by a finding  *)
(* of its own, though other ports of the host run the same service and     *)
(* issues are deduplicated without regard to ports (analyze_host,          *)
(* deduplicate).  Spellings of a service are one service, and a service    *)
(* the scan did not know counts by the name _refine_service gives it.      *)
(***************************************************************************)
PortsCovered ==
  \A scan \in Scans : Reported(scan) =>
    \A host \in Range(HostsAfter[scan]) : \A port \in Range(Open(host)) :
      LowerCase[port.service] \in DOMAIN INSECURE_SERVICES =>
        \E f \in Report : f.asset = host.ip /\ Lower[f.title] = Lower[ExposedTitle(port)]
                          /\ f.title[3] = ToString(port.port)

(***************************************************************************)
(* The CVEs reported for a host are those whose range of versions, the     *)
(* fixed one excluded, has the version that one of the host's open         *)
(* services told last -- to its probe, or else to the scan; with --no-cve  *)
(* none.  A text tells the numbers behind the software's own name; where   *)
(* it has none, its first three after the protocol's; and a text that has  *)
(* no others tells those of the protocol, though extract_version means to  *)
(* avoid them.  Versions are compared here by their weight, as numbers to  *)
(* a base above all their parts, a missing part weighing less than a zero. *)
(***************************************************************************)
Part(v, i) == IF i \in DOMAIN v THEN v[i] + 1 ELSE 0
Weight(v, base) == ((Part(v, 1) * base + Part(v, 2)) * base + Part(v, 3)) * base + Part(v, 4)
Parts(v) == Part(v, 1) + Part(v, 2) + Part(v, 3) + Part(v, 4)
Earlier(v, w) == LET base == 1 + Parts(v) + Parts(w)
                 IN  Weight(v, base) < Weight(w, base)
ToldLast(scan, host, port) ==
  LET told == Probe(host.peers, port.port).version
  IN  IF scan.enumerate_services /\ told # NoText THEN told ELSE port.version
VersionTold(software, text) ==
  IF software \in VERSION_PATTERNS /\ text.product = software /\ text.numbers # <<>> THEN text.numbers
  ELSE IF text.digits = <<>> THEN text.prefix
  ELSE [i \in DOMAIN text.digits \cap 1..3 |-> text.digits[i]]
Affected(service, text, entry) ==
  LET version == VersionTold(entry.software, text)
  IN  /\ MatchSoftwareAliases(service, text) = entry.software
      /\ version # <<>>
      /\ ~Earlier(version, entry.introduced)
      /\ entry.fixed # <<>> => Earlier(version, entry.fixed)
AffectedReported ==
  \A scan \in Scans : Reported(scan) =>
    \A k \in DOMAIN scan.hosts :
      LET host == scan.hosts[k]
          told(i) == ToldLast(scan, host, host.ports[i])
          service(i) == HostsAfter[scan][k].ports[i].service
      IN  {f.cve : f \in Listed(host, "affected by")} =
          {e.cve : e \in {x \in Range(CVE_DB) :
                            /\ scan.cve_check
                            /\ \E i \in DOMAIN host.ports : /\ host.ports[i].state = "open"
                                                            /\ Affected(service(i), told(i), x)}}

(***************************************************************************)
(* Weak services are reported for what they said, and only for that:       *)
(* "unauthenticated" and SMBv1 exactly when the peer of an open port gave  *)
(* the sign in time; an anonymous login only when one of the server's      *)
(* answers said so (a 230, or the words "logged in", which a refusal may   *)
(* have as well), and always when a prompt server answered PASS by a 230   *)
(* -- whatever comes late, and whether or not the server was asked for its *)
(* features in between (probe_ftp's dialogue, the dispatcher, the flags on *)
(* their way to analyze_host).                                             *)
(***************************************************************************)
Asked(scan, host, number) ==
  /\ scan.enumerate_services /\ number \in DOMAIN host.peers
  /\ \E port \in Range(host.ports) : port.state = "open" /\ port.port = number
Signs(peer, request, words) == request \in DOMAIN peer.says /\ words \cap peer.says[request].words # {}
HeardOf(scan, host) ==
  LET gave(number, word) == /\ Asked(scan, host, number)
                            /\ host.peers[number].lag = 0 /\ Signs(host.peers[number], "ask", {word})
      anonymous == Listed(host, "FTP anonymous login enabled") # {}
  IN  /\ Listed(host, "SMBv1 protocol enabled") # {} <=> gave(445, "SMB 1")
      /\ Listed(host, "exposed without authentication") # {} <=>
           gave(6379, "redis_version") \/ gave(27017, "ok")
      /\ anonymous => /\ Asked(scan, host, 21)
                      /\ \E request \in {"USER", "PASS"} :
                           Signs(host.peers[21], request, {"230", "logged in"})
      /\ Asked(scan, host, 21) /\ host.peers[21].lag = 0 /\ Signs(host.peers[21], "PASS", {"230"})
           => anonymous
WeakAuthIsHeard ==
  \A scan \in Scans : Reported(scan) => \A host \in Range(scan.hosts) : HeardOf(scan, host)

(***************************************************************************)
(* "Port ... allowed anonymous login" (analyze_host): an anonymous login   *)
(* is reported only of a server that let the user in.                      *)
(***************************************************************************)
AnonymousIsGranted ==
  \A scan \in Scans : Reported(scan) =>
    \A host \in Range(scan.hosts) :
      Listed(host, "FTP anonymous login enabled") # {} =>
        \E request \in {"USER", "PASS"} : Signs(host.peers[21], request, {"230"})

(***************************************************************************)
(* A resolver that says nothing, or nothing that answers, costs a host     *)
(* nothing that the other resolvers know of it (dns_query falls through);  *)
(* and a host that is reached by its name and fronted by a CDN is not      *)
(* blamed for the security headers that its answers lack, unless a reply   *)
(* could not be parsed: that ends its lookup before the CDN is tested.     *)
(***************************************************************************)
Speaks(net, server) == \E q \in DOMAIN net : q[1] = server /\ net[q] # Parsed(<<>>)
Fronted(host) == \E i \in DOMAIN CDN_IP_RANGES : host.ip \in CDN_IP_RANGES[i].addresses
QuietServersCostNothing ==
  \A scan \in Scans : Reported(scan) =>
    \A host \in {h \in Range(scan.hosts) : h.hostname # ""} :
      LET speaking == Kept(scan.dns_servers,
                           {server \in ToSet(scan.dns_servers) : Speaks(host.net, server)})
      IN  /\ speaking # <<>> => Infra([scan EXCEPT !.dns_servers = speaking], host) = Infra(scan, host)
          /\ Fronted(host) /\ Malformed \notin Range(host.net)
               => Listed(host, "No HTTP security headers configured") = {}

(***************************************************************************)
(* "only open ports carry real evidence" (os_fingerprint.py): what the     *)
(* scan says of closed and filtered ports changes neither a finding, nor   *)
(* the operating system, nor a row of the report.  Each stage loops over   *)
(* all ports and has its own test of the state.                            *)
(***************************************************************************)
OpenOnly(scan) == [scan EXCEPT !.hosts = [i \in DOMAIN @ |-> [@[i] EXCEPT !.ports = Open(scan.hosts[i])]]]
SameOs(hosts, others) == \A i \in DOMAIN hosts : hosts[i].os = others[i].os
OnlyOpenPortsMatter ==
  \A scan \in Scans : Reported(scan) =>
    /\ AllFindings(OpenOnly(scan)) = input
    /\ SameOs(HostsOf(OpenOnly(scan)), HostsAfter[scan])
    /\ PortRows([hosts |-> HostsOf(OpenOnly(scan))]) = PortRows(Written(scan))

(***************************************************************************)
(* The formats of the report agree: the same findings in the same order,   *)
(* as many as the statistics say, though three of the formats sort them    *)
(* again and two do not; and the same open ports.                          *)
(***************************************************************************)
Agree(report) ==
  /\ \A format \in {Txt(report), Xml(report), Html(report), Csv(report)} :
        format.findings = Json(report).findings
  /\ Len(Txt(report).findings) = stats.total
  /\ {entry.row : entry \in {e \in Range(Json(report).ports) : e.state = "open"}} = Range(PortRows(report))
  /\ \A format \in {Txt(report), Xml(report), Html(report), Grepable(report)} :
        /\ Range(format.ports) = Range(PortRows(report))
        /\ Len(format.ports) = Len(PortRows(report))
ReportsAgree == \A scan \in Scans : Reported(scan) => Agree(Written(scan))
=============================================================================

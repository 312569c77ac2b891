-------------------------- MODULE HostReportProofs --------------------------
(***************************************************************************)
(* What the report says of the hosts, for every scan, table and answer:    *)
(* the properties of HostReport that are proved.                           *)
(*                                                                         *)
(* Each stage of the pipeline is given by what it yields, from the inside  *)
(* out: the rules of a port (PortFindingsAre) and of an audit              *)
(* (HttpFindingsAre), analyze_host (AnalyzeHostIs), the stages before it   *)
(* (AssessedIsSound), the list of stage 10 (AllFindingsAre).               *)
(* RiskEngineProofs' invariant then carries that list into the report: of  *)
(* the findings with one key it keeps one (Represented), and what has one  *)
(* key is one issue (SameIssue).                                           *)
(***************************************************************************)
EXTENDS HostReport, RiskEngineProofs

\* A finding under a condition: a list of one finding or of none.
LEMMA ListWhen ==
  ASSUME NEW c, NEW x
  PROVE  List(When(c, x)) /\ ToSet(When(c, x)) = IF c THEN {x} ELSE {}
BY ListEmpty, ListOne DEF When

\* Whatever analyze_host found is in the report by a finding with its key, and
\* nothing else is: deduplicate and rank lose no key (OneOfEach, RankedReport).
LEMMA Represented ==
  ASSUME IInv, pc = "done"
  PROVE  /\ \A f \in Report : f \in ToSet(input)
         /\ \A e \in ToSet(input) : \E f \in Report : KeyOf(f) = KeyOf(e)
<1>1. /\ Range(ranked) = Range(seen) /\ Positions = DOMAIN input /\ Deduplicated = Positions
      /\ \A i \in Positions : findings[i].object = input[i]
      /\ Range(seen) \subseteq Positions
      /\ \A i \in Positions : \E k \in DOMAIN seen : Represents(k, i)
  BY DEF IInv, RankedReport, Deduplicated, Representative, TypeOK, Positions
<1>2. \A f \in Report : f \in ToSet(input)
  <2> SUFFICES ASSUME NEW i \in Range(ranked) PROVE findings[i].object \in ToSet(input)
    BY DEF Report
  <2>1. i \in DOMAIN input /\ findings[i].object = input[i]
    BY <1>1
  <2>2. QED
    BY <2>1 DEF ToSet
<1>3. ASSUME NEW e \in ToSet(input) PROVE \E f \in Report : KeyOf(f) = KeyOf(e)
  <2>1. PICK i \in Positions : e = input[i]
    BY <1>1 DEF ToSet
  <2>2. PICK k \in DOMAIN seen : Key(seen[k]) = Key(i)
    BY <1>1 DEF Represents
  <2>3. seen[k] \in Range(ranked)
    BY <1>1 DEF Range
  <2>4. findings[seen[k]].object \in Report
    BY <2>3 DEF Report
  <2>5. KeyOf(findings[seen[k]].object) = KeyOf(e)
    BY <1>1, <2>1, <2>2 DEF Key
  <2>6. QED
    BY <2>4, <2>5
<1>4. QED
  BY <1>2, <1>3

\* What analyze_host finds at a port.
PortIssues(host, port) ==
  LET service == LowerCase[port.service]
      I(rule, impact, likelihood) == Issue(host, <<rule, "", "">>, impact, likelihood)
      Named(rule, impact, likelihood) == Issue(host, <<rule, port.service, "">>, impact, likelihood)
  IN  (IF "smbv1" \in port.flags
       THEN {Found(host, <<"SMBv1 protocol enabled", "", "">>, 9, 8, "CVE-2017-0144")} ELSE {})
      \cup (IF "anonymous_login" \in port.flags THEN {I("FTP anonymous login enabled", 8, 8)} ELSE {})
      \cup (IF "unauthenticated" \in port.flags
            THEN {Named("exposed without authentication", 10, 9)} ELSE {})
      \cup (IF service = "ftp" /\ ~("ftps_supported" \in port.flags)
            THEN {I("Cleartext FTP service", 7, 6)} ELSE {})
      \cup (IF service = "telnet" THEN {I("Telnet exposed (cleartext)", 8, 7)} ELSE {})
      \cup (IF service = "snmp" THEN {I("SNMP service exposed", 8, 6)} ELSE {})
      \cup (IF service \in DataStores /\ port.version # NoText /\ ~("unauthenticated" \in port.flags)
            THEN {Named("exposed publicly", 9, 7)} ELSE {})
      \cup (IF service \in DOMAIN INSECURE_SERVICES
            THEN {Issue(host, ExposedTitle(port), ImpactMap[INSECURE_SERVICES[service]], 5)} ELSE {})

\* _analyze_port yields exactly the port's issues: the concatenation of its
\* rules loses none.
LEMMA PortFindingsAre ==
  ASSUME NEW host, NEW port
  PROVE  List(PortFindings(host, port)) /\ ToSet(PortFindings(host, port)) = PortIssues(host, port)
<1> DEFINE service == LowerCase[port.service]
           has(flag) == flag \in port.flags
           I(rule, impact, likelihood) == Issue(host, <<rule, "", "">>, impact, likelihood)
           Named(rule, impact, likelihood) == Issue(host, <<rule, port.service, "">>, impact, likelihood)
           x1 == Found(host, <<"SMBv1 protocol enabled", "", "">>, 9, 8, "CVE-2017-0144")
           x2 == I("FTP anonymous login enabled", 8, 8)
           x3 == Named("exposed without authentication", 10, 9)
           x4 == I("Cleartext FTP service", 7, 6)
           x5 == I("Telnet exposed (cleartext)", 8, 7)
           x6 == I("SNMP service exposed", 8, 6)
           x7 == Named("exposed publicly", 9, 7)
           x8 == Issue(host, ExposedTitle(port), ImpactMap[INSECURE_SERVICES[service]], 5)
           c1 == has("smbv1")
           c2 == has("anonymous_login")
           c3 == has("unauthenticated")
           c4 == service = "ftp" /\ ~has("ftps_supported")
           c5 == service = "telnet"
           c6 == service = "snmp"
           c7 == service \in DataStores /\ port.version # NoText /\ ~has("unauthenticated")
           c8 == service \in DOMAIN INSECURE_SERVICES
           w1 == When(c1, x1)
           w2 == When(c2, x2)
           w3 == When(c3, x3)
           w4 == When(c4, x4)
           w5 == When(c5, x5)
           w6 == When(c6, x6)
           w7 == When(c7, x7)
           w8 == When(c8, x8)
           pf == w1 \o w2 \o w3 \o w4 \o w5 \o w6 \o w7 \o w8
<1>1. PortFindings(host, port) = pf
  BY DEF PortFindings, When
<1>2. PortIssues(host, port) = (IF c1 THEN {x1} ELSE {}) \cup (IF c2 THEN {x2} ELSE {})
        \cup (IF c3 THEN {x3} ELSE {}) \cup (IF c4 THEN {x4} ELSE {}) \cup (IF c5 THEN {x5} ELSE {})
        \cup (IF c6 THEN {x6} ELSE {}) \cup (IF c7 THEN {x7} ELSE {}) \cup (IF c8 THEN {x8} ELSE {})
  BY DEF PortIssues
<1> HIDE DEF x1, x2, x3, x4, x5, x6, x7, x8, c1, c2, c3, c4, c5, c6, c7, c8
<1>3. /\ List(w1) /\ ToSet(w1) = IF c1 THEN {x1} ELSE {}
      /\ List(w2) /\ ToSet(w2) = IF c2 THEN {x2} ELSE {}
      /\ List(w3) /\ ToSet(w3) = IF c3 THEN {x3} ELSE {}
      /\ List(w4) /\ ToSet(w4) = IF c4 THEN {x4} ELSE {}
      /\ List(w5) /\ ToSet(w5) = IF c5 THEN {x5} ELSE {}
      /\ List(w6) /\ ToSet(w6) = IF c6 THEN {x6} ELSE {}
      /\ List(w7) /\ ToSet(w7) = IF c7 THEN {x7} ELSE {}
      /\ List(w8) /\ ToSet(w8) = IF c8 THEN {x8} ELSE {}
  BY ListWhen
<1>4. List(pf) /\ ToSet(pf) = ToSet(w1) \cup ToSet(w2) \cup ToSet(w3) \cup ToSet(w4)
                              \cup ToSet(w5) \cup ToSet(w6) \cup ToSet(w7) \cup ToSet(w8)
  <2> HIDE DEF w1, w2, w3, w4, w5, w6, w7, w8
  <2> QED
    BY ONLY <1>3, ListConcat
<1> HIDE DEF w1, w2, w3, w4, w5, w6, w7, w8, pf
<1>5. QED
  BY ONLY <1>1, <1>2, <1>3, <1>4, Zenon

\* The parts of a finding's title.
Rule(f) == f.title[1]
Detail(f) == f.title[3]

\* The parts of a title that is written out.
LEMMA TitleParts ==
  ASSUME NEW f, NEW rule, NEW word, NEW detail, f.title = <<rule, word, detail>>
  PROVE  Rule(f) = rule /\ Detail(f) = detail
<1> DEFINE t == <<rule, word, detail>>
<1>1. t[1] = rule /\ t[3] = detail /\ f.title = t
  OBVIOUS
<1> HIDE DEF t
<1>2. QED
  BY <1>1, Zenon DEF Rule, Detail

\* A finding is about a host, by a rule.
About(f, host, rule) == f.asset = host.ip /\ Rule(f) = rule

\* A finding is about the host it was made for, by the rule its title begins
\* with.
LEMMA FoundFacts ==
  ASSUME NEW host, NEW rule, NEW word, NEW detail, NEW impact, NEW likelihood, NEW cve
  PROVE  /\ About(Found(host, <<rule, word, detail>>, impact, likelihood, cve), host, rule)
         /\ Found(host, <<rule, word, detail>>, impact, likelihood, cve).title = <<rule, word, detail>>
<1> DEFINE f == Found(host, <<rule, word, detail>>, impact, likelihood, cve)
<1>1. f.asset = host.ip /\ f.title = <<rule, word, detail>>
  BY DEF Found
<1> HIDE DEF f
<1>2. Rule(f) = rule
  BY <1>1, TitleParts
<1>3. About(f, host, rule)
  BY <1>1, <1>2 DEF About
<1>4. QED
  BY ONLY <1>1, <1>3, Zenon DEF f

\* The findings for a port's CVEs are about its host, by a rule of their own.
LEMMA CveFindingsAre ==
  ASSUME NEW host, NEW port
  PROVE  /\ List(CveFindings(host, port))
         /\ \A f \in ToSet(CveFindings(host, port)) : About(f, host, "affected by")
<1> DEFINE key == MatchSoftwareAliases(port.service, port.version)
           entries == IF port.version = NoText \/ key = "" THEN <<>> ELSE MatchCves(key, port.version)
           f(i) == Found(host, <<"affected by", entries[i].software, entries[i].cve>>,
                         9, Likelihood(entries[i].cvss), entries[i].cve)
           q == [i \in DOMAIN entries |-> f(i)]
<1>1. CveFindings(host, port) = q
  BY DEF CveFindings
<1>2. List(CVE_DB)
  BY CveAssumption, SeqIsList
<1>3. List(MatchCves(key, port.version))
  BY <1>2, ListKept DEF MatchCves
<1>4. List(entries)
  BY <1>3, ListEmpty
<1>5. Len(entries) \in Nat /\ DOMAIN entries = 1..Len(entries)
  BY <1>4, LenProperties DEF List
<1> HIDE DEF entries
<1>6. List(q)
  BY <1>5, ListFunction
<1>7. \A i : About(f(i), host, "affected by")
  BY FoundFacts, Zenon
<1> HIDE DEF f
<1>8. \A i \in DOMAIN q : About(q[i], host, "affected by")
  BY <1>7
<1>9. QED
  BY <1>1, <1>6, <1>8 DEF ToSet

\* What _analyze_http has to say.
HttpRules == {"Missing HTTP security header", "Server header discloses software/version",
              "X-Powered-By header discloses technology", "Directory listing enabled",
              "Sensitive path exposed", "No HTTP security headers configured",
              "Cookies set without HttpOnly/Secure flags", "Dangerous HTTP method enabled"}

\* So are those for an audit; a host behind a CDN is not blamed for missing
\* headers.
LEMMA HttpFindingsAre ==
  ASSUME NEW host, NEW http, List(http.methods), List(http.found_paths)
  PROVE  /\ List(HttpFindings(host, http))
         /\ \A f \in ToSet(HttpFindings(host, http)) : \E rule \in HttpRules :
              /\ About(f, host, rule)
              /\ rule = "No HTTP security headers configured" => host.cdn = ""
<1> DEFINE I(rule, impact, likelihood) == Issue(host, <<rule, "", "">>, impact, likelihood)
           Each(rule, list, impact, likelihood) ==
             [i \in DOMAIN list |-> Issue(host, <<rule, "", list[i]>>, impact, likelihood)]
           l1 == Kept(SECURITY_HEADERS, ToSet(SECURITY_HEADERS) \ http.security_headers)
           l5 == http.found_paths
           l8 == Kept(http.methods, {"PUT", "DELETE", "TRACE", "PATCH"})
           w1 == Each("Missing HTTP security header", l1, 3, 4)
           w2 == When(http.server # <<>>, I("Server header discloses software/version", 2, 6))
           w3 == When(http.powered_by # <<>>, I("X-Powered-By header discloses technology", 2, 5))
           w4 == When(http.directory_listing, I("Directory listing enabled", 5, 5))
           w5 == Each("Sensitive path exposed", l5, 6, 5)
           w6 == When(http.status # 0 /\ http.security_headers = {} /\ host.cdn = "",
                      I("No HTTP security headers configured", 4, 6))
           w7 == When(http.cookies # <<>> /\ "httponly" \notin Range(http.cookies),
                      I("Cookies set without HttpOnly/Secure flags", 6, 5))
           w8 == Each("Dangerous HTTP method enabled", l8, 6, 5)
           hf == w1 \o w2 \o w3 \o w4 \o w5 \o w6 \o w7 \o w8
           Good(f) == \E rule \in HttpRules :
                        /\ About(f, host, rule)
                        /\ rule = "No HTTP security headers configured" => host.cdn = ""
           r1 == "Missing HTTP security header"
           r2 == "Server header discloses software/version"
           r3 == "X-Powered-By header discloses technology"
           r4 == "Directory listing enabled"
           r5 == "Sensitive path exposed"
           r6 == "No HTTP security headers configured"
           r7 == "Cookies set without HttpOnly/Secure flags"
           r8 == "Dangerous HTTP method enabled"
<1>1. HttpFindings(host, http) = hf
  BY DEF HttpFindings
<1>2. List(l1) /\ List(l5) /\ List(l8)
  BY TablesAssumption, SeqIsList, ListKept
<1> HIDE DEF l1, l5, l8
<1>3. /\ {r1, r2, r3, r4, r5, r6, r7, r8} \subseteq HttpRules
      /\ r6 \notin {r1, r2, r3, r4, r5, r7, r8}
  BY DEF HttpRules
<1>4. \A f, rule : /\ About(f, host, rule) /\ rule \in {r1, r2, r3, r4, r5, r6, r7, r8}
                   /\ rule = r6 => host.cdn = ""
                   => Good(f)
  BY <1>3
<1> HIDE DEF Good, r1, r2, r3, r4, r5, r6, r7, r8
<1>5. \A rule, impact, likelihood : About(I(rule, impact, likelihood), host, rule)
  BY FoundFacts, Zenon DEF Issue
<1>6. ASSUME NEW rule, NEW list, NEW impact, NEW likelihood, List(list)
      PROVE  /\ List(Each(rule, list, impact, likelihood))
             /\ \A f \in ToSet(Each(rule, list, impact, likelihood)) : About(f, host, rule)
  <2> DEFINE x(i) == Issue(host, <<rule, "", list[i]>>, impact, likelihood)
             q == [i \in DOMAIN list |-> x(i)]
  <2>1. Len(list) \in Nat /\ DOMAIN list = 1..Len(list)
    BY <1>6, LenProperties DEF List
  <2>2. List(q)
    BY <2>1, ListFunction
  <2>3. \A i : About(x(i), host, rule)
    BY FoundFacts, Zenon DEF Issue
  <2> HIDE DEF x
  <2>4. \A i \in DOMAIN q : About(q[i], host, rule)
    BY <2>3
  <2>5. \A f \in ToSet(q) : About(f, host, rule)
    BY <2>4 DEF ToSet
  <2>6. q = Each(rule, list, impact, likelihood)
    BY DEF x
  <2>7. QED
    BY <2>2, <2>5, <2>6
<1> HIDE DEF I, Each
<1>7. /\ List(w1) /\ \A f \in ToSet(w1) : About(f, host, r1)
      /\ List(w5) /\ \A f \in ToSet(w5) : About(f, host, r5)
      /\ List(w8) /\ \A f \in ToSet(w8) : About(f, host, r8)
  BY <1>2, <1>6, Zenon DEF r1, r5, r8
<1>8. /\ List(w2) /\ \A f \in ToSet(w2) : About(f, host, r2)
      /\ List(w3) /\ \A f \in ToSet(w3) : About(f, host, r3)
      /\ List(w4) /\ \A f \in ToSet(w4) : About(f, host, r4)
      /\ List(w7) /\ \A f \in ToSet(w7) : About(f, host, r7)
  <2>1. \A c, rule, impact, likelihood :
          LET w == When(c, I(rule, impact, likelihood))
          IN  List(w) /\ \A f \in ToSet(w) : About(f, host, rule)
    BY <1>5, ListWhen
  <2>2. QED
    BY ONLY <2>1, Zenon DEF r2, r3, r4, r7
<1>9. List(w6) /\ \A f \in ToSet(w6) : About(f, host, r6) /\ host.cdn = ""
  <2>1. List(w6) /\ \A f \in ToSet(w6) : host.cdn = "" /\ f = I("No HTTP security headers configured", 4, 6)
    BY ListWhen
  <2>2. QED
    BY <1>5, <2>1, Zenon DEF r6
<1> HIDE DEF w1, w2, w3, w4, w5, w6, w7, w8
<1>10. /\ \A f \in ToSet(w1) : Good(f)
       /\ \A f \in ToSet(w2) : Good(f)
       /\ \A f \in ToSet(w3) : Good(f)
       /\ \A f \in ToSet(w4) : Good(f)
       /\ \A f \in ToSet(w5) : Good(f)
       /\ \A f \in ToSet(w6) : Good(f)
       /\ \A f \in ToSet(w7) : Good(f)
       /\ \A f \in ToSet(w8) : Good(f)
  BY ONLY <1>3, <1>4, <1>7, <1>8, <1>9
<1>11. List(hf) /\ ToSet(hf) = ToSet(w1) \cup ToSet(w2) \cup ToSet(w3) \cup ToSet(w4)
                              \cup ToSet(w5) \cup ToSet(w6) \cup ToSet(w7) \cup ToSet(w8)
  <2>1. List(w1) /\ List(w2) /\ List(w3) /\ List(w4) /\ List(w5) /\ List(w6) /\ List(w7) /\ List(w8)
    BY <1>7, <1>8, <1>9
  <2>2. QED
    BY ONLY <2>1, ListConcat
<1> HIDE DEF hf
<1>12. List(hf) /\ \A f \in ToSet(hf) : Good(f)
  BY ONLY <1>10, <1>11
<1>13. QED
  BY <1>1, <1>12 DEF Good

\* The findings of a host, port by port and endpoint by endpoint.
Sound(host) ==
  /\ List(host.ports) /\ List(host.http_audits)
  /\ \A a \in ToSet(host.http_audits) : List(a.methods) /\ List(a.found_paths)

\* The open ports are a list of the host's ports that are open.
LEMMA OpenIs ==
  ASSUME NEW host, List(host.ports)
  PROVE  List(Open(host)) /\ ToSet(Open(host)) = {port \in ToSet(host.ports) : port.state = "open"}
<1>1. /\ List(Open(host))
      /\ ToSet(Open(host)) = ToSet(host.ports) \cap {port \in ToSet(host.ports) : port.state = "open"}
  BY ListKept DEF Open
<1>2. QED
  BY <1>1

\* analyze_host finds what its three loops find: at every open port, for its
\* CVEs unless they are off, and in every audit.
LEMMA AnalyzeHostIs ==
  ASSUME NEW host, Sound(host), NEW enable_cve
  PROVE  /\ List(AnalyzeHost(host, enable_cve))
         /\ ToSet(AnalyzeHost(host, enable_cve)) =
              (UNION {PortIssues(host, port) : port \in ToSet(Open(host))})
              \cup (IF enable_cve THEN UNION {ToSet(CveFindings(host, port)) : port \in ToSet(Open(host))} ELSE {})
              \cup (UNION {ToSet(HttpFindings(host, a)) : a \in ToSet(host.http_audits)})
<1> DEFINE open == Open(host)
           audits == host.http_audits
           p == [i \in DOMAIN open |-> PortFindings(host, open[i])]
           c == [i \in DOMAIN open |-> CveFindings(host, open[i])]
           h == [i \in DOMAIN audits |-> HttpFindings(host, audits[i])]
           v == IF enable_cve THEN FlattenSeq(c) ELSE <<>>
<1>1. List(open) /\ List(audits) /\ \A a \in ToSet(audits) : List(a.methods) /\ List(a.found_paths)
  BY OpenIs DEF Sound
<1>2. AnalyzeHost(host, enable_cve) = FlattenSeq(p) \o v \o FlattenSeq(h)
  BY DEF AnalyzeHost
<1>3. UNION {PortIssues(host, port) : port \in ToSet(Open(host))} = UNION {ToSet(PortFindings(host, port)) : port \in ToSet(open)}
  BY PortFindingsAre
<1> HIDE DEF open, audits
<1>4. /\ Len(open) \in Nat /\ DOMAIN open = 1..Len(open)
      /\ Len(audits) \in Nat /\ DOMAIN audits = 1..Len(audits)
  BY <1>1, LenProperties DEF List
<1>5. /\ List(FlattenSeq(p))
      /\ ToSet(FlattenSeq(p)) = UNION {ToSet(PortFindings(host, port)) : port \in ToSet(open)}
  <2>1. List(p) /\ DOMAIN p = DOMAIN open /\ \A i \in DOMAIN p : p[i] = PortFindings(host, open[i])
    BY <1>4, ListFunction
  <2>2. \A i \in DOMAIN p : List(p[i])
    BY <2>1, PortFindingsAre
  <2> HIDE DEF p
  <2>3. List(FlattenSeq(p)) /\ ToSet(FlattenSeq(p)) = UNION {ToSet(p[i]) : i \in DOMAIN p}
    BY <2>1, <2>2, ListFlatten
  <2>4. UNION {ToSet(p[i]) : i \in DOMAIN p} = UNION {ToSet(PortFindings(host, port)) : port \in ToSet(open)}
    BY <2>1 DEF ToSet
  <2>5. QED
    BY <2>3, <2>4
<1>6. /\ List(FlattenSeq(c))
      /\ ToSet(FlattenSeq(c)) = UNION {ToSet(CveFindings(host, port)) : port \in ToSet(open)}
  <2>1. List(c) /\ DOMAIN c = DOMAIN open /\ \A i \in DOMAIN c : c[i] = CveFindings(host, open[i])
    BY <1>4, ListFunction
  <2>2. \A i \in DOMAIN c : List(c[i])
    BY <2>1, CveFindingsAre
  <2> HIDE DEF c
  <2>3. List(FlattenSeq(c)) /\ ToSet(FlattenSeq(c)) = UNION {ToSet(c[i]) : i \in DOMAIN c}
    BY <2>1, <2>2, ListFlatten
  <2>4. UNION {ToSet(c[i]) : i \in DOMAIN c} = UNION {ToSet(CveFindings(host, port)) : port \in ToSet(open)}
    BY <2>1 DEF ToSet
  <2>5. QED
    BY <2>3, <2>4
<1>7. /\ List(FlattenSeq(h))
      /\ ToSet(FlattenSeq(h)) = UNION {ToSet(HttpFindings(host, a)) : a \in ToSet(audits)}
  <2>1. List(h) /\ DOMAIN h = DOMAIN audits /\ \A i \in DOMAIN h : h[i] = HttpFindings(host, audits[i])
    BY <1>4, ListFunction
  <2>2. \A i \in DOMAIN audits : audits[i] \in ToSet(audits)
    BY DEF ToSet
  <2>3. \A i \in DOMAIN h : List(h[i])
    BY <1>1, <2>1, <2>2, HttpFindingsAre
  <2> HIDE DEF h
  <2>4. List(FlattenSeq(h)) /\ ToSet(FlattenSeq(h)) = UNION {ToSet(h[i]) : i \in DOMAIN h}
    BY <2>1, <2>3, ListFlatten
  <2>5. UNION {ToSet(h[i]) : i \in DOMAIN h} = UNION {ToSet(HttpFindings(host, a)) : a \in ToSet(audits)}
    BY <2>1 DEF ToSet
  <2>6. QED
    BY <2>4, <2>5
<1>8. /\ List(v)
      /\ ToSet(v) = IF enable_cve THEN UNION {ToSet(CveFindings(host, port)) : port \in ToSet(open)} ELSE {}
  BY <1>6, ListEmpty
<1> HIDE DEF p, c, h, v
<1>9. /\ List(FlattenSeq(p) \o v \o FlattenSeq(h))
      /\ ToSet(FlattenSeq(p) \o v \o FlattenSeq(h)) = ToSet(FlattenSeq(p)) \cup ToSet(v) \cup ToSet(FlattenSeq(h))
  <2>1. List(FlattenSeq(p) \o v) /\ ToSet(FlattenSeq(p) \o v) = ToSet(FlattenSeq(p)) \cup ToSet(v)
    BY <1>5, <1>8, ListConcat
  <2>2. QED
    BY <1>7, <2>1, ListConcat
<1>10. QED
  <2>1. AnalyzeHost(host, enable_cve) = FlattenSeq(p) \o v \o FlattenSeq(h)
    BY <1>2 DEF p, c, h, v, open, audits
  <2> DEFINE r == FlattenSeq(p) \o v \o FlattenSeq(h)
             U == UNION {PortIssues(host, port) : port \in ToSet(Open(host))}
             W == UNION {ToSet(CveFindings(host, port)) : port \in ToSet(Open(host))}
             X == UNION {ToSet(HttpFindings(host, a)) : a \in ToSet(host.http_audits)}
  <2>2. /\ ToSet(FlattenSeq(p)) = U /\ ToSet(FlattenSeq(h)) = X
        /\ ToSet(v) = IF enable_cve THEN W ELSE {}
    BY <1>3, <1>5, <1>7, <1>8 DEF open, audits
  <2> HIDE DEF U, W, X
  <2>3. List(r) /\ ToSet(r) = U \cup (IF enable_cve THEN W ELSE {}) \cup X
    BY ONLY <1>9, <2>2
  <2> HIDE DEF r
  <2>4. List(AnalyzeHost(host, enable_cve)) /\ ToSet(AnalyzeHost(host, enable_cve)) = U \cup (IF enable_cve THEN W ELSE {}) \cup X
    BY ONLY <2>1, <2>3, Zenon DEF r
  <2>5. QED
    BY <2>4 DEF U, W, X

\* A header's value, the last of its name, is a list of words.
LEMMA HeaderIsList ==
  ASSUME NEW response \in Responses, NEW name
  PROVE  Header(response, name) \in Seq(STRING)
<1> DEFINE hs == response.headers
           named == {i \in DOMAIN hs : hs[i][1] = name}
           last == Max(named)
<1>1. hs \in Seq(STRING \X Seq(STRING))
  BY DEF Responses
<1>2. Header(response, name) = IF named = {} THEN <<>> ELSE hs[last][2]
  BY DEF Header
<1>3. Len(hs) \in Nat /\ DOMAIN hs = 1..Len(hs) /\ \A i \in 1..Len(hs) : hs[i] \in STRING \X Seq(STRING)
  BY <1>1, LenProperties, ElementOfSeq
<1>4. \A i \in 1..Len(hs) : hs[i][2] \in Seq(STRING)
  BY <1>3
<1>5. named \subseteq 1..Len(hs)
  BY ONLY <1>3
<1> HIDE DEF hs, named
<1>6. ASSUME named # {} PROVE last \in named
  <2>1. Max(named) \in named /\ \A j \in named : j <= Max(named)
    BY <1>3, <1>5, <1>6, MaxOfFinite
  <2>2. QED
    BY <2>1
<1>7. <<>> \in Seq(STRING)
  OBVIOUS
<1> HIDE DEF last
<1>8. QED
  BY <1>2, <1>4, <1>5, <1>6, <1>7

\* An audit's methods and paths are lists.
LEMMA AuditIsSound ==
  ASSUME NEW web, NEW use_ssl, \A r \in DOMAIN web.says : web.says[r] \in Responses
  PROVE  List(AuditHttp(web, use_ssl).methods) /\ List(AuditHttp(web, use_ssl).found_paths)
<1> DEFINE options == RawRequest(web, use_ssl, "OPTIONS")
           allow == Header(options, "allow")
           public == Header(options, "public")
<1>1. options \in Responses
  <2>1. NoResponse \in Responses
    <3>1. <<>> \in Seq(STRING \X Seq(STRING))
      OBVIOUS
    <3>2. QED
      BY <3>1 DEF NoResponse, Responses
  <2>2. QED
    BY <2>1 DEF RawRequest, Answers
<1>2. allow \in Seq(STRING) /\ public \in Seq(STRING)
  BY <1>1, HeaderIsList
<1>3. AuditHttp(web, use_ssl).methods = OrElse(allow, public)
  BY DEF AuditHttp
<1> HIDE DEF allow, public
<1>4. OrElse(allow, public) \in Seq(STRING)
  BY <1>2 DEF OrElse
<1>5. List(SENSITIVE_PATHS)
  BY TablesAssumption, SeqIsList
<1>6. List(AuditHttp(web, use_ssl).found_paths)
  BY <1>5, ListKept DEF AuditHttp
<1>7. QED
  BY <1>3, <1>4, <1>6, SeqIsList

\* A host as stage 4 and the scan leave it.
HostOk(host) ==
  /\ host.ports \in Seq(ScannedPorts)
  /\ \A n \in DOMAIN host.webs : \A request \in DOMAIN host.webs[n].says :
       host.webs[n].says[request] \in Responses

\* The hosts of a scan are as HostsAssumption has them.
LEMMA HostsFacts ==
  ASSUME NEW scan \in Scans
  PROVE  List(scan.hosts) /\ \A host \in ToSet(scan.hosts) : HostOk(host)
BY HostsAssumption DEF HostOk, List, Range, ToSet

\* So are those of all the audits of a host.
LEMMA HttpAuditsSound ==
  ASSUME NEW ports, List(ports), NEW webs,
         \A n \in DOMAIN webs : \A request \in DOMAIN webs[n].says :
           webs[n].says[request] \in Responses
  PROVE  /\ List(HttpAudits(ports, webs))
         /\ \A a \in ToSet(HttpAudits(ports, webs)) : List(a.methods) /\ List(a.found_paths)
<1> DEFINE open == WebPortsOf(ports, webs)
           ssl(i) == open[i].port \in TLS_PORTS
           audits == [i \in DOMAIN open |-> AuditHttp(webs[open[i].port], ssl(i))]
<1>1. List(open) /\ ToSet(open) \subseteq {p \in ToSet(ports) : p.port \in DOMAIN webs}
  BY ListKept DEF WebPortsOf
<1>2. AuditsOf(open, webs) = audits
  BY DEF AuditsOf
<1> HIDE DEF open
<1>3. Len(open) \in Nat /\ DOMAIN open = 1..Len(open)
  BY <1>1, LenProperties DEF List
<1>4. List(audits)
  BY <1>3, ListFunction
<1>5. ASSUME NEW i \in DOMAIN open
      PROVE  List(audits[i].methods) /\ List(audits[i].found_paths)
  <2> DEFINE w == webs[open[i].port]
             a == AuditHttp(w, ssl(i))
  <2>1. open[i].port \in DOMAIN webs
    BY <1>1 DEF ToSet
  <2>2. \A r \in DOMAIN w.says : w.says[r] \in Responses
    BY <2>1
  <2> HIDE DEF w, ssl
  <2>3. List(a.methods) /\ List(a.found_paths)
    BY <2>2, AuditIsSound
  <2>4. audits[i] = a
    BY DEF w
  <2> HIDE DEF a, audits
  <2>5. QED
    BY <2>3, <2>4
<1>6. \A a \in ToSet(audits) : List(a.methods) /\ List(a.found_paths)
  <2> SUFFICES ASSUME NEW a \in ToSet(audits) PROVE List(a.methods) /\ List(a.found_paths)
    OBVIOUS
  <2>1. DOMAIN audits = DOMAIN open
    OBVIOUS
  <2> HIDE DEF audits
  <2>2. PICK i \in DOMAIN open : a = audits[i]
    BY <2>1 DEF ToSet
  <2>3. QED
    BY <1>5, <2>2
<1> HIDE DEF audits
<1>7. /\ List(HttpAudits(ports, webs))
      /\ ToSet(HttpAudits(ports, webs)) \subseteq ToSet(audits)
  <2>1. HttpAudits(ports, webs) = Kept(audits, {a \in ToSet(audits) : a.status # 0})
    BY <1>2 DEF HttpAudits, open
  <2>2. QED
    BY <1>4, <2>1, ListKept
<1>8. QED
  BY <1>6, <1>7

\* Enumeration changes open ports one by one and leaves the others.
LEMMA EnumeratedIs ==
  ASSUME NEW scan, NEW host, HostOk(host)
  PROVE  /\ List(Enumerated(scan, host)) /\ DOMAIN Enumerated(scan, host) = DOMAIN host.ports
         /\ DOMAIN host.ports = 1..Len(host.ports) /\ Len(host.ports) \in Nat
         /\ \A i \in DOMAIN host.ports :
              /\ host.ports[i] \in ScannedPorts
              /\ Enumerated(scan, host)[i] =
                   IF scan.enumerate_services /\ host.ports[i].state = "open"
                   THEN EnumeratePort(host.peers, host.ports[i]) ELSE host.ports[i]
<1>1. Len(host.ports) \in Nat /\ DOMAIN host.ports = 1..Len(host.ports)
  BY LenProperties DEF HostOk
<1>2. \A i \in DOMAIN host.ports : host.ports[i] \in ScannedPorts
  BY <1>1, ElementOfSeq DEF HostOk
<1>3. List(Enumerated(scan, host))
  BY <1>1, ListFunction DEF Enumerated
<1>4. QED
  BY <1>1, <1>2, <1>3 DEF Enumerated

\* A host after stage 8 is one that AnalyzeHostIs speaks of, under its own
\* address.
LEMMA AssessedIsSound ==
  ASSUME NEW scan \in Scans, NEW host \in ToSet(scan.hosts)
  PROVE  /\ Sound(Assessed(scan, host)) /\ Assessed(scan, host).ip = host.ip
         /\ Assessed(scan, host).ports = Enumerated(scan, host)
<1> DEFINE ports == Enumerated(scan, host)
           audits == HttpAudits(ports, host.webs)
<1>1. HostOk(host)
  BY HostsFacts
<1>2. List(ports)
  BY <1>1, EnumeratedIs
<1>3. List(audits) /\ \A a \in ToSet(audits) : List(a.methods) /\ List(a.found_paths)
  BY <1>1, <1>2, HttpAuditsSound DEF HostOk
<1> HIDE DEF ports, audits
<1>4. Assessed(scan, host).ports = ports /\ Assessed(scan, host).http_audits = audits
      /\ Assessed(scan, host).ip = host.ip
  BY DEF Assessed, Audited, Fingerprinted, ports, audits
<1>5. QED
  BY <1>2, <1>3, <1>4 DEF Sound, ports

\* Stage 6 to 8 assess each host of the scan, in order.
LEMMA HostsOfIs ==
  ASSUME NEW scan \in Scans
  PROVE  /\ List(HostsOf(scan)) /\ DOMAIN HostsOf(scan) = DOMAIN scan.hosts
         /\ \A i \in DOMAIN scan.hosts : /\ scan.hosts[i] \in ToSet(scan.hosts)
                                         /\ HostsOf(scan)[i] = Assessed(scan, scan.hosts[i])
         /\ ToSet(HostsOf(scan)) = {Assessed(scan, host) : host \in ToSet(scan.hosts)}
<1>1. Len(scan.hosts) \in Nat /\ DOMAIN scan.hosts = 1..Len(scan.hosts)
  BY HostsFacts, LenProperties DEF List
<1>2. List(HostsOf(scan))
  BY <1>1, ListFunction DEF HostsOf
<1>3. /\ DOMAIN HostsOf(scan) = DOMAIN scan.hosts
      /\ \A i \in DOMAIN scan.hosts : HostsOf(scan)[i] = Assessed(scan, scan.hosts[i])
  BY DEF HostsOf
<1>4. QED
  BY <1>2, <1>3 DEF ToSet

\* The list that is scored has what analyze_host finds at every host, and
\* nothing else.
LEMMA AllFindingsAre ==
  ASSUME NEW scan \in Scans
  PROVE  ToSet(Analysed[scan]) =
           UNION {ToSet(AnalyzeHost(host, scan.cve_check)) : host \in ToSet(HostsAfter[scan])}
<1> DEFINE hosts == HostsOf(scan)
           q == [i \in DOMAIN hosts |-> AnalyzeHost(hosts[i], scan.cve_check)]
<1>1. List(hosts) /\ \A host \in ToSet(hosts) : Sound(host)
  BY HostsOfIs, AssessedIsSound
<1>2. Analysed[scan] = FlattenSeq(q) /\ HostsAfter[scan] = hosts
  BY DEF Analysed, HostsAfter, AllFindings, FindingsOf
<1> HIDE DEF hosts
<1>3. Len(hosts) \in Nat /\ DOMAIN hosts = 1..Len(hosts)
  BY <1>1, LenProperties DEF List
<1>4. List(q) /\ DOMAIN q = DOMAIN hosts /\ \A i \in DOMAIN q : q[i] = AnalyzeHost(hosts[i], scan.cve_check)
  BY <1>3, ListFunction
<1>5. \A i \in DOMAIN q : List(q[i])
  <2>1. \A i \in DOMAIN hosts : hosts[i] \in ToSet(hosts)
    BY DEF ToSet
  <2>2. QED
    BY <1>1, <1>4, <2>1, AnalyzeHostIs
<1> HIDE DEF q
<1>6. ToSet(FlattenSeq(q)) = UNION {ToSet(q[i]) : i \in DOMAIN q}
  BY <1>4, <1>5, ListFlatten
<1>7. UNION {ToSet(q[i]) : i \in DOMAIN q} = UNION {ToSet(AnalyzeHost(host, scan.cve_check)) : host \in ToSet(hosts)}
  BY <1>4 DEF ToSet
<1>8. QED
  BY <1>2, <1>6, <1>7

-----------------------------------------------------------------------------
\* Two findings are of one issue.
LEMMA SameIssue ==
  ASSUME NEW f \in Objects, NEW e \in Objects, KeyOf(f) = KeyOf(e)
  PROVE  /\ f.asset = e.asset /\ Lower[f.title] = Lower[e.title] /\ Rule(f) = Rule(e)
         /\ Rule(e) = "exposed on port" => Detail(f) = Detail(e)
<1> DEFINE t == f.title
           u == e.title
           k == IF f.cve = None THEN "" ELSE f.cve
           l == IF e.cve = None THEN "" ELSE e.cve
<1>1. t \in DOMAIN Lower /\ u \in DOMAIN Lower
  BY DEF Objects
<1>2. <<Lower[t], f.asset, k>> = <<Lower[u], e.asset, l>>
  BY DEF KeyOf
<1> HIDE DEF t, u, k, l
<1>3. Lower[t] = Lower[u] /\ f.asset = e.asset
  BY ONLY <1>2
<1>4. t[1] = u[1] /\ (t[1] = "exposed on port" => t[3] = u[3])
  BY <1>1, <1>3, LowerAssumption
<1>5. Rule(f) = t[1] /\ Rule(e) = u[1] /\ Detail(f) = t[3] /\ Detail(e) = u[3]
  BY Zenon DEF Rule, Detail, t, u
<1>6. QED
  BY <1>3, <1>4, <1>5 DEF t, u

\* The list that is scored and the report hold findings that can be scored.
LEMMA InputTyped == ASSUME IInv PROVE ToSet(input) \subseteq Objects /\ Report \subseteq Objects
<1>1. input \in Seq(Objects)
  BY InputsAssumption DEF IInv, TypeOK
<1>2. ToSet(input) \subseteq Objects
  BY <1>1, SeqIsList
<1>3. Report \subseteq Objects
  <2> SUFFICES ASSUME NEW i \in Range(ranked) PROVE findings[i].object \in Objects
    BY DEF Report
  <2>1. ranked \in Seq(Positions) /\ \A j \in Positions : findings[j].object \in Objects
    BY DEF IInv, TypeOK
  <2>2. i \in Positions
    BY <2>1, ElementOfSeq, LenProperties DEF Range
  <2>3. QED
    BY <2>1, <2>2
<1>4. QED
  BY <1>2, <1>3

\* Every open port with an insecure service is in the report by a finding of
\* its own (analyze_host, deduplicate), whatever tables, hosts, peers and
\* answers the pipeline runs on.
THEOREM PortsCoveredAlways == Spec => []PortsCovered
<1>1. IInv => PortsCovered
  <2> SUFFICES ASSUME IInv, NEW scan \in Scans, Reported(scan),
                      NEW host \in Range(HostsAfter[scan]), NEW port \in Range(Open(host)),
                      LowerCase[port.service] \in DOMAIN INSECURE_SERVICES
               PROVE  \E f \in Report : /\ f.asset = host.ip /\ Lower[f.title] = Lower[ExposedTitle(port)]
                                        /\ f.title[3] = ToString(port.port)
    BY DEF PortsCovered
  <2> DEFINE level == ImpactMap[INSECURE_SERVICES[LowerCase[port.service]]]
             e == Issue(host, ExposedTitle(port), level, 5)
  <2>1. host \in ToSet(HostsAfter[scan]) /\ port \in ToSet(Open(host))
    BY DEF Range, ToSet
  <2>2. Sound(host)
    BY <2>1, HostsOfIs, AssessedIsSound DEF HostsAfter
  <2>3. e \in PortIssues(host, port)
    BY DEF PortIssues
  <2>4. /\ e.asset = host.ip /\ e.title = ExposedTitle(port)
        /\ Rule(e) = "exposed on port" /\ Detail(e) = ToString(port.port)
    <3>1. e.asset = host.ip /\ e.title = ExposedTitle(port)
      BY DEF Issue, Found
    <3> HIDE DEF e
    <3>2. e.title = <<"exposed on port", port.service, ToString(port.port)>>
      BY ONLY <3>1, Zenon DEF ExposedTitle
    <3>3. Rule(e) = "exposed on port" /\ Detail(e) = ToString(port.port)
      BY ONLY <3>2, TitleParts
    <3>4. QED
      BY <3>1, <3>3
  <2> HIDE DEF e
  <2>5. e \in ToSet(AnalyzeHost(host, scan.cve_check))
    BY <2>1, <2>2, <2>3, AnalyzeHostIs
  <2>6. e \in ToSet(input) /\ pc = "done"
    BY <2>1, <2>5, AllFindingsAre DEF Reported
  <2>7. PICK f \in Report : KeyOf(f) = KeyOf(e)
    BY <2>6, Represented
  <2>8. /\ f.asset = host.ip /\ Lower[f.title] = Lower[ExposedTitle(port)]
        /\ Detail(f) = ToString(port.port)
    BY <2>4, <2>6, <2>7, InputTyped, SameIssue
  <2>9. QED
    BY <2>8, Zenon DEF Detail
<1>2. QED
  BY <1>1, Inductive, PTL

-----------------------------------------------------------------------------
(* Weak services: from what a peer says to the report. *)
LEMMA PortIssueRules ==
  ASSUME NEW host, NEW port
  PROVE  /\ \A e \in PortIssues(host, port) : About(e, host, Rule(e))
         /\ \A e \in PortIssues(host, port) : Rule(e) # "No HTTP security headers configured" /\ Rule(e) # "affected by"
         /\ (\E e \in PortIssues(host, port) : Rule(e) = "SMBv1 protocol enabled") <=> "smbv1" \in port.flags
         /\ (\E e \in PortIssues(host, port) : Rule(e) = "FTP anonymous login enabled")
              <=> "anonymous_login" \in port.flags
         /\ (\E e \in PortIssues(host, port) : Rule(e) = "exposed without authentication")
              <=> "unauthenticated" \in port.flags
<1> DEFINE service == LowerCase[port.service]
           I(rule, impact, likelihood) == Issue(host, <<rule, "", "">>, impact, likelihood)
           Named(rule, impact, likelihood) == Issue(host, <<rule, port.service, "">>, impact, likelihood)
           x1 == Found(host, <<"SMBv1 protocol enabled", "", "">>, 9, 8, "CVE-2017-0144")
           x2 == I("FTP anonymous login enabled", 8, 8)
           x3 == Named("exposed without authentication", 10, 9)
           x4 == I("Cleartext FTP service", 7, 6)
           x5 == I("Telnet exposed (cleartext)", 8, 7)
           x6 == I("SNMP service exposed", 8, 6)
           x7 == Named("exposed publicly", 9, 7)
           x8 == Issue(host, ExposedTitle(port), ImpactMap[INSECURE_SERVICES[service]], 5)
           c1 == "smbv1" \in port.flags
           c2 == "anonymous_login" \in port.flags
           c3 == "unauthenticated" \in port.flags
           c4 == service = "ftp" /\ ~("ftps_supported" \in port.flags)
           c5 == service = "telnet"
           c6 == service = "snmp"
           c7 == service \in DataStores /\ port.version # NoText /\ ~("unauthenticated" \in port.flags)
           c8 == service \in DOMAIN INSECURE_SERVICES
<1>1. PortIssues(host, port) = (IF c1 THEN {x1} ELSE {}) \cup (IF c2 THEN {x2} ELSE {})
        \cup (IF c3 THEN {x3} ELSE {}) \cup (IF c4 THEN {x4} ELSE {}) \cup (IF c5 THEN {x5} ELSE {})
        \cup (IF c6 THEN {x6} ELSE {}) \cup (IF c7 THEN {x7} ELSE {}) \cup (IF c8 THEN {x8} ELSE {})
  BY DEF PortIssues
<1>2. /\ About(x1, host, "SMBv1 protocol enabled") /\ About(x2, host, "FTP anonymous login enabled")
      /\ About(x3, host, "exposed without authentication") /\ About(x4, host, "Cleartext FTP service")
      /\ About(x5, host, "Telnet exposed (cleartext)") /\ About(x6, host, "SNMP service exposed")
      /\ About(x7, host, "exposed publicly")
  <2>1. \A rule, word, detail, impact, likelihood :
          About(Issue(host, <<rule, word, detail>>, impact, likelihood), host, rule)
    BY FoundFacts, Zenon DEF Issue
  <2>2. About(x1, host, "SMBv1 protocol enabled")
    BY FoundFacts, Zenon
  <2>3. QED
    BY ONLY <2>1, <2>2, Zenon
<1>3. About(x8, host, "exposed on port")
  <2>1. \A rule, word, detail, impact, likelihood :
          About(Issue(host, <<rule, word, detail>>, impact, likelihood), host, rule)
    BY FoundFacts, Zenon DEF Issue
  <2>2. QED
    BY ONLY <2>1, Zenon DEF ExposedTitle
<1> HIDE DEF x1, x2, x3, x4, x5, x6, x7, x8
<1>4. /\ x1.asset = host.ip /\ Rule(x1) = "SMBv1 protocol enabled"
      /\ x2.asset = host.ip /\ Rule(x2) = "FTP anonymous login enabled"
      /\ x3.asset = host.ip /\ Rule(x3) = "exposed without authentication"
      /\ x4.asset = host.ip /\ Rule(x4) = "Cleartext FTP service"
      /\ x5.asset = host.ip /\ Rule(x5) = "Telnet exposed (cleartext)"
      /\ x6.asset = host.ip /\ Rule(x6) = "SNMP service exposed"
      /\ x7.asset = host.ip /\ Rule(x7) = "exposed publicly"
      /\ x8.asset = host.ip /\ Rule(x8) = "exposed on port"
  BY <1>2, <1>3, Zenon DEF About
<1> HIDE DEF c4, c5, c6, c7, c8
<1>5. \A e : About(e, host, Rule(e)) <=> e.asset = host.ip
  BY Zenon DEF About
<1>6. QED
  BY ONLY <1>1, <1>4, <1>5

\* What analyze_host finds elsewhere than at the ports is by other rules.
LEMMA AnalyzeRules ==
  ASSUME NEW host, Sound(host), NEW enable_cve
  PROVE  \A e \in ToSet(AnalyzeHost(host, enable_cve)) :
           \/ \E port \in ToSet(Open(host)) : e \in PortIssues(host, port)
           \/ About(e, host, "affected by")
           \/ \E rule \in HttpRules : /\ About(e, host, rule)
                                      /\ rule = "No HTTP security headers configured" => host.cdn = ""
<1> SUFFICES ASSUME NEW e \in ToSet(AnalyzeHost(host, enable_cve))
    PROVE \/ \E port \in ToSet(Open(host)) : e \in PortIssues(host, port)
          \/ About(e, host, "affected by")
          \/ \E rule \in HttpRules : /\ About(e, host, rule)
                                     /\ rule = "No HTTP security headers configured" => host.cdn = ""
  OBVIOUS
<1>1. \/ \E port \in ToSet(Open(host)) : e \in PortIssues(host, port)
      \/ \E port \in ToSet(Open(host)) : e \in ToSet(CveFindings(host, port))
      \/ \E a \in ToSet(host.http_audits) : e \in ToSet(HttpFindings(host, a))
  BY AnalyzeHostIs
<1>2. ASSUME NEW port, e \in ToSet(CveFindings(host, port)) PROVE About(e, host, "affected by")
  BY <1>2, CveFindingsAre
<1>3. ASSUME NEW a \in ToSet(host.http_audits), e \in ToSet(HttpFindings(host, a))
      PROVE  \E rule \in HttpRules : /\ About(e, host, rule)
                                     /\ rule = "No HTTP security headers configured" => host.cdn = ""
  BY <1>3, HttpFindingsAre DEF Sound
<1>4. QED
  BY ONLY <1>1, <1>2, <1>3

\* What analyze_host finds is about its host; the findings for weaknesses are
\* those of its open ports, and a host behind a CDN has none for missing
\* headers.
LEMMA AnalyzeAbout ==
  ASSUME NEW host, Sound(host), NEW enable_cve
  PROVE  /\ \A e \in ToSet(AnalyzeHost(host, enable_cve)) : e.asset = host.ip
         /\ (\E e \in ToSet(AnalyzeHost(host, enable_cve)) : Rule(e) = "No HTTP security headers configured")
              => host.cdn = ""
         /\ \A rule \in {"SMBv1 protocol enabled", "FTP anonymous login enabled", "exposed without authentication"} :
              (\E e \in ToSet(AnalyzeHost(host, enable_cve)) : Rule(e) = rule)
                <=> \E port \in ToSet(Open(host)) : \E e \in PortIssues(host, port) : Rule(e) = rule
<1> DEFINE S == ToSet(AnalyzeHost(host, enable_cve))
           none == "No HTTP security headers configured"
<1>1. \A e, rule : About(e, host, rule) => e.asset = host.ip /\ Rule(e) = rule
  BY Zenon DEF About
<1>2. \A e \in S : \/ \E port \in ToSet(Open(host)) : e \in PortIssues(host, port)
                   \/ About(e, host, "affected by")
                   \/ \E rule \in HttpRules : About(e, host, rule) /\ (rule = none => host.cdn = "")
  BY AnalyzeRules
<1>3. \A port \in ToSet(Open(host)) : PortIssues(host, port) \subseteq S
  BY AnalyzeHostIs
<1> HIDE DEF S
<1>4. \A rule \in HttpRules : rule \notin {"SMBv1 protocol enabled", "FTP anonymous login enabled",
                                           "exposed without authentication"}
  BY DEF HttpRules
<1>5. ASSUME NEW e \in S
      PROVE  \/ \E port \in ToSet(Open(host)) : e \in PortIssues(host, port) /\ e.asset = host.ip /\ Rule(e) # none
             \/ e.asset = host.ip /\ Rule(e) = "affected by"
             \/ e.asset = host.ip /\ Rule(e) \in HttpRules /\ (Rule(e) = none => host.cdn = "")
  <2>1. \A port : \A f \in PortIssues(host, port) : About(f, host, Rule(f)) /\ Rule(f) # none
    BY PortIssueRules
  <2> HIDE DEF none
  <2>2. CASE \E port \in ToSet(Open(host)) : e \in PortIssues(host, port)
    BY ONLY <1>1, <2>1, <2>2, Zenon
  <2>3. CASE About(e, host, "affected by")
    BY ONLY <1>1, <2>3, Zenon
  <2>4. CASE \E rule \in HttpRules : About(e, host, rule) /\ (rule = none => host.cdn = "")
    BY ONLY <1>1, <2>4, Zenon
  <2>5. QED
    BY ONLY <1>2, <2>2, <2>3, <2>4
<1>6. \A e \in S : e.asset = host.ip
  BY ONLY <1>5, Zenon
<1>7. (\E e \in S : Rule(e) = none) => host.cdn = ""
  BY ONLY <1>5
<1>8. ASSUME NEW rule \in {"SMBv1 protocol enabled", "FTP anonymous login enabled", "exposed without authentication"}
      PROVE  (\E e \in S : Rule(e) = rule)
               <=> \E port \in ToSet(Open(host)) : \E e \in PortIssues(host, port) : Rule(e) = rule
  <2>1. rule \notin HttpRules /\ rule # "affected by"
    BY <1>4, <1>8
  <2>2. \A e \in S : Rule(e) = rule => \E port \in ToSet(Open(host)) : e \in PortIssues(host, port)
    BY ONLY <1>5, <2>1, Zenon
  <2>3. QED
    BY ONLY <1>3, <2>2, Zenon
<1>9. QED
  BY ONLY <1>6, <1>7, <1>8 DEF S

\* Findings about a host are what analyze_host found of it.
LEMMA InputOfHost ==
  ASSUME IInv, NEW scan \in Scans, Reported(scan), NEW host \in ToSet(scan.hosts)
  PROVE  \A e : e \in ToSet(input) /\ e.asset = host.ip <=>
                  e \in ToSet(AnalyzeHost(Assessed(scan, host), scan.cve_check))
<1> DEFINE F(a) == ToSet(AnalyzeHost(a, scan.cve_check))
           A(h) == Assessed(scan, h)
           S(h) == F(A(h))
<1>1. ToSet(input) = UNION {S(h) : h \in ToSet(scan.hosts)}
  <2>1. input = Analysed[scan] /\ HostsAfter[scan] = HostsOf(scan)
    BY DEF Reported, HostsAfter
  <2>2. ToSet(HostsOf(scan)) = {Assessed(scan, h) : h \in ToSet(scan.hosts)}
    BY HostsOfIs
  <2>3. ToSet(input) = UNION {ToSet(AnalyzeHost(h, scan.cve_check)) : h \in ToSet(HostsOf(scan))}
    BY <2>1, AllFindingsAre
  <2> DEFINE hosts == ToSet(scan.hosts)
             all == ToSet(HostsOf(scan))
  <2>4. all = {A(h) : h \in hosts} /\ ToSet(input) = UNION {F(h) : h \in all}
    BY ONLY <2>2, <2>3
  <2> HIDE DEF F, A, hosts, all
  <2>5. ToSet(input) = UNION {F(A(h)) : h \in hosts}
    BY ONLY <2>4
  <2>6. QED
    BY ONLY <2>5 DEF hosts
<1>2. ASSUME NEW h \in ToSet(scan.hosts) PROVE \A e \in S(h) : e.asset = h.ip
  <2> DEFINE a == Assessed(scan, h)
  <2>1. Sound(a) /\ a.ip = h.ip
    BY AssessedIsSound
  <2> HIDE DEF a
  <2>2. \A e \in ToSet(AnalyzeHost(a, scan.cve_check)) : e.asset = a.ip
    BY ONLY <2>1, AnalyzeAbout, ZenonT(60)
  <2>3. QED
    BY ONLY <2>1, <2>2, Zenon DEF a
<1>3. \A h \in ToSet(scan.hosts) : h.ip = host.ip => h = host
  BY HostsAssumption DEF ToSet
<1> HIDE DEF S
<1>4. QED
  BY ONLY <1>1, <1>2, <1>3, host \in ToSet(scan.hosts) DEF S

\* A rule is listed for a host exactly when analyze_host finds something by it:
\* other hosts have other addresses, and no key is lost.
LEMMA ListedFrom ==
  ASSUME IInv, NEW scan \in Scans, Reported(scan), NEW host \in ToSet(scan.hosts), NEW rule
  PROVE  Listed(host, rule) # {} <=>
           \E e \in ToSet(AnalyzeHost(Assessed(scan, host), scan.cve_check)) : Rule(e) = rule
<1> DEFINE S == ToSet(AnalyzeHost(Assessed(scan, host), scan.cve_check))
<1>1. \A e : e \in ToSet(input) /\ e.asset = host.ip <=> e \in S
  BY InputOfHost
<1> HIDE DEF S
<1>2. Listed(host, rule) = {f \in Report : f.asset = host.ip /\ Rule(f) = rule}
  BY Zenon DEF Listed, Rule
<1>3. /\ \A f \in Report : f \in ToSet(input)
      /\ \A e \in ToSet(input) : \E f \in Report : KeyOf(f) = KeyOf(e)
  BY Represented DEF Reported
<1>4. ASSUME NEW f \in Report, f.asset = host.ip, Rule(f) = rule
      PROVE  \E e \in S : Rule(e) = rule
  <2>1. f \in S
    BY <1>1, <1>3, <1>4
  <2>2. QED
    BY ONLY <1>4, <2>1, Zenon
<1>5. ASSUME NEW e \in S, Rule(e) = rule
      PROVE  \E f \in Report : f.asset = host.ip /\ Rule(f) = rule
  <2>1. e \in ToSet(input) /\ e.asset = host.ip
    BY <1>1
  <2>2. PICK f \in Report : KeyOf(f) = KeyOf(e)
    BY <1>3, <2>1
  <2>3. f.asset = e.asset /\ Rule(f) = Rule(e)
    BY <2>1, <2>2, InputTyped, SameIssue
  <2>4. QED
    BY ONLY <1>5, <2>1, <2>3, Zenon
<1>6. QED
  BY ONLY <1>2, <1>4, <1>5, Zenon DEF S

\* What enumerate_port makes of an open port.
LEMMA EnumeratePortIs ==
  ASSUME NEW peers, NEW port \in ScannedPorts
  PROVE  LET new == EnumeratePort(peers, port)
         IN  /\ new.flags = Probe(peers, port.port).flags
             /\ new.state = port.state /\ new.port = port.port /\ new.protocol = port.protocol
<1> DEFINE data == Probe(peers, port.port)
           u == Updated(port, data)
<1>1. u.flags = data.flags /\ u.state = port.state /\ u.port = port.port /\ u.protocol = port.protocol
      /\ DOMAIN u = {"port", "protocol", "service", "state", "version", "banners", "flags"}
  <2> HIDE DEF data
  <2> QED
    BY DEF Updated, ScannedPorts
<1>2. EnumeratePort(peers, port) = Refined(u)
  BY DEF EnumeratePort
<1> HIDE DEF u, data
<1>3. \/ Refined(u) = u
      \/ \E service : Refined(u) = [u EXCEPT !.service = service]
  BY DEF Refined
<1>4. \A service : LET w == [u EXCEPT !.service = service]
                   IN  w.flags = u.flags /\ w.state = u.state /\ w.port = u.port /\ w.protocol = u.protocol
  BY <1>1
<1>5. QED
  BY ONLY <1>1, <1>2, <1>3, <1>4, Zenon DEF data

\* The answer came in time and has the word.
HeardIn(peer, request, word) == InTime(peer, request) /\ word \in peer.says[request].words

\* An open port of a host raises the flag, and a peer at an open port gave the sign.
Raised(scan, host, flag) ==
  /\ scan.enumerate_services
  /\ \E port \in ToSet(host.ports) : port.state = "open" /\ flag \in Probe(host.peers, port.port).flags
GaveSign(scan, host, n, word) == Asked(scan, host, n) /\ HeardIn(host.peers[n], "ask", word)
OldSmbHeard(scan, host) == GaveSign(scan, host, 445, "SMB 1")
RedisHeard(scan, host) == GaveSign(scan, host, 6379, "redis_version")
MongodbHeard(scan, host) == GaveSign(scan, host, 27017, "ok")
LoggedIn(scan, host) == Asked(scan, host, 21) /\ "anonymous_login" \in ProbeFtp(host.peers[21]).flags

\* The flags of a host's open ports are those its peers raised when they were
\* asked; a scan leaves none.
LEMMA OpenAssessed ==
  ASSUME NEW scan \in Scans, NEW host \in ToSet(scan.hosts), NEW flag
  PROVE  (\E port \in ToSet(Open(Assessed(scan, host))) : flag \in port.flags) <=> Raised(scan, host, flag)
<1> DEFINE new == Enumerated(scan, host)
           old == host.ports
<1>1. /\ List(new) /\ DOMAIN new = DOMAIN old
      /\ \A i \in DOMAIN old :
           /\ old[i] \in ScannedPorts
           /\ new[i] = IF scan.enumerate_services /\ old[i].state = "open"
                       THEN EnumeratePort(host.peers, old[i]) ELSE old[i]
  BY HostsFacts, EnumeratedIs
<1>2. ToSet(Open(Assessed(scan, host))) = {port \in ToSet(new) : port.state = "open"}
  BY <1>1, AssessedIsSound, OpenIs
<1> HIDE DEF new, old
<1>3. ASSUME NEW i \in DOMAIN old
      PROVE  /\ new[i].state = old[i].state
             /\ old[i].state = "open" =>
                  (flag \in new[i].flags <=> /\ scan.enumerate_services
                                             /\ flag \in Probe(host.peers, old[i].port).flags)
  <2>1. old[i].flags = {}
    BY <1>1 DEF ScannedPorts
  <2>2. CASE scan.enumerate_services /\ old[i].state = "open"
    BY <1>1, <2>2, EnumeratePortIs
  <2>3. CASE ~(scan.enumerate_services /\ old[i].state = "open")
    BY <1>1, <2>1, <2>3
  <2>4. QED
    BY <2>2, <2>3
<1>4. \A port : port \in ToSet(new) <=> \E i \in DOMAIN old : port = new[i]
  BY <1>1 DEF ToSet
<1>5. \A port : port \in ToSet(old) <=> \E i \in DOMAIN old : port = old[i]
  BY DEF ToSet
<1>6. QED
  BY <1>2, <1>3, <1>4, <1>5 DEF old, Raised

\* A reaction is the first that the answer's words call for.
LEMMA ExchangeIs ==
  ASSUME NEW peer, NEW request, NEW reactions, DOMAIN reactions \subseteq Nat,
         1 \in DOMAIN reactions, \A i \in DOMAIN reactions : i >= 1
  PROVE  LET flags == Exchange(peer, request, reactions).flags
             heard == reactions[1].marker \in peer.says[request].words \cup {""}
         IN  /\ InTime(peer, request) /\ heard => flags = reactions[1].flags
             /\ \/ flags = {}
                \/ InTime(peer, request) /\ heard /\ flags = reactions[1].flags
                \/ \E i \in DOMAIN reactions \ {1} : flags = reactions[i].flags
<1> DEFINE words == peer.says[request].words \cup {""}
           fits == {i \in DOMAIN reactions : reactions[i].marker \in words}
           x == Exchange(peer, request, reactions)
<1>1. x = IF ~InTime(peer, request) \/ fits = {} THEN Nothing
          ELSE Reaction(reactions[Min(fits)], peer.says[request])
  BY DEF Exchange
<1>2. Nothing.flags = {} /\ \A r, said : Reaction(r, said).flags = r.flags
  BY DEF Nothing, Reaction, Out
<1> HIDE DEF words, x
<1>3. ASSUME fits # {}
      PROVE  Min(fits) \in fits /\ (1 \in fits => Min(fits) = 1)
  BY <1>3, MinOfNaturals
<1>4. CASE ~InTime(peer, request) \/ fits = {}
  <2>1. x.flags = {}
    BY ONLY <1>1, <1>2, <1>4, Zenon
  <2>2. InTime(peer, request) => reactions[1].marker \notin words
    BY <1>4
  <2>3. QED
    BY ONLY <2>1, <2>2, Zenon DEF x, words
<1>5. CASE InTime(peer, request) /\ fits # {}
  <2> DEFINE k == Min(fits)
  <2>1. k \in DOMAIN reactions /\ reactions[k].marker \in words /\ (reactions[1].marker \in words => k = 1)
    BY <1>3, <1>5
  <2> HIDE DEF fits, k
  <2>2. x.flags = reactions[k].flags
    BY ONLY <1>1, <1>2, <1>5, Zenon DEF k
  <2>3. QED
    BY <1>5, <2>1, <2>2 DEF x, words
<1>6. QED
  BY <1>4, <1>5

\* The parts of a reaction that the exchange reads.
LEMMA ReactionFlags ==
  ASSUME NEW marker, NEW name, NEW label, NEW flags
  PROVE  /\ On(marker, label, flags).flags = flags /\ On(marker, label, flags).marker = marker
         /\ Names(marker, name, flags).flags = flags /\ Names(marker, name, flags).marker = marker
         /\ Else(label).flags = {}
BY DEF On, Names, Else

\* The reactions to an exchange, and those that raise none of the three flags.
Reactive(reactions) == /\ DOMAIN reactions \subseteq Nat /\ 1 \in DOMAIN reactions
                       /\ \A i \in DOMAIN reactions : i >= 1
Unflagged(r) == /\ "smbv1" \notin r.flags /\ "anonymous_login" \notin r.flags
                /\ "unauthenticated" \notin r.flags
Unflagging(reactions) == Reactive(reactions) /\ \A i \in DOMAIN reactions : Unflagged(reactions[i])

\* An exchange none of whose reactions raises a flag raises none.
LEMMA UnflaggedStays ==
  ASSUME NEW peer, NEW request, NEW reactions, Unflagging(reactions)
  PROVE  Unflagged(Exchange(peer, request, reactions))
BY ExchangeIs DEF Unflagging, Reactive, Unflagged

\* Where only the first reaction raises a flag, it is raised exactly by an
\* answer in time with that reaction's marker.
LEMMA FirstFlag ==
  ASSUME NEW peer, NEW request, NEW reactions, Reactive(reactions), NEW flag,
         NEW first, reactions[1] = first, NEW marker, first.marker = marker, marker # "", first.flags = {flag},
         \A i \in DOMAIN reactions \ {1} : Unflagged(reactions[i]),
         flag \in {"smbv1", "anonymous_login", "unauthenticated"}
  PROVE  LET flags == Exchange(peer, request, reactions).flags
         IN  /\ flag \in flags <=> HeardIn(peer, request, marker)
             /\ \A other \in {"smbv1", "anonymous_login", "unauthenticated"} \ {flag} : other \notin flags
<1> DEFINE x == Exchange(peer, request, reactions).flags
           time == InTime(peer, request)
           words == peer.says[request].words
<1>1. /\ time /\ marker \in words \cup {""} => x = {flag}
      /\ \/ x = {}
         \/ time /\ marker \in words \cup {""} /\ x = {flag}
         \/ \E i \in DOMAIN reactions \ {1} : x = reactions[i].flags
  BY ExchangeIs DEF Reactive
<1>2. \A i \in DOMAIN reactions \ {1} : reactions[i].flags \cap {"smbv1", "anonymous_login", "unauthenticated"} = {}
  BY DEF Unflagged
<1> HIDE DEF x, time, words
<1>3. flag \in x <=> time /\ marker \in words
  BY <1>1, <1>2
<1>4. \A other \in {"smbv1", "anonymous_login", "unauthenticated"} \ {flag} : other \notin x
  BY <1>1, <1>2
<1>5. QED
  BY ONLY <1>3, <1>4, Zenon DEF x, time, words, HeardIn

\* A list of one reaction.
LEMMA Reactions1 == ASSUME NEW a PROVE Reactive(<<a>>) /\ DOMAIN <<a>> = {1} /\ <<a>>[1] = a
BY DEF Reactive
\* A list of two.
LEMMA Reactions2 ==
  ASSUME NEW a, NEW b
  PROVE  Reactive(<<a, b>>) /\ DOMAIN <<a, b>> = {1, 2} /\ <<a, b>>[1] = a /\ <<a, b>>[2] = b
BY DEF Reactive
\* A list of three.
LEMMA Reactions3 ==
  ASSUME NEW a, NEW b, NEW c
  PROVE  /\ Reactive(<<a, b, c>>) /\ DOMAIN <<a, b, c>> = {1, 2, 3}
         /\ <<a, b, c>>[1] = a /\ <<a, b, c>>[2] = b /\ <<a, b, c>>[3] = c
BY DEF Reactive

\* Reactions made without flags.
LEMMA UnflaggedKinds ==
  ASSUME NEW marker, NEW name, NEW label
  PROVE  /\ Unflagged(On(marker, label, {})) /\ Unflagged(Names(marker, name, {})) /\ Unflagged(Else(label))
         /\ Unflagged(On(marker, label, {"smbv2"})) /\ Unflagged(Nothing)
BY DEF Unflagged, On, Names, Else, Nothing, Out

\* probe_smb says smbv1 exactly when the answer does.
LEMMA SmbSigns ==
  ASSUME NEW peer
  PROVE  LET flags == Exchange(peer, "ask", SmbReactions).flags
         IN  /\ "smbv1" \in flags <=> HeardIn(peer, "ask", "SMB 1")
             /\ "anonymous_login" \notin flags /\ "unauthenticated" \notin flags
<1> DEFINE a == On("SMB 1", Label({"smb"}, <<1>>), {"smbv1"})
           b == On("SMB 2", Label({"smb"}, <<2, 3>>), {"smbv2"})
           c == Else(Label({"smb"}, <<>>))
           r == <<a, b, c>>
<1>1. SmbReactions = r
  BY DEF SmbReactions
<1>2. Unflagged(b) /\ Unflagged(c)
  BY UnflaggedKinds
<1>3. a.marker = "SMB 1" /\ a.flags = {"smbv1"}
  <2> DEFINE marker == "SMB 1"
             label == Label({"smb"}, <<1>>)
             flags == {"smbv1"}
  <2>1. a = On(marker, label, flags)
    OBVIOUS
  <2> HIDE DEF a, marker, label, flags
  <2>2. a.marker = marker /\ a.flags = flags
    BY ONLY <2>1 DEF On
  <2>3. QED
    BY ONLY <2>2 DEF marker, flags
<1> HIDE DEF a, b, c
<1>4. Reactive(r) /\ DOMAIN r = {1, 2, 3} /\ r[1] = a /\ r[2] = b /\ r[3] = c
  BY Reactions3
<1> HIDE DEF r
<1>5. \A i \in DOMAIN r \ {1} : Unflagged(r[i])
  BY <1>2, <1>4
<1> DEFINE x == Exchange(peer, "ask", r).flags
<1>6. /\ "smbv1" \in x <=> HeardIn(peer, "ask", "SMB 1")
      /\ \A other \in {"smbv1", "anonymous_login", "unauthenticated"} \ {"smbv1"} : other \notin x
  BY ONLY <1>3, <1>4, <1>5, FirstFlag
<1>7. "anonymous_login" \notin x /\ "unauthenticated" \notin x
  BY ONLY <1>6
<1>8. QED
  BY ONLY <1>1, <1>6, <1>7, Zenon

\* probe_redis says unauthenticated exactly when the answer has the version of
\* the server.
LEMMA RedisSigns ==
  ASSUME NEW peer
  PROVE  LET flags == Exchange(peer, "ask", RedisReactions).flags
         IN  /\ "unauthenticated" \in flags <=>
                  HeardIn(peer, "ask", "redis_version")
             /\ "anonymous_login" \notin flags /\ "smbv1" \notin flags
<1> DEFINE a == Names("redis_version", "redis", {"unauthenticated"})
           b == Else(Label({"redis"}, <<>>))
           r == <<a, b>>
<1>1. RedisReactions = r
  BY DEF RedisReactions
<1>2. Unflagged(b)
  BY UnflaggedKinds
<1>3. a.marker = "redis_version" /\ a.flags = {"unauthenticated"}
  <2> DEFINE marker == "redis_version"
             label == "redis"
             flags == {"unauthenticated"}
  <2>1. a = Names(marker, label, flags)
    OBVIOUS
  <2> HIDE DEF a, marker, label, flags
  <2>2. a.marker = marker /\ a.flags = flags
    BY ONLY <2>1 DEF Names
  <2>3. QED
    BY ONLY <2>2 DEF marker, flags
<1> HIDE DEF a, b
<1>4. Reactive(r) /\ DOMAIN r = {1, 2} /\ r[1] = a /\ r[2] = b
  BY Reactions2
<1> HIDE DEF r
<1>5. \A i \in DOMAIN r \ {1} : Unflagged(r[i])
  BY <1>2, <1>4
<1> DEFINE x == Exchange(peer, "ask", r).flags
<1>6. /\ "unauthenticated" \in x <=> HeardIn(peer, "ask", "redis_version")
      /\ \A other \in {"smbv1", "anonymous_login", "unauthenticated"} \ {"unauthenticated"} : other \notin x
  BY ONLY <1>3, <1>4, <1>5, FirstFlag
<1>7. "anonymous_login" \notin x /\ "smbv1" \notin x
  BY ONLY <1>6
<1>8. QED
  BY ONLY <1>1, <1>6, <1>7, Zenon

\* probe_mongodb says unauthenticated exactly when the answer is an ok.
LEMMA MongodbSigns ==
  ASSUME NEW peer
  PROVE  LET flags == Exchange(peer, "ask", MongodbReactions).flags
         IN  /\ "unauthenticated" \in flags <=> HeardIn(peer, "ask", "ok")
             /\ "anonymous_login" \notin flags /\ "smbv1" \notin flags
<1> DEFINE a == On("ok", Label({"mongodb"}, <<>>), {"unauthenticated"})
           b == Else(Label({"mongodb"}, <<>>))
           r == <<a, b>>
<1>1. MongodbReactions = r
  BY DEF MongodbReactions
<1>2. Unflagged(b)
  BY UnflaggedKinds
<1>3. a.marker = "ok" /\ a.flags = {"unauthenticated"}
  <2> DEFINE marker == "ok"
             label == Label({"mongodb"}, <<>>)
             flags == {"unauthenticated"}
  <2>1. a = On(marker, label, flags)
    OBVIOUS
  <2> HIDE DEF a, marker, label, flags
  <2>2. a.marker = marker /\ a.flags = flags
    BY ONLY <2>1 DEF On
  <2>3. QED
    BY ONLY <2>2 DEF marker, flags
<1> HIDE DEF a, b
<1>4. Reactive(r) /\ DOMAIN r = {1, 2} /\ r[1] = a /\ r[2] = b
  BY Reactions2
<1> HIDE DEF r
<1>5. \A i \in DOMAIN r \ {1} : Unflagged(r[i])
  BY <1>2, <1>4
<1> DEFINE x == Exchange(peer, "ask", r).flags
<1>6. /\ "unauthenticated" \in x <=> HeardIn(peer, "ask", "ok")
      /\ \A other \in {"smbv1", "anonymous_login", "unauthenticated"} \ {"unauthenticated"} : other \notin x
  BY ONLY <1>3, <1>4, <1>5, FirstFlag
<1>7. "anonymous_login" \notin x /\ "smbv1" \notin x
  BY ONLY <1>6
<1>8. QED
  BY ONLY <1>1, <1>6, <1>7, Zenon

\* The other exchanges raise none of the three flags.
LEMMA OtherReactions ==
  /\ Unflagging(LdapReactions) /\ Unflagging(KerberosReactions) /\ Unflagging(OracleReactions)
  /\ Unflagging(MysqlReactions) /\ Unflagging(PostgresReactions) /\ Unflagging(ElasticsearchReactions)
  /\ Unflagging(MemcachedReactions) /\ Unflagging(VncReactions) /\ Unflagging(RdpReactions)
  /\ Unflagging(MssqlReactions)
<1>1. ASSUME NEW a, Unflagged(a) PROVE Unflagging(<<a>>)
  BY <1>1, Reactions1 DEF Unflagging
<1>2. ASSUME NEW a, Unflagged(a), NEW b, Unflagged(b) PROVE Unflagging(<<a, b>>)
  BY <1>2, Reactions2 DEF Unflagging
<1>3. Unflagging(LdapReactions) /\ Unflagging(OracleReactions) /\ Unflagging(PostgresReactions)
  BY <1>1, UnflaggedKinds, Zenon DEF LdapReactions, OracleReactions, PostgresReactions
<1>4. /\ Unflagging(MemcachedReactions) /\ Unflagging(VncReactions) /\ Unflagging(RdpReactions)
      /\ Unflagging(MssqlReactions)
  BY <1>1, UnflaggedKinds, Zenon DEF MemcachedReactions, VncReactions, RdpReactions, MssqlReactions
<1>5. Unflagging(KerberosReactions) /\ Unflagging(MysqlReactions) /\ Unflagging(ElasticsearchReactions)
  BY <1>2, UnflaggedKinds, Zenon DEF KerberosReactions, MysqlReactions, ElasticsearchReactions
<1>6. QED
  BY <1>3, <1>4, <1>5

\* What the anonymous login of a server that answers at all is read from.
FtpAsSaid(peer) ==
  /\ "anonymous_login" \in ProbeFtp(peer).flags =>
       \E request \in {"USER", "PASS"} : Signs(peer, request, {"230", "logged in"})
  /\ peer.lag = 0 /\ Signs(peer, "PASS", {"230"}) => "anonymous_login" \in ProbeFtp(peer).flags

\* An anonymous login is read from the answer to PASS, or to USER when answers
\* come one read late, whether or not FEAT was sent in between.
LEMMA FtpSigns ==
  ASSUME NEW peer, peer.lag \in {0, 1}
  PROVE  FtpAsSaid(peer)
<1> DEFINE asks == "ftp" \in Greeting(peer).words
           sent == IF asks THEN <<"", "FEAT", "USER", "PASS">> ELSE <<"", "USER", "PASS">>
           features == IF asks THEN ReadBanner(peer, sent, 2) ELSE NoText
           login == ReadBanner(peer, sent, Len(sent))
           flags == ProbeFtp(peer).flags
<1>1. flags = FtpFlags(features, login)
  BY DEF ProbeFtp, Out
<1>2. "anonymous_login" \in FtpFlags(features, login) <=> {"230", "logged in"} \cap login.words # {}
  <2> HIDE DEF features, login
  <2> QED
    BY DEF FtpFlags
<1>3. login = Answer(peer, IF peer.lag = 0 THEN "PASS" ELSE "USER")
  <2>1. /\ Len(sent) \in {3, 4} /\ DOMAIN sent = 1..Len(sent)
        /\ sent[Len(sent)] = "PASS" /\ sent[Len(sent) - 1] = "USER"
    <3> HIDE DEF asks
    <3>1. CASE asks
      <4> DEFINE q == <<"", "FEAT", "USER", "PASS">>
      <4>1. Len(q) = 4 /\ DOMAIN q = 1..4 /\ q[4] = "PASS" /\ q[3] = "USER"
        OBVIOUS
      <4>2. sent = q
        BY <3>1
      <4> HIDE DEF sent, q
      <4>3. Len(sent) = 4 /\ DOMAIN sent = 1..4 /\ sent[4] = "PASS" /\ sent[3] = "USER"
        BY ONLY <4>1, <4>2, Zenon
      <4>4. 4 - 1 = 3
        OBVIOUS
      <4>5. QED
        BY ONLY <4>3, <4>4, Zenon
    <3>2. CASE ~asks
      <4> DEFINE q == <<"", "USER", "PASS">>
      <4>1. Len(q) = 3 /\ DOMAIN q = 1..3 /\ q[3] = "PASS" /\ q[2] = "USER"
        OBVIOUS
      <4>2. sent = q
        BY <3>2
      <4> HIDE DEF sent, q
      <4>3. Len(sent) = 3 /\ DOMAIN sent = 1..3 /\ sent[3] = "PASS" /\ sent[2] = "USER"
        BY ONLY <4>1, <4>2, Zenon
      <4>4. 3 - 1 = 2
        OBVIOUS
      <4>5. QED
        BY ONLY <4>3, <4>4, Zenon
    <3>3. QED
      BY <3>1, <3>2
  <2> HIDE DEF sent
  <2> DEFINE n == Len(sent)
             j == n - peer.lag
  <2>2. login = IF j \in DOMAIN sent THEN Answer(peer, sent[j]) ELSE NoText
    BY DEF ReadBanner
  <2>3. j \in DOMAIN sent /\ sent[j] = IF peer.lag = 0 THEN "PASS" ELSE "USER"
    BY <2>1
  <2> HIDE DEF j, login
  <2>4. QED
    BY ONLY <2>2, <2>3, Zenon
<1>4. \A request : Answer(peer, request).words =
                     IF request \in DOMAIN peer.says THEN peer.says[request].words ELSE {}
  BY Zenon DEF Answer, NoText
<1> HIDE DEF login, features, flags
<1>5. "anonymous_login" \in flags <=> {"230", "logged in"} \cap login.words # {}
  BY ONLY <1>1, <1>2
<1>6. \A request, words : Signs(peer, request, words) <=> words \cap Answer(peer, request).words # {}
  <2> SUFFICES ASSUME NEW request, NEW words
               PROVE  Signs(peer, request, words) <=> words \cap Answer(peer, request).words # {}
    OBVIOUS
  <2> DEFINE said == peer.says[request].words
             c == request \in DOMAIN peer.says
  <2>1. Signs(peer, request, words) <=> c /\ words \cap said # {}
    BY Zenon DEF Signs
  <2>2. Answer(peer, request).words = IF c THEN said ELSE {}
    BY <1>4, Zenon
  <2> HIDE DEF said, c
  <2>3. QED
    BY ONLY <2>1, <2>2
<1>7. QED
  <2> DEFINE user == Answer(peer, "USER").words
             pass == Answer(peer, "PASS").words
  <2>1. peer.lag = 0 => login.words = pass
    BY <1>3
  <2>2. peer.lag # 0 => login.words = user
    BY <1>3
  <2>3. /\ Signs(peer, "USER", {"230", "logged in"}) <=> {"230", "logged in"} \cap user # {}
        /\ Signs(peer, "PASS", {"230", "logged in"}) <=> {"230", "logged in"} \cap pass # {}
        /\ Signs(peer, "PASS", {"230"}) <=> {"230"} \cap pass # {}
    BY <1>6
  <2> HIDE DEF user, pass
  <2>4. "anonymous_login" \in flags =>
          Signs(peer, "USER", {"230", "logged in"}) \/ Signs(peer, "PASS", {"230", "logged in"})
    BY ONLY <1>5, <2>1, <2>2, <2>3
  <2>5. peer.lag = 0 /\ Signs(peer, "PASS", {"230"}) => "anonymous_login" \in flags
    BY ONLY <1>5, <2>1, <2>3
  <2>6. QED
    BY ONLY <2>4, <2>5 DEF flags, FtpAsSaid

\* probe_ftp raises neither of the other two flags.
LEMMA FtpUnflagged ==
  ASSUME NEW peer
  PROVE  "smbv1" \notin ProbeFtp(peer).flags /\ "unauthenticated" \notin ProbeFtp(peer).flags
<1>1. \A features, login : "smbv1" \notin FtpFlags(features, login) /\ "unauthenticated" \notin FtpFlags(features, login)
  BY DEF FtpFlags
<1> DEFINE asks == "ftp" \in Greeting(peer).words
           sent == IF asks THEN <<"", "FEAT", "USER", "PASS">> ELSE <<"", "USER", "PASS">>
           features == IF asks THEN ReadBanner(peer, sent, 2) ELSE NoText
           login == ReadBanner(peer, sent, Len(sent))
           flags == ProbeFtp(peer).flags
<1>2. flags = FtpFlags(features, login)
  BY DEF ProbeFtp, Out
<1> HIDE DEF features, login, flags
<1>3. "smbv1" \notin flags /\ "unauthenticated" \notin flags
  BY ONLY <1>1, <1>2, Zenon
<1>4. QED
  BY ONLY <1>3 DEF flags

\* The probes that raise none of the three flags, whoever answers.
LEMMA OtherProbes ==
  ASSUME NEW peer
  PROVE  /\ Unflagged(ProbeSsh(peer)) /\ Unflagged(ProbeTelnet(peer)) /\ Unflagged(ProbeMail(peer))
         /\ Unflagged(ProbeGeneric(peer)) /\ Unflagged(PlainMail) /\ Unflagged(Nothing)
<1>1. \A version, banners : Unflagged(Out(version, banners, {}))
  BY DEF Unflagged, Out
<1>2. Unflagged(PlainMail) /\ Unflagged(Nothing)
  BY <1>1, Zenon DEF PlainMail, Nothing
<1>3. Unflagged(ProbeSsh(peer))
  BY <1>1, Zenon DEF ProbeSsh
<1>4. Unflagged(ProbeMail(peer))
  BY <1>1, <1>2, Zenon DEF ProbeMail
<1>5. Unflagged(ProbeGeneric(peer))
  BY <1>1, <1>2, Zenon DEF ProbeGeneric
<1>6. Unflagged(ProbeTelnet(peer))
  BY <1>1, <1>2, Zenon DEF ProbeTelnet
<1>7. QED
  BY <1>2, <1>3, <1>4, <1>5, <1>6

\* Neither do the exchanges.
LEMMA OtherExchanges ==
  ASSUME NEW peer
  PROVE  /\ Unflagged(Exchange(peer, "ask", LdapReactions)) /\ Unflagged(Exchange(peer, "ask", KerberosReactions))
         /\ Unflagged(Exchange(peer, "ask", OracleReactions)) /\ Unflagged(Exchange(peer, "", MysqlReactions))
         /\ Unflagged(Exchange(peer, "ask", PostgresReactions))
         /\ Unflagged(Exchange(peer, "ask", ElasticsearchReactions))
         /\ Unflagged(Exchange(peer, "ask", MemcachedReactions)) /\ Unflagged(Exchange(peer, "", VncReactions))
         /\ Unflagged(Exchange(peer, "ask", RdpReactions)) /\ Unflagged(Exchange(peer, "ask", MssqlReactions))
<1>1. \A request, reactions : Unflagging(reactions) => Unflagged(Exchange(peer, request, reactions))
  BY UnflaggedStays
<1>2. QED
  BY ONLY <1>1, OtherReactions, Zenon

\* The dispatcher.
LEMMA ProbeElsewhere ==
  ASSUME NEW peers, NEW port \in Nat, port \notin {21, 445, 6379, 27017} \/ port \notin DOMAIN peers
  PROVE  Unflagged(Probe(peers, port))
<1> DEFINE peer == peers[port]
           out == Probe(peers, port)
           ftp == ProbeFtp(peer)
           ssh == ProbeSsh(peer)
           telnet == ProbeTelnet(peer)
           mail == ProbeMail(peer)
           secure == Exchange(peer, "ask", LdapReactions)
           generic == ProbeGeneric(peer)
           ldap == IF peer.tls THEN secure ELSE Nothing
           smb == Exchange(peer, "ask", SmbReactions)
           kerberos == Exchange(peer, "ask", KerberosReactions)
           oracle == Exchange(peer, "ask", OracleReactions)
           mysql == Exchange(peer, "", MysqlReactions)
           postgres == Exchange(peer, "ask", PostgresReactions)
           redis == Exchange(peer, "ask", RedisReactions)
           mongodb == Exchange(peer, "ask", MongodbReactions)
           elasticsearch == Exchange(peer, "ask", ElasticsearchReactions)
           memcached == Exchange(peer, "ask", MemcachedReactions)
           vnc == Exchange(peer, "", VncReactions)
           rdp == Exchange(peer, "ask", RdpReactions)
           mssql == Exchange(peer, "ask", MssqlReactions)
           plain == PlainMail
           nothing == Nothing
<1>1. out = IF port \in {25, 587, 110, 143} THEN plain
            ELSE IF port = 389 \/ port \notin DOMAIN peers THEN nothing
            ELSE CASE port = 21 -> ftp [] port = 22 -> ssh [] port = 23 -> telnet
                   [] port \in {465, 995, 993} -> mail [] port = 636 -> ldap
                   [] port = 445 -> smb [] port = 88 -> kerberos [] port = 1521 -> oracle
                   [] port = 3306 -> mysql [] port = 5432 -> postgres [] port = 6379 -> redis
                   [] port = 27017 -> mongodb [] port = 9200 -> elasticsearch
                   [] port = 11211 -> memcached [] port = 5900 -> vnc [] port = 3389 -> rdp
                   [] port = 1433 -> mssql [] OTHER -> generic
  BY DEF Probe
<1>2. Unflagged(plain) /\ Unflagged(nothing) /\ Unflagged(ssh) /\ Unflagged(telnet) /\ Unflagged(mail) /\ Unflagged(generic)
  <2>1. \A p : /\ Unflagged(ProbeSsh(p)) /\ Unflagged(ProbeTelnet(p)) /\ Unflagged(ProbeMail(p))
               /\ Unflagged(ProbeGeneric(p)) /\ Unflagged(PlainMail) /\ Unflagged(Nothing)
    BY OtherProbes
  <2> HIDE DEF peer
  <2>2. QED
    BY ONLY <2>1
<1>4. /\ Unflagged(secure) /\ Unflagged(kerberos) /\ Unflagged(oracle) /\ Unflagged(mysql)
      /\ Unflagged(postgres) /\ Unflagged(elasticsearch) /\ Unflagged(memcached) /\ Unflagged(vnc)
      /\ Unflagged(rdp) /\ Unflagged(mssql)
  <2> HIDE DEF peer
  <2>1. Unflagged(secure) /\ Unflagged(kerberos) /\ Unflagged(oracle)
    BY ONLY OtherExchanges, Zenon
  <2>2. Unflagged(mysql) /\ Unflagged(postgres) /\ Unflagged(elasticsearch) /\ Unflagged(memcached)
    BY ONLY OtherExchanges, Zenon
  <2>3. Unflagged(vnc) /\ Unflagged(rdp) /\ Unflagged(mssql)
    BY ONLY OtherExchanges, Zenon
  <2>4. QED
    BY ONLY <2>1, <2>2, <2>3
<1>5. Unflagged(ldap)
  BY ONLY <1>2, <1>4
<1> HIDE DEF peer, out, ftp, ssh, telnet, mail, secure, generic, ldap, smb, kerberos, oracle, mysql, postgres,
             redis, mongodb, elasticsearch, memcached, vnc, rdp, mssql, plain, nothing
<1>6. Unflagged(out)
  BY ONLY <1>1, <1>2, <1>4, <1>5, port \in Nat, port \notin {21, 445, 6379, 27017} \/ port \notin DOMAIN peers
<1>7. QED
  BY ONLY <1>6 DEF out

\* The four ports whose probes raise one of the three flags.
LEMMA ProbeHere ==
  ASSUME NEW peers
  PROVE  /\ 21 \in DOMAIN peers => Probe(peers, 21) = ProbeFtp(peers[21])
         /\ 445 \in DOMAIN peers => Probe(peers, 445) = Exchange(peers[445], "ask", SmbReactions)
         /\ 6379 \in DOMAIN peers => Probe(peers, 6379) = Exchange(peers[6379], "ask", RedisReactions)
         /\ 27017 \in DOMAIN peers => Probe(peers, 27017) = Exchange(peers[27017], "ask", MongodbReactions)
BY DEF Probe

\* What a peer says for a flag to be raised at its port.
OldSmb(peers) == 445 \in DOMAIN peers /\ HeardIn(peers[445], "ask", "SMB 1")
OpenRedis(peers) == 6379 \in DOMAIN peers /\ HeardIn(peers[6379], "ask", "redis_version")
OpenMongodb(peers) == 27017 \in DOMAIN peers /\ HeardIn(peers[27017], "ask", "ok")
OpenFtp(peers) == 21 \in DOMAIN peers /\ "anonymous_login" \in ProbeFtp(peers[21]).flags

\* Who raises each of the three flags.
LEMMA FlagAt ==
  ASSUME NEW peers, NEW n \in Nat
  PROVE  /\ "smbv1" \in Probe(peers, n).flags <=> n = 445 /\ OldSmb(peers)
         /\ "unauthenticated" \in Probe(peers, n).flags <=>
              (n = 6379 /\ OpenRedis(peers)) \/ (n = 27017 /\ OpenMongodb(peers))
         /\ "anonymous_login" \in Probe(peers, n).flags <=> n = 21 /\ OpenFtp(peers)
<1> DEFINE F(m) == Probe(peers, m).flags
           H(m, word) == HeardIn(peers[m], "ask", word)
           in == "anonymous_login" \in ProbeFtp(peers[21]).flags
<1>1. ASSUME 445 \in DOMAIN peers
      PROVE  /\ "smbv1" \in F(445) <=> H(445, "SMB 1")
             /\ "anonymous_login" \notin F(445) /\ "unauthenticated" \notin F(445)
  <2> DEFINE peer == peers[445]
             x == Exchange(peer, "ask", SmbReactions)
             y == Probe(peers, 445)
  <2>1. y = x
    BY ONLY <1>1, ProbeHere
  <2> HIDE DEF peer, y
  <2>2. /\ "smbv1" \in x.flags <=> HeardIn(peer, "ask", "SMB 1")
        /\ "anonymous_login" \notin x.flags /\ "unauthenticated" \notin x.flags
    BY SmbSigns
  <2> HIDE DEF x
  <2>3. /\ "smbv1" \in y.flags <=> HeardIn(peer, "ask", "SMB 1")
        /\ "anonymous_login" \notin y.flags /\ "unauthenticated" \notin y.flags
    BY ONLY <2>1, <2>2, Zenon
  <2>4. QED
    BY ONLY <2>3 DEF y, peer
<1>2. ASSUME 6379 \in DOMAIN peers
      PROVE  /\ "unauthenticated" \in F(6379) <=> H(6379, "redis_version")
             /\ "anonymous_login" \notin F(6379) /\ "smbv1" \notin F(6379)
  <2> DEFINE peer == peers[6379]
             x == Exchange(peer, "ask", RedisReactions)
             y == Probe(peers, 6379)
  <2>1. y = x
    BY ONLY <1>2, ProbeHere
  <2> HIDE DEF peer, y
  <2>2. /\ "unauthenticated" \in x.flags <=> HeardIn(peer, "ask", "redis_version")
        /\ "anonymous_login" \notin x.flags /\ "smbv1" \notin x.flags
    BY RedisSigns
  <2> HIDE DEF x
  <2>3. /\ "unauthenticated" \in y.flags <=> HeardIn(peer, "ask", "redis_version")
        /\ "anonymous_login" \notin y.flags /\ "smbv1" \notin y.flags
    BY ONLY <2>1, <2>2, Zenon
  <2>4. QED
    BY ONLY <2>3 DEF y, peer
<1>3. ASSUME 27017 \in DOMAIN peers
      PROVE  /\ "unauthenticated" \in F(27017) <=> H(27017, "ok")
             /\ "anonymous_login" \notin F(27017) /\ "smbv1" \notin F(27017)
  <2> DEFINE peer == peers[27017]
             x == Exchange(peer, "ask", MongodbReactions)
             y == Probe(peers, 27017)
  <2>1. y = x
    BY ONLY <1>3, ProbeHere
  <2> HIDE DEF peer, y
  <2>2. /\ "unauthenticated" \in x.flags <=> HeardIn(peer, "ask", "ok")
        /\ "anonymous_login" \notin x.flags /\ "smbv1" \notin x.flags
    BY MongodbSigns
  <2> HIDE DEF x
  <2>3. /\ "unauthenticated" \in y.flags <=> HeardIn(peer, "ask", "ok")
        /\ "anonymous_login" \notin y.flags /\ "smbv1" \notin y.flags
    BY ONLY <2>1, <2>2, Zenon
  <2>4. QED
    BY ONLY <2>3 DEF y, peer
<1>4. ASSUME 21 \in DOMAIN peers
      PROVE  /\ "anonymous_login" \in F(21) <=> in
             /\ "unauthenticated" \notin F(21) /\ "smbv1" \notin F(21)
  <2> DEFINE peer == peers[21]
             x == ProbeFtp(peer)
             y == Probe(peers, 21)
  <2>1. y = x
    BY ONLY <1>4, ProbeHere
  <2> HIDE DEF peer, y
  <2>2. /\ "anonymous_login" \in x.flags <=> "anonymous_login" \in ProbeFtp(peer).flags
        /\ "unauthenticated" \notin x.flags /\ "smbv1" \notin x.flags
    BY FtpUnflagged
  <2> HIDE DEF x
  <2>3. /\ "anonymous_login" \in y.flags <=> "anonymous_login" \in ProbeFtp(peer).flags
        /\ "unauthenticated" \notin y.flags /\ "smbv1" \notin y.flags
    BY ONLY <2>1, <2>2, Zenon
  <2>4. QED
    BY ONLY <2>3 DEF y, peer
<1>5. n \notin {21, 445, 6379, 27017} \/ n \notin DOMAIN peers =>
        "smbv1" \notin F(n) /\ "anonymous_login" \notin F(n) /\ "unauthenticated" \notin F(n)
  BY ProbeElsewhere DEF Unflagged
<1> DEFINE on(m) == n = m /\ m \in DOMAIN peers
           h1 == HeardIn(peers[445], "ask", "SMB 1")
           h2 == HeardIn(peers[6379], "ask", "redis_version")
           h3 == HeardIn(peers[27017], "ask", "ok")
           h4 == "anonymous_login" \in ProbeFtp(peers[21]).flags
           s == "smbv1" \in F(n)
           u == "unauthenticated" \in F(n)
           l == "anonymous_login" \in F(n)
           Goal == /\ s <=> on(445) /\ h1
                   /\ u <=> (on(6379) /\ h2) \/ (on(27017) /\ h3)
                   /\ l <=> on(21) /\ h4
<1>6. /\ on(445) => (s <=> h1) /\ ~u /\ ~l
      /\ on(6379) => (u <=> h2) /\ ~s /\ ~l
      /\ on(27017) => (u <=> h3) /\ ~s /\ ~l
      /\ on(21) => (l <=> h4) /\ ~s /\ ~u
  <2>1. ASSUME on(445) PROVE (s <=> h1) /\ ~u /\ ~l
    <3>1. 445 \in DOMAIN peers
      BY ONLY <2>1
    <3> HIDE DEF F
    <3>2. ("smbv1" \in F(445) <=> h1) /\ ~("unauthenticated" \in F(445)) /\ ~("anonymous_login" \in F(445))
      BY ONLY <3>1, <1>1
    <3> HIDE DEF h1
    <3>3. F(n) = F(445)
      BY ONLY <2>1
    <3>4. QED
      BY ONLY <3>2, <3>3
  <2>2. ASSUME on(6379) PROVE (u <=> h2) /\ ~s /\ ~l
    <3>1. 6379 \in DOMAIN peers
      BY ONLY <2>2
    <3> HIDE DEF F
    <3>2. ("unauthenticated" \in F(6379) <=> h2) /\ ~("smbv1" \in F(6379)) /\ ~("anonymous_login" \in F(6379))
      BY ONLY <3>1, <1>2
    <3> HIDE DEF h2
    <3>3. F(n) = F(6379)
      BY ONLY <2>2
    <3>4. QED
      BY ONLY <3>2, <3>3
  <2>3. ASSUME on(27017) PROVE (u <=> h3) /\ ~s /\ ~l
    <3>1. 27017 \in DOMAIN peers
      BY ONLY <2>3
    <3> HIDE DEF F
    <3>2. ("unauthenticated" \in F(27017) <=> h3) /\ ~("smbv1" \in F(27017)) /\ ~("anonymous_login" \in F(27017))
      BY ONLY <3>1, <1>3
    <3> HIDE DEF h3
    <3>3. F(n) = F(27017)
      BY ONLY <2>3
    <3>4. QED
      BY ONLY <3>2, <3>3
  <2>4. ASSUME on(21) PROVE (l <=> h4) /\ ~s /\ ~u
    <3>1. 21 \in DOMAIN peers
      BY ONLY <2>4
    <3> HIDE DEF F
    <3>2. ("anonymous_login" \in F(21) <=> h4) /\ ~("smbv1" \in F(21)) /\ ~("unauthenticated" \in F(21))
      BY ONLY <3>1, <1>4
    <3> HIDE DEF h4
    <3>3. F(n) = F(21)
      BY ONLY <2>4
    <3>4. QED
      BY ONLY <3>2, <3>3
  <2>5. QED
    BY ONLY <2>1, <2>2, <2>3, <2>4, PTL
<1>7. ~on(445) /\ ~on(6379) /\ ~on(27017) /\ ~on(21) => ~s /\ ~u /\ ~l
  <2> HIDE DEF F
  <2> QED
    BY ONLY <1>5
<1>8. /\ on(445) => ~on(6379) /\ ~on(27017) /\ ~on(21)
      /\ on(6379) => ~on(27017) /\ ~on(21)
      /\ on(27017) => ~on(21)
  OBVIOUS
<1>9. QED
  BY ONLY <1>6, <1>7, <1>8, PTL DEF OldSmb, OpenRedis, OpenMongodb, OpenFtp

\* A marker heard in time is a sign given in time.
LEMMA HeardSigns ==
  ASSUME NEW peer, NEW request, NEW word
  PROVE  HeardIn(peer, request, word) <=> peer.lag = 0 /\ Signs(peer, request, {word})
<1> DEFINE said == peer.says[request].words
           d == request \in DOMAIN peer.says
<1>1. HeardIn(peer, request, word) <=> peer.lag = 0 /\ d /\ word \in said
  BY Zenon DEF HeardIn, InTime
<1>2. Signs(peer, request, {word}) <=> d /\ {word} \cap said # {}
  BY Zenon DEF Signs
<1> HIDE DEF said, d
<1>3. QED
  BY ONLY <1>1, <1>2

\* A flag of a host is one that the peer of an open port raised.
LEMMA RaisedAt ==
  ASSUME NEW scan, NEW host, List(host.ports), ToSet(host.ports) \subseteq ScannedPorts
  PROVE  /\ Raised(scan, host, "smbv1") <=> OldSmbHeard(scan, host)
         /\ Raised(scan, host, "unauthenticated") <=>
              RedisHeard(scan, host) \/ MongodbHeard(scan, host)
         /\ Raised(scan, host, "anonymous_login") <=> LoggedIn(scan, host)
<1> DEFINE peers == host.peers
           ports == ToSet(host.ports)
           F(n) == Probe(peers, n).flags
           E == scan.enumerate_services
           h1 == OldSmb(peers)
           h2 == OpenRedis(peers)
           h3 == OpenMongodb(peers)
           h4 == OpenFtp(peers)
           k1 == 445
           k2 == 6379
           k3 == 27017
           k4 == 21
           open(n) == \E port \in ports : port.state = "open" /\ port.port = n
<1>1. \A port \in ports : port.port \in Nat
  BY DEF ScannedPorts
<1>2. \A n : Asked(scan, host, n) <=> E /\ n \in DOMAIN peers /\ open(n)
  BY Zenon DEF Asked, Range, ToSet
<1>3. ASSUME NEW n \in Nat
      PROVE  /\ "smbv1" \in F(n) <=> n = k1 /\ h1
             /\ "unauthenticated" \in F(n) <=> (n = k2 /\ h2) \/ (n = k3 /\ h3)
             /\ "anonymous_login" \in F(n) <=> n = k4 /\ h4
  <2> HIDE DEF peers
  <2> HIDE DEF h1, h2, h3, h4
  <2> QED
    BY ONLY n \in Nat, FlagAt DEF h1, h2, h3, h4
<1>4. /\ Asked(scan, host, k1) <=> E /\ k1 \in DOMAIN peers /\ open(k1)
      /\ Asked(scan, host, k2) <=> E /\ k2 \in DOMAIN peers /\ open(k2)
      /\ Asked(scan, host, k3) <=> E /\ k3 \in DOMAIN peers /\ open(k3)
      /\ Asked(scan, host, k4) <=> E /\ k4 \in DOMAIN peers /\ open(k4)
  <2> HIDE DEF k1, k2, k3, k4, E, peers, ports
  <2>1. \A n : Asked(scan, host, n) <=> E /\ n \in DOMAIN peers /\ \E port \in ports : port.state = "open" /\ port.port = n
    BY ONLY <1>2
  <2>2. Asked(scan, host, k1) <=> E /\ k1 \in DOMAIN peers /\ open(k1)
    BY ONLY <2>1, Zenon
  <2>3. Asked(scan, host, k2) <=> E /\ k2 \in DOMAIN peers /\ open(k2)
    BY ONLY <2>1, Zenon
  <2>4. Asked(scan, host, k3) <=> E /\ k3 \in DOMAIN peers /\ open(k3)
    BY ONLY <2>1, Zenon
  <2>5. Asked(scan, host, k4) <=> E /\ k4 \in DOMAIN peers /\ open(k4)
    BY ONLY <2>1, Zenon
  <2> HIDE DEF open
  <2>6. QED
    BY ONLY <2>2, <2>3, <2>4, <2>5
<1> HIDE DEF peers, ports, F, E, h1, h2, h3, h4, k1, k2, k3, k4
<1>5. (\E port \in ports : port.state = "open" /\ "smbv1" \in F(port.port)) <=> open(k1) /\ h1
  BY ONLY <1>1, <1>3, Zenon
<1>6. (\E port \in ports : port.state = "open" /\ "unauthenticated" \in F(port.port))
        <=> (open(k2) /\ h2) \/ (open(k3) /\ h3)
  BY ONLY <1>1, <1>3, Zenon
<1>7. (\E port \in ports : port.state = "open" /\ "anonymous_login" \in F(port.port)) <=> open(k4) /\ h4
  BY ONLY <1>1, <1>3, Zenon
<1>8. QED
  BY ONLY <1>4, <1>5, <1>6, <1>7, PTL DEF peers, ports, F, E, h1, h2, h3, h4, k1, k2, k3, k4, OldSmb, OpenRedis,
       OpenMongodb, OpenFtp, Raised, OldSmbHeard, RedisHeard, MongodbHeard, GaveSign, LoggedIn

\* Weak services are reported for what they said, and only for that.
THEOREM WeakAuthIsHeardAlways == Spec => []WeakAuthIsHeard
<1>1. IInv => WeakAuthIsHeard
  <2> SUFFICES ASSUME IInv, NEW scan \in Scans, Reported(scan), NEW host \in Range(scan.hosts)
      PROVE  HeardOf(scan, host)
    BY DEF WeakAuthIsHeard
  <2> DEFINE a == Assessed(scan, host)
             weak == {"SMBv1 protocol enabled", "FTP anonymous login enabled", "exposed without authentication"}
             l1 == Listed(host, "SMBv1 protocol enabled") # {}
             l2 == Listed(host, "exposed without authentication") # {}
             l3 == Listed(host, "FTP anonymous login enabled") # {}
             R(flag) == Raised(scan, host, flag)
             p1 == host.peers[445]
             p2 == host.peers[6379]
             p3 == host.peers[27017]
             p4 == host.peers[21]
  <2>1. host \in ToSet(scan.hosts)
    BY DEF Range, ToSet
  <2>2. Sound(a)
    BY <2>1, AssessedIsSound
  <2>3. \A rule : Listed(host, rule) # {} <=> \E e \in ToSet(AnalyzeHost(a, scan.cve_check)) : Rule(e) = rule
    BY <2>1, ListedFrom
  <2>4. \A flag : (\E port \in ToSet(Open(a)) : flag \in port.flags) <=> R(flag)
    BY <2>1, OpenAssessed
  <2> HIDE DEF a
  <2>5. \A rule \in weak : Listed(host, rule) # {} <=>
          \E port \in ToSet(Open(a)) : \E e \in PortIssues(a, port) : Rule(e) = rule
    <3> HIDE DEF weak
    <3>1. \A rule \in weak : (\E e \in ToSet(AnalyzeHost(a, scan.cve_check)) : Rule(e) = rule)
             <=> \E port \in ToSet(Open(a)) : \E e \in PortIssues(a, port) : Rule(e) = rule
      BY ONLY <2>2, AnalyzeAbout, ZenonT(60) DEF weak
    <3>2. QED
      BY ONLY <2>3, <3>1, Zenon
  <2>6. \A port : /\ (\E e \in PortIssues(a, port) : Rule(e) = "SMBv1 protocol enabled") <=> "smbv1" \in port.flags
                  /\ (\E e \in PortIssues(a, port) : Rule(e) = "FTP anonymous login enabled")
                       <=> "anonymous_login" \in port.flags
                  /\ (\E e \in PortIssues(a, port) : Rule(e) = "exposed without authentication")
                       <=> "unauthenticated" \in port.flags
    BY PortIssueRules
  <2>7. l1 <=> R("smbv1")
    BY ONLY <2>4, <2>5, <2>6, Zenon
  <2>8. l2 <=> R("unauthenticated")
    BY ONLY <2>4, <2>5, <2>6, Zenon
  <2>9. l3 <=> R("anonymous_login")
    BY ONLY <2>4, <2>5, <2>6, Zenon
  <2>10. List(host.ports) /\ ToSet(host.ports) \subseteq ScannedPorts
    <3>1. HostOk(host)
      BY <2>1, HostsFacts
    <3>2. QED
      BY <3>1, SeqIsList DEF HostOk
  <2>11. /\ R("smbv1") <=> OldSmbHeard(scan, host)
         /\ R("unauthenticated") <=>
              RedisHeard(scan, host) \/ MongodbHeard(scan, host)
         /\ R("anonymous_login") <=> LoggedIn(scan, host)
    BY ONLY <2>10, RaisedAt, Zenon
  <2> HIDE DEF l1, l2, l3, p1, p2, p3, p4
  <2>12. /\ HeardIn(p1, "ask", "SMB 1") <=> p1.lag = 0 /\ Signs(p1, "ask", {"SMB 1"})
         /\ HeardIn(p2, "ask", "redis_version") <=> p2.lag = 0 /\ Signs(p2, "ask", {"redis_version"})
         /\ HeardIn(p3, "ask", "ok") <=> p3.lag = 0 /\ Signs(p3, "ask", {"ok"})
    BY HeardSigns
  <2>13. Asked(scan, host, 21) => p4.lag \in {0, 1}
    <3>1. \A n \in DOMAIN host.peers : host.peers[n].lag \in {0, 1}
      BY HostsAssumption
    <3>2. Asked(scan, host, 21) => 21 \in DOMAIN host.peers
      BY DEF Asked
    <3>3. QED
      BY ONLY <3>1, <3>2, Zenon DEF p4
  <2>14. ASSUME NEW peer, peer.lag \in {0, 1} PROVE FtpAsSaid(peer)
    BY ONLY <2>14, FtpSigns
  <2>15. Asked(scan, host, 21) => FtpAsSaid(p4)
    BY ONLY <2>13, <2>14
  <2>16. QED
    BY ONLY <2>7, <2>8, <2>9, <2>11, <2>12, <2>15, PTL
       DEF HeardOf, FtpAsSaid, OldSmbHeard, RedisHeard, MongodbHeard, GaveSign, LoggedIn, l1, l2, l3, p1, p2, p3, p4
<1>2. QED
  BY <1>1, Inductive, PTL

-----------------------------------------------------------------------------
(* Resolvers and CDNs. *)
\* The servers whose reply to a query ends it.
Ending(net, name, type) ==
  {server \in STRING : <<server, name, type>> \in DOMAIN net /\ net[<<server, name, type>>] # Parsed(<<>>)}

\* The reply is that of the first server that has one, or nothing.
FirstReply(net, servers, name, type, reply) ==
  /\ ToSet(servers) \cap Ending(net, name, type) = {} => reply = Parsed(<<>>)
  /\ ToSet(servers) \cap Ending(net, name, type) # {} => \E s : IsFirst(servers, Ending(net, name, type), s)
  /\ \A s : IsFirst(servers, Ending(net, name, type), s) =>
       <<s, name, type>> \in DOMAIN net /\ reply = net[<<s, name, type>>]

LEMMA DnsQueryIs ==
  ASSUME NEW net, NEW servers \in Seq(STRING), NEW name, NEW type
  PROVE  FirstReply(net, servers, name, type, DnsQuery(net, servers, name, type))
<1> DEFINE A == Ending(net, name, type)
           asked(i) == <<servers[i], name, type>>
           ends == {i \in DOMAIN servers : asked(i) \in DOMAIN net /\ net[asked(i)] # Parsed(<<>>)}
           reply == DnsQuery(net, servers, name, type)
           none == Parsed(<<>>)
           Said(s) == net[<<s, name, type>>]
           m == Min(ends)
<1>1. reply = IF ends = {} THEN none ELSE Said(servers[m])
  BY Zenon DEF DnsQuery
<1>2. /\ DOMAIN servers \subseteq Nat /\ \A i \in DOMAIN servers : servers[i] \in STRING
      /\ ToSet(servers) = {servers[i] : i \in DOMAIN servers}
  BY LenProperties DEF ToSet
<1>3. \A i : i \in ends <=> i \in DOMAIN servers /\ servers[i] \in A
  BY <1>2 DEF Ending
<1>4. \A s \in A : <<s, name, type>> \in DOMAIN net
  BY DEF Ending
<1>5. ends # {} => m \in ends /\ \A i \in ends : m <= i
  <2>1. ends \in SUBSET Nat
    BY <1>2
  <2> HIDE DEF ends
  <2>2. QED
    BY <2>1, MinOfNaturals
<1> HIDE DEF A, ends, reply, none, m, Said
<1>6. ToSet(servers) \cap A = {} => reply = none
  BY ONLY <1>1, <1>2, <1>3
<1>7. ToSet(servers) \cap A # {} => \E s : IsFirst(servers, A, s)
  <2> SUFFICES ASSUME ToSet(servers) \cap A # {} PROVE \E s : IsFirst(servers, A, s)
    OBVIOUS
  <2>1. ends # {}
    BY ONLY <1>2, <1>3, ToSet(servers) \cap A # {}
  <2>2. m \in DOMAIN servers /\ servers[m] \in A /\ \A j \in DOMAIN servers : j < m => servers[j] \notin A
    BY ONLY <1>2, <1>3, <1>5, <2>1
  <2>3. IsFirst(servers, A, servers[m])
    BY ONLY <2>2 DEF IsFirst
  <2>4. QED
    BY ONLY <2>3
<1>8. ASSUME NEW s, IsFirst(servers, A, s) PROVE s \in A /\ reply = Said(s)
  <2>1. PICK i \in DOMAIN servers : /\ servers[i] = s /\ s \in A
                                    /\ \A j \in DOMAIN servers : j < i => servers[j] \notin A
    BY ONLY <1>8 DEF IsFirst
  <2>2. i \in ends /\ m \in DOMAIN servers /\ servers[m] \in A /\ m <= i
    BY ONLY <1>3, <1>5, <2>1
  <2>3. m = i
    BY ONLY <1>2, <2>1, <2>2
  <2>4. QED
    BY ONLY <1>1, <2>1, <2>2, <2>3
<1>9. QED
  BY ONLY <1>4, <1>6, <1>7, <1>8, Zenon DEF A, reply, none, Said, FirstReply

\* Servers that never say anything are as good as not asked.
LEMMA SameReply ==
  ASSUME NEW net, NEW servers \in Seq(STRING), NEW name, NEW type
  PROVE  LET speaking == Kept(servers, {server \in ToSet(servers) : Speaks(net, server)})
         IN  DnsQuery(net, speaking, name, type) = DnsQuery(net, servers, name, type)
<1> DEFINE T == {server \in ToSet(servers) : Speaks(net, server)}
           speaking == Kept(servers, T)
           A == Ending(net, name, type)
           one == DnsQuery(net, speaking, name, type)
           all == DnsQuery(net, servers, name, type)
           Said(s) == net[<<s, name, type>>]
<1>1. ToSet(servers) \cap A \subseteq T
  <2> SUFFICES ASSUME NEW s \in ToSet(servers), s \in A PROVE Speaks(net, s)
    OBVIOUS
  <2> DEFINE q == <<s, name, type>>
  <2>1. q \in DOMAIN net /\ net[q] # Parsed(<<>>)
    BY Zenon DEF Ending
  <2>2. q[1] = s
    OBVIOUS
  <2> HIDE DEF q
  <2>3. QED
    BY <2>1, <2>2 DEF Speaks
<1>2. speaking \in Seq(STRING) /\ ToSet(speaking) = ToSet(servers) \cap T
  <2> HIDE DEF T
  <2> QED
    BY KeptType, KeptElements
<1>3. \A s : IsFirst(speaking, A, s) <=> IsFirst(servers, A, s)
  <2> HIDE DEF T, A
  <2> QED
    BY <1>1, FirstKept
<1> HIDE DEF T, speaking
<1>4. ToSet(speaking) \cap A = ToSet(servers) \cap A
  BY <1>1, <1>2
<1>5. FirstReply(net, servers, name, type, all)
  BY DnsQueryIs
<1>6. FirstReply(net, speaking, name, type, one)
  BY <1>2, DnsQueryIs
<1>7. \A s : IsFirst(speaking, A, s) => one = Said(s)
  BY ONLY <1>6, Zenon DEF FirstReply
<1>8. /\ \A s : IsFirst(servers, A, s) => all = Said(s)
      /\ ToSet(servers) \cap A = {} => all = Parsed(<<>>)
  BY ONLY <1>5, Zenon DEF FirstReply
<1>9. /\ ToSet(servers) \cap A # {} => \E s : IsFirst(servers, A, s)
      /\ ToSet(speaking) \cap A = {} => one = Parsed(<<>>)
  BY ONLY <1>5, <1>6, Zenon DEF FirstReply
<1> HIDE DEF one, all, A, Said
<1>10. one = all
  BY ONLY <1>3, <1>4, <1>7, <1>8, <1>9
<1>11. QED
  BY ONLY <1>10, Zenon DEF one, all, speaking, T

\* An address in a range has a provider's name.
LEMMA FrontedHasCdn ==
  ASSUME NEW host, Fronted(host)
  PROVE  DetectCdn(host.ip) # ""
<1> DEFINE ip == host.ip
           in == {i \in DOMAIN CDN_IP_RANGES : ip \in CDN_IP_RANGES[i].addresses}
<1>1. /\ DOMAIN CDN_IP_RANGES \subseteq Nat
      /\ \A i \in DOMAIN CDN_IP_RANGES : CDN_IP_RANGES[i].name \in STRING \ {""}
  <2> DEFINE S == [name : STRING \ {""}, addresses : SUBSET STRING]
  <2>1. CDN_IP_RANGES \in Seq(S)
    BY DnsAssumption
  <2>2. \A r \in S : r.name \in STRING \ {""}
    OBVIOUS
  <2> HIDE DEF S
  <2>3. DOMAIN CDN_IP_RANGES \subseteq Nat /\ \A i \in DOMAIN CDN_IP_RANGES : CDN_IP_RANGES[i] \in S
    BY ONLY <2>1, LenProperties
  <2>4. QED
    BY ONLY <2>2, <2>3
<1>2. in # {} /\ in \in SUBSET Nat
  BY <1>1 DEF Fronted
<1>3. Min(in) \in DOMAIN CDN_IP_RANGES
  <2>1. in \subseteq DOMAIN CDN_IP_RANGES
    OBVIOUS
  <2> HIDE DEF in
  <2>2. QED
    BY <1>2, <2>1, MinOfNaturals
<1>4. DetectCdn(ip) = CDN_IP_RANGES[Min(in)].name
  BY <1>2 DEF DetectCdn
<1> HIDE DEF ip, in
<1>5. DetectCdn(ip) # ""
  BY ONLY <1>1, <1>3, <1>4
<1>6. QED
  BY ONLY <1>5, Zenon DEF ip

\* Where every reply can be parsed, the lookup gets to the test for a CDN.
LEMMA LookupEnds ==
  ASSUME NEW net, Malformed \notin Range(net), NEW servers \in Seq(STRING), NEW hostname
  PROVE  ResolveHostRecords(net, servers, hostname) # Malformed
<1>1. \A answers : Parsed(answers) # Malformed
  <2>1. Malformed.status = "malformed" /\ \A answers : Parsed(answers).status = "parsed"
    BY DEF Parsed, Malformed
  <2>2. QED
    BY ONLY <2>1
<1>2. ASSUME NEW name, NEW type PROVE DnsQuery(net, servers, name, type) # Malformed
  <2> DEFINE reply == DnsQuery(net, servers, name, type)
  <2>1. FirstReply(net, servers, name, type, reply)
    BY DnsQueryIs
  <2>2. \A q \in DOMAIN net : net[q] # Malformed
    BY DEF Range
  <2> HIDE DEF reply
  <2>3. reply = Parsed(<<>>) \/ \E q \in DOMAIN net : reply = net[q]
    BY ONLY <2>1, Zenon DEF FirstReply
  <2>4. reply # Malformed
    BY ONLY <1>1, <2>2, <2>3, Zenon
  <2>5. QED
    BY ONLY <2>4, Zenon DEF reply
<1>3. QED
  BY ONLY <1>1, <1>2, Zenon DEF ResolveHostRecords

\* Two lists of servers that get the same replies find the same infrastructure.
LEMMA SameInfrastructure ==
  ASSUME NEW net, NEW servers, servers # <<>>, NEW others, others # <<>>,
         \A name, type : DnsQuery(net, others, name, type) = DnsQuery(net, servers, name, type),
         NEW hostname, NEW ip
  PROVE  DiscoverHostInfrastructure(net, others, hostname, ip) =
           DiscoverHostInfrastructure(net, servers, hostname, ip)
<1>1. ResolveHostRecords(net, others, hostname) = ResolveHostRecords(net, servers, hostname)
  <2> DEFINE r(type) == DnsQuery(net, servers, <<"", hostname>>, type)
             o(type) == DnsQuery(net, others, <<"", hostname>>, type)
             all == [i \in DOMAIN RecordTypes |-> Records(r(RecordTypes[i]), RecordTypes[i])]
             one == [i \in DOMAIN RecordTypes |-> Records(o(RecordTypes[i]), RecordTypes[i])]
  <2>1. \A type : o(type) = r(type)
    OBVIOUS
  <2>2. /\ ResolveHostRecords(net, servers, hostname) =
             IF \E i \in DOMAIN RecordTypes : r(RecordTypes[i]) = Malformed THEN Malformed
             ELSE Parsed(FlattenSeq(all))
        /\ ResolveHostRecords(net, others, hostname) =
             IF \E i \in DOMAIN RecordTypes : o(RecordTypes[i]) = Malformed THEN Malformed
             ELSE Parsed(FlattenSeq(one))
    BY Zenon DEF ResolveHostRecords
  <2> HIDE DEF r, o
  <2>3. one = all
    BY ONLY <2>1
  <2> HIDE DEF one, all
  <2>4. QED
    BY ONLY <2>1, <2>2, <2>3
<1>2. EnumerateSubdomains(net, others, hostname) = EnumerateSubdomains(net, servers, hostname)
  <2>1. \A name : Addrs(net, others, name) = Addrs(net, servers, name)
    BY Zenon DEF Addrs
  <2>2. QED
    BY ONLY <2>1 DEF EnumerateSubdomains
<1>3. QED
  BY ONLY <1>1, <1>2, servers # <<>>, others # <<>>, Zenon DEF DiscoverHostInfrastructure, ServersOf

\* A resolver that says nothing costs a host nothing, and a host that is fronted
\* by a CDN is not blamed for the headers that its answers lack.
THEOREM QuietServersCostNothingAlways == Spec => []QuietServersCostNothing
<1>1. IInv => QuietServersCostNothing
  <2> SUFFICES ASSUME IInv, NEW scan \in Scans, Reported(scan),
                      NEW host \in Range(scan.hosts), host.hostname # ""
      PROVE  LET speaking == Kept(scan.dns_servers,
                                  {server \in ToSet(scan.dns_servers) : Speaks(host.net, server)})
             IN  /\ speaking # <<>> => Infra([scan EXCEPT !.dns_servers = speaking], host) = Infra(scan, host)
                 /\ Fronted(host) /\ Malformed \notin Range(host.net)
                      => Listed(host, "No HTTP security headers configured") = {}
    BY Zenon DEF QuietServersCostNothing
  <2> DEFINE servers == scan.dns_servers
             net == host.net
             speaking == Kept(servers, {server \in ToSet(servers) : Speaks(net, server)})
             other == [scan EXCEPT !.dns_servers = speaking]
             none == "No HTTP security headers configured"
  <2>1. /\ servers \in Seq(STRING) /\ host \in ToSet(scan.hosts) /\ DEFAULT_DNS_SERVERS \in Seq(STRING)
    BY HostsAssumption, DnsAssumption DEF Range, ToSet
  <2>2. other.dns_servers = speaking
    BY HostsAssumption
  <2>3. \A s : Infra(s, host) = DiscoverHostInfrastructure(net, s.dns_servers, host.hostname, host.ip)
    BY DEF Infra
  <2>4. ASSUME speaking # <<>> PROVE Infra(other, host) = Infra(scan, host)
    <3>1. servers # <<>>
      BY <2>4, KeptEmpty
    <3> HIDE DEF servers, net, other
    <3>2. \A name, type : DnsQuery(net, speaking, name, type) = DnsQuery(net, servers, name, type)
      BY <2>1, SameReply
    <3> HIDE DEF speaking
    <3>3. \A hostname, ip : DiscoverHostInfrastructure(net, speaking, hostname, ip) =
                            DiscoverHostInfrastructure(net, servers, hostname, ip)
      BY ONLY <2>4, <3>1, <3>2, SameInfrastructure
    <3>4. QED
      BY ONLY <2>2, <2>3, <3>3, Zenon DEF servers
  <2>5. ASSUME Fronted(host), Malformed \notin Range(net) PROVE Listed(host, none) = {}
    <3> DEFINE a == Assessed(scan, host)
               asked == IF servers = <<>> THEN DEFAULT_DNS_SERVERS ELSE servers
               records == ResolveHostRecords(net, asked, host.hostname)
    <3>1. DetectCdn(host.ip) # ""
      BY <2>5, FrontedHasCdn
    <3>2. records # Malformed
      BY <2>1, <2>5, LookupEnds
    <3>3. Infra(scan, host) = Infrastructure(records.answers, EnumerateSubdomains(net, asked, host.hostname),
                                             DetectCdn(host.ip))
      BY <2>3, <3>2, Zenon DEF DiscoverHostInfrastructure, ServersOf
    <3>4. Infra(scan, host).cdn = DetectCdn(host.ip)
      <4> HIDE DEF asked, records
      <4> QED
        BY ONLY <3>3 DEF Infrastructure
    <3>5. a.cdn = Infra(scan, host).cdn
      BY DEF Assessed, Audited, Fingerprinted
    <3>6. Sound(a)
      BY <2>1, AssessedIsSound
    <3>7. Listed(host, none) # {} <=> \E e \in ToSet(AnalyzeHost(a, scan.cve_check)) : Rule(e) = none
      BY <2>1, ListedFrom
    <3> HIDE DEF a
    <3>8. (\E e \in ToSet(AnalyzeHost(a, scan.cve_check)) : Rule(e) = none) => a.cdn = ""
      BY ONLY <3>6, AnalyzeAbout, Zenon
    <3>9. QED
      BY ONLY <3>1, <3>4, <3>5, <3>7, <3>8
  <2>6. QED
    BY ONLY <2>4, <2>5, Zenon
<1>2. QED
  BY <1>1, Inductive, PTL
-----------------------------------------------------------------------------
(***************************************************************************)
(* Ports that are not open.  Every stage is shown to give the same for the *)
(* open ports of a list as for the list: filtering first and enumerating   *)
(* then is enumerating first and filtering then (EnumeratedOpen), and what *)
(* later stages look for among the ports are open ones (OpenTwice).        *)
(***************************************************************************)

\* The ports of a list that are open.
OpenOf(ports) == Kept(ports, {p \in ToSet(ports) : p.state = "open"})

\* Filtering what is open for something that only open ports have.
LEMMA OpenTwice ==
  ASSUME NEW ports, List(ports), NEW webs
  PROVE  /\ List(OpenOf(ports)) /\ ToSet(OpenOf(ports)) = {p \in ToSet(ports) : p.state = "open"}
         /\ OpenOf(OpenOf(ports)) = OpenOf(ports)
         /\ WebPortsOf(OpenOf(ports), webs) = WebPortsOf(ports, webs)
<1> DEFINE S == ToSet(ports)
           T == {p \in S : p.state = "open"}
           o == Kept(ports, T)
           A == {p \in ToSet(o) : p.state = "open"}
           W(s) == {p \in ToSet(s) : /\ p.state = "open" /\ p.protocol = "tcp"
                                     /\ p.port \in HTTP_PORTS \cap DOMAIN webs}
<1>1. OpenOf(ports) = o /\ OpenOf(o) = Kept(o, A) /\ \A s : WebPortsOf(s, webs) = Kept(s, W(s))
  BY DEF OpenOf, WebPortsOf
<1>2. List(o) /\ ToSet(o) = S \cap T
  BY ListKept
<1>3. ports \in Seq(S)
  BY DEF List
<1>4. ToSet(o) = T /\ A = T
  <2> HIDE DEF o
  <2>1. ToSet(o) = T
    BY <1>2
  <2>2. QED
    BY <2>1
<1>5. Kept(o, A) = o
  <2> HIDE DEF A
  <2>1. \A x \in ToSet(ports) : x \in T <=> x \in T /\ x \in A
    BY <1>4
  <2> HIDE DEF T
  <2>2. Kept(Kept(ports, T), A) = Kept(ports, T)
    BY ONLY <1>3, <2>1, KeptTwice
  <2>3. QED
    BY <2>2
<1>6. Kept(o, W(o)) = Kept(ports, W(ports))
  <2> DEFINE U == W(o)
             V == W(ports)
  <2>1. \A x \in ToSet(ports) : x \in V <=> x \in T /\ x \in U
    <3> HIDE DEF A, o
    <3>1. QED
      BY <1>4
  <2> HIDE DEF T, U, V, W
  <2>2. Kept(Kept(ports, T), U) = Kept(ports, V)
    BY ONLY <1>3, <2>1, KeptTwice
  <2>3. QED
    BY <2>2 DEF U, V
<1>7. QED
  <2> HIDE DEF o, A, W, T
  <2>1. ToSet(o) = {p \in ToSet(ports) : p.state = "open"}
    BY <1>4 DEF T
  <2>2. QED
    BY ONLY <1>1, <1>2, <1>5, <1>6, <2>1

\* Enumeration renames and annotates ports; it changes neither number nor state.
LEMMA EnumerationKeepsState ==
  ASSUME NEW peers, NEW port \in ScannedPorts
  PROVE  EnumeratePort(peers, port).state = port.state
<1>1. Updated(port, Probe(peers, port.port)).state = port.state
  BY DEF Updated, ScannedPorts
<1>2. \A q : Refined(q) = q \/ \E x : Refined(q) = [q EXCEPT !.service = x]
  BY DEF Refined
<1>3. DOMAIN Updated(port, Probe(peers, port.port)) = DOMAIN port
  BY DEF Updated, ScannedPorts
<1>4. QED
  BY <1>1, <1>2, <1>3 DEF EnumeratePort, ScannedPorts

OnlyOpen(host) == [host EXCEPT !.ports = Open(host)]

\* To enumerate the open ports only is to drop the others afterwards.
LEMMA EnumeratedOpen ==
  ASSUME NEW scan, NEW other, other.enumerate_services = scan.enumerate_services,
         NEW host, HostOk(host), "ports" \in DOMAIN host, "peers" \in DOMAIN host
  PROVE  Enumerated(other, OnlyOpen(host)) = OpenOf(Enumerated(scan, host))
<1> DEFINE S == ScannedPorts
           g(p) == IF scan.enumerate_services /\ p.state = "open" THEN EnumeratePort(host.peers, p) ELSE p
           R == {g(p) : p \in S}
           f == [p \in S |-> g(p)]
           s == host.ports
           T == {p \in ToSet(s) : p.state = "open"}
           m == Mapped(f, s)
           U == {p \in ToSet(m) : p.state = "open"}
<1>1. s \in Seq(S) /\ f \in [S -> R]
  BY DEF HostOk
<1>1a. Maps(f, S, R)
  BY <1>1 DEF Maps
<1>1b. s \in Seq(S)
  BY <1>1
<1>2. \A p \in S : f[p].state = p.state
  BY EnumerationKeepsState
<1>3. \A p \in S : f[p] = g(p)
  OBVIOUS
<1>4. Len(s) \in Nat /\ DOMAIN s = 1..Len(s) /\ \A i \in DOMAIN s : s[i] \in S
  BY <1>1, LenProperties, ElementOfSeq
<1>5. Enumerated(scan, host) = m
  <2>1. Enumerated(scan, host) = [i \in DOMAIN s |-> g(s[i])]
    BY DEF Enumerated
  <2> HIDE DEF s, f, g
  <2>2. QED
    BY <1>3, <1>4, <2>1 DEF Mapped
<1>6. \A i \in 1..Len(s) : m[i] = f[s[i]] /\ DOMAIN m = 1..Len(s)
  <2> HIDE DEF S, R, s, f
  <2>1. /\ Mapped(f, s) \in Seq(R) /\ Len(Mapped(f, s)) = Len(s)
        /\ DOMAIN Mapped(f, s) = 1..Len(s) /\ \A i \in 1..Len(s) : Mapped(f, s)[i] = f[s[i]]
    BY ONLY <1>1a, <1>1b, MappedIs
  <2>2. QED
    BY <2>1
<1>7. \A x \in ToSet(s) : f[x] \in U <=> x \in T
  <2> SUFFICES ASSUME NEW x \in ToSet(s) PROVE f[x] \in U <=> x \in T
    OBVIOUS
  <2> HIDE DEF s, f, g, m
  <2>1. PICK i \in 1..Len(s) : x = s[i]
    BY <1>4 DEF ToSet
  <2>2. f[x] \in ToSet(m)
    BY <1>6, <2>1 DEF ToSet
  <2>3. f[x].state = x.state
    BY <1>2, <1>4, <2>1
  <2>4. QED
    BY <2>2, <2>3
<1>8. Kept(m, U) = Mapped(f, Kept(s, T))
  <2> HIDE DEF S, R, s, f, g, T, U
  <2>1. Kept(Mapped(f, s), U) = Mapped(f, Kept(s, T))
    BY ONLY <1>1a, <1>1b, <1>7, KeptMapped
  <2>2. QED
    BY <2>1
<1>9. OpenOf(m) = Kept(m, U)
  BY DEF OpenOf
<1> DEFINE o == Kept(s, T)
<1>10. OnlyOpen(host).ports = o /\ OnlyOpen(host).peers = host.peers
  BY DEF OnlyOpen, Open
<1>11. \A i \in DOMAIN o : o[i] \in S
  <2> HIDE DEF T, S, s
  <2>1. o \in Seq(S)
    BY <1>1, KeptType
  <2> HIDE DEF o
  <2>2. QED
    BY <2>1, LenProperties, ElementOfSeq
<1>12. Enumerated(other, OnlyOpen(host)) = [i \in DOMAIN o |-> g(o[i])]
  <2> HIDE DEF o, s, T, S
  <2>1. QED
    BY <1>10 DEF Enumerated
<1>13. [i \in DOMAIN o |-> g(o[i])] = Mapped(f, o)
  <2> HIDE DEF o, g, f
  <2>1. QED
    BY <1>3, <1>11 DEF Mapped
<1>14. QED
  <2> HIDE DEF m, U, o, g, f
  <2>1. Kept(m, U) = Mapped(f, o)
    BY <1>8 DEF o, m, U
  <2>2. QED
    BY ONLY <1>5, <1>9, <1>12, <1>13, <2>1

\* What analyze_host finds depends on the host's address, CDN, open ports and audits.
LEMMA SameFindings ==
  ASSUME NEW a, NEW b, a.ip = b.ip, a.cdn = b.cdn, Open(a) = Open(b), a.http_audits = b.http_audits,
         NEW enable_cve
  PROVE  AnalyzeHost(a, enable_cve) = AnalyzeHost(b, enable_cve)
<1>1. \A title, impact, likelihood, cve :
        Found(a, title, impact, likelihood, cve) = Found(b, title, impact, likelihood, cve)
  BY DEF Found
<1>2. \A title, impact, likelihood : Issue(a, title, impact, likelihood) = Issue(b, title, impact, likelihood)
  BY ONLY <1>1, Zenon DEF Issue
<1>3. \A port : PortFindings(a, port) = PortFindings(b, port)
  <2> SUFFICES ASSUME NEW port PROVE PortFindings(a, port) = PortFindings(b, port)
    OBVIOUS
  <2> DEFINE service == LowerCase[port.service]
             has(flag) == flag \in port.flags
             n == port.service
             x1(h) == Found(h, <<"SMBv1 protocol enabled", "", "">>, 9, 8, "CVE-2017-0144")
             x2(h) == Issue(h, <<"FTP anonymous login enabled", "", "">>, 8, 8)
             x3(h) == Issue(h, <<"exposed without authentication", n, "">>, 10, 9)
             x4(h) == Issue(h, <<"Cleartext FTP service", "", "">>, 7, 6)
             x5(h) == Issue(h, <<"Telnet exposed (cleartext)", "", "">>, 8, 7)
             x6(h) == Issue(h, <<"SNMP service exposed", "", "">>, 8, 6)
             x7(h) == Issue(h, <<"exposed publicly", n, "">>, 9, 7)
             x8(h) == Issue(h, ExposedTitle(port), ImpactMap[INSECURE_SERVICES[service]], 5)
             c1 == has("smbv1")
             c2 == has("anonymous_login")
             c3 == has("unauthenticated")
             c4 == service = "ftp" /\ ~has("ftps_supported")
             c5 == service = "telnet"
             c6 == service = "snmp"
             c7 == service \in DataStores /\ port.version # NoText /\ ~has("unauthenticated")
             c8 == service \in DOMAIN INSECURE_SERVICES
             pf(h) == When(c1, x1(h)) \o When(c2, x2(h)) \o When(c3, x3(h)) \o When(c4, x4(h))
                        \o When(c5, x5(h)) \o When(c6, x6(h)) \o When(c7, x7(h)) \o When(c8, x8(h))
  <2>1. PortFindings(a, port) = pf(a) /\ PortFindings(b, port) = pf(b)
    BY DEF PortFindings, When
  <2>2. /\ x1(a) = x1(b) /\ x2(a) = x2(b) /\ x3(a) = x3(b) /\ x4(a) = x4(b)
        /\ x5(a) = x5(b) /\ x6(a) = x6(b) /\ x7(a) = x7(b) /\ x8(a) = x8(b)
    BY ONLY <1>1, <1>2
  <2> HIDE DEF x1, x2, x3, x4, x5, x6, x7, x8, c1, c2, c3, c4, c5, c6, c7, c8
  <2>3. pf(a) = pf(b)
    BY ONLY <2>2
  <2> HIDE DEF pf
  <2>4. QED
    BY ONLY <2>1, <2>3
<1>4. \A port : CveFindings(a, port) = CveFindings(b, port)
  <2> SUFFICES ASSUME NEW port PROVE CveFindings(a, port) = CveFindings(b, port)
    OBVIOUS
  <2> DEFINE key == MatchSoftwareAliases(port.service, port.version)
             entries == IF port.version = NoText \/ key = "" THEN <<>> ELSE MatchCves(key, port.version)
             c(h) == [i \in DOMAIN entries |-> Found(h, <<"affected by", entries[i].software, entries[i].cve>>,
                                                      9, Likelihood(entries[i].cvss), entries[i].cve)]
  <2>1. CveFindings(a, port) = c(a) /\ CveFindings(b, port) = c(b)
    BY DEF CveFindings
  <2> HIDE DEF entries
  <2>2. c(a) = c(b)
    BY ONLY <1>1
  <2> HIDE DEF c
  <2>3. QED
    BY ONLY <2>1, <2>2
<1>5. \A http : HttpFindings(a, http) = HttpFindings(b, http)
  <2> SUFFICES ASSUME NEW http PROVE HttpFindings(a, http) = HttpFindings(b, http)
    OBVIOUS
  <2> DEFINE each(h, rule, list, impact, likelihood) ==
               [i \in DOMAIN list |-> Issue(h, <<rule, "", list[i]>>, impact, likelihood)]
             l1 == Kept(SECURITY_HEADERS, ToSet(SECURITY_HEADERS) \ http.security_headers)
             l8 == Kept(http.methods, {"PUT", "DELETE", "TRACE", "PATCH"})
             c7 == http.cookies # <<>> /\ "httponly" \notin Range(http.cookies)
             w1(h) == each(h, "Missing HTTP security header", l1, 3, 4)
             x2(h) == Issue(h, <<"Server header discloses software/version", "", "">>, 2, 6)
             x3(h) == Issue(h, <<"X-Powered-By header discloses technology", "", "">>, 2, 5)
             x4(h) == Issue(h, <<"Directory listing enabled", "", "">>, 5, 5)
             w5(h) == each(h, "Sensitive path exposed", http.found_paths, 6, 5)
             c6(h) == http.status # 0 /\ http.security_headers = {} /\ h.cdn = ""
             x6(h) == Issue(h, <<"No HTTP security headers configured", "", "">>, 4, 6)
             x7(h) == Issue(h, <<"Cookies set without HttpOnly/Secure flags", "", "">>, 6, 5)
             w8(h) == each(h, "Dangerous HTTP method enabled", l8, 6, 5)
             hf(h) == w1(h) \o When(http.server # <<>>, x2(h)) \o When(http.powered_by # <<>>, x3(h))
                        \o When(http.directory_listing, x4(h)) \o w5(h) \o When(c6(h), x6(h))
                        \o When(c7, x7(h)) \o w8(h)
  <2>1. HttpFindings(a, http) = hf(a) /\ HttpFindings(b, http) = hf(b)
    BY DEF HttpFindings
  <2>2. x2(a) = x2(b) /\ x3(a) = x3(b) /\ x4(a) = x4(b) /\ x6(a) = x6(b) /\ x7(a) = x7(b)
    BY ONLY <1>2
  <2>3. c6(a) = c6(b)
    BY ONLY a.cdn = b.cdn
  <2> HIDE DEF l1, l8, c6, c7
  <2>4. w1(a) = w1(b) /\ w5(a) = w5(b) /\ w8(a) = w8(b)
    BY ONLY <1>2
  <2> HIDE DEF w1, w5, w8, x2, x3, x4, x6, x7
  <2>5. hf(a) = hf(b)
    BY ONLY <2>2, <2>3, <2>4
  <2> HIDE DEF hf
  <2>6. QED
    BY ONLY <2>1, <2>5
<1>6. QED
  BY <1>3, <1>4, <1>5 DEF AnalyzeHost

\* The points of the ports are those of the open ones, so the best family is, too.
LEMMA SameSystem ==
  ASSUME NEW ports, List(ports), NEW ttl, NEW server
  PROVE  FingerprintOs(OpenOf(ports), ttl, server) = FingerprintOs(ports, ttl, server)
<1> DEFINE o == OpenOf(ports)
<1>1. OpenOf(o) = o
  BY OpenTwice
<1>2. \A family : PortPoints(family, o) = PortPoints(family, ports)
  <2>1. \A family, s : PortPoints(family, s) = EvidenceOf(family, OpenOf(s))
    BY DEF PortPoints, OpenOf
  <2> HIDE DEF o
  <2>2. QED
    BY ONLY <1>1, <2>1 DEF o
<1> HIDE DEF o
<1>3. \A family : OsScore(family, o, ttl, server) = OsScore(family, ports, ttl, server)
  BY ONLY <1>2 DEF OsScore
<1>4. FamilyScores(o, ttl, server) = FamilyScores(ports, ttl, server)
  BY ONLY <1>3 DEF FamilyScores
<1>5. FingerprintOs(o, ttl, server) = FingerprintOs(ports, ttl, server)
  BY ONLY <1>4, Zenon DEF FingerprintOs
<1>6. QED
  BY <1>5 DEF o

\* A host of which only the open ports are known is assessed as the host itself.
LEMMA SameAssessment ==
  ASSUME NEW scan, NEW other, NEW host, HostOk(host),
         DOMAIN host = {"ip", "hostname", "alive", "ports", "net", "peers", "webs", "ttl"},
         other.dns_servers = scan.dns_servers, other.enumerate_services = scan.enumerate_services,
         other.os_detection = scan.os_detection
  PROVE  LET a == Assessed(scan, host)
             b == Assessed(other, OnlyOpen(host))
         IN  /\ b.ip = a.ip /\ b.cdn = a.cdn /\ b.os = a.os /\ b.http_audits = a.http_audits
             /\ Open(b) = Open(a) /\ OpenRows(b) = OpenRows(a)
<1> DEFINE h == OnlyOpen(host)
           P == Enumerated(scan, host)
           Q == Enumerated(other, h)
           audits == HttpAudits(P, host.webs)
           a == Assessed(scan, host)
           b == Assessed(other, h)
           os(ports) == IF scan.os_detection
                        THEN FingerprintOs(ports, host.ttl, IF audits = <<>> THEN <<>> ELSE audits[1].server)
                        ELSE "none"
<1>1. /\ h.ip = host.ip /\ h.alive = host.alive /\ h.hostname = host.hostname /\ h.net = host.net
      /\ h.peers = host.peers /\ h.webs = host.webs /\ h.ttl = host.ttl
  BY DEF OnlyOpen
<1>2. Q = OpenOf(P)
  BY EnumeratedOpen
<1>3. List(P)
  BY EnumeratedIs
<1> HIDE DEF P, Q, h
<1>4. OpenOf(Q) = OpenOf(P) /\ WebPortsOf(Q, host.webs) = WebPortsOf(P, host.webs)
  BY ONLY <1>2, <1>3, OpenTwice
<1>5. HttpAudits(Q, h.webs) = audits
  BY ONLY <1>1, <1>4, Zenon DEF HttpAudits
<1>6. Infra(other, h) = Infra(scan, host)
  BY ONLY <1>1, other.dns_servers = scan.dns_servers, Zenon DEF Infra
<1> HIDE DEF audits
<1>7. \A ttl, server : FingerprintOs(Q, ttl, server) = FingerprintOs(P, ttl, server)
  BY ONLY <1>2, <1>3, SameSystem
<1>8. a = [ip |-> host.ip, alive |-> host.alive, cdn |-> Infra(scan, host).cdn, ports |-> P,
           http_audits |-> audits, os |-> os(P)]
  BY Zenon DEF Assessed, Audited, Fingerprinted, P, audits
<1>9. b = [ip |-> host.ip, alive |-> host.alive, cdn |-> Infra(scan, host).cdn, ports |-> Q,
           http_audits |-> audits, os |-> os(Q)]
  <2>1. b = Fingerprinted(other, h, Q, HttpAudits(Q, h.webs))
    BY Zenon DEF Assessed, Audited, Q
  <2> HIDE DEF b
  <2>2. QED
    BY ONLY <1>1, <1>5, <1>6, <2>1, other.os_detection = scan.os_detection, Zenon DEF Fingerprinted
<1> HIDE DEF a, b
<1>10. os(Q) = os(P)
  BY ONLY <1>7
<1> HIDE DEF os
<1>11. /\ b.ip = a.ip /\ b.cdn = a.cdn /\ b.os = a.os /\ b.http_audits = a.http_audits
       /\ a.ports = P /\ b.ports = Q
  BY ONLY <1>8, <1>9, <1>10
<1>12. Open(b) = Open(a)
  <2>1. \A x : Open(x) = OpenOf(x.ports)
    BY DEF Open, OpenOf
  <2>2. QED
    BY ONLY <1>4, <1>11, <2>1
<1>13. OpenRows(b) = OpenRows(a)
  <2>1. \A x : OpenRows(x) = [i \in DOMAIN Open(x) |-> PortRow(x, Open(x)[i])]
    BY DEF OpenRows, Open
  <2>2. \A port : PortRow(b, port) = PortRow(a, port)
    BY ONLY <1>11 DEF PortRow
  <2> DEFINE open == Open(a)
             ra == [i \in DOMAIN open |-> PortRow(a, open[i])]
             rb == [i \in DOMAIN open |-> PortRow(b, open[i])]
  <2>3. OpenRows(a) = ra /\ OpenRows(b) = rb
    BY ONLY <1>12, <2>1, Zenon
  <2> HIDE DEF open
  <2>4. ra = rb
    BY ONLY <2>2
  <2> HIDE DEF ra, rb
  <2>5. QED
    BY ONLY <2>3, <2>4
<1>14. QED
  BY ONLY <1>11, <1>12, <1>13 DEF a, b, h

\* What the scan says of ports that are not open changes nothing in the report.
THEOREM OnlyOpenPortsMatterAlways == Spec => []OnlyOpenPortsMatter
<1>1. IInv => OnlyOpenPortsMatter
  <2> SUFFICES ASSUME NEW scan \in Scans, Reported(scan)
      PROVE  /\ AllFindings(OpenOnly(scan)) = input
             /\ SameOs(HostsOf(OpenOnly(scan)), HostsAfter[scan])
             /\ PortRows([hosts |-> HostsOf(OpenOnly(scan))]) = PortRows(Written(scan))
    BY Zenon DEF OnlyOpenPortsMatter
  <2> DEFINE other == OpenOnly(scan)
             hosts == HostsOf(scan)
             others == HostsOf(other)
  <2>1. /\ DOMAIN scan = {"hosts", "dns_servers", "enumerate_services", "os_detection", "cve_check"}
        /\ List(scan.hosts)
        /\ \A host \in ToSet(scan.hosts) : /\ HostOk(host)
             /\ DOMAIN host = {"ip", "hostname", "alive", "ports", "net", "peers", "webs", "ttl"}
    <3>1. Range(scan.hosts) = ToSet(scan.hosts)
      BY DEF Range, ToSet
    <3>2. QED
      BY <3>1, HostsAssumption, HostsFacts
  <2>2. /\ other.dns_servers = scan.dns_servers /\ other.enumerate_services = scan.enumerate_services
        /\ other.os_detection = scan.os_detection /\ other.cve_check = scan.cve_check
        /\ other.hosts = [i \in DOMAIN scan.hosts |-> OnlyOpen(scan.hosts[i])]
    BY <2>1 DEF OpenOnly, OnlyOpen
  <2> HIDE DEF other
  <2>3. /\ DOMAIN hosts = DOMAIN scan.hosts /\ DOMAIN others = DOMAIN scan.hosts
        /\ hosts = [i \in DOMAIN scan.hosts |-> hosts[i]]
        /\ others = [i \in DOMAIN scan.hosts |-> others[i]]
        /\ \A i \in DOMAIN scan.hosts : /\ hosts[i] = Assessed(scan, scan.hosts[i])
                                        /\ others[i] = Assessed(other, OnlyOpen(scan.hosts[i]))
    BY ONLY <2>2 DEF HostsOf
  <2> HIDE DEF hosts, others
  <2>4. ASSUME NEW i \in DOMAIN scan.hosts
        PROVE  /\ others[i].ip = hosts[i].ip /\ others[i].cdn = hosts[i].cdn
               /\ others[i].os = hosts[i].os /\ others[i].http_audits = hosts[i].http_audits
               /\ Open(others[i]) = Open(hosts[i]) /\ OpenRows(others[i]) = OpenRows(hosts[i])
    <3> DEFINE host == scan.hosts[i]
    <3>1. /\ HostOk(host)
          /\ DOMAIN host = {"ip", "hostname", "alive", "ports", "net", "peers", "webs", "ttl"}
      BY <2>1 DEF ToSet
    <3>2. hosts[i] = Assessed(scan, host) /\ others[i] = Assessed(other, OnlyOpen(host))
      BY <2>3
    <3> HIDE DEF host
    <3>3. LET a == Assessed(scan, host)
              b == Assessed(other, OnlyOpen(host))
          IN  /\ b.ip = a.ip /\ b.cdn = a.cdn /\ b.os = a.os /\ b.http_audits = a.http_audits
              /\ Open(b) = Open(a) /\ OpenRows(b) = OpenRows(a)
      BY ONLY <2>2, <3>1, SameAssessment
    <3>4. QED
      BY ONLY <3>2, <3>3, Zenon
  <2>5. AllFindings(other) = AllFindings(scan)
    <3> DEFINE c == scan.cve_check
               q == [i \in DOMAIN hosts |-> AnalyzeHost(hosts[i], c)]
               r == [i \in DOMAIN others |-> AnalyzeHost(others[i], c)]
    <3>1. AllFindings(scan) = FlattenSeq(q) /\ AllFindings(other) = FlattenSeq(r)
      <4>1. \A s : AllFindings(s) = FlattenSeq([i \in DOMAIN HostsOf(s) |-> AnalyzeHost(HostsOf(s)[i], s.cve_check)])
        BY DEF AllFindings, FindingsOf
      <4>2. QED
        BY ONLY <2>2, <4>1, Zenon DEF hosts, others
    <3>2. \A i \in DOMAIN scan.hosts : AnalyzeHost(others[i], c) = AnalyzeHost(hosts[i], c)
      BY ONLY <2>4, SameFindings
    <3>3. r = q
      BY ONLY <2>3, <3>2
    <3> HIDE DEF q, r
    <3>4. QED
      BY ONLY <3>1, <3>3
  <2>6. input = AllFindings(scan) /\ HostsAfter[scan] = hosts
    BY DEF Reported, Analysed, HostsAfter, hosts
  <2>7. SameOs(others, hosts)
    BY ONLY <2>3, <2>4 DEF SameOs
  <2>8. PortRows([hosts |-> others]) = PortRows(Written(scan))
    <3>1. PortRows([hosts |-> others]) = FlattenSeq([i \in DOMAIN others |-> OpenRows(others[i])])
      BY DEF PortRows
    <3>2. PortRows(Written(scan)) = FlattenSeq([i \in DOMAIN hosts |-> OpenRows(hosts[i])])
      <4>1. Written(scan).hosts = hosts
        BY <2>6 DEF Written
      <4>2. QED
        BY ONLY <4>1, Zenon DEF PortRows
    <3>3. [i \in DOMAIN others |-> OpenRows(others[i])] = [i \in DOMAIN hosts |-> OpenRows(hosts[i])]
      BY ONLY <2>3, <2>4
    <3>4. QED
      BY ONLY <3>1, <3>2, <3>3
  <2>9. QED
    BY ONLY <2>5, <2>6, <2>7, <2>8 DEF others, other
<1>2. QED
  BY <1>1, Inductive, PTL

-----------------------------------------------------------------------------
(***************************************************************************)
(* The formats.  The findings come to them ranked, and a stable sort by    *)
(* score leaves a ranked list as it is (WrittenIsRanked); a sorted list of *)
(* rows has the same rows (GrepableHasTheRows); an address leads back to   *)
(* its host's rows because no two hosts have one (TextHasTheRows).         *)
(***************************************************************************)

\* The list that is written has the highest scores first: to sort it by score
\* again, as three of the formats do, changes nothing.
LEMMA WrittenIsRanked ==
  ASSUME IInv, pc = "done", NEW list, list = [i \in DOMAIN ranked |-> findings[ranked[i]]]
  PROVE  ByRisk(list) = list /\ Len(list) = Len(ranked)
<1>1. /\ ranked \in Seq(Positions) /\ TypeOK
      /\ \A k, l \in DOMAIN ranked : k < l =>
           \/ findings[ranked[k]].score > findings[ranked[l]].score
           \/ findings[ranked[k]].score = findings[ranked[l]].score
  BY DEF IInv, RankedReport, TypeOK
<1>2. Len(ranked) \in Nat /\ DOMAIN ranked = 1..Len(ranked) /\ \A i \in DOMAIN ranked : ranked[i] \in Positions
  BY <1>1, LenProperties, ElementOfSeq
<1>3. List(list) /\ DOMAIN list = 1..Len(ranked) /\ Len(list) = Len(ranked)
  BY <1>2, ListFunction
<1>4. \A i \in 1..Len(list) : list[i] = findings[ranked[i]] /\ findings[ranked[i]].score \in Int
  BY <1>1, <1>2, <1>3, ScoresAreNumbers
<1> DEFINE S == ToSet(list)
           key == [f \in S |-> 0 - f.score]
<1>5. \A i \in 1..Len(list) : list[i] \in S
  BY <1>3 DEF ToSet
<1>6. \A i \in 1..Len(list) : key[list[i]] = 0 - findings[ranked[i]].score
  BY <1>4, <1>5
<1> HIDE DEF key
<1>7. \A i, j \in 1..Len(list) : i < j => ~(key[list[i]] > key[list[j]])
  <2> SUFFICES ASSUME NEW i \in 1..Len(list), NEW j \in 1..Len(list), i < j
               PROVE  ~(key[list[i]] > key[list[j]])
    OBVIOUS
  <2> DEFINE a == findings[ranked[i]].score
             b == findings[ranked[j]].score
  <2>1. a > b \/ a = b
    BY <1>1, <1>2, <1>3
  <2>2. a \in Int /\ b \in Int /\ key[list[i]] = 0 - a /\ key[list[j]] = 0 - b
    BY <1>4, <1>6
  <2> HIDE DEF a, b
  <2>3. QED
    BY ONLY <2>1, <2>2
<1>8. list \in Seq(S)
  BY <1>3 DEF List
<1>9. Sorted(list, key) = list
  BY ONLY <1>7, <1>8, SortedStays
<1>10. QED
  BY <1>3, <1>9 DEF ByRisk, key

\* The report is as long as it has issues.
LEMMA LongAsIssues ==
  ASSUME IInv, pc = "done"
  PROVE  Len(ranked) = Cardinality({Key(i) : i \in Positions})
<1> DEFINE n == Len(ranked)
           R == Range(ranked)
<1>1. /\ ranked \in Seq(Positions) /\ TypeOK
      /\ \A k, l \in DOMAIN ranked : k < l =>
           \/ findings[ranked[k]].score > findings[ranked[l]].score
           \/ CameUpBefore(ranked[k], ranked[l])
  BY DEF IInv, RankedReport, TypeOK
<1>2. n \in Nat /\ DOMAIN ranked = 1..n /\ \A i \in 1..n : ranked[i] \in Positions
  BY <1>1, LenProperties, ElementOfSeq
<1>3. \A i \in Positions : i \in Nat /\ findings[i].score \in Int
  <2>1. input \in Seq(Objects)
    BY <1>1, InputsAssumption DEF TypeOK
  <2>2. Positions = 1..Len(input) /\ Len(input) \in Nat
    BY <2>1, LenProperties DEF Positions
  <2>3. \A i \in Positions : findings[i].score \in Int
    BY <1>1, ScoresAreNumbers
  <2>4. \A i \in Positions : i \in Nat
    BY <2>2
  <2>5. QED
    BY ONLY <2>3, <2>4
<1>4. \A i \in Positions : ~ CameUpBefore(i, i)
  BY <1>3 DEF CameUpBefore
<1>5. \A k, l \in 1..n : k < l => ranked[k] # ranked[l]
  <2> SUFFICES ASSUME NEW k \in 1..n, NEW l \in 1..n, k < l, ranked[k] = ranked[l] PROVE FALSE
    OBVIOUS
  <2>1. ~ CameUpBefore(ranked[k], ranked[l]) /\ findings[ranked[k]].score \in Int
    BY <1>2, <1>3, <1>4
  <2>2. findings[ranked[k]].score > findings[ranked[l]].score
    BY <1>1, <1>2, <2>1
  <2>3. QED
    BY <2>1, <2>2
<1>6. ranked \in Bijection(1..n, R)
  <2>1. ranked \in [1..n -> R]
    BY <1>1, <1>2 DEF Range
  <2>2. \A k, l \in 1..n : ranked[k] = ranked[l] => k = l
    BY <1>2, <1>5
  <2>3. \A x \in R : \E k \in 1..n : ranked[k] = x
    BY <1>2 DEF Range
  <2> HIDE DEF R, n
  <2>4. QED
    BY <2>1, <2>2, <2>3 DEF Bijection, Injection, Surjection, IsInjective
<1>7. IsFiniteSet(1..n) /\ Cardinality(1..n) = n
  BY <1>2, FS_Interval
<1> HIDE DEF n, R
<1>8. Cardinality(R) = Cardinality(1..n)
  BY <1>6, <1>7, FS_Bijection DEF ExistsBijection
<1>9. QED
  BY <1>7, <1>8, OneForEachIssue DEF R, n

\* The hosts of a report.
Reportable(hosts) ==
  /\ List(hosts)
  /\ \A i \in DOMAIN hosts : List(hosts[i].ports) /\ hosts[i].alive
  /\ \A i, j \in DOMAIN hosts : hosts[i].ip = hosts[j].ip => i = j

\* Those of the report that is written are: discovery returns hosts that are up,
\* each address once.
LEMMA HostsAreReportable == ASSUME NEW scan \in Scans PROVE Reportable(HostsAfter[scan])
<1> DEFINE hosts == HostsAfter[scan]
<1>1. /\ List(hosts) /\ DOMAIN hosts = DOMAIN scan.hosts
      /\ \A i \in DOMAIN scan.hosts : /\ scan.hosts[i] \in ToSet(scan.hosts)
                                      /\ hosts[i] = Assessed(scan, scan.hosts[i])
  BY HostsOfIs DEF HostsAfter
<1>2. \A host \in ToSet(scan.hosts) : List(Assessed(scan, host).ports) /\ Assessed(scan, host).ip = host.ip
  BY AssessedIsSound DEF Sound
<1>3. /\ \A host \in ToSet(scan.hosts) : host.alive
      /\ \A i, j \in DOMAIN scan.hosts : scan.hosts[i].ip = scan.hosts[j].ip => i = j
  BY HostsAssumption DEF ToSet, Range
<1>4. \A host : Assessed(scan, host).alive = host.alive
  BY DEF Assessed, Audited, Fingerprinted
<1> HIDE DEF hosts
<1>5. QED
  <2>1. \A i \in DOMAIN hosts : List(hosts[i].ports) /\ hosts[i].alive /\ hosts[i].ip = scan.hosts[i].ip
    BY <1>1, <1>2, <1>3, <1>4
  <2>2. QED
    BY <1>1, <1>3, <2>1 DEF Reportable, hosts

\* The rows of a host.
LEMMA OpenRowsAre ==
  ASSUME NEW host, List(host.ports)
  PROVE  /\ List(OpenRows(host))
         /\ ToSet(OpenRows(host)) = {PortRow(host, p) : p \in {port \in ToSet(host.ports) : port.state = "open"}}
         /\ \A row \in ToSet(OpenRows(host)) : row.ip = host.ip
<1> DEFINE T == {p \in ToSet(host.ports) : p.state = "open"}
           open == Kept(host.ports, T)
           rows == [i \in DOMAIN open |-> PortRow(host, open[i])]
<1>1. OpenRows(host) = rows
  BY DEF OpenRows
<1>2. List(open) /\ ToSet(open) = ToSet(host.ports) \cap T
  BY ListKept
<1> HIDE DEF open
<1>3. DOMAIN open = 1..Len(open) /\ Len(open) \in Nat
  BY <1>2, LenProperties DEF List
<1>4. List(rows) /\ DOMAIN rows = DOMAIN open
  BY <1>3, ListFunction
<1>5. ToSet(rows) = {PortRow(host, p) : p \in ToSet(open)}
  BY <1>4 DEF ToSet
<1>6. ToSet(open) = T
  BY <1>2
<1>7. \A p : PortRow(host, p).ip = host.ip
  BY DEF PortRow
<1> HIDE DEF rows, T
<1>8. QED
  BY <1>1, <1>4, <1>5, <1>6, <1>7 DEF T
\* A report's rows of open ports, host by host.
RowLists(report) == [i \in DOMAIN report.hosts |-> OpenRows(report.hosts[i])]

LEMMA RowsAre ==
  ASSUME NEW report, Reportable(report.hosts), NEW q, q = RowLists(report)
  PROVE  /\ PortRows(report) = FlattenSeq(q)
         /\ DOMAIN q = DOMAIN report.hosts /\ DOMAIN q = 1..Len(q) /\ Len(q) \in Nat /\ List(q)
         /\ \A i \in DOMAIN q :
              /\ q[i] = OpenRows(report.hosts[i]) /\ List(q[i]) /\ ToSet(q[i]) \subseteq ToSet(PortRows(report))
              /\ \A row \in ToSet(q[i]) : row.ip = report.hosts[i].ip
         /\ List(PortRows(report))
         /\ ToSet(PortRows(report)) = UNION {ToSet(q[i]) : i \in DOMAIN q}
         /\ q \in Seq(Seq(ToSet(PortRows(report))))
<1>1. PortRows(report) = FlattenSeq(q)
  BY DEF PortRows, RowLists
<1> DEFINE hosts == report.hosts
<1>2. List(hosts) /\ \A i \in DOMAIN hosts : List(hosts[i].ports)
  BY DEF Reportable
<1>3. DOMAIN q = DOMAIN hosts /\ \A i \in DOMAIN q : q[i] = OpenRows(hosts[i])
  BY DEF RowLists
<1>4. \A i \in DOMAIN q : List(q[i]) /\ \A row \in ToSet(q[i]) : row.ip = hosts[i].ip
  BY <1>2, <1>3, OpenRowsAre
<1>5. List(q) /\ DOMAIN q = 1..Len(q) /\ Len(q) \in Nat
  <2>1. DOMAIN hosts = 1..Len(hosts) /\ Len(hosts) \in Nat
    BY <1>2, LenProperties DEF List
  <2>2. q = [i \in 1..Len(hosts) |-> q[i]]
    BY <2>1 DEF RowLists
  <2> HIDE DEF hosts
  <2>3. List(q) /\ Len(q) = Len(hosts)
    BY ONLY <1>3, <2>1, <2>2, ListFunction
  <2>4. QED
    BY <1>3, <2>1, <2>3
<1> HIDE DEF hosts
<1>6. List(FlattenSeq(q)) /\ ToSet(FlattenSeq(q)) = UNION {ToSet(q[i]) : i \in DOMAIN q}
  BY <1>4, <1>5, ListFlatten
<1>7. \A i \in DOMAIN q : ToSet(q[i]) \subseteq ToSet(PortRows(report))
  BY <1>1, <1>6
<1>8. q \in Seq(Seq(ToSet(PortRows(report))))
  BY <1>4, <1>5, <1>7, ListOfLists
<1>9. QED
  BY <1>1, <1>3, <1>4, <1>5, <1>6, <1>7, <1>8 DEF hosts

\* The text report finds each host's rows again by its address.
LEMMA TextHasTheRows ==
  ASSUME NEW report, Reportable(report.hosts)
  PROVE  Txt(report).ports = PortRows(report)
<1> DEFINE q == RowLists(report)
           hosts == report.hosts
           rows == PortRows(report)
<1>1. /\ rows = FlattenSeq(q)
      /\ DOMAIN q = DOMAIN hosts /\ DOMAIN q = 1..Len(q)
      /\ \A i \in DOMAIN q : /\ q[i] = OpenRows(hosts[i]) /\ ToSet(q[i]) \subseteq ToSet(rows)
                             /\ \A row \in ToSet(q[i]) : row.ip = hosts[i].ip
      /\ q \in Seq(Seq(ToSet(rows)))
  BY RowsAre
<1>2. \A i, j \in DOMAIN hosts : hosts[i].ip = hosts[j].ip => i = j
  BY DEF Reportable
<1>3. q = [i \in DOMAIN hosts |-> q[i]]
  BY <1>1 DEF RowLists
<1> HIDE DEF q, hosts, rows
<1>4. ASSUME NEW i \in DOMAIN hosts PROVE RowsUnder(rows, hosts[i]) = q[i]
  <2> DEFINE T == {row \in ToSet(rows) : row.ip = hosts[i].ip}
  <2>1. i \in 1..Len(q) /\ ToSet(q[i]) \subseteq T
    BY <1>1
  <2>2. \A k \in 1..Len(q) : k # i => ToSet(q[k]) \cap T = {}
    BY <1>1, <1>2
  <2> HIDE DEF T
  <2>3. Kept(FlattenSeq(q), T) = q[i]
    BY ONLY <1>1, <2>1, <2>2, FlattenKept
  <2>4. QED
    BY <1>1, <2>3 DEF RowsUnder, T
<1>5. [i \in DOMAIN hosts |-> RowsUnder(rows, hosts[i])] = q
  BY ONLY <1>3, <1>4
<1>6. Txt(report).ports = FlattenSeq([i \in DOMAIN hosts |-> RowsUnder(rows, hosts[i])])
  BY DEF Txt, hosts, rows
<1>7. QED
  BY <1>1, <1>5, <1>6 DEF rows

\* The grepable file sorts the rows of each host and loses none.
LEMMA GrepableHasTheRows ==
  ASSUME NEW report, Reportable(report.hosts)
  PROVE  /\ ToSet(Grepable(report).ports) = ToSet(PortRows(report))
         /\ Len(Grepable(report).ports) = Len(PortRows(report))
<1> DEFINE q == RowLists(report)
           hosts == report.hosts
           rows == PortRows(report)
           S == ToSet(rows)
           T == {host \in ToSet(hosts) : host.alive}
           up == Kept(hosts, T)
           g == [i \in DOMAIN hosts |-> ByPort(OpenRows(hosts[i]))]
<1>1. /\ rows = FlattenSeq(q)
      /\ DOMAIN q = DOMAIN hosts /\ DOMAIN q = 1..Len(q) /\ Len(q) \in Nat
      /\ \A i \in DOMAIN q : q[i] = OpenRows(hosts[i]) /\ List(q[i]) /\ ToSet(q[i]) \subseteq S
      /\ ToSet(rows) = UNION {ToSet(q[i]) : i \in DOMAIN q}
      /\ q \in Seq(Seq(S))
  BY RowsAre
<1>2. up = hosts
  <2>1. hosts \in Seq(ToSet(hosts)) /\ \A host \in ToSet(hosts) : host.alive
    BY DEF Reportable, List, ToSet
  <2> HIDE DEF hosts
  <2>2. ToSet(hosts) \subseteq T
    BY <2>1
  <2> HIDE DEF T
  <2>3. Kept(hosts, T) = hosts
    BY ONLY <2>1, <2>2, KeptAllOrNone
  <2>4. QED
    BY <2>3
<1>3. Grepable(report).ports = FlattenSeq(g)
  <2>1. Grepable(report).ports = FlattenSeq([i \in DOMAIN up |-> ByPort(OpenRows(up[i]))])
    BY DEF Grepable
  <2> HIDE DEF up, hosts
  <2>2. QED
    BY ONLY <1>2, <2>1
<1> HIDE DEF q, hosts, rows, up
<1>4. ASSUME NEW i \in DOMAIN q
      PROVE  g[i] \in Seq(S) /\ Len(g[i]) = Len(q[i]) /\ ToSet(g[i]) = ToSet(q[i])
  <2> DEFINE s == q[i]
             key == [row \in ToSet(s) |-> row.port]
  <2>1. g[i] = Sorted(s, key)
    BY <1>1 DEF ByPort
  <2>2. s \in Seq(S)
    BY <1>1, ListIsSeq
  <2> HIDE DEF s, key, S, g
  <2>3. Sorted(s, key) \in Seq(S) /\ Len(Sorted(s, key)) = Len(s) /\ ToSet(Sorted(s, key)) = ToSet(s)
    BY ONLY <2>2, SortedIs
  <2>4. QED
    BY ONLY <2>1, <2>3 DEF s
<1>5. List(g) /\ Len(g) = Len(q) /\ DOMAIN g = DOMAIN q
  <2>1. DOMAIN g = 1..Len(q) /\ g = [i \in 1..Len(q) |-> g[i]]
    BY <1>1
  <2> HIDE DEF g
  <2>2. QED
    BY ONLY <1>1, <2>1, ListFunction
<1> HIDE DEF g, S
<1>6. \A i \in DOMAIN g : List(g[i]) /\ ToSet(g[i]) \subseteq S
  BY <1>4, <1>5, SeqIsList
<1>7. g \in Seq(Seq(S))
  BY ONLY <1>5, <1>6, ListOfLists
<1>8. ToSet(FlattenSeq(g)) = UNION {ToSet(g[i]) : i \in DOMAIN g}
  BY ONLY <1>5, <1>6, ListFlatten
<1>9. Len(FlattenSeq(q)) = Len(FlattenSeq(g))
  <2>1. \A i \in 1..Len(q) : Len(q[i]) = Len(g[i])
    BY ONLY <1>1, <1>4
  <2>2. q \in Seq(Seq(S)) /\ Len(q) = Len(g)
    BY ONLY <1>1, <1>5
  <2>3. QED
    BY ONLY <1>7, <2>1, <2>2, FlattenLengths
<1>10. UNION {ToSet(g[i]) : i \in DOMAIN g} = UNION {ToSet(q[i]) : i \in DOMAIN q}
  BY ONLY <1>4, <1>5
<1>11. QED
  BY ONLY <1>1, <1>3, <1>8, <1>9, <1>10 DEF rows

\* JSON lists every port with its state; those that are open are the rows.
LEMMA JsonHasTheRows ==
  ASSUME NEW report, Reportable(report.hosts)
  PROVE  {entry.row : entry \in {e \in ToSet(Json(report).ports) : e.state = "open"}} = ToSet(PortRows(report))
<1> DEFINE q == RowLists(report)
           hosts == report.hosts
           rows == PortRows(report)
           J(i, p) == [row |-> PortRow(hosts[i], p), state |-> p.state]
           j == [i \in DOMAIN hosts |-> [k \in DOMAIN hosts[i].ports |-> J(i, hosts[i].ports[k])]]
<1>1. /\ DOMAIN q = DOMAIN hosts
      /\ \A i \in DOMAIN q : q[i] = OpenRows(hosts[i])
      /\ ToSet(rows) = UNION {ToSet(q[i]) : i \in DOMAIN q}
  BY RowsAre
<1>2. List(hosts) /\ \A i \in DOMAIN hosts : List(hosts[i].ports)
  BY DEF Reportable
<1>3. Json(report).ports = FlattenSeq(j)
  BY DEF Json
<1> HIDE DEF q, hosts, rows
<1>4. \A i \in DOMAIN hosts : ToSet(q[i]) = {PortRow(hosts[i], p) : p \in {port \in ToSet(hosts[i].ports) : port.state = "open"}}
  BY <1>1, <1>2, OpenRowsAre
<1>5. ASSUME NEW i \in DOMAIN hosts
      PROVE  List(j[i]) /\ ToSet(j[i]) = {J(i, p) : p \in ToSet(hosts[i].ports)}
  <2> DEFINE s == hosts[i].ports
             t == [k \in DOMAIN s |-> J(i, s[k])]
  <2>1. Len(s) \in Nat /\ DOMAIN s = 1..Len(s)
    BY <1>2, LenProperties DEF List
  <2>2. j[i] = t
    OBVIOUS
  <2> HIDE DEF s, J, j
  <2>3. List(t)
    BY <2>1, ListFunction
  <2>4. ToSet(t) = {J(i, p) : p \in ToSet(s)}
    BY DEF ToSet
  <2> HIDE DEF t
  <2>5. QED
    BY ONLY <2>2, <2>3, <2>4 DEF s
<1>6. List(j) /\ DOMAIN j = DOMAIN hosts
  <2>1. DOMAIN hosts = 1..Len(hosts) /\ Len(hosts) \in Nat
    BY <1>2, LenProperties DEF List
  <2>2. DOMAIN j = 1..Len(hosts) /\ j = [i \in 1..Len(hosts) |-> j[i]]
    BY <2>1
  <2> HIDE DEF j
  <2>3. QED
    BY ONLY <2>1, <2>2, ListFunction
<1> HIDE DEF j
<1>7. ToSet(FlattenSeq(j)) = UNION {ToSet(j[i]) : i \in DOMAIN j}
  BY ONLY <1>5, <1>6, ListFlatten
<1>8. \A x : x \in ToSet(FlattenSeq(j)) <=> \E i \in DOMAIN hosts : \E p \in ToSet(hosts[i].ports) : x = J(i, p)
  <2> HIDE DEF J
  <2>1. QED
    BY ONLY <1>5, <1>6, <1>7
<1>9. \A x : x \in ToSet(rows) <=>
        \E i \in DOMAIN hosts : \E p \in ToSet(hosts[i].ports) : p.state = "open" /\ x = PortRow(hosts[i], p)
  BY ONLY <1>1, <1>4
<1>10. \A i, p : J(i, p).row = PortRow(hosts[i], p) /\ J(i, p).state = p.state
  OBVIOUS
<1> HIDE DEF J
<1> DEFINE all == ToSet(FlattenSeq(j))
           found == {entry.row : entry \in {e \in all : e.state = "open"}}
<1>11. found = ToSet(rows)
  <2>1. ASSUME NEW x \in found PROVE x \in ToSet(rows)
    <3>1. PICK e \in all : e.state = "open" /\ x = e.row
      OBVIOUS
    <3> HIDE DEF all
    <3>2. PICK i \in DOMAIN hosts : \E p \in ToSet(hosts[i].ports) : e = J(i, p)
      BY <1>8 DEF all
    <3>3. PICK p \in ToSet(hosts[i].ports) : e = J(i, p)
      BY <3>2
    <3>4. e.row = PortRow(hosts[i], p) /\ e.state = p.state
      BY ONLY <1>10, <3>3
    <3>5. QED
      BY <1>9, <3>1, <3>3, <3>4
  <2>2. ASSUME NEW x \in ToSet(rows) PROVE x \in found
    <3>0. PICK i \in DOMAIN hosts :
            \E p \in ToSet(hosts[i].ports) : p.state = "open" /\ x = PortRow(hosts[i], p)
      BY <1>9
    <3>1. PICK p \in ToSet(hosts[i].ports) : p.state = "open" /\ x = PortRow(hosts[i], p)
      BY <3>0
    <3> DEFINE e == J(i, p)
    <3>2. e \in all
      BY <1>8, <3>1
    <3>3. e.row = x /\ e.state = "open"
      BY ONLY <1>10, <3>1
    <3> HIDE DEF all, e
    <3>4. QED
      BY <3>2, <3>3
  <2> HIDE DEF found
  <2>3. QED
    BY ONLY <2>1, <2>2
<1>12. QED
  BY <1>3, <1>11 DEF rows

\* The formats of the report agree about the findings, how many they are, and
\* the open ports.
THEOREM ReportsAgreeAlways == Spec => []ReportsAgree
<1>1. IInv /\ StatsMatchReport => ReportsAgree
  <2> SUFFICES ASSUME IInv, StatsMatchReport, NEW scan \in Scans, Reported(scan)
               PROVE  Agree(Written(scan))
    BY DEF ReportsAgree
  <2> DEFINE report == Written(scan)
             list == [i \in DOMAIN ranked |-> findings[ranked[i]]]
             rows == PortRows(report)
  <2>1. pc = "done" /\ report.hosts = HostsAfter[scan] /\ report.findings = list
    BY DEF Reported, Written
  <2>2. Reportable(report.hosts)
    BY <2>1, HostsAreReportable
  <2>3. ByRisk(list) = list /\ Len(list) = Len(ranked)
    BY <2>1, WrittenIsRanked
  <2>4. Len(ranked) = stats.total
    BY <2>1, LongAsIssues DEF StatsMatchReport
  <2> HIDE DEF report, list
  <2>5. /\ Txt(report).findings = list /\ Xml(report).findings = list /\ Html(report).findings = list
        /\ Csv(report).findings = list /\ Json(report).findings = list
    BY <2>1, <2>3 DEF Txt, Xml, Html, Csv, Json
  <2>6. Xml(report).ports = rows /\ Html(report).ports = rows
    BY DEF Xml, Html
  <2>7. Txt(report).ports = rows
    BY <2>2, TextHasTheRows
  <2>8. ToSet(Grepable(report).ports) = ToSet(rows) /\ Len(Grepable(report).ports) = Len(rows)
    BY <2>2, GrepableHasTheRows
  <2>9. {entry.row : entry \in {e \in ToSet(Json(report).ports) : e.state = "open"}} = ToSet(rows)
    BY <2>2, JsonHasTheRows
  <2>10. \A s : Range(s) = ToSet(s)
    BY DEF Range, ToSet
  <2> HIDE DEF rows
  <2>11. \A format \in {Txt(report), Xml(report), Html(report), Csv(report)} : format.findings = Json(report).findings
    BY ONLY <2>5
  <2>12. Len(Txt(report).findings) = stats.total
    BY ONLY <2>3, <2>4, <2>5
  <2>13. \A format \in {Txt(report), Xml(report), Html(report), Grepable(report)} :
           Range(format.ports) = Range(rows) /\ Len(format.ports) = Len(rows)
    BY ONLY <2>6, <2>7, <2>8, <2>10
  <2>14. {entry.row : entry \in {e \in Range(Json(report).ports) : e.state = "open"}} = Range(rows)
    BY ONLY <2>9, <2>10
  <2>15. Agree(report)
    BY <2>11, <2>12, <2>13, <2>14 DEF Agree, rows
  <2>16. QED
    BY <2>15 DEF report
<1>2. QED
  BY <1>1, Inductive, StatsCorrect, PTL

-----------------------------------------------------------------------------
(***************************************************************************)
(* The CVEs. Versions first: Python's comparison of tuples is the          *)
(* comparison of numbers to a base above all their parts (WeightOrders),   *)
(* and what extract_version makes of a text is a version (ExtractedIs).    *)
(* Then what is told: whatever a peer says, its probe tells a text         *)
(* (ProbeTells), and the version that counts is the one told last          *)
(* (ToldLastIs). Then what it is matched with (EntriesAre) and what of     *)
(* that reaches the report (CveIssuesAre, ListedCves).                     *)
(***************************************************************************)

\* Versions: up to four numbers.
Version(v) == v \in Seq(Nat) /\ Len(v) <= 4

\* One more digit decides between equals only.
LEMMA HornerStep ==
  ASSUME NEW base \in Nat, NEW a \in Nat, NEW b \in Nat, NEW x \in Nat, NEW y \in Nat, x < base, y < base
  PROVE  /\ a * base + x \in Nat /\ b * base + y \in Nat
         /\ a * base + x < b * base + y <=> a < b \/ (a = b /\ x < y)
         /\ a * base + x = b * base + y <=> a = b /\ x = y
<1>1. a * base \in Nat /\ b * base \in Nat
  OBVIOUS
<1>2. ASSUME NEW c \in Nat, NEW d \in Nat, c < d PROVE c * base + base <= d * base
  <2>1. PICK e \in Nat : d = c + 1 + e
    <3>1. d - c - 1 \in Nat /\ d = c + 1 + (d - c - 1)
      BY <1>2
    <3>2. QED
      BY <3>1
  <2>2. (c + 1 + e) * base = c * base + base + e * base
    OBVIOUS
  <2>3. e * base >= 0
    OBVIOUS
  <2>4. QED
    BY <2>1, <2>2, <2>3
<1> DEFINE p == a * base
           q == b * base
<1>3. p \in Nat /\ q \in Nat /\ (a < b => p + base <= q) /\ (b < a => q + base <= p) /\ (a = b => p = q)
  BY <1>1, <1>2
<1> HIDE DEF p, q
<1>4. /\ p + x \in Nat /\ q + y \in Nat
      /\ p + x < q + y <=> a < b \/ (a = b /\ x < y)
      /\ p + x = q + y <=> a = b /\ x = y
  BY <1>3
<1>5. QED
  BY <1>4 DEF p, q

\* The parts of a version.
LEMMA PartIs ==
  ASSUME NEW v, Version(v), NEW i \in Nat
  PROVE  /\ Part(v, i) \in Nat /\ DOMAIN v = 1..Len(v) /\ Len(v) \in Nat
         /\ i \in DOMAIN v => v[i] \in Nat /\ Part(v, i) = v[i] + 1
         /\ i \notin DOMAIN v => Part(v, i) = 0
<1>1. DOMAIN v = 1..Len(v) /\ Len(v) \in Nat /\ \A k \in DOMAIN v : v[k] \in Nat
  BY LenProperties, ElementOfSeq DEF Version
<1>2. QED
  BY <1>1 DEF Part

\* To compare versions as Python compares tuples is to compare their weights.
LEMMA WeightOrders ==
  ASSUME NEW v, NEW w, Version(v), Version(w)
  PROVE  Less(v, w) <=> Earlier(v, w)
<1> DEFINE a(i) == Part(v, i)
           b(i) == Part(w, i)
           D(i) == /\ \A j \in 1..(i - 1) : j \in DOMAIN v /\ v[j] = w[j]
                   /\ i \in DOMAIN v => v[i] < w[i]
           E(i) == (\A j \in 1..(i - 1) : a(j) = b(j)) /\ a(i) < b(i)
<1>1. DOMAIN v = 1..Len(v) /\ Len(v) \in 0..4 /\ DOMAIN w = 1..Len(w) /\ Len(w) \in 0..4
  <2>1. v \in Seq(Nat) /\ w \in Seq(Nat) /\ Len(v) <= 4 /\ Len(w) <= 4
    BY DEF Version
  <2>2. DOMAIN v = 1..Len(v) /\ Len(v) \in Nat /\ DOMAIN w = 1..Len(w) /\ Len(w) \in Nat
    BY ONLY <2>1, LenProperties
  <2>3. \A n \in Nat : n <= 4 => n \in 0..4
    OBVIOUS
  <2>4. QED
    BY ONLY <2>1, <2>2, <2>3, Zenon
<1>2. \A i \in 1..4 : /\ a(i) \in Nat /\ b(i) \in Nat
                      /\ i \in DOMAIN v => v[i] \in Nat /\ a(i) = v[i] + 1
                      /\ i \notin DOMAIN v => a(i) = 0
                      /\ i \in DOMAIN w => w[i] \in Nat /\ b(i) = w[i] + 1
                      /\ i \notin DOMAIN w => b(i) = 0
  <2> SUFFICES ASSUME NEW i \in 1..4
               PROVE  /\ a(i) \in Nat /\ b(i) \in Nat
                      /\ i \in DOMAIN v => v[i] \in Nat /\ a(i) = v[i] + 1
                      /\ i \notin DOMAIN v => a(i) = 0
                      /\ i \in DOMAIN w => w[i] \in Nat /\ b(i) = w[i] + 1
                      /\ i \notin DOMAIN w => b(i) = 0
    OBVIOUS
  <2>1. i \in Nat
    OBVIOUS
  <2>2. QED
    BY <2>1, PartIs
<1>3. Less(v, w) <=> \E i \in DOMAIN w : D(i)
  BY Zenon DEF Less
<1> HIDE DEF a, b
<1>4. ASSUME NEW i \in 1..4 PROVE i \in DOMAIN w /\ D(i) <=> E(i)
  <2>1. a(i) < b(i) <=> i \in DOMAIN w /\ (i \in DOMAIN v => v[i] < w[i])
    BY <1>2
  <2>2. ASSUME i \in DOMAIN w, NEW j \in 1..(i - 1)
        PROVE  a(j) = b(j) <=> j \in DOMAIN v /\ v[j] = w[j]
    <3>1. j \in DOMAIN w /\ j \in 1..4
      BY <1>1, <2>2
    <3>2. QED
      BY <1>2, <3>1
  <2>3. QED
    BY <2>1, <2>2
<1>5. DOMAIN w \subseteq 1..4
  BY <1>1
<1> HIDE DEF D
<1>6. Less(v, w) <=> \E i \in 1..4 : E(i)
  BY ONLY <1>3, <1>4, <1>5
<1> DEFINE a1 == a(1)
           a2 == a(2)
           a3 == a(3)
           a4 == a(4)
           b1 == b(1)
           b2 == b(2)
           b3 == b(3)
           b4 == b(4)
           base == 1 + (a1 + a2 + a3 + a4) + (b1 + b2 + b3 + b4)
<1>7. (\E i \in 1..4 : E(i)) <=> \/ a1 < b1
                                 \/ a1 = b1 /\ a2 < b2
                                 \/ a1 = b1 /\ a2 = b2 /\ a3 < b3
                                 \/ a1 = b1 /\ a2 = b2 /\ a3 = b3 /\ a4 < b4
  <2>1. E(1) <=> a1 < b1
    <3>1. 1..(1 - 1) = {}
      OBVIOUS
    <3>2. QED
      BY ONLY <3>1
  <2>2. E(2) <=> a1 = b1 /\ a2 < b2
    <3>1. 1..(2 - 1) = {1}
      OBVIOUS
    <3>2. QED
      BY ONLY <3>1
  <2>3. E(3) <=> a1 = b1 /\ a2 = b2 /\ a3 < b3
    <3>1. 1..(3 - 1) = {1, 2}
      OBVIOUS
    <3>2. QED
      BY ONLY <3>1
  <2>4. E(4) <=> a1 = b1 /\ a2 = b2 /\ a3 = b3 /\ a4 < b4
    <3>1. 1..(4 - 1) = {1, 2, 3}
      OBVIOUS
    <3>2. QED
      BY ONLY <3>1
  <2>5. 1..4 = {1, 2, 3, 4}
    OBVIOUS
  <2> HIDE DEF E, a1, a2, a3, a4, b1, b2, b3, b4
  <2>6. QED
    BY ONLY <2>1, <2>2, <2>3, <2>4, <2>5
<1>8. /\ a1 \in Nat /\ a2 \in Nat /\ a3 \in Nat /\ a4 \in Nat
      /\ b1 \in Nat /\ b2 \in Nat /\ b3 \in Nat /\ b4 \in Nat
  BY <1>2
<1>9. Earlier(v, w) <=> ((a1 * base + a2) * base + a3) * base + a4 < ((b1 * base + b2) * base + b3) * base + b4
  BY DEF Earlier, Weight, Parts, a, b
<1> HIDE DEF E, a1, a2, a3, a4, b1, b2, b3, b4
<1>10. /\ base \in Nat /\ a2 < base /\ a3 < base /\ a4 < base /\ b2 < base /\ b3 < base /\ b4 < base
  BY ONLY <1>8
<1> DEFINE x2 == a1 * base + a2
           y2 == b1 * base + b2
           x3 == x2 * base + a3
           y3 == y2 * base + b3
<1> HIDE DEF base
<1>11. /\ x2 \in Nat /\ y2 \in Nat
       /\ x2 < y2 <=> a1 < b1 \/ (a1 = b1 /\ a2 < b2)
       /\ x2 = y2 <=> a1 = b1 /\ a2 = b2
  BY ONLY <1>8, <1>10, HornerStep
<1> HIDE DEF x2, y2
<1>12. /\ x3 \in Nat /\ y3 \in Nat
       /\ x3 < y3 <=> x2 < y2 \/ (x2 = y2 /\ a3 < b3)
       /\ x3 = y3 <=> x2 = y2 /\ a3 = b3
  BY ONLY <1>8, <1>10, <1>11, HornerStep
<1> HIDE DEF x3, y3
<1>13. x3 * base + a4 < y3 * base + b4 <=> x3 < y3 \/ (x3 = y3 /\ a4 < b4)
  BY ONLY <1>8, <1>10, <1>12, HornerStep
<1>14. Earlier(v, w) <=> x3 * base + a4 < y3 * base + b4
  BY <1>9 DEF x2, y2, x3, y3
<1>15. QED
  BY ONLY <1>6, <1>7, <1>11, <1>12, <1>13, <1>14

\* The first numbers of a list.
LEMMA FirstIs ==
  ASSUME NEW s \in Seq(Nat), NEW n \in Nat
  PROVE  /\ First(n, s) \in Seq(Nat) /\ Len(First(n, s)) <= n
         /\ \A i \in 1..n : /\ i \in DOMAIN First(n, s) <=> i \in DOMAIN s
                            /\ i \in DOMAIN s => First(n, s)[i] = s[i]
<1> DEFINE k == IF n < Len(s) THEN n ELSE Len(s)
           f == SubSeq(s, 1, k)
<1>1. Len(s) \in Nat /\ DOMAIN s = 1..Len(s) /\ k \in 0..Len(s) /\ k <= n
  BY LenProperties
<1>2. \A i \in 1..n : i \in 1..Len(s) <=> i \in 1..k
  BY <1>1
<1> HIDE DEF k
<1>3. f \in Seq(Nat) /\ Len(f) = k /\ \A i \in 1..k : f[i] = s[i]
  <2>1. 1 \in 1..(Len(s) + 1) /\ \A i \in 1..k : i \in 1..Len(s)
    BY <1>1
  <2>2. f \in Seq(Nat) /\ Len(f) = k /\ \A i \in 1..k : f[i] = s[1 + i - 1]
    BY <1>1, <2>1, SubSeqProperties
  <2>3. \A i \in 1..k : 1 + i - 1 = i
    BY <1>1
  <2>4. QED
    BY <2>2, <2>3
<1>4. DOMAIN f = 1..k
  BY <1>3, LenProperties
<1>5. First(n, s) = f
  BY DEF First, k
<1> HIDE DEF f
<1>6. QED
  BY <1>1, <1>2, <1>3, <1>4, <1>5

\* A list is empty when it has no first element.
LEMMA EmptyIs ==
  ASSUME NEW s \in Seq(Nat)
  PROVE  s # <<>> <=> 1 \in DOMAIN s
<1>1. Len(s) \in Nat /\ DOMAIN s = 1..Len(s)
  BY LenProperties
<1>2. s = <<>> <=> Len(s) = 0
  BY EmptySeq, LenProperties
<1>3. QED
  BY <1>1, <1>2

\* A text whose numbers are numbers, and what extract_version makes of it.
Numbered(text) == text.numbers \in Seq(Nat) /\ text.prefix \in Seq(Nat) /\ text.digits \in Seq(Nat)
LEMMA ExtractedIs ==
  ASSUME NEW text, Numbered(text), NEW key
  PROVE  Version(ExtractVersion(key, text))
<1>1. text.numbers \in Seq(Nat) /\ text.prefix \in Seq(Nat) /\ text.digits \in Seq(Nat)
  BY DEF Numbered
<1> DEFINE p == First(4, text.numbers)
           q == First(3, text.digits)
           r == First(4, text.prefix)
<1>2. /\ p \in Seq(Nat) /\ Len(p) <= 4 /\ r \in Seq(Nat) /\ Len(r) <= 4
      /\ q \in Seq(Nat) /\ Len(q) <= 3 /\ Len(q) \in Nat
  BY <1>1, FirstIs, LenProperties
<1>3. ExtractVersion(key, text) \in {p, q, r}
  BY DEF ExtractVersion
<1> HIDE DEF p, q, r
<1>4. QED
  BY <1>2, <1>3 DEF Version

\* What extract_version makes of a text is, in all the parts that count, what it tells.
LEMMA ExtractedIsTold ==
  ASSUME NEW text, Numbered(text), NEW key
  PROVE  LET version == ExtractVersion(key, text)
             told == VersionTold(key, text)
         IN  /\ version # <<>> <=> told # <<>>
             /\ \A i \in 1..4 : Part(version, i) = Part(told, i)
<1> DEFINE version == ExtractVersion(key, text)
           told == VersionTold(key, text)
           named == key \in VERSION_PATTERNS /\ text.product = key /\ text.numbers # <<>>
           Same == /\ version # <<>> <=> told # <<>>
                   /\ \A i \in 1..4 : Part(version, i) = Part(told, i)
<1> SUFFICES Same
  OBVIOUS
<1>1. text.numbers \in Seq(Nat) /\ text.prefix \in Seq(Nat) /\ text.digits \in Seq(Nat)
  BY DEF Numbered
<1>2. ASSUME NEW s \in Seq(Nat), version = First(4, s), told = s PROVE Same
  <2> DEFINE f == First(4, s)
  <2>1. f \in Seq(Nat) /\ \A i \in 1..4 : /\ i \in DOMAIN f <=> i \in DOMAIN s
                                          /\ i \in DOMAIN s => f[i] = s[i]
    BY FirstIs
  <2>2. f # <<>> <=> s # <<>>
    BY <2>1, EmptyIs
  <2> HIDE DEF f
  <2>3. \A i \in 1..4 : Part(f, i) = Part(s, i)
    BY <2>1 DEF Part
  <2>4. QED
    BY <1>2, <2>2, <2>3 DEF f
<1>3. CASE named
  <2>1. version = First(4, text.numbers) /\ told = text.numbers
    BY <1>3 DEF ExtractVersion, VersionTold
  <2> HIDE DEF version, told
  <2>2. QED
    BY <1>1, <1>2, <2>1
<1>4. CASE ~named /\ text.digits = <<>>
  <2>1. version = First(4, text.prefix) /\ told = text.prefix
    BY <1>4 DEF ExtractVersion, VersionTold
  <2> HIDE DEF version, told
  <2>2. QED
    BY <1>1, <1>2, <2>1
<1>5. CASE ~named /\ text.digits # <<>>
  <2> DEFINE s == text.digits
             f == First(3, s)
             g == [i \in DOMAIN s \cap 1..3 |-> s[i]]
  <2>1. version = f /\ told = g
    BY <1>5 DEF ExtractVersion, VersionTold
  <2>2. /\ f \in Seq(Nat) /\ Len(f) <= 3
        /\ \A i \in 1..3 : /\ i \in DOMAIN f <=> i \in DOMAIN s
                           /\ i \in DOMAIN s => f[i] = s[i]
    BY <1>1, FirstIs
  <2>3. 1 \in DOMAIN s
    BY <1>1, <1>5, EmptyIs
  <2>4. DOMAIN f = 1..Len(f) /\ Len(f) \in Nat
    BY <2>2, LenProperties
  <2>5. 4 \notin DOMAIN f
    BY <2>2, <2>4
  <2>6. f # <<>>
    BY <2>2, <2>3, EmptyIs
  <2>7. g # <<>>
    <3>1. 1 \in DOMAIN g
      BY <2>3
    <3> HIDE DEF g
    <3>2. QED
      BY <3>1
  <2>8. /\ DOMAIN g = DOMAIN s \cap 1..3
        /\ \A i \in DOMAIN g : g[i] = s[i]
    OBVIOUS
  <2> HIDE DEF f, g, s
  <2>9. \A i \in 1..4 : Part(f, i) = Part(g, i)
    <3>1. \A i \in 1..4 : i \in 1..3 \/ i = 4
      OBVIOUS
    <3>2. QED
      BY <2>2, <2>5, <2>8, <3>1 DEF Part
  <2>10. QED
    BY <2>1, <2>6, <2>7, <2>9
<1>6. QED
  BY <1>3, <1>4, <1>5

\* A probe that tells a text, and a peer that says texts.
Tells(out) == Numbered(out.version)
Talks(peer) == \A request \in DOMAIN peer.says : Numbered(peer.says[request])
Labelling(r) == Numbered(r.label)
Telling(reactions) == Reactive(reactions) /\ \A i \in DOMAIN reactions : Labelling(reactions[i])

\* The texts that the program makes itself.
LEMMA TextsMade ==
  /\ Numbered(NoText)
  /\ \A product, words : \A numbers, digits \in Seq(Nat) : Numbered(Text(product, numbers, digits, words))
  /\ \A words : \A digits \in Seq(Nat) : Numbered(Label(words, digits))
<1>1. <<>> \in Seq(Nat)
  BY EmptySeq
<1>2. Numbered(NoText)
  BY <1>1 DEF NoText, Numbered
<1>3. \A product, words : \A numbers, digits \in Seq(Nat) : Numbered(Text(product, numbers, digits, words))
  BY <1>1 DEF Text, Numbered
<1>4. \A words : \A digits \in Seq(Nat) : Numbered(Label(words, digits))
  BY <1>1, <1>3, Zenon DEF Label
<1>5. QED
  BY ONLY <1>2, <1>3, <1>4

\* What the probes' reactions are made with.
LEMMA LabelledKinds ==
  /\ \A marker, flags, label : Numbered(label) => Labelling(On(marker, label, flags)) /\ Labelling(Else(label))
  /\ \A marker, name, flags : Labelling(Names(marker, name, flags))
<1>1. \A marker, label, flags : On(marker, label, flags).label = label /\ Else(label).label = label
  BY DEF On, Else
<1>2. \A marker, name, flags : Names(marker, name, flags).label = NoText
  BY DEF Names
<1>3. Numbered(NoText)
  BY TextsMade
<1>4. \A marker, flags, label : Numbered(label) => Labelling(On(marker, label, flags)) /\ Labelling(Else(label))
  BY ONLY <1>1, Zenon DEF Labelling
<1>5. \A marker, name, flags : Labelling(Names(marker, name, flags))
  BY ONLY <1>2, <1>3, Zenon DEF Labelling
<1>6. QED
  BY ONLY <1>4, <1>5

\* An exchange tells a text.
LEMMA ExchangeTells ==
  ASSUME NEW peer, Talks(peer), NEW request, NEW reactions, Telling(reactions)
  PROVE  Tells(Exchange(peer, request, reactions))
<1> DEFINE said == peer.says[request]
           fits == {i \in DOMAIN reactions : reactions[i].marker \in said.words \cup {""}}
           x == Exchange(peer, request, reactions)
<1>1. x = IF ~InTime(peer, request) \/ fits = {} THEN Nothing ELSE Reaction(reactions[Min(fits)], said)
  BY DEF Exchange
<1>2. Tells(Nothing)
  BY TextsMade DEF Tells, Nothing, Out
<1>3. CASE InTime(peer, request) /\ fits # {}
  <2> DEFINE k == Min(fits)
  <2>1. k \in fits
    BY <1>3, MinOfNaturals DEF Telling, Reactive
  <2>2. k \in DOMAIN reactions
    BY <2>1
  <2> DEFINE r == reactions[k]
  <2>3. Numbered(r.label)
    BY <2>2 DEF Telling, Labelling
  <2>4. Numbered(said)
    BY <1>3 DEF InTime, Talks
  <2>5. x = Reaction(r, said)
    BY <1>1, <1>3
  <2> HIDE DEF x, said, fits, k, r
  <2>6. said.numbers \in Seq(Nat)
    BY <2>4 DEF Numbered
  <2>7. Numbered(Text(r.name, said.numbers, said.numbers, {r.name}))
    BY <2>6, TextsMade
  <2>8. Reaction(r, said).version = IF r.name = "" THEN r.label ELSE Text(r.name, said.numbers, said.numbers, {r.name})
    BY DEF Reaction, Out
  <2>9. QED
    BY ONLY <2>3, <2>5, <2>7, <2>8, Zenon DEF x, Tells
<1>4. CASE ~(InTime(peer, request) /\ fits # {})
  <2>1. x = Nothing
    BY <1>1, <1>4
  <2>2. QED
    BY <1>2, <2>1
<1>5. QED
  BY <1>3, <1>4

\* The reactions of the probes do.
LEMMA ReactionsTell ==
  /\ Telling(LdapReactions) /\ Telling(SmbReactions) /\ Telling(KerberosReactions)
  /\ Telling(OracleReactions) /\ Telling(MysqlReactions) /\ Telling(PostgresReactions)
  /\ Telling(RedisReactions) /\ Telling(MongodbReactions) /\ Telling(ElasticsearchReactions)
  /\ Telling(MemcachedReactions) /\ Telling(VncReactions) /\ Telling(RdpReactions)
  /\ Telling(MssqlReactions)
<1>1. ASSUME NEW a, Labelling(a) PROVE Telling(<<a>>)
  BY <1>1, Reactions1 DEF Telling
<1>2. ASSUME NEW a, Labelling(a), NEW b, Labelling(b) PROVE Telling(<<a, b>>)
  BY <1>2, Reactions2 DEF Telling
<1>3. ASSUME NEW a, Labelling(a), NEW b, Labelling(b), NEW c, Labelling(c) PROVE Telling(<<a, b, c>>)
  BY <1>3, Reactions3 DEF Telling
<1> DEFINE n0 == <<>>
           n1 == <<1>>
           n2 == <<2, 3>>
           n3 == <<5>>
           n4 == <<82>>
<1>4. n0 \in Seq(Nat) /\ n1 \in Seq(Nat) /\ n2 \in Seq(Nat) /\ n3 \in Seq(Nat) /\ n4 \in Seq(Nat)
  OBVIOUS
<1> HIDE DEF n0, n1, n2, n3, n4
<1>5. \A words : /\ Numbered(Label(words, n0)) /\ Numbered(Label(words, n1)) /\ Numbered(Label(words, n2))
                 /\ Numbered(Label(words, n3)) /\ Numbered(Label(words, n4))
  BY ONLY <1>4, TextsMade, Zenon
<1>6. \A product, words : Numbered(Text(product, n0, n0, words))
  BY ONLY <1>4, TextsMade, Zenon
<1>10. Telling(LdapReactions) /\ Telling(OracleReactions) /\ Telling(PostgresReactions)
  BY ONLY <1>1, <1>5, <1>6, LabelledKinds, Zenon DEF LdapReactions, OracleReactions, PostgresReactions, n0
<1>11. /\ Telling(MemcachedReactions) /\ Telling(RdpReactions) /\ Telling(MssqlReactions)
  BY ONLY <1>1, <1>5, LabelledKinds, Zenon DEF MemcachedReactions, RdpReactions, MssqlReactions, n0
<1>12. Telling(VncReactions)
  <2>1. VncReactions = <<On("RFB", Label({"vnc"}, n4), {})>>
    BY DEF VncReactions, n4
  <2>2. QED
    BY ONLY <1>1, <1>5, LabelledKinds, <2>1, Zenon
<1>13. Telling(KerberosReactions)
  BY ONLY <1>2, <1>5, LabelledKinds, Zenon DEF KerberosReactions, n0, n3
<1>14. Telling(MysqlReactions) /\ Telling(RedisReactions) /\ Telling(MongodbReactions)
  BY ONLY <1>2, <1>5, LabelledKinds, Zenon DEF MysqlReactions, RedisReactions, MongodbReactions, n0
<1>15. Telling(ElasticsearchReactions)
  BY ONLY <1>2, <1>6, LabelledKinds, Zenon DEF ElasticsearchReactions, n0
<1>16. Telling(SmbReactions)
  BY ONLY <1>3, <1>5, LabelledKinds, Zenon DEF SmbReactions, n0, n1, n2
<1>17. QED
  BY ONLY <1>10, <1>11, <1>12, <1>13, <1>14, <1>15, <1>16

\* So do the dialogues.
LEMMA DialoguesTell ==
  ASSUME NEW peer, Talks(peer)
  PROVE  /\ Tells(ProbeFtp(peer)) /\ Tells(ProbeSsh(peer)) /\ Tells(ProbeTelnet(peer)) /\ Tells(ProbeMail(peer))
         /\ Tells(ProbeGeneric(peer)) /\ Tells(PlainMail) /\ Tells(Nothing)
<1>1. \A version, banners, flags : Out(version, banners, flags).version = version
  BY DEF Out
<1>2. Numbered(NoText) /\ Numbered(Label({"telnet"}, <<>>))
  <2>1. <<>> \in Seq(Nat)
    BY EmptySeq
  <2>2. QED
    BY ONLY <2>1, TextsMade, Zenon
<1>3. Numbered(Greeting(peer))
  <2>1. \A request : Numbered(Answer(peer, request))
    BY <1>2 DEF Answer, Talks
  <2>2. QED
    BY <1>2, <2>1 DEF Greeting, ReadBanner
<1>4. Tells(PlainMail) /\ Tells(Nothing)
  BY ONLY <1>1, <1>2, Zenon DEF PlainMail, Nothing, Tells
<1>5. Tells(ProbeFtp(peer)) /\ Tells(ProbeSsh(peer))
  BY ONLY <1>1, <1>3, Zenon DEF ProbeFtp, ProbeSsh, Tells
<1>6. Tells(ProbeMail(peer)) /\ Tells(ProbeGeneric(peer))
  BY ONLY <1>1, <1>3, <1>4, Zenon DEF ProbeMail, ProbeGeneric, Tells
<1>7. Tells(ProbeTelnet(peer))
  <2> DEFINE said == peer.says[""]
             negotiation == Label({"telnet"}, <<>>)
             shut == Out(negotiation, <<Label({}, <<>>)>>, {})
             full == Out(said, <<said>>, {})
             nothing == Nothing
             out == ProbeTelnet(peer)
  <2>1. InTime(peer, "") => Numbered(said)
    BY DEF InTime, Talks
  <2>2. out = IF ~InTime(peer, "") THEN nothing ELSE IF said = NoText THEN shut ELSE full
    BY DEF ProbeTelnet
  <2>3. shut.version = negotiation /\ full.version = said
    BY DEF Out
  <2>4. Tells(nothing) /\ Numbered(negotiation)
    BY <1>2, <1>4
  <2> HIDE DEF said, negotiation, shut, full, nothing, out
  <2>5. Tells(out)
    BY ONLY <2>1, <2>2, <2>3, <2>4, Zenon DEF Tells
  <2>6. QED
    BY ONLY <2>5 DEF out
<1>8. QED
  BY ONLY <1>4, <1>5, <1>6, <1>7

\* The dispatcher tells a text, whatever answers.
LEMMA ProbeTells ==
  ASSUME NEW peers, \A n \in DOMAIN peers : Talks(peers[n]), NEW port \in Nat
  PROVE  Tells(Probe(peers, port))
<1> DEFINE peer == peers[port]
           out == Probe(peers, port)
           ftp == ProbeFtp(peer)
           ssh == ProbeSsh(peer)
           telnet == ProbeTelnet(peer)
           mail == ProbeMail(peer)
           secure == Exchange(peer, "ask", LdapReactions)
           generic == ProbeGeneric(peer)
           ldap == IF peer.tls THEN secure ELSE Nothing
           smb == Exchange(peer, "ask", SmbReactions)
           kerberos == Exchange(peer, "ask", KerberosReactions)
           oracle == Exchange(peer, "ask", OracleReactions)
           mysql == Exchange(peer, "", MysqlReactions)
           postgres == Exchange(peer, "ask", PostgresReactions)
           redis == Exchange(peer, "ask", RedisReactions)
           mongodb == Exchange(peer, "ask", MongodbReactions)
           elasticsearch == Exchange(peer, "ask", ElasticsearchReactions)
           memcached == Exchange(peer, "ask", MemcachedReactions)
           vnc == Exchange(peer, "", VncReactions)
           rdp == Exchange(peer, "ask", RdpReactions)
           mssql == Exchange(peer, "ask", MssqlReactions)
           plain == PlainMail
           nothing == Nothing
<1>1. out = IF port \in {25, 587, 110, 143} THEN plain
            ELSE IF port = 389 \/ port \notin DOMAIN peers THEN nothing
            ELSE CASE port = 21 -> ftp [] port = 22 -> ssh [] port = 23 -> telnet
                   [] port \in {465, 995, 993} -> mail [] port = 636 -> ldap
                   [] port = 445 -> smb [] port = 88 -> kerberos [] port = 1521 -> oracle
                   [] port = 3306 -> mysql [] port = 5432 -> postgres [] port = 6379 -> redis
                   [] port = 27017 -> mongodb [] port = 9200 -> elasticsearch
                   [] port = 11211 -> memcached [] port = 5900 -> vnc [] port = 3389 -> rdp
                   [] port = 1433 -> mssql [] OTHER -> generic
  BY DEF Probe
<1>2. Tells(plain) /\ Tells(nothing)
  BY TextsMade, Zenon DEF PlainMail, Nothing, Tells, Out
<1> DEFINE each == /\ Tells(ftp) /\ Tells(ssh) /\ Tells(telnet) /\ Tells(mail) /\ Tells(generic)
                   /\ Tells(secure) /\ Tells(smb) /\ Tells(kerberos) /\ Tells(oracle) /\ Tells(mysql)
                   /\ Tells(postgres) /\ Tells(redis) /\ Tells(mongodb) /\ Tells(elasticsearch)
                   /\ Tells(memcached) /\ Tells(vnc) /\ Tells(rdp) /\ Tells(mssql)
<1>3. port \in DOMAIN peers => each
  <2> SUFFICES ASSUME port \in DOMAIN peers PROVE each
    OBVIOUS
  <2>1. Talks(peer)
    OBVIOUS
  <2> HIDE DEF peer
  <2>2. Tells(ftp) /\ Tells(ssh) /\ Tells(telnet) /\ Tells(mail) /\ Tells(generic)
    BY ONLY <2>1, DialoguesTell
  <2>3. Tells(secure) /\ Tells(smb) /\ Tells(kerberos) /\ Tells(oracle) /\ Tells(mysql)
    BY ONLY <2>1, ExchangeTells, ReactionsTell, Zenon
  <2>4. Tells(postgres) /\ Tells(redis) /\ Tells(mongodb) /\ Tells(elasticsearch)
    BY ONLY <2>1, ExchangeTells, ReactionsTell, Zenon
  <2>5. Tells(memcached) /\ Tells(vnc) /\ Tells(rdp) /\ Tells(mssql)
    BY ONLY <2>1, ExchangeTells, ReactionsTell, Zenon
  <2>6. QED
    BY ONLY <2>2, <2>3, <2>4, <2>5
<1>4. Tells(nothing) /\ each => Tells(ldap)
  OBVIOUS
<1> HIDE DEF peer, out, ftp, ssh, telnet, mail, secure, generic, ldap, smb, kerberos, oracle, mysql, postgres,
             redis, mongodb, elasticsearch, memcached, vnc, rdp, mssql, plain, nothing
<1>5. Tells(out)
  BY ONLY <1>1, <1>2, <1>3, <1>4, port \in Nat
<1>6. QED
  BY ONLY <1>5 DEF out

\* The findings for a port's software are the entries that affect it.
LEMMA EntriesAre ==
  ASSUME NEW port, Numbered(port.version)
  PROVE  LET key == MatchSoftwareAliases(port.service, port.version)
             entries == IF port.version = NoText \/ key = "" THEN <<>> ELSE MatchCves(key, port.version)
         IN  /\ List(entries)
             /\ ToSet(entries) = {x \in ToSet(CVE_DB) : Affected(port.service, port.version, x)}
<1> DEFINE text == port.version
           service == port.service
           key == MatchSoftwareAliases(service, text)
           version == ExtractVersion(key, text)
           hits == {e \in ToSet(CVE_DB) : version # <<>> /\ e.software = key /\ Affects(e, version)}
           entries == IF text = NoText \/ key = "" THEN <<>> ELSE MatchCves(key, text)
<1>1. List(CVE_DB) /\ \A e \in ToSet(CVE_DB) : /\ e.software # ""
                                               /\ Version(e.introduced) /\ Version(e.fixed)
  <2>1. CVE_DB \in Seq(Entries)
    BY CveAssumption
  <2>2. List(CVE_DB) /\ ToSet(CVE_DB) \subseteq Entries
    BY ONLY <2>1, SeqIsList
  <2>3. QED
    BY <2>2, CveAssumption DEF Entries, Version
<1>2. Version(version)
  BY ExtractedIs
<1>3. MatchCves(key, text) = Kept(CVE_DB, hits)
  BY DEF MatchCves
<1>4. List(Kept(CVE_DB, hits)) /\ ToSet(Kept(CVE_DB, hits)) = ToSet(CVE_DB) \cap hits
  BY ONLY <1>1, ListKept
<1>5. ASSUME NEW e \in ToSet(CVE_DB)
      PROVE  e \in hits <=> Affected(service, text, e)
  <2> DEFINE v == e.introduced
             w == e.fixed
             told == VersionTold(key, text)
  <2>1. Affects(e, version) <=> ~Less(version, v) /\ (w = <<>> \/ Less(version, w))
    BY DEF Affects
  <2>2. Affected(service, text, e) <=> /\ key = e.software /\ told # <<>>
                                       /\ ~Earlier(told, v) /\ (w # <<>> => Earlier(told, w))
    BY DEF Affected
  <2>3. Version(v) /\ Version(w)
    BY <1>1
  <2>4. e \in hits <=> version # <<>> /\ e.software = key /\ Affects(e, version)
    OBVIOUS
  <2>5. /\ version # <<>> <=> told # <<>>
        /\ \A i \in 1..4 : Part(version, i) = Part(told, i)
    BY ExtractedIsTold
  <2> HIDE DEF v, w, version, key, hits, told
  <2>6. (Less(version, v) <=> Earlier(version, v)) /\ (Less(version, w) <=> Earlier(version, w))
    BY ONLY <1>2, <2>3, WeightOrders
  <2>7. (Earlier(version, v) <=> Earlier(told, v)) /\ (Earlier(version, w) <=> Earlier(told, w))
    <3>1. /\ Part(version, 1) = Part(told, 1) /\ Part(version, 2) = Part(told, 2)
          /\ Part(version, 3) = Part(told, 3) /\ Part(version, 4) = Part(told, 4)
      BY ONLY <2>5
    <3>2. Parts(version) = Parts(told) /\ \A base : Weight(version, base) = Weight(told, base)
      BY ONLY <3>1 DEF Parts, Weight
    <3>3. QED
      BY ONLY <3>2 DEF Earlier
  <2>8. QED
    BY ONLY <2>1, <2>2, <2>4, <2>5, <2>6, <2>7
<1>6. text = NoText => version = <<>>
  <2> SUFFICES ASSUME text = NoText PROVE version = <<>>
    OBVIOUS
  <2>1. NoText.numbers = <<>> /\ NoText.digits = <<>> /\ NoText.prefix = <<>>
    BY DEF NoText
  <2>2. VersionTold(key, text) = <<>>
    <3> HIDE DEF text, key
    <3>1. QED
      BY <2>1 DEF VersionTold
  <2>3. QED
    BY <2>2, ExtractedIsTold
<1>7. key = "" => hits = {}
  <2>1. \A e \in hits : e \in ToSet(CVE_DB) /\ e.software = key
    OBVIOUS
  <2> HIDE DEF hits, key
  <2>2. QED
    BY ONLY <1>1, <2>1
<1>8. version = <<>> => hits = {}
  OBVIOUS
<1>9. entries = IF text = NoText \/ key = "" THEN <<>> ELSE Kept(CVE_DB, hits)
  BY <1>3
<1>10. hits \subseteq ToSet(CVE_DB)
  OBVIOUS
<1>11. List(<<>>) /\ ToSet(<<>>) = {}
  BY ListEmpty
<1> HIDE DEF text, key, version, hits, entries, service
<1>12. List(entries) /\ ToSet(entries) = hits
  BY ONLY <1>4, <1>6, <1>7, <1>8, <1>9, <1>10, <1>11
<1>13. List(entries) /\ ToSet(entries) = {x \in ToSet(CVE_DB) : Affected(service, text, x)}
  BY ONLY <1>5, <1>10, <1>12
<1>14. QED
  BY ONLY <1>13 DEF entries, key, service, text

\* The CVEs at a port are those of the entries that affect it.
LEMMA CvesAre ==
  ASSUME NEW host, NEW port, Numbered(port.version)
  PROVE  /\ \A f \in ToSet(CveFindings(host, port)) : \E e \in ToSet(CVE_DB) :
              Affected(port.service, port.version, e) /\ f.cve = e.cve
         /\ \A e \in ToSet(CVE_DB) : Affected(port.service, port.version, e) =>
              \E f \in ToSet(CveFindings(host, port)) : f.cve = e.cve
<1> DEFINE key == MatchSoftwareAliases(port.service, port.version)
           entries == IF port.version = NoText \/ key = "" THEN <<>> ELSE MatchCves(key, port.version)
           F(e) == Found(host, <<"affected by", e.software, e.cve>>, 9, Likelihood(e.cvss), e.cve)
           q == [i \in DOMAIN entries |-> F(entries[i])]
<1>1. CveFindings(host, port) = q
  BY DEF CveFindings
<1>2. ToSet(entries) = {x \in ToSet(CVE_DB) : Affected(port.service, port.version, x)}
  BY EntriesAre
<1>3. \A e : F(e).cve = e.cve
  BY DEF Found
<1> HIDE DEF entries, F
<1>4. /\ \A f \in ToSet(q) : \E e \in ToSet(entries) : f = F(e)
      /\ \A e \in ToSet(entries) : F(e) \in ToSet(q)
  BY DEF ToSet
<1> HIDE DEF q
<1>5. /\ \A f \in ToSet(q) : \E e \in ToSet(CVE_DB) :
           Affected(port.service, port.version, e) /\ f.cve = e.cve
      /\ \A e \in ToSet(CVE_DB) : Affected(port.service, port.version, e) =>
           \E f \in ToSet(q) : f.cve = e.cve
  BY ONLY <1>2, <1>3, <1>4, Zenon
<1>6. QED
  BY ONLY <1>1, <1>5

\* The version that counts is the one told last.
LEMMA ToldLastIs ==
  ASSUME NEW scan \in Scans, NEW host \in ToSet(scan.hosts), NEW i \in DOMAIN host.ports
  PROVE  LET port == Enumerated(scan, host)[i]
         IN  /\ port.state = host.ports[i].state
             /\ host.ports[i].state = "open" => port.version = ToldLast(scan, host, host.ports[i])
             /\ Numbered(port.version)
<1> DEFINE old == host.ports[i]
           new == Enumerated(scan, host)[i]
           data == Probe(host.peers, old.port)
           u == Updated(old, data)
<1>1. /\ old \in ScannedPorts
      /\ new = IF scan.enumerate_services /\ old.state = "open"
               THEN EnumeratePort(host.peers, old) ELSE old
  BY HostsFacts, EnumeratedIs
<1>2. \A text \in Texts : Numbered(text)
  BY DEF Texts, Numbered
<1>3. Numbered(old.version) /\ old.port \in Nat
  BY <1>1, <1>2 DEF ScannedPorts
<1>4. \A n \in DOMAIN host.peers : Talks(host.peers[n])
  BY <1>2, HostsAssumption DEF Talks, Range, ToSet
<1> HIDE DEF old
<1>5. Numbered(data.version)
  BY <1>3, <1>4, ProbeTells DEF Tells
<1> HIDE DEF data
<1>6. u.version = (IF data.version = NoText THEN old.version ELSE data.version) /\ u.state = old.state
      /\ DOMAIN u = {"port", "protocol", "service", "state", "version", "banners", "flags"}
  BY <1>1 DEF Updated, ScannedPorts
<1>7. EnumeratePort(host.peers, old) = Refined(u)
  BY DEF EnumeratePort, data
<1> HIDE DEF u, new
<1>8. \/ Refined(u) = u
      \/ \E service : Refined(u) = [u EXCEPT !.service = service]
  BY DEF Refined
<1>9. \A service : LET w == [u EXCEPT !.service = service]
                   IN  w.version = u.version /\ w.state = u.state
  BY <1>6
<1>10. Refined(u).version = u.version /\ Refined(u).state = u.state
  BY ONLY <1>8, <1>9, Zenon
<1>11. ToldLast(scan, host, old) = IF scan.enumerate_services /\ data.version # NoText
                                   THEN data.version ELSE old.version
  BY DEF ToldLast, data
<1>12. /\ new.state = old.state
       /\ old.state = "open" => new.version = ToldLast(scan, host, old)
       /\ Numbered(new.version)
  BY ONLY <1>1, <1>3, <1>5, <1>6, <1>7, <1>10, <1>11
<1>13. QED
  BY ONLY <1>12 DEF new, old

\* A host's findings by the rule "affected by": those for the CVEs of its open
\* ports, unless CVEs are off.
LEMMA CveIssuesAre ==
  ASSUME NEW host, Sound(host), NEW enable_cve, NEW e
  PROVE  e \in ToSet(AnalyzeHost(host, enable_cve)) /\ Rule(e) = "affected by" <=>
           /\ enable_cve
           /\ \E port \in ToSet(Open(host)) : e \in ToSet(CveFindings(host, port))
<1> DEFINE S == ToSet(AnalyzeHost(host, enable_cve))
           cves == \E port \in ToSet(Open(host)) : e \in ToSet(CveFindings(host, port))
           issues == \E port \in ToSet(Open(host)) : e \in PortIssues(host, port)
           https == \E a \in ToSet(host.http_audits) : e \in ToSet(HttpFindings(host, a))
<1>1. e \in S <=> issues \/ (enable_cve /\ cves) \/ https
  BY AnalyzeHostIs
<1>2. issues => Rule(e) # "affected by"
  BY PortIssueRules
<1>3. cves => Rule(e) = "affected by"
  BY CveFindingsAre, Zenon DEF About
<1>4. https => Rule(e) # "affected by"
  <2>1. "affected by" \notin HttpRules
    BY DEF HttpRules
  <2>2. ASSUME NEW a \in ToSet(host.http_audits), e \in ToSet(HttpFindings(host, a))
        PROVE  \E rule \in HttpRules : About(e, host, rule)
    BY <2>2, HttpFindingsAre DEF Sound
  <2>3. QED
    BY ONLY <2>1, <2>2, Zenon DEF About
<1>5. QED
  BY ONLY <1>1, <1>2, <1>3, <1>4 DEF S, cves

\* The CVEs listed for a host are those found at it, whatever was merged.
LEMMA ListedCves ==
  ASSUME IInv, NEW scan \in Scans, Reported(scan), NEW host \in ToSet(scan.hosts)
  PROVE  LET found == {e \in ToSet(AnalyzeHost(Assessed(scan, host), scan.cve_check)) : Rule(e) = "affected by"}
         IN  /\ Listed(host, "affected by") \subseteq found
             /\ \A e \in found : \E f \in Listed(host, "affected by") :
                  KeyOf(f) = KeyOf(e)
<1> DEFINE S == ToSet(AnalyzeHost(Assessed(scan, host), scan.cve_check))
           rule == "affected by"
<1>1. \A e : e \in ToSet(input) /\ e.asset = host.ip <=> e \in S
  BY InputOfHost
<1>2. Listed(host, rule) = {f \in Report : f.asset = host.ip /\ Rule(f) = rule}
  BY Zenon DEF Listed, Rule
<1>3. /\ \A f \in Report : f \in ToSet(input)
      /\ \A e \in ToSet(input) : \E f \in Report : KeyOf(f) = KeyOf(e)
  BY Represented DEF Reported
<1>4. ASSUME NEW e \in S, Rule(e) = rule
      PROVE  \E f \in Listed(host, rule) : KeyOf(f) = KeyOf(e)
  <2>1. e \in ToSet(input) /\ e.asset = host.ip
    BY <1>1
  <2>2. PICK f \in Report : KeyOf(f) = KeyOf(e)
    BY <1>3, <2>1
  <2>3. f.asset = e.asset /\ Rule(f) = Rule(e)
    BY <2>1, <2>2, InputTyped, SameIssue
  <2>4. f \in Listed(host, rule)
    BY <1>2, <1>4, <2>1, <2>3
  <2>5. QED
    BY <2>2, <2>4
<1> HIDE DEF S, rule
<1>5. \A f \in Listed(host, rule) : f \in S /\ Rule(f) = rule
  BY ONLY <1>1, <1>2, <1>3
<1>6. /\ Listed(host, rule) \subseteq {e \in S : Rule(e) = rule}
      /\ \A e \in {x \in S : Rule(x) = rule} : \E f \in Listed(host, rule) : KeyOf(f) = KeyOf(e)
  BY ONLY <1>4, <1>5
<1>7. QED
  BY ONLY <1>6 DEF S, rule

\* The CVE of a finding is in its key.
LEMMA CveOfKey ==
  ASSUME NEW e, NEW f, KeyOf(e) = KeyOf(f), e.cve \notin {"", "none"}, f.cve \notin {"", "none"}
  PROVE  e.cve = f.cve
<1> DEFINE a == e.cve
           b == f.cve
           t == Lower[e.title]
           u == Lower[f.title]
<1>1. /\ KeyOf(e) = <<t, e.asset, IF a = None THEN "" ELSE a>>
      /\ KeyOf(f) = <<u, f.asset, IF b = None THEN "" ELSE b>>
  BY DEF KeyOf
<1>2. a # None /\ b # None
  BY DEF None
<1> HIDE DEF a, b, t, u
<1>3. a = b
  BY ONLY <1>1, <1>2, KeyOf(e) = KeyOf(f)
<1>4. QED
  BY ONLY <1>3 DEF a, b

\* The CVEs reported for a host are those whose range has a version that one of
\* its open services told last; and all of them are.
THEOREM AffectedReportedAlways == Spec => []AffectedReported
<1>1. IInv => AffectedReported
  <2> SUFFICES ASSUME IInv, NEW scan \in Scans, Reported(scan), NEW k \in DOMAIN scan.hosts
               PROVE  LET host == scan.hosts[k]
                          told(i) == ToldLast(scan, host, host.ports[i])
                          service(i) == HostsAfter[scan][k].ports[i].service
                      IN  {f.cve : f \in Listed(host, "affected by")} =
                          {e.cve : e \in {x \in Range(CVE_DB) :
                             /\ scan.cve_check
                             /\ \E i \in DOMAIN host.ports : /\ host.ports[i].state = "open"
                                                             /\ Affected(service(i), told(i), x)}}
    BY DEF AffectedReported
  <2> DEFINE host == scan.hosts[k]
             after == Assessed(scan, host)
             new == Enumerated(scan, host)
             told(i) == ToldLast(scan, host, host.ports[i])
             service(i) == HostsAfter[scan][k].ports[i].service
             hit(x) == \E i \in DOMAIN host.ports : /\ host.ports[i].state = "open"
                                                   /\ Affected(service(i), told(i), x)
             listed == Listed(host, "affected by")
             found == {e \in ToSet(AnalyzeHost(after, scan.cve_check)) : Rule(e) = "affected by"}
             open == ToSet(Open(after))
             db == ToSet(CVE_DB)
             cve == scan.cve_check
  <2>1. host \in ToSet(scan.hosts) /\ HostsAfter[scan][k] = after
    BY HostsOfIs DEF HostsAfter
  <2>2. Sound(after) /\ after.ports = new
    BY <2>1, AssessedIsSound
  <2>3. DOMAIN new = DOMAIN host.ports /\ List(new)
    BY <2>1, HostsFacts, EnumeratedIs
  <2>4. ASSUME NEW i \in DOMAIN host.ports
        PROVE  /\ new[i].state = host.ports[i].state
               /\ host.ports[i].state = "open" => new[i].version = told(i)
               /\ Numbered(new[i].version)
               /\ service(i) = new[i].service
    <3>1. service(i) = new[i].service
      BY <2>1, <2>2
    <3> DEFINE h == host
    <3>2. h \in ToSet(scan.hosts) /\ i \in DOMAIN h.ports
      BY <2>1
    <3> HIDE DEF h
    <3>3. LET port == Enumerated(scan, h)[i]
          IN  /\ port.state = h.ports[i].state
              /\ h.ports[i].state = "open" => port.version = ToldLast(scan, h, h.ports[i])
              /\ Numbered(port.version)
      BY ONLY <3>2, scan \in Scans, ToldLastIs
    <3>4. QED
      BY ONLY <3>1, <3>3, Zenon DEF h
  <2>5. open = {port \in ToSet(new) : port.state = "open"}
    <3>1. List(after.ports)
      BY <2>2 DEF Sound
    <3> HIDE DEF after, new
    <3>2. ToSet(Open(after)) = {port \in ToSet(after.ports) : port.state = "open"}
      BY ONLY <3>1, OpenIs
    <3>3. QED
      BY ONLY <2>2, <3>2
  <2>6. listed \subseteq found /\ \A e \in found : \E f \in listed : KeyOf(f) = KeyOf(e)
    BY <2>1, ListedCves
  <2>7. \A e : e \in found <=> cve /\ \E port \in open : e \in ToSet(CveFindings(after, port))
    BY <2>2, CveIssuesAre
  <2>8. \A e \in db : e.cve \notin {"", "none"}
    BY CveAssumption
  <2>9. db = Range(CVE_DB)
    BY DEF ToSet, Range
  <2>10. \A port \in ToSet(new) : \E i \in DOMAIN host.ports : port = new[i]
    BY <2>3 DEF ToSet
  <2>11. \A i \in DOMAIN host.ports : new[i] \in ToSet(new)
    BY <2>3 DEF ToSet
  <2> DEFINE strikes(port, x) == Affected(port.service, port.version, x)
  <2> HIDE DEF host, after, new, told, service, listed, found, open, db, cve
  <2>12. \A x : hit(x) <=> \E port \in open : strikes(port, x)
    <3>1. ASSUME NEW x, NEW i \in DOMAIN host.ports, host.ports[i].state = "open"
          PROVE  strikes(new[i], x) <=> Affected(service(i), told(i), x)
      <4>1. told(i) = new[i].version /\ service(i) = new[i].service
        BY ONLY <2>4, <3>1, Zenon
      <4>2. QED
        BY ONLY <4>1, Zenon
    <3>2. \A i \in DOMAIN host.ports : new[i] \in open <=> host.ports[i].state = "open"
      BY ONLY <2>4, <2>5, <2>11
    <3>3. \A port \in open : port \in ToSet(new)
      BY ONLY <2>5
    <3> HIDE DEF strikes
    <3>4. QED
      <4>1. ASSUME NEW x, hit(x) PROVE \E port \in open : strikes(port, x)
        <5>1. PICK i \in DOMAIN host.ports : host.ports[i].state = "open" /\ Affected(service(i), told(i), x)
          BY <4>1
        <5>2. strikes(new[i], x) /\ new[i] \in open
          BY ONLY <3>1, <3>2, <5>1
        <5>3. QED
          BY ONLY <5>2
      <4>2. ASSUME NEW x, NEW port \in open, strikes(port, x) PROVE hit(x)
        <5>1. PICK i \in DOMAIN host.ports : port = new[i]
          BY ONLY <2>10, <3>3, <4>2
        <5>2. host.ports[i].state = "open" /\ Affected(service(i), told(i), x)
          BY ONLY <3>1, <3>2, <4>2, <5>1
        <5>3. QED
          BY <5>2
      <4> HIDE DEF hit
      <4>3. QED
        BY ONLY <4>1, <4>2
  <2>13. ASSUME NEW port \in open
         PROVE  /\ \A f \in ToSet(CveFindings(after, port)) : \E e \in db : strikes(port, e) /\ f.cve = e.cve
                /\ \A e \in db : strikes(port, e) => \E f \in ToSet(CveFindings(after, port)) : f.cve = e.cve
    <3>1. Numbered(port.version)
      BY ONLY <2>4, <2>5, <2>10, <2>13, Zenon
    <3>2. QED
      BY <3>1, CvesAre DEF db
  <2> HIDE DEF hit, strikes
  <2>14. ASSUME NEW f \in listed PROVE \E e \in db : cve /\ hit(e) /\ f.cve = e.cve
    BY ONLY <2>6, <2>7, <2>12, <2>13, <2>14
  <2>15. \A f \in found : f.cve \notin {"", "none"}
    <3>1. \A f \in found : \E e \in db : f.cve = e.cve
      BY ONLY <2>7, <2>13
    <3>2. QED
      BY ONLY <2>8, <3>1
  <2>16. ASSUME NEW e \in db, cve, hit(e) PROVE \E f \in listed : f.cve = e.cve
    <3>1. PICK port \in open : strikes(port, e)
      BY ONLY <2>12, <2>16
    <3>2. PICK g \in ToSet(CveFindings(after, port)) : g.cve = e.cve
      BY ONLY <2>13, <2>16, <3>1
    <3>3. g \in found
      BY ONLY <2>7, <2>16, <3>1, <3>2
    <3>4. PICK f \in listed : KeyOf(f) = KeyOf(g)
      BY ONLY <2>6, <3>3
    <3>5. f \in found
      BY ONLY <2>6, <3>4
    <3>6. f.cve = g.cve
      BY ONLY <2>15, <3>3, <3>4, <3>5, CveOfKey
    <3>7. QED
      BY ONLY <3>2, <3>4, <3>6
  <2>17. {f.cve : f \in listed} = {e.cve : e \in {x \in db : cve /\ hit(x)}}
    BY ONLY <2>14, <2>16
  <2>18. QED
    BY ONLY <2>9, <2>17 DEF host, told, service, listed, db, cve, hit
<1>2. QED
  BY <1>1, Inductive, PTL
=============================================================================

---------------------------- MODULE MCRiskEngine ----------------------------
(* Instances of HostReport for TLC. *)
EXTENDS HostReport

Levels == [ftp |-> "medium", telnet |-> "critical", redis |-> "high", snmp |-> "medium", mysql |-> "low"]
SecurityHeaders == <<"csp", "hsts">>
Paths == <<"admin", "robots.txt", "login">>
Keys == [ssh |-> "openssh", redis |-> "redis", mysql |-> "mysql", smb |-> "smb", vnc |-> "vnc", mongodb |-> "mongodb"]
Patterns == {"openssh", "redis", "mysql", "apache"}
Services == [ftp |-> "ftp", FTP |-> "ftp", Telnet |-> "telnet", SSH |-> "ssh", Redis |-> "redis",
             SNMP |-> "snmp", SMB |-> "smb", MySQL |-> "mysql", MongoDB |-> "mongodb", VNC |-> "vnc",
             SMTP |-> "smtp", HTTP |-> "http", LDAP |-> "ldap", RDP |-> "rdp", PostgreSQL |-> "postgresql",
             MSRPC |-> "msrpc", unknown |-> "unknown"]

\* Ranges that end where another begins, an open one, lengths that differ.
Entry(software, cve, cvss, introduced, fixed) ==
  [software |-> software, cve |-> cve, cvss |-> cvss, introduced |-> introduced, fixed |-> fixed]
Cves == <<Entry("openssh", "CVE-1", 9, <<1, 0>>, <<8, 4, 1>>), Entry("openssh", "CVE-2", 2, <<8, 4, 1>>, <<9, 3>>),
          Entry("openssh", "CVE-3", 7, <<9, 3>>, <<>>), Entry("redis", "CVE-1", 9, <<2>>, <<6, 2>>),
          Entry("mysql", "CVE-4", 10, <<5, 1, 1>>, <<5, 5, 24>>), Entry("smb", "CVE-5", 9, <<1, 0>>, <<9, 0>>),
          Entry("vnc", "CVE-6", 10, <<1, 0>>, <<4, 1, 1>>), Entry("apache", "CVE-7", 9, <<2, 4, 49>>, <<2, 4, 50>>)>>

\* Scores on the bands' boundaries (1.0, 4.0, 0 and the maximum), equal scores,
\* factors outside 0 to 10, no cve and an empty one, two spellings, no advice.
Ftp == <<"exposed on port", "FTP", "21">>
ftp == <<"exposed on port", "ftp", "21">>
Snmp == <<"SNMP service exposed", "", "">>
Object(title, cve, impact, likelihood, advice) ==
  [title |-> title, asset |-> "10.0.0.5", cve |-> cve,
   impact |-> impact, likelihood |-> likelihood, advice |-> advice]
Sample == {Object(Ftp, None, 10, 1, "use ssh"), Object(ftp, "", 8, 5, None),
           Object(ftp, None, 1, 10, None), Object(Snmp, None, 5, 8, None),
           Object(Snmp, "CVE-1", 12, 10, "upgrade"), Object(Snmp, None, 6, 9, "use SNMPv3"),
           Object(Snmp, "CVE-1", -1, 7, None)}

\* Ports as a scan leaves them, and texts.
Port(port, service, state, version) ==
  [port |-> port, protocol |-> "tcp", service |-> service, state |-> state, version |-> version,
   banners |-> <<>>, flags |-> {}]
Said(words) == Text("", <<>>, <<>>, words)
Named(product, numbers) == Text(product, numbers, numbers, {product})
After(prefix, text) == [text EXCEPT !.prefix = prefix]
OpenSsh(numbers) == After(<<2, 0>>, Text("openssh", numbers, numbers, {"openssh", "ssh-2.0"}))
Dropbear(numbers) == After(<<2, 0>>, Text("", <<>>, numbers, {"ssh-2.0"}))
Greets(words) == After(<<220>>, Said({"220 ", "220"} \cup words))

\* Peers and hosts.
Silent == [x \in {} |-> NoText]
Peer(says) == [tls |-> FALSE, lag |-> 0, says |-> says]
Late(peer) == [peer EXCEPT !.lag = 1]
Asks(text) == Peer("ask" :> text)
Host(ports, peers) == [ip |-> "10.0.0.5", hostname |-> "", alive |-> TRUE, ttl |-> 64, ports |-> ports,
                       net |-> <<>>, peers |-> peers, webs |-> <<>>]

\* FTP: every dialogue, prompt or late, on its port; a server on another port; refusals.
FtpPeers ==
  {[tls |-> FALSE, lag |-> lag,
    says |-> "" :> Greets(greeting) @@ "FEAT" :> Said(features) @@ "USER" :> Said(user) @@ "PASS" :> Said(pass)] :
     lag \in {0, 1}, greeting \in {{}, {"ftp"}}, features \in {{"AUTH TLS"}, {"500"}},
     user \in {{"331"}, {"230"}}, pass \in {{"230"}, {"503"}}}
Refuses(word) == Peer("" :> Greets({"ftp"}) @@ "USER" :> Said({"331"}) @@ "PASS" :> Said({"530", word}))
Ftp2 == Port(2121, "ftp", "open", NoText)
Ftps == {Host(<<Port(21, "FTP", "open", NoText), Ftp2>>, 21 :> peer) : peer \in FtpPeers}
          \cup {Host(<<Port(21, "FTP", s, NoText)>>, 21 :> Refuses(word)) :
                  s \in {"open", "closed"}, word \in {"incorrect", "logged in"}}
          \cup {Host(<<Port(21, "FTP", "open", NoText)>>, 21 :> peer) : peer \in {Peer(Silent), Peer("" :> NoText)}}

\* SSH on both sides of the ranges' ends, told by the scan, by the peer, or by both;
\* on other ports, closed, and as a service the scan did not know; without the name of
\* a software, and without a number but the protocol's.
Bears == {Host(<<Port(22, "SSH", "open", NoText)>>, 22 :> Peer("" :> Dropbear(n))) : n \in {<<0, 52>>, <<>>}}
Shells ==
  Bears \cup
  {Host(<<Port(22, "SSH", "open", v), Port(2121, "SSH", s, Named("openssh", <<8, 4>>))>>, 22 :> Peer(Silent)) :
     v \in {OpenSsh(n) : n \in {<<8, 4, 1>>, <<9, 2, 9>>, <<9, 3>>, <<0, 9>>}}, s \in {"open", "closed"}}
  \cup {Host(<<Port(22, "SSH", "open", Named("openssh", <<8, 4, 1>>)), Port(23, "Telnet", "open", NoText)>>,
             22 :> p @@ 23 :> Peer("" :> t)) :
          p \in {Peer("" :> OpenSsh(<<9, 3>>)), Late(Peer("" :> OpenSsh(<<9, 3>>)))}, t \in {NoText, Said({"login"})}}
  \cup {Host(<<Port(2222, "unknown", s, NoText), Port(2525, "unknown", "open", NoText)>>,
             2222 :> Peer("" :> OpenSsh(<<8, 0>>)) @@ 2525 :> Peer("" :> Greets({"esmtp"}))) :
          s \in {"open", "filtered"}}

\* Services that answer one exchange; UDP; mail.
Rare == <<88, 1521, 5432, 9200, 11211, 3389, 1433, 5900, 8000>>
Stores ==
  {Host(<<Port(6379, "Redis", s, v), [Port(161, "SNMP", "open", NoText) EXCEPT !.protocol = "udp"]>>, 6379 :> p) :
     s \in {"open", "closed"}, v \in {NoText, Named("redis", <<2>>)},
     p \in {Asks(Text("", <<6, 1>>, <<>>, {"redis_version"})), Asks(Said({"NOAUTH"})), Peer(Silent),
            Late(Asks(Text("", <<2>>, <<>>, {"redis_version"})))}}
  \cup {Host(<<Port(445, "SMB", "open", NoText), Port(27017, "MongoDB", "open", NoText), Port(3306, "MySQL", "open", NoText),
               Port(5900, "VNC", "filtered", NoText)>>,
             445 :> Asks(smb) @@ 27017 :> Asks(db) @@ 3306 :> Peer("" :> Text("", <<5, 5, 24>>, <<>>, {"mysql handshake"}))
             @@ 5900 :> Peer("" :> Said({"RFB"}))) :
          smb \in {Said({"SMB 1"}), Said({"SMB 2"}), NoText}, db \in {Said({"ok"}), Said({"error"})}}
  \cup {Host(<<Port(25, "SMTP", "open", Named("exim", <<4, 9>>)), Port(465, "SMTP", "open", NoText),
               Port(636, "LDAP", "open", NoText), Port(389, "LDAP", "open", NoText)>>,
             25 :> Peer("" :> Greets({})) @@ 465 :> [Peer("" :> Greets({})) EXCEPT !.tls = tls]
             @@ 636 :> [Asks(Said({"bind"})) EXCEPT !.tls = tls]) : tls \in BOOLEAN}
  \cup {Host([i \in DOMAIN Rare |-> Port(Rare[i], "unknown", "open", NoText)],
             [p \in Range(Rare) |-> Peer([x \in {"", "ask"} |-> said])]) : said \in {NoText, Said({"STAT", "number", "RFB"})}}

\* Web servers, open, filtered and behind TLS, that close their connections, wait or
\* send on; a Windows host whose closed ports tell of Linux.
Page(status, headers) == [status |-> status, headers |-> headers, listing |-> headers # <<>>]
Chatty == <<<<"server", <<"iis">>>>, <<"x-aspnet-version", <<"4">>>>, <<"set-cookie", <<"id", "httponly">>>>,
            <<"set-cookie", <<"id">>>>>>
Web(tls, then, headers) ==
  [tls |-> tls, then |-> then,
   says |-> "GET /" :> Page(200, headers) @@ "OPTIONS" :> Page(200, <<<<"allow", <<"GET", "PUT">>>>>>)
            @@ "admin" :> Page(302, <<>>) @@ "robots.txt" :> Page(200, <<>>) @@ "login" :> Page(404, <<>>)]
Webs ==
  {[Host(<<Port(80, "HTTP", s, Named("apache", <<2, 4, 49>>)), Port(443, "HTTP", "open", NoText),
           Port(445, "SMB", t, Said({"windows"}))>>, 80 :> Peer(Silent))
      EXCEPT !.webs = 80 :> Web(FALSE, then, Chatty) @@ 443 :> Web(tls, "closes", <<<<"hsts", <<"1">>>>>>),
             !.ttl = ttl] :
     s \in {"open", "filtered"}, t \in {"open", "closed"}, then \in {"closes", "waits", "sends on"}, tls \in BOOLEAN, ttl \in {NoTtl, 64, 128}}

\* Resolvers that know the name, that deny it by the SOA of its zone, that cannot
\* be understood, are endless or not heard; a wildcard that every name resolves to.
Servers == <<"r1", "r2">>
Defaults == <<"r2">>
Words == {"www", "vpn"}
Cdns == <<[name |-> "CDN", addresses |-> {"10.0.0.5"}], [name |-> "CDN2", addresses |-> {"10.0.0.5", "10.0.0.6"}]>>
Own == <<"", "h">>
A(value) == Parsed(<<Answered("A", value)>>)
Denied == Parsed(<<Answered("SOA", "ns")>>)
Nets ==
  {<<"r1", Own, "A">> :> first @@ <<"r2", Own, "A">> :> A("10.0.0.5") @@ <<"r2", Own, "MX">> :> mail
     @@ <<"r2", <<"www", "h">>, "A">> :> A("10.0.0.7") @@ <<"r1", <<"vpn", "h">>, "A">> :> sub :
     first \in {Parsed(<<>>), Denied, Malformed, Endless, A("10.0.0.5")}, mail \in {Parsed(<<>>), Denied},
     sub \in {A("10.0.0.5"), Parsed(<<>>), Malformed, Endless}}
  \cup {<<"r2", Own, "A">> :> A("10.0.0.5") @@ <<"r2", Own, "MX">> :> Denied, <<>>}
Bare == [then |-> "closes", tls |-> FALSE, says |-> "GET /" :> [status |-> 200, headers |-> <<>>, listing |-> FALSE]]
Sites == {[Host(<<Port(80, "HTTP", "open", NoText)>>, 80 :> Peer(Silent))
             EXCEPT !.ip = ip, !.hostname = name, !.net = net, !.webs = 80 :> Bare] :
            ip \in {"10.0.0.5", "10.0.0.9"}, name \in {"", "h"}, net \in Nets}

MCHosts == Ftps \cup Shells \cup Stores \cup Webs
Other == [Host(<<Port(22, "SSH", "open", NoText), Port(21, "FTP", "open", NoText)>>,
               22 :> Peer("" :> OpenSsh(<<8, 4>>)) @@ 21 :> Peer(Silent))
            EXCEPT !.ip = "10.0.0.6", !.hostname = "h", !.net = <<"r1", Own, "A">> :> A("10.0.0.6")]
Scan(hosts, enumerate, os, cve) ==
  [hosts |-> hosts, dns_servers |-> Servers, enumerate_services |-> enumerate, os_detection |-> os, cve_check |-> cve]
AllScans == {Scan(<<h, Other>>, TRUE, TRUE, TRUE) : h \in MCHosts}
              \cup {Scan(<<h>>, FALSE, FALSE, b) : h \in Shells, b \in BOOLEAN}
              \cup {[Scan(<<h>>, TRUE, TRUE, TRUE) EXCEPT !.dns_servers = servers] :
                       h \in Sites, servers \in {Servers, <<>>}}
AllLists == UNION {[1..n -> Sample] : n \in 0..4} \cup {AllFindings(s) : s \in AllScans}

\* What str.lower makes of the titles there are.
AllTitles == {o.title : o \in Sample} \cup UNION {{o.title : o \in Range(AllFindings(s))} : s \in AllScans}
LowerTitles == [t \in AllTitles |-> IF t[2] \in DOMAIN Services THEN <<t[1], Services[t[2]], t[3]>> ELSE t]

\* TLC evaluates what a constant is given at every use, and the above once.
MCScans == AllScans
Lists == AllLists
Titles == LowerTitles

\* The refusal of RFC 959, alone.
RefusalScans == {Scan(<<Host(<<Port(21, "FTP", "open", NoText)>>, 21 :> Refuses("logged in"))>>, TRUE, TRUE, TRUE)}
RefusalLists == {AllFindings(s) : s \in RefusalScans}
=============================================================================

----------------------------- MODULE ServiceEnum -----------------------------
(***************************************************************************)
(* hardener/service_enum.py: what enumerate_port learns of an open port.   *)
(*                                                                         *)
(* What listens at a TCP port is a peer: [tls, lag, says].  `says' maps    *)
(* what it is sent ("" is the connection itself) to the text it answers;   *)
(* NoText is the end of the stream, a request outside the domain gets      *)
(* nothing.  lag = 1: every answer comes after the read that waits for it  *)
(* has timed out, and meets the next read.  A probe returns                *)
(* [version, banners, flags].                                              *)
(***************************************************************************)
EXTENDS CveDb

Out(version, banners, flags) == [version |-> version, banners |-> banners, flags |-> flags]

\* What a probe that ends in an OSError before its first banner leaves.
Nothing == Out(NoText, <<>>, {})

\* _read_banner, the i-th of a dialogue: no answer in time is an empty text.
Answer(peer, request) == IF request \in DOMAIN peer.says THEN peer.says[request] ELSE NoText
ReadBanner(peer, sent, i) == LET j == i - peer.lag
                             IN  IF j \in DOMAIN sent THEN Answer(peer, sent[j]) ELSE NoText
Greeting(peer) == ReadBanner(peer, <<"">>, 1)

\* recv itself, the first of a dialogue: no answer in time is an OSError.
InTime(peer, request) == peer.lag = 0 /\ request \in DOMAIN peer.says

-----------------------------------------------------------------------------
(* The probes. *)

\* FTP: greeting, features if the greeting says ftp, anonymous login.
FtpFlags(features, login) ==
  (IF "AUTH TLS" \in features.words THEN {"ftps_supported"} ELSE {})
  \cup (IF {"230", "logged in"} \cap login.words # {} THEN {"anonymous_login"} ELSE {})
ProbeFtp_FeaturesUnread(peer) ==
  LET sent == IF "ftp" \in Greeting(peer).words THEN <<"", "FEAT", "USER", "PASS">>
                                                ELSE <<"", "USER", "PASS">>
  IN  Out(Greeting(peer), <<Greeting(peer)>>, FtpFlags(NoText, ReadBanner(peer, sent, 3)))
ProbeFtp(peer) ==
  LET asks == "ftp" \in Greeting(peer).words
      sent == IF asks THEN <<"", "FEAT", "USER", "PASS">> ELSE <<"", "USER", "PASS">>
      features == IF asks THEN ReadBanner(peer, sent, 2) ELSE NoText
  IN  Out(Greeting(peer), <<Greeting(peer)>>, FtpFlags(features, ReadBanner(peer, sent, Len(sent))))

\* SSH: the greeting is the version.
ProbeSsh(peer) == Out(Greeting(peer), <<Greeting(peer)>>, {})

\* Mail at a TLS port.  At the others the socket is never connected: the
\* greeting is empty and the next send an error, whatever listens there.
ProbeMail(peer) == IF peer.tls THEN Out(Greeting(peer), <<Greeting(peer)>>, {}) ELSE Nothing
PlainMail == Out(NoText, <<NoText>>, {})

\* Telnet: a closed connection and mere option negotiation are Telnet as well.
Label(words, digits) == Text("", <<>>, digits, words)
ProbeTelnet(peer) ==
  IF ~InTime(peer, "") THEN Nothing
  ELSE IF peer.says[""] = NoText THEN Out(Label({"telnet"}, <<>>), <<Label({}, <<>>)>>, {})
  ELSE Out(peer.says[""], <<peer.says[""]>>, {})

\* The others make one exchange, and the first reaction whose marker is in the
\* answer gives the version: a label, or a name and the answer's numbers.
On(marker, label, flags) == [marker |-> marker, name |-> "", label |-> label, flags |-> flags]
Names(marker, name, flags) == [marker |-> marker, name |-> name, label |-> NoText, flags |-> flags]
Else(label) == On("", label, {})
Reaction(r, said) ==
  Out(IF r.name = "" THEN r.label ELSE Text(r.name, said.numbers, said.numbers, {r.name}), <<>>, r.flags)
Exchange(peer, request, reactions) ==
  LET fits == {i \in DOMAIN reactions : reactions[i].marker \in peer.says[request].words \cup {""}}
  IN  IF ~InTime(peer, request) \/ fits = {} THEN Nothing
      ELSE Reaction(reactions[Min(fits)], peer.says[request])

LdapReactions == <<Else(Label({"ldap"}, <<>>))>>
SmbReactions == <<On("SMB 1", Label({"smb"}, <<1>>), {"smbv1"}),
                  On("SMB 2", Label({"smb"}, <<2, 3>>), {"smbv2"}), Else(Label({"smb"}, <<>>))>>
KerberosReactions == <<On("text", Label({}, <<5>>), {}), Else(Label({}, <<>>))>>
OracleReactions == <<Else(Label({}, <<>>))>>
MysqlReactions == <<Names("mysql handshake", "mysql", {}), Else(Label({"mysql"}, <<>>))>>
PostgresReactions == <<Else(Text("postgresql", <<>>, <<>>, {"postgresql"}))>>
RedisReactions == <<Names("redis_version", "redis", {"unauthenticated"}), Else(Label({"redis"}, <<>>))>>
MongodbReactions == <<On("ok", Label({"mongodb"}, <<>>), {"unauthenticated"}), Else(Label({"mongodb"}, <<>>))>>
ElasticsearchReactions == <<Names("number", "elasticsearch", {}),
                            Else(Text("elasticsearch", <<>>, <<>>, {}))>>
MemcachedReactions == <<On("STAT", Label({}, <<>>), {})>>
VncReactions == <<On("RFB", Label({"vnc"}, <<82>>), {})>>     \* f"{data[0]}" is the code of "R"
RdpReactions == <<On("text", Label({"rdp"}, <<>>), {})>>
MssqlReactions == <<On("text", Label({}, <<>>), {})>>

\* The generic probe: whatever the port says by itself.
ProbeGeneric(peer) == IF Greeting(peer) = NoText THEN Nothing
                      ELSE Out(Greeting(peer), <<Greeting(peer)>>, {})

-----------------------------------------------------------------------------
(* The dispatcher goes by the port's number, TCP or UDP, and talks TCP. *)
\* Where nothing accepts the connection nothing is learnt; LDAP without TLS
\* sends before anything is connected.
Probe(peers, port) ==
  IF port \in {25, 587, 110, 143} THEN PlainMail
  ELSE IF port = 389 \/ port \notin DOMAIN peers THEN Nothing
  ELSE LET peer == peers[port]
       IN  CASE port = 21 -> ProbeFtp(peer)
             [] port = 22 -> ProbeSsh(peer)
             [] port = 23 -> ProbeTelnet(peer)
             [] port \in {465, 995, 993} -> ProbeMail(peer)
             [] port = 636 -> IF peer.tls THEN Exchange(peer, "ask", LdapReactions) ELSE Nothing
             [] port = 445 -> Exchange(peer, "ask", SmbReactions)
             [] port = 88 -> Exchange(peer, "ask", KerberosReactions)
             [] port = 1521 -> Exchange(peer, "ask", OracleReactions)
             [] port = 3306 -> Exchange(peer, "", MysqlReactions)
             [] port = 5432 -> Exchange(peer, "ask", PostgresReactions)
             [] port = 6379 -> Exchange(peer, "ask", RedisReactions)
             [] port = 27017 -> Exchange(peer, "ask", MongodbReactions)
             [] port = 9200 -> Exchange(peer, "ask", ElasticsearchReactions)
             [] port = 11211 -> Exchange(peer, "ask", MemcachedReactions)
             [] port = 5900 -> Exchange(peer, "", VncReactions)
             [] port = 3389 -> Exchange(peer, "ask", RdpReactions)
             [] port = 1433 -> Exchange(peer, "ask", MssqlReactions)
             [] OTHER -> ProbeGeneric(peer)

\* _refine_service: the first hint that a word of the port's texts gives.
Hints == <<<<"SSH", {"openssh", "ssh-2.0"}>>, <<"FTP", {"ftp", "vsftpd", "proftpd", "220 "}>>,
           <<"Telnet", {"telnet"}>>, <<"HTTP", {"http/1.", "nginx", "apache", "iis", "server:"}>>,
           <<"MySQL", {"mysql", "mariadb"}>>, <<"PostgreSQL", {"postgresql", "postgres"}>>,
           <<"Redis", {"redis"}>>, <<"MongoDB", {"mongodb"}>>, <<"SMTP", {"smtp", "esmtp", "220"}>>,
           <<"SMB", {"smb"}>>, <<"LDAP", {"ldap"}>>, <<"RDP", {"rdp"}>>, <<"VNC", {"vnc"}>>>>
Refined(port) ==
  LET words == port.version.words \cup UNION {b.words : b \in ToSet(port.banners)}
      fits == {i \in DOMAIN Hints : Hints[i][2] \cap words # {}}
  IN  IF port.service # "unknown" \/ fits = {} THEN port
      ELSE [port EXCEPT !.service = Hints[Min(fits)][1]]

\* enumerate_port: what the probe does not tell stays as the scan left it.
Updated(port, data) == [port EXCEPT !.version = IF data.version = NoText THEN @ ELSE data.version,
                                    !.banners = IF data.banners = <<>> THEN @ ELSE data.banners,
                                    !.flags = data.flags]
EnumeratePort(peers, port) == Refined(Updated(port, Probe(peers, port.port)))
=============================================================================

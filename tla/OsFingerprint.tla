---------------------------- MODULE OsFingerprint ----------------------------
(***************************************************************************)
(* hardener/os_fingerprint.py, fingerprint_os: the operating system that a *)
(* reply's TTL, the open ports and the web server speak for, and its       *)
(* confidence in tenths.  (Where the TTL comes from is TtlReader.)         *)
(***************************************************************************)
EXTENDS CveDb

\* The families by their hints of TTL; "BSD / iOS" counts for Linux, and
\* "Embedded / IoT" for nobody.
Hint(family, lo, hi) == [family |-> family, lo |-> lo, hi |-> hi]
TTL_HINTS == <<Hint("linux", 60, 66), Hint("windows", 124, 130), Hint("linux", 60, 66),
               Hint("appliance", 230, 254)>>
NoTtl == 0

\* The dictionary of scores, in its order.
Families == <<"windows", "linux", "bsd", "appliance">>

Points(n, s, Test(_)) == n * Len(SelectSeq(s, Test))

\* The evidence of the TTL, of the ports, and of the first audit's Server header
\* (a list of words).
TtlPoints(family, ttl) == Points(3, TTL_HINTS, LAMBDA h : h.family = family /\ h.lo <= ttl /\ ttl <= h.hi)

EvidenceOf(family, ports) ==
  LET words(p) == p.version.words
  IN  CASE family = "windows" ->
             Points(4, ports, LAMBDA p : \/ LowerCase[p.service] \in {"smb", "msrpc", "netbios"}
                                         \/ "windows" \in words(p))
        [] family = "linux" ->
             Points(4, ports, LAMBDA p : {"openssh", "linux"} \cap words(p) # {})
             + Points(1, ports, LAMBDA p : {"apache", "nginx"} \cap words(p) # {})
        [] OTHER -> 0
PortPoints_AnyState(family, ports) == EvidenceOf(family, ports)
PortPoints(family, ports) ==
  EvidenceOf(family, Kept(ports, {p \in ToSet(ports) : p.state = "open"}))

ServerPoints(family, server) ==
  LET says(words) == words \cap ToSet(server) # {}
  IN  CASE family = "windows" /\ says({"iis", "microsoft"}) -> 4
        [] family = "linux" /\ ~says({"iis", "microsoft"}) /\ says({"apache", "nginx", "lighttpd"}) -> 2
        [] OTHER -> 0

OsScore(family, ports, ttl, server) ==
  TtlPoints(family, ttl) + PortPoints(family, ports) + ServerPoints(family, server)

FamilyScores(ports, ttl, server) == [i \in DOMAIN Families |-> OsScore(Families[i], ports, ttl, server)]

\* The first family with the highest score.
Best(score) == CHOOSE i \in DOMAIN score : /\ \A j \in DOMAIN score : score[j] <= score[i]
                                           /\ \A j \in 1..(i - 1) : score[j] < score[i]
FingerprintOs(ports, ttl, server) ==
  LET score == FamilyScores(ports, ttl, server)
      best == Best(score)
  IN  IF score[best] <= 0 THEN [os |-> "unknown", confidence |-> 0]
      ELSE [os |-> Families[best], confidence |-> IF score[best] < 10 THEN score[best] ELSE 10]
=============================================================================

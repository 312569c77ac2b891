----------------------------- MODULE DnsDiscovery -----------------------------
(***************************************************************************)
(* hardener/dns_discovery.py: the records, subdomains and CDN that         *)
(* discover_host_infrastructure finds of a host that has a name.           *)
(*                                                                         *)
(* What the resolvers reply (`net') maps <<server, name, type>> to a       *)
(* reply: its answers, [type, value], of all sections of the packet; or    *)
(* that the packet cannot be parsed, or only without end.  Of the queries  *)
(* outside its domain nothing is heard.  A name is <<word, domain>>, the   *)
(* host's own with the empty word.                                         *)
(***************************************************************************)
EXTENDS Integers, Lists

CONSTANTS DEFAULT_DNS_SERVERS,  \* the resolvers, in order
          SUBDOMAIN_WORDLIST,   \* the set of words tried
          CDN_IP_RANGES         \* [name, addresses], in order

ASSUME DnsAssumption ==
  /\ DEFAULT_DNS_SERVERS \in Seq(STRING)
  /\ CDN_IP_RANGES \in Seq([name : STRING \ {""}, addresses : SUBSET STRING])

Parsed(answers) == [status |-> "parsed", answers |-> answers]
Malformed == [status |-> "malformed", answers |-> <<>>]

\* A compressed name that points to itself: _decode_name follows it for ever.
Endless == [status |-> "endless", answers |-> <<>>]
Answered(type, value) == [type |-> type, value |-> value]

\* dns_query: the first server that has answers for it.  No reply (an OSError) and
\* an empty one lead to the next; a malformed one raises what is not an OSError.
DnsQuery_FirstOnly(net, servers, name, type) ==
  IF <<servers[1], name, type>> \in DOMAIN net THEN net[<<servers[1], name, type>>] ELSE Parsed(<<>>)
DnsQuery(net, servers, name, type) ==
  LET asked(i) == <<servers[i], name, type>>
      ends == {i \in DOMAIN servers : asked(i) \in DOMAIN net /\ net[asked(i)] # Parsed(<<>>)}
  IN  IF ends = {} THEN Parsed(<<>>) ELSE net[asked(Min(ends))]

\* resolve_host_records: an answer is recorded as of the type asked for,
\* whatever type it has.
RecordTypes == <<"A", "AAAA", "MX", "NS", "TXT", "CNAME", "SOA">>
Records(reply, type) == [i \in DOMAIN reply.answers |-> Answered(type, reply.answers[i].value)]
ResolveHostRecords(net, servers, hostname) ==
  LET reply(type) == DnsQuery(net, servers, <<"", hostname>>, type)
  IN  IF \E i \in DOMAIN RecordTypes : reply(RecordTypes[i]) = Malformed THEN Malformed
      ELSE Parsed(FlattenSeq([i \in DOMAIN RecordTypes |-> Records(reply(RecordTypes[i]), RecordTypes[i])]))

\* resolve_domain_ips
Addrs(net, servers, name) ==
  LET answers == DnsQuery(net, servers, name, "A").answers
  IN  {answers[i].value : i \in {k \in DOMAIN answers : answers[k].type = "A"}}

\* enumerate_subdomains: every word that resolves.  Those that resolve as the domain
\* itself does are meant to be left out, but the test's second half looks for the
\* name among addresses and lets them pass.  A word whose check raises is passed over.
EnumerateSubdomains(net, servers, domain) ==
  {word \in SUBDOMAIN_WORDLIST : Addrs(net, servers, <<word, domain>>) # {}}

\* detect_cdn: the first range the address is in, or "".
DetectCdn(ip) ==
  LET in == {i \in DOMAIN CDN_IP_RANGES : ip \in CDN_IP_RANGES[i].addresses}
  IN  IF in = {} THEN "" ELSE CDN_IP_RANGES[Min(in)].name

\* A look-up does not come back when it meets an endless reply, be it in one thread of
\* enumerate_subdomains; a malformed record that comes first ends it before.
HoldsLookUp(net, servers, hostname) ==
  LET record(i) == DnsQuery(net, servers, <<"", hostname>>, RecordTypes[i])
      ends == {i \in DOMAIN RecordTypes : record(i) \in {Malformed, Endless}}
  IN  IF ends # {} THEN record(Min(ends)) = Endless
      ELSE \E word \in SUBDOMAIN_WORDLIST : DnsQuery(net, servers, <<word, hostname>>, "A") = Endless

\* discover_host_infrastructure: what raises leaves the host as it was.
ServersOf(dns_servers) == IF dns_servers = <<>> THEN DEFAULT_DNS_SERVERS ELSE dns_servers
Infrastructure(records, subdomains, cdn) == [dns_records |-> records, subdomains |-> subdomains, cdn |-> cdn]
Unknown == Infrastructure(<<>>, {}, "")
DiscoverHostInfrastructure(net, dns_servers, hostname, ip) ==
  LET servers == ServersOf(dns_servers)
      records == ResolveHostRecords(net, servers, hostname)
  IN  IF records = Malformed THEN Unknown
      ELSE Infrastructure(records.answers, EnumerateSubdomains(net, servers, hostname), DetectCdn(ip))
=============================================================================

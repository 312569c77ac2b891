------------------------------ MODULE HttpAudit ------------------------------
(***************************************************************************)
(* hardener/http_audit.py, with the part of Hardener._audit_http_tls that  *)
(* chooses the ports: the web servers of a host and what the audit keeps   *)
(* of their responses.                                                     *)
(*                                                                         *)
(* A web server is [tls, then, says]: whether it speaks TLS; whether after *)
(* its response it "closes" the connection, "waits" for the next request,  *)
(* or "sends on"; and its response to "GET /", "OPTIONS" and the paths:    *)
(* [status, headers, listing].  Headers are a list of <<name in lower      *)
(* case, words of the value>>.                                             *)
(***************************************************************************)
EXTENDS Config, Integers, Lists

HTTP_PORTS == {80, 443, 8080, 8443, 9443}
TLS_PORTS == {443, 8443, 9443, 5986, 636, 993, 995, 465}

NoResponse == [status |-> 0, headers |-> <<>>, listing |-> FALSE]

\* _raw_request reads until the server closes: one that waits ends the read by its
\* timeout, and the response is discarded; one that sends on, more often than that,
\* keeps it reading for ever: what is returned is of servers that do not (Holds).
Answers(web, use_ssl, request) == (use_ssl => web.tls) /\ request \in DOMAIN web.says
RawRequest(web, use_ssl, request) ==
  IF web.then = "closes" /\ Answers(web, use_ssl, request) THEN web.says[request] ELSE NoResponse

\* audit_http does not come back from its first request.
Holds(web, use_ssl) == web.then = "sends on" /\ Answers(web, use_ssl, "GET /")

\* The dictionary of headers keeps the last of each name; <<>> if there is none.
Header(response, name) ==
  LET named == {i \in DOMAIN response.headers : response.headers[i][1] = name}
  IN  IF named = {} THEN <<>> ELSE response.headers[Max(named)][2]
OrElse(value, other) == IF value # <<>> THEN value ELSE other

\* audit_http
AuditHttp(web, use_ssl) ==
  LET page == RawRequest(web, use_ssl, "GET /")
      options == RawRequest(web, use_ssl, "OPTIONS")
  IN  [status |-> page.status,
       server |-> Header(page, "server"),
       powered_by |-> OrElse(Header(page, "x-powered-by"), Header(page, "x-aspnet-version")),
       cookies |-> Header(page, "set-cookie"),
       security_headers |-> {h \in ToSet(SECURITY_HEADERS) : \E i \in DOMAIN page.headers : page.headers[i][1] = h},
       directory_listing |-> page.listing,
       methods |-> OrElse(Header(options, "allow"), Header(options, "public")),
       found_paths |-> Kept(SENSITIVE_PATHS,
                            {path \in ToSet(SENSITIVE_PATHS) \ {"robots.txt"} :
                               RawRequest(web, use_ssl, path).status \in {200, 301, 302}})]

\* _audit_http_tls: the open TCP ports that may speak HTTP, in the order of the
\* scan; an endpoint that gave no status is dropped.
WebPortsOf(ports, webs) ==
  Kept(ports, {p \in ToSet(ports) : /\ p.state = "open" /\ p.protocol = "tcp"
                                    /\ p.port \in HTTP_PORTS \cap DOMAIN webs})
AuditsOf(open, webs) ==
  [i \in DOMAIN open |-> AuditHttp(webs[open[i].port], open[i].port \in TLS_PORTS)]
HoldsAudits(ports, webs) ==
  \E p \in ToSet(WebPortsOf(ports, webs)) : Holds(webs[p.port], p.port \in TLS_PORTS)
HttpAudits(ports, webs) ==
  LET audits == AuditsOf(WebPortsOf(ports, webs), webs)
  IN  Kept(audits, {a \in ToSet(audits) : a.status # 0})
=============================================================================

------------------------------ MODULE MCEngine ------------------------------
(***************************************************************************)
(* Instances of Engine for TLC: three addresses, a network of two of them, *)
(* a name that resolves into it and one that does not, a URL to either; a  *)
(* domain with the first of the names below it.                            *)
(***************************************************************************)
EXTENDS Engine, TLC

CONSTANTS a, b, c,                      \* addresses
          net, www, corp, ghost, url, urlc, blank, junk,        \* words
          ssh, https, snmp              \* ports

MCWords == {a, net, www, corp, ghost, url, urlc, blank, junk}
MCForm == a :> "ip" @@ net :> "cidr" @@ www :> "hostname" @@ corp :> "hostname" @@ ghost :> "hostname"
          @@ url :> "url" @@ urlc :> "url to ip" @@ blank :> "blank" @@ junk :> "junk"
MCName == [w \in MCWords |-> IF w = url THEN www ELSE w]
MCAddresses == [w \in MCWords |-> CASE w = a -> <<a>> [] w = net -> <<a, b>>
                                    [] w = urlc -> <<c>> [] OTHER -> <<>>]
MCResolve == [w \in MCWords |-> CASE w = www -> b [] w = corp -> c [] OTHER -> None]

\* One word is tried below each name; what a text on the blocked list matches, it
\* matches with every word before it.
MCBelow == corp :> {www} @@ www :> {"www.www"} @@ ghost :> {"www.ghost"} @@ c :> {"www.c"}
Www == {www, "www.www"}

\* A scope file that allows everything, and the command line of a plain
\* authorised scan.
Anything == [allowed |-> {a, b, c}, excluded |-> {}, blocked |-> {},
             window |-> NoWindow]
Plain == [words |-> <<net>>, authorized |-> TRUE, scope |-> Anything, scoped |-> FALSE,
          all_ports |-> FALSE, top_ports |-> FALSE, ports |-> {}, exclude_ports |-> {}, exclude |-> {},
          ping_sweep |-> FALSE, udp |-> FALSE, enumerate |-> TRUE, os |-> TRUE,
          grepable |-> FALSE]

Window(from, to) == [from |-> from, to |-> to, set |-> TRUE, text |-> TRUE]

\* Who is scanned: every mix of targets, scopes, exclusions and consent.
TargetLines ==
  {[Plain EXCEPT !.words = ws, !.scope = [Anything EXCEPT !.excluded = ex, !.blocked = bl],
                 !.scoped = TRUE, !.authorized = au, !.exclude = x, !.ping_sweep = ps] :
     ws \in {<<net, www>>, <<www, url, a>>, <<ghost, urlc, a>>, <<corp, www>>},
     ex \in {{}, {b}}, bl \in {{}, Www, {a}}, x \in {{}, {a}, {www, c}},
     au \in BOOLEAN, ps \in BOOLEAN}

\* What is scanned, and the command lines that are refused or leave nothing.
OptionLines ==
  {[Plain EXCEPT !.udp = u, !.enumerate = e, !.os = o, !.grepable = g, !.ports = p] :
     u \in BOOLEAN, e \in BOOLEAN, o \in BOOLEAN, g \in BOOLEAN, p \in {{}, {ssh}}}
  \cup {[Plain EXCEPT !.words = <<a>>, !.ports = p, !.exclude_ports = x, !.udp = TRUE] :
           p \in {{}, {ssh}, {ssh, snmp}}, x \in {{ssh}, {https}, {ssh, https}, {snmp}}}
  \cup {[Plain EXCEPT !.words = ws] : ws \in {<<>>, <<blank>>, <<a, junk>>, <<a, blank, a>>}}
  \cup {[Plain EXCEPT !.all_ports = all, !.top_ports = ~all, !.ports = {ssh, https}, !.authorized = au] :
           all \in BOOLEAN, au \in BOOLEAN}

\* Scan windows, one of them across midnight, one that cannot be read.
WindowLines ==
  {[Plain EXCEPT !.words = <<a, www>>, !.scope = [Anything EXCEPT !.window = w], !.ports = {ssh}] :
     w \in {Window(1, 2), Window(2, 0), [Window(1, 2) EXCEPT !.text = FALSE]}}

AllLines == TargetLines \cup OptionLines \cup WindowLines

\* Single command lines for the documented behaviours.
ExcludeNetLines == {[Plain EXCEPT !.exclude = {net}]}
BlockedWordLines == {[Plain EXCEPT !.words = <<corp>>, !.scope = [Anything EXCEPT !.blocked = Www], !.scoped = TRUE]}
=============================================================================

---------------------------- MODULE HostDiscovery ----------------------------
(***************************************************************************)
(* hardener/host_discovery.py: discover_hosts, the pool that checks which  *)
(* addresses are alive, and discover_host, the probes it tries in turn.    *)
(*                                                                         *)
(* A raw ICMP socket receives every echo reply that reaches the machine,   *)
(* those to other threads' pings and to other programs' included.          *)
(* icmp_ping tells its own by an identifier, the low bits of the clock,    *)
(* and does not look at where a reply comes from.  The network (replies in *)
(* flight, lost or late) and the hosts are external.                       *)
(***************************************************************************)
EXTENDS Lists, Naturals, FiniteSets, FiniteSetsExt

CONSTANTS Addresses,    \* the addresses to check
          Workers,      \* the pool's threads
          Enabled,      \* the probes asked for, among icmp, tcp, ack, udp, http
          Idents,       \* values of time_ns() & 0xFFFF, and of a ping program's pid
          Strays,       \* bound: echo replies to other programs' pings
          Faults        \* may udp_ping fail to get a socket?

Chain == <<"icmp", "tcp", "ack", "udp", "http">>

ASSUME DiscoveryAssumption ==
  /\ Enabled \subseteq ToSet(Chain) /\ "http" \in Enabled
  /\ IsFiniteSet(Addresses) /\ Strays \in Nat /\ Faults \in BOOLEAN
  /\ "none" \notin Addresses \cup Workers \cup Idents

None == "none"

VARIABLES
  queue,        \* addresses no worker has taken, in any order
  wpc,          \* where each worker is: idle, listening on its raw socket, or about
                \*   to run the ping program or one of the probes
  task,         \* the address it checks
  ident,        \* the identifier of its raw ping
  inbox,        \* what its raw socket has received
  net,          \* echo replies in flight: [from, ident]
  strays,       \* echo replies to others that came in
  found,        \* the verdict on each address
  gathered,     \* futures as_completed has yielded
  hosts,        \* the list of Host objects gathered
  over,         \* discover_hosts has returned
  pings,        \* history: echo requests sent, [to, ident], by this program and others
  tried         \* history: the probes tried on each address

vars == <<queue, wpc, task, ident, inbox, net, strays, found, gathered, hosts, over, pings, tried>>
poolVars == <<gathered, hosts, over>>

\* A verdict: the probe that was answered, and by whom.
Undecided == [by |-> None, from |-> None]
Down == [by |-> "no response", from |-> None]
Raised == [by |-> "raised", from |-> None]
IsAlive(v) == v \notin {Undecided, Down, Raised}
Reply(from, id) == [from |-> from, ident |-> id]

Replies == [from : Addresses \cup {None}, ident : Idents]
Requests == [to : Addresses \cup {None}, ident : Idents]
Verdicts == [by : ToSet(Chain) \cup {None, "no response", "raised"}, from : Addresses \cup {None}]
Stages == {"idle", "listening", "ping"} \cup ToSet(Chain)

TypeOK ==
  /\ queue \subseteq Addresses
  /\ wpc \in [Workers -> Stages]
  /\ task \in [Workers -> Addresses \cup {None}]
  /\ ident \in [Workers -> Idents \cup {None}]
  /\ inbox \in [Workers -> Seq(Replies)]
  /\ net \subseteq Replies /\ strays \in 0..Strays
  /\ found \in [Addresses -> Verdicts]
  /\ gathered \subseteq Addresses /\ hosts \in Seq(Addresses) /\ over \in BOOLEAN
  /\ pings \subseteq Requests
  /\ tried \in [Addresses -> SUBSET Enabled]

Init ==
  /\ queue = Addresses
  /\ wpc = [w \in Workers |-> "idle"]
  /\ task = [w \in Workers |-> None]
  /\ ident = [w \in Workers |-> None]
  /\ inbox = [w \in Workers |-> <<>>]
  /\ net = {} /\ strays = 0
  /\ found = [a \in Addresses |-> Undecided]
  /\ gathered = {} /\ hosts = <<>> /\ over = FALSE
  /\ pings = {} /\ tried = [a \in Addresses |-> {}]

-----------------------------------------------------------------------------
(* discover_host: one worker, one address. *)

\* The first enabled probe after the n-th of the chain, or None.
Position(probe) == CHOOSE i \in DOMAIN Chain : Chain[i] = probe
NextProbe_Adjacent(n) == IF n < Len(Chain) /\ Chain[n + 1] \in Enabled THEN Chain[n + 1] ELSE None
NextProbe(n) == LET rest == {i \in DOMAIN Chain : i > n /\ Chain[i] \in Enabled}
                IN  IF rest = {} THEN None ELSE Chain[Min(rest)]

\* The worker has its verdict on address a.
Decide(w, a, v) == /\ found' = [found EXCEPT ![a] = v]
                   /\ wpc' = [wpc EXCEPT ![w] = "idle"]
                   /\ task' = [task EXCEPT ![w] = None]

\* It goes on with the first enabled probe after the n-th; without one the host is down.
GoOn(w, a, n) ==
  \/ /\ NextProbe(n) = None
     /\ Decide(w, a, Down)
     /\ UNCHANGED tried
  \/ /\ NextProbe(n) # None
     /\ task' = [task EXCEPT ![w] = a]
     /\ wpc' = [wpc EXCEPT ![w] = NextProbe(n)]
     /\ tried' = [tried EXCEPT ![a] = @ \cup {NextProbe(n)}]
     /\ UNCHANGED found

Take(w, a) ==
  /\ wpc[w] = "idle" /\ a \in queue
  /\ queue' = queue \ {a}
  /\ GoOn(w, a, 0)
  /\ UNCHANGED <<ident, inbox, net, strays, poolVars, pings>>

\* icmp_ping sends its request through a raw socket; the host answers or not.
\* Without the privilege, or a socket, it runs the ping program instead.
SendPing(w) ==
  /\ wpc[w] = "icmp"
  /\ \/ \E id \in Idents :
          /\ ident' = [ident EXCEPT ![w] = id]
          /\ pings' = pings \cup {[to |-> task[w], ident |-> id]}
          /\ net' \in {net, net \cup {Reply(task[w], id)}}
          /\ wpc' = [wpc EXCEPT ![w] = "listening"]
     \/ /\ wpc' = [wpc EXCEPT ![w] = "ping"]
        /\ UNCHANGED <<ident, pings, net>>
  /\ UNCHANGED <<queue, task, inbox, strays, found, poolVars, tried>>

\* _parse_icmp_reply: an echo reply with this identifier.
Matches_Any(w, r) == TRUE
Matches(w, r) == r.ident = ident[w]

CloseSocket(w) == /\ ident' = [ident EXCEPT ![w] = None]
                  /\ inbox' = [inbox EXCEPT ![w] = <<>>]

\* The receive loop takes a packet: its own ends it, another is passed over.
Receive_OnlyOne(w) ==
  /\ wpc[w] = "listening" /\ inbox[w] # <<>>
  /\ LET r == Head(inbox[w])
     IN  IF Matches(w, r) THEN Decide(w, task[w], [by |-> "icmp", from |-> r.from])
         ELSE wpc' = [wpc EXCEPT ![w] = "ping"] /\ UNCHANGED <<task, found>>
  /\ CloseSocket(w)
  /\ UNCHANGED <<queue, net, strays, poolVars, pings, tried>>
Receive(w) ==
  /\ wpc[w] = "listening" /\ inbox[w] # <<>>
  /\ LET r == Head(inbox[w])
     IN  \/ /\ Matches(w, r)
            /\ Decide(w, task[w], [by |-> "icmp", from |-> r.from])
            /\ CloseSocket(w)
         \/ /\ ~Matches(w, r)
            /\ inbox' = [inbox EXCEPT ![w] = Tail(@)]
            /\ UNCHANGED <<wpc, task, found, ident>>
  /\ UNCHANGED <<queue, net, strays, poolVars, pings, tried>>

\* Nothing has come for the length of the timeout: on to the ping program.
ReceiveTimeout_Blocks(w) == FALSE
ReceiveTimeout(w) ==
  /\ wpc[w] = "listening" /\ inbox[w] = <<>>
  /\ wpc' = [wpc EXCEPT ![w] = "ping"]
  /\ CloseSocket(w)
  /\ UNCHANGED <<queue, task, net, strays, found, poolVars, pings, tried>>

\* A reply comes in: every open raw socket gets a copy.
Deliver(r) == inbox' = [w \in Workers |-> IF wpc[w] = "listening" THEN Append(inbox[w], r)
                                                                  ELSE inbox[w]]

\* The ping program tells its replies by itself; the raw sockets see them too.
\* A reply may be too late for it.
PingProgram(w, up) ==
  /\ wpc[w] = "ping"
  /\ \E id \in Idents :
       /\ pings' = pings \cup {[to |-> task[w], ident |-> id]}
       /\ \/ /\ up
             /\ Deliver(Reply(task[w], id))
             /\ Decide(w, task[w], [by |-> "icmp", from |-> task[w]])
             /\ UNCHANGED <<net, tried>>
          \/ /\ ~up
             /\ net' \in {net, net \cup {Reply(task[w], id)}}
             /\ GoOn(w, task[w], 1)
             /\ UNCHANGED inbox
  /\ UNCHANGED <<queue, ident, strays, poolVars>>

\* tcp_ping, udp_ping and http_probe: one of the ports answers or none does.
\* udp_ping makes its socket outside its `try'.
Probe(w, up) ==
  /\ wpc[w] \in ToSet(Chain) \ {"icmp"}
  /\ \/ up /\ Decide(w, task[w], [by |-> wpc[w], from |-> task[w]]) /\ UNCHANGED tried
     \/ ~up /\ GoOn(w, task[w], Position(wpc[w]))
     \/ Faults /\ wpc[w] = "udp" /\ ~up /\ Decide(w, task[w], Raised) /\ UNCHANGED tried
  /\ UNCHANGED <<queue, ident, inbox, net, strays, poolVars, pings>>

WorkerStep(w) == \/ SendPing(w) \/ Receive(w) \/ ReceiveTimeout(w)
                 \/ \E a \in Addresses : Take(w, a)
                 \/ \E up \in BOOLEAN : PingProgram(w, up) \/ Probe(w, up)

-----------------------------------------------------------------------------
(* The network: a reply comes in. *)
Arrive(r) == /\ r \in net
             /\ net' = net \ {r}
             /\ Deliver(r)
             /\ UNCHANGED <<queue, wpc, task, ident, strays, found, poolVars, pings, tried>>

\* A reply to another program's ping; its identifier is any, this program's included.
Stray(id) == /\ strays < Strays /\ strays' = strays + 1
             /\ pings' = pings \cup {[to |-> None, ident |-> id]}
             /\ Deliver(Reply(None, id))
             /\ UNCHANGED <<queue, wpc, task, ident, net, found, poolVars, tried>>

-----------------------------------------------------------------------------
(* discover_hosts: the main thread. *)
Finished == {a \in Addresses : found[a] # Undecided}

Gather(a) == /\ ~over /\ a \in Finished \ gathered
             /\ gathered' = gathered \cup {a}
             /\ hosts' = IF found[a] = Raised THEN hosts ELSE Append(hosts, a)
             /\ UNCHANGED <<queue, wpc, task, ident, inbox, net, strays, found, over, pings, tried>>

\* The pool is done; the list is reduced to the hosts that are alive, in the order
\* they are in.
Reduced_AnyVerdict == hosts
Reduced == Kept(hosts, {a \in Addresses : IsAlive(found[a])})
Return == /\ ~over /\ gathered = Addresses
          /\ over' = TRUE
          /\ hosts' = Reduced
          /\ UNCHANGED <<queue, wpc, task, ident, inbox, net, strays, found, gathered, pings, tried>>

MainStep == Return \/ \E a \in Addresses : Gather(a)

Next == \/ MainStep
        \/ \E w \in Workers : WorkerStep(w)
        \/ \E r \in net : Arrive(r)
        \/ \E id \in Idents : Stray(id)

Spec == Init /\ [][Next]_vars

-----------------------------------------------------------------------------
(* Properties. *)

(***************************************************************************)
(* A host is taken for alive on somebody else's reply only if somebody     *)
(* else was pinged with the identifier that this host's own ping had       *)
(* (_parse_icmp_reply compares identifier and sequence number and not the  *)
(* sender): threads whose identifiers differ never mix up their hosts,     *)
(* however their replies cross.                                            *)
(***************************************************************************)
MixedUpByIdentOnly ==
  \A a \in Addresses :
    found[a].by = "icmp" /\ found[a].from # a =>
      \E id \in Idents : {[to |-> a, ident |-> id], [to |-> found[a].from, ident |-> id]} \subseteq pings

(***************************************************************************)
(* A ping whose own reply has come in does not end without it: packets of  *)
(* other pings queued before it do not use up the one wait icmp_ping has.  *)
(***************************************************************************)
OwnReplyHeard ==
  [][\A w \in Workers :
       /\ wpc[w] = "listening" /\ wpc'[w] # "listening"
       /\ Reply(task[w], ident[w]) \in ToSet(inbox[w])
       => found'[task[w]].by = "icmp"]_vars

(***************************************************************************)
(* A host is called down only after every probe asked for was tried on it, *)
(* and one that is not called down was spared the probes after the one it  *)
(* answered (discover_host's chain of ifs and returns).                    *)
(***************************************************************************)
ChainIsFollowed ==
  \A a \in Addresses :
    /\ found[a] = Down => tried[a] = Enabled
    /\ IsAlive(found[a]) =>
         tried[a] = {p \in Enabled : Position(p) <= Position(found[a].by)}

(***************************************************************************)
(* The discovery keeps its promise: an address has one verdict, once and   *)
(* for all, and the engine gets the hosts found alive, each once, and no   *)
(* other -- a host that is down, or whose check raised, is not scanned.    *)
(***************************************************************************)
Verdict(v) == CASE v = Undecided -> "undecided" [] v = Down -> "down" [] v = Raised -> "raised"
                [] OTHER -> "alive"
Alive == INSTANCE AlivePromise WITH verdict <- [a \in Addresses |-> Verdict(found[a])],
                                    list <- IF over THEN hosts ELSE <<>>
AliveSpec == Alive!Spec
=============================================================================

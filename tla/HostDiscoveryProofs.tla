------------------------- MODULE HostDiscoveryProofs -------------------------
(***************************************************************************)
(* The properties of host discovery for every set of addresses, pool of    *)
(* workers and set of identifiers, and the proof that it implements        *)
(* AlivePromise.                                                           *)
(*                                                                         *)
(* IInv has four layers, each proved from those above it: the types; who   *)
(* has which address and how far along the chain of probes it is (Tasks,   *)
(* ChainIsFollowed); that every reply on its way or queued answers a ping  *)
(* that was sent (Answers); and what as_completed has gathered             *)
(* (Gathering).                                                            *)
(*                                                                         *)
(* The last part is the TTL reader after it: discovery's theorems still    *)
(* hold with the reader's pings about, and what the reader learns is no    *)
(* older than its own question.  ReaderInv adds to IInv where the reader   *)
(* is in the list (Reading) and where the packets it holds come from       *)
(* (Packeted).                                                             *)
(***************************************************************************)
EXTENDS TtlReader, ListFacts

\* The probe a busy worker is at; a raw ping and the ping program are both icmp.
ProbeOf(stage) == IF stage \in {"listening", "ping"} THEN "icmp" ELSE stage
UpTo(n) == {p \in Enabled : Position(p) <= n}

\* Who has which address, not yet decided, and which probes it has seen.
Tasks ==
  /\ \A w \in Workers : wpc[w] = "idle" <=> task[w] = None
  /\ \A w \in Workers : wpc[w] = "listening" <=> ident[w] # None
  /\ \A w \in Workers : task[w] # None =>
       /\ task[w] \notin queue
       /\ found[task[w]] = Undecided
       /\ ProbeOf(wpc[w]) \in Enabled
       /\ tried[task[w]] = UpTo(Position(ProbeOf(wpc[w])))
  /\ \A v, w \in Workers : task[v] = task[w] /\ task[v] # None => v = w
  /\ \A a \in queue : found[a] = Undecided /\ tried[a] = {}

\* Every reply, on its way or queued, answers a ping that was sent.
Sent(r, asked) == [to |-> r.from, ident |-> r.ident] \in asked
Answers ==
  /\ \A r \in net : Sent(r, pings)
  /\ \A w \in Workers : \A i \in 1..Len(inbox[w]) : Sent(inbox[w][i], pings)
  /\ \A w \in Workers : wpc[w] = "listening" => Sent(Reply(task[w], ident[w]), pings)
  /\ MixedUpByIdentOnly

\* What as_completed has yielded is decided, and the list has those not raised.
Gathering ==
  /\ \A a \in gathered : found[a] # Undecided
  /\ over => gathered = Addresses
  /\ \A i, j \in 1..Len(hosts) : hosts[i] = hosts[j] => i = j
  /\ ~over => ToSet(hosts) = {a \in gathered : found[a] # Raised}

IInv == TypeOK /\ Tasks /\ ChainIsFollowed /\ Answers /\ Gathering

-----------------------------------------------------------------------------
\* The probes have their places in the chain of discover_host.
LEMMA ChainFacts ==
  /\ Len(Chain) = 5 /\ DOMAIN Chain = 1..5
  /\ ToSet(Chain) = {"icmp", "tcp", "ack", "udp", "http"}
  /\ Position("icmp") = 1 /\ Position("tcp") = 2 /\ Position("ack") = 3
  /\ Position("udp") = 4 /\ Position("http") = 5
<1>1. Len(Chain) = 5 /\ DOMAIN Chain = 1..5
  BY DEF Chain
<1>2. /\ Chain[1] = "icmp" /\ Chain[2] = "tcp" /\ Chain[3] = "ack"
      /\ Chain[4] = "udp" /\ Chain[5] = "http"
  BY DEF Chain
<1>3. ToSet(Chain) = {"icmp", "tcp", "ack", "udp", "http"}
  BY <1>1, <1>2 DEF ToSet
<1>4. ASSUME NEW i \in 1..5 PROVE Position(Chain[i]) = i
  <2>1. \A j \in 1..5 : Chain[j] = Chain[i] => j = i
    BY <1>2
  <2>2. Position(Chain[i]) \in 1..5 /\ Chain[Position(Chain[i])] = Chain[i]
    BY <1>1 DEF Position
  <2>3. QED
    BY <2>1, <2>2
<1>5. QED
  BY <1>1, <1>2, <1>3, <1>4

\* The next probe is the first enabled one after the n-th, if there is one.
LEMMA NextProbeFacts ==
  ASSUME NEW n \in 0..5
  PROVE  /\ NextProbe(n) = None => \A p \in Enabled : Position(p) <= n
         /\ NextProbe(n) # None =>
              /\ NextProbe(n) \in Enabled
              /\ Position(NextProbe(n)) > n
              /\ \A p \in Enabled : Position(p) > n => Position(p) >= Position(NextProbe(n))
<1> DEFINE rest == {i \in DOMAIN Chain : i > n /\ Chain[i] \in Enabled}
<1>0. Enabled \subseteq {"icmp", "tcp", "ack", "udp", "http"}
  BY ChainFacts, DiscoveryAssumption DEF DiscoveryAssumption
<1>1. rest \subseteq 1..5
  BY ChainFacts
<1>2. /\ Chain[1] = "icmp" /\ Chain[2] = "tcp" /\ Chain[3] = "ack"
      /\ Chain[4] = "udp" /\ Chain[5] = "http"
  BY DEF Chain
<1>3. \A p \in Enabled : Position(p) \in 1..5 /\ Chain[Position(p)] = p
  BY <1>0, <1>2, ChainFacts
<1>4. \A i \in 1..5 : Position(Chain[i]) = i /\ Chain[i] # None
  BY <1>2, ChainFacts DEF None
<1>5. CASE rest = {}
  <2>1. NextProbe(n) = None
    BY <1>5 DEF NextProbe
  <2>2. ASSUME NEW p \in Enabled, ~(Position(p) <= n) PROVE FALSE
    <3>1. Position(p) \in rest
      BY <1>3, <2>2, ChainFacts
    <3>2. QED
      BY <3>1, <1>5
  <2>3. QED
    BY <2>1, <2>2
<1>6. CASE rest # {}
  <2>1. \E x \in rest : \A y \in rest : x <= y
    BY <1>6, <1>1
  <2>2. Min(rest) \in rest /\ \A y \in rest : Min(rest) <= y
    BY <2>1 DEF Min
  <2>3. NextProbe(n) = Chain[Min(rest)]
    BY <1>6 DEF NextProbe
  <2>4. Min(rest) \in 1..5 /\ Min(rest) > n /\ Chain[Min(rest)] \in Enabled
    BY <2>2, <1>1
  <2>5. Position(NextProbe(n)) = Min(rest) /\ NextProbe(n) # None /\ NextProbe(n) \in Enabled
    BY <2>3, <2>4, <1>4
  <2>6. ASSUME NEW p \in Enabled, Position(p) > n PROVE Position(p) >= Min(rest)
    <3>1. Position(p) \in rest
      BY <1>3, <2>6, ChainFacts
    <3>2. QED
      BY <3>1, <2>2, <1>1
  <2>7. QED
    BY <2>4, <2>5, <2>6
<1>7. QED
  BY <1>5, <1>6

-----------------------------------------------------------------------------
\* The verdicts differ, and an answered probe is a verdict "alive".
LEMMA VerdictFacts ==
  /\ Undecided # Down /\ Undecided # Raised /\ Down # Raised
  /\ \A p, x : p \in ToSet(Chain) =>
       /\ IsAlive([by |-> p, from |-> x])
       /\ [by |-> p, from |-> x].by = p /\ [by |-> p, from |-> x].from = x
  /\ Undecided.by = None /\ Down.by = "no response" /\ Raised.by = "raised"
BY ChainFacts DEF Undecided, Down, Raised, IsAlive, None

\* Enabled probes have different places, and HTTP is always one of them.
LEMMA EnabledFacts ==
  /\ Enabled \subseteq {"icmp", "tcp", "ack", "udp", "http"} /\ "http" \in Enabled
  /\ \A p \in Enabled : Position(p) \in 1..5
  /\ \A p, q \in Enabled : Position(p) = Position(q) => p = q
BY ChainFacts, DiscoveryAssumption DEF DiscoveryAssumption

\* None is neither an address nor a thread nor an identifier.
LEMMA NoneIsNobody == None \notin Addresses /\ None \notin Workers /\ None \notin Idents
BY DiscoveryAssumption DEF DiscoveryAssumption, None

\* Deciding an address keeps the types.
LEMMA DecideTypes ==
  ASSUME TypeOK, NEW w \in Workers, NEW a \in Addresses,
         NEW v \in Verdicts,
         Decide(w, a, v)
  PROVE  /\ wpc' \in [Workers -> Stages]
         /\ task' \in [Workers -> Addresses \cup {None}]
         /\ found' \in [Addresses -> Verdicts]
BY DEF TypeOK, Decide, Stages

\* Going on to the next probe, or giving up, keeps the types.
LEMMA GoOnTypes ==
  ASSUME TypeOK, NEW w \in Workers, NEW a \in Addresses, NEW n \in 0..5, GoOn(w, a, n)
  PROVE  /\ wpc' \in [Workers -> Stages]
         /\ task' \in [Workers -> Addresses \cup {None}]
         /\ found' \in [Addresses -> Verdicts]
         /\ tried' \in [Addresses -> SUBSET Enabled]
<1>1. CASE NextProbe(n) = None /\ Decide(w, a, Down) /\ UNCHANGED tried
  <2>1. Down \in Verdicts
    BY DEF Down, Verdicts
  <2>2. QED
    BY <1>1, <2>1, DecideTypes DEF TypeOK
<1>2. CASE NextProbe(n) # None /\ task' = [task EXCEPT ![w] = a]
           /\ wpc' = [wpc EXCEPT ![w] = NextProbe(n)]
           /\ tried' = [tried EXCEPT ![a] = @ \cup {NextProbe(n)}] /\ UNCHANGED found
  <2>1. NextProbe(n) \in Enabled /\ NextProbe(n) \in ToSet(Chain)
    BY <1>2, NextProbeFacts, EnabledFacts, ChainFacts
  <2>2. QED
    BY <1>2, <2>1 DEF TypeOK, Stages
<1>3. QED
  BY <1>1, <1>2 DEF GoOn

\* A reply that is delivered is queued at every socket that is open.
LEMMA DeliverTypes ==
  ASSUME TypeOK, NEW r \in Replies, Deliver(r)
  PROVE  inbox' \in [Workers -> Seq(Replies)]
<1>1. \A w \in Workers : Append(inbox[w], r) \in Seq(Replies) /\ inbox[w] \in Seq(Replies)
  BY DEF TypeOK
<1>2. QED
  BY <1>1 DEF Deliver, TypeOK

\* A busy worker has an address.
LEMMA BusyFacts ==
  ASSUME TypeOK, Tasks, NEW w \in Workers, wpc[w] # "idle"
  PROVE  task[w] \in Addresses /\ task[w] # None
BY DEF TypeOK, Tasks

\* Discovery begins well-typed.
LEMMA TypesInit == Init => TypeOK
<1>1. <<>> \in Seq(Replies) /\ <<>> \in Seq(Addresses)
  BY EmptySeq
<1>2. Undecided \in Verdicts
  BY DEF Undecided, Verdicts
<1>3. SUFFICES ASSUME Init PROVE TypeOK
  OBVIOUS
<1>4. /\ wpc \in [Workers -> Stages] /\ task \in [Workers -> Addresses \cup {None}]
      /\ ident \in [Workers -> Idents \cup {None}] /\ inbox \in [Workers -> Seq(Replies)]
  BY <1>1, <1>3 DEF Init, Stages
<1>5. strays \in 0..Strays
  BY <1>3, DiscoveryAssumption DEF Init, DiscoveryAssumption
<1>6. found \in [Addresses -> Verdicts] /\ tried \in [Addresses -> SUBSET Enabled]
  BY <1>2, <1>3 DEF Init
<1>7. QED
  BY <1>1, <1>3, <1>4, <1>5, <1>6 DEF Init, TypeOK

\* Every step keeps the types.
LEMMA TypesStep ==
  ASSUME TypeOK, Tasks, [Next]_vars
  PROVE  TypeOK'
<1>0. "icmp" \in ToSet(Chain)
  BY ChainFacts
<1>1. ASSUME Return PROVE TypeOK'
  <2>1. hosts' \in Seq(Addresses)
    BY <1>1, KeptType DEF Return, Reduced, TypeOK
  <2>2. QED
    BY <1>1, <2>1 DEF Return, TypeOK
<1>2. ASSUME NEW a \in Addresses, Gather(a) PROVE TypeOK'
  <2>1. Append(hosts, a) \in Seq(Addresses)
    BY DEF TypeOK
  <2>2. QED
    BY <1>2, <2>1 DEF Gather, TypeOK
<1>3. ASSUME NEW w \in Workers, SendPing(w) PROVE TypeOK'
  <2>1. task[w] \in Addresses
    BY <1>3, BusyFacts DEF SendPing
  <2>2. CASE wpc' = [wpc EXCEPT ![w] = "ping"] /\ UNCHANGED <<ident, pings, net>>
    BY <1>3, <2>2 DEF SendPing, TypeOK, Stages, poolVars
  <2>3. ASSUME NEW id \in Idents, ident' = [ident EXCEPT ![w] = id],
               pings' = pings \cup {[to |-> task[w], ident |-> id]},
               net' \in {net, net \cup {Reply(task[w], id)}},
               wpc' = [wpc EXCEPT ![w] = "listening"]
        PROVE  TypeOK'
    <3>1. Reply(task[w], id) \in Replies
          /\ [to |-> task[w], ident |-> id] \in Requests
      BY <2>1 DEF Reply, Replies, Requests
    <3>2. UNCHANGED <<queue, task, inbox, strays, found, poolVars, tried>>
      BY <1>3 DEF SendPing
    <3>3. net' \subseteq Replies
      BY <2>3, <3>1 DEF TypeOK
    <3>4. QED
      BY <2>3, <3>1, <3>2, <3>3 DEF TypeOK, Stages, poolVars
  <2>4. QED
    BY <1>3, <2>2, <2>3 DEF SendPing
<1>4. ASSUME NEW w \in Workers, Receive(w) PROVE TypeOK'
  <2>1. task[w] \in Addresses
    BY <1>4, BusyFacts DEF Receive
  <2>2. Head(inbox[w]) \in Replies /\ Tail(inbox[w]) \in Seq(Replies)
    BY <1>4 DEF Receive, TypeOK
  <2>3. CASE Decide(w, task[w], [by |-> "icmp", from |-> Head(inbox[w]).from]) /\ CloseSocket(w)
    <3>1. [by |-> "icmp", from |-> Head(inbox[w]).from]
             \in Verdicts
      BY <2>2, <1>0 DEF Replies, Verdicts
    <3>2. <<>> \in Seq(Replies)
      BY EmptySeq
    <3>3. ident' \in [Workers -> Idents \cup {None}] /\ inbox' \in [Workers -> Seq(Replies)]
      BY <2>3, <3>2 DEF CloseSocket, TypeOK
    <3>4. QED
      BY <1>4, <2>1, <2>3, <3>1, <3>3, DecideTypes DEF TypeOK, Receive, poolVars
  <2>4. CASE inbox' = [inbox EXCEPT ![w] = Tail(@)] /\ UNCHANGED <<wpc, task, found, ident>>
    BY <1>4, <2>2, <2>4 DEF TypeOK, Receive, poolVars
  <2>5. QED
    BY <1>4, <2>3, <2>4 DEF Receive
<1>5. ASSUME NEW w \in Workers, ReceiveTimeout(w) PROVE TypeOK'
  <2>1. <<>> \in Seq(Replies)
    BY EmptySeq
  <2>2. QED
    BY <1>5, <2>1 DEF ReceiveTimeout, CloseSocket, TypeOK, Stages, poolVars
<1>6. ASSUME NEW w \in Workers, NEW a \in Addresses, Take(w, a) PROVE TypeOK'
  <2>1. GoOn(w, a, 0)
    BY <1>6 DEF Take
  <2>2. QED
    BY <1>6, <2>1, GoOnTypes DEF Take, TypeOK, poolVars
<1>7. ASSUME NEW w \in Workers, NEW up \in BOOLEAN, PingProgram(w, up) PROVE TypeOK'
  <2>1. task[w] \in Addresses
    BY <1>7, BusyFacts DEF PingProgram
  <2>2. PICK id \in Idents :
          /\ pings' = pings \cup {[to |-> task[w], ident |-> id]}
          /\ \/ /\ up
                /\ Deliver(Reply(task[w], id))
                /\ Decide(w, task[w], [by |-> "icmp", from |-> task[w]])
                /\ UNCHANGED <<net, tried>>
             \/ /\ ~up
                /\ net' \in {net, net \cup {Reply(task[w], id)}}
                /\ GoOn(w, task[w], 1)
                /\ UNCHANGED inbox
    BY <1>7 DEF PingProgram
  <2>3. Reply(task[w], id) \in Replies
        /\ [to |-> task[w], ident |-> id] \in Requests
    BY <2>1 DEF Reply, Replies, Requests
  <2>4. pings' \subseteq Requests
    BY <2>2, <2>3 DEF TypeOK
  <2>5. UNCHANGED <<queue, ident, strays, poolVars>>
    BY <1>7 DEF PingProgram
  <2>6. CASE /\ Deliver(Reply(task[w], id))
             /\ Decide(w, task[w], [by |-> "icmp", from |-> task[w]])
             /\ UNCHANGED <<net, tried>>
    <3>1. [by |-> "icmp", from |-> task[w]]
             \in Verdicts
      BY <2>1, <1>0 DEF Verdicts
    <3>2. QED
      BY <2>1, <2>3, <2>4, <2>5, <2>6, <3>1, DecideTypes, DeliverTypes DEF TypeOK, poolVars
  <2>7. CASE /\ net' \in {net, net \cup {Reply(task[w], id)}}
             /\ GoOn(w, task[w], 1) /\ UNCHANGED inbox
    <3>1. net' \subseteq Replies
      BY <2>3, <2>7 DEF TypeOK
    <3>2. QED
      BY <2>1, <2>4, <2>5, <2>7, <3>1, GoOnTypes DEF TypeOK, poolVars
  <2>8. QED
    BY <2>2, <2>6, <2>7
<1>8. ASSUME NEW w \in Workers, NEW up \in BOOLEAN, Probe(w, up) PROVE TypeOK'
  <2>1. task[w] \in Addresses /\ wpc[w] \in ToSet(Chain)
    BY <1>8, BusyFacts, ChainFacts DEF Probe
  <2>2. UNCHANGED <<queue, ident, inbox, net, strays, poolVars, pings>>
    BY <1>8 DEF Probe
  <2>3. CASE Decide(w, task[w], [by |-> wpc[w], from |-> task[w]]) /\ UNCHANGED tried
    <3>1. [by |-> wpc[w], from |-> task[w]]
             \in Verdicts
      BY <2>1 DEF Verdicts
    <3>2. QED
      BY <2>1, <2>2, <2>3, <3>1, DecideTypes DEF TypeOK, poolVars
  <2>4. CASE GoOn(w, task[w], Position(wpc[w]))
    <3>1. Position(wpc[w]) \in 0..5
      BY <2>1, ChainFacts
    <3>2. QED
      BY <2>1, <2>2, <2>4, <3>1, GoOnTypes DEF TypeOK, poolVars
  <2>5. CASE Decide(w, task[w], Raised) /\ UNCHANGED tried
    <3>1. Raised \in Verdicts
      BY DEF Raised, Verdicts
    <3>2. QED
      BY <2>1, <2>2, <2>5, <3>1, DecideTypes DEF TypeOK, poolVars
  <2>6. QED
    BY <1>8, <2>3, <2>4, <2>5 DEF Probe
<1>9. ASSUME NEW r \in net, Arrive(r) PROVE TypeOK'
  <2>1. r \in Replies /\ Deliver(r)
    BY <1>9 DEF TypeOK, Arrive
  <2>2. QED
    BY <1>9, <2>1, DeliverTypes DEF TypeOK, Arrive, poolVars
<1>10. ASSUME NEW id \in Idents, Stray(id) PROVE TypeOK'
  <2>1. Reply(None, id) \in Replies /\ Deliver(Reply(None, id))
        /\ [to |-> None, ident |-> id] \in Requests
    BY <1>10 DEF Stray, Reply, Replies, Requests
  <2>2. strays' \in 0..Strays
    BY <1>10, DiscoveryAssumption DEF Stray, TypeOK, DiscoveryAssumption
  <2>3. inbox' \in [Workers -> Seq(Replies)]
    BY <2>1, DeliverTypes
  <2>4. QED
    BY <1>10, <2>1, <2>2, <2>3 DEF TypeOK, Stray, poolVars
<1>11. ASSUME UNCHANGED vars PROVE TypeOK'
  BY <1>11 DEF TypeOK, vars, poolVars
<1>12. QED
  BY <1>1, <1>2, <1>3, <1>4, <1>5, <1>6, <1>7, <1>8, <1>9, <1>10, <1>11
     DEF Next, MainStep, WorkerStep

-----------------------------------------------------------------------------
\* The probes tried so far, with one more.
LEMMA UpToFacts ==
  ASSUME NEW n \in 0..5
  PROVE  /\ NextProbe(n) = None => UpTo(n) = Enabled
         /\ NextProbe(n) # None =>
              /\ UpTo(n) \cup {NextProbe(n)} = UpTo(Position(NextProbe(n)))
              /\ ProbeOf(NextProbe(n)) = NextProbe(n)
              /\ NextProbe(n) \notin {"idle", "listening"}
         /\ UpTo(0) = {}
<1>1. UpTo(0) = {}
  <2>1. \A p \in Enabled : ~(Position(p) <= 0)
    BY EnabledFacts
  <2>2. QED
    BY <2>1 DEF UpTo
<1>2. CASE NextProbe(n) = None
  BY <1>1, <1>2, NextProbeFacts DEF UpTo
<1>3. CASE NextProbe(n) # None
  <2> DEFINE q == NextProbe(n)
  <2>1. /\ q \in Enabled /\ Position(q) > n
        /\ \A p \in Enabled : Position(p) > n => Position(p) >= Position(q)
    BY <1>3, NextProbeFacts
  <2>2. q \notin {"idle", "listening", "ping"}
    BY <2>1, EnabledFacts
  <2> HIDE DEF q
  <2>3. \A p \in Enabled : Position(p) <= n \/ p = q <=> Position(p) <= Position(q)
    BY <2>1, EnabledFacts
  <2>4. UpTo(n) \cup {q} = UpTo(Position(q))
    BY <2>1, <2>3 DEF UpTo
  <2>5. QED
    BY <1>1, <1>3, <2>2, <2>4 DEF q, ProbeOf
<1>4. QED
  BY <1>2, <1>3

\* Deciding an address frees its worker and keeps the others' addresses, and
\* the chain was followed for it.
LEMMA DecideTasks ==
  ASSUME TypeOK, Tasks, ChainIsFollowed, NEW w \in Workers, wpc[w] # "idle",
         NEW v \in Verdicts, v # Undecided, Decide(w, task[w], v), UNCHANGED <<queue, tried>>,
         v = Down => tried[task[w]] = Enabled,
         IsAlive(v) => v.by = ProbeOf(wpc[w]),
         ident' \in {ident, [ident EXCEPT ![w] = None]}, ident'[w] = None
  PROVE  Tasks' /\ ChainIsFollowed'
<1>1. task[w] \in Addresses /\ task[w] # None
  BY BusyFacts
<1>2. /\ wpc' = [wpc EXCEPT ![w] = "idle"] /\ task' = [task EXCEPT ![w] = None]
      /\ found' = [found EXCEPT ![task[w]] = v]
  BY DEF Decide
<1>3. \A u \in Workers \ {w} : wpc'[u] = wpc[u] /\ task'[u] = task[u] /\ ident'[u] = ident[u]
  BY <1>2 DEF TypeOK
<1>4. wpc'[w] = "idle" /\ task'[w] = None
  BY <1>2 DEF TypeOK
<1>5. \A a \in Addresses : found'[a] = IF a = task[w] THEN v ELSE found[a]
  BY <1>1, <1>2 DEF TypeOK
<1>6. \A u \in Workers \ {w} : task[u] # task[w] \/ task[u] = None
  BY <1>1 DEF Tasks
<1>7. \A u \in Workers : task[u] # None => task[u] \in Addresses
  BY DEF TypeOK
<1>8. Tasks'
  <2>1. \A u \in Workers : wpc'[u] = "idle" <=> task'[u] = None
    BY <1>3, <1>4 DEF Tasks
  <2>2. \A u \in Workers : wpc'[u] = "listening" <=> ident'[u] # None
    BY <1>3, <1>4 DEF Tasks
  <2>3. \A u \in Workers : task'[u] # None =>
          /\ task'[u] \notin queue'
          /\ found'[task'[u]] = Undecided
          /\ ProbeOf(wpc'[u]) \in Enabled
          /\ tried'[task'[u]] = UpTo(Position(ProbeOf(wpc'[u])))
    BY <1>3, <1>4, <1>5, <1>6, <1>7 DEF Tasks
  <2>4. \A u, x \in Workers : task'[u] = task'[x] /\ task'[u] # None => u = x
    BY <1>3, <1>4 DEF Tasks
  <2>5. \A a \in queue' : found'[a] = Undecided /\ tried'[a] = {}
    BY <1>1, <1>5 DEF Tasks, TypeOK
  <2>6. QED
    BY <2>1, <2>2, <2>3, <2>4, <2>5 DEF Tasks
<1>9. ChainIsFollowed'
  <2>1. tried[task[w]] = UpTo(Position(ProbeOf(wpc[w])))
    BY <1>1 DEF Tasks
  <2>2. ASSUME NEW a \in Addresses
        PROVE  /\ found'[a] = Down => tried'[a] = Enabled
               /\ IsAlive(found'[a]) => tried'[a] = UpTo(Position(found'[a].by))
    <3>1. CASE a = task[w]
      BY <1>5, <2>1, <3>1
    <3>2. CASE a # task[w]
      BY <1>5, <3>2 DEF ChainIsFollowed, UpTo
    <3>3. QED
      BY <3>1, <3>2
  <2>3. QED
    BY <2>2 DEF ChainIsFollowed, UpTo
<1>10. QED
  BY <1>8, <1>9

\* So does going on to the next probe.
LEMMA GoOnTasks ==
  ASSUME TypeOK, Tasks, ChainIsFollowed, NEW w \in Workers, NEW a \in Addresses, NEW n \in 0..5,
         \/ wpc[w] = "idle" /\ a \in queue /\ n = 0 /\ queue' = queue \ {a}
         \/ wpc[w] # "idle" /\ a = task[w] /\ n = Position(ProbeOf(wpc[w])) /\ UNCHANGED queue,
         ident[w] = None, UNCHANGED ident, GoOn(w, a, n)
  PROVE  Tasks' /\ ChainIsFollowed'
<1>1. CASE NextProbe(n) = None /\ Decide(w, a, Down) /\ UNCHANGED tried
  <2>1. n # 0
    BY <1>1, UpToFacts, EnabledFacts
  <2>2. wpc[w] # "idle" /\ a = task[w] /\ n = Position(ProbeOf(wpc[w])) /\ UNCHANGED queue
    BY <2>1
  <2>3. tried[task[w]] = Enabled
    BY <1>1, <2>2, UpToFacts, BusyFacts DEF Tasks
  <2>4. Down \in Verdicts /\ Down # Undecided /\ ~IsAlive(Down)
    BY VerdictFacts DEF Down, Verdicts, IsAlive
  <2>5. QED
    BY <1>1, <2>2, <2>3, <2>4, DecideTasks
<1>2. CASE NextProbe(n) # None /\ task' = [task EXCEPT ![w] = a]
           /\ wpc' = [wpc EXCEPT ![w] = NextProbe(n)]
           /\ tried' = [tried EXCEPT ![a] = @ \cup {NextProbe(n)}] /\ UNCHANGED found
  <2> DEFINE q == NextProbe(n)
  <2>1. /\ UpTo(n) \cup {q} = UpTo(Position(q)) /\ ProbeOf(q) = q
        /\ q \notin {"idle", "listening"} /\ q \in Enabled
    BY <1>2, UpToFacts, NextProbeFacts
  <2>2. wpc'[w] = q /\ task'[w] = a /\ ident'[w] = None
        /\ \A u \in Workers \ {w} : wpc'[u] = wpc[u] /\ task'[u] = task[u] /\ ident'[u] = ident[u]
    BY <1>2 DEF TypeOK
  <2> HIDE DEF q
  <2>3. tried[a] = UpTo(n) /\ found[a] = Undecided
    BY UpToFacts, BusyFacts DEF Tasks
  <2>4. tried'[a] = UpTo(Position(q)) /\ \A b \in Addresses \ {a} : tried'[b] = tried[b]
    BY <1>2, <2>1, <2>3 DEF TypeOK, q
  <2>5. a # None
    BY NoneIsNobody
  <2>6. \A u \in Workers \ {w} : task[u] # a
    BY <2>5 DEF Tasks
  <2>7. queue' = queue \ {a} /\ queue \subseteq Addresses
    BY BusyFacts DEF Tasks, TypeOK
  <2>8. \A u \in Workers : task[u] # None => task[u] \in Addresses
    BY DEF TypeOK
  <2>9. Tasks'
    <3>1. \A u \in Workers : wpc'[u] = "idle" <=> task'[u] = None
      BY <2>1, <2>2, <2>5 DEF Tasks
    <3>2. \A u \in Workers : wpc'[u] = "listening" <=> ident'[u] # None
      BY <2>1, <2>2 DEF Tasks
    <3>3. \A u \in Workers : task'[u] # None =>
            /\ task'[u] \notin queue'
            /\ found'[task'[u]] = Undecided
            /\ ProbeOf(wpc'[u]) \in Enabled
            /\ tried'[task'[u]] = UpTo(Position(ProbeOf(wpc'[u])))
      BY <1>2, <2>1, <2>2, <2>3, <2>4, <2>6, <2>7, <2>8 DEF Tasks
    <3>4. \A u, x \in Workers : task'[u] = task'[x] /\ task'[u] # None => u = x
      BY <2>2, <2>6 DEF Tasks
    <3>5. \A b \in queue' : found'[b] = Undecided /\ tried'[b] = {}
      BY <1>2, <2>4, <2>7 DEF Tasks
    <3>6. QED
      BY <3>1, <3>2, <3>3, <3>4, <3>5 DEF Tasks
  <2>10. ChainIsFollowed'
    <3>1. ~IsAlive(Undecided) /\ Undecided # Down
      BY VerdictFacts DEF IsAlive
    <3>2. \A b \in Addresses :
            /\ found'[b] = Down => tried'[b] = Enabled
            /\ IsAlive(found'[b]) => tried'[b] = UpTo(Position(found'[b].by))
      BY <1>2, <2>3, <2>4, <3>1 DEF ChainIsFollowed, UpTo
    <3>3. QED
      BY <3>2 DEF ChainIsFollowed, UpTo
  <2>11. QED
    BY <2>9, <2>10
<1>3. QED
  BY <1>1, <1>2 DEF GoOn

\* Steps between the raw ping and the ping program.
LEMMA StayTasks ==
  ASSUME TypeOK, Tasks, ChainIsFollowed, NEW w \in Workers, NEW stage \in {"listening", "ping"},
         wpc[w] \in {"icmp", "listening"}, wpc' = [wpc EXCEPT ![w] = stage],
         UNCHANGED <<queue, task, found, tried>>,
         ident' \in {ident} \cup {[ident EXCEPT ![w] = id] : id \in Idents \cup {None}},
         stage = "listening" <=> ident'[w] # None
  PROVE  Tasks' /\ ChainIsFollowed'
<1>1. wpc'[w] = stage
      /\ \A u \in Workers \ {w} : wpc'[u] = wpc[u] /\ ident'[u] = ident[u]
  BY DEF TypeOK
<1>2. ProbeOf(stage) = ProbeOf(wpc[w])
  BY DEF ProbeOf
<1>3. Tasks'
  <2>1. \A u \in Workers : wpc'[u] = "idle" <=> task'[u] = None
    BY <1>1 DEF Tasks
  <2>2. \A u \in Workers : wpc'[u] = "listening" <=> ident'[u] # None
    BY <1>1 DEF Tasks
  <2>3. \A u \in Workers : ProbeOf(wpc'[u]) = ProbeOf(wpc[u])
    BY <1>1, <1>2
  <2>4. QED
    BY <2>1, <2>2, <2>3 DEF Tasks
<1>4. ChainIsFollowed'
  BY DEF ChainIsFollowed
<1>5. QED
  BY <1>3, <1>4

\* Every step keeps the workers' addresses apart, undecided and at their place
\* in the chain.
LEMMA TasksStep ==
  ASSUME TypeOK, Tasks, ChainIsFollowed, [Next]_vars
  PROVE  Tasks' /\ ChainIsFollowed'
<1>0. ASSUME UNCHANGED <<queue, wpc, task, ident, found, tried>>
      PROVE  Tasks' /\ ChainIsFollowed'
  BY <1>0 DEF Tasks, ChainIsFollowed
<1>1. CASE MainStep \/ (\E r \in net : Arrive(r)) \/ (\E id \in Idents : Stray(id)) \/ UNCHANGED vars
  BY <1>0, <1>1 DEF MainStep, Return, Gather, Arrive, Stray, vars
<1>2. ASSUME NEW w \in Workers, SendPing(w) PROVE Tasks' /\ ChainIsFollowed'
  <2>1. wpc[w] = "icmp" /\ ident[w] = None /\ UNCHANGED <<queue, task, found, tried>>
    BY <1>2 DEF SendPing, Tasks
  <2>2. CASE wpc' = [wpc EXCEPT ![w] = "ping"] /\ UNCHANGED ident
    BY <2>1, <2>2, StayTasks
  <2>3. ASSUME NEW id \in Idents, ident' = [ident EXCEPT ![w] = id],
               wpc' = [wpc EXCEPT ![w] = "listening"]
        PROVE  Tasks' /\ ChainIsFollowed'
    <3>1. ident'[w] # None
      BY <2>3, NoneIsNobody DEF TypeOK
    <3>2. QED
      BY <2>1, <2>3, <3>1, StayTasks
  <2>4. QED
    BY <1>2, <2>2, <2>3 DEF SendPing
<1>3. ASSUME NEW w \in Workers, ReceiveTimeout(w) PROVE Tasks' /\ ChainIsFollowed'
  <2>1. ident' = [ident EXCEPT ![w] = None] /\ ident'[w] = None
    BY <1>3 DEF ReceiveTimeout, CloseSocket, TypeOK
  <2>2. QED
    BY <1>3, <2>1, StayTasks DEF ReceiveTimeout
<1>4. ASSUME NEW w \in Workers, Receive(w) PROVE Tasks' /\ ChainIsFollowed'
  <2> DEFINE v == [by |-> "icmp", from |-> Head(inbox[w]).from]
  <2>1. wpc[w] = "listening" /\ UNCHANGED <<queue, tried>>
    BY <1>4 DEF Receive
  <2>2. CASE Decide(w, task[w], v) /\ CloseSocket(w)
    <3>1. Head(inbox[w]) \in Replies
      BY <1>4 DEF Receive, TypeOK
    <3>2. v \in Verdicts /\ v # Undecided /\ v # Down /\ v.by = "icmp"
      BY <3>1, ChainFacts DEF Verdicts, Undecided, Down, Replies, None
    <3>3. ident' = [ident EXCEPT ![w] = None] /\ ident'[w] = None
      BY <2>2 DEF CloseSocket, TypeOK
    <3>4. v.by = ProbeOf(wpc[w])
      BY <2>1, <3>2 DEF ProbeOf
    <3> HIDE DEF v
    <3>5. QED
      BY <2>1, <2>2, <3>2, <3>3, <3>4, DecideTasks
  <2>3. CASE UNCHANGED <<wpc, task, found, ident>>
    BY <1>0, <2>1, <2>3
  <2>4. QED
    BY <1>4, <2>2, <2>3 DEF Receive
<1>5. ASSUME NEW w \in Workers, NEW a \in Addresses, Take(w, a) PROVE Tasks' /\ ChainIsFollowed'
  <2>1. wpc[w] = "idle" /\ a \in queue /\ queue' = queue \ {a} /\ GoOn(w, a, 0) /\ UNCHANGED ident
    BY <1>5 DEF Take
  <2>2. ident[w] = None
    BY <2>1 DEF Tasks
  <2>3. QED
    BY <2>1, <2>2, GoOnTasks
<1>6. ASSUME NEW w \in Workers, NEW up \in BOOLEAN, PingProgram(w, up)
      PROVE  Tasks' /\ ChainIsFollowed'
  <2>1. wpc[w] = "ping" /\ UNCHANGED <<queue, ident>> /\ ident[w] = None /\ task[w] \in Addresses
    BY <1>6, BusyFacts DEF PingProgram, Tasks
  <2>2. ProbeOf(wpc[w]) = "icmp"
    BY <2>1 DEF ProbeOf
  <2>3. CASE Decide(w, task[w], [by |-> "icmp", from |-> task[w]]) /\ UNCHANGED tried
    <3> DEFINE v == [by |-> "icmp", from |-> task[w]]
    <3>1. v \in Verdicts /\ v # Undecided /\ v # Down /\ v.by = "icmp"
      BY <2>1, ChainFacts DEF Verdicts, Undecided, Down, None
    <3>2. Decide(w, task[w], v)
      BY <2>3
    <3> HIDE DEF v
    <3>3. QED
      BY <2>1, <2>2, <2>3, <3>1, <3>2, DecideTasks
  <2>4. CASE GoOn(w, task[w], 1)
    BY <2>1, <2>2, <2>4, GoOnTasks, ChainFacts
  <2>5. QED
    BY <1>6, <2>3, <2>4 DEF PingProgram
<1>7. ASSUME NEW w \in Workers, NEW up \in BOOLEAN, Probe(w, up) PROVE Tasks' /\ ChainIsFollowed'
  <2>1. wpc[w] \in ToSet(Chain) /\ wpc[w] \notin {"idle", "listening", "ping"}
    BY <1>7, ChainFacts DEF Probe
  <2>2. UNCHANGED <<queue, ident>> /\ ident[w] = None /\ task[w] \in Addresses
    BY <1>7, <2>1, BusyFacts DEF Probe, Tasks
  <2>3. ProbeOf(wpc[w]) = wpc[w] /\ Position(wpc[w]) \in 0..5
    BY <2>1, ChainFacts DEF ProbeOf
  <2>4. CASE Decide(w, task[w], [by |-> wpc[w], from |-> task[w]]) /\ UNCHANGED tried
    <3> DEFINE v == [by |-> wpc[w], from |-> task[w]]
    <3>1. v \in Verdicts /\ v # Undecided /\ v # Down /\ v.by = wpc[w]
      BY <2>1, <2>2, ChainFacts DEF Verdicts, Undecided, Down, None
    <3>2. Decide(w, task[w], v)
      BY <2>4
    <3> HIDE DEF v
    <3>3. QED
      BY <2>1, <2>2, <2>3, <2>4, <3>1, <3>2, DecideTasks
  <2>5. CASE GoOn(w, task[w], Position(wpc[w]))
    BY <2>1, <2>2, <2>3, <2>5, GoOnTasks
  <2>6. CASE Decide(w, task[w], Raised) /\ UNCHANGED tried
    <3>1. Raised \in Verdicts /\ Raised # Undecided /\ Raised # Down /\ ~IsAlive(Raised)
      BY VerdictFacts DEF Raised, Verdicts, IsAlive
    <3>2. QED
      BY <2>1, <2>2, <2>6, <3>1, DecideTasks
  <2>7. QED
    BY <1>7, <2>4, <2>5, <2>6 DEF Probe
<1>8. QED
  BY <1>1, <1>2, <1>3, <1>4, <1>5, <1>6, <1>7 DEF Next, WorkerStep

-----------------------------------------------------------------------------
\* A ping that was sent stays so, and so does what was concluded from its
\* reply.
LEMMA SentStands ==
  ASSUME pings \subseteq pings'
  PROVE  /\ \A r : Sent(r, pings) => Sent(r, pings')
         /\ MixedUpByIdentOnly /\ UNCHANGED found => MixedUpByIdentOnly'
<1>1. \A r : Sent(r, pings) => Sent(r, pings')
  BY DEF Sent
<1>2. ASSUME MixedUpByIdentOnly, UNCHANGED found PROVE MixedUpByIdentOnly'
  BY <1>2 DEF MixedUpByIdentOnly
<1>3. QED
  BY <1>1, <1>2

\* What is queued at a socket answers a ping that was sent.
LEMMA DeliverSent ==
  ASSUME TypeOK, Answers, pings \subseteq pings', NEW r \in Replies, Sent(r, pings'), Deliver(r)
  PROVE  \A w \in Workers : \A i \in 1..Len(inbox'[w]) : Sent(inbox'[w][i], pings')
<1> SUFFICES ASSUME NEW w \in Workers, NEW i \in 1..Len(inbox'[w])
             PROVE  Sent(inbox'[w][i], pings')
  OBVIOUS
<1>0. inbox[w] \in Seq(Replies)
  BY DEF TypeOK
<1>1. \A j \in 1..Len(inbox[w]) : Sent(inbox[w][j], pings')
  BY SentStands DEF Answers
<1>2. CASE inbox'[w] = inbox[w]
  BY <1>1, <1>2
<1>3. CASE inbox'[w] = Append(inbox[w], r)
  <2>1. /\ Len(Append(inbox[w], r)) = Len(inbox[w]) + 1 /\ Len(inbox[w]) \in Nat
        /\ \A j \in 1..(Len(inbox[w]) + 1) :
             Append(inbox[w], r)[j] = IF j = Len(inbox[w]) + 1 THEN r ELSE inbox[w][j]
    BY <1>0
  <2>2. QED
    BY <1>1, <1>3, <2>1
<1>4. QED
  BY <1>2, <1>3 DEF Deliver

\* A verdict that names no other host leaves the books on mixed-up replies right.
LEMMA DecideSent ==
  ASSUME TypeOK, Tasks, MixedUpByIdentOnly, pings \subseteq pings', NEW w \in Workers, wpc[w] # "idle",
         NEW v \in Verdicts, Decide(w, task[w], v),
         v.by = "icmp" /\ v.from # task[w] =>
           \E id \in Idents : {[to |-> task[w], ident |-> id], [to |-> v.from, ident |-> id]} \subseteq pings
  PROVE  MixedUpByIdentOnly'
<1>1. \A a \in Addresses : found'[a] = IF a = task[w] THEN v ELSE found[a]
  BY BusyFacts DEF Decide, TypeOK
<1>2. QED
  BY <1>1 DEF MixedUpByIdentOnly

\* Who listens after a decision has listened before, for the same address.
LEMMA DecideListening ==
  ASSUME TypeOK, NEW w \in Workers, NEW a \in Addresses, NEW v, Decide(w, a, v)
  PROVE  \A u \in Workers : wpc'[u] = "listening" => u # w /\ wpc[u] = "listening" /\ task'[u] = task[u]
BY DEF Decide, TypeOK

\* Who listens after a worker has gone on has listened before, for the same
\* address.
LEMMA GoOnListening ==
  ASSUME TypeOK, NEW w \in Workers, NEW a \in Addresses, NEW n \in 0..5, GoOn(w, a, n)
  PROVE  \A u \in Workers : wpc'[u] = "listening" => u # w /\ wpc[u] = "listening" /\ task'[u] = task[u]
<1>1. CASE Decide(w, a, Down)
  BY <1>1, DecideListening
<1>2. CASE NextProbe(n) # None /\ task' = [task EXCEPT ![w] = a]
           /\ wpc' = [wpc EXCEPT ![w] = NextProbe(n)]
  <2>1. NextProbe(n) # "listening"
    BY <1>2, UpToFacts
  <2>2. QED
    BY <1>2, <2>1 DEF TypeOK
<1>3. QED
  BY <1>1, <1>2 DEF GoOn

\* If GoOn ends in a verdict, that is Down.
LEMMA GoOnSent ==
  ASSUME TypeOK, Tasks, MixedUpByIdentOnly, pings \subseteq pings', NEW w \in Workers, wpc[w] # "idle",
         NEW n \in 0..5, GoOn(w, task[w], n)
  PROVE  MixedUpByIdentOnly'
<1>1. CASE Decide(w, task[w], Down)
  <2>1. Down \in Verdicts /\ Down.by # "icmp"
    BY DEF Down, Verdicts
  <2>2. QED
    BY <1>1, <2>1, DecideSent
<1>2. CASE UNCHANGED found
  BY <1>2 DEF MixedUpByIdentOnly
<1>3. QED
  BY <1>1, <1>2 DEF GoOn

\* Every reply answers a ping that was sent, and a verdict by ICMP is by such a
\* reply.
LEMMA AnswersStep ==
  ASSUME TypeOK, Tasks, Answers, [Next]_vars
  PROVE  Answers'
<1>0. \A r \in net : r \in Replies
  BY DEF TypeOK
<1>1. ASSUME pings \subseteq pings', UNCHANGED <<wpc, task, ident, inbox, net, found>>
      PROVE  Answers'
  <2>1. \A r : Sent(r, pings) => Sent(r, pings')
    BY <1>1, SentStands
  <2>2. MixedUpByIdentOnly'
    BY <1>1, SentStands DEF Answers
  <2>4. \A w \in Workers : wpc'[w] = "listening" => Sent(Reply(task'[w], ident'[w]), pings')
    BY <1>1, <2>1 DEF Answers
  <2>5. QED
    BY <1>1, <2>1, <2>2, <2>4 DEF Answers
<1>2. CASE MainStep \/ UNCHANGED vars
  BY <1>1, <1>2 DEF MainStep, Return, Gather, vars
<1>3. ASSUME NEW w \in Workers, SendPing(w) PROVE Answers'
  <2>1. CASE wpc' = [wpc EXCEPT ![w] = "ping"] /\ UNCHANGED <<ident, pings, net>>
    <3>1. UNCHANGED <<task, inbox, found>>
      BY <1>3 DEF SendPing
    <3>2. \A u \in Workers : wpc'[u] = "listening" => wpc[u] = "listening"
      BY <2>1 DEF TypeOK
    <3>3. QED
      BY <2>1, <3>1, <3>2 DEF Answers, Sent, MixedUpByIdentOnly
  <2>2. ASSUME NEW id \in Idents, ident' = [ident EXCEPT ![w] = id],
               pings' = pings \cup {[to |-> task[w], ident |-> id]},
               net' \in {net, net \cup {Reply(task[w], id)}},
               wpc' = [wpc EXCEPT ![w] = "listening"]
        PROVE  Answers'
    <3>1. UNCHANGED <<task, inbox, found>>
      BY <1>3 DEF SendPing
    <3>2. \A r : Sent(r, pings) => Sent(r, pings')
      BY <2>2, SentStands
    <3>3. Sent(Reply(task[w], id), pings')
      BY <2>2 DEF Sent, Reply
    <3>4. \A r \in net' : Sent(r, pings')
      BY <2>2, <3>2, <3>3 DEF Answers
    <3>5. \A u \in Workers : \A i \in 1..Len(inbox'[u]) : Sent(inbox'[u][i], pings')
      BY <3>1, <3>2 DEF Answers
    <3>6. \A u \in Workers : wpc'[u] = "listening" => Sent(Reply(task'[u], ident'[u]), pings')
      <4>1. \A u \in Workers \ {w} : wpc'[u] = wpc[u] /\ ident'[u] = ident[u]
        BY <2>2 DEF TypeOK
      <4>2. ident'[w] = id
        BY <2>2 DEF TypeOK
      <4>3. QED
        BY <3>1, <3>2, <3>3, <4>1, <4>2 DEF Answers
    <3>7. MixedUpByIdentOnly'
      BY <2>2, <3>1, SentStands DEF Answers
    <3>8. QED
      BY <3>4, <3>5, <3>6, <3>7 DEF Answers
  <2>3. QED
    BY <1>3, <2>1, <2>2 DEF SendPing
<1>4. ASSUME NEW w \in Workers, Receive(w) \/ ReceiveTimeout(w) PROVE Answers'
  <2>0. wpc[w] = "listening" /\ UNCHANGED <<net, pings>> /\ task[w] \in Addresses
    BY <1>4, BusyFacts DEF Receive, ReceiveTimeout
  <2>1. \A r : Sent(r, pings') <=> Sent(r, pings)
    BY <2>0 DEF Sent
  <2>2. \A u \in Workers : \A i \in 1..Len(inbox'[u]) : Sent(inbox'[u][i], pings')
    <3>1. CASE CloseSocket(w)
      <4>1. \A u \in Workers \ {w} : inbox'[u] = inbox[u]
        BY <3>1 DEF CloseSocket, TypeOK
      <4>2. inbox'[w] = <<>>
        BY <3>1 DEF CloseSocket, TypeOK
      <4>3. QED
        BY <2>1, <4>1, <4>2 DEF Answers
    <3>2. CASE inbox' = [inbox EXCEPT ![w] = Tail(@)] /\ inbox[w] # <<>>
      <4>1. \A u \in Workers \ {w} : inbox'[u] = inbox[u]
        BY <3>2 DEF TypeOK
      <4>2. inbox'[w] = Tail(inbox[w]) /\ inbox[w] \in Seq(Replies)
        BY <3>2 DEF TypeOK
      <4>3. \A i \in 1..Len(Tail(inbox[w])) :
              i + 1 \in 1..Len(inbox[w]) /\ Tail(inbox[w])[i] = inbox[w][i + 1]
        BY <3>2, <4>2
      <4>4. QED
        BY <2>1, <4>1, <4>2, <4>3 DEF Answers
    <3>3. QED
      BY <1>4, <3>1, <3>2 DEF Receive, ReceiveTimeout
  <2>3. \A u \in Workers : wpc'[u] = "listening" =>
          wpc[u] = "listening" /\ ident'[u] = ident[u] /\ task'[u] = task[u]
    <3>1. CASE CloseSocket(w) /\ \A u \in Workers : wpc'[u] = "listening" =>
                                   u # w /\ wpc[u] = "listening" /\ task'[u] = task[u]
      BY <3>1 DEF CloseSocket, TypeOK
    <3>2. CASE UNCHANGED <<wpc, task, ident>>
      BY <3>2
    <3>3. CASE ReceiveTimeout(w)
      BY <3>3 DEF ReceiveTimeout, CloseSocket, TypeOK
    <3>4. QED
      BY <1>4, <2>0, <3>1, <3>2, <3>3, DecideListening DEF Receive
  <2>4. MixedUpByIdentOnly'
    <3>1. CASE UNCHANGED found
      BY <2>0, <3>1 DEF Answers, MixedUpByIdentOnly
    <3>2. CASE Receive(w) /\ Matches(w, Head(inbox[w]))
               /\ Decide(w, task[w], [by |-> "icmp", from |-> Head(inbox[w]).from])
      <4> DEFINE r == Head(inbox[w])
                 v == [by |-> "icmp", from |-> r.from]
      <4>1. inbox[w] \in Seq(Replies) /\ inbox[w] # <<>>
        BY <3>2 DEF Receive, TypeOK
      <4>2. r \in Replies /\ Sent(r, pings)
        <5>1. 1 \in 1..Len(inbox[w]) /\ r = inbox[w][1] /\ r \in Replies
          BY <4>1
        <5>2. QED
          BY <5>1 DEF Answers
      <4>3. Sent(Reply(task[w], ident[w]), pings) /\ r.ident = ident[w] /\ r.ident \in Idents
        BY <2>0, <3>2, <4>2 DEF Answers, Matches, Replies
      <4>4. {[to |-> task[w], ident |-> r.ident], [to |-> r.from, ident |-> r.ident]} \subseteq pings
        BY <4>2, <4>3 DEF Sent, Reply
      <4>5. v \in Verdicts /\ v.from = r.from /\ Decide(w, task[w], v)
        BY <3>2, <4>2, ChainFacts DEF Verdicts, Replies
      <4> HIDE DEF v, r
      <4>6. QED
        BY <2>0, <4>3, <4>4, <4>5, DecideSent DEF Answers
    <3>3. QED
      BY <1>4, <3>1, <3>2 DEF Receive, ReceiveTimeout
  <2>5. QED
    BY <2>0, <2>1, <2>2, <2>3, <2>4 DEF Answers
<1>5. ASSUME NEW w \in Workers, NEW a \in Addresses, Take(w, a) PROVE Answers'
  <2>1. UNCHANGED <<ident, inbox, net, pings>> /\ GoOn(w, a, 0)
    BY <1>5 DEF Take
  <2>2. UNCHANGED found
    <3>1. NextProbe(0) # None
      BY UpToFacts, EnabledFacts
    <3>2. QED
      BY <2>1, <3>1 DEF GoOn
  <2>3. \A u \in Workers : wpc'[u] = "listening" => wpc[u] = "listening" /\ task'[u] = task[u]
    BY <2>1, GoOnListening
  <2>4. \A r : Sent(r, pings') <=> Sent(r, pings)
    BY <2>1 DEF Sent
  <2>5. MixedUpByIdentOnly'
    BY <2>1, <2>2 DEF Answers, MixedUpByIdentOnly
  <2>6. QED
    BY <2>1, <2>3, <2>4, <2>5 DEF Answers
<1>6. ASSUME NEW w \in Workers, NEW up \in BOOLEAN, PingProgram(w, up) PROVE Answers'
  <2>0. wpc[w] = "ping" /\ UNCHANGED ident /\ task[w] \in Addresses
    BY <1>6, BusyFacts DEF PingProgram
  <2>1. PICK id \in Idents :
          /\ pings' = pings \cup {[to |-> task[w], ident |-> id]}
          /\ \/ /\ up
                /\ Deliver(Reply(task[w], id))
                /\ Decide(w, task[w], [by |-> "icmp", from |-> task[w]])
                /\ UNCHANGED <<net, tried>>
             \/ /\ ~up
                /\ net' \in {net, net \cup {Reply(task[w], id)}}
                /\ GoOn(w, task[w], 1)
                /\ UNCHANGED inbox
    BY <1>6 DEF PingProgram
  <2>2. (\A r : Sent(r, pings) => Sent(r, pings')) /\ pings \subseteq pings'
    BY <2>1, SentStands
  <2>3. Sent(Reply(task[w], id), pings') /\ Reply(task[w], id) \in Replies
    BY <2>0, <2>1 DEF Sent, Reply, Replies
  <2>4. \A r \in net' : Sent(r, pings')
    BY <2>1, <2>2, <2>3 DEF Answers
  <2>5. \A u \in Workers : \A i \in 1..Len(inbox'[u]) : Sent(inbox'[u][i], pings')
    <3>1. CASE Deliver(Reply(task[w], id))
      BY <2>2, <2>3, <3>1, DeliverSent
    <3>2. CASE UNCHANGED inbox
      BY <2>2, <3>2 DEF Answers
    <3>3. QED
      BY <2>1, <3>1, <3>2
  <2>6. \A u \in Workers : wpc'[u] = "listening" => wpc[u] = "listening" /\ task'[u] = task[u]
    BY <2>0, <2>1, DecideListening, GoOnListening
  <2>7. \A u \in Workers : wpc'[u] = "listening" => Sent(Reply(task'[u], ident'[u]), pings')
    BY <2>0, <2>2, <2>6 DEF Answers
  <2>8. MixedUpByIdentOnly'
    <3>1. CASE GoOn(w, task[w], 1)
      BY <2>0, <2>2, <3>1, GoOnSent DEF Answers
    <3>2. CASE Decide(w, task[w], [by |-> "icmp", from |-> task[w]])
      <4> DEFINE v == [by |-> "icmp", from |-> task[w]]
      <4>1. v \in Verdicts /\ v.from = task[w] /\ Decide(w, task[w], v)
        BY <2>0, <3>2, ChainFacts DEF Verdicts
      <4> HIDE DEF v
      <4>2. QED
        BY <2>0, <2>2, <4>1, DecideSent DEF Answers
    <3>3. QED
      BY <2>1, <3>1, <3>2
  <2>9. QED
    BY <2>4, <2>5, <2>7, <2>8 DEF Answers
<1>7. ASSUME NEW w \in Workers, NEW up \in BOOLEAN, Probe(w, up) PROVE Answers'
  <2>1. UNCHANGED <<ident, inbox, net, pings>> /\ wpc[w] \in ToSet(Chain) /\ wpc[w] # "idle"
    BY <1>7, ChainFacts DEF Probe
  <2>2. task[w] \in Addresses
    BY <2>1, BusyFacts
  <2>3. Position(wpc[w]) \in 0..5
    BY <2>1, ChainFacts
  <2>4. \A u \in Workers : wpc'[u] = "listening" => wpc[u] = "listening" /\ task'[u] = task[u]
    BY <1>7, <2>2, <2>3, DecideListening, GoOnListening DEF Probe
  <2>5. \A r : Sent(r, pings') <=> Sent(r, pings)
    BY <2>1 DEF Sent
  <2>6. MixedUpByIdentOnly'
    <3>1. CASE GoOn(w, task[w], Position(wpc[w]))
      BY <2>1, <2>3, <3>1, GoOnSent DEF Answers
    <3>2. CASE Decide(w, task[w], [by |-> wpc[w], from |-> task[w]])
      <4> DEFINE v == [by |-> wpc[w], from |-> task[w]]
      <4>1. v \in Verdicts /\ v.from = task[w] /\ Decide(w, task[w], v)
        BY <2>1, <2>2, <3>2 DEF Verdicts
      <4> HIDE DEF v
      <4>2. QED
        BY <2>1, <4>1, DecideSent DEF Answers
    <3>3. CASE Decide(w, task[w], Raised)
      <4>1. Raised \in Verdicts /\ Raised.by # "icmp"
        BY DEF Raised, Verdicts
      <4>2. QED
        BY <2>1, <3>3, <4>1, DecideSent DEF Answers
    <3>4. QED
      BY <1>7, <3>1, <3>2, <3>3 DEF Probe
  <2>7. QED
    BY <2>1, <2>4, <2>5, <2>6 DEF Answers
<1>8. ASSUME NEW r \in net, Arrive(r) PROVE Answers'
  <2>1. UNCHANGED <<wpc, task, ident, found, pings>> /\ net' = net \ {r} /\ Deliver(r)
    BY <1>8 DEF Arrive
  <2>2. \A x : Sent(x, pings') <=> Sent(x, pings)
    BY <2>1 DEF Sent
  <2>3. Sent(r, pings') /\ r \in Replies
    BY <1>0, <2>2 DEF Answers
  <2>4. \A u \in Workers : \A i \in 1..Len(inbox'[u]) : Sent(inbox'[u][i], pings')
    BY <2>1, <2>3, DeliverSent
  <2>5. MixedUpByIdentOnly'
    BY <2>1 DEF Answers, MixedUpByIdentOnly
  <2>6. QED
    BY <2>1, <2>2, <2>4, <2>5 DEF Answers
<1>9. ASSUME NEW id \in Idents, Stray(id) PROVE Answers'
  <2>1. /\ UNCHANGED <<wpc, task, ident, found, net>> /\ Deliver(Reply(None, id))
        /\ pings' = pings \cup {[to |-> None, ident |-> id]}
    BY <1>9 DEF Stray
  <2>2. (\A x : Sent(x, pings) => Sent(x, pings')) /\ pings \subseteq pings'
    BY <2>1, SentStands
  <2>3. Sent(Reply(None, id), pings') /\ Reply(None, id) \in Replies
    BY <2>1 DEF Sent, Reply, Replies
  <2>4. \A u \in Workers : \A i \in 1..Len(inbox'[u]) : Sent(inbox'[u][i], pings')
    BY <2>1, <2>2, <2>3, DeliverSent
  <2>5. MixedUpByIdentOnly'
    BY <2>1, <2>2 DEF Answers, MixedUpByIdentOnly
  <2>6. \A u \in Workers : wpc'[u] = "listening" => Sent(Reply(task'[u], ident'[u]), pings')
    BY <2>1, <2>2 DEF Answers
  <2>7. \A x \in net' : Sent(x, pings')
    BY <2>1, <2>2 DEF Answers
  <2>8. QED
    BY <2>4, <2>5, <2>6, <2>7 DEF Answers
<1>10. QED
  BY <1>2, <1>3, <1>4, <1>5, <1>6, <1>7, <1>8, <1>9 DEF Next, WorkerStep

-----------------------------------------------------------------------------
\* A step leaves all verdicts alone, or it is a worker's and gives one that was
\* not there.
Decides(a, v) ==
  /\ found[a] = Undecided /\ v # Undecided /\ found' = [found EXCEPT ![a] = v]
  /\ UNCHANGED poolVars

\* A worker that decides gives its address its one verdict.
LEMMA DecideDecides ==
  ASSUME Tasks, NEW w \in Workers, wpc[w] # "idle", NEW v, v # Undecided, Decide(w, task[w], v),
         UNCHANGED poolVars
  PROVE  Decides(task[w], v)
BY DEF Tasks, Decide, Decides

\* A step changes no verdict, or gives one address its first.
LEMMA VerdictOnce ==
  ASSUME TypeOK, Tasks, [Next]_vars
  PROVE  \/ UNCHANGED found
         \/ \E a \in Addresses, v \in Verdicts : Decides(a, v)
<1> DEFINE Goal == UNCHANGED found \/ \E a \in Addresses, v \in Verdicts : Decides(a, v)
<1>1. CASE \/ MainStep \/ (\E r \in net : Arrive(r)) \/ (\E id \in Idents : Stray(id))
           \/ UNCHANGED vars
  BY <1>1 DEF MainStep, Return, Gather, Arrive, Stray, vars
<1>2. ASSUME NEW w \in Workers, WorkerStep(w), ~UNCHANGED found PROVE Goal
  <2>0. UNCHANGED poolVars
    BY <1>2 DEF WorkerStep, SendPing, Receive, ReceiveTimeout, Take, PingProgram, Probe
  <2>1. ASSUME NEW v \in Verdicts, v # Undecided, wpc[w] # "idle", Decide(w, task[w], v) PROVE Goal
    BY <2>0, <2>1, DecideDecides, BusyFacts
  <2>2. Down \in Verdicts /\ Raised \in Verdicts /\ Down # Undecided /\ Raised # Undecided
    BY VerdictFacts DEF Down, Raised, Verdicts
  <2>3. ASSUME NEW p \in ToSet(Chain), NEW x \in Addresses \cup {None}
        PROVE  [by |-> p, from |-> x] \in Verdicts /\ [by |-> p, from |-> x] # Undecided
    BY ChainFacts DEF Verdicts, Undecided, None
  <2>4. CASE SendPing(w) \/ ReceiveTimeout(w)
    BY <1>2, <2>4 DEF SendPing, ReceiveTimeout
  <2>5. CASE Receive(w)
    <3>1. wpc[w] # "idle" /\ Head(inbox[w]).from \in Addresses \cup {None} /\ "icmp" \in ToSet(Chain)
      <4>1. inbox[w] \in Seq(Replies) /\ inbox[w] # <<>> /\ wpc[w] = "listening"
        BY <2>5 DEF Receive, TypeOK
      <4>2. Head(inbox[w]) \in Replies
        BY <4>1
      <4>3. QED
        BY <4>1, <4>2, ChainFacts DEF Replies
    <3>2. Decide(w, task[w], [by |-> "icmp", from |-> Head(inbox[w]).from])
      BY <1>2, <2>5 DEF Receive
    <3>3. QED
      BY <2>1, <2>3, <3>1, <3>2
  <2>6. ASSUME NEW a \in Addresses, Take(w, a) PROVE Goal
    <3>1. NextProbe(0) # None
      BY UpToFacts, EnabledFacts
    <3>2. QED
      BY <1>2, <2>6, <3>1 DEF Take, GoOn
  <2>7. ASSUME NEW up \in BOOLEAN, PingProgram(w, up) PROVE Goal
    <3>1. wpc[w] # "idle" /\ task[w] \in Addresses /\ "icmp" \in ToSet(Chain)
      BY <2>7, BusyFacts, ChainFacts DEF PingProgram
    <3>2. Decide(w, task[w], [by |-> "icmp", from |-> task[w]]) \/ Decide(w, task[w], Down)
      BY <1>2, <2>7 DEF PingProgram, GoOn
    <3>3. QED
      BY <2>1, <2>2, <2>3, <3>1, <3>2
  <2>8. ASSUME NEW up \in BOOLEAN, Probe(w, up) PROVE Goal
    <3>1. wpc[w] # "idle" /\ task[w] \in Addresses /\ wpc[w] \in ToSet(Chain)
      BY <2>8, BusyFacts, ChainFacts DEF Probe
    <3>2. \/ Decide(w, task[w], [by |-> wpc[w], from |-> task[w]])
          \/ Decide(w, task[w], Down) \/ Decide(w, task[w], Raised)
      BY <1>2, <2>8 DEF Probe, GoOn
    <3>3. QED
      BY <2>1, <2>2, <2>3, <3>1, <3>2
  <2>9. QED
    BY <1>2, <2>4, <2>5, <2>6, <2>7, <2>8 DEF WorkerStep
<1>3. QED
  BY <1>1, <1>2 DEF Next

\* The list that is returned has the hosts found alive, each once.
LEMMA ReducedFacts ==
  ASSUME TypeOK, Gathering, gathered = Addresses, ~over
  PROVE  Reduced \in SetToSeqs({a \in Addresses : IsAlive(found[a])})
<1> DEFINE S == {a \in Addresses : IsAlive(found[a])}
           q == Reduced
           n == Len(q)
<1>1. hosts \in Seq(Addresses) /\ \A i, j \in 1..Len(hosts) : hosts[i] = hosts[j] => i = j
  BY LenProperties DEF TypeOK, Gathering
<1>2. S \subseteq ToSet(hosts)
  BY DEF Gathering, IsAlive
<1>3. ToSet(q) = S
  <2>1. ToSet(Kept(hosts, S)) = ToSet(hosts) \cap S
    BY <1>1, KeptElements
  <2>2. QED
    BY <1>2, <2>1 DEF Reduced
<1>4. q \in Seq(Addresses)
  BY <1>1, KeptType DEF Reduced
<1>5. \A i, j \in 1..n : q[i] = q[j] => i = j
  <2> HIDE DEF S
  <2>1. \A i, j \in 1..Len(Kept(hosts, S)) : Kept(hosts, S)[i] = Kept(hosts, S)[j] => i = j
    BY <1>1, KeptDistinct
  <2>2. QED
    BY <2>1 DEF Reduced, S
<1> HIDE DEF S, q
<1>6. n \in Nat /\ DOMAIN q = 1..n /\ q = [i \in 1..n |-> q[i]]
  BY <1>4, LenProperties
<1>7. \A i \in 1..n : q[i] \in S
  BY <1>3, <1>6 DEF ToSet
<1>8. q \in [1..n -> S]
  BY <1>6, <1>7
<1>9. Cardinality(S) = n
  <2>1. q \in Injection(1..n, S)
    BY <1>5, <1>8 DEF Injection, IsInjective
  <2>2. \A x \in S : \E i \in 1..n : q[i] = x
    BY <1>3, <1>6 DEF ToSet
  <2>3. q \in Surjection(1..n, S)
    BY <1>8, <2>2 DEF Surjection
  <2>4. ExistsBijection(1..n, S)
    BY <2>1, <2>3 DEF ExistsBijection, Bijection
  <2>5. IsFiniteSet(1..n) /\ Cardinality(1..n) = n
    <3>1. 1..n = {} <=> 1 > n
      BY <1>6
    <3>2. QED
      BY <1>6, <3>1, FS_Interval
  <2>6. IsFiniteSet(S) /\ Cardinality(S) = Cardinality(1..n)
    BY ONLY <2>4, <2>5, FS_Bijection, SMTT(30)
  <2>7. QED
    BY <2>5, <2>6
<1>10. \A i, j \in 1..Cardinality(S) : i # j => q[i] # q[j]
  BY <1>5, <1>9
<1>11. q \in SetToSeqs(S)
  BY <1>8, <1>9, <1>10 DEF SetToSeqs
<1>12. QED
  BY <1>11 DEF S, q

\* Every step keeps the list to what was gathered, each address once.
LEMMA GatheringStep ==
  ASSUME TypeOK, Tasks, Gathering, [Next]_vars
  PROVE  Gathering'
<1>1. \A a \in Addresses : found[a] # Undecided => found'[a] = found[a]
  <2>1. ASSUME NEW b \in Addresses, NEW v \in Verdicts, Decides(b, v)
        PROVE  \A a \in Addresses : found[a] # Undecided => found'[a] = found[a]
    BY <2>1 DEF Decides, TypeOK
  <2>2. QED
    BY <2>1, VerdictOnce
<1>2. gathered \subseteq Addresses
  BY DEF TypeOK
<1>3. CASE UNCHANGED poolVars
  <2>1. UNCHANGED <<gathered, hosts, over>>
    BY <1>3 DEF poolVars
  <2>2. \A a \in gathered : found'[a] = found[a]
    BY <1>1, <1>2 DEF Gathering
  <2>3. {a \in gathered' : found'[a] # Raised} = {a \in gathered : found[a] # Raised}
    BY <2>1, <2>2
  <2>4. QED
    BY <2>1, <2>2, <2>3 DEF Gathering
<1>4. ASSUME NEW a \in Addresses, Gather(a) PROVE Gathering'
  <2>1. /\ found[a] # Undecided /\ a \notin gathered /\ ~over
        /\ gathered' = gathered \cup {a} /\ UNCHANGED <<found, over>>
        /\ hosts' = IF found[a] = Raised THEN hosts ELSE Append(hosts, a)
    BY <1>4 DEF Gather, Finished
  <2>2. hosts \in Seq(Addresses) /\ DOMAIN hosts = 1..Len(hosts) /\ Len(hosts) \in Nat
    BY LenProperties DEF TypeOK
  <2>3. a \notin ToSet(hosts)
    BY <2>1 DEF Gathering
  <2>4. CASE found[a] = Raised
    BY <2>1, <2>4 DEF Gathering
  <2>5. CASE found[a] # Raised
    <3>1. hosts' = Append(hosts, a)
      BY <2>1, <2>5
    <3>2. /\ Len(hosts') = Len(hosts) + 1 /\ DOMAIN hosts' = 1..(Len(hosts) + 1)
          /\ \A i \in 1..Len(hosts) : hosts'[i] = hosts[i]
          /\ hosts'[Len(hosts) + 1] = a
      BY <2>2, <3>1
    <3>3. \A i \in 1..Len(hosts) : hosts[i] # a
      BY <2>2, <2>3 DEF ToSet
    <3>4. \A i, j \in 1..Len(hosts') : hosts'[i] = hosts'[j] => i = j
      <4>1. ASSUME NEW i \in 1..Len(hosts'), NEW j \in 1..Len(hosts'), hosts'[i] = hosts'[j]
            PROVE  i = j
        <5>1. i \in 1..Len(hosts) \/ i = Len(hosts) + 1
          BY <2>2, <3>2
        <5>2. j \in 1..Len(hosts) \/ j = Len(hosts) + 1
          BY <2>2, <3>2
        <5>3. QED
          BY <3>2, <3>3, <4>1, <5>1, <5>2 DEF Gathering
      <4>2. QED
        BY <4>1
    <3>5. ToSet(hosts') = ToSet(hosts) \cup {a}
      <4>1. \A i \in DOMAIN hosts' : i \in DOMAIN hosts \/ i = Len(hosts) + 1
        BY <2>2, <3>2
      <4>2. Len(hosts) + 1 \in DOMAIN hosts' /\ DOMAIN hosts \subseteq DOMAIN hosts'
        BY <2>2, <3>2
      <4>3. QED
        BY <2>2, <3>2, <4>1, <4>2 DEF ToSet
    <3>6. {b \in gathered' : found'[b] # Raised} = {b \in gathered : found[b] # Raised} \cup {a}
      BY <2>1, <2>5
    <3>7. QED
      BY <2>1, <3>4, <3>5, <3>6 DEF Gathering
  <2>6. QED
    BY <2>4, <2>5
<1>5. CASE Return
  <2> DEFINE S == {a \in Addresses : IsAlive(found[a])}
  <2>1. ~over /\ gathered = Addresses /\ over' = TRUE /\ hosts' = Reduced
        /\ UNCHANGED <<found, gathered>>
    BY <1>5 DEF Return
  <2>2. hosts' \in SetToSeqs(S)
    BY <2>1, ReducedFacts
  <2> HIDE DEF S
  <2>3. TypeOK'
    BY TypesStep
  <2>4. DOMAIN hosts' = 1..Len(hosts')
    BY <2>3, LenProperties DEF TypeOK
  <2>5. DOMAIN hosts' = 1..Cardinality(S)
        /\ \A i, j \in 1..Cardinality(S) : i # j => hosts'[i] # hosts'[j]
    BY <2>2 DEF SetToSeqs
  <2>6. QED
    BY <2>1, <2>4, <2>5 DEF Gathering
<1>6. CASE (Next /\ ~MainStep) \/ UNCHANGED vars
  <2>1. UNCHANGED poolVars
    BY <1>6 DEF Next, WorkerStep, SendPing, Receive, ReceiveTimeout, Take, PingProgram, Probe,
         Arrive, Stray, vars, poolVars
  <2>2. QED
    BY <1>3, <2>1
<1>7. QED
  BY <1>4, <1>5, <1>6 DEF Next, MainStep

-----------------------------------------------------------------------------
\* Discovery begins in the inductive invariant.
LEMMA InitInv == Init => IInv
<1> SUFFICES ASSUME Init PROVE IInv
  OBVIOUS
<1>1. TypeOK
  BY TypesInit
<1>2. Tasks
  BY DEF Init, Tasks
<1>3. ChainIsFollowed /\ MixedUpByIdentOnly
  BY VerdictFacts DEF Init, ChainIsFollowed, MixedUpByIdentOnly, IsAlive, None
<1>4. Answers
  <2>1. \A w \in Workers : inbox[w] = <<>> /\ wpc[w] # "listening"
    BY DEF Init
  <2>2. QED
    BY <1>3, <2>1 DEF Init, Answers
<1>5. Gathering
  BY DEF Init, Gathering, ToSet
<1>6. QED
  BY <1>1, <1>2, <1>3, <1>4, <1>5 DEF IInv

\* Every step keeps it.
LEMMA StepInv == IInv /\ [Next]_vars => IInv'
BY TypesStep, TasksStep, AnswersStep, GatheringStep DEF IInv

\* The inductive invariant holds throughout the discovery, for every set of
\* addresses, number of workers and width of identifiers.
THEOREM Invariance == Spec => []IInv
BY InitInv, StepInv, PTL DEF Spec

\* The variables keep their types: what the workers are at, the sockets'
\* queues, the verdicts.
THEOREM TypeCorrect == Spec => []TypeOK
BY Invariance, PTL DEF IInv

\* A host is taken for alive on another's reply only if the two were pinged
\* with the same identifier (icmp_ping, _parse_icmp_reply).
THEOREM MixedUpByIdentOnlyAlways == Spec => []MixedUpByIdentOnly
BY Invariance, PTL DEF IInv, Answers

\* A host is called down only after every probe asked for, and no probe follows
\* the one that was answered (discover_host).
THEOREM ChainIsFollowedAlways == Spec => []ChainIsFollowed
BY Invariance, PTL DEF IInv

-----------------------------------------------------------------------------
\* The step of OwnReplyHeard.
HeardInTime == \A w \in Workers :
  /\ wpc[w] = "listening" /\ wpc'[w] # "listening"
  /\ Reply(task[w], ident[w]) \in ToSet(inbox[w])
  => found'[task[w]].by = "icmp"

\* A ping whose own reply is in its socket's queue ends with "alive".
LEMMA HeardStep == TypeOK /\ Tasks /\ [Next]_vars => [HeardInTime]_vars
<1> SUFFICES ASSUME TypeOK, Tasks, Next, NEW w \in Workers,
                    wpc[w] = "listening", wpc'[w] # "listening",
                    Reply(task[w], ident[w]) \in ToSet(inbox[w])
             PROVE  found'[task[w]].by = "icmp"
  BY DEF HeardInTime
<1>1. task[w] \in Addresses
  BY BusyFacts
<1>2. CASE MainStep \/ (\E r \in net : Arrive(r)) \/ \E id \in Idents : Stray(id)
  BY <1>2 DEF MainStep, Return, Gather, Arrive, Stray
<1>3. ASSUME NEW u \in Workers, WorkerStep(u) PROVE u = w
  <2>1. \/ wpc' = [wpc EXCEPT ![u] = "listening"] \/ wpc' = [wpc EXCEPT ![u] = "ping"]
        \/ wpc' = [wpc EXCEPT ![u] = "idle"] \/ \E n : wpc' = [wpc EXCEPT ![u] = NextProbe(n)]
        \/ wpc' = wpc
    BY <1>3 DEF WorkerStep, SendPing, Receive, ReceiveTimeout, Take, PingProgram, Probe, Decide, GoOn
  <2>2. QED
    BY <2>1 DEF TypeOK
<1>4. CASE WorkerStep(w)
  <2>1. inbox[w] # <<>>
    BY DEF ToSet
  <2>2. Receive(w)
    BY <1>4, <2>1, ChainFacts DEF WorkerStep, SendPing, ReceiveTimeout, Take, PingProgram, Probe
  <2>3. Decide(w, task[w], [by |-> "icmp", from |-> Head(inbox[w]).from])
    BY <2>2 DEF Receive
  <2>4. QED
    BY <1>1, <2>3 DEF Decide, TypeOK
<1>5. QED
  BY <1>2, <1>3, <1>4 DEF Next

\* Packets of other pings never use up the one wait of a ping whose own reply
\* has come in (icmp_ping).
THEOREM OwnReplyIsHeard == Spec => OwnReplyHeard
BY Invariance, HeardStep, PTL DEF Spec, OwnReplyHeard, HeardInTime, IInv

-----------------------------------------------------------------------------
\* What AlivePromise calls the verdicts.
LEMMA VerdictNames ==
  ASSUME NEW v
  PROVE  /\ Verdict(v) = "undecided" <=> v = Undecided
         /\ Verdict(v) = "alive" <=> IsAlive(v)
         /\ Verdict(v) \in {"undecided", "down", "raised", "alive"}
BY VerdictFacts DEF Verdict, IsAlive

\* Every step of the discovery is a step of the promise or none: a verdict
\* decides, the end of the loop hands over, everything else is silent.
LEMMA PromiseStep == IInv /\ [Next]_vars => [Alive!Next]_Alive!vars
<1> SUFFICES ASSUME IInv, [Next]_vars PROVE [Alive!Next]_Alive!vars
  OBVIOUS
<1> DEFINE verdict == [a \in Addresses |-> Verdict(found[a])]
           list == IF over THEN hosts ELSE <<>>
<1>0. TypeOK /\ Tasks /\ Gathering
  BY DEF IInv
<1>1. ASSUME NEW a \in Addresses, NEW v \in Verdicts, Decides(a, v)
      PROVE  Alive!Decide(a)
  <2>1. UNCHANGED list /\ UNCHANGED over
    BY <1>1 DEF Decides, poolVars
  <2>2. verdict[a] = "undecided" /\ Verdict(v) \in {"alive", "down", "raised"}
    BY <1>1, VerdictNames DEF Decides
  <2>3. verdict' = [verdict EXCEPT ![a] = Verdict(v)]
    <3>1. \A b \in Addresses : found'[b] = IF b = a THEN v ELSE found[b]
      BY <1>0, <1>1 DEF Decides, TypeOK
    <3>2. QED
      BY <3>1
  <2>4. QED
    BY <2>1, <2>2, <2>3 DEF Alive!Decide
<1>2. CASE UNCHANGED found /\ UNCHANGED over
  <2>1. UNCHANGED list
    <3>1. CASE over
      BY <1>0, <1>2, <3>1 DEF Next, MainStep, Return, Gather, WorkerStep, SendPing, Receive,
           ReceiveTimeout, Take, PingProgram, Probe, Arrive, Stray, vars, poolVars
    <3>2. CASE ~over
      BY <1>2, <3>2
    <3>3. QED
      BY <3>1, <3>2
  <2>2. QED
    BY <1>2, <2>1 DEF Alive!vars
<1>3. CASE Return
  <2>1. ~over /\ gathered = Addresses /\ over' = TRUE /\ hosts' = Reduced /\ UNCHANGED found
    BY <1>3 DEF Return
  <2>2. hosts' \in SetToSeqs({a \in Addresses : IsAlive(found[a])})
    BY <1>0, <2>1, ReducedFacts
  <2>3. {a \in Addresses : IsAlive(found[a])} = {a \in Addresses : verdict[a] = "alive"}
    BY VerdictNames
  <2>4. \A a \in Addresses : verdict[a] # "undecided"
    BY <1>0, <2>1, VerdictNames DEF Gathering
  <2>5. Alive!HandOver
    <3>1. list' = hosts' /\ UNCHANGED verdict
      BY <2>1
    <3>2. hosts' \in SetToSeqs({a \in Addresses : verdict[a] = "alive"})
      BY <2>2, <2>3
    <3>3. list' \in SetToSeqs({a \in Addresses : verdict[a] = "alive"})
      BY <3>1, <3>2
    <3> HIDE DEF verdict, list
    <3>4. ASSUME NEW S PROVE Alive!SetToSeqs(S) = SetToSeqs(S)
      BY DEF Alive!SetToSeqs, SetToSeqs, Alive!Cardinality, Cardinality
    <3>5. list' \in Alive!SetToSeqs({a \in Addresses : verdict[a] = "alive"})
      BY <3>3, <3>4
    <3>6. QED
      BY <2>1, <2>4, <3>1, <3>5 DEF Alive!HandOver, verdict, list
  <2>6. QED
    BY <2>5 DEF Alive!Next
<1>4. CASE ~Return /\ UNCHANGED found
  <2>1. UNCHANGED over
    BY <1>4 DEF Next, MainStep, Gather, WorkerStep, SendPing, Receive,
         ReceiveTimeout, Take, PingProgram, Probe, Arrive, Stray, vars, poolVars
  <2>2. QED
    BY <1>2, <1>4, <2>1
<1>5. QED
  BY <1>0, <1>1, <1>3, <1>4, VerdictOnce DEF Alive!Next

\* A discovery begins as the promise does.
LEMMA InitImplements == Init => Alive!Init
<1> SUFFICES ASSUME Init PROVE Alive!Init
  OBVIOUS
<1>1. \A a \in Addresses : Verdict(found[a]) = "undecided"
  BY VerdictNames DEF Init
<1>2. QED
  BY <1>1 DEF Init, Alive!Init

\* Host discovery implements AlivePromise: one verdict per address, and the
\* list that is handed over has exactly the hosts found alive, each once.
THEOREM Implements == Spec => AliveSpec
BY InitImplements, PromiseStep, Invariance, PTL DEF Spec, AliveSpec, Alive!Spec

-----------------------------------------------------------------------------

\* The packets the reader holds were on their way when its host was asked.
Packeted == waiting =>
  /\ over /\ read < Len(hosts)
  /\ net \subseteq flying[Host]
  /\ \A i \in 1..Len(packets) : packets[i].from # None => packets[i] \in flying[Host]

\* The reader goes through the list that discovery has handed over.
Reading ==
  /\ read \in 0..Len(hosts) /\ waiting \in BOOLEAN /\ packets \in Seq(Replies)
  /\ ttl \in [Addresses -> Replies \cup {Unread, NoTtl}]
  /\ flying \in [Addresses -> SUBSET Replies]
  /\ ~over => read = 0
  /\ ~waiting => packets = <<>>
  /\ \A i \in 1..Len(hosts) : i > read => ttl[hosts[i]] = Unread
  /\ ~over => ttl = [a \in Addresses |-> Unread]

ReaderInv == IInv /\ Reading /\ Packeted /\ TtlIsFresh

\* The host that is asked is one of the list.
LEMMA HostIsListed ==
  ASSUME TypeOK, read \in 0..Len(hosts), read < Len(hosts)
  PROVE  Host \in Addresses /\ read + 1 \in 1..Len(hosts) /\ Len(hosts) \in Nat
BY DEF TypeOK, Host

\* Once the list is handed over the workers have nothing left to do.
LEMMA OverMeansIdle ==
  ASSUME IInv, over
  PROVE  queue = {} /\ \A w \in Workers : wpc[w] = "idle"
<1>1. \A a \in Addresses : found[a] # Undecided
  BY DEF IInv, Gathering
<1>2. queue = {}
  BY <1>1 DEF IInv, Tasks, TypeOK
<1>3. \A w \in Workers : task[w] = None
  BY <1>1 DEF IInv, Tasks, TypeOK
<1>4. QED
  BY <1>2, <1>3 DEF IInv, Tasks

\* Once the list is handed over discovery does nothing any more.
LEMMA OverMeansStill ==
  ASSUME IInv, over
  PROVE  ~MainStep /\ \A w \in Workers : ~WorkerStep(w)
<1>1. ~MainStep
  BY DEF MainStep, Return, Gather
<1>2. ASSUME NEW w \in Workers, WorkerStep(w) PROVE FALSE
  BY <1>2, OverMeansIdle, ChainFacts
     DEF WorkerStep, SendPing, Receive, ReceiveTimeout, Take, PingProgram, Probe
<1>3. QED
  BY <1>1, <1>2

\* What a step of the reader is to the discovery.
LEMMA ReaderSteps ==
  ASSUME [ReaderNext]_allVars
  PROVE  [Next]_vars \/ AskTtl
BY DEF ReaderNext, ReaderStep, TakeTtl, TtlTimeout, allVars, Next

\* Asking a host for its TTL keeps discovery's invariant: another ping is sent.
LEMMA AskKeeps ==
  ASSUME IInv, Reading, AskTtl
  PROVE  IInv'
<1>1. UNCHANGED <<queue, wpc, task, ident, inbox, strays, found, gathered, hosts, over, tried>>
  BY DEF AskTtl, poolVars
<1>2. Host \in Addresses /\ FixedIdent \in Idents
  BY HostIsListed, FixedIdentAssumption DEF AskTtl, IInv, Reading, FixedIdentAssumption
<1>3. Reply(Host, FixedIdent) \in Replies
      /\ [to |-> Host, ident |-> FixedIdent] \in Requests
  BY <1>2 DEF Reply, Replies, Requests
<1>4. /\ pings \subseteq pings' /\ pings' \subseteq Requests
      /\ net' = net \/ /\ net' = net \cup {Reply(Host, FixedIdent)}
                       /\ [to |-> Host, ident |-> FixedIdent] \in pings'
  BY <1>3 DEF AskTtl, IInv, TypeOK
<1>5. TypeOK'
  BY <1>1, <1>3, <1>4 DEF IInv, TypeOK
<1>6. Tasks' /\ ChainIsFollowed' /\ Gathering'
  BY <1>1 DEF IInv, Tasks, ChainIsFollowed, Gathering
<1>7. Answers'
  <2>1. \A r : Sent(r, pings) => Sent(r, pings')
    BY <1>4, SentStands
  <2>2. Sent(Reply(Host, FixedIdent), pings') \/ net' = net
    BY <1>4 DEF Sent, Reply
  <2>3. MixedUpByIdentOnly'
    BY <1>1, <1>4, SentStands DEF IInv, Answers
  <2>4. \A r \in net' : Sent(r, pings')
    BY <1>4, <2>1, <2>2 DEF IInv, Answers
  <2>5. QED
    BY <1>1, <2>1, <2>3, <2>4 DEF IInv, Answers
<1>8. QED
  BY <1>5, <1>6, <1>7 DEF IInv

\* Taking a reply as the host's keeps the TTLs fresh, if the reply was on its
\* way when the host was asked.
LEMMA LearnFresh ==
  ASSUME IInv, Reading, read < Len(hosts), TtlIsFresh, NEW r \in Replies \cup {NoTtl}, Learn(r),
         over, UNCHANGED <<hosts, over, flying>>,
         r.from \notin {Host, None} => r \in flying[Host]
  PROVE  /\ read' \in 0..Len(hosts') /\ waiting' = FALSE
         /\ ttl' \in [Addresses -> Replies \cup {Unread, NoTtl}]
         /\ \A i \in 1..Len(hosts') : i > read' => ttl'[hosts'[i]] = Unread
         /\ TtlIsFresh'
<1>1. /\ Host \in Addresses /\ read + 1 \in 1..Len(hosts) /\ Len(hosts) \in Nat
      /\ hosts \in Seq(Addresses)
  BY HostIsListed DEF IInv, Reading, TypeOK
<1>2. ttl' = [ttl EXCEPT ![Host] = r] /\ read' = read + 1 /\ waiting' = FALSE
  BY DEF Learn
<1>3. \A a \in Addresses : ttl'[a] = IF a = Host THEN r ELSE ttl[a]
  BY <1>1, <1>2 DEF Reading
<1>4. ttl' \in [Addresses -> Replies \cup {Unread, NoTtl}]
  BY <1>2 DEF Reading
<1>5. ASSUME NEW i \in 1..Len(hosts), i > read' PROVE ttl'[hosts[i]] = Unread
  <2>1. hosts[i] # hosts[read + 1] /\ i > read /\ hosts[i] \in Addresses
    BY <1>1, <1>2, <1>5 DEF IInv, Gathering, Reading
  <2>2. QED
    BY <1>3, <2>1 DEF Reading, Host
<1>6. TtlIsFresh'
  BY <1>3 DEF TtlIsFresh
<1>7. QED
  BY <1>1, <1>2, <1>4, <1>5, <1>6 DEF Reading

\* Every step keeps the reader's part of the invariant.
LEMMA ReadingStep ==
  ASSUME ReaderInv, [ReaderNext]_allVars, IInv'
  PROVE  Reading' /\ Packeted' /\ TtlIsFresh'
<1>0. IInv /\ TypeOK /\ Reading /\ Packeted /\ TtlIsFresh /\ TypeOK'
  BY DEF ReaderInv, IInv
<1>1. CASE AskTtl
  <2>0. /\ over /\ read < Len(hosts) /\ ~waiting /\ UNCHANGED <<hosts, over, packets>>
        /\ Host \in Addresses /\ Len(hosts) \in Nat /\ packets = <<>>
    BY <1>0, <1>1, HostIsListed DEF AskTtl, poolVars, Reading
  <2>1. CASE /\ waiting' = TRUE /\ flying' = [flying EXCEPT ![Host] = net'] /\ UNCHANGED <<read, ttl>>
    <3>1. flying' \in [Addresses -> SUBSET Replies] /\ flying'[Host] = net'
      BY <1>0, <2>0, <2>1 DEF Reading, TypeOK
    <3>2. Host' = Host
      BY <2>0, <2>1 DEF Host
    <3>3. ttl[Host] = Unread
      BY <1>0, <2>0, HostIsListed DEF Reading, Host
    <3>4. TtlIsFresh'
      <4>1. \A a \in Addresses \ {Host} : flying'[a] = flying[a]
        BY <1>0, <2>1 DEF Reading
      <4>2. ttl'[Host].from = None
        BY <2>1, <3>3 DEF Unread
      <4>3. QED
        BY <1>0, <2>1, <4>1, <4>2 DEF TtlIsFresh
    <3>5. Packeted'
      BY <2>0, <2>1, <3>1, <3>2 DEF Packeted
    <3>6. Reading'
      BY <1>0, <2>0, <2>1, <3>1 DEF Reading
    <3>7. QED
      BY <3>4, <3>5, <3>6
  <2>2. CASE Learn(NoTtl) /\ UNCHANGED <<pings, net, flying>>
    <3>1. NoTtl.from = None
      BY DEF NoTtl
    <3>2. /\ read' \in 0..Len(hosts') /\ waiting' = FALSE
          /\ ttl' \in [Addresses -> Replies \cup {Unread, NoTtl}]
          /\ \A i \in 1..Len(hosts') : i > read' => ttl'[hosts'[i]] = Unread
          /\ TtlIsFresh'
      BY <1>0, <2>0, <2>2, <3>1, LearnFresh
    <3>3. QED
      BY <1>0, <2>0, <2>2, <3>2 DEF Reading, Packeted
  <2>3. QED
    BY <1>1, <2>1, <2>2 DEF AskTtl
<1>2. CASE TakeTtl
  <2>1. /\ waiting /\ packets # <<>> /\ Learn(Head(packets)) /\ packets' = <<>>
        /\ UNCHANGED <<hosts, over, flying>> /\ over /\ read < Len(hosts)
    BY <1>0, <1>2 DEF TakeTtl, vars, poolVars, Closed, Packeted
  <2>2. Head(packets) \in Replies /\ (Head(packets).from # None => Head(packets) \in flying[Host])
    <3>1. packets \in Seq(Replies)
      BY <1>0 DEF Reading
    <3>2. Head(packets) = packets[1] /\ 1 \in 1..Len(packets) /\ Head(packets) \in Replies
      BY <2>1, <3>1
    <3>3. QED
      BY <1>0, <2>1, <3>2 DEF Packeted
  <2>3. /\ read' \in 0..Len(hosts') /\ waiting' = FALSE
        /\ ttl' \in [Addresses -> Replies \cup {Unread, NoTtl}]
        /\ \A i \in 1..Len(hosts') : i > read' => ttl'[hosts'[i]] = Unread
        /\ TtlIsFresh'
    BY <1>0, <2>1, <2>2, LearnFresh
  <2>4. <<>> \in Seq(Replies)
    BY EmptySeq
  <2>5. QED
    BY <1>0, <2>1, <2>3, <2>4 DEF Reading, Packeted
<1>3. CASE TtlTimeout
  <2>1. /\ waiting /\ packets = <<>> /\ Learn(NoTtl) /\ UNCHANGED packets
        /\ UNCHANGED <<hosts, over, flying>> /\ over /\ read < Len(hosts)
    BY <1>0, <1>3 DEF TtlTimeout, vars, poolVars, Packeted
  <2>2. NoTtl.from = None
    BY DEF NoTtl
  <2>3. /\ read' \in 0..Len(hosts') /\ waiting' = FALSE
        /\ ttl' \in [Addresses -> Replies \cup {Unread, NoTtl}]
        /\ \A i \in 1..Len(hosts') : i > read' => ttl'[hosts'[i]] = Unread
        /\ TtlIsFresh'
    BY <1>0, <2>1, <2>2, LearnFresh
  <2>4. QED
    BY <1>0, <2>1, <2>3 DEF Reading, Packeted
<1>4. CASE (MainStep \/ \E w \in Workers : WorkerStep(w)) /\ UNCHANGED readerVars
  <2>1. ~over
    BY <1>0, <1>4, OverMeansStill
  <2>2. ~waiting /\ read = 0 /\ ttl = [a \in Addresses |-> Unread]
    BY <1>0, <2>1 DEF Packeted, Reading
  <2>3. UNCHANGED <<read, waiting, packets, ttl, flying>>
    BY <1>4 DEF readerVars
  <2>4. Len(hosts') \in Nat /\ \A i \in 1..Len(hosts') : hosts'[i] \in Addresses
    BY <1>0 DEF TypeOK
  <2>5. QED
    BY <1>0, <2>2, <2>3, <2>4 DEF Reading, Packeted, TtlIsFresh
<1>5. ASSUME NEW r \in Replies, Hear(r), net' \subseteq net, UNCHANGED <<hosts, over>>,
             r.from = None \/ r \in net
      PROVE  Reading' /\ Packeted' /\ TtlIsFresh'
  <2>1. UNCHANGED <<read, waiting, ttl, flying>>
        /\ packets' = IF waiting THEN Append(packets, r) ELSE packets
    BY <1>5 DEF Hear
  <2>2. TtlIsFresh'
    BY <1>0, <2>1 DEF TtlIsFresh
  <2>3. packets \in Seq(Replies) /\ Append(packets, r) \in Seq(Replies)
    BY <1>0 DEF Reading
  <2>4. Reading'
    BY <1>0, <1>5, <2>1, <2>3 DEF Reading
  <2>5. Packeted'
    <3>1. SUFFICES ASSUME waiting PROVE Packeted'
      BY <2>1 DEF Packeted
    <3>2. Host' = Host
      BY <1>5, <2>1 DEF Host
    <3>3. r.from # None => r \in flying[Host]
      BY <1>0, <1>5, <3>1 DEF Packeted
    <3>4. /\ Len(packets') = Len(packets) + 1 /\ Len(packets) \in Nat
          /\ \A i \in 1..(Len(packets) + 1) :
               packets'[i] = IF i = Len(packets) + 1 THEN r ELSE packets[i]
      BY <2>1, <2>3, <3>1
    <3>5. \A i \in 1..Len(packets') : packets'[i].from # None => packets'[i] \in flying[Host]
      BY <1>0, <3>1, <3>3, <3>4 DEF Packeted
    <3>6. QED
      BY <1>0, <1>5, <2>1, <3>1, <3>2, <3>5 DEF Packeted
  <2>6. QED
    BY <2>2, <2>4, <2>5
<1>6. ASSUME NEW r \in net, Arrive(r), Hear(r) PROVE Reading' /\ Packeted' /\ TtlIsFresh'
  <2>1. r \in Replies /\ net' \subseteq net /\ UNCHANGED <<hosts, over>>
    BY <1>0, <1>6 DEF TypeOK, Arrive, poolVars
  <2>2. QED
    BY <1>5, <1>6, <2>1
<1>7. ASSUME NEW id \in Idents, Stray(id), Hear(Reply(None, id))
      PROVE  Reading' /\ Packeted' /\ TtlIsFresh'
  <2>1. Reply(None, id) \in Replies /\ Reply(None, id).from = None
    BY DEF Reply, Replies
  <2>2. net' \subseteq net /\ UNCHANGED <<hosts, over>>
    BY <1>7 DEF Stray, poolVars
  <2>3. QED
    BY <1>5, <1>7, <2>1, <2>2
<1>8. CASE UNCHANGED allVars
  <2>1. UNCHANGED <<net, hosts, over, read, waiting, packets, ttl, flying>>
    BY <1>8 DEF allVars, vars, readerVars
  <2>2. Host' = Host
    BY <2>1 DEF Host
  <2>3. QED
    BY <1>0, <2>1, <2>2 DEF Reading, Packeted, TtlIsFresh
<1>9. QED
  BY <1>1, <1>2, <1>3, <1>4, <1>6, <1>7, <1>8 DEF ReaderNext, ReaderStep

\* The reader begins in its invariant.
LEMMA ReaderInitInv == ReaderInit => ReaderInv
<1> SUFFICES ASSUME ReaderInit PROVE ReaderInv
  OBVIOUS
<1>1. IInv /\ hosts = <<>> /\ over = FALSE
  BY InitInv DEF ReaderInit, Init
<1>2. /\ read = 0 /\ waiting = FALSE /\ packets = <<>>
      /\ ttl = [a \in Addresses |-> Unread] /\ flying = [a \in Addresses |-> {}]
  BY DEF ReaderInit
<1>3. Len(hosts) = 0 /\ <<>> \in Seq(Replies)
  BY <1>1, EmptySeq
<1>4. Reading
  <2>1. read \in 0..Len(hosts) /\ packets \in Seq(Replies)
    BY <1>2, <1>3
  <2>4. waiting \in BOOLEAN
    BY <1>2
  <2>2. ttl \in [Addresses -> Replies \cup {Unread, NoTtl}] /\ flying \in [Addresses -> SUBSET Replies]
    BY <1>2
  <2>3. \A i \in 1..Len(hosts) : i > read => ttl[hosts[i]] = Unread
    BY <1>3
  <2>6. QED
    BY <1>1, <1>2, <2>1, <2>2, <2>3, <2>4 DEF Reading
<1>5. TtlIsFresh
  BY <1>2 DEF TtlIsFresh, Unread
<1>6. QED
  BY <1>1, <1>2, <1>4, <1>5 DEF ReaderInv, Packeted

\* Every step of discovery and reader keeps it.
LEMMA ReaderStepInv == ReaderInv /\ [ReaderNext]_allVars => ReaderInv'
<1> SUFFICES ASSUME ReaderInv, [ReaderNext]_allVars PROVE ReaderInv'
  OBVIOUS
<1>1. IInv'
  BY ReaderSteps, StepInv, AskKeeps DEF ReaderInv
<1>2. QED
  BY <1>1, ReadingStep DEF ReaderInv

\* The invariant holds throughout discovery and fingerprinting.
THEOREM ReaderInvariance == ReaderSpec => []ReaderInv
BY ReaderInitInv, ReaderStepInv, PTL DEF ReaderSpec

\* A host is fingerprinted by another's TTL only if that one's reply was still
\* on its way when this one was asked (_ttl_from_ping).
THEOREM TtlIsFreshAlways == ReaderSpec => []TtlIsFresh
BY ReaderInvariance, PTL DEF ReaderInv

\* The reader's pings, though answered into the same sockets, break nothing of
\* discovery: hosts are mixed up by equal identifiers only.
THEOREM ReaderMixedUpByIdentOnly == ReaderSpec => []MixedUpByIdentOnly
BY ReaderInvariance, PTL DEF ReaderInv, IInv, Answers

\* Nor is a host called down before its probes were tried.
THEOREM ReaderChainIsFollowed == ReaderSpec => []ChainIsFollowed
BY ReaderInvariance, PTL DEF ReaderInv, IInv

\* Nor does a ping miss its own reply.
THEOREM ReaderOwnReplyHeard == ReaderSpec => OwnReplyHeard
<1>1. IInv /\ [ReaderNext]_allVars => [HeardInTime]_vars
  <2>1. AskTtl => HeardInTime
    BY DEF AskTtl, HeardInTime
  <2>2. QED
    BY <2>1, ReaderSteps, HeardStep DEF IInv
<1>2. QED
  BY <1>1, ReaderInvariance, PTL DEF ReaderSpec, OwnReplyHeard, HeardInTime, ReaderInv

\* Discovery, with the reader after it, implements AlivePromise.
THEOREM ReaderImplements == ReaderSpec => AliveSpec
<1>1. IInv /\ [ReaderNext]_allVars => [Alive!Next]_Alive!vars
  <2>1. AskTtl => UNCHANGED Alive!vars
    <3>1. AskTtl => UNCHANGED <<found, hosts, over>>
      BY DEF AskTtl, poolVars
    <3>2. UNCHANGED <<found, hosts, over>> => UNCHANGED Alive!vars
      BY DEF Alive!vars
    <3>3. QED
      BY <3>1, <3>2
  <2>2. QED
    BY <2>1, ReaderSteps, PromiseStep
<1>2. ReaderInit => Alive!Init
  BY InitImplements DEF ReaderInit
<1>3. QED
  BY <1>1, <1>2, ReaderInvariance, PTL DEF ReaderSpec, AliveSpec, Alive!Spec, ReaderInv
=============================================================================

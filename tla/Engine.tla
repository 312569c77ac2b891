------------------------------- MODULE Engine -------------------------------
(***************************************************************************)
(* hardener/hardener.py (class Hardener) and the main of hardener/cli.py:  *)
(* one run of the tool, from its command line to its exit code.  The       *)
(* engine is one thread; around it time passes, the operator answers the   *)
(* prompt or presses Ctrl-C, hosts answer or do not, files can or cannot   *)
(* be written.                                                             *)
(*                                                                         *)
(* What the stages exchange with a host is abstracted to the fact that a   *)
(* packet went to it; how ports are scanned is ScanPool.                   *)
(***************************************************************************)
EXTENDS InputHandler, ScopeValidator, Lists

CONSTANTS CommandLines,     \* the command lines tried
          DefaultPorts, UdpPorts,   \* config.DEFAULT_PORTS, DEFAULT_UDP_PORTS
          WebPorts,         \* HTTP_PORTS and TLS_PORTS
          Below,            \* name -> the names SUBDOMAIN_WORDLIST makes of it
          Day,              \* bound: "minutes" in a day
          Faults            \* may a stage or a file operation raise?

ASSUME DayAssumption == Day \in Nat \ {0}
ASSUME FaultsAssumption == Faults \in BOOLEAN

\* What argparse and the scope file leave: words, a flag for the consent, and a
\* window of minutes of the day.
ASSUME LinesAssumption ==
  \A line \in CommandLines :
    /\ line.words \in Seq(Words) /\ line.authorized \in BOOLEAN
    /\ line.scope.window.from \in 0..(Day - 1) /\ line.scope.window.to \in 0..(Day - 1)
    /\ line.scope.window.set \in BOOLEAN /\ line.scope.window.text \in BOOLEAN

VARIABLES
  args,         \* the parsed command line, with the scope file's content
  pc,           \* where the run is
  time,         \* time of day
  consent,      \* ScopeValidator.authorized
  targets,      \* cfg.targets
  todo,         \* expanded targets not yet validated
  approved,     \* approved targets, in order
  pending,      \* addresses discovery has not decided yet
  hosts,        \* alive hosts, in the order discovery reports them
  at,           \* the host the current stage has come to
  open,         \* open ports found on each host, as <<protocol, port>>
  log,          \* the audit log's entries, in order
  logFile,      \* its file: absent, open or closed
  queried,      \* history: names DNS servers were asked about
  sent,         \* history: [ip, stage, port] of what was sent to whom
  reports,      \* how many report files are written
  exit          \* exit code: "", "0", "2", "130" or "crash"

scopeVars == <<consent, targets, todo, approved>>
hostVars == <<pending, hosts, at, open>>
outVars == <<log, logFile, queried, sent, reports>>
vars == <<args, pc, time, consent, targets, todo, approved, pending, hosts, at, open,
          log, logFile, queried, sent, reports, exit>>

ReportFiles == 5        \* txt, json, xml, csv, html

-----------------------------------------------------------------------------
(* The command line. *)

\* main: `ports' after -p, --all-ports, --exclude-ports; {} stands for "the
\* default set", and is what is left when everything is excluded.
CfgPorts == IF args.exclude_ports = {} THEN args.ports
            ELSE (IF args.ports = {} THEN DefaultPorts ELSE args.ports) \ args.exclude_ports

\* run: `self.cfg.ports or config.DEFAULT_PORTS'
ScanPorts == IF CfgPorts = {} THEN DefaultPorts ELSE CfgPorts

\* main's gate before --all-ports and --top-ports.
NeedsFlag == (args.all_ports \/ args.top_ports) /\ ~args.authorized /\ ~args.scoped

-----------------------------------------------------------------------------
Entry(stage, target, result) == [stage |-> stage, target |-> target, result |-> result]
Logged(entries) == log' = log \o entries

Init ==
  /\ args \in CommandLines
  /\ pc = "main" /\ time \in 0..(Day - 1)
  /\ consent = args.authorized
  /\ targets = <<>> /\ todo = <<>> /\ approved = <<>>
  /\ pending = {} /\ hosts = <<>> /\ at = 1 /\ open = << >>
  /\ log = <<>> /\ logFile = "absent" /\ queried = {} /\ sent = {} /\ reports = 0
  /\ exit = ""

Exit(code) == pc' = "out" /\ exit' = code

\* cli.main: parses the targets, refuses, or starts the engine.
Main ==
  /\ pc = "main"
  /\ \/ /\ \/ \E i \in DOMAIN args.words : IsError(args.words[i])
           \/ args.words = <<>>
           \/ NeedsFlag
        /\ Exit("2")
        /\ UNCHANGED targets
     \/ /\ \A i \in DOMAIN args.words : ~IsError(args.words[i])
        /\ args.words # <<>> /\ ~NeedsFlag
        /\ targets' = ParseTargets(args.words)
        /\ pc' = "intake"
        /\ UNCHANGED exit
  /\ UNCHANGED <<args, time, consent, todo, approved, hostVars, outVars>>

\* Stage 1.  The log is opened first; blank words leave no target.
Intake ==
  /\ pc = "intake"
  /\ logFile' = "open"
  /\ \/ targets = <<>> /\ Exit("crash") /\ UNCHANGED log
     \/ /\ targets # <<>>
        /\ Logged(<<Entry(1, None, "input parsed")>>)
        /\ pc' = "confirm"
        /\ UNCHANGED exit
  /\ UNCHANGED <<args, time, scopeVars, hostVars, queried, sent, reports>>

\* Stage 2.  confirm_authorization: --authorized, or a "y" at the prompt.
Confirm ==
  /\ pc = "confirm"
  /\ \/ consent /\ pc' = "validate" /\ todo' = Expand(targets)
     \/ ~consent /\ pc' = "prompt" /\ UNCHANGED todo
  /\ UNCHANGED <<args, time, consent, targets, approved, hostVars, outVars, exit>>

Answer(yes) ==
  /\ pc = "prompt"
  /\ IF yes THEN /\ consent' = TRUE /\ pc' = "validate" /\ todo' = Expand(targets)
                 /\ UNCHANGED exit
            ELSE Exit("0") /\ UNCHANGED <<consent, todo>>      \* _finish(aborted=True)
  /\ UNCHANGED <<args, time, targets, approved, hostVars, outVars>>

Validate ==
  /\ pc = "validate" /\ todo # <<>>
  /\ LET t == Head(todo)
         v == Verdict(args.scope, consent, time, t)
     IN  /\ Logged(<<Entry(2, t.raw, v)>>)
         /\ approved' = IF v = "allowed" THEN Append(approved, t) ELSE approved
  /\ todo' = Tail(todo)
  /\ UNCHANGED <<args, pc, time, consent, targets, hostVars, logFile, queried, sent,
                 reports, exit>>

Excluded_WordOnly(t) == t.raw \in args.exclude

\* --exclude: compared with the target's word and its address.
Excluded(t) == t.raw \in args.exclude \/ t.ip \in args.exclude

Approve ==
  /\ pc = "validate" /\ todo = <<>>
  /\ approved' = Kept(approved, {t \in Range(approved) : ~Excluded(t)})
  /\ IF approved' = <<>> THEN Exit("0") ELSE pc' = "dns" /\ UNCHANGED exit
  /\ UNCHANGED <<args, time, consent, targets, todo, hostVars, outVars>>

\* discover_host_infrastructure asks resolvers for the records of a name and, by
\* enumerate_subdomains, for every word of the list below it; a record that cannot
\* be parsed raises, and ends that before the words (`raised').
LookUp(names) ==
  \E raised \in SUBSET names :
    queried' = queried \cup names \cup UNION {Below[n] : n \in names \ raised}

\* Stage 3.  The names of hostname and URL targets are looked up; then the
\* addresses of all targets are collected.
NamesOf(ts) == {t.hostname : t \in {s \in Range(ts) : s.kind \in {"hostname", "url"}}}
TargetAddresses(t) == IF t.ip_list # <<>> THEN Range(t.ip_list) ELSE {t.ip} \ {None}
Dns_AllTargets ==
  /\ pc = "dns"
  /\ LookUp(NamesOf(targets))
  /\ pending' = UNION {TargetAddresses(t) : t \in Range(approved)}
  /\ pc' = "discover"
  /\ UNCHANGED <<args, time, scopeVars, hosts, at, open, log, logFile, sent, reports, exit>>
Dns ==
  /\ pc = "dns"
  /\ LookUp(NamesOf(approved))
  /\ pending' = UNION {TargetAddresses(t) : t \in Range(approved)}
  /\ pc' = "discover"
  /\ UNCHANGED <<args, time, scopeVars, hosts, at, open, log, logFile, sent, reports, exit>>

\* Stage 4.  The discovery threads report in any order; one that fails is a
\* host that is not there.
Discover(ip, up) ==
  /\ pc = "discover" /\ ip \in pending
  /\ pending' = pending \ {ip}
  /\ sent' = sent \cup {[ip |-> ip, stage |-> 4, port |-> None]}
  /\ hosts' = IF up THEN Append(hosts, ip) ELSE hosts
  /\ UNCHANGED <<args, pc, time, scopeVars, at, open, log, logFile, queried, reports, exit>>

\* The name a host goes by: that of the first target with its address.
NameOf(ip) == LET i == CHOOSE i \in DOMAIN approved :
                         /\ ip \in TargetAddresses(approved[i])
                         /\ \A j \in 1..(i - 1) : ip \notin TargetAddresses(approved[j])
              IN  approved[i].hostname

\* The hosts found are logged, then their names looked up; what that raises is caught.
FoundNames == {NameOf(ip) : ip \in Range(hosts)} \ {None}
Found(names) == /\ Logged([i \in DOMAIN hosts |-> Entry(4, hosts[i], "alive")])
                /\ LookUp(names)

StartStage(stage) == pc' = stage /\ at' = 1
Discovered_Aborts ==
  /\ pc = "discover" /\ pending = {}
  /\ Found(FoundNames)
  /\ IF hosts = <<>> THEN Exit("0") /\ UNCHANGED at
     ELSE StartStage(IF args.ping_sweep THEN "report" ELSE "scan") /\ UNCHANGED exit
  /\ UNCHANGED <<args, time, scopeVars, pending, hosts, open, logFile, sent, reports>>
Discovered_WaitsForAll ==
  /\ pc = "discover" /\ Len(hosts) = Cardinality(UNION {TargetAddresses(t) : t \in Range(approved)})
  /\ Found(FoundNames)
  /\ StartStage(IF hosts = <<>> \/ args.ping_sweep THEN "report" ELSE "scan")
  /\ UNCHANGED <<args, time, scopeVars, pending, hosts, open, logFile, sent, reports, exit>>
Discovered ==
  /\ pc = "discover" /\ pending = {}
  /\ Found(FoundNames)
  /\ StartStage(IF hosts = <<>> \/ args.ping_sweep THEN "report" ELSE "scan")
  /\ UNCHANGED <<args, time, scopeVars, pending, hosts, open, logFile, sent, reports, exit>>

\* The stages after discovery visit the hosts in order; `next' is the stage
\* that follows when the last host is done.
Visit_NotTheLast(stage, next) ==
  /\ pc = stage
  /\ IF at + 1 >= Len(hosts) THEN StartStage(next) ELSE at' = at + 1 /\ UNCHANGED pc
Visit(stage, next) ==
  /\ pc = stage
  /\ IF at = Len(hosts) THEN StartStage(next) ELSE at' = at + 1 /\ UNCHANGED pc
Packets(stage, ports) == sent' = sent \cup {[ip |-> hosts[at], stage |-> stage, port |-> p] : p \in ports}

\* Stage 5.  The scan finds some of the ports open (ScanPool); what it found on
\* TCP is logged before the UDP scan.
Scan ==
  /\ Visit("scan", "enumerate")
  /\ LET udp == IF args.udp THEN UdpPorts ELSE {}
     IN  \E tcpOpen \in SUBSET ScanPorts, udpOpen \in SUBSET udp :
           /\ Packets(5, ScanPorts \cup udp)
           /\ open' = [ip \in DOMAIN open \cup {hosts[at]} |->
                         IF ip = hosts[at] THEN ({"tcp"} \X tcpOpen) \cup ({"udp"} \X udpOpen)
                                           ELSE open[ip]]
  /\ Logged(<<Entry(5, hosts[at], "scanned")>>)
  /\ UNCHANGED <<args, time, scopeVars, pending, hosts, logFile, queried, reports, exit>>

\* Stage 6 sends to every open port, UDP ports included; stage 7 to the open TCP
\* ports that may speak HTTP or TLS; stage 8 pings the host.  Nothing is logged.
\* An error in stages 7 and 8 is caught.
Enumerate ==
  /\ Visit("enumerate", "audit web")
  /\ Packets(6, IF args.enumerate THEN {o[2] : o \in open[hosts[at]]} ELSE {})
  /\ UNCHANGED <<args, time, scopeVars, pending, hosts, open, log, logFile, queried,
                 reports, exit>>
OpenWebPorts == {p \in WebPorts : <<"tcp", p>> \in open[hosts[at]]}
AuditWeb ==
  /\ Visit("audit web", "fingerprint")
  /\ Packets(7, OpenWebPorts)
  /\ UNCHANGED <<args, time, scopeVars, pending, hosts, open, log, logFile, queried,
                 reports, exit>>
Fingerprint ==
  /\ Visit("fingerprint", "analyse")
  /\ Packets(8, IF args.os THEN {None} ELSE {})
  /\ UNCHANGED <<args, time, scopeVars, pending, hosts, open, log, logFile, queried,
                 reports, exit>>

\* Stage 9.
Analyse ==
  /\ Visit("analyse", "report")
  /\ Logged(<<Entry(9, hosts[at], "analysed")>>)
  /\ UNCHANGED <<args, time, scopeVars, pending, hosts, open, logFile, queried, sent,
                 reports, exit>>

\* Stage 10.  _finish writes the reports one after the other, and the grepable
\* file if asked for; then it logs and closes the log.
FilesToWrite == ReportFiles + (IF args.grepable THEN 1 ELSE 0)
WriteReport ==
  /\ pc = "report" /\ reports < FilesToWrite
  /\ reports' = reports + 1
  /\ UNCHANGED <<args, pc, time, scopeVars, hostVars, log, logFile, queried, sent, exit>>
Finish ==
  /\ pc = "report" /\ reports = FilesToWrite
  /\ Logged(<<Entry(10, None, "generated")>>)
  /\ logFile' = "closed"
  /\ Exit("0")
  /\ UNCHANGED <<args, time, scopeVars, hostVars, queried, sent, reports>>

Engine == Main \/ Intake \/ Confirm \/ Validate \/ Approve \/ Dns \/ Discovered \/ Scan
            \/ Enumerate \/ AuditWeb \/ Fingerprint \/ Analyse \/ WriteReport \/ Finish
            \/ \E ip \in pending, up \in BOOLEAN : Discover(ip, up)

\* Reading the scope file, enumeration, and writing the log and the reports are
\* not guarded: what they raise ends the program.
Crash ==
  /\ Faults
  /\ pc \in {"main", "intake", "validate", "discover", "scan", "enumerate", "analyse", "report"}
  /\ pc = "main" => args.scoped
  /\ pc = "enumerate" => args.enumerate
  /\ Exit("crash")
  /\ UNCHANGED <<args, time, scopeVars, hostVars, outVars>>

\* Four waits have no bound but the peer's.  A compressed name that points to itself
\* is decoded for ever (_decode_name); the timeout of icmp_ping and of the TTL reader
\* starts again with every packet that is not the one awaited; _raw_request reads
\* for as long as the web server sends.  In a stage with a pool the others finish;
\* elsewhere those that come after are left out.
Some(s) == SUBSET s \ {{}}
Hold ==
  /\ \/ /\ pc = "dns" /\ \E names \in Some(NamesOf(approved)) : LookUp(names)
        /\ UNCHANGED <<log, sent>>
     \/ /\ pc = "discover" /\ pending # {}
        /\ sent' = sent \cup {[ip |-> ip, stage |-> 4, port |-> None] : ip \in pending}
        /\ UNCHANGED <<log, queried>>
     \/ /\ pc = "discover" /\ pending = {} /\ \E names \in Some(FoundNames) : Found(names)
        /\ UNCHANGED sent
     \/ /\ pc = "audit web" /\ \E ports \in Some(OpenWebPorts) : Packets(7, ports)
        /\ UNCHANGED <<log, queried>>
     \/ /\ pc = "fingerprint" /\ args.os
        /\ Packets(8, {None}) /\ UNCHANGED <<log, queried>>
  /\ pc' = "held"
  /\ UNCHANGED <<args, time, scopeVars, hostVars, logFile, reports, exit>>

\* Ctrl-C reaches the engine wherever it is, and main returns 130.
Interrupt ==
  /\ pc \notin {"main", "out"}
  /\ Exit("130")
  /\ UNCHANGED <<args, time, scopeVars, hostVars, outVars>>

\* Time matters only to a scope with a window.
TimePasses ==
  /\ pc # "out" /\ args.scope.window.set
  /\ time' = (time + 1) % Day
  /\ UNCHANGED <<args, pc, scopeVars, hostVars, outVars, exit>>

Operator == Interrupt \/ \E yes \in BOOLEAN : Answer(yes)

Next == Engine \/ Hold \/ Crash \/ Operator \/ TimePasses

Spec == Init /\ [][Next]_vars

\* The engine's own steps are taken: their waits, but for those of Hold, each have a
\* timeout that nothing restarts.  What peers do to hold it, and the operator, who may
\* leave the prompt unanswered, are not fair.
FairSpec == Spec /\ WF_vars(Engine)

-----------------------------------------------------------------------------
\* The targets there may be, where packets may go, and what may be logged.
Parsed == {Parse(w) : w \in {v \in Words : Form[v] # "blank" /\ ~IsError(v)}}
TargetSet == Parsed \cup UNION {Range(ExpandOne(t)) : t \in Parsed}
Places == UNION {TargetAddresses(t) : t \in TargetSet}
Results == {"input parsed", "unauthorised", "outside window", "out of scope", "blocked",
            "allowed", "alive", "scanned", "analysed", "generated"}
LogEntries(stages) ==
  [stage : stages, target : {t.raw : t \in TargetSet} \cup Places \cup {None}, result : Results]

TypeOK ==
  /\ args \in CommandLines
  /\ pc \in {"main", "intake", "confirm", "prompt", "validate", "dns", "discover", "scan",
              "enumerate", "audit web", "fingerprint", "analyse", "report", "held", "out"}
  /\ time \in 0..(Day - 1) /\ consent \in BOOLEAN
  /\ targets \in Seq(TargetSet) /\ todo \in Seq(TargetSet) /\ approved \in Seq(TargetSet)
  /\ pending \subseteq Places /\ hosts \in Seq(Places) /\ log \in Seq(LogEntries(1..10))
  /\ Range(hosts) \cap pending = {} /\ IsInjective(hosts)
  /\ at \in 1..(Len(hosts) + 1)
  /\ DOMAIN open \subseteq Range(hosts)
  /\ logFile \in {"absent", "open", "closed"}
  /\ reports \in 0..FilesToWrite
  /\ exit \in {"", "0", "2", "130", "crash"} /\ (exit # "" <=> pc = "out")

Entries(stage) == Kept(log, LogEntries({stage}))
Subjects(stage) == [i \in DOMAIN Entries(stage) |-> Entries(stage)[i].target]
Completed == exit = "0" /\ reports > 0
Touched == {s.ip : s \in sent}

\* What the scope file permits, and what the audit log says may be touched.
Permitted == (args.scope.allowed \ args.scope.excluded) \ args.scope.blocked
Cleared == {t.ip : t \in {s \in UNION {Range(ExpandOne(u)) : u \in Range(targets)} :
                            s.ip # None /\ Entry(2, s.raw, "allowed") \in Range(log)}}

(***************************************************************************)
(* Every packet, of every stage, goes to an address that the audit log had *)
(* cleared before, after the operator's consent, and that the scope        *)
(* permits -- through parsing, expansion, the two ways a target carries    *)
(* its addresses, and hosts that several targets name.                     *)
(***************************************************************************)
Permit == INSTANCE ScanPermit
            WITH permitted <- Permitted, cleared <- Cleared, touched <- Touched
PermitSpec == Permit!Spec

(***************************************************************************)
(* --exclude keeps an address untouched when it names that address: by     *)
(* whatever target it comes (run's filter of the approved list).           *)
(***************************************************************************)
ExcludedAddressUntouched == Touched \cap args.exclude = {}

(***************************************************************************)
(* DNS discovery (stages 3 and 4) asks for the host name of a target that  *)
(* the audit log has as allowed, that --exclude does not name and that is  *)
(* not blocked, or for a name the wordlist makes below such a one; not for *)
(* that of another target with the same address.  (The system's resolver   *)
(* is asked for every name on the command line before there is a scope.)   *)
(***************************************************************************)
ClearedNames ==
  {t.hostname : t \in {s \in UNION {Range(ExpandOne(u)) : u \in Range(targets)} :
                         /\ s.hostname # None /\ ~Excluded(s)
                         /\ Entry(2, s.raw, "allowed") \in Range(log)}} \ args.scope.blocked
AskedBelowCleared == queried \subseteq ClearedNames \cup UNION {Below[n] : n \in ClearedNames}

(***************************************************************************)
(* "The tool will not proceed against a target unless it is in scope", and *)
(* a host name on the blocked-assets list is not: it is never asked for.   *)
(***************************************************************************)
BlockedNameUnasked == queried \cap args.scope.blocked = {}

(***************************************************************************)
(* A run that aborts -- no consent, nothing in scope -- has sent nothing   *)
(* to a host and started no DNS discovery: _finish(aborted=True), "Scan    *)
(* aborted"; every other run that returns 0 has written all its reports.   *)
(***************************************************************************)
AbortedRunIsSilent ==
  exit = "0" => \/ reports = FilesToWrite
                \/ reports = 0 /\ sent = {} /\ queried = {}

(***************************************************************************)
(* The audit log of a run that completes tells what it did: the hosts that *)
(* were found, the same hosts in the same order scanned and analysed       *)
(* (unless it was a ping sweep), nobody else, and the reports at the end,  *)
(* after which the file is closed.  No packet but discovery's went to a    *)
(* host that is not on record as alive.                                    *)
(***************************************************************************)
TraceableRun ==
  /\ Completed => /\ Subjects(4) = hosts
                  /\ Subjects(5) = IF args.ping_sweep THEN <<>> ELSE hosts
                  /\ Subjects(9) = Subjects(5)
                  /\ log[Len(log)].stage = 10 /\ logFile = "closed"
  /\ \A s \in sent : s.stage > 4 => Entry(4, s.ip, "alive") \in Range(log)

(***************************************************************************)
(* Whatever the hosts, the operator and the file system do, a run ends, or *)
(* it waits for the operator at the prompt, or it is held by a peer in one *)
(* of the four waits that have no bound; once there is consent it does not *)
(* wait for the operator again.                                            *)
(***************************************************************************)
RunEnds == <>(pc \in {"out", "prompt", "held"}) /\ [](consent => <>(pc \in {"out", "held"}))

(***************************************************************************)
(* A target is approved only at a time of the scan window, one that spans  *)
(* midnight included: at most as far after its start as its end is, on the *)
(* clock's circle (_scan_window_allowed, asked again for each target).  A  *)
(* window that is no text cannot be read, and allows every time.           *)
(***************************************************************************)
ApprovedInWindow ==
  [][LET w == args.scope.window
     IN  Len(approved') > Len(approved) /\ w.set /\ w.text
           => (time - w.from) % Day <= (w.to - w.from) % Day]_vars

(***************************************************************************)
(* "Exclude a target/IP/CIDR from scanning" (--exclude): the addresses of  *)
(* an excluded network are left alone.                                     *)
(***************************************************************************)
ExcludedNetworkUntouched ==
  \A w \in args.exclude \cap Words : Form[w] = "cidr" => Touched \cap Range(Addresses[w]) = {}

(***************************************************************************)
(* "Checks every target against the authorised scope (allowed ranges,      *)
(* excluded assets, rate limits and scan windows)": nothing is sent        *)
(* outside the scan window.                                                *)
(***************************************************************************)
WindowRespected == [][sent' # sent => WindowAllows(args.scope.window, time)]_vars
=============================================================================

------------------------------ MODULE NmapEngine ------------------------------
(***************************************************************************)
(* hardener/nmap_engine.py, as Hardener.run uses it for one host, with the *)
(* port lists cli.main gives it: the TCP scan, then the UDP scan if asked  *)
(* for, each by running the nmap program once, or twice when -sS fails.    *)
(*                                                                         *)
(* nmap itself is external: it may answer, fail, write nothing, be cut     *)
(* off, or take longer than it is given.  Of its XML the model keeps what  *)
(* parse_nmap_xml looks at.  Time is counted in seconds per call.          *)
(***************************************************************************)
EXTENDS PortOptions, FiniteSets

CONSTANTS CommandLines,     \* what may be asked
          Threads, Probe    \* TIMING_TEMPLATES[timing]: threads, seconds per probe

\* What argparse lets through, refused port lists included.
ASSUME NmapAssumption ==
  /\ Threads \in Nat /\ Probe \in Nat
  /\ \A a \in CommandLines :
       /\ a.host_timeout \in Nat /\ a.syn \in BOOLEAN /\ a.udp \in BOOLEAN
       /\ a.scan_type \in {"connect", "syn", "ack", "null", "fin", "xmas"}
       /\ a.preset \in {"none", "fast", "all"}
       /\ a.ports \in Seq(Chunks) /\ a.exclude \in Seq(Chunks) /\ a.udp_ports \in Seq(Chunks)

Unreadable == -1        \* a portid that is no number

VARIABLES
  args,         \* the command line
  cfg,          \* what main makes of it: scan type, port lists
  pc,           \* tcp, tcp again, tcp output, udp, udp output, done
  cmd,          \* the command line that is run: its techniques and port spec
  out,          \* proc.stdout
  ports,        \* h.ports: port results
  ran,          \* history: the command lines that were run, in order
  spent,        \* history: seconds spent waiting for nmap
  told          \* history: <<protocol, port>> nmap said to be open

vars == <<args, cfg, pc, cmd, out, ports, ran, spent, told>>

-----------------------------------------------------------------------------
(* Budgets and command lines. *)
AtLeast(low, n) == IF n < low THEN low ELSE n
AtMost(high, n) == IF n > high THEN high ELSE n

\* _estimate_timeout
Budget(count) ==
  IF args.host_timeout > 0 THEN args.host_timeout + 60
  ELSE AtLeast(60, AtMost(1800, (count * Probe) \div AtLeast(1, Threads) + 30))

\* _port_spec: ascending neighbours are collapsed into ranges <<first, last>>.
Extend(acc, p) == IF p = acc.prev + 1 THEN [acc EXCEPT !.prev = p]
                  ELSE [runs |-> Append(acc.runs, <<acc.start, acc.prev>>), start |-> p, prev |-> p]
Closed(acc) == Append(acc.runs, <<acc.start, acc.prev>>)
PortSpec(list) ==
  IF list = <<>> THEN << <<1, MaxPort>> >>
  ELSE Closed(FoldLeft(Extend, [runs |-> <<>>, start |-> list[1], prev |-> list[1]], Tail(list)))

\* What nmap makes of -p.
Denotes(spec) == UNION {r[1]..r[2] : r \in Range(spec)}

\* _build_cmd: the UDP scan is built with the scan type "connect".
TechniqueFlags == [connect |-> "sT", syn |-> "sS", ack |-> "sA",
                   null |-> "sN", fin |-> "sF", xmas |-> "sX"]
TcpCommand(c) == [techniques |-> {TechniqueFlags[c.scan_type]}, spec |-> PortSpec(c.tcp)]
UdpCommand == [techniques |-> {"sU", "sT"}, spec |-> PortSpec(cfg.udp)]
-----------------------------------------------------------------------------
(* nmap: external. *)
Empty == [text |-> "empty", host |-> FALSE, up |-> FALSE, ports |-> <<>>]
Cut == [text |-> "cut off", host |-> FALSE, up |-> FALSE, ports |-> <<>>]
Xml(host, up, elements) == [text |-> "xml", host |-> host, up |-> up, ports |-> elements]

\* The elements nmap writes: bound: none or one per protocol, on a port it scanned,
\* after perhaps one element without a port number.
Element(protocol, port, state) == [protocol |-> protocol, portid |-> port, state |-> state]
Scanned(c) == (IF "sU" \in c.techniques THEN {"udp"} ELSE {}) \cup
              (IF c.techniques # {"sU"} THEN {"tcp"} ELSE {})
Listing(c, protocol) ==
  {<<>>} \cup IF protocol \in Scanned(c)
              THEN {<<Element(protocol, p, s)>> : p \in Denotes(c.spec), s \in {"open", "filtered"}}
              ELSE {}
Broken == {<<>>, <<Element("tcp", Unreadable, "open")>>}
Listings(c) == {b \o t \o u : b \in Broken, t \in Listing(c, "tcp"), u \in Listing(c, "udp")}
Outputs(c) == {Empty, Cut, Xml(FALSE, FALSE, <<>>), Xml(TRUE, FALSE, <<>>)}
                \cup {Xml(TRUE, TRUE, l) : l \in Listings(c)}
-----------------------------------------------------------------------------
(* parse_nmap_xml: an element without a number is passed over. *)
Readable(e) == e.portid # Unreadable
Parsed_UpToBroken(o) ==
  IF \A i \in DOMAIN o.ports : Readable(o.ports[i]) THEN o.ports
  ELSE SubSeq(o.ports, 1, (CHOOSE i \in DOMAIN o.ports : ~Readable(o.ports[i])) - 1)
Parsed(o) == Kept(o.ports, {e \in Range(o.ports) : Readable(e)})

\* nmap_tcp_scan: no output, no XML, no host, a host that is down: no results.
TcpResults(o) == IF o.text = "xml" /\ o.host /\ o.up THEN Parsed(o) ELSE <<>>

\* nmap_udp_scan: whether the host is up is not looked at.
UdpResults(o) == IF o.text = "xml" /\ o.host THEN Parsed(o) ELSE <<>>

Init ==
  /\ args \in CommandLines /\ Accepted(args)
  /\ cfg = Configured(args)
  /\ pc = "tcp" /\ cmd = TcpCommand(cfg)
  /\ out = Empty /\ ports = <<>>
  /\ ran = <<>> /\ spent = 0 /\ told = {}

\* _run_nmap waits for the process, and kills it at the end of its budget.
Waited(count, seconds) == /\ spent' = spent + seconds
                          /\ ran' = Append(ran, cmd)
                          /\ seconds <= Budget(count)

\* The -sS it finds in the command becomes -sT, once.
FallsBack_Always(rc) == rc # 0
FallsBack(rc) == rc # 0 /\ "sS" \in cmd.techniques

\* A run ends: after `seconds', with exit code rc, having written o.
TcpRun(rc, o, seconds) ==
  /\ pc = "tcp"
  /\ Waited(Len(cfg.tcp), seconds)
  /\ \/ /\ FallsBack(rc)
        /\ cmd' = [cmd EXCEPT !.techniques = {"sT"}]
        /\ pc' = "tcp again"
        /\ UNCHANGED out
     \/ ~FallsBack(rc) /\ out' = o /\ pc' = "tcp output" /\ UNCHANGED cmd
  /\ UNCHANGED <<args, cfg, ports, told>>

\* The second run's exit code is not looked at.
TcpAgain(o, seconds) ==
  /\ pc = "tcp again"
  /\ Waited(Len(cfg.tcp), seconds)
  /\ out' = o /\ pc' = "tcp output"
  /\ UNCHANGED <<args, cfg, cmd, ports, told>>

UdpRun(o, seconds) ==
  /\ pc = "udp"
  /\ Waited(Len(cfg.udp), seconds)
  /\ out' = o /\ pc' = "udp output"
  /\ UNCHANGED <<args, cfg, cmd, ports, told>>

\* The budget is up: subprocess.run kills nmap, and there is no output.
Killed ==
  /\ \/ pc \in {"tcp", "tcp again"} /\ Waited(Len(cfg.tcp), Budget(Len(cfg.tcp))) /\ pc' = "tcp output"
     \/ pc = "udp" /\ Waited(Len(cfg.udp), Budget(Len(cfg.udp))) /\ pc' = "udp output"
  /\ out' = Empty
  /\ UNCHANGED <<args, cfg, cmd, ports, told>>

OpenIn(o) == {<<o.ports[i].protocol, o.ports[i].portid>> :
                 i \in {j \in DOMAIN o.ports : Readable(o.ports[j]) /\ o.ports[j].state = "open"}}

ReadTcp ==
  /\ pc = "tcp output"
  /\ ports' = TcpResults(out)
  /\ told' = OpenIn(out)
  /\ \/ args.udp /\ pc' = "udp" /\ cmd' = UdpCommand
     \/ ~args.udp /\ pc' = "done" /\ UNCHANGED cmd
  /\ UNCHANGED <<args, cfg, out, ran, spent>>

\* h.ports += ...
Added(o) == ports \o UdpResults(o)
ReadUdp ==
  /\ pc = "udp output"
  /\ ports' = Added(out)
  /\ told' = told \cup OpenIn(out)
  /\ pc' = "done"
  /\ UNCHANGED <<args, cfg, cmd, out, ran, spent>>

NmapEnds(rc, o, seconds) == TcpRun(rc, o, seconds) \/ TcpAgain(o, seconds) \/ UdpRun(o, seconds)

\* A run takes no time to speak of or nearly all of its budget.
Next == \/ \E rc \in {0, 1}, o \in Outputs(cmd), seconds \in {1, Budget(0)} : NmapEnds(rc, o, seconds)
        \/ Killed \/ ReadTcp \/ ReadUdp

Spec == Init /\ [][Next]_vars
-----------------------------------------------------------------------------
Results == [protocol : {"tcp", "udp"}, portid : 0..MaxPort, state : {"open", "filtered"}]
Commands == [techniques : SUBSET ({"sU"} \cup Range(TechniqueFlags)),
             spec : Seq((0..MaxPort) \X (0..MaxPort))]

TypeOK ==
  /\ args \in CommandLines
  /\ cfg.scan_type \in DOMAIN TechniqueFlags
  /\ cfg.tcp \in Seq(0..MaxPort) /\ cfg.udp \in Seq(0..MaxPort)
  /\ pc \in {"tcp", "tcp again", "tcp output", "udp", "udp output", "done"}
  /\ cmd \in Commands /\ ran \in Seq(Commands)
  /\ out.text \in {"empty", "cut off", "xml"}
  /\ ports \in Seq(Results)
  /\ spent \in Nat /\ told \subseteq {"tcp", "udp"} \X (0..MaxPort)

(***************************************************************************)
(* Every run of nmap, the repeated one included, is asked for exactly the  *)
(* ports the operator means: -p (or what stands in for it) without those   *)
(* of --exclude-ports, in whatever order, overlap or repetition they were  *)
(* written; the default ports where that leaves none.  Neither the parsing *)
(* of lists nor the collapsing into ranges loses or adds one               *)
(* (parse_port_list, main, _port_spec, _run_nmap).                         *)
(***************************************************************************)
Meant(chunks) == UNION {IF c.form = "range" THEN c.lo..c.hi ELSE {} : c \in Range(chunks)}
OrElse(S, T) == IF S = {} THEN T ELSE S
TcpMeant ==
  LET chosen == OrElse(Meant(args.ports), Range(Preset(args.preset)))
  IN  OrElse(OrElse(chosen, Range(DefaultPorts)) \ Meant(args.exclude), Range(DefaultPorts))
AsksForItsPorts ==
  \A i \in DOMAIN ran :
    Denotes(ran[i].spec) = IF "sU" \in ran[i].techniques
                           THEN OrElse(Meant(args.udp_ports), Range(DefaultUdpPorts))
                           ELSE TcpMeant

(***************************************************************************)
(* "Budget a subprocess timeout so nmap can never hang the run": the host  *)
(* costs at most one budget per protocol -- two for a TCP scan with -sS,   *)
(* the fallback having a full budget again.                                *)
(***************************************************************************)
WithinBudget ==
  spent <= (IF cfg.scan_type = "syn" THEN 2 ELSE 1) * Budget(Len(cfg.tcp))
             + (IF args.udp THEN Budget(Len(cfg.udp)) ELSE 0)

(***************************************************************************)
(* When the scan is over, the host's open ports are those that nmap's      *)
(* output named, over both scans: an element that cannot be read hides no  *)
(* other, and the UDP results do not displace the TCP ones.                *)
(***************************************************************************)
OpenAsTold ==
  pc = "done" => {<<ports[i].protocol, ports[i].portid>> :
                    i \in {j \in DOMAIN ports : ports[j].state = "open"}} = told
=============================================================================

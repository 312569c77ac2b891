----------------------------- MODULE PortOptions -----------------------------
(***************************************************************************)
(* hardener/cli.py: the port lists and the scan technique that main makes  *)
(* of a command line.                                                      *)
(*                                                                         *)
(* An option's value is a sequence of chunks, split at the commas.  A      *)
(* chunk is blank, is no number, or is a range lo-hi; a single port p      *)
(* takes the path of p-p, with the same test.                              *)
(***************************************************************************)
EXTENDS Lists, Integers, Sequences, SequencesExt

CONSTANTS MaxPort,                          \* 65535
          DefaultPorts, DefaultUdpPorts,    \* config.DEFAULT_PORTS, DEFAULT_UDP_PORTS
          FastPorts                         \* config.FAST_PORTS, or the first --top-ports

ASSUME PortsAssumption == /\ MaxPort \in Nat
                          /\ DefaultPorts \in Seq(0..MaxPort) \ {<<>>}
                          /\ DefaultUdpPorts \in Seq(0..MaxPort) \ {<<>>}
                          /\ FastPorts \in Seq(0..MaxPort)

Blank == [form |-> "blank"]
Junk == [form |-> "no number"]
Ports(lo, hi) == [form |-> "range", lo |-> lo, hi |-> hi]
Chunks == {Blank, Junk} \cup [form : {"range"}, lo : Int, hi : Int]

\* parse_port_list: what makes argparse refuse the option.
OutOfRange(c) == c.lo < 0 \/ c.hi > MaxPort \/ c.lo > c.hi
Refused(chunks) == \E c \in Range(chunks) : \/ c.form = "no number"
                                            \/ c.form = "range" /\ OutOfRange(c)

\* Each port once, where it is first named.
Fresh_AfterLast(ports, p) == ports = <<>> \/ p > Last(ports)
Fresh(ports, p) == p \notin Range(ports)
AddChunk(ports, c) ==
  IF c.form = "blank" THEN ports
  ELSE ports \o Kept([i \in 1..(c.hi - c.lo + 1) |-> c.lo + i - 1],
                      {p \in c.lo..c.hi : Fresh(ports, p)})
ParsePortList(chunks) == FoldLeft(AddChunk, <<>>, chunks)

\* main: -p, else -p-/--all-ports, else --top-ports or -F, else the default;
\* then --exclude-ports.
OrDefault(list, default) == IF list = <<>> THEN default ELSE list
Preset(name) == CASE name = "all" -> [i \in 1..(MaxPort + 1) |-> i - 1]
                  [] name = "fast" -> FastPorts
                  [] name = "none" -> <<>>
Selected(args) == OrDefault(ParsePortList(args.ports), Preset(args.preset))
MainPorts(args) ==
  LET excluded == Range(ParsePortList(args.exclude))
  IN  IF excluded = {} THEN Selected(args)
      ELSE Kept(OrDefault(Selected(args), DefaultPorts), (0..MaxPort) \ excluded)

\* resolve_scan_type, with args.syn set by -A.
ScanType(args) == IF args.syn /\ args.scan_type = "connect" THEN "syn" ELSE args.scan_type

Accepted(args) == ~Refused(args.ports) /\ ~Refused(args.exclude) /\ ~Refused(args.udp_ports)

\* What Hardener.run passes to the backend.
Configured(args) ==
  [scan_type |-> ScanType(args),
   tcp |-> OrDefault(MainPorts(args), DefaultPorts),
   udp |-> OrDefault(ParsePortList(args.udp_ports), DefaultUdpPorts)]
=============================================================================

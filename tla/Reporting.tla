------------------------------ MODULE Reporting ------------------------------
(***************************************************************************)
(* hardener/reporting.py: which ports and which findings each format of    *)
(* the report lists, and in which order.                                   *)
(*                                                                         *)
(* A report is [hosts, findings]; findings have a score.  The layout, and  *)
(* the escaping of texts, is left out.                                     *)
(***************************************************************************)
EXTENDS Integers, Lists

\* _port_rows
PortRow(host, port) == [ip |-> host.ip, port |-> port.port, protocol |-> port.protocol,
                        service |-> port.service, version |-> port.version]
OpenRows(host) == LET open == Kept(host.ports, {port \in ToSet(host.ports) : port.state = "open"})
                  IN  [i \in DOMAIN open |-> PortRow(host, open[i])]
PortRows(report) == FlattenSeq([i \in DOMAIN report.hosts |-> OpenRows(report.hosts[i])])

\* sorted(findings, key=risk_score, reverse=True): stable, the highest first.
ByRisk_Unstable(list) == Reverse(Sorted(list, [f \in ToSet(list) |-> f.score]))
ByRisk(list) == Sorted(list, [f \in ToSet(list) |-> 0 - f.score])

\* The formats.  The text lists the rows of each host's address under that host.
RowsUnder(rows, host) == Kept(rows, {row \in ToSet(rows) : row.ip = host.ip})
Txt(report) ==
  [ports |-> FlattenSeq([i \in DOMAIN report.hosts |-> RowsUnder(PortRows(report), report.hosts[i])]),
   findings |-> ByRisk(report.findings)]
Xml(report) == [ports |-> PortRows(report), findings |-> ByRisk(report.findings)]
Html(report) == [ports |-> PortRows(report), findings |-> ByRisk(report.findings)]
Csv(report) == [findings |-> report.findings]

\* JSON lists the ports of every state, with it.
Json(report) ==
  [ports |-> FlattenSeq([i \in DOMAIN report.hosts |->
               [k \in DOMAIN report.hosts[i].ports |->
                  [row |-> PortRow(report.hosts[i], report.hosts[i].ports[k]),
                   state |-> report.hosts[i].ports[k].state]]]),
   findings |-> report.findings]

\* The grepable file: hosts that are up, their open ports by number.
ByPort(rows) == Sorted(rows, [row \in ToSet(rows) |-> row.port])
Grepable(report) ==
  LET up == Kept(report.hosts, {host \in ToSet(report.hosts) : host.alive})
  IN  [ports |-> FlattenSeq([i \in DOMAIN up |-> ByPort(OpenRows(up[i]))])]
=============================================================================

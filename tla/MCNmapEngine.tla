---------------------------- MODULE MCNmapEngine ----------------------------
(* Instances of NmapEngine for TLC. *)
EXTENDS NmapEngine

One(p) == Ports(p, p)
Default == <<3, 4>>
DefaultUdp == <<2>>
Fast == <<2, 3>>

\* Descending, overlapping and repeated ranges, blanks, both ends of the ports,
\* lists that are refused, and one that needs more than the shortest budget.
Values == {<<>>, <<Blank>>, <<One(0)>>, <<One(9)>>, <<One(2), One(1)>>, <<One(3), One(1), One(2)>>,
           <<Ports(1, 3), Ports(2, 4)>>, <<Ports(2, 3), One(2), Blank, One(1)>>,
           <<One(3), One(5), One(4)>>, <<One(1), One(3)>>, <<One(9), Ports(8, 9)>>,
           <<One(8), Ports(1, 3), Ports(5, 7)>>,
           <<Ports(9, 10)>>, <<Ports(3, 2)>>, <<One(-1)>>, <<One(1), Junk>>}
Excludes == {<<>>, <<One(3)>>, <<Ports(2, 4), One(9)>>}

Line == [ports : Values, preset : {"none", "fast"}, exclude : Excludes,
         syn : BOOLEAN, scan_type : {"connect", "null"}, udp : BOOLEAN,
         udp_ports : {<<>>}, host_timeout : {0}]
AllPorts == [ports : {<<>>}, preset : {"all"}, exclude : {<<Ports(2, 9)>>},
             syn : {TRUE}, scan_type : {"connect"}, udp : {TRUE},
             udp_ports : Values, host_timeout : {20}]
AllLines == Line \cup AllPorts
=============================================================================

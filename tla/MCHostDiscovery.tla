-------------------------- MODULE MCHostDiscovery --------------------------
(* An instance of TtlReader for TLC. *)
EXTENDS TtlReader

\* -PE -PU: the chain has a gap where tcp and ack would be.
IcmpUdpHttp == {"icmp", "udp", "http"}
=============================================================================

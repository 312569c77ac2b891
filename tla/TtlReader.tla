------------------------------ MODULE TtlReader ------------------------------
(***************************************************************************)
(* _ttl_from_ping of hardener/os_fingerprint.py, as stage 8 of the engine  *)
(* calls it: after the discovery, for one host of its list at a time.      *)
(*                                                                         *)
(* It opens a raw ICMP socket of its own, which hears what the sockets of  *)
(* HostDiscovery hear, and takes the TTL of the first echo reply that      *)
(* comes, whosever it is: its identifier is a constant and is not even     *)
(* looked at.                                                              *)
(***************************************************************************)
EXTENDS HostDiscovery

CONSTANT FixedIdent     \* ident = 0x42

ASSUME FixedIdentAssumption == FixedIdent \in Idents

VARIABLES
  read,         \* hosts of the list that are done
  waiting,      \* the raw socket is open, the request sent
  packets,      \* what it has received and not been asked for
  ttl,          \* the reply each host's TTL was taken from
  flying        \* history: the replies in flight when each host was asked

readerVars == <<read, waiting, packets, ttl, flying>>
allVars == <<vars, readerVars>>

Unread == [from |-> None, ident |-> None]
NoTtl == [from |-> None, ident |-> "no reply"]

ReaderInit == /\ Init
              /\ read = 0 /\ waiting = FALSE /\ packets = <<>>
              /\ ttl = [a \in Addresses |-> Unread] /\ flying = [a \in Addresses |-> {}]

Host == hosts[read + 1]

\* The host at hand has its TTL, or has none; the socket is closed, with what it
\* has not been asked for.
Closed_Kept(rest) == rest
Closed(rest) == <<>>
Learn(r) == /\ ttl' = [ttl EXCEPT ![Host] = r]
            /\ read' = read + 1 /\ waiting' = FALSE

\* Without the privilege there is no socket, and no TTL.
AskTtl ==
  /\ over /\ read < Len(hosts) /\ ~waiting
  /\ \/ /\ waiting' = TRUE
        /\ pings' = pings \cup {[to |-> Host, ident |-> FixedIdent]}
        /\ net' \in {net, net \cup {Reply(Host, FixedIdent)}}
        /\ flying' = [flying EXCEPT ![Host] = net']
        /\ UNCHANGED <<read, ttl>>
     \/ Learn(NoTtl) /\ UNCHANGED <<pings, net, flying>>
  /\ UNCHANGED <<queue, wpc, task, ident, inbox, strays, found, poolVars, tried, packets>>

TakeTtl ==
  /\ waiting /\ packets # <<>>
  /\ Learn(Head(packets))
  /\ packets' = Closed(Tail(packets))
  /\ UNCHANGED <<vars, flying>>

TtlTimeout ==
  /\ waiting /\ packets = <<>>
  /\ Learn(NoTtl)
  /\ UNCHANGED <<vars, packets, flying>>

ReaderStep == AskTtl \/ TakeTtl \/ TtlTimeout

\* A reply that comes in is heard by this socket too.
Hear(r) == /\ packets' = IF waiting THEN Append(packets, r) ELSE packets
           /\ UNCHANGED <<read, waiting, ttl, flying>>

ReaderNext ==
  \/ ReaderStep
  \/ (MainStep \/ \E w \in Workers : WorkerStep(w)) /\ UNCHANGED readerVars
  \/ \E r \in net : Arrive(r) /\ Hear(r)
  \/ \E id \in Idents : Stray(id) /\ Hear(Reply(None, id))

ReaderSpec == /\ ReaderInit /\ [][ReaderNext]_allVars
              /\ WF_allVars(MainStep /\ UNCHANGED readerVars)
              /\ \A w \in Workers : WF_allVars(WorkerStep(w) /\ UNCHANGED readerVars)
              /\ WF_allVars(ReaderStep)
-----------------------------------------------------------------------------
(***************************************************************************)
(* A host is fingerprinted by the TTL of another host of the list only if  *)
(* that one's reply was still on its way when this one was asked: a reply  *)
(* that came in while an earlier host was asked is never taken for a later *)
(* one's, though the reader takes whatever comes first (fingerprint_os).   *)
(***************************************************************************)
TtlIsFresh ==
  \A a \in Addresses : ttl[a].from \notin {a, None} => ttl[a] \in flying[a]

(***************************************************************************)
(* discover_hosts returns, and every host it returned is fingerprinted,    *)
(* whatever is lost, late or mixed up, provided that replies to others do  *)
(* not come in for ever (each restarts the timeout of every raw socket;    *)
(* here there are at most Strays).                                         *)
(***************************************************************************)
DiscoveryEnds == <>(over /\ read = Len(hosts))
=============================================================================

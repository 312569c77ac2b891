----------------------------- MODULE AlivePromise -----------------------------
(***************************************************************************)
(* What host discovery (hardener/host_discovery.py) promises the engine:   *)
(* each address gets one verdict, once and for all, and the list that is   *)
(* handed over has those found alive, each once, in any order.  A check    *)
(* that raised leaves its address out.  Threads, probes and the network    *)
(* are left out.                                                           *)
(***************************************************************************)
EXTENDS Sequences, SequencesExt

CONSTANT Addresses

VARIABLES verdict,  \* undecided, alive, down or raised
          list,     \* what the engine goes on with
          over

vars == <<verdict, list, over>>

Init == verdict = [a \in Addresses |-> "undecided"] /\ list = <<>> /\ over = FALSE

Decide(a) == /\ verdict[a] = "undecided"
             /\ \E v \in {"alive", "down", "raised"} : verdict' = [verdict EXCEPT ![a] = v]
             /\ UNCHANGED <<list, over>>

HandOver == /\ ~over /\ \A a \in Addresses : verdict[a] # "undecided"
            /\ list' \in SetToSeqs({a \in Addresses : verdict[a] = "alive"})
            /\ over' = TRUE
            /\ UNCHANGED verdict

Next == HandOver \/ \E a \in Addresses : Decide(a)

Spec == Init /\ [][Next]_vars
=============================================================================

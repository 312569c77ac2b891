----------------------------- MODULE ScanPromise -----------------------------
(***************************************************************************)
(* What a port scan (hardener/port_scanner.py) promises the engine: every  *)
(* port asked for is decided once -- classified, dropped because its probe *)
(* raised, or skipped without ever being probed -- and the call does not   *)
(* come back while a port is undecided or being probed.  A scan that is    *)
(* interrupted comes back without results, and not in the middle of a      *)
(* probe either.  Threads, queues, retries and pacing are left out.        *)
(***************************************************************************)
EXTENDS FiniteSets

CONSTANT Ports

VARIABLES fate,     \* what became of each port
          over      \* "no", "returned" or "interrupted"

vars == <<fate, over>>

Undecided == {"pending", "probing"}
Decided == {"classified", "dropped", "skipped"}

Init == fate = [p \in Ports |-> "pending"] /\ over = "no"

Begin(p) == /\ fate[p] = "pending"
            /\ fate' = [fate EXCEPT ![p] = "probing"]

\* A port's probing comes to a verdict, or raises; once.
Decide(p) == /\ fate[p] = "probing"
             /\ \E d \in {"classified", "dropped"} : fate' = [fate EXCEPT ![p] = d]

\* The scan gives up on ports it has not begun, all at one point.
Skip(S) == /\ S # {} /\ \A p \in S : fate[p] = "pending"
           /\ fate' = [p \in Ports |-> IF p \in S THEN "skipped" ELSE fate[p]]

Return == /\ \A p \in Ports : fate[p] \in Decided
          /\ over' = "returned"

Interrupted == /\ \A p \in Ports : fate[p] # "probing"
               /\ over' = "interrupted"

Next == \/ over = "no" /\ UNCHANGED over /\ \/ \E p \in Ports : Begin(p) \/ Decide(p)
                                            \/ \E S \in SUBSET Ports : Skip(S)
        \/ over = "no" /\ UNCHANGED fate /\ (Return \/ Interrupted)

Spec == Init /\ [][Next]_vars
=============================================================================

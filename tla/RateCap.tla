------------------------------- MODULE RateCap -------------------------------
(***************************************************************************)
(* What hardener/ratelimit.py promises its callers: "Enforces a            *)
(* conservative cap on how fast probes are emitted regardless of thread    *)
(* count".  Nothing of the implementation is here: no threads, no lock, no *)
(* sleep.  Permissions to send are granted at instants of real time, and   *)
(* two consecutive grants are at least Gap apart.                          *)
(***************************************************************************)
EXTENDS Integers, Sequences

CONSTANT Gap        \* a natural number: the least time between two consecutive grants

VARIABLES now,      \* real (monotonic) time
          grants    \* the instants at which a permission was granted, in order

vars == <<now, grants>>

Init == now \in Nat /\ grants = <<>>

\* The earliest instant at which the next permission may be granted.
Due == grants = <<>> \/ now >= grants[Len(grants)] + Gap

Grant == /\ Due
         /\ grants' = Append(grants, now)
         /\ UNCHANGED now

Tick == now' = now + 1 /\ UNCHANGED grants

Next == Grant \/ Tick

Spec == Init /\ [][Next]_vars
=============================================================================

----------------------------- MODULE MCScanPool -----------------------------
(* Instances of ScanPool for TLC. *)
EXTENDS ScanPool

CONSTANTS p1, p2, p3, w1, w2

TwoPorts == <<p1, p2>>
ThreePorts == <<p1, p2, p3>>

\* The pool's threads are interchangeable.
WorkerSymmetry == Permutations({w1, w2})
=============================================================================

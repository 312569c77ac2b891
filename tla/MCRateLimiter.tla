---------------------------- MODULE MCRateLimiter ----------------------------
(* Instances of RateLimiter for TLC: the threads are t1, t2 and t3. *)
EXTENDS RateLimiter, TLC

CONSTANTS t1, t2, t3
==============================================================================

--------------------------- MODULE ScopeValidator ---------------------------
(***************************************************************************)
(* hardener/scope_validator.py: the decision on one target.                *)
(*                                                                         *)
(* A scope is a record of the sets of addresses its networks cover         *)
(* (allowed, excluded), the host names and the addresses blocked_assets    *)
(* match (blocked), and its window: None; or the first and last minute of  *)
(* the day, both included; or what is no text and cannot be read.          *)
(***************************************************************************)
EXTENDS Naturals

NoWindow == [from |-> 0, to |-> 0, set |-> FALSE, text |-> TRUE]

WindowAllows_AlwaysWraps(w, time) == ~w.set \/ ~w.text \/ time >= w.from \/ time <= w.to

\* _scan_window_allowed: a window whose end comes before its start spans
\* midnight, one that cannot be read (`except Exception') allows everything.
WindowAllows(w, time) ==
  \/ ~w.set \/ ~w.text
  \/ IF w.from <= w.to THEN w.from <= time /\ time <= w.to
                       ELSE time >= w.from \/ time <= w.to

IpInScope_AllowedWins(scope, ip) == ip \in scope.allowed

\* _ip_in_scope: an exclusion wins.
IpInScope(scope, ip) == ip \notin scope.excluded /\ ip \in scope.allowed

\* validate, in the order of its checks.  A target that did not resolve has no
\* address to be checked.
Verdict(scope, authorized, time, t) ==
  CASE ~authorized -> "unauthorised"
    [] authorized /\ ~WindowAllows(scope.window, time) -> "outside window"
    [] OTHER ->
         IF t.ip # "none" /\ ~IpInScope(scope, t.ip) THEN "out of scope"
         ELSE IF t.hostname \in scope.blocked \/ t.ip \in scope.blocked THEN "blocked"
         ELSE "allowed"
=============================================================================

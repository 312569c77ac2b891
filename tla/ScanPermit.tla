----------------------------- MODULE ScanPermit -----------------------------
(***************************************************************************)
(* What the tool promises about whom it touches (hardener/                 *)
(* scope_validator.py: "The tool will not proceed against a target unless  *)
(* it is in scope AND the operator has confirmed authorisation"): an       *)
(* address is cleared only after the operator's consent and only if the    *)
(* scope permits it, and packets go to cleared addresses only.  How        *)
(* targets are parsed, expanded, discovered and scanned is left out.       *)
(***************************************************************************)
EXTENDS FiniteSets

VARIABLES permitted,    \* the addresses the scope permits; never changes
          consent,      \* the operator has confirmed the authorisation
          cleared,      \* addresses the record says may be touched
          touched       \* addresses a packet was sent to

vars == <<permitted, consent, cleared, touched>>

Init == consent \in BOOLEAN /\ cleared = {} /\ touched = {}

Confirm == consent' = TRUE /\ UNCHANGED <<permitted, cleared, touched>>

Clear == /\ consent
         /\ cleared \subseteq cleared' /\ cleared' \subseteq cleared \cup permitted
         /\ UNCHANGED <<permitted, consent, touched>>

Touch == /\ touched \subseteq touched' /\ touched' \subseteq touched \cup cleared
         /\ UNCHANGED <<permitted, consent, cleared>>

Next == Confirm \/ Clear \/ Touch

Spec == Init /\ [][Next]_vars
=============================================================================

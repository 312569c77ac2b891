-------------------------------- MODULE Config --------------------------------
(***************************************************************************)
(* The tables of hardener/config.py that the analysis of a host reads.     *)
(***************************************************************************)
EXTENDS Sequences

CONSTANTS INSECURE_SERVICES,    \* lower-case service -> level
          SECURITY_HEADERS,     \* the headers, in order
          SENSITIVE_PATHS       \* the paths asked for, in order

ASSUME TablesAssumption == /\ SECURITY_HEADERS \in Seq(STRING)
                           /\ SENSITIVE_PATHS \in Seq(STRING)
=============================================================================

-------------------------------- MODULE CveDb --------------------------------
(***************************************************************************)
(* hardener/cve_db.py: which software a service is, which version a banner *)
(* tells, and which entries of the database that version falls under.      *)
(*                                                                         *)
(* A text (a banner, a version string) is what the program's patterns find *)
(* in it: the software it names (at most one, which its signature and its  *)
(* pattern agree on), the numbers that follow that name, the numbers of a  *)
(* leading protocol prefix ("SSH-2.0", "HTTP/1.1", "220 ") and all those   *)
(* after it, and the marker words.  A version is a tuple of numbers.       *)
(***************************************************************************)
EXTENDS Integers, Lists

CONSTANTS CVE_DB,               \* the entries: [software, cve, cvss, introduced, fixed], in order
          SERVICE_TO_SOFTWARE,  \* lower-case service -> key
          VERSION_PATTERNS,     \* the keys that have a pattern of their own
          LowerCase             \* str.lower of the services' names

Entries == [software : STRING, cve : STRING, cvss : Nat, introduced : Seq(Nat), fixed : Seq(Nat)]
ASSUME CveAssumption ==
  /\ CVE_DB \in Seq(Entries)
  /\ \A e \in ToSet(CVE_DB) : /\ e.software # "" /\ e.cve \notin {"", "none"}
                             /\ Len(e.introduced) <= 4 /\ Len(e.fixed) <= 4

\* The empty string, and a text that is not empty.
NoText == [product |-> "", numbers |-> <<>>, prefix |-> <<>>, digits |-> <<>>, words |-> {}]
Text(product, numbers, digits, words) ==
  [product |-> product, numbers |-> numbers, prefix |-> <<>>, digits |-> digits,
   words |-> words \cup {"text"}]

First(n, s) == SubSeq(s, 1, IF n < Len(s) THEN n ELSE Len(s))

\* version_tuple(extract_version): the numbers after the software's name, up to four;
\* else the first three after the prefix; a text that has none is taken as it is.
ExtractVersion_AllDigits(key, text) ==
  IF key \in VERSION_PATTERNS /\ text.product = key /\ text.numbers # <<>>
  THEN First(4, text.numbers) ELSE First(3, text.prefix \o text.digits)
ExtractVersion(key, text) ==
  IF key \in VERSION_PATTERNS /\ text.product = key /\ text.numbers # <<>>
  THEN First(4, text.numbers)
  ELSE IF text.digits # <<>> THEN First(3, text.digits) ELSE First(4, text.prefix)

\* match_software_aliases: by the service, else by a signature in the text (the name of
\* no other service has one); "" if neither.
MatchSoftwareAliases(service, text) ==
  IF LowerCase[service] \in DOMAIN SERVICE_TO_SOFTWARE
  THEN SERVICE_TO_SOFTWARE[LowerCase[service]] ELSE text.product

\* Tuples compare as Python's: the first difference decides, a prefix is smaller.
Less(v, w) == \E i \in DOMAIN w : /\ \A j \in 1..(i - 1) : j \in DOMAIN v /\ v[j] = w[j]
                                  /\ i \in DOMAIN v => v[i] < w[i]

\* match_cves
Affects(entry, version) ==
  ~Less(version, entry.introduced) /\ (entry.fixed = <<>> \/ Less(version, entry.fixed))
MatchCves(key, text) ==
  LET version == ExtractVersion(key, text)
  IN  Kept(CVE_DB, {e \in ToSet(CVE_DB) : /\ version # <<>> /\ e.software = key
                                         /\ Affects(e, version)})
=============================================================================

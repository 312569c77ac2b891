---------------------------- MODULE InputHandler ----------------------------
(***************************************************************************)
(* hardener/input_handler.py: from the words of the command line to the    *)
(* targets of the engine, and from those to single hosts.                  *)
(*                                                                         *)
(* A word is an opaque value; Form says what _parse_single recognises in   *)
(* it, Name the host name it holds, Addresses the address or the addresses *)
(* it stands for.  A name resolves through Resolve (host_to_ip, external), *)
(* to None when there is no such host.                                     *)
(***************************************************************************)
EXTENDS Naturals, Sequences, SequencesExt

CONSTANTS Words,        \* what may be written on the command line
          Form,         \* [Words -> "ip" | "cidr" | "hostname" | "url" | "url to ip"
                        \*            | "blank" (a URL without a host) | "junk"]
          Name,         \* [Words -> a host name, for "hostname" and "url"]
          Addresses,    \* [Words -> a sequence of addresses]
          Resolve,      \* function from names to an address or None
          MaxTargets    \* MAX_TARGETS

None == "none"

\* An address stands for itself, and so does every address of a network that is
\* also written on the command line; no address and no name is None.
ASSUME InputAssumption ==
  \A w \in Words :
    /\ Form[w] \in {"ip", "cidr", "hostname", "url", "url to ip", "blank", "junk"}
    /\ Form[w] \in {"hostname", "url"} => Name[w] # None
    /\ Form[w] = "ip" => Addresses[w] = <<w>>
    /\ Form[w] = "url to ip" => Len(Addresses[w]) = 1
    /\ Form[w] = "cidr" => \A v \in Range(Addresses[w]) \cap Words : Form[v] = "ip"
    /\ Form[w] \in {"ip", "cidr", "url to ip"} =>
         Addresses[w] \in Seq(Range(Addresses[w]) \ {None})

Target(raw, kind, hostname, ip, ips) ==
  [raw |-> raw, kind |-> kind, hostname |-> hostname, ip |-> ip, ip_list |-> ips]

\* A network that is too large, or a word that is nothing known, is an error
\* that ends the program.
IsError(word) == \/ Form[word] = "junk"
                 \/ Form[word] = "cidr" /\ Len(Addresses[word]) > MaxTargets

\* _parse_single.  A URL keeps an empty ip_list, whether its host is a name or
\* an address, in which case it also has that address as its hostname.
Parse(word) ==
  LET addr == Resolve[Name[word]]
  IN  CASE Form[word] = "url" ->
             Target(word, "url", Name[word], addr, <<>>)
        [] Form[word] = "url to ip" ->
             Target(word, "single_ip", Addresses[word][1], Addresses[word][1], <<>>)
        [] Form[word] = "ip" ->
             Target(word, "single_ip", None, Addresses[word][1], Addresses[word])
        [] Form[word] = "cidr" ->
             Target(word, "cidr", None, None, Addresses[word])
        [] Form[word] = "hostname" ->
             Target(word, "hostname", Name[word], addr,
                    IF addr = None THEN <<>> ELSE <<addr>>)

\* The key by which parse_targets drops repeated targets.  A network is known by
\* the addresses it covers, however it was written.
Key(t) == <<t.kind, IF t.hostname # None THEN t.hostname
                    ELSE IF t.ip # None THEN t.ip ELSE t.ip_list>>

\* parse_targets, of words none of which is an error: in order, without those
\* that hold nothing, the first of each key.
ParseTargets(words) ==
  LET Add(ts, w) == IF \/ Form[w] = "blank"
                       \/ \E t \in Range(ts) : Key(t) = Key(Parse(w))
                    THEN ts ELSE Append(ts, Parse(w))
  IN  FoldLeft(Add, <<>>, words)

\* expand_targets: a network becomes one single_ip target per address, which
\* is called by that address.
ExpandOne(t) == IF t.kind = "cidr"
                THEN [i \in DOMAIN t.ip_list |->
                        Target(t.ip_list[i], "single_ip", None, t.ip_list[i], <<t.ip_list[i]>>)]
                ELSE <<t>>
Expand(ts) == FlattenSeq([i \in DOMAIN ts |-> ExpandOne(ts[i])])
=============================================================================

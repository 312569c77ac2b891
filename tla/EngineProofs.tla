---------------------------- MODULE EngineProofs ----------------------------
(***************************************************************************)
(* The properties of the run as a whole (Engine), for every command line,  *)
(* scope file and network.                                                 *)
(*                                                                         *)
(* IInv has three layers. Intent and Vetted follow the targets: what is    *)
(* validated, approved and expanded comes from the words of the command    *)
(* line, has an "allowed" entry in the audit log, and, once a packet is    *)
(* sent, is not excluded. Reached ties packets to targets: before the      *)
(* approval nothing is sent, and afterwards only to addresses of approved  *)
(* targets. Progress ties the log to the loops: while a stage is at its    *)
(* n-th host, the log has the first n - 1 of them.                         *)
(***************************************************************************)
EXTENDS Engine, ListFacts

Consenting == {"main", "intake", "confirm", "prompt", "validate"}
Visiting == {"scan", "enumerate", "audit web", "fingerprint", "analyse"}
Working == {"dns", "discover", "report"} \cup Visiting

Singles == UNION {Range(ExpandOne(u)) : u \in Range(targets)}
Destinations == UNION {TargetAddresses(t) : t \in Range(approved)}
Allowed(t) == Entry(2, t.raw, "allowed") \in Range(log)

\* What is validated and approved comes from the command line.
Intent ==
  /\ targets \in Seq(Parsed)
  /\ Range(todo) \cup Range(approved) \subseteq Singles
  /\ pc = "main" => targets = <<>> /\ todo = <<>> /\ approved = <<>> /\ log = <<>>

\* What is approved has been validated and, later, is not excluded.
Vetted ==
  /\ \A t \in Range(approved) : Allowed(t) /\ t.hostname \notin args.scope.blocked
  /\ pc \in Working \/ sent # {} => \A t \in Range(approved) : ~Excluded(t)

\* Nothing happens before the approval, and packets go where an approved target is.
Reached ==
  /\ pc \in Consenting \cup {"dns"} =>
       sent = {} /\ queried = {} /\ hosts = <<>> /\ pending = {} /\ open = << >>
  /\ pc \in Consenting \cup Working /\ reports > 0 => pc = "report"
  /\ pending \cup Range(hosts) \cup Touched \subseteq Destinations
  /\ Range(hosts) \subseteq Touched

\* Where a stage is in the list of the hosts, and what the log has of it.
Progress ==
  /\ pc \in Visiting => at \in 1..Len(hosts) /\ ~args.ping_sweep
  /\ pc \in Consenting \cup {"dns", "discover"} => Subjects(4) = <<>>
  /\ pc \in Visiting \cup {"report"} => Subjects(4) = hosts
  /\ pc \in Consenting \cup {"dns", "discover"} => Subjects(5) = <<>>
  /\ pc = "scan" => Subjects(5) = SubSeq(hosts, 1, at - 1)
  /\ pc \in Visiting \ {"scan"} => Subjects(5) = hosts
  /\ pc = "report" => Subjects(5) = IF args.ping_sweep THEN <<>> ELSE hosts
  /\ pc \in Consenting \cup {"dns", "discover"} \cup (Visiting \ {"analyse"}) => Subjects(9) = <<>>
  /\ pc = "analyse" => Subjects(9) = SubSeq(hosts, 1, at - 1)
  /\ pc = "report" => Subjects(9) = Subjects(5)
  /\ pc \in Visiting => \A ip \in Range(hosts) : Entry(4, ip, "alive") \in Range(log)
  /\ pc \in {"dns", "discover"} => \A s \in sent : s.stage = 4

IInv == /\ TypeOK /\ Intent /\ Vetted /\ Reached /\ Progress
        /\ AskedBelowCleared /\ AbortedRunIsSilent /\ TraceableRun

-----------------------------------------------------------------------------
\* One more word, as parse_targets takes it.
Adding(ts, w) == IF \/ Form[w] = "blank"
                    \/ \E t \in Range(ts) : Key(t) = Key(Parse(w))
                 THEN ts ELSE Append(ts, Parse(w))
ParseIterates(f, words) ==
  \A r \in SUBSET (1..Len(words)) :
    f[r] = IF r = {} THEN <<>> ELSE Adding(f[r \ {Max(r)}], words[Max(r)])

\* parse_targets as an iteration over its words: FoldLeft's definition,
\* unfolded.
LEMMA ParseIs ==
  ASSUME NEW words \in Seq(Words), \A i \in 1..Len(words) : ~IsError(words[i])
  PROVE  \E f : ParseIterates(f, words) /\ ParseTargets(words) = f[1..Len(words)]
<1> DEFINE n == Len(words)
           S == Seq(Parsed)
           step == [p \in S \X (1..n) |-> Adding(p[1], words[p[2]])]
           Eqn(it) == it = [r \in SUBSET DOMAIN words |->
                              IF r = {} THEN <<>> ELSE Adding(it[r \ {Max(r)}], words[Max(r)])]
           f == CHOOSE it : Eqn(it)
<1>1. n \in Nat /\ DOMAIN words = 1..n /\ \A i \in 1..n : words[i] \in Words
  BY LenProperties
<1>2. step \in [S \X (1..n) -> S]
  <2>1. ASSUME NEW p \in S \X (1..n) PROVE Adding(p[1], words[p[2]]) \in S
    <3>1. p[1] \in S /\ words[p[2]] \in Words /\ ~IsError(words[p[2]])
      BY <1>1
    <3>2. CASE Form[words[p[2]]] = "blank"
      BY <3>1, <3>2 DEF Adding
    <3>3. CASE Form[words[p[2]]] # "blank"
      <4>1. Parse(words[p[2]]) \in Parsed
        BY <3>1, <3>3 DEF Parsed
      <4>2. QED
        BY <3>1, <4>1 DEF Adding
    <3>4. QED
      BY <3>2, <3>3
  <2>2. QED
    BY <2>1
<1>3. <<>> \in S
  BY EmptySeq
<1>4. PICK g \in [SUBSET (1..n) -> S] : Iterates(g, <<>>, step, n)
  <2> HIDE DEF step, n, S
  <2>1. QED
    BY <1>1, <1>2, <1>3, IterationExists
<1>5. ASSUME NEW r \in SUBSET (1..n)
      PROVE  g[r] = IF r = {} THEN <<>> ELSE Adding(g[r \ {Max(r)}], words[Max(r)])
  <2>1. CASE r = {}
    BY <1>4, <2>1 DEF Iterates
  <2>2. CASE r # {}
    <3>1. Max(r) \in 1..n
      BY <1>1, <1>5, <2>2, MaxOfFinite
    <3>2. g[r \ {Max(r)}] \in S
      BY <1>4
    <3>3. g[r] = step[<<g[r \ {Max(r)}], Max(r)>>]
      BY <1>4, <2>2 DEF Iterates
    <3>4. QED
      BY <2>2, <3>1, <3>2, <3>3
  <2>3. QED
    BY <2>1, <2>2
<1>6. Eqn(g)
  <2>1. g = [r \in SUBSET (1..n) |-> g[r]]
    BY <1>4
  <2>2. QED
    BY <1>1, <1>5, <2>1
<1>7. Eqn(f)
  BY <1>6
<1>8. ParseTargets(words) = f[DOMAIN words]
  BY DEF ParseTargets, FoldLeft, MapThenFoldSet, Adding
<1> HIDE DEF f
<1>9. ParseIterates(f, words)
  BY <1>1, <1>7 DEF ParseIterates
<1>10. QED
  BY <1>1, <1>8, <1>9

\* Words that are no errors are parsed into targets.
LEMMA ParseType ==
  ASSUME NEW words \in Seq(Words), \A i \in 1..Len(words) : ~IsError(words[i])
  PROVE  ParseTargets(words) \in Seq(Parsed)
<1> DEFINE n == Len(words)
<1>1. n \in Nat /\ \A i \in 1..n : words[i] \in Words
  BY LenProperties
<1>2. PICK f : ParseIterates(f, words) /\ ParseTargets(words) = f[1..n]
  BY ParseIs
<1>3. f[1..0] = <<>>
  <2>1. 1..0 = {} /\ 1..0 \in SUBSET (1..n)
    OBVIOUS
  <2>2. QED
    BY <1>2, <2>1 DEF ParseIterates
<1>4. ASSUME NEW k \in 1..n PROVE f[1..k] = Adding(f[1..(k - 1)], words[k])
  <2>1. k \in Nat /\ k # 0 /\ 1..k \in SUBSET (1..n)
    BY <1>1
  <2>2. Max(1..k) = k /\ (1..k) \ {Max(1..k)} = 1..(k - 1) /\ 1..k # {}
    BY <2>1, LastOfInterval
  <2>3. QED
    BY <1>2, <2>1, <2>2 DEF ParseIterates
<1> DEFINE G == {k \in 0..n : f[1..k] \in Seq(Parsed)}
<1>5. 0 \in G
  <2>1. <<>> \in Seq(Parsed) /\ 0 \in 0..n
    BY <1>1, EmptySeq
  <2>2. QED
    BY <1>3, <2>1
<1>6. ASSUME NEW k \in 0..(n - 1), k \in G PROVE k + 1 \in G
  <2>1. k + 1 \in 1..n /\ (k + 1) - 1 = k /\ k + 1 \in 0..n
    BY <1>1
  <2>2. f[1..(k + 1)] = Adding(f[1..k], words[k + 1])
    BY <1>4, <2>1
  <2>3. words[k + 1] \in Words /\ ~IsError(words[k + 1]) /\ f[1..k] \in Seq(Parsed)
    BY <1>1, <1>6, <2>1
  <2>4. Form[words[k + 1]] # "blank" => Parse(words[k + 1]) \in Parsed
    BY <2>3 DEF Parsed
  <2>5. Form[words[k + 1]] # "blank" => Append(f[1..k], Parse(words[k + 1])) \in Seq(Parsed)
    BY <2>3, <2>4
  <2>6. f[1..(k + 1)] \in Seq(Parsed)
    BY <2>2, <2>3, <2>5 DEF Adding
  <2>7. QED
    BY <2>1, <2>6
<1> HIDE DEF G
<1>7. n \in G
  <2>1. \A k \in 0..n : k \in G
    BY <1>1, <1>5, <1>6, Climb
  <2>2. QED
    BY <1>1, <2>1
<1>8. QED
  BY <1>2, <1>7 DEF G

-----------------------------------------------------------------------------
\* A parsed target keeps its word; only a network has more than one address.
LEMMA ParsedFacts ==
  ASSUME NEW w \in Words, Form[w] # "blank", ~IsError(w), NEW t, t = Parse(w)
  PROVE  /\ t.raw = w
         /\ t.kind # "cidr" => TargetAddresses(t) \subseteq {t.ip} \ {None}
         /\ t.kind = "cidr" <=> Form[w] = "cidr"
         /\ t.kind = "cidr" => t.ip_list = Addresses[w]
         /\ Form[w] = "ip" => t.ip = w
<1>1. /\ Form[w] \in {"ip", "cidr", "hostname", "url", "url to ip"}
      /\ Form[w] = "ip" => Addresses[w] = <<w>>
      /\ Form[w] = "url to ip" => Len(Addresses[w]) = 1
      /\ Form[w] \in {"ip", "cidr", "url to ip"} =>
           Addresses[w] \in Seq(Range(Addresses[w]) \ {None})
  BY InputAssumption DEF IsError
<1>2. CASE Form[w] = "ip"
  <2>1. Parse(w) = Target(w, "single_ip", None, w, <<w>>)
    BY <1>1, <1>2 DEF Parse
  <2>2. Range(<<w>>) = {w}
    BY DEF Range
  <2>3. w # None
    <3>1. <<w>> \in Seq({w} \ {None})
      BY <1>1, <1>2, <2>2
    <3>2. \A S : <<w>> \in Seq(S) => w \in S
      <4>1. ASSUME NEW S, <<w>> \in Seq(S) PROVE <<w>>[1] \in S
        BY <4>1, ElementOfSeq
      <4>2. QED
        BY <4>1
    <3>3. QED
      BY <3>1, <3>2
  <2>4. <<w>> # <<>>
    OBVIOUS
  <2>5. QED
    BY <1>2, <2>1, <2>2, <2>3, <2>4 DEF Target, TargetAddresses
<1>3. CASE Form[w] = "cidr"
  <2>1. Parse(w) = Target(w, "cidr", None, None, Addresses[w])
    BY <1>3 DEF Parse
  <2>2. QED
    BY <1>3, <2>1 DEF Target
<1>4. CASE Form[w] = "url to ip"
  <2> DEFINE addr == Addresses[w][1]
  <2>1. Parse(w) = Target(w, "single_ip", addr, addr, <<>>)
    BY <1>4 DEF Parse
  <2> HIDE DEF addr
  <2>2. t.raw = w /\ t.kind = "single_ip" /\ t.ip = addr /\ t.ip_list = <<>>
    BY ONLY <2>1, t = Parse(w) DEF Target
  <2>3. TargetAddresses(t) = {t.ip} \ {None}
    BY <2>2 DEF TargetAddresses
  <2>4. QED
    BY <1>4, <2>2, <2>3
<1>5. CASE Form[w] = "url"
  <2>1. Parse(w) = Target(w, "url", Name[w], Resolve[Name[w]], <<>>)
    BY <1>5 DEF Parse
  <2>2. QED
    BY <1>5, <2>1 DEF Target, TargetAddresses
<1>6. CASE Form[w] = "hostname"
  <2> DEFINE addr == Resolve[Name[w]]
  <2>1. Parse(w) = Target(w, "hostname", Name[w], addr, IF addr = None THEN <<>> ELSE <<addr>>)
    BY <1>6 DEF Parse
  <2>2. <<addr>> # <<>> /\ Range(<<addr>>) = {addr}
    BY DEF Range
  <2>3. QED
    BY <1>6, <2>1, <2>2 DEF Target, TargetAddresses
<1>7. QED
  BY <1>1, <1>2, <1>3, <1>4, <1>5, <1>6

\* The targets one target becomes: where their packets go and what they are called.
LEMMA SingleFacts ==
  ASSUME NEW u \in Parsed, NEW t \in Range(ExpandOne(u))
  PROVE  /\ t \in TargetSet
         /\ TargetAddresses(t) \subseteq {t.ip} \ {None}
         /\ TargetAddresses(t) \subseteq Places
         /\ t.raw \in Words => t = Parse(t.raw) \/ t.ip = Parse(t.raw).ip
         /\ t.raw \notin Words => t.ip = t.raw
<1>1. PICK w \in Words : Form[w] # "blank" /\ ~IsError(w) /\ u = Parse(w)
  BY DEF Parsed
<1>2. t \in TargetSet
  BY DEF TargetSet
<1>3. TargetAddresses(t) \subseteq Places
  BY <1>2 DEF Places
<1>4. CASE u.kind # "cidr"
  <2>1. Range(ExpandOne(u)) = {u}
    BY <1>4 DEF ExpandOne, Range
  <2>2. t = Parse(w)
    BY <1>1, <2>1
  <2>3. t.raw = w /\ TargetAddresses(t) \subseteq {t.ip} \ {None}
    BY <1>1, <1>4, <2>2, ParsedFacts
  <2>4. QED
    BY <1>1, <1>2, <1>3, <2>2, <2>3
<1>5. CASE u.kind = "cidr"
  <2>1. Form[w] = "cidr" /\ u.ip_list = Addresses[w]
    BY <1>1, <1>5, ParsedFacts
  <2> DEFINE ips == Addresses[w]
  <2>2. ips \in Seq(Range(ips) \ {None}) /\ \A v \in Range(ips) \cap Words : Form[v] = "ip"
    BY <2>1, InputAssumption
  <2>3. PICK i \in DOMAIN ips :
          t = Target(ips[i], "single_ip", None, ips[i], <<ips[i]>>)
    BY <1>5, <2>1 DEF ExpandOne, Range
  <2>4. ips[i] \in Range(ips) /\ ips[i] # None
    BY <2>2, LenProperties DEF Range
  <2> HIDE DEF ips
  <2>5. t.ip = ips[i] /\ t.raw = ips[i] /\ t.ip_list = <<ips[i]>>
    BY <2>3 DEF Target
  <2>6. TargetAddresses(t) = {ips[i]}
    BY <2>5 DEF TargetAddresses, Range
  <2>7. ips[i] \in Words => Parse(ips[i]).ip = ips[i]
    <3>1. ASSUME ips[i] \in Words PROVE Parse(ips[i]).ip = ips[i]
      <4>1. Form[ips[i]] = "ip"
        BY <2>2, <2>4, <3>1
      <4>2. QED
        BY <3>1, <4>1, ParsedFacts DEF IsError
    <3>2. QED
      BY <3>1
  <2>8. QED
    BY <1>2, <1>3, <2>4, <2>5, <2>6, <2>7
<1>6. QED
  BY <1>4, <1>5

\* A target is known by its word: two of them with the same have the same address.
LEMMA SameRaw ==
  ASSUME NEW u \in Parsed, NEW v \in Parsed, NEW s \in Range(ExpandOne(u)),
         NEW t \in Range(ExpandOne(v)), s.raw = t.raw
  PROVE  s.ip = t.ip
BY SingleFacts

\* A target expands into a list of single ones.
LEMMA ExpandOneType ==
  ASSUME NEW u \in Parsed
  PROVE  ExpandOne(u) \in Seq(TargetSet)
<1>1. CASE u.kind # "cidr"
  <2>1. u \in TargetSet
    BY DEF TargetSet
  <2>2. ExpandOne(u) = <<u>>
    BY <1>1 DEF ExpandOne
  <2>3. QED
    BY <2>1, <2>2
<1>2. CASE u.kind = "cidr"
  <2>1. PICK w \in Words : Form[w] # "blank" /\ ~IsError(w) /\ u = Parse(w)
    BY DEF Parsed
  <2>2. Form[w] = "cidr" /\ u.ip_list = Addresses[w]
    BY <1>2, <2>1, ParsedFacts
  <2>3. u.ip_list \in Seq(Range(Addresses[w]) \ {None})
    BY <2>2, InputAssumption
  <2> DEFINE n == Len(u.ip_list)
  <2>4. n \in Nat /\ DOMAIN u.ip_list = 1..n
    BY <2>3, LenProperties
  <2>5. \A i \in 1..n : ExpandOne(u)[i] \in TargetSet
    <3>1. \A i \in 1..n : ExpandOne(u)[i] \in Range(ExpandOne(u))
      BY <1>2, <2>4 DEF ExpandOne, Range
    <3>2. QED
      BY <3>1 DEF TargetSet
  <2>6. ExpandOne(u) = [i \in 1..n |-> ExpandOne(u)[i]]
    BY <1>2, <2>4 DEF ExpandOne
  <2> HIDE DEF n
  <2>7. ExpandOne(u) \in [1..n -> TargetSet]
    BY <2>5, <2>6
  <2>8. QED
    BY <2>4, <2>7, SeqDef
<1>3. QED
  BY <1>1, <1>2

\* Expanding a list expands each of its targets and nothing else.
LEMMA ExpandFacts ==
  ASSUME NEW ts \in Seq(Parsed)
  PROVE  /\ Expand(ts) \in Seq(TargetSet)
         /\ Range(Expand(ts)) = UNION {Range(ExpandOne(u)) : u \in Range(ts)}
<1> DEFINE n == Len(ts)
           ss == [i \in DOMAIN ts |-> ExpandOne(ts[i])]
<1>1. n \in Nat /\ DOMAIN ts = 1..n /\ \A i \in 1..n : ts[i] \in Parsed
  BY LenProperties
<1>2. \A i \in 1..n : ExpandOne(ts[i]) \in Seq(TargetSet)
  BY <1>1, ExpandOneType
<1>3. ss \in [1..n -> Seq(TargetSet)]
  BY <1>1, <1>2
<1>4. ss \in Seq(Seq(TargetSet)) /\ Len(ss) = n
  <2> HIDE DEF ss, n
  <2>1. ss \in Seq(Seq(TargetSet))
    BY <1>1, <1>3, SeqDef
  <2>2. DOMAIN ss = 1..n /\ DOMAIN ss = 1..Len(ss) /\ Len(ss) \in Nat
    BY <1>3, <2>1, LenProperties
  <2>3. QED
    BY <1>1, <2>1, <2>2
<1>5. FlattenSeq(ss) \in Seq(TargetSet)
      /\ ToSet(FlattenSeq(ss)) = UNION {ToSet(ss[i]) : i \in 1..n}
  <2> HIDE DEF ss, n
  <2>1. QED
    BY <1>4, FlattenElements
<1>6. \A q : ToSet(q) = Range(q)
  BY DEF ToSet, Range
<1>7. UNION {ToSet(ss[i]) : i \in 1..n} = UNION {Range(ExpandOne(u)) : u \in Range(ts)}
  <2>1. Range(ts) = {ts[i] : i \in 1..n}
    BY <1>1 DEF Range
  <2>2. \A i \in 1..n : ToSet(ss[i]) = Range(ExpandOne(ts[i]))
    BY <1>1, <1>6
  <2> HIDE DEF ss, n
  <2>3. {ToSet(ss[i]) : i \in 1..n} = {Range(ExpandOne(u)) : u \in Range(ts)}
    BY ONLY <2>1, <2>2, SMTT(30)
  <2>4. QED
    BY <2>3
<1>8. QED
  BY <1>5, <1>6, <1>7 DEF Expand

-----------------------------------------------------------------------------
\* The types of a command line, from the assumptions on the constants.
LEMMA ArgsFacts ==
  ASSUME args \in CommandLines
  PROVE  /\ args.words \in Seq(Words) /\ args.authorized \in BOOLEAN
         /\ args.scope.window.from \in 0..(Day - 1) /\ args.scope.window.to \in 0..(Day - 1)
         /\ Day \in Nat /\ Day # 0
BY LinesAssumption, DayAssumption

\* What an entry of the log is made of.
LEMMA EntryType ==
  ASSUME NEW stage \in 1..10, NEW result \in Results,
         NEW target \in {t.raw : t \in TargetSet} \cup Places \cup {None}
  PROVE  /\ Entry(stage, target, result) \in LogEntries(1..10)
         /\ Entry(stage, target, result).stage = stage
         /\ Entry(stage, target, result).target = target
         /\ \A n : Entry(stage, target, result) \in LogEntries({n}) <=> n = stage
<1> DEFINE Loggable == {t.raw : t \in TargetSet} \cup Places \cup {None}
<1>1. target \in Loggable
  OBVIOUS
<1> HIDE DEF Loggable
<1>2. [stage |-> stage, target |-> target, result |-> result]
        \in [stage : 1..10, target : Loggable, result : Results]
  BY <1>1
<1>3. \A n : [stage |-> stage, target |-> target, result |-> result]
               \in [stage : {n}, target : Loggable, result : Results] <=> n = stage
  BY <1>1
<1>4. QED
  BY <1>2, <1>3 DEF Entry, LogEntries, Loggable

\* What "allowed" means: consent was given, the window is open, the address is
\* in scope and neither it nor the name is blocked.
LEMMA VerdictFacts ==
  ASSUME NEW scope, NEW authorized, NEW now, NEW t
  PROVE  /\ Verdict(scope, authorized, now, t) \in Results
         /\ Verdict(scope, authorized, now, t) = "allowed" =>
              /\ authorized /\ WindowAllows(scope.window, now)
              /\ t.ip # None => t.ip \in (scope.allowed \ scope.excluded) \ scope.blocked
              /\ t.hostname \notin scope.blocked
<1>1. CASE ~authorized
  BY <1>1 DEF Verdict, Results
<1>2. CASE authorized /\ ~WindowAllows(scope.window, now)
  BY <1>2 DEF Verdict, Results
<1>3. CASE authorized /\ WindowAllows(scope.window, now)
  BY <1>3 DEF Verdict, Results, IpInScope, None
<1>4. QED
  BY <1>1, <1>2, <1>3

\* Five or six files are written.
LEMMA FilesFact == FilesToWrite \in {5, 6}
<1>1. CASE args.grepable
  BY <1>1 DEF FilesToWrite, ReportFiles
<1>2. CASE ~args.grepable
  BY <1>2 DEF FilesToWrite, ReportFiles
<1>3. QED
  BY <1>1, <1>2

\* A run begins well-typed and with nothing parsed.
LEMMA TypesInit == Init => TypeOK /\ Intent
<1> SUFFICES ASSUME Init PROVE TypeOK /\ Intent
  OBVIOUS
<1>1. \A S : <<>> \in Seq(S) /\ Range(<<>>) = {} /\ IsInjective(<<>>) /\ Len(<<>>) = 0 /\ DOMAIN <<>> = {}
  BY EmptySeq DEF Range, IsInjective
<1>2. consent \in BOOLEAN
  BY ArgsFacts DEF Init
<1>3. reports \in 0..FilesToWrite
  <2>1. reports = 0
    BY DEF Init
  <2> HIDE DEF Init
  <2>2. FilesToWrite = 5 \/ FilesToWrite = 6
    BY FilesFact
  <2>3. QED
    BY ONLY <2>1, <2>2
<1>4. at \in 1..(Len(hosts) + 1) /\ Range(hosts) \cap pending = {} /\ pending \subseteq Places
      /\ DOMAIN open \subseteq Range(hosts) /\ IsInjective(hosts)
  <2>1. hosts = <<>> /\ pending = {} /\ open = <<>> /\ at = 1
    BY DEF Init
  <2>2. Len(hosts) = 0 /\ Range(hosts) = {} /\ IsInjective(hosts) /\ DOMAIN open = {}
    BY <1>1, <2>1
  <2>3. QED
    BY <2>1, <2>2
<1>5. Range(todo) \cup Range(approved) \subseteq Singles
  <2>1. Range(<<>>) = {}
    BY <1>1
  <2>2. QED
    BY <2>1 DEF Init
<1>6. targets \in Seq(Parsed) /\ targets \in Seq(TargetSet) /\ todo \in Seq(TargetSet)
      /\ approved \in Seq(TargetSet) /\ hosts \in Seq(Places) /\ log \in Seq(LogEntries(1..10))
  BY <1>1 DEF Init
<1>7. Intent
  BY <1>5, <1>6 DEF Init, Intent
<1>8. QED
  BY <1>2, <1>3, <1>4, <1>6, <1>7 DEF Init, TypeOK

\* A list of elements of S is one of any larger set.
LEMMA Wider ==
  ASSUME NEW S, NEW T, S \subseteq T, NEW s \in Seq(S)
  PROVE  s \in Seq(T)
BY LenProperties, SeqDef

\* The elements of a list, of one with one more, and of one without its head.
LEMMA ElementsAt ==
  ASSUME NEW S, NEW s \in Seq(S)
  PROVE  /\ Range(s) = {s[i] : i \in 1..Len(s)} /\ Range(s) \subseteq S
         /\ \A x \in S : Range(Append(s, x)) = Range(s) \cup {x}
         /\ s # <<>> => /\ Head(s) \in Range(s) /\ Range(Tail(s)) \subseteq Range(s)
                        /\ Tail(s) \in Seq(S)
<1>1. \A q : Range(q) = ToSet(q)
  BY DEF Range, ToSet
<1>2. Range(s) = {s[i] : i \in 1..Len(s)} /\ Range(s) \subseteq S
  BY LenProperties DEF Range
<1>3. \A x \in S : Range(Append(s, x)) = Range(s) \cup {x}
  BY <1>1, AppendElements
<1>4. ASSUME s # <<>>
      PROVE  /\ Head(s) \in Range(s) /\ Range(Tail(s)) \subseteq Range(s)
             /\ Tail(s) \in Seq(S)
  <2>1. Len(s) \in Nat /\ Len(s) # 0 /\ DOMAIN s = 1..Len(s)
    BY <1>4, LenProperties, EmptySeq
  <2>2. Tail(s) \in Seq(S) /\ Len(Tail(s)) = Len(s) - 1
        /\ \A i \in 1..(Len(s) - 1) : Tail(s)[i] = s[i + 1]
    BY <1>4, <2>1
  <2>3. Head(s) = s[1] /\ 1 \in DOMAIN s
    BY <2>1
  <2>4. DOMAIN Tail(s) = 1..(Len(s) - 1)
    BY <2>2, LenProperties
  <2>5. \A i \in 1..(Len(s) - 1) : i + 1 \in DOMAIN s
    BY <2>1
  <2>6. QED
    BY <2>2, <2>3, <2>4, <2>5 DEF Range
<1>5. QED
  BY <1>2, <1>3, <1>4

\* Entries that are logged are appended to the log.
LEMMA LoggedType ==
  ASSUME NEW entries, entries \in Seq(LogEntries(1..10)), log \in Seq(LogEntries(1..10)),
         Logged(entries)
  PROVE  /\ log' \in Seq(LogEntries(1..10)) /\ log' = log \o entries
         /\ Range(log') = Range(log) \cup Range(entries)
<1>1. \A q : Range(q) = ToSet(q)
  BY DEF Range, ToSet
<1>2. log' = log \o entries
  BY DEF Logged
<1>3. QED
  BY <1>1, <1>2, ConcatElements

\* What Discovered logs.
Alives == [i \in DOMAIN hosts |-> Entry(4, hosts[i], "alive")]

\* The entries for the hosts found alive: one each, in order.
LEMMA AlivesFacts ==
  ASSUME hosts \in Seq(Places)
  PROVE  /\ Alives \in Seq(LogEntries(1..10)) /\ Len(Alives) = Len(hosts)
         /\ DOMAIN Alives = 1..Len(hosts)
         /\ \A i \in 1..Len(hosts) : Alives[i] = Entry(4, hosts[i], "alive")
         /\ Range(Alives) = {Entry(4, ip, "alive") : ip \in Range(hosts)}
<1> DEFINE n == Len(hosts)
<1>1. n \in Nat /\ DOMAIN hosts = 1..n /\ \A i \in 1..n : hosts[i] \in Places
  BY LenProperties
<1>2. \A i \in 1..n : Entry(4, hosts[i], "alive") \in LogEntries(1..10)
  <2>1. "alive" \in Results /\ 4 \in 1..10
    BY DEF Results
  <2>2. \A ip \in Places : Entry(4, ip, "alive") \in LogEntries(1..10)
    BY <2>1, EntryType
  <2> HIDE DEF n
  <2>3. QED
    BY <1>1, <2>2
<1>3. Alives \in [1..n -> LogEntries(1..10)]
  BY <1>1, <1>2 DEF Alives
<1>4. Alives \in Seq(LogEntries(1..10))
  BY <1>1, <1>3, SeqDef
<1>5. DOMAIN Alives = 1..n /\ Len(Alives) = n
  <2> HIDE DEF n
  <2>1. DOMAIN Alives = 1..n /\ DOMAIN Alives = 1..Len(Alives) /\ Len(Alives) \in Nat
    BY <1>3, <1>4, LenProperties
  <2>2. QED
    BY <1>1, <2>1
<1>6. \A i \in 1..n : Alives[i] = Entry(4, hosts[i], "alive")
  BY <1>1 DEF Alives
<1>7. Range(Alives) = {Entry(4, ip, "alive") : ip \in Range(hosts)}
  <2>1. Range(hosts) = {hosts[i] : i \in 1..n} /\ Range(Alives) = {Alives[i] : i \in 1..n}
    BY <1>1, <1>5 DEF Range
  <2> HIDE DEF n
  <2>2. QED
    BY <1>6, <2>1
<1>8. QED
  BY <1>4, <1>5, <1>6, <1>7

\* A single entry as a list.
LEMMA OneEntry ==
  ASSUME NEW stage \in 1..10, NEW result \in Results,
         NEW target \in {t.raw : t \in TargetSet} \cup Places \cup {None}
  PROVE  /\ <<Entry(stage, target, result)>> \in Seq(LogEntries(1..10))
         /\ Range(<<Entry(stage, target, result)>>) = {Entry(stage, target, result)}
<1> DEFINE e == Entry(stage, target, result)
<1>1. e \in LogEntries(1..10)
  BY EntryType
<1> HIDE DEF e
<1>2. <<e>> \in Seq(LogEntries(1..10)) /\ Range(<<e>>) = {e}
  BY <1>1 DEF Range
<1>3. QED
  BY <1>2 DEF e

\* The one target of Validate.
LEMMA HeadFacts ==
  ASSUME TypeOK, Intent, todo # <<>>
  PROVE  /\ Head(todo) \in Singles /\ Head(todo) \in TargetSet
         /\ Tail(todo) \in Seq(TargetSet) /\ Range(Tail(todo)) \subseteq Singles
         /\ Append(approved, Head(todo)) \in Seq(TargetSet)
         /\ Range(Append(approved, Head(todo))) = Range(approved) \cup {Head(todo)}
<1>1. todo \in Seq(TargetSet) /\ approved \in Seq(TargetSet) /\ Range(todo) \subseteq Singles
  BY DEF TypeOK, Intent
<1>2. Head(todo) \in Range(todo) /\ Range(Tail(todo)) \subseteq Range(todo)
      /\ Tail(todo) \in Seq(TargetSet) /\ Range(todo) \subseteq TargetSet
  BY <1>1, ElementsAt
<1>3. Head(todo) \in TargetSet
  BY <1>2
<1> HIDE DEF Singles
<1>4. Append(approved, Head(todo)) \in Seq(TargetSet)
  BY <1>1, <1>3, AppendProperties
<1>5. Range(Append(approved, Head(todo))) = Range(approved) \cup {Head(todo)}
  BY <1>1, <1>3, ElementsAt
<1>6. QED
  BY <1>1, <1>2, <1>3, <1>4, <1>5

\* Parsing what main accepts gives targets.
LEMMA MainFacts ==
  ASSUME TypeOK, \A i \in DOMAIN args.words : ~IsError(args.words[i])
  PROVE  ParseTargets(args.words) \in Seq(Parsed) /\ ParseTargets(args.words) \in Seq(TargetSet)
<1>1. args.words \in Seq(Words)
  BY ArgsFacts DEF TypeOK
<1>2. DOMAIN args.words = 1..Len(args.words)
  BY <1>1, LenProperties
<1>3. ParseTargets(args.words) \in Seq(Parsed)
  BY <1>1, <1>2, ParseType
<1>4. Parsed \subseteq TargetSet
  BY DEF TargetSet
<1>5. QED
  BY <1>3, <1>4, Wider

\* A visit is to a host of the list, and moves on to the next or ends the
\* stage.
LEMMA VisitFacts ==
  ASSUME hosts \in Seq(Places), at \in 1..Len(hosts), NEW stage, NEW next, Visit(stage, next)
  PROVE  /\ hosts[at] \in Places /\ hosts[at] \in Range(hosts)
         /\ \/ at = Len(hosts) /\ at' = 1 /\ pc' = next
            \/ at \in 1..(Len(hosts) - 1) /\ at' = at + 1 /\ pc' = pc
         /\ at' \in 1..Len(hosts) /\ at' \in 1..(Len(hosts) + 1) /\ pc = stage
<1>1. Len(hosts) \in Nat /\ DOMAIN hosts = 1..Len(hosts)
  BY LenProperties
<1>2. hosts[at] \in Places /\ hosts[at] \in Range(hosts)
  BY <1>1, ElementOfSeq DEF Range
<1>3. CASE at = Len(hosts)
  BY <1>1, <1>2, <1>3 DEF Visit, StartStage
<1>4. CASE at # Len(hosts)
  <2>1. at' = at + 1 /\ pc' = pc /\ pc = stage
    BY <1>4 DEF Visit
  <2>2. at \in 1..(Len(hosts) - 1) /\ at + 1 \in 1..Len(hosts) /\ at + 1 \in 1..(Len(hosts) + 1)
    <3> DEFINE n == Len(hosts)
    <3>1. n \in Nat /\ at \in 1..n /\ at # n
      BY <1>1, <1>4
    <3> HIDE DEF n
    <3>2. at \in 1..(n - 1) /\ at + 1 \in 1..n /\ at + 1 \in 1..(n + 1)
      BY ONLY <3>1
    <3>3. QED
      BY <3>2 DEF n
  <2>3. at' \in 1..Len(hosts) /\ at' \in 1..(Len(hosts) + 1)
    BY ONLY <2>1, <2>2
  <2>4. QED
    BY ONLY <1>2, <2>1, <2>2, <2>3
<1>5. QED
  BY <1>3, <1>4

\* A host that answers is added to the list once.
LEMMA OneMoreHost ==
  ASSUME hosts \in Seq(Places), NEW ip \in Places, ip \notin Range(hosts), IsInjective(hosts)
  PROVE  /\ Append(hosts, ip) \in Seq(Places) /\ Len(Append(hosts, ip)) = Len(hosts) + 1
         /\ IsInjective(Append(hosts, ip))
         /\ Range(Append(hosts, ip)) = Range(hosts) \cup {ip} /\ Len(hosts) \in Nat
<1> DEFINE n == Len(hosts)
           q == Append(hosts, ip)
<1>1. n \in Nat /\ DOMAIN hosts = 1..n /\ \A i \in 1..n : hosts[i] # ip
  BY LenProperties DEF Range
<1>2. q \in Seq(Places) /\ Len(q) = n + 1 /\ q[n + 1] = ip /\ \A i \in 1..n : q[i] = hosts[i]
  BY <1>1, AppendProperties
<1>3. DOMAIN q = 1..(n + 1)
  BY <1>1, <1>2, LenProperties
<1>4. Range(q) = Range(hosts) \cup {ip}
  BY ElementsAt
<1> HIDE DEF q, n
<1>5. \A i \in 1..(n + 1) : i \in 1..n \/ i = n + 1
  BY <1>1
<1>6. \A i, j \in 1..n : hosts[i] = hosts[j] => i = j
  BY <1>1 DEF IsInjective
<1>7. IsInjective(q)
  BY <1>1, <1>2, <1>3, <1>5, <1>6 DEF IsInjective
<1>8. QED
  BY <1>1, <1>2, <1>4, <1>7 DEF q, n

\* A run that is held stays as it is, but for what it has logged, asked and sent.
LEMMA HoldFacts ==
  ASSUME Hold
  PROVE  /\ pc \in {"dns", "discover", "audit web", "fingerprint"} /\ pc' = "held"
         /\ UNCHANGED <<args, time, consent, targets, todo, approved, pending, hosts, at, open,
                       logFile, reports, exit>>
         /\ UNCHANGED log \/ (pc = "discover" /\ Logged(Alives))
BY DEF Hold, Found, Alives, scopeVars, hostVars

\* Every step keeps the types.
LEMMA TypesStep ==
  ASSUME TypeOK, Intent, Reached, Progress, [Next]_vars
  PROVE  TypeOK'
<1> USE DEF scopeVars, hostVars, outVars, Exit, StartStage
<1>0. /\ args \in CommandLines /\ time \in 0..(Day - 1) /\ Day \in Nat /\ Day # 0
      /\ hosts \in Seq(Places) /\ log \in Seq(LogEntries(1..10)) /\ targets \in Seq(Parsed)
      /\ approved \in Seq(TargetSet)
  BY ArgsFacts DEF TypeOK, Intent
<1>1. ASSUME Main PROVE TypeOK'
  <2>1. targets' \in Seq(TargetSet)
    BY <1>1, MainFacts DEF Main, TypeOK
  <2>2. QED
    BY <1>1, <2>1 DEF Main, TypeOK, FilesToWrite
<1>2. ASSUME Intake PROVE TypeOK'
  <2>1. log' \in Seq(LogEntries(1..10))
    <3>1. 1 \in 1..10 /\ "input parsed" \in Results
      BY DEF Results
    <3>2. <<Entry(1, None, "input parsed")>> \in Seq(LogEntries(1..10))
      BY <3>1, OneEntry
    <3>3. QED
      BY <1>0, <1>2, <3>2, LoggedType DEF Intake
  <2>2. QED
    BY <1>2, <2>1 DEF Intake, TypeOK, FilesToWrite
<1>3. ASSUME Confirm \/ \E yes \in BOOLEAN : Answer(yes) PROVE TypeOK'
  <2>1. todo' \in Seq(TargetSet) /\ consent' \in BOOLEAN
    BY <1>0, <1>3, ExpandFacts DEF Confirm, Answer, TypeOK
  <2>2. QED
    BY <1>3, <2>1 DEF Confirm, Answer, TypeOK, FilesToWrite
<1>4. ASSUME Validate PROVE TypeOK'
  <2>1. todo' \in Seq(TargetSet) /\ approved' \in Seq(TargetSet)
    BY <1>0, <1>4, HeadFacts DEF Validate
  <2>2. log' \in Seq(LogEntries(1..10))
    <3>1. Head(todo).raw \in {t.raw : t \in TargetSet}
      BY <1>4, HeadFacts DEF Validate
    <3>2. Verdict(args.scope, consent, time, Head(todo)) \in Results /\ 2 \in 1..10
      BY VerdictFacts
    <3> DEFINE e == Entry(2, Head(todo).raw, Verdict(args.scope, consent, time, Head(todo)))
    <3>3. <<e>> \in Seq(LogEntries(1..10))
      BY <3>1, <3>2, OneEntry
    <3>4. Logged(<<e>>)
      BY <1>4 DEF Validate
    <3> HIDE DEF e
    <3>5. QED
      BY <1>0, <3>3, <3>4, LoggedType
  <2>3. QED
    BY <1>4, <2>1, <2>2 DEF Validate, TypeOK, FilesToWrite
<1>5. ASSUME Approve PROVE TypeOK'
  <2>1. approved' \in Seq(TargetSet)
    BY <1>0, <1>5, KeptType DEF Approve
  <2>2. QED
    BY <1>5, <2>1 DEF Approve, TypeOK, FilesToWrite
<1>6. ASSUME Dns PROVE TypeOK'
  <2>1. pending' \subseteq Places
    <3>1. Range(approved) \subseteq TargetSet
      BY <1>0, ElementsAt
    <3>2. QED
      BY <1>6, <3>1 DEF Dns, Places
  <2>2. Range(hosts') \cap pending' = {}
    <3>1. hosts' = <<>>
      BY <1>6 DEF Dns, Reached
    <3>2. Range(<<>>) = {}
      BY DEF Range
    <3>3. QED
      BY <3>1, <3>2
  <2>3. QED
    BY <1>6, <2>1, <2>2 DEF Dns, TypeOK, FilesToWrite
<1>7. ASSUME NEW ip \in pending, NEW up \in BOOLEAN, Discover(ip, up) PROVE TypeOK'
  <2>1. ip \in Places /\ ip \notin Range(hosts) /\ IsInjective(hosts) /\ at \in 1..(Len(hosts) + 1)
    BY DEF TypeOK
  <2>2. /\ hosts' \in Seq(Places) /\ IsInjective(hosts') /\ Range(hosts') \subseteq Range(hosts) \cup {ip}
        /\ Range(hosts) \subseteq Range(hosts') /\ at \in 1..(Len(hosts') + 1)
    <3>1. CASE up
      <4>1. hosts' = Append(hosts, ip)
        BY <1>7, <3>1 DEF Discover
      <4>2. QED
        BY <1>0, <2>1, <4>1, OneMoreHost
    <3>2. CASE ~up
      BY <1>0, <1>7, <2>1, <3>2 DEF Discover
    <3>3. QED
      BY <3>1, <3>2
  <2>3. Range(hosts') \cap pending' = {} /\ pending' \subseteq Places /\ DOMAIN open' \subseteq Range(hosts')
    BY <1>7, <2>2 DEF Discover, TypeOK
  <2>4. QED
    BY <1>7, <2>2, <2>3 DEF Discover, TypeOK, FilesToWrite
<1>8. ASSUME Discovered PROVE TypeOK'
  <2>1. log' \in Seq(LogEntries(1..10))
    BY <1>0, <1>8, AlivesFacts, LoggedType DEF Discovered, Found, Alives
  <2>2. 1 \in 1..(Len(hosts) + 1)
    BY <1>0, LenProperties
  <2>3. QED
    BY <1>8, <2>1, <2>2 DEF Discovered, TypeOK, FilesToWrite
<1>9. ASSUME Scan PROVE TypeOK'
  <2>1. pc = "scan" /\ at \in 1..Len(hosts)
    BY <1>9 DEF Scan, Visit, Progress, Visiting
  <2>2. Visit("scan", "enumerate")
    BY <1>9 DEF Scan
  <2>3. hosts[at] \in Places /\ hosts[at] \in Range(hosts) /\ at' \in 1..(Len(hosts) + 1)
        /\ pc' \in {"scan", "enumerate"}
    BY <1>0, <2>1, <2>2, VisitFacts
  <2>4. log' \in Seq(LogEntries(1..10))
    <3>1. 5 \in 1..10 /\ "scanned" \in Results
      BY DEF Results
    <3>2. <<Entry(5, hosts[at], "scanned")>> \in Seq(LogEntries(1..10))
      BY <2>3, <3>1, OneEntry
    <3>3. Logged(<<Entry(5, hosts[at], "scanned")>>)
      BY <1>9 DEF Scan
    <3>4. QED
      BY <1>0, <3>2, <3>3, LoggedType
  <2>5. DOMAIN open' \subseteq Range(hosts)
    <3>1. DOMAIN open' = DOMAIN open \cup {hosts[at]}
      BY <1>9 DEF Scan
    <3>2. QED
      BY <2>3, <3>1 DEF TypeOK
  <2>6. QED
    BY <1>9, <2>1, <2>3, <2>4, <2>5 DEF Scan, TypeOK, FilesToWrite
<1>10. ASSUME Enumerate \/ AuditWeb \/ Fingerprint PROVE TypeOK'
  <2>1. at \in 1..Len(hosts) /\ pc # "out"
    BY <1>10 DEF Enumerate, AuditWeb, Fingerprint, Visit, Progress, Visiting
  <2>2. at' \in 1..(Len(hosts) + 1) /\ pc' \in {"enumerate", "audit web", "fingerprint", "analyse"}
    BY <1>0, <1>10, <2>1, VisitFacts DEF Enumerate, AuditWeb, Fingerprint
  <2>3. QED
    BY <1>10, <2>1, <2>2 DEF Enumerate, AuditWeb, Fingerprint, TypeOK, FilesToWrite
<1>11. ASSUME Analyse PROVE TypeOK'
  <2>1. at \in 1..Len(hosts) /\ pc # "out" /\ Visit("analyse", "report")
    BY <1>11 DEF Analyse, Visit, Progress, Visiting
  <2>2. at' \in 1..(Len(hosts) + 1) /\ pc' \in {"analyse", "report"} /\ hosts[at] \in Places
    BY <1>0, <2>1, VisitFacts
  <2>3. log' \in Seq(LogEntries(1..10))
    <3>1. 9 \in 1..10 /\ "analysed" \in Results
      BY DEF Results
    <3>2. <<Entry(9, hosts[at], "analysed")>> \in Seq(LogEntries(1..10))
      BY <2>2, <3>1, OneEntry
    <3>3. Logged(<<Entry(9, hosts[at], "analysed")>>)
      BY <1>11 DEF Analyse
    <3>4. QED
      BY <1>0, <3>2, <3>3, LoggedType
  <2>4. QED
    BY <1>11, <2>1, <2>2, <2>3 DEF Analyse, TypeOK, FilesToWrite
<1>12. ASSUME WriteReport PROVE TypeOK'
  <2>1. reports' \in 0..FilesToWrite
    <3>1. reports \in 0..FilesToWrite /\ reports < FilesToWrite /\ reports' = reports + 1
      BY <1>12 DEF WriteReport, TypeOK
    <3>2. FilesToWrite \in Nat
      BY FilesFact
    <3>3. QED
      BY ONLY <3>1, <3>2
  <2>2. QED
    BY <1>12, <2>1 DEF WriteReport, TypeOK, FilesToWrite
<1>13. ASSUME Finish PROVE TypeOK'
  <2>1. log' \in Seq(LogEntries(1..10))
    <3>1. 10 \in 1..10 /\ "generated" \in Results
      BY DEF Results
    <3>2. <<Entry(10, None, "generated")>> \in Seq(LogEntries(1..10))
      BY <3>1, OneEntry
    <3>3. QED
      BY <1>0, <1>13, <3>2, LoggedType DEF Finish
  <2>2. QED
    BY <1>13, <2>1 DEF Finish, TypeOK, FilesToWrite
<1>14. ASSUME Crash \/ Interrupt \/ UNCHANGED vars PROVE TypeOK'
  BY <1>14 DEF Crash, Interrupt, vars, TypeOK, FilesToWrite
<1>15. ASSUME TimePasses PROVE TypeOK'
  <2>1. time' \in 0..(Day - 1)
    BY <1>0, <1>15 DEF TimePasses
  <2>2. QED
    BY <1>15, <2>1 DEF TimePasses, TypeOK, FilesToWrite
<1>16. ASSUME Hold PROVE TypeOK'
  <2>1. log' \in Seq(LogEntries(1..10))
    BY <1>0, <1>16, HoldFacts, AlivesFacts, LoggedType
  <2>2. exit = "" /\ exit' = exit /\ pc' = "held"
    BY <1>16, HoldFacts DEF TypeOK
  <2>3. UNCHANGED <<args, time, consent, targets, todo, approved, pending, hosts, at, open, logFile, reports>>
    BY <1>16, HoldFacts
  <2>4. QED
    BY <2>1, <2>2, <2>3 DEF TypeOK, FilesToWrite
<1>17. QED
  BY <1>1, <1>2, <1>3, <1>4, <1>5, <1>6, <1>7, <1>8, <1>9, <1>10, <1>11, <1>12, <1>13, <1>14,
     <1>15, <1>16 DEF Next, Engine, Operator

-----------------------------------------------------------------------------
\* Whom entries are about.
Targets(es) == [i \in DOMAIN es |-> es[i].target]

\* Whom two lists of entries are about.
LEMMA TargetsConcat ==
  ASSUME NEW S, NEW s \in Seq(S), NEW t \in Seq(S)
  PROVE  Targets(s \o t) = Targets(s) \o Targets(t)
<1> DEFINE m == Len(s)
           n == Len(t)
           V == {e.target : e \in S}
           q == s \o t
<1>1. m \in Nat /\ n \in Nat /\ DOMAIN s = 1..m /\ DOMAIN t = 1..n
      /\ (\A i \in 1..m : s[i] \in S) /\ (\A i \in 1..n : t[i] \in S)
  BY LenProperties
<1>2. q \in Seq(S) /\ Len(q) = m + n /\ (\A i \in 1..m : q[i] = s[i])
      /\ (\A i \in (m + 1)..(m + n) : q[i] = t[i - m])
  BY <1>1, ConcatProperties
<1>3. DOMAIN q = 1..(m + n)
  BY <1>2, LenProperties
<1> HIDE DEF q, m, n
<1>4. Targets(s) \in [1..m -> V] /\ Targets(t) \in [1..n -> V]
  BY <1>1 DEF Targets
<1>5. Targets(s) \in Seq(V) /\ Targets(t) \in Seq(V)
  BY <1>1, <1>4, SeqDef
<1>6. Len(Targets(s)) = m /\ Len(Targets(t)) = n
  <2>1. DOMAIN Targets(s) = 1..m /\ DOMAIN Targets(t) = 1..n
    BY <1>4
  <2>2. DOMAIN Targets(s) = 1..Len(Targets(s)) /\ Len(Targets(s)) \in Nat
        /\ DOMAIN Targets(t) = 1..Len(Targets(t)) /\ Len(Targets(t)) \in Nat
    BY <1>5, LenProperties
  <2>3. QED
    BY <1>1, <2>1, <2>2
<1> DEFINE c == Targets(s) \o Targets(t)
<1>7. c \in Seq(V) /\ Len(c) = m + n /\ (\A i \in 1..m : c[i] = Targets(s)[i])
      /\ (\A i \in (m + 1)..(m + n) : c[i] = Targets(t)[i - m])
  <2> DEFINE u == Targets(s)
             v == Targets(t)
  <2>1. u \in Seq(V) /\ v \in Seq(V) /\ Len(u) = m /\ Len(v) = n
    BY <1>5, <1>6
  <2> HIDE DEF u, v
  <2>2. /\ u \o v \in Seq(V) /\ Len(u \o v) = m + n
        /\ \A i \in 1..(m + n) : (u \o v)[i] = IF i <= m THEN u[i] ELSE v[i - m]
    BY <2>1, ConcatProperties
  <2>3. \A i \in 1..m : i \in 1..(m + n) /\ i <= m
    BY <1>1
  <2>4. \A i \in (m + 1)..(m + n) : i \in 1..(m + n) /\ ~(i <= m)
    BY <1>1
  <2>5. QED
    BY <2>2, <2>3, <2>4 DEF u, v
<1>8. DOMAIN c = 1..(m + n) /\ c = [i \in 1..(m + n) |-> c[i]]
  BY <1>7, LenProperties
<1> HIDE DEF c
<1>9. ASSUME NEW i \in 1..(m + n) PROVE q[i].target = c[i]
  <2>1. CASE i \in 1..m
    BY <1>1, <1>2, <1>7, <2>1 DEF Targets
  <2>2. CASE i \notin 1..m
    <3>1. i \in (m + 1)..(m + n) /\ i - m \in 1..n
      BY <1>1, <2>2
    <3>2. q[i] = t[i - m] /\ c[i] = Targets(t)[i - m]
      BY <1>2, <1>7, <3>1
    <3>3. Targets(t)[i - m] = t[i - m].target
      BY <1>1, <3>1 DEF Targets
    <3>4. QED
      BY <3>2, <3>3
  <2>3. QED
    BY <2>1, <2>2
<1>10. Targets(q) = [i \in 1..(m + n) |-> c[i]]
  BY <1>3, <1>9 DEF Targets
<1>11. QED
  BY <1>8, <1>10 DEF q, c

\* A step adds entries of one stage to the log.
Adds(n, entries) == entries \in Seq(LogEntries({n})) /\ log' = log \o entries

\* Entries of one stage leave what the log tells of the others.
LEMMA AddsFacts ==
  ASSUME log \in Seq(LogEntries(1..10)), NEW n \in 1..10, NEW entries, Adds(n, entries)
  PROVE  /\ Range(log') = Range(log) \cup Range(entries)
         /\ \A e \in Range(entries) : e.stage = n
         /\ \A m \in 1..10 : m # n => Subjects(m)' = Subjects(m)
         /\ Subjects(n)' = Subjects(n) \o Targets(entries)
<1> DEFINE S == LogEntries(1..10)
           T(m) == LogEntries({m})
<1>1. T(n) \subseteq S /\ \A e \in T(n) : e.stage = n
  BY DEF LogEntries
<1>2. \A m \in 1..10 : m # n => T(n) \cap T(m) = {}
  BY DEF LogEntries
<1>3. log' = log \o entries /\ entries \in Seq(T(n))
  BY DEF Adds
<1> HIDE DEF S, T
<1>4. entries \in Seq(S)
  BY <1>1, <1>3, Wider
<1>5. ToSet(entries) \subseteq T(n) /\ (\A q : Range(q) = ToSet(q))
  <2>1. \A q : Range(q) = ToSet(q)
    BY DEF Range, ToSet
  <2>2. Range(entries) \subseteq T(n)
    BY <1>3, ElementsAt
  <2>3. QED
    BY <2>1, <2>2
<1>6. log \in Seq(S)
  BY DEF S
<1>7. Range(log') = Range(log) \cup Range(entries)
  BY <1>3, <1>4, <1>5, <1>6, ConcatElements
<1>8. \A U : Kept(log', U) = Kept(log, U) \o Kept(entries, U)
  BY <1>3, <1>4, <1>6, KeptConcat
<1>9. Kept(log', T(n)) = Kept(log, T(n)) \o entries
  BY <1>4, <1>5, <1>8, KeptAllOrNone
<1>10. ASSUME NEW m \in 1..10, m # n PROVE Kept(log', T(m)) = Kept(log, T(m))
  <2>1. ToSet(entries) \cap T(m) = {}
    BY <1>2, <1>5, <1>10
  <2>2. Kept(entries, T(m)) = <<>>
    BY <1>4, <2>1, KeptAllOrNone
  <2>3. Kept(log, T(m)) \in Seq(S)
    BY <1>6, KeptType
  <2>4. QED
    BY <1>8, <2>2, <2>3, ConcatEmptySeq
<1>11. Kept(log, T(n)) \in Seq(S)
  BY <1>6, KeptType
<1>12. Targets(Kept(log, T(n)) \o entries) = Targets(Kept(log, T(n))) \o Targets(entries)
  BY <1>4, <1>11, TargetsConcat
<1>13. \A m : Subjects(m) = Targets(Kept(log, T(m))) /\ Subjects(m)' = Targets(Kept(log', T(m)))
  BY DEF Subjects, Targets, Entries, T
<1>14. \A e \in Range(entries) : e.stage = n
  BY <1>1, <1>5
<1>15. QED
  BY <1>7, <1>9, <1>10, <1>12, <1>13, <1>14

\* What each step logs.
Step(n, entries) ==
  /\ Adds(n, entries)
  /\ n = 2 => Validate
  /\ IF Discovered THEN n = 4 /\ entries = Alives ELSE n = 4 => Hold
  /\ IF Scan THEN n = 5 /\ entries = <<Entry(5, hosts[at], "scanned")>> ELSE n # 5
  /\ IF Analyse THEN n = 9 /\ entries = <<Entry(9, hosts[at], "analysed")>> ELSE n # 9

\* A step that logs nothing.
LEMMA Silence ==
  ASSUME log \in Seq(LogEntries(1..10)), log' = log, ~Discovered, ~Scan, ~Analyse
  PROVE  Step(1, <<>>)
<1>1. <<>> \in Seq(LogEntries({1})) /\ log \o <<>> = log
  BY EmptySeq, ConcatEmptySeq
<1>2. QED
  BY <1>1 DEF Step, Adds

\* One entry of stage n.
LEMMA OneOf ==
  ASSUME NEW n \in 1..10, NEW result \in Results,
         NEW target \in {t.raw : t \in TargetSet} \cup Places \cup {None},
         Logged(<<Entry(n, target, result)>>)
  PROVE  Adds(n, <<Entry(n, target, result)>>)
<1>1. Entry(n, target, result) \in LogEntries({n})
  BY EntryType
<1>2. \A S, e : e \in S => <<e>> \in Seq(S)
  OBVIOUS
<1>3. QED
  BY <1>1, <1>2 DEF Adds, Logged

\* An "alive" entry is one of stage 4.
LEMMA AliveEntry ==
  ASSUME NEW stage, stage = 4, NEW ip \in Places
  PROVE  Entry(stage, ip, "alive") \in LogEntries({stage})
<1>1. stage \in 1..10 /\ "alive" \in Results
  BY DEF Results
<1>2. ip \in {t.raw : t \in TargetSet} \cup Places \cup {None}
  OBVIOUS
<1> DEFINE al == "alive"
<1>3. al \in Results
  BY <1>1
<1> HIDE DEF al
<1>4. Entry(stage, ip, al) \in LogEntries({stage})
  BY ONLY <1>1, <1>2, <1>3, EntryType
<1>5. QED
  BY <1>4 DEF al

\* Every step logs entries of one stage only, and stages 4, 5 and 9 log what
\* their loops have reached.
LEMMA EveryStep ==
  ASSUME TypeOK, Intent, Progress, [Next]_vars
  PROVE  \E n \in 1..10 : \E entries : Step(n, entries)
<1> USE DEF scopeVars, hostVars, outVars
<1>0. log \in Seq(LogEntries(1..10)) /\ hosts \in Seq(Places)
  BY DEF TypeOK
<1>a. /\ Discovered => pc = "discover" /\ ~Scan /\ ~Analyse
      /\ Scan => pc = "scan" /\ ~Discovered /\ ~Analyse
      /\ Analyse => pc = "analyse" /\ ~Discovered /\ ~Scan
  BY DEF Discovered, Scan, Analyse, Visit
<1>1. CASE UNCHANGED log /\ ~Discovered /\ ~Scan /\ ~Analyse
  BY <1>0, <1>1, Silence
<1>2. CASE Intake /\ log' # log
  <2>1. Logged(<<Entry(1, None, "input parsed")>>)
    BY <1>2 DEF Intake
  <2>2. Adds(1, <<Entry(1, None, "input parsed")>>)
    <3>1. "input parsed" \in Results /\ 1 \in 1..10 /\ None \in Places \cup {None}
      BY DEF Results
    <3>2. QED
      BY ONLY <2>1, <3>1, OneOf
  <2> DEFINE es == <<Entry(1, None, "input parsed")>>
  <2> HIDE DEF es
  <2>3. Adds(1, es)
    BY <2>2 DEF es
  <2>4. ~Discovered /\ ~Scan /\ ~Analyse
    BY <1>2, <1>a DEF Intake
  <2>5. Step(1, es)
    BY ONLY <2>3, <2>4 DEF Step
  <2>6. QED
    BY <2>5
<1>3. CASE Validate
  <2> DEFINE v == Verdict(args.scope, consent, time, Head(todo))
  <2>1. Logged(<<Entry(2, Head(todo).raw, v)>>) /\ v \in Results
    BY <1>3, VerdictFacts DEF Validate
  <2>2. Head(todo).raw \in {t.raw : t \in TargetSet}
    BY <1>3, HeadFacts DEF Validate
  <2> HIDE DEF v
  <2>3. Adds(2, <<Entry(2, Head(todo).raw, v)>>)
    BY <2>1, <2>2, OneOf
  <2>4. ~Discovered /\ ~Scan /\ ~Analyse
    BY <1>3, <1>a DEF Validate
  <2>5. QED
    BY <1>3, <2>3, <2>4 DEF Step
<1>4. CASE Discovered \/ (Hold /\ log' # log)
  <2>1. Logged(Alives) /\ pc = "discover"
    BY <1>4, HoldFacts DEF Discovered, Found, Alives
  <2>2. Alives \in Seq(LogEntries({4}))
    <3> DEFINE m == Len(hosts)
    <3>1. m \in Nat /\ \A i \in 1..m : hosts[i] \in Places
      BY <1>0, LenProperties
    <3>2. DOMAIN Alives = 1..m /\ \A i \in 1..m : Alives[i] = Entry(4, hosts[i], "alive")
      BY <1>0, AlivesFacts
    <3>3. Alives = [i \in 1..m |-> Alives[i]]
      BY <3>2 DEF Alives
    <3> HIDE DEF m
    <3>4. "alive" \in Results
      BY DEF Results
    <3>5. \A i \in 1..m : Entry(4, hosts[i], "alive") \in LogEntries({4})
      <4>1. ASSUME NEW ip \in Places PROVE Entry(4, ip, "alive") \in LogEntries({4})
        <5> DEFINE four == 4
        <5>1. four = 4
          OBVIOUS
        <5> HIDE DEF four
        <5>2. Entry(four, ip, "alive") \in LogEntries({four})
          BY ONLY <5>1, AliveEntry, ip \in Places
        <5>3. QED
          BY <5>1, <5>2
      <4>2. QED
        BY <3>1, <4>1
    <3> DEFINE T == LogEntries({4})
    <3> HIDE DEF T
    <3>6. Alives \in [1..m -> T]
      <4>1. \A i \in 1..m : Alives[i] \in T
        BY <3>2, <3>5 DEF T
      <4>2. QED
        BY ONLY <3>3, <4>1
    <3>7. QED
      BY <3>1, <3>6, SeqDef DEF T
  <2>3. ~Scan /\ ~Analyse
    BY <2>1, <1>a DEF Scan, Analyse, Visit
  <2>4. Adds(4, Alives)
    BY <2>1, <2>2 DEF Adds, Logged
  <2>5. QED
    BY <1>4, <2>3, <2>4 DEF Step
<1>5. CASE Scan
  <2>1. Logged(<<Entry(5, hosts[at], "scanned")>>) /\ "scanned" \in Results
    BY <1>5 DEF Scan, Results
  <2>2. hosts[at] \in Places
    BY <1>0, <1>5, ElementOfSeq DEF Scan, Visit, Progress, Visiting
  <2>3. Adds(5, <<Entry(5, hosts[at], "scanned")>>)
    BY <2>1, <2>2, OneOf
  <2>4. QED
    BY <1>5, <1>a, <2>3 DEF Step
<1>6. CASE Analyse
  <2>1. Logged(<<Entry(9, hosts[at], "analysed")>>) /\ "analysed" \in Results
    BY <1>6 DEF Analyse, Results
  <2>2. hosts[at] \in Places
    BY <1>0, <1>6, ElementOfSeq DEF Analyse, Visit, Progress, Visiting
  <2>3. Adds(9, <<Entry(9, hosts[at], "analysed")>>)
    BY <2>1, <2>2, OneOf
  <2>4. QED
    BY <1>6, <1>a, <2>3 DEF Step
<1>7. CASE Finish
  <2>1. Logged(<<Entry(10, None, "generated")>>) /\ "generated" \in Results
    BY <1>7 DEF Finish, Results
  <2>2. Adds(10, <<Entry(10, None, "generated")>>)
    BY <2>1, OneOf
  <2>3. ~Discovered /\ ~Scan /\ ~Analyse
    BY <1>7, <1>a DEF Finish
  <2>4. QED
    BY <2>2, <2>3 DEF Step
<1>8. UNCHANGED log \/ (Intake /\ log' # log) \/ Validate \/ Discovered \/ Scan \/ Analyse \/ Finish
        \/ (Hold /\ log' # log)
  BY DEF Next, Engine, Operator, Main, Intake, Confirm, Answer, Approve, Dns, Discover, Enumerate,
     AuditWeb, Fingerprint, WriteReport, Crash, Interrupt, TimePasses, vars
<1>9. QED
  BY <1>1, <1>2, <1>3, <1>4, <1>5, <1>6, <1>7, <1>8

\* The log only grows, and only Validate allows a target.
LEMMA LogGrows ==
  ASSUME TypeOK, Intent, Progress, [Next]_vars
  PROVE  /\ Range(log) \subseteq Range(log')
         /\ ~Validate => \A t : Allowed(t)' => Allowed(t)
<1>0. PICK n \in 1..10 : \E entries : Step(n, entries)
  BY EveryStep
<1>1. PICK entries : Step(n, entries)
  BY <1>0
<1>2. Adds(n, entries)
  BY <1>1 DEF Step
<1>3. log \in Seq(LogEntries(1..10))
  BY DEF TypeOK
<1>4. Range(log') = Range(log) \cup Range(entries) /\ \A e \in Range(entries) : e.stage = n
  BY <1>2, <1>3, AddsFacts
<1>5. \A t : Entry(2, t.raw, "allowed").stage = 2
  BY DEF Entry
<1>6. ASSUME ~Validate, NEW t, Entry(2, t.raw, "allowed") \in Range(log')
      PROVE  Entry(2, t.raw, "allowed") \in Range(log)
  <2>1. n # 2
    BY <1>1, <1>6 DEF Step
  <2>2. QED
    BY <1>4, <1>5, <1>6, <2>1
<1>7. QED
  BY <1>4, <1>6 DEF Allowed

\* Validate logs its verdict on the target it looks at.
LEMMA ValidateLogs ==
  ASSUME TypeOK, Intent, Validate
  PROVE  Range(log') = Range(log) \cup
           {Entry(2, Head(todo).raw, Verdict(args.scope, consent, time, Head(todo)))}
<1> DEFINE v == Verdict(args.scope, consent, time, Head(todo))
<1>1. Logged(<<Entry(2, Head(todo).raw, v)>>) /\ v \in Results /\ 2 \in 1..10
  BY VerdictFacts DEF Validate
<1>2. Head(todo).raw \in {t.raw : t \in TargetSet}
  BY HeadFacts DEF Validate
<1> HIDE DEF v
<1> DEFINE es == <<Entry(2, Head(todo).raw, v)>>
<1>3. es \in Seq(LogEntries(1..10)) /\ Range(es) = {Entry(2, Head(todo).raw, v)}
  BY <1>1, <1>2, OneEntry
<1>4. log \in Seq(LogEntries(1..10)) /\ Logged(es)
  BY <1>1 DEF TypeOK
<1> HIDE DEF es
<1>5. Range(log') = Range(log) \cup Range(es)
  BY <1>3, <1>4, LoggedType
<1>6. QED
  BY <1>3, <1>5 DEF v

\* What --exclude leaves of the approved targets.
LEMMA ApprovedFacts ==
  ASSUME approved \in Seq(TargetSet), Approve
  PROVE  Range(approved') = {t \in Range(approved) : ~Excluded(t)}
<1> DEFINE T == {t \in Range(approved) : ~Excluded(t)}
<1>1. approved' = Kept(approved, T)
  BY DEF Approve
<1>2. T \subseteq Range(approved)
  OBVIOUS
<1> HIDE DEF T
<1>3. ToSet(approved') = ToSet(approved) \cap T
  BY <1>1, KeptElements
<1>4. \A q : Range(q) = ToSet(q)
  BY DEF Range, ToSet
<1>5. QED
  BY <1>2, <1>3, <1>4 DEF T

\* The command line stays as it is.
LEMMA ArgsStay == [Next]_vars => args' = args
BY HoldFacts DEF Next, Engine, Operator, Main, Intake, Confirm, Answer, Validate, Approve, Dns, Discover,
   Discovered, Scan, Enumerate, AuditWeb, Fingerprint, Analyse, WriteReport, Finish, Crash,
   Interrupt, TimePasses, vars

\* Every step keeps the targets those of the command line.
LEMMA IntentStep ==
  ASSUME TypeOK, Intent, [Next]_vars
  PROVE  Intent'
<1> USE DEF scopeVars, hostVars, outVars, Exit, StartStage
<1>0. targets \in Seq(Parsed) /\ approved \in Seq(TargetSet) /\ todo \in Seq(TargetSet)
      /\ Range(todo) \subseteq Singles /\ Range(approved) \subseteq Singles
  BY DEF TypeOK, Intent
<1>1. CASE Main
  <2>1. targets' \in Seq(Parsed)
    BY <1>0, <1>1, MainFacts DEF Main
  <2>2. todo' = <<>> /\ approved' = <<>> /\ pc' # "main"
    BY <1>1 DEF Main, Intent
  <2>3. Range(<<>>) = {}
    BY DEF Range
  <2>4. Range(todo') \cup Range(approved') \subseteq Singles'
    BY <2>2, <2>3
  <2>5. QED
    BY <2>1, <2>2, <2>4 DEF Intent
<1>2. CASE Confirm \/ \E yes \in BOOLEAN : Answer(yes)
  <2>1. todo' = todo \/ todo' = Expand(targets)
    BY <1>2 DEF Confirm, Answer
  <2>2. Range(Expand(targets)) = Singles
    BY <1>0, ExpandFacts DEF Singles
  <2>3. UNCHANGED <<targets, approved>> /\ pc' # "main"
    BY <1>2 DEF Confirm, Answer
  <2>4. QED
    BY <1>0, <2>1, <2>2, <2>3 DEF Intent, Singles
<1>3. CASE Validate
  <2>1. Range(todo') \subseteq Singles
    BY <1>3, HeadFacts DEF Validate
  <2>2. Range(approved') \subseteq Range(approved) \cup {Head(todo)} /\ Head(todo) \in Singles
    BY <1>3, HeadFacts DEF Validate
  <2>3. UNCHANGED targets /\ pc' # "main"
    BY <1>3 DEF Validate
  <2> HIDE DEF Singles
  <2>4. Range(todo') \cup Range(approved') \subseteq Singles
    BY <1>0, <2>1, <2>2
  <2>5. QED
    BY <1>0, <2>3, <2>4 DEF Intent, Singles
<1>4. CASE Approve
  <2>1. Range(approved') \subseteq Range(approved)
    BY <1>0, <1>4, ApprovedFacts
  <2>2. UNCHANGED <<targets, todo>> /\ pc' # "main"
    BY <1>4 DEF Approve
  <2>3. QED
    BY <1>0, <2>1, <2>2 DEF Intent, Singles
<1>5. CASE UNCHANGED scopeVars /\ ((pc' = pc /\ log' = log) \/ pc' # "main")
  BY <1>5 DEF Intent, Singles
<1>6. QED
  BY <1>1, <1>2, <1>3, <1>4, <1>5, HoldFacts DEF Next, Engine, Operator, Intake, Dns, Discover,
   Discovered, Scan, Enumerate, AuditWeb, Fingerprint, Analyse, Visit, WriteReport, Finish, Crash,
   Interrupt, TimePasses, vars

\* Every step keeps the approved targets allowed, and those that are sent to
\* not excluded.
LEMMA VettedStep ==
  ASSUME TypeOK, Intent, Vetted, Reached, Progress, [Next]_vars
  PROVE  Vetted'
<1> USE DEF scopeVars, hostVars, outVars, Exit, StartStage
<1>0. args' = args /\ Range(log) \subseteq Range(log') /\ approved \in Seq(TargetSet)
  BY ArgsStay, LogGrows DEF TypeOK
<1>1. CASE Validate
  <2> DEFINE v == Verdict(args.scope, consent, time, Head(todo))
  <2>1. pc' \notin Working /\ sent' = {}
    BY <1>1 DEF Validate, Reached, Consenting, Working, Visiting
  <2>2. Range(approved') \subseteq IF v = "allowed" THEN Range(approved) \cup {Head(todo)}
                                                  ELSE Range(approved)
    BY <1>1, HeadFacts DEF Validate
  <2>3. v = "allowed" => /\ Entry(2, Head(todo).raw, "allowed") \in Range(log')
                         /\ Head(todo).hostname \notin args.scope.blocked
    <3>1. Entry(2, Head(todo).raw, v) \in Range(log')
      BY <1>1, ValidateLogs
    <3>2. v = "allowed" => Head(todo).hostname \notin args.scope.blocked
      BY VerdictFacts
    <3> HIDE DEF v
    <3>3. QED
      BY <3>1, <3>2
  <2> HIDE DEF v
  <2>4. \A t \in Range(approved') : /\ Entry(2, t.raw, "allowed") \in Range(log')
                                   /\ t.hostname \notin args'.scope.blocked
    <3>1. \A t \in Range(approved) : /\ Entry(2, t.raw, "allowed") \in Range(log')
                                    /\ t.hostname \notin args'.scope.blocked
      BY <1>0 DEF Vetted, Allowed
    <3>2. QED
      BY <1>0, <2>2, <2>3, <3>1
  <2>5. QED
    BY <2>1, <2>4 DEF Vetted, Allowed
<1>2. CASE Approve
  <2>1. Range(approved') = {t \in Range(approved) : ~Excluded(t)} /\ UNCHANGED log
    BY <1>0, <1>2, ApprovedFacts DEF Approve
  <2>2. QED
    BY <1>0, <2>1 DEF Vetted, Allowed, Excluded
<1>3. CASE UNCHANGED approved /\ (pc' \in Working \/ sent' # {} => pc \in Working \/ sent # {})
  BY <1>0, <1>3 DEF Vetted, Allowed, Excluded
<1>4. Validate \/ Approve \/ (UNCHANGED approved /\ (pc' \in Working \/ sent' # {} => pc \in Working \/ sent # {}))
  BY HoldFacts DEF Next, Engine, Operator, Main, Intake, Confirm, Answer, Dns, Discover, Working, Visiting,
   Discovered, Scan, Enumerate, AuditWeb, Fingerprint, Analyse, Visit, WriteReport, Finish, Crash,
   Interrupt, TimePasses, vars
<1>5. QED
  BY <1>1, <1>2, <1>3, <1>4

\* A visit's packets go to a host that has been touched before.
LEMMA VisitsTouch ==
  ASSUME TypeOK, Reached, Progress, NEW stage, NEW next, NEW n, NEW ports, pc \in Visiting,
         Visit(stage, next), Packets(n, ports), UNCHANGED <<hosts, pending, approved>>
  PROVE  /\ pending' \cup Range(hosts') \cup Touched' \subseteq Destinations'
         /\ Range(hosts') \subseteq Touched'
<1>1. hosts[at] \in Range(hosts)
  BY VisitFacts DEF TypeOK, Progress
<1>2. Touched' = Touched \cup {s.ip : s \in {[ip |-> hosts[at], stage |-> n, port |-> p] : p \in ports}}
  BY DEF Touched, Packets
<1>3. {s.ip : s \in {[ip |-> hosts[at], stage |-> n, port |-> p] : p \in ports}} \subseteq {hosts[at]}
  OBVIOUS
<1>4. Destinations' = Destinations
  BY DEF Destinations
<1>5. QED
  BY <1>1, <1>2, <1>3, <1>4 DEF Reached

\* A stage that is held has sent to addresses it found or has yet to decide.
LEMMA HoldSends ==
  ASSUME TypeOK, Progress, Hold
  PROVE  /\ sent \subseteq sent'
         /\ \A s \in sent' \ sent : \/ s.ip \in pending /\ s.stage = 4
                                    \/ s.ip \in Range(hosts) /\ pc \in Visiting
<1>1. CASE UNCHANGED sent
  BY <1>1
<1>2. CASE sent' = sent \cup {[ip |-> ip, stage |-> 4, port |-> None] : ip \in pending}
  BY <1>2
<1>3. ASSUME NEW n, NEW ports, Packets(n, ports), pc \in {"audit web", "fingerprint"}
      PROVE  /\ sent \subseteq sent'
             /\ \A s \in sent' \ sent : s.ip \in Range(hosts) /\ pc \in Visiting
  <2>1. hosts \in Seq(Places) /\ at \in 1..Len(hosts)
    BY <1>3 DEF TypeOK, Progress, Visiting
  <2>2. hosts[at] \in Range(hosts)
    BY <2>1, LenProperties DEF Range
  <2>3. sent' = sent \cup {[ip |-> hosts[at], stage |-> n, port |-> p] : p \in ports}
    BY <1>3 DEF Packets
  <2>4. \A s \in sent' \ sent : s.ip = hosts[at]
    BY <2>3
  <2>5. QED
    BY <1>3, <2>2, <2>3, <2>4 DEF Visiting
<1>4. QED
  BY <1>1, <1>2, <1>3 DEF Hold

\* Every step keeps packets to the addresses of approved targets.
LEMMA ReachedStep ==
  ASSUME TypeOK, Intent, Reached, Progress, [Next]_vars
  PROVE  Reached'
<1> USE DEF scopeVars, hostVars, outVars, Exit, StartStage
<1>1. pc' \in Consenting \cup {"dns"} =>
        sent' = {} /\ queried' = {} /\ hosts' = <<>> /\ pending' = {} /\ open' = << >>
  <2>1. CASE pc \in Consenting \cup {"dns"} /\ UNCHANGED <<sent, queried, hosts, pending, open>>
    BY <2>1 DEF Reached
  <2>2. CASE pc' \notin Consenting \cup {"dns"}
    BY <2>2
  <2>3. QED
    BY <2>1, <2>2, HoldFacts DEF Next, Engine, Operator, Main, Intake, Confirm, Answer, Validate, Approve, Dns,
      Discover, Consenting, Discovered, Scan, Enumerate, AuditWeb, Fingerprint, Analyse, Visit,
      WriteReport, Finish, Crash, Interrupt, TimePasses, vars
<1>2. pc' \in Consenting \cup Working /\ reports' > 0 => pc' = "report"
  <2>1. CASE WriteReport
    BY <2>1 DEF WriteReport
  <2>2. CASE UNCHANGED reports /\ (pc' = pc \/ pc' = "out" \/ pc # "report") /\ (pc \in {"out", "held"} => pc' \in {pc, "out"})
    <3>1. pc' \in Consenting \cup Working /\ reports' > 0 => pc = "report"
      BY <2>2 DEF Reached, TypeOK, Consenting, Working, Visiting
    <3>2. "out" \notin Consenting \cup Working /\ "held" \notin Consenting \cup Working
      BY DEF Consenting, Working, Visiting
    <3>3. QED
      BY <2>2, <3>1, <3>2
  <2>3. QED
    BY <2>1, <2>2, HoldFacts DEF Next, Engine, Operator, Main, Intake, Confirm, Answer, Validate, Approve, Dns,
      Discover, Discovered, Scan, Enumerate, AuditWeb, Fingerprint, Analyse, Visit,
      Finish, Crash, Interrupt, TimePasses, vars
<1>3. pending' \cup Range(hosts') \cup Touched' \subseteq Destinations' /\ Range(hosts') \subseteq Touched'
  <2>1. CASE Validate \/ Approve
    <3>1. sent' = {} /\ hosts' = <<>> /\ pending' = {}
      BY <2>1 DEF Validate, Approve, Reached, Consenting
    <3>2. Range(<<>>) = {}
      BY DEF Range
    <3>3. QED
      BY <3>1, <3>2 DEF Touched
  <2>2. CASE Dns
    <3>1. sent' = {} /\ hosts' = <<>> /\ pending' = Destinations'
      BY <2>2 DEF Dns, Reached, Destinations
    <3>2. Range(<<>>) = {}
      BY DEF Range
    <3>3. QED
      BY <3>1, <3>2 DEF Touched
  <2>3. ASSUME NEW ip \in pending, NEW up \in BOOLEAN, Discover(ip, up)
        PROVE  /\ pending' \cup Range(hosts') \cup Touched' \subseteq Destinations'
               /\ Range(hosts') \subseteq Touched'
    <3>1. Touched' = Touched \cup {ip}
      <4> DEFINE ping == [ip |-> ip, stage |-> 4, port |-> None]
      <4>1. sent' = sent \cup {ping} /\ ping.ip = ip
        BY <2>3 DEF Discover
      <4> HIDE DEF ping
      <4>2. QED
        BY ONLY <4>1 DEF Touched
    <3>2. Range(hosts') \subseteq Range(hosts) \cup {ip}
      <4>1. ip \in Places /\ ip \notin Range(hosts) /\ IsInjective(hosts) /\ hosts \in Seq(Places)
        BY DEF TypeOK
      <4>2. hosts' = Append(hosts, ip) \/ hosts' = hosts
        BY <2>3 DEF Discover
      <4>3. Range(Append(hosts, ip)) = Range(hosts) \cup {ip}
        BY <4>1, OneMoreHost
      <4>4. QED
        BY ONLY <4>2, <4>3
    <3>3. pending' \subseteq pending /\ Destinations' = Destinations
      BY <2>3 DEF Discover, Destinations
    <3>4. QED
      BY <3>1, <3>2, <3>3 DEF Reached
  <2>4. CASE Scan
    <3>1. PICK ports : Packets(5, ports)
      BY <2>4 DEF Scan
    <3>2. Visit("scan", "enumerate") /\ pc \in Visiting /\ UNCHANGED <<hosts, pending, approved>>
      BY <2>4 DEF Scan, Visit, Visiting
    <3>3. QED
      BY <3>1, <3>2, VisitsTouch
  <2>5. CASE Enumerate
    <3>1. PICK ports : Packets(6, ports)
      BY <2>5 DEF Enumerate
    <3>2. Visit("enumerate", "audit web") /\ pc \in Visiting /\ UNCHANGED <<hosts, pending, approved>>
      BY <2>5 DEF Enumerate, Visit, Visiting
    <3>3. QED
      BY <3>1, <3>2, VisitsTouch
  <2>6. CASE AuditWeb
    <3>1. PICK ports : Packets(7, ports)
      BY <2>6 DEF AuditWeb
    <3>2. Visit("audit web", "fingerprint") /\ pc \in Visiting /\ UNCHANGED <<hosts, pending, approved>>
      BY <2>6 DEF AuditWeb, Visit, Visiting
    <3>3. QED
      BY <3>1, <3>2, VisitsTouch
  <2>7. CASE Fingerprint
    <3>1. PICK ports : Packets(8, ports)
      BY <2>7 DEF Fingerprint
    <3>2. Visit("fingerprint", "analyse") /\ pc \in Visiting /\ UNCHANGED <<hosts, pending, approved>>
      BY <2>7 DEF Fingerprint, Visit, Visiting
    <3>3. QED
      BY <3>1, <3>2, VisitsTouch
  <2>8. CASE UNCHANGED <<hosts, pending, sent, approved>>
    BY <2>8 DEF Reached, Touched, Destinations
  <2>9. CASE Hold
    <3>1. UNCHANGED <<hosts, pending, approved>> /\ Destinations' = Destinations
      BY <2>9, HoldFacts DEF Destinations
    <3>2. Touched \subseteq Touched' /\ Touched' \subseteq Touched \cup pending \cup Range(hosts)
      BY <2>9, HoldSends DEF Touched
    <3>3. QED
      BY <3>1, <3>2 DEF Reached
  <2>10. QED
    BY <2>1, <2>2, <2>3, <2>4, <2>5, <2>6, <2>7, <2>8, <2>9 DEF Next, Engine, Operator, Main, Intake,
      Confirm, Answer, Discovered, Analyse, WriteReport, Finish, Crash, Interrupt, TimePasses, vars
<1>4. QED
  BY <1>1, <1>2, <1>3 DEF Reached

-----------------------------------------------------------------------------
\* A host goes by the name of an approved target that has its address.
LEMMA NameFacts ==
  ASSUME approved \in Seq(TargetSet), NEW ip \in Destinations
  PROVE  \E t \in Range(approved) : NameOf(ip) = t.hostname
<1> DEFINE n == Len(approved)
           T == {i \in 1..n : ip \in TargetAddresses(approved[i])}
           First(i) == /\ ip \in TargetAddresses(approved[i])
                       /\ \A j \in 1..(i - 1) : ip \notin TargetAddresses(approved[j])
           k == CHOOSE i \in DOMAIN approved : First(i)
<1>1. n \in Nat /\ DOMAIN approved = 1..n
  BY LenProperties
<1>2. T # {} /\ T \in SUBSET Nat
  BY <1>1 DEF Destinations, Range
<1>3. PICK m \in T : \A y \in T : m <= y
  <2> HIDE DEF T
  <2>1. QED
    BY <1>2, LeastNat
<1>4. m \in DOMAIN approved /\ First(m)
  <2>1. \A j \in 1..(m - 1) : j \in 1..n /\ j < m
    BY <1>1, <1>3
  <2>2. \A j \in 1..(m - 1) : j \notin T
    BY <1>1, <1>3, <2>1
  <2>3. QED
    BY <1>1, <1>3, <2>1, <2>2
<1>5. k \in DOMAIN approved
  <2> HIDE DEF First
  <2>1. QED
    BY <1>4
<1>6. NameOf(ip) = approved[k].hostname
  BY DEF NameOf
<1>7. approved[k] \in Range(approved)
  BY <1>5 DEF Range
<1>8. QED
  BY <1>6, <1>7

\* Hostname and URL targets have a name.
LEMMA NamedFacts ==
  ASSUME Intent, NEW t \in Singles, t.kind \in {"hostname", "url"}
  PROVE  t.hostname # None
<1>1. PICK u \in Range(targets) : t \in Range(ExpandOne(u))
  BY DEF Singles
<1>2. Range(targets) \subseteq Parsed
  BY ElementsAt DEF Intent
<1>3. PICK w \in Words : u = Parse(w) /\ Form[w] # "blank" /\ ~IsError(w)
  BY <1>1, <1>2 DEF Parsed
<1>4. t = u
  <2>1. CASE u.kind = "cidr"
    <3>1. PICK i \in DOMAIN u.ip_list :
            t = Target(u.ip_list[i], "single_ip", None, u.ip_list[i], <<u.ip_list[i]>>)
      BY <1>1, <2>1 DEF ExpandOne, Range
    <3>2. t.kind = "single_ip"
      BY <3>1 DEF Target
    <3>3. QED
      BY <3>2
  <2>2. CASE u.kind # "cidr"
    BY <1>1, <2>2 DEF ExpandOne, Range
  <2>3. QED
    BY <2>1, <2>2
<1>5. Form[w] \in {"ip", "cidr", "hostname", "url", "url to ip"}
  BY <1>3, InputAssumption DEF IsError
<1>6. Form[w] \in {"hostname", "url"} /\ t.hostname = Name[w]
  BY <1>3, <1>4, <1>5 DEF Parse, Target
<1>7. QED
  BY <1>6, InputAssumption

\* The names of the approved targets are cleared.
LEMMA NamesCleared ==
  ASSUME Intent, Vetted, pc \in Working, NEW t \in Range(approved), t.hostname # None
  PROVE  t.hostname \in ClearedNames
BY DEF Intent, Vetted, Allowed, Singles, ClearedNames

\* What a look-up of cleared names asks.
LEMMA LookUpAsks ==
  ASSUME AskedBelowCleared, NEW names, names \subseteq ClearedNames, LookUp(names)
  PROVE  queried' \subseteq ClearedNames \cup UNION {Below[n] : n \in ClearedNames}
BY DEF LookUp, AskedBelowCleared

\* What is cleared stays so.
LEMMA NamesStay ==
  ASSUME TypeOK, Intent, Progress, [Next]_vars, UNCHANGED targets
  PROVE  ClearedNames \subseteq ClearedNames'
<1>1. args' = args /\ Range(log) \subseteq Range(log')
  BY ArgsStay, LogGrows
<1>2. QED
  BY <1>1 DEF ClearedNames, Excluded

\* No step asks a resolver for a name that is neither cleared nor below one.
LEMMA AskedStep ==
  ASSUME TypeOK, Intent, Vetted, Reached, Progress, AskedBelowCleared, [Next]_vars
  PROVE  AskedBelowCleared'
<1> USE DEF scopeVars, hostVars, outVars, Exit, StartStage
<1> DEFINE Known == ClearedNames \cup UNION {Below[n] : n \in ClearedNames}
<1>0. approved \in Seq(TargetSet)
  BY DEF TypeOK
<1>1. ASSUME pc = "dns", NEW names \in SUBSET NamesOf(approved), LookUp(names), UNCHANGED targets
      PROVE  AskedBelowCleared'
  <2>1. NamesOf(approved) \subseteq ClearedNames
    <3>1. ASSUME NEW t \in Range(approved), t.kind \in {"hostname", "url"}
          PROVE  t.hostname \in ClearedNames
      <4>1. t \in Singles /\ pc \in Working
        BY <1>1 DEF Intent, Working
      <4>2. QED
        BY <3>1, <4>1, NamedFacts, NamesCleared
    <3>2. QED
      BY <3>1 DEF NamesOf
  <2>2. queried' \subseteq Known
    BY <1>1, <2>1, LookUpAsks
  <2>3. QED
    BY <1>1, <2>2, NamesStay DEF AskedBelowCleared
<1>2. ASSUME pc = "discover", NEW names \in SUBSET FoundNames, LookUp(names), UNCHANGED targets
      PROVE  AskedBelowCleared'
  <2>1. FoundNames \subseteq ClearedNames
    <3>1. ASSUME NEW ip \in Range(hosts), NameOf(ip) # None PROVE NameOf(ip) \in ClearedNames
      <4>1. ip \in Destinations /\ pc \in Working
        BY <1>2 DEF Reached, Working
      <4>2. PICK t \in Range(approved) : NameOf(ip) = t.hostname
        BY <1>0, <4>1, NameFacts
      <4>3. QED
        BY <3>1, <4>1, <4>2, NamesCleared
    <3>2. QED
      BY <3>1 DEF FoundNames
  <2>2. queried' \subseteq Known
    BY <1>2, <2>1, LookUpAsks
  <2>3. QED
    BY <1>2, <2>2, NamesStay DEF AskedBelowCleared
<1>3. CASE UNCHANGED <<queried, targets>>
  BY <1>3, NamesStay DEF AskedBelowCleared
<1>4. CASE Main
  BY <1>4 DEF Main, Reached, Consenting, AskedBelowCleared
<1>5. \/ Main \/ UNCHANGED <<queried, targets>>
      \/ /\ pc = "dns" /\ UNCHANGED targets
         /\ \E names \in SUBSET NamesOf(approved) : LookUp(names)
      \/ /\ pc = "discover" /\ UNCHANGED targets
         /\ \E names \in SUBSET FoundNames : LookUp(names)
  BY DEF Next, Engine, Operator, Intake, Confirm, Answer, Validate, Approve, Dns,
    Discover, Discovered, Found, Scan, Enumerate, AuditWeb, Fingerprint, Analyse, WriteReport,
    Finish, Some, Hold, Crash, Interrupt, TimePasses, vars
<1>6. QED
  BY <1>1, <1>2, <1>3, <1>4, <1>5

\* Every step keeps a run that aborts silent.
LEMMA AbortedStep ==
  ASSUME TypeOK, Reached, AbortedRunIsSilent, [Next]_vars
  PROVE  AbortedRunIsSilent'
<1> USE DEF scopeVars, hostVars, outVars, Exit, StartStage
<1>0. FilesToWrite' = FilesToWrite /\ reports \in Nat
  <2>1. FilesToWrite \in Nat
    BY FilesFact
  <2>2. FilesToWrite' = FilesToWrite
    BY ArgsStay DEF FilesToWrite
  <2>3. reports \in 0..FilesToWrite
    BY DEF TypeOK
  <2>4. QED
    BY ONLY <2>1, <2>2, <2>3
<1>1. CASE Approve \/ \E yes \in BOOLEAN : Answer(yes)
  <2>1. pc \in Consenting /\ pc # "report" /\ UNCHANGED <<reports, sent, queried>>
    BY <1>1 DEF Approve, Answer, Consenting
  <2>2. ~(reports > 0) /\ sent = {} /\ queried = {}
    BY <2>1 DEF Reached
  <2>3. reports' = 0 /\ sent' = {} /\ queried' = {}
    BY <1>0, <2>1, <2>2
  <2>4. QED
    BY <2>3 DEF AbortedRunIsSilent
<1>2. CASE Finish
  BY <1>0, <1>2 DEF Finish, AbortedRunIsSilent
<1>3. CASE exit' # "0" \/ UNCHANGED <<exit, reports, sent, queried>>
  BY <1>0, <1>3 DEF AbortedRunIsSilent
<1>4. (pc # "out" => exit = "")
  BY DEF TypeOK
<1>5. Hold => exit' # "0"
  BY <1>4, HoldFacts
<1>6. QED
  BY <1>1, <1>2, <1>3, <1>4, <1>5 DEF Next, Engine, Operator, Main, Intake, Confirm, Validate, Dns,
    Discover, Discovered, Scan, Enumerate, AuditWeb, Fingerprint, Analyse, Visit, WriteReport,
    Crash, Interrupt, TimePasses, vars

\* Where the packets of an approved target go.
LEMMA DestinationFacts ==
  ASSUME TypeOK, Intent, NEW a \in Destinations
  PROVE  \E t \in Range(approved) : t \in Singles /\ a = t.ip /\ a # None /\ t \in TargetSet
<1>1. PICK t \in Range(approved) : a \in TargetAddresses(t)
  BY DEF Destinations
<1>2. t \in Singles
  BY DEF Intent
<1>3. PICK u \in Range(targets) : t \in Range(ExpandOne(u))
  BY <1>2 DEF Singles
<1>4. Range(targets) \subseteq Parsed
  BY ElementsAt DEF Intent
<1>5. t \in TargetSet /\ TargetAddresses(t) \subseteq {t.ip} \ {None}
  BY <1>3, <1>4, SingleFacts
<1>6. QED
  BY <1>1, <1>2, <1>5

\* No address of --exclude is touched: packets go to an approved target's
\* address, and an approved target is not excluded.
LEMMA ExcludedFact == TypeOK /\ Intent /\ Vetted /\ Reached => ExcludedAddressUntouched
<1> SUFFICES ASSUME TypeOK, Intent, Vetted, Reached, NEW a \in Touched, a \in args.exclude
             PROVE  FALSE
  BY DEF ExcludedAddressUntouched
<1>1. a \in Destinations /\ sent # {}
  BY DEF Reached, Touched
<1>2. PICK t \in Range(approved) : a = t.ip
  BY <1>1, DestinationFacts
<1>3. ~Excluded(t)
  BY <1>1 DEF Vetted
<1>4. QED
  BY <1>2, <1>3 DEF Excluded

\* What a step makes of what the log tells of stages 4, 5 and 9.
LEMMA SubjectsStep ==
  ASSUME TypeOK, Intent, Progress, [Next]_vars
  PROVE  /\ pc' # "held" => Subjects(4)' = IF Discovered THEN Subjects(4) \o hosts ELSE Subjects(4)
         /\ Subjects(5)' = IF Scan THEN Subjects(5) \o <<hosts[at]>> ELSE Subjects(5)
         /\ Subjects(9)' = IF Analyse THEN Subjects(9) \o <<hosts[at]>> ELSE Subjects(9)
         /\ Discovered => \A ip \in Range(hosts) : Entry(4, ip, "alive") \in Range(log')
<1>0. PICK n \in 1..10 : \E entries : Step(n, entries)
  BY EveryStep
<1>1. PICK entries : Step(n, entries)
  BY <1>0
<1>2. log \in Seq(LogEntries(1..10)) /\ hosts \in Seq(Places)
  BY DEF TypeOK
<1>3. Adds(n, entries)
  BY <1>1 DEF Step
<1>4. /\ Range(log') = Range(log) \cup Range(entries)
      /\ \A m \in 1..10 : m # n => Subjects(m)' = Subjects(m)
      /\ Subjects(n)' = Subjects(n) \o Targets(entries)
  BY <1>2, <1>3, AddsFacts
<1>5. \A stage, ip, result : Targets(<<Entry(stage, ip, result)>>) = <<ip>>
  BY DEF Targets, Entry
<1>6. Targets(Alives) = hosts
  <2>1. hosts = [i \in 1..Len(hosts) |-> hosts[i]]
    BY <1>2, LenProperties
  <2>2. DOMAIN Alives = 1..Len(hosts) /\ \A i \in 1..Len(hosts) : Alives[i].target = hosts[i]
    BY <1>2, AlivesFacts DEF Entry
  <2>3. QED
    BY <2>1, <2>2 DEF Targets
<1>7. ASSUME pc' # "held"
      PROVE  Subjects(4)' = IF Discovered THEN Subjects(4) \o hosts ELSE Subjects(4)
  <2>1. CASE Discovered
    <3>1. n = 4 /\ entries = Alives
      BY <1>1, <2>1 DEF Step
    <3>2. QED
      BY <1>4, <1>6, <2>1, <3>1
  <2>2. CASE ~Discovered
    <3>1. n # 4
      BY <1>1, <1>7, <2>2, HoldFacts DEF Step
    <3>2. QED
      BY <1>4, <2>2, <3>1
  <2>3. QED
    BY <2>1, <2>2
<1>8. Subjects(5)' = IF Scan THEN Subjects(5) \o <<hosts[at]>> ELSE Subjects(5)
  <2>1. CASE Scan
    <3>1. n = 5 /\ entries = <<Entry(5, hosts[at], "scanned")>>
      BY <1>1, <2>1 DEF Step
    <3>2. QED
      BY <1>4, <1>5, <2>1, <3>1
  <2>2. CASE ~Scan
    <3>1. n # 5
      BY <1>1, <2>2 DEF Step
    <3>2. QED
      BY <1>4, <2>2, <3>1
  <2>3. QED
    BY <2>1, <2>2
<1>9. Subjects(9)' = IF Analyse THEN Subjects(9) \o <<hosts[at]>> ELSE Subjects(9)
  <2>1. CASE Analyse
    <3>1. n = 9 /\ entries = <<Entry(9, hosts[at], "analysed")>>
      BY <1>1, <2>1 DEF Step
    <3>2. QED
      BY <1>4, <1>5, <2>1, <3>1
  <2>2. CASE ~Analyse
    <3>1. n # 9
      BY <1>1, <2>2 DEF Step
    <3>2. QED
      BY <1>4, <2>2, <3>1
  <2>3. QED
    BY <2>1, <2>2
<1>10. ASSUME Discovered, NEW ip \in Range(hosts) PROVE Entry(4, ip, "alive") \in Range(log')
  <2>1. entries = Alives
    BY <1>1, <1>10 DEF Step
  <2>2. Entry(4, ip, "alive") \in Range(Alives)
    BY <1>2, AlivesFacts
  <2>3. QED
    BY <1>4, <2>1, <2>2
<1>11. QED
  BY <1>7, <1>8, <1>9, <1>10

\* One host more of the list.
LEMMA NextHost ==
  ASSUME hosts \in Seq(Places), at \in 1..Len(hosts)
  PROVE  /\ SubSeq(hosts, 1, at - 1) \o <<hosts[at]>> = SubSeq(hosts, 1, at)
         /\ SubSeq(hosts, 1, Len(hosts)) = hosts
<1> DEFINE k == at - 1
           h == hosts[at]
           q == SubSeq(hosts, 1, at - 1)
<1>1. Len(hosts) \in Nat /\ k \in 0..(Len(hosts) - 1) /\ k \in 0..Len(hosts) /\ k + 1 = at
  BY LenProperties
<1>2. SubSeq(hosts, 1, Len(hosts)) = hosts /\ SubSeq(hosts, 1, k) \in Seq(Places)
      /\ hosts[k + 1] \in Places /\ SubSeq(hosts, 1, k + 1) = Append(SubSeq(hosts, 1, k), hosts[k + 1])
  <2> HIDE DEF k
  <2>1. QED
    BY <1>1, PrefixFacts
<1>3. q \in Seq(Places) /\ h \in Places /\ SubSeq(hosts, 1, at) = Append(q, h)
  BY <1>1, <1>2
<1> HIDE DEF q, h
<1>4. Append(q, h) = q \o <<h>>
  BY <1>3, AppendIsConcat
<1>5. QED
  BY <1>2, <1>3, <1>4 DEF q, h

\* Every step keeps the log in step with the loops.
LEMMA ProgressStep ==
  ASSUME TypeOK, Intent, Reached, Progress, [Next]_vars
  PROVE  Progress'
<1> USE DEF scopeVars, hostVars, outVars, Exit, StartStage
<1> DEFINE Before == Consenting \cup {"dns", "discover"}
<1>0. hosts \in Seq(Places) /\ args' = args /\ Len(hosts) \in Nat
  BY ArgsStay, LenProperties DEF TypeOK
<1>1. CASE pc \in Before /\ pc' \in Before
  <2>1. Subjects(4)' = <<>> /\ Subjects(5)' = <<>> /\ Subjects(9)' = <<>>
    <3>1. ~Discovered /\ ~Scan /\ ~Analyse
      BY <1>1 DEF Discovered, Scan, Analyse, Visit, Consenting
    <3>2. pc' # "held"
      BY <1>1 DEF Consenting
    <3>3. QED
      BY <1>1, <3>1, <3>2, SubjectsStep DEF Progress
  <2>2. pc' \in {"dns", "discover"} => \A s \in sent' : s.stage = 4
    <3>1. CASE \E ip \in pending, up \in BOOLEAN : Discover(ip, up)
      <4>1. PICK ip \in pending, up \in BOOLEAN : Discover(ip, up)
        BY <3>1
      <4> DEFINE ping == [ip |-> ip, stage |-> 4, port |-> None]
      <4>2. sent' = sent \cup {ping} /\ ping.stage = 4 /\ pc = "discover"
        BY <4>1 DEF Discover
      <4> HIDE DEF ping
      <4>3. QED
        BY <4>2 DEF Progress
    <3>2. CASE UNCHANGED sent
      <4>1. CASE pc \in {"dns", "discover"}
        BY <3>2, <4>1 DEF Progress
      <4>2. CASE pc \in Consenting
        BY <3>2, <4>2 DEF Reached
      <4>3. QED
        BY <1>1, <4>1, <4>2
    <3>3. QED
      BY <1>1, <3>1, <3>2, HoldFacts DEF Next, Engine, Operator, Main, Intake, Confirm, Answer, Validate, Approve,
        Dns, Consenting, Discovered, Scan, Enumerate, AuditWeb, Fingerprint, Analyse, Visit,
        WriteReport, Finish, Crash, Interrupt, TimePasses, vars
  <2>3. pc' \notin Visiting \cup {"report"}
    BY <1>1 DEF Consenting, Visiting
  <2>4. QED
    BY <2>1, <2>2, <2>3 DEF Progress, Visiting
<1>2. CASE Discovered
  <2>1. Subjects(4)' = hosts /\ Subjects(5)' = <<>> /\ Subjects(9)' = <<>>
    <3>1. pc = "discover" /\ pc' # "held" /\ ~Scan /\ ~Analyse
      BY <1>2 DEF Discovered, Scan, Analyse, Visit
    <3>2. <<>> \o hosts = hosts
      BY <1>0, ConcatEmptySeq
    <3>3. QED
      BY <1>2, <3>1, <3>2, SubjectsStep DEF Progress
  <2>2. \A ip \in Range(hosts) : Entry(4, ip, "alive") \in Range(log')
    BY <1>2, SubjectsStep
  <2>3. hosts' = hosts /\ at' = 1 /\ pc' = IF hosts = <<>> \/ args.ping_sweep THEN "report" ELSE "scan"
    BY <1>2 DEF Discovered
  <2>4. hosts # <<>> => 1 \in 1..Len(hosts)
    BY <1>0, EmptySeq
  <2>5. SubSeq(hosts, 1, 0) = <<>>
    BY <1>0, PrefixFacts
  <2>6. CASE hosts = <<>> \/ args.ping_sweep
    BY <1>0, <2>1, <2>2, <2>3, <2>6 DEF Progress, Visiting, Consenting
  <2>7. CASE hosts # <<>> /\ ~args.ping_sweep
    <3>1. pc' = "scan" /\ at' = 1 /\ hosts' = hosts /\ 1 \in 1..Len(hosts)
      BY <2>3, <2>4, <2>7
    <3>2. at' - 1 = 0
      BY <3>1
    <3>3. SubSeq(hosts', 1, at' - 1) = <<>>
      BY <2>5, <3>1, <3>2
    <3>4. Subjects(5)' = SubSeq(hosts', 1, at' - 1)
      BY <2>1, <3>3
    <3>5. QED
      BY <1>0, <2>1, <2>2, <2>7, <3>1, <3>4 DEF Progress, Visiting, Consenting
  <2>8. QED
    BY <2>6, <2>7
<1>3. ASSUME pc \in Visiting
      PROVE  /\ at \in 1..Len(hosts) /\ ~args.ping_sweep /\ Subjects(4) = hosts
             /\ \A ip \in Range(hosts) : Entry(4, ip, "alive") \in Range(log')
  BY <1>3, LogGrows DEF Progress
<1>4. CASE Scan
  <2>1. pc = "scan" /\ pc \in Visiting /\ Visit("scan", "enumerate") /\ hosts' = hosts
        /\ pc' # "held" /\ ~Discovered /\ ~Analyse
    BY <1>4 DEF Scan, Visit, Visiting, Discovered, Analyse
  <2>2. Subjects(4)' = hosts /\ Subjects(5)' = SubSeq(hosts, 1, at) /\ Subjects(9)' = <<>>
    BY <1>0, <1>3, <1>4, <2>1, SubjectsStep, NextHost DEF Progress
  <2>3. /\ at' \in 1..Len(hosts)
        /\ \/ at = Len(hosts) /\ at' = 1 /\ pc' = "enumerate"
           \/ at \in 1..(Len(hosts) - 1) /\ at' = at + 1 /\ pc' = "scan"
    BY <1>0, <1>3, <2>1, VisitFacts
  <2>4. CASE at = Len(hosts) /\ pc' = "enumerate"
    <3>1. Subjects(5)' = hosts
      BY <1>0, <1>3, <2>1, <2>2, <2>4, NextHost
    <3>2. QED
      BY <1>0, <1>3, <2>1, <2>2, <2>3, <2>4, <3>1 DEF Progress, Visiting, Consenting
  <2>5. CASE at' = at + 1 /\ pc' = "scan"
    <3>1. at' - 1 = at
      BY <1>3, <2>1, <2>5
    <3>2. QED
      BY <1>0, <1>3, <2>1, <2>2, <2>3, <2>5, <3>1 DEF Progress, Visiting, Consenting
  <2>6. QED
    BY <2>3, <2>4, <2>5
<1>5. CASE Enumerate \/ AuditWeb \/ Fingerprint
  <2>1. pc \in Visiting \ {"scan", "analyse"} /\ hosts' = hosts /\ pc' # "held" /\ ~Discovered /\ ~Analyse /\ ~Scan
    BY <1>5 DEF Enumerate, AuditWeb, Fingerprint, Visit, Visiting, Discovered, Analyse, Scan
  <2>2. Subjects(4)' = hosts /\ Subjects(5)' = hosts /\ Subjects(9)' = <<>>
    BY <1>3, <2>1, SubjectsStep DEF Progress
  <2>3. at' \in 1..Len(hosts) /\ pc' \in {"enumerate", "audit web", "fingerprint", "analyse"}
        /\ (pc' = "analyse" => at' = 1)
    <3>1. CASE Enumerate
      BY <1>0, <1>3, <2>1, <3>1, VisitFacts DEF Enumerate
    <3>2. CASE AuditWeb
      BY <1>0, <1>3, <2>1, <3>2, VisitFacts DEF AuditWeb
    <3>3. CASE Fingerprint
      BY <1>0, <1>3, <2>1, <3>3, VisitFacts DEF Fingerprint
    <3>4. QED
      BY <1>5, <3>1, <3>2, <3>3
  <2>4. SubSeq(hosts, 1, 0) = <<>>
    BY <1>0, PrefixFacts
  <2>5. pc' = "analyse" => Subjects(9)' = SubSeq(hosts', 1, at' - 1)
    <3>1. ASSUME pc' = "analyse" PROVE Subjects(9)' = SubSeq(hosts', 1, at' - 1)
      <4>1. at' - 1 = 0
        BY <2>3, <3>1
      <4>2. SubSeq(hosts', 1, at' - 1) = <<>>
        BY <2>1, <2>4, <4>1
      <4>3. QED
        BY <2>2, <4>2
    <3>2. QED
      BY <3>1
  <2>6. QED
    BY <1>0, <1>3, <2>1, <2>2, <2>3, <2>5 DEF Progress, Visiting, Consenting
<1>6. CASE Analyse
  <2>1. pc = "analyse" /\ pc \in Visiting /\ Visit("analyse", "report") /\ hosts' = hosts
        /\ pc' # "held" /\ ~Discovered /\ ~Scan
    BY <1>6 DEF Analyse, Visit, Visiting, Discovered, Scan
  <2>2. Subjects(4)' = hosts /\ Subjects(5)' = hosts /\ Subjects(9)' = SubSeq(hosts, 1, at)
    BY <1>0, <1>3, <1>6, <2>1, SubjectsStep, NextHost DEF Progress, Visiting
  <2>3. /\ at' \in 1..Len(hosts)
        /\ \/ at = Len(hosts) /\ at' = 1 /\ pc' = "report"
           \/ at \in 1..(Len(hosts) - 1) /\ at' = at + 1 /\ pc' = "analyse"
    BY <1>0, <1>3, <2>1, VisitFacts
  <2>4. CASE at = Len(hosts) /\ pc' = "report"
    <3>1. Subjects(9)' = hosts
      BY <1>0, <1>3, <2>1, <2>2, <2>4, NextHost
    <3>2. QED
      BY <1>0, <1>3, <2>1, <2>2, <2>3, <2>4, <3>1 DEF Progress, Visiting, Consenting
  <2>5. CASE at' = at + 1 /\ pc' = "analyse"
    <3>1. at' - 1 = at
      BY <1>3, <2>1, <2>5
    <3>2. QED
      BY <1>0, <1>3, <2>1, <2>2, <2>3, <2>5, <3>1 DEF Progress, Visiting, Consenting
  <2>6. QED
    BY <2>3, <2>4, <2>5
<1>7. CASE pc' \in {"out", "held"}
  BY <1>7 DEF Progress, Visiting, Consenting
<1>8. CASE pc' = pc /\ UNCHANGED <<hosts, at, sent, log>>
  BY <1>0, <1>8 DEF Progress, Subjects, Entries
<1>9. CASE WriteReport
  BY <1>0, <1>9 DEF WriteReport, Progress, Subjects, Entries, Visiting, Consenting
<1>10. QED
  BY <1>1, <1>2, <1>4, <1>5, <1>6, <1>7, <1>8, <1>9, HoldFacts DEF Next, Engine, Operator, Main, Intake, Confirm,
    Answer, Validate, Approve, Dns, Discover, Consenting, Finish, Crash, Interrupt, TimePasses, vars

-----------------------------------------------------------------------------
\* The packets of one visit go to a host that is on record as alive.
LEMMA VisitOnRecord ==
  ASSUME TypeOK, Intent, Progress, TraceableRun, [Next]_vars, NEW stage, NEW next, NEW n, NEW ports,
         pc \in Visiting, Visit(stage, next), Packets(n, ports)
  PROVE  \A s \in sent' : s.stage > 4 => Entry(4, s.ip, "alive") \in Range(log')
<1>1. Range(log) \subseteq Range(log')
  BY LogGrows
<1>2. Entry(4, hosts[at], "alive") \in Range(log)
  BY VisitFacts DEF TypeOK, Progress
<1>3. ASSUME NEW s \in sent', s.stage > 4 PROVE Entry(4, s.ip, "alive") \in Range(log')
  <2>1. CASE s \in sent
    BY <1>1, <1>3, <2>1 DEF TraceableRun
  <2>2. CASE s \notin sent
    <3>1. PICK p \in ports : s = [ip |-> hosts[at], stage |-> n, port |-> p]
      BY <2>2 DEF Packets
    <3>2. s.ip = hosts[at]
      BY <3>1
    <3>3. QED
      BY <1>1, <1>2, <3>2
  <2>3. QED
    BY <2>1, <2>2
<1>4. QED
  BY <1>3

\* What is sent to after stage 4 has an "alive" entry.
LEMMA RecordStep ==
  ASSUME TypeOK, Intent, Progress, TraceableRun, [Next]_vars
  PROVE  \A s \in sent' : s.stage > 4 => Entry(4, s.ip, "alive") \in Range(log')
<1> USE DEF scopeVars, hostVars, outVars
<1>1. CASE UNCHANGED sent
  BY <1>1, LogGrows DEF TraceableRun
<1>2. CASE \E ip \in pending, up \in BOOLEAN : Discover(ip, up)
  <2>1. PICK ip \in pending, up \in BOOLEAN : Discover(ip, up)
    BY <1>2
  <2> DEFINE ping == [ip |-> ip, stage |-> 4, port |-> None]
  <2>2. sent' = sent \cup {ping} /\ ~(ping.stage > 4)
    BY <2>1 DEF Discover
  <2> HIDE DEF ping
  <2>3. QED
    BY <2>2, LogGrows DEF TraceableRun
<1>3. CASE Scan
  <2>1. PICK ports : Packets(5, ports)
    BY <1>3 DEF Scan
  <2>2. Visit("scan", "enumerate") /\ pc \in Visiting
    BY <1>3 DEF Scan, Visit, Visiting
  <2>3. QED
    BY <2>1, <2>2, VisitOnRecord
<1>4. CASE Enumerate
  <2>1. PICK ports : Packets(6, ports)
    BY <1>4 DEF Enumerate
  <2>2. Visit("enumerate", "audit web") /\ pc \in Visiting
    BY <1>4 DEF Enumerate, Visit, Visiting
  <2>3. QED
    BY <2>1, <2>2, VisitOnRecord
<1>5. CASE AuditWeb
  <2>1. PICK ports : Packets(7, ports)
    BY <1>5 DEF AuditWeb
  <2>2. Visit("audit web", "fingerprint") /\ pc \in Visiting
    BY <1>5 DEF AuditWeb, Visit, Visiting
  <2>3. QED
    BY <2>1, <2>2, VisitOnRecord
<1>6. CASE Fingerprint
  <2>1. PICK ports : Packets(8, ports)
    BY <1>6 DEF Fingerprint
  <2>2. Visit("fingerprint", "analyse") /\ pc \in Visiting
    BY <1>6 DEF Fingerprint, Visit, Visiting
  <2>3. QED
    BY <2>1, <2>2, VisitOnRecord
<1>7. CASE Hold
  <2>1. Range(log) \subseteq Range(log')
    BY LogGrows
  <2>2. ASSUME NEW s \in sent', s.stage > 4 PROVE Entry(4, s.ip, "alive") \in Range(log')
    <3>1. CASE s \in sent
      BY <2>1, <2>2, <3>1 DEF TraceableRun
    <3>2. CASE s \notin sent
      <4>1. s.ip \in Range(hosts) /\ pc \in Visiting
        BY <1>7, <2>2, <3>2, HoldSends
      <4>2. QED
        BY <2>1, <4>1 DEF Progress
    <3>3. QED
      BY <3>1, <3>2
  <2>3. QED
    BY <2>2
<1>8. QED
  BY <1>1, <1>2, <1>3, <1>4, <1>5, <1>6, <1>7 DEF Next, Engine, Operator, Main, Intake, Confirm, Answer,
    Validate, Approve, Dns, Discovered, Analyse, WriteReport, Finish, Crash, Interrupt, TimePasses, vars

\* The last entry of a longer log.
LEMMA LastEntry ==
  ASSUME NEW S, NEW s \in Seq(S), NEW x \in S
  PROVE  LET q == s \o <<x>> IN q[Len(q)] = x
<1> DEFINE q == Append(s, x)
<1>1. s \o <<x>> = q
  BY AppendIsConcat
<1>2. Len(q) = Len(s) + 1 /\ q[Len(s) + 1] = x
  BY AppendProperties
<1> HIDE DEF q
<1>3. QED
  BY <1>1, <1>2

\* A run that completes has an entry for each host in each stage, and a log
\* that ends with stage 10 and is closed.
LEMMA CompletedStep ==
  ASSUME TypeOK, Intent, Reached, Progress, TraceableRun, [Next]_vars, Completed'
  PROVE  /\ Subjects(4)' = hosts'
         /\ Subjects(5)' = IF args'.ping_sweep THEN <<>> ELSE hosts'
         /\ Subjects(9)' = Subjects(5)'
         /\ log'[Len(log')].stage = 10 /\ logFile' = "closed"
<1> USE DEF scopeVars, hostVars, outVars, Exit, StartStage
<1>1. CASE Finish
  <2>1. pc = "report" /\ hosts' = hosts /\ args' = args /\ logFile' = "closed"
        /\ ~Discovered /\ ~Scan /\ ~Analyse
    BY <1>1 DEF Finish, Discovered, Scan, Analyse, Visit
  <2>2. Subjects(4)' = Subjects(4) /\ Subjects(5)' = Subjects(5) /\ Subjects(9)' = Subjects(9)
    <3>1. pc' # "held"
      BY <1>1 DEF Finish
    <3>2. QED
      BY <2>1, <3>1, SubjectsStep
  <2>3. Subjects(4) = hosts /\ Subjects(5) = (IF args.ping_sweep THEN <<>> ELSE hosts)
        /\ Subjects(9) = Subjects(5)
    BY <2>1 DEF Progress
  <2> DEFINE e == Entry(10, None, "generated")
  <2>4. log' = log \o <<e>> /\ log \in Seq(LogEntries(1..10))
    BY <1>1 DEF Finish, Logged, TypeOK
  <2>5. e \in LogEntries(1..10) /\ e.stage = 10
    <3>1. "generated" \in Results /\ 10 \in 1..10
      BY DEF Results
    <3>2. QED
      BY <3>1, EntryType
  <2> HIDE DEF e
  <2>6. log'[Len(log')] = e
    BY <2>4, <2>5, LastEntry
  <2>7. QED
    BY <2>1, <2>2, <2>3, <2>5, <2>6
<1>2. CASE UNCHANGED vars
  <2>1. Completed /\ Subjects(4)' = Subjects(4) /\ Subjects(5)' = Subjects(5)
        /\ Subjects(9)' = Subjects(9)
    BY <1>2 DEF Completed, Subjects, Entries, vars
  <2>2. QED
    BY <1>2, <2>1 DEF TraceableRun, vars
<1>3. CASE Approve \/ \E yes \in BOOLEAN : Answer(yes)
  <2>1. pc \in Consenting /\ pc # "report" /\ UNCHANGED reports
    BY <1>3 DEF Approve, Answer, Consenting
  <2>2. ~(reports > 0)
    BY <2>1 DEF Reached
  <2>3. QED
    BY <2>1, <2>2 DEF Completed
<1>4. CASE exit' # "0"
  BY <1>4 DEF Completed
<1>5. pc # "out" <=> exit = ""
  BY DEF TypeOK
<1>6. Hold => exit' # "0"
  BY <1>5, HoldFacts
<1>7. QED
  BY <1>1, <1>2, <1>3, <1>4, <1>5, <1>6 DEF Next, Engine, Operator, Main, Intake, Confirm, Validate, Dns,
    Discover, Discovered, Scan, Enumerate, AuditWeb, Fingerprint, Analyse, Visit, WriteReport,
    Crash, Interrupt, TimePasses

\* Every step keeps the run traceable.
LEMMA TraceableStep ==
  ASSUME TypeOK, Intent, Reached, Progress, TraceableRun, [Next]_vars
  PROVE  TraceableRun'
<1>1. Completed' => /\ Subjects(4)' = hosts'
                    /\ Subjects(5)' = IF args'.ping_sweep THEN <<>> ELSE hosts'
                    /\ Subjects(9)' = Subjects(5)'
                    /\ log'[Len(log')].stage = 10 /\ logFile' = "closed"
  BY CompletedStep
<1>2. \A s \in sent' : s.stage > 4 => Entry(4, s.ip, "alive") \in Range(log')
  BY RecordStep
<1>3. QED
  BY <1>1, <1>2 DEF TraceableRun

-----------------------------------------------------------------------------
\* A run begins with nothing on the log.
LEMMA ProgressInit == Init => Progress
<1> SUFFICES ASSUME Init PROVE Progress
  OBVIOUS
<1>1. \A n : Subjects(n) = <<>>
  <2>1. \A n : Entries(n) = <<>>
    BY KeptEmpty DEF Init, Entries
  <2>2. QED
    BY <2>1 DEF Subjects
<1>2. pc = "main"
  BY DEF Init
<1>3. QED
  BY <1>1, <1>2 DEF Progress, Visiting, Consenting

\* A run begins in the inductive invariant.
LEMMA InitInv == Init => IInv
<1> SUFFICES ASSUME Init PROVE IInv
  OBVIOUS
<1>1. \A s : s = <<>> => Range(s) = {}
  BY DEF Range
<1>2. TypeOK /\ Intent /\ Progress
  BY TypesInit, ProgressInit
<1>3. Vetted
  <2>1. Range(approved) = {}
    BY <1>1 DEF Init
  <2>2. QED
    BY <2>1 DEF Vetted
<1>4. Reached
  <2>1. Range(hosts) = {} /\ Touched = {} /\ pending = {}
    BY <1>1 DEF Init, Touched
  <2>2. sent = {} /\ queried = {} /\ hosts = <<>> /\ pending = {} /\ open = << >> /\ reports = 0
    BY DEF Init
  <2>3. pending \cup Range(hosts) \cup Touched \subseteq Destinations /\ Range(hosts) \subseteq Touched
    BY <2>1
  <2>4. pc \in Consenting \cup Working /\ reports > 0 => pc = "report"
    BY <2>2
  <2>5. QED
    BY <2>2, <2>3, <2>4 DEF Reached
<1>5. AskedBelowCleared /\ AbortedRunIsSilent
  BY DEF Init, AskedBelowCleared, AbortedRunIsSilent
<1>6. TraceableRun
  BY DEF Init, TraceableRun, Completed
<1>7. QED
  BY <1>2, <1>3, <1>4, <1>5, <1>6 DEF IInv

\* Every step keeps it.
LEMMA StepInv == IInv /\ [Next]_vars => IInv'
<1> SUFFICES ASSUME IInv, [Next]_vars PROVE IInv'
  OBVIOUS
<1>1. TypeOK /\ Intent /\ Vetted /\ Reached /\ Progress /\ AskedBelowCleared /\ AbortedRunIsSilent
      /\ TraceableRun
  BY DEF IInv
<1>2. TypeOK'
  BY <1>1, TypesStep
<1>3. Intent'
  BY <1>1, IntentStep
<1>4. Vetted'
  BY <1>1, VettedStep
<1>5. Reached'
  BY <1>1, ReachedStep
<1>6. Progress'
  BY <1>1, ProgressStep
<1>7. AskedBelowCleared'
  BY <1>1, AskedStep
<1>8. AbortedRunIsSilent'
  BY <1>1, AbortedStep
<1>9. TraceableRun'
  BY <1>1, TraceableStep
<1>10. QED
  BY <1>2, <1>3, <1>4, <1>5, <1>6, <1>7, <1>8, <1>9 DEF IInv

\* The inductive invariant holds of every run (Hardener.run, cli.main).
THEOREM Invariance == Spec => []IInv
BY InitInv, StepInv, PTL DEF Spec

\* The run's variables keep their types: the targets, the hosts and the log
\* among them.
THEOREM TypeCorrect == Spec => []TypeOK
<1>1. IInv => TypeOK
  BY DEF IInv
<1>2. QED
  BY <1>1, Invariance, PTL

\* No packet ever goes to an address that --exclude names, by whatever target,
\* network or host name it comes (Hardener.run's filter of the approved list).
THEOREM ExcludedAddressUntouchedAlways == Spec => []ExcludedAddressUntouched
<1>1. IInv => ExcludedAddressUntouched
  BY ExcludedFact DEF IInv
<1>2. QED
  BY <1>1, Invariance, PTL

\* DNS discovery asks only for the names of targets that are on record as
\* allowed, neither excluded nor blocked, and for those its wordlist makes below
\* them (stages 3 and 4, enumerate_subdomains).
THEOREM AskedBelowClearedAlways == Spec => []AskedBelowCleared
<1>1. IInv => AskedBelowCleared
  BY DEF IInv
<1>2. QED
  BY <1>1, Invariance, PTL

\* A run that returns 0 has written all its reports, or has sent nothing to a
\* host and started no DNS discovery (_finish, Hardener.run).
THEOREM AbortedRunIsSilentAlways == Spec => []AbortedRunIsSilent
<1>1. IInv => AbortedRunIsSilent
  BY DEF IInv
<1>2. QED
  BY <1>1, Invariance, PTL

\* The audit log accounts for the run: what is touched after discovery is on
\* record as alive, and a completed run has its entries for every host, in
\* order (audit_log, Hardener.run).
THEOREM TraceableRunAlways == Spec => []TraceableRun
<1>1. IInv => TraceableRun
  BY DEF IInv
<1>2. QED
  BY <1>1, Invariance, PTL

-----------------------------------------------------------------------------
\* On a clock of D minutes: how far a minute is after another.
LEMMA Around ==
  ASSUME NEW D \in Nat, D # 0, NEW x \in 0..(D - 1), NEW y \in 0..(D - 1)
  PROVE  (x - y) % D = IF y <= x THEN x - y ELSE x - y + D
<1>1. CASE y <= x
  <2>1. x - y \in 0..(D - 1)
    BY <1>1
  <2>2. QED
    BY <1>1, <2>1, SMTT(30)
<1>2. CASE ~(y <= x)
  <2>1. x - y + D \in 0..(D - 1)
    BY <1>2
  <2>2. QED
    BY <1>2, <2>1, SMTT(30)
<1>3. QED
  BY <1>1, <1>2

\* Inside a scan window: as far from its begin as its end at most, across
\* midnight too.
LEMMA WindowFacts ==
  ASSUME NEW w, w.from \in 0..(Day - 1), w.to \in 0..(Day - 1), NEW now \in 0..(Day - 1),
         w.set, w.text, WindowAllows(w, now)
  PROVE  (now - w.from) % Day <= (w.to - w.from) % Day
<1> DEFINE from == w.from
           to == w.to
<1>1. Day \in Nat /\ Day # 0 /\ from \in 0..(Day - 1) /\ to \in 0..(Day - 1)
  BY DayAssumption
<1>2. IF from <= to THEN from <= now /\ now <= to ELSE now >= from \/ now <= to
  BY DEF WindowAllows
<1> HIDE DEF from, to
<1>3. (now - from) % Day = (IF from <= now THEN now - from ELSE now - from + Day)
  BY <1>1, Around
<1>4. (to - from) % Day = (IF from <= to THEN to - from ELSE to - from + Day)
  BY <1>1, Around
<1>5. CASE from <= to
  <2>1. (now - from) % Day = now - from /\ (to - from) % Day = to - from /\ now <= to
    BY ONLY <1>2, <1>3, <1>4, <1>5
  <2>2. QED
    BY ONLY <1>1, <2>1, now \in 0..(Day - 1) DEF from, to
<1>6. CASE ~(from <= to) /\ from <= now
  <2>1. (now - from) % Day = now - from /\ (to - from) % Day = to - from + Day
    BY ONLY <1>3, <1>4, <1>6
  <2>2. now - from <= to - from + Day
    BY ONLY <1>1, now \in 0..(Day - 1)
  <2>3. QED
    BY <2>1, <2>2 DEF from, to
<1>7. CASE ~(from <= to) /\ ~(from <= now)
  <2>1. (now - from) % Day = now - from + Day /\ (to - from) % Day = to - from + Day
    BY ONLY <1>3, <1>4, <1>7
  <2>2. now - from + Day <= to - from + Day
    BY ONLY <1>1, <1>2, <1>7, now \in 0..(Day - 1)
  <2>3. QED
    BY <2>1, <2>2 DEF from, to
<1>8. QED
  BY <1>5, <1>6, <1>7

\* A target that is approved is approved inside the window.
LEMMA WindowStep ==
  ASSUME IInv, [Next]_vars, Len(approved') > Len(approved),
         args.scope.window.set, args.scope.window.text
  PROVE  (time - args.scope.window.from) % Day <= (args.scope.window.to - args.scope.window.from) % Day
<1> USE DEF scopeVars, hostVars, outVars
<1>0. TypeOK /\ approved \in Seq(TargetSet) /\ time \in 0..(Day - 1) /\ Len(approved) \in Nat
  BY LenProperties DEF IInv, TypeOK
<1>1. approved' # approved
  BY <1>0
<1>2. CASE Approve
  <2> DEFINE T == {t \in Range(approved) : ~Excluded(t)}
  <2>1. approved' = Kept(approved, T)
    BY <1>2 DEF Approve
  <2> HIDE DEF T
  <2>2. Len(approved') <= Len(approved) /\ approved' \in Seq(TargetSet)
    BY <1>0, <2>1, KeptShorter, KeptType
  <2>3. Len(approved') \in Nat
    BY <2>2, LenProperties
  <2>4. QED
    BY <1>0, <2>2, <2>3
<1>3. CASE Validate
  <2> DEFINE v == Verdict(args.scope, consent, time, Head(todo))
  <2>1. v = "allowed"
    BY <1>1, <1>3 DEF Validate
  <2>2. WindowAllows(args.scope.window, time)
    BY <2>1, VerdictFacts
  <2>3. args.scope.window.from \in 0..(Day - 1) /\ args.scope.window.to \in 0..(Day - 1)
    BY <1>0, ArgsFacts DEF TypeOK
  <2>4. QED
    BY <1>0, <2>2, <2>3, WindowFacts
<1>4. Approve \/ Validate
  BY <1>1, HoldFacts DEF Next, Engine, Operator, Main, Intake, Confirm, Answer, Dns, Discover,
    Discovered, Scan, Enumerate, AuditWeb, Fingerprint, Analyse, WriteReport, Finish, Crash,
    Interrupt, TimePasses, vars
<1>5. QED
  BY <1>2, <1>3, <1>4

\* No step approves a target outside the scope file's scan window, one across
\* midnight included (scope_validator.validate).
THEOREM ApprovedInWindowAlways == Spec => ApprovedInWindow
<1> DEFINE w == args.scope.window
           InWindow == Len(approved') > Len(approved) /\ w.set /\ w.text
                         => (time - w.from) % Day <= (w.to - w.from) % Day
<1>1. IInv /\ [Next]_vars => InWindow
  BY WindowStep
<1> HIDE DEF InWindow
<1>2. Spec => [][InWindow]_vars
  BY <1>1, Invariance, PTL DEF Spec
<1>3. QED
  BY <1>2 DEF ApprovedInWindow, InWindow

-----------------------------------------------------------------------------
\* Packets go only where the audit log has cleared the way.
LEMMA DestinationsCleared ==
  ASSUME TypeOK, Intent, Vetted
  PROVE  Destinations \subseteq Cleared
<1>1. ASSUME NEW a \in Destinations PROVE a \in Cleared
  <2>1. PICK t \in Range(approved) : t \in Singles /\ a = t.ip /\ a # None
    BY DestinationFacts
  <2>2. Entry(2, t.raw, "allowed") \in Range(log)
    BY DEF Vetted, Allowed
  <2>3. QED
    BY <2>1, <2>2 DEF Cleared, Singles
<1>2. QED
  BY <1>1

\* Other steps than Validate clear no address and take none back.
LEMMA ClearedStays ==
  ASSUME TypeOK, Intent, Progress, [Next]_vars, ~Validate, UNCHANGED targets
  PROVE  Cleared' = Cleared
<1>1. \A t : Entry(2, t.raw, "allowed") \in Range(log') <=> Entry(2, t.raw, "allowed") \in Range(log)
  BY LogGrows DEF Allowed
<1>2. QED
  BY <1>1 DEF Cleared

\* What has been touched stays so.
LEMMA SentGrows ==
  ASSUME [Next]_vars
  PROVE  Touched \subseteq Touched'
<1>1. sent \subseteq sent'
  BY DEF Next, Engine, Operator, Main, Intake, Confirm, Answer, Validate, Approve, Dns, Discover,
    Discovered, Scan, Enumerate, AuditWeb, Fingerprint, Analyse, Packets, WriteReport, Finish, Hold, Crash,
    Interrupt, TimePasses, vars, scopeVars, hostVars, outVars
<1>2. QED
  BY <1>1 DEF Touched

\* Validate clears addresses only with consent, and only those that are
\* permitted.
LEMMA ValidateClears ==
  ASSUME TypeOK, Intent, Progress, Validate, [Next]_vars
  PROVE  \/ Cleared' = Cleared
         \/ consent /\ Cleared \subseteq Cleared' /\ Cleared' \subseteq Cleared \cup Permitted
<1> DEFINE t == Head(todo)
           v == Verdict(args.scope, consent, time, Head(todo))
<1>1. t \in Singles /\ Range(targets) \subseteq Parsed
  BY HeadFacts, ElementsAt DEF Validate, Intent
<1>2. Range(log') = Range(log) \cup {Entry(2, t.raw, v)} /\ targets' = targets
  BY ValidateLogs DEF Validate
<1>3. v = "allowed" => /\ consent
                       /\ t.ip # None => t.ip \in Permitted
  BY VerdictFacts DEF Permitted
<1> HIDE DEF v, t
<1>4. \A s : Entry(2, s.raw, "allowed") = Entry(2, t.raw, v) <=> s.raw = t.raw /\ v = "allowed"
  BY DEF Entry
<1>5. CASE v # "allowed"
  <2>1. \A s : Entry(2, s.raw, "allowed") \in Range(log') <=> Entry(2, s.raw, "allowed") \in Range(log)
    BY <1>2, <1>4, <1>5
  <2>2. QED
    BY <1>2, <2>1 DEF Cleared
<1>6. CASE v = "allowed"
  <2>1. Cleared \subseteq Cleared'
    BY <1>2 DEF Cleared
  <2>2. ASSUME NEW a \in Cleared', a \notin Cleared PROVE a \in Permitted
    <3>1. PICK s \in Singles : a = s.ip /\ s.ip # None /\ Entry(2, s.raw, "allowed") \in Range(log')
      BY <1>2, <2>2 DEF Cleared, Singles
    <3>2. Entry(2, s.raw, "allowed") \notin Range(log)
      BY <2>2, <3>1 DEF Cleared, Singles
    <3>3. s.raw = t.raw
      BY <1>2, <1>4, <3>1, <3>2
    <3>4. s.ip = t.ip
      <4>1. PICK u \in Range(targets) : s \in Range(ExpandOne(u))
        BY <3>1 DEF Singles
      <4>2. PICK w \in Range(targets) : t \in Range(ExpandOne(w))
        BY <1>1 DEF Singles
      <4>3. QED
        BY <1>1, <3>3, <4>1, <4>2, SameRaw
    <3>5. QED
      BY <1>3, <1>6, <3>1, <3>4
  <2>3. Cleared' \subseteq Cleared \cup Permitted
    BY <2>2
  <2>4. QED
    BY <1>3, <1>6, <2>1, <2>3
<1>7. QED
  BY <1>5, <1>6

\* Every step of the run is a step of the permit or none.
LEMMA PermitStep == IInv /\ IInv' /\ [Next]_vars => [Permit!Next]_(Permit!vars)
<1> SUFFICES ASSUME IInv, IInv', [Next]_vars PROVE [Permit!Next]_(Permit!vars)
  OBVIOUS
<1> USE DEF scopeVars, hostVars, outVars
<1>0. TypeOK /\ Intent /\ Vetted /\ Reached /\ Progress /\ Reached'
  BY DEF IInv
<1>1. Permitted' = Permitted
  BY ArgsStay DEF Permitted
<1>2. CASE Main
  <2>1. Cleared = {}
    <3>1. Range(targets) = {}
      BY <1>0, <1>2 DEF Main, Intent, Range
    <3>2. QED
      BY <3>1 DEF Cleared
  <2>2. Cleared' = {}
    <3>1. log' = <<>>
      BY <1>0, <1>2 DEF Main, Intent
    <3>2. Range(log') = {}
      BY <3>1 DEF Range
    <3>3. QED
      BY <3>2 DEF Cleared
  <2>3. UNCHANGED <<consent, sent>>
    BY <1>2 DEF Main
  <2>4. QED
    BY <1>1, <2>1, <2>2, <2>3 DEF Permit!vars, Touched
<1>3. CASE Validate
  <2>1. UNCHANGED <<consent, sent>>
    BY <1>3 DEF Validate
  <2>2. Touched' = Touched
    BY <2>1 DEF Touched
  <2>3. \/ Cleared' = Cleared
        \/ consent /\ Cleared \subseteq Cleared' /\ Cleared' \subseteq Cleared \cup Permitted
    BY <1>0, <1>3, ValidateClears
  <2>4. QED
    BY <1>1, <2>1, <2>2, <2>3 DEF Permit!vars, Permit!Next, Permit!Clear
<1>4. CASE \E yes \in BOOLEAN : Answer(yes)
  <2>1. UNCHANGED <<targets, sent>> /\ ~Validate /\ (consent' = consent \/ consent' = TRUE)
    BY <1>4 DEF Answer, Validate
  <2>2. Cleared' = Cleared /\ Touched' = Touched
    BY <1>0, <2>1, ClearedStays DEF Touched
  <2>3. QED
    BY <1>1, <2>1, <2>2 DEF Permit!vars, Permit!Next, Permit!Confirm
<1>5. CASE Approve
  <2>1. UNCHANGED <<targets, sent, consent>> /\ ~Validate
    BY <1>5 DEF Approve, Validate
  <2>2. Cleared' = Cleared /\ Touched' = Touched
    BY <1>0, <2>1, ClearedStays DEF Touched
  <2>3. QED
    BY <1>1, <2>1, <2>2 DEF Permit!vars
<1>6. CASE UNCHANGED <<targets, approved, consent>> /\ ~Validate
  <2>1. Cleared' = Cleared
    BY <1>0, <1>6, ClearedStays
  <2>2. Touched' \subseteq Destinations'
    BY <1>0 DEF Reached
  <2>3. Destinations' = Destinations
    BY <1>6 DEF Destinations
  <2>4. Touched' \subseteq Touched \cup Cleared
    BY <1>0, <2>2, <2>3, DestinationsCleared
  <2>5. Touched \subseteq Touched'
    BY SentGrows
  <2>6. QED
    BY <1>1, <1>6, <2>1, <2>4, <2>5 DEF Permit!Next, Permit!Touch
<1>7. \/ Main \/ Validate \/ (\E yes \in BOOLEAN : Answer(yes)) \/ Approve
      \/ UNCHANGED <<targets, approved, consent>> /\ ~Validate
  <2>1. CASE Validate
    BY <2>1
  <2>2. CASE ~Validate
    BY <2>2, HoldFacts DEF Next, Engine, Operator, Intake, Confirm, Dns, Discover,
      Discovered, Scan, Enumerate, AuditWeb, Fingerprint, Analyse, WriteReport, Finish, Crash,
      Interrupt, TimePasses, vars
  <2>3. QED
    BY <2>1, <2>2
<1>8. QED
  BY <1>2, <1>3, <1>4, <1>5, <1>6, <1>7

\* A run begins with nothing cleared and nothing touched.
LEMMA PermitInit == Init => Permit!Init
<1> SUFFICES ASSUME Init PROVE Permit!Init
  OBVIOUS
<1>1. consent \in BOOLEAN
  BY TypesInit DEF TypeOK
<1>2. Range(targets) = {} /\ sent = {}
  <2>1. \A s : s = <<>> => Range(s) = {}
    BY DEF Range
  <2>2. QED
    BY <2>1 DEF Init
<1>3. Cleared = {} /\ Touched = {}
  BY <1>2 DEF Cleared, Touched
<1>4. QED
  BY <1>1, <1>3 DEF Permit!Init

\* The run implements ScanPermit: nothing is touched that consent and scope
\* have not cleared before, though clearing, excluding, resolving and scanning
\* are stages of their own.
THEOREM Implements == Spec => PermitSpec
<1>1. IInv /\ IInv' /\ [Next]_vars => [Permit!Next]_(Permit!vars)
  BY PermitStep
<1>2. Spec => [][Permit!Next]_(Permit!vars)
  BY <1>1, Invariance, PTL DEF Spec
<1>3. Spec => Permit!Init
  BY PermitInit DEF Spec
<1>4. QED
  BY <1>2, <1>3 DEF PermitSpec, Permit!Spec
=============================================================================

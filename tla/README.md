# A TLA+ model of the Host & Network Hardener

The repository is a command-line auditor for hosts and networks: it takes
targets, checks that it may touch them, finds the hosts that are alive, scans
their ports with a pool of threads under a rate limit, looks closer at what is
open, scores what it finds and writes reports and an audit log.  This directory
holds TLA+ modules of its control, the TLC configurations that check them, and
proofs for the TLA+ proof system.  Paths of the code are relative to the
repository; `PROJECT.json` maps each definition to the lines it models.

## 1. The system

| component (`hardener/`) | state it keeps | operations | talks to |
| --- | --- | --- | --- |
| `ratelimit.py` rate limiter | lock, last stamp, count | `acquire` | every worker of the scan pools; the wall clock |
| `port_scanner.py` | futures, results, per-worker retries | `scan_tcp_ports`, `scan_udp_ports`, the probe functions | limiter, network |
| `hardener.py` engine | configuration, approved targets, alive hosts, findings | `run` (ten stages), `_finish` | all the others |
| `cli.py` | parsed options | `main`, `parse_port_list`, `resolve_scan_type` | target parser, engine |
| `input_handler.py` | none | `parse_targets`, `expand_targets` | the system's resolver |
| `scope_validator.py` | consent, scope | `confirm_authorization`, `validate` | operator, wall clock |
| `audit.py` | an open file | `log`, `close` | engine |
| `host_discovery.py` | a pool of pings, a raw socket per thread | `discover_hosts`, `discover_host`, `icmp_ping`, ... | network, the ping program |
| `nmap_engine.py` | none | `nmap_tcp_scan`, `nmap_udp_scan` | the nmap binary |
| `dns_discovery.py` | a host's records, subdomains, CDN | `discover_host_infrastructure` | the resolvers, one after the other |
| `service_enum.py` | version, banners, flags of a port | `enumerate_port` and a dialogue per service | what listens at the port |
| `http_audit.py`, `tls_audit.py` | a host's endpoints | `audit_http`, `audit_tls` | web servers |
| `os_fingerprint.py` | a host's operating system | `fingerprint_os`, `_ttl_from_ping` | network, through a raw socket |
| `security_analysis.py`, `cve_db.py` | none | `analyze_host`, `match_cves`, `extract_version` | engine |
| `risk_engine.py`, `remediation.py` | the findings | scoring, deduplication, advice, ranking, statistics | engine |
| `reporting.py` | five files and the grepable one | `generate_reports`, `write_grepable` | file system |
| `models.py`, `config.py`, `utils.py` | tables and records | console helpers | all |
| `main.py`, `lab_mock.py` | none | entry point; banners for tests | |

What is hard about it:

* *Concurrency.*  Up to 50 workers share one limiter that sleeps while it
  holds its lock; the main thread submits, gathers and, on Ctrl-C or on the
  deadline, leaves early, while the pool keeps its own queue.
* *Time.*  The limiter and the deadline compare readings of a wall clock that
  may be stepped; the scan window is checked at one moment and relied on later.
* *Failure.*  Answers are lost and probed for again; a probe, a stage or a file
  operation may raise; some of these are caught per future, some per stage,
  some by nobody.
* *Shared sockets.*  Every raw ICMP socket receives what is meant for any of
  them; who is alive is told by an identifier of sixteen bits.
* *Dialogues.*  A late answer meets the next read of its dialogue; a peer closes,
  keeps the connection open or says what the program was not waiting for; one
  stage's finding is a field that a later stage overwrites or reads.
* *Several names for one host.*  A target is a word, an address, a list of
  addresses and a host name, and consent, scope, exclusion and expansion each
  look at another of these.

What makes each part correct: the limiter spaces its grants and lets everyone
through; the pool accounts for every port exactly once, with a verdict that
fits the answers, and ends; discovery takes for alive who answered; nmap is
asked for the ports the operator means and takes no longer than its budget; what
is found on a host is what its open ports, its web servers and the resolvers
told, neither lost nor made up between probe and report; the report has each
issue once, at its highest score, in every format; the engine touches only what
consent, scope and exclusions allow, its log tells what it did, and a run ends.
The hazards at their lines are in `PROJECT.json`.

## 2. The modules

| module | models | kind |
| --- | --- | --- |
| `RateCap` | the promise of a rate cap | abstract specification |
| `RateLimiter` | `ratelimit.py` | detailed; implements `RateCap` |
| `RateLimiterProofs` | | theorems and proofs |
| `ScanPromise` | what a port scan promises the engine | abstract specification |
| `ScanPool` | `port_scanner.py` composed with `RateLimiter` | detailed; implements `ScanPromise` |
| `ScanPoolProofs` | | theorems and proofs |
| `ScanPermit` | whom the tool may touch | abstract specification |
| `InputHandler`, `ScopeValidator` | the operators of the two files | pure |
| `Engine` | `hardener.py`, `cli.main`, consent prompt, audit log | detailed; implements `ScanPermit` |
| `EngineProofs` | | theorems and proofs |
| `AlivePromise` | what host discovery promises the engine | abstract specification |
| `HostDiscovery` | `host_discovery.py` | detailed; implements `AlivePromise` |
| `TtlReader` | `_ttl_from_ping` of `os_fingerprint.py`, on the network of `HostDiscovery` | detailed |
| `HostDiscoveryProofs` | of both | theorems and proofs |
| `PortOptions` | port lists and scan types of `cli.py` | pure |
| `NmapEngine` | `nmap_engine.py`, over `PortOptions` | detailed; nmap is external |
| `NmapEngineProofs` | | theorems and proofs |
| `DnsDiscovery` | `dns_discovery.py` | pure |
| `ServiceEnum` | `service_enum.py` | pure |
| `HttpAudit` | `http_audit.py` and the choice of ports in `hardener.py` | pure |
| `OsFingerprint` | `fingerprint_os` | pure |
| `CveDb` | `cve_db.py`: software, versions, ranges | pure |
| `SecurityAnalysis` | `security_analysis.py`, over `CveDb` | pure |
| `Reporting` | `reporting.py`: what each format lists | pure |
| `Config` | tables that several of these read | constants |
| `Lists` | the list comprehensions and the sorting of all of them | pure |
| `ListFacts` | lemmas about lists, for any length | proofs |
| `RiskEngine` | `risk_engine.py`, `remediation.py`: stage 10 | detailed |
| `RiskEngineProofs` | | theorems and proofs |
| `HostReport` | from the look-up of a host to its report: all of these composed with `RiskEngine` | properties of the whole |
| `HostReportProofs` | | theorems and proofs |
| `MCRateLimiter`, `MCScanPool`, `MCEngine`, `MCHostDiscovery`, `MCNmapEngine`, `MCRiskEngine` | | instances for TLC |

**RateLimiter.**  `acquire()` is three actions under the lock: `Enter` (lock,
`_sent += tokens`, the early return of a disabled limiter), `Measure` (first
clock reading, length of the sleep), `Stamp` (end of the sleep, second reading,
unlock).  `now` is real time, `skew` the wall clock's offset, which `ClockStep`
changes at any moment within `-Back..Ahead`.  `Call` and the histories `calls`,
`grants` stand for the callers.  `Start - Back >= Interval` says that epoch time
is large: the first caller, with `_last = 0.0`, never waits.

**ScanPool.** The main thread: `Submit`, `Expire` (the deadline found in the
submission loop), `AllSubmitted`, `Gather` (one future of `as_completed`),
`Return` and `Unwound` (leaving the `with` block, which waits for the pool), and
`Interrupt`. A worker: `Take`, `Acquire` (the limiter's own actions, by `RL ==
INSTANCE RateLimiter`), `Delay`, `Send`, `Answer` (one attempt of `_probe_tcp`,
with the retry condition) and `Crash`. What a port is and what it answers is
external: `Answers` lists what a network may do with a probe of each technique,
silence always included; the SYN-ACK whose RST cannot be sent (`unreset`) is
among them, and is `filtered`. `Classify` is what the probe functions make of
it; `connect_ex` returns the error of a timeout, so a connect scan's timeout is
`closed`.

**Engine.** `pc` walks through the stages. `Main` is `cli.main` up to the
engine's start, `Intake` to `Finish` are the stages and `_finish`; those that go
through the hosts do one host per step (`Visit`). `Discover` reports one address
of the discovery pool, in any order. `sent` and `queried` are histories of
packets and of DNS discovery. A look-up asks for a target's name and for what
the wordlist makes of it (`LookUp`, `Below`), unless the name's own records
raise before. `Crash` stands for whatever an unguarded operation raises,
`Interrupt` for Ctrl-C (exit code 130), `TimePasses` for the clock, and is
enabled only where a scan window makes it matter. A window that is no text
cannot be read and allows every time, as `_scan_window_allowed` does. Words of
the command line are opaque values with a `Form`, so that parsing keeps its
cases without characters. Scope networks are sets of addresses.

`Hold` stands for the four waits that only the peer can end: a compressed DNS
name that points to itself (`_decode_name`), the timeouts of `icmp_ping` and of
`_ttl_from_ping`, which start again with every packet that is not the awaited
one, and `_raw_request`, which reads for as long as a web server sends. A stage
that is held has done a part of its work and does no more; only Ctrl-C ends the
run.

**HostDiscovery.**  A pool whose workers `Take` an address and try one probe
after the other (`NextProbe`).  A ping is `SendPing`, `Receive` in a loop over
what its raw socket holds, `ReceiveTimeout`, `CloseSocket`, and `PingProgram`
when raw sockets are not allowed.  `Arrive` and `Stray` are the network: a reply
goes to every open raw socket (`Deliver`).  Identifiers are low bits of a clock,
so two threads may draw the same; `Matches` compares them and not the address.
`AliveSpec` maps the pool to `AlivePromise`: one verdict per address, and a list
of those found alive, each once.  `TtlReader` goes on from there: for each host
of the list the fingerprinting opens one more raw socket (`AskTtl`), takes the
first reply that comes (`TakeTtl`) or none (`TtlTimeout`).  Replies to the
discovery that are still on their way reach it too (`Hear`).

**NmapEngine.**  One host: the TCP run, the second one when `-sS` fails
(`FallsBack`), reading the output, then the UDP run.  nmap's outputs are those
shapes that `parse_nmap_xml` and its callers tell apart.  `PortOptions` turns
the written options into the lists, chunk by chunk, `PortSpec` the lists into
ranges, `Denotes` is what nmap makes of them.

**RiskEngine.**  The functions of stage 10 in their order, with the loops of
`score_all` and `deduplicate` as one action per finding, because what
deduplication keeps is a property of every prefix.  The objects stay where they
are and are changed in place; `seen` and `ranked` are positions.  Scores are in
tenths, so that rounding disappears.  A title is opaque, with `Lower` as
`str.lower`.

**HostReport.** The stages between the scan and the risk engine are sequential
and their data goes one way, so they are operators, and `HostReport` composes
them in the engine's order. What is outside is part of a host: `net` maps a
query to a resolver's reply (unparseable ones included), `peers` what is sent to
a port to what it answers and whether in time, `webs` requests to responses.
`DnsDiscovery` has the fall-back from resolver to resolver, what an exception
costs and which look-ups never come back; `ServiceEnum` each probe's dialogue,
the dispatcher, the renaming of unknown services and what `enumerate_port`
overwrites; `HttpAudit` which ports are asked, which responses survive and which
servers hold the audit; `OsFingerprint` the points. A host that holds the run
(`Held`) has no report: that is `Hold` of `Engine`. A text is the markers that
the program looks for in it and its numbers, in three parts: those behind the
name of the software it has a pattern for, those of a leading protocol prefix,
and those after the prefix. `SecurityAnalysis` and `CveDb` make the findings,
`RiskEngine` reduces them and `Reporting` writes them down.

Next to some definitions stands a variant named `X_...`: the line of code with a
plausible slip.  Nothing uses it; replacing `X` by it is how each property was
shown to notice (`PROJECT.json`, "mutants").

## 3. The runs

| run | instance | what it shows |
| --- | --- | --- |
| `limiter` | 3 threads, 4 calls, interval 3, clock one unit off either way | exclusion, spacing of any two grants less what the clock was stepped, hold time, every call returns, `RateCap` implemented |
| `pool` | SYN scan, 3 ports, 2 workers, 1 retry, raising probes, Ctrl-C | open iff heard; no verdict before the last retry; nothing queued is cancelled by Ctrl-C |
| `pool_ends` | 2 ports, 2 workers, interval 2, delay 1, deadline, Ctrl-C | the scan ends; every port once in the results, dropped or skipped; rate on the wire at most `retries + 1` times the cap; `ScanPromise` implemented |
| `pool_timeout` | connect scan | finding, below |
| `engine` | two families of command lines: target lists with overlapping spellings, exclusions, blocked names and addresses, consent or prompt; and port, UDP, enumeration and report options, excluded ports, refused and blank lines, scan windows on a three-"minute" day, faults | packets only to what is permitted and on record; exclusions; resolvers asked only for names that are cleared, or made of those; aborted runs silent; windows; the log of a completed run; `ScanPermit` implemented; every run ends, unless a peer holds it |
| `engine_window_closes`, `engine_exclude_net`, `engine_blocked_word` | one command line each | findings, below |
| `discovery` | 2 addresses, 2 threads, identifiers that may coincide, late replies, one stray packet, a probe that raises; then the TTL of each host | evidence behind every host taken for alive, order of the probes, own replies heard, whose TTL a host is fingerprinted by, `AlivePromise` implemented, discovery and fingerprinting end |
| `nmap` | 588 command lines with accepted lists: overlapping, descending, repeated, refused lists, three exclusions | exactly the meant ports are asked for, time budget, open ports as nmap told |
| `risk` | 2801 lists of up to four findings of a sample, and the lists that 360 scans or so of one or two hosts lead to | one representative per issue, stable ranking, severities follow scores, statistics; no insecure port lost; CVEs of exactly the versions the texts tell; SMBv1 and open databases reported when heard, anonymous logins as far as the dialogue shows; silent resolvers and closed ports change nothing; the formats agree |
| `report_anonymous` | one FTP server | finding, below |

*Why the bounds are enough.* Three threads are the holder of the lock, one that
overtakes and one that waits; with four calls one of them comes back. An
interval of three exceeds what a clock one unit off either way can take off it,
so that spacing is not void. Two workers and three ports have a queue that is
longer than the pool, a worker that takes a second port, and a port that is
never submitted; one retry distinguishes first, last and a single attempt. Two
hosts alive are enough for any order of completion and for the first and the
last of a loop. The network of two addresses, a name that resolves into it and a
URL of the same name give one address by three spellings; an unresolvable name
and a URL with an address are the two odd shapes of a target. One word of the
wordlist makes of the names one that is blocked and others that are not. A day
of three minutes has windows inside it and across its end. Time is bounded by
`Horizon` only where nobody sleeps. `pool` uses worker symmetry, with safety
properties only. Two threads suffice for sockets that hear each other, and one
stray packet for a program that is neither of them. nmap's listings have one
element per protocol after perhaps an unreadable one: results are collected
element by element, and the ports of a list are told apart by the run's command
line. Four findings are two issues with two spellings each, or four findings of
one issue, in every order; the hosts add longer lists. The FTP dialogue is run
with every combination of greeting, features and answers, prompt and late;
versions are taken on both sides of each end of a range and from either source,
with a protocol prefix alone, before other numbers and before none; web servers
close, wait or send on, with and without TLS; two resolvers of which one knows,
denies, garbles, answers without end or is silent are enough for the fall-back,
which stops at the first that answers.

*Deadlock* is not checked: the limiter's callers stop at `MaxCalls`, a scan and
a run end.  That they do end is checked as liveness instead.

*Fairness.* Weak fairness for a thread that can take its next step and for the
clock: the operating system runs every runnable thread, the waits of the scan
pools and of the engine's own steps have a timeout, and time passes. The waits
that have none are `Hold`, an action of the peers and not fair: it may happen at
every occasion, or never, and `RunEnds` says that a run ends or is held there.
The lock is not assumed fair; as calls are finitely many a waiting thread is
eventually alone. In `HostDiscovery` and `TtlReader` the network is not fair:
any reply may be late or never come. Stray packets are finitely many: while
other programs' packets keep coming within the timeout neither a ping nor the
reader ends (hazard at `host_discovery.py:40`), which in `Engine` is `Hold`. The
pipeline of stage 10 and the nmap backend are sequential and have no fairness.
Nothing is assumed of the operator: the prompt may stay unanswered, Ctrl-C may
never come.

## 4. What is proved

A theorem holds for every value of the constants that satisfies the named
assumptions of its module; a run checks the same property on a small instance.

| module | theorem | property |
| --- | --- | --- |
| `RateLimiterProofs` | `TypeCorrect`, `Exclusion`, `Spacing`, `HoldIsShort` | `TypeOK`, `MutualExclusion`, `Spaced`, `ShortHold` |
| | `CapWithSteadyClock` | with a clock nobody steps, consecutive grants are a full interval apart |
| | `Implements` | `CapSpec`: the limiter is a `RateCap` with the gap the clock leaves |
| `ScanPoolProofs` | `OpenIsHeardAlways`, `SilenceIsRetriedAlways`, `CtrlCCancelsNothingAlways`, `AccountingAlways`, `RetriedCapAlways` | of the same names |
| | `Implements` | `PromiseSpec` |
| `HostDiscoveryProofs` | `MixedUpByIdentOnlyAlways`, `ChainIsFollowedAlways`, `OwnReplyIsHeard` | of the same names; the last is an action property |
| | `Implements` | `AliveSpec` |
| | `TtlIsFreshAlways`, `ReaderImplements` | `TtlIsFresh`; discovery's promise kept with the reader about |
| `EngineProofs` | `ExcludedAddressUntouchedAlways`, `AskedBelowClearedAlways`, `AbortedRunIsSilentAlways`, `TraceableRunAlways`, `ApprovedInWindowAlways` | of the same names; the last is an action property |
| | `Implements` | `PermitSpec` |
| `NmapEngineProofs` | `ParsedAsMeant`, `SpecDenotes` | what `parse_port_list` and `_port_spec` compute, for lists of any length |
| | `AsksForItsPortsAlways`, `WithinBudgetAlways`, `OpenAsToldAlways` | of the same names |
| `RiskEngineProofs` | `OneOfEach`, `Ranked`, `SeverityRises`, `StatsCorrect` | `Representative`, `RankedReport`, `SeverityFollowsScore`, `StatsMatchReport` |
| `HostReportProofs` | `PortsCoveredAlways`, `AffectedReportedAlways`, `WeakAuthIsHeardAlways`, `QuietServersCostNothingAlways`, `OnlyOpenPortsMatterAlways`, `ReportsAgreeAlways` | of the same names |
| | `WeightOrders` | Python's order of version tuples, for four numbers of any size |
| `ListFacts` | `KeptElements`, `SortedIs`, `SortedStays` | what comprehensions and stable sorting do to lists of any length |

Each of the first six also proves its `TypeCorrect`; `HostReport` adds no
variable to `RiskEngine`.

### The invariants and why they are needed

**RateLimiter.**  `Spaced` speaks of all pairs of grants and is not inductive:
nothing in it says why the next grant will be late enough.  `IInv` adds what the
code relies on: the stamp is the time of the last grant up to the clock's
offsets (`StampOfLastGrant`), whoever sleeps under the lock sleeps until an
interval after that (`SleepIsLongEnough`, which needs `MutualExclusion`: between
measuring and stamping nobody else stamps), and a disabled limiter's lock is
never held across a step.  `AppendSpaced` extends the spacing of all pairs by
one grant: consecutive gaps add up.

**ScanPool.**  `Accounting` is about a scan that has returned, and nothing it
mentions explains how it got there.  `IInv` is built in layers.  `Layout`: the
list of ports is cut into those begun, the pool's queue and those still to be
submitted, in this order, so that no port is lost on the way.  `Tasks`: a busy
worker has a port that is begun, undecided and nobody else's.  `Attempts`: all
answers of a port but its last left it uncertain, and the evidence a worker
carries is the first attempt's; this is what turns "open" into "the last answer
was accepted" and a silence into the last retry.  `Limiter`: the invariant of
`RateLimiterProofs`, whose lemmas are instantiated with the workers as threads,
the ports begun as calls and a steady clock; so `RetriedCap` follows from
`Spaced`, from one grant per port begun (`Passes`) and from at most
`Retries + 1` attempts each.  `Books`: futures gathered are finished, and the
result list has exactly those that did not raise.

**HostDiscovery, TtlReader.**  `Tasks` ties the stage a worker is at to the set
of probes its address has seen, which is what the chain of ifs and returns in
`discover_host` amounts to.  `Answers` says that every reply, on its way or
queued in some socket, answers a ping that was sent: the identifier a host was
mixed up by must have been drawn by both.  `Gathering` is about `as_completed`.
The reader comes on top: the workers are idle once the list is handed over
(`OverMeansIdle`), so the packets in the reader's socket were in flight when its
host was asked (`Packeted`).  Its steps are stutters of `AlivePromise`.

**Engine.** `Intent` and `Vetted` follow the targets from the command line
through validation and exclusion; `Reached` ties every packet to an approved
target's address; `Progress` says what the audit log holds while a stage is at
its n-th host. `ScanPermit` needs both ends: `Vetted` for what is cleared,
`Reached` for what is touched. `AskedBelowCleared` needs `Vetted` for the names
of targets and `Reached` for the names that hosts go by. A stage that is held
keeps all of these (`HoldFacts`, `HoldSends`). `ApprovedInWindow` is arithmetic
of the window's three cases modulo a day.

**NmapEngine.**  Two loops are settled first: the ports of a list are what its
chunks name, and the ranges of a spec denote the ports of the list, sorted or
not.  `IInv` then says which command is next (`Asked`), what the runs so far may
have cost (`Costs`), and what was read of the output (`Heard`).

**RiskEngine.**  `RankedReport` says nothing until the list is ranked, and
`Representative` nothing of the order, so `IInv` adds: nothing is seen while
scores are made (`NothingSeenYet`, the order on which deduplication rests),
scored findings have the label of their score (`LabelsFit`), and `seen` is in
the order in which issues first came up although representatives change
(`InOrder`).  `DeduplicateStep` is the heart.  `StatsCorrect` adds up a table of
counts with a fold over its labels (`Sums`, `CountsAddUp`).

**HostReport.**  Its properties are about the report of a finished run, and the
invariant they need is `RiskEngine`'s: every issue that goes in is in the report
by a finding with its key, and nothing else is (`Represented`).  What remains is
what goes in, and that is settled from the inside out, each stage by what it
yields: the rules of a port and of an endpoint (`PortFindingsAre`,
`HttpFindingsAre`), `analyze_host` (`AnalyzeHostIs`), the list that is scored
(`AllFindingsAre`).  `SameIssue` says what findings with one key have in common;
with `Represented` it gives `PortsCovered`.

* *Weak services.*  A flag on a finding goes back through the ports that were
  enumerated (`RaisedAt`, `OpenAssessed`) to the dispatcher (`FlagAt`), where
  only four ports' probes can raise the three flags, and from there to the first
  reaction that fits an answer (`ExchangeIs`, `FirstFlag`).  `FtpSigns` follows
  the FTP dialogue in its two lengths, prompt and late.
* *CVEs.*  Whatever a peer says, its probe tells a text (`ProbeTells`), and what
  counts at a port is the version told last (`ToldLastIs`), with the fall-backs
of `extract_version` (`ExtractedIsTold`); the entries it
  matches are compared by weight (`EntriesAre`, `WeightOrders`, by the scheme of
  Horner one digit at a time), and a finding's CVE is in its key (`CveOfKey`), so
  merging loses none.
* *Resolvers.*  `dns_query` returns the first reply that answers, or what ends
  the look-up (`DnsQueryIs`); leaving out resolvers that answer nothing keeps
  that reply (`SameReply`).
* *Closed ports.*  To take the open ports of a host and enumerate is to
  enumerate and take the open ports (`EnumeratedOpen`), and every later stage
  goes through them (`SameFindings`, `SameSystem`).
* *Formats.*  A ranked list is left alone by a stable sort (`WrittenIsRanked`).
  Text and the grepable file rearrange the rows host by host: because addresses
  differ, picking one host's rows out of all gives its own (`FlattenKept`).

**Lists.** The library's induction theorems take an operator as a parameter and
are out of reach, but induction itself is not: a set of lengths for which a fact
fails would have a least element (`LeastNat`, from the library's
well-foundedness of strict subsets), and a set of lengths that contains 0 and
every successor contains them all (`Climb`). A fold is CHOOSE of a recursive
function; `IterationExists` exhibits one, so that its equation may be used.
Filtering, flattening and sorting are then lemmas about what they keep, how long
the result is and when they change nothing.

### Assumptions

Each is about the program's inputs or about what surrounds it:

* `RateLimiter`, `LimiterAssumption` of `ScanPool`: naturals; epoch time is
  beyond the first interval (`time.time()` against `_last = 0.0`); the name for
  "nobody" is no thread.
* `PoolAssumption`: the ports are listed once each (`parse_port_list` drops
  repetitions, and the default lists have none); the technique is one of those
  `argparse` accepts.
* `DiscoveryAssumption`: finitely many addresses (a list that `expand` made), a
  finite number of stray packets, and `http` among the probes: the engine asks
  for it whatever the options say (`hardener.py:130`).
* `FixedIdentAssumption`: the TTL reader's constant identifier is an identifier.
* `InputAssumption`: what `Form` says of a word agrees with `Addresses`: an
  address is its own, a URL to an address has one, a network's members are
  addresses, and no name or address is the value for "none".
* `LinesAssumption`: words, a flag, and a window of times of the day or of no
  text, as `argparse` and the scope file's reader leave them.
* `NmapAssumption`, `PortsAssumption`: naturals, the choices of `argparse`,
  default lists that are not empty. `Probe` is in whole seconds; timing template
  4 has 1.5, whose budgets need not be whole and are rounded down here.
* `InputsAssumption` of `RiskEngine`: findings have a title that `Lower` knows,
  integer factors and strings elsewhere.
* `TablesAssumption`, `CveAssumption`, `DnsAssumption`: the tables of the
  program are lists of strings or of records; entries of the CVE database have a
  name, a software and versions of up to four numbers, which is what
  `version_tuple` makes; a CDN has a name.
* `HostsAssumption`: what the earlier stages hand over. Hosts have different
  addresses, as discovery's list has each once, and are alive; a scan leaves no
  flags and a text for a version; peers say texts, all in time or all one read
  late, each in a read of its own; web servers give a status, headers and
  whether they list a directory.
* `LowerAssumption`: `str.lower` merges neither titles of two rules nor, in
  titles with a port, two port numbers.
* `ScansAssumption`: the lists that the scans lead to are among the inputs of
  the risk engine.

`SilenceIsRetriedAlways` has two hypotheses of its own, the technique is neither
UDP (no retry loop) nor connect: for connect the property is false, which is
what the run `pool_timeout` shows.

### What the proofs found out about the model

* `ScanPool`: the mapping to `ScanPromise` took the fate of a port that Ctrl-C
  leaves behind from the wrong list when the deadline had already passed; no
  instance reached both. Two cases of `Classify` overlapped.
* `HostDiscovery`, `PortOptions`: comprehensions were written with the standard
  filter, a recursive operator with a predicate parameter about which nothing
  can be proved; `Kept` filters by a set, and `KeptElements` says what it keeps.
* `NmapEngine`: the shapes of nmap's output had a local definition in a set of
  records that the provers cannot look into; it is now spelled out.
* `Reporting`: the library's `SortSeq` is defined by a permutation that puts the
  list in strict order, and there is none when two keys are equal, such as a TCP
  and a UDP port of one number. `Sorted` is stable, as Python's is.
* `HostReport`: versions were weighed to the base 100, which presumed numbers
  below 99; a banner may tell larger ones, such as a build or a year. The base
  is now taken from the versions compared.

### What is only model-checked

* Liveness (`Termination`, `EveryCallReturns`, `RunEnds`,
  `DiscoveryEnds`): fairness and ENABLED are beyond the prover.
* The runs that end in a counterexample.

## 5. Disagreements between code and documentation

Runs that end in a counterexample:

* `pool_timeout`: the default connect scan takes a timeout for a refusal and
  never probes again, against the comment in `_probe_tcp`.
* `engine_window_closes`: the scan goes on when its window has closed.
* `engine_exclude_net`: `--exclude` with a network excludes none of its hosts.
* `report_anonymous`: an FTP server that answers `PASS` by the usual `530 Not
  logged in.` is reported for its anonymous login.
* `engine_blocked_word`: with `example.com` approved and `www.example.com`
  blocked, the resolvers are asked for `www.example.com`: `enumerate_subdomains`
  knows no scope. What does hold is `AskedBelowCleared`.

Seen while modelling, and part of the model as the code has them: a wall clock
stepped ahead lets two probes go closer than the interval (`Spaced` has the
strength that remains); retries do not ask the limiter (`RetriedCap`); queued
ports are probed after the deadline; `scan_udp_ports` ignores `retries`; a RST
makes a port `open` for NULL, FIN and Xmas scans; excluding every port scans the
default ports; stages 3, 6, 7 and 8 log
nothing; the prompt comes with a scope file too.

Not run, because the program has no behaviour to check there: the scope's
`rate_limit` goes to the validator, whose `check_rate_limit` nobody calls, and
the limiter gets `--max-rate` only, although `README.md:48` of the repository
lists rate limits under scope enforcement; the nmap backend uses no limiter at
all.  A killed nmap run is announced as "marking host filtered" and gives no
results.  `risk_engine.py:4` says that findings are deduplicated before they are
scored; the code scores first, and has to, since deduplication compares scores.
`analyze_host` takes the TLS results and looks at none of them, although its
module's first lines list weak TLS.  One issue on two ports of a host is one
line of the report, except for services that have the port in the title
(`PortsCovered`); a UDP port's evidence there says `/tcp`.

Of the stages, the dialogues and the report, in the model as the code has them:

* A text with no number after its protocol prefix is its own version, prefix
  included: `SSH-2.0-dropbear` is version (2, 0) and is reported for CVEs of
  OpenSSH, against the comments at `cve_db.py:177` and `204`.
* Only the port scan reads `--host-timeout` ("Give up on a host after this many
  seconds", `README.md:186` of the repository): a web server that goes on sending
  holds the run in stage 7 all the same.
* The UDP scan of the nmap backend passes `-sT` too, so the ports of the UDP list
  are also probed by TCP, those that `--exclude-ports` took off the TCP list
  included; a port may be listed twice as TCP.
* `probe_smb` labels an SMB 2 answer `SMBv2/3`; `extract_version` finds the
  numbers 2 and 3 in that, version (2, 3), which lies in the range of EternalBlue
  (`cve_db.py:92`): every server that has got rid of SMBv1 is reported for it.
* A MongoDB server that answers `isMaster`, as those with authentication do, is
  flagged `unauthenticated`.
* The mail and directory ports without TLS (25, 587, 110, 143, 389) make a socket
  and never connect it, so those probes learn nothing.
* A generic greeting replaces the version that nmap told (`enumerate_port`), and
  an unknown service that greets by `220 ` becomes FTP, also if it is mail.
* `probe_dns_tcp` has no caller, although `README.md:27` of the repository lists
  DNS among the enumerated services.
* The wildcard test of `enumerate_subdomains` compares a name with addresses and
  is always true: under a wildcard every word is a subdomain.
* An answer is recorded under the type asked for: the SOA that denies an MX is
  listed as the MX, and ends the fall-back to the next resolver.
* A reply that cannot be parsed costs the host its records, subdomains and CDN.
* Of the TTL hints `BSD / iOS` scores for Linux and `Embedded / IoT` for nobody.
* A web server that keeps the connection open until the timeout has its response
  discarded; nothing sets `host.waf`, which every report gives as absent.

## 6. Not modelled

`tls_audit.py`: nothing reads what it returns; `Engine` keeps when it runs.
`main.py` calls `cli.main`; `lab_mock.py` is a fixture. Console output, layout
and escaping of the reports, page titles, WAF signatures, display names and
`summarize` have no effect on what is done or found. A framework named IIS would
count for Windows in `fingerprint_os`, but its pattern is looked for in a
printed dictionary, where a quote stands between name and value, so only the
text of a page could show it; frameworks are left out. Of the wire formats only
the outcome is modelled: a reply is understood or not; packet layout and
checksums are left out, and of compressed names all but the one that never ends.
So are the patterns that find software in banners (a text comes with the one
product they find; that the code also searches the service's name makes no
difference, as no name that is not in its table has a signature), answers that
fall into several reads, nmap's service labels, the values of the timing
templates, the reading of scope and target files, the rounded average of the
statistics, and the pool of subdomain checks, whose results are a set and whose
errors are passed over. The tables of `config.py` are constants with sample
values. Times of a scan window are minutes, as zero-padded times are; the string
comparison of unpadded ones is not modelled. The evidence text that a retry
leaves behind when it says closed (`port_scanner.py:218`) is not compared with
the verdict: nothing reads it.

## 7. Plan

Done: every component of section 1 that changes state or decides what is
reported is modelled and checked, and every safety property that a passing run
checks is proved, with the refinements of the four abstract specifications.
What could be added, in this order:

1. the pool of subdomain checks as threads, instead of the set of its results;
2. what the statistics' rounded average may differ from the exact one by;
3. the file system of the reports: which of the five files exist after an error.

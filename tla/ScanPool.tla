------------------------------ MODULE ScanPool ------------------------------
(***************************************************************************)
(* hardener/port_scanner.py: scan_tcp_ports and scan_udp_ports, the thread *)
(* pool they run and the probes the workers send, paced by the rate        *)
(* limiter they share (RateLimiter, whose actions are taken from there).   *)
(*                                                                         *)
(* The main thread submits one future per port, stops submitting at the    *)
(* host's deadline, gathers results as they complete and leaves the `with' *)
(* block, which waits for the pool.  A worker takes the oldest future,     *)
(* acquires the limiter once, waits scan_delay, and probes the port up to  *)
(* retries + 1 times.  A Ctrl-C is raised in the main thread only.         *)
(*                                                                         *)
(* The network and the operating system are external: what a port really   *)
(* is (truth) is fixed and unknown to the program; answers may be lost.    *)
(***************************************************************************)
EXTENDS Integers, Sequences, FiniteSets, SequencesExt

CONSTANTS Order,        \* the ports asked for, in the order they are submitted: the
                        \*   list as given, or as --randomize shuffled it
          Workers,      \* the pool's threads
          Technique,    \* scan_type, or "udp" for scan_udp_ports
          Scapy,        \* scapy_available()
          MaxRetries,   \* --max-retries
          ScanDelay,    \* --scan-delay
          Deadline,     \* --host-timeout as an instant; 0 = none
          Truths,       \* what a port may be: open, closed, filtered
          Faults,       \* may a probe raise something else than OSError?
          CtrlC,        \* may the operator interrupt the scan?
          Interval, Start, Horizon      \* see RateLimiter

None == "none"
Ports == Range(Order)
TCPTechniques == {"connect", "syn", "ack", "null", "fin", "xmas"}

ASSUME PoolAssumption ==
  /\ Order \in Seq(Ports) /\ IsInjective(Order)
  /\ None \notin Ports \cup Workers
  /\ Technique \in TCPTechniques \cup {"udp"}
  /\ Truths \subseteq {"open", "closed", "filtered"}
  /\ Scapy \in BOOLEAN /\ Faults \in BOOLEAN /\ CtrlC \in BOOLEAN
  /\ MaxRetries \in Nat /\ ScanDelay \in Nat /\ Deadline \in Nat

\* The limiter's own (RateLimiter): epoch time is beyond the first interval.
ASSUME LimiterAssumption ==
  /\ Interval \in Nat /\ Start \in Nat /\ Horizon \in Nat
  /\ Start >= Interval /\ "nobody" \notin Workers

VARIABLES
  truth,        \* external: what each port is
  main,         \* the main thread: submitting, gathering, unwinding, or out
  work,         \* ports not yet submitted, in the order they will be
  queue,        \* futures no worker has taken yet
  gathered,     \* futures as_completed has yielded
  results,      \* the list the scan returns
  skipped,      \* the count the scan prints
  wpc, task,    \* what each worker does, and for which port
  until,        \* the end of a worker's scan_delay
  heard,        \* answers each port's probes got, in order; a history of fn()
  evidence,     \* which attempt the worker's `evidence' comes from
  outcome,      \* a finished future: its PortResult, or Raised
  lpc, lock, last, sent, wake, now, grants      \* the limiter's

limiterVars == <<lpc, lock, last, sent, wake, now, grants>>
mainVars == <<main, work, gathered, results, skipped>>     \* but for the queue
workerVars == <<wpc, task, until, heard, evidence, outcome>>
vars == <<truth, main, work, queue, gathered, results, skipped, wpc, task,
          until, heard, evidence, outcome, lpc, lock, last, sent, wake, now, grants>>

Begun == Len(Order) - Len(work) - Len(queue)    \* probes ever begun

RL == INSTANCE RateLimiter
        WITH Threads <- Workers, pc <- lpc, calls <- Begun, skew <- 0,
             Back <- 0, Ahead <- 0, MaxCalls <- Len(Order)

-----------------------------------------------------------------------------
(***************************************************************************)
(* The probe functions: which one runs, what the network may answer, what  *)
(* is made of the answer.                                                  *)
(***************************************************************************)
Stateless == {"ack", "null", "fin", "xmas"}

\* _probe_tcp picks the function; SYN falls back to a full connect.
Fn == IF Technique = "syn" /\ ~Scapy THEN "connect" ELSE Technique

\* scan_udp_ports takes `retries' and does not use it.
Retries == IF Technique = "udp" THEN 0 ELSE MaxRetries

\* External.  What a port may answer to a probe: "accept" is a SYN-ACK or data,
\* "refuse" a RST or an ICMP port unreachable, "icmp" any other ICMP error.  A
\* SYN-ACK to the SYN scan is "unreset" when the RST that is due cannot be sent.
Answers(fn, t) ==
  {"silence"} \cup
  CASE t = "filtered" -> {"icmp"}
    [] t = "open"     -> (CASE fn = "ack" -> {"refuse"}
                            [] fn \in {"null", "fin", "xmas"} -> {}
                            [] fn = "syn" -> {"accept", "unreset"}
                            [] OTHER -> {"accept"})
    [] t = "closed"   -> {"refuse"}

\* What fn returns for an answer.  connect_ex returns the error of a timed-out
\* connection instead of raising it, and any error is "closed".
Classify(fn, a) ==
  IF a = "accept" THEN "open"
  ELSE IF a \in {"error", "unreset"} THEN "filtered"    \* the local socket or raw send failed
  ELSE CASE fn = "connect" -> "closed"
         [] fn \in {"syn", "udp"} -> IF a = "refuse" THEN "closed" ELSE "filtered"
         [] fn \in Stateless -> IF a = "refuse" THEN "open" ELSE "filtered"

\* Without scapy the stateless techniques return before they send anything.
Sends == Fn \in Stateless => Scapy

-----------------------------------------------------------------------------
NotYet == [state |-> None, evidence |-> 0]
Raised == [state |-> "raised", evidence |-> 0]
Verdicts == [state : {"open", "closed", "filtered"}, evidence : 1..(MaxRetries + 1)]
Answered == {"accept", "unreset", "refuse", "silence", "icmp", "error", "crash"}

Submitted == Ports \ ToSet(work)
Finished == {p \in Ports : outcome[p] # NotYet}

TypeOK ==
  /\ truth \in [Ports -> Truths]
  /\ main \in {"submitting", "gathering", "unwinding", "returned", "interrupted"}
  /\ work \in Seq(Ports) /\ queue \in Seq(Ports)
  /\ gathered \in SUBSET Ports
  /\ results \in Seq([port : Ports, verdict : Verdicts])
  /\ skipped \in 0..Len(Order)
  /\ wpc \in [Workers -> {"idle", "acquiring", "ready", "waiting"}]
  /\ task \in [Workers -> Ports \cup {None}]
  /\ until \in [Workers -> Nat]
  /\ heard \in [Ports -> Seq(Answered)]
  /\ evidence \in [Workers -> 0..(MaxRetries + 1)]
  /\ outcome \in [Ports -> Verdicts \cup {NotYet, Raised}]
  /\ RL!TypeOK

Init ==
  /\ truth \in [Ports -> Truths]
  /\ main = "submitting" /\ work = Order
  /\ queue = <<>> /\ gathered = {} /\ results = <<>> /\ skipped = 0
  /\ wpc = [w \in Workers |-> "idle"]
  /\ task = [w \in Workers |-> None]
  /\ until = [w \in Workers |-> 0]
  /\ heard = [p \in Ports |-> <<>>]
  /\ evidence = [w \in Workers |-> 0]
  /\ outcome = [p \in Ports |-> NotYet]
  /\ RL!Init

-----------------------------------------------------------------------------
(***************************************************************************)
(* The main thread.                                                        *)
(***************************************************************************)
PastDeadline == Technique # "udp" /\ Deadline > 0 /\ now > Deadline

\* total - done - len(futures), where done is still 0.
SkippedCount_DoneOnly == Len(Order) - Cardinality(gathered)    \* `- len(futures)' dropped
SkippedCount == Len(Order) - Cardinality(Submitted)

Submit == /\ main = "submitting" /\ work # <<>> /\ ~PastDeadline
          /\ queue' = Append(queue, Head(work))
          /\ work' = Tail(work)
          /\ UNCHANGED <<main, gathered, results, skipped>>

\* Past the deadline the rest of the ports is counted as skipped; otherwise the
\* loop ends when every port is submitted.
Expire == /\ main = "submitting" /\ work # <<>> /\ PastDeadline
          /\ skipped' = SkippedCount
          /\ main' = "gathering"
          /\ UNCHANGED <<work, queue, gathered, results>>

AllSubmitted == /\ main = "submitting" /\ work = <<>>
                /\ main' = "gathering"
                /\ UNCHANGED <<work, queue, gathered, results, skipped>>

\* What the gathering loop does with a future's outcome.
Collect(p) == IF outcome[p] = Raised THEN results
              ELSE Append(results, [port |-> p, verdict |-> outcome[p]])

\* as_completed yields a finished future; one that raised is passed over.
Gather(p) == /\ main = "gathering" /\ p \in Finished \ gathered
             /\ gathered' = gathered \cup {p}
             /\ results' = Collect(p)
             /\ UNCHANGED <<main, work, queue, skipped>>

\* The `with' block is left only when the pool has drained its queue and its
\* workers have stopped.
Drained_Cancelled == \A w \in Workers : wpc[w] = "idle"   \* cancel_futures=True
Drained_NotWaited == queue = <<>>                          \* wait=False
Drained == queue = <<>> /\ \A w \in Workers : wpc[w] = "idle"

Return == /\ main = "gathering" /\ gathered = Submitted /\ Drained
          /\ main' = "returned"
          /\ UNCHANGED <<work, queue, gathered, results, skipped>>

\* Ctrl-C: the block is unwound, which waits for the pool but cancels nothing.
Interrupt == /\ CtrlC /\ main \in {"submitting", "gathering"}
             /\ main' = "unwinding"
             /\ UNCHANGED <<work, queue, gathered, results, skipped>>

Unwound == /\ main = "unwinding" /\ Drained
           /\ main' = "interrupted"
           /\ results' = <<>>               \* the local list is lost
           /\ UNCHANGED <<work, queue, gathered, skipped>>

MainStep == /\ \/ Submit \/ Expire \/ AllSubmitted \/ Return \/ Unwound
               \/ \E p \in Ports : Gather(p)
            /\ UNCHANGED <<truth, workerVars, limiterVars>>

-----------------------------------------------------------------------------
(***************************************************************************)
(* A worker: _scan_one_tcp / _scan_one_udp and _probe_tcp.                 *)
(***************************************************************************)
Take(w) == /\ wpc[w] = "idle" /\ queue # <<>>
           /\ task' = [task EXCEPT ![w] = Head(queue)]
           /\ queue' = Tail(queue)
           /\ wpc' = [wpc EXCEPT ![w] = "acquiring"]
           /\ UNCHANGED <<truth, mainVars, until, heard, evidence, outcome>>
           /\ RL!Call(w)

\* limiter.acquire() runs, to its return.
Acquire(w) == /\ wpc[w] = "acquiring"
              /\ UNCHANGED <<truth, mainVars, queue, workerVars>>
              /\ RL!Acquire(w)

Delay(w) == /\ wpc[w] = "acquiring" /\ lpc[w] = "idle"
            /\ until' = [until EXCEPT ![w] = IF Technique = "udp" THEN now
                                                                 ELSE now + ScanDelay]
            /\ wpc' = [wpc EXCEPT ![w] = "ready"]
            /\ UNCHANGED <<truth, mainVars, queue, task, heard, evidence, outcome, limiterVars>>

Send(w) == /\ wpc[w] = "ready" /\ now >= until[w]
           /\ wpc' = [wpc EXCEPT ![w] = "waiting"]
           /\ UNCHANGED <<truth, mainVars, queue, task, until, heard, evidence, outcome,
                          limiterVars>>

Finish(w, o) == /\ outcome' = [outcome EXCEPT ![task[w]] = o]
                /\ wpc' = [wpc EXCEPT ![w] = "idle"]
                /\ task' = [task EXCEPT ![w] = None]
                /\ evidence' = [evidence EXCEPT ![w] = 0]

\* The attempt whose evidence goes with the state after attempt n: the first,
\* until an attempt finds the port open.
EvidenceAfter_First(w, n, state) == IF n = 1 THEN n ELSE evidence[w]
EvidenceAfter(w, n, state) == IF n = 1 \/ state = "open" THEN n ELSE evidence[w]

\* The condition of the retry loop after attempt n.
TryAgain_OneLess(state, n) == state = "filtered" /\ n < Retries
TryAgain_OneMore(state, n) == state = "filtered" /\ n <= Retries + 1
TryAgain(state, n) == state = "filtered" /\ n < Retries + 1

\* An attempt comes back.  Uncertain and attempts left: again; else the verdict.
Answer(w, a) ==
  LET p == task[w]
      n == Len(heard[p]) + 1
      state == Classify(Fn, a)
      ev == EvidenceAfter(w, n, state)
  IN /\ wpc[w] = "waiting"
     /\ a \in Answers(Fn, truth[p]) \cup {"error"}
     /\ ~Sends => a = "error"
     /\ heard' = [heard EXCEPT ![p] = Append(@, a)]
     /\ \/ /\ TryAgain(state, n)
           /\ evidence' = [evidence EXCEPT ![w] = ev]
           /\ wpc' = [wpc EXCEPT ![w] = "ready"]
           /\ UNCHANGED <<task, outcome>>
        \/ /\ ~TryAgain(state, n)
           /\ Finish(w, [state |-> state, evidence |-> ev])
     /\ UNCHANGED <<truth, mainVars, queue, until, limiterVars>>

\* The probe raises something its handlers do not catch: the future carries it.
Crash(w) == /\ Faults /\ wpc[w] = "waiting"
            /\ heard' = [heard EXCEPT ![task[w]] = Append(@, "crash")]
            /\ Finish(w, Raised)
            /\ UNCHANGED <<truth, mainVars, queue, until, limiterVars>>

WorkerStep(w) == \/ Take(w) \/ Acquire(w) \/ Delay(w) \/ Send(w) \/ Crash(w)
                 \/ \E a \in Answered : Answer(w, a)

\* Time passes, idly up to Horizon, and until every sleep is over.
Tick == /\ \/ now < Horizon
           \/ \E w \in Workers : \/ lpc[w] = "asleep" /\ now < wake
                                 \/ wpc[w] = "ready" /\ now < until[w]
        /\ now' = now + 1
        /\ UNCHANGED <<truth, mainVars, queue, workerVars, lpc, lock, last, sent, wake, grants>>

OperatorStep == Interrupt /\ UNCHANGED <<truth, workerVars, limiterVars>>

Next == MainStep \/ OperatorStep \/ Tick \/ \E w \in Workers : WorkerStep(w)

Spec == Init /\ [][Next]_vars

\* Every thread that can run runs (a probe comes back: every socket has a
\* timeout), and time passes.  The operator need not press Ctrl-C.
FairSpec == Spec /\ WF_vars(MainStep) /\ WF_vars(Tick)
                 /\ \A w \in Workers : WF_vars(WorkerStep(w))

-----------------------------------------------------------------------------
Out == main \in {"returned", "interrupted"}
TimesReported(p) == Cardinality({i \in DOMAIN results : results[i].port = p})

(***************************************************************************)
(* A scan that returns accounts for every port: it is in the list exactly  *)
(* once, or its probe raised (the one way a submitted port goes missing),  *)
(* or it is among the `skipped' that is printed and no packet was sent to  *)
(* it.  The counts of scan_tcp_ports add up whatever the order in which    *)
(* the deadline, the workers and as_completed come.                        *)
(***************************************************************************)
Accounting ==
  main = "returned" =>
    /\ \A p \in Ports :
         TimesReported(p) = IF p \in Submitted /\ outcome[p] # Raised THEN 1 ELSE 0
    /\ \A p \in Ports \ Submitted : heard[p] = <<>>
    /\ skipped = Cardinality(Ports \ Submitted)

(***************************************************************************)
(* An answer that proves a port open is never lost by the retry loop, and  *)
(* nothing else makes a port "open": the verdict is open iff one attempt   *)
(* was accepted, that attempt was the last, and the evidence that is       *)
(* reported is its own (connect, SYN and UDP scans; _probe_tcp).  What the *)
(* SYN scan does lose is an acceptance whose RST it cannot send.           *)
(***************************************************************************)
OpenIsHeard ==
  Fn \notin Stateless =>
    \A p \in Finished : outcome[p] # Raised =>
      LET n == Len(heard[p])
      IN  /\ outcome[p].state = "open" <=> "accept" \in ToSet(heard[p])
          /\ outcome[p].state = "open" => /\ outcome[p].evidence = n
                                         /\ heard[p][n] = "accept"

(***************************************************************************)
(* "Re-probe uncertain (filtered/timeout) ports to reduce false            *)
(* negatives" (_probe_tcp), "Re-probe attempts for uncertain ports"        *)
(* (--max-retries): a port is given up on only after the last retry, that  *)
(* is, no port is settled by a first answer that was a timeout.            *)
(***************************************************************************)
SilenceIsRetried ==
  \A p \in Finished : LET n == Len(heard[p])
                      IN  heard[p][n] = "silence" => n = MaxRetries + 1

(***************************************************************************)
(* A Ctrl-C does not cancel what is queued: by the time the interrupt      *)
(* leaves scan_tcp_ports every port submitted before it has been probed to *)
(* its verdict, and nothing of it is returned.                             *)
(***************************************************************************)
CtrlCCancelsNothing ==
  main = "interrupted" => /\ \A p \in Submitted : heard[p] # <<>> /\ p \in Finished
                          /\ results = <<>>

(***************************************************************************)
(* The cap the limiter gives the pool: the limiter is passed once per port *)
(* and a port is probed up to Retries + 1 times, whatever the number of    *)
(* workers and however late they send.  (The RST that the SYN scan answers *)
(* a SYN-ACK with is not counted.)                                         *)
(***************************************************************************)
Probes == (UNION {{p} \X (1..Len(heard[p])) : p \in Ports})
            \cup {<<task[w], Len(heard[task[w]]) + 1>> : w \in {v \in Workers : wpc[v] = "waiting"}}
Allowance == 1 + (now - Start) \div Interval
RetriedCap == Interval > 0 => Cardinality(Probes) <= (Retries + 1) * Allowance

(***************************************************************************)
(* Every scan ends, whatever is lost, raised, delayed or interrupted: no   *)
(* thread waits for another for ever.                                      *)
(***************************************************************************)
Termination == <>Out

\* The pool keeps the promise of a scan.
FateOf(p) == CASE p \in Finished -> IF outcome[p] = Raised THEN "dropped" ELSE "classified"
               [] p \in ToSet(queue) -> "pending"
               [] p \in ToSet(work) -> IF skipped > 0 THEN "skipped" ELSE "pending"
               [] OTHER -> "probing"
Promise == INSTANCE ScanPromise
             WITH fate <- [p \in Ports |-> FateOf(p)],
                  over <- IF Out THEN main ELSE "no"
PromiseSpec == Promise!Spec
=============================================================================

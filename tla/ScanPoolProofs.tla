--------------------------- MODULE ScanPoolProofs ---------------------------
(***************************************************************************)
(* The port scanner's properties for every list of ports, number of        *)
(* workers, retries, deadline and delay, and the proof that the pool       *)
(* implements ScanPromise.  The invariant is built in layers, each proved  *)
(* from the ones below it: who has which port (Layout, Tasks), the limiter *)
(* (its own invariant), what each probe was answered (Attempts), and what  *)
(* the main thread has gathered (Books).                                   *)
(***************************************************************************)
EXTENDS ScanPool, SequenceTheorems, FiniteSetTheorems, TLAPS

\* The ports whose scan some worker has begun.
Begins == {Order[i] : i \in 1..Begun}

\* Order is cut in three: the ports begun, the queue, the ports to submit.
Layout ==
  /\ work \in Seq(Ports) /\ queue \in Seq(Ports)
  /\ Len(queue) + Len(work) <= Len(Order)
  /\ \A i \in 1..Len(queue) : queue[i] = Order[Begun + i]
  /\ \A i \in 1..Len(work) : work[i] = Order[Begun + Len(queue) + i]

\* The limiter's own theorems: its threads are the workers, its calls the ports
\* begun, its clock is not stepped.
RLP == INSTANCE RateLimiterProofs
         WITH Threads <- Workers, pc <- lpc, calls <- Begun, skew <- 0,
              Back <- 0, Ahead <- 0, MaxCalls <- Len(Order)

\* Only a worker that is acquiring is inside the limiter.
Limiter ==
  /\ RLP!IInv
  /\ \A w \in Workers : wpc[w] # "acquiring" => lpc[w] = "idle"
  /\ grants # <<>> => grants[1] >= Start

\* What a worker and a port may look like.
Shapes ==
  /\ main \in {"submitting", "gathering", "unwinding", "returned", "interrupted"}
  /\ wpc \in [Workers -> {"idle", "acquiring", "ready", "waiting"}]
  /\ task \in [Workers -> Ports \cup {None}]
  /\ heard \in [Ports -> Seq(Answered)]
  /\ evidence \in [Workers -> Nat]
  /\ outcome \in [Ports -> [state : {"open", "closed", "filtered", "raised", None},
                            evidence : Nat]]

\* A busy worker has a port begun and unfinished, which no other worker has; a
\* port is untouched before it is begun, and once begun is finished or somebody's.
Tasks ==
  /\ \A w \in Workers : wpc[w] = "idle" <=> task[w] = None
  /\ \A w \in Workers : task[w] # None => task[w] \in Begins /\ outcome[task[w]] = NotYet
  /\ \A v, w \in Workers : task[v] = task[w] /\ task[v] # None => v = w
  /\ \A p \in Ports \ Begins : heard[p] = <<>> /\ outcome[p] = NotYet
  /\ \A p \in Begins : outcome[p] = NotYet => \E w \in Workers : task[w] = p

\* Every answer but a port's last left it uncertain.  A busy worker has attempts
\* left, and its evidence is the first attempt's.  A verdict is what the last
\* answer says, of an attempt after which the loop ends.
Uncertain(h, n) == \A i \in 1..n : Classify(Fn, h[i]) = "filtered"
EvidenceOf(state, n) == IF n = 1 \/ state = "open" THEN n ELSE 1
Attempts ==
  /\ \A w \in Workers : wpc[w] = "idle" => evidence[w] = 0
  /\ \A w \in Workers : wpc[w] # "idle" =>
       /\ Len(heard[task[w]]) <= Retries
       /\ Uncertain(heard[task[w]], Len(heard[task[w]]))
       /\ evidence[w] = IF heard[task[w]] = <<>> THEN 0 ELSE 1
       /\ wpc[w] = "acquiring" => heard[task[w]] = <<>>
  /\ \A p \in Finished :
       /\ Len(heard[p]) \in 1..(Retries + 1)
       /\ Uncertain(heard[p], Len(heard[p]) - 1)
       /\ outcome[p] = Raised => heard[p][Len(heard[p])] = "crash"
       /\ outcome[p] # Raised =>
            /\ outcome[p].state = Classify(Fn, heard[p][Len(heard[p])])
            /\ outcome[p].evidence = EvidenceOf(outcome[p].state, Len(heard[p]))
            /\ ~TryAgain(outcome[p].state, Len(heard[p]))

\* What the main thread holds.  The list has one entry for each future gathered
\* that did not raise; the count of skipped ports is that of the ports never
\* submitted; the scan is left only with the pool drained.
Listed ==
  /\ \A i \in DOMAIN results :
       /\ results[i].port \in gathered /\ outcome[results[i].port] # Raised
       /\ results[i].verdict = outcome[results[i].port]
  /\ \A i, j \in DOMAIN results : results[i].port = results[j].port => i = j
  /\ \A p \in gathered : outcome[p] # Raised => \E i \in DOMAIN results : results[i].port = p
Entries == [port : Ports, verdict : [state : {"open", "closed", "filtered", "raised", None},
                                     evidence : Nat]]
Books ==
  /\ gathered \subseteq Finished
  /\ results \in Seq(Entries)
  /\ main # "interrupted" => Listed
  /\ main = "interrupted" => results = <<>>
  /\ main = "returned" => gathered = Submitted
  /\ Out => Drained
  /\ skipped \in 0..Len(Order)
  /\ main = "submitting" => skipped = 0
  /\ main \in {"gathering", "returned"} => skipped = Cardinality(Ports \ Submitted)
  /\ skipped > 0 => main # "submitting"

\* The ports for which acquire() has returned are as many as its grants.
Passed == {p \in Begins : \A w \in Workers : task[w] = p => lpc[w] = "idle"}
Passes == IsFiniteSet(Passed) /\ Cardinality(Passed) = Len(grants)

\* The list of ports has no port twice.
LEMMA OrderFacts ==
  /\ Order \in Seq(Ports) /\ Len(Order) \in Nat
  /\ Ports = {Order[i] : i \in 1..Len(Order)}
  /\ \A i, j \in 1..Len(Order) : Order[i] = Order[j] => i = j
BY PoolAssumption DEF PoolAssumption, Ports, Range, IsInjective

\* The elements of a segment.
LEMMA Shifted ==
  ASSUME NEW S, NEW o \in Seq(S), NEW s \in Seq(S), NEW b \in Nat,
         \A i \in 1..Len(s) : s[i] = o[b + i]
  PROVE  ToSet(s) = {o[i] : i \in (b + 1)..(b + Len(s))}
<1> DEFINE T == {o[i] : i \in (b + 1)..(b + Len(s))}
<1>0. DOMAIN s = 1..Len(s) /\ Len(s) \in Nat
  BY LenProperties
<1>1. ASSUME NEW i \in DOMAIN s PROVE s[i] \in T
  <2>1. b + i \in (b + 1)..(b + Len(s)) /\ s[i] = o[b + i]
    BY <1>0, <1>1
  <2>2. QED
    BY <2>1
<1>2. ASSUME NEW j \in (b + 1)..(b + Len(s)) PROVE o[j] \in ToSet(s)
  <2> DEFINE i == j - b
  <2>1. i \in DOMAIN s /\ s[i] = o[b + i] /\ b + i = j
    BY <1>0, <1>2
  <2> HIDE DEF i
  <2>2. QED
    BY <2>1 DEF ToSet
<1>3. QED
  BY <1>1, <1>2 DEF ToSet

\* A sequence is a sequence over whatever holds its elements.
LEMMA SeqOfElements ==
  ASSUME NEW S, NEW T, NEW s \in Seq(S), \A i \in 1..Len(s) : s[i] \in T
  PROVE  s \in Seq(T)
<1>1. Len(s) \in Nat /\ s \in [1..Len(s) -> S]
  BY LenProperties
<1>2. s \in [1..Len(s) -> T]
  BY <1>1
<1>3. QED
  BY <1>1, <1>2, SeqDef

\* The three parts of Order are disjoint and are all of it.
LEMMA Partition ==
  ASSUME Layout
  PROVE  /\ Begun \in 0..Len(Order) /\ Len(queue) \in Nat /\ Len(work) \in Nat
         /\ Ports = Begins \cup ToSet(queue) \cup ToSet(work)
         /\ Begins \cap ToSet(queue) = {} /\ Begins \cap ToSet(work) = {}
         /\ ToSet(queue) \cap ToSet(work) = {}
         /\ Submitted = Begins \cup ToSet(queue)
<1>1. /\ Begun \in 0..Len(Order) /\ Len(queue) \in Nat /\ Len(work) \in Nat
      /\ Len(Order) \in Nat /\ Len(Order) = Begun + Len(queue) + Len(work)
  BY OrderFacts DEF Layout, Begun
<1> DEFINE m == Len(Order)
           b == Begun
           c == Begun + Len(queue)
<1>2. ToSet(queue) = {Order[i] : i \in (b + 1)..c}
  <2>1. /\ b \in Nat /\ Order \in Seq(Ports) /\ queue \in Seq(Ports)
        /\ \A i \in 1..Len(queue) : queue[i] = Order[b + i]
    BY <1>1, OrderFacts DEF Layout
  <2> HIDE DEF b
  <2>2. ToSet(queue) = {Order[i] : i \in (b + 1)..(b + Len(queue))}
    BY ONLY <2>1, Shifted, Zenon
  <2>3. QED
    BY <2>2 DEF b
<1>3. ToSet(work) = {Order[i] : i \in (c + 1)..m}
  <2>1. /\ c \in Nat /\ m = c + Len(work)
        /\ Order \in Seq(Ports) /\ work \in Seq(Ports)
        /\ \A i \in 1..Len(work) : work[i] = Order[c + i]
    BY <1>1, OrderFacts DEF Layout
  <2> HIDE DEF c, m
  <2>2. ToSet(work) = {Order[i] : i \in (c + 1)..(c + Len(work))}
    BY ONLY <2>1, Shifted, Zenon
  <2>3. (c + 1)..(c + Len(work)) = (c + 1)..m
    BY <2>1
  <2>4. QED
    BY <2>2, <2>3
<1>4. b \in Nat /\ c \in Nat /\ m \in Nat /\ b <= c /\ c <= m
  BY <1>1
<1>5. Begins = {Order[i] : i \in 1..b}
  BY DEF Begins
<1>6. Ports = {Order[i] : i \in 1..m} /\ \A i, j \in 1..m : Order[i] = Order[j] => i = j
  BY OrderFacts
<1> HIDE DEF b, c, m
<1>7. Ports = Begins \cup ToSet(queue) \cup ToSet(work)
  BY <1>2, <1>3, <1>4, <1>5, <1>6
<1>8. Begins \cap ToSet(queue) = {} /\ Begins \cap ToSet(work) = {}
  BY <1>2, <1>3, <1>4, <1>5, <1>6
<1>9. ToSet(queue) \cap ToSet(work) = {}
  BY <1>2, <1>3, <1>4, <1>6
<1>10. Submitted = Begins \cup ToSet(queue)
  BY <1>7, <1>8, <1>9 DEF Submitted
<1>11. QED
  BY <1>1, <1>7, <1>8, <1>9, <1>10

\* Submitting a port leaves the ports begun as they are.
LEMMA SubmitLayout ==
  ASSUME Layout, Submit
  PROVE  Layout' /\ Begun' = Begun /\ Begins' = Begins
<1>1. /\ Len(queue') = Len(queue) + 1 /\ queue' \in Seq(Ports)
      /\ \A i \in 1..Len(queue) : queue'[i] = queue[i]
      /\ queue'[Len(queue) + 1] = work[1]
      /\ Len(work') = Len(work) - 1 /\ work' \in Seq(Ports)
      /\ \A i \in 1..Len(work') : work'[i] = work[i + 1]
      /\ Len(work) \in Nat \ {0} /\ Len(queue) \in Nat
  <2>1. Head(work) \in Ports /\ Head(work) = work[1]
    BY DEF Layout, Submit
  <2>2. QED
    BY <2>1, AppendProperties, HeadTailProperties, EmptySeq, LenProperties DEF Layout, Submit
<1>2. Begun' = Begun /\ Begun \in Nat
  BY <1>1, OrderFacts DEF Begun, Layout
<1>3. \A i \in 1..Len(queue') : queue'[i] = Order[Begun + i]
  <2>0. \A i \in 1..Len(queue') : i \in 1..Len(queue) \/ i = Len(queue) + 1
    BY <1>1
  <2>1. \A i \in 1..Len(queue) : queue[i] = Order[Begun + i]
    BY DEF Layout
  <2>2. work[1] = Order[Begun + Len(queue) + 1]
    BY <1>1 DEF Layout
  <2>3. ASSUME NEW i \in 1..Len(queue'), i \in 1..Len(queue) PROVE queue'[i] = Order[Begun + i]
    BY <1>1, <2>1, <2>3
  <2>4. queue'[Len(queue) + 1] = Order[Begun + (Len(queue) + 1)]
    BY <1>1, <1>2, <2>2
  <2>5. QED
    BY <2>0, <2>3, <2>4
<1>4. \A i \in 1..Len(work') : work'[i] = Order[Begun + Len(queue') + i]
  <2>1. \A i \in 1..Len(work) : work[i] = Order[Begun + Len(queue) + i]
    BY DEF Layout
  <2>2. \A i \in 1..Len(work') : i + 1 \in 1..Len(work)
    BY <1>1
  <2>3. QED
    BY <1>1, <1>2, <2>1, <2>2
<1>5. Len(queue') + Len(work') <= Len(Order)
  BY <1>1, OrderFacts DEF Layout
<1>6. Layout'
  BY <1>1, <1>2, <1>3, <1>4, <1>5 DEF Layout
<1>7. QED
  BY <1>2, <1>6 DEF Begins

\* A worker takes the port at the head of the queue: it is begun.
LEMMA TakeLayout ==
  ASSUME Layout, queue # <<>>, queue' = Tail(queue), work' = work
  PROVE  /\ Layout' /\ Begun' = Begun + 1 /\ Begun < Len(Order)
         /\ Head(queue) \in Ports \ Begins
         /\ Begins' = Begins \cup {Head(queue)}
<1>1. /\ Len(queue') = Len(queue) - 1 /\ queue' \in Seq(Ports)
      /\ \A i \in 1..Len(queue') : queue'[i] = queue[i + 1]
      /\ Head(queue) = queue[1] /\ Head(queue) \in Ports
      /\ Len(work) \in Nat /\ Len(queue) \in Nat \ {0}
  BY HeadTailProperties, EmptySeq, LenProperties DEF Layout
<1>2. /\ Begun' = Begun + 1 /\ Begun \in Nat /\ Begun < Len(Order)
      /\ Len(Order) \in Nat
      /\ Begun' + Len(queue') = Begun + Len(queue)
  BY <1>1, OrderFacts DEF Begun, Layout
<1>3. \A i \in 1..Len(queue') : queue'[i] = Order[Begun' + i]
  <2>1. \A i \in 1..Len(queue) : queue[i] = Order[Begun + i]
    BY DEF Layout
  <2>2. \A i \in 1..Len(queue') : i + 1 \in 1..Len(queue)
    BY <1>1
  <2>3. QED
    BY <1>1, <1>2, <2>1, <2>2
<1>4. Layout'
  BY <1>1, <1>2, <1>3, OrderFacts DEF Layout
<1>5. Head(queue) = Order[Begun + 1]
  BY <1>1, <1>2 DEF Layout
<1>6. Head(queue) \notin Begins
  <2>1. \A i, j \in 1..Len(Order) : Order[i] = Order[j] => i = j
    BY OrderFacts
  <2>2. Begun + 1 \in 1..Len(Order) /\ \A i \in 1..Begun : i \in 1..Len(Order) /\ i # Begun + 1
    BY <1>2
  <2>3. QED
    BY <1>5, <2>1, <2>2 DEF Begins
<1>7. 1..Begun' = (1..Begun) \cup {Begun + 1}
  BY <1>2
<1>8. Begins' = Begins \cup {Head(queue)}
  <2> DEFINE b == Begun
             c == Begun'
  <2>1. Begins = {Order[i] : i \in 1..b} /\ Begins' = {Order[i] : i \in 1..c}
    BY DEF Begins
  <2>2. 1..c = (1..b) \cup {b + 1} /\ Head(queue) = Order[b + 1]
    BY <1>5, <1>7
  <2> HIDE DEF b, c
  <2>3. QED
    BY <2>1, <2>2
<1>9. QED
  BY <1>1, <1>2, <1>4, <1>6, <1>8

-----------------------------------------------------------------------------
\* What fn() returns is one of the three states, whatever is answered.
LEMMA ClassifyType ==
  ASSUME NEW a \in Answered PROVE Classify(Fn, a) \in {"open", "closed", "filtered"}
BY PoolAssumption DEF PoolAssumption, Classify, Fn, TCPTechniques, Stateless, Answered

\* A verdict is neither of the two values that stand for no verdict.
LEMMA VerdictIsDecided ==
  /\ \A s \in {"open", "closed", "filtered"}, n \in Nat :
       /\ [state |-> s, evidence |-> n] # NotYet
       /\ [state |-> s, evidence |-> n] # Raised
  /\ NotYet # Raised
BY DEF NotYet, Raised, None

\* The steps a worker takes.
LEMMA WorkerCases ==
  ASSUME NEW w \in Workers, WorkerStep(w)
  PROVE  \/ Take(w) \/ Acquire(w) \/ Delay(w) \/ Send(w) \/ Crash(w)
         \/ \E a \in Answered : Answer(w, a)
BY DEF WorkerStep

\* Every step keeps the shapes.
LEMMA ShapesStep == Layout /\ Shapes /\ Tasks /\ [Next]_vars => Shapes'
<1> SUFFICES ASSUME Layout, Shapes, Tasks, [Next]_vars PROVE Shapes'
  OBVIOUS
<1> USE DEF Shapes
<1>1. CASE MainStep
  BY <1>1 DEF MainStep, Submit, Expire, AllSubmitted, Return, Unwound, Gather, workerVars
<1>2. CASE OperatorStep
  BY <1>2 DEF OperatorStep, Interrupt, workerVars
<1>3. CASE Tick
  BY <1>3 DEF Tick, mainVars, workerVars
<1>4. ASSUME NEW w \in Workers, Take(w) PROVE Shapes'
  <2>1. Head(queue) \in Ports
    BY <1>4, HeadTailProperties DEF Take, Layout
  <2>2. QED
    BY <1>4, <2>1 DEF Take, mainVars
<1>5. ASSUME NEW w \in Workers, Acquire(w) \/ Delay(w) \/ Send(w) PROVE Shapes'
  BY <1>5 DEF Acquire, Delay, Send, mainVars, workerVars
<1>6. ASSUME NEW w \in Workers, Crash(w) PROVE Shapes'
  <2>1. task[w] \in Ports
    BY <1>6 DEF Tasks, Crash, None
  <2>2. heard' \in [Ports -> Seq(Answered)]
    <3>1. Append(heard[task[w]], "crash") \in Seq(Answered)
      BY <2>1, AppendProperties DEF Answered
    <3>2. QED
      BY <1>6, <2>1, <3>1 DEF Crash
  <2>3. Raised \in [state : {"open", "closed", "filtered", "raised", None}, evidence : Nat]
    BY DEF Raised
  <2>4. QED
    BY <1>6, <2>1, <2>2, <2>3 DEF Crash, Finish, mainVars
<1>7. ASSUME NEW w \in Workers, NEW a \in Answered, Answer(w, a) PROVE Shapes'
  <2> DEFINE p == task[w]
             n == Len(heard[p]) + 1
             state == Classify(Fn, a)
             ev == EvidenceAfter(w, n, state)
  <2>1. p \in Ports
    BY <1>7 DEF Tasks, Answer, None
  <2>2. n \in Nat /\ ev \in Nat
    BY <2>1, LenProperties DEF EvidenceAfter
  <2>3. heard' \in [Ports -> Seq(Answered)]
    <3>1. Append(heard[p], a) \in Seq(Answered)
      BY <2>1, AppendProperties
    <3>2. QED
      BY <1>7, <2>1, <3>1 DEF Answer
  <2>4. state \in {"open", "closed", "filtered"}
    BY ClassifyType
  <2>5. main' = main /\ \/ /\ evidence' = [evidence EXCEPT ![w] = ev]
                           /\ wpc' = [wpc EXCEPT ![w] = "ready"]
                           /\ UNCHANGED <<task, outcome>>
                        \/ Finish(w, [state |-> state, evidence |-> ev])
    BY <1>7 DEF Answer, mainVars
  <2> HIDE DEF p, n, state, ev
  <2>6. [state |-> state, evidence |-> ev]
          \in [state : {"open", "closed", "filtered", "raised", None}, evidence : Nat]
    BY <2>2, <2>4
  <2>7. evidence' \in [Workers -> Nat]
    BY <2>2, <2>5 DEF Finish
  <2>8. /\ wpc' \in [Workers -> {"idle", "acquiring", "ready", "waiting"}]
        /\ task' \in [Workers -> Ports \cup {None}]
    BY <2>5 DEF Finish
  <2>9. outcome' \in [Ports -> [state : {"open", "closed", "filtered", "raised", None},
                                evidence : Nat]]
    BY <2>1, <2>5, <2>6 DEF Finish, p
  <2>10. QED
    BY <2>3, <2>5, <2>7, <2>8, <2>9
<1>8. CASE UNCHANGED vars
  BY <1>8 DEF vars
<1>9. QED
  BY <1>1, <1>2, <1>3, <1>4, <1>5, <1>6, <1>7, <1>8, WorkerCases DEF Next

\* A worker that leaves its port has finished it; nobody else is disturbed.
LEMMA FinishTasks ==
  ASSUME Layout, Shapes, Tasks, NEW w \in Workers, wpc[w] = "waiting",
         NEW o, o # NotYet, Finish(w, o), UNCHANGED <<queue, work>>,
         \A p \in Ports : p # task[w] => heard'[p] = heard[p]
  PROVE  Tasks'
<1>1. /\ task[w] # None /\ task[w] \in Begins /\ task[w] \in Ports /\ Begins' = Begins
      /\ wpc' = [wpc EXCEPT ![w] = "idle"] /\ task' = [task EXCEPT ![w] = None]
      /\ outcome' = [outcome EXCEPT ![task[w]] = o]
  BY DEF Shapes, Tasks, Finish, Begins, Begun
<1>2. \A v \in Workers : wpc'[v] = "idle" <=> task'[v] = None
  BY <1>1 DEF Shapes, Tasks
<1>3. \A v \in Workers : task'[v] # None => task'[v] \in Begins' /\ outcome'[task'[v]] = NotYet
  BY <1>1 DEF Shapes, Tasks
<1>4. \A u, v \in Workers : task'[u] = task'[v] /\ task'[u] # None => u = v
  BY <1>1 DEF Shapes, Tasks
<1>5. \A p \in Ports \ Begins' : heard'[p] = <<>> /\ outcome'[p] = NotYet
  BY <1>1 DEF Shapes, Tasks
<1>6. ASSUME NEW p \in Begins', outcome'[p] = NotYet PROVE \E v \in Workers : task'[v] = p
  <2>1. p \in Ports
    BY <1>1, Partition
  <2>2. p # task[w] /\ outcome[p] = NotYet /\ p \in Begins
    BY <1>1, <1>6, <2>1 DEF Shapes
  <2>3. PICK v \in Workers : task[v] = p
    BY <2>2 DEF Tasks
  <2>4. task'[v] = p
    BY <1>1, <2>2, <2>3 DEF Shapes
  <2>5. QED
    BY <2>4
<1>7. QED
  BY <1>2, <1>3, <1>4, <1>5, <1>6 DEF Tasks

\* Every step keeps Order cut in three and the ports assigned.
LEMMA TasksStep == Layout /\ Shapes /\ Tasks /\ [Next]_vars => Layout' /\ Tasks'
<1> SUFFICES ASSUME Layout, Shapes, Tasks, [Next]_vars PROVE Layout' /\ Tasks'
  OBVIOUS
<1>0. ASSUME UNCHANGED <<work, queue>>
      PROVE  Layout' /\ Begins' = Begins
  BY <1>0 DEF Layout, Begun, Begins
<1>1. CASE MainStep \/ OperatorStep
  <2>1. UNCHANGED <<wpc, task, heard, outcome>>
    BY <1>1 DEF MainStep, OperatorStep, workerVars
  <2>2. Layout' /\ Begins' = Begins
    <3>1. CASE Submit
      BY <3>1, SubmitLayout
    <3>2. CASE ~Submit
      BY <1>0, <1>1, <3>2 DEF MainStep, OperatorStep, Interrupt, Expire, AllSubmitted,
                              Return, Unwound, Gather
    <3>3. QED
      BY <3>1, <3>2
  <2>3. QED
    BY <2>1, <2>2 DEF Tasks
<1>2. CASE Tick \/ UNCHANGED vars
  BY <1>0, <1>2 DEF Tick, Tasks, mainVars, workerVars, vars
<1>3. ASSUME NEW w \in Workers, Take(w) PROVE Layout' /\ Tasks'
  <2> DEFINE p == Head(queue)
  <2>1. /\ wpc[w] = "idle" /\ wpc' = [wpc EXCEPT ![w] = "acquiring"]
        /\ task' = [task EXCEPT ![w] = p] /\ UNCHANGED <<heard, outcome>>
    BY <1>3 DEF Take
  <2>2. /\ Layout' /\ p \in Ports \ Begins /\ Begins' = Begins \cup {p}
    BY <1>3, TakeLayout DEF Take, mainVars
  <2> HIDE DEF p
  <2>3. p # None /\ outcome[p] = NotYet /\ \A v \in Workers : task[v] # p
    BY <2>2, PoolAssumption DEF Tasks, PoolAssumption
  <2>4. \A v \in Workers : wpc'[v] = "idle" <=> task'[v] = None
    BY <2>1, <2>3 DEF Shapes, Tasks
  <2>5. \A v \in Workers : task'[v] # None => task'[v] \in Begins' /\ outcome'[task'[v]] = NotYet
    BY <2>1, <2>2, <2>3 DEF Shapes, Tasks
  <2>6. \A u, v \in Workers : task'[u] = task'[v] /\ task'[u] # None => u = v
    BY <2>1, <2>3 DEF Shapes, Tasks
  <2>7. \A q \in Ports \ Begins' : heard'[q] = <<>> /\ outcome'[q] = NotYet
    BY <2>1, <2>2 DEF Tasks
  <2>8. ASSUME NEW q \in Begins', outcome'[q] = NotYet PROVE \E v \in Workers : task'[v] = q
    <3>1. CASE q = p
      BY <2>1, <3>1 DEF Shapes
    <3>2. CASE q # p
      <4>1. PICK v \in Workers : task[v] = q
        BY <2>1, <2>2, <2>8, <3>2 DEF Tasks
      <4>2. q # None
        BY <2>2, <2>8, <3>2, Partition, PoolAssumption DEF PoolAssumption
      <4>3. v # w
        BY <2>1, <4>1, <4>2 DEF Tasks, Shapes
      <4>4. QED
        BY <2>1, <4>1, <4>3 DEF Shapes
    <3>3. QED
      BY <3>1, <3>2
  <2>9. QED
    BY <2>2, <2>4, <2>5, <2>6, <2>7, <2>8 DEF Tasks
<1>4. ASSUME NEW w \in Workers, Acquire(w) \/ Delay(w) \/ Send(w) PROVE Layout' /\ Tasks'
  BY <1>0, <1>4 DEF Acquire, Delay, Send, Shapes, Tasks, mainVars, workerVars
<1>5. ASSUME NEW w \in Workers, Crash(w) PROVE Layout' /\ Tasks'
  <2>1. Layout' /\ UNCHANGED <<queue, work>>
    BY <1>0, <1>5 DEF Crash, mainVars
  <2>2. Raised # NotYet /\ wpc[w] = "waiting" /\ Finish(w, Raised)
    BY <1>5, VerdictIsDecided DEF Crash
  <2>3. \A p \in Ports : p # task[w] => heard'[p] = heard[p]
    BY <1>5 DEF Crash, Shapes
  <2>4. QED
    BY <2>1, <2>2, <2>3, FinishTasks
<1>6. ASSUME NEW w \in Workers, NEW a \in Answered, Answer(w, a) PROVE Layout' /\ Tasks'
  <2> DEFINE n == Len(heard[task[w]]) + 1
             state == Classify(Fn, a)
             ev == EvidenceAfter(w, n, state)
             o == [state |-> state, evidence |-> ev]
  <2>1. Layout' /\ UNCHANGED <<queue, work>> /\ Begins' = Begins
    BY <1>0, <1>6 DEF Answer, mainVars
  <2>2. /\ wpc[w] = "waiting" /\ task[w] \in Begins /\ task[w] \in Ports
        /\ \A p \in Ports : p # task[w] => heard'[p] = heard[p]
    BY <1>6 DEF Answer, Shapes, Tasks
  <2>3. CASE wpc' = [wpc EXCEPT ![w] = "ready"] /\ UNCHANGED <<task, outcome>>
    BY <2>1, <2>2, <2>3 DEF Tasks, Shapes
  <2>4. CASE Finish(w, o)
    <3>1. n \in Nat
      BY <2>2, LenProperties DEF Shapes
    <3>2. ev \in Nat
      BY <3>1 DEF EvidenceAfter, Shapes
    <3>3. o # NotYet
      BY <3>2, ClassifyType, VerdictIsDecided
    <3> HIDE DEF o
    <3>4. QED
      BY <2>1, <2>2, <2>4, <3>3, FinishTasks
  <2>5. QED
    BY <1>6, <2>3, <2>4 DEF Answer
<1>7. QED
  BY <1>1, <1>2, <1>3, <1>4, <1>5, <1>6, WorkerCases DEF Next

-----------------------------------------------------------------------------
\* What the limiter asks of its constants.
LEMMA LimiterConstants ==
  /\ RLP!IntervalAssumption /\ RLP!ClockAssumption
  /\ RLP!MaxCallsAssumption /\ RLP!ThreadsAssumption
BY LimiterAssumption, OrderFacts
   DEF LimiterAssumption, RLP!IntervalAssumption, RLP!ClockAssumption,
       RLP!MaxCallsAssumption, RLP!ThreadsAssumption

\* A step of the limiter itself keeps its invariant.
LEMMA LimiterOwnStep == RLP!IInv /\ [RLP!Next]_(RLP!vars) => RLP!IInv'
<1> USE LimiterConstants DEF RLP!IntervalAssumption, RLP!ClockAssumption,
        RLP!MaxCallsAssumption, RLP!ThreadsAssumption
<1>1. QED
  BY RLP!StepInv

\* So does time, however long the pool lets it pass while nobody's sleep is over.
LEMMA TimeKeepsLimiter ==
  ASSUME RLP!IInv, now' = now + 1, Begun' = Begun,
         UNCHANGED <<lpc, lock, last, sent, wake, grants>>
  PROVE  RLP!IInv'
<1>1. RLP!TypeOK' /\ RLP!MutualExclusion' /\ RLP!DisabledNeverHolds' /\ RLP!Spaced'
      /\ RLP!SleepIsLongEnough'
  BY DEF RLP!IInv, RLP!TypeOK, RLP!MutualExclusion, RLP!DisabledNeverHolds,
         RLP!SleepIsLongEnough, RLP!Spaced, RLP!Nobody, RLP!Offsets
<1>2. now \in Nat /\ wake \in Int /\ grants \in Seq(Nat)
  BY DEF RLP!IInv, RLP!TypeOK
<1>3. grants # <<>> => grants[Len(grants)] \in Nat
  BY <1>2, EmptySeq, LenProperties
<1>4. RLP!StampOfLastGrant'
  BY <1>2, <1>3 DEF RLP!IInv, RLP!StampOfLastGrant
<1>5. RLP!ShortHold' /\ now' >= Start
  BY <1>2, LimiterAssumption DEF LimiterAssumption, RLP!IInv, RLP!ShortHold, RLP!Spread
<1>6. QED
  BY <1>1, <1>4, <1>5 DEF RLP!IInv

\* The pool drives the limiter by the limiter's own steps and by time.
LEMMA LimiterStep ==
  Layout /\ Shapes /\ Tasks /\ Limiter /\ [Next]_vars => Limiter'
<1> SUFFICES ASSUME Layout, Shapes, Tasks, Limiter, [Next]_vars PROVE Limiter'
  OBVIOUS
<1> DEFINE Kept == /\ \A w \in Workers : wpc[w] # "acquiring" => lpc[w] = "idle"
                   /\ grants # <<>> => grants[1] >= Start
<1>0. RLP!IInv /\ Kept
  BY DEF Limiter
<1>1. CASE MainStep \/ OperatorStep \/ UNCHANGED vars
  <2>1. UNCHANGED <<wpc, limiterVars>>
    BY <1>1 DEF MainStep, OperatorStep, vars, workerVars, limiterVars
  <2>2. Begun' = Begun
    <3>1. CASE Submit
      BY <3>1, SubmitLayout
    <3>2. CASE ~Submit
      BY <1>1, <3>2 DEF MainStep, OperatorStep, Interrupt, Expire, AllSubmitted,
                        Return, Unwound, Gather, Begun, vars
    <3>3. QED
      BY <3>1, <3>2
  <2>3. UNCHANGED RLP!vars
    BY <2>1, <2>2 DEF RLP!vars, limiterVars
  <2>4. RLP!IInv'
    BY <1>0, <2>3, LimiterOwnStep
  <2>5. QED
    BY <1>0, <2>1, <2>4 DEF Limiter, limiterVars
<1>2. CASE Tick
  <2>1. RLP!IInv'
    BY <1>0, <1>2, TimeKeepsLimiter DEF Tick, mainVars, Begun
  <2>2. QED
    BY <1>0, <1>2, <2>1 DEF Tick, workerVars, Limiter
<1>3. ASSUME NEW w \in Workers, Take(w) PROVE Limiter'
  <2>1. RL!Call(w) /\ wpc' = [wpc EXCEPT ![w] = "acquiring"]
    BY <1>3 DEF Take
  <2>2. RLP!Next
    BY <2>1 DEF RL!Call, RLP!Call, RLP!Next
  <2>3. RLP!IInv'
    BY <1>0, <2>2, LimiterOwnStep
  <2>4. Kept'
    BY <1>0, <2>1 DEF RL!Call, Shapes, RLP!IInv, RLP!TypeOK
  <2>5. QED
    BY <2>3, <2>4 DEF Limiter
<1>4. ASSUME NEW w \in Workers, Acquire(w) PROVE Limiter'
  <2>1. RL!Acquire(w) /\ UNCHANGED wpc /\ wpc[w] = "acquiring"
    BY <1>4 DEF Acquire, workerVars
  <2>2. RLP!Next
    BY <2>1 DEF RL!Acquire, RLP!Acquire, RLP!Next, RL!Enter, RLP!Enter, RL!Measure,
                RLP!Measure, RL!Stamp, RLP!Stamp, RL!Free, RLP!Free, RL!Counted,
                RLP!Counted, RL!Released, RLP!Released, RL!enabled, RLP!enabled,
                RL!Wait, RLP!Wait, RL!Wall, RLP!Wall, RL!Stamped, RLP!Stamped,
                RL!Nobody, RLP!Nobody
  <2>3. RLP!IInv'
    BY <1>0, <2>2, LimiterOwnStep
  <2>4. \A v \in Workers : v # w => lpc'[v] = lpc[v]
    BY <1>0, <2>1 DEF RL!Acquire, RL!Enter, RL!Measure, RL!Stamp, RLP!IInv, RLP!TypeOK
  <2>5. grants' # <<>> => grants'[1] >= Start
    <3>1. grants \in Seq(Nat) /\ now \in Nat /\ now >= Start
      BY <1>0 DEF RLP!IInv, RLP!TypeOK
    <3>2. grants' = grants \/ grants' = Append(grants, now)
      BY <2>1 DEF RL!Acquire, RL!Enter, RL!Measure, RL!Stamp
    <3>3. CASE grants = <<>>
      BY <3>1, <3>2, <3>3
    <3>4. CASE grants # <<>>
      <4>1. Len(grants) \in Nat \ {0} /\ 1 \in 1..Len(grants)
        BY <3>1, <3>4, EmptySeq
      <4>2. Append(grants, now)[1] = grants[1]
        BY <3>1, <4>1, AppendProperties
      <4>3. QED
        BY <1>0, <3>2, <3>4, <4>2
    <3>5. QED
      BY <3>3, <3>4
  <2>6. QED
    BY <1>0, <2>1, <2>3, <2>4, <2>5 DEF Limiter
<1>5. ASSUME NEW w \in Workers,
             Delay(w) \/ Send(w) \/ Crash(w) \/ \E a \in Answered : Answer(w, a)
      PROVE  Limiter'
  <2>1. /\ UNCHANGED <<work, queue, limiterVars>>
        /\ lpc[w] = "idle"
        /\ \A v \in Workers : v # w => wpc'[v] = wpc[v]
    BY <1>0, <1>5 DEF Delay, Send, Crash, Answer, Finish, Shapes, mainVars
  <2>2. UNCHANGED RLP!vars
    BY <2>1 DEF RLP!vars, limiterVars, Begun
  <2>3. RLP!IInv'
    BY <1>0, <2>2, LimiterOwnStep
  <2>4. QED
    BY <1>0, <2>1, <2>3 DEF Limiter, limiterVars
<1>6. QED
  BY <1>1, <1>2, <1>3, <1>4, <1>5, WorkerCases DEF Next

-----------------------------------------------------------------------------
\* UDP scans have no retries, the others MaxRetries.
LEMMA RetriesType == Retries \in Nat /\ Retries <= MaxRetries
BY PoolAssumption DEF PoolAssumption, Retries

\* What an attempt of a busy worker adds to its port's answers.
LEMMA AttemptFacts ==
  ASSUME Shapes, Tasks, Attempts, NEW w \in Workers, wpc[w] = "waiting",
         NEW a \in Answered, heard' = [heard EXCEPT ![task[w]] = Append(@, a)]
  PROVE  /\ task[w] \in Ports
         /\ Len(heard[task[w]]) \in 0..Retries
         /\ Len(heard'[task[w]]) = Len(heard[task[w]]) + 1
         /\ heard'[task[w]] # <<>>
         /\ heard'[task[w]][Len(heard[task[w]]) + 1] = a
         /\ Uncertain(heard'[task[w]], Len(heard[task[w]]))
         /\ \A p \in Ports : p # task[w] => heard'[p] = heard[p]
<1> DEFINE p == task[w]
           h == heard[p]
<1>1. p \in Ports
  BY DEF Shapes, Tasks
<1>2. h \in Seq(Answered) /\ Len(h) \in 0..Retries
  BY <1>1, LenProperties, RetriesType DEF Shapes, Attempts
<1>3. heard'[p] = Append(h, a) /\ \A q \in Ports : q # p => heard'[q] = heard[q]
  BY <1>1 DEF Shapes
<1>4. /\ Len(heard'[p]) = Len(h) + 1 /\ heard'[p] # <<>> /\ heard'[p][Len(h) + 1] = a
      /\ \A i \in 1..Len(h) : heard'[p][i] = h[i]
  BY <1>2, <1>3, AppendProperties
<1>5. \A i \in 1..Len(h) : Classify(Fn, h[i]) = "filtered"
  BY DEF Attempts, Uncertain
<1>6. \A i \in 1..Len(h) : Classify(Fn, heard'[p][i]) = "filtered"
  BY <1>4, <1>5
<1>7. QED
  BY <1>1, <1>2, <1>3, <1>4, <1>6 DEF Uncertain

\* A port that is finished is nobody's: its answers are settled.
LEMMA FinishedUntouched ==
  ASSUME Shapes, Tasks, NEW w \in Workers, wpc[w] # "idle"
  PROVE  task[w] \in Ports \ Finished
BY DEF Shapes, Tasks, Finished

\* Every step keeps the account of the attempts.
LEMMA AttemptsStep ==
  Layout /\ Shapes /\ Tasks /\ Attempts /\ [Next]_vars => Attempts'
<1> SUFFICES ASSUME Layout, Shapes, Tasks, Attempts, [Next]_vars PROVE Attempts'
  OBVIOUS
<1>1. ASSUME UNCHANGED <<wpc, task, heard, evidence, outcome>> PROVE Attempts'
  BY <1>1 DEF Attempts, Uncertain, Finished
<1>2. CASE MainStep \/ OperatorStep \/ Tick \/ UNCHANGED vars
  BY <1>1, <1>2 DEF MainStep, OperatorStep, Tick, vars, workerVars
<1>3. ASSUME NEW w \in Workers, Take(w) PROVE Attempts'
  <2> DEFINE p == Head(queue)
  <2>1. /\ wpc[w] = "idle" /\ wpc' = [wpc EXCEPT ![w] = "acquiring"]
        /\ task' = [task EXCEPT ![w] = p] /\ UNCHANGED <<heard, evidence, outcome>>
    BY <1>3 DEF Take
  <2>2. p \in Ports \ Begins
    BY <1>3, TakeLayout DEF Take, mainVars
  <2> HIDE DEF p
  <2>3. heard[p] = <<>> /\ evidence[w] = 0
    BY <2>1, <2>2 DEF Tasks, Attempts
  <2>4. Uncertain(heard[p], Len(heard[p])) /\ Len(heard[p]) <= Retries
    BY <2>3, RetriesType DEF Uncertain
  <2>5. QED
    BY <2>1, <2>3, <2>4 DEF Attempts, Shapes, Uncertain, Finished
<1>4. ASSUME NEW w \in Workers, Acquire(w) \/ Delay(w) \/ Send(w) PROVE Attempts'
  BY <1>4 DEF Acquire, Delay, Send, Attempts, Shapes, Uncertain, Finished, workerVars
<1>5. ASSUME NEW w \in Workers, NEW a \in Answered, NEW o, wpc[w] = "waiting",
             heard' = [heard EXCEPT ![task[w]] = Append(@, a)],
             Finish(w, o), o # NotYet,
             o = Raised => a = "crash",
             o # Raised =>
               /\ o.state = Classify(Fn, a)
               /\ o.evidence = EvidenceOf(o.state, Len(heard[task[w]]) + 1)
               /\ ~TryAgain(o.state, Len(heard[task[w]]) + 1)
      PROVE  Attempts'
  <2> DEFINE p == task[w]
  <2>1. /\ wpc' = [wpc EXCEPT ![w] = "idle"] /\ evidence' = [evidence EXCEPT ![w] = 0]
        /\ task' = [task EXCEPT ![w] = None]
        /\ outcome' = [outcome EXCEPT ![p] = o]
    BY <1>5 DEF Finish
  <2>2. /\ p \in Ports /\ Len(heard[p]) \in 0..Retries /\ Len(heard'[p]) = Len(heard[p]) + 1
        /\ heard'[p][Len(heard[p]) + 1] = a
        /\ Uncertain(heard'[p], Len(heard[p]))
        /\ \A q \in Ports : q # p => heard'[q] = heard[q]
    BY <1>5, AttemptFacts
  <2>3. \A v \in Workers : v # w => task[v] # p \/ wpc[v] = "idle"
    BY <1>5 DEF Shapes, Tasks
  <2>4. \A v \in Workers : wpc'[v] = "idle" => evidence'[v] = 0
    BY <2>1 DEF Shapes, Attempts
  <2>5. ASSUME NEW v \in Workers, wpc'[v] # "idle"
        PROVE  /\ v # w /\ wpc'[v] = wpc[v] /\ task'[v] = task[v] /\ evidence'[v] = evidence[v]
               /\ task[v] \in Ports /\ heard'[task[v]] = heard[task[v]]
    BY <2>1, <2>2, <2>3, <2>5 DEF Shapes, Tasks
  <2>6. \A q \in Finished' : q = p \/ (q \in Finished /\ outcome'[q] = outcome[q] /\ heard'[q] = heard[q])
    BY <2>1, <2>2 DEF Finished, Shapes
  <2>7. outcome'[p] = o /\ Len(heard'[p]) - 1 = Len(heard[p])
    BY <2>1, <2>2 DEF Shapes
  <2> HIDE DEF p
  <2>8. ASSUME NEW v \in Workers, wpc'[v] # "idle"
        PROVE  /\ Len(heard'[task'[v]]) <= Retries
               /\ Uncertain(heard'[task'[v]], Len(heard'[task'[v]]))
               /\ evidence'[v] = IF heard'[task'[v]] = <<>> THEN 0 ELSE 1
               /\ wpc'[v] = "acquiring" => heard'[task'[v]] = <<>>
    BY <2>5, <2>8 DEF Attempts, Uncertain
  <2>9. ASSUME NEW q \in Finished'
        PROVE  /\ Len(heard'[q]) \in 1..(Retries + 1)
               /\ Uncertain(heard'[q], Len(heard'[q]) - 1)
               /\ outcome'[q] = Raised => heard'[q][Len(heard'[q])] = "crash"
               /\ outcome'[q] # Raised =>
                    /\ outcome'[q].state = Classify(Fn, heard'[q][Len(heard'[q])])
                    /\ outcome'[q].evidence = EvidenceOf(outcome'[q].state, Len(heard'[q]))
                    /\ ~TryAgain(outcome'[q].state, Len(heard'[q]))
    <3>1. CASE q = p
      BY <1>5, <2>2, <2>7, <3>1, RetriesType DEF Uncertain, p
    <3>2. CASE q # p
      BY <2>6, <3>2 DEF Attempts, Uncertain
    <3>3. QED
      BY <3>1, <3>2
  <2>10. QED
    BY <2>4, <2>8, <2>9 DEF Attempts
<1>6. ASSUME NEW w \in Workers, Crash(w) PROVE Attempts'
  <2>1. /\ wpc[w] = "waiting" /\ "crash" \in Answered /\ Finish(w, Raised)
        /\ heard' = [heard EXCEPT ![task[w]] = Append(@, "crash")]
    BY <1>6 DEF Crash, Answered
  <2>2. QED
    BY <1>5, <2>1, VerdictIsDecided
<1>7. ASSUME NEW w \in Workers, NEW a \in Answered, Answer(w, a) PROVE Attempts'
  <2> DEFINE p == task[w]
             n == Len(heard[p]) + 1
             state == Classify(Fn, a)
             ev == EvidenceAfter(w, n, state)
             o == [state |-> state, evidence |-> ev]
  <2>1. /\ wpc[w] = "waiting" /\ heard' = [heard EXCEPT ![p] = Append(@, a)]
        /\ \/ /\ TryAgain(state, n)
              /\ evidence' = [evidence EXCEPT ![w] = ev]
              /\ wpc' = [wpc EXCEPT ![w] = "ready"]
              /\ UNCHANGED <<task, outcome>>
           \/ ~TryAgain(state, n) /\ Finish(w, o)
    BY <1>7 DEF Answer
  <2>2. /\ p \in Ports \ Finished /\ n \in 1..(Retries + 1) /\ Len(heard'[p]) = n
        /\ heard'[p] # <<>> /\ heard'[p][n] = a
        /\ Uncertain(heard'[p], n - 1)
        /\ \A q \in Ports : q # p => heard'[q] = heard[q]
    <3>1. /\ p \in Ports /\ Len(heard[p]) \in 0..Retries
          /\ Len(heard'[p]) = Len(heard[p]) + 1
          /\ heard'[p] # <<>> /\ heard'[p][Len(heard[p]) + 1] = a
          /\ Uncertain(heard'[p], Len(heard[p]))
          /\ \A q \in Ports : q # p => heard'[q] = heard[q]
      BY <2>1, AttemptFacts
    <3>2. p \notin Finished
      BY <2>1, FinishedUntouched
    <3>3. n \in 1..(Retries + 1) /\ n - 1 = Len(heard[p])
      BY <3>1, RetriesType
    <3>4. QED
      BY <3>1, <3>2, <3>3
  <2>3. evidence[w] = IF n = 1 THEN 0 ELSE 1
    BY <2>1, <2>2, EmptySeq DEF Attempts, Shapes
  <2>4. ev = EvidenceOf(state, n) /\ ev \in Nat
    BY <2>2, <2>3, RetriesType DEF EvidenceAfter, EvidenceOf
  <2>5. state \in {"open", "closed", "filtered"}
    BY ClassifyType
  <2>6. CASE ~TryAgain(state, n) /\ Finish(w, o)
    <3>1. o # NotYet /\ o # Raised /\ o.state = state /\ o.evidence = ev
      BY <2>4, <2>5, VerdictIsDecided
    <3> HIDE DEF o, ev, state, n
    <3>2. QED
      BY <1>5, <2>1, <2>4, <2>6, <3>1 DEF state, n
  <2>7. CASE /\ TryAgain(state, n)
             /\ evidence' = [evidence EXCEPT ![w] = ev]
             /\ wpc' = [wpc EXCEPT ![w] = "ready"]
             /\ UNCHANGED <<task, outcome>>
    <3>1. state = "filtered" /\ n <= Retries /\ ev = 1
      BY <2>2, <2>4, <2>7, RetriesType DEF TryAgain, EvidenceOf
    <3>2. Uncertain(heard'[p], n)
      BY <2>2, <3>1, RetriesType DEF Uncertain
    <3> HIDE DEF p, n, state, ev
    <3>3. ASSUME NEW v \in Workers, wpc'[v] # "idle"
          PROVE  /\ Len(heard'[task'[v]]) <= Retries
                 /\ Uncertain(heard'[task'[v]], Len(heard'[task'[v]]))
                 /\ evidence'[v] = IF heard'[task'[v]] = <<>> THEN 0 ELSE 1
                 /\ wpc'[v] = "acquiring" => heard'[task'[v]] = <<>>
      <4>1. CASE v = w
        BY <2>2, <2>7, <3>1, <3>2, <4>1 DEF Shapes, p
      <4>2. CASE v # w
        <5>1. /\ wpc'[v] = wpc[v] /\ task'[v] = task[v] /\ evidence'[v] = evidence[v]
              /\ task[v] \in Ports
          BY <2>7, <3>3, <4>2 DEF Shapes, Tasks
        <5>2. task[v] # p
          BY <2>1, <3>3, <4>2, <5>1 DEF Shapes, Tasks, p
        <5>3. heard'[task[v]] = heard[task[v]]
          BY <2>2, <5>1, <5>2
        <5>4. QED
          BY <3>3, <5>1, <5>3 DEF Attempts
      <4>3. QED
        BY <4>1, <4>2
    <3>4. \A v \in Workers : wpc'[v] = "idle" => evidence'[v] = 0
      BY <2>1, <2>7 DEF Shapes, Attempts
    <3>5. Finished' = Finished /\ \A q \in Finished : heard'[q] = heard[q] /\ outcome'[q] = outcome[q]
      BY <2>2, <2>7 DEF Finished
    <3>6. QED
      BY <3>3, <3>4, <3>5 DEF Attempts
  <2>8. QED
    BY <2>1, <2>6, <2>7
<1>8. QED
  BY <1>2, <1>3, <1>4, <1>6, <1>7, WorkerCases DEF Next

-----------------------------------------------------------------------------
\* Each position of Order is a port of its own.
LEMMA PortsCounted == IsFiniteSet(Ports) /\ Cardinality(Ports) = Len(Order)
<1>1. Order \in Bijection(1..Len(Order), Ports)
  BY OrderFacts, LenProperties DEF Bijection, Injection, Surjection, IsInjective
<1>2. /\ IsFiniteSet(1..Len(Order))
      /\ Cardinality(1..Len(Order)) = Len(Order)
  <2> DEFINE n == Len(Order)
  <2>1. 1 \in Int /\ n \in Int /\ n >= 0
    BY OrderFacts
  <2> HIDE DEF n
  <2>2. IsFiniteSet(1..n) /\ Cardinality(1..n) = IF 1 > n THEN 0 ELSE n - 1 + 1
    BY <2>1, FS_Interval
  <2>3. Cardinality(1..n) = n
    BY <2>1, <2>2
  <2>4. QED
    BY <2>2, <2>3 DEF n
<1>3. ExistsBijection(1..Len(Order), Ports)
  BY <1>1 DEF ExistsBijection
<1>4. QED
  BY <1>2, <1>3, FS_Bijection, Zenon

\* The arithmetic of the line that counts the skipped ports.
LEMMA SkippedIsRest ==
  ASSUME Layout PROVE  /\ SkippedCount = Cardinality(Ports \ Submitted)
                       /\ SkippedCount \in 0..Len(Order)
                       /\ Ports \ Submitted = ToSet(work)
                       /\ SkippedCount = 0 <=> work = <<>>
<1>1. Submitted \subseteq Ports /\ Ports \cap Submitted = Submitted
      /\ Ports \ Submitted = ToSet(work)
  BY Partition DEF Submitted
<1>2. /\ Cardinality(Ports \ Submitted) = Cardinality(Ports) - Cardinality(Ports \cap Submitted)
      /\ IsFiniteSet(Ports \ Submitted) /\ IsFiniteSet(Submitted)
  BY <1>1, PortsCounted, FS_Difference, FS_Subset
<1>3. Cardinality(Ports \ Submitted) \in Nat /\ Cardinality(Submitted) \in Nat
  BY <1>2, FS_CardinalityType
<1>4. /\ SkippedCount = Cardinality(Ports \ Submitted) /\ SkippedCount \in 0..Len(Order)
  <2>1. Cardinality(Ports \ Submitted) = Len(Order) - Cardinality(Submitted)
    BY <1>1, <1>2, PortsCounted
  <2>2. QED
    BY <1>3, <2>1, OrderFacts DEF SkippedCount
<1>5. ToSet(work) = {} <=> work = <<>>
  BY EmptySeq, LenProperties DEF Layout, ToSet
<1>6. SkippedCount = 0 <=> work = <<>>
  BY <1>1, <1>2, <1>4, <1>5, FS_EmptySet
<1>7. QED
  BY <1>1, <1>4, <1>6

\* A finished port stays as it is.
LEMMA OutcomesStand ==
  ASSUME Shapes, Tasks, [Next]_vars
  PROVE  \A p \in Finished : p \in Finished' /\ outcome'[p] = outcome[p]
<1>1. CASE UNCHANGED outcome
  BY <1>1 DEF Finished
<1>2. ASSUME NEW w \in Workers, NEW o, Finish(w, o), wpc[w] = "waiting"
      PROVE  \A p \in Finished : p \in Finished' /\ outcome'[p] = outcome[p]
  <2>1. task[w] \notin Finished /\ outcome' = [outcome EXCEPT ![task[w]] = o]
    BY <1>2, FinishedUntouched DEF Finish
  <2>2. QED
    BY <2>1 DEF Finished, Shapes
<1>3. ASSUME NEW w \in Workers, Crash(w)
      PROVE  \A p \in Finished : p \in Finished' /\ outcome'[p] = outcome[p]
  BY <1>2, <1>3 DEF Crash
<1>4. ASSUME NEW w \in Workers, NEW a \in Answered, Answer(w, a)
      PROVE  \A p \in Finished : p \in Finished' /\ outcome'[p] = outcome[p]
  BY <1>1, <1>2, <1>4 DEF Answer
<1>5. ASSUME NEW w \in Workers, Take(w) \/ Acquire(w) \/ Delay(w) \/ Send(w)
      PROVE  UNCHANGED outcome
  BY <1>5 DEF Take, Acquire, Delay, Send, workerVars
<1>6. ASSUME MainStep \/ OperatorStep \/ Tick \/ UNCHANGED vars PROVE UNCHANGED outcome
  BY <1>6 DEF MainStep, OperatorStep, Tick, vars, workerVars
<1>7. QED
  BY <1>1, <1>3, <1>4, <1>5, <1>6, WorkerCases DEF Next

\* Every step of the main thread keeps its books, and no worker spoils them.
LEMMA BooksStep ==
  Layout /\ Shapes /\ Tasks /\ Books /\ [Next]_vars => Books'
<1> SUFFICES ASSUME Layout, Shapes, Tasks, Books, [Next]_vars PROVE Books'
  OBVIOUS
<1>1. gathered \subseteq Finished' /\ \A p \in gathered : outcome'[p] = outcome[p]
  BY OutcomesStand DEF Books
<1>2. Listed /\ UNCHANGED <<gathered, results>> => Listed'
  BY <1>1 DEF Listed
<1>3. UNCHANGED work => Submitted' = Submitted
  BY DEF Submitted
<1>4. UNCHANGED <<queue, wpc>> => Drained' = Drained
  BY DEF Drained
<1>5. CASE MainStep \/ OperatorStep
  <2>0. UNCHANGED <<wpc, outcome>>
    BY <1>5 DEF MainStep, OperatorStep, workerVars
  <2>1. CASE Submit
    BY <1>1, <1>2, <2>1 DEF Submit, Books, Out
  <2>2. CASE Expire
    BY <1>1, <1>2, <1>3, <2>2, SkippedIsRest DEF Expire, Books, Out
  <2>3. CASE AllSubmitted
    <3>1. Cardinality(Ports \ Submitted) = 0
      BY <2>3, SkippedIsRest DEF AllSubmitted
    <3>2. QED
      BY <1>1, <1>2, <1>3, <2>3, <3>1 DEF AllSubmitted, Books, Out
  <2>4. CASE Return
    BY <1>1, <1>2, <1>3, <1>4, <2>0, <2>4 DEF Return, Books, Out
  <2>5. CASE Unwound
    BY <1>1, <1>3, <1>4, <2>0, <2>5 DEF Unwound, Books, Out
  <2>6. CASE Interrupt
    BY <1>1, <1>2, <1>3, <2>6 DEF Interrupt, Books, Out
  <2>7. ASSUME NEW p \in Ports, Gather(p) PROVE Books'
    <3>1. /\ main = "gathering" /\ main' = main /\ p \in Finished /\ p \notin gathered
          /\ gathered' = gathered \cup {p} /\ results' = Collect(p)
          /\ UNCHANGED <<work, queue, skipped>>
      BY <2>7 DEF Gather
    <3>2. results \in Seq(Entries) /\ Listed
      BY <3>1 DEF Books
    <3>3. CASE outcome[p] = Raised
      BY <1>1, <1>3, <2>0, <3>1, <3>2, <3>3 DEF Collect, Books, Listed, Out, Finished
    <3>4. CASE outcome[p] # Raised
      <4> DEFINE e == [port |-> p, verdict |-> outcome[p]]
                 n == Len(results)
      <4>1. e \in Entries /\ results' = Append(results, e)
        BY <3>1, <3>4 DEF Entries, Shapes, Collect
      <4>2. /\ results' \in Seq(Entries) /\ DOMAIN results' = 1..(n + 1)
            /\ DOMAIN results = 1..n /\ n \in Nat
            /\ results'[n + 1] = e
            /\ \A i \in 1..n : results'[i] = results[i]
        BY <3>2, <4>1, AppendProperties, LenProperties
      <4>3. e.port = p /\ e.verdict = outcome[p]
        OBVIOUS
      <4> HIDE DEF e, n
      <4>4. \A i \in 1..n : results[i].port # p
        BY <3>1, <3>2, <4>2 DEF Listed
      <4>5. \A i \in 1..(n + 1) : i \in 1..n \/ i = n + 1
        BY <4>2
      <4>6. Listed'
        <5>1. ASSUME NEW i \in 1..(n + 1)
              PROVE  /\ results'[i].port \in gathered' /\ outcome'[results'[i].port] # Raised
                     /\ results'[i].verdict = outcome'[results'[i].port]
          BY <2>0, <3>1, <3>2, <3>4, <4>2, <4>3, <4>5 DEF Listed
        <5>2. ASSUME NEW i \in 1..(n + 1), NEW j \in 1..(n + 1), results'[i].port = results'[j].port
              PROVE  i = j
          BY <3>2, <4>2, <4>3, <4>4, <4>5, <5>2 DEF Listed
        <5>3. ASSUME NEW q \in gathered', outcome'[q] # Raised
              PROVE  \E i \in 1..(n + 1) : results'[i].port = q
          <6>1. CASE q = p
            BY <4>2, <4>3, <6>1
          <6>2. CASE q # p
            <7>1. PICK i \in 1..n : results[i].port = q
              BY <2>0, <3>1, <3>2, <4>2, <5>3, <6>2 DEF Listed
            <7>2. i \in 1..(n + 1) /\ results'[i].port = q
              BY <4>2, <7>1
            <7>3. QED
              BY <7>2
          <6>3. QED
            BY <6>1, <6>2
        <5>4. QED
          BY <4>2, <5>1, <5>2, <5>3 DEF Listed
      <4>7. QED
        BY <1>1, <1>3, <2>0, <3>1, <4>2, <4>6 DEF Books, Out, Finished
    <3>5. QED
      BY <3>3, <3>4
  <2>8. QED
    BY <1>5, <2>1, <2>2, <2>3, <2>4, <2>5, <2>6, <2>7 DEF MainStep, OperatorStep
<1>6. CASE Tick \/ UNCHANGED vars
  BY <1>1, <1>2, <1>3, <1>4, <1>6 DEF Tick, vars, mainVars, workerVars, Books, Out
<1>7. ASSUME NEW w \in Workers, WorkerStep(w) PROVE Books'
  <2>1. UNCHANGED mainVars
    BY <1>7 DEF WorkerStep, Take, Acquire, Delay, Send, Crash, Answer
  <2>2. Out => queue = <<>> /\ wpc[w] = "idle"
    BY DEF Books, Drained
  <2>3. ~Out \/ UNCHANGED <<queue, wpc>>
    BY <1>7, <2>2 DEF WorkerStep, Take, Acquire, Delay, Send, Crash, Answer
  <2>4. QED
    BY <1>1, <1>2, <1>3, <1>4, <2>1, <2>3 DEF Books, Out, mainVars
<1>8. QED
  BY <1>5, <1>6, <1>7 DEF Next

-----------------------------------------------------------------------------
\* A grant lets one port more pass.
LEMMA PassesStep ==
  Layout /\ Shapes /\ Tasks /\ Limiter /\ Passes /\ [Next]_vars => Passes'
<1> SUFFICES ASSUME Layout, Shapes, Tasks, Limiter, Passes, [Next]_vars PROVE Passes'
  OBVIOUS
<1>0. /\ lpc \in [Workers -> {"idle", "blocked", "measure", "asleep"}]
      /\ grants \in Seq(Nat) /\ now \in Nat
  BY DEF Limiter, RLP!IInv, RLP!TypeOK
<1>1. ASSUME Begins' = Begins, UNCHANGED <<task, lpc, grants>> PROVE Passes'
  BY <1>1 DEF Passes, Passed
<1>2. ASSUME UNCHANGED <<work, queue>> PROVE Begins' = Begins
  BY <1>2 DEF Begins, Begun
<1>3. CASE MainStep /\ Submit
  BY <1>1, <1>3, SubmitLayout DEF MainStep, workerVars, limiterVars
<1>4. CASE (MainStep /\ ~Submit) \/ OperatorStep
  BY <1>1, <1>2, <1>4 DEF MainStep, OperatorStep, Interrupt, Expire, AllSubmitted,
                        Return, Unwound, Gather, workerVars, limiterVars
<1>5. CASE Tick \/ UNCHANGED vars
  BY <1>1, <1>2, <1>5 DEF Tick, vars, mainVars, workerVars, limiterVars
<1>6. ASSUME NEW w \in Workers, Take(w) PROVE Passes'
  <2> DEFINE p == Head(queue)
  <2>1. /\ wpc[w] = "idle" /\ task[w] = None /\ lpc[w] = "idle"
        /\ task' = [task EXCEPT ![w] = p] /\ RL!Call(w)
    BY <1>6 DEF Take, Tasks, Limiter
  <2>2. /\ p \in Ports \ Begins /\ Begins' = Begins \cup {p} /\ Begins \subseteq Ports
    BY <1>6, TakeLayout, Partition DEF Take, mainVars
  <2>3. lpc' = [lpc EXCEPT ![w] = "blocked"] /\ grants' = grants
    BY <2>1 DEF RL!Call
  <2> HIDE DEF p
  <2>4. \A q \in Begins : q # None
    BY <2>2, PoolAssumption DEF PoolAssumption
  <2>5. p \notin Passed'
    BY <1>0, <2>1, <2>3 DEF Passed, Shapes
  <2>6. ASSUME NEW q \in Begins PROVE q \in Passed' <=> q \in Passed
    <3>1. \A v \in Workers : v # w => task'[v] = task[v] /\ lpc'[v] = lpc[v]
      BY <1>0, <2>1, <2>3 DEF Shapes
    <3>2. task[w] # q /\ task'[w] # q
      BY <2>1, <2>2, <2>4 DEF Shapes
    <3>3. (\A v \in Workers : task'[v] = q => lpc'[v] = "idle")
           <=> (\A v \in Workers : task[v] = q => lpc[v] = "idle")
      BY <3>1, <3>2
    <3>4. QED
      BY <2>2, <3>3 DEF Passed
  <2>7. Passed' = Passed
    <3>1. Passed \subseteq Begins /\ Passed' \subseteq Begins \cup {p}
      BY <2>2 DEF Passed
    <3>2. QED
      BY <2>5, <2>6, <3>1
  <2>8. QED
    BY <2>3, <2>7 DEF Passes
<1>7. ASSUME NEW w \in Workers, Acquire(w) PROVE Passes'
  <2> DEFINE p == task[w]
  <2>1. /\ wpc[w] = "acquiring" /\ RL!Acquire(w) /\ UNCHANGED <<work, queue, task>>
        /\ Begins' = Begins
    BY <1>2, <1>7 DEF Acquire, mainVars, workerVars
  <2>2. p \in Begins /\ \A v \in Workers : v # w => task[v] # p
    BY <2>1 DEF Tasks, Shapes
  <2>3. /\ lpc[w] # "idle" /\ \A v \in Workers : v # w => lpc'[v] = lpc[v]
        /\ \/ lpc'[w] # "idle" /\ grants' = grants
           \/ lpc'[w] = "idle" /\ grants' = Append(grants, now)
    BY <1>0, <2>1 DEF RL!Acquire, RL!Enter, RL!Measure, RL!Stamp
  <2>4. p \notin Passed
    BY <2>3 DEF Passed
  <2> HIDE DEF p
  <2>5. CASE lpc'[w] # "idle" /\ grants' = grants
    <3>1. Passed' = Passed
      BY <2>1, <2>3, <2>5 DEF Passed
    <3>2. QED
      BY <2>5, <3>1 DEF Passes
  <2>6. CASE lpc'[w] = "idle" /\ grants' = Append(grants, now)
    <3>1. p \in Passed'
      BY <2>1, <2>2, <2>6 DEF Passed
    <3>2. Passed' = Passed \cup {p}
      BY <2>1, <2>2, <2>3, <2>6, <3>1 DEF Passed, p
    <3>3. /\ IsFiniteSet(Passed \cup {p})
          /\ Cardinality(Passed \cup {p}) = Cardinality(Passed) + 1
      BY <2>4, FS_AddElement DEF Passes
    <3>4. Len(grants') = Len(grants) + 1
      BY <1>0, <2>6, AppendProperties
    <3>5. QED
      BY <3>2, <3>3, <3>4 DEF Passes
  <2>7. QED
    BY <2>3, <2>5, <2>6
<1>8. ASSUME NEW w \in Workers, Delay(w) \/ Send(w) PROVE Passes'
  BY <1>1, <1>2, <1>8 DEF Delay, Send, mainVars, limiterVars
<1>9. ASSUME NEW w \in Workers, Crash(w) \/ \E a \in Answered : Answer(w, a) PROVE Passes'
  <2>1. /\ lpc[w] = "idle" /\ UNCHANGED <<lpc, grants>> /\ Begins' = Begins
        /\ wpc[w] = "waiting"
        /\ task' = task \/ task' = [task EXCEPT ![w] = None]
    BY <1>2, <1>9 DEF Crash, Answer, Finish, Limiter, mainVars, limiterVars
  <2>2. None \notin Begins
    BY Partition, PoolAssumption DEF PoolAssumption
  <2>3. Passed' = Passed
    BY <2>1, <2>2 DEF Passed, Shapes
  <2>4. QED
    BY <2>1, <2>3 DEF Passes
<1>10. QED
  BY <1>3, <1>4, <1>5, <1>6, <1>7, <1>8, <1>9, WorkerCases DEF Next

\* k times a step fits into d: k is at most d \div step.
LEMMA FitsInto ==
  ASSUME NEW k \in Nat, NEW d \in Nat, NEW step \in Nat, step > 0, k * step <= d
  PROVE  k <= d \div step
<1> DEFINE q == d \div step
<1>1. q \in Nat /\ d < (q + 1) * step
  OBVIOUS
<1> HIDE DEF q
<1>2. SUFFICES ASSUME k >= q + 1 PROVE FALSE
  BY <1>1 DEF q
<1>3. k * step >= (q + 1) * step
  <2> DEFINE e == k - (q + 1)
  <2>1. e \in Nat /\ k = e + (q + 1)
    BY <1>1, <1>2
  <2> HIDE DEF e
  <2>2. (e + (q + 1)) * step = e * step + (q + 1) * step /\ e * step >= 0
    BY <1>1, <2>1
  <2>3. QED
    BY <1>1, <2>1, <2>2
<1>4. QED
  BY <1>1, <1>3

\* As many probes per grant at most: multiplication is monotone.
LEMMA Scaled ==
  ASSUME NEW m \in Nat, NEW n \in Nat, NEW r \in Nat, m <= n
  PROVE  m * r <= r * n
OBVIOUS

-----------------------------------------------------------------------------
\* What each port is, and when each worker's delay is over.
Clocks == truth \in [Ports -> Truths] /\ until \in [Workers -> Nat]

\* No step changes what a port is; a delay ends at an instant.
LEMMA ClocksStep == Shapes /\ Limiter /\ Clocks /\ [Next]_vars => Clocks'
<1> SUFFICES ASSUME Shapes, Limiter, Clocks, [Next]_vars PROVE Clocks'
  OBVIOUS
<1>1. now \in Nat /\ ScanDelay \in Nat
  BY PoolAssumption DEF PoolAssumption, Limiter, RLP!IInv, RLP!TypeOK
<1>2. CASE MainStep \/ OperatorStep \/ Tick \/ UNCHANGED vars
  BY <1>2 DEF MainStep, OperatorStep, Tick, vars, workerVars, Clocks
<1>3. ASSUME NEW w \in Workers, WorkerStep(w) PROVE Clocks'
  <2>1. truth' = truth
    BY <1>3 DEF WorkerStep, Take, Acquire, Delay, Send, Crash, Answer
  <2>2. CASE Delay(w)
    BY <1>1, <2>1, <2>2 DEF Delay, Clocks
  <2>3. CASE ~Delay(w)
    BY <1>3, <2>1, <2>3 DEF WorkerStep, Take, Acquire, Send, Crash, Answer, workerVars, Clocks
  <2>4. QED
    BY <2>2, <2>3
<1>4. QED
  BY <1>2, <1>3 DEF Next

\* The inductive invariant.
IInv == /\ Layout /\ Shapes /\ Tasks /\ Limiter /\ Attempts
        /\ Books /\ Passes /\ Clocks

\* A new scan satisfies the inductive invariant.
LEMMA InitInv == Init => IInv
<1> SUFFICES ASSUME Init PROVE IInv
  OBVIOUS
<1> USE DEF Init
<1>1. Order \in Seq(Ports) /\ Len(Order) \in Nat /\ Len(queue) = 0 /\ work = Order
  BY OrderFacts
<1>2. Begun = 0
  BY DEF RL!Init
<1>3. Begins = {}
  BY <1>2 DEF Begins
<1>4. Layout
  BY <1>1, <1>2 DEF Layout
<1>5. Shapes
  BY EmptySeq DEF Shapes, NotYet
<1>6. Finished = {}
  BY DEF Finished
<1>7. Tasks /\ Attempts
  BY <1>3, <1>6 DEF Tasks, Attempts
<1>8. RLP!Init
  BY <1>2 DEF RL!Init, RLP!Init, RL!Nobody, RLP!Nobody
<1>9. Limiter
  <2> USE LimiterConstants DEF RLP!IntervalAssumption, RLP!ClockAssumption,
          RLP!MaxCallsAssumption, RLP!ThreadsAssumption
  <2>1. RLP!IInv
    BY <1>8, RLP!InitInv
  <2>2. QED
    BY <2>1, <1>8 DEF Limiter, RLP!Init
<1>10. Books
  BY <1>1, EmptySeq DEF Books, Listed, Out
<1>11. Passes
  <2>1. Passed = {} /\ grants = <<>>
    BY <1>3 DEF Passed, RL!Init
  <2>2. QED
    BY <2>1, FS_EmptySet, EmptySeq DEF Passes
<1>12. Clocks
  BY DEF Clocks
<1>13. QED
  BY <1>4, <1>5, <1>7, <1>9, <1>10, <1>11, <1>12 DEF IInv

\* Every step keeps it.
LEMMA StepInv == IInv /\ [Next]_vars => IInv'
BY ShapesStep, TasksStep, LimiterStep, AttemptsStep, BooksStep, PassesStep, ClocksStep
   DEF IInv

\* The inductive invariant holds throughout, for any ports, workers, retries,
\* deadline, delay, faults and interrupt.
THEOREM Invariance == Spec => []IInv
BY InitInv, StepInv, PTL DEF Spec

\* Type correctness: a verdict is one of the three states, with the evidence of
\* an attempt that was allowed.
THEOREM TypeCorrect == Spec => []TypeOK
<1>1. IInv => TypeOK
  <2> SUFFICES ASSUME IInv PROVE TypeOK
    OBVIOUS
  <2> USE DEF IInv
  <2>1. RL!TypeOK
    BY DEF Limiter, RLP!IInv, RLP!TypeOK, RL!TypeOK, RL!Offsets, RLP!Offsets, RL!Nobody, RLP!Nobody
  <2>2. evidence \in [Workers -> 0..(MaxRetries + 1)]
    <3>1. \A w \in Workers : evidence[w] \in {0, 1}
      BY DEF Attempts, Shapes
    <3>2. QED
      BY <3>1, PoolAssumption DEF Shapes, PoolAssumption
  <2>3. ASSUME NEW p \in Ports PROVE outcome[p] \in Verdicts \cup {NotYet, Raised}
    <3> DEFINE n == Len(heard[p])
    <3>1. CASE p \notin Finished
      BY <3>1 DEF Finished
    <3>2. CASE p \in Finished /\ outcome[p] # Raised
      <4>1. n \in 1..(Retries + 1) /\ heard[p][n] \in Answered
        BY <3>2, LenProperties, RetriesType DEF Attempts, Shapes
      <4>2. /\ outcome[p].state \in {"open", "closed", "filtered"}
            /\ outcome[p].evidence = EvidenceOf(outcome[p].state, n)
        BY <3>2, <4>1, ClassifyType DEF Attempts
      <4>3. outcome[p].evidence \in 1..(MaxRetries + 1)
        BY <4>1, <4>2, RetriesType, PoolAssumption DEF EvidenceOf, PoolAssumption
      <4>4. QED
        BY <4>2, <4>3 DEF Verdicts, Shapes
    <3>3. QED
      BY <3>1, <3>2
  <2>4. outcome \in [Ports -> Verdicts \cup {NotYet, Raised}]
    BY <2>3 DEF Shapes
  <2>5. results \in Seq([port : Ports, verdict : Verdicts])
    <3>1. ASSUME NEW i \in 1..Len(results) PROVE results[i] \in [port : Ports, verdict : Verdicts]
      <4>1. main # "interrupted"
        BY DEF Books
      <4>2. /\ results[i] \in Entries /\ results[i].port \in Finished
            /\ outcome[results[i].port] # Raised
            /\ results[i].verdict = outcome[results[i].port]
        BY <4>1, LenProperties DEF Books, Listed
      <4>3. results[i].verdict \in Verdicts
        BY <2>3, <4>2 DEF Finished
      <4>4. QED
        BY <4>2, <4>3 DEF Entries
    <3>2. results \in Seq(Entries)
      BY DEF Books
    <3>3. QED
      BY <3>1, <3>2, SeqOfElements
  <2>6. gathered \in SUBSET Ports
    BY DEF Books, Finished
  <2>7. QED
    BY <2>1, <2>2, <2>4, <2>5, <2>6 DEF TypeOK, Shapes, Layout, Books, Clocks
<1>2. QED
  BY <1>1, Invariance, PTL

\* An answer that proves a port open is never lost by the retry loop of
\* _probe_tcp, and nothing else makes a port open.
THEOREM OpenIsHeardAlways == Spec => []OpenIsHeard
<1>1. IInv => OpenIsHeard
  <2> SUFFICES ASSUME IInv, Fn \notin Stateless, NEW p \in Finished, outcome[p] # Raised
               PROVE  LET n == Len(heard[p])
                      IN  /\ outcome[p].state = "open" <=> "accept" \in ToSet(heard[p])
                          /\ outcome[p].state = "open" => /\ outcome[p].evidence = n
                                                         /\ heard[p][n] = "accept"
    BY DEF OpenIsHeard
  <2> DEFINE h == heard[p]
             n == Len(h)
             state == outcome[p].state
  <2>1. /\ h \in Seq(Answered) /\ n \in 1..(Retries + 1) /\ Retries \in Nat
        /\ state = Classify(Fn, h[n]) /\ Uncertain(h, n - 1)
        /\ outcome[p].evidence = EvidenceOf(state, n)
    BY RetriesType DEF IInv, Attempts, Shapes, Finished
  <2>2. DOMAIN h = 1..n /\ \A i \in 1..n : h[i] \in Answered
    BY <2>1, LenProperties
  <2>3. \A a \in Answered : Classify(Fn, a) = "open" <=> a = "accept"
    <3>1. Fn \in {"connect", "syn", "udp"}
      BY PoolAssumption DEF PoolAssumption, Fn, TCPTechniques, Stateless
    <3>2. ASSUME NEW a \in Answered, a # "accept" PROVE Classify(Fn, a) # "open"
      <4>1. CASE Fn = "connect"
        BY <3>2, <4>1 DEF Classify, Answered
      <4>2. CASE Fn \in {"syn", "udp"}
        BY <3>2, <4>2 DEF Classify, Answered
      <4>3. QED
        BY <3>1, <4>1, <4>2
    <3>3. Classify(Fn, "accept") = "open"
      BY DEF Classify
    <3>4. QED
      BY <3>2, <3>3
  <2> HIDE DEF h, n, state
  <2>4. \A i \in 1..n : i # n => h[i] # "accept"
    BY <2>1, <2>2, <2>3 DEF Uncertain
  <2>5. n \in 1..n
    BY <2>1
  <2>6. state = "open" <=> h[n] = "accept"
    BY <2>1, <2>2, <2>3, <2>5
  <2>7. state = "open" <=> "accept" \in ToSet(h)
    BY <2>2, <2>4, <2>5, <2>6 DEF ToSet
  <2>8. state = "open" => outcome[p].evidence = n
    BY <2>1 DEF EvidenceOf
  <2>9. QED
    BY <2>6, <2>7, <2>8 DEF h, n, state
<1>2. QED
  BY <1>1, Invariance, PTL

\* A port is given up on only after the last retry, for every technique whose
\* probes the retry loop of _probe_tcp repeats and whose timeouts it sees: not
\* UDP, whose scan has no loop, and not connect, whose timeouts look closed.
THEOREM SilenceIsRetriedAlways ==
  ASSUME Technique # "udp", Fn # "connect" PROVE Spec => []SilenceIsRetried
<1>1. IInv => SilenceIsRetried
  <2> SUFFICES ASSUME IInv, NEW p \in Finished, heard[p][Len(heard[p])] = "silence"
               PROVE  Len(heard[p]) = MaxRetries + 1
    BY DEF SilenceIsRetried
  <2>1. Retries = MaxRetries /\ Retries \in Nat
    BY RetriesType DEF Retries
  <2>2. Classify(Fn, "silence") = "filtered"
    BY PoolAssumption DEF PoolAssumption, Classify, Fn, TCPTechniques, Stateless
  <2>3. outcome[p] # Raised
    BY DEF IInv, Attempts
  <2>4. Len(heard[p]) \in 1..(Retries + 1) /\ ~TryAgain("filtered", Len(heard[p]))
    BY <2>2, <2>3 DEF IInv, Attempts
  <2>5. QED
    BY <2>1, <2>4 DEF TryAgain
<1>2. QED
  BY <1>1, Invariance, PTL

\* A Ctrl-C leaves no submitted port without a verdict: the `with' block waits.
THEOREM CtrlCCancelsNothingAlways == Spec => []CtrlCCancelsNothing
<1>1. IInv => CtrlCCancelsNothing
  <2> SUFFICES ASSUME IInv, main = "interrupted"
               PROVE  /\ \A p \in Submitted : heard[p] # <<>> /\ p \in Finished
                      /\ results = <<>>
    BY DEF CtrlCCancelsNothing
  <2>1. queue = <<>> /\ (\A w \in Workers : wpc[w] = "idle") /\ results = <<>>
    BY DEF IInv, Books, Out, Drained
  <2>2. Submitted = Begins /\ Begins \subseteq Ports
    <3>1. ToSet(<<>>) = {}
      BY DEF ToSet
    <3>2. QED
      BY <2>1, <3>1, Partition DEF IInv
  <2>3. ASSUME NEW p \in Begins PROVE p \in Finished
    BY <2>1, <2>2, PoolAssumption DEF IInv, Tasks, Finished, PoolAssumption
  <2>4. ASSUME NEW p \in Finished PROVE heard[p] # <<>>
    BY EmptySeq DEF IInv, Attempts
  <2>5. QED
    BY <2>1, <2>2, <2>3, <2>4
<1>2. QED
  BY <1>1, Invariance, PTL

\* The list and the counts of a scan that returned add up, whatever the order
\* in which deadline, workers and as_completed come.
THEOREM AccountingAlways == Spec => []Accounting
<1>1. IInv => Accounting
  <2> SUFFICES ASSUME IInv, main = "returned"
               PROVE  /\ \A p \in Ports : TimesReported(p)
                            = IF p \in Submitted /\ outcome[p] # Raised THEN 1 ELSE 0
                      /\ \A p \in Ports \ Submitted : heard[p] = <<>>
                      /\ skipped = Cardinality(Ports \ Submitted)
    BY DEF Accounting
  <2>1. gathered = Submitted /\ Listed
    BY DEF IInv, Books
  <2>2. ASSUME NEW p \in Ports, p \in Submitted, outcome[p] # Raised
        PROVE  TimesReported(p) = 1
    <3>1. PICK i \in DOMAIN results : results[i].port = p
      BY <2>1, <2>2 DEF Listed
    <3>2. {j \in DOMAIN results : results[j].port = p} = {i}
      BY <2>1, <3>1 DEF Listed
    <3>3. QED
      BY <3>2, FS_Singleton DEF TimesReported
  <2>3. ASSUME NEW p \in Ports, ~(p \in Submitted /\ outcome[p] # Raised)
        PROVE  TimesReported(p) = 0
    <3>1. {j \in DOMAIN results : results[j].port = p} = {}
      BY <2>1, <2>3 DEF Listed
    <3>2. QED
      BY <3>1, FS_EmptySet DEF TimesReported
  <2>4. \A p \in Ports \ Submitted : heard[p] = <<>>
    BY Partition DEF IInv, Tasks
  <2>5. skipped = Cardinality(Ports \ Submitted)
    BY DEF IInv, Books
  <2>6. QED
    BY <2>2, <2>3, <2>4, <2>5
<1>2. QED
  BY <1>1, Invariance, PTL

\* The grants there have been fit into the time there has been.
LEMMA GrantsFit == Limiter /\ Interval > 0 => Len(grants) <= Allowance /\ Allowance \in Nat
<1> SUFFICES ASSUME Limiter, Interval > 0
             PROVE  Len(grants) <= Allowance /\ Allowance \in Nat
  OBVIOUS
<1> DEFINE n == Len(grants)
<1>1. /\ grants \in Seq(Nat) /\ n \in Nat /\ now \in Nat /\ Start \in Nat /\ now >= Start
      /\ Interval \in Nat /\ now - Start \in Nat
  BY LenProperties, LimiterAssumption DEF LimiterAssumption, Limiter, RLP!IInv, RLP!TypeOK
<1>2. (now - Start) \div Interval \in Nat
  BY <1>1
<1>3. CASE grants = <<>>
  BY <1>2, <1>3, EmptySeq DEF Allowance
<1>4. CASE grants # <<>>
  <2>1. n \in 1..n /\ 1 \in 1..n /\ grants[1] \in Nat /\ grants[n] \in Nat
    BY <1>1, <1>4, EmptySeq, ElementOfSeq
  <2>2. grants[1] >= Start /\ grants[n] <= now
    BY <1>4 DEF Limiter, RLP!IInv, RLP!StampOfLastGrant
  <2>3. grants[n] - grants[1] >= (n - 1) * Interval
    <3>1. CASE n = 1
      <4>1. (n - 1) * Interval = 0
        BY <1>1, <3>1
      <4>2. QED
        BY <2>1, <3>1, <4>1
    <3>2. CASE n > 1
      <4>1. grants[n] - grants[1] >= (n - 1) * (Interval - (0 + 0))
        BY <2>1, <3>2 DEF Limiter, RLP!IInv, RLP!Spaced, RLP!enabled, RLP!Spread
      <4>2. Interval - (0 + 0) = Interval
        BY <1>1
      <4>3. QED
        BY <4>1, <4>2
    <3>3. QED
      BY <2>1, <3>1, <3>2
  <2>4. n - 1 \in Nat /\ (n - 1) * Interval <= now - Start
    <3> DEFINE m == (n - 1) * Interval
    <3>1. m \in Int /\ n - 1 \in Nat
      BY <1>1, <2>1
    <3> HIDE DEF m
    <3>2. m <= now - Start
      BY <1>1, <2>1, <2>2, <2>3, <3>1 DEF m
    <3>3. QED
      BY <3>1, <3>2 DEF m
  <2>5. n - 1 <= (now - Start) \div Interval
    <3> DEFINE k == n - 1
               d == now - Start
    <3>1. k \in Nat /\ d \in Nat /\ Interval \in Nat /\ Interval > 0 /\ k * Interval <= d
      BY <1>1, <2>4
    <3> HIDE DEF k, d
    <3>2. k <= d \div Interval
      BY <3>1, FitsInto
    <3>3. QED
      BY <3>2 DEF k, d
  <2>6. QED
    BY <1>1, <1>2, <2>5 DEF Allowance
<1>5. QED
  BY <1>3, <1>4

\* The limiter is passed once per port and a port is probed at most Retries + 1
\* times: the pool sends at most so many probes per interval, for any number of
\* workers, however late they send.
THEOREM RetriedCapAlways == Spec => []RetriedCap
<1>1. IInv => RetriedCap
  <2> SUFFICES ASSUME IInv, Interval > 0
               PROVE  Cardinality(Probes) <= (Retries + 1) * Allowance
    BY DEF RetriedCap
  <2>1. ASSUME NEW p \in Ports, heard[p] # <<>> PROVE p \in Passed /\ Len(heard[p]) \in 1..(Retries + 1)
    <3>1. p \in Begins
      BY <2>1 DEF IInv, Tasks
    <3>2. ASSUME NEW w \in Workers, task[w] = p
          PROVE  lpc[w] = "idle" /\ Len(heard[p]) <= Retries
      <4>1. p # None
        BY PoolAssumption DEF PoolAssumption
      <4>2. wpc[w] # "idle" /\ wpc[w] # "acquiring" /\ Len(heard[p]) <= Retries
        BY <2>1, <3>2, <4>1 DEF IInv, Tasks, Attempts
      <4>3. QED
        BY <4>2 DEF IInv, Limiter
    <3>3. Len(heard[p]) \in Nat \ {0}
      BY <2>1, EmptySeq DEF IInv, Shapes
    <3>4. Len(heard[p]) <= Retries + 1
      <4>1. CASE p \in Finished
        BY <4>1, RetriesType DEF IInv, Attempts
      <4>2. CASE p \notin Finished
        <5>1. PICK w \in Workers : task[w] = p
          BY <3>1, <4>2 DEF IInv, Tasks, Finished
        <5>2. QED
          BY <3>2, <3>3, <5>1, RetriesType
      <4>3. QED
        BY <4>1, <4>2
    <3>5. QED
      BY <3>1, <3>2, <3>3, <3>4, RetriesType DEF Passed
  <2>2. ASSUME NEW w \in Workers, wpc[w] = "waiting"
        PROVE  task[w] \in Passed /\ Len(heard[task[w]]) + 1 \in 1..(Retries + 1)
    <3>1. task[w] \in Begins /\ task[w] \in Ports /\ task[w] # None
          /\ \A v \in Workers : task[v] = task[w] => v = w
      BY <2>2 DEF IInv, Tasks, Shapes
    <3>2. lpc[w] = "idle"
      BY <2>2 DEF IInv, Limiter
    <3>3. Len(heard[task[w]]) \in Nat /\ Len(heard[task[w]]) <= Retries
      BY <2>2, <3>1, LenProperties DEF IInv, Attempts, Shapes
    <3>4. QED
      BY <3>1, <3>2, <3>3, RetriesType DEF Passed
  <2> DEFINE Tries == 1..(Retries + 1)
  <2>3. Probes \subseteq Passed \X Tries
    <3>1. ASSUME NEW p \in Ports, NEW n \in 1..Len(heard[p]) PROVE <<p, n>> \in Passed \X Tries
      <4>1. Len(heard[p]) \in Nat /\ heard[p] # <<>>
        BY <3>1, EmptySeq, LenProperties DEF IInv, Shapes
      <4>2. p \in Passed /\ n \in Tries
        BY <2>1, <4>1, RetriesType
      <4>3. QED
        BY <4>2
    <3> HIDE DEF Tries
    <3>2. \A p \in Ports : {p} \X (1..Len(heard[p])) \subseteq Passed \X Tries
      BY <3>1
    <3>3. \A w \in Workers : wpc[w] = "waiting" => <<task[w], Len(heard[task[w]]) + 1>> \in Passed \X Tries
      BY <2>2 DEF Tries
    <3>4. UNION {{p} \X (1..Len(heard[p])) : p \in Ports} \subseteq Passed \X Tries
      BY <3>2
    <3>5. {<<task[w], Len(heard[task[w]]) + 1>> : w \in {v \in Workers : wpc[v] = "waiting"}}
            \subseteq Passed \X Tries
      BY <3>3
    <3>6. QED
      BY <3>4, <3>5 DEF Probes
  <2>4. IsFiniteSet(Tries) /\ Cardinality(Tries) = Retries + 1
    <3> DEFINE r == Retries + 1
    <3>1. 1 \in Int /\ r \in Int /\ r >= 1
      BY RetriesType
    <3> HIDE DEF r
    <3>2. IsFiniteSet(1..r) /\ Cardinality(1..r) = IF 1 > r THEN 0 ELSE r - 1 + 1
      BY <3>1, FS_Interval
    <3>3. Cardinality(1..r) = r
      BY <3>1, <3>2
    <3>4. QED
      BY <3>2, <3>3 DEF r
  <2>5. IsFiniteSet(Passed) /\ Cardinality(Passed) = Len(grants)
    BY DEF IInv, Passes
  <2>6. /\ IsFiniteSet(Passed \X Tries)
        /\ Cardinality(Passed \X Tries) = Len(grants) * (Retries + 1)
    BY <2>4, <2>5, FS_Product
  <2>7. Cardinality(Probes) <= Len(grants) * (Retries + 1)
    BY <2>3, <2>6, FS_Subset
  <2>8. Len(grants) \in Nat /\ Len(grants) <= Allowance /\ Allowance \in Nat /\ Retries + 1 \in Nat
    BY <2>5, FS_CardinalityType, GrantsFit, RetriesType DEF IInv
  <2>9. Len(grants) * (Retries + 1) <= (Retries + 1) * Allowance
    BY <2>8, Scaled
  <2>10. Cardinality(Probes) \in Nat
    BY <2>3, <2>6, FS_Subset, FS_CardinalityType
  <2>11. Len(grants) * (Retries + 1) \in Nat /\ (Retries + 1) * Allowance \in Nat
    BY <2>8
  <2>12. QED
    BY <2>7, <2>9, <2>10, <2>11
<1>2. QED
  BY <1>1, Invariance, PTL

-----------------------------------------------------------------------------
(***************************************************************************)
(* The pool implements ScanPromise.                                        *)
(***************************************************************************)
fate == [p \in Ports |-> FateOf(p)]
over == IF Out THEN main ELSE "no"

\* What became of a port follows from the part of Order it is in.
FateByPart ==
  Layout /\ Tasks => \A p \in Ports :
    /\ p \in Begins /\ outcome[p] = NotYet => FateOf(p) = "probing"
    /\ p \in Begins /\ outcome[p] # NotYet =>
         FateOf(p) = IF outcome[p] = Raised THEN "dropped" ELSE "classified"
    /\ p \in ToSet(queue) => FateOf(p) = "pending"
    /\ p \in ToSet(work) => FateOf(p) = IF skipped > 0 THEN "skipped" ELSE "pending"

\* Whichever part a port is in, its fate is what the part makes of it.
LEMMA Fates == FateByPart
<1> SUFFICES ASSUME Layout, Tasks, NEW p \in Ports
             PROVE  /\ p \in Begins /\ outcome[p] = NotYet => FateOf(p) = "probing"
                    /\ p \in Begins /\ outcome[p] # NotYet =>
                         FateOf(p) = IF outcome[p] = Raised THEN "dropped" ELSE "classified"
                    /\ p \in ToSet(queue) => FateOf(p) = "pending"
                    /\ p \in ToSet(work) => FateOf(p) = IF skipped > 0 THEN "skipped" ELSE "pending"
  BY DEF FateByPart
<1>1. p \in Ports \ Begins => p \notin Finished
  BY DEF Tasks, Finished
<1>2. QED
  BY <1>1, Partition DEF FateOf, Finished

\* The same of the state after a step.
LEMMA FatesNext == FateByPart'
BY Fates, PTL

\* And of the three parts of Order.
LEMMA PartitionNext ==
  Layout' => /\ Ports = Begins' \cup ToSet(queue') \cup ToSet(work')
             /\ Begins' \cap ToSet(queue') = {} /\ Begins' \cap ToSet(work') = {}
             /\ ToSet(queue') \cap ToSet(work') = {}
<1> DEFINE Cut == Layout => /\ Ports = Begins \cup ToSet(queue) \cup ToSet(work)
                            /\ Begins \cap ToSet(queue) = {} /\ Begins \cap ToSet(work) = {}
                            /\ ToSet(queue) \cap ToSet(work) = {}
<1>1. Cut
  BY Partition
<1>2. Cut'
  BY <1>1, PTL
<1>3. QED
  BY <1>2

\* A port's fate depends on no more than this.
LEMMA FateKept ==
  ASSUME UNCHANGED <<work, queue, outcome, skipped>> PROVE fate' = fate
BY DEF fate, FateOf, Finished

\* Every step of the pool is a step of the promise or none: taking a port
\* begins it, a verdict or an exception decides it, the deadline skips the
\* rest, the returns return.
LEMMA PromiseStep == IInv /\ IInv' /\ [Next]_vars => [Promise!Next]_(Promise!vars)
<1> SUFFICES ASSUME IInv, IInv', [Next]_vars PROVE [Promise!Next]_(Promise!vars)
  OBVIOUS
<1>0. /\ fate = [p \in Ports |-> FateOf(p)] /\ over = IF Out THEN main ELSE "no"
      /\ fate' = [p \in Ports |-> FateOf(p)'] /\ over' = IF Out' THEN main' ELSE "no"
  BY DEF fate, over
<1>1. SUFFICES \/ UNCHANGED <<fate, over>>
               \/ /\ over = "no" /\ over' = over
                  /\ \/ \E p \in Ports : /\ fate[p] = "pending"
                                          /\ fate' = [fate EXCEPT ![p] = "probing"]
                     \/ \E p \in Ports : /\ fate[p] = "probing"
                                          /\ \E d \in {"classified", "dropped"} :
                                                fate' = [fate EXCEPT ![p] = d]
                     \/ \E S \in SUBSET Ports :
                          /\ S # {} /\ \A p \in S : fate[p] = "pending"
                          /\ fate' = [p \in Ports |-> IF p \in S THEN "skipped" ELSE fate[p]]
               \/ /\ over = "no" /\ fate' = fate
                  /\ \/ /\ \A p \in Ports : fate[p] \in {"classified", "dropped", "skipped"}
                        /\ over' = "returned"
                     \/ (\A p \in Ports : fate[p] # "probing") /\ over' = "interrupted"
  BY <1>0 DEF Promise!Next, Promise!vars, Promise!Begin, Promise!Decide, Promise!Skip,
              Promise!Return, Promise!Interrupted, Promise!Decided
<1>2. /\ Layout /\ Shapes /\ Tasks /\ Books /\ Layout' /\ Tasks' /\ Books' /\ skipped \in Nat /\ skipped' \in Nat
      /\ Ports = Begins \cup ToSet(queue) \cup ToSet(work)
      /\ Ports = Begins' \cup ToSet(queue') \cup ToSet(work')
  <2>1. Layout /\ Shapes /\ Tasks /\ Books /\ Layout' /\ Tasks' /\ Books'
    BY DEF IInv
  <2>2. skipped \in Nat /\ skipped' \in Nat
    BY <2>1, OrderFacts DEF Books
  <2>3. QED
    BY <2>1, <2>2, Partition, PartitionNext
<1>3. \A p \in Ports :
        /\ p \in Begins /\ outcome[p] = NotYet => fate[p] = "probing"
        /\ p \in Begins /\ outcome[p] # NotYet =>
             fate[p] = IF outcome[p] = Raised THEN "dropped" ELSE "classified"
        /\ p \in ToSet(queue) => fate[p] = "pending"
        /\ p \in ToSet(work) => fate[p] = IF skipped > 0 THEN "skipped" ELSE "pending"
  BY <1>0, <1>2, Fates DEF FateByPart
<1>4. \A p \in Ports :
        /\ p \in Begins' /\ outcome'[p] = NotYet => fate'[p] = "probing"
        /\ p \in Begins' /\ outcome'[p] # NotYet =>
             fate'[p] = IF outcome'[p] = Raised THEN "dropped" ELSE "classified"
        /\ p \in ToSet(queue') => fate'[p] = "pending"
        /\ p \in ToSet(work') => fate'[p] = IF skipped' > 0 THEN "skipped" ELSE "pending"
  BY <1>0, <1>2, FatesNext DEF FateByPart
<1>5. DOMAIN fate = Ports /\ DOMAIN fate' = Ports
      /\ fate = [p \in Ports |-> fate[p]] /\ fate' = [p \in Ports |-> fate'[p]]
  BY <1>0
<1>6. ASSUME UNCHANGED <<work, queue, outcome, skipped, main>> PROVE UNCHANGED <<fate, over>>
  BY <1>6, FateKept DEF over, Out
<1>7. ASSUME queue # <<>> \/ (\E w \in Workers : wpc[w] # "idle") PROVE ~Out /\ over = "no"
  BY <1>7 DEF IInv, Books, Drained, over
<1> HIDE DEF fate, over
<1>8. CASE MainStep /\ Submit
  <2>1. main = "submitting" /\ main' = main /\ UNCHANGED <<outcome, skipped>> /\ skipped = 0
    BY <1>8 DEF MainStep, Submit, workerVars, IInv, Books
  <2>2. Begins' = Begins
    BY <1>2, <1>8, SubmitLayout
  <2>3. \A p \in Ports : fate'[p] = fate[p]
    <3>1. \A p \in Ports : p \in Begins \/ (fate[p] = "pending" /\ fate'[p] = "pending")
      BY <1>2, <1>3, <1>4, <2>1, <2>2
    <3>2. \A p \in Begins : fate'[p] = fate[p]
      BY <1>2, <1>3, <1>4, <2>1, <2>2
    <3>3. QED
      BY <3>1, <3>2
  <2>4. fate' = fate
    BY <1>5, <2>3
  <2>5. over' = over
    BY <2>1 DEF over, Out
  <2>6. QED
    BY <2>4, <2>5
<1>9. CASE MainStep /\ Expire
  <2>1. /\ main = "submitting" /\ main' = "gathering" /\ UNCHANGED <<outcome, work, queue>>
        /\ skipped = 0 /\ skipped' = SkippedCount /\ work # <<>>
    BY <1>9 DEF MainStep, Expire, workerVars, IInv, Books
  <2>2. Begins' = Begins
    BY <2>1 DEF Begins, Begun
  <2>3. skipped' > 0 /\ ToSet(work) # {} /\ ToSet(work) \subseteq Ports
    BY <1>2, <2>1, SkippedIsRest, FS_EmptySet
  <2>4. \A p \in ToSet(work) : fate[p] = "pending" /\ fate'[p] = "skipped"
    BY <1>2, <1>3, <1>4, <2>1, <2>3
  <2>5. \A p \in Ports \ ToSet(work) : fate'[p] = fate[p]
    <3>1. \A p \in Begins : fate'[p] = fate[p]
      BY <1>2, <1>3, <1>4, <2>1, <2>2
    <3>2. \A p \in ToSet(queue) : fate'[p] = fate[p]
      BY <1>2, <1>3, <1>4, <2>1
    <3>3. QED
      BY <1>2, <3>1, <3>2
  <2>6. fate' = [p \in Ports |-> IF p \in ToSet(work) THEN "skipped" ELSE fate[p]]
    BY <1>5, <2>4, <2>5
  <2>7. over = "no" /\ over' = over
    BY <2>1 DEF over, Out
  <2>8. QED
    BY <2>3, <2>4, <2>6, <2>7
<1>10. CASE MainStep /\ (AllSubmitted \/ \E p \in Ports : Gather(p))
  <2>1. UNCHANGED <<work, queue, outcome, skipped>> /\ ~Out /\ ~Out'
    BY <1>10 DEF MainStep, AllSubmitted, Gather, workerVars, Out
  <2>2. QED
    BY <2>1, FateKept DEF over
<1>11. CASE OperatorStep
  <2>1. UNCHANGED <<work, queue, outcome, skipped>> /\ ~Out /\ ~Out'
    BY <1>11 DEF OperatorStep, Interrupt, workerVars, Out
  <2>2. QED
    BY <2>1, FateKept DEF over
<1>12. CASE MainStep /\ Return
  <2>1. /\ UNCHANGED <<work, queue, outcome, skipped>> /\ over = "no" /\ over' = "returned"
        /\ main = "gathering" /\ gathered = Submitted /\ queue = <<>>
    BY <1>12 DEF MainStep, Return, Drained, workerVars, over, Out
  <2>2. fate' = fate
    BY <2>1, FateKept
  <2>3. \A p \in Begins : outcome[p] # NotYet
    BY <1>2, <2>1, Partition DEF Books, Finished
  <2>4. work # <<>> => skipped > 0
    BY <1>2, <2>1, SkippedIsRest DEF Books
  <2>5. ToSet(queue) = {} /\ (work = <<>> => ToSet(work) = {})
    BY <2>1 DEF ToSet
  <2>6. \A p \in Ports : fate[p] \in {"classified", "dropped", "skipped"}
    BY <1>2, <1>3, <2>3, <2>4, <2>5
  <2>7. QED
    BY <2>1, <2>2, <2>6
<1>13. CASE MainStep /\ Unwound
  <2>1. /\ UNCHANGED <<work, queue, outcome, skipped>> /\ over = "no" /\ over' = "interrupted"
        /\ \A w \in Workers : wpc[w] = "idle"
    BY <1>13 DEF MainStep, Unwound, Drained, workerVars, over, Out
  <2>2. fate' = fate
    BY <2>1, FateKept
  <2>3. \A p \in Begins : outcome[p] # NotYet
    BY <1>2, <2>1, PoolAssumption DEF Tasks, PoolAssumption
  <2>4. \A p \in Ports : fate[p] # "probing"
    BY <1>2, <1>3, <2>3
  <2>5. QED
    BY <2>1, <2>2, <2>4
<1>14. CASE Tick \/ UNCHANGED vars
  BY <1>6, <1>14 DEF Tick, vars, mainVars, workerVars
<1>15. ASSUME NEW w \in Workers, Take(w)
       PROVE  /\ over = "no" /\ over' = over
              /\ \E p \in Ports : fate[p] = "pending" /\ fate' = [fate EXCEPT ![p] = "probing"]
  <2> DEFINE p == Head(queue)
  <2>1. queue # <<>> /\ UNCHANGED <<main, work, outcome, skipped>> /\ queue' = Tail(queue)
    BY <1>15 DEF Take, mainVars
  <2>2. /\ p \in Ports \ Begins /\ Begins' = Begins \cup {p}
    BY <1>2, <2>1, TakeLayout
  <2>3. p \in ToSet(queue) /\ ToSet(queue') \cup {p} = ToSet(queue)
    <3>1. queue \in Seq(Ports)
      BY <1>2 DEF Layout
    <3>2. Len(queue) \in Nat \ {0} /\ DOMAIN queue = 1..Len(queue) /\ p = queue[1]
      BY <2>1, <3>1, EmptySeq, LenProperties
    <3>3. p \in ToSet(queue)
      BY <3>2 DEF ToSet
    <3>4. QED
      BY <1>2, <2>1, <2>2, <3>3, Partition, PartitionNext
  <2> HIDE DEF p
  <2>4. over = "no" /\ over' = over
    BY <1>7, <2>1 DEF over, Out
  <2>5. outcome[p] = NotYet /\ fate[p] = "pending" /\ fate'[p] = "probing"
    BY <1>2, <1>3, <1>4, <2>1, <2>2, <2>3 DEF Tasks
  <2>6. \A q \in Ports : q # p => fate'[q] = fate[q]
    <3>1. \A q \in Begins : fate'[q] = fate[q]
      BY <1>2, <1>3, <1>4, <2>1, <2>2
    <3>2. \A q \in ToSet(queue') : fate'[q] = fate[q]
      BY <1>2, <1>3, <1>4, <2>3
    <3>3. \A q \in ToSet(work) : fate'[q] = fate[q]
      BY <1>2, <1>3, <1>4, <2>1
    <3>4. QED
      BY <1>2, <2>3, <3>1, <3>2, <3>3
  <2>7. fate' = [fate EXCEPT ![p] = "probing"]
    BY <1>5, <2>5, <2>6
  <2>8. QED
    BY <2>2, <2>4, <2>5, <2>7
<1>16. ASSUME NEW w \in Workers, Acquire(w) \/ Delay(w) \/ Send(w) PROVE UNCHANGED <<fate, over>>
  BY <1>6, <1>16 DEF Acquire, Delay, Send, mainVars, workerVars
<1>17. ASSUME NEW w \in Workers, NEW o, wpc[w] = "waiting", o # NotYet,
              Finish(w, o), UNCHANGED <<main, work, queue, skipped>>
       PROVE  /\ over = "no" /\ over' = over
              /\ \E p \in Ports : /\ fate[p] = "probing"
                                  /\ \E d \in {"classified", "dropped"} :
                                        fate' = [fate EXCEPT ![p] = d]
  <2> DEFINE p == task[w]
  <2>1. p \in Begins /\ p \in Ports /\ outcome[p] = NotYet /\ Begins' = Begins
    BY <1>2, <1>17 DEF Shapes, Tasks, Begins, Begun
  <2>2. outcome' = [outcome EXCEPT ![p] = o]
    BY <1>17 DEF Finish
  <2> HIDE DEF p
  <2>3. outcome'[p] = o /\ \A q \in Ports : q # p => outcome'[q] = outcome[q]
    BY <1>2, <2>1, <2>2 DEF Shapes
  <2>4. over = "no" /\ over' = over
    BY <1>7, <1>17 DEF over, Out
  <2>5. fate[p] = "probing" /\ fate'[p] \in {"classified", "dropped"}
    BY <1>3, <1>4, <1>17, <2>1, <2>3
  <2>6. \A q \in Ports : q # p => fate'[q] = fate[q]
    <3>1. \A q \in Begins : q # p => fate'[q] = fate[q]
      BY <1>2, <1>3, <1>4, <2>1, <2>3
    <3>2. \A q \in ToSet(queue) \cup ToSet(work) : fate'[q] = fate[q]
      BY <1>2, <1>3, <1>4, <1>17
    <3>3. QED
      BY <1>2, <3>1, <3>2
  <2>7. fate' = [fate EXCEPT ![p] = fate'[p]]
    BY <1>5, <2>1, <2>6
  <2>8. QED
    BY <2>1, <2>4, <2>5, <2>7
<1>18. ASSUME NEW w \in Workers, Crash(w)
       PROVE  /\ over = "no" /\ over' = over
              /\ \E p \in Ports : /\ fate[p] = "probing"
                                  /\ \E d \in {"classified", "dropped"} :
                                        fate' = [fate EXCEPT ![p] = d]
  BY <1>17, <1>18, VerdictIsDecided DEF Crash, mainVars
<1>19. ASSUME NEW w \in Workers, NEW a \in Answered, Answer(w, a)
       PROVE  \/ UNCHANGED <<fate, over>>
              \/ /\ over = "no" /\ over' = over
                 /\ \E p \in Ports : /\ fate[p] = "probing"
                                     /\ \E d \in {"classified", "dropped"} :
                                           fate' = [fate EXCEPT ![p] = d]
  <2> DEFINE n == Len(heard[task[w]]) + 1
             ev == EvidenceAfter(w, n, Classify(Fn, a))
             o == [state |-> Classify(Fn, a), evidence |-> ev]
  <2>1. /\ wpc[w] = "waiting" /\ UNCHANGED <<main, work, queue, skipped>>
        /\ UNCHANGED outcome \/ Finish(w, o)
    BY <1>19 DEF Answer, mainVars
  <2>2. task[w] \in Ports
    BY <1>2, <2>1, FinishedUntouched
  <2>3. n \in Nat
    BY <1>2, <2>2, LenProperties DEF Shapes
  <2>4. ev \in Nat
    BY <1>2, <2>3 DEF EvidenceAfter, Shapes
  <2>5. o # NotYet
    BY <2>4, ClassifyType, VerdictIsDecided
  <2> HIDE DEF o
  <2>6. CASE UNCHANGED outcome
    BY <1>6, <2>1, <2>6
  <2>7. CASE Finish(w, o)
    BY <1>17, <2>1, <2>5, <2>7
  <2>8. QED
    BY <2>1, <2>6, <2>7
<1>20. QED
  BY <1>8, <1>9, <1>10, <1>11, <1>12, <1>13, <1>14, <1>15, <1>16, <1>18, <1>19, WorkerCases
     DEF Next, MainStep

\* scan_tcp_ports and scan_udp_ports keep the promise of ScanPromise: every port
\* is decided once, and the call does not come back in the middle of a probe.
THEOREM Implements == Spec => PromiseSpec
<1>1. Init => Promise!Init
  <2> SUFFICES ASSUME Init PROVE Promise!Init
    OBVIOUS
  <2>1. IInv /\ work = Order /\ queue = <<>> /\ main = "submitting" /\ skipped = 0
    BY InitInv DEF Init
  <2>2. Begins = {} /\ ToSet(queue) = {}
    <3>1. Begun = 0
      BY DEF Init, RL!Init
    <3>2. QED
      BY <2>1, <3>1 DEF Begins, ToSet
  <2>3. \A p \in Ports : FateOf(p) = "pending"
    BY <2>1, <2>2, Fates, Partition DEF IInv, FateByPart
  <2>4. QED
    BY <2>1, <2>3 DEF Promise!Init, Out
<1>2. QED
  BY <1>1, PromiseStep, Invariance, PTL DEF Spec, PromiseSpec, Promise!Spec
=============================================================================

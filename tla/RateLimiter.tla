----------------------------- MODULE RateLimiter -----------------------------
(***************************************************************************)
(* hardener/ratelimit.py: class RateLimiter, shared by every worker thread *)
(* of the scan pools.  acquire() takes the lock, counts the probe, sleeps  *)
(* until the interval since the previous stamp has passed -- still holding *)
(* the lock -- and stamps the time at which it let the caller go.          *)
(*                                                                         *)
(* Time.  The code reads time.time(), the wall clock, which an operator or *)
(* NTP may step; time.sleep counts real time.  `now' is real time, `skew'  *)
(* what the wall clock is off by, Offsets the offsets it may take (Back =  *)
(* Ahead = 0: a clock nobody steps).  One unit is an arbitrary quantum.    *)
(***************************************************************************)
EXTENDS Integers, Sequences

CONSTANTS Threads,      \* the callers of acquire()
          Interval,     \* RateLimiter._interval; 0 = --max-rate 0, disabled
          Start,        \* the epoch time at which the limiter is created
          Back, Ahead,  \* how far the wall clock may be set back and ahead
          MaxCalls,     \* bound: calls of acquire() in a behaviour
          Horizon       \* bound: time passes idly up to this instant

ASSUME IntervalAssumption == Interval \in Nat
ASSUME ClockAssumption == /\ Start \in Nat /\ Horizon \in Nat
                          /\ Back \in Nat /\ Ahead \in Nat
                          /\ Start - Back >= Interval
ASSUME MaxCallsAssumption == MaxCalls \in Nat
ASSUME ThreadsAssumption == "nobody" \notin Threads

VARIABLES pc,       \* what each thread does: idle, blocked on the lock,
                    \*   measuring the wait, asleep
          lock,     \* the holder of RateLimiter._lock, or Nobody
          last,     \* RateLimiter._last: a wall-clock reading
          sent,     \* RateLimiter._sent
          wake,     \* real time at which the holder's sleep is over
          now,      \* real time
          skew,     \* wall clock = now + skew
          calls,    \* history: calls of acquire() begun
          grants    \* history: the real times at which acquire() let go

vars == <<pc, lock, last, sent, wake, now, skew, calls, grants>>

Nobody == "nobody"
Offsets == (-Back)..Ahead
Spread == Back + Ahead
Wall == now + skew
enabled == Interval > 0

(***************************************************************************)
(* What acquire() reads and writes under the lock.  Next to each is what a *)
(* slip in that line would make of it, used to show that the properties    *)
(* below notice.                                                           *)
(***************************************************************************)
Free_Ignored == TRUE                    \* no `with self._lock'
Free == lock = Nobody
Released_Forgotten(t) == t              \* an early return keeps the lock
Released(t) == Nobody
Counted_Negative == sent - 1
Counted == sent + 1
Wait_NotFromNow == last + Interval      \* `- now' dropped
Wait == last + Interval - Wall
Stamped_Scheduled == last + Interval    \* stamps when it was due, not when it was
Stamped == Wall

TypeOK == /\ pc \in [Threads -> {"idle", "blocked", "measure", "asleep"}]
          /\ lock \in Threads \cup {Nobody}
          /\ last \in Int /\ wake \in Int /\ now \in Nat
          /\ sent \in Nat /\ calls \in Nat
          /\ skew \in Offsets
          /\ grants \in Seq(Nat)

Init == /\ pc = [t \in Threads |-> "idle"]
        /\ lock = Nobody
        /\ last = 0 /\ sent = 0 /\ wake = 0
        /\ now = Start /\ skew = 0
        /\ calls = 0 /\ grants = <<>>

\* A thread calls acquire() and queues up for the lock.
Call(t) == /\ pc[t] = "idle" /\ calls < MaxCalls
           /\ pc' = [pc EXCEPT ![t] = "blocked"]
           /\ calls' = calls + 1
           /\ UNCHANGED <<lock, last, sent, wake, now, skew, grants>>

\* It gets the lock and counts the probe; a disabled limiter returns at once,
\* releasing the lock.
Enter(t) == /\ pc[t] = "blocked" /\ Free
            /\ sent' = Counted
            /\ \/ /\ enabled
                  /\ lock' = t
                  /\ pc' = [pc EXCEPT ![t] = "measure"]
                  /\ UNCHANGED grants
               \/ /\ ~enabled
                  /\ pc' = [pc EXCEPT ![t] = "idle"]
                  /\ grants' = Append(grants, now)
                  /\ lock' = Released(t)
            /\ UNCHANGED <<last, wake, now, skew, calls>>

\* It reads the clock and computes how long to sleep; no wait: no sleep, which
\* is a sleep that is over already.
Measure(t) == /\ pc[t] = "measure"
              /\ wake' = IF Wait > 0 THEN now + Wait ELSE now
              /\ pc' = [pc EXCEPT ![t] = "asleep"]
              /\ UNCHANGED <<lock, last, sent, now, skew, calls, grants>>

\* The sleep is over: it reads the clock again, stamps and releases the lock.
Stamp(t) == /\ pc[t] = "asleep" /\ now >= wake
            /\ last' = Stamped
            /\ lock' = Released(t)
            /\ pc' = [pc EXCEPT ![t] = "idle"]
            /\ grants' = Append(grants, now)
            /\ UNCHANGED <<sent, wake, now, skew, calls>>

\* Real time passes: idly up to Horizon, and until every sleep is over.
Tick == /\ now < Horizon \/ \E t \in Threads : pc[t] = "asleep" /\ now < wake
        /\ now' = now + 1
        /\ UNCHANGED <<pc, lock, last, sent, wake, skew, calls, grants>>

\* Somebody sets the wall clock.
ClockStep == /\ skew' \in Offsets \ {skew}
             /\ UNCHANGED <<pc, lock, last, sent, wake, now, calls, grants>>

Acquire(t) == Enter(t) \/ Measure(t) \/ Stamp(t)

Next == Tick \/ ClockStep \/ \E t \in Threads : Call(t) \/ Acquire(t)

Spec == Init /\ [][Next]_vars

\* A thread that can take its next step in acquire() takes it, and time passes.
\* The lock is not fair, yet weak fairness is enough: the calls are finitely
\* many, so a blocked thread ends up alone.
FairSpec == Spec /\ WF_vars(Tick) /\ \A t \in Threads : WF_vars(Acquire(t))

-----------------------------------------------------------------------------
(***************************************************************************)
(* Only the holder of the lock is between taking it and stamping, and it   *)
(* is there (the `with self._lock' block, sleep included).                 *)
(***************************************************************************)
MutualExclusion == \A t \in Threads : pc[t] \in {"measure", "asleep"} <=> lock = t

(***************************************************************************)
(* The cap, in the strength the code really has: k intervals see at most   *)
(* k + 1 grants, where an interval counts less what the wall clock can be  *)
(* stepped by in it; with a clock nobody steps (Spread = 0) the interval   *)
(* is the full one.  acquire() reads the clock twice, before and after its *)
(* sleep, and other threads and clock steps may come in between anywhere.  *)
(***************************************************************************)
Spaced == enabled => \A i, j \in 1..Len(grants) :
             i < j => grants[j] - grants[i] >= (j - i) * (Interval - Spread)

(***************************************************************************)
(* The cap as the module's docstring states it, whatever the clock does:   *)
(* "Enforces a conservative cap on how fast probes are emitted".           *)
(***************************************************************************)
HardCap == \A i \in 1..(Len(grants) - 1) : grants[i + 1] - grants[i] >= Interval

(***************************************************************************)
(* The lock, on which every other worker waits, is never slept on for      *)
(* longer than an interval and what the clock was set back by.             *)
(***************************************************************************)
ShortHold == \A t \in Threads : pc[t] = "asleep" => wake - now <= Interval + Spread

(***************************************************************************)
(* No caller is left waiting: every acquire() returns.                     *)
(***************************************************************************)
EveryCallReturns == \A t \in Threads : pc[t] = "blocked" ~> pc[t] = "idle"

\* The promise this implementation keeps.
RC == INSTANCE RateCap WITH Gap <- IF Interval > Spread THEN Interval - Spread ELSE 0
CapSpec == RC!Spec
=============================================================================

-------------------------- MODULE RateLimiterProofs --------------------------
(***************************************************************************)
(* The rate limiter's properties for every number of threads and calls,    *)
(* every interval and every range of clock offsets, and the proof that it  *)
(* implements RateCap.                                                     *)
(***************************************************************************)
EXTENDS RateLimiter, SequenceTheorems, TLAPS

\* The stamp is the wall-clock time of the last grant: real time, off by some
\* offset the clock has had.
StampOfLastGrant ==
  /\ grants = <<>> => last = 0
  /\ grants # <<>> => /\ grants[Len(grants)] <= now
                      /\ enabled => /\ grants[Len(grants)] - Back <= last
                                    /\ last <= grants[Len(grants)] + Ahead

\* The holder sleeps long enough for its grant to respect the cap.
SleepIsLongEnough ==
  \A t \in Threads : pc[t] = "asleep" /\ grants # <<>>
                        => wake >= grants[Len(grants)] + Interval - Spread

\* Nobody holds the lock of a disabled limiter for longer than a step.
DisabledNeverHolds == lock # Nobody => enabled

\* The inductive invariant.
IInv == /\ TypeOK
        /\ now >= Start
        /\ MutualExclusion
        /\ DisabledNeverHolds
        /\ StampOfLastGrant
        /\ SleepIsLongEnough
        /\ ShortHold
        /\ Spaced

USE IntervalAssumption, ClockAssumption, MaxCallsAssumption, ThreadsAssumption
    DEF Offsets

\* Every step of a thread, of time or of the clock keeps the types.
LEMMA TypeStep == TypeOK /\ [Next]_vars => TypeOK'
<1> SUFFICES ASSUME TypeOK, [Next]_vars PROVE TypeOK'
  OBVIOUS
<1> USE DEF TypeOK
<1>1. CASE Tick
  BY <1>1 DEF Tick
<1>2. CASE ClockStep
  BY <1>2 DEF ClockStep
<1>3. ASSUME NEW t \in Threads, Call(t) PROVE TypeOK'
  BY <1>3 DEF Call
<1>4. ASSUME NEW t \in Threads, Enter(t) PROVE TypeOK'
  <2>1. Append(grants, now) \in Seq(Nat)
    BY AppendProperties
  <2>2. /\ pc' \in [Threads -> {"idle", "blocked", "measure", "asleep"}]
        /\ lock' \in Threads \cup {Nobody}
        /\ sent' \in Nat
    BY <1>4 DEF Enter, Counted, Released
  <2>3. grants' \in Seq(Nat)
    BY <1>4, <2>1 DEF Enter
  <2>4. QED
    BY <1>4, <2>2, <2>3 DEF Enter
<1>5. ASSUME NEW t \in Threads, Measure(t) PROVE TypeOK'
  BY <1>5 DEF Measure, Wait, Wall
<1>6. ASSUME NEW t \in Threads, Stamp(t) PROVE TypeOK'
  BY <1>6, AppendProperties DEF Stamp, Stamped, Released, Wall, Nobody
<1>7. CASE UNCHANGED vars
  BY <1>7 DEF vars
<1>8. QED
  BY <1>1, <1>2, <1>3, <1>4, <1>5, <1>6, <1>7 DEF Next, Acquire

\* Type correctness: no step of acquire() or of the clocks leaves the state
\* space of the RateLimiter object and its callers.
THEOREM TypeCorrect == Spec => []TypeOK
<1>1. Init => TypeOK
  BY DEF Init, TypeOK, Nobody
<1>2. QED
  BY <1>1, TypeStep, PTL DEF Spec

\* A new limiter satisfies the inductive invariant.
LEMMA InitInv == Init => IInv
BY DEF Init, IInv, TypeOK, MutualExclusion, DisabledNeverHolds, StampOfLastGrant,
       SleepIsLongEnough, ShortHold, Spaced, Nobody

\* Two gaps in a row add up.
LEMMA AddGaps ==
  ASSUME NEW a \in Int, NEW b \in Int, NEW c \in Int, NEW p \in Int, NEW g \in Int,
         b - a >= p, c - b >= g
  PROVE  c - a >= p + g
OBVIOUS

\* Appending a grant that is due keeps the sequence of grants spaced.
LEMMA AppendSpaced ==
  ASSUME NEW s \in Seq(Nat), NEW x \in Nat, NEW gap \in Int,
         \A i, j \in 1..Len(s) : i < j => s[j] - s[i] >= (j - i) * gap,
         s # <<>> => x - s[Len(s)] >= gap
  PROVE  \A i, j \in 1..Len(Append(s, x)) :
            i < j => Append(s, x)[j] - Append(s, x)[i] >= (j - i) * gap
<1> DEFINE r == Append(s, x)
           n == Len(s)
<1>1. /\ Len(r) = n + 1 /\ n \in Nat
      /\ r[n + 1] = x
      /\ \A i \in 1..n : r[i] = s[i] /\ s[i] \in Nat
  BY AppendProperties, LenProperties
<1>0. \A a, b \in 1..n : a < b => s[b] - s[a] >= (b - a) * gap
  OBVIOUS
<1> HIDE DEF r, n
<1>2. SUFFICES ASSUME NEW i \in 1..(n + 1), NEW j \in 1..(n + 1), i < j
               PROVE  r[j] - r[i] >= (j - i) * gap
  BY <1>1 DEF r
<1>3. CASE j # n + 1
  <2>1. i \in 1..n /\ j \in 1..n
    BY <1>1, <1>2, <1>3
  <2>2. s[j] - s[i] >= (j - i) * gap
    BY <2>1, <1>2, <1>0
  <2>3. QED
    BY <2>1, <2>2, <1>1
<1>4. CASE j = n + 1
  <2>1. i \in 1..n /\ n \in 1..n /\ n \in Nat /\ x - s[n] >= gap
    BY <1>1, <1>2, <1>4, EmptySeq DEF n
  <2> DEFINE before == (n - i) * gap
             upto == (j - i) * gap
  <2>2. s[n] - s[i] >= before
    <3>1. CASE i < n
      BY <2>1, <3>1, <1>0
    <3>2. CASE i = n
      <4>1. before = 0 /\ s[n] - s[i] = 0
        BY <2>1, <3>2, <1>1
      <4>2. QED
        BY <4>1
    <3>3. QED
      BY <2>1, <3>1, <3>2
  <2>3. upto = before + gap /\ before \in Int
    <3> DEFINE d == n - i
    <3>1. j - i = d + 1 /\ d \in Int
      BY <2>1, <1>4
    <3> HIDE DEF d
    <3>2. (d + 1) * gap = d * gap + gap /\ d * gap \in Int
      BY <3>1
    <3>3. QED
      BY <3>1, <3>2 DEF d
  <2>4. r[j] = x /\ r[i] = s[i] /\ s[i] \in Int /\ s[n] \in Int /\ x \in Int
    BY <2>1, <1>1, <1>4
  <2> HIDE DEF before, upto
  <2>5. x - s[i] >= before + gap
    BY <2>1, <2>2, <2>3, <2>4, AddGaps, Zenon
  <2>6. r[j] - r[i] >= upto
    BY <2>3, <2>4, <2>5
  <2>7. QED
    BY <2>6 DEF upto
<1>5. QED
  BY <1>3, <1>4

\* Every step keeps it; only Measure and Stamp touch its arithmetic.
LEMMA StepInv == IInv /\ [Next]_vars => IInv'
<1> SUFFICES ASSUME IInv, [Next]_vars PROVE IInv'
  OBVIOUS
<1> USE DEF IInv, TypeOK, Nobody, enabled, Spread, Free, Released, Counted, Stamped
<1>0. TypeOK'
  BY TypeStep DEF IInv
<1> DEFINE Rest == /\ now >= Start
                   /\ MutualExclusion
                   /\ DisabledNeverHolds
                   /\ StampOfLastGrant
                   /\ SleepIsLongEnough
                   /\ ShortHold
                   /\ Spaced
<1>1. CASE Tick
  BY <1>1 DEF Tick, MutualExclusion, DisabledNeverHolds, StampOfLastGrant,
              SleepIsLongEnough, ShortHold, Spaced
<1>2. CASE ClockStep
  BY <1>0, <1>2 DEF ClockStep, MutualExclusion, DisabledNeverHolds, StampOfLastGrant,
              SleepIsLongEnough, ShortHold, Spaced
<1>3. ASSUME NEW t \in Threads, Call(t) PROVE Rest'
  BY <1>3 DEF Call, MutualExclusion, DisabledNeverHolds, StampOfLastGrant,
              SleepIsLongEnough, ShortHold, Spaced
<1>4. ASSUME NEW t \in Threads, Enter(t) PROVE Rest'
  <2>1. CASE enabled
    <3> /\ lock = Nobody /\ lock' = t /\ pc' = [pc EXCEPT ![t] = "measure"]
        /\ sent' = sent + 1 /\ UNCHANGED <<grants, last, wake, now, skew, calls>>
      BY <1>4, <2>1 DEF Enter
    <3>1. MutualExclusion'
      BY DEF MutualExclusion
    <3>2. DisabledNeverHolds'
      BY <2>1 DEF DisabledNeverHolds
    <3>3. QED
      BY <3>1, <3>2 DEF StampOfLastGrant, SleepIsLongEnough, ShortHold, Spaced
  <2>2. CASE ~enabled
    <3>1. /\ Len(grants') = Len(grants) + 1
          /\ grants'[Len(grants')] = now
          /\ grants' # <<>>
      BY <1>4, <2>2, AppendProperties DEF Enter
    <3>2. QED
      BY <1>4, <2>2, <3>1 DEF Enter, MutualExclusion, DisabledNeverHolds,
              StampOfLastGrant, SleepIsLongEnough, ShortHold, Spaced
  <2>3. QED
    BY <2>1, <2>2
<1>5. ASSUME NEW t \in Threads, Measure(t) PROVE Rest'
  <2> USE <1>5 DEF Measure
  <2>1. enabled
    BY DEF MutualExclusion, DisabledNeverHolds
  <2>2. (now >= Start /\ MutualExclusion /\ DisabledNeverHolds /\ StampOfLastGrant
         /\ Spaced)'
    BY DEF MutualExclusion, DisabledNeverHolds, StampOfLastGrant, Spaced
  <2>3. wake' >= now + Wait /\ wake' >= now
    BY DEF Wait, Wall
  <2>4. grants # <<>> => wake' >= grants[Len(grants)] + Interval - Spread
    BY <2>1, <2>3 DEF Wait, Wall, StampOfLastGrant
  <2>5. wake' - now <= Interval + Spread
    BY <2>1 DEF Wait, Wall, StampOfLastGrant
  <2>6. SleepIsLongEnough' /\ ShortHold'
    BY <2>4, <2>5 DEF SleepIsLongEnough, ShortHold, MutualExclusion
  <2>7. QED
    BY <2>2, <2>6
<1>6. ASSUME NEW t \in Threads, Stamp(t) PROVE Rest'
  <2> USE <1>6 DEF Stamp
  <2>1. /\ Len(grants') = Len(grants) + 1
        /\ grants'[Len(grants')] = now
        /\ grants' # <<>>
    BY AppendProperties
  <2>2. (now >= Start /\ MutualExclusion /\ DisabledNeverHolds /\ StampOfLastGrant
         /\ SleepIsLongEnough /\ ShortHold)'
    BY <2>1 DEF MutualExclusion, DisabledNeverHolds, StampOfLastGrant, Wall,
                SleepIsLongEnough, ShortHold
  <2>3. grants # <<>> => now - grants[Len(grants)] >= Interval - Spread
    BY DEF SleepIsLongEnough
  <2>4. Spaced'
    <3>1. enabled /\ Interval - Spread \in Int
      BY DEF MutualExclusion, DisabledNeverHolds
    <3>2. \A i, j \in 1..Len(grants) :
             i < j => grants[j] - grants[i] >= (j - i) * (Interval - Spread)
      BY <3>1 DEF Spaced
    <3> HIDE DEF Spread, enabled
    <3>3. QED
      BY <2>3, <3>1, <3>2, AppendSpaced DEF Spaced
  <2>5. QED
    BY <2>2, <2>4
<1>7. CASE UNCHANGED vars
  BY <1>7 DEF vars, MutualExclusion, DisabledNeverHolds, StampOfLastGrant,
              SleepIsLongEnough, ShortHold, Spaced
<1>8. QED
  BY <1>0, <1>1, <1>2, <1>3, <1>4, <1>5, <1>6, <1>7 DEF Next, Acquire

\* The inductive invariant holds throughout, for any threads, calls and clock.
THEOREM Invariance == Spec => []IInv
BY InitInv, StepInv, PTL DEF Spec

\* Only the thread that holds _lock is inside acquire()'s critical section.
THEOREM Exclusion == Spec => []MutualExclusion
BY Invariance, PTL DEF IInv

\* Consecutive grants are an interval apart, less the clock's steps: the sleep
\* inside acquire() is long enough whatever thread took the lock before.
THEOREM Spacing == Spec => []Spaced
BY Invariance, PTL DEF IInv

\* With a wall clock nobody steps acquire() enforces the cap as its docstring
\* states it.
THEOREM CapWithSteadyClock ==
  ASSUME Back = 0, Ahead = 0 PROVE Spec => [](enabled => HardCap)
<1>1. IInv => (enabled => HardCap)
  <2> SUFFICES ASSUME IInv, enabled, NEW i \in 1..(Len(grants) - 1)
               PROVE  grants[i + 1] - grants[i] >= Interval
    BY DEF HardCap
  <2>1. i \in 1..Len(grants) /\ i + 1 \in 1..Len(grants) /\ (i + 1) - i = 1
    BY DEF IInv, TypeOK
  <2>2. grants[i + 1] - grants[i] >= 1 * (Interval - Spread)
    BY <2>1 DEF IInv, Spaced
  <2>3. QED
    BY <2>2 DEF Spread
<1>2. QED
  BY <1>1, Invariance, PTL

\* Nobody sleeps on the lock for longer than an interval and the clock's steps.
THEOREM HoldIsShort == Spec => []ShortHold
BY Invariance, PTL DEF IInv

\* RateLimiter implements the promise RateCap: what acquire() lets go is granted
\* when it is due.
THEOREM Implements == Spec => CapSpec
<1>1. Init => RC!Init
  BY DEF Init, RC!Init
<1>2. IInv /\ [Next]_vars => [RC!Next]_(RC!vars)
  <2> SUFFICES ASSUME IInv, [Next]_vars PROVE [RC!Next]_(RC!vars)
    OBVIOUS
  <2> USE DEF IInv, TypeOK, Spread, RC!Next, RC!vars
  <2>1. CASE Tick
    BY <2>1 DEF Tick, RC!Tick
  <2>2. CASE ClockStep
    BY <2>2 DEF ClockStep
  <2>3. ASSUME NEW t \in Threads, Call(t) PROVE UNCHANGED RC!vars
    BY <2>3 DEF Call
  <2>4. ASSUME NEW t \in Threads, Enter(t) PROVE RC!Grant \/ UNCHANGED RC!vars
    BY <2>4 DEF Enter, RC!Grant, RC!Due, StampOfLastGrant, enabled
  <2>5. ASSUME NEW t \in Threads, Measure(t) PROVE UNCHANGED RC!vars
    BY <2>5 DEF Measure
  <2>6. ASSUME NEW t \in Threads, Stamp(t) PROVE RC!Grant
    BY <2>6 DEF Stamp, RC!Grant, RC!Due, StampOfLastGrant, SleepIsLongEnough
  <2>7. CASE UNCHANGED vars
    BY <2>7 DEF vars
  <2>8. QED
    BY <2>1, <2>2, <2>3, <2>4, <2>5, <2>6, <2>7 DEF Next, Acquire
<1>3. QED
  BY <1>1, <1>2, Invariance, PTL DEF Spec, CapSpec, RC!Spec
=============================================================================

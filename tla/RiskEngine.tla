------------------------------ MODULE RiskEngine ------------------------------
(***************************************************************************)
(* hardener/risk_engine.py and remediation.py, in the order in which stage *)
(* 10 of Hardener.run calls them: score_all, deduplicate,                  *)
(* attach_remediation_all, prioritize, summary_stats.                      *)
(*                                                                         *)
(* The functions pass the same Finding objects on and change them in       *)
(* place: `findings' holds the objects, `seen' and `ranked' hold positions *)
(* in it.  Scores are in tenths: impact * likelihood.                      *)
(***************************************************************************)
EXTENDS Integers, Sequences, FiniteSets, SequencesExt, FiniteSetsExt

CONSTANTS Inputs,       \* lists of findings: [title, asset, cve, impact, likelihood, advice]
          Lower,        \* what str.lower makes of each title
          General       \* the advice of the category, or the general one

None == "none"          \* no cve; no advice yet

Objects == [title : DOMAIN Lower, asset : STRING, cve : STRING,
            impact : Int, likelihood : Int, advice : STRING]
ASSUME InputsAssumption == Inputs \subseteq Seq(Objects) /\ General \in STRING

VARIABLES
  input,        \* what the analysis of the hosts produced
  findings,     \* the same objects, scored and annotated in place
  pc,           \* score, deduplicate, advise, rank, summarise, done
  at,           \* the loop's position
  seen,         \* dict.values(): one position per key, in order of insertion
  ranked,       \* the report's findings
  stats         \* its statistics

vars == <<input, findings, pc, at, seen, ranked, stats>>

-----------------------------------------------------------------------------
(* score_finding *)
Clamp(n) == IF n < 0 THEN 0 ELSE IF n > 10 THEN 10 ELSE n
Score_Unclamped(f) == f.impact * f.likelihood
Score(f) == Clamp(f.impact) * Clamp(f.likelihood)

Band(lo, hi, label) == [lo |-> lo, hi |-> hi, label |-> label]
SEVERITY_BANDS == <<Band(0, 10, "informational"), Band(10, 40, "low"), Band(40, 65, "medium"),
                    Band(65, 85, "high"), Band(85, 100, "critical")>>

\* severity_from_score: the first band it is in, else (the maximum) critical.
Within_Open(score, b) == b.lo < score /\ score < b.hi
Within(score, b) == b.lo <= score /\ score < b.hi
Severity(score) ==
  LET in == {i \in DOMAIN SEVERITY_BANDS : Within(score, SEVERITY_BANDS[i])}
  IN  IF in = {} THEN "critical"
      ELSE SEVERITY_BANDS[CHOOSE i \in in : \A j \in in : i <= j].label

Unscored(f) == [object |-> f, score |-> 0, severity |-> "medium", advice |-> f.advice]

Init ==
  /\ input \in Inputs
  /\ findings = [i \in DOMAIN input |-> Unscored(input[i])]
  /\ pc = "score" /\ at = 1
  /\ seen = <<>> /\ ranked = <<>> /\ stats = None

\* A loop over the findings ends, or makes its next step.
Over(next) == at > Len(findings) /\ pc' = next /\ at' = 1
More == at <= Len(findings) /\ at' = at + 1 /\ UNCHANGED pc

ScoreAll ==
  /\ pc = "score"
  /\ \/ Over("deduplicate") /\ UNCHANGED findings
     \/ /\ More
        /\ LET s == Score(findings[at].object)
           IN  findings' = [findings EXCEPT ![at].score = s, ![at].severity = Severity(s)]
  /\ UNCHANGED <<input, seen, ranked, stats>>

\* The key: title.lower(), asset, cve or "".
KeyOf(f) == <<Lower[f.title], f.asset, IF f.cve = None THEN "" ELSE f.cve>>
Key(i) == KeyOf(findings[i].object)

Better_OrEqual(i, j) == findings[i].score >= findings[j].score
Better(i, j) == findings[i].score > findings[j].score
Replaced_Moved(k) == Append(SelectSeq(seen, LAMBDA i : i # seen[k]), at)
Replaced(k) == [seen EXCEPT ![k] = at]
Known(i) == {k \in DOMAIN seen : Key(seen[k]) = Key(i)}
Deduplicate ==
  /\ pc = "deduplicate"
  /\ \/ Over("advise") /\ UNCHANGED seen
     \/ More /\ Known(at) = {} /\ seen' = Append(seen, at)
     \/ /\ More
        /\ \E k \in Known(at) :
             seen' = IF Better(at, seen[k]) THEN Replaced(k) ELSE seen
  /\ UNCHANGED <<input, findings, ranked, stats>>

\* attach_remediation_all: advice for those that have none.
Advised(f) == IF f.advice = None THEN General ELSE f.advice
AttachRemediation ==
  /\ pc = "advise"
  /\ findings' = [i \in DOMAIN findings |->
                    IF i \in Range(seen) THEN [findings[i] EXCEPT !.advice = Advised(findings[i])]
                    ELSE findings[i]]
  /\ pc' = "rank"
  /\ UNCHANGED <<input, at, seen, ranked, stats>>

\* sorted(..., reverse=True): a permutation with the highest scores first, which
\* keeps equal elements in order; k's place is after those that come before it.
Before(k, l) == \/ findings[seen[k]].score > findings[seen[l]].score
                \/ findings[seen[k]].score = findings[seen[l]].score /\ k < l
Place(k) == 1 + Cardinality({l \in DOMAIN seen : Before(l, k)})
IsSorting(order) == /\ order \in [DOMAIN seen -> DOMAIN seen]
                    /\ \A k \in DOMAIN seen : \E n \in DOMAIN seen : order[n] = k
                    /\ \A m, n \in DOMAIN seen : m < n => Before(order[m], order[n])
Prioritize ==
  /\ pc = "rank"
  /\ LET order == [n \in DOMAIN seen |-> CHOOSE k \in DOMAIN seen : Place(k) = n]
     IN  IsSorting(order) /\ ranked' = [n \in DOMAIN seen |-> seen[order[n]]]
  /\ pc' = "summarise"
  /\ UNCHANGED <<input, findings, at, seen, stats>>

\* summary_stats of the report's findings (the average is left out).
Labels == {SEVERITY_BANDS[i].label : i \in DOMAIN SEVERITY_BANDS}
Summarised_All == DOMAIN findings
Summarised == Range(ranked)
SummaryStats ==
  /\ pc = "summarise"
  /\ stats' = [counts |-> [s \in Labels |-> Cardinality({i \in Summarised : findings[i].severity = s})],
               total |-> Cardinality(Summarised),
               max_risk |-> CHOOSE m \in {findings[i].score : i \in Summarised} \cup {0} :
                              \A i \in Summarised : findings[i].score <= m]
  /\ pc' = "done"
  /\ UNCHANGED <<input, findings, at, seen, ranked>>

Next == ScoreAll \/ Deduplicate \/ AttachRemediation \/ Prioritize \/ SummaryStats
Spec == Init /\ [][Next]_vars
-----------------------------------------------------------------------------
Positions == DOMAIN input
Scores == 0..100

TypeOK ==
  /\ input \in Inputs
  /\ findings \in [Positions -> [object : Objects, score : Scores, severity : Labels,
                                 advice : STRING]]
  /\ \A i \in Positions : findings[i].object = input[i]
  /\ pc \in {"score", "deduplicate", "advise", "rank", "summarise", "done"}
  /\ at \in 1..(Len(input) + 1)
  /\ seen \in Seq(Positions) /\ ranked \in Seq(Positions)

(***************************************************************************)
(* Of the findings deduplicated so far, every issue (title, asset, cve) is *)
(* kept once, and by the finding that has its highest score, the first of  *)
(* them if there are several: no issue is lost to another, and the result  *)
(* does not depend on where in the list the highest one stands.            *)
(***************************************************************************)
Deduplicated == IF pc = "score" THEN {}
                ELSE IF pc = "deduplicate" THEN 1..(at - 1) ELSE Positions
Represents(k, i) == /\ Key(seen[k]) = Key(i)
                    /\ \/ findings[seen[k]].score > findings[i].score
                       \/ findings[seen[k]].score = findings[i].score /\ seen[k] <= i
Representative ==
  /\ \A k, l \in DOMAIN seen : Key(seen[k]) = Key(seen[l]) => k = l
  /\ Range(seen) \subseteq Deduplicated
  /\ \A i \in Deduplicated : \E k \in DOMAIN seen : Represents(k, i)

(***************************************************************************)
(* The report lists the worst first, and equals in the order in which      *)
(* their issues first came up, whichever finding represents them: dict and *)
(* sort both keep order (prioritize, run after deduplicate).               *)
(***************************************************************************)
CameUpBefore(i, j) ==
  \E h \in Positions : Key(h) = Key(i) /\ \A g \in Positions : Key(g) = Key(j) => h < g
RankedReport ==
  pc \in {"summarise", "done"} =>
    /\ Range(ranked) = Range(seen)
    /\ \A k, l \in DOMAIN ranked : k < l =>
         \/ findings[ranked[k]].score > findings[ranked[l]].score
         \/ /\ findings[ranked[k]].score = findings[ranked[l]].score
            /\ CameUpBefore(ranked[k], ranked[l])

(***************************************************************************)
(* A finding with a higher score never gets a milder severity: the bands   *)
(* leave no gap between them into which a score on a boundary falls, to    *)
(* come out as "critical" (severity_from_score).                           *)
(***************************************************************************)
Rank(label) == CHOOSE i \in DOMAIN SEVERITY_BANDS : SEVERITY_BANDS[i].label = label
SeverityFollowsScore ==
  pc # "score" => \A i, j \in Positions :
    findings[i].score <= findings[j].score
      => Rank(findings[i].severity) <= Rank(findings[j].severity)

(***************************************************************************)
(* The statistics are about the report: they count each issue once, under  *)
(* one severity, and the maximum is the score of its first finding.        *)
(***************************************************************************)
SumOf(counts) == MapThenSumSet(LAMBDA s : counts[s], Labels)
StatsMatchReport ==
  pc = "done" =>
    /\ stats.total = Cardinality({Key(i) : i \in Positions})
    /\ SumOf(stats.counts) = stats.total
    /\ stats.max_risk = IF ranked = <<>> THEN 0 ELSE findings[ranked[1]].score
=============================================================================

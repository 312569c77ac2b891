-------------------------- MODULE RiskEngineProofs --------------------------
(***************************************************************************)
(* The risk engine's properties for every list of findings.                *)
(***************************************************************************)
EXTENDS RiskEngine, ListFacts, SequenceTheorems, FiniteSetTheorems, TLAPS

USE InputsAssumption

(***************************************************************************)
(* The severity scale: every score has a label, and a higher score never   *)
(* has a milder one.                                                       *)
(***************************************************************************)

\* severity_from_score, band by band.
LEMMA SeverityTable ==
  ASSUME NEW s \in Scores
  PROVE  Severity(s) = IF s < 10 THEN "informational" ELSE IF s < 40 THEN "low"
                       ELSE IF s < 65 THEN "medium" ELSE IF s < 85 THEN "high" ELSE "critical"
<1> DEFINE in == {i \in DOMAIN SEVERITY_BANDS : Within(s, SEVERITY_BANDS[i])}
           n == IF s < 10 THEN 1 ELSE IF s < 40 THEN 2 ELSE IF s < 65 THEN 3 ELSE IF s < 85 THEN 4 ELSE 5
<1>1. DOMAIN SEVERITY_BANDS = 1..5
  BY DEF SEVERITY_BANDS
<1>2. /\ SEVERITY_BANDS[1] = Band(0, 10, "informational")
      /\ SEVERITY_BANDS[2] = Band(10, 40, "low")
      /\ SEVERITY_BANDS[3] = Band(40, 65, "medium")
      /\ SEVERITY_BANDS[4] = Band(65, 85, "high")
      /\ SEVERITY_BANDS[5] = Band(85, 100, "critical")
  BY DEF SEVERITY_BANDS
<1>3. in = IF s = 100 THEN {} ELSE {n}
  BY <1>1, <1>2 DEF Within, Band, Scores
<1>4. CASE s = 100
  BY <1>3, <1>4 DEF Severity
<1>5. CASE s # 100
  <2>1. Severity(s) = SEVERITY_BANDS[CHOOSE i \in in : \A j \in in : i <= j].label
    BY <1>3, <1>5 DEF Severity
  <2>2. (CHOOSE i \in in : \A j \in in : i <= j) = n
    BY <1>3, <1>5
  <2>3. Severity(s) = SEVERITY_BANDS[n].label
    BY <2>1, <2>2
  <2>4. \A i \in 1..5 : n = i => Severity(s) = SEVERITY_BANDS[i].label
    BY <2>3
  <2>5. /\ SEVERITY_BANDS[1].label = "informational" /\ SEVERITY_BANDS[2].label = "low"
        /\ SEVERITY_BANDS[3].label = "medium" /\ SEVERITY_BANDS[4].label = "high"
        /\ SEVERITY_BANDS[5].label = "critical"
    BY <1>2 DEF Band
  <2>6. QED
    BY <2>4, <2>5 DEF Scores
<1>6. QED
  BY <1>4, <1>5

\* The label of a score is one of the scale's.
LEMMA SeverityIsLabel ==
  ASSUME NEW s \in Scores
  PROVE  Severity(s) \in Labels
<1>1. {"informational", "low", "medium", "high", "critical"} \subseteq Labels
  BY DEF Labels, SEVERITY_BANDS, Band
<1>2. QED
  BY <1>1, SeverityTable

\* What a finding can score: the product of two factors between 0 and 10.
LEMMA ScoreInRange ==
  ASSUME NEW f \in Objects
  PROVE  Score(f) \in Scores
<1>1. Clamp(f.impact) \in 0..10 /\ Clamp(f.likelihood) \in 0..10
  BY DEF Clamp, Objects
<1>2. \A a, b \in 0..10 : a * b \in 0..100
  OBVIOUS
<1>3. QED
  BY <1>1, <1>2 DEF Score, Scores

\* The initial label belongs to the scale.
LEMMA MediumIsLabel == "medium" \in Labels
BY DEF Labels, SEVERITY_BANDS, Band

-----------------------------------------------------------------------------
(***************************************************************************)
(* The inductive invariant.  The properties speak of the end of a phase;   *)
(* the loops keep them for the findings they have been through.            *)
(***************************************************************************)

NothingSeenYet == pc = "score" => seen = <<>>

\* Findings that have their score also have its label.
Labelled == IF pc = "score" THEN 1..(at - 1) ELSE Positions
LabelsFit == \A i \in Labelled : findings[i].severity = Severity(findings[i].score)

\* Issues are in the order in which they came up.
InOrder ==
  \A k, l \in DOMAIN seen : k < l =>
    \E i \in Deduplicated :
      Key(i) = Key(seen[k]) /\ \A j \in Deduplicated : Key(j) = Key(seen[l]) => i < j

IInv == /\ TypeOK /\ NothingSeenYet /\ LabelsFit
        /\ Representative /\ InOrder /\ RankedReport

\* Every list of findings starts well-typed, at the first position.
LEMMA TypeInit == Init => TypeOK
<1> SUFFICES ASSUME Init PROVE TypeOK
  OBVIOUS
<1>1. input \in Seq(Objects)
  BY DEF Init
<1>2. \A i \in Positions : input[i] \in Objects /\ input[i].advice \in STRING
  <2>1. \A i \in Positions : input[i] \in Objects
    BY <1>1, ElementOfSeq DEF Positions
  <2>2. QED
    BY <2>1 DEF Objects
<1>3. findings \in [Positions -> [object : Objects, score : Scores, severity : Labels, advice : STRING]]
  BY <1>2, MediumIsLabel DEF Init, Unscored, Scores, Positions
<1>4. QED
  BY <1>1, <1>2, <1>3 DEF Init, TypeOK, Unscored, Positions

\* A loop's position stays in its range.
LEMMA LoopPosition ==
  ASSUME TypeOK
  PROVE  /\ Len(findings) = Len(input) /\ Len(input) \in Nat /\ Positions = 1..Len(input)
         /\ More => at \in Positions
         /\ More \/ at' = 1 => at' \in 1..(Len(input) + 1)
<1>1. Len(findings) = Len(input) /\ Len(input) \in Nat /\ Positions = 1..Len(input)
  BY DEF TypeOK, Positions
<1>2. QED
  BY <1>1 DEF TypeOK, More

\* Every step of stage 10 keeps the types; the loops' position grows by one or
\* starts over.
LEMMA TypeStep == TypeOK /\ [Next]_vars => TypeOK'
<1> SUFFICES ASSUME TypeOK, [Next]_vars PROVE TypeOK'
  OBVIOUS
<1> USE DEF Positions
<1>0. at \in Positions => Score(findings[at].object) \in Scores
  BY ScoreInRange DEF TypeOK
<1>1. CASE ScoreAll
  <2>1. at' \in 1..(Len(input) + 1) /\ (More => at \in Positions)
    BY <1>1, LoopPosition DEF ScoreAll, Over
  <2>2. CASE Over("deduplicate") /\ UNCHANGED findings
    BY <1>1, <2>1, <2>2 DEF TypeOK, ScoreAll, Over
  <2>3. CASE More /\ findings' = [findings EXCEPT ![at].score = Score(findings[at].object),
                                                 ![at].severity = Severity(Score(findings[at].object))]
    <3>1. at \in Positions /\ Score(findings[at].object) \in Scores
      BY <2>1, <2>3, <1>0
    <3>2. Severity(Score(findings[at].object)) \in Labels
      BY <3>1, SeverityIsLabel
    <3>3. findings' = [findings EXCEPT ![at] = [@ EXCEPT !.score = Score(findings[at].object),
                                            !.severity = Severity(Score(findings[at].object))]]
      BY <2>3, <3>1 DEF TypeOK
    <3>4. /\ findings' \in [Positions -> [object : Objects, score : Scores, severity : Labels,
                                         advice : STRING]]
          /\ \A i \in Positions : findings'[i].object = input[i]
      BY <3>1, <3>2, <3>3 DEF TypeOK
    <3>5. QED
      BY <1>1, <2>1, <2>3, <3>4 DEF TypeOK, ScoreAll, More
  <2>4. QED
    BY <1>1, <2>2, <2>3 DEF ScoreAll
<1>2. CASE Deduplicate
  <2>1. at' \in 1..(Len(input) + 1) /\ (More => at \in Positions)
    BY <1>2, LoopPosition DEF Deduplicate, Over
  <2>2. seen' \in Seq(Positions)
    <3>1. CASE Over("advise") /\ UNCHANGED seen
      BY <3>1 DEF TypeOK
    <3>2. CASE More /\ seen' = Append(seen, at)
      BY <3>2, <2>1, AppendProperties DEF TypeOK
    <3>3. CASE More /\ \E k \in Known(at) : seen' = IF Better(at, seen[k]) THEN Replaced(k) ELSE seen
      <4>1. PICK k \in DOMAIN seen : seen' = IF Better(at, seen[k]) THEN Replaced(k) ELSE seen
        BY <3>3 DEF Known
      <4>2. Replaced(k) \in Seq(Positions)
        BY <3>3, <2>1, ExceptSeq DEF TypeOK, Replaced
      <4>3. QED
        BY <4>1, <4>2 DEF TypeOK
    <3>4. QED
      BY <1>2, <3>1, <3>2, <3>3 DEF Deduplicate
  <2>3. QED
    BY <1>2, <2>1, <2>2 DEF TypeOK, Deduplicate, Over, More
<1>3. CASE AttachRemediation
  <2>1. \A i \in Positions : Advised(findings[i]) \in STRING
    BY DEF TypeOK, Advised
  <2>2. /\ findings' \in [Positions -> [object : Objects, score : Scores, severity : Labels,
                                       advice : STRING]]
        /\ \A i \in Positions : findings'[i].object = input[i]
    BY <1>3, <2>1 DEF TypeOK, AttachRemediation
  <2>3. QED
    BY <1>3, <2>2 DEF TypeOK, AttachRemediation
<1>4. CASE Prioritize
  <2>1. PICK order \in [DOMAIN seen -> DOMAIN seen] :
          ranked' = [n \in DOMAIN seen |-> seen[order[n]]]
    BY <1>4, Zenon DEF Prioritize, IsSorting
  <2>2. Len(seen) \in Nat /\ DOMAIN seen = 1..Len(seen)
        /\ \A n \in DOMAIN seen : seen[order[n]] \in Positions
    BY <2>1 DEF TypeOK
  <2>3. ranked' \in Seq(Positions)
    BY <2>1, <2>2, SeqDef
  <2>4. QED
    BY <1>4, <2>3 DEF TypeOK, Prioritize
<1>5. CASE SummaryStats
  BY <1>5 DEF TypeOK, SummaryStats
<1>6. CASE UNCHANGED vars
  BY <1>6 DEF TypeOK, vars, Labels, Objects
<1>7. QED
  BY <1>1, <1>2, <1>3, <1>4, <1>5, <1>6 DEF Next

\* What a finding is about does not change; keys are what they were.
LEMMA KeysStay ==
  ASSUME TypeOK, TypeOK', input' = input
  PROVE  Positions' = Positions /\ \A i \in Positions : Key(i)' = Key(i)
BY DEF TypeOK, Positions, Key

\* Scores can be compared.
LEMMA ScoresAreNumbers == TypeOK => \A i \in Positions : findings[i].score \in Int
<1> SUFFICES ASSUME TypeOK, NEW i \in Positions PROVE findings[i].score \in Int
  OBVIOUS
<1>1. findings[i] \in [object : Objects, score : Scores, severity : Labels, advice : STRING]
  BY DEF TypeOK
<1>2. findings[i].score \in Scores
  BY <1>1
<1>3. \A n \in Scores : n \in Int
  BY DEF Scores
<1>4. QED
  BY <1>2, <1>3

\* One step of the deduplication loop.
LEMMA DeduplicateStep ==
  ASSUME TypeOK, TypeOK', Deduplicate, Representative, InOrder
  PROVE  Representative' /\ InOrder'
<1> DEFINE S(i) == findings[i].score
           K(i) == KeyOf(findings[i].object)
           R(k, i) == /\ K(seen'[k]) = K(i)
                      /\ \/ S(seen'[k]) > S(i)
                         \/ S(seen'[k]) = S(i) /\ seen'[k] <= i
<1> USE DEF Key
<1>1. /\ Positions = 1..Len(input) /\ Len(input) \in Nat /\ Len(findings) = Len(input)
      /\ at \in 1..(Len(input) + 1) /\ Positions' = Positions
      /\ pc = "deduplicate" /\ Deduplicated = 1..(at - 1)
      /\ findings' = findings /\ input' = input
  BY LoopPosition DEF TypeOK, Deduplicate, Deduplicated, Positions
<1>2. \A i \in Positions : S(i) \in Int
  BY ScoresAreNumbers
<1>3. findings' = findings
  BY DEF Deduplicate
<1>4. \A k \in DOMAIN seen : seen[k] \in Deduplicated /\ seen[k] \in Positions
  BY <1>1 DEF TypeOK, Representative, Range
<1>5. Len(seen) \in Nat /\ DOMAIN seen = 1..Len(seen) /\ seen \in Seq(Positions)
  BY DEF TypeOK
<1>6. CASE Over("advise") /\ UNCHANGED seen
  <2>1. Deduplicated' = Deduplicated
    BY <1>1, <1>6 DEF Over, Deduplicated
  <2>2. QED
    BY <2>1, <1>1, <1>3, <1>6 DEF Representative, InOrder, Represents
<1>7. ASSUME More PROVE at \in Positions /\ Deduplicated' = Deduplicated \cup {at} /\ at \notin Deduplicated
                        /\ \A i \in Deduplicated : i < at /\ i \in Positions
  BY <1>1, <1>7 DEF More, Deduplicated
<1>8. CASE More /\ Known(at) = {} /\ seen' = Append(seen, at)
  <2>1. /\ DOMAIN seen' = 1..(Len(seen) + 1) /\ seen'[Len(seen) + 1] = at
        /\ \A k \in DOMAIN seen : seen'[k] = seen[k]
    BY <1>5, <1>7, <1>8, AppendProperties
  <2>2. \A k \in DOMAIN seen : K(seen[k]) # K(at)
    BY <1>8 DEF Known
  <2>3. \A i \in Deduplicated : K(i) # K(at)
    BY <2>2 DEF Representative, Represents
  <2>4. \A k, l \in DOMAIN seen' : K(seen'[k]) = K(seen'[l]) => k = l
    BY <1>5, <2>1, <2>2 DEF Representative
  <2>5. Range(seen') \subseteq Deduplicated'
    BY <1>4, <1>5, <1>7, <1>8, <2>1 DEF Range
  <2>6. \A i \in Deduplicated' : \E k \in DOMAIN seen' : R(k, i)
    <3>1. ASSUME NEW i \in Deduplicated PROVE \E k \in DOMAIN seen' : R(k, i)
      <4>1. PICK k \in DOMAIN seen : Represents(k, i)
        BY DEF Representative
      <4>2. R(k, i)
        BY <4>1, <2>1 DEF Represents
      <4>3. QED
        BY <4>2, <2>1, <1>5
    <3>2. R(Len(seen) + 1, at)
      <4>1. seen'[Len(seen) + 1] = at /\ at \in Int
        BY <2>1, <1>1
      <4>2. QED
        BY <4>1
    <3>3. QED
      BY <3>1, <3>2, <2>1, <1>5, <1>7, <1>8
  <2>7. InOrder'
    <3> SUFFICES ASSUME NEW k \in DOMAIN seen', NEW l \in DOMAIN seen', k < l
                 PROVE  \E i \in Deduplicated' : /\ K(i) = K(seen'[k])
                                                 /\ \A j \in Deduplicated' : K(j) = K(seen'[l]) => i < j
      BY <1>3 DEF InOrder
    <3>1. CASE l = Len(seen) + 1
      <4>1. k \in DOMAIN seen /\ seen'[k] = seen[k] /\ seen[k] \in Deduplicated
        BY <3>1, <2>1, <1>4, <1>5
      <4>2. \A j \in Deduplicated' : K(j) = K(seen'[l]) => seen[k] < j
        BY <3>1, <4>1, <2>1, <2>3, <1>7, <1>8
      <4>3. QED
        BY <4>1, <4>2, <1>7, <1>8
    <3>2. CASE l # Len(seen) + 1
      <4>1. k \in DOMAIN seen /\ l \in DOMAIN seen /\ seen'[k] = seen[k] /\ seen'[l] = seen[l]
        BY <3>2, <2>1, <1>5
      <4>2. PICK i \in Deduplicated : K(i) = K(seen[k]) /\ \A j \in Deduplicated : K(j) = K(seen[l]) => i < j
        BY <4>1 DEF InOrder
      <4>3. QED
        BY <4>1, <4>2, <1>7, <1>8
    <3>3. QED
      BY <3>1, <3>2
  <2>8. QED
    BY <2>4, <2>5, <2>6, <2>7, <1>3 DEF Representative, Represents
<1>9. ASSUME More, NEW k \in Known(at), seen' = IF Better(at, seen[k]) THEN Replaced(k) ELSE seen
      PROVE  Representative' /\ InOrder'
  <2>1. k \in DOMAIN seen /\ K(seen[k]) = K(at)
    BY DEF Known
  <2>2. /\ DOMAIN seen' = DOMAIN seen
        /\ \A l \in DOMAIN seen : seen'[l] = IF l = k /\ S(at) > S(seen[k]) THEN at ELSE seen[l]
    BY <1>9, <2>1, <1>5 DEF Replaced, Better
  <2>3. \A l \in DOMAIN seen : K(seen'[l]) = K(seen[l])
    BY <2>1, <2>2
  <2>4. Range(seen') \subseteq Deduplicated'
    BY <1>4, <1>7, <1>9, <2>2 DEF Range
  <2>5. ASSUME NEW i \in Deduplicated PROVE \E l \in DOMAIN seen' : R(l, i)
    <3>1. PICK l \in DOMAIN seen : Represents(l, i)
      BY DEF Representative
    <3>2. K(seen'[l]) = K(i)
      BY <3>1, <2>3 DEF Represents
    <3>3. \/ S(seen'[l]) > S(i)
          \/ S(seen'[l]) = S(i) /\ seen'[l] <= i
      BY <3>1, <2>1, <2>2, <1>2, <1>4, <1>7, <1>9 DEF Represents
    <3>4. QED
      BY <3>2, <3>3, <2>2
  <2>6. R(k, at)
    <3>1. S(at) \in Int /\ S(seen[k]) \in Int /\ seen[k] < at /\ seen[k] \in Int /\ at \in Int
      BY <2>1, <1>1, <1>2, <1>4, <1>7, <1>9
    <3>2. CASE S(at) > S(seen[k])
      BY <3>1, <3>2, <2>1, <2>2
    <3>3. CASE ~(S(at) > S(seen[k]))
      BY <3>1, <3>3, <2>1, <2>2
    <3>4. QED
      BY <3>2, <3>3
  <2>7. Representative'
    <3>1. \A i \in Deduplicated' : \E l \in DOMAIN seen' : R(l, i)
      BY <2>1, <2>2, <2>5, <2>6, <1>7, <1>9
    <3>2. \A m, l \in DOMAIN seen' : K(seen'[m]) = K(seen'[l]) => m = l
      BY <2>2, <2>3 DEF Representative
    <3>3. QED
      BY <3>1, <3>2, <2>4, <1>3 DEF Representative, Represents
  <2>8. InOrder'
    <3> SUFFICES ASSUME NEW m \in DOMAIN seen, NEW l \in DOMAIN seen, m < l
                 PROVE  \E i \in Deduplicated' : /\ K(i) = K(seen[m])
                                                 /\ \A j \in Deduplicated' : K(j) = K(seen[l]) => i < j
      BY <1>3, <2>2, <2>3 DEF InOrder
    <3>1. PICK i \in Deduplicated : K(i) = K(seen[m]) /\ \A j \in Deduplicated : K(j) = K(seen[l]) => i < j
      BY DEF InOrder
    <3>2. QED
      BY <3>1, <1>7, <1>9
  <2>9. QED
    BY <2>7, <2>8
<1>10. QED
  BY <1>6, <1>8, <1>9 DEF Deduplicate

\* Representative and InOrder speak of keys, scores and positions only.
LEMMA SameSeen ==
  ASSUME Representative, InOrder, seen' = seen, Deduplicated' = Deduplicated,
         Deduplicated \subseteq Positions,
         \A i \in Positions : findings'[i].score = findings[i].score
                             /\ findings'[i].object = findings[i].object
  PROVE  Representative' /\ InOrder'
<1> USE DEF Key
<1>1. \A k \in DOMAIN seen : seen[k] \in Positions
  BY DEF Representative, Range
<1>2. \A k \in DOMAIN seen : \A i \in Deduplicated : Represents(k, i)' <=> Represents(k, i)
  BY <1>1 DEF Represents
<1>3. Representative'
  BY <1>1, <1>2 DEF Representative
<1>4. InOrder'
  BY <1>1 DEF InOrder
<1>5. QED
  BY <1>3, <1>4

\* What deduplicate has collected so far is kept right by every step.
LEMMA SeenStep == IInv /\ TypeOK' /\ [Next]_vars => NothingSeenYet' /\ Representative' /\ InOrder'
<1> SUFFICES ASSUME IInv, TypeOK', [Next]_vars PROVE NothingSeenYet' /\ Representative' /\ InOrder'
  OBVIOUS
<1>1. TypeOK /\ Representative /\ InOrder
  BY DEF IInv
<1>2. CASE ScoreAll
  <2>1. seen' = <<>>
    BY <1>2 DEF IInv, NothingSeenYet, ScoreAll
  <2>2. Deduplicated' = {}
    BY <1>2 DEF ScoreAll, Over, More, Deduplicated
  <2>3. QED
    BY <2>1, <2>2 DEF NothingSeenYet, Representative, InOrder, Range
<1>3. CASE Deduplicate
  BY <1>1, <1>3, DeduplicateStep DEF NothingSeenYet, Deduplicate, Over, More
<1>4. CASE AttachRemediation
  <2>1. \A i \in Positions : findings'[i].score = findings[i].score
                           /\ findings'[i].object = findings[i].object
    BY <1>1, <1>4 DEF TypeOK, AttachRemediation
  <2>2. Deduplicated' = Deduplicated /\ Deduplicated = Positions /\ seen' = seen /\ pc' = "rank"
    BY <1>4 DEF AttachRemediation, Deduplicated, Positions
  <2>3. QED
    BY <1>1, <2>1, <2>2, SameSeen DEF NothingSeenYet
<1>5. CASE Prioritize \/ SummaryStats
  <2>1. Deduplicated' = Deduplicated /\ Deduplicated = Positions /\ seen' = seen /\ findings' = findings
        /\ pc' # "score"
    BY <1>5 DEF Prioritize, SummaryStats, Deduplicated, Positions
  <2>2. QED
    BY <1>1, <2>1, SameSeen DEF NothingSeenYet
<1>6. CASE UNCHANGED vars
  <2>1. Deduplicated' = Deduplicated /\ seen' = seen /\ findings' = findings /\ pc' = pc
    BY <1>6 DEF vars, Deduplicated, Positions
  <2>2. Deduplicated \subseteq Positions
    BY <1>1, LoopPosition DEF TypeOK, Deduplicated
  <2>3. QED
    BY <1>1, <2>1, <2>2, SameSeen DEF NothingSeenYet, IInv
<1>7. QED
  BY <1>2, <1>3, <1>4, <1>5, <1>6 DEF Next

\* A finding that has been scored has the label of its score.
LEMMA LabelsStep == IInv /\ TypeOK' /\ [Next]_vars => LabelsFit'
<1> SUFFICES ASSUME IInv, TypeOK', [Next]_vars PROVE LabelsFit'
  OBVIOUS
<1>1. /\ TypeOK /\ LabelsFit
      /\ Len(findings) = Len(input) /\ Len(input) \in Nat /\ Positions = 1..Len(input)
      /\ at \in 1..(Len(input) + 1)
  BY LoopPosition DEF IInv, TypeOK
<1>2. input' = input /\ Positions' = Positions
  BY DEF Next, ScoreAll, Deduplicate, AttachRemediation, Prioritize, SummaryStats, vars, Positions
<1>3. CASE ScoreAll
  <2>1. CASE Over("deduplicate") /\ UNCHANGED findings
    <3>1. Labelled' = Positions /\ Labelled = Positions
      BY <1>1, <1>2, <1>3, <2>1 DEF Over, Labelled, ScoreAll
    <3>2. QED
      BY <1>1, <2>1, <3>1 DEF LabelsFit
  <2>2. CASE More /\ findings' = [findings EXCEPT ![at].score = Score(findings[at].object),
                                                 ![at].severity = Severity(Score(findings[at].object))]
    <3>1. Labelled' = Labelled \cup {at} /\ at \in Positions /\ at \notin Labelled
      BY <1>1, <1>3, <2>2 DEF More, Labelled, ScoreAll
    <3>2. Labelled \subseteq Positions
      BY <1>1 DEF Labelled
    <3>3. \A i \in Labelled : findings'[i] = findings[i]
      BY <1>1, <2>2, <3>1, <3>2 DEF TypeOK
    <3>4. /\ findings'[at].score = Score(findings[at].object)
          /\ findings'[at].severity = Severity(Score(findings[at].object))
      BY <1>1, <2>2, <3>1 DEF TypeOK
    <3>5. QED
      BY <1>1, <3>1, <3>3, <3>4 DEF LabelsFit
  <2>3. QED
    BY <1>3, <2>1, <2>2 DEF ScoreAll
<1>4. ASSUME Labelled' = Labelled, Labelled \subseteq Positions,
             \A i \in Positions : findings'[i].score = findings[i].score
                                 /\ findings'[i].severity = findings[i].severity
      PROVE LabelsFit'
  BY <1>1, <1>4 DEF LabelsFit
<1>5. CASE Deduplicate \/ Prioritize \/ SummaryStats
  BY <1>2, <1>4, <1>5 DEF Deduplicate, Over, More, Prioritize, SummaryStats, Labelled
<1>6. CASE AttachRemediation
  <2>1. \A i \in Positions : findings'[i].score = findings[i].score
                           /\ findings'[i].severity = findings[i].severity
    BY <1>1, <1>6 DEF TypeOK, AttachRemediation
  <2>2. Labelled' = Labelled /\ Labelled \subseteq Positions
    BY <1>2, <1>6 DEF AttachRemediation, Labelled
  <2>3. QED
    BY <1>4, <2>1, <2>2
<1>7. CASE UNCHANGED vars
  <2>1. Labelled' = Labelled /\ findings' = findings
    BY <1>2, <1>7 DEF vars, Labelled
  <2>2. Labelled \subseteq Positions
    BY <1>1 DEF Labelled
  <2>3. QED
    BY <1>4, <2>1, <2>2
<1>8. QED
  BY <1>3, <1>5, <1>6, <1>7 DEF Next

\* prioritize makes a ranked list, which nothing touches afterwards.
LEMMA RankedStep == IInv /\ TypeOK' /\ [Next]_vars => RankedReport'
<1> SUFFICES ASSUME IInv, TypeOK', [Next]_vars PROVE RankedReport'
  OBVIOUS
<1> USE DEF Key
<1>1. TypeOK /\ RankedReport /\ InOrder
  BY DEF IInv
<1>2. CASE Prioritize
  <2>1. PICK order \in [DOMAIN seen -> DOMAIN seen] :
          /\ IsSorting(order)
          /\ ranked' = [n \in DOMAIN seen |-> seen[order[n]]]
    BY <1>2, Zenon DEF Prioritize, IsSorting
  <2>2. /\ findings' = findings /\ seen' = seen /\ input' = input
        /\ Positions' = Positions /\ Deduplicated = Positions
    BY <1>2 DEF Prioritize, Positions, Deduplicated
  <2>3. Range(ranked') = Range(seen')
    BY <2>1, <2>2 DEF Range, IsSorting
  <2>4. ASSUME NEW k \in DOMAIN ranked', NEW l \in DOMAIN ranked', k < l
        PROVE  \/ findings[ranked'[k]].score > findings[ranked'[l]].score
               \/ /\ findings[ranked'[k]].score = findings[ranked'[l]].score
                  /\ CameUpBefore(seen[order[k]], seen[order[l]])
    <3>1. /\ ranked'[k] = seen[order[k]] /\ ranked'[l] = seen[order[l]]
          /\ order[k] \in DOMAIN seen /\ order[l] \in DOMAIN seen
          /\ Before(order[k], order[l])
      BY <2>1, <2>4 DEF IsSorting
    <3>2. CASE findings[seen[order[k]]].score > findings[seen[order[l]]].score
      BY <3>1, <3>2
    <3>3. CASE findings[seen[order[k]]].score = findings[seen[order[l]]].score /\ order[k] < order[l]
      BY <1>1, <2>2, <3>1, <3>3 DEF InOrder, CameUpBefore
    <3>4. QED
      BY <3>1, <3>2, <3>3 DEF Before
  <2>5. QED
    BY <2>1, <2>2, <2>3, <2>4 DEF RankedReport, CameUpBefore
<1>3. CASE SummaryStats
  BY <1>1, <1>3 DEF SummaryStats, RankedReport, CameUpBefore, Positions
<1>4. CASE ScoreAll \/ Deduplicate \/ AttachRemediation
  BY <1>4 DEF ScoreAll, Deduplicate, AttachRemediation, Over, More, RankedReport
<1>5. CASE UNCHANGED vars
  BY <1>1, <1>5 DEF vars, RankedReport, CameUpBefore, Positions
<1>6. QED
  BY <1>2, <1>3, <1>4, <1>5 DEF Next

(***************************************************************************)
(* The inductive invariant holds throughout stage 10, for every list.      *)
(***************************************************************************)
THEOREM Inductive == Spec => []IInv
<1>1. Init => IInv
  <2> SUFFICES ASSUME Init PROVE IInv
    OBVIOUS
  <2>1. Deduplicated = {} /\ seen = <<>> /\ Labelled = {}
    BY DEF Init, Deduplicated, Labelled
  <2>2. QED
    BY <2>1, TypeInit
       DEF Init, IInv, NothingSeenYet, LabelsFit, Representative, InOrder, RankedReport, Range
<1>2. IInv /\ [Next]_vars => IInv'
  <2>1. IInv /\ [Next]_vars => TypeOK'
    BY TypeStep DEF IInv
  <2>2. QED
    BY <2>1, SeenStep, LabelsStep, RankedStep DEF IInv
<1>3. QED
  BY <1>1, <1>2, PTL DEF Spec

(***************************************************************************)
(* Types, for every list of findings: in particular the score is between 0 *)
(* and 10 whatever impact and likelihood the analysis gives.               *)
(***************************************************************************)
THEOREM TypeCorrect == Spec => []TypeOK
<1>1. IInv => TypeOK
  BY DEF IInv
<1>2. QED
  BY <1>1, Inductive, PTL

(***************************************************************************)
(* deduplicate keeps one finding per issue, the first of the highest.      *)
(***************************************************************************)
THEOREM OneOfEach == Spec => []Representative
<1>1. IInv => Representative
  BY DEF IInv
<1>2. QED
  BY <1>1, Inductive, PTL

(***************************************************************************)
(* The report is in the order of risk, and of first appearance among       *)
(* equals, and lists exactly the representatives.                          *)
(***************************************************************************)
THEOREM Ranked == Spec => []RankedReport
<1>1. IInv => RankedReport
  BY DEF IInv
<1>2. QED
  BY <1>1, Inductive, PTL

\* The labels' places on the scale.
LEMMA RanksOfLabels ==
  /\ Rank("informational") = 1 /\ Rank("low") = 2 /\ Rank("medium") = 3
  /\ Rank("high") = 4 /\ Rank("critical") = 5
<1>1. DOMAIN SEVERITY_BANDS = 1..5
  BY DEF SEVERITY_BANDS
<1>2. /\ SEVERITY_BANDS[1].label = "informational" /\ SEVERITY_BANDS[2].label = "low"
      /\ SEVERITY_BANDS[3].label = "medium" /\ SEVERITY_BANDS[4].label = "high"
      /\ SEVERITY_BANDS[5].label = "critical"
  BY DEF SEVERITY_BANDS, Band
<1>3. \A i \in 1..5 : i = 1 \/ i = 2 \/ i = 3 \/ i = 4 \/ i = 5
  OBVIOUS
<1>4. QED
  BY <1>1, <1>2, <1>3 DEF Rank

(***************************************************************************)
(* Severity rises with the score: the bands have no gaps.                  *)
(***************************************************************************)
THEOREM SeverityRises == Spec => []SeverityFollowsScore
<1>1. IInv => SeverityFollowsScore
  <2> SUFFICES ASSUME IInv, pc # "score", NEW i \in Positions, NEW j \in Positions,
                      findings[i].score <= findings[j].score
               PROVE  Rank(findings[i].severity) <= Rank(findings[j].severity)
    BY DEF SeverityFollowsScore
  <2>1. /\ findings[i].severity = Severity(findings[i].score)
        /\ findings[j].severity = Severity(findings[j].score)
    BY DEF IInv, LabelsFit, Labelled
  <2>2. findings[i].score \in Scores /\ findings[j].score \in Scores
    BY DEF IInv, TypeOK
  <2>3. \A s, t \in Scores : s <= t => Rank(Severity(s)) <= Rank(Severity(t))
    <3> SUFFICES ASSUME NEW s \in Scores, NEW t \in Scores, s <= t
                 PROVE  Rank(Severity(s)) <= Rank(Severity(t))
      OBVIOUS
    <3>1. \A u \in Scores : Rank(Severity(u)) =
            IF u < 10 THEN 1 ELSE IF u < 40 THEN 2 ELSE IF u < 65 THEN 3 ELSE IF u < 85 THEN 4 ELSE 5
      BY SeverityTable, RanksOfLabels
    <3>2. s \in Int /\ t \in Int
      BY DEF Scores
    <3>3. QED
      BY <3>1, <3>2
  <2>4. QED
    BY <2>1, <2>2, <2>3
<1>2. QED
  BY <1>1, Inductive, PTL

-----------------------------------------------------------------------------
(***************************************************************************)
(* The statistics: a sum of cardinalities is the cardinality of the whole. *)
(***************************************************************************)

\* What MapThenSumSet computes on the sets of T.
Sums(it, c, T) == \A s \in T : it[s] = IF s = {} THEN 0
                                       ELSE c[CHOOSE x \in s : TRUE] + it[s \ {CHOOSE x \in s : TRUE}]

\* The recursion of MapThenSumSet has a solution on the subsets of a finite
\* set: by the least size for which it has none.
LEMMA SumExists ==
  ASSUME NEW S, IsFiniteSet(S), NEW c \in [S -> Nat]
  PROVE  \E it \in [SUBSET S -> Nat] : Sums(it, c, SUBSET S)
<1> DEFINE Small(k) == {s \in SUBSET S : Cardinality(s) <= k}
           Good(k) == \E it \in [Small(k) -> Nat] : Sums(it, c, Small(k))
           n == Cardinality(S)
           Bad == {k \in 0..n : ~Good(k)}
<1>1. n \in Nat /\ \A s \in SUBSET S : IsFiniteSet(s) /\ Cardinality(s) \in Nat /\ Cardinality(s) <= n
  BY FS_CardinalityType, FS_Subset
<1>2. Small(n) = SUBSET S
  BY <1>1
<1>3. \A s \in SUBSET S : s # {} => /\ (CHOOSE x \in s : TRUE) \in s
                                    /\ Cardinality(s \ {CHOOSE x \in s : TRUE}) = Cardinality(s) - 1
  <2>1. ASSUME NEW s \in SUBSET S, s # {} PROVE (CHOOSE x \in s : TRUE) \in s
    BY <2>1
  <2>2. \A s \in SUBSET S : \A x \in s : Cardinality(s \ {x}) = Cardinality(s) - 1
    BY <1>1, FS_RemoveElement
  <2>3. QED
    BY <2>1, <2>2
<1>4. SUFFICES ASSUME Bad # {} PROVE FALSE
  <2>1. n \in 0..n
    BY <1>1
  <2>2. Bad = {} => Good(n)
    BY <2>1
  <2>3. QED
    BY <1>2, <2>2
<1>5. PICK m \in Bad : \A y \in Bad : m <= y
  <2>1. Bad \in SUBSET Nat
    BY <1>1
  <2> HIDE DEF Bad
  <2>2. QED
    BY <1>4, <2>1, LeastNat
<1>6. m \in 0..n /\ ~Good(m) /\ m \in Nat
  <2> HIDE DEF Good
  <2>1. QED
    BY <1>1
<1>7. CASE m = 0
  <2> DEFINE it == [s \in Small(0) |-> 0]
  <2>1. \A s \in Small(0) : s = {}
    BY <1>1, FS_EmptySet
  <2>2. it \in [Small(0) -> Nat] /\ \A s \in Small(0) : it[s] = 0
    OBVIOUS
  <2> HIDE DEF it
  <2>3. Sums(it, c, Small(0))
    BY <2>1, <2>2 DEF Sums
  <2>4. QED
    BY <1>6, <1>7, <2>2, <2>3
<1>8. CASE m # 0
  <2>1. m - 1 \in 0..n /\ m - 1 \notin Bad
    <3>1. m - 1 \in 0..n /\ ~(m <= m - 1)
      BY <1>1, <1>6, <1>8
    <3> HIDE DEF Bad
    <3>2. QED
      BY <1>5, <3>1
  <2>2. PICK f \in [Small(m - 1) -> Nat] : Sums(f, c, Small(m - 1))
    BY <2>1
  <2> DEFINE x(s) == CHOOSE e \in s : TRUE
             v(s) == IF s \in Small(m - 1) THEN f[s] ELSE c[x(s)] + f[s \ {x(s)}]
             it == [s \in Small(m) |-> v(s)]
  <2>3. \A s \in Small(m) : s # {} => x(s) \in s /\ s \ {x(s)} \in Small(m - 1) /\ x(s) \in S
    <3>1. ASSUME NEW s \in Small(m), s # {} PROVE s \ {x(s)} \in Small(m - 1) /\ x(s) \in s
      <4>1. Cardinality(s \ {x(s)}) = Cardinality(s) - 1 /\ Cardinality(s) \in Nat /\ Cardinality(s) <= m
            /\ x(s) \in s
        BY <1>1, <1>3, <3>1
      <4>2. QED
        BY <1>6, <4>1
    <3>2. QED
      BY <3>1
  <2>4. {} \in Small(m - 1) /\ f[{}] = 0
    <3>1. Cardinality({}) = 0 /\ 0 <= m - 1
      BY <1>6, <1>8, FS_EmptySet
    <3>2. {} \in Small(m - 1)
      BY <3>1
    <3>3. QED
      BY <2>2, <3>2 DEF Sums
  <2>5. ASSUME NEW s \in Small(m) PROVE v(s) \in Nat
    <3>1. CASE s \in Small(m - 1)
      BY <2>2, <3>1
    <3>2. CASE s \notin Small(m - 1)
      <4>1. f[s \ {x(s)}] \in Nat /\ c[x(s)] \in Nat
        BY <2>2, <2>3, <2>4, <3>2
      <4>2. v(s) = c[x(s)] + f[s \ {x(s)}]
        BY <3>2
      <4> HIDE DEF v, x
      <4>3. QED
        BY <4>1, <4>2
    <3>3. QED
      BY <3>1, <3>2
  <2>6. it \in [Small(m) -> Nat] /\ \A s \in Small(m) : it[s] = v(s)
    BY <2>5
  <2>7. Small(m - 1) \subseteq Small(m)
    BY <1>1, <1>6
  <2>8. ASSUME NEW s \in Small(m)
        PROVE  it[s] = IF s = {} THEN 0 ELSE c[x(s)] + it[s \ {x(s)}]
    <3>1. CASE s = {}
      BY <2>4, <2>6, <3>1
    <3>2. CASE s # {}
      <4>1. s \ {x(s)} \in Small(m - 1)
        BY <2>3, <3>2
      <4>2. it[s \ {x(s)}] = f[s \ {x(s)}]
        BY <2>6, <2>7, <4>1
      <4>3. it[s] = c[x(s)] + f[s \ {x(s)}]
        <5>1. s \in Small(m - 1) => f[s] = c[x(s)] + f[s \ {x(s)}]
          BY <2>2, <3>2 DEF Sums
        <5> HIDE DEF it
        <5>2. QED
          BY <2>6, <5>1
      <4>4. QED
        BY <3>2, <4>2, <4>3
    <3>3. QED
      BY <3>1, <3>2
  <2>9. Sums(it, c, Small(m))
    BY <2>8 DEF Sums
  <2>10. QED
    BY <1>6, <2>6, <2>9
<1>9. QED
  BY <1>7, <1>8

\* MapThenSumSet computes that solution.
LEMMA SumIs ==
  ASSUME NEW S, IsFiniteSet(S), NEW c \in [S -> Nat]
  PROVE  \E it : Sums(it, c, SUBSET S) /\ MapThenSumSet(LAMBDA s : c[s], S) = it[S]
<1> DEFINE rec(it) == [s \in SUBSET S |-> IF s = {} THEN 0
                                         ELSE c[CHOOSE x \in s : TRUE] + it[s \ {CHOOSE x \in s : TRUE}]]
           sum == CHOOSE it : it = rec(it)
<1>1. PICK g \in [SUBSET S -> Nat] : Sums(g, c, SUBSET S)
  BY SumExists
<1>2. g = rec(g)
  BY <1>1 DEF Sums
<1>3. sum = rec(sum)
  <2> HIDE DEF rec
  <2>1. QED
    BY <1>2
<1>4. MapThenSumSet(LAMBDA s : c[s], S) = sum[S]
  BY DEF MapThenSumSet, MapThenFoldSet
<1>5. DOMAIN sum = SUBSET S /\ Sums(sum, c, SUBSET S)
  <2> HIDE DEF sum
  <2>1. QED
    BY <1>3 DEF Sums
<1>6. QED
  BY <1>4, <1>5

\* Counting a set by a label, and adding up the counts, counts the set.
LEMMA CountsAddUp ==
  ASSUME NEW S, IsFiniteSet(S), NEW R, IsFiniteSet(R), NEW g \in [R -> S], NEW c \in [S -> Nat],
         \A s \in S : c[s] = Cardinality({i \in R : g[i] = s})
  PROVE  MapThenSumSet(LAMBDA s : c[s], S) = Cardinality(R)
<1> DEFINE In(t) == {i \in R : g[i] \in t}
           x(s) == CHOOSE e \in s : TRUE
<1>1. PICK it : Sums(it, c, SUBSET S) /\ MapThenSumSet(LAMBDA s : c[s], S) = it[S]
  BY SumIs
<1> DEFINE Bad == {s \in SUBSET S : it[s] # Cardinality(In(s))}
           Sizes == {Cardinality(s) : s \in Bad}
<1>2. \A s \in SUBSET S : IsFiniteSet(s) /\ Cardinality(s) \in Nat
  BY FS_CardinalityType, FS_Subset
<1>3. \A s : In(s) \subseteq R /\ IsFiniteSet(In(s)) /\ Cardinality(In(s)) \in Nat
  BY FS_CardinalityType, FS_Subset
<1>4. ASSUME Bad # {} PROVE FALSE
  <2>1. PICK n \in Sizes : \A y \in Sizes : n <= y
    <3>1. Sizes \in SUBSET Nat /\ Sizes # {}
      <4>1. Bad \subseteq SUBSET S
        OBVIOUS
      <4> HIDE DEF Bad
      <4>2. QED
        BY <1>2, <1>4, <4>1
    <3> HIDE DEF Sizes
    <3>2. QED
      BY <3>1, LeastNat
  <2>2. PICK s \in Bad : Cardinality(s) = n
    BY <2>1
  <2> DEFINE t == s \ {x(s)}
  <2>3. s \in SUBSET S /\ it[s] # Cardinality(In(s))
    BY <2>2
  <2>4. s # {}
    <3>1. ASSUME s = {} PROVE FALSE
      <4>1. it[s] = 0
        BY <1>1, <2>3, <3>1 DEF Sums
      <4>2. In(s) = {}
        BY <3>1
      <4>3. QED
        BY <2>3, <4>1, <4>2, FS_EmptySet
    <3>2. QED
      BY <3>1
  <2>5. x(s) \in s /\ x(s) \in S /\ t \in SUBSET S
    BY <2>3, <2>4
  <2>6. it[t] = Cardinality(In(t))
    <3>1. Cardinality(t) = Cardinality(s) - 1 /\ Cardinality(s) \in Nat
      BY <1>2, <2>3, <2>5, FS_RemoveElement
    <3>2. ASSUME t \in Bad PROVE FALSE
      <4>1. Cardinality(t) \in Sizes
        BY <3>2
      <4> HIDE DEF Sizes
      <4>2. n <= Cardinality(t)
        BY <2>1, <4>1
      <4>3. QED
        BY <2>2, <3>1, <4>2
    <3>3. QED
      BY <2>5, <3>2
  <2>7. it[s] = c[x(s)] + it[t]
    BY <1>1, <2>3, <2>4 DEF Sums
  <2> DEFINE One == {i \in R : g[i] = x(s)}
  <2>8. c[x(s)] = Cardinality(One) /\ IsFiniteSet(One) /\ Cardinality(One) \in Nat
    BY <2>5, FS_Subset, FS_CardinalityType
  <2>9. In(s) = One \cup In(t) /\ One \cap In(t) = {}
    BY <2>5
  <2>10. Cardinality(One \cup In(t)) = Cardinality(One) + Cardinality(In(t)) - Cardinality(One \cap In(t))
    <3> HIDE DEF One, In, t
    <3>1. QED
      BY <1>3, <2>8, FS_Union
  <2>11. Cardinality(One \cap In(t)) = 0
    BY <2>9, FS_EmptySet
  <2> HIDE DEF One, In, t, x
  <2>12. QED
    BY <1>3, <2>3, <2>6, <2>7, <2>8, <2>9, <2>10, <2>11
<1>5. it[S] = Cardinality(In(S))
  <2>1. S \notin Bad
    BY <1>4
  <2>2. QED
    BY <2>1
<1>6. In(S) = R
  OBVIOUS
<1>7. QED
  BY <1>1, <1>5, <1>6

-----------------------------------------------------------------------------
\* Of the findings reported, as many as there are issues.
LEMMA OneForEachIssue ==
  ASSUME IInv, pc \in {"summarise", "done"}
  PROVE  Cardinality(Range(ranked)) = Cardinality({Key(i) : i \in Positions})
<1> DEFINE R == Range(ranked)
           K == {Key(i) : i \in Positions}
           f == [i \in R |-> Key(i)]
<1>1. TypeOK /\ Representative /\ Range(ranked) = Range(seen) /\ Deduplicated = Positions
  BY DEF IInv, RankedReport, Deduplicated
<1>2. R \subseteq Positions /\ IsFiniteSet(R)
  <2>1. input \in Seq(Objects)
    BY <1>1 DEF TypeOK
  <2>2. Positions = 1..Len(input) /\ Len(input) \in Nat
    BY <2>1, LenProperties DEF Positions
  <2>3. R \subseteq Positions
    BY <1>1 DEF Representative
  <2>4. IsFiniteSet(1..Len(input))
    BY <2>2, FS_Interval
  <2> HIDE DEF R
  <2>5. QED
    BY <2>2, <2>3, <2>4, FS_Subset
<1>3. \A i, j \in R : Key(i) = Key(j) => i = j
  BY <1>1 DEF Representative, Range
<1>4. \A i \in Positions : \E j \in R : Key(j) = Key(i)
  BY <1>1 DEF Representative, Represents, Range
<1>5. f \in Bijection(R, K)
  <2>1. f \in [R -> K] /\ \A i \in R : f[i] = Key(i)
    BY <1>2
  <2>2. \A i, j \in R : f[i] = f[j] => i = j
    BY <1>3, <2>1
  <2>3. \A k \in K : \E j \in R : f[j] = k
    BY <1>4, <2>1
  <2> HIDE DEF f, R, K
  <2>4. QED
    BY <2>1, <2>2, <2>3 DEF Bijection, Injection, Surjection, IsInjective
<1>6. QED
  <2> HIDE DEF f, R, K
  <2>1. Cardinality(K) = Cardinality(R)
    BY <1>2, <1>5, FS_Bijection DEF ExistsBijection
  <2>2. QED
    BY <2>1 DEF R, K

\* The maximum of the scores is that of the first finding of the report.
LEMMA FirstHasTheMaximum ==
  ASSUME IInv, pc = "summarise"
  PROVE  (CHOOSE m \in {findings[i].score : i \in Summarised} \cup {0} :
            \A i \in Summarised : findings[i].score <= m)
         = IF ranked = <<>> THEN 0 ELSE findings[ranked[1]].score
<1> DEFINE S == {findings[i].score : i \in Summarised} \cup {0}
           top == IF ranked = <<>> THEN 0 ELSE findings[ranked[1]].score
<1>1. /\ ranked \in Seq(Positions) /\ RankedReport
      /\ \A i \in Positions : findings[i].score \in Nat
  <2>1. TypeOK /\ RankedReport
    BY DEF IInv
  <2>2. \A i \in Positions : findings[i].score \in Scores
    BY <2>1 DEF TypeOK
  <2>3. ranked \in Seq(Positions)
    BY <2>1 DEF TypeOK
  <2>4. \A s \in Scores : s \in Nat
    BY DEF Scores
  <2>5. QED
    BY <2>1, <2>2, <2>3, <2>4, Zenon
<1>2. DOMAIN ranked = 1..Len(ranked) /\ Len(ranked) \in Nat /\ Summarised \subseteq Positions
      /\ (ranked # <<>> => 1 \in DOMAIN ranked)
  <2>1. DOMAIN ranked = 1..Len(ranked) /\ Len(ranked) \in Nat
        /\ \A i \in 1..Len(ranked) : ranked[i] \in Positions
    BY <1>1, LenProperties, ElementOfSeq
  <2>2. ranked # <<>> => Len(ranked) # 0
    BY <1>1, EmptySeq
  <2>3. Summarised \subseteq Positions
    BY <2>1 DEF Summarised, Range
  <2>4. QED
    BY <2>1, <2>2, <2>3
<1>3. top \in S /\ top \in Nat /\ \A i \in Summarised : findings[i].score <= top
  <2>1. CASE ranked = <<>>
    BY <2>1 DEF Summarised, Range
  <2>2. CASE ranked # <<>>
    <3>1. top = findings[ranked[1]].score /\ ranked[1] \in Summarised
      BY <1>2, <2>2 DEF Summarised, Range
    <3>2. ASSUME NEW k \in DOMAIN ranked PROVE findings[ranked[k]].score <= findings[ranked[1]].score
      <4>1. k = 1 \/ 1 < k
        BY <1>2
      <4>2. findings[ranked[k]].score \in Nat /\ findings[ranked[1]].score \in Nat
        BY <1>1, <1>2, <2>2 DEF Summarised, Range
      <4>3. 1 < k => \/ findings[ranked[1]].score > findings[ranked[k]].score
                     \/ findings[ranked[1]].score = findings[ranked[k]].score
        BY <1>1, <1>2, <2>2 DEF RankedReport
      <4>4. QED
        BY <4>1, <4>2, <4>3
    <3>3. QED
      BY <1>1, <1>2, <3>1, <3>2 DEF Summarised, Range
  <2>3. QED
    BY <2>1, <2>2
<1>4. \A m \in S : m \in Nat
  BY <1>1, <1>2
<1>5. ASSUME NEW m \in S, \A i \in Summarised : findings[i].score <= m PROVE m = top
  <2>1. m <= top
    BY <1>3, <1>5
  <2>2. top <= m
    <3>1. CASE ranked = <<>>
      BY <1>4, <3>1
    <3>2. CASE ranked # <<>>
      BY <1>2, <1>5, <3>2 DEF Summarised, Range
    <3>3. QED
      BY <3>1, <3>2
  <2>3. QED
    BY <1>3, <1>4, <2>1, <2>2
<1> HIDE DEF top, S
<1>6. (CHOOSE m \in S : \A i \in Summarised : findings[i].score <= m) = top
  BY <1>3, <1>5
<1>7. QED
  BY <1>6 DEF top, S

\* What stage 10 has computed when it is done is of the report it returns.
LEMMA StatsStep == IInv /\ IInv' /\ StatsMatchReport /\ [Next]_vars => StatsMatchReport'
<1> SUFFICES ASSUME IInv, IInv', StatsMatchReport, [Next]_vars PROVE StatsMatchReport'
  OBVIOUS
<1>1. CASE SummaryStats
  <2> DEFINE severity == [i \in Summarised |-> findings[i].severity]
             counts == [s \in Labels |-> Cardinality({i \in Summarised : findings[i].severity = s})]
             top == CHOOSE m \in {findings[i].score : i \in Summarised} \cup {0} :
                      \A i \in Summarised : findings[i].score <= m
  <2>1. /\ pc = "summarise" /\ pc' = "done" /\ UNCHANGED <<input, findings, at, seen, ranked>>
        /\ stats' = [counts |-> counts, total |-> Cardinality(Summarised), max_risk |-> top]
    BY <1>1 DEF SummaryStats
  <2>2. Cardinality(Summarised) = Cardinality({Key(i) : i \in Positions})
    BY <2>1, OneForEachIssue DEF Summarised
  <2>3. top = IF ranked = <<>> THEN 0 ELSE findings[ranked[1]].score
    BY <2>1, FirstHasTheMaximum
  <2>4. Summarised \subseteq Positions /\ IsFiniteSet(Summarised) /\ IsFiniteSet(Labels)
    <3>1. Range(ranked) = Range(seen) /\ Range(seen) \subseteq Positions
      BY <2>1 DEF IInv, RankedReport, Representative, Deduplicated
    <3>2. input \in Seq(Objects)
      BY DEF IInv, TypeOK
    <3>3. Positions = 1..Len(input) /\ Len(input) \in Nat
      BY <3>2, LenProperties DEF Positions
    <3>4. IsFiniteSet(Positions) 
      BY <3>3, FS_Interval
    <3>5. Labels = {"informational", "low", "medium", "high", "critical"}
      <4>1. DOMAIN SEVERITY_BANDS = 1..5
        BY DEF SEVERITY_BANDS
      <4>2. /\ SEVERITY_BANDS[1].label = "informational" /\ SEVERITY_BANDS[2].label = "low"
            /\ SEVERITY_BANDS[3].label = "medium" /\ SEVERITY_BANDS[4].label = "high"
            /\ SEVERITY_BANDS[5].label = "critical"
        BY DEF SEVERITY_BANDS, Band
      <4>3. \A i \in 1..5 : i = 1 \/ i = 2 \/ i = 3 \/ i = 4 \/ i = 5
        OBVIOUS
      <4>4. QED
        BY <4>1, <4>2, <4>3 DEF Labels
    <3>6. IsFiniteSet({"informational", "low", "medium", "high", "critical"})
      <4>1. \A S, x : IsFiniteSet(S) => IsFiniteSet(S \cup {x})
        BY FS_AddElement
      <4>2. IsFiniteSet((((({} \cup {"informational"}) \cup {"low"}) \cup {"medium"}) \cup {"high"})
                          \cup {"critical"})
        BY ONLY <4>1, FS_EmptySet, Zenon
      <4>3. (((({} \cup {"informational"}) \cup {"low"}) \cup {"medium"}) \cup {"high"}) \cup {"critical"}
            = {"informational", "low", "medium", "high", "critical"}
        BY ONLY SMT
      <4>4. QED
        BY ONLY <4>2, <4>3, Zenon
    <3>7. QED
      BY <3>1, <3>4, <3>5, <3>6, FS_Subset DEF Summarised
  <2>5. severity \in [Summarised -> Labels] /\ \A i \in Summarised : severity[i] = findings[i].severity
    BY <2>4 DEF IInv, TypeOK
  <2>6. counts \in [Labels -> Nat]
        /\ \A s \in Labels : counts[s] = Cardinality({i \in Summarised : severity[i] = s})
    <3>1. \A s \in Labels : /\ {i \in Summarised : findings[i].severity = s} \subseteq Summarised
                            /\ {i \in Summarised : severity[i] = s} = {i \in Summarised : findings[i].severity = s}
      BY <2>5
    <3>2. \A s \in Labels : Cardinality({i \in Summarised : findings[i].severity = s}) \in Nat
      BY <2>4, <3>1, FS_Subset, FS_CardinalityType
    <3>3. QED
      BY <3>1, <3>2
  <2>7. SumOf(counts) = Cardinality(Summarised)
    <3> HIDE DEF counts, severity
    <3>1. QED
      BY <2>4, <2>5, <2>6, CountsAddUp DEF SumOf
  <2> HIDE DEF counts, top, severity
  <2>8. stats'.counts = counts /\ stats'.total = Cardinality(Summarised) /\ stats'.max_risk = top
    BY <2>1
  <2>9. {Key(i) : i \in Positions}' = {Key(i) : i \in Positions} /\ ranked' = ranked /\ findings' = findings
    BY <2>1 DEF Positions, Key
  <2>10. /\ stats'.total = Cardinality({Key(i) : i \in Positions}')
         /\ SumOf(stats'.counts) = stats'.total
         /\ stats'.max_risk = IF ranked' = <<>> THEN 0 ELSE findings'[ranked'[1]].score
    BY <2>2, <2>3, <2>7, <2>8, <2>9, Zenon
  <2>11. SumOf(stats'.counts) = SumOf(stats.counts)'
    OBVIOUS
  <2>12. QED
    BY <2>10, <2>11, Zenon DEF StatsMatchReport
<1>2. CASE ScoreAll \/ Deduplicate \/ AttachRemediation \/ Prioritize
  <2>1. pc' # "done"
    BY <1>2 DEF ScoreAll, Deduplicate, AttachRemediation, Prioritize, Over, More
  <2>2. QED
    BY <2>1 DEF StatsMatchReport
<1>3. CASE UNCHANGED vars
  <2>1. /\ pc' = pc /\ stats' = stats /\ ranked' = ranked /\ findings' = findings /\ input' = input
    BY <1>3 DEF vars
  <2>2. {Key(i) : i \in Positions}' = {Key(i) : i \in Positions}
    BY <2>1 DEF Positions, Key
  <2>3. QED
    BY <2>1, <2>2, Zenon DEF StatsMatchReport
<1>4. QED
  BY <1>1, <1>2, <1>3 DEF Next

(***************************************************************************)
(* summary_stats counts each issue of the report once, under one severity, *)
(* and its maximum is the score of the report's first finding.             *)
(***************************************************************************)
THEOREM StatsCorrect == Spec => []StatsMatchReport
<1>1. Init => StatsMatchReport
  BY DEF Init, StatsMatchReport
<1>2. QED
  BY <1>1, StatsStep, Inductive, PTL DEF Spec
=============================================================================

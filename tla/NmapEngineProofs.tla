-------------------------- MODULE NmapEngineProofs --------------------------
(***************************************************************************)
(* The properties of the nmap backend for every command line argparse lets *)
(* through, every port list and every output of nmap's. ParsedAsMeant and  *)
(* SpecDenotes settle the algorithms, by induction over the lists; IInv    *)
(* adds what they do not say: which command is next (Asked), what the runs *)
(* so far may have cost (Costs), and what has been read of their outputs   *)
(* (Heard).                                                                *)
(***************************************************************************)
EXTENDS NmapEngine, ListFacts

P == 0..MaxPort

\* Range and ToSet are two names for the elements of a list.
LEMMA SameElements == \A q : Range(q) = ToSet(q)
BY DEF Range, ToSet

\* The forms of a chunk, and the numbers of a range.
LEMMA ChunkForms ==
  ASSUME NEW c \in Chunks
  PROVE  /\ c.form \in {"blank", "no number", "range"}
         /\ c.form = "range" => c.lo \in Int /\ c.hi \in Int
<1>1. Blank.form = "blank" /\ Junk.form = "no number"
  BY DEF Blank, Junk
<1>2. CASE c \in [form : {"range"}, lo : Int, hi : Int]
  BY <1>2
<1>3. CASE c = Blank \/ c = Junk
  BY <1>1, <1>3
<1>4. QED
  BY <1>2, <1>3 DEF Chunks

\* The ports a chunk names.
Named(c) == IF c.form = "range" THEN c.lo..c.hi ELSE {}
Good(c) == c \in Chunks /\ (c.form = "blank" \/ (c.form = "range" /\ ~OutOfRange(c)))

\* A chunk adds the ports it names that are not there yet.
LEMMA ChunkFacts ==
  ASSUME NEW c, Good(c), NEW list \in Seq(P)
  PROVE  /\ AddChunk(list, c) \in Seq(P)
         /\ ToSet(AddChunk(list, c)) = ToSet(list) \cup Named(c)
<1>1. CASE c.form = "blank"
  BY <1>1 DEF AddChunk, Named
<1>2. CASE c.form = "range" /\ ~OutOfRange(c)
  <2> DEFINE lo == c.lo
             hi == c.hi
             range == [i \in 1..(c.hi - c.lo + 1) |-> c.lo + i - 1]
             T == {p \in c.lo..c.hi : Fresh(list, p)}
  <2>1. c.lo \in Int /\ c.hi \in Int
    BY <1>2, ChunkForms DEF Good
  <2>2. lo \in Int /\ hi \in Int /\ MaxPort \in Nat
    BY <2>1, PortsAssumption
  <2>3. 0 <= lo /\ hi <= MaxPort /\ lo <= hi
    <3>1. ~(c.lo < 0) /\ ~(c.hi > MaxPort) /\ ~(c.lo > c.hi)
      BY <1>2 DEF OutOfRange
    <3>2. ~(lo < 0) /\ ~(hi > MaxPort) /\ ~(lo > hi)
      BY ONLY <3>1, Zenon
    <3> HIDE DEF lo, hi
    <3>3. QED
      BY ONLY <2>2, <3>2
  <2>4. range = [i \in 1..(hi - lo + 1) |-> lo + i - 1]
        /\ T = {p \in lo..hi : p \notin Range(list)} /\ AddChunk(list, c) = list \o Kept(range, T)
        /\ Named(c) = lo..hi
    BY <1>2 DEF AddChunk, Fresh, Named
  <2> HIDE DEF lo, hi, range, T
  <2>5. hi - lo + 1 \in Nat /\ \A i \in 1..(hi - lo + 1) : lo + i - 1 \in lo..hi
    BY ONLY <2>2, <2>3
  <2>6. lo..hi \subseteq P
    BY ONLY <2>2, <2>3 DEF P
  <2>7. range \in Seq(P)
    <3> DEFINE n == hi - lo + 1
    <3>1. n \in Nat /\ range \in [1..n -> P]
      BY <2>4, <2>5, <2>6
    <3> HIDE DEF n
    <3>2. QED
      BY <3>1, SeqDef
  <2>8. ToSet(range) = lo..hi
    <3>1. ToSet(range) = {lo + i - 1 : i \in 1..(hi - lo + 1)}
      BY <2>4 DEF ToSet
    <3>2. \A p \in lo..hi : p - lo + 1 \in 1..(hi - lo + 1) /\ p = lo + (p - lo + 1) - 1
      BY ONLY <2>2, <2>3
    <3>3. QED
      BY <2>5, <3>1, <3>2
  <2>9. Kept(range, T) \in Seq(P) /\ ToSet(Kept(range, T)) = (lo..hi) \cap T
    BY <2>7, <2>8, KeptType, KeptElements
  <2>10. list \o Kept(range, T) \in Seq(P)
         /\ ToSet(list \o Kept(range, T)) = ToSet(list) \cup ToSet(Kept(range, T))
    BY <2>9, ConcatElements
  <2>11. (lo..hi) \cap T = (lo..hi) \ ToSet(list)
    BY <2>4, SameElements
  <2>12. QED
    BY <2>4, <2>9, <2>10, <2>11
<1>3. QED
  BY <1>1, <1>2 DEF Good

ParseIterates(f, chunks) ==
  \A r \in SUBSET (1..Len(chunks)) :
    f[r] = IF r = {} THEN <<>> ELSE AddChunk(f[r \ {Max(r)}], chunks[Max(r)])

\* parse_port_list as an iteration over its chunks: FoldLeft's definition,
\* unfolded.
LEMMA ParseIs ==
  ASSUME NEW chunks \in Seq(Chunks), \A i \in 1..Len(chunks) : Good(chunks[i])
  PROVE  \E f : ParseIterates(f, chunks) /\ ParsePortList(chunks) = f[1..Len(chunks)]
<1> DEFINE n == Len(chunks)
           S == Seq(P)
           step == [p \in S \X (1..n) |-> AddChunk(p[1], chunks[p[2]])]
           Eqn(it) == it = [r \in SUBSET DOMAIN chunks |->
                              IF r = {} THEN <<>> ELSE AddChunk(it[r \ {Max(r)}], chunks[Max(r)])]
           f == CHOOSE it : Eqn(it)
<1>1. n \in Nat /\ DOMAIN chunks = 1..n
  BY LenProperties
<1>2. step \in [S \X (1..n) -> S]
  <2>1. \A list \in S, i \in 1..n : AddChunk(list, chunks[i]) \in S
    BY ChunkFacts
  <2>2. QED
    BY <2>1
<1>3. <<>> \in S
  BY EmptySeq
<1>4. PICK g \in [SUBSET (1..n) -> S] : Iterates(g, <<>>, step, n)
  <2> HIDE DEF step, n, S
  <2>1. QED
    BY <1>1, <1>2, <1>3, IterationExists
<1>5. ASSUME NEW r \in SUBSET (1..n)
      PROVE  g[r] = IF r = {} THEN <<>> ELSE AddChunk(g[r \ {Max(r)}], chunks[Max(r)])
  <2>1. CASE r = {}
    BY <1>4, <2>1 DEF Iterates
  <2>2. CASE r # {}
    <3>1. Max(r) \in 1..n
      BY <1>1, <1>5, <2>2, MaxOfFinite
    <3>2. g[r \ {Max(r)}] \in S
      BY <1>4
    <3>3. g[r] = step[<<g[r \ {Max(r)}], Max(r)>>]
      BY <1>4, <2>2 DEF Iterates
    <3>4. QED
      BY <2>2, <3>1, <3>2, <3>3
  <2>3. QED
    BY <2>1, <2>2
<1>6. Eqn(g)
  <2>1. g = [r \in SUBSET (1..n) |-> g[r]]
    BY <1>4
  <2>2. QED
    BY <1>1, <1>5, <2>1
<1>7. Eqn(f)
  BY <1>6
<1>8. ParsePortList(chunks) = f[DOMAIN chunks]
  BY DEF ParsePortList, FoldLeft, MapThenFoldSet
<1> HIDE DEF f
<1>9. ParseIterates(f, chunks)
  BY <1>1, <1>7 DEF ParseIterates
<1>10. QED
  BY <1>1, <1>8, <1>9

\* What is made of an option that is not refused: the ports that its chunks
\* mean, in whatever order, overlap or repetition (parse_port_list).
THEOREM ParsedAsMeant ==
  ASSUME NEW chunks \in Seq(Chunks), ~Refused(chunks)
  PROVE  ParsePortList(chunks) \in Seq(P) /\ Range(ParsePortList(chunks)) = Meant(chunks)
<1> DEFINE n == Len(chunks)
           U(k) == UNION {Named(chunks[i]) : i \in 1..k}
<1>1. n \in Nat /\ DOMAIN chunks = 1..n /\ \A i \in 1..n : chunks[i] \in Chunks
  BY LenProperties
<1>2. \A i \in 1..n : Good(chunks[i])
  <2>1. ASSUME NEW i \in 1..n PROVE Good(chunks[i])
    <3> DEFINE c == chunks[i]
    <3>1. c \in Chunks /\ c \in Range(chunks)
      BY <1>1 DEF Range
    <3> HIDE DEF c
    <3>2. c.form # "no number" /\ ~(c.form = "range" /\ OutOfRange(c))
      BY ONLY <3>1, ~Refused(chunks), Zenon DEF Refused
    <3>3. c.form \in {"blank", "no number", "range"}
      BY <3>1, ChunkForms
    <3>4. Good(c)
      BY ONLY <3>1, <3>2, <3>3, Zenon DEF Good
    <3>5. QED
      BY <3>4 DEF c
  <2>2. QED
    BY <2>1
<1>3. PICK f : ParseIterates(f, chunks) /\ ParsePortList(chunks) = f[1..n]
  BY <1>2, ParseIs
<1>4. f[1..0] = <<>>
  <2>1. 1..0 = {} /\ 1..0 \in SUBSET (1..n)
    OBVIOUS
  <2>2. QED
    BY <1>3, <2>1 DEF ParseIterates
<1>5. ASSUME NEW k \in 1..n PROVE f[1..k] = AddChunk(f[1..(k - 1)], chunks[k])
  <2>1. k \in Nat /\ k # 0 /\ 1..k \in SUBSET (1..n)
    BY <1>1
  <2>2. Max(1..k) = k /\ (1..k) \ {Max(1..k)} = 1..(k - 1) /\ 1..k # {}
    BY <2>1, LastOfInterval
  <2>3. QED
    BY <1>3, <2>1, <2>2 DEF ParseIterates
<1> DEFINE G == {k \in 0..n : f[1..k] \in Seq(P) /\ ToSet(f[1..k]) = U(k)}
<1>6. 0 \in G
  <2>1. ToSet(<<>>) = {} /\ <<>> \in Seq(P) /\ U(0) = {} /\ 0 \in 0..n
    BY <1>1, EmptySeq DEF ToSet
  <2>2. QED
    BY <1>4, <2>1
<1>7. ASSUME NEW k \in 0..(n - 1), k \in G PROVE k + 1 \in G
  <2>1. k + 1 \in 1..n /\ (k + 1) - 1 = k /\ k + 1 \in 0..n
    BY <1>1
  <2>2. f[1..(k + 1)] = AddChunk(f[1..k], chunks[k + 1])
    BY <1>5, <2>1
  <2>3. Good(chunks[k + 1]) /\ f[1..k] \in Seq(P) /\ ToSet(f[1..k]) = U(k)
    BY <1>2, <1>7, <2>1
  <2>4. U(k + 1) = U(k) \cup Named(chunks[k + 1])
    <3>1. \A i \in 1..(k + 1) : i \in 1..k \/ i = k + 1
      BY <1>1
    <3>2. 1..k \subseteq 1..(k + 1) /\ k + 1 \in 1..(k + 1)
      BY <1>1
    <3>3. QED
      BY <3>1, <3>2
  <2>5. AddChunk(f[1..k], chunks[k + 1]) \in Seq(P)
        /\ ToSet(AddChunk(f[1..k], chunks[k + 1])) = ToSet(f[1..k]) \cup Named(chunks[k + 1])
    BY <2>3, ChunkFacts
  <2>6. QED
    BY <2>1, <2>2, <2>3, <2>4, <2>5
<1> HIDE DEF G
<1>8. n \in G
  <2>1. \A k \in 0..n : k \in G
    BY <1>1, <1>6, <1>7, Climb
  <2>2. QED
    BY <1>1, <2>1
<1>9. U(n) = Meant(chunks)
  <2>1. Range(chunks) = {chunks[i] : i \in 1..n}
    BY <1>1 DEF Range
  <2>2. Meant(chunks) = UNION {Named(c) : c \in Range(chunks)}
    BY DEF Meant, Named
  <2>3. QED
    BY <2>1, <2>2
<1>10. QED
  BY <1>3, <1>8, <1>9, SameElements DEF G

-----------------------------------------------------------------------------
\* Collapsing: the runs so far, and the one that is open.
Accs == [runs : Seq(P \X P), start : P, prev : P]
SpecIterates(f, base, rest) ==
  \A r \in SUBSET (1..Len(rest)) :
    f[r] = IF r = {} THEN base ELSE Extend(f[r \ {Max(r)}], rest[Max(r)])

\* One more port keeps the accumulator's types.
LEMMA ExtendType ==
  ASSUME NEW acc \in Accs, NEW p \in P
  PROVE  Extend(acc, p) \in Accs
<1> DEFINE run == <<acc.start, acc.prev>>
<1>1. acc.runs \in Seq(P \X P) /\ run \in P \X P
  BY DEF Accs
<1> HIDE DEF P
<1>2. Append(acc.runs, run) \in Seq(P \X P)
  <2> HIDE DEF run
  <2>1. QED
    BY <1>1, AppendProperties
<1>3. QED
  BY <1>2 DEF Extend, Accs

\* _port_spec's loop as an iteration: FoldLeft's definition, unfolded.
LEMMA SpecIs ==
  ASSUME NEW rest \in Seq(P), NEW base \in Accs
  PROVE  \E f : SpecIterates(f, base, rest) /\ FoldLeft(Extend, base, rest) = f[1..Len(rest)]
<1> DEFINE n == Len(rest)
           step == [p \in Accs \X (1..n) |-> Extend(p[1], rest[p[2]])]
           Eqn(it) == it = [r \in SUBSET DOMAIN rest |->
                              IF r = {} THEN base ELSE Extend(it[r \ {Max(r)}], rest[Max(r)])]
           f == CHOOSE it : Eqn(it)
<1>1. n \in Nat /\ DOMAIN rest = 1..n /\ \A i \in 1..n : rest[i] \in P
  BY LenProperties
<1>2. step \in [Accs \X (1..n) -> Accs]
  <2>1. \A acc \in Accs, i \in 1..n : Extend(acc, rest[i]) \in Accs
    BY <1>1, ExtendType
  <2>2. QED
    BY <2>1
<1>4. PICK g \in [SUBSET (1..n) -> Accs] : Iterates(g, base, step, n)
  <2> HIDE DEF step, n
  <2>1. QED
    BY <1>1, <1>2, IterationExists
<1>5. ASSUME NEW r \in SUBSET (1..n)
      PROVE  g[r] = IF r = {} THEN base ELSE Extend(g[r \ {Max(r)}], rest[Max(r)])
  <2>1. CASE r = {}
    BY <1>4, <2>1 DEF Iterates
  <2>2. CASE r # {}
    <3>1. Max(r) \in 1..n
      BY <1>1, <1>5, <2>2, MaxOfFinite
    <3>2. g[r \ {Max(r)}] \in Accs
      BY <1>4
    <3>3. g[r] = step[<<g[r \ {Max(r)}], Max(r)>>]
      BY <1>4, <2>2 DEF Iterates
    <3>4. QED
      BY <2>2, <3>1, <3>2, <3>3
  <2>3. QED
    BY <2>1, <2>2
<1>6. Eqn(g)
  <2>1. g = [r \in SUBSET (1..n) |-> g[r]]
    BY <1>4
  <2>2. QED
    BY <1>1, <1>5, <2>1
<1>7. Eqn(f)
  BY <1>6
<1>8. FoldLeft(Extend, base, rest) = f[DOMAIN rest]
  BY DEF FoldLeft, MapThenFoldSet
<1> HIDE DEF f
<1>9. SpecIterates(f, base, rest)
  BY <1>1, <1>7 DEF SpecIterates
<1>10. QED
  BY <1>1, <1>8, <1>9

\* The ports of the runs so far, the open one included.
Covered(acc) == Denotes(acc.runs) \cup (acc.start)..(acc.prev)

\* One more port is covered, and no other: it extends the last range or begins
\* one.
LEMMA ExtendCovers ==
  ASSUME NEW acc \in Accs, acc.start <= acc.prev, NEW p \in P
  PROVE  /\ Extend(acc, p).start <= Extend(acc, p).prev
         /\ Covered(Extend(acc, p)) = Covered(acc) \cup {p}
<1> DEFINE start == acc.start
           prev == acc.prev
           runs == acc.runs
           run == <<start, prev>>
<1>0. start \in Nat /\ prev \in Nat /\ p \in Nat /\ start <= prev
      /\ runs \in Seq(P \X P) /\ run \in P \X P /\ start \in P /\ prev \in P
  BY PortsAssumption DEF Accs, P
<1>1. CASE p = acc.prev + 1
  <2>1. Extend(acc, p) = [acc EXCEPT !.prev = p]
    BY <1>1 DEF Extend
  <2>2. Extend(acc, p).start = start /\ Extend(acc, p).prev = p /\ Extend(acc, p).runs = runs
    BY <2>1 DEF Accs
  <2>3. p = prev + 1
    BY <1>1
  <2> HIDE DEF start, prev, runs, run
  <2>4. start <= p /\ start..p = (start..prev) \cup {p}
    BY ONLY <1>0, <2>3
  <2>5. Covered(acc) = Denotes(runs) \cup start..prev
    BY DEF Covered, start, prev, runs
  <2>6. QED
    BY <2>2, <2>4, <2>5 DEF Covered
<1>2. CASE p # acc.prev + 1
  <2>1. Extend(acc, p) = [runs |-> Append(runs, run), start |-> p, prev |-> p]
    BY <1>2 DEF Extend
  <2>2. Extend(acc, p).start = p /\ Extend(acc, p).prev = p
        /\ Extend(acc, p).runs = Append(runs, run)
    BY <2>1
  <2>3. run[1] = start /\ run[2] = prev
    OBVIOUS
  <2>4. Covered(acc) = Denotes(runs) \cup start..prev
    BY DEF Covered
  <2> HIDE DEF start, prev, runs, run
  <2>5. Range(Append(runs, run)) = Range(runs) \cup {run}
    BY <1>0, AppendElements, SameElements
  <2>6. Denotes(Append(runs, run)) = Denotes(runs) \cup start..prev
    BY <2>3, <2>5 DEF Denotes
  <2>7. p <= p /\ p..p = {p}
    BY <1>0
  <2>8. QED
    BY <2>2, <2>4, <2>6, <2>7 DEF Covered
<1>3. QED
  BY <1>1, <1>2

\* Collapsing a list into ranges neither loses nor adds a port, whether it is
\* sorted or not (_port_spec).
THEOREM SpecDenotes ==
  ASSUME NEW list \in Seq(P), list # <<>>
  PROVE  PortSpec(list) \in Seq(P \X P) /\ Denotes(PortSpec(list)) = Range(list)
<1> DEFINE n == Len(list) - 1
           rest == Tail(list)
           base == [runs |-> <<>>, start |-> list[1], prev |-> list[1]]
           last == FoldLeft(Extend, base, rest)
           U(k) == {list[i] : i \in 1..(k + 1)}
<1>1. Len(list) \in Nat /\ Len(list) # 0 /\ n \in Nat /\ DOMAIN list = 1..(n + 1)
      /\ \A i \in 1..(n + 1) : list[i] \in P
  BY LenProperties, EmptySeq
<1>2. rest \in Seq(P) /\ Len(rest) = n /\ \A i \in 1..n : rest[i] = list[i + 1]
  BY <1>1
<1>3. base \in Accs /\ base.start = list[1] /\ base.prev = list[1] /\ base.runs = <<>>
  <2>1. list[1] \in P
    BY <1>1
  <2>2. <<>> \in Seq(P \X P)
    BY EmptySeq
  <2> HIDE DEF P
  <2>3. QED
    BY <2>1, <2>2 DEF Accs
<1>4. PortSpec(list) = Closed(last)
  BY DEF PortSpec
<1> HIDE DEF base, rest
<1>5. PICK f : SpecIterates(f, base, rest) /\ last = f[1..n]
  BY <1>2, <1>3, SpecIs
<1> HIDE DEF last
<1>6. f[1..0] = base
  <2>1. 1..0 = {} /\ 1..0 \in SUBSET (1..n)
    OBVIOUS
  <2>2. QED
    BY <1>2, <1>5, <2>1 DEF SpecIterates
<1>7. ASSUME NEW k \in 1..n PROVE f[1..k] = Extend(f[1..(k - 1)], list[k + 1])
  <2>1. k \in Nat /\ k # 0 /\ 1..k \in SUBSET (1..n)
    BY <1>1
  <2>2. Max(1..k) = k /\ (1..k) \ {Max(1..k)} = 1..(k - 1) /\ 1..k # {}
    BY <2>1, LastOfInterval
  <2>3. QED
    BY <1>2, <1>5, <2>1, <2>2 DEF SpecIterates
<1> DEFINE G == {k \in 0..n : /\ f[1..k] \in Accs /\ f[1..k].start <= f[1..k].prev
                              /\ Covered(f[1..k]) = U(k)}
<1>8. 0 \in G
  <2>1. 0 \in 0..n /\ U(0) = {list[1]} /\ list[1] \in Nat
    <3>1. 1..(0 + 1) = {1}
      OBVIOUS
    <3>2. list[1] \in P
      BY <1>1
    <3>3. QED
      BY <1>1, <3>1, <3>2, PortsAssumption DEF P
  <2>2. Denotes(<<>>) = {}
    BY DEF Denotes, Range
  <2>3. list[1]..list[1] = {list[1]} /\ list[1] <= list[1]
    BY <2>1
  <2>4. Covered(base) = {list[1]}
    BY <1>3, <2>2, <2>3 DEF Covered
  <2>5. QED
    BY <1>3, <1>6, <2>1, <2>3, <2>4
<1>9. ASSUME NEW k \in 0..(n - 1), k \in G PROVE k + 1 \in G
  <2>1. k + 1 \in 1..n /\ (k + 1) - 1 = k /\ k + 1 \in 0..n /\ (k + 1) + 1 \in 1..(n + 1)
    BY <1>1
  <2> DEFINE p == list[(k + 1) + 1]
             acc == f[1..k]
             new == f[1..(k + 1)]
  <2>2. new = Extend(acc, p)
    BY <1>7, <2>1
  <2>3. p \in P /\ acc \in Accs /\ acc.start <= acc.prev /\ Covered(acc) = U(k)
    BY <1>1, <1>9, <2>1
  <2>4. U(k + 1) = U(k) \cup {p}
    <3>1. \A i \in 1..((k + 1) + 1) : i \in 1..(k + 1) \/ i = (k + 1) + 1
      BY <1>1
    <3>2. 1..(k + 1) \subseteq 1..((k + 1) + 1) /\ (k + 1) + 1 \in 1..((k + 1) + 1)
      BY <1>1
    <3>3. QED
      BY <3>1, <3>2
  <2> HIDE DEF acc, p, new, U
  <2>5. new \in Accs /\ new.start <= new.prev /\ Covered(new) = U(k + 1)
    BY <2>2, <2>3, <2>4, ExtendType, ExtendCovers
  <2>6. QED
    BY <2>1, <2>5 DEF new
<1> HIDE DEF G
<1>10. n \in G
  <2>1. \A k \in 0..n : k \in G
    BY <1>1, <1>8, <1>9, Climb
  <2>2. QED
    BY <1>1, <2>1
<1>11. last \in Accs /\ Covered(last) = Range(list)
  <2>1. U(n) = Range(list)
    BY <1>1 DEF Range
  <2>2. last \in Accs /\ Covered(last) = U(n)
    BY <1>5, <1>10 DEF G
  <2>3. QED
    BY <2>1, <2>2
<1>12. Closed(last) \in Seq(P \X P) /\ Denotes(Closed(last)) = Covered(last)
  <2> DEFINE run == <<last.start, last.prev>>
             runs == last.runs
  <2>1. runs \in Seq(P \X P) /\ run \in P \X P
    BY <1>11 DEF Accs
  <2>2. Closed(last) = Append(runs, run) /\ run[1] = last.start /\ run[2] = last.prev
        /\ Covered(last) = Denotes(runs) \cup (last.start)..(last.prev)
    BY DEF Closed, Covered
  <2> HIDE DEF run, runs, P
  <2>3. Append(runs, run) \in Seq(P \X P) /\ Range(Append(runs, run)) = Range(runs) \cup {run}
    BY <2>1, AppendElements, SameElements
  <2>4. QED
    BY <2>2, <2>3 DEF Denotes
<1>13. QED
  BY <1>4, <1>11, <1>12

-----------------------------------------------------------------------------
\* A list or, if it is empty, another.
LEMMA OrDefaultFacts ==
  ASSUME NEW S, NEW list \in Seq(S), NEW default \in Seq(S)
  PROVE  /\ OrDefault(list, default) \in Seq(S)
         /\ Range(OrDefault(list, default)) = OrElse(Range(list), Range(default))
         /\ default # <<>> => OrDefault(list, default) # <<>>
<1>1. Range(list) = {} <=> list = <<>>
  <2>1. DOMAIN list = 1..Len(list) /\ Len(list) \in Nat
    BY LenProperties
  <2>2. list # <<>> => 1 \in DOMAIN list
    BY <2>1, EmptySeq
  <2>3. QED
    BY <2>2 DEF Range
<1>2. QED
  BY <1>1 DEF OrDefault, OrElse

\* The presets are lists of ports.
LEMMA PresetType ==
  ASSUME NEW name \in {"none", "fast", "all"}
  PROVE  Preset(name) \in Seq(P)
<1>1. CASE name = "all"
  <2> DEFINE n == MaxPort + 1
  <2>1. n \in Nat /\ \A i \in 1..n : i - 1 \in P
    BY PortsAssumption DEF P
  <2>2. Preset(name) = [i \in 1..n |-> i - 1]
    BY <1>1 DEF Preset
  <2> HIDE DEF n
  <2>3. Preset(name) \in [1..n -> P]
    BY <2>1, <2>2
  <2>4. QED
    BY <2>1, <2>3, SeqDef
<1>2. CASE name = "fast"
  BY <1>2, PortsAssumption DEF Preset, P
<1>3. CASE name = "none"
  BY <1>3, EmptySeq DEF Preset
<1>4. QED
  BY <1>1, <1>2, <1>3

\* What main makes of a command line that argparse accepts.
THEOREM ConfiguredAsMeant ==
  ASSUME args \in CommandLines, Accepted(args)
  PROVE  LET c == Configured(args)
         IN  /\ c.tcp \in Seq(P) /\ c.tcp # <<>> /\ Range(c.tcp) = TcpMeant
             /\ c.udp \in Seq(P) /\ c.udp # <<>>
             /\ Range(c.udp) = OrElse(Meant(args.udp_ports), Range(DefaultUdpPorts))
             /\ c.scan_type \in DOMAIN TechniqueFlags
<1> DEFINE D == DefaultPorts
           sel == Selected(args)
           excluded == Range(ParsePortList(args.exclude))
           main == MainPorts(args)
           chosen == OrElse(Meant(args.ports), Range(Preset(args.preset)))
<1>1. /\ args.ports \in Seq(Chunks) /\ args.exclude \in Seq(Chunks) /\ args.udp_ports \in Seq(Chunks)
      /\ args.scan_type \in {"connect", "syn", "ack", "null", "fin", "xmas"}
      /\ args.preset \in {"none", "fast", "all"}
  BY NmapAssumption
<1>2. ~Refused(args.ports) /\ ~Refused(args.exclude) /\ ~Refused(args.udp_ports)
  BY DEF Accepted
<1>3. D \in Seq(P) /\ D # <<>> /\ DefaultUdpPorts \in Seq(P) /\ DefaultUdpPorts # <<>>
  BY PortsAssumption DEF P
<1>4. sel \in Seq(P) /\ Range(sel) = chosen
  <2>1. ParsePortList(args.ports) \in Seq(P) /\ Range(ParsePortList(args.ports)) = Meant(args.ports)
    BY <1>1, <1>2, ParsedAsMeant
  <2>2. Preset(args.preset) \in Seq(P)
    BY <1>1, PresetType
  <2>3. QED
    BY <2>1, <2>2, OrDefaultFacts DEF Selected
<1>5. excluded = Meant(args.exclude)
  BY <1>1, <1>2, ParsedAsMeant
<1>6. main = IF excluded = {} THEN sel ELSE Kept(OrDefault(sel, D), P \ excluded)
  BY DEF MainPorts, P
<1>7. TcpMeant = OrElse(OrElse(chosen, Range(D)) \ Meant(args.exclude), Range(D))
  BY DEF TcpMeant
<1> HIDE DEF sel, main, chosen, excluded, D
<1>8. OrDefault(sel, D) \in Seq(P) /\ Range(OrDefault(sel, D)) = OrElse(chosen, Range(D))
      /\ Range(OrDefault(sel, D)) \subseteq P
  <2>1. OrDefault(sel, D) \in Seq(P) /\ Range(OrDefault(sel, D)) = OrElse(chosen, Range(D))
    BY <1>3, <1>4, OrDefaultFacts
  <2>2. QED
    BY <2>1, LenProperties DEF Range
<1>9. main \in Seq(P) /\ OrElse(Range(main), Range(D)) = TcpMeant
  <2>1. CASE excluded = {}
    <3>1. OrElse(OrElse(chosen, Range(D)), Range(D)) = OrElse(chosen, Range(D))
      BY DEF OrElse
    <3>2. OrElse(chosen, Range(D)) \ Meant(args.exclude) = OrElse(chosen, Range(D))
      BY <1>5, <2>1
    <3>3. QED
      BY <1>4, <1>6, <1>7, <2>1, <3>1, <3>2
  <2>2. CASE excluded # {}
    <3>1. main = Kept(OrDefault(sel, D), P \ excluded)
      BY <1>6, <2>2
    <3>2. main \in Seq(P) /\ Range(main) = Range(OrDefault(sel, D)) \cap (P \ excluded)
      BY <1>8, <3>1, KeptType, KeptElements, SameElements
    <3>3. Range(main) = OrElse(chosen, Range(D)) \ Meant(args.exclude)
      BY <1>5, <1>8, <3>2
    <3>4. QED
      BY <1>7, <3>2, <3>3
  <2>3. QED
    BY <2>1, <2>2
<1>10. LET tcp == OrDefault(MainPorts(args), DefaultPorts)
       IN  tcp \in Seq(P) /\ tcp # <<>> /\ Range(tcp) = TcpMeant
  BY <1>3, <1>9, OrDefaultFacts DEF main, D
<1>11. LET udp == OrDefault(ParsePortList(args.udp_ports), DefaultUdpPorts)
       IN  udp \in Seq(P) /\ udp # <<>>
           /\ Range(udp) = OrElse(Meant(args.udp_ports), Range(DefaultUdpPorts))
  <2>1. ParsePortList(args.udp_ports) \in Seq(P)
        /\ Range(ParsePortList(args.udp_ports)) = Meant(args.udp_ports)
    BY <1>1, <1>2, ParsedAsMeant
  <2>2. QED
    BY <1>3, <2>1, OrDefaultFacts
<1>12. ScanType(args) \in DOMAIN TechniqueFlags
  BY <1>1 DEF ScanType, TechniqueFlags
<1>13. QED
  BY <1>10, <1>11, <1>12 DEF Configured

-----------------------------------------------------------------------------
TcpBudget == Budget(Len(cfg.tcp))
UdpBudget == Budget(Len(cfg.udp))
TcpCost == IF cfg.scan_type = "syn" THEN 2 * TcpBudget ELSE TcpBudget
UdpCost == IF args.udp THEN UdpBudget ELSE 0

\* What nmap may write.
Elements == [protocol : {"tcp", "udp"}, portid : P \cup {Unreadable}, state : {"open", "filtered"}]
Shaped(o) == /\ o.text \in {"empty", "cut off", "xml"} /\ o.ports \in Seq(Elements)
             /\ o.ports = <<>> \/ (o.text = "xml" /\ o.host /\ o.up)

\* The open ones of a list of results.
OpenOf(s) == {<<e.protocol, e.portid>> : e \in {x \in Range(s) : x.state = "open"}}

\* The configuration is that of the command line.
Settled == args \in CommandLines /\ Accepted(args) /\ cfg = Configured(args)

\* Which command is next, and what those that were run asked for.
Asked ==
  /\ pc = "tcp" => cmd = TcpCommand(cfg)
  /\ pc = "tcp again" => /\ cmd = [TcpCommand(cfg) EXCEPT !.techniques = {"sT"}]
                         /\ cfg.scan_type = "syn"
  /\ pc = "udp" => cmd = UdpCommand
  /\ pc \in {"udp", "udp output"} => args.udp
  /\ \A c \in Range(ran) :
       c.spec = IF "sU" \in c.techniques THEN PortSpec(cfg.udp) ELSE PortSpec(cfg.tcp)

\* What the runs so far may have cost.
Costs ==
  /\ pc = "tcp" => spent = 0
  /\ pc = "tcp again" => spent <= TcpBudget
  /\ pc \in {"tcp output", "udp"} => spent <= TcpCost
  /\ spent <= TcpCost + UdpCost

\* What the output says, and what was read of it.
Heard ==
  /\ Shaped(out)
  /\ pc \in {"udp", "udp output", "done"} => OpenOf(ports) = told

IInv == TypeOK /\ Settled /\ Asked /\ Costs /\ Heard

-----------------------------------------------------------------------------
\* A budget is a number of seconds.
LEMMA BudgetType ==
  ASSUME args.host_timeout \in Nat, NEW n \in Nat
  PROVE  Budget(n) \in Nat
<1> DEFINE k == AtLeast(1, Threads)
           x == n * Probe
           need == x \div k + 30
<1>1. k \in Nat /\ k # 0
  BY NmapAssumption DEF AtLeast
<1>2. x \in Nat
  BY NmapAssumption
<1> HIDE DEF k, x
<1>3. need \in Int
  BY <1>1, <1>2
<1>4. Budget(n) = IF args.host_timeout > 0 THEN args.host_timeout + 60 ELSE AtLeast(60, AtMost(1800, need))
  BY DEF Budget, x, k
<1> HIDE DEF need
<1>5. AtLeast(60, AtMost(1800, need)) \in Nat
  BY <1>3 DEF AtLeast, AtMost
<1>6. args.host_timeout + 60 \in Nat
  OBVIOUS
<1>7. QED
  BY <1>4, <1>5, <1>6

\* What the configuration of a command line is: the ports meant, and what they
\* may cost.
LEMMA SettledFacts ==
  ASSUME Settled
  PROVE  /\ cfg.tcp \in Seq(P) /\ cfg.tcp # <<>> /\ Range(cfg.tcp) = TcpMeant
         /\ cfg.udp \in Seq(P) /\ cfg.udp # <<>>
         /\ Range(cfg.udp) = OrElse(Meant(args.udp_ports), Range(DefaultUdpPorts))
         /\ cfg.scan_type \in DOMAIN TechniqueFlags
         /\ args.udp \in BOOLEAN
         /\ TcpBudget \in Nat /\ UdpBudget \in Nat /\ TcpCost \in Nat /\ UdpCost \in Nat
         /\ TcpBudget <= TcpCost
         /\ cfg.scan_type = "syn" => TcpCost = TcpBudget + TcpBudget
         /\ args.udp => UdpCost = UdpBudget
<1>1. args.udp \in BOOLEAN /\ args.host_timeout \in Nat
  BY NmapAssumption DEF Settled
<1>2. /\ cfg.tcp \in Seq(P) /\ cfg.tcp # <<>> /\ Range(cfg.tcp) = TcpMeant
      /\ cfg.udp \in Seq(P) /\ cfg.udp # <<>>
      /\ Range(cfg.udp) = OrElse(Meant(args.udp_ports), Range(DefaultUdpPorts))
      /\ cfg.scan_type \in DOMAIN TechniqueFlags
  BY ConfiguredAsMeant DEF Settled
<1>3. Len(cfg.tcp) \in Nat /\ Len(cfg.udp) \in Nat
  BY <1>2, LenProperties
<1>4. TcpBudget \in Nat /\ UdpBudget \in Nat
  BY <1>1, <1>3, BudgetType DEF TcpBudget, UdpBudget
<1>5. TcpCost \in Nat /\ TcpBudget <= TcpCost /\ (cfg.scan_type = "syn" => TcpCost = TcpBudget + TcpBudget)
  <2>1. CASE cfg.scan_type = "syn"
    <3>1. TcpCost = 2 * TcpBudget
      BY <2>1 DEF TcpCost
    <3>2. TcpCost \in Nat /\ TcpBudget <= TcpCost /\ TcpCost = TcpBudget + TcpBudget
      BY ONLY <1>4, <3>1
    <3>3. QED
      BY <3>2
  <2>2. CASE cfg.scan_type # "syn"
    <3>1. TcpCost = TcpBudget
      BY <2>2 DEF TcpCost
    <3>2. QED
      BY <1>4, <2>2, <3>1
  <2>3. QED
    BY <2>1, <2>2
<1>6. UdpCost \in Nat /\ (args.udp => UdpCost = UdpBudget)
  BY <1>4 DEF UdpCost
<1>7. QED
  BY <1>1, <1>2, <1>4, <1>5, <1>6

\* The commands main leads to.
LEMMA CommandFacts ==
  ASSUME Settled
  PROVE  /\ TcpCommand(cfg) \in Commands /\ UdpCommand \in Commands
         /\ [TcpCommand(cfg) EXCEPT !.techniques = {"sT"}] \in Commands
         /\ TcpCommand(cfg).spec = PortSpec(cfg.tcp) /\ "sU" \notin TcpCommand(cfg).techniques
         /\ "sS" \in TcpCommand(cfg).techniques => cfg.scan_type = "syn"
         /\ [TcpCommand(cfg) EXCEPT !.techniques = {"sT"}].spec = PortSpec(cfg.tcp)
         /\ "sU" \notin [TcpCommand(cfg) EXCEPT !.techniques = {"sT"}].techniques
         /\ UdpCommand.spec = PortSpec(cfg.udp) /\ "sU" \in UdpCommand.techniques
<1> DEFINE tcp == PortSpec(cfg.tcp)
           udp == PortSpec(cfg.udp)
           Flags == SUBSET ({"sU"} \cup Range(TechniqueFlags))
           flag == TechniqueFlags[cfg.scan_type]
<1>1. tcp \in Seq(P \X P) /\ udp \in Seq(P \X P)
  BY SettledFacts, SpecDenotes
<1>2. Commands = [techniques : Flags, spec : Seq(P \X P)]
  BY DEF Commands, P
<1>3. /\ flag \in {"sT", "sS", "sA", "sN", "sF", "sX"} /\ flag \in Range(TechniqueFlags)
      /\ "sT" \in Range(TechniqueFlags) /\ (flag = "sS" => cfg.scan_type = "syn")
  <2>1. cfg.scan_type \in DOMAIN TechniqueFlags
    BY SettledFacts
  <2>2. "connect" \in DOMAIN TechniqueFlags /\ TechniqueFlags["connect"] = "sT"
    BY DEF TechniqueFlags
  <2>3. flag \in {"sT", "sS", "sA", "sN", "sF", "sX"} /\ (flag = "sS" => cfg.scan_type = "syn")
    BY <2>1 DEF TechniqueFlags
  <2>4. QED
    BY <2>1, <2>2, <2>3 DEF Range
<1>4. TcpCommand(cfg) = [techniques |-> {flag}, spec |-> tcp]
      /\ UdpCommand = [techniques |-> {"sU", "sT"}, spec |-> udp]
  BY DEF TcpCommand, UdpCommand
<1>5. [TcpCommand(cfg) EXCEPT !.techniques = {"sT"}] = [techniques |-> {"sT"}, spec |-> tcp]
  BY <1>4
<1>6. {flag} \in Flags /\ {"sU", "sT"} \in Flags /\ {"sT"} \in Flags
  BY <1>3
<1> HIDE DEF tcp, udp, Flags, flag, P
<1>7. /\ [techniques |-> {flag}, spec |-> tcp] \in Commands
      /\ [techniques |-> {"sU", "sT"}, spec |-> udp] \in Commands
      /\ [techniques |-> {"sT"}, spec |-> tcp] \in Commands
  BY <1>1, <1>2, <1>6
<1>8. "sU" \notin {flag} /\ ("sS" \in {flag} => cfg.scan_type = "syn") /\ "sU" \notin {"sT"}
  BY <1>3
<1>9. QED
  BY <1>4, <1>5, <1>7, <1>8 DEF tcp, udp

\* What nmap may write has the shape parse_nmap_xml expects, or no elements.
LEMMA OutputsShaped ==
  ASSUME NEW c \in Commands, NEW o \in Outputs(c)
  PROVE  Shaped(o)
<1>1. <<>> \in Seq(Elements)
  BY EmptySeq
<1>2. Denotes(c.spec) \subseteq P
  <2>1. c.spec \in Seq(P \X P)
    BY DEF Commands, P
  <2>2. Range(c.spec) \subseteq P \X P
    BY <2>1, LenProperties DEF Range
  <2>3. \A x, y \in P : x..y \subseteq P
    BY PortsAssumption DEF P
  <2>4. QED
    BY <2>2, <2>3 DEF Denotes
<1>3. ASSUME NEW protocol \in {"tcp", "udp"}, NEW p \in P \cup {Unreadable}, NEW s \in {"open", "filtered"}
      PROVE  <<Element(protocol, p, s)>> \in Seq(Elements)
  <2>1. Element(protocol, p, s) \in Elements
    BY DEF Element, Elements
  <2>2. \A e \in Elements : <<e>> \in Seq(Elements)
    OBVIOUS
  <2>3. QED
    BY <2>1, <2>2
<1>4. ASSUME NEW protocol \in {"tcp", "udp"} PROVE Listing(c, protocol) \subseteq Seq(Elements)
  <2>1. \A p \in Denotes(c.spec), s \in {"open", "filtered"} :
          <<Element(protocol, p, s)>> \in Seq(Elements)
    BY <1>2, <1>3
  <2>2. \A l \in Listing(c, protocol) :
          l = <<>> \/ \E p \in Denotes(c.spec), s \in {"open", "filtered"} :
                        l = <<Element(protocol, p, s)>>
    BY SMT DEF Listing
  <2>3. QED
    BY <1>1, <2>1, <2>2, Zenon
<1>5. ASSUME NEW l \in Listings(c) PROVE l \in Seq(Elements)
  <2>1. Broken \subseteq Seq(Elements)
    BY <1>1, <1>3 DEF Broken
  <2>2. PICK b \in Broken, t \in Listing(c, "tcp"), u \in Listing(c, "udp") : l = b \o t \o u
    BY <1>5, SMT DEF Listings
  <2>3. b \in Seq(Elements) /\ t \in Seq(Elements) /\ u \in Seq(Elements)
    BY <1>4, <2>1
  <2>4. QED
    BY <2>2, <2>3
<1>6. CASE o \in {Empty, Cut, Xml(FALSE, FALSE, <<>>), Xml(TRUE, FALSE, <<>>)}
  <2>1. /\ Empty.ports = <<>> /\ Empty.text = "empty"
        /\ Cut.ports = <<>> /\ Cut.text = "cut off"
    BY DEF Empty, Cut
  <2>2. \A h, u \in BOOLEAN : Xml(h, u, <<>>).ports = <<>> /\ Xml(h, u, <<>>).text = "xml"
    BY DEF Xml
  <2>3. o.ports = <<>> /\ o.text \in {"empty", "cut off", "xml"}
    BY <1>6, <2>1, <2>2, Zenon
  <2>4. QED
    BY <1>1, <2>3, Zenon DEF Shaped
<1>7. ASSUME NEW l \in Listings(c), o = Xml(TRUE, TRUE, l) PROVE Shaped(o)
  BY <1>5, <1>7 DEF Xml, Shaped
<1>8. QED
  BY <1>6, <1>7 DEF Outputs

-----------------------------------------------------------------------------
\* What parse_nmap_xml makes of an output.
LEMMA ParsedFacts ==
  ASSUME NEW o, Shaped(o)
  PROVE  /\ Parsed(o) \in Seq(Results) /\ OpenOf(Parsed(o)) = OpenIn(o)
         /\ TcpResults(o) = Parsed(o) /\ UdpResults(o) = Parsed(o)
         /\ OpenIn(o) \subseteq {"tcp", "udp"} \X P
<1> DEFINE s == o.ports
           T == {e \in Range(s) : Readable(e)}
<1>1. s \in Seq(Elements) /\ DOMAIN s = 1..Len(s) /\ Range(s) \subseteq Elements
  <2>1. s \in Seq(Elements)
    BY DEF Shaped
  <2> HIDE DEF s
  <2>2. QED
    BY <2>1, LenProperties DEF Range
<1>2. Parsed(o) = Kept(s, T)
  BY DEF Parsed
<1>3. \A e \in T : e \in Results
  BY <1>1 DEF Elements, Results, Readable, P
<1> HIDE DEF T
<1>4. Kept(s, T) \in Seq(Elements) /\ Range(Kept(s, T)) = Range(s) \cap T
  <2> HIDE DEF s
  <2>1. QED
    BY <1>1, KeptType, KeptElements, SameElements
<1>5. Parsed(o) \in Seq(Results) /\ Range(Parsed(o)) = T
  <2> DEFINE q == Kept(s, T)
             n == Len(q)
  <2>1. Range(q) = T
    BY <1>4 DEF T
  <2>2. n \in Nat /\ DOMAIN q = 1..n /\ q = [i \in 1..n |-> q[i]]
    BY <1>4, LenProperties
  <2> HIDE DEF q, n, s
  <2>3. \A i \in 1..n : q[i] \in Results
    BY <1>3, <2>1, <2>2 DEF Range
  <2>4. q \in [1..n -> Results]
    BY <2>2, <2>3
  <2>5. QED
    BY <1>2, <2>1, <2>2, <2>4, SeqDef DEF q
<1>6. OpenIn(o) = {<<e.protocol, e.portid>> : e \in {x \in T : x.state = "open"}}
  <2>1. OpenIn(o) = {<<s[i].protocol, s[i].portid>> : i \in {j \in DOMAIN s : Readable(s[j]) /\ s[j].state = "open"}}
    BY DEF OpenIn
  <2>2. T = {s[j] : j \in {i \in DOMAIN s : Readable(s[i])}}
    BY DEF T, Range
  <2> HIDE DEF s
  <2>3. QED
    BY <2>1, <2>2
<1>7. OpenOf(Parsed(o)) = OpenIn(o)
  BY <1>5, <1>6 DEF OpenOf
<1>8. OpenIn(o) \subseteq {"tcp", "udp"} \X P
  BY <1>3, <1>6 DEF Results, P
<1>9. TcpResults(o) = Parsed(o) /\ UdpResults(o) = Parsed(o)
  <2>1. CASE o.text = "xml" /\ o.host /\ o.up
    BY <2>1 DEF TcpResults, UdpResults
  <2>2. CASE ~(o.text = "xml" /\ o.host /\ o.up)
    <3>1. s = <<>>
      BY <2>2 DEF Shaped
    <3>2. Parsed(o) = <<>>
      BY <1>2, <3>1, KeptEmpty
    <3>3. QED
      BY <3>2 DEF TcpResults, UdpResults
  <2>3. QED
    BY <2>1, <2>2
<1>10. QED
  BY <1>5, <1>7, <1>8, <1>9

\* The open ports of two lists of results in a row.
LEMMA OpenOfConcat ==
  ASSUME NEW s \in Seq(Results), NEW t \in Seq(Results)
  PROVE  s \o t \in Seq(Results) /\ OpenOf(s \o t) = OpenOf(s) \cup OpenOf(t)
<1>1. s \o t \in Seq(Results) /\ Range(s \o t) = Range(s) \cup Range(t)
  BY ConcatElements, SameElements
<1>2. QED
  BY <1>1 DEF OpenOf

\* The open ports, by position and by element.
LEMMA OpenByPosition ==
  ASSUME NEW s
  PROVE  {<<s[i].protocol, s[i].portid>> : i \in {j \in DOMAIN s : s[j].state = "open"}} = OpenOf(s)
BY DEF OpenOf, Range

-----------------------------------------------------------------------------
\* What a command that is run has been asked for.
AsksFor(c) == c.spec = IF "sU" \in c.techniques THEN PortSpec(cfg.udp) ELSE PortSpec(cfg.tcp)

\* While command line and configuration stay, so do budgets, costs and
\* commands.
LEMMA Frame ==
  ASSUME Settled, UNCHANGED <<args, cfg>>
  PROVE  /\ Settled' /\ TcpBudget' = TcpBudget /\ UdpBudget' = UdpBudget
         /\ TcpCost' = TcpCost /\ UdpCost' = UdpCost
         /\ UdpCommand' = UdpCommand /\ TcpCommand(cfg)' = TcpCommand(cfg)
         /\ \A c : AsksFor(c)' <=> AsksFor(c)
<1>1. args' = args /\ cfg' = cfg
  OBVIOUS
<1>2. Settled'
  BY <1>1 DEF Settled
<1>3. TcpBudget' = TcpBudget /\ UdpBudget' = UdpBudget
  BY <1>1 DEF TcpBudget, UdpBudget, Budget
<1>4. TcpCost' = TcpCost /\ UdpCost' = UdpCost
  BY <1>1, <1>3, Zenon DEF TcpCost, UdpCost
<1>5. UdpCommand' = UdpCommand /\ TcpCommand(cfg)' = TcpCommand(cfg)
  BY <1>1, Zenon DEF UdpCommand, TcpCommand
<1>6. \A c : AsksFor(c)' <=> AsksFor(c)
  BY <1>1, Zenon DEF AsksFor
<1>7. QED
  BY <1>2, <1>3, <1>4, <1>5, <1>6

\* A run of nmap costs its budget at most, and is one more that asked for its
\* ports.
LEMMA WaitedFacts ==
  ASSUME TypeOK, Settled, \A c \in Range(ran) : AsksFor(c), AsksFor(cmd),
         UNCHANGED <<args, cfg>>,
         NEW n \in Nat, NEW seconds \in Nat, Waited(n, seconds)
  PROVE  /\ spent' \in Nat /\ spent' <= spent + Budget(n)
         /\ ran' \in Seq(Commands) /\ \A c \in Range(ran') : AsksFor(c)'
<1>1. Budget(n) \in Nat
  BY BudgetType, NmapAssumption DEF Settled
<1>2. spent \in Nat /\ spent' = spent + seconds /\ seconds <= Budget(n)
  BY DEF TypeOK, Waited
<1>3. spent' \in Nat /\ spent' <= spent + Budget(n)
  BY ONLY <1>1, <1>2, seconds \in Nat
<1>4. ran \in Seq(Commands) /\ cmd \in Commands /\ ran' = Append(ran, cmd)
  BY DEF TypeOK, Waited
<1>5. ran' \in Seq(Commands) /\ Range(ran') = Range(ran) \cup {cmd}
  BY <1>4, AppendElements, SameElements
<1>6. \A c : AsksFor(c)' <=> AsksFor(c)
  BY Frame
<1>7. \A c \in Range(ran') : AsksFor(c)
  BY <1>5
<1>8. QED
  BY <1>3, <1>5, <1>6, <1>7, Zenon

-----------------------------------------------------------------------------
\* A host's scan begins in the inductive invariant.
LEMMA InitInv == ASSUME Init PROVE IInv
<1>1. /\ Settled /\ pc = "tcp" /\ cmd = TcpCommand(cfg) /\ out = Empty
      /\ ports = <<>> /\ ran = <<>> /\ spent = 0 /\ told = {}
  BY DEF Init, Settled
<1>2. Range(ran) = {}
  BY <1>1 DEF Range
<1>3. Empty.text = "empty" /\ Empty.ports = <<>>
  BY DEF Empty
<1>4. Shaped(out) /\ out.text \in {"empty", "cut off", "xml"}
  BY <1>1, <1>3, EmptySeq, Zenon DEF Shaped
<1>5. TypeOK
  <2>1. args \in CommandLines /\ cfg.scan_type \in DOMAIN TechniqueFlags
        /\ cfg.tcp \in Seq(0..MaxPort) /\ cfg.udp \in Seq(0..MaxPort)
    BY <1>1, SettledFacts DEF P, Settled
  <2>2. cmd \in Commands /\ ran \in Seq(Commands) /\ ports \in Seq(Results)
    BY <1>1, CommandFacts, EmptySeq
  <2>3. pc \in {"tcp", "tcp again", "tcp output", "udp", "udp output", "done"} /\ spent \in Nat
        /\ told \subseteq {"tcp", "udp"} \X (0..MaxPort)
    BY <1>1
  <2>4. QED
    BY <1>4, <2>1, <2>2, <2>3, Zenon DEF TypeOK
<1>6. Asked
  BY <1>1, <1>2 DEF Asked
<1>7. Costs
  <2>1. TcpCost \in Nat /\ UdpCost \in Nat
    BY <1>1, SettledFacts
  <2>2. QED
    BY <1>1, <2>1 DEF Costs
<1>8. Heard
  BY <1>1, <1>4 DEF Heard
<1>9. QED
  BY <1>1, <1>5, <1>6, <1>7, <1>8 DEF IInv

\* The command that is next, and what was run, in the terms of AsksFor.
LEMMA AskedFacts ==
  ASSUME Settled, Asked
  PROVE  /\ pc \in {"tcp", "tcp again", "udp"} => AsksFor(cmd)
         /\ \A c \in Range(ran) : AsksFor(c)
BY CommandFacts DEF Asked, AsksFor

\* A run of nmap that ends, in whatever way, keeps the types of what it changes.
LEMMA RunTypes ==
  ASSUME TypeOK, Settled, UNCHANGED <<args, cfg, ports, told>>,
         spent' \in Nat, ran' \in Seq(Commands), cmd' \in Commands,
         pc' \in {"tcp", "tcp again", "tcp output", "udp", "udp output", "done"}, Shaped(out')
  PROVE  TypeOK'
<1>1. /\ args \in CommandLines /\ cfg.scan_type \in DOMAIN TechniqueFlags
      /\ cfg.tcp \in Seq(0..MaxPort) /\ cfg.udp \in Seq(0..MaxPort)
      /\ ports \in Seq(Results) /\ told \subseteq {"tcp", "udp"} \X (0..MaxPort)
  BY DEF TypeOK
<1>2. args' = args /\ cfg' = cfg /\ ports' = ports /\ told' = told
  OBVIOUS
<1>3. out'.text \in {"empty", "cut off", "xml"}
  BY DEF Shaped
<1>4. QED
  BY <1>1, <1>2, <1>3, Zenon DEF TypeOK

\* The first TCP run keeps it: it leaves an output, or the command to fall back
\* on.
LEMMA TcpRunInv ==
  ASSUME IInv, NEW rc, NEW o \in Outputs(cmd), NEW seconds \in Nat, TcpRun(rc, o, seconds)
  PROVE  IInv'
<1>1. /\ TypeOK /\ Settled /\ Asked /\ Costs /\ Heard
      /\ UNCHANGED <<args, cfg, ports, told>> /\ pc = "tcp" /\ Waited(Len(cfg.tcp), seconds)
  BY DEF IInv, TcpRun
<1>2. /\ Settled' /\ TcpBudget' = TcpBudget /\ TcpCost' = TcpCost /\ UdpCost' = UdpCost
      /\ TcpCommand(cfg)' = TcpCommand(cfg)
  BY <1>1, Frame
<1>3. /\ spent' \in Nat /\ spent' <= spent + TcpBudget
      /\ ran' \in Seq(Commands) /\ \A c \in Range(ran') : AsksFor(c)'
  <2>1. AsksFor(cmd) /\ \A c \in Range(ran) : AsksFor(c)
    BY <1>1, AskedFacts
  <2>2. Len(cfg.tcp) \in Nat
    BY <1>1, SettledFacts, LenProperties
  <2>3. QED
    BY <1>1, <2>1, <2>2, WaitedFacts DEF TcpBudget
<1>4. TcpBudget \in Nat /\ TcpCost \in Nat /\ UdpCost \in Nat /\ TcpBudget <= TcpCost /\ spent = 0
  BY <1>1, SettledFacts DEF Costs
<1>5. spent' <= TcpBudget' /\ spent' <= TcpCost' /\ spent' <= TcpCost' + UdpCost'
  BY ONLY <1>2, <1>3, <1>4
<1>6. Shaped(out)' /\ pc' \in {"tcp again", "tcp output"} /\ cmd' \in Commands
      /\ (pc' = "tcp again" => /\ cmd' = [TcpCommand(cfg) EXCEPT !.techniques = {"sT"}]
                               /\ cfg.scan_type = "syn")
  <2>1. cmd = TcpCommand(cfg) /\ cmd \in Commands /\ Shaped(out)
    BY <1>1, CommandFacts DEF Asked, Heard
  <2>2. CASE /\ FallsBack(rc) /\ cmd' = [cmd EXCEPT !.techniques = {"sT"}]
             /\ pc' = "tcp again" /\ UNCHANGED out
    BY <1>1, <2>1, <2>2, CommandFacts DEF FallsBack, Shaped
  <2>3. CASE out' = o /\ pc' = "tcp output" /\ UNCHANGED cmd
    BY <2>1, <2>3, OutputsShaped DEF Shaped
  <2>4. QED
    BY <2>2, <2>3 DEF TcpRun
<1>7. TypeOK'
  BY <1>1, <1>3, <1>6, RunTypes DEF Shaped
<1>8. Asked'
  <2>1. \A c \in Range(ran') : c.spec = IF "sU" \in c.techniques THEN PortSpec(cfg'.udp) ELSE PortSpec(cfg'.tcp)
    BY <1>3 DEF AsksFor
  <2>2. cfg' = cfg
    BY <1>1
  <2>3. QED
    BY <1>2, <1>6, <2>1, <2>2 DEF Asked
<1>9. Costs'
  BY <1>5, <1>6 DEF Costs
<1>10. Heard'
  BY <1>6 DEF Heard
<1>11. QED
  BY <1>2, <1>7, <1>8, <1>9, <1>10 DEF IInv

\* A run that leaves an output to be read, or none because it was killed.
LEMMA OutputInv ==
  ASSUME IInv, NEW seconds \in Nat, UNCHANGED <<args, cfg, cmd, ports, told>>, Shaped(out'),
         \/ pc \in {"tcp", "tcp again"} /\ Waited(Len(cfg.tcp), seconds) /\ pc' = "tcp output"
         \/ pc = "udp" /\ Waited(Len(cfg.udp), seconds) /\ pc' = "udp output"
  PROVE  IInv'
<1>1. TypeOK /\ Settled /\ Asked /\ Costs /\ Heard /\ UNCHANGED <<args, cfg, ports, told>>
  BY DEF IInv
<1>2. /\ Settled' /\ TcpBudget' = TcpBudget /\ TcpCost' = TcpCost /\ UdpCost' = UdpCost
  BY <1>1, Frame
<1>3. /\ AsksFor(cmd) /\ \A c \in Range(ran) : AsksFor(c)
      /\ Len(cfg.tcp) \in Nat /\ Len(cfg.udp) \in Nat
  BY <1>1, AskedFacts, SettledFacts, LenProperties
<1>4. /\ TcpBudget \in Nat /\ UdpBudget \in Nat /\ TcpCost \in Nat /\ UdpCost \in Nat
      /\ TcpBudget <= TcpCost /\ (cfg.scan_type = "syn" => TcpCost = TcpBudget + TcpBudget)
      /\ (args.udp => UdpCost = UdpBudget) /\ spent \in Nat
  BY <1>1, SettledFacts DEF TypeOK
<1>5. /\ spent' \in Nat /\ ran' \in Seq(Commands) /\ \A c \in Range(ran') : AsksFor(c)'
      /\ pc' = "tcp output" => spent' <= TcpCost
      /\ spent' <= TcpCost + UdpCost
  <2>1. CASE pc \in {"tcp", "tcp again"} /\ Waited(Len(cfg.tcp), seconds) /\ pc' = "tcp output"
    <3>1. /\ spent' \in Nat /\ spent' <= spent + TcpBudget
          /\ ran' \in Seq(Commands) /\ \A c \in Range(ran') : AsksFor(c)'
      BY <1>1, <1>3, <2>1, WaitedFacts DEF TcpBudget
    <3>2. spent + TcpBudget <= TcpCost
      <4>1. CASE pc = "tcp"
        <5>1. spent = 0
          BY <1>1, <4>1 DEF Costs
        <5>2. QED
          BY ONLY <1>4, <5>1
      <4>2. CASE pc = "tcp again"
        <5>1. spent <= TcpBudget /\ TcpCost = TcpBudget + TcpBudget
          BY <1>1, <1>4, <4>2 DEF Costs, Asked
        <5>2. QED
          BY ONLY <1>4, <5>1
      <4>3. QED
        BY <2>1, <4>1, <4>2
    <3>3. spent' <= TcpCost /\ spent' <= TcpCost + UdpCost
      BY ONLY <1>4, <3>1, <3>2
    <3>4. QED
      BY <3>1, <3>3
  <2>2. CASE pc = "udp" /\ Waited(Len(cfg.udp), seconds) /\ pc' = "udp output"
    <3>1. /\ spent' \in Nat /\ spent' <= spent + UdpBudget
          /\ ran' \in Seq(Commands) /\ \A c \in Range(ran') : AsksFor(c)'
      BY <1>1, <1>3, <2>2, WaitedFacts DEF UdpBudget
    <3>2. spent <= TcpCost /\ UdpCost = UdpBudget
      BY <1>1, <1>4, <2>2 DEF Costs, Asked
    <3>3. spent' <= TcpCost + UdpCost
      BY ONLY <1>4, <3>1, <3>2
    <3>4. QED
      BY <2>2, <3>1, <3>3
  <2>3. QED
    BY <2>1, <2>2
<1>6. pc' \in {"tcp output", "udp output"} /\ (pc' = "udp output" => args.udp)
      /\ (pc' = "udp output" => pc = "udp")
  BY <1>1 DEF Asked
<1>7. TypeOK'
  <2>1. cmd' \in Commands
    BY <1>1 DEF TypeOK
  <2>2. QED
    BY <1>1, <1>5, <1>6, <2>1, RunTypes
<1>8. Asked'
  <2>1. \A c \in Range(ran') : c.spec = IF "sU" \in c.techniques THEN PortSpec(cfg'.udp) ELSE PortSpec(cfg'.tcp)
    BY <1>5 DEF AsksFor
  <2>2. QED
    BY <1>1, <1>6, <2>1 DEF Asked
<1>9. Costs'
  BY <1>2, <1>5, <1>6 DEF Costs
<1>10. Heard'
  <2>1. pc' = "udp output" => OpenOf(ports) = told
    BY <1>1, <1>6 DEF Heard
  <2>2. ports' = ports /\ told' = told
    OBVIOUS
  <2>3. Shaped(out)'
    BY DEF Shaped
  <2>4. QED
    BY <1>6, <2>1, <2>2, <2>3 DEF Heard, OpenOf
<1>11. QED
  BY <1>2, <1>7, <1>8, <1>9, <1>10 DEF IInv

\* Reading the output of the TCP scan: the results and what nmap said agree.
LEMMA ReadTcpInv ==
  ASSUME IInv, ReadTcp
  PROVE  IInv'
<1>1. /\ TypeOK /\ Settled /\ Asked /\ Costs /\ Heard
      /\ UNCHANGED <<args, cfg>> /\ pc = "tcp output"
      /\ ports' = TcpResults(out) /\ told' = OpenIn(out) /\ UNCHANGED <<out, ran, spent>>
  BY DEF IInv, ReadTcp
<1>2. /\ Settled' /\ TcpBudget' = TcpBudget /\ TcpCost' = TcpCost /\ UdpCost' = UdpCost
      /\ UdpCommand' = UdpCommand
  BY <1>1, Frame
<1>3. Shaped(out) /\ cmd \in Commands /\ UdpCommand \in Commands
  BY <1>1, CommandFacts DEF Heard, TypeOK
<1>4. /\ ports' \in Seq(Results) /\ OpenOf(ports') = told'
      /\ told' \subseteq {"tcp", "udp"} \X (0..MaxPort)
  BY <1>1, <1>3, ParsedFacts DEF P
<1>5. /\ pc' \in {"udp", "done"} /\ cmd' \in Commands
      /\ (pc' = "udp" => cmd' = UdpCommand /\ args.udp)
  BY <1>3 DEF ReadTcp
<1>6. TypeOK'
  <2>1. /\ args \in CommandLines /\ cfg.scan_type \in DOMAIN TechniqueFlags
        /\ cfg.tcp \in Seq(0..MaxPort) /\ cfg.udp \in Seq(0..MaxPort)
        /\ ran \in Seq(Commands) /\ spent \in Nat /\ out.text \in {"empty", "cut off", "xml"}
    BY <1>1 DEF TypeOK
  <2>2. args' = args /\ cfg' = cfg /\ ran' = ran /\ spent' = spent /\ out' = out
    BY <1>1
  <2>3. pc' \in {"tcp", "tcp again", "tcp output", "udp", "udp output", "done"}
    BY <1>5
  <2>4. QED
    BY <1>4, <1>5, <2>1, <2>2, <2>3, Zenon DEF TypeOK
<1>7. Asked'
  BY <1>1, <1>2, <1>5 DEF Asked
<1>8. Costs'
  BY <1>1, <1>2, <1>5 DEF Costs
<1>9. Heard'
  <2>1. Shaped(out)'
    BY <1>1, <1>3 DEF Shaped
  <2>2. QED
    BY <1>4, <2>1 DEF Heard, OpenOf
<1>10. QED
  BY <1>2, <1>6, <1>7, <1>8, <1>9 DEF IInv

\* Reading the output of the UDP scan: its results are added to the others.
LEMMA ReadUdpInv ==
  ASSUME IInv, ReadUdp
  PROVE  IInv'
<1>1. /\ TypeOK /\ Settled /\ Asked /\ Costs /\ Heard
      /\ UNCHANGED <<args, cfg>> /\ pc = "udp output" /\ pc' = "done"
      /\ ports' = ports \o UdpResults(out) /\ told' = told \cup OpenIn(out)
      /\ UNCHANGED <<cmd, out, ran, spent>>
  BY DEF IInv, ReadUdp, Added
<1>2. /\ Settled' /\ TcpBudget' = TcpBudget /\ TcpCost' = TcpCost /\ UdpCost' = UdpCost
  BY <1>1, Frame
<1>3. Shaped(out) /\ OpenOf(ports) = told /\ ports \in Seq(Results)
      /\ told \subseteq {"tcp", "udp"} \X (0..MaxPort)
  BY <1>1 DEF Heard, TypeOK
<1>4. /\ ports' \in Seq(Results) /\ OpenOf(ports') = told'
      /\ told' \subseteq {"tcp", "udp"} \X (0..MaxPort)
  <2>1. /\ UdpResults(out) \in Seq(Results) /\ OpenOf(UdpResults(out)) = OpenIn(out)
        /\ OpenIn(out) \subseteq {"tcp", "udp"} \X (0..MaxPort)
    BY <1>3, ParsedFacts DEF P
  <2>2. /\ ports \o UdpResults(out) \in Seq(Results)
        /\ OpenOf(ports \o UdpResults(out)) = OpenOf(ports) \cup OpenOf(UdpResults(out))
    BY <1>3, <2>1, OpenOfConcat
  <2>3. QED
    BY <1>1, <1>3, <2>1, <2>2
<1>5. TypeOK'
  <2>1. /\ args \in CommandLines /\ cfg.scan_type \in DOMAIN TechniqueFlags
        /\ cfg.tcp \in Seq(0..MaxPort) /\ cfg.udp \in Seq(0..MaxPort) /\ cmd \in Commands
        /\ ran \in Seq(Commands) /\ spent \in Nat /\ out.text \in {"empty", "cut off", "xml"}
    BY <1>1 DEF TypeOK
  <2>2. /\ args' = args /\ cfg' = cfg /\ ran' = ran /\ spent' = spent /\ out' = out /\ cmd' = cmd
    BY <1>1
  <2>3. pc' \in {"tcp", "tcp again", "tcp output", "udp", "udp output", "done"}
    BY <1>1
  <2>4. QED
    BY <1>4, <2>1, <2>2, <2>3, Zenon DEF TypeOK
<1>6. Asked'
  BY <1>1, <1>2 DEF Asked
<1>7. Costs'
  BY <1>1, <1>2 DEF Costs
<1>8. Heard'
  <2>1. Shaped(out)'
    BY <1>1, <1>3 DEF Shaped
  <2>2. QED
    BY <1>4, <2>1 DEF Heard, OpenOf
<1>9. QED
  BY <1>2, <1>5, <1>6, <1>7, <1>8 DEF IInv

\* Every step keeps it.
LEMMA StepInv ==
  ASSUME IInv, [Next]_vars
  PROVE  IInv'
<1>1. TypeOK /\ Settled /\ Heard /\ Shaped(out)
  BY DEF IInv, Heard
<1>2. Budget(0) \in Nat /\ TcpBudget \in Nat /\ UdpBudget \in Nat
  BY <1>1, SettledFacts, BudgetType, NmapAssumption DEF Settled
<1>3. \A o \in Outputs(cmd) : Shaped(o)
  BY <1>1, OutputsShaped DEF TypeOK
<1>4. ASSUME NEW rc \in {0, 1}, NEW o \in Outputs(cmd), NEW seconds \in {1, Budget(0)},
             NmapEnds(rc, o, seconds)
      PROVE  IInv'
  <2>1. seconds \in Nat
    BY <1>2
  <2>2. CASE TcpRun(rc, o, seconds)
    BY <2>1, <2>2, TcpRunInv
  <2>3. CASE TcpAgain(o, seconds)
    <3>1. out' = o /\ Shaped(o)
      BY <1>3, <2>3 DEF TcpAgain
    <3>2. Shaped(out')
      BY <3>1
    <3>3. QED
      BY <2>1, <2>3, <3>2, OutputInv DEF TcpAgain
  <2>4. CASE UdpRun(o, seconds)
    <3>1. out' = o /\ Shaped(o)
      BY <1>3, <2>4 DEF UdpRun
    <3>2. Shaped(out')
      BY <3>1
    <3>3. QED
      BY <2>1, <2>4, <3>2, OutputInv DEF UdpRun
  <2>5. QED
    BY <1>4, <2>2, <2>3, <2>4 DEF NmapEnds
<1>5. CASE Killed
  <2>1. Empty.text = "empty" /\ Empty.ports = <<>>
    BY DEF Empty
  <2>2. Shaped(Empty)
    BY <2>1, EmptySeq, Zenon DEF Shaped
  <2>3. Shaped(out')
    BY <1>5, <2>2 DEF Killed
  <2>4. CASE /\ pc \in {"tcp", "tcp again"} /\ Waited(Len(cfg.tcp), TcpBudget)
             /\ pc' = "tcp output"
    BY <1>2, <1>5, <2>3, <2>4, OutputInv DEF Killed
  <2>5. CASE pc = "udp" /\ Waited(Len(cfg.udp), UdpBudget) /\ pc' = "udp output"
    BY <1>2, <1>5, <2>3, <2>5, OutputInv DEF Killed
  <2>6. QED
    BY <1>5, <2>4, <2>5 DEF Killed, TcpBudget, UdpBudget
<1>6. CASE ReadTcp
  BY <1>6, ReadTcpInv
<1>7. CASE ReadUdp
  BY <1>7, ReadUdpInv
<1>8. CASE UNCHANGED vars
  <2>1. /\ args' = args /\ cfg' = cfg /\ pc' = pc /\ cmd' = cmd /\ out' = out
        /\ ports' = ports /\ ran' = ran /\ spent' = spent /\ told' = told
    BY <1>8 DEF vars
  <2>2. /\ Settled' /\ TcpBudget' = TcpBudget /\ TcpCost' = TcpCost /\ UdpCost' = UdpCost
        /\ UdpCommand' = UdpCommand
    BY <1>1, <2>1, Frame
  <2>3. TypeOK'
    BY <2>1, Zenon DEF IInv, TypeOK
  <2>4. Asked'
    BY <2>1, <2>2 DEF IInv, Asked
  <2>5. Costs'
    BY <2>1, <2>2 DEF IInv, Costs
  <2>6. Heard'
    BY <2>1 DEF IInv, Heard, OpenOf, Shaped
  <2>7. QED
    BY <2>2, <2>3, <2>4, <2>5, <2>6 DEF IInv
<1>9. QED
  BY <1>4, <1>5, <1>6, <1>7, <1>8 DEF Next

\* Every reachable state satisfies the inductive invariant (NmapEngine).
THEOREM Invariance == Spec => []IInv
<1>1. Init => IInv
  BY InitInv
<1>2. IInv /\ [Next]_vars => IInv'
  BY StepInv
<1>3. QED
  BY <1>1, <1>2, PTL DEF Spec

\* The variables keep their types, the results among them (nmap_engine.py).
THEOREM TypeCorrect == Spec => []TypeOK
<1>1. IInv => TypeOK
  BY DEF IInv
<1>2. QED
  BY <1>1, Invariance, PTL

\* Whatever lists the operator writes, every run of nmap, the repeated one
\* included, is asked for exactly the ports they mean (parse_port_list, main,
\* _port_spec, _run_nmap).
THEOREM AsksForItsPortsAlways == Spec => []AsksForItsPorts
<1>1. ASSUME IInv PROVE AsksForItsPorts
  <2>1. Settled /\ Asked /\ ran \in Seq(Commands)
    BY <1>1 DEF IInv, TypeOK
  <2>2. /\ Denotes(PortSpec(cfg.tcp)) = TcpMeant
        /\ Denotes(PortSpec(cfg.udp)) = OrElse(Meant(args.udp_ports), Range(DefaultUdpPorts))
    BY <2>1, SettledFacts, SpecDenotes
  <2>3. SUFFICES ASSUME NEW i \in DOMAIN ran
        PROVE  Denotes(ran[i].spec) = IF "sU" \in ran[i].techniques
                                      THEN OrElse(Meant(args.udp_ports), Range(DefaultUdpPorts))
                                      ELSE TcpMeant
    BY DEF AsksForItsPorts
  <2>4. ran[i] \in Range(ran)
    BY DEF Range
  <2>5. ran[i].spec = IF "sU" \in ran[i].techniques THEN PortSpec(cfg.udp) ELSE PortSpec(cfg.tcp)
    BY <2>1, <2>4 DEF Asked
  <2>6. QED
    BY <2>2, <2>5
<1>2. QED
  BY <1>1, Invariance, PTL

\* Waiting for nmap costs a host at most one budget per protocol, two for a TCP
\* scan with -sS (_estimate_timeout, _run_nmap).
THEOREM WithinBudgetAlways == Spec => []WithinBudget
<1>1. ASSUME IInv PROVE WithinBudget
  <2>1. Settled /\ Costs
    BY <1>1 DEF IInv
  <2>2. spent <= TcpCost + UdpCost /\ TcpBudget \in Nat
    BY <2>1, SettledFacts DEF Costs
  <2>3. TcpCost = (IF cfg.scan_type = "syn" THEN 2 ELSE 1) * TcpBudget
    <3>1. CASE cfg.scan_type = "syn"
      BY <3>1, Zenon DEF TcpCost
    <3>2. CASE cfg.scan_type # "syn"
      <4>1. TcpCost = TcpBudget
        BY <3>2 DEF TcpCost
      <4>2. 1 * TcpBudget = TcpBudget
        BY <2>2
      <4>3. (IF cfg.scan_type = "syn" THEN 2 ELSE 1) = 1
        BY <3>2
      <4>4. QED
        BY ONLY <4>1, <4>2, <4>3, Zenon
    <3>3. QED
      BY <3>1, <3>2
  <2>4. QED
    BY <2>2, <2>3, Zenon DEF WithinBudget, UdpCost, TcpBudget, UdpBudget
<1>2. QED
  BY <1>1, Invariance, PTL

\* The host's open ports are those nmap's outputs named, over both scans
\* (parse_nmap_xml, nmap_tcp_scan, nmap_udp_scan, Hardener.run).
THEOREM OpenAsToldAlways == Spec => []OpenAsTold
<1>1. IInv => OpenAsTold
  BY OpenByPosition DEF IInv, Heard, OpenAsTold
<1>2. QED
  BY <1>1, Invariance, PTL
=============================================================================

---------------------------- MODULE TopDocs_proofs ----------------------------
(* Proofs about TopDocs: the probing loop collects the complete score tie at  *)
(* the requested boundary, for rankings of any length.                        *)
EXTENDS TopDocs, SequenceTheorems, FiniteSetTheorems, TLAPS

(* A prefix of a sequence is that many of its elements, in their order.       *)
LEMMA PrefixProperties ==
    ASSUME NEW S, NEW s \in Seq(S), NEW n \in Nat
    PROVE  /\ Prefix(s, n) \in Seq(S)
           /\ Len(Prefix(s, n)) = IF n < Len(s) THEN n ELSE Len(s)
           /\ \A i \in DOMAIN Prefix(s, n) : i \in DOMAIN s /\ Prefix(s, n)[i] = s[i]
<1> DEFINE m == IF n < Len(s) THEN n ELSE Len(s)
<1>1. m \in Nat /\ m <= Len(s)
  OBVIOUS
<1>2. \A i \in 1..m : s[i] \in S
  BY <1>1
<1>3. /\ SubSeq(s, 1, m) \in Seq(S)
      /\ Len(SubSeq(s, 1, m)) = IF 1 <= m THEN m - 1 + 1 ELSE 0
      /\ \A i \in 1..(m - 1 + 1) : SubSeq(s, 1, m)[i] = s[1 + i - 1]
  <2> HIDE DEF m
  <2> QED BY <1>1, <1>2, SubSeqProperties
<1>4. Prefix(s, n) = SubSeq(s, 1, m)
  BY DEF Prefix
<1>5. Len(Prefix(s, n)) = m /\ DOMAIN Prefix(s, n) = 1..m
  <2> HIDE DEF m
  <2> QED BY <1>1, <1>3, <1>4
<1>6. \A i \in 1..m : i \in DOMAIN s /\ Prefix(s, n)[i] = s[i]
  <2> HIDE DEF m
  <2> QED BY <1>1, <1>3, <1>4
<1> QED BY <1>3, <1>4, <1>5, <1>6

LEMMA TargetType ==
    ASSUME count \in Nat, max_results \in Nat
    PROVE  Target \in 0..count
BY DEF Target, Requested

(* When the loop stops, every hit that ties with the target is in what the    *)
(* last probe found.                                                          *)
LEMMA StopsBelowTie ==
    ASSUME ProbingInv, pc = "probe", Enough(probe_limit, Search(probe_limit)),
           NEW i \in DOMAIN ranked,
           i <= Target \/ (/\ Target \in DOMAIN ranked
                           /\ ranked[i].score = ranked[Target].score)
    PROVE  i \in DOMAIN Search(probe_limit) /\ Search(probe_limit)[i] = ranked[i]
<1> DEFINE found == Search(probe_limit)
<1>1. /\ Target \in Nat \ {0} /\ probe_limit \in Target..count
      /\ ranked \in Seq(Hit) /\ count \in Nat /\ count >= Len(ranked)
      /\ probe_limit \in Nat
  BY TargetType DEF ProbingInv
<1>2. /\ found \in Seq(Hit)
      /\ Len(found) = IF probe_limit < Len(ranked) THEN probe_limit ELSE Len(ranked)
      /\ \A j \in DOMAIN found : j \in DOMAIN ranked /\ found[j] = ranked[j]
  BY <1>1, PrefixProperties DEF Search
<1> HIDE DEF found
<1>3. CASE i <= Len(found)
  <2>1. i \in DOMAIN found
    BY <1>1, <1>2, <1>3
  <2> QED BY <1>2, <2>1 DEF found
<1>4. ASSUME i > Len(found) PROVE FALSE
  <2>1. Len(found) = probe_limit /\ probe_limit < Len(ranked)
    BY <1>1, <1>2, <1>4
  <2>2. found[Target].score > found[Len(found)].score
    <3>1. NextLimit(probe_limit) # probe_limit
      BY <1>1, <2>1 DEF NextLimit
    <3> QED BY <1>1, <2>1, <3>1 DEF Enough, found
  <2>3. /\ Target \in DOMAIN found /\ Len(found) \in DOMAIN found
        /\ Target \in DOMAIN ranked /\ Len(found) \in DOMAIN ranked
    BY <1>1, <1>2, <2>1
  <2>4. ranked[Target].score > ranked[Len(found)].score
    BY <1>2, <2>2, <2>3
  <2>5. ranked[Len(found)].score >= ranked[i].score
    BY <1>4, <2>3 DEF ProbingInv, Falling
  <2>6. ranked[i].score = ranked[Target].score
    BY <1>1, <1>4, <2>1
  <2>7. \A j \in DOMAIN ranked : ranked[j].score \in Nat
    <3>1. \A h \in Hit : h.score \in Nat
      BY TopDocsBounds DEF Hit
    <3> QED BY <1>1, <3>1
  <2> DEFINE tied == ranked[i].score
             tail == ranked[Len(found)].score
             goal == ranked[Target].score
  <2>8. tied \in Nat /\ tail \in Nat /\ goal \in Nat
    BY <2>3, <2>7
  <2>9. goal > tail /\ tail >= tied /\ tied = goal
    BY <2>4, <2>5, <2>6
  <2> HIDE DEF tied, tail, goal
  <2> QED BY <2>8, <2>9
<1>5. Len(found) \in Nat /\ i \in Nat
  BY <1>1, <1>2
<1> QED BY <1>3, <1>4, <1>5

LEMMA ProbingInit == Init => ProbingInv
<1> SUFFICES ASSUME Init PROVE ProbingInv
  OBVIOUS
<1>1. ranked \in Seq(Hit) /\ Falling(ranked)
  BY TopDocsBounds DEF Init, Rankings
<1>2. count \in Nat /\ count >= Len(ranked)
  BY <1>1, TopDocsBounds DEF Init
<1>3. max_results \in Nat /\ pc = "start"
  BY TopDocsBounds DEF Init
<1> QED BY <1>1, <1>2, <1>3 DEF ProbingInv, CompleteTie

LEMMA ProbingStep == ProbingInv /\ [Next]_vars => ProbingInv'
<1> SUFFICES ASSUME ProbingInv, [Next]_vars PROVE ProbingInv'
  OBVIOUS
<1>1. UNCHANGED inputs /\ Target' = Target
  BY DEF Next, Start, Probe, Materialize, vars, inputs, Target, Requested
<1>2. Target \in 0..count /\ count \in Nat
  BY TargetType DEF ProbingInv
<1>3. /\ (ranked \in Seq(Hit) /\ Falling(ranked))'
      /\ (count \in Nat /\ count >= Len(ranked))'
      /\ max_results' \in Nat
  BY <1>1 DEF ProbingInv, inputs, Falling
<1>4. CASE Start
  <2>1. CASE Target = 0
    <3>1. \A i \in DOMAIN ranked : i > Target
      BY <2>1 DEF ProbingInv
    <3>2. Target \notin DOMAIN ranked
      BY <2>1 DEF ProbingInv
    <3>3. CompleteTie'
      BY <1>1, <2>1, <3>1, <3>2 DEF CompleteTie, inputs, ProbingInv
    <3> QED BY <1>3, <1>4, <2>1, <3>3 DEF Start, ProbingInv
  <2>2. CASE Target # 0
    <3>1. pc' = "probe" /\ probe_limit' = Target
      BY <1>4, <2>2 DEF Start
    <3>2. probe_limit' \in Target'..count'
      BY <1>1, <1>2, <3>1 DEF inputs
    <3> QED BY <1>1, <1>3, <2>2, <3>1, <3>2 DEF ProbingInv, CompleteTie
  <2> QED BY <2>1, <2>2
<1>5. CASE Probe
  <2>1. CASE Enough(probe_limit, Search(probe_limit))
    <3>1. pc = "probe" /\ pc' = "materialize" /\ documents' = Search(probe_limit)
      BY <1>5, <2>1 DEF Probe
    <3>2. CompleteTie'
      BY <1>1, <2>1, <3>1, StopsBelowTie DEF CompleteTie, inputs
    <3> QED BY <1>3, <3>1, <3>2 DEF ProbingInv
  <2>2. CASE ~Enough(probe_limit, Search(probe_limit))
    <3>1. pc = "probe" /\ pc' = "probe" /\ probe_limit' = NextLimit(probe_limit)
      BY <1>5, <2>2 DEF Probe
    <3>2. Target # 0 /\ probe_limit \in Target..count
      BY <3>1 DEF ProbingInv
    <3>3. probe_limit' \in Target'..count'
      BY <1>1, <1>2, <3>1, <3>2 DEF NextLimit, inputs
    <3> QED BY <1>1, <1>3, <3>1, <3>2, <3>3 DEF ProbingInv, CompleteTie
  <2> QED BY <2>1, <2>2
<1>6. CASE Materialize
  <2>1. pc = "materialize" /\ pc' = "done" /\ documents' = documents
    BY <1>6 DEF Materialize
  <2>2. CompleteTie'
    BY <1>1, <2>1 DEF ProbingInv, CompleteTie, inputs
  <2> QED BY <1>3, <2>1, <2>2 DEF ProbingInv
<1>7. CASE UNCHANGED vars
  BY <1>1, <1>3, <1>7 DEF vars, inputs, ProbingInv, CompleteTie
<1> QED BY <1>4, <1>5, <1>6, <1>7 DEF Next

(* However long the ranking, whatever its ties and its order within them, the *)
(* collection holds every hit that scores as much as the last one asked for.  *)
THEOREM TieIsComplete == Spec => []CompleteTie
<1>1. ProbingInv => CompleteTie
  BY DEF ProbingInv
<1> QED BY ProbingInit, ProbingStep, <1>1, PTL DEF Spec

-----------------------------------------------------------------------------
(* Sorting: the hits of a set, one per cell, have exactly one order, and a    *)
(* hit stands in it after as many as come before it.                          *)

OnePerCell(H) == \A g, h \in H : g.cell = h.cell => g = h

Above(H, h) == {g \in H : Before(g, h)}

LEMMA HitType ==
    ASSUME NEW h \in Hit
    PROVE  h.score \in Nat /\ h.cell \in Nat
BY TopDocsBounds DEF Hit

LEMMA BeforeOrders ==
    ASSUME NEW g \in Hit, NEW h \in Hit, NEW k \in Hit
    PROVE  /\ ~Before(h, h)
           /\ Before(g, h) => ~Before(h, g)
           /\ Before(g, h) /\ Before(h, k) => Before(g, k)
           /\ g.cell # h.cell => Before(g, h) \/ Before(h, g)
<1>1. /\ g.score \in Nat /\ g.cell \in Nat /\ h.score \in Nat /\ h.cell \in Nat
      /\ k.score \in Nat /\ k.cell \in Nat
  BY HitType
<1> QED BY <1>1 DEF Before

(* What comes before h comes before all that h comes before, and h does too.  *)
LEMMA AboveGrows ==
    ASSUME NEW H \in SUBSET Hit, IsFiniteSet(H),
           NEW g \in H, NEW h \in H, Before(g, h)
    PROVE  Cardinality(Above(H, g)) < Cardinality(Above(H, h))
<1>1. Above(H, g) \subseteq Above(H, h)
  BY BeforeOrders DEF Above
<1>2. g \in Above(H, h) /\ g \notin Above(H, g)
  BY BeforeOrders DEF Above
<1>3. IsFiniteSet(Above(H, h))
  BY FS_Subset DEF Above
<1>4. /\ IsFiniteSet(Above(H, g))
      /\ Cardinality(Above(H, g)) <= Cardinality(Above(H, h))
      /\ Cardinality(Above(H, h)) # Cardinality(Above(H, g))
  BY <1>1, <1>2, <1>3, FS_Subset
<1>5. Cardinality(Above(H, g)) \in Nat /\ Cardinality(Above(H, h)) \in Nat
  BY <1>3, <1>4, FS_CardinalityType
<1> QED BY <1>4, <1>5

LEMMA AboveBounded ==
    ASSUME NEW H \in SUBSET Hit, IsFiniteSet(H), NEW h \in H
    PROVE  1 + Cardinality(Above(H, h)) \in 1..Cardinality(H)
<1>1. Above(H, h) \in SUBSET H /\ h \notin Above(H, h)
  BY BeforeOrders DEF Above
<1>2. /\ IsFiniteSet(Above(H, h)) /\ Cardinality(Above(H, h)) <= Cardinality(H)
      /\ Cardinality(H) # Cardinality(Above(H, h))
  BY <1>1, FS_Subset
<1>3. Cardinality(Above(H, h)) \in Nat /\ Cardinality(H) \in Nat
  BY <1>2, FS_CardinalityType
<1> QED BY <1>2, <1>3

(* Counting what comes before each hit puts the hits in a sorted sequence.    *)
LEMMA SortedIsSorted ==
    ASSUME NEW H \in SUBSET Hit, IsFiniteSet(H), OnePerCell(H)
    PROVE  /\ Sorted(H) \in [1..Cardinality(H) -> H]
           /\ \A i, j \in 1..Cardinality(H) : i < j => Before(Sorted(H)[i], Sorted(H)[j])
<1> DEFINE n == Cardinality(H)
           place == [h \in H |-> 1 + Cardinality(Above(H, h))]
           hit == [i \in 1..n |-> CHOOSE h \in H : place[h] = i]
<1>1. n \in Nat /\ IsFiniteSet(1..n) /\ Cardinality(1..n) = n
  BY FS_CardinalityType, FS_Interval
<1>2. place \in [H -> 1..n]
  BY AboveBounded
<1>3. \A g, h \in H : Before(g, h) => place[g] < place[h]
  <2> SUFFICES ASSUME NEW g \in H, NEW h \in H, Before(g, h) PROVE place[g] < place[h]
    OBVIOUS
  <2>1. Cardinality(Above(H, g)) < Cardinality(Above(H, h))
    BY AboveGrows
  <2>2. Cardinality(Above(H, g)) \in Nat /\ Cardinality(Above(H, h)) \in Nat
    <3>1. Above(H, g) \in SUBSET H /\ Above(H, h) \in SUBSET H
      BY DEF Above
    <3>2. IsFiniteSet(Above(H, g)) /\ IsFiniteSet(Above(H, h))
      BY <3>1, FS_Subset
    <3> QED BY <3>2, FS_CardinalityType
  <2> QED BY <2>1, <2>2
<1> HIDE DEF place
<1>4. \A h \in H : place[h] \in Nat
  BY <1>1, <1>2
<1>5. \A g, h \in H : place[g] = place[h] => g = h
  <2> SUFFICES ASSUME NEW g \in H, NEW h \in H, g # h PROVE place[g] # place[h]
    OBVIOUS
  <2>1. Before(g, h) \/ Before(h, g)
    BY BeforeOrders DEF OnePerCell
  <2> QED BY <1>3, <1>4, <2>1
<1>6. \A i \in 1..n : \E h \in H : place[h] = i
  <2>1. place \in Injection(H, 1..n)
    BY <1>2, <1>5, Zenon DEF Injection, IsInjective
  <2>2. place \in Surjection(H, 1..n)
    <3> HIDE DEF n
    <3>1. Cardinality(H) = n
      BY DEF n
    <3> QED BY <1>1, <2>1, <3>1, FS_Injection
  <2> QED BY <2>2, Zenon DEF Surjection
<1>7. \A i \in 1..n : hit[i] \in H /\ place[hit[i]] = i
  BY <1>6
<1>8. hit \in [1..n -> H]
  BY <1>7
<1> HIDE DEF hit, n
<1>9. ASSUME NEW i \in 1..n, NEW j \in 1..n, i < j PROVE Before(hit[i], hit[j])
  <2>1. /\ hit[i] \in H /\ place[hit[i]] = i /\ hit[j] \in H /\ place[hit[j]] = j
        /\ i # j /\ ~(j < i)
    BY <1>1, <1>7, <1>9
  <2>2. hit[i] # hit[j] /\ hit[i].cell # hit[j].cell
    BY <2>1 DEF OnePerCell
  <2> QED BY <1>3, <2>1, <2>2, BeforeOrders
<1>10. \E s \in [1..n -> H] : \A i, j \in 1..n : i < j => Before(s[i], s[j])
  BY <1>8, <1>9
<1> QED BY <1>10 DEF Sorted, n

(* A hit stands after exactly those that come before it.                      *)
LEMMA SortedPlaces ==
    ASSUME NEW H \in SUBSET Hit, IsFiniteSet(H), OnePerCell(H), NEW h \in H
    PROVE  LET p == 1 + Cardinality(Above(H, h))
           IN  p \in 1..Cardinality(H) /\ Sorted(H)[p] = h
<1> DEFINE n == Cardinality(H)
           s == Sorted(H)
<1>1. n \in Nat /\ IsFiniteSet(1..n) /\ Cardinality(1..n) = n
  BY FS_CardinalityType, FS_Interval
<1>2. s \in [1..n -> H] /\ \A i, j \in 1..n : i < j => Before(s[i], s[j])
  BY SortedIsSorted
<1> HIDE DEF s
<1>3. \A i, j \in 1..n : s[i] = s[j] => i = j
  <2> SUFFICES ASSUME NEW i \in 1..n, NEW j \in 1..n, i # j PROVE s[i] # s[j]
    OBVIOUS
  <2>1. i < j \/ j < i
    BY <1>1
  <2>2. s[i] \in Hit /\ s[j] \in Hit
    BY <1>2
  <2> QED BY <1>2, <2>1, <2>2, BeforeOrders
<1>4. PICK i \in 1..n : s[i] = h
  <2>1. s \in Injection(1..n, H)
    BY <1>2, <1>3, Zenon DEF Injection, IsInjective
  <2>2. Cardinality(1..n) = Cardinality(H)
    BY <1>1 DEF n
  <2>3. s \in Surjection(1..n, H)
    <3> HIDE DEF n
    <3> QED BY <2>1, <2>2, FS_Injection
  <2> QED BY <2>3, Zenon DEF Surjection
<1> HIDE DEF n
<1>5. i \in Nat /\ i - 1 \in Nat
  BY <1>1
<1>6. \A j \in 1..n : j < i <=> Before(s[j], h)
  <2> TAKE j \in 1..n
  <2>1. j < i \/ j = i \/ i < j
    BY <1>1
  <2>2. h \in Hit /\ s[j] \in Hit
    BY <1>2
  <2> QED BY <1>1, <1>2, <1>4, <2>1, <2>2, BeforeOrders
<1>7. Above(H, h) \subseteq {s[j] : j \in 1..(i - 1)}
  <2> SUFFICES ASSUME NEW g \in H, Before(g, h) PROVE \E j \in 1..(i - 1) : s[j] = g
    BY DEF Above
  <2>1. PICK j \in 1..n : s[j] = g
    <3>1. s \in Injection(1..n, H)
      BY <1>2, <1>3, Zenon DEF Injection, IsInjective
    <3>2. Cardinality(1..n) = Cardinality(H)
      BY <1>1 DEF n
    <3>3. s \in Surjection(1..n, H)
      BY <3>1, <3>2, FS_Injection
    <3> QED BY <3>3, Zenon DEF Surjection
  <2>2. j < i
    BY <1>6, <2>1
  <2> QED BY <1>1, <1>5, <2>1, <2>2
<1>8. \A j \in 1..(i - 1) : j \in 1..n /\ s[j] \in Above(H, h)
  BY <1>1, <1>2, <1>6 DEF Above
<1>9. Cardinality(Above(H, h)) = i - 1
  <2> DEFINE f == [j \in 1..(i - 1) |-> s[j]]
  <2>1. f \in [1..(i - 1) -> Above(H, h)]
    BY <1>8
  <2>2. \A j, k \in 1..(i - 1) : f[j] = f[k] => j = k
    BY <1>3, <1>8
  <2>3. \A g \in Above(H, h) : \E j \in 1..(i - 1) : f[j] = g
    BY <1>7
  <2> HIDE DEF f
  <2>4. f \in Bijection(1..(i - 1), Above(H, h))
    BY <2>1, <2>2, <2>3, Zenon DEF Bijection, Injection, IsInjective, Surjection
  <2>5. IsFiniteSet(1..(i - 1)) /\ Cardinality(1..(i - 1)) = i - 1
    BY <1>5, FS_Interval
  <2>6. ExistsBijection(1..(i - 1), Above(H, h))
    BY <2>4 DEF ExistsBijection
  <2> QED BY <2>5, <2>6, FS_Bijection
<1>10. 1 + Cardinality(Above(H, h)) = i
  BY <1>5, <1>9
<1> QED BY <1>4, <1>10 DEF n, s

-----------------------------------------------------------------------------
(* The answer is made of what was collected: sorted, one hit per cell.        *)

HitsOf(s) == {s[i] : i \in DOMAIN s}

LEMMA HitsFinite ==
    ASSUME NEW s \in Seq(Hit)
    PROVE  HitsOf(s) \in SUBSET Hit /\ IsFiniteSet(HitsOf(s))
<1> DEFINE f == [i \in 1..Len(s) |-> s[i]]
<1>1. Len(s) \in Nat /\ DOMAIN s = 1..Len(s) /\ \A i \in 1..Len(s) : s[i] \in Hit
  OBVIOUS
<1>2. f \in [1..Len(s) -> HitsOf(s)] /\ \A h \in HitsOf(s) : \E i \in 1..Len(s) : f[i] = h
  BY <1>1 DEF HitsOf
<1> HIDE DEF f
<1>3. f \in Surjection(1..Len(s), HitsOf(s))
  BY <1>2, Zenon DEF Surjection
<1>4. IsFiniteSet(1..Len(s))
  BY <1>1, FS_Interval
<1> QED BY <1>1, <1>3, <1>4, FS_Surjection DEF HitsOf

LEMMA EmittedHits ==
    ASSUME NEW found \in Seq(Hit)
    PROVE  /\ BestOfCells(Emitted(found)) \in SUBSET Hit
           /\ IsFiniteSet(BestOfCells(Emitted(found)))
           /\ OnePerCell(BestOfCells(Emitted(found)))
<1> DEFINE E == BestOfCells(Emitted(found))
<1>1. E \in SUBSET HitsOf(found)
  BY DEF BestOfCells, Emitted, HitsOf
<1>2. E \in SUBSET Hit /\ IsFiniteSet(E)
  BY <1>1, HitsFinite, FS_Subset
<1>3. ASSUME NEW g \in E, NEW h \in E, g.cell = h.cell PROVE g = h
  <2>1. g.score <= h.score /\ h.score <= g.score
    BY <1>3 DEF BestOfCells
  <2>2. g \in Hit /\ h \in Hit
    BY <1>2
  <2>3. g.score = h.score
    BY <2>1, <2>2, HitType
  <2> QED BY <1>3, <2>2, <2>3 DEF Hit
<1> QED BY <1>2, <1>3 DEF OnePerCell

LEMMA SortedType ==
    ASSUME NEW H \in SUBSET Hit, IsFiniteSet(H), OnePerCell(H)
    PROVE  Sorted(H) \in Seq(Hit) /\ Len(Sorted(H)) = Cardinality(H)
<1> DEFINE n == Cardinality(H)
           s == Sorted(H)
<1>1. n \in Nat /\ s \in [1..n -> H]
  BY FS_CardinalityType, SortedIsSorted
<1> HIDE DEF n, s
<1>2. s \in [1..n -> Hit] /\ DOMAIN s = 1..n
  BY <1>1
<1>3. s \in Seq(Hit) /\ Len(s) = n
  BY <1>1, <1>2
<1> QED BY <1>3 DEF n, s

LEMMA AnswerType ==
    ASSUME NEW found \in Seq(Hit), max_results \in Nat
    PROVE  Answer(found) \in Seq(Hit)
BY EmittedHits, SortedType, PrefixProperties DEF Answer

LEMMA AnswerInit == Init => AnswerInv
<1> SUFFICES ASSUME Init PROVE AnswerInv
  OBVIOUS
<1>1. ProbingInv
  BY ProbingInit
<1>2. /\ probe_limit = 0 /\ documents = << >> /\ results = << >> /\ pc = "start"
      /\ current \subseteq {ranked[i].cell : i \in DOMAIN ranked}
  BY DEF Init
<1>3. \A i \in DOMAIN ranked : ranked[i].cell \in 1..MaxCell
  <2>1. \A i \in DOMAIN ranked : ranked[i] \in Hit
    BY <1>1 DEF ProbingInv
  <2> QED BY <2>1 DEF Hit
<1>4. current \subseteq 1..MaxCell
  BY <1>2, <1>3
<1> QED BY <1>1, <1>2, <1>4 DEF AnswerInv, TypeOK, ProbingInv

LEMMA AnswerStep == AnswerInv /\ [Next]_vars => AnswerInv'
<1> SUFFICES ASSUME AnswerInv, [Next]_vars PROVE AnswerInv'
  OBVIOUS
<1>1. ProbingInv'
  BY ProbingStep DEF AnswerInv
<1>2. /\ ranked' = ranked /\ count' = count /\ current' = current
      /\ max_results' = max_results
  BY DEF Next, Start, Probe, Materialize, vars, inputs
<1>3. /\ ranked \in Seq(Hit) /\ count \in Nat /\ max_results \in Nat
      /\ probe_limit \in 0..count /\ documents \in Seq(Hit) /\ results \in Seq(Hit)
      /\ Target \in 0..count
  BY TargetType DEF AnswerInv, TypeOK
<1>4. /\ current' \subseteq 1..MaxCell
      /\ current' \subseteq {ranked'[i].cell : i \in DOMAIN ranked'}
  BY <1>2 DEF AnswerInv, TypeOK
<1>5. CASE Start
  <2>1. /\ probe_limit' \in 0..count' /\ documents' = documents /\ results' = results
        /\ pc' # "done"
    BY <1>2, <1>3, <1>5 DEF Start
  <2> QED BY <1>1, <1>2, <1>3, <1>4, <2>1 DEF AnswerInv, TypeOK, ProbingInv
<1>6. CASE Probe
  <2>1. probe_limit' \in 0..count' /\ results' = results /\ pc' # "done"
    BY <1>2, <1>3, <1>6 DEF Probe, NextLimit
  <2>2. documents' = documents \/ documents' = Search(probe_limit)
    BY <1>6 DEF Probe
  <2>3. /\ documents' \in Seq(Hit)
        /\ \A i \in DOMAIN documents' : i \in DOMAIN ranked' /\ documents'[i] = ranked'[i]
    <3>1. probe_limit \in Nat
      BY <1>3
    <3> QED BY <1>2, <1>3, <2>2, <3>1, PrefixProperties DEF AnswerInv, Search
  <2> QED BY <1>1, <1>3, <1>4, <2>1, <2>3 DEF AnswerInv, TypeOK, ProbingInv
<1>7. CASE Materialize
  <2>1. /\ probe_limit' = probe_limit /\ documents' = documents
        /\ results' = Answer(documents)
    BY <1>7 DEF Materialize
  <2>2. results' \in Seq(Hit)
    BY <1>3, <2>1, AnswerType
  <2>3. Answer(documents)' = Answer(documents)
    BY <1>2, <2>1 DEF Answer, Emitted
  <2>4. \A i \in DOMAIN documents' : i \in DOMAIN ranked' /\ documents'[i] = ranked'[i]
    BY <1>2, <2>1 DEF AnswerInv
  <2> QED BY <1>1, <1>2, <1>3, <1>4, <2>1, <2>2, <2>3, <2>4 DEF AnswerInv, TypeOK, ProbingInv
<1>8. CASE UNCHANGED vars
  <2>1. /\ probe_limit' = probe_limit /\ documents' = documents /\ results' = results
        /\ pc' = pc
    BY <1>8 DEF vars
  <2>2. Answer(documents)' = Answer(documents)
    BY <1>2, <2>1 DEF Answer, Emitted
  <2>3. pc' = "done" => results' = Answer(documents)'
    BY <2>1, <2>2 DEF AnswerInv
  <2> QED BY <1>1, <1>2, <1>3, <1>4, <2>1, <2>2, <2>3 DEF AnswerInv, TypeOK, ProbingInv
<1> QED BY <1>5, <1>6, <1>7, <1>8 DEF Next

(* Every search has the state its types say, however it ends.                 *)
THEOREM TypesAreKept == Spec => []TypeOK
<1>1. AnswerInv => TypeOK
  BY DEF AnswerInv
<1> QED BY AnswerInit, AnswerStep, <1>1, PTL DEF Spec

-----------------------------------------------------------------------------
(* What an ideal search would answer with, against what was collected.        *)

(* A bounded set of naturals that has an element has a greatest one.          *)
LEMMA GreatestElement ==
    ASSUME NEW b \in Nat, NEW S \in SUBSET 0..b, S # {}
    PROVE  Max(S) \in S /\ \A y \in S : Max(S) >= y
<1> DEFINE T == {k \in Nat : \E x \in S : k = b - x}
<1>1. T \in SUBSET Nat /\ T # {}
  <2>1. PICK x \in S : TRUE
    OBVIOUS
  <2>2. b - x \in T
    BY <2>1
  <2> QED BY <2>2
<1>2. PICK m \in T : \A k \in T : ~(<<k, m>> \in OpToRel(<, Nat))
  <2> HIDE DEF T
  <2> QED BY <1>1, NatLessThanWellFounded, WFMin
<1>3. \A k \in T : ~(k < m)
  BY <1>1, <1>2 DEF OpToRel
<1>4. PICK x \in S : m = b - x
  OBVIOUS
<1>5. \A y \in S : b - y \in T
  OBVIOUS
<1> HIDE DEF T
<1>6. \A y \in S : x >= y
  BY <1>3, <1>4, <1>5
<1> QED BY <1>6 DEF Max

LEMMA RankedHit ==
    ASSUME AnswerInv, NEW i \in DOMAIN ranked
    PROVE  ranked[i] \in Hit /\ i \in 1..Len(ranked) /\ i \in Nat /\ Len(ranked) \in Nat
BY DEF AnswerInv, TypeOK

(* A wanted hit is a hit of the ranking, the best of its cell.                *)
LEMMA WantedIsBest ==
    ASSUME AnswerInv, NEW c \in current
    PROVE  LET s == Max({ranked[i].score : i \in {j \in DOMAIN ranked : ranked[j].cell = c}})
               h == [score |-> s, cell |-> c]
           IN  /\ h \in Hit /\ h \in Wanted
               /\ \E i \in DOMAIN ranked : ranked[i] = h
               /\ \A i \in DOMAIN ranked : ranked[i].cell = c => ranked[i].score <= s
<1> DEFINE R == {ranked[i].score : i \in {j \in DOMAIN ranked : ranked[j].cell = c}}
           s == Max(R)
           h == [score |-> s, cell |-> c]
<1>1. \A i \in DOMAIN ranked : ranked[i].score \in 1..MaxScore
  BY RankedHit DEF Hit
<1>2. R \in SUBSET 0..MaxScore
  BY <1>1, TopDocsBounds
<1>3. R # {}
  <2>1. PICK i \in DOMAIN ranked : ranked[i].cell = c
    BY DEF AnswerInv
  <2>2. ranked[i].score \in R
    BY <2>1
  <2> QED BY <2>2
<1>4. s \in R /\ \A y \in R : s >= y
  <2> HIDE DEF R
  <2> QED BY <1>2, <1>3, GreatestElement, TopDocsBounds
<1>5. h \in Wanted
  BY DEF Wanted
<1> HIDE DEF s
<1>6. PICK i \in DOMAIN ranked : ranked[i].cell = c /\ ranked[i].score = s
  BY <1>4
<1>7. ranked[i] = h /\ ranked[i] \in Hit
  BY <1>6, RankedHit DEF Hit
<1>8. s \in Nat
  BY <1>2, <1>4
<1>9. \A k \in DOMAIN ranked : ranked[k].cell = c => ranked[k].score <= s
  <2> SUFFICES ASSUME NEW k \in DOMAIN ranked, ranked[k].cell = c
               PROVE  ranked[k].score <= s
    OBVIOUS
  <2>1. ranked[k].score \in R
    OBVIOUS
  <2>2. ranked[k].score \in Nat
    BY <1>2, <2>1
  <2> HIDE DEF R
  <2> QED BY <1>4, <1>8, <2>1, <2>2
<1> QED BY <1>5, <1>7, <1>9 DEF s

LEMMA WantedHit ==
    ASSUME AnswerInv, NEW h \in Wanted
    PROVE  /\ h \in Hit /\ h.cell \in current
           /\ \E i \in DOMAIN ranked : ranked[i] = h
           /\ \A i \in DOMAIN ranked : ranked[i].cell = h.cell => ranked[i].score <= h.score
<1> DEFINE top(c) == Max({ranked[i].score : i \in {j \in DOMAIN ranked : ranked[j].cell = c}})
<1>1. PICK c \in current : h = [score |-> top(c), cell |-> c]
  BY DEF Wanted
<1>2. /\ h \in Hit /\ \E i \in DOMAIN ranked : ranked[i] = h
      /\ \A i \in DOMAIN ranked : ranked[i].cell = c => ranked[i].score <= top(c)
  BY <1>1, WantedIsBest
<1> HIDE DEF top
<1>3. h.cell = c /\ h.score = top(c)
  BY <1>1
<1> QED BY <1>2, <1>3

LEMMA WantedFinite ==
    ASSUME AnswerInv
    PROVE  IsFiniteSet(Wanted) /\ Wanted \in SUBSET Hit
<1>1. ranked \in Seq(Hit)
  BY DEF AnswerInv, TypeOK
<1>2. Wanted \in SUBSET HitsOf(ranked)
  BY WantedHit DEF HitsOf
<1> QED BY <1>1, <1>2, HitsFinite, FS_Subset

(* Whatever scores no less than the boundary was collected.                   *)
LEMMA CollectedAbove ==
    ASSUME AnswerInv, pc = "done", max_results # 0, NEW i \in DOMAIN ranked,
           Target \in DOMAIN ranked => ranked[i].score >= ranked[Target].score
    PROVE  i \in DOMAIN documents /\ documents[i] = ranked[i]
<1>1. /\ count \in Nat /\ max_results \in Nat /\ count >= Len(ranked)
      /\ ranked \in Seq(Hit) /\ Falling(ranked) /\ CompleteTie
  BY DEF AnswerInv, TypeOK, ProbingInv
<1>2. i \in 1..Len(ranked) /\ Len(ranked) \in Nat /\ i \in Nat
  BY RankedHit
<1>3. Target \in 1..count
  BY <1>1, <1>2 DEF Target, Requested
<1>4. CASE i <= Target
  BY <1>1, <1>4 DEF CompleteTie
<1>5. CASE i > Target
  <2>1. Target \in DOMAIN ranked
    BY <1>1, <1>2, <1>3, <1>5
  <2>2. ranked[Target].score >= ranked[i].score
    BY <1>1, <1>5, <2>1 DEF Falling
  <2>3. ranked[Target].score \in Nat /\ ranked[i].score \in Nat
    BY <2>1, RankedHit, HitType
  <2>4. ranked[i].score = ranked[Target].score
    BY <2>1, <2>2, <2>3
  <2> QED BY <1>1, <2>1, <2>4 DEF CompleteTie
<1> QED BY <1>2, <1>3, <1>4, <1>5

(* Above the boundary, what is wanted is what the answer is made of.          *)
LEMMA WantedAnswered ==
    ASSUME AnswerInv, pc = "done", max_results # 0, NEW h \in Wanted,
           Target \in DOMAIN ranked => h.score >= ranked[Target].score
    PROVE  h \in BestOfCells(Emitted(documents))
<1>1. /\ h \in Hit /\ h.cell \in current
      /\ \A i \in DOMAIN ranked : ranked[i].cell = h.cell => ranked[i].score <= h.score
  BY WantedHit
<1>2. PICK i \in DOMAIN ranked : ranked[i] = h
  BY WantedHit
<1>3. i \in DOMAIN documents /\ documents[i] = h
  BY <1>2, CollectedAbove
<1>4. h \in Emitted(documents)
  BY <1>1, <1>3 DEF Emitted
<1>5. \A g \in Emitted(documents) : g.cell = h.cell => g.score <= h.score
  <2> SUFFICES ASSUME NEW g \in Emitted(documents), g.cell = h.cell PROVE g.score <= h.score
    OBVIOUS
  <2>1. PICK k \in DOMAIN documents : documents[k] = g
    BY DEF Emitted
  <2>2. k \in DOMAIN ranked /\ ranked[k] = g
    BY <2>1 DEF AnswerInv
  <2> QED BY <1>1, <2>2
<1> QED BY <1>4, <1>5 DEF BestOfCells

LEMMA AnsweredWanted ==
    ASSUME AnswerInv, pc = "done", max_results # 0,
           NEW g \in BestOfCells(Emitted(documents)),
           Target \in DOMAIN ranked => g.score >= ranked[Target].score
    PROVE  g \in Wanted
<1> DEFINE E == BestOfCells(Emitted(documents))
<1>1. PICK k \in DOMAIN documents : documents[k] = g /\ g.cell \in current
  BY DEF BestOfCells, Emitted
<1>2. k \in DOMAIN ranked /\ ranked[k] = g
  BY <1>1 DEF AnswerInv
<1>3. PICK w \in Wanted : w.cell = g.cell
  BY <1>1, WantedIsBest
<1>4. g \in Hit /\ w \in Hit /\ g.score <= w.score
  BY <1>2, <1>3, RankedHit, WantedHit
<1>5. Target \in DOMAIN ranked => w.score >= ranked[Target].score
  <2> SUFFICES ASSUME Target \in DOMAIN ranked PROVE w.score >= ranked[Target].score
    OBVIOUS
  <2>1. ranked[Target].score \in Nat /\ g.score \in Nat /\ w.score \in Nat
    BY <1>4, RankedHit, HitType
  <2>2. g.score >= ranked[Target].score
    OBVIOUS
  <2> QED BY <1>4, <2>1, <2>2
<1>6. w \in E
  BY <1>5, WantedAnswered
<1>7. OnePerCell(E)
  BY EmittedHits DEF AnswerInv, TypeOK
<1>8. g = w
  BY <1>3, <1>6, <1>7 DEF OnePerCell
<1> QED BY <1>8

LEMMA SameBefore ==
    ASSUME AnswerInv, pc = "done", max_results # 0, NEW h \in Wanted,
           Target \in DOMAIN ranked => h.score >= ranked[Target].score
    PROVE  Above(BestOfCells(Emitted(documents)), h) = Above(Wanted, h)
<1> DEFINE E == BestOfCells(Emitted(documents))
<1>1. E \in SUBSET Hit /\ Wanted \in SUBSET Hit
  BY EmittedHits, WantedFinite DEF AnswerInv, TypeOK
<1> HIDE DEF E
<1>2. ASSUME NEW g \in Hit, Before(g, h), Target \in DOMAIN ranked
      PROVE  g.score >= ranked[Target].score
  <2>1. ranked[Target].score \in Nat /\ g.score \in Nat /\ h.score \in Nat
    BY <1>1, <1>2, RankedHit, HitType
  <2>2. g.score >= h.score
    BY <1>2, <2>1 DEF Before
  <2>3. h.score >= ranked[Target].score
    BY <1>2
  <2> QED BY <2>1, <2>2, <2>3
<1>3. \A g \in E : Before(g, h) => g \in Wanted
  BY <1>1, <1>2, AnsweredWanted DEF E
<1>4. \A g \in Wanted : Before(g, h) => g \in E
  BY <1>1, <1>2, WantedAnswered DEF E
<1> QED BY <1>3, <1>4 DEF Above, E

(* Above the boundary every wanted hit is answered where it belongs.          *)
LEMMA PlacedAbove ==
    ASSUME AnswerInv, pc = "done", NEW h \in Wanted,
           Target \in DOMAIN ranked => h.score >= ranked[Target].score
    PROVE  InPlace(h)
<1> DEFINE E == BestOfCells(Emitted(documents))
           p == 1 + Cardinality(Above(E, h))
<1>1. max_results \in Nat /\ results = Prefix(Sorted(E), max_results)
  BY DEF AnswerInv, TypeOK, Answer
<1>2. Place(h) = 1 + Cardinality(Above(Wanted, h)) /\ Place(h) >= 1
  <2>1. IsFiniteSet(Above(Wanted, h))
    BY WantedFinite, FS_Subset DEF Above
  <2>2. Cardinality(Above(Wanted, h)) \in Nat
    BY <2>1, FS_CardinalityType
  <2> QED BY <2>2 DEF Place, Above
<1>3. CASE max_results = 0
  <2>1. Above(Wanted, h) \in SUBSET Wanted
    BY DEF Above
  <2>2. Cardinality(Above(Wanted, h)) \in Nat
    BY <2>1, WantedFinite, FS_Subset, FS_CardinalityType
  <2>3. ~(Place(h) <= max_results)
    BY <1>2, <1>3, <2>2
  <2> QED BY <2>3 DEF InPlace
<1>4. CASE max_results # 0
  <2>1. h \in E /\ Place(h) = p
    BY <1>2, <1>4, WantedAnswered, SameBefore
  <2>2. E \in SUBSET Hit /\ IsFiniteSet(E) /\ OnePerCell(E)
    BY EmittedHits DEF AnswerInv, TypeOK
  <2>3. p \in 1..Cardinality(E) /\ Sorted(E)[p] = h
    <3> HIDE DEF E
    <3> QED BY <2>1, <2>2, SortedPlaces
  <2>4. Sorted(E) \in Seq(Hit) /\ Len(Sorted(E)) = Cardinality(E)
    BY <2>2, SortedType
  <2>5. Cardinality(E) \in Nat
    BY <2>2, FS_CardinalityType
  <2> HIDE DEF E, p
  <2>6. p <= max_results => p \in DOMAIN Prefix(Sorted(E), max_results)
    <3>1. /\ Prefix(Sorted(E), max_results) \in Seq(Hit)
          /\ Len(Prefix(Sorted(E), max_results))
                = IF max_results < Len(Sorted(E)) THEN max_results ELSE Len(Sorted(E))
      BY <1>1, <2>4, PrefixProperties
    <3> QED BY <1>1, <2>3, <2>4, <2>5, <3>1
  <2>7. \A i \in DOMAIN Prefix(Sorted(E), max_results) :
           Prefix(Sorted(E), max_results)[i] = Sorted(E)[i]
    BY <1>1, <2>4, PrefixProperties
  <2>8. p <= max_results => p \in DOMAIN results /\ results[p] = h
    BY <1>1, <2>3, <2>6, <2>7
  <2> QED BY <2>1, <2>8 DEF InPlace
<1> QED BY <1>3, <1>4

(* Every search answers with the ideal answer as far as the boundary score,   *)
(* whatever the addresses of the documents and whatever hits were skipped.    *)
THEOREM IdealToBoundary == Spec => []AnswerIdealToBoundary
<1>1. AnswerInv => AnswerIdealToBoundary
  BY PlacedAbove DEF AnswerIdealToBoundary
<1> QED BY AnswerInit, AnswerStep, <1>1, PTL DEF Spec

(* It is the ideal answer to its end when enough hits are left: then all of   *)
(* the answer lies at or above the boundary.                                  *)
THEOREM IdealIfEnoughSurvive == Spec => []OrderingAuthoritativeIfEnoughSurvive
<1>1. ASSUME AnswerInv, pc = "done", EnoughSurvive, NEW h \in Wanted
      PROVE  InPlace(h)
  <2>1. CASE Target \in DOMAIN ranked => h.score >= ranked[Target].score
    BY <1>1, <2>1, PlacedAbove
  <2>2. CASE Target \in DOMAIN ranked /\ ~(h.score >= ranked[Target].score)
    <3> DEFINE B == {g \in Wanted : g.score >= ranked[Target].score}
               A == Above(Wanted, h)
    <3>1. ASSUME NEW g \in B PROVE g \in A
      <4>1. g \in Hit /\ h \in Hit /\ ranked[Target] \in Hit
        BY <1>1, <2>2, WantedFinite, RankedHit
      <4>2. g.score \in Nat /\ h.score \in Nat /\ ranked[Target].score \in Nat
        BY <4>1, HitType
      <4>3. g.score >= ranked[Target].score
        OBVIOUS
      <4>4. g.score > h.score
        BY <2>2, <4>2, <4>3
      <4> QED BY <4>4 DEF Before, Above
    <3>2. IsFiniteSet(A)
      BY <1>1, WantedFinite, FS_Subset DEF Above
    <3>3. IsFiniteSet(B) /\ Cardinality(B) <= Cardinality(A)
      <4>1. B \in SUBSET A
        BY <3>1
      <4> HIDE DEF A, B
      <4> QED BY <3>2, <4>1, FS_Subset
    <3>4. Cardinality(A) \in Nat /\ Cardinality(B) \in Nat
      BY <3>2, <3>3, FS_CardinalityType
    <3>5. Cardinality(B) >= max_results /\ max_results \in Nat
      BY <1>1, <2>2 DEF EnoughSurvive, AnswerInv, TypeOK
    <3>6. Place(h) = 1 + Cardinality(A)
      BY DEF Place, Above
    <3> HIDE DEF A, B
    <3>7. ~(Place(h) <= max_results)
      BY <3>3, <3>4, <3>5, <3>6
    <3> QED BY <3>7 DEF InPlace
  <2> QED BY <2>1, <2>2
<1>2. AnswerInv => OrderingAuthoritativeIfEnoughSurvive
  BY <1>1 DEF OrderingAuthoritativeIfEnoughSurvive
<1> QED BY AnswerInit, AnswerStep, <1>2, PTL DEF Spec

(* The safety half of Termination: a probe that does not end the loop is      *)
(* followed by one with a strictly higher limit, never beyond the index.      *)
THEOREM ProbingRises ==
    Spec => [][pc = "probe" => \/ pc' = "materialize"
                               \/ probe_limit' > probe_limit /\ probe_limit' <= count]_vars
<1> DEFINE Rises == pc = "probe" => \/ pc' = "materialize"
                                    \/ probe_limit' > probe_limit /\ probe_limit' <= count
<1>1. ASSUME ProbingInv, Next PROVE Rises
  <2>1. CASE pc = "probe"
    <3>1. Probe
      BY <1>1, <2>1 DEF Next, Start, Materialize
    <3>2. CASE Enough(probe_limit, Search(probe_limit))
      BY <3>1, <3>2 DEF Probe
    <3>3. CASE ~Enough(probe_limit, Search(probe_limit))
      <4>1. probe_limit' = NextLimit(probe_limit) /\ NextLimit(probe_limit) # probe_limit
        BY <3>1, <3>3 DEF Probe, Enough
      <4>2. /\ probe_limit \in Nat /\ probe_limit # 0 /\ probe_limit <= count
            /\ count \in Nat
        BY <1>1, <2>1, TargetType DEF ProbingInv
      <4> QED BY <4>1, <4>2 DEF NextLimit
    <3> QED BY <3>2, <3>3
  <2> QED BY <2>1
<1> HIDE DEF Rises
<1>2. ProbingInv /\ [Next]_vars => [Rises]_vars
  BY <1>1
<1>3. Spec => [][Rises]_vars
  BY ProbingInit, ProbingStep, <1>2, PTL DEF Spec
<1> QED BY <1>3 DEF Rises
=============================================================================

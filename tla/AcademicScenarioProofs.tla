------------------------ MODULE AcademicScenarioProofs ------------------------
(***************************************************************************)
(* Proofs about AcademicScenario, for every set of candidates, policies    *)
(* and search limits: a completed scenario is lawful, and unless the limit *)
(* warning is stored no lawful selection beats it; it is stored whole, its *)
(* credits add up, and what it leaves open has its warning.                *)
(***************************************************************************)
EXTENDS AcademicScenario, SearchProofs

(* The candidates of one source *)

Part(C, s) == {c \in C : sourceOf[c] = s}
PartsAreChoices(r, C) == \A s \in UsedSources(r) : Part(C, s) \in Choices(r, s)

USE AllocatorInput DEF ScenarioAssumption

LEMMA RequestTyped ==
  ASSUME NEW r \in Requests
  PROVE /\ r \in RequestType
        /\ r.offered \subseteq Candidates
        /\ UsedSources(r) \subseteq Sources
        /\ Candidates \subseteq Nat
<1>1. r \in RequestType
  OBVIOUS
<1>2. r.offered \subseteq Candidates
  BY <1>1 DEF RequestType
<1> QED
  BY <1>1, <1>2 DEF UsedSources, Candidates

\* A choice is empty, one candidate of the source, or a shareable pair of them.
LEMMA ChoiceShape ==
  ASSUME NEW r \in Requests, NEW s, NEW C \in Choices(r, s)
  PROVE \/ C = {}
        \/ \E c \in Of(r, s) : C = {c}
        \/ \E c, d \in Of(r, s) : c < d /\ C = {c, d} /\ Shareable(r, C)
<1>1. CASE C \in {pair \in {{c, d} : c, d \in Of(r, s)} : Shareable(r, pair)}
  <2>1. PICK c \in Of(r, s), d \in Of(r, s) : C = {c, d} /\ Shareable(r, C)
    BY <1>1
  <2>2. c # d
    BY <2>1 DEF Shareable
  <2>3. c \in Nat /\ d \in Nat
    BY RequestTyped DEF Of
  <2>4. c < d \/ d < c
    BY <2>2, <2>3
  <2>5. {c, d} = {d, c}
    OBVIOUS
  <2> QED
    BY <2>1, <2>4, <2>5
<1> QED
  BY <1>1 DEF Choices

LEMMA LeastOfOne ==
  ASSUME NEW c \in Nat
  PROVE Least({c}) = c
<1>1. Least({c}) \in {c}
  BY LeastMember, SMTT(60)
<1> QED
  BY <1>1

LEMMA LeastOfTwo ==
  ASSUME NEW c \in Nat, NEW d \in Nat, c < d
  PROVE Least({c, d}) = c /\ Greatest({c, d}) = d /\ {c, d} # {c}
<1>1. Least({c, d}) \in {c, d} /\ \A m \in {c, d} : Least({c, d}) <= m
  BY LeastMember
<1>2. \A m \in {c, d} : m <= d
  OBVIOUS
<1>3. Greatest({c, d}) \in {c, d} /\ \A m \in {c, d} : m <= Greatest({c, d})
  BY <1>2, Zenon DEF Greatest
<1> QED
  BY <1>1, <1>3

\* The number of a choice, by its shape.
LEMMA RankOf ==
  ASSUME NEW c \in Candidates, NEW d \in Candidates
  PROVE /\ Rank({}) = 0
        /\ Rank({c}) = (CandidateCount + 1) * stableRank[c] + 0
        /\ c < d => Rank({c, d}) = (CandidateCount + 1) * stableRank[c] + stableRank[d]
<1>1. c \in Nat /\ d \in Nat
  BY DEF Candidates
<1>2. Rank({c}) = (CandidateCount + 1) * stableRank[c] + 0
  <2>1. Least({c}) = c
    BY <1>1, LeastOfOne
  <2>2. {c} # {}
    OBVIOUS
  <2> QED
    BY <2>1, <2>2 DEF Rank
<1>3. ASSUME c < d PROVE Rank({c, d}) = (CandidateCount + 1) * stableRank[c] + stableRank[d]
  <2>1. Least({c, d}) = c /\ Greatest({c, d}) = d /\ {c, d} # {c}
    BY <1>1, <1>3, LeastOfTwo
  <2>2. {c, d} # {}
    OBVIOUS
  <2> QED
    BY <2>1, <2>2 DEF Rank
<1> QED
  BY <1>2, <1>3 DEF Rank

\* Two digits determine the number they write.
LEMMA DigitsUnique ==
  ASSUME NEW n \in Nat, NEW a \in Nat, NEW b \in 0..n, NEW e \in Nat, NEW f \in 0..n,
         (n + 1) * a + b = (n + 1) * e + f
  PROVE a = e /\ b = f
<1>1. ASSUME NEW x \in Nat, NEW y \in Nat, NEW u \in 0..n, NEW v \in 0..n, x < y
      PROVE (n + 1) * x + u < (n + 1) * y + v
  <2>1. PICK k \in Nat : y = x + 1 + k
    <3>1. y - x - 1 \in Nat /\ y = x + 1 + (y - x - 1)
      BY <1>1
    <3> QED
      BY <3>1
  <2>2. (n + 1) * y = (n + 1) * x + (n + 1) + (n + 1) * k
    BY <2>1
  <2>3. (n + 1) * k \in Nat /\ (n + 1) * x \in Nat
    OBVIOUS
  <2> QED
    BY <2>2, <2>3
<1>2. ~ (a < e) /\ ~ (e < a)
  <2>1. a < e => (n + 1) * a + b < (n + 1) * e + f
    BY <1>1
  <2>2. e < a => (n + 1) * e + f < (n + 1) * a + b
    BY <1>1
  <2>3. (n + 1) * a + b \in Int
    OBVIOUS
  <2> QED
    BY <2>1, <2>2, <2>3
<1>3. a = e
  BY <1>2
<1>4. (n + 1) * a \in Nat
  OBVIOUS
<1> QED
  BY <1>3, <1>4

\* A choice is written by the ranks of its first and last candidate.
Written(C, a, b) ==
  \/ C = {} /\ a = 0 /\ b = 0
  \/ \E c \in Candidates : C = {c} /\ a = stableRank[c] /\ b = 0
  \/ \E c, d \in Candidates : C = {c, d} /\ a = stableRank[c] /\ b = stableRank[d]

LEMMA RankShape ==
  ASSUME NEW r \in Requests, NEW s, NEW C \in Choices(r, s)
  PROVE \E a \in Nat, b \in 0..CandidateCount :
          Rank(C) = (CandidateCount + 1) * a + b /\ Written(C, a, b)
<1>1. \A c \in Candidates : stableRank[c] \in Candidates
  OBVIOUS
<1>2. \A c \in Candidates : stableRank[c] \in Nat /\ stableRank[c] \in 0..CandidateCount
  BY <1>1 DEF Candidates
<1>3. Of(r, s) \subseteq Candidates
  BY RequestTyped DEF Of
<1>4. CASE C = {}
  <2>1. Rank(C) = (CandidateCount + 1) * 0 + 0
    BY <1>4 DEF Rank
  <2> QED
    BY <1>4, <2>1 DEF Written
<1>5. CASE \E c \in Of(r, s) : C = {c}
  <2>1. PICK c \in Candidates : C = {c}
    BY <1>3, <1>5
  <2>2. Rank(C) = (CandidateCount + 1) * stableRank[c] + 0
    BY <2>1, RankOf
  <2>3. 0 \in 0..CandidateCount
    OBVIOUS
  <2> QED
    BY <1>2, <2>1, <2>2, <2>3 DEF Written
<1>6. CASE \E c, d \in Of(r, s) : c < d /\ C = {c, d} /\ Shareable(r, C)
  <2>1. PICK c \in Candidates, d \in Candidates : c < d /\ C = {c, d}
    BY <1>3, <1>6
  <2>2. Rank(C) = (CandidateCount + 1) * stableRank[c] + stableRank[d]
    BY <2>1, RankOf
  <2> QED
    BY <1>2, <2>1, <2>2 DEF Written
<1> QED
  BY <1>4, <1>5, <1>6, ChoiceShape

\* Different choices of a source have different numbers.
LEMMA RankInjective ==
  ASSUME NEW r \in Requests, NEW s, NEW C \in Choices(r, s), NEW E \in Choices(r, s),
         Rank(C) = Rank(E)
  PROVE C = E
<1>1. PICK a \in Nat, b \in 0..CandidateCount :
        Rank(C) = (CandidateCount + 1) * a + b /\ Written(C, a, b)
  BY RankShape, Zenon
<1>2. PICK e \in Nat, f \in 0..CandidateCount :
        Rank(E) = (CandidateCount + 1) * e + f /\ Written(E, e, f)
  BY RankShape, Zenon
<1>3. a = e /\ b = f
  <2>1. (CandidateCount + 1) * a + b = (CandidateCount + 1) * e + f /\ CandidateCount \in Nat
    BY <1>1, <1>2
  <2> QED
    BY <2>1, DigitsUnique, ZenonT(60)
<1>4. \A c \in Candidates : stableRank[c] # 0
  <2>1. \A c \in Candidates : stableRank[c] \in Candidates
    OBVIOUS
  <2> QED
    BY <2>1 DEF Candidates
<1>5. Written(C, a, b) /\ Written(E, a, b)
  BY <1>1, <1>2, <1>3
<1> QED
  BY <1>4, <1>5 DEF Written

LEMMA MenuIsMenu ==
  ASSUME NEW r \in Requests
  PROVE IsMenu(Menu(r), SourceCount)
<1>1. DOMAIN Menu(r) = UsedSources(r) /\ UsedSources(r) \subseteq 1..SourceCount
  BY RequestTyped DEF Menu, Sources
<1>2. ASSUME NEW s \in UsedSources(r)
      PROVE Menu(r)[s] \subseteq Nat /\ Menu(r)[s] # {}
  <2>1. Menu(r)[s] = {Rank(C) : C \in Choices(r, s)}
    BY DEF Menu
  <2>2. \A C \in Choices(r, s) : Rank(C) \in Nat
    <3>1. TAKE C \in Choices(r, s)
    <3>2. PICK a \in Nat, b \in 0..CandidateCount : Rank(C) = (CandidateCount + 1) * a + b
      BY RankShape, Zenon
    <3>3. (CandidateCount + 1) * a \in Nat /\ b \in Nat
      OBVIOUS
    <3> QED
      BY <3>2, <3>3
  <2>3. {} \in Choices(r, s)
    BY DEF Choices
  <2> QED
    BY <2>1, <2>2, <2>3
<1> QED
  BY <1>1, <1>2 DEF IsMenu

\* The choice written by a number of the menu.
LEMMA ChoiceOfRank ==
  ASSUME NEW r \in Requests, NEW s, NEW C \in Choices(r, s)
  PROVE ChoiceOf(r, s, Rank(C)) = C
<1>1. ChoiceOf(r, s, Rank(C)) \in Choices(r, s) /\ Rank(ChoiceOf(r, s, Rank(C))) = Rank(C)
  BY Zenon DEF ChoiceOf
<1> QED
  BY <1>1, RankInjective

(* Selections and paths *)

LEMMA ChoiceSubset ==
  ASSUME NEW r \in Requests, NEW s, NEW C \in Choices(r, s)
  PROVE C \subseteq Of(r, s)
BY DEF Choices

\* The leaf that selects a set of candidates.
LeafOf(r, C) == [s \in UsedSources(r) |-> Rank(Part(C, s))]

\* A leaf selects offered candidates, a choice of each source, and no other leaf them.
LEMMA LeafShape ==
  ASSUME NEW r \in Requests, NEW q, IsPath(q, Menu(r))
  PROVE /\ Selection(r, q) \subseteq r.offered /\ PartsAreChoices(r, Selection(r, q))
        /\ LeafOf(r, Selection(r, q)) = q
<1>1. \A s \in UsedSources(r) : ChoiceOf(r, s, q[s]) \in Choices(r, s) /\ Rank(ChoiceOf(r, s, q[s])) = q[s]
  <2>1. TAKE s \in UsedSources(r)
  <2>2. q[s] \in {Rank(C) : C \in Choices(r, s)}
    BY DEF IsPath, Menu
  <2>3. PICK C \in Choices(r, s) : q[s] = Rank(C)
    BY <2>2
  <2> QED
    BY <2>3, ChoiceOfRank
<1>2. \A s \in UsedSources(r) : ChoiceOf(r, s, q[s]) \subseteq Of(r, s)
  BY <1>1, ChoiceSubset
<1>3. Selection(r, q) \subseteq r.offered
  BY <1>2 DEF Selection, Of
<1>4. ASSUME NEW s \in UsedSources(r)
      PROVE Part(Selection(r, q), s) = ChoiceOf(r, s, q[s])
  <2>1. \A c \in Selection(r, q) : sourceOf[c] = s => c \in ChoiceOf(r, s, q[s])
    BY <1>2 DEF Selection, Of
  <2>2. \A c \in ChoiceOf(r, s, q[s]) : c \in Selection(r, q) /\ sourceOf[c] = s
    BY <1>2, <1>4 DEF Selection, Of
  <2> QED
    BY <2>1, <2>2 DEF Part
<1>5. q = [s \in UsedSources(r) |-> q[s]]
  BY DEF IsPath, Menu
<1>6. LeafOf(r, Selection(r, q)) = [s \in UsedSources(r) |-> q[s]]
  BY <1>1, <1>4 DEF LeafOf
<1> QED
  BY <1>1, <1>3, <1>4, <1>5, <1>6 DEF PartsAreChoices

\* A set of offered candidates whose parts are choices is the selection of a leaf.
LEMMA LeafExists ==
  ASSUME NEW r \in Requests, NEW C \in SUBSET r.offered, PartsAreChoices(r, C)
  PROVE IsPath(LeafOf(r, C), Menu(r)) /\ Selection(r, LeafOf(r, C)) = C
<1> DEFINE q == [s \in UsedSources(r) |-> Rank(Part(C, s))]
<1>1. \A s \in UsedSources(r) : Part(C, s) \in Choices(r, s)
  BY DEF PartsAreChoices
<1>2. IsPath(q, Menu(r))
  <2>1. \A s \in UsedSources(r) : q[s] \in Menu(r)[s]
    BY <1>1 DEF Menu
  <2>2. DOMAIN Menu(r) = UsedSources(r) /\ \A s \in UsedSources(r) : Menu(r)[s] \subseteq Nat
    BY MenuIsMenu DEF Menu, IsMenu
  <2>3. q \in [UsedSources(r) -> Nat]
    BY <2>1, <2>2
  <2> QED
    BY <2>1, <2>2, <2>3 DEF IsPath
<1>3. \A s \in UsedSources(r) : ChoiceOf(r, s, q[s]) = Part(C, s)
  BY <1>1, ChoiceOfRank
<1>4. Selection(r, q) = UNION {Part(C, s) : s \in UsedSources(r)}
  BY <1>3 DEF Selection
<1>5. UNION {Part(C, s) : s \in UsedSources(r)} = C
  <2>1. \A c \in C : sourceOf[c] \in UsedSources(r)
    BY DEF UsedSources
  <2> QED
    BY <2>1 DEF Part
<1> QED
  BY <1>2, <1>4, <1>5 DEF LeafOf

(* How many leaves there are *)

\* What the leaves before p select.
Seen(r, p) == {C \in Combinations(r) : Earlier(LeafOf(r, C), p)}

LEMMA LeavesAndCombinations ==
  ASSUME NEW r \in Requests
  PROVE /\ IsFiniteSet(Combinations(r))
        /\ \A q : IsPath(q, Menu(r)) => Selection(r, q) \in Combinations(r)
        /\ \A C \in Combinations(r) : IsPath(LeafOf(r, C), Menu(r)) /\ Selection(r, LeafOf(r, C)) = C
<1>1. IsFiniteSet(r.offered)
  BY RequestTyped, FS_Interval, FS_Subset DEF Candidates
<1>2. Combinations(r) = {C \in SUBSET r.offered : PartsAreChoices(r, C)}
  BY DEF Combinations, PartsAreChoices, Part
<1>3. IsFiniteSet(SUBSET r.offered)
  BY <1>1, FS_SUBSET
<1>4. IsFiniteSet(Combinations(r))
  BY <1>2, <1>3, FS_Subset
<1> QED
  BY <1>2, <1>4, LeafShape, LeafExists

LEMMA PathsAreTuples ==
  ASSUME NEW r \in Requests
  PROVE /\ DOMAIN Menu(r) \subseteq Nat
        /\ \A q : IsPath(q, Menu(r)) => q \in [DOMAIN Menu(r) -> Int]
<1>1. DOMAIN Menu(r) \subseteq 1..SourceCount
  BY MenuIsMenu DEF IsMenu
<1> QED
  BY <1>1 DEF IsPath

\* Nothing is seen before the first leaf ...
LEMMA SeenAtFirst == ASSUME NEW r \in Requests PROVE Seen(r, FirstPath(Menu(r))) = {}
BY LeavesAndCombinations, MenuIsMenu, FirstIsFirst DEF Seen

\* ... a leaf selects what was not seen ...
LEMMA SelectionIsNew ==
  ASSUME NEW r \in Requests, NEW p, IsPath(p, Menu(r))
  PROVE Selection(r, p) \in Combinations(r) \ Seen(r, p)
BY LeavesAndCombinations, LeafShape, PathsAreTuples, EarlierIrreflexive DEF Seen

\* ... the next leaf has seen one more, and the last one all the others.
LEMMA SeenGrows ==
  ASSUME NEW r \in Requests, NEW p, IsPath(p, Menu(r))
  PROVE /\ Open(p, Menu(r)) # {} => Seen(r, NextPath(p, Menu(r))) = Seen(r, p) \cup {Selection(r, p)}
        /\ Open(p, Menu(r)) = {} => Combinations(r) = Seen(r, p) \cup {Selection(r, p)}
<1>1. IsMenu(Menu(r), SourceCount)
  BY MenuIsMenu
<1>2. Selection(r, p) \in Combinations(r) /\ LeafOf(r, Selection(r, p)) = p
  BY LeavesAndCombinations, LeafShape
<1>3. ASSUME Open(p, Menu(r)) # {}
      PROVE Seen(r, NextPath(p, Menu(r))) = Seen(r, p) \cup {Selection(r, p)}
  <2> DEFINE next == NextPath(p, Menu(r))
  <2>1. /\ IsPath(next, Menu(r)) /\ Earlier(p, next)
        /\ \A q : IsPath(q, Menu(r)) /\ Earlier(q, next) => q = p \/ Earlier(q, p)
    BY <1>1, <1>3, NextIsNext
  <2> HIDE DEF next
  <2>2. \A q : IsPath(q, Menu(r)) /\ Earlier(q, p) => Earlier(q, next)
    BY <2>1, PathsAreTuples, EarlierTransitive
  <2>3. Seen(r, next) = Seen(r, p) \cup {Selection(r, p)}
    BY <1>2, <2>1, <2>2, LeavesAndCombinations DEF Seen
  <2> QED
    BY <2>3 DEF next
<1>4. ASSUME Open(p, Menu(r)) = {}
      PROVE Combinations(r) = Seen(r, p) \cup {Selection(r, p)}
  <2>1. \A q : IsPath(q, Menu(r)) => q = p \/ Earlier(q, p)
    BY <1>1, <1>4, LastIsLast
  <2> QED
    BY <1>2, <2>1, LeavesAndCombinations DEF Seen
<1> QED
  BY <1>3, <1>4

\* The number of leaves before p, of those up to p, and of all.
LEMMA SeenCounted ==
  ASSUME NEW r \in Requests, NEW p, IsPath(p, Menu(r))
  PROVE /\ Cardinality(Seen(r, p)) \in Nat
        /\ Cardinality(Seen(r, p) \cup {Selection(r, p)}) = Cardinality(Seen(r, p)) + 1
        /\ Cardinality(Combinations(r)) \in Nat
        /\ Cardinality(Seen(r, p)) < Cardinality(Combinations(r))
<1>1. Seen(r, p) \cup {Selection(r, p)} \subseteq Combinations(r) /\ Selection(r, p) \notin Seen(r, p)
  BY SelectionIsNew DEF Seen
<1>2. IsFiniteSet(Combinations(r)) /\ IsFiniteSet(Seen(r, p))
  BY LeavesAndCombinations, <1>1, FS_Subset
<1>3. Cardinality(Seen(r, p) \cup {Selection(r, p)}) = Cardinality(Seen(r, p)) + 1
  BY <1>1, <1>2, FS_AddElement
<1>4. Cardinality(Seen(r, p) \cup {Selection(r, p)}) <= Cardinality(Combinations(r))
  BY <1>1, <1>2, FS_Subset
<1>5. Cardinality(Seen(r, p)) \in Nat /\ Cardinality(Combinations(r)) \in Nat
  BY <1>2, FS_CardinalityType
<1> QED
  BY <1>3, <1>4, <1>5

(* What the rules allow and what the allocator accepts *)

LEMMA SharesAreShared ==
  ASSUME NEW r \in Requests, NEW C \in SUBSET r.offered
  PROVE /\ SharesIn(C) = {c \in C : sourceOf[c] \in SharedSources(C)}
        /\ \A s : s \in SharedSources(C) <=> \E c, d \in C : c # d /\ sourceOf[c] = s /\ sourceOf[d] = s
<1>1. \A c \in C : sourceOf[c] \in Sources
  BY RequestTyped
<1> QED
  BY <1>1 DEF SharesIn, SharedSources

\* Lawful selections use a source at most twice, so their parts are choices.
LEMMA LawfulParts ==
  ASSUME NEW r \in Requests, NEW C \in SUBSET r.offered, Lawful(r, C)
  PROVE PartsAreChoices(r, C)
<1>1. ASSUME NEW s \in UsedSources(r) PROVE Part(C, s) \in Choices(r, s)
  <2>1. Part(C, s) \subseteq Of(r, s)
    BY DEF Part, Of
  <2>2. \A c, d \in Part(C, s) : c # d => MayShare(r, c, d) /\ sourceOf[c] = sourceOf[d]
    BY DEF Lawful, Part
  <2>3. \A c \in Candidates : IsPrimary(c) \in BOOLEAN
    BY DEF IsPrimary
  <2>4. \A c, d \in Part(C, s) : c # d => IsPrimary(c) # IsPrimary(d)
    BY <2>2 DEF MayShare
  <2>5. CASE Part(C, s) = {}
    BY <2>5 DEF Choices
  <2>6. CASE \E c \in Part(C, s) : Part(C, s) = {c}
    BY <2>1, <2>6 DEF Choices
  <2>7. CASE \E c, d \in Part(C, s) : c # d
    <3>1. PICK p \in Part(C, s), d \in Part(C, s) : p # d /\ IsPrimary(p) /\ ~ IsPrimary(d)
      BY <2>4, <2>7 DEF IsPrimary
    <3>2. \A e \in Part(C, s) : e = p \/ e = d
      BY <2>4, <3>1 DEF IsPrimary
    <3>3. Part(C, s) = {p, d}
      BY <3>1, <3>2
    <3>4. MayShare(r, p, d) /\ sourceOf[p] = sourceOf[d]
      BY <2>2, <3>1
    <3>5. ProgramOf(p) = primaryProgram /\ ProgramOf(d) # primaryProgram
      BY <3>1 DEF IsPrimary
    <3>6. Shareable(r, {p, d})
      BY <3>1, <3>4, <3>5 DEF Shareable, MayShare
    <3> QED
      BY <2>1, <3>1, <3>3, <3>6 DEF Choices
  <2> QED
    BY <2>5, <2>6, <2>7
<1> QED
  BY <1>1 DEF PartsAreChoices

\* A shareable set has earned candidates only.
LEMMA ShareableEarned ==
  ASSUME NEW r \in Requests, NEW S, Shareable(r, S), NEW c \in S
  PROVE r.earned[sourceOf[c]]
BY DEF Shareable

\* With parts that are choices, the allocator accepts exactly the lawful selections.
LEMMA AcceptedIsLawful ==
  ASSUME NEW r \in Requests, NEW C \in SUBSET r.offered, PartsAreChoices(r, C)
  PROVE IsValidSelection(r, C) <=> Lawful(r, C)
<1> DEFINE Shared(p) == {c \in SharesIn(C) : ProgramOf(c) = p}
<1>1. \A s \in SharedSources(C) : s \in UsedSources(r) /\ Part(C, s) = {c \in C : sourceOf[c] = s}
  BY SharesAreShared DEF UsedSources, Part
<1>2. \A s \in SharedSources(C) : Shareable(r, Part(C, s))
  <2>1. TAKE s \in SharedSources(C)
  <2>2. PICK c \in C, d \in C : c # d /\ sourceOf[c] = s /\ sourceOf[d] = s
    BY SharesAreShared
  <2>3. c \in Part(C, s) /\ d \in Part(C, s)
    BY <2>2 DEF Part
  <2>4. Part(C, s) \in Choices(r, s)
    BY <1>1 DEF PartsAreChoices
  <2> QED
    BY <2>2, <2>3, <2>4, ChoiceShape
<1>3. \A c \in SharesIn(C) : r.earned[sourceOf[c]]
  <2>1. TAKE c \in SharesIn(C)
  <2>2. sourceOf[c] \in SharedSources(C) /\ c \in Part(C, sourceOf[c])
    BY SharesAreShared DEF Part
  <2> QED
    BY <1>2, <2>2, ShareableEarned
<1>4. \A c, d \in C : c # d /\ sourceOf[c] = sourceOf[d] => MayShare(r, c, d)
  <2>1. SUFFICES ASSUME NEW c \in C, NEW d \in C, c # d, sourceOf[c] = sourceOf[d]
                 PROVE MayShare(r, c, d)
    OBVIOUS
  <2> DEFINE s == sourceOf[c]
  <2>2. s \in SharedSources(C) /\ c \in Part(C, s) /\ d \in Part(C, s)
    BY <2>1, SharesAreShared DEF Part
  <2>3. Part(C, s) \in Choices(r, s) /\ Shareable(r, Part(C, s))
    BY <1>1, <1>2, <2>2 DEF PartsAreChoices
  <2>4. Part(C, s) = {c, d}
    <3>1. \/ Part(C, s) = {}
          \/ \E x \in Of(r, s) : Part(C, s) = {x}
          \/ \E x, y \in Of(r, s) : x < y /\ Part(C, s) = {x, y} /\ Shareable(r, Part(C, s))
      BY <2>3, ChoiceShape
    <3> QED
      BY <2>1, <2>2, <3>1
  <2>5. Shareable(r, {c, d})
    BY <2>3, <2>4
  <2> QED
    BY <2>1, <2>5 DEF Shareable, MayShare, IsPrimary
<1>5. {ProgramOf(c) : c \in {d \in C : sourceOf[d] \in SharedSources(C)}} = {ProgramOf(c) : c \in SharesIn(C)}
  BY SharesAreShared
<1>6. \A p : {c \in C : ProgramOf(c) = p /\ sourceOf[c] \in SharedSources(C) /\ r.earned[sourceOf[c]]} = Shared(p)
  BY <1>3, SharesAreShared
<1>7. \A p : SharedWith(r, C, p) = CandidateCredits(r, Shared(p))
  <2>1. TAKE p
  <2>2. SharedWith(r, C, p) =
          CandidateCredits(r, {c \in C : ProgramOf(c) = p /\ sourceOf[c] \in SharedSources(C) /\ r.earned[sourceOf[c]]})
    BY Zenon DEF SharedWith
  <2>3. {c \in C : ProgramOf(c) = p /\ sourceOf[c] \in SharedSources(C) /\ r.earned[sourceOf[c]]} = Shared(p)
    BY <1>6
  <2> HIDE DEF Shared
  <2> QED
    BY <2>2, <2>3, Zenon
<1>8. \A s \in SharedSources(C) : Shareable(r, {c \in C : sourceOf[c] = s})
  BY <1>1, <1>2
<1> DEFINE Within == \A p \in {ProgramOf(c) : c \in SharesIn(C)} \ {primaryProgram} :
                       CandidateCredits(r, Shared(p)) <= r.policy[p].sharedMax
           Distinct == \A c, d \in C : c # d => nodeOf[c] # nodeOf[d]
<1>9. Lawful(r, C) <=> Distinct /\ Within
  BY <1>4, Zenon DEF Lawful
<1>10. (\A c, d \in C : nodeOf[c] = nodeOf[d] => c = d) <=> Distinct
  OBVIOUS
<1>11. (\A p \in {ProgramOf(c) : c \in {d \in C : sourceOf[d] \in SharedSources(C)}} \ {primaryProgram} :
          SharedWith(r, C, p) <= r.policy[p].sharedMax) <=> Within
  <2> HIDE DEF Shared
  <2> QED
    BY <1>5, <1>7, Zenon
<1> HIDE DEF Within, Distinct
<1>12. IsValidSelection(r, C) <=> Distinct /\ Within
  BY <1>8, <1>10, <1>11, Zenon DEF IsValidSelection
<1> QED
  BY <1>9, <1>12

(* Which selection is better *)

\* Sums of credits are numbers.
LEMMA CreditsTyped ==
  ASSUME NEW r \in Requests
  PROVE /\ \A S \in SUBSET Sources : SourceCredits(r, S) \in Nat
        /\ \A C \in SUBSET r.offered : IsFiniteSet(C) /\ CandidateCredits(r, C) \in Nat
<1>1. IsFiniteSet(Sources) /\ IsFiniteSet(r.offered)
  BY RequestTyped, FS_Interval, FS_Subset DEF Candidates, Sources
<1>2. \A s \in Sources : r.credit[s] \in Nat
  BY RequestTyped DEF RequestType
<1>3. ASSUME NEW S \in SUBSET Sources PROVE SourceCredits(r, S) \in Nat
  <2>1. IsFiniteSet(S)
    BY <1>1, FS_Subset
  <2> QED
    BY <1>2, <2>1, SumTyped, Zenon DEF SourceCredits
<1>4. ASSUME NEW C \in SUBSET r.offered PROVE IsFiniteSet(C) /\ CandidateCredits(r, C) \in Nat
  <2> DEFINE f == [c \in C |-> r.credit[sourceOf[c]]]
  <2>1. IsFiniteSet(C)
    BY <1>1, FS_Subset
  <2>2. \A c \in C : f[c] \in Nat
    BY <1>2, RequestTyped
  <2>3. CandidateCredits(r, C) = SumFunctionOnSet(f, C)
    BY DEF CandidateCredits
  <2> HIDE DEF f
  <2> QED
    BY <2>1, <2>2, <2>3, SumTyped
<1> QED
  BY <1>3, <1>4

Objectives == [requirements : Nat, unique : Nat, credits : Nat, shared : Nat, manual : Nat]
LEMMA ObjectiveTyped ==
  ASSUME NEW r \in Requests, NEW C \in SUBSET r.offered
  PROVE Objective(r, C) \in Objectives
<1>1. NeedsReview(r, C) \subseteq C /\ UniqueCandidates(r, C) \subseteq r.offered
  BY DEF NeedsReview, UniqueCandidates
<1>2. IsFiniteSet(C) /\ IsFiniteSet(NeedsReview(r, C))
  BY <1>1, CreditsTyped
<1>3. Cardinality(C) \in Nat /\ Cardinality(NeedsReview(r, C)) \in Nat
  BY <1>2, FS_CardinalityType
<1>4. CandidateCredits(r, UniqueCandidates(r, C)) \in Nat /\ CandidateCredits(r, C) \in Nat
  BY <1>1, CreditsTyped
<1>5. SharedSources(C) \subseteq Sources
  BY DEF SharedSources
<1>6. SourceCredits(r, SharedSources(C)) \in Nat
  BY <1>5, CreditsTyped
<1> QED
  BY <1>3, <1>4, <1>6 DEF Objective, Objectives

LEMMA ScoreTieTyped ==
  ASSUME NEW r \in Requests, NEW C \in SUBSET r.offered
  PROVE Score(r, C) \in [1..5 -> Int] /\ Tie(C) \in [Candidates -> Int]
<1>1. Score(r, C) \in [1..5 -> Int]
  <2>1. PICK o \in Objectives : o = Objective(r, C)
    BY ObjectiveTyped
  <2>2. /\ o.requirements \in Nat /\ o.unique \in Nat /\ o.credits \in Nat
        /\ - o.shared \in Int /\ - o.manual \in Int
    BY DEF Objectives
  <2>3. Score(r, C) = [i \in 1..5 |-> CASE i = 1 -> o.requirements
                                        [] i = 2 -> o.unique
                                        [] i = 3 -> o.credits
                                        [] i = 4 -> - o.shared
                                        [] i = 5 -> - o.manual]
    BY <2>1 DEF Score
  <2>4. \A i \in 1..5 : i = 1 \/ i = 2 \/ i = 3 \/ i = 4 \/ i = 5
    OBVIOUS
  <2> QED
    BY <2>2, <2>3, <2>4
<1>2. ASSUME NEW at, at \subseteq Candidates, at # {} PROVE stableRank[Least(at)] \in Int
  <2>1. Candidates \subseteq Nat
    BY RequestTyped
  <2>2. Least(at) \in at
    BY <1>2, <2>1, LeastMember
  <2>3. Least(at) \in Candidates
    BY <1>2, <2>2, Zenon
  <2>4. stableRank[Least(at)] \in Candidates
    BY <2>3
  <2>5. stableRank[Least(at)] \in Nat
    BY <2>1, <2>4, Zenon
  <2> QED
    BY <2>5
<1>3. C \subseteq Candidates
  BY RequestTyped
<1>4. \A i : {c \in C : Cardinality({d \in C : Precedes(d, c)}) = i - 1} \subseteq Candidates
  BY <1>3
<1>5. \A i \in Candidates : Tie(C)[i] \in Int
  <2>1. TAKE i \in Candidates
  <2> DEFINE at == {c \in C : Cardinality({d \in C : Precedes(d, c)}) = i - 1}
  <2>2. Tie(C)[i] = IF at = {} THEN 0 ELSE stableRank[Least(at)]
    BY DEF Tie
  <2>3. at \subseteq Candidates
    BY <1>4
  <2> HIDE DEF at
  <2> QED
    BY <1>2, <2>2, <2>3
<1>6. Tie(C) = [i \in Candidates |-> Tie(C)[i]]
  BY DEF Tie
<1> QED
  BY <1>1, <1>5, <1>6

LEMMA BeatsIrreflexive ==
  ASSUME NEW r \in Requests, NEW C \in SUBSET r.offered
  PROVE ~ Beats(r, C, C)
BY ScoreTieTyped, EarlierIrreflexive DEF Beats

LEMMA BeatsTransitive ==
  ASSUME NEW r \in Requests, NEW A \in SUBSET r.offered, NEW B \in SUBSET r.offered, NEW C \in SUBSET r.offered,
         Beats(r, A, B), Beats(r, B, C)
  PROVE Beats(r, A, C)
<1>1. \A X \in {A, B, C} : Score(r, X) \in [1..5 -> Int] /\ Tie(X) \in [Candidates -> Int]
  BY ScoreTieTyped
<1>2. 1..5 \subseteq Nat /\ Candidates \subseteq Nat
  BY DEF Candidates
<1>3. Earlier(Score(r, C), Score(r, B)) /\ Earlier(Score(r, B), Score(r, A)) => Earlier(Score(r, C), Score(r, A))
  BY <1>1, <1>2, EarlierTransitive
<1>4. Earlier(Tie(A), Tie(B)) /\ Earlier(Tie(B), Tie(C)) => Earlier(Tie(A), Tie(C))
  BY <1>1, <1>2, EarlierTransitive
<1> QED
  BY <1>3, <1>4 DEF Beats

(* The search *)

\* A leaf that is accepted does not beat the selection B.
Unbeaten(r, B, q) == IsValidSelection(r, Selection(r, q)) => ~ Beats(r, Selection(r, q), B)

Held ==
  /\ request \in Requests
  /\ best \in SUBSET request.offered
  /\ PartsAreChoices(request, best)
  /\ IsValidSelection(request, best)
  /\ limit_reached \in BOOLEAN /\ evaluated \in 0..request.limit

Fresh == phase \in {"requested", "created", "audited"} => best = {} /\ limit_reached = FALSE /\ evaluated = 0

Visited ==
  phase = "searching" =>
    /\ limit_reached = FALSE
    /\ IsPath(path, Menu(request))
    /\ evaluated = Cardinality(Seen(request, path))
    /\ \A q : IsPath(q, Menu(request)) /\ Earlier(q, path) => Unbeaten(request, best, q)

\* What a search that has ended knows: without the flag it has seen every leaf,
\* and the flag is set exactly when there were more leaves than it may visit.
Settled ==
  /\ ~ limit_reached => \A q : IsPath(q, Menu(request)) => Unbeaten(request, best, q)
  /\ request.offered # {} => (limit_reached <=> request.limit < Cardinality(Combinations(request)))
Searched == phase \in {"allocated", "persisted"} => Settled

SearchInv == Held /\ Fresh /\ Visited /\ Searched

\* Nothing selected is a lawful selection.
LEMMA EmptyIsLawful ==
  ASSUME NEW r \in Requests
  PROVE PartsAreChoices(r, {}) /\ IsValidSelection(r, {})
<1>1. PartsAreChoices(r, {})
  BY DEF PartsAreChoices, Part, Choices
<1>2. SharedSources({}) = {}
  BY DEF SharedSources
<1> QED
  BY <1>1, <1>2 DEF IsValidSelection

\* What a visit keeps is as good as the best before and as the leaf itself.
LEMMA VisitKeeps ==
  ASSUME NEW r \in Requests, NEW B \in SUBSET r.offered,
         NEW p, IsPath(p, Menu(r)), NEW N,
         N = IF IsValidSelection(r, Selection(r, p)) /\ Beats(r, Selection(r, p), B)
               THEN Selection(r, p) ELSE B
  PROVE /\ Unbeaten(r, N, p)
        /\ \A q : IsPath(q, Menu(r)) /\ Unbeaten(r, B, q) => Unbeaten(r, N, q)
<1>1. Selection(r, p) \in SUBSET r.offered
  BY LeafShape
<1>2. Unbeaten(r, N, p)
  BY <1>1, BeatsIrreflexive DEF Unbeaten
<1>3. ASSUME NEW q, IsPath(q, Menu(r)), Unbeaten(r, B, q) PROVE Unbeaten(r, N, q)
  <2>1. Selection(r, q) \in SUBSET r.offered
    BY <1>3, LeafShape
  <2>2. Beats(r, Selection(r, p), B) /\ Beats(r, Selection(r, q), Selection(r, p))
          => Beats(r, Selection(r, q), B)
    BY <1>1, <2>1, BeatsTransitive
  <2> QED
    BY <1>3, <2>2 DEF Unbeaten
<1> QED
  BY <1>2, <1>3

LEMMA SearchInit == Init => SearchInv
<1> SUFFICES ASSUME Init PROVE SearchInv
  OBVIOUS
<1>1. request.limit \in Nat
  BY RequestTyped DEF Init, RequestType
<1>2. evaluated \in 0..request.limit
  BY <1>1 DEF Init
<1>3. Held
  BY <1>2, EmptyIsLawful DEF Init, Held
<1> QED
  BY <1>3 DEF Init, SearchInv, Fresh, Visited, Searched

LEMMA SettledStays == ASSUME UNCHANGED <<request, best, limit_reached>> PROVE Settled' = Settled
BY DEF Settled

\* A step that leaves the search alone and does not move into it.
LEMMA SearchAlone ==
  ASSUME SearchInv, UNCHANGED <<request, search>>,
         \/ phase' = phase
         \/ phase' \in {"rolled_back", "done"}
         \/ phase = "requested" /\ phase' = "created"
         \/ phase = "created" /\ phase' = "audited"
         \/ phase = "allocated" /\ phase' = "persisted"
  PROVE SearchInv'
<1>1. /\ request' = request /\ path' = path /\ evaluated' = evaluated
      /\ limit_reached' = limit_reached /\ best' = best
  BY DEF search
<1>2. Held' /\ Fresh' /\ Visited'
  BY <1>1 DEF SearchInv, Held, Fresh, Visited
<1>3. Settled' = Settled
  BY <1>1, SettledStays
<1> QED
  BY <1>2, <1>3 DEF SearchInv, Searched

LEMMA SearchStarts == SearchInv /\ LoadPolicies => SearchInv'
<1> SUFFICES ASSUME SearchInv, LoadPolicies PROVE SearchInv'
  OBVIOUS
<1>1. /\ request' = request /\ best' = best /\ best = {} /\ limit_reached' = limit_reached /\ limit_reached = FALSE
      /\ evaluated' = evaluated /\ evaluated = 0 /\ request \in Requests
  BY DEF SearchInv, Held, Fresh, LoadPolicies
<1>2. Held'
  BY <1>1 DEF SearchInv, Held
<1>3. CASE request.offered = {}
  <2>1. phase' = "allocated"
    BY <1>3 DEF LoadPolicies
  <2>2. \A q : Selection(request, q) = {}
    BY <1>3 DEF Selection, UsedSources
  <2>3. \A q : Unbeaten(request, best, q)
    BY <1>1, <2>2, BeatsIrreflexive DEF Unbeaten
  <2>4. Settled'
    BY <1>1, <1>3, <2>3 DEF Settled
  <2> QED
    BY <1>2, <2>1, <2>4 DEF SearchInv, Fresh, Visited, Searched
<1>4. CASE request.offered # {}
  <2>1. phase' = "searching" /\ path' = FirstPath(Menu(request))
    BY <1>4 DEF LoadPolicies
  <2>2. IsMenu(Menu(request), SourceCount)
    BY <1>1, MenuIsMenu
  <2>3. IsPath(path', Menu(request)) /\ \A q : IsPath(q, Menu(request)) => ~ Earlier(q, path')
    BY <2>1, <2>2, FirstIsFirst
  <2>4. Cardinality(Seen(request, path')) = 0
    BY <1>1, <2>1, SeenAtFirst, FS_EmptySet
  <2>5. Visited'
    BY <1>1, <2>3, <2>4 DEF Visited
  <2> QED
    BY <1>2, <2>1, <2>5 DEF SearchInv, Fresh, Searched
<1> QED
  BY <1>3, <1>4

LEMMA SearchVisits == SearchInv /\ VisitLeaf => SearchInv'
<1> SUFFICES ASSUME SearchInv, VisitLeaf PROVE SearchInv'
  OBVIOUS
<1> DEFINE menu == Menu(request)
           leaf == Selection(request, path)
<1>1. /\ request' = request /\ limit_reached' = limit_reached /\ limit_reached = FALSE
      /\ request \in Requests /\ best \in SUBSET request.offered
      /\ IsPath(path, menu)
      /\ evaluated' = evaluated + 1 /\ evaluated = Cardinality(Seen(request, path))
  BY DEF SearchInv, Held, Visited, VisitLeaf
<1>2. best' = IF IsValidSelection(request, leaf) /\ Beats(request, leaf, best) THEN leaf ELSE best
  BY DEF VisitLeaf, Replaces
<1>3. leaf \in SUBSET request.offered /\ PartsAreChoices(request, leaf)
  BY <1>1, LeafShape
<1>4. request.limit \in Nat
  BY <1>1, RequestTyped DEF RequestType
<1>5. evaluated' \in 0..request.limit
  BY <1>1, <1>4 DEF SearchInv, Held, VisitLeaf
<1>6. Held'
  BY <1>1, <1>2, <1>3, <1>5 DEF SearchInv, Held
<1>7. IsMenu(menu, SourceCount)
  BY <1>1, MenuIsMenu
<1>8. \A q : IsPath(q, menu) /\ (q = path \/ Earlier(q, path)) => Unbeaten(request, best', q)
  <2>1. /\ Unbeaten(request, best', path)
        /\ \A q : IsPath(q, menu) /\ Unbeaten(request, best, q) => Unbeaten(request, best', q)
    <3> HIDE DEF menu, leaf
    <3> QED
      BY <1>1, <1>2, VisitKeeps DEF menu, leaf
  <2> QED
    BY <2>1 DEF SearchInv, Visited, VisitLeaf
<1>9. /\ evaluated' = Cardinality(Seen(request, path) \cup {leaf})
      /\ Cardinality(Combinations(request)) \in Nat
  BY <1>1, SeenCounted
<1>10. CASE Open(path, menu) = {}
  <2>1. phase' = "allocated"
    BY <1>10 DEF VisitLeaf
  <2>2. \A q : IsPath(q, menu) => q = path \/ Earlier(q, path)
    BY <1>1, <1>7, <1>10, LastIsLast
  <2>3. evaluated' = Cardinality(Combinations(request))
    BY <1>1, <1>9, <1>10, SeenGrows
  <2>4. ~ (request.limit < Cardinality(Combinations(request)))
    BY <1>4, <1>5, <1>9, <2>3
  <2>5. Settled'
    BY <1>1, <1>8, <2>2, <2>4 DEF Settled
  <2> QED
    BY <1>6, <2>1, <2>5 DEF SearchInv, Fresh, Visited, Searched
<1>11. CASE Open(path, menu) # {}
  <2>1. phase' = "searching" /\ path' = NextPath(path, menu)
    BY <1>11 DEF VisitLeaf
  <2>2. /\ IsPath(path', menu)
        /\ \A q : IsPath(q, menu) /\ Earlier(q, path') => q = path \/ Earlier(q, path)
    BY <1>1, <1>7, <1>11, <2>1, NextIsNext
  <2>3. evaluated' = Cardinality(Seen(request, path'))
    BY <1>1, <1>9, <1>11, <2>1, SeenGrows
  <2>4. Visited'
    BY <1>1, <1>8, <2>2, <2>3 DEF Visited
  <2> QED
    BY <1>6, <2>1, <2>4 DEF SearchInv, Fresh, Searched
<1> QED
  BY <1>10, <1>11

LEMMA SearchStops == SearchInv /\ StopAtLimit => SearchInv'
<1> SUFFICES ASSUME SearchInv, StopAtLimit PROVE SearchInv'
  OBVIOUS
<1>1. /\ request \in Requests /\ IsPath(path, Menu(request)) /\ evaluated = Cardinality(Seen(request, path))
      /\ evaluated >= request.limit /\ limit_reached' = TRUE /\ phase' = "allocated"
      /\ UNCHANGED <<request, path, evaluated, best>>
  BY DEF SearchInv, Held, Visited, StopAtLimit
<1>2. request.limit \in Nat
  BY <1>1, RequestTyped DEF RequestType
<1>3. request.limit < Cardinality(Combinations(request))
  <2>1. /\ Cardinality(Seen(request, path)) \in Nat /\ Cardinality(Combinations(request)) \in Nat
        /\ Cardinality(Seen(request, path)) < Cardinality(Combinations(request))
    BY <1>1, SeenCounted
  <2> QED
    BY <1>1, <1>2, <2>1
<1>4. Settled'
  BY <1>1, <1>3 DEF Settled
<1>5. Held'
  BY <1>1 DEF SearchInv, Held
<1> QED
  BY <1>1, <1>4, <1>5 DEF SearchInv, Fresh, Visited, Searched

LEMMA SearchNext == SearchInv /\ [Next]_vars => SearchInv'
<1> SUFFICES ASSUME SearchInv, [Next]_vars PROVE SearchInv'
  OBVIOUS
<1>1. CASE CreateScenario
  BY <1>1, SearchAlone DEF CreateScenario
<1>2. CASE AuditPrograms
  BY <1>2, SearchAlone DEF AuditPrograms
<1>3. CASE LoadPolicies
  BY <1>3, SearchStarts
<1>4. CASE VisitLeaf
  BY <1>4, SearchVisits
<1>5. CASE StopAtLimit
  BY <1>5, SearchStops
<1>6. CASE PersistResult
  BY <1>6, SearchAlone DEF PersistResult
<1>7. CASE CommitResult
  BY <1>7, SearchAlone DEF CommitResult
<1>8. CASE RollBack
  BY <1>8, SearchAlone DEF RollBack
<1>9. CASE RecordFailure
  BY <1>9, SearchAlone DEF RecordFailure
<1>10. CASE Crash
  BY <1>10, SearchAlone DEF Crash
<1>11. CASE UNCHANGED vars
  BY <1>11, SearchAlone DEF vars, search
<1> QED
  BY <1>1, <1>2, <1>3, <1>4, <1>5, <1>6, <1>7, <1>8, <1>9, <1>10, <1>11 DEF Next, Done

(* What is stored *)

PolicyWarnings ==
  {Warning("MISSING_RULE", p) : p \in MissingRules} \cup {Warning("RULE_NEEDS_REVIEW", p) : p \in ReviewRules}
ResultWarnings ==
  PolicyWarnings \cup {Warning("ESTIMATE", Everyone)}
    \cup {Warning("LIMIT_REACHED", Everyone) : flag \in {limit_reached} \cap {TRUE}}
    \cup {Warning("UNIQUE_CREDITS_NOT_MET", p) : p \in ShortOfUnique}

\* The rows of a scenario, with its audits, when the search has started and at its end.
Audited(warnings) ==
  [status |-> "RUNNING", audits |-> Programs, allocations |-> <<>>, warnings |-> warnings, comparison |-> Nothing]
Filled(status) ==
  [status |-> status, audits |-> Programs, allocations |-> [c \in request.offered |-> KindOf(c)],
   warnings |-> ResultWarnings, comparison |-> Comparison(ResultWarnings)]

\* What is committed is nothing, a failure, or a result with all its rows.
Committed ==
  \/ db = Nothing
  \/ db = Row("FAILED")
  \/ db = Filled("COMPLETED_WITH_WARNINGS") /\ Settled
Stored ==
  /\ phase = "created" => session = Row("RUNNING")
  /\ phase = "audited" => session = Audited({})
  /\ phase \in {"searching", "allocated"} => session = Audited(PolicyWarnings)
  /\ phase = "persisted" => session = Filled("RUNNING")
  /\ Committed
  /\ phase # "done" => db = Nothing

\* Without a transaction there is no session.
Phases == {"requested", "created", "audited", "searching", "allocated", "persisted", "rolled_back", "done"}
Opened == phase \in Phases /\ (phase \in {"requested", "rolled_back", "done"} => session = Nothing)

Inv == SearchInv /\ Stored /\ Opened

LEMMA Init_Inv == Init => Inv
<1> SUFFICES ASSUME Init PROVE Inv
  OBVIOUS
<1>1. Stored
  BY DEF Init, Stored, Committed
<1>2. Opened
  BY DEF Init, Opened, Phases
<1> QED
  BY <1>1, <1>2, SearchInit DEF Inv

LEMMA RowsUnchanged ==
  ASSUME UNCHANGED request
  PROVE /\ Audited({})' = Audited({}) /\ Audited(PolicyWarnings)' = Audited(PolicyWarnings)
        /\ UNCHANGED <<best, limit_reached>> => Filled("RUNNING")' = Filled("RUNNING")
                                                /\ Filled("COMPLETED_WITH_WARNINGS")' = Filled("COMPLETED_WITH_WARNINGS")
                                                /\ Settled' = Settled
<1>1. MissingRules' = MissingRules /\ ReviewRules' = ReviewRules /\ PolicyWarnings' = PolicyWarnings
  BY DEF MissingRules, ReviewRules, PolicyWarnings
<1>2. ASSUME UNCHANGED <<best, limit_reached>>
      PROVE (\A c : KindOf(c)' = KindOf(c)) /\ ResultWarnings' = ResultWarnings
  <2>1. ShortOfUnique' = ShortOfUnique
    BY <1>1, <1>2 DEF ShortOfUnique, UniqueCredits
  <2> QED
    BY <1>1, <1>2, <2>1 DEF KindOf, ResultWarnings
<1>3. ASSUME UNCHANGED <<best, limit_reached>>
      PROVE Filled("RUNNING")' = Filled("RUNNING") /\ Filled("COMPLETED_WITH_WARNINGS")' = Filled("COMPLETED_WITH_WARNINGS")
  BY <1>2, <1>3 DEF Filled, Comparison
<1> QED
  BY <1>1, <1>3 DEF Audited, Settled

LEMMA StoredNext == Inv /\ [Next]_vars => Stored'
<1> SUFFICES ASSUME SearchInv, Stored, [Next]_vars PROVE Stored'
  BY DEF Inv
<1> USE DEF Stored
<1>1. CASE CreateScenario
  BY <1>1 DEF CreateScenario, Committed
<1>2. CASE AuditPrograms
  <2>1. session' = Audited({})
    <3>1. session = Row("RUNNING") /\ session' = [session EXCEPT !.audits = Programs]
      BY <1>2 DEF AuditPrograms
    <3> QED
      BY <3>1 DEF Row, Audited
  <2> QED
    BY <1>2, <2>1, RowsUnchanged DEF AuditPrograms, Committed
<1>3. CASE LoadPolicies
  <2>1. session' = Audited(PolicyWarnings)
    <3> DEFINE missing == {Warning("MISSING_RULE", p) : p \in MissingRules}
               review == {Warning("RULE_NEEDS_REVIEW", p) : p \in ReviewRules}
    <3>1. session = Audited({}) /\ session' = [session EXCEPT !.warnings = @ \cup missing \cup review]
      BY <1>3 DEF LoadPolicies
    <3>2. PolicyWarnings = missing \cup review
      BY DEF PolicyWarnings
    <3> HIDE DEF missing, review
    <3>3. session'.warnings = PolicyWarnings /\ session' = [session EXCEPT !.warnings = PolicyWarnings]
      BY <3>1, <3>2 DEF Audited
    <3> QED
      BY <3>1, <3>3 DEF Audited
  <2> QED
    BY <1>3, <2>1, RowsUnchanged DEF LoadPolicies, Committed
<1>4. CASE VisitLeaf
  BY <1>4, RowsUnchanged DEF VisitLeaf, Committed
<1>5. CASE StopAtLimit
  BY <1>5, RowsUnchanged DEF StopAtLimit, Committed
<1>6. CASE PersistResult
  <2>1. session' = Filled("RUNNING")
    <3>1. session = Audited(PolicyWarnings) /\ session.warnings = PolicyWarnings
      BY <1>6 DEF PersistResult, Audited
    <3>2. session' = [session EXCEPT !.allocations = [c \in request.offered |-> KindOf(c)],
                                     !.warnings = ResultWarnings, !.comparison = Comparison(ResultWarnings)]
      BY <1>6, <3>1 DEF PersistResult, ResultWarnings
    <3> QED
      BY <3>1, <3>2 DEF Audited, Filled
  <2> QED
    BY <1>6, <2>1, RowsUnchanged DEF PersistResult, search, Committed
<1>7. CASE CommitResult
  <2>1. Warning("ESTIMATE", Everyone) \in ResultWarnings
    BY DEF ResultWarnings
  <2>2. session = Filled("RUNNING") /\ phase' = "done"
    BY <1>7 DEF CommitResult
  <2>3. session.warnings # {}
    BY <2>1, <2>2 DEF Filled
  <2>4. db' = [session EXCEPT !.status = "COMPLETED_WITH_WARNINGS"]
    BY <1>7, <2>3 DEF CommitResult
  <2>5. db' = Filled("COMPLETED_WITH_WARNINGS")
    BY <2>2, <2>4 DEF Filled
  <2>6. Settled
    BY <1>7 DEF SearchInv, Searched, CommitResult
  <2>7. Committed'
    BY <1>7, <2>5, <2>6, RowsUnchanged DEF CommitResult, search, Committed
  <2> QED
    BY <2>2, <2>7
<1>8. CASE RollBack
  BY <1>8 DEF RollBack, Committed
<1>9. CASE RecordFailure
  BY <1>9 DEF RecordFailure, Committed, Row
<1>10. CASE Crash
  BY <1>10 DEF Crash, Committed
<1>11. CASE UNCHANGED vars
  BY <1>11, RowsUnchanged DEF vars, Committed, Row
<1> QED
  BY <1>1, <1>2, <1>3, <1>4, <1>5, <1>6, <1>7, <1>8, <1>9, <1>10, <1>11 DEF Next, Done

LEMMA OpenedNext == Opened /\ [Next]_vars => Opened'
<1> SUFFICES ASSUME Opened, [Next]_vars PROVE Opened'
  OBVIOUS
<1> USE DEF Opened, Phases
<1>1. CASE CreateScenario \/ AuditPrograms
  BY <1>1 DEF CreateScenario, AuditPrograms
<1>2. CASE LoadPolicies
  BY <1>2 DEF LoadPolicies
<1>3. CASE VisitLeaf
  <2>1. phase = "searching" /\ phase' \in {"searching", "allocated"}
    BY <1>3 DEF VisitLeaf
  <2> QED
    BY <2>1
<1>4. CASE StopAtLimit
  BY <1>4 DEF StopAtLimit
<1>5. CASE PersistResult \/ CommitResult
  BY <1>5 DEF PersistResult, CommitResult
<1>6. CASE RollBack \/ RecordFailure \/ Crash
  BY <1>6 DEF RollBack, RecordFailure, Crash
<1>7. CASE UNCHANGED vars
  BY <1>7 DEF vars
<1> QED
  BY <1>1, <1>2, <1>3, <1>4, <1>5, <1>6, <1>7 DEF Next, Done

LEMMA Inv_Next == Inv /\ [Next]_vars => Inv'
BY SearchNext, StoredNext, OpenedNext DEF Inv

(* What the stored rows say *)

\* The kind of a row, by the set of candidates it is in.
LEMMA KindsSplit ==
  ASSUME NEW c
  PROVE /\ KindOf(c) = "UNALLOCATED" <=> c \notin best
        /\ KindOf(c) = "SHARED" <=> c \in best /\ sourceOf[c] \in SharedSources(best)
        /\ KindOf(c) = "PRIMARY" <=> c \in best /\ sourceOf[c] \notin SharedSources(best) /\ IsPrimary(c)
        /\ KindOf(c) = "UNIQUE_SECONDARY" <=> c \in best /\ sourceOf[c] \notin SharedSources(best) /\ ~ IsPrimary(c)
<1>1. c \notin best => KindOf(c) = "UNALLOCATED"
  BY DEF KindOf
<1>2. c \in best /\ sourceOf[c] \in SharedSources(best) => KindOf(c) = "SHARED"
  BY DEF KindOf
<1>3. c \in best /\ sourceOf[c] \notin SharedSources(best) /\ IsPrimary(c) => KindOf(c) = "PRIMARY"
  BY DEF KindOf
<1>4. c \in best /\ sourceOf[c] \notin SharedSources(best) /\ ~ IsPrimary(c) => KindOf(c) = "UNIQUE_SECONDARY"
  BY DEF KindOf
<1> QED
  BY <1>1, <1>2, <1>3, <1>4

\* A completed scenario is the best selection with all its rows.
LEMMA CompletedIsFilled ==
  ASSUME Inv, Completed
  PROVE /\ db = Filled("COMPLETED_WITH_WARNINGS") /\ Settled
        /\ DOMAIN db.allocations = request.offered
        /\ \A c \in request.offered : db.allocations[c] = KindOf(c)
        /\ db.warnings = ResultWarnings
        /\ Selected = best
        /\ request \in Requests /\ best \in SUBSET request.offered
        /\ IsValidSelection(request, best) /\ Lawful(request, best)
<1>1. db = Filled("COMPLETED_WITH_WARNINGS") /\ Settled
  BY DEF Inv, Stored, Committed, Completed, Row
<1>2. DOMAIN db.allocations = request.offered /\ \A c \in request.offered : db.allocations[c] = KindOf(c)
  BY <1>1 DEF Filled
<1>3. db.warnings = ResultWarnings
  BY <1>1 DEF Filled
<1>4. /\ request \in Requests /\ best \in SUBSET request.offered
      /\ PartsAreChoices(request, best) /\ IsValidSelection(request, best)
  BY DEF Inv, SearchInv, Held
<1>5. Selected = best
  BY <1>2, <1>4, KindsSplit DEF Selected
<1>6. Lawful(request, best)
  BY <1>4, AcceptedIsLawful
<1> QED
  BY <1>1, <1>2, <1>3, <1>4, <1>5, <1>6

\* After a search that was not cut short no lawful selection beats the best one.
LEMMA BestOfLawful ==
  ASSUME NEW r \in Requests, NEW B \in SUBSET r.offered,
         \A q : IsPath(q, Menu(r)) => Unbeaten(r, B, q),
         NEW C \in SUBSET r.offered, Lawful(r, C)
  PROVE ~ Beats(r, C, B)
<1>1. PartsAreChoices(r, C)
  BY LawfulParts
<1>2. IsValidSelection(r, C)
  BY <1>1, AcceptedIsLawful
<1>3. IsPath(LeafOf(r, C), Menu(r)) /\ Selection(r, LeafOf(r, C)) = C
  BY <1>1, LeafExists
<1> QED
  BY <1>2, <1>3 DEF Unbeaten

\* The limit warning is there exactly when the flag is set, a warning about a
\* program exactly when it is due.
LEMMA WarningsSaid ==
  /\ Warning("ESTIMATE", Everyone) \in ResultWarnings
  /\ Warning("LIMIT_REACHED", Everyone) \in ResultWarnings <=> limit_reached = TRUE
  /\ \A p \in MissingRules : Warning("MISSING_RULE", p) \in ResultWarnings
  /\ \A p \in ReviewRules : Warning("RULE_NEEDS_REVIEW", p) \in ResultWarnings
  /\ \A p \in ShortOfUnique : Warning("UNIQUE_CREDITS_NOT_MET", p) \in ResultWarnings
<1>1. \A w \in PolicyWarnings : w.code # "LIMIT_REACHED"
  BY DEF PolicyWarnings, Warning
<1>2. \A p : Warning("UNIQUE_CREDITS_NOT_MET", p).code # "LIMIT_REACHED"
  BY DEF Warning
<1>3. Warning("ESTIMATE", Everyone).code # "LIMIT_REACHED" /\ Warning("LIMIT_REACHED", Everyone).code = "LIMIT_REACHED"
  BY DEF Warning
<1> QED
  BY <1>1, <1>2, <1>3 DEF ResultWarnings, PolicyWarnings

\* For every set of candidates, every policy and every search limit, a completed
\* scenario counts nothing twice that the rules do not let it share.
THEOREM CountingSafe == Spec => []NothingCountedTwice
<1>1. Inv => NothingCountedTwice
  BY CompletedIsFilled DEF NothingCountedTwice
<1> QED
  BY <1>1, Init_Inv, Inv_Next, PTL DEF Spec

\* Whatever the search was given, a scenario stored without the limit warning is
\* the best lawful one: the order of the visits loses no selection.
THEOREM ScenarioOptimal == Spec => []ResultIsBest
<1>1. Inv => ResultIsBest
  <2> SUFFICES ASSUME Inv, Completed, Warning("LIMIT_REACHED", Everyone) \notin db.warnings,
                      NEW C \in SUBSET request.offered, Lawful(request, C)
               PROVE ~ Beats(request, C, Selected)
    BY DEF ResultIsBest
  <2>1. Selected = best /\ request \in Requests /\ best \in SUBSET request.offered /\ Settled
    BY CompletedIsFilled
  <2>2. limit_reached = FALSE
    BY CompletedIsFilled, WarningsSaid DEF Inv, SearchInv, Held
  <2> QED
    BY <2>1, <2>2, BestOfLawful DEF Settled
<1> QED
  BY <1>1, Init_Inv, Inv_Next, PTL DEF Spec
-----------------------------------------------------------------------------
(* The stored comparison *)

LEMMA WarningsTyped == PolicyWarnings \subseteq ScenarioWarning /\ ResultWarnings \subseteq ScenarioWarning
<1>1. /\ \A c \in Codes, p \in Secondary : Warning(c, p) \in ScenarioWarning
      /\ \A c \in Codes : Warning(c, Everyone) \in ScenarioWarning
  BY DEF Warning, ScenarioWarning
<1>2. MissingRules \subseteq Secondary /\ ReviewRules \subseteq Secondary /\ ShortOfUnique \subseteq Secondary
  BY DEF MissingRules, ReviewRules, ShortOfUnique
<1>3. {"MISSING_RULE", "RULE_NEEDS_REVIEW", "LIMIT_REACHED", "UNIQUE_CREDITS_NOT_MET", "ESTIMATE"} \subseteq Codes
  BY DEF Codes
<1>4. PolicyWarnings \subseteq ScenarioWarning
  BY <1>1, <1>2, <1>3 DEF PolicyWarnings
<1> QED
  BY <1>1, <1>2, <1>3, <1>4 DEF ResultWarnings

\* There are finitely many warnings, so that they can be counted.
LEMMA WarningsFinite == IsFiniteSet(ResultWarnings)
<1>1. IsFiniteSet(Programs)
  <2> DEFINE f == [node \in Nodes |-> programOf[node]]
  <2>1. f \in Surjection(Nodes, Programs)
    BY DEF Surjection, Programs
  <2> HIDE DEF f
  <2> QED
    BY <2>1, FS_Surjection, Zenon
<1>2. IsFiniteSet(Secondary \cup {Everyone})
  BY <1>1, FS_Subset, FS_AddElement DEF Secondary
<1>3. IsFiniteSet(Codes)
  <2>1. IsFiniteSet({"MISSING_RULE"} \cup {"RULE_NEEDS_REVIEW"})
    BY FS_Singleton, FS_AddElement
  <2>2. IsFiniteSet(({"MISSING_RULE"} \cup {"RULE_NEEDS_REVIEW"}) \cup {"LIMIT_REACHED"})
    BY <2>1, FS_AddElement
  <2>3. IsFiniteSet({"UNIQUE_CREDITS_NOT_MET"} \cup {"ESTIMATE"})
    BY FS_Singleton, FS_AddElement
  <2>4. Codes = (({"MISSING_RULE"} \cup {"RULE_NEEDS_REVIEW"}) \cup {"LIMIT_REACHED"})
                  \cup ({"UNIQUE_CREDITS_NOT_MET"} \cup {"ESTIMATE"})
    BY DEF Codes
  <2> QED
    BY <2>2, <2>3, <2>4, FS_Union
<1>4. IsFiniteSet(Codes \X (Secondary \cup {Everyone}))
  BY <1>2, <1>3, FS_Product
<1> DEFINE pairs == Codes \X (Secondary \cup {Everyone})
           f == [w \in ScenarioWarning |-> <<w.code, w.program>>]
<1>5. f \in Injection(ScenarioWarning, pairs)
  <2>1. f \in [ScenarioWarning -> pairs]
    BY DEF ScenarioWarning
  <2>2. ASSUME NEW v \in ScenarioWarning, NEW w \in ScenarioWarning, f[v] = f[w] PROVE v = w
    BY <2>2 DEF ScenarioWarning
  <2> HIDE DEF f, pairs
  <2> QED
    BY <2>1, <2>2 DEF Injection, IsInjective
<1>6. IsFiniteSet(ScenarioWarning)
  <2> HIDE DEF f, pairs
  <2>1. IsFiniteSet(pairs)
    BY <1>4 DEF pairs
  <2> QED
    BY <1>5, <2>1, FS_Injection, Zenon
<1> QED
  BY <1>6, WarningsTyped, FS_Subset

LEMMA ComparisonTyped ==
  ASSUME Inv
  PROVE Comparison(ResultWarnings) \in ScenarioComparisonSnapshot
<1>1. request \in Requests /\ best \in SUBSET request.offered
  BY DEF Inv, SearchInv, Held
<1>2. Cardinality(ResultWarnings) \in Nat
  BY WarningsFinite, FS_CardinalityType
<1>3. request.remaining \in Nat /\ request.notices \in Nat
  BY <1>1, RequestTyped DEF RequestType
<1>4. PICK o \in Objectives : o = Objective(request, best)
  BY <1>1, ObjectiveTyped
<1>5. /\ o.shared \in Nat /\ o.unique \in Nat
      /\ Comparison(ResultWarnings) =
           [shared |-> o.shared, unique |-> o.unique,
            additional |-> IF request.remaining > o.shared THEN request.remaining - o.shared ELSE 0,
            manual |-> request.notices + Cardinality(ResultWarnings)]
  BY <1>4 DEF Objectives, Comparison
<1> QED
  BY <1>2, <1>3, <1>5 DEF ScenarioComparisonSnapshot

\* A scenario is committed as a whole or as a failure, whatever step raised.
THEOREM ScenarioStoredWhole == Spec => []SnapshotWhole
<1>1. Inv => SnapshotWhole
  <2> SUFFICES ASSUME Inv, db # Nothing, db # Row("FAILED")
               PROVE /\ Completed /\ db.audits = Programs /\ DOMAIN db.allocations = request.offered
                     /\ Warning("ESTIMATE", Everyone) \in db.warnings /\ db.comparison # Nothing
    BY DEF SnapshotWhole
  <2>1. db = Filled("COMPLETED_WITH_WARNINGS")
    BY DEF Inv, Stored, Committed
  <2>2. Completed /\ db.audits = Programs /\ db.comparison = Comparison(ResultWarnings)
    BY <2>1 DEF Completed, Filled
  <2>3. db.comparison # Nothing
    BY <2>2, ComparisonTyped, NothingAssumption
  <2> QED
    BY <2>2, <2>3, CompletedIsFilled, WarningsSaid
<1> QED
  BY <1>1, Init_Inv, Inv_Next, PTL DEF Spec

(* Credits *)

\* Candidates of different sources have the credits of their sources.
LEMMA CreditsOfDistinct ==
  ASSUME NEW r \in Requests, NEW C \in SUBSET r.offered,
         \A c, d \in C : sourceOf[c] = sourceOf[d] => c = d
  PROVE CandidateCredits(r, C) = SourceCredits(r, {sourceOf[c] : c \in C})
<1> DEFINE g == [c \in C |-> r.credit[sourceOf[c]]]
           f == r.credit
<1>1. IsFiniteSet(C)
  BY CreditsTyped
<1>2. \A s \in Sources : r.credit[s] \in Nat
  BY RequestTyped DEF RequestType
<1>3. \A c \in C : f[sourceOf[c]] \in Int /\ g[c] = f[sourceOf[c]]
  BY <1>2, RequestTyped
<1>4. CandidateCredits(r, C) = SumFunctionOnSet(g, C)
  BY DEF CandidateCredits
<1>5. SourceCredits(r, {sourceOf[c] : c \in C}) = SumFunctionOnSet(f, {sourceOf[c] : c \in C})
  BY DEF SourceCredits
<1> HIDE DEF f, g
<1>6. SumFunctionOnSet(g, C) = SumFunctionOnSet(f, {sourceOf[c] : c \in C})
  BY <1>1, <1>3, SumImage
<1> QED
  BY <1>4, <1>5, <1>6

\* The credits of sources that are in one of two disjoint sets.
LEMMA CreditsOfBoth ==
  ASSUME NEW r \in Requests, NEW A \in SUBSET Sources, NEW B \in SUBSET Sources, A \cap B = {}
  PROVE SourceCredits(r, A \cup B) = SourceCredits(r, A) + SourceCredits(r, B)
<1>1. IsFiniteSet(A) /\ IsFiniteSet(B)
  <2>1. IsFiniteSet(Sources)
    BY FS_Interval DEF Sources
  <2> QED
    BY <2>1, FS_Subset
<1>2. \A s \in A \cup B : r.credit[s] \in Int
  BY RequestTyped DEF RequestType
<1> QED
  BY <1>1, <1>2, SumUnion, Zenon DEF SourceCredits

\* What an accepted selection counts, split by kind: each earned source once.
LEMMA EarnedSplit ==
  ASSUME NEW r \in Requests, NEW B \in SUBSET r.offered, IsValidSelection(r, B)
  PROVE LET own(primary) == {c \in B : /\ sourceOf[c] \notin SharedSources(B)
                                       /\ IsPrimary(c) = primary /\ r.earned[sourceOf[c]]}
        IN /\ SourceCredits(r, {s \in Sources : r.earned[s] /\ \E c \in B : sourceOf[c] = s})
                = SourceCredits(r, SharedSources(B)) + CandidateCredits(r, own(TRUE)) + CandidateCredits(r, own(FALSE))
           /\ \A s \in SharedSources(B) : r.earned[s]
<1> DEFINE shared == SharedSources(B)
           Own(primary) == {c \in B : sourceOf[c] \notin shared /\ IsPrimary(c) = primary /\ r.earned[sourceOf[c]]}
           Of1(C) == {sourceOf[c] : c \in C}
           all == {s \in Sources : r.earned[s] /\ \E c \in B : sourceOf[c] = s}
<1>1. \A c \in B : sourceOf[c] \in Sources
  BY RequestTyped
<1>2. \A c, d \in B : c # d /\ sourceOf[c] = sourceOf[d] => sourceOf[c] \in shared
  BY <1>1 DEF SharedSources
<1>3. \A s \in shared : r.earned[s] /\ s \in Sources /\ \E c \in B : sourceOf[c] = s
  <2>1. TAKE s \in shared
  <2>2. PICK c \in B : sourceOf[c] = s
    BY DEF SharedSources
  <2>3. Shareable(r, {d \in B : sourceOf[d] = s})
    BY DEF IsValidSelection
  <2>4. r.earned[s]
    BY <2>2, <2>3, ShareableEarned
  <2> QED
    BY <2>2, <2>4 DEF SharedSources
<1>4. \A c : IsPrimary(c) \in BOOLEAN
  BY DEF IsPrimary
<1>5. ASSUME NEW primary \in BOOLEAN
      PROVE /\ CandidateCredits(r, Own(primary)) = SourceCredits(r, Of1(Own(primary)))
            /\ Of1(Own(primary)) \subseteq Sources
  <2>1. Own(primary) \in SUBSET r.offered /\ \A c, d \in Own(primary) : sourceOf[c] = sourceOf[d] => c = d
    BY <1>2
  <2>2. Of1(Own(primary)) \subseteq Sources
    BY <1>1
  <2> HIDE DEF Own
  <2> QED
    BY <2>1, <2>2, CreditsOfDistinct
<1>6. Of1(Own(TRUE)) \cap Of1(Own(FALSE)) = {}
  BY <1>2
<1>7. (Of1(Own(TRUE)) \cup Of1(Own(FALSE))) \cap shared = {}
  OBVIOUS
<1>8. all = shared \cup (Of1(Own(TRUE)) \cup Of1(Own(FALSE)))
  <2>1. \A s \in all : s \in shared \/ s \in Of1(Own(TRUE)) \/ s \in Of1(Own(FALSE))
    BY <1>4
  <2>2. \A s \in shared : s \in all
    BY <1>3
  <2>3. \A s \in Of1(Own(TRUE)) \cup Of1(Own(FALSE)) : s \in all
    BY <1>1
  <2> QED
    BY <2>1, <2>2, <2>3
<1>9. shared \subseteq Sources
  BY <1>3
<1> DEFINE x == Of1(Own(TRUE))
           y == Of1(Own(FALSE))
<1>10. /\ x \subseteq Sources /\ CandidateCredits(r, Own(TRUE)) = SourceCredits(r, x)
       /\ y \subseteq Sources /\ CandidateCredits(r, Own(FALSE)) = SourceCredits(r, y)
  <2> HIDE DEF Own, Of1
  <2> QED
    BY <1>5
<1>11. x \cap y = {} /\ shared \cap (x \cup y) = {} /\ all = shared \cup (x \cup y)
  <2> HIDE DEF Own, Of1, shared, all
  <2> QED
    BY <1>6, <1>7, <1>8
<1> HIDE DEF x, y, shared, all, Own, Of1
<1>12. SourceCredits(r, all) = SourceCredits(r, shared) + SourceCredits(r, x \cup y)
  <2>1. x \cup y \subseteq Sources
    BY <1>10
  <2> QED
    BY <1>9, <1>11, <2>1, CreditsOfBoth
<1>13. SourceCredits(r, x \cup y) = SourceCredits(r, x) + SourceCredits(r, y)
  BY <1>10, <1>11, CreditsOfBoth
<1>14. SourceCredits(r, shared) \in Nat /\ SourceCredits(r, x) \in Nat /\ SourceCredits(r, y) \in Nat
  BY <1>9, <1>10, CreditsTyped
<1>15. SourceCredits(r, all) = SourceCredits(r, shared) + CandidateCredits(r, Own(TRUE)) + CandidateCredits(r, Own(FALSE))
  <2>1. SourceCredits(r, all) = SourceCredits(r, shared) + SourceCredits(r, x) + SourceCredits(r, y)
    BY <1>12, <1>13, <1>14
  <2> QED
    BY <1>10, <2>1, Zenon
<1> QED
  BY <1>3, <1>15 DEF shared, Own, all

\* The stored comparison adds every earned course once, for any number of courses.
THEOREM ComparisonAddsUp == Spec => []CreditsCountedOnce
<1>1. ASSUME Inv, Completed PROVE CreditsCountedOnce
  <2> DEFINE rows(kind) == {c \in Selected : db.allocations[c] = kind /\ request.earned[sourceOf[c]]}
             own(primary) == {c \in best : /\ sourceOf[c] \notin SharedSources(best)
                                           /\ IsPrimary(c) = primary /\ request.earned[sourceOf[c]]}
             shared == SharedSources(best)
             sources == {s \in Sources : request.earned[s] /\ \E c \in best : sourceOf[c] = s}
  <2>1. /\ db.comparison = Comparison(ResultWarnings) /\ db.warnings = ResultWarnings /\ Selected = best
        /\ \A c \in best : db.allocations[c] = KindOf(c)
        /\ request \in Requests /\ best \in SUBSET request.offered /\ IsValidSelection(request, best)
    BY <1>1, CompletedIsFilled DEF Filled
  <2>2. /\ db.comparison.shared = SourceCredits(request, shared)
        /\ db.comparison.unique = CandidateCredits(request, UniqueCandidates(request, best))
        /\ db.comparison.manual = request.notices + Cardinality(db.warnings)
    BY <2>1 DEF Comparison, Objective
  <2>3. \A c : IsPrimary(c) \in BOOLEAN
    BY DEF IsPrimary
  <2>4. rows("PRIMARY") = own(TRUE)
    BY <2>1, <2>3, KindsSplit
  <2>5. rows("UNIQUE_SECONDARY") = own(FALSE)
    BY <2>1, <2>3, KindsSplit
  <2>6. own(FALSE) = UniqueCandidates(request, best)
    BY <2>3 DEF UniqueCandidates
  <2>7. /\ SourceCredits(request, sources)
             = SourceCredits(request, shared) + CandidateCredits(request, own(TRUE)) + CandidateCredits(request, own(FALSE))
        /\ \A s \in shared : request.earned[s]
    BY <2>1, EarnedSplit, ZenonT(60)
  <2>8. {sourceOf[c] : c \in rows("SHARED")} = shared
    <3>1. \A c \in best : sourceOf[c] \in shared => c \in rows("SHARED")
      BY <2>1, <2>7, KindsSplit
    <3>2. \A s \in shared : \E c \in best : sourceOf[c] = s
      BY DEF SharedSources
    <3>3. \A c \in rows("SHARED") : sourceOf[c] \in shared
      BY <2>1, KindsSplit
    <3> QED
      BY <3>1, <3>2, <3>3
  <2>9. /\ SourceCredits(request, shared) \in Nat /\ CandidateCredits(request, own(FALSE)) \in Nat
        /\ CandidateCredits(request, own(TRUE)) \in Nat
    <3>1. own(FALSE) \in SUBSET request.offered /\ own(TRUE) \in SUBSET request.offered
      BY <2>1
    <3>2. shared \in SUBSET Sources
      BY DEF SharedSources
    <3> QED
      BY <2>1, <3>1, <3>2, CreditsTyped
  <2>10. sources = {s \in Sources : request.earned[s] /\ \E c \in Selected : sourceOf[c] = s}
    BY <2>1
  <2> HIDE DEF rows, own, shared, sources
  <2>11. /\ SourceCredits(request, sources)
              = db.comparison.shared + db.comparison.unique + CandidateCredits(request, rows("PRIMARY"))
         /\ db.comparison.unique = CandidateCredits(request, rows("UNIQUE_SECONDARY"))
         /\ db.comparison.shared = SourceCredits(request, {sourceOf[c] : c \in rows("SHARED")})
         /\ db.comparison.manual = request.notices + Cardinality(db.warnings)
    <3>1. db.comparison.shared = SourceCredits(request, shared)
      BY <2>2, Zenon
    <3>2. db.comparison.unique = CandidateCredits(request, own(FALSE))
      BY <2>2, <2>6, Zenon
    <3>3. CandidateCredits(request, rows("PRIMARY")) = CandidateCredits(request, own(TRUE))
      BY <2>4, Zenon
    <3>4. \A x, y, z \in Nat : x + y + z = x + z + y
      OBVIOUS
    <3>5. SourceCredits(request, sources)
            = SourceCredits(request, shared) + CandidateCredits(request, own(FALSE)) + CandidateCredits(request, own(TRUE))
      BY <2>7, <2>9, <3>4, Zenon
    <3>6. SourceCredits(request, sources)
            = db.comparison.shared + db.comparison.unique + CandidateCredits(request, rows("PRIMARY"))
      BY <3>1, <3>2, <3>3, <3>5, Zenon
    <3> QED
      BY <2>2, <2>5, <2>8, <3>2, <3>1, <3>6, Zenon
  <2> QED
    BY <2>10, <2>11 DEF CreditsCountedOnce, rows
<1>2. ~ Completed => CreditsCountedOnce
  BY DEF CreditsCountedOnce
<1> QED
  BY <1>1, <1>2, Init_Inv, Inv_Next, PTL DEF Spec

\* The limit warning is stored exactly when there were more combinations than
\* the search may visit, and every gap in the policies has its warning.
THEOREM GapsAreSaid == Spec => []NothingUnsaid
<1>1. ASSUME Inv, Completed, request.offered # {}
      PROVE Warning("LIMIT_REACHED", Everyone) \in db.warnings <=> request.limit < Cardinality(Combinations(request))
  BY <1>1, CompletedIsFilled, WarningsSaid DEF Settled, Inv, SearchInv, Held
<1>2. ASSUME Inv, Completed, NEW p \in Secondary
      PROVE LET own == {c \in Selected : ProgramOf(c) = p /\ request.earned[sourceOf[c]] /\ c \notin SharesIn(Selected)}
            IN IF request.policy[p] = NoRule
                 THEN /\ Warning("MISSING_RULE", p) \in db.warnings
                      /\ \A c \in Selected : ProgramOf(c) = p => db.allocations[c] # "SHARED"
                 ELSE /\ request.policy[p].confirm => Warning("RULE_NEEDS_REVIEW", p) \in db.warnings
                      /\ CandidateCredits(request, own) < request.policy[p].uniqueMin
                           => Warning("UNIQUE_CREDITS_NOT_MET", p) \in db.warnings
  <2> DEFINE own == {c \in Selected : ProgramOf(c) = p /\ request.earned[sourceOf[c]] /\ c \notin SharesIn(Selected)}
  <2>1. /\ db.warnings = ResultWarnings /\ Selected = best /\ \A c \in best : db.allocations[c] = KindOf(c)
        /\ request \in Requests /\ best \in SUBSET request.offered /\ IsValidSelection(request, best)
    BY <1>2, CompletedIsFilled
  <2>2. p # primaryProgram
    BY DEF Secondary
  <2>3. CASE request.policy[p] = NoRule
    <3>1. p \in MissingRules
      BY <2>3 DEF MissingRules
    <3>2. ASSUME NEW c \in best, ProgramOf(c) = p, sourceOf[c] \in SharedSources(best) PROVE FALSE
      <4>1. Shareable(request, {d \in best : sourceOf[d] = sourceOf[c]})
        BY <2>1, <3>2 DEF IsValidSelection
      <4>2. ~ IsPrimary(c)
        BY <2>2, <3>2 DEF IsPrimary
      <4> QED
        BY <2>3, <3>2, <4>1, <4>2 DEF Shareable
    <3> QED
      BY <2>1, <2>3, <3>1, <3>2, WarningsSaid, KindsSplit
  <2>4. CASE request.policy[p] # NoRule
    <3>1. p \in Secondary \ MissingRules
      BY <2>4 DEF MissingRules
    <3>2. request.policy[p].confirm => p \in ReviewRules
      BY <3>1 DEF ReviewRules
    <3>3. own = {c \in UniqueCandidates(request, best) : ProgramOf(c) = p}
      BY <2>1, <2>2, SharesAreShared DEF UniqueCandidates, IsPrimary
    <3>4. CandidateCredits(request, own) < request.policy[p].uniqueMin => p \in ShortOfUnique
      BY <3>1, <3>3 DEF ShortOfUnique, UniqueCredits
    <3> HIDE DEF own
    <3> QED
      BY <2>1, <2>4, <3>2, <3>4, WarningsSaid DEF own
  <2> QED
    BY <2>3, <2>4
<1>3. Inv => LimitReported
  BY <1>1 DEF LimitReported
<1>4. Inv => NoSilentPolicy
  BY <1>2, Zenon DEF NoSilentPolicy
<1>5. Inv => NothingUnsaid
  BY <1>3, <1>4 DEF NothingUnsaid
<1> QED
  BY <1>5, Init_Inv, Inv_Next, PTL DEF Spec

(* The rows that are stored *)

\* A row of the transaction or of the database, as the tables take it.
RowTyped(rows) ==
  /\ rows.status \in AcademicPlanScenario
  /\ rows.audits \subseteq Programs
  /\ rows.allocations \in ScenarioCourseAllocation
  /\ rows.warnings \subseteq ScenarioWarning
  /\ rows.comparison = Nothing \/ rows.comparison \in ScenarioComparisonSnapshot

LEMMA NoAllocations == <<>> \in ScenarioCourseAllocation
<1>1. <<>> \in [{} -> Kinds]
  OBVIOUS
<1> QED
  BY <1>1 DEF ScenarioCourseAllocation

LEMMA RowsTyped ==
  ASSUME Inv
  PROVE  /\ \A status \in AcademicPlanScenario : RowTyped(Row(status))
         /\ \A W \in SUBSET ScenarioWarning : RowTyped(Audited(W))
         /\ \A status \in AcademicPlanScenario : RowTyped(Filled(status))
<1>1. ASSUME NEW status \in AcademicPlanScenario PROVE RowTyped(Row(status))
  BY NoAllocations DEF RowTyped, Row
<1>2. ASSUME NEW W \in SUBSET ScenarioWarning PROVE RowTyped(Audited(W))
  BY NoAllocations DEF RowTyped, Audited, AcademicPlanScenario
<1>3. ASSUME NEW status \in AcademicPlanScenario PROVE RowTyped(Filled(status))
  <2>1. Comparison(ResultWarnings) \in ScenarioComparisonSnapshot
    BY ComparisonTyped
  <2>2. \A c : KindOf(c) \in Kinds
    BY DEF KindOf, Kinds
  <2>3. [c \in request.offered |-> KindOf(c)] \in ScenarioCourseAllocation
    BY <2>2 DEF ScenarioCourseAllocation
  <2> QED
    BY <2>1, <2>3, WarningsTyped DEF RowTyped, Filled
<1> QED
  BY <1>1, <1>2, <1>3

\* Whatever a request stores, the tables accept, and the search keeps its bounds.
THEOREM ScenarioTyped == Spec => []TypeOK
<1>1. ASSUME Inv PROVE TypeOK
  <2> USE <1>1 DEF Inv
  <2>1. /\ limit_reached \in BOOLEAN /\ evaluated \in 0..request.limit /\ best \subseteq request.offered
        /\ phase = "searching" => IsPath(path, Menu(request))
    BY DEF SearchInv, Held, Visited
  <2>2. {"RUNNING", "COMPLETED_WITH_WARNINGS", "FAILED"} \subseteq AcademicPlanScenario /\ {} \subseteq ScenarioWarning
    BY DEF AcademicPlanScenario
  <2>3. session = Nothing \/ RowTyped(session)
    <3>1. session \in {Nothing, Row("RUNNING"), Audited({}), Audited(PolicyWarnings), Filled("RUNNING")}
      BY DEF Stored, Opened, Phases
    <3> QED
      BY <2>2, <3>1, RowsTyped, WarningsTyped
  <2>4. db = Nothing \/ RowTyped(db)
    BY <2>2, RowsTyped DEF Stored, Committed
  <2> QED
    <3>1. phase \in Phases
      BY DEF Opened
    <3>2. \A rows \in {session, db} \ {Nothing} : RowTyped(rows)
      BY <2>3, <2>4
    <3> QED
      BY <2>1, <3>1, <3>2 DEF TypeOK, RowTyped, Phases
<1> QED
  BY <1>1, Init_Inv, Inv_Next, PTL DEF Spec
=============================================================================

---------------------------- MODULE ScenarioRules ----------------------------
(***************************************************************************)
(* The pure part of the scenario allocator (academic_scenarios/            *)
(* allocator.py): which courses a scenario may count for which requirement *)
(* of which program, and which of two selections is better.                *)
(*                                                                         *)
(* A candidate is one audit application of a source (an attempt, a         *)
(* transfer credit, a substitution) to a requirement node of one of the    *)
(* scenario's programs. Candidates are numbered in the order of            *)
(* candidate_sort_key and sources in the order of their key; stableRank is *)
(* the order of stable_candidate_key, the same key as text, which differs  *)
(* when a number in it has more digits. Decimals are natural numbers: all  *)
(* credits are multiples of one unit.                                      *)
(***************************************************************************)
EXTENDS Integers, FiniteSets, Functions, ChoiceTree

CONSTANTS
  CandidateCount, SourceCount,
  sourceOf, nodeOf,   \* of each candidate
  stableRank,         \* of each candidate
  programOf,          \* of each requirement node
  primaryProgram,     \* the one PRIMARY_MAJOR of the scenario
  NoRule,             \* no ProgramCombinationRule is stored for a program
  Requests            \* what allocate may be called with, see RequestType

Candidates == 1..CandidateCount
Sources == 1..SourceCount
Nodes == DOMAIN programOf
Programs == {programOf[node] : node \in Nodes}
Secondary == Programs \ {primaryProgram}

\* A ProgramCombinationPolicy towards one secondary program.
Policy == [sharedMax : Nat, uniqueMin : Nat, doubleCounting : BOOLEAN, confirm : BOOLEAN]

\* offered: the candidates loaded for the scenario; limit: the search limit. Of the
\* audits: the credits that required nodes still lack, the warnings that ask for an
\* advisor, the most credits that one program counts as completed, and the credits
\* that all the programs require.
RequestType ==
  [offered : SUBSET Candidates, overlap : [Nodes -> BOOLEAN], earned : [Sources -> BOOLEAN],
   credit : [Sources -> Nat], policy : [Secondary -> Policy \cup {NoRule}], limit : Nat,
   remaining : Nat, notices : Nat, completed : Nat, required : Nat]

ProgramOf(c) == programOf[nodeOf[c]]
IsPrimary(c) == ProgramOf(c) = primaryProgram

\* The sum of the credits of a set of sources, or of the candidates of a set.
SourceCredits(r, S) == SumFunctionOnSet(r.credit, S)
CandidateCredits(r, C) == SumFunctionOnSet([c \in C |-> r.credit[sourceOf[c]]], C)

\* is_shareable: one source may count for all of these requirements.
Shareable(r, C) ==
  \E p \in C :
    /\ IsPrimary(p)
    /\ C # {p}
    /\ \A c \in C : r.overlap[nodeOf[c]] /\ r.earned[sourceOf[c]]
    /\ \A c \in C \ {p} : /\ ~ IsPrimary(c)
                          /\ r.policy[ProgramOf(c)] # NoRule
                          /\ r.policy[ProgramOf(c)].doubleCounting

\* _choices_by_source: leave a source unused, use it once, or for a shareable pair.
Of(r, s) == {c \in r.offered : sourceOf[c] = s}
UsedSources(r) == {sourceOf[c] : c \in r.offered}
Choices(r, s) ==
  {{}} \cup {{c} : c \in Of(r, s)} \cup
  {pair \in {{c, d} : c, d \in Of(r, s)} : Shareable(r, pair)}

\* The tuple of stable keys that orders the choices of a source, as one number.
Rank(C) ==
  IF C = {} THEN 0
  ELSE (CandidateCount + 1) * stableRank[Least(C)] +
       (IF C = {Least(C)} THEN 0 ELSE stableRank[Greatest(C)])

Menu(r) == [s \in UsedSources(r) |-> {Rank(C) : C \in Choices(r, s)}]
ChoiceOf(r, s, rank) == CHOOSE C \in Choices(r, s) : Rank(C) = rank
Selection(r, path) == UNION {ChoiceOf(r, s, path[s]) : s \in UsedSources(r)}

\* What one leaf of visit can select: a choice of every source.
Combinations(r) ==
  {C \in SUBSET r.offered : \A s \in UsedSources(r) : {c \in C : sourceOf[c] = s} \in Choices(r, s)}

\* sources_used_more_than_once
SharedSources(C) == {s \in Sources : \E c, d \in C : c # d /\ sourceOf[c] = s /\ sourceOf[d] = s}
SharedWith(r, C, p) ==
  CandidateCredits(r, {c \in C : /\ ProgramOf(c) = p
                                 /\ sourceOf[c] \in SharedSources(C)
                                 /\ r.earned[sourceOf[c]]})

\* mutant: each shared course is compared with the maximum by itself
IsValidSelectionPerCourse(r, C) ==
  /\ \A c, d \in C : nodeOf[c] = nodeOf[d] => c = d
  /\ \A s \in SharedSources(C) : Shareable(r, {c \in C : sourceOf[c] = s})
  /\ \A c \in C : sourceOf[c] \in SharedSources(C) /\ ~ IsPrimary(c)
                  => r.credit[sourceOf[c]] <= r.policy[ProgramOf(c)].sharedMax

\* _is_valid_selection
IsValidSelection(r, C) ==
  /\ \A c, d \in C : nodeOf[c] = nodeOf[d] => c = d
  /\ \A s \in SharedSources(C) : Shareable(r, {c \in C : sourceOf[c] = s})
  /\ \A p \in {ProgramOf(c) : c \in {d \in C : sourceOf[d] \in SharedSources(C)}} \ {primaryProgram} :
       SharedWith(r, C, p) <= r.policy[p].sharedMax

\* objective_for. remaining_required_credits is always zero, total_earned_credits is
\* read by nobody: both are left out.
UniqueCandidates(r, C) ==
  {c \in C : ~ IsPrimary(c) /\ sourceOf[c] \notin SharedSources(C) /\ r.earned[sourceOf[c]]}
NeedsReview(r, C) ==
  {c \in C : /\ ~ IsPrimary(c)
             /\ \E p \in C : IsPrimary(p)
             /\ r.policy[ProgramOf(c)] = NoRule \/ r.policy[ProgramOf(c)].confirm}
\* mutant: the credits of a shared course are added for each of its requirements
ObjectivePerApplication(r, C) ==
  [requirements |-> Cardinality(C),
   unique |-> CandidateCredits(r, UniqueCandidates(r, C)),
   credits |-> CandidateCredits(r, C),
   shared |-> CandidateCredits(r, {c \in C : sourceOf[c] \in SharedSources(C)}),
   manual |-> Cardinality(NeedsReview(r, C))]

Objective(r, C) ==
  [requirements |-> Cardinality(C),
   unique |-> CandidateCredits(r, UniqueCandidates(r, C)),
   credits |-> CandidateCredits(r, C),
   shared |-> SourceCredits(r, SharedSources(C)),
   manual |-> Cardinality(NeedsReview(r, C))]

\* AllocationObjective.score: compared from the left, greater is better.
Score(r, C) ==
  LET o == Objective(r, C)
  IN [i \in 1..5 |-> CASE i = 1 -> o.requirements
                       [] i = 2 -> o.unique
                       [] i = 3 -> o.credits
                       [] i = 4 -> - o.shared
                       [] i = 5 -> - o.manual]

\* The stable keys in the order of the selection; 0 stands for the end of the tuple.
Precedes(c, d) == sourceOf[c] < sourceOf[d] \/ (sourceOf[c] = sourceOf[d] /\ c < d)
Tie(C) ==
  [i \in Candidates |->
     LET at == {c \in C : Cardinality({d \in C : Precedes(d, c)}) = i - 1}
     IN IF at = {} THEN 0 ELSE stableRank[Least(at)]]

\* Whether visit replaces the best selection B by A.
Beats(r, A, B) ==
  \/ Earlier(Score(r, B), Score(r, A))
  \/ Score(r, A) = Score(r, B) /\ Earlier(Tie(A), Tie(B))

\* What the database constraints and _validate_request make of the inputs.
ScenarioAssumption ==
  /\ CandidateCount \in Nat /\ SourceCount \in Nat
  /\ sourceOf \in [Candidates -> Sources]
  /\ nodeOf \in [Candidates -> Nodes]
  /\ stableRank \in [Candidates -> Candidates]
  /\ \A c, d \in Candidates : stableRank[c] = stableRank[d] => c = d
  /\ \A c, d \in Candidates : sourceOf[c] = sourceOf[d] /\ nodeOf[c] = nodeOf[d] => c = d
  /\ NoRule \notin Policy /\ IsFiniteSet(Nodes)
  /\ Requests \subseteq RequestType
ASSUME AllocatorInput == ScenarioAssumption
=============================================================================

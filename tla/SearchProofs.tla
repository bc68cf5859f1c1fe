----------------------------- MODULE SearchProofs -----------------------------
(***************************************************************************)
(* What the proofs about searches, sums and folds share.                   *)
(*                                                                         *)
(* The order of ChoiceTree: a search that starts at FirstPath, moves by    *)
(* NextPath and stops when no group is open leaves no path out. Menus are  *)
(* over groups 1..n; the ranks are natural numbers.                        *)
(*                                                                         *)
(* What the library's sums and folds compute, for every finite set. A sum  *)
(* follows one more element, a disjoint union and the image of an          *)
(* injection; a fold is a function on the subsets of what it folds, and    *)
(* what its steps keep holds of its value. The library defines both by     *)
(* recursion over subsets. Each induction here is on a smallest            *)
(* counterexample.                                                         *)
(*                                                                         *)
(* What is counted along a total order on 1..n has each place taken once.  *)
(***************************************************************************)
EXTENDS ChoiceTree, Functions, FiniteSetTheorems, NaturalsInduction, WellFoundedInduction, TLAPS

(* The order of the choices *)

IsMenu(menu, n) ==
  /\ n \in Nat
  /\ DOMAIN menu \subseteq 1..n
  /\ \A g \in DOMAIN menu : menu[g] \subseteq Nat /\ menu[g] # {}

\* A nonempty set of natural numbers has a least member.
LEMMA LeastMember ==
  ASSUME NEW S, S \subseteq Nat, S # {}
  PROVE /\ Least(S) \in S
        /\ \A m \in S : Least(S) <= m
<1>1. IsWellFoundedOn(OpToRel(<, Nat), Nat)
  BY NatLessThanWellFounded
<1>2. PICK n \in S : \A m \in S : ~ (<<m, n>> \in OpToRel(<, Nat))
  BY <1>1, WFMin
<1>3. \A m \in S : ~ (m < n)
  BY <1>2, Zenon DEF OpToRel
<1>4. \A m \in S : n <= m
  BY <1>3
<1> QED
  BY <1>4, Zenon DEF Least

\* A nonempty set of numbers bounded by n has a greatest member.
LEMMA GreatestMember ==
  ASSUME NEW n \in Nat, NEW S, S \subseteq 1..n, S # {}
  PROVE /\ Greatest(S) \in S
        /\ \A m \in S : m <= Greatest(S)
<1> DEFINE T == {n - m : m \in S}
<1>1. T \subseteq Nat /\ T # {}
  <2>1. PICK s \in S : TRUE
    OBVIOUS
  <2>2. n - s \in T
    BY <2>1
  <2> QED
    BY <2>2
<1>2. PICK k \in S : Least(T) = n - k
  BY <1>1, LeastMember
<1>3. \A m \in S : n - k <= n - m
  BY <1>1, <1>2, LeastMember
<1>4. \A m \in S : m <= k
  BY <1>3
<1> QED
  BY <1>4 DEF Greatest

\* Two different paths differ first at some group, and one of them is earlier there.
LEMMA EarlierTotal ==
  ASSUME NEW D, D \subseteq Nat,
         NEW p \in [D -> Int], NEW q \in [D -> Int], p # q
  PROVE Earlier(p, q) \/ Earlier(q, p)
<1> DEFINE S == {g \in D : p[g] # q[g]}
<1>1. PICK d \in D : p[d] # q[d]
  <2>1. p = [d \in D |-> p[d]] /\ q = [d \in D |-> q[d]]
    OBVIOUS
  <2> QED
    BY <2>1, Zenon
<1>0. S # {} /\ S \subseteq Nat
  BY <1>1
<1>2. Least(S) \in S /\ \A m \in S : Least(S) <= m
  BY <1>0, LeastMember
<1>3. PICK g \in S : \A m \in S : g <= m
  BY <1>2
<1>4. \A h \in D : h < g => p[h] = q[h]
  BY <1>3
<1>5. p[g] < q[g] \/ q[g] < p[g]
  BY <1>3
<1> QED
  BY <1>3, <1>4, <1>5 DEF Earlier

LEMMA EarlierIrreflexive ==
  ASSUME NEW D, NEW p \in [D -> Int]
  PROVE ~ Earlier(p, p)
BY DEF Earlier

LEMMA EarlierTransitive ==
  ASSUME NEW D, D \subseteq Nat, NEW p \in [D -> Int], NEW q \in [D -> Int], NEW r \in [D -> Int],
         Earlier(p, q), Earlier(q, r)
  PROVE Earlier(p, r)
<1>1. PICK g \in D : p[g] < q[g] /\ \A h \in D : h < g => p[h] = q[h]
  BY DEF Earlier
<1>2. PICK k \in D : q[k] < r[k] /\ \A h \in D : h < k => q[h] = r[h]
  BY DEF Earlier
<1>3. CASE g < k
  <2>1. p[g] < r[g] /\ \A h \in D : h < g => p[h] = r[h]
    BY <1>1, <1>2, <1>3
  <2> QED
    BY <2>1 DEF Earlier
<1>4. CASE k < g
  <2>1. p[k] < r[k] /\ \A h \in D : h < k => p[h] = r[h]
    BY <1>1, <1>2, <1>4
  <2> QED
    BY <2>1 DEF Earlier
<1>5. CASE k = g
  <2>1. p[k] < r[k] /\ \A h \in D : h < k => p[h] = r[h]
    BY <1>1, <1>2, <1>5
  <2> QED
    BY <2>1 DEF Earlier
<1> QED
  BY <1>3, <1>4, <1>5

\* The first path is a path, and none is earlier.
LEMMA FirstIsFirst ==
  ASSUME NEW n, NEW menu, IsMenu(menu, n)
  PROVE /\ IsPath(FirstPath(menu), menu)
        /\ \A q : IsPath(q, menu) => ~ Earlier(q, FirstPath(menu))
<1>1. \A g \in DOMAIN menu : /\ Least(menu[g]) \in menu[g]
                             /\ \A m \in menu[g] : Least(menu[g]) <= m
                             /\ menu[g] \subseteq Nat
  BY LeastMember DEF IsMenu
<1>2. IsPath(FirstPath(menu), menu)
  BY <1>1 DEF IsPath, FirstPath
<1>3. ASSUME NEW q, IsPath(q, menu), Earlier(q, FirstPath(menu)) PROVE FALSE
  <2>1. PICK g \in DOMAIN menu : q[g] < Least(menu[g])
    BY <1>3 DEF Earlier, IsPath, FirstPath
  <2>2. q[g] \in menu[g]
    BY <1>3 DEF IsPath
  <2> QED
    BY <1>1, <2>1, <2>2
<1> QED
  BY <1>2, <1>3

\* A path with no open group is the last: every other path is earlier.
LEMMA LastIsLast ==
  ASSUME NEW n, NEW menu, IsMenu(menu, n),
         NEW p, IsPath(p, menu), Open(p, menu) = {},
         NEW q, IsPath(q, menu)
  PROVE q = p \/ Earlier(q, p)
<1>1. p \in [DOMAIN menu -> Int] /\ q \in [DOMAIN menu -> Int] /\ DOMAIN menu \subseteq Nat
  BY DEF IsPath, IsMenu
<1>2. \A g \in DOMAIN menu : q[g] <= p[g]
  BY <1>1 DEF Open, Later, IsPath, IsMenu
<1>3. ~ Earlier(p, q)
  BY <1>1, <1>2 DEF Earlier
<1> QED
  BY <1>1, <1>3, EarlierTotal

\* The next path is a later path, and nothing lies between a path and the next.
LEMMA NextIsNext ==
  ASSUME NEW n, NEW menu, IsMenu(menu, n),
         NEW p, IsPath(p, menu), Open(p, menu) # {}
  PROVE /\ IsPath(NextPath(p, menu), menu) /\ Earlier(p, NextPath(p, menu))
        /\ \A q : IsPath(q, menu) /\ Earlier(q, NextPath(p, menu)) => q = p \/ Earlier(q, p)
<1> DEFINE D == DOMAIN menu
           turn == Greatest(Open(p, menu))
           next == NextPath(p, menu)
<1>1. Open(p, menu) \subseteq 1..n /\ n \in Nat
  BY DEF Open, IsMenu
<1>2. turn \in Open(p, menu) /\ \A g \in Open(p, menu) : g <= turn
  BY <1>1, GreatestMember
<1>3. turn \in D /\ turn \in Nat /\ D \subseteq Nat
  BY <1>1, <1>2 DEF Open, IsMenu
<1>4. \A g \in D : /\ Least(menu[g]) \in menu[g]
                   /\ \A m \in menu[g] : Least(menu[g]) <= m
                   /\ menu[g] \subseteq Nat
  BY LeastMember DEF IsMenu
<1> DEFINE L == Later(p, menu, turn)
<1>5. Least(L) \in L /\ \A m \in L : Least(L) <= m
  <2>1. L \subseteq Nat /\ L # {}
    BY <1>2, <1>4 DEF Open, Later
  <2> QED
    BY <2>1, LeastMember
<1> HIDE DEF turn
<1>6. /\ next \in [D -> Nat]
      /\ \A g \in D : g < turn => next[g] = p[g]
      /\ next[turn] = Least(L)
      /\ \A g \in D : g > turn => next[g] = Least(menu[g])
  <2>1. next = [g \in D |-> CASE g < turn -> p[g]
                              [] g = turn -> Least(Later(p, menu, g))
                              [] g > turn -> Least(menu[g])]
    BY DEF NextPath, turn
  <2>2. \A g \in D : p[g] \in Nat /\ Least(menu[g]) \in Nat
    BY <1>4 DEF IsPath
  <2>3. Least(L) \in Nat
    BY <1>4, <1>5, <1>3 DEF Later
  <2>4. \A g \in D : next[g] = CASE g < turn -> p[g]
                              [] g = turn -> Least(Later(p, menu, g))
                              [] g > turn -> Least(menu[g])
    BY <2>1
  <2>5. \A g \in D : g < turn => next[g] = p[g]
    BY <2>4, <1>3
  <2>6. next[turn] = Least(L)
    BY <2>4, <1>3
  <2>7. \A g \in D : g > turn => next[g] = Least(menu[g])
    BY <2>4, <1>3
  <2>8. \A g \in D : next[g] \in Nat
    BY <2>2, <2>3, <2>5, <2>6, <2>7, <1>3
  <2>9. next \in [D -> Nat]
    BY <2>1, <2>8
  <2> QED
    BY <2>5, <2>6, <2>7, <2>9
<1> HIDE DEF next, L
<1>7. L = {rank \in menu[turn] : p[turn] < rank}
  BY DEF L, Later
<1>8. IsPath(next, menu)
  <2>1. \A g \in D : next[g] \in menu[g]
    BY <1>3, <1>4, <1>5, <1>6, <1>7 DEF IsPath
  <2> QED
    BY <1>6, <2>1 DEF IsPath
<1>9. ASSUME NEW q, IsPath(q, menu), Earlier(q, next) PROVE q = p \/ Earlier(q, p)
  <2>1. PICK g \in D : q[g] < next[g] /\ \A h \in D : h < g => q[h] = next[h]
    BY <1>9 DEF Earlier, IsPath
  <2>2. q \in [D -> Int] /\ p \in [D -> Int] /\ \A h \in D : q[h] \in menu[h] /\ p[h] \in menu[h]
    BY <1>9 DEF IsPath
  <2>3. g <= turn
    BY <1>3, <1>4, <1>6, <2>1, <2>2
  <2>4. CASE g < turn
    <3>1. q[g] < p[g] /\ \A h \in D : h < g => q[h] = p[h]
      BY <1>3, <1>6, <2>1, <2>4
    <3> QED
      BY <2>2, <3>1 DEF Earlier
  <2>5. CASE g = turn
    <3>1. \A h \in D : h < turn => q[h] = p[h]
      BY <1>3, <1>6, <2>1, <2>5
    <3>2. q[turn] <= p[turn]
      <4>1. q[turn] < Least(L) /\ q[turn] \in menu[turn]
        BY <1>3, <1>6, <2>1, <2>2, <2>5
      <4>2. q[turn] \notin L
        <5>1. menu[turn] \subseteq Nat
          BY <1>3, <1>4
        <5>2. Least(L) \in Nat
          BY <5>1, <1>5, <1>7
        <5> QED
          BY <4>1, <5>1, <5>2, <1>5
      <4> QED
        BY <4>1, <4>2, <1>3, <1>7, <2>2
    <3>3. \A h \in D : h > turn => q[h] <= p[h]
      <4>1. \A h \in D : h > turn => h \notin Open(p, menu)
        BY <1>2, <1>3
      <4> QED
        BY <4>1, <2>2, <1>4 DEF Open, Later
    <3>4. ~ Earlier(p, q)
      BY <3>1, <3>2, <3>3, <2>2, <1>3 DEF Earlier
    <3> QED
      BY <3>4, <2>2, <1>3, EarlierTotal
  <2> QED
    BY <1>3, <2>3, <2>4, <2>5
<1>10. Earlier(p, next)
  <2>1. p[turn] < next[turn] /\ DOMAIN p = D
    BY <1>5, <1>6, <1>7 DEF IsPath
  <2> QED
    BY <1>3, <1>6, <2>1 DEF Earlier
<1> QED
  BY <1>8, <1>9, <1>10 DEF next
-----------------------------------------------------------------------------
(* Sums and folds *)

\* A family of subsets of a finite set has a member without a proper part in it.
LEMMA SmallestSet ==
  ASSUME NEW U, IsFiniteSet(U), NEW F, F \subseteq SUBSET U, F # {}
  PROVE \E S \in F : \A T \in F : T \subseteq S => T = S
<1> DEFINE sizes == {Cardinality(S) : S \in F}
<1>1. \A S \in F : IsFiniteSet(S) /\ Cardinality(S) \in Nat
  BY FS_Subset, FS_CardinalityType
<1>2. sizes \subseteq Nat /\ sizes # {}
  BY <1>1
<1>3. IsWellFoundedOn(OpToRel(<, Nat), Nat)
  BY NatLessThanWellFounded
<1>4. PICK n \in sizes : \A m \in sizes : ~ (<<m, n>> \in OpToRel(<, Nat))
  <2> HIDE DEF sizes
  <2> QED
    BY <1>2, <1>3, WFMin
<1>5. \A m \in sizes : ~ (m < n)
  <2> TAKE m \in sizes
  <2>1. m \in Nat /\ n \in Nat
    BY <1>2, <1>4
  <2> QED
    BY <1>4, <2>1 DEF OpToRel
<1>6. PICK S \in F : n = Cardinality(S)
  BY <1>4
<1>7. ASSUME NEW T \in F, T \subseteq S PROVE T = S
  <2>1. Cardinality(T) <= Cardinality(S) /\ (Cardinality(S) = Cardinality(T) => S = T)
    BY <1>1, <1>7, FS_Subset
  <2>2. ~ (Cardinality(T) < Cardinality(S))
    BY <1>5, <1>6
  <2>3. Cardinality(T) \in Nat /\ Cardinality(S) \in Nat
    BY <1>1
  <2> QED
    BY <2>1, <2>2, <2>3
<1> QED
  BY <1>6, <1>7

\* A set of numbers has a least one.
LEMMA SmallestTerm ==
  ASSUME NEW S \in SUBSET Nat, S # {}
  PROVE  \E n \in S : \A m \in S : n <= m
  BY LeastMember

(* The recursion of the library *)

OneMember(s) == CHOOSE x \in s : TRUE
SumRecursion(g, f, S) == g = [s \in SUBSET S |-> IF s = {} THEN 0 ELSE f[OneMember(s)] + g[s \ {OneMember(s)}]]

LEMMA OneIsMember == \A s : s # {} => OneMember(s) \in s
BY DEF OneMember

LEMMA SumUnfold ==
  ASSUME NEW f, NEW S
  PROVE SumFunctionOnSet(f, S) = (CHOOSE g : SumRecursion(g, f, S))[S]
BY Zenon DEF SumFunctionOnSet, FoldFunctionOnSet, MapThenFoldSet, SumRecursion, OneMember

LEMMA SumUnique ==
  ASSUME NEW f, NEW S, IsFiniteSet(S), NEW g, NEW h, SumRecursion(g, f, S), SumRecursion(h, f, S)
  PROVE g = h
<1> DEFINE F == {s \in SUBSET S : g[s] # h[s]}
<1>1. F = {}
  <2> SUFFICES ASSUME F # {} PROVE FALSE
    OBVIOUS
  <2>1. PICK s \in F : \A t \in F : t \subseteq s => t = s
    <3>1. F \subseteq SUBSET S
      OBVIOUS
    <3> HIDE DEF F
    <3> QED
      BY <3>1, SmallestSet
  <2>2. CASE s = {}
    BY <2>1, <2>2 DEF SumRecursion
  <2>3. CASE s # {}
    <3>1. OneMember(s) \in s /\ s \ {OneMember(s)} \in SUBSET S /\ s \ {OneMember(s)} # s
      BY <2>1, <2>3, OneIsMember
    <3>2. g[s \ {OneMember(s)}] = h[s \ {OneMember(s)}]
      BY <2>1, <3>1
    <3>3. g[s] = f[OneMember(s)] + g[s \ {OneMember(s)}] /\ h[s] = f[OneMember(s)] + h[s \ {OneMember(s)}]
      BY <2>1, <2>3 DEF SumRecursion
    <3> QED
      BY <2>1, <3>2, <3>3
  <2> QED
    BY <2>2, <2>3
<1>2. g = [s \in SUBSET S |-> g[s]] /\ h = [s \in SUBSET S |-> h[s]]
  BY DEF SumRecursion
<1> QED
  BY <1>1, <1>2

\* The sums of the subsets of a finite set follow the recursion.
LEMMA SumFollows ==
  ASSUME NEW f, NEW S, IsFiniteSet(S)
  PROVE \A s \in SUBSET S : SumFunctionOnSet(f, s) = IF s = {} THEN 0 ELSE f[OneMember(s)] + SumFunctionOnSet(f, s \ {OneMember(s)})
<1> DEFINE Good(s) == SumFunctionOnSet(f, s) = IF s = {} THEN 0 ELSE f[OneMember(s)] + SumFunctionOnSet(f, s \ {OneMember(s)})
           F == {s \in SUBSET S : ~ Good(s)}
<1>1. F = {}
  <2> SUFFICES ASSUME F # {} PROVE FALSE
    OBVIOUS
  <2>1. PICK s \in F : \A t \in F : t \subseteq s => t = s
    <3>1. F \subseteq SUBSET S
      OBVIOUS
    <3> HIDE DEF F
    <3> QED
      BY <3>1, SmallestSet
  <2>2. s \in SUBSET S /\ IsFiniteSet(s) /\ ~ Good(s) /\ \A t \in SUBSET s : t # s => Good(t)
    <3>1. \A t \in SUBSET s : t \in SUBSET S
      BY <2>1
    <3> QED
      BY <2>1, <3>1, FS_Subset
  <2> DEFINE v == IF s = {} THEN 0 ELSE f[OneMember(s)] + SumFunctionOnSet(f, s \ {OneMember(s)})
             h == [t \in SUBSET s |-> IF t = s THEN v ELSE SumFunctionOnSet(f, t)]
  <2>3. ASSUME NEW t \in SUBSET s PROVE h[t] = IF t = {} THEN 0 ELSE f[OneMember(t)] + h[t \ {OneMember(t)}]
    <3>1. t # {} => OneMember(t) \in t /\ t \ {OneMember(t)} \in SUBSET s /\ t \ {OneMember(t)} # s
      BY <2>3, OneIsMember
    <3>2. t # {} => h[t \ {OneMember(t)}] = SumFunctionOnSet(f, t \ {OneMember(t)})
      BY <3>1
    <3>3. CASE t = s
      BY <3>2, <3>3
    <3>4. CASE t # s
      <4>1. Good(t)
        BY <2>2, <3>4
      <4>2. h[t] = SumFunctionOnSet(f, t)
        BY <3>4
      <4> HIDE DEF h
      <4> QED
        BY <3>2, <4>1, <4>2
    <3> QED
      BY <3>3, <3>4
  <2>4. SumRecursion(h, f, s)
    <3> DEFINE k == [t \in SUBSET s |-> IF t = {} THEN 0 ELSE f[OneMember(t)] + h[t \ {OneMember(t)}]]
    <3>1. h = [t \in SUBSET s |-> h[t]]
      OBVIOUS
    <3>2. \A t \in SUBSET s : h[t] = k[t]
      BY <2>3, Zenon
    <3> HIDE DEF h
    <3>3. h = k
      BY <3>1, <3>2
    <3> QED
      BY <3>3 DEF SumRecursion
  <2>5. SumRecursion(CHOOSE g : SumRecursion(g, f, s), f, s)
    <3> HIDE DEF h
    <3> QED
      BY <2>4, Zenon
  <2>6. (CHOOSE g : SumRecursion(g, f, s)) = h
    <3> HIDE DEF h
    <3> QED
      BY <2>2, <2>4, <2>5, SumUnique
  <2>7. SumFunctionOnSet(f, s) = h[s]
    BY <2>6, SumUnfold
  <2>8. h[s] = v
    OBVIOUS
  <2> HIDE DEF h
  <2> QED
    BY <2>2, <2>7, <2>8
<1> QED
  BY <1>1

LEMMA SumEmpty == ASSUME NEW f PROVE SumFunctionOnSet(f, {}) = 0
BY SumFollows, FS_EmptySet

\* Sums of numbers are numbers.
LEMMA SumTyped ==
  ASSUME NEW f, NEW S, IsFiniteSet(S)
  PROVE /\ (\A x \in S : f[x] \in Int) => SumFunctionOnSet(f, S) \in Int
        /\ (\A x \in S : f[x] \in Nat) => SumFunctionOnSet(f, S) \in Nat
<1>1. ASSUME NEW N \in {Int, Nat}, \A x \in S : f[x] \in N PROVE SumFunctionOnSet(f, S) \in N
  <2> DEFINE F == {s \in SUBSET S : SumFunctionOnSet(f, s) \notin N}
  <2> SUFFICES ASSUME F # {} PROVE FALSE
    OBVIOUS
  <2>1. PICK s \in F : \A t \in F : t \subseteq s => t = s
    <3>1. F \subseteq SUBSET S
      OBVIOUS
    <3> HIDE DEF F
    <3> QED
      BY <3>1, SmallestSet
  <2>2. CASE s = {}
    BY <2>1, <2>2, SumEmpty
  <2>3. CASE s # {}
    <3>1. OneMember(s) \in s /\ s \ {OneMember(s)} \in SUBSET S /\ s \ {OneMember(s)} # s
      BY <2>1, <2>3, OneIsMember
    <3>2. SumFunctionOnSet(f, s \ {OneMember(s)}) \in N /\ f[OneMember(s)] \in N
      BY <1>1, <2>1, <3>1
    <3>3. SumFunctionOnSet(f, s) = f[OneMember(s)] + SumFunctionOnSet(f, s \ {OneMember(s)})
      BY <2>1, <2>3, SumFollows
    <3>4. SumFunctionOnSet(f, s) \in N
      BY <1>1, <3>2, <3>3
    <3> QED
      BY <2>1, <3>4
  <2> QED
    BY <2>2, <2>3
<1> QED
  BY <1>1

\* OneMember more element adds its value, whichever the recursion takes first.
LEMMA SumInsert ==
  ASSUME NEW f, NEW S, IsFiniteSet(S), NEW x, x \notin S, \A y \in S \cup {x} : f[y] \in Int
  PROVE SumFunctionOnSet(f, S \cup {x}) = f[x] + SumFunctionOnSet(f, S)
<1> DEFINE U == S \cup {x}
           Good(s, y) == SumFunctionOnSet(f, s \cup {y}) = f[y] + SumFunctionOnSet(f, s)
           F == {s \in SUBSET U : \E y \in U \ s : ~ Good(s, y)}
<1>0. IsFiniteSet(U)
  BY FS_AddElement
<1>1. F = {}
  <2> SUFFICES ASSUME F # {} PROVE FALSE
    OBVIOUS
  <2>1. PICK s \in F : \A t \in F : t \subseteq s => t = s
    <3>1. F \subseteq SUBSET U
      OBVIOUS
    <3> HIDE DEF F, U
    <3> QED
      BY <1>0, <3>1, SmallestSet
  <2>2. PICK y \in U \ s : ~ Good(s, y)
    BY <2>1
  <2> DEFINE t == s \cup {y}
             z == OneMember(t)
  <2>3. t \in SUBSET U /\ t # {} /\ z \in t
    BY <2>1, <2>2, OneIsMember
  <2>4. SumFunctionOnSet(f, t) = f[z] + SumFunctionOnSet(f, t \ {z})
    <3> HIDE DEF U
    <3> QED
      BY <1>0, <2>3, SumFollows
  <2>5. CASE z = y
    <3>1. t \ {z} = s
      BY <2>2, <2>5
    <3> QED
      BY <2>2, <2>4, <2>5, <3>1
  <2>6. CASE z # y
    <3> DEFINE rest == s \ {z}
    <3>1. z \in s /\ rest \in SUBSET U /\ rest \subseteq s /\ rest # s /\ rest \notin F
      BY <2>1, <2>3, <2>6
    <3>2. Good(rest, y) /\ Good(rest, z)
      BY <2>1, <2>2, <3>1
    <3>3. t \ {z} = rest \cup {y} /\ s = rest \cup {z}
      BY <2>6, <3>1
    <3>4. f[y] \in Int /\ f[z] \in Int /\ SumFunctionOnSet(f, rest) \in Int
      <4>1. IsFiniteSet(rest) /\ \A u \in rest : f[u] \in Int
        BY <1>0, <3>1, FS_Subset
      <4>2. SumFunctionOnSet(f, rest) \in Int
        BY <4>1, SumTyped
      <4> QED
        BY <2>2, <2>3, <4>2
    <3>5. SumFunctionOnSet(f, t) = f[z] + (f[y] + SumFunctionOnSet(f, rest)) /\ SumFunctionOnSet(f, s) = f[z] + SumFunctionOnSet(f, rest)
      <4> HIDE DEF rest, t, z
      <4> QED
        BY <2>4, <3>2, <3>3
    <3> HIDE DEF rest, z
    <3> QED
      BY <2>2, <3>4, <3>5
  <2> QED
    BY <2>5, <2>6
<1> QED
  BY <1>1

LEMMA SumUnion ==
  ASSUME NEW f, NEW A, NEW B, IsFiniteSet(A), IsFiniteSet(B), A \cap B = {}, \A x \in A \cup B : f[x] \in Int
  PROVE SumFunctionOnSet(f, A \cup B) = SumFunctionOnSet(f, A) + SumFunctionOnSet(f, B)
<1> DEFINE F == {s \in SUBSET B : SumFunctionOnSet(f, A \cup s) # SumFunctionOnSet(f, A) + SumFunctionOnSet(f, s)}
<1>1. F = {}
  <2> SUFFICES ASSUME F # {} PROVE FALSE
    OBVIOUS
  <2>1. PICK s \in F : \A t \in F : t \subseteq s => t = s
    <3>1. F \subseteq SUBSET B
      OBVIOUS
    <3> HIDE DEF F
    <3> QED
      BY <3>1, SmallestSet
  <2>2. SumFunctionOnSet(f, A) \in Int
    BY SumTyped
  <2>3. s # {}
    <3> SUFFICES ASSUME s = {} PROVE FALSE
      OBVIOUS
    <3>1. A \cup s = A
      OBVIOUS
    <3>2. SumFunctionOnSet(f, s) = 0
      BY SumEmpty
    <3>3. SumFunctionOnSet(f, A \cup s) = SumFunctionOnSet(f, A) + SumFunctionOnSet(f, s)
      BY <2>2, <3>1, <3>2
    <3> QED
      BY <2>1, <3>3
  <2>4. PICK x : x \in s
    BY <2>3
  <2> DEFINE t == s \ {x}
  <2>5. t \in SUBSET B /\ t # s /\ x \notin A \cup t /\ s = t \cup {x} /\ A \cup s = (A \cup t) \cup {x}
    BY <2>1, <2>4
  <2>6. SumFunctionOnSet(f, A \cup t) = SumFunctionOnSet(f, A) + SumFunctionOnSet(f, t)
    BY <2>1, <2>5
  <2>7. IsFiniteSet(t) /\ IsFiniteSet(A \cup t)
    BY <2>5, FS_Subset, FS_Union
  <2>8. /\ \A y \in t \cup {x} : f[y] \in Int
        /\ \A y \in (A \cup t) \cup {x} : f[y] \in Int
        /\ f[x] \in Int
    BY <2>1, <2>4, <2>5
  <2> HIDE DEF t, F
  <2>9. SumFunctionOnSet(f, t) \in Int
    BY <2>7, <2>8, SumTyped
  <2>10. SumFunctionOnSet(f, s) = f[x] + SumFunctionOnSet(f, t) /\ SumFunctionOnSet(f, A \cup s) = f[x] + SumFunctionOnSet(f, A \cup t)
    BY <2>5, <2>7, <2>8, SumInsert
  <2>11. SumFunctionOnSet(f, A \cup s) = SumFunctionOnSet(f, A) + SumFunctionOnSet(f, s)
    BY <2>2, <2>6, <2>8, <2>9, <2>10
  <2> QED
    BY <2>1, <2>11 DEF F
<1> QED
  BY <1>1

\* The sum over a set is the sum over its image under an injection.
LEMMA SumImage ==
  ASSUME NEW S, IsFiniteSet(S), NEW h, NEW f, NEW g,
         \A x, y \in S : h[x] = h[y] => x = y,
         \A x \in S : f[h[x]] \in Int /\ g[x] = f[h[x]]
  PROVE SumFunctionOnSet(g, S) = SumFunctionOnSet(f, {h[x] : x \in S})
<1> DEFINE Im(s) == {h[x] : x \in s}
           F == {s \in SUBSET S : SumFunctionOnSet(g, s) # SumFunctionOnSet(f, Im(s))}
<1>1. F = {}
  <2> SUFFICES ASSUME F # {} PROVE FALSE
    OBVIOUS
  <2>1. PICK s \in F : \A t \in F : t \subseteq s => t = s
    <3>1. F \subseteq SUBSET S
      OBVIOUS
    <3> HIDE DEF F
    <3> QED
      BY <3>1, SmallestSet
  <2>2. s # {}
    <3>1. Im({}) = {}
      OBVIOUS
    <3> QED
      BY <2>1, <3>1, SumEmpty
  <2>3. PICK x : x \in s
    BY <2>2
  <2> DEFINE t == s \ {x}
  <2>4. t \in SUBSET S /\ t # s /\ x \notin t /\ x \in S /\ s = t \cup {x}
    BY <2>1, <2>3
  <2>5. SumFunctionOnSet(g, t) = SumFunctionOnSet(f, Im(t))
    BY <2>1, <2>4
  <2>6. Im(s) = Im(t) \cup {h[x]} /\ h[x] \notin Im(t)
    BY <2>4
  <2>7. IsFiniteSet(t) /\ IsFiniteSet(Im(t))
    <3>1. IsFiniteSet(t)
      BY <2>4, FS_Subset
    <3> DEFINE k == [y \in t |-> h[y]]
    <3>2. k \in Surjection(t, Im(t))
      BY DEF Surjection
    <3> HIDE DEF t, Im, k
    <3> QED
      BY <3>1, <3>2, FS_Surjection DEF ExistsSurjection
  <2>8. \A y \in t \cup {x} : g[y] \in Int
    BY <2>4
  <2>9. \A y \in Im(t) \cup {h[x]} : f[y] \in Int
    BY <2>4
  <2> HIDE DEF t, Im, F
  <2>10. SumFunctionOnSet(g, s) = g[x] + SumFunctionOnSet(g, t)
    BY <2>4, <2>7, <2>8, SumInsert
  <2>11. SumFunctionOnSet(f, Im(s)) = f[h[x]] + SumFunctionOnSet(f, Im(t))
    BY <2>6, <2>7, <2>9, SumInsert
  <2>12. SumFunctionOnSet(g, s) = SumFunctionOnSet(f, Im(s))
    BY <2>4, <2>5, <2>10, <2>11
  <2> QED
    BY <2>1, <2>12 DEF F
<1> QED
  BY <1>1

\* The sum over an interval is that over the interval moved to where another ends.
LEMMA SumShift ==
  ASSUME NEW m \in Nat, NEW n \in Nat, NEW f, NEW g, \A x \in 1..n : f[m + x] \in Int /\ g[x] = f[m + x]
  PROVE SumFunctionOnSet(g, 1..n) = SumFunctionOnSet(f, (m + 1)..(m + n))
<1> DEFINE S == 1..n
           h == [x \in S |-> m + x]
<1>1. IsFiniteSet(S)
  BY FS_Interval
<1>2. (\A x, y \in S : h[x] = h[y] => x = y) /\ (\A x \in S : f[h[x]] \in Int /\ g[x] = f[h[x]])
  OBVIOUS
<1>3. {h[x] : x \in S} = (m + 1)..(m + n)
  <2>1. ASSUME NEW y \in (m + 1)..(m + n) PROVE y - m \in S /\ y = h[y - m]
    OBVIOUS
  <2>2. \A x \in S : h[x] \in (m + 1)..(m + n)
    OBVIOUS
  <2> HIDE DEF h, S
  <2> QED
    BY <2>1, <2>2
<1> HIDE DEF h, S
<1>4. SumFunctionOnSet(g, S) = SumFunctionOnSet(f, {h[x] : x \in S})
  BY <1>1, <1>2, SumImage
<1> QED
  BY <1>3, <1>4 DEF S
-----------------------------------------------------------------------------
(* In a finite total order every place is taken: below[i] are those before i. *)

LEMMA EachPlaceTaken ==
  ASSUME NEW n \in Nat, NEW below \in [1..n -> SUBSET (1..n)],
         \A i \in 1..n : i \notin below[i],
         \A i \in 1..n : \A j \in below[i] : below[j] \subseteq below[i],
         \A i, j \in 1..n : i = j \/ i \in below[j] \/ j \in below[i],
         NEW k \in 1..n
  PROVE  \E i \in 1..n : Cardinality(below[i]) = k - 1
<1> DEFINE S == 1..n
           place == [i \in S |-> Cardinality(below[i]) + 1]
<1>1. IsFiniteSet(S) /\ Cardinality(S) = n
  BY FS_Interval
<1>2. ASSUME NEW i \in S PROVE IsFiniteSet(below[i]) /\ Cardinality(below[i]) \in Nat /\ Cardinality(below[i]) < n
  <2>1. below[i] \in SUBSET S /\ below[i] # S
    OBVIOUS
  <2> HIDE DEF S
  <2> QED
    BY <1>1, <2>1, FS_Subset, FS_CardinalityType
<1>3. place \in [S -> S]
  BY <1>2
<1>4. ASSUME NEW i \in S, NEW j \in S, i \in below[j] PROVE place[i] # place[j]
  <2>1. below[i] \in SUBSET below[j] /\ below[i] # below[j]
    BY <1>4
  <2>2. Cardinality(below[i]) # Cardinality(below[j])
    BY <1>2, <2>1, FS_Subset
  <2> QED
    BY <1>2, <2>2
<1>5. place \in Injection(S, S)
  <2>1. \A i, j \in S : place[i] = place[j] => i = j
    BY <1>4
  <2> HIDE DEF place, S
  <2> QED
    BY <1>3, <2>1 DEF Injection, IsInjective
<1>6. place \in Surjection(S, S)
  <2> HIDE DEF place, S
  <2> QED
    BY <1>1, <1>5, FS_Injection
<1>7. PICK i \in S : place[i] = k
  <2> HIDE DEF place
  <2> QED
    BY <1>6 DEF Surjection
<1> QED
  BY <1>2, <1>7
-----------------------------------------------------------------------------
(* Any fold of the library is a function on the subsets of what is folded: *)
(* from a base, one step for the member picked from each of them.          *)

StepsTo(iter, U, pick, base, step, s) == iter[s] = IF s = {} THEN base ELSE step[iter[s \ {pick[s]}]][pick[s]]

\* Steps that stay within a set T define such a function, by as many steps as the
\* subset has members.
LEMMA FoldExists ==
  ASSUME NEW U, IsFiniteSet(U), NEW T, NEW base \in T,
         NEW pick, \A s \in SUBSET U : s # {} => pick[s] \in s,
         NEW step, \A t \in T, x \in U : step[t][x] \in T
  PROVE \E iter \in [SUBSET U -> T] : \A s \in SUBSET U : StepsTo(iter, U, pick, base, step, s)
<1> DEFINE Good(iter, k) == \A s \in SUBSET U : Cardinality(s) <= k => StepsTo(iter, U, pick, base, step, s)
           F == {k \in Nat : \A iter \in [SUBSET U -> T] : ~ Good(iter, k)}
<1>1. \A s \in SUBSET U : IsFiniteSet(s) /\ Cardinality(s) \in Nat /\ Cardinality(s) <= Cardinality(U)
  BY FS_Subset, FS_CardinalityType
<1>2. F = {}
  <2> SUFFICES ASSUME F # {} PROVE FALSE
    OBVIOUS
  <2>1. PICK k \in F : \A m \in F : ~ (<<m, k>> \in OpToRel(<, Nat))
    <3>1. F \subseteq Nat
      OBVIOUS
    <3> HIDE DEF F
    <3> QED
      BY <3>1, NatLessThanWellFounded, WFMin
  <2>2. k \in Nat /\ \A iter \in [SUBSET U -> T] : ~ Good(iter, k)
    OBVIOUS
  <2>3. CASE k = 0
    <3> DEFINE iter == [s \in SUBSET U |-> base]
    <3>1. ASSUME NEW s \in SUBSET U, Cardinality(s) <= 0 PROVE StepsTo(iter, U, pick, base, step, s)
      <4>1. s = {}
        BY <1>1, <3>1, FS_EmptySet
      <4> QED
        BY <4>1 DEF StepsTo
    <3>2. iter \in [SUBSET U -> T] /\ Good(iter, k)
      BY <2>3, <3>1
    <3> QED
      BY <2>2, <3>2
  <2>4. CASE k # 0
    <3>1. k - 1 \in Nat /\ k - 1 \notin F
      <4>1. k - 1 \in Nat /\ k - 1 < k
        BY <2>2, <2>4
      <4>2. <<k - 1, k>> \in OpToRel(<, Nat)
        BY <4>1 DEF OpToRel
      <4> QED
        BY <2>1, <4>1, <4>2
    <3>2. PICK g \in [SUBSET U -> T] : Good(g, k - 1)
      BY <3>1
    <3> DEFINE iter == [s \in SUBSET U |-> IF s = {} THEN base ELSE step[g[s \ {pick[s]}]][pick[s]]]
    <3>3. iter \in [SUBSET U -> T]
      OBVIOUS
    <3>4. ASSUME NEW s \in SUBSET U, Cardinality(s) <= k - 1 PROVE iter[s] = g[s]
      BY <3>2, <3>4, ZenonT(60) DEF StepsTo
    <3>5. ASSUME NEW s \in SUBSET U, Cardinality(s) <= k PROVE StepsTo(iter, U, pick, base, step, s)
      <4>1. CASE s = {}
        BY <4>1, SMTT(60) DEF StepsTo
      <4>2. CASE s # {}
        <5>1. pick[s] \in s /\ s \ {pick[s]} \in SUBSET U /\ Cardinality(s \ {pick[s]}) = Cardinality(s) - 1
          BY <1>1, <4>2, FS_RemoveElement
        <5>2. iter[s \ {pick[s]}] = g[s \ {pick[s]}]
          <6>1. Cardinality(s) \in Nat /\ Cardinality(s \ {pick[s]}) <= k - 1
            BY <1>1, <2>2, <3>5, <5>1
          <6> QED
            BY <3>4, <5>1, <6>1
        <5> QED
          BY <4>2, <5>2 DEF StepsTo
      <4> QED
        BY <4>1, <4>2
    <3>6. Good(iter, k)
      BY <3>5
    <3> QED
      BY <2>2, <3>3, <3>6
  <2> QED
    BY <2>3, <2>4
<1>3. Cardinality(U) \in Nat /\ Cardinality(U) \notin F
  BY <1>2, FS_CardinalityType
<1>4. PICK iter \in [SUBSET U -> T] : Good(iter, Cardinality(U))
  BY <1>3
<1> QED
  BY <1>1, <1>4

\* What holds of the base and is kept by every step holds of the fold, also when it
\* speaks of the part that has been folded.
LEMMA FoldStaysIn ==
  ASSUME NEW U, IsFiniteSet(U), NEW T, NEW pick, \A s \in SUBSET U : s # {} => pick[s] \in s,
         NEW iter, iter[{}] \in T[{}],
         \A s \in SUBSET U : s # {} /\ iter[s \ {pick[s]}] \in T[s \ {pick[s]}] => iter[s] \in T[s]
  PROVE iter[U] \in T[U]
<1> DEFINE F == {s \in SUBSET U : iter[s] \notin T[s]}
<1>1. F = {}
  <2> SUFFICES ASSUME F # {} PROVE FALSE
    OBVIOUS
  <2>1. PICK s \in F : \A t \in F : t \subseteq s => t = s
    <3>1. F \subseteq SUBSET U
      OBVIOUS
    <3> HIDE DEF F
    <3> QED
      BY <3>1, SmallestSet
  <2>2. s # {} /\ pick[s] \in s /\ s \ {pick[s]} \in SUBSET U
    BY <2>1
  <2>3. s \ {pick[s]} \notin F
    BY <2>1, <2>2
  <2> QED
    BY <2>1, <2>2, <2>3
<1> QED
  BY <1>1

LEMMA FoldStays ==
  ASSUME NEW U, IsFiniteSet(U), NEW T, NEW pick, \A s \in SUBSET U : s # {} => pick[s] \in s,
         NEW iter, iter[{}] \in T,
         \A s \in SUBSET U : s # {} /\ iter[s \ {pick[s]}] \in T => iter[s] \in T
  PROVE iter[U] \in T
<1> DEFINE V == [s \in SUBSET U |-> T]
<1>1. iter[{}] \in V[{}] /\ \A s \in SUBSET U : s # {} /\ iter[s \ {pick[s]}] \in V[s \ {pick[s]}] => iter[s] \in V[s]
  OBVIOUS
<1>2. iter[U] \in V[U]
  <2> HIDE DEF V
  <2> QED
    BY <1>1, FoldStaysIn
<1> QED
  BY <1>2

\* The value of g at i is F's, of i and of the values of g before.
Recurses(g, F, n) == \A i \in 1..n : g[i] = F[<<i, [j \in 1..(i - 1) |-> g[j]]>>]
StaysIn(F, V, n) == \A i \in 1..n : \A h \in [1..(i - 1) -> V] : F[<<i, h>>] \in V

\* A function that is defined by recursion on the numbers below exists.
LEMMA RecursionExists ==
  ASSUME NEW n \in Nat, NEW V, NEW F, StaysIn(F, V, n)
  PROVE  \E g \in [1..n -> V] : Recurses(g, F, n)
<1> USE DEF Recurses, StaysIn
<1> DEFINE Bad == {m \in 0..n : ~ \E g \in [1..m -> V] : Recurses(g, F, m)}
<1>1. Bad = {}
  <2> SUFFICES ASSUME Bad # {} PROVE FALSE
    OBVIOUS
  <2>1. PICK m \in Bad : \A l \in Bad : m <= l
    <3>1. Bad \in SUBSET Nat
      OBVIOUS
    <3> HIDE DEF Bad
    <3> QED
      BY <3>1, SmallestTerm
  <2>2. m \in 0..n /\ ~ \E g \in [1..m -> V] : Recurses(g, F, m)
    BY <2>1
  <2>3. m # 0
    <3> SUFFICES ASSUME m = 0 PROVE FALSE
      OBVIOUS
    <3> DEFINE g == [j \in 1..m |-> j]
    <3>1. \A j : j \notin 1..m
      OBVIOUS
    <3>2. g \in [1..m -> V] /\ Recurses(g, F, m)
      BY <3>1
    <3> QED
      BY <2>2, <3>2
  <2>4. m \in 1..n /\ m - 1 \in 0..n /\ ~ (m <= m - 1)
    BY <2>2, <2>3
  <2>5. m - 1 \notin Bad
    BY <2>1, <2>4
  <2>6. \E g \in [1..(m - 1) -> V] : Recurses(g, F, m - 1)
    BY <2>4, <2>5
  <2>7. PICK g \in [1..(m - 1) -> V] : Recurses(g, F, m - 1)
    BY <2>6
  <2> DEFINE h == [j \in 1..m |-> IF j = m THEN F[<<m, g>>] ELSE g[j]]
  <2>8. F[<<m, g>>] \in V
    BY <2>4, <2>7
  <2>9. \A j \in 1..m : j = m \/ j \in 1..(m - 1)
    BY <2>4
  <2>10. h \in [1..m -> V]
    BY <2>7, <2>8, <2>9
  <2>11. \A j \in 1..(m - 1) : j \in 1..m /\ j # m
    BY <2>4
  <2>12. \A j \in 1..(m - 1) : h[j] = g[j]
    BY <2>11
  <2>13. h[m] = F[<<m, g>>]
    BY <2>4
  <2> HIDE DEF h
  <2>14. ASSUME NEW i \in 1..m PROVE h[i] = F[<<i, [j \in 1..(i - 1) |-> h[j]]>>]
    <3>1. CASE i = m
      <4>1. [j \in 1..(m - 1) |-> h[j]] = g
        BY <2>7, <2>12
      <4> QED
        BY <2>13, <3>1, <4>1
    <3>2. CASE i \in 1..(m - 1)
      <4>1. \A j \in 1..(i - 1) : j \in 1..(m - 1)
        BY <2>4, <3>2
      <4>2. [j \in 1..(i - 1) |-> h[j]] = [j \in 1..(i - 1) |-> g[j]]
        BY <2>12, <4>1
      <4>3. h[i] = g[i] /\ g[i] = F[<<i, [j \in 1..(i - 1) |-> g[j]]>>]
        BY <2>7, <2>12, <3>2
      <4> QED
        BY <4>2, <4>3
    <3> QED
      BY <2>9, <3>1, <3>2
  <2> QED
    BY <2>2, <2>10, <2>14
<1>2. n \in 0..n
  OBVIOUS
<1> QED
  BY <1>1, <1>2
=============================================================================

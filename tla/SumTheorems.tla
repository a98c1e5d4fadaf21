---------------------------- MODULE SumTheorems -----------------------------
(***************************************************************************)
(* Facts about SumOver for every finite set.  The library states induction *)
(* over finite sets with a predicate as a parameter; here it is a set F of *)
(* sets instead, and comes from the theorem that a well-founded relation   *)
(* has minimal elements.                                                   *)
(***************************************************************************)
EXTENDS Sums, Integers, FiniteSetTheorems, TLAPS

-----------------------------------------------------------------------------
(* Induction over the subsets of a finite set *)

\* A non-empty set of subsets of a finite set has a smallest one.
LEMMA SmallestSubset ==
    ASSUME NEW S, IsFiniteSet(S), NEW B, B \subseteq SUBSET S, B # {}
    PROVE  \E x \in B : \A y \in B : y \subseteq x => y = x
<1> DEFINE R == StrictSubsetOrdering(S)
           D == FiniteSubsetsOf(S)
<1>1. IsWellFoundedOn(R, D)
    BY FS_StrictSubsetOrderingWellFounded
<1>2. B \subseteq D
    BY FS_Subset DEF FiniteSubsetsOf
<1>3. \E x \in B : \A y \in B : ~ (<<y, x>> \in R)
    <2> HIDE DEF R, D
    <2> QED
        BY ONLY <1>1, <1>2, B # {}, WFMin
<1> QED
    BY <1>3 DEF StrictSubsetOrdering

\* A set F that has every subset whose own proper subsets it has, has them all.
LEMMA SubsetInduction ==
    ASSUME NEW S, IsFiniteSet(S), NEW F,
           \A s \in SUBSET S : (\A t \in SUBSET s : t # s => t \in F) => s \in F
    PROVE  \A s \in SUBSET S : s \in F
<1> DEFINE B == {s \in SUBSET S : s \notin F}
<1>1. ASSUME B # {} PROVE FALSE
    <2>1. PICK x \in B : \A y \in B : y \subseteq x => y = x
        <3> HIDE DEF B
        <3>1. B \subseteq SUBSET S
            BY DEF B
        <3> QED
            BY <1>1, <3>1, SmallestSubset
    <2>2. \A t \in SUBSET x : t # x => t \in F
        BY <2>1
    <2> QED
        BY <2>1, <2>2
<1> QED
    BY <1>1

-----------------------------------------------------------------------------
(* SumOver is what its definition says *)

\* The element that the definition takes out of s first
Pick(s) == CHOOSE x \in s : TRUE

\* g has the sums of f over the subsets of S.
Adds(S, f, g) ==
    g = [s \in SUBSET S |-> IF s = {} THEN 0 ELSE f[Pick(s)] + g[s \ {Pick(s)}]]

LEMMA PickIsElement == ASSUME NEW s, s # {} PROVE Pick(s) \in s
BY DEF Pick

LEMMA SumIsChosen == ASSUME NEW S, NEW f PROVE SumOver(S, f) = (CHOOSE g : Adds(S, f, g))[S]
BY DEF SumOver, MapThenSumSet, MapThenFoldSet, Adds, Pick

LEMMA ChosenAdds ==
    ASSUME NEW S, NEW f, NEW g, Adds(S, f, g)
    PROVE  Adds(S, f, CHOOSE h : Adds(S, f, h))
<1> HIDE DEF Adds
<1> QED
    OBVIOUS

\* There is one such g at most, ...
LEMMA AddsOnce ==
    ASSUME NEW S, IsFiniteSet(S), NEW f, NEW g, NEW h, Adds(S, f, g), Adds(S, f, h)
    PROVE  g = h
<1> DEFINE F == {s \in SUBSET S : g[s] = h[s]}
<1>1. ASSUME NEW s \in SUBSET S, \A t \in SUBSET s : t # s => t \in F
      PROVE  s \in F
    <2>1. CASE s = {}
        BY <2>1 DEF Adds
    <2>2. CASE s # {}
        <3>1. Pick(s) \in s
            BY <2>2, PickIsElement
        <3>2. g[s \ {Pick(s)}] = h[s \ {Pick(s)}]
            BY <1>1, <3>1
        <3> QED
            BY <2>2, <3>2 DEF Adds
    <2> QED
        BY <2>1, <2>2
<1>2. \A s \in SUBSET S : s \in F
    <2> HIDE DEF F
    <2> QED
        BY <1>1, SubsetInduction
<1>3. \A s \in SUBSET S : g[s] = h[s]
    BY <1>2
<1> QED
    BY <1>3 DEF Adds

\* ... it gives the sum over every subset, ...
LEMMA AddsSums ==
    ASSUME NEW S, IsFiniteSet(S), NEW f, NEW g, Adds(S, f, g), NEW s \in SUBSET S
    PROVE  SumOver(s, f) = g[s]
<1> DEFINE r == [t \in SUBSET s |-> g[t]]
<1>1. Adds(s, f, r)
    <2>1. ASSUME NEW t \in SUBSET s
          PROVE  r[t] = IF t = {} THEN 0 ELSE f[Pick(t)] + r[t \ {Pick(t)}]
        BY DEF Adds
    <2> QED
        BY <2>1 DEF Adds
<1> HIDE DEF r
<1>2. IsFiniteSet(s)
    BY FS_Subset
<1>3. (CHOOSE h : Adds(s, f, h)) = r
    BY <1>1, <1>2, ChosenAdds, AddsOnce
<1> QED
    BY <1>3, SumIsChosen DEF r

\* ... and there is one.
LEMMA SumsAdd ==
    ASSUME NEW S, IsFiniteSet(S), NEW f
    PROVE  Adds(S, f, [s \in SUBSET S |-> SumOver(s, f)])
<1> DEFINE Sums(T) == [s \in SUBSET T |-> SumOver(s, f)]
           F == {s \in SUBSET S : Adds(s, f, Sums(s))}
<1>1. ASSUME NEW s \in SUBSET S, \A t \in SUBSET s : t # s => t \in F
      PROVE  s \in F
    <2> DEFINE h == [t \in SUBSET s |->
                       IF t = {} THEN 0 ELSE f[Pick(t)] + SumOver(t \ {Pick(t)}, f)]
    <2>1. ASSUME NEW t \in SUBSET s, t # s PROVE h[t] = SumOver(t, f)
        <3>1. Adds(t, f, Sums(t))
            BY <1>1, <2>1
        <3>2. Sums(t)[t] = IF t = {} THEN 0 ELSE f[Pick(t)] + Sums(t)[t \ {Pick(t)}]
            BY <3>1 DEF Adds
        <3> QED
            BY <3>2
    <2>2. Adds(s, f, h)
        <3>1. ASSUME NEW t \in SUBSET s, t # {}
              PROVE  h[t] = f[Pick(t)] + h[t \ {Pick(t)}]
            <4>1. Pick(t) \in t
                BY <3>1, PickIsElement
            <4>2. h[t \ {Pick(t)}] = SumOver(t \ {Pick(t)}, f)
                BY <2>1, <4>1
            <4> QED
                BY <3>1, <4>2
        <3>2. h = [t \in SUBSET s |-> IF t = {} THEN 0 ELSE f[Pick(t)] + h[t \ {Pick(t)}]]
            BY <3>1
        <3> QED
            BY <3>2 DEF Adds
    <2> HIDE DEF h
    <2>3. IsFiniteSet(s)
        BY FS_Subset
    <2>4. \A t \in SUBSET s : SumOver(t, f) = h[t]
        BY <2>2, <2>3, AddsSums
    <2>5. h = Sums(s)
        BY <2>4 DEF h
    <2> QED
        BY <2>2, <2>5
<1>2. \A s \in SUBSET S : s \in F
    <2> HIDE DEF F
    <2> QED
        BY <1>1, SubsetInduction
<1> QED
    BY <1>2

\* The equation of the sum
LEMMA SumEquation ==
    ASSUME NEW S, IsFiniteSet(S), NEW f
    PROVE  SumOver(S, f) = IF S = {} THEN 0 ELSE f[Pick(S)] + SumOver(S \ {Pick(S)}, f)
<1> DEFINE g == [s \in SUBSET S |-> SumOver(s, f)]
<1>1. Adds(S, f, g)
    BY SumsAdd
<1>2. g[S] = IF S = {} THEN 0 ELSE f[Pick(S)] + g[S \ {Pick(S)}]
    <2> HIDE DEF g
    <2> QED
        BY <1>1 DEF Adds
<1> QED
    BY <1>2

-----------------------------------------------------------------------------
(* The laws of sums *)

LEMMA SumEmpty == ASSUME NEW f PROVE SumOver({}, f) = 0
BY SumEquation, FS_EmptySet

\* The sum of integers is an integer.
THEOREM SumType ==
    ASSUME NEW S, IsFiniteSet(S), NEW f, \A x \in S : f[x] \in Int
    PROVE  SumOver(S, f) \in Int
<1> DEFINE F == {s \in SUBSET S : SumOver(s, f) \in Int}
<1>1. ASSUME NEW s \in SUBSET S, \A t \in SUBSET s : t # s => t \in F
      PROVE  s \in F
    <2>1. IsFiniteSet(s)
        BY FS_Subset
    <2>2. CASE s = {}
        BY <2>2, SumEmpty
    <2>3. CASE s # {}
        <3>1. Pick(s) \in s
            BY <2>3, PickIsElement
        <3>2. SumOver(s \ {Pick(s)}, f) \in Int
            BY <1>1, <3>1
        <3>3. SumOver(s, f) = f[Pick(s)] + SumOver(s \ {Pick(s)}, f)
            BY <2>1, <2>3, SumEquation
        <3> QED
            BY <3>1, <3>2, <3>3
    <2> QED
        BY <2>2, <2>3
<1>2. \A s \in SUBSET S : s \in F
    <2> HIDE DEF F
    <2> QED
        BY <1>1, SubsetInduction
<1> QED
    BY <1>2

\* The order in which a sum is taken does not matter: any element may come first.
THEOREM SumRemove ==
    ASSUME NEW S, IsFiniteSet(S), NEW f, \A x \in S : f[x] \in Int, NEW x \in S
    PROVE  SumOver(S, f) = f[x] + SumOver(S \ {x}, f)
<1> DEFINE F == {s \in SUBSET S : \A y \in s : SumOver(s, f) = f[y] + SumOver(s \ {y}, f)}
<1>1. ASSUME NEW s \in SUBSET S, \A t \in SUBSET s : t # s => t \in F, NEW y \in s
      PROVE  SumOver(s, f) = f[y] + SumOver(s \ {y}, f)
    <2> DEFINE p == Pick(s)
    <2>1. p \in s
        BY PickIsElement
    <2> HIDE DEF p
    <2>2. IsFiniteSet(s) /\ IsFiniteSet(s \ {p}) /\ IsFiniteSet(s \ {y})
          /\ IsFiniteSet((s \ {p}) \ {y})
        BY FS_Subset
    <2>3. SumOver(s, f) = f[p] + SumOver(s \ {p}, f)
        BY <2>2, SumEquation DEF p
    <2>4. CASE y = p
        BY <2>3, <2>4
    <2>5. CASE y # p
        <3>1. SumOver(s \ {p}, f) = f[y] + SumOver((s \ {p}) \ {y}, f)
            <4>1. s \ {p} \in F
                BY <1>1, <2>1
            <4> QED
                BY <4>1, <2>5
        <3>2. SumOver(s \ {y}, f) = f[p] + SumOver((s \ {y}) \ {p}, f)
            <4>1. s \ {y} \in F
                BY <1>1
            <4> QED
                BY <4>1, <2>1, <2>5
        <3>3. (s \ {p}) \ {y} = (s \ {y}) \ {p}
            OBVIOUS
        <3>4. SumOver((s \ {p}) \ {y}, f) \in Int
            <4>1. \A z \in (s \ {p}) \ {y} : f[z] \in Int
                OBVIOUS
            <4> QED
                BY <4>1, <2>2, SumType
        <3>5. f[y] \in Int /\ f[p] \in Int
            BY <2>1
        <3>6. SumOver(s \ {y}, f) = f[p] + SumOver((s \ {p}) \ {y}, f)
            BY <3>2, <3>3, Zenon
        <3> HIDE DEF F
        <3> QED
            BY ONLY <2>3, <3>1, <3>4, <3>5, <3>6
    <2> QED
        BY <2>4, <2>5
<1>2. \A s \in SUBSET S : s \in F
    <2>1. ASSUME NEW s \in SUBSET S, \A t \in SUBSET s : t # s => t \in F
          PROVE  s \in F
        BY <2>1, <1>1
    <2> HIDE DEF F
    <2> QED
        BY <2>1, SubsetInduction
<1> QED
    BY <1>2

LEMMA SumAdd ==
    ASSUME NEW S, IsFiniteSet(S), NEW x, x \notin S, NEW f,
           \A y \in S \cup {x} : f[y] \in Int
    PROVE  SumOver(S \cup {x}, f) = f[x] + SumOver(S, f)
<1>1. IsFiniteSet(S \cup {x}) /\ (S \cup {x}) \ {x} = S
    BY FS_AddElement
<1> QED
    BY <1>1, SumRemove

\* A sum over S depends on the values on S alone.
LEMMA SumSame ==
    ASSUME NEW S, IsFiniteSet(S), NEW f, NEW g, \A x \in S : f[x] = g[x]
    PROVE  SumOver(S, f) = SumOver(S, g)
<1> DEFINE F == {s \in SUBSET S : SumOver(s, f) = SumOver(s, g)}
<1>1. ASSUME NEW s \in SUBSET S, \A t \in SUBSET s : t # s => t \in F
      PROVE  s \in F
    <2>1. IsFiniteSet(s)
        BY FS_Subset
    <2>2. CASE s = {}
        BY <2>2, SumEmpty
    <2>3. CASE s # {}
        <3>1. Pick(s) \in s
            BY <2>3, PickIsElement
        <3>2. SumOver(s \ {Pick(s)}, f) = SumOver(s \ {Pick(s)}, g)
            BY <1>1, <3>1
        <3>3. SumOver(s, f) = f[Pick(s)] + SumOver(s \ {Pick(s)}, f)
              /\ SumOver(s, g) = g[Pick(s)] + SumOver(s \ {Pick(s)}, g)
            BY <2>1, <2>3, SumEquation
        <3> QED
            BY <3>1, <3>2, <3>3
    <2> QED
        BY <2>2, <2>3
<1>2. \A s \in SUBSET S : s \in F
    <2> HIDE DEF F
    <2> QED
        BY <1>1, SubsetInduction
<1> QED
    BY <1>2

\* Changing the value of one element changes the sum by as much.
LEMMA SumChange ==
    ASSUME NEW S, IsFiniteSet(S), NEW x \in S, NEW f, NEW g,
           \A y \in S : f[y] \in Int /\ g[y] \in Int,
           \A y \in S : y # x => g[y] = f[y]
    PROVE  SumOver(S, g) = SumOver(S, f) - f[x] + g[x]
<1> DEFINE T == S \ {x}
<1>1. IsFiniteSet(T)
    BY FS_Subset
<1>2. SumOver(T, g) = SumOver(T, f)
    BY <1>1, SumSame
<1>3. SumOver(T, f) \in Int
    BY <1>1, SumType
<1>4. SumOver(S, f) = f[x] + SumOver(T, f) /\ SumOver(S, g) = g[x] + SumOver(T, g)
    BY SumRemove
<1>5. f[x] \in Int /\ g[x] \in Int
    OBVIOUS
<1> HIDE DEF T
<1> QED
    BY <1>2, <1>3, <1>4, <1>5

\* From f to g the value of x is divided between x and new elements W, one at most.
Divides(S, f, g, x, w, W) ==
    /\ IsFiniteSet(S) /\ x \in S /\ w \notin S /\ W \in {{}, {w}}
    /\ \A y \in S : f[y] \in Int
    /\ \A y \in S \cup W : g[y] \in Int
    /\ \A y \in S : y # x => g[y] = f[y]

LEMMA SumDivided ==
    ASSUME NEW S, NEW f, NEW g, NEW x, NEW w, NEW W, Divides(S, f, g, x, w, W)
    PROVE  SumOver(S \cup W, g)
             = SumOver(S, f) - f[x] + g[x] + (IF W = {} THEN 0 ELSE g[w])
<1>0. /\ IsFiniteSet(S) /\ x \in S /\ w \notin S /\ W \in {{}, {w}}
      /\ \A y \in S : f[y] \in Int
      /\ \A y \in S \cup W : g[y] \in Int
      /\ \A y \in S : y # x => g[y] = f[y]
    BY DEF Divides
<1>1. SumOver(S, g) = SumOver(S, f) - f[x] + g[x]
    BY <1>0, SumChange
<1>2. SumOver(S, f) \in Int /\ SumOver(S, g) \in Int /\ f[x] \in Int /\ g[x] \in Int
    BY <1>0, SumType
<1>3. CASE W = {}
    <2>1. S \cup W = S
        BY <1>3
    <2> QED
        BY <1>1, <1>2, <1>3, <2>1
<1>4. CASE W = {w}
    <2>1. SumOver(S \cup {w}, g) = g[w] + SumOver(S, g) /\ g[w] \in Int
        BY <1>0, <1>4, SumAdd
    <2> QED
        BY <1>1, <1>2, <1>4, <2>1
<1> QED
    BY <1>0, <1>3, <1>4

\* A sum of greater values is greater.
LEMMA SumMonotone ==
    ASSUME NEW S, IsFiniteSet(S), NEW f, NEW g,
           \A x \in S : f[x] \in Int /\ g[x] \in Int /\ f[x] <= g[x]
    PROVE  SumOver(S, f) <= SumOver(S, g)
<1> DEFINE F == {s \in SUBSET S : SumOver(s, f) <= SumOver(s, g)}
<1>1. ASSUME NEW s \in SUBSET S, \A t \in SUBSET s : t # s => t \in F
      PROVE  s \in F
    <2>1. IsFiniteSet(s) /\ IsFiniteSet(s \ {Pick(s)})
        BY FS_Subset
    <2>2. CASE s = {}
        BY <2>2, SumEmpty
    <2>3. CASE s # {}
        <3>1. Pick(s) \in s
            BY <2>3, PickIsElement
        <3>2. SumOver(s \ {Pick(s)}, f) <= SumOver(s \ {Pick(s)}, g)
            BY <1>1, <3>1
        <3>3. SumOver(s, f) = f[Pick(s)] + SumOver(s \ {Pick(s)}, f)
              /\ SumOver(s, g) = g[Pick(s)] + SumOver(s \ {Pick(s)}, g)
            BY <2>1, <2>3, SumEquation
        <3>4. SumOver(s \ {Pick(s)}, f) \in Int /\ SumOver(s \ {Pick(s)}, g) \in Int
            BY <2>1, SumType
        <3>5. f[Pick(s)] \in Int /\ g[Pick(s)] \in Int /\ f[Pick(s)] <= g[Pick(s)]
            BY <3>1
        <3> QED
            BY <3>2, <3>3, <3>4, <3>5
    <2> QED
        BY <2>2, <2>3
<1>2. \A s \in SUBSET S : s \in F
    <2> HIDE DEF F
    <2> QED
        BY <1>1, SubsetInduction
<1> QED
    BY <1>2
=============================================================================

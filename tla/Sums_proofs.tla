----------------------------- MODULE Sums_proofs -----------------------------
(***************************************************************************)
(* The laws of SumOf over finite sets, used by the proofs about books and  *)
(* money.                                                                  *)
(*                                                                         *)
(* A fold is defined by recursion over the subsets of its argument, so     *)
(* these are inductions.  Each is done with a smallest counterexample: the *)
(* set of subsets that violate the claim has a minimal element because the *)
(* strict subset ordering of a finite set is well founded.  The recursion  *)
(* itself needs the same argument twice, for a function that satisfies it  *)
(* to exist (SumExists) and for all of them to agree (SumUnique).          *)
(***************************************************************************)
EXTENDS Sums, FiniteSetTheorems, TLAPS

\* The element the fold takes next, and its recursion for the function g.
Pick(S) == CHOOSE x \in S : TRUE

IsSum(f, S, g) ==
  g = [s \in SUBSET S |->
         IF s = {} THEN 0 ELSE f[Pick(s)] + g[s \ {Pick(s)}]]

\* The fold is the function its recursion chooses, at the whole set.
LEMMA SumIsChosen ==
  ASSUME NEW f, NEW S
  PROVE  SumOf(f, S) = (CHOOSE g : IsSum(f, S, g))[S]
BY DEF SumOf, FoldFunctionOnSet, MapThenFoldSet, IsSum, Pick

\* What the fold takes next is a member.
LEMMA PickIsMember == ASSUME NEW S, S # {} PROVE Pick(S) \in S
BY DEF Pick

\* Induction over the subsets of a finite set, without a predicate as a
\* parameter: B is the set of counterexamples, and it has a smallest one.
LEMMA SmallestSubset ==
  ASSUME NEW S, IsFiniteSet(S), NEW B \in SUBSET (SUBSET S), B # {}
  PROVE  \E T \in B : \A U \in B : U \subseteq T => U = T
<1>1. IsWellFoundedOn(StrictSubsetOrdering(S), SUBSET S)
  BY FS_StrictSubsetOrderingWellFounded, FS_FiniteSubsetsOfFinite, Zenon
<1>2. \E T \in B : \A U \in B : <<U, T>> \notin StrictSubsetOrdering(S)
  BY <1>1, WFMin, Zenon
<1> QED
  BY <1>2 DEF StrictSubsetOrdering

\* The recursion determines its values: two functions that satisfy it agree
\* wherever both are defined.
LEMMA SumUnique ==
  ASSUME NEW f, NEW S, NEW T, NEW g, NEW h, IsFiniteSet(S),
         IsSum(f, S, g), IsSum(f, T, h)
  PROVE  \A s \in SUBSET S : s \in SUBSET T => g[s] = h[s]
<1> DEFINE B == {s \in SUBSET S : s \in SUBSET T /\ g[s] # h[s]}
<1>1. ASSUME NEW s \in B, \A u \in B : u \subseteq s => u = s
      PROVE  FALSE
  <2>1. s # {}
    BY DEF IsSum
  <2> DEFINE u == s \ {Pick(s)}
  <2>2. u \in SUBSET S /\ u \in SUBSET T /\ u \subseteq s /\ u # s
    BY <2>1, PickIsMember
  <2>3. g[u] = h[u]
    BY <1>1, <2>2
  <2>4. g[s] = f[Pick(s)] + g[u]
    BY <2>1 DEF IsSum
  <2>5. h[s] = f[Pick(s)] + h[u]
    BY <2>1 DEF IsSum
  <2> QED
    BY <2>3, <2>4, <2>5
<1>2. B \in SUBSET (SUBSET S)
  OBVIOUS
<1>3. B = {}
  <2> HIDE DEF B
  <2> QED
    BY <1>1, <1>2, SmallestSubset
<1> QED
  BY <1>3

\* A finite set has a function that satisfies the recursion.
LEMMA SumExists ==
  ASSUME NEW f, NEW S, IsFiniteSet(S)
  PROVE  \E g : IsSum(f, S, g)
<1> DEFINE B == {T \in SUBSET S : \A g : ~IsSum(f, T, g)}
<1>1. ASSUME NEW T \in B, \A U \in B : U \subseteq T => U = T
      PROVE  FALSE
  <2> DEFINE H(U) == CHOOSE h : IsSum(f, U, h)
             V(s) == IF s = {} THEN 0
                     ELSE f[Pick(s)] + H(s \ {Pick(s)})[s \ {Pick(s)}]
             g == [s \in SUBSET T |-> V(s)]
  <2>1. ASSUME NEW U \in SUBSET T, U # T
        PROVE  IsFiniteSet(U) /\ IsSum(f, U, H(U))
    <3>1. \E h : IsSum(f, U, h)
      BY <1>1, <2>1
    <3> QED
      BY <3>1, FS_Subset
  <2>2. ASSUME NEW s \in SUBSET T, s # {}
        PROVE  g[s \ {Pick(s)}] = H(s \ {Pick(s)})[s \ {Pick(s)}]
    <3> DEFINE u == s \ {Pick(s)}
    <3>1. u \in SUBSET T /\ u # T
      BY <2>2, PickIsMember
    <3>2. IsSum(f, u, H(u)) /\ IsFiniteSet(u)
      BY <2>1, <3>1
    <3>3. CASE u = {}
      <4>1. H(u)[u] = 0
        BY <3>2, <3>3 DEF IsSum
      <4>2. g[u] = 0
        BY <3>3, <3>1
      <4> QED
        BY <4>1, <4>2
    <3>4. CASE u # {}
      <4> DEFINE w == u \ {Pick(u)}
      <4>1. w \in SUBSET u /\ w \in SUBSET T /\ w # T
        BY <3>1, <3>4, PickIsMember
      <4>2. IsSum(f, w, H(w)) /\ IsFiniteSet(w)
        BY <2>1, <4>1
      <4> HIDE DEF H
      <4>3. H(w)[w] = H(u)[w]
        BY <3>2, <4>1, <4>2, SumUnique
      <4>4. H(u)[u] = f[Pick(u)] + H(u)[w]
        BY <3>2, <3>4 DEF IsSum
      <4>5. g[u] = f[Pick(u)] + H(w)[w]
        BY <3>1, <3>4
      <4> QED
        BY <4>3, <4>4, <4>5
    <3> QED
      BY <3>3, <3>4
  <2> HIDE DEF H
  <2>3. IsSum(f, T, g)
    <3>1. \A s \in SUBSET T :
            g[s] = IF s = {} THEN 0 ELSE f[Pick(s)] + g[s \ {Pick(s)}]
      BY <2>2
    <3> HIDE DEF V
    <3>2. g = [s \in SUBSET T |-> g[s]]
      OBVIOUS
    <3> HIDE DEF g
    <3> QED
      BY <3>1, <3>2 DEF IsSum
  <2> QED
    BY <1>1, <2>3
<1>2. B \in SUBSET (SUBSET S)
  OBVIOUS
<1>3. B = {}
  <2> HIDE DEF B
  <2> QED
    BY <1>1, <1>2, SmallestSubset
<1> QED
  BY <1>3

\* Nothing sums to zero.
LEMMA SumEmpty == ASSUME NEW f PROVE SumOf(f, {}) = 0
<1>1. PICK g : IsSum(f, {}, g)
  BY SumExists, FS_EmptySet
<1> DEFINE c == CHOOSE h : IsSum(f, {}, h)
<1>2. IsSum(f, {}, c)
  BY <1>1
<1>3. c[{}] = 0
  <2> HIDE DEF c
  <2> QED
    BY <1>2 DEF IsSum
<1> QED
  BY <1>3, SumIsChosen

\* The sum satisfies its recursion on a non-empty set.
LEMMA SumPicked ==
  ASSUME NEW f, NEW S, IsFiniteSet(S), S # {}
  PROVE  SumOf(f, S) = f[Pick(S)] + SumOf(f, S \ {Pick(S)})
<1> DEFINE T    == S \ {Pick(S)}
           C(U) == CHOOSE h : IsSum(f, U, h)
<1>1. IsFiniteSet(T) /\ T \subseteq S
  BY FS_Subset
<1>2. IsSum(f, S, C(S)) /\ IsSum(f, T, C(T))
  BY <1>1, SumExists
<1>3. SumOf(f, S) = C(S)[S] /\ SumOf(f, T) = C(T)[T]
  BY SumIsChosen
<1> HIDE DEF C
<1>4. C(S)[S] = f[Pick(S)] + C(S)[T]
  BY <1>2 DEF IsSum
<1>5. C(T)[T] = C(S)[T]
  BY <1>1, <1>2, SumUnique
<1> QED
  BY <1>3, <1>4, <1>5

\* A sum of amounts of one numeric type has that type.
LEMMA SumType ==
  ASSUME NEW R \in {Nat, Int}, NEW S, IsFiniteSet(S),
         NEW f, \A x \in S : f[x] \in R
  PROVE  SumOf(f, S) \in R
<1> DEFINE B == {T \in SUBSET S : SumOf(f, T) \notin R}
<1>1. ASSUME NEW T \in B, \A U \in B : U \subseteq T => U = T
      PROVE  FALSE
  <2>1. T # {}
    BY SumEmpty
  <2>2. Pick(T) \in T /\ IsFiniteSet(T)
    BY <2>1, PickIsMember, FS_Subset
  <2>3. SumOf(f, T \ {Pick(T)}) \in R
    BY <1>1, <2>2
  <2>4. f[Pick(T)] \in R
    BY <2>2
  <2>5. \A m, n \in R : m + n \in R
    OBVIOUS
  <2> QED
    BY <2>1, <2>2, <2>3, <2>4, <2>5, SumPicked
<1>2. B \in SUBSET (SUBSET S)
  OBVIOUS
<1>3. B = {}
  <2> HIDE DEF B
  <2> QED
    BY <1>1, <1>2, SmallestSubset
<1> QED
  BY <1>3

\* Amounts outside the set do not matter.
LEMMA SumSame ==
  ASSUME NEW S, IsFiniteSet(S), NEW f, NEW g, \A x \in S : f[x] = g[x]
  PROVE  SumOf(f, S) = SumOf(g, S)
<1> DEFINE B == {T \in SUBSET S : SumOf(f, T) # SumOf(g, T)}
<1>1. ASSUME NEW T \in B, \A U \in B : U \subseteq T => U = T
      PROVE  FALSE
  <2>1. T # {}
    BY SumEmpty
  <2>2. Pick(T) \in T /\ IsFiniteSet(T)
    BY <2>1, PickIsMember, FS_Subset
  <2>3. SumOf(f, T \ {Pick(T)}) = SumOf(g, T \ {Pick(T)})
    BY <1>1, <2>2
  <2> QED
    BY <2>1, <2>2, <2>3, SumPicked
<1>2. B \in SUBSET (SUBSET S)
  OBVIOUS
<1>3. B = {}
  <2> HIDE DEF B
  <2> QED
    BY <1>1, <1>2, SmallestSubset
<1> QED
  BY <1>3

\* Any member can be taken out, not only the one the fold takes next.
LEMMA SumRemove ==
  ASSUME NEW S, IsFiniteSet(S), NEW f, \A x \in S : f[x] \in Int, NEW y \in S
  PROVE  SumOf(f, S) = f[y] + SumOf(f, S \ {y})
<1> DEFINE Good(T) == \A z \in T : SumOf(f, T) = f[z] + SumOf(f, T \ {z})
           B == {T \in SUBSET S : ~Good(T)}
<1>1. ASSUME NEW T \in B, \A U \in B : U \subseteq T => U = T
      PROVE  FALSE
  <2>1. PICK z \in T : SumOf(f, T) # f[z] + SumOf(f, T \ {z})
    OBVIOUS
  <2>2. \A U \in SUBSET T : U # T => Good(U)
    BY <1>1
  <2> DEFINE x == Pick(T)
  <2>3. x \in T /\ IsFiniteSet(T) /\ T # {}
    BY PickIsMember, FS_Subset
  <2>4. SumOf(f, T) = f[x] + SumOf(f, T \ {x})
    BY <2>3, SumPicked
  <2>5. x # z
    BY <2>1, <2>4
  <2> HIDE DEF x, B
  <2>6. SumOf(f, T \ {x}) = f[z] + SumOf(f, T \ {x, z})
    <3>1. (T \ {x}) \ {z} = T \ {x, z}
      OBVIOUS
    <3> QED
      BY <2>2, <2>3, <2>5, <3>1
  <2>7. SumOf(f, T \ {z}) = f[x] + SumOf(f, T \ {x, z})
    <3>1. (T \ {z}) \ {x} = T \ {x, z}
      OBVIOUS
    <3> QED
      BY <2>2, <2>3, <2>5, <3>1
  <2>8. f[x] \in Int /\ f[z] \in Int /\ SumOf(f, T \ {x, z}) \in Int
    <3>1. x \in S /\ z \in S /\ T \ {x, z} \subseteq S
      BY <1>1, <2>3 DEF B
    <3>2. IsFiniteSet(T \ {x, z})
      BY <3>1, FS_Subset
    <3> QED
      BY <3>1, <3>2, SumType
  <2> HIDE DEF Good
  <2> QED
    BY <2>1, <2>4, <2>6, <2>7, <2>8
<1>2. B \in SUBSET (SUBSET S)
  OBVIOUS
<1>3. B = {}
  <2> HIDE DEF B
  <2> QED
    BY <1>1, <1>2, SmallestSubset
<1> QED
  BY <1>3

\* A new member adds its amount.
LEMMA SumAdd ==
  ASSUME NEW S, IsFiniteSet(S), NEW f, NEW y, y \notin S,
         \A x \in S \union {y} : f[x] \in Int
  PROVE  SumOf(f, S \union {y}) = f[y] + SumOf(f, S)
<1>1. IsFiniteSet(S \union {y}) /\ (S \union {y}) \ {y} = S
  BY FS_AddElement
<1> QED
  BY <1>1, SumRemove
=============================================================================

--------------------------------- MODULE Lemmas ---------------------------------
(***************************************************************************)
(* What the proofs of several components rest on: recursion up to a        *)
(* number, sums over finite sets, sequences, and the call tree of Panels.  *)
(***************************************************************************)
EXTENDS Panels, FiniteSetTheorems, SequenceTheorems, WellFoundedInduction, TLAPS

-----------------------------------------------------------------------------
(* Recursion over the numbers up to k.                                     *)

\* A set of numbers has a smallest one.
LEMMA LeastMember ==
  ASSUME NEW T \in SUBSET Nat, T # {}
  PROVE  \E m \in T : \A n \in T : m <= n
<1> DEFINE R == OpToRel(<, Nat)
<1>1. IsWellFoundedOn(R, Nat)
  BY NatLessThanWellFounded
<1>2. \A x, y \in Nat : <<y, x>> \in R <=> y < x
  BY DEF OpToRel
<1> HIDE DEF R
<1>3. PICK m \in T : \A y \in T : ~(<<y, m>> \in R)
  BY <1>1, WFMin
<1>4. ASSUME NEW n \in T PROVE m <= n
  <2>1. m \in Nat /\ n \in Nat /\ ~(n < m)
    BY <1>2, <1>3
  <2> QED
    BY <2>1
<1> QED
  BY <1>4

\* What holds of 0 and of a number with the one before it holds of all up to k.
LEMMA UpTo ==
  ASSUME NEW k \in Nat, NEW A, 0 \in A, \A n \in 1 .. k : n - 1 \in A => n \in A
  PROVE  \A n \in 0 .. k : n \in A
<1> DEFINE B == {n \in 0 .. k : n \notin A}
<1> SUFFICES ASSUME B # {} PROVE FALSE
  OBVIOUS
<1>1. PICK n \in B : \A m \in B : n <= m
  <2>1. B \in SUBSET Nat
    OBVIOUS
  <2> HIDE DEF B
  <2> QED
    BY <2>1, LeastMember
<1>2. n \in 1 .. k /\ n - 1 \in 0 .. k /\ ~(n <= n - 1)
  OBVIOUS
<1>3. n - 1 \in A
  BY <1>1, <1>2
<1> QED
  BY <1>1, <1>2, <1>3

\* A function that is defined from one number to the next exists.
Recursive(g, base, F, k) == g = [n \in 0 .. k |-> IF n = 0 THEN base ELSE F[<<g[n - 1], n>>]]

\* A function that is defined from its value for the number before.
LEMMA RecursionExists ==
  ASSUME NEW S, NEW base \in S, NEW k \in Nat, NEW F \in [S \X (1 .. k) -> S]
  PROVE  \E g \in [0 .. k -> S] : Recursive(g, base, F, k)
<1> DEFINE A == {n \in 0 .. k : \E g \in [0 .. n -> S] : Recursive(g, base, F, n)}
<1>1. 0 \in A
  <2> DEFINE g == [m \in 0 .. 0 |-> base]
  <2>1. g \in [0 .. 0 -> S]
    OBVIOUS
  <2>2. Recursive(g, base, F, 0)
    <3>1. \A m \in 0 .. 0 : m = 0
      OBVIOUS
    <3> QED
      BY <3>1 DEF Recursive
  <2> QED
    BY <2>1, <2>2
<1>2. ASSUME NEW n \in 1 .. k, n - 1 \in A
      PROVE  n \in A
  <2>1. PICK g \in [0 .. n - 1 -> S] : Recursive(g, base, F, n - 1)
    BY <1>2
  <2> DEFINE h == [m \in 0 .. n |-> IF m = n THEN F[<<g[n - 1], n>>] ELSE g[m]]
  <2>2. n - 1 \in 0 .. n - 1 /\ n # 0 /\ n \in Nat
    OBVIOUS
  <2>3. h \in [0 .. n -> S]
    BY <2>2
  <2>4. ASSUME NEW m \in 0 .. n
        PROVE  h[m] = IF m = 0 THEN base ELSE F[<<h[m - 1], m>>]
    <3>1. CASE m = n
      <4>1. h[m] = F[<<g[n - 1], n>>] /\ h[n - 1] = g[n - 1]
        BY <2>2, <3>1
      <4> HIDE DEF h
      <4> QED
        BY <2>2, <3>1, <4>1
    <3>2. CASE m # n
      <4>1. m \in 0 .. n - 1 /\ (m # 0 => m - 1 \in 0 .. n /\ m - 1 # n)
        BY <3>2
      <4>2. h[m] = g[m] /\ (m # 0 => h[m - 1] = g[m - 1])
        BY <3>2, <4>1
      <4>3. g[m] = IF m = 0 THEN base ELSE F[<<g[m - 1], m>>]
        BY <2>1, <4>1 DEF Recursive
      <4> HIDE DEF h
      <4> QED
        BY <4>2, <4>3
    <3> QED
      BY <3>1, <3>2
  <2>5. h = [m \in 0 .. n |-> h[m]]
    OBVIOUS
  <2>6. Recursive(h, base, F, n)
    <3> HIDE DEF h
    <3> QED
      BY <2>4, <2>5 DEF Recursive
  <2>7. n \in 0 .. k
    OBVIOUS
  <2> QED
    BY <2>3, <2>6, <2>7
<1>3. k \in 0 .. k
  OBVIOUS
<1> HIDE DEF A
<1>4. k \in A
  BY <1>1, <1>2, <1>3, UpTo
<1> QED
  BY <1>4 DEF A

-----------------------------------------------------------------------------
(* Sums over finite sets: what SumFunctionOnSet computes does not depend   *)
(* on the order in which it takes the members.                             *)

\* Of a set of finite sets one has fewest members.
LEMMA SmallestSet ==
  ASSUME NEW B, B # {}, \A s \in B : IsFiniteSet(s)
  PROVE  \E s \in B : \A t \in B : Cardinality(s) <= Cardinality(t)
<1> DEFINE T == {Cardinality(s) : s \in B}
<1>1. T \in SUBSET Nat /\ T # {}
  BY FS_CardinalityType
<1>2. PICK m \in T : \A n \in T : m <= n
  BY <1>1, LeastMember
<1> QED
  BY <1>2

AnyOf(s) == CHOOSE x \in s : TRUE
SumStep(g, f, s) == IF s = {} THEN 0 ELSE f[AnyOf(s)] + g[s \ {AnyOf(s)}]
IsSum(g, f, S) == g = [s \in SUBSET S |-> SumStep(g, f, s)]
Iter(f, S) == CHOOSE g : IsSum(g, f, S)

\* What the sum takes next is a member.
LEMMA AnyMember == ASSUME NEW s, s # {} PROVE AnyOf(s) \in s
BY DEF AnyOf

\* The library's sum is the recursion above, at the whole set.
LEMMA SumIsIter == ASSUME NEW f, NEW S PROVE SumFunctionOnSet(f, S) = Iter(f, S)[S]
BY Zenon DEF SumFunctionOnSet, FoldFunctionOnSet, MapThenFoldSet, Iter, IsSum, SumStep, AnyOf

\* Each step of the recursion leaves a smaller finite set.
LEMMA OneLess ==
  ASSUME NEW s, IsFiniteSet(s), s # {}
  PROVE  /\ AnyOf(s) \in s /\ IsFiniteSet(s \ {AnyOf(s)})
         /\ Cardinality(s \ {AnyOf(s)}) < Cardinality(s)
<1>1. AnyOf(s) \in s
  BY AnyMember
<1>2. IsFiniteSet(s \ {AnyOf(s)}) /\ Cardinality(s \ {AnyOf(s)}) = Cardinality(s) - 1
  BY <1>1, FS_RemoveElement
<1>3. Cardinality(s) \in Nat
  BY FS_CardinalityType
<1> QED
  BY <1>1, <1>2, <1>3

\* A sum satisfies its recursion at every subset.
LEMMA IsSumAt ==
  ASSUME NEW g, NEW f, NEW S, IsSum(g, f, S), NEW s \in SUBSET S
  PROVE  g[s] = SumStep(g, f, s)
<1> HIDE DEF SumStep
<1>1. g = [t \in SUBSET S |-> SumStep(g, f, t)]
  BY DEF IsSum
<1> QED
  BY <1>1

\* The recursion has one solution on a finite set.
LEMMA SumUnique ==
  ASSUME NEW g, NEW h, NEW f, NEW S, IsFiniteSet(S), IsSum(g, f, S), IsSum(h, f, S)
  PROVE  \A s \in SUBSET S : g[s] = h[s]
<1> DEFINE B == {s \in SUBSET S : g[s] # h[s]}
<1> SUFFICES ASSUME B # {} PROVE FALSE
  OBVIOUS
<1>1. \A s \in B : IsFiniteSet(s)
  BY FS_Subset
<1>2. PICK s \in B : \A t \in B : Cardinality(s) <= Cardinality(t)
  <2> HIDE DEF B
  <2> QED
    BY <1>1, SmallestSet
<1>3. g[s] = SumStep(g, f, s) /\ h[s] = SumStep(h, f, s)
  BY IsSumAt
<1>4. s # {}
  BY <1>3 DEF SumStep
<1> DEFINE t == s \ {AnyOf(s)}
<1>5. IsFiniteSet(t) /\ Cardinality(t) < Cardinality(s)
  BY <1>1, <1>4, OneLess
<1>6. t \notin B
  BY <1>1, <1>2, <1>5, FS_CardinalityType
<1>7. g[t] = h[t]
  BY <1>6
<1> QED
  BY <1>3, <1>4, <1>7 DEF SumStep

\* A sum over a set is, on a subset, the sum over it.
LEMMA SumRestricts ==
  ASSUME NEW g, NEW f, NEW S, IsSum(g, f, S), NEW T \in SUBSET S
  PROVE  IsSum([s \in SUBSET T |-> g[s]], f, T)
<1> DEFINE h == [s \in SUBSET T |-> g[s]]
<1>1. ASSUME NEW s \in SUBSET T PROVE h[s] = SumStep(h, f, s)
  <2>1. h[s] = SumStep(g, f, s)
    BY IsSumAt
  <2>2. CASE s = {}
    BY <2>1, <2>2 DEF SumStep
  <2>3. CASE s # {}
    <3>1. s \ {AnyOf(s)} \in SUBSET T
      OBVIOUS
    <3>2. h[s \ {AnyOf(s)}] = g[s \ {AnyOf(s)}]
      BY <3>1
    <3> QED
      BY <2>1, <2>3, <3>2 DEF SumStep
  <2> QED
    BY <2>2, <2>3
<1>2. h = [s \in SUBSET T |-> SumStep(h, f, s)]
  <2>1. [s \in SUBSET T |-> h[s]] = [s \in SUBSET T |-> SumStep(h, f, s)]
    BY <1>1
  <2> QED
    BY <2>1
<1> HIDE DEF h
<1> QED
  BY <1>2 DEF IsSum, h

\* If a sum exists, the one chosen is one.
LEMMA IterIsSum ==
  ASSUME NEW f, NEW S, \E g : IsSum(g, f, S)
  PROVE  IsSum(Iter(f, S), f, S)
BY DEF Iter

\* Finite sets have a sum.
LEMMA SumExists ==
  ASSUME NEW f, NEW S, IsFiniteSet(S)
  PROVE  IsSum(Iter(f, S), f, S)
<1> DEFINE B == {T \in SUBSET S : ~ \E g : IsSum(g, f, T)}
<1>1. B = {}
  <2> SUFFICES ASSUME B # {} PROVE FALSE
    OBVIOUS
  <2>1. \A T \in B : IsFiniteSet(T)
    BY FS_Subset
  <2>2. PICK T \in B : \A t \in B : Cardinality(T) <= Cardinality(t)
    <3> HIDE DEF B
    <3> QED
      BY <2>1, SmallestSet
  <2>3. ASSUME NEW t \in SUBSET T, t # T
        PROVE  IsSum(Iter(f, t), f, t)
    <3>1. IsFiniteSet(t) /\ Cardinality(t) < Cardinality(T)
      BY <2>1, <2>3, FS_Subset, FS_CardinalityType
    <3>2. t \notin B
      BY <2>1, <2>2, <3>1, FS_CardinalityType
    <3> QED
      BY <3>2, IterIsSum
  <2>4. ASSUME NEW t \in SUBSET T, t # T, NEW u \in SUBSET t
        PROVE  Iter(f, t)[u] = Iter(f, u)[u]
    <3>1. IsSum(Iter(f, t), f, t)
      BY <2>3, <2>4
    <3>1a. u \in SUBSET T /\ u # T
      BY <2>4
    <3>2. IsSum(Iter(f, u), f, u)
      BY <2>3, <3>1a
    <3>3. IsSum([s \in SUBSET u |-> Iter(f, t)[s]], f, u)
      BY <3>1, SumRestricts
    <3>4. IsFiniteSet(u)
      BY <2>1, FS_Subset, <3>1a
    <3>5. [s \in SUBSET u |-> Iter(f, t)[s]][u] = Iter(f, u)[u]
      <4> DEFINE h == [s \in SUBSET u |-> Iter(f, t)[s]]
      <4>1. h[u] = Iter(f, u)[u]
        <5> HIDE DEF h
        <5> QED
          BY <3>2, <3>3, <3>4, SumUnique DEF h
      <4> QED
        BY <4>1
    <3> QED
      BY <3>5
  <2> DEFINE val(t) == Iter(f, t)[t]
             g == [s \in SUBSET T |-> IF s = {} THEN 0 ELSE f[AnyOf(s)] + val(s \ {AnyOf(s)})]
  <2>5. ASSUME NEW s \in SUBSET T, s # {}
        PROVE  g[s \ {AnyOf(s)}] = val(s \ {AnyOf(s)})
    <3> DEFINE t == s \ {AnyOf(s)}
    <3>1. t \in SUBSET T /\ t # T
      BY <2>5, AnyMember
    <3>2. IsSum(Iter(f, t), f, t)
      BY <2>3, <3>1
    <3>3. val(t) = SumStep(Iter(f, t), f, t)
      BY <3>2, IsSumAt
    <3>4. CASE t = {}
      BY <3>1, <3>3, <3>4 DEF SumStep
    <3>5. CASE t # {}
      <4>1. t \ {AnyOf(t)} \in SUBSET t
        OBVIOUS
      <4>2. Iter(f, t)[t \ {AnyOf(t)}] = val(t \ {AnyOf(t)})
        BY <2>4, <3>1, <4>1
      <4>3. val(t) = f[AnyOf(t)] + val(t \ {AnyOf(t)})
        <5> HIDE DEF t, val
        <5> QED
          BY <3>3, <3>5, <4>2 DEF SumStep
      <4>4. g[t] = f[AnyOf(t)] + val(t \ {AnyOf(t)})
        <5> HIDE DEF t, val
        <5> QED
          BY <3>1, <3>5
      <4> QED
        BY <4>3, <4>4
    <3> QED
      BY <3>4, <3>5
  <2>6. \A s \in SUBSET T : (IF s = {} THEN 0 ELSE f[AnyOf(s)] + val(s \ {AnyOf(s)})) = SumStep(g, f, s)
    <3> HIDE DEF g, val
    <3> QED
      BY <2>5 DEF SumStep
  <2>7. g = [s \in SUBSET T |-> SumStep(g, f, s)]
    <3> DEFINE body(s) == IF s = {} THEN 0 ELSE f[AnyOf(s)] + val(s \ {AnyOf(s)})
    <3>1. \A s \in SUBSET T : body(s) = SumStep(g, f, s)
      BY <2>6
    <3>2. g = [s \in SUBSET T |-> body(s)]
      OBVIOUS
    <3> HIDE DEF body, g
    <3> QED
      BY <3>1, <3>2
  <2>8. IsSum(g, f, T)
    <3> HIDE DEF g
    <3> QED
      BY <2>7 DEF IsSum
  <2> QED
    BY <2>8
<1> QED
  BY <1>1, IterIsSum

\* Sums over smaller and larger sets agree on what they have in common.
LEMMA IterAgrees ==
  ASSUME NEW f, NEW S, IsFiniteSet(S), NEW T \in SUBSET S
  PROVE  Iter(f, S)[T] = Iter(f, T)[T]
<1> DEFINE h == [s \in SUBSET T |-> Iter(f, S)[s]]
<1>1. IsFiniteSet(T)
  BY FS_Subset
<1>2. IsSum(Iter(f, T), f, T) /\ IsSum(Iter(f, S), f, S)
  BY <1>1, SumExists
<1>3. IsSum(h, f, T)
  BY <1>2, SumRestricts
<1>4. h[T] = Iter(f, T)[T]
  <2> HIDE DEF h
  <2> QED
    BY <1>1, <1>2, <1>3, SumUnique
<1> QED
  BY <1>4

\* The two cases of a sum.
LEMMA SumEmpty ==
  ASSUME NEW f
  PROVE  SumFunctionOnSet(f, {}) = 0
<1>1. IsFiniteSet({})
  BY FS_EmptySet
<1>2. Iter(f, {})[{}] = SumStep(Iter(f, {}), f, {})
  BY <1>1, SumExists, IsSumAt
<1> QED
  BY <1>2, SumIsIter DEF SumStep

\* The sum is the member taken first plus the sum of the others.
LEMMA SumChosen ==
  ASSUME NEW f, NEW S, IsFiniteSet(S), S # {}
  PROVE  SumFunctionOnSet(f, S) = f[AnyOf(S)] + SumFunctionOnSet(f, S \ {AnyOf(S)})
<1> DEFINE T == S \ {AnyOf(S)}
<1>1. Iter(f, S)[S] = SumStep(Iter(f, S), f, S)
  BY SumExists, IsSumAt
<1>2. T \in SUBSET S
  OBVIOUS
<1>3. Iter(f, S)[T] = Iter(f, T)[T]
  BY <1>2, IterAgrees
<1>4. SumStep(Iter(f, S), f, S) = f[AnyOf(S)] + Iter(f, S)[T]
  BY DEF SumStep
<1> HIDE DEF T
<1> QED
  BY <1>1, <1>3, <1>4, SumIsIter DEF T

\* Natural numbers add up to one ...
LEMMA SumNat ==
  ASSUME NEW f, NEW S, IsFiniteSet(S), \A x \in S : f[x] \in Nat
  PROVE  SumFunctionOnSet(f, S) \in Nat
<1> DEFINE B == {s \in SUBSET S : SumFunctionOnSet(f, s) \notin Nat}
<1> SUFFICES ASSUME B # {} PROVE FALSE
  OBVIOUS
<1>1. \A s \in B : IsFiniteSet(s)
  BY FS_Subset
<1>2. PICK s \in B : \A t \in B : Cardinality(s) <= Cardinality(t)
  <2> HIDE DEF B
  <2> QED
    BY <1>1, SmallestSet
<1>3. s # {}
  BY SumEmpty
<1> DEFINE t == s \ {AnyOf(s)}
<1>4. AnyOf(s) \in s /\ IsFiniteSet(t) /\ Cardinality(t) < Cardinality(s)
  BY <1>1, <1>3, OneLess
<1>5. t \notin B
  BY <1>1, <1>2, <1>4, FS_CardinalityType
<1>6. SumFunctionOnSet(f, t) \in Nat
  BY <1>5
<1>7. SumFunctionOnSet(f, s) = f[AnyOf(s)] + SumFunctionOnSet(f, t)
  BY <1>1, <1>3, SumChosen
<1> QED
  BY <1>4, <1>6, <1>7

\* ... whichever of them is taken last.
LEMMA SumAny ==
  ASSUME NEW f, NEW S, IsFiniteSet(S), \A x \in S : f[x] \in Nat, NEW x \in S
  PROVE  SumFunctionOnSet(f, S) = f[x] + SumFunctionOnSet(f, S \ {x})
<1> DEFINE Sum(s) == SumFunctionOnSet(f, s)
           B == {s \in SUBSET S : \E y \in s : Sum(s) # f[y] + Sum(s \ {y})}
<1> SUFFICES ASSUME B # {} PROVE FALSE
  OBVIOUS
<1>1. \A s \in B : IsFiniteSet(s)
  BY FS_Subset
<1>2. PICK s \in B : \A t \in B : Cardinality(s) <= Cardinality(t)
  <2> HIDE DEF B
  <2> QED
    BY <1>1, SmallestSet
<1>3. PICK y \in s : Sum(s) # f[y] + Sum(s \ {y})
  OBVIOUS
<1>4. \A u \in SUBSET S : Sum(u) \in Nat
  <2> SUFFICES ASSUME NEW u \in SUBSET S PROVE Sum(u) \in Nat
    OBVIOUS
  <2>1. IsFiniteSet(u) /\ \A z \in u : f[z] \in Nat
    BY FS_Subset
  <2> QED
    BY <2>1, SumNat
<1> HIDE DEF Sum
<1> DEFINE c == AnyOf(s)
           t == s \ {c}
           r == s \ {y}
           q == (s \ {c}) \ {y}
<1>5. c \in s /\ IsFiniteSet(t) /\ Cardinality(t) < Cardinality(s)
  BY <1>1, <1>3, OneLess
<1>6. IsFiniteSet(r) /\ Cardinality(r) < Cardinality(s)
  <2>1. IsFiniteSet(r) /\ Cardinality(r) = Cardinality(s) - 1
    BY <1>1, <1>3, FS_RemoveElement
  <2> QED
    BY <1>1, <2>1, FS_CardinalityType
<1>7. t \notin B /\ r \notin B
  <2>1. Cardinality(s) \in Nat /\ Cardinality(t) \in Nat /\ Cardinality(r) \in Nat
    BY <1>1, <1>5, <1>6, FS_CardinalityType
  <2> HIDE DEF B, t, r
  <2> QED
    BY <1>2, <1>5, <1>6, <2>1
<1>8. Sum(s) = f[c] + Sum(t)
  BY <1>1, <1>3, SumChosen DEF Sum
<1>9. y # c
  BY <1>3, <1>8
<1>10. Sum(t) = f[y] + Sum(q)
  BY <1>3, <1>7, <1>9
<1>11. Sum(r) = f[c] + Sum(q)
  <2>1. r \ {c} = q /\ c \in r /\ r \in SUBSET S
    BY <1>5, <1>9
  <2>2. \A z \in r : Sum(r) = f[z] + Sum(r \ {z})
    BY <1>7, <2>1
  <2> HIDE DEF q, r, c
  <2> QED
    BY <2>1, <2>2
<1>12. f[c] \in Nat /\ f[y] \in Nat /\ Sum(q) \in Nat
  BY <1>3, <1>4, <1>5
<1>13. Sum(s) = f[y] + Sum(r)
  <2> HIDE DEF c, t, r, q
  <2> QED
    BY <1>8, <1>10, <1>11, <1>12
<1> QED
  BY <1>3, <1>13

\* Only the values at the members of the set count.
LEMMA SumSame ==
  ASSUME NEW f, NEW g, NEW S, IsFiniteSet(S), \A x \in S : f[x] = g[x]
  PROVE  SumFunctionOnSet(f, S) = SumFunctionOnSet(g, S)
<1> DEFINE B == {s \in SUBSET S : SumFunctionOnSet(f, s) # SumFunctionOnSet(g, s)}
<1> SUFFICES ASSUME B # {} PROVE FALSE
  OBVIOUS
<1>1. \A s \in B : IsFiniteSet(s)
  BY FS_Subset
<1>2. PICK s \in B : \A t \in B : Cardinality(s) <= Cardinality(t)
  <2> HIDE DEF B
  <2> QED
    BY <1>1, SmallestSet
<1>3. s # {}
  BY SumEmpty
<1> DEFINE t == s \ {AnyOf(s)}
<1>4. AnyOf(s) \in s /\ IsFiniteSet(t) /\ Cardinality(t) < Cardinality(s)
  BY <1>1, <1>3, OneLess
<1>5. t \notin B
  BY <1>1, <1>2, <1>4, FS_CardinalityType
<1>6. SumFunctionOnSet(f, t) = SumFunctionOnSet(g, t)
  BY <1>5
<1>7. /\ SumFunctionOnSet(f, s) = f[AnyOf(s)] + SumFunctionOnSet(f, t)
      /\ SumFunctionOnSet(g, s) = g[AnyOf(s)] + SumFunctionOnSet(g, t)
  BY <1>1, <1>3, SumChosen
<1> QED
  BY <1>4, <1>6, <1>7

\* A sum changes by what one value changes.
LEMMA SumChanged ==
  ASSUME NEW f, NEW g, NEW S, IsFiniteSet(S), NEW x \in S,
         \A y \in S : f[y] \in Nat /\ g[y] \in Nat,
         \A y \in S \ {x} : f[y] = g[y]
  PROVE  SumFunctionOnSet(g, S) + f[x] = SumFunctionOnSet(f, S) + g[x]
<1> DEFINE T == S \ {x}
<1>1. IsFiniteSet(T)
  BY FS_Subset
<1>2. SumFunctionOnSet(f, T) = SumFunctionOnSet(g, T) /\ SumFunctionOnSet(f, T) \in Nat
  BY <1>1, SumSame, SumNat
<1>3. /\ SumFunctionOnSet(f, S) = f[x] + SumFunctionOnSet(f, T)
      /\ SumFunctionOnSet(g, S) = g[x] + SumFunctionOnSet(g, T)
  BY SumAny
<1>4. f[x] \in Nat /\ g[x] \in Nat
  OBVIOUS
<1> HIDE DEF T
<1> QED
  BY <1>2, <1>3, <1>4

\* A part of the set adds up to no more than the whole.
LEMMA SumPart ==
  ASSUME NEW f, NEW S, IsFiniteSet(S), \A x \in S : f[x] \in Nat, NEW T \in SUBSET S
  PROVE  SumFunctionOnSet(f, T) <= SumFunctionOnSet(f, S)
<1> DEFINE Sum(s) == SumFunctionOnSet(f, s)
           B == {s \in SUBSET S : T \subseteq s /\ ~(Sum(T) <= Sum(s))}
<1> SUFFICES ASSUME B # {} PROVE FALSE
  OBVIOUS
<1>1. \A s \in B : IsFiniteSet(s)
  BY FS_Subset
<1>2. PICK s \in B : \A t \in B : Cardinality(s) <= Cardinality(t)
  <2> HIDE DEF B
  <2> QED
    BY <1>1, SmallestSet
<1>3. \A u \in SUBSET S : Sum(u) \in Nat
  <2> SUFFICES ASSUME NEW u \in SUBSET S PROVE Sum(u) \in Nat
    OBVIOUS
  <2>1. IsFiniteSet(u) /\ \A z \in u : f[z] \in Nat
    BY FS_Subset
  <2> QED
    BY <2>1, SumNat
<1>4. PICK x \in s : x \notin T
  <2>1. s # T
    BY <1>3
  <2> QED
    BY <2>1
<1> DEFINE t == s \ {x}
<1>5. IsFiniteSet(t) /\ Cardinality(t) < Cardinality(s)
  <2>1. IsFiniteSet(t) /\ Cardinality(t) = Cardinality(s) - 1
    BY <1>1, <1>4, FS_RemoveElement
  <2> QED
    BY <1>1, <2>1, FS_CardinalityType
<1>6. t \notin B
  BY <1>1, <1>2, <1>5, FS_CardinalityType
<1>7. Sum(T) <= Sum(t)
  BY <1>4, <1>6
<1>8. Sum(s) = f[x] + Sum(t)
  <2>1. IsFiniteSet(s) /\ \A z \in s : f[z] \in Nat
    BY <1>1
  <2> QED
    BY <1>4, <2>1, SumAny
<1>9. Sum(T) \in Nat /\ Sum(t) \in Nat /\ Sum(s) \in Nat /\ f[x] \in Nat /\ ~(Sum(T) <= Sum(s))
  BY <1>3
<1> HIDE DEF Sum, t
<1> QED
  BY <1>7, <1>8, <1>9

\* Two sets without a common member.
LEMMA SumUnion ==
  ASSUME NEW f, NEW S, IsFiniteSet(S), \A x \in S : f[x] \in Nat,
         NEW A \in SUBSET S, NEW B \in SUBSET S, A \cap B = {}
  PROVE  SumFunctionOnSet(f, A \cup B) = SumFunctionOnSet(f, A) + SumFunctionOnSet(f, B)
<1> DEFINE Sum(s) == SumFunctionOnSet(f, s)
           C == {s \in SUBSET B : Sum(A \cup s) # Sum(A) + Sum(s)}
<1> SUFFICES ASSUME C # {} PROVE FALSE
  OBVIOUS
<1>1. \A s \in SUBSET S : IsFiniteSet(s) /\ Sum(s) \in Nat /\ \A x \in s : f[x] \in Nat
  BY FS_Subset, SumNat
<1>2. PICK s \in C : \A t \in C : Cardinality(s) <= Cardinality(t)
  <2>1. \A t \in C : IsFiniteSet(t)
    BY <1>1
  <2> QED
    BY <2>1, SmallestSet
<1>3. s \subseteq B /\ Sum(A \cup s) # Sum(A) + Sum(s)
  OBVIOUS
<1>4. s # {}
  <2> SUFFICES ASSUME s = {} PROVE FALSE
    OBVIOUS
  <2>1. Sum(s) = 0 /\ A \cup s = A
    BY SumEmpty
  <2>2. Sum(A) \in Nat /\ Sum(A \cup s) = Sum(A)
    BY <1>1, <2>1
  <2>3. Sum(A) + Sum(s) = Sum(A)
    <3> HIDE DEF Sum
    <3> QED
      BY <2>1, <2>2
  <2> QED
    BY <1>3, <2>2, <2>3
<1>5. PICK x \in s : TRUE
  BY <1>4
<1>6. PICK t : t = s \ {x}
  OBVIOUS
<1>7. IsFiniteSet(s) /\ IsFiniteSet(t) /\ Cardinality(t) < Cardinality(s)
  <2>1. IsFiniteSet(s)
    BY <1>1, <1>3
  <2>2. IsFiniteSet(t) /\ Cardinality(t) = Cardinality(s) - 1
    BY <1>5, <1>6, <2>1, FS_RemoveElement
  <2> QED
    BY <2>1, <2>2, FS_CardinalityType
<1>8. Sum(A \cup t) = Sum(A) + Sum(t)
  <2>1. t \notin C
    BY <1>2, <1>7, FS_CardinalityType
  <2> QED
    BY <1>3, <1>6, <2>1
<1>9. Sum(s) = f[x] + Sum(t)
  <2>1. IsFiniteSet(s) /\ \A y \in s : f[y] \in Nat
    BY <1>1, <1>3
  <2> QED
    BY <1>5, <1>6, <2>1, SumAny
<1>10. Sum(A \cup s) = f[x] + Sum(A \cup t)
  <2>1. PICK u : u = A \cup s
    OBVIOUS
  <2>2. IsFiniteSet(u) /\ (\A y \in u : f[y] \in Nat) /\ x \in u
    BY <1>1, <1>3, <1>5, <2>1
  <2>3. SumFunctionOnSet(f, u) = f[x] + SumFunctionOnSet(f, u \ {x})
    BY <2>2, SumAny
  <2>4. u \ {x} = A \cup t
    BY <1>3, <1>5, <1>6, <2>1
  <2> QED
    BY <2>1, <2>3, <2>4
<1>11. Sum(A) \in Nat /\ Sum(t) \in Nat /\ Sum(s) \in Nat /\ f[x] \in Nat /\ Sum(A \cup t) \in Nat
  BY <1>1, <1>3, <1>5, <1>6
<1> HIDE DEF Sum, C
<1> QED
  BY <1>3, <1>8, <1>9, <1>10, <1>11

\* The members of a set that a function takes to members of another.
Into(h, S, T) == {x \in S : h[x] \in T}

\* g gives every value of h the sum of f over its elements.
AddsUp(S, f, T, h, g) ==
  /\ IsFiniteSet(S) /\ \A x \in S : f[x] \in Nat
  /\ IsFiniteSet(T) /\ \A x \in S : h[x] \in T
  /\ \A t \in T : g[t] = SumFunctionOnSet(f, Into(h, S, {t}))

\* Summed by what a function takes them to, the members of a set give their sum.
LEMMA SumByValue ==
  ASSUME NEW S, NEW f, NEW T, NEW h, NEW g, AddsUp(S, f, T, h, g)
  PROVE  SumFunctionOnSet(g, T) = SumFunctionOnSet(f, S)
<1> USE DEF AddsUp
<1> DEFINE B == {U \in SUBSET T : SumFunctionOnSet(g, U) # SumFunctionOnSet(f, Into(h, S, U))}
<1>1. Into(h, S, T) = S
  BY DEF Into
<1> SUFFICES ASSUME B # {} PROVE FALSE
  BY <1>1
<1>2. \A t \in T : g[t] \in Nat
  <2> SUFFICES ASSUME NEW t \in T PROVE g[t] \in Nat
    OBVIOUS
  <2>1. PICK F : F = Into(h, S, {t})
    OBVIOUS
  <2>2. IsFiniteSet(F) /\ \A x \in F : f[x] \in Nat
    BY <2>1, FS_Subset DEF Into
  <2> QED
    BY <2>1, <2>2, SumNat
<1>3. PICK U \in B : \A V \in B : Cardinality(U) <= Cardinality(V)
  <2>1. \A V \in B : IsFiniteSet(V)
    BY FS_Subset
  <2> QED
    BY <2>1, SmallestSet
<1>4. IsFiniteSet(U) /\ U \subseteq T /\ SumFunctionOnSet(g, U) # SumFunctionOnSet(f, Into(h, S, U))
  BY FS_Subset
<1>5. U # {}
  <2>1. Into(h, S, {}) = {}
    BY DEF Into
  <2> QED
    BY <1>4, <2>1, SumEmpty
<1>6. PICK t \in U : TRUE
  BY <1>5
<1>7. PICK V : V = U \ {t}
  OBVIOUS
<1>8. IsFiniteSet(V) /\ Cardinality(V) < Cardinality(U)
  <2>1. IsFiniteSet(V) /\ Cardinality(V) = Cardinality(U) - 1
    BY <1>4, <1>6, <1>7, FS_RemoveElement
  <2> QED
    BY <1>4, <2>1, FS_CardinalityType
<1>9. SumFunctionOnSet(g, V) = SumFunctionOnSet(f, Into(h, S, V))
  <2>1. V \notin B
    BY <1>3, <1>4, <1>8, FS_CardinalityType
  <2> QED
    BY <1>4, <1>7, <2>1
<1>10. SumFunctionOnSet(g, U) = g[t] + SumFunctionOnSet(g, V)
  <2>1. \A x \in U : g[x] \in Nat
    BY <1>2, <1>4
  <2> QED
    BY <1>4, <1>6, <1>7, <2>1, SumAny
<1>11. PICK X, Y : X = Into(h, S, V) /\ Y = Into(h, S, {t})
  OBVIOUS
<1>12. X \subseteq S /\ Y \subseteq S /\ X \cap Y = {} /\ X \cup Y = Into(h, S, U)
  BY <1>6, <1>7, <1>11 DEF Into
<1>13. SumFunctionOnSet(f, X \cup Y) = SumFunctionOnSet(f, X) + SumFunctionOnSet(f, Y)
  BY <1>12, SumUnion
<1>14. SumFunctionOnSet(f, X) \in Nat /\ SumFunctionOnSet(f, Y) \in Nat
  <2>1. IsFiniteSet(X) /\ IsFiniteSet(Y) /\ (\A x \in X : f[x] \in Nat) /\ (\A x \in Y : f[x] \in Nat)
    BY <1>12, FS_Subset
  <2> QED
    BY <2>1, SumNat
<1>15. g[t] = SumFunctionOnSet(f, Y)
  BY <1>4, <1>6, <1>11
<1> QED
  <2>1. SumFunctionOnSet(f, Into(h, S, U)) = SumFunctionOnSet(f, X) + SumFunctionOnSet(f, Y)
    BY <1>12, <1>13
  <2>2. SumFunctionOnSet(g, U) = SumFunctionOnSet(f, Y) + SumFunctionOnSet(f, X)
    BY <1>9, <1>10, <1>11, <1>15
  <2>3. SumFunctionOnSet(f, Y) + SumFunctionOnSet(f, X) = SumFunctionOnSet(f, X) + SumFunctionOnSet(f, Y)
    BY <1>14
  <2> QED
    BY <1>4, <2>1, <2>2, <2>3

-----------------------------------------------------------------------------
(* Sequences.                                                              *)

\* The length of two sequences, one after the other.
LEMMA ConcatLen ==
  ASSUME NEW S, NEW s \in Seq(S), NEW t \in Seq(S)
  PROVE  s \o t \in Seq(S) /\ Len(s \o t) = Len(s) + Len(t)
OBVIOUS

\* The elements of the first ...
LEMMA ConcatLeft ==
  ASSUME NEW S, NEW s \in Seq(S), NEW t \in Seq(S), NEW k \in 1 .. Len(s)
  PROVE  (s \o t)[k] = s[k]
OBVIOUS

\* ... and of the second.
LEMMA ConcatRight ==
  ASSUME NEW S, NEW s \in Seq(S), NEW t \in Seq(S), NEW k \in 1 .. Len(t)
  PROVE  (s \o t)[Len(s) + k] = t[k]
OBVIOUS

\* A sequence as a function.
LEMMA AsFunction == ASSUME NEW E, NEW s \in Seq(E) PROVE s = [i \in 1 .. Len(s) |-> s[i]]
OBVIOUS

\* A function as a sequence.
LEMMA FunctionIsSeq ==
  ASSUME NEW E, NEW n \in Nat, NEW f \in [1 .. n -> E]
  PROVE  f \in Seq(E) /\ Len(f) = n
OBVIOUS

\* The members of a sequence.
LEMMA MembersOf == ASSUME NEW E, NEW s \in Seq(E) PROVE ToSet(s) = {s[i] : i \in 1 .. Len(s)}
BY DEF ToSet

\* A sequence has finitely many members.
LEMMA FinitelyMany ==
  ASSUME NEW E, NEW s \in Seq(E)
  PROVE  IsFiniteSet(ToSet(s))
<1>1. ToSet(s) = {s[i] : i \in 1 .. Len(s)} /\ Len(s) \in Nat
  BY MembersOf
<1>2. s \in Surjection(1 .. Len(s), ToSet(s))
  <2>1. s = [i \in 1 .. Len(s) |-> s[i]]
    BY AsFunction
  <2>2. s \in [1 .. Len(s) -> ToSet(s)]
    BY <1>1, <2>1
  <2>3. \A t \in ToSet(s) : \E i \in 1 .. Len(s) : s[i] = t
    BY <1>1
  <2> QED
    BY <2>2, <2>3 DEF Surjection
<1>3. IsFiniteSet(1 .. Len(s))
  BY <1>1, FS_Interval
<1> QED
  BY <1>2, <1>3, FS_Surjection

\* The members of two sequences.
LEMMA SetOfConcat ==
  ASSUME NEW E, NEW s \in Seq(E), NEW t \in Seq(E)
  PROVE  s \o t \in Seq(E) /\ ToSet(s \o t) = ToSet(s) \cup ToSet(t)
<1>1. PICK r : r = s \o t
  OBVIOUS
<1>2. PICK n \in Nat : n = Len(s)
  OBVIOUS
<1>3. PICK m \in Nat : m = Len(t)
  OBVIOUS
<1>4. /\ r \in Seq(E) /\ Len(r) = n + m
      /\ \A i \in 1 .. n : r[i] = s[i]
      /\ \A i \in 1 .. m : r[n + i] = t[i]
  <2>1. s \o t \in Seq(E) /\ Len(s \o t) = Len(s) + Len(t)
    BY ConcatLen
  <2>2. \A i \in 1 .. Len(s) : (s \o t)[i] = s[i]
    BY ConcatLeft
  <2>3. \A i \in 1 .. Len(t) : (s \o t)[Len(s) + i] = t[i]
    BY ConcatRight
  <2> QED
    BY <1>1, <1>2, <1>3, <2>1, <2>2, <2>3
<1>5. ToSet(r) = {r[i] : i \in 1 .. n + m} /\ ToSet(s) = {s[i] : i \in 1 .. n} /\ ToSet(t) = {t[i] : i \in 1 .. m}
  <2>1. ToSet(r) = {r[i] : i \in 1 .. Len(r)}
    BY <1>4, MembersOf
  <2>2. ToSet(s) = {s[i] : i \in 1 .. Len(s)} /\ ToSet(t) = {t[i] : i \in 1 .. Len(t)}
    BY MembersOf
  <2> QED
    BY <1>2, <1>3, <1>4, <2>1, <2>2
<1>6. ASSUME NEW x \in ToSet(r) PROVE x \in ToSet(s) \cup ToSet(t)
  <2>1. PICK i \in 1 .. n + m : x = r[i]
    BY <1>5
  <2>2. CASE i \in 1 .. n
    BY <1>4, <1>5, <2>1, <2>2
  <2>3. CASE i \notin 1 .. n
    <3>1. i - n \in 1 .. m /\ n + (i - n) = i
      BY <2>3
    <3>2. x = t[i - n]
      BY <1>4, <2>1, <3>1
    <3> QED
      BY <1>5, <3>1, <3>2
  <2> QED
    BY <2>2, <2>3
<1>7. ASSUME NEW x \in ToSet(s) \cup ToSet(t) PROVE x \in ToSet(r)
  <2>1. CASE x \in ToSet(s)
    <3>1. PICK i \in 1 .. n : x = s[i]
      BY <1>5, <2>1
    <3>2. i \in 1 .. n + m
      OBVIOUS
    <3> QED
      BY <1>4, <1>5, <3>1, <3>2
  <2>2. CASE x \in ToSet(t)
    <3>1. PICK i \in 1 .. m : x = t[i]
      BY <1>5, <2>2
    <3>2. n + i \in 1 .. n + m
      OBVIOUS
    <3> QED
      BY <1>4, <1>5, <3>1, <3>2
  <2> QED
    BY <2>1, <2>2
<1> QED
  BY <1>1, <1>4, <1>6, <1>7

\* One element alone.
LEMMA SetOfOne == ASSUME NEW E, NEW a \in E PROVE <<a>> \in Seq(E) /\ ToSet(<<a>>) = {a}
<1>5. <<a>> \in Seq(E)
  OBVIOUS
<1>1. PICK s \in Seq(E) : s = <<a>>
  BY <1>5
<1>2. Len(s) = 1 /\ s[1] = a
  BY <1>1
<1>3. ToSet(s) = {s[i] : i \in 1 .. Len(s)}
  BY MembersOf
<1>4. ToSet(s) = {a}
  BY <1>2, <1>3
<1> QED
  BY <1>1, <1>4

-----------------------------------------------------------------------------
(* Sequences of sequences, one after the other.                            *)

IsFlat(g, c) ==
  g = [n \in 1 .. Len(c) |-> IF n = 1 THEN c[n] ELSE g[n - 1] \o c[n]]

\* FlattenSeq is that recursion, run to the end.
LEMMA FlatIs ==
  ASSUME NEW c, Len(c) # 0
  PROVE  FlattenSeq(c) = (CHOOSE g : IsFlat(g, c))[Len(c)]
BY Zenon DEF FlattenSeq, IsFlat

\* It is defined for every sequence of sequences.
LEMMA FlatExists ==
  ASSUME NEW E, NEW c \in Seq(Seq(E))
  PROVE  \E g : IsFlat(g, c)
<1> DEFINE k == Len(c)
           S == Seq(E)
           F == [x \in S \X (1 .. k) |-> x[1] \o c[x[2]]]
<1>1. k \in Nat /\ \A n \in 1 .. k : c[n] \in S
  OBVIOUS
<1>2. \A t \in S, n \in 1 .. k : t \o c[n] \in S
  BY <1>1, ConcatProperties
<1>3. <<>> \in S
  OBVIOUS
<1> HIDE DEF S, k
<1>4. F \in [S \X (1 .. k) -> S] /\ \A t \in S, n \in 1 .. k : F[<<t, n>>] = t \o c[n]
  BY <1>2
<1> HIDE DEF F
<1>5. PICK g \in [0 .. k -> S] : Recursive(g, <<>>, F, k)
  BY <1>1, <1>3, <1>4, RecursionExists
<1> DEFINE h == [n \in 1 .. k |-> g[n]]
<1>6. ASSUME NEW n \in 1 .. k
      PROVE  h[n] = IF n = 1 THEN c[n] ELSE h[n - 1] \o c[n]
  <2>1. n # 0 /\ n \in 0 .. k /\ n - 1 \in 0 .. k
    BY <1>1
  <2>2. g[n] = F[<<g[n - 1], n>>] /\ g[n - 1] \in S
    BY <1>5, <2>1 DEF Recursive
  <2>3. g[n] = g[n - 1] \o c[n]
    BY <1>4, <2>2
  <2>4. CASE n = 1
    <3>1. g[n - 1] = <<>>
      <4>1. g[0] = <<>>
        BY <1>1, <1>5 DEF Recursive
      <4>2. n - 1 = 0
        BY <2>4
      <4> QED
        BY <4>1, <4>2
    <3>2. <<>> \o c[n] = c[n]
      BY <1>1, ConcatEmptySeq DEF S
    <3>3. h[n] = g[n]
      OBVIOUS
    <3>4. g[n] = c[n]
      BY <2>3, <3>1, <3>2
    <3> HIDE DEF h
    <3> QED
      BY <2>4, <3>3, <3>4
  <2>5. CASE n # 1
    <3>1. n - 1 \in 1 .. k
      BY <1>1, <2>5
    <3> QED
      BY <2>3, <2>5, <3>1
  <2> QED
    BY <2>4, <2>5
<1>7. h = [n \in 1 .. k |-> h[n]]
  OBVIOUS
<1> HIDE DEF h
<1>8. IsFlat(h, c)
  BY <1>6, <1>7 DEF IsFlat, k
<1> QED
  BY <1>8

\* A sequence is flattened as it is in front of one more.
LEMMA FlatUnique ==
  ASSUME NEW c, NEW d, NEW k \in Nat, Len(c) = k, Len(d) = k + 1,
         NEW g, NEW h, IsFlat(g, c), IsFlat(h, d), \A n \in 1 .. k : d[n] = c[n]
  PROVE  \A n \in 1 .. k : g[n] = h[n]
<1> DEFINE A == {n \in 0 .. k : n # 0 => g[n] = h[n]}
<1>1. \A n \in 1 .. Len(c) : g[n] = IF n = 1 THEN c[n] ELSE g[n - 1] \o c[n]
  BY DEF IsFlat
<1>2. \A n \in 1 .. Len(d) : h[n] = IF n = 1 THEN d[n] ELSE h[n - 1] \o d[n]
  BY DEF IsFlat
<1>3. 0 \in A
  OBVIOUS
<1>4. ASSUME NEW n \in 1 .. k, n - 1 \in A
      PROVE  n \in A
  <2>1. /\ g[n] = IF n = 1 THEN c[n] ELSE g[n - 1] \o c[n]
        /\ h[n] = IF n = 1 THEN d[n] ELSE h[n - 1] \o d[n]
    <3>1. n \in 1 .. Len(c) /\ n \in 1 .. Len(d)
      OBVIOUS
    <3> QED
      BY <1>1, <1>2, <3>1
  <2>2. n # 1 => g[n - 1] = h[n - 1]
    BY <1>4
  <2> QED
    BY <2>1, <2>2
<1> HIDE DEF A
<1>5. \A n \in 0 .. k : n \in A
  BY <1>3, <1>4, UpTo
<1> QED
  BY <1>5 DEF A

\* One more sequence at the end is flattened to the end.
LEMMA FlatLast ==
  ASSUME NEW E, NEW c \in Seq(Seq(E)), NEW x \in Seq(E)
  PROVE  FlattenSeq(Append(c, x)) = FlattenSeq(c) \o x
<1>1. PICK d : d = Append(c, x)
  OBVIOUS
<1>2. PICK k \in Nat : k = Len(c)
  OBVIOUS
<1>3. Len(d) = k + 1 /\ d[k + 1] = x /\ d \in Seq(Seq(E)) /\ \A n \in 1 .. k : d[n] = c[n]
  BY <1>1, <1>2
<1>4. PICK g : IsFlat(g, c) /\ (k # 0 => FlattenSeq(c) = g[k])
  BY <1>2, FlatExists, FlatIs
<1>5. PICK h : IsFlat(h, d) /\ FlattenSeq(d) = h[k + 1]
  BY <1>2, <1>3, FlatExists, FlatIs
<1>6. h[k + 1] = IF k = 0 THEN x ELSE h[k] \o x
  <2>1. k + 1 \in 1 .. Len(d) /\ (k + 1 = 1 <=> k = 0) /\ (k + 1) - 1 = k
    BY <1>3
  <2>2. h[k + 1] = IF k + 1 = 1 THEN d[k + 1] ELSE h[(k + 1) - 1] \o d[k + 1]
    BY <1>5, <2>1 DEF IsFlat
  <2> QED
    BY <1>3, <2>1, <2>2
<1>7. CASE k = 0
  <2>1. c = <<>>
    BY <1>2, <1>7, EmptySeq
  <2>2. FlattenSeq(c) = <<>>
    BY <2>1 DEF FlattenSeq
  <2> QED
    BY <1>1, <1>5, <1>6, <1>7, <2>2, ConcatEmptySeq
<1>8. CASE k # 0
  <2>1. \A n \in 1 .. k : g[n] = h[n]
    <3>1. Len(c) = k /\ Len(d) = k + 1 /\ \A n \in 1 .. k : d[n] = c[n]
      BY <1>2, <1>3
    <3>2. IsFlat(g, c) /\ IsFlat(h, d)
      BY <1>4, <1>5
    <3> QED
      BY <3>1, <3>2, FlatUnique, SMTT(30)
  <2>2. g[k] = h[k]
    BY <1>8, <2>1
  <2> QED
    BY <1>1, <1>4, <1>5, <1>6, <1>8, <2>2
<1> QED
  BY <1>7, <1>8

\* Flattening gives elements of what is flattened.
LEMMA FlatType ==
  ASSUME NEW E, NEW c \in Seq(Seq(E))
  PROVE  FlattenSeq(c) \in Seq(E)
<1>1. PICK k \in Nat : k = Len(c)
  OBVIOUS
<1>2. PICK g : IsFlat(g, c) /\ (k # 0 => FlattenSeq(c) = g[k])
  BY <1>1, FlatExists, FlatIs
<1>3. \A n \in 1 .. k : c[n] \in Seq(E) /\ g[n] = IF n = 1 THEN c[n] ELSE g[n - 1] \o c[n]
  <2>1. PICK S : S = Seq(E)
    OBVIOUS
  <2>2. \A n \in 1 .. Len(c) : c[n] \in S
    BY <2>1
  <2>3. \A n \in 1 .. Len(c) : g[n] = IF n = 1 THEN c[n] ELSE g[n - 1] \o c[n]
    BY <1>2 DEF IsFlat
  <2> QED
    BY <1>1, <2>1, <2>2, <2>3
<1> DEFINE A == {n \in 0 .. k : n # 0 => g[n] \in Seq(E)}
<1>4. 0 \in A
  OBVIOUS
<1>5. ASSUME NEW n \in 1 .. k, n - 1 \in A
      PROVE  n \in A
  <2>1. n # 1 => g[n - 1] \in Seq(E)
    BY <1>5
  <2>2. c[n] \in Seq(E) /\ g[n] = IF n = 1 THEN c[n] ELSE g[n - 1] \o c[n]
    BY <1>3
  <2>3. CASE n = 1
    BY <2>2, <2>3
  <2>4. CASE n # 1
    <3>1. g[n - 1] \o c[n] \in Seq(E)
      BY <2>1, <2>2, <2>4, ConcatProperties
    <3>2. g[n] \in Seq(E)
      BY <2>2, <2>4, <3>1
    <3> QED
      BY <3>2
  <2> QED
    BY <2>3, <2>4
<1> HIDE DEF A
<1>6. \A n \in 0 .. k : n \in A
  BY <1>4, <1>5, UpTo
<1>7. CASE k = 0
  <2>1. c = <<>>
    BY <1>1, <1>7, EmptySeq
  <2>2. FlattenSeq(c) = <<>>
    BY <2>1 DEF FlattenSeq
  <2> QED
    BY <2>2
<1>8. CASE k # 0
  <2>1. k \in A
    BY <1>6
  <2> QED
    BY <1>2, <1>8, <2>1 DEF A
<1> QED
  BY <1>7, <1>8

-----------------------------------------------------------------------------
(* What is taken out of a sequence.                                        *)

\* The members of a sequence and one more element.
LEMMA AppendedSet ==
  ASSUME NEW E, NEW s \in Seq(E), NEW e \in E
  PROVE  Append(s, e) \in Seq(E) /\ ToSet(Append(s, e)) = ToSet(s) \cup {e}
<1>1. PICK r : r = Append(s, e)
  OBVIOUS
<1>2. PICK n \in Nat : n = Len(s)
  OBVIOUS
<1>3. r \in Seq(E) /\ Len(r) = n + 1 /\ r[n + 1] = e /\ \A i \in 1 .. n : r[i] = s[i]
  BY <1>1, <1>2, AppendProperties
<1>4. ToSet(r) = {r[i] : i \in 1 .. n + 1} /\ ToSet(s) = {s[i] : i \in 1 .. n}
  BY <1>2, <1>3 DEF ToSet
<1>5. 1 .. n + 1 = (1 .. n) \cup {n + 1}
  OBVIOUS
<1> QED
  BY <1>1, <1>3, <1>4, <1>5

IsThose(g, s, S) ==
  g = [n \in 0 .. Len(s) |->
        IF n = 0 THEN <<>> ELSE IF s[n] \in S THEN Append(g[n - 1], s[n]) ELSE g[n - 1]]

\* Those is its recursion, run to the end.
LEMMA ThoseAre == ASSUME NEW s, NEW S PROVE Those(s, S) = (CHOOSE g : IsThose(g, s, S))[Len(s)]
BY Zenon DEF Those, IsThose

\* The recursion is defined for any sequence.
LEMMA ThoseExist ==
  ASSUME NEW E, NEW s \in Seq(E), NEW S
  PROVE  \E g : IsThose(g, s, S) /\ Those(s, S) = g[Len(s)]
<1> DEFINE k == Len(s)
           F == [x \in Seq(E) \X (1 .. k) |-> IF s[x[2]] \in S THEN Append(x[1], s[x[2]]) ELSE x[1]]
<1>1. k \in Nat /\ \A n \in 1 .. k : s[n] \in E
  OBVIOUS
<1>2. F \in [Seq(E) \X (1 .. k) -> Seq(E)]
  <2>1. ASSUME NEW x \in Seq(E) \X (1 .. k)
        PROVE  (IF s[x[2]] \in S THEN Append(x[1], s[x[2]]) ELSE x[1]) \in Seq(E)
    BY <1>1
  <2> QED
    BY <2>1
<1>3. <<>> \in Seq(E)
  OBVIOUS
<1>4. \A t \in Seq(E), n \in 1 .. k : F[<<t, n>>] = IF s[n] \in S THEN Append(t, s[n]) ELSE t
  BY <1>1
<1> HIDE DEF F
<1>5. PICK g \in [0 .. k -> Seq(E)] : Recursive(g, <<>>, F, k)
  <2> HIDE DEF k
  <2> QED
    BY <1>1, <1>2, <1>3, RecursionExists
<1>6. ASSUME NEW n \in 0 .. k
      PROVE  g[n] = IF n = 0 THEN <<>> ELSE IF s[n] \in S THEN Append(g[n - 1], s[n]) ELSE g[n - 1]
  <2> HIDE DEF k
  <2>1. CASE n = 0
    BY <1>1, <1>5, <2>1 DEF Recursive
  <2>2. CASE n # 0
    <3>1. n \in 1 .. k /\ n - 1 \in 0 .. k
      BY <1>1, <2>2
    <3>2. g[n] = F[<<g[n - 1], n>>] /\ g[n - 1] \in Seq(E)
      BY <1>5, <2>2, <3>1 DEF Recursive
    <3> QED
      BY <1>4, <2>2, <3>1, <3>2
  <2> QED
    BY <2>1, <2>2
<1>7. IsThose(g, s, S)
  <2>1. g = [n \in 0 .. k |-> g[n]]
    BY <1>5
  <2> QED
    BY <1>6, <2>1 DEF IsThose
<1> DEFINE h == CHOOSE f : IsThose(f, s, S)
<1>8. IsThose(h, s, S) /\ Those(s, S) = h[k]
  BY <1>7, ThoseAre
<1> HIDE DEF h
<1> QED
  BY <1>8

\* Step by step.
LEMMA ThoseStep ==
  ASSUME NEW s, NEW S, NEW g, IsThose(g, s, S), Len(s) \in Nat
  PROVE  g[0] = <<>> /\ \A n \in 1 .. Len(s) : g[n] = IF s[n] \in S THEN Append(g[n - 1], s[n]) ELSE g[n - 1]
<1>1. PICK k \in Nat : k = Len(s)
  OBVIOUS
<1>2. \A n \in 0 .. k :
        g[n] = IF n = 0 THEN <<>> ELSE IF s[n] \in S THEN Append(g[n - 1], s[n]) ELSE g[n - 1]
  BY <1>1 DEF IsThose
<1> QED
  BY <1>1, <1>2

\* What is taken is of the same kind, and is what there is of the set.
LEMMA ThoseMembers ==
  ASSUME NEW E, NEW s \in Seq(E), NEW S
  PROVE  Those(s, S) \in Seq(E) /\ ToSet(Those(s, S)) = ToSet(s) \cap S
<1>1. PICK k \in Nat : k = Len(s)
  OBVIOUS
<1>2. PICK g : IsThose(g, s, S) /\ Those(s, S) = g[k]
  BY <1>1, ThoseExist
<1>3. g[0] = <<>> /\ \A n \in 1 .. k : g[n] = IF s[n] \in S THEN Append(g[n - 1], s[n]) ELSE g[n - 1]
  BY <1>1, <1>2, ThoseStep
<1> DEFINE First(n) == {s[i] : i \in 1 .. n}
           A == {n \in 0 .. k : g[n] \in Seq(E) /\ ToSet(g[n]) = First(n) \cap S}
<1>4. 0 \in A
  <2>1. ToSet(<<>>) = {} /\ First(0) = {} /\ <<>> \in Seq(E) /\ 0 \in 0 .. k
    BY DEF ToSet
  <2> QED
    BY <1>3, <2>1
<1>5. ASSUME NEW n \in 1 .. k, n - 1 \in A
      PROVE  n \in A
  <2>1. g[n - 1] \in Seq(E) /\ ToSet(g[n - 1]) = First(n - 1) \cap S /\ s[n] \in E /\ n \in 0 .. k
    BY <1>1, <1>5
  <2>2. First(n) = First(n - 1) \cup {s[n]}
    <3>1. 1 .. n = (1 .. n - 1) \cup {n}
      OBVIOUS
    <3> QED
      BY <3>1
  <2>3. PICK t \in Seq(E) : t = g[n - 1]
    BY <2>1
  <2>4. Append(t, s[n]) \in Seq(E) /\ ToSet(Append(t, s[n])) = ToSet(t) \cup {s[n]}
    BY <2>1, AppendedSet
  <2> HIDE DEF First
  <2>5. CASE s[n] \in S
    BY <1>3, <2>1, <2>2, <2>3, <2>4, <2>5
  <2>6. CASE s[n] \notin S
    BY <1>3, <2>1, <2>2, <2>3, <2>6
  <2> QED
    BY <2>5, <2>6
<1>6. ToSet(s) = First(k)
  BY <1>1 DEF ToSet
<1> HIDE DEF A
<1>7. \A n \in 0 .. k : n \in A
  BY <1>4, <1>5, UpTo
<1>8. k \in A
  BY <1>7
<1> QED
  BY <1>2, <1>6, <1>8 DEF A

\* What is taken out of a sequence and of one more element.
LEMMA ThoseAppend ==
  ASSUME NEW E, NEW s \in Seq(E), NEW e \in E, NEW S
  PROVE  Those(Append(s, e), S) = IF e \in S THEN Append(Those(s, S), e) ELSE Those(s, S)
<1>1. PICK k \in Nat : k = Len(s)
  OBVIOUS
<1>2. PICK r \in Seq(E) : r = Append(s, e)
  <2>1. Append(s, e) \in Seq(E)
    BY AppendProperties
  <2> QED
    BY <2>1
<1>3. Len(r) = k + 1 /\ r[k + 1] = e /\ \A i \in 1 .. k : r[i] = s[i]
  BY <1>1, <1>2, AppendProperties
<1>4. PICK g : IsThose(g, s, S) /\ Those(s, S) = g[k]
  BY <1>1, ThoseExist
<1>5. PICK h : IsThose(h, r, S) /\ Those(r, S) = h[k + 1]
  BY <1>3, ThoseExist
<1>6. g[0] = <<>> /\ \A n \in 1 .. k : g[n] = IF s[n] \in S THEN Append(g[n - 1], s[n]) ELSE g[n - 1]
  BY <1>1, <1>4, ThoseStep
<1>7. h[0] = <<>> /\ \A n \in 1 .. k + 1 : h[n] = IF r[n] \in S THEN Append(h[n - 1], r[n]) ELSE h[n - 1]
  <2>1. Len(r) \in Nat
    BY <1>3
  <2> QED
    BY <1>3, <1>5, <2>1, ThoseStep
<1> DEFINE A == {n \in 0 .. k : g[n] = h[n]}
<1>8. 0 \in A
  BY <1>6, <1>7
<1>9. ASSUME NEW n \in 1 .. k, n - 1 \in A
      PROVE  n \in A
  <2>1. n \in 1 .. k + 1 /\ n \in 0 .. k /\ g[n - 1] = h[n - 1] /\ r[n] = s[n]
    BY <1>3, <1>9
  <2> QED
    BY <1>6, <1>7, <2>1
<1> HIDE DEF A
<1>10. \A n \in 0 .. k : n \in A
  BY <1>8, <1>9, UpTo
<1>11. g[k] = h[k]
  <2>1. k \in A
    BY <1>10
  <2> QED
    BY <2>1 DEF A
<1>12. h[k + 1] = IF e \in S THEN Append(h[k], e) ELSE h[k]
  <2>1. k + 1 \in 1 .. k + 1 /\ (k + 1) - 1 = k
    OBVIOUS
  <2> QED
    BY <1>3, <1>7, <2>1
<1> QED
  BY <1>2, <1>4, <1>5, <1>11, <1>12

\* What is taken out of nothing.
LEMMA ThoseEmpty == ASSUME NEW S PROVE Those(<<>>, S) = <<>>
<1>1. <<>> \in Seq({}) /\ Len(<<>>) = 0
  OBVIOUS
<1>2. PICK g : IsThose(g, <<>>, S) /\ Those(<<>>, S) = g[0]
  BY <1>1, ThoseExist
<1>3. g[0] = <<>>
  BY <1>1, <1>2, ThoseStep
<1> QED
  BY <1>2, <1>3

\* What is taken out of two sequences, one after the other.
LEMMA ThoseConcat ==
  ASSUME NEW E, NEW s \in Seq(E), NEW t \in Seq(E), NEW S
  PROVE  Those(s \o t, S) = Those(s, S) \o Those(t, S)
<1>1. PICK k \in Nat : k = Len(t)
  OBVIOUS
<1> DEFINE A == {n \in 0 .. k : Those(s \o SubSeq(t, 1, n), S) = Those(s, S) \o Those(SubSeq(t, 1, n), S)}
<1>2. PICK p \in Seq(E) : p = Those(s, S)
  BY ThoseMembers
<1>3. 0 \in A
  <2>1. SubSeq(t, 1, 0) = <<>>
    BY SubSeqEmpty
  <2>2. s \o <<>> = s /\ p \o <<>> = p
    BY ConcatEmptySeq
  <2>3. 0 \in 0 .. k
    OBVIOUS
  <2> QED
    BY <1>2, <2>1, <2>2, <2>3, ThoseEmpty
<1>4. ASSUME NEW n \in 1 .. k, n - 1 \in A
      PROVE  n \in A
  <2>1. PICK u \in Seq(E) : u = SubSeq(t, 1, n - 1)
    <3>1. n - 1 \in Int /\ \A i \in 1 .. n - 1 : t[i] \in E
      BY <1>1
    <3>2. SubSeq(t, 1, n - 1) \in Seq(E)
      BY <3>1
    <3> QED
      BY <3>2
  <2>2. t[n] \in E /\ n \in 1 .. Len(t) /\ 1 \in 1 .. Len(t) /\ n \in 0 .. k
    BY <1>1
  <2>3. SubSeq(t, 1, n) = Append(u, t[n])
    BY <2>1, <2>2, SubSeqRecursiveSecond, AppendIsConcat
  <2>4. Those(s \o u, S) = p \o Those(u, S)
    BY <1>2, <1>4, <2>1
  <2>5. PICK q \in Seq(E) : q = Those(u, S)
    BY ThoseMembers
  <2>6. PICK e \in E : e = t[n]
    BY <2>2
  <2>7. s \o Append(u, e) = Append(s \o u, e) /\ p \o Append(q, e) = Append(p \o q, e)
    <3>1. Append(u, e) = u \o <<e>> /\ Append(q, e) = q \o <<e>> /\ <<e>> \in Seq(E)
      BY AppendIsConcat
    <3>2. s \o u \in Seq(E) /\ p \o q \in Seq(E)
      BY ConcatProperties
    <3>3. Append(s \o u, e) = (s \o u) \o <<e>> /\ Append(p \o q, e) = (p \o q) \o <<e>>
      BY <3>2, AppendIsConcat
    <3>4. s \o (u \o <<e>>) = (s \o u) \o <<e>>
      BY <3>1, ConcatAssociative
    <3>6. p \o (q \o <<e>>) = (p \o q) \o <<e>>
      BY <3>1, ConcatAssociative
    <3>5. s \o Append(u, e) = s \o (u \o <<e>>) /\ p \o Append(q, e) = p \o (q \o <<e>>)
      BY <3>1
    <3> QED
      BY <3>3, <3>4, <3>5, <3>6
  <2>8. Those(Append(s \o u, e), S) = IF e \in S THEN Append(p \o q, e) ELSE p \o q
    <3>1. s \o u \in Seq(E)
      BY ConcatProperties
    <3> QED
      BY <2>4, <2>5, <3>1, ThoseAppend
  <2>9. Those(Append(u, e), S) = IF e \in S THEN Append(q, e) ELSE q
    BY <2>5, ThoseAppend
  <2>10. Those(s \o SubSeq(t, 1, n), S) = Those(s, S) \o Those(SubSeq(t, 1, n), S)
    BY <1>2, <2>3, <2>6, <2>7, <2>8, <2>9
  <2> QED
    BY <2>2, <2>10
<1> HIDE DEF A
<1>5. \A n \in 0 .. k : n \in A
  BY <1>3, <1>4, UpTo
<1>6. k \in A
  BY <1>5
<1>7. SubSeq(t, 1, k) = t
  BY <1>1, SubSeqFull
<1> QED
  BY <1>6, <1>7 DEF A

\* Nothing is left out if every member is taken.
LEMMA ThoseAll ==
  ASSUME NEW E, NEW s \in Seq(E), NEW S, ToSet(s) \subseteq S
  PROVE  Those(s, S) = s
<1>1. PICK k \in Nat : k = Len(s)
  OBVIOUS
<1>2. \A n \in 1 .. k : s[n] \in S /\ s[n] \in E
  <2>1. ToSet(s) = {s[i] : i \in 1 .. Len(s)}
    BY MembersOf
  <2> QED
    BY <1>1, <2>1
<1> DEFINE A == {n \in 0 .. k : Those(SubSeq(s, 1, n), S) = SubSeq(s, 1, n)}
<1>3. 0 \in A
  <2>1. SubSeq(s, 1, 0) = <<>>
    BY SubSeqEmpty
  <2>2. 0 \in 0 .. k
    OBVIOUS
  <2> QED
    BY <2>1, <2>2, ThoseEmpty
<1>4. ASSUME NEW n \in 1 .. k, n - 1 \in A
      PROVE  n \in A
  <2>1. PICK u \in Seq(E) : u = SubSeq(s, 1, n - 1)
    <3>1. n - 1 \in Int /\ \A i \in 1 .. n - 1 : s[i] \in E
      BY <1>1
    <3>2. SubSeq(s, 1, n - 1) \in Seq(E)
      BY <3>1
    <3> QED
      BY <3>2
  <2>2. n \in 1 .. Len(s) /\ 1 \in 1 .. Len(s) /\ n \in 0 .. k
    BY <1>1
  <2>3. SubSeq(s, 1, n) = Append(u, s[n])
    BY <1>2, <2>1, <2>2, SubSeqRecursiveSecond, AppendIsConcat
  <2>4. Those(u, S) = u
    BY <1>4, <2>1
  <2>5. PICK e \in E : e = s[n] /\ e \in S
    BY <1>2
  <2>6. Those(Append(u, e), S) = Append(u, e)
    BY <2>4, <2>5, ThoseAppend
  <2> QED
    BY <2>2, <2>3, <2>5, <2>6
<1> HIDE DEF A
<1>5. \A n \in 0 .. k : n \in A
  BY <1>3, <1>4, UpTo
<1>6. k \in A
  BY <1>5
<1>7. SubSeq(s, 1, k) = s
  BY <1>1, SubSeqFull
<1> QED
  BY <1>6, <1>7 DEF A

\* Everything is left out if no member is taken.
LEMMA ThoseNone ==
  ASSUME NEW E, NEW s \in Seq(E), NEW S, ToSet(s) \cap S = {}
  PROVE  Those(s, S) = <<>>
<1>1. PICK r \in Seq(E) : r = Those(s, S) /\ ToSet(r) = {}
  BY ThoseMembers
<1>2. ToSet(r) = {r[i] : i \in 1 .. Len(r)}
  BY MembersOf
<1>3. Len(r) = 0
  <2>1. Len(r) \in Nat
    OBVIOUS
  <2>2. SUFFICES ASSUME Len(r) # 0 PROVE FALSE
    OBVIOUS
  <2>3. 1 \in 1 .. Len(r)
    BY <2>1, <2>2
  <2> QED
    BY <1>1, <1>2, <2>3
<1> QED
  BY <1>1, <1>3, EmptySeq

-----------------------------------------------------------------------------
(* The call tree.                                                          *)

FlameNode(i) == <<"layers", i \div 5>> \o (IF i % 5 = 0 THEN <<>> ELSE <<Parts[i % 5]>>)
Embed == <<"embed_tokens">>
Top == <<Root, Embed, Block>>
Bottom == <<<<"norm">>, <<"lm_head">>>>
Middle(n) == [i \in 1 .. 5 * n |-> FlameNode(i - 1)]

Layer5(l) == <<"layers", l>>
Part(l, k) == <<"layers", l, Parts[k]>>
Paths == {Root, Embed, Block, <<"norm">>, <<"lm_head">>}
           \cup {Layer5(l) : l \in Nat} \cup {Part(l, k) : l \in Nat, k \in 1 .. 4}

\* A pair and one more element.
LEMMA PairConcat ==
  ASSUME NEW E, NEW a \in E, NEW b \in E, NEW x \in E
  PROVE  <<a, b>> \o <<x>> = <<a, b, x>> /\ <<a, b>> \o <<>> = <<a, b>>
<1>1. <<a, b>> \in Seq(E) /\ <<x>> \in Seq(E)
  OBVIOUS
<1>2. PICK s \in Seq(E), t \in Seq(E) : s = <<a, b>> /\ t = <<x>>
  BY <1>1
<1>3. Len(s) = 2 /\ s[1] = a /\ s[2] = b /\ Len(t) = 1 /\ t[1] = x
  BY <1>2
<1>4. s \o <<>> = s
  BY ConcatEmptySeq
<1>5. PICK r \in Seq(E) : r = s \o t
  BY ConcatLen
<1>6. Len(r) = 3 /\ r[1] = a /\ r[2] = b /\ r[3] = x
  <2>1. Len(s \o t) = Len(s) + Len(t)
    BY ConcatLen
  <2>2. \A k \in 1 .. Len(s) : (s \o t)[k] = s[k]
    BY ConcatLeft
  <2>3. \A k \in 1 .. Len(t) : (s \o t)[Len(s) + k] = t[k]
    BY ConcatRight
  <2>4. 1 \in 1 .. Len(s) /\ 2 \in 1 .. Len(s) /\ 1 \in 1 .. Len(t) /\ Len(s) + 1 = 3
    BY <1>3
  <2> QED
    BY <1>3, <1>5, <2>1, <2>2, <2>3, <2>4
<1>7. r = <<a, b, x>>
  <2>1. r = [i \in 1 .. Len(r) |-> r[i]]
    BY AsFunction
  <2> QED
    BY <1>6, <2>1
<1> QED
  BY <1>2, <1>4, <1>5, <1>7

\* The same for elements of any kind.
LEMMA PairAndMore == ASSUME NEW a, NEW b, NEW x PROVE <<a, b>> \o <<x>> = <<a, b, x>> /\ <<a, b>> \o <<>> = <<a, b>>
<1>1. a \in {a, b, x} /\ b \in {a, b, x} /\ x \in {a, b, x}
  OBVIOUS
<1> QED
  BY <1>1, PairConcat

\* The nodes in terms of their layers.
LEMMA FlameNodeIs ==
  ASSUME NEW l \in Nat
  PROVE  FlameNode(5 * l) = Layer5(l) /\ \A k \in 1 .. 4 : FlameNode(5 * l + k) = Part(l, k)
<1>1. (5 * l) \div 5 = l /\ (5 * l) % 5 = 0
  OBVIOUS
<1>2. ASSUME NEW k \in 1 .. 4 PROVE (5 * l + k) \div 5 = l /\ (5 * l + k) % 5 = k
  OBVIOUS
<1>3. ASSUME NEW x PROVE <<"layers", l>> \o <<x>> = <<"layers", l, x>>
  BY PairAndMore
<1>4. <<"layers", l>> \o <<>> = <<"layers", l>>
  BY PairAndMore
<1>5. FlameNode(5 * l) = Layer5(l)
  BY <1>1, <1>4 DEF FlameNode, Layer5
<1>6. ASSUME NEW k \in 1 .. 4
      PROVE  FlameNode(5 * l + k) = Part(l, k)
  <2>1. k # 0
    OBVIOUS
  <2>2. FlameNode(5 * l + k) = <<"layers", l>> \o <<Parts[k]>>
    BY <1>2, <2>1 DEF FlameNode
  <2> QED
    BY <1>3, <2>2 DEF Part
<1> QED
  BY <1>5, <1>6

\* Every index is that of a layer or of one of its four parts.
LEMMA NodeOfLayer ==
  ASSUME NEW i \in Nat
  PROVE  \E l \in Nat : l = i \div 5 /\ (i = 5 * l \/ \E k \in 1 .. 4 : i = 5 * l + k)
OBVIOUS

\* Every node is a path.
LEMMA FlameNodeType == \A i \in Nat : FlameNode(i) \in Paths
<1> SUFFICES ASSUME NEW i \in Nat PROVE FlameNode(i) \in Paths
  OBVIOUS
<1>1. PICK l \in Nat : i = 5 * l \/ \E k \in 1 .. 4 : i = 5 * l + k
  BY NodeOfLayer
<1>2. CASE i = 5 * l
  <2>1. FlameNode(i) = Layer5(l)
    BY <1>2, FlameNodeIs
  <2> QED
    BY <2>1 DEF Paths
<1>3. ASSUME NEW k \in 1 .. 4, i = 5 * l + k PROVE FlameNode(i) \in Paths
  <2>1. FlameNode(i) = Part(l, k)
    BY <1>3, FlameNodeIs
  <2> QED
    BY <2>1 DEF Paths
<1> QED
  BY <1>1, <1>2, <1>3

\* The call tree in three parts: the beginning, the layers and the end.
LEMMA FlameNodesAre ==
  ASSUME NEW n \in Nat
  PROVE  /\ FlameNodes(n) = (Top \o Middle(n)) \o Bottom
         /\ Middle(n) \in Seq(Paths) /\ Top \in Seq(Paths) /\ Bottom \in Seq(Paths)
<1>1. FlameNodes(n) = (Top \o Middle(n)) \o Bottom
  BY DEF FlameNodes, Top, Middle, Bottom, FlameNode, Embed
<1>2. \A i \in 1 .. 5 * n : FlameNode(i - 1) \in Paths
  BY FlameNodeType
<1>3. Middle(n) \in Seq(Paths)
  <2>1. 5 * n \in Nat
    OBVIOUS
  <2> QED
    BY <1>2, <2>1 DEF Middle
<1>4. {Root, Embed, Block, <<"norm">>, <<"lm_head">>} \subseteq Paths
  BY DEF Paths
<1>5. PICK a, b, c, d, e : a = Root /\ b = Embed /\ c = Block /\ d = <<"norm">> /\ e = <<"lm_head">>
  OBVIOUS
<1>6. <<a, b, c>> \in Seq(Paths) /\ <<d, e>> \in Seq(Paths)
  BY <1>4, <1>5
<1> QED
  BY <1>1, <1>3, <1>5, <1>6 DEF Top, Bottom

NodesOf(n) ==
  {Root, Embed, Block, <<"norm">>, <<"lm_head">>} \cup {FlameNode(i) : i \in 0 .. 5 * n - 1}

\* The nodes of the end, and those of the layers.
LEMMA PartSets ==
  ASSUME NEW n \in Nat
  PROVE  /\ ToSet(Bottom) = {<<"norm">>, <<"lm_head">>}
         /\ ToSet(Middle(n)) = {FlameNode(i) : i \in 0 .. 5 * n - 1}
<1>1. PICK s \in Seq(Paths) : s = Bottom
  BY FlameNodesAre
<1>2. Len(s) = 2 /\ s[1] = <<"norm">> /\ s[2] = <<"lm_head">>
  BY <1>1 DEF Bottom
<1>3. ToSet(s) = {s[i] : i \in 1 .. 2}
  BY <1>2, MembersOf
<1>4. ToSet(s) = {s[1], s[2]}
  BY <1>3
<1>5. 5 * n \in Nat
  OBVIOUS
<1>6. PICK m \in Seq(Paths) : m = Middle(n)
  BY FlameNodesAre
<1>7. Len(m) = 5 * n /\ \A i \in 1 .. 5 * n : m[i] = FlameNode(i - 1)
  BY <1>5, <1>6 DEF Middle
<1>8. ToSet(m) = {m[i] : i \in 1 .. 5 * n}
  BY <1>7, MembersOf
<1>9. ToSet(m) = {FlameNode(i - 1) : i \in 1 .. 5 * n}
  BY <1>7, <1>8
<1>10. \A i \in 0 .. 5 * n - 1 : i + 1 \in 1 .. 5 * n /\ (i + 1) - 1 = i
  BY <1>5
<1>11. \A i \in 1 .. 5 * n : i - 1 \in 0 .. 5 * n - 1
  BY <1>5
<1> QED
  BY <1>1, <1>2, <1>4, <1>6, <1>9, <1>10, <1>11

\* Which nodes there are.
LEMMA FlameNodeSet ==
  ASSUME NEW n \in Nat
  PROVE  FlameNodes(n) \in Seq(Paths) /\ ToSet(FlameNodes(n)) = NodesOf(n)
<1>1. /\ FlameNodes(n) = (Top \o Middle(n)) \o Bottom
      /\ Middle(n) \in Seq(Paths) /\ Top \in Seq(Paths) /\ Bottom \in Seq(Paths)
  BY FlameNodesAre
<1>7. PICK a \in Seq(Paths), b \in Seq(Paths), c \in Seq(Paths) : a = Top /\ b = Middle(n) /\ c = Bottom
  BY <1>1
<1>2. a \o b \in Seq(Paths) /\ ToSet(a \o b) = ToSet(a) \cup ToSet(b)
  BY SetOfConcat
<1>8. PICK d \in Seq(Paths) : d = a \o b
  BY <1>2
<1>3. d \o c \in Seq(Paths) /\ ToSet(d \o c) = ToSet(d) \cup ToSet(c)
  BY SetOfConcat
<1>4. ToSet(Top) = {Root, Embed, Block}
  <2>1. 1 .. 3 = {1, 2, 3} /\ Len(Top) = 3 /\ Top[1] = Root /\ Top[2] = Embed /\ Top[3] = Block
    BY DEF Top
  <2>2. ToSet(Top) = {Top[1], Top[2], Top[3]}
    BY <2>1 DEF ToSet
  <2> QED
    BY <2>1, <2>2
<1>5. ToSet(c) = {<<"norm">>, <<"lm_head">>} /\ ToSet(b) = {FlameNode(i) : i \in 0 .. 5 * n - 1}
  BY <1>7, PartSets
<1> QED
  BY <1>1, <1>2, <1>3, <1>4, <1>5, <1>7, <1>8 DEF NodesOf

Inside(l) == [k \in 1 .. 4 |-> Part(l, k)]
Five(l) == <<Layer5(l)>> \o Inside(l)

\* The first row of a layer and the rows inside it.
LEMMA FiveIs ==
  ASSUME NEW l \in Nat
  PROVE  /\ <<Layer5(l)>> \in Seq(Paths) /\ Inside(l) \in Seq(Paths) /\ Five(l) \in Seq(Paths)
         /\ Len(Five(l)) = 5 /\ Five(l)[1] = Layer5(l) /\ \A k \in 1 .. 4 : Five(l)[k + 1] = Part(l, k)
<1>1. Layer5(l) \in Paths /\ \A k \in 1 .. 4 : Part(l, k) \in Paths
  BY DEF Paths
<1>2. <<Layer5(l)>> \in Seq(Paths) /\ Len(<<Layer5(l)>>) = 1 /\ <<Layer5(l)>>[1] = Layer5(l)
  BY <1>1
<1>3. Inside(l) \in Seq(Paths) /\ Len(Inside(l)) = 4 /\ \A k \in 1 .. 4 : Inside(l)[k] = Part(l, k)
  <2>1. Inside(l) \in [1 .. 4 -> Paths] /\ \A k \in 1 .. 4 : Inside(l)[k] = Part(l, k)
    BY <1>1 DEF Inside
  <2>2. 4 \in Nat
    OBVIOUS
  <2>3. Inside(l) \in Seq(Paths) /\ Len(Inside(l)) = 4
    BY <2>1, <2>2, FunctionIsSeq
  <2> QED
    BY <2>1, <2>3
<1>4. PICK s \in Seq(Paths), t \in Seq(Paths) : s = <<Layer5(l)>> /\ t = Inside(l)
  BY <1>2, <1>3
<1>5. Five(l) = s \o t
  BY <1>4 DEF Five
<1>6. s \o t \in Seq(Paths) /\ Len(s \o t) = Len(s) + Len(t)
  BY ConcatLen
<1>7. \A k \in 1 .. Len(s) : (s \o t)[k] = s[k]
  BY ConcatLeft
<1>8. \A k \in 1 .. Len(t) : (s \o t)[Len(s) + k] = t[k]
  BY ConcatRight
<1>9. Len(s) = 1 /\ Len(t) = 4
  BY <1>2, <1>3, <1>4
<1>10. PICK f : f = Five(l)
  OBVIOUS
<1>11. f \in Seq(Paths) /\ Len(f) = 5
  BY <1>5, <1>6, <1>9, <1>10
<1>12. f[1] = Layer5(l)
  <2>1. 1 \in 1 .. Len(s)
    BY <1>9
  <2> QED
    BY <1>2, <1>4, <1>5, <1>7, <1>10, <2>1
<1>13. \A k \in 1 .. 4 : f[k + 1] = Part(l, k)
  <2> SUFFICES ASSUME NEW k \in 1 .. 4 PROVE f[k + 1] = Part(l, k)
    OBVIOUS
  <2>1. k \in 1 .. Len(t) /\ Len(s) + k = k + 1
    BY <1>9
  <2>2. f[Len(s) + k] = t[k]
    BY <1>5, <1>8, <1>10, <2>1
  <2> QED
    BY <1>3, <1>4, <2>1, <2>2
<1> QED
  BY <1>2, <1>3, <1>10, <1>11, <1>12, <1>13

\* The rows of one more layer.
LEMMA FiveMore == ASSUME NEW m \in Nat PROVE Middle(m + 1) = Middle(m) \o Five(m)
<1>1. PICK M \in Seq(Paths) : M = Middle(m)
  BY FlameNodesAre
<1>2. PICK F \in Seq(Paths) : F = Five(m) /\ Len(F) = 5
  BY FiveIs
<1>3. PICK R \in Seq(Paths) : R = Middle(m + 1)
  BY FlameNodesAre
<1>4. PICK q \in Nat : q = 5 * m
  OBVIOUS
<1>5. Len(M) = q /\ \A i \in 1 .. q : M[i] = FlameNode(i - 1)
  BY <1>1, <1>4 DEF Middle
<1>6. Len(R) = q + 5 /\ \A i \in 1 .. q + 5 : R[i] = FlameNode(i - 1)
  <2>1. 5 * (m + 1) = q + 5
    BY <1>4
  <2> QED
    BY <1>3, <2>1 DEF Middle
<1>7. \A k \in 1 .. 5 : F[k] = FlameNode(q + k - 1)
  <2>1. F[1] = FlameNode(q) /\ \A k \in 1 .. 4 : F[k + 1] = FlameNode(q + k)
    BY <1>2, <1>4, FiveIs, FlameNodeIs
  <2> SUFFICES ASSUME NEW k \in 1 .. 5 PROVE F[k] = FlameNode(q + k - 1)
    OBVIOUS
  <2>2. CASE k = 1
    BY <2>1, <2>2
  <2>3. CASE k # 1
    <3>1. k - 1 \in 1 .. 4 /\ (k - 1) + 1 = k /\ q + (k - 1) = q + k - 1
      BY <2>3
    <3> QED
      BY <2>1, <3>1
  <2> QED
    BY <2>2, <2>3
<1>8. PICK T \in Seq(Paths) : T = M \o F
  BY ConcatLen
<1>9. /\ Len(T) = q + 5
      /\ \A i \in 1 .. q : T[i] = M[i]
      /\ \A i \in 1 .. 5 : T[q + i] = F[i]
  <2>1. Len(M \o F) = Len(M) + Len(F)
    BY ConcatLen
  <2>2. \A i \in 1 .. Len(M) : (M \o F)[i] = M[i]
    BY ConcatLeft
  <2>3. \A i \in 1 .. Len(F) : (M \o F)[Len(M) + i] = F[i]
    BY ConcatRight
  <2> QED
    BY <1>2, <1>5, <1>8, <2>1, <2>2, <2>3
<1>10. \A i \in 1 .. q + 5 : T[i] = R[i]
  <2> SUFFICES ASSUME NEW i \in 1 .. q + 5 PROVE T[i] = R[i]
    OBVIOUS
  <2>1. CASE i \in 1 .. q
    BY <1>5, <1>6, <1>9, <2>1
  <2>2. CASE i \notin 1 .. q
    <3>1. i - q \in 1 .. 5 /\ q + (i - q) = i
      BY <2>2
    <3>2. T[i] = F[i - q]
      BY <1>9, <3>1
    <3>3. F[i - q] = FlameNode(q + (i - q) - 1)
      BY <1>7, <3>1
    <3>4. F[i - q] = FlameNode(i - 1)
      BY <3>1, <3>3
    <3> QED
      BY <1>6, <3>2, <3>4
  <2> QED
    BY <2>1, <2>2
<1>11. T = R
  BY <1>6, <1>9, <1>10, SeqEqual
<1> QED
  BY <1>1, <1>2, <1>3, <1>8, <1>11

\* The beginnings of a path.
LEMMA Starts ==
  ASSUME NEW E, NEW a \in E, NEW b \in E, NEW c \in E
  PROVE  /\ SubSeq(<<a, b>>, 1, 1) = <<a>>
         /\ SubSeq(<<a, b, c>>, 1, 1) = <<a>> /\ SubSeq(<<a, b, c>>, 1, 2) = <<a, b>>
<1>1. /\ <<a>> \in Seq(E) /\ <<a, b>> \in Seq(E) /\ <<a, b, c>> \in Seq(E)
      /\ Len(<<a>>) = 1 /\ Len(<<a, b>>) = 2 /\ Len(<<a, b, c>>) = 3
  OBVIOUS
<1>2. PICK s \in Seq(E), t \in Seq(E), u \in Seq(E) : s = <<a>> /\ t = <<a, b>> /\ u = <<a, b, c>>
  BY <1>1
<1>3. /\ Len(s) = 1 /\ Len(t) = 2 /\ Len(u) = 3
      /\ s[1] = a /\ t[1] = a /\ t[2] = b /\ u[1] = a /\ u[2] = b
  BY <1>1, <1>2
<1>4. SubSeq(t, 1, 1) = s
  <2>1. 1 \in 1 .. Len(t) + 1 /\ 1 \in 0 .. Len(t)
    BY <1>3
  <2>2. PICK r \in Seq(E) : r = SubSeq(t, 1, 1) /\ Len(r) = 1 /\ r[1] = t[1]
    BY <1>3, <2>1, SubSeqProperties
  <2> QED
    BY <1>3, <2>2, SeqEqual
<1>5. SubSeq(u, 1, 1) = s
  <2>1. 1 \in 1 .. Len(u) + 1 /\ 1 \in 0 .. Len(u)
    BY <1>3
  <2>2. PICK r \in Seq(E) : r = SubSeq(u, 1, 1) /\ Len(r) = 1 /\ r[1] = u[1]
    BY <1>3, <2>1, SubSeqProperties
  <2> QED
    BY <1>3, <2>2, SeqEqual
<1>6. SubSeq(u, 1, 2) = t
  <2>1. 1 \in 1 .. Len(u) + 1 /\ 2 \in 0 .. Len(u)
    BY <1>3
  <2>2. PICK r \in Seq(E) : r = SubSeq(u, 1, 2) /\ Len(r) = 2 /\ r[1] = u[1] /\ r[2] = u[2]
    BY <1>3, <2>1, SubSeqProperties
  <2> QED
    BY <1>3, <2>2, SeqEqual
<1> QED
  BY <1>2, <1>4, <1>5, <1>6

\* The same for elements of any kind.
LEMMA PathStarts ==
  ASSUME NEW a, NEW b, NEW c
  PROVE  /\ SubSeq(<<a, b>>, 1, 1) = <<a>>
         /\ SubSeq(<<a, b, c>>, 1, 1) = <<a>> /\ SubSeq(<<a, b, c>>, 1, 2) = <<a, b>>
<1>1. a \in {a, b, c} /\ b \in {a, b, c} /\ c \in {a, b, c}
  OBVIOUS
<1> QED
  BY <1>1, Starts

\* Where every node is.
LEMMA AboveIs ==
  /\ Above(Root) = {}
  /\ \A p \in {Embed, Block, <<"norm">>, <<"lm_head">>} : Above(p) = {Root}
  /\ \A l \in Nat : Above(Layer5(l)) = {Root, Block}
  /\ \A l \in Nat, k \in 1 .. 4 : Above(Part(l, k)) = {Root, Block, Layer5(l)}
<1>1. Above(Root) = {}
  BY DEF Above, Root
<1>2. \A p \in {Embed, <<"norm">>, <<"lm_head">>} : Above(p) = {Root}
  <2>1. ASSUME NEW p, p \in {Embed, <<"norm">>, <<"lm_head">>} PROVE p[1] \notin {"layers", "Inference"}
    BY <2>1 DEF Embed
  <2> QED
    BY <2>1 DEF Above, Root
<1>3. Above(Block) = {Root}
  <2>1. Block[1] = "layers" /\ Len(Block) = 1 /\ Root[1] = "Inference"
    BY DEF Block, Root
  <2>2. 1 .. Len(Block) - 1 = {}
    BY <2>1
  <2> QED
    BY <2>1, <2>2 DEF Above
<1>4. ASSUME NEW l \in Nat PROVE Above(Layer5(l)) = {Root, Block}
  <2>1. Layer5(l)[1] = "layers" /\ Len(Layer5(l)) = 2 /\ Root[1] = "Inference"
    BY DEF Layer5, Root
  <2>2. 1 .. Len(Layer5(l)) - 1 = {1}
    BY <2>1
  <2>3. SubSeq(Layer5(l), 1, 1) = Block
    BY PathStarts DEF Layer5, Block
  <2> QED
    BY <2>1, <2>2, <2>3 DEF Above
<1>5. ASSUME NEW l \in Nat, NEW k \in 1 .. 4 PROVE Above(Part(l, k)) = {Root, Block, Layer5(l)}
  <2>1. Part(l, k)[1] = "layers" /\ Len(Part(l, k)) = 3 /\ Root[1] = "Inference"
    BY DEF Part, Root
  <2>2. 1 .. Len(Part(l, k)) - 1 = {1, 2}
    BY <2>1
  <2>3. SubSeq(Part(l, k), 1, 1) = Block /\ SubSeq(Part(l, k), 1, 2) = Layer5(l)
    BY PathStarts DEF Part, Layer5, Block
  <2> QED
    BY <2>1, <2>2, <2>3 DEF Above
<1> QED
  BY <1>1, <1>2, <1>3, <1>4, <1>5

\* Every node of a layer is inside the layers.
LEMMA AboveNode == ASSUME NEW i \in Nat PROVE Root \in Above(FlameNode(i)) /\ Block \in Above(FlameNode(i))
<1>1. PICK l \in Nat : i = 5 * l \/ \E k \in 1 .. 4 : i = 5 * l + k
  BY NodeOfLayer
<1>2. CASE i = 5 * l
  <2>1. FlameNode(i) = Layer5(l)
    BY <1>2, FlameNodeIs
  <2> QED
    BY <2>1, AboveIs
<1>3. ASSUME NEW k \in 1 .. 4, i = 5 * l + k
      PROVE  Root \in Above(FlameNode(i)) /\ Block \in Above(FlameNode(i))
  <2>1. FlameNode(i) = Part(l, k)
    BY <1>3, FlameNodeIs
  <2> QED
    BY <2>1, AboveIs
<1> QED
  BY <1>1, <1>2, <1>3

\* The parts of a layer.
LEMMA SetOfInside ==
  ASSUME NEW l \in Nat PROVE Inside(l) \in Seq(Paths) /\ ToSet(Inside(l)) = {Part(l, k) : k \in 1 .. 4}
<1>1. PICK s \in Seq(Paths) : s = Inside(l)
  BY FiveIs
<1>2. Len(s) = 4 /\ \A k \in 1 .. 4 : s[k] = Part(l, k)
  BY <1>1 DEF Inside
<1>3. ToSet(s) = {s[i] : i \in 1 .. Len(s)}
  BY MembersOf
<1>4. ToSet(s) = {Part(l, k) : k \in 1 .. 4}
  BY <1>2, <1>3
<1> QED
  BY <1>1, <1>4

\* The nodes of a layer are nodes of the call tree.
LEMMA NodesInside ==
  ASSUME NEW n \in Nat, NEW l \in 0 .. n - 1
  PROVE  Layer5(l) \in NodesOf(n) /\ \A k \in 1 .. 4 : Part(l, k) \in NodesOf(n)
<1>1. l \in Nat /\ 5 * l \in 0 .. 5 * n - 1 /\ \A k \in 1 .. 4 : 5 * l + k \in 0 .. 5 * n - 1
  OBVIOUS
<1>2. FlameNode(5 * l) = Layer5(l) /\ \A k \in 1 .. 4 : FlameNode(5 * l + k) = Part(l, k)
  BY <1>1, FlameNodeIs
<1>3. \A i \in 0 .. 5 * n - 1 : FlameNode(i) \in NodesOf(n)
  BY DEF NodesOf
<1> QED
  BY <1>1, <1>2, <1>3

\* A wider model has the nodes of a narrower one.
LEMMA MoreNodes ==
  ASSUME NEW a \in Nat, NEW b \in Nat, a <= b
  PROVE  NodesOf(a) \subseteq NodesOf(b)
<1>1. \A i \in 0 .. 5 * a - 1 : i \in 0 .. 5 * b - 1
  OBVIOUS
<1> QED
  BY <1>1 DEF NodesOf
=============================================================================

--------------------------- MODULE Numbers_proofs ---------------------------
(***************************************************************************)
(* Least and greatest members of sets of numbers, for the definitions that *)
(* choose one: the first matching transition, the latest snapshot.  The    *)
(* least number that a property misses stands for induction, also for      *)
(* functions that are defined by recursion along a sequence.               *)
(***************************************************************************)
EXTENDS Naturals, FiniteSetTheorems, TLAPS

\* A nonempty set of numbers has a least one.  With i the least, 0..i is
\* minimal for inclusion, and inclusion of finite sets is well founded.
LEMMA LeastNumber ==
    ASSUME NEW T \in SUBSET Nat, T # {}
    PROVE  \E i \in T : \A j \in T : i <= j
<1> DEFINE R == StrictSubsetOrdering(Nat)
           F == {0 .. i : i \in T}
<1>1. IsWellFoundedOn(R, FiniteSubsetsOf(Nat))
  BY FS_StrictSubsetOrderingWellFounded
<1>2. \A i \in T : 0 .. i \in FiniteSubsetsOf(Nat)
  BY FS_Interval DEF FiniteSubsetsOf
<1>3. PICK x \in F : \A y \in F : ~ (<<y, x>> \in R)
  <2>1. F \subseteq FiniteSubsetsOf(Nat) /\ F # {}
    BY <1>2
  <2> HIDE DEF R, F
  <2> QED BY <1>1, <2>1, WFMin
<1>4. PICK i \in T : x = 0 .. i
  BY <1>3
<1>5. ASSUME NEW j \in T, j < i PROVE FALSE
  <2>1. i \in 0 .. i /\ i \notin 0 .. j
    BY <1>5
  <2>2. 0 .. j \subseteq 0 .. i
    BY <1>5
  <2>3. 0 .. j \in SUBSET Nat /\ 0 .. i \in SUBSET Nat
    OBVIOUS
  <2>4. <<0 .. j, 0 .. i>> \in R
    BY <2>1, <2>2, <2>3 DEF StrictSubsetOrdering
  <2> QED BY <2>4, <1>3, <1>4
<1> QED BY <1>5

\* A bounded nonempty set of numbers has a greatest one: what is least of the
\* distances to the bound.
LEMMA GreatestNumber ==
    ASSUME NEW T \in SUBSET Nat, T # {}, NEW n \in Nat, \A i \in T : i <= n
    PROVE  \E i \in T : \A j \in T : j <= i
<1> DEFINE D == {n - i : i \in T}
<1>1. D \in SUBSET Nat /\ D # {}
  <2>1. \A i \in T : n - i \in Nat
    OBVIOUS
  <2> QED BY <2>1
<1>2. PICK d \in D : \A e \in D : d <= e
  <2> HIDE DEF D
  <2> QED BY <1>1, LeastNumber
<1>3. PICK i \in T : d = n - i
  OBVIOUS
<1>4. ASSUME NEW j \in T PROVE j <= i
  <2>1. n - i <= n - j
    BY <1>2, <1>3
  <2> QED BY <2>1
<1> QED BY <1>4

\* Induction up to n: of the numbers that T leaves out there is no least one.
LEMMA UpTo ==
    ASSUME NEW n \in Nat, NEW T, 1 \in T, \A k \in T : k \in 1 .. n /\ k # n => k + 1 \in T
    PROVE  \A k \in 1 .. n : k \in T
<1> DEFINE Beyond == {k \in 1 .. n : k \notin T}
<1> SUFFICES ASSUME Beyond # {} PROVE FALSE
  OBVIOUS
<1>1. PICK k \in Beyond : \A j \in Beyond : k <= j
  <2>1. Beyond \in SUBSET Nat
    OBVIOUS
  <2> HIDE DEF Beyond
  <2> QED BY <2>1, LeastNumber
<1>2. k \in 1 .. n /\ k \notin T /\ k # 1
  OBVIOUS
<1>3. k - 1 \in 1 .. n /\ k - 1 # n /\ k - 1 + 1 = k /\ ~(k <= k - 1)
  BY <1>2
<1>4. k - 1 \in T
  BY <1>1, <1>3
<1> QED BY <1>2, <1>3, <1>4

\* f is first at 1, and at every other place what step makes of the one before.
Unfolds(f, n, first, step) ==
    \A k \in 1 .. n : f[k] = IF k = 1 THEN first ELSE step[<<k - 1, f[k - 1]>>]

\* A function that says at every place what follows from the place before it
\* exists: it is put together place by place.
LEMMA RecursionUnfolds ==
    ASSUME NEW n \in Nat \ {0}, NEW S, NEW first \in S,
           NEW step \in [(1 .. n) \X S -> S]
    PROVE  \E f \in [1 .. n -> S] : Unfolds(f, n, first, step)
<1> DEFINE Reaches(m) == \E f \in [1 .. m -> S] : Unfolds(f, m, first, step)
           T == {m \in 1 .. n : Reaches(m)}
<1>1. Reaches(1)
  <2>1. PICK f : f = [k \in 1 .. 1 |-> first]
    OBVIOUS
  <2>2. f \in [1 .. 1 -> S] /\ \A k \in 1 .. 1 : k = 1 /\ f[k] = first
    BY <2>1
  <2> QED BY <2>2 DEF Unfolds
<1>2. ASSUME NEW m \in 1 .. n, m # n, Reaches(m)
      PROVE  Reaches(m + 1)
  <2>1. PICK f \in [1 .. m -> S] :
            \A k \in 1 .. m : f[k] = IF k = 1 THEN first ELSE step[<<k - 1, f[k - 1]>>]
    BY <1>2 DEF Unfolds
  <2>2. PICK x : x = step[<<m, f[m]>>]
    OBVIOUS
  <2>3. x \in S
    <3>1. <<m, f[m]>> \in (1 .. n) \X S
      OBVIOUS
    <3> QED BY <2>2, <3>1
  <2>4. PICK g : g = [k \in 1 .. (m + 1) |-> IF k = m + 1 THEN x ELSE f[k]]
    OBVIOUS
  <2>5. g \in [1 .. (m + 1) -> S]
    BY <2>3, <2>4
  <2>6. ASSUME NEW k \in 1 .. (m + 1)
        PROVE  g[k] = IF k = 1 THEN first ELSE step[<<k - 1, g[k - 1]>>]
    <3>1. CASE k = m + 1
      <4>1. g[k] = x /\ k - 1 = m /\ k # 1 /\ g[m] = f[m]
        BY <2>4, <3>1
      <4> QED BY <2>2, <4>1
    <3>2. CASE k # m + 1
      <4>1. k \in 1 .. m /\ (k # 1 => k - 1 \in 1 .. m)
        BY <3>2
      <4>2. g[k] = f[k] /\ (k # 1 => g[k - 1] = f[k - 1])
        BY <2>4, <4>1
      <4> QED BY <2>1, <4>1, <4>2
    <3> QED BY <3>1, <3>2
  <2> QED BY <2>5, <2>6 DEF Unfolds
<1> HIDE DEF Reaches
<1>3. 1 \in T /\ \A m \in T : m \in 1 .. n /\ m # n => m + 1 \in T
  BY <1>1, <1>2
<1>4. \A m \in 1 .. n : m \in T
  <2> HIDE DEF T
  <2> QED BY <1>3, UpTo
<1>5. Reaches(n)
  BY <1>4
<1> QED BY <1>5 DEF Reaches

\* Upwards from 0.
LEMMA UpFromZero ==
    ASSUME NEW n \in Nat, NEW T, 0 \in T, \A k \in T : k \in 0 .. (n - 1) => k + 1 \in T
    PROVE  \A k \in 0 .. n : k \in T
<1> DEFINE Beyond == {k \in 0 .. n : k \notin T}
<1> SUFFICES ASSUME Beyond # {} PROVE FALSE
  OBVIOUS
<1>1. PICK k \in Beyond : \A j \in Beyond : k <= j
  <2>1. Beyond \in SUBSET Nat
    OBVIOUS
  <2> HIDE DEF Beyond
  <2> QED BY <2>1, LeastNumber
<1>2. k \in 0 .. n /\ k \notin T /\ k # 0
  OBVIOUS
<1>3. k - 1 \in 0 .. n /\ k - 1 \in 0 .. (n - 1) /\ k - 1 + 1 = k /\ ~(k <= k - 1)
  BY <1>2
<1>4. k - 1 \in T
  BY <1>1, <1>3
<1> QED BY <1>2, <1>3, <1>4
=============================================================================

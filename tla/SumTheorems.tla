----------------------------- MODULE SumTheorems -----------------------------
(***************************************************************************)
(* Induction over sets, and what it shows of sums and of functions that    *)
(* follow a path.  A property of numbers or of finite sets is given as the *)
(* set of those that have it, as the provers find no operator to put in    *)
(* the place of a predicate.                                               *)
(***************************************************************************)
EXTENDS FiniteSetsExt, FiniteSetTheorems, WellFoundedInduction, TLAPS

-----------------------------------------------------------------------------
(* Induction.                                                              *)

\* A set of natural numbers has a smallest one.
LEMMA SmallestOf ==
  ASSUME NEW T \in SUBSET Nat, T # {}
  PROVE  \E m \in T : \A k \in T : m <= k
<1> DEFINE Less == {ss \in Nat \X Nat : ss[1] < ss[2]}
<1>1. IsWellFoundedOn(Less, Nat)
  BY NatLessThanWellFounded DEF OpToRel
<1>2. \A j, k \in Nat : j < k => <<j, k>> \in Less
  OBVIOUS
<1> HIDE DEF Less
<1>3. PICK m \in T : \A k \in T : <<k, m>> \notin Less
  BY <1>1, WFMin
<1>4. \A k \in T : ~(k < m)
  BY <1>2, <1>3
<1> QED
  BY <1>4

\* And one of those up to k, a largest.
LEMMA LargestOf ==
  ASSUME NEW k \in Nat, NEW T \in SUBSET (1 .. k), T # {}
  PROVE  \E m \in T : \A j \in T : j <= m
<1>1. PICK R : R = {n \in Nat : k - n \in T}
  OBVIOUS
<1>2. \A j \in T : k - j \in R
  BY <1>1
<1>3. PICK n \in R : \A j \in R : n <= j
  BY <1>1, <1>2, SmallestOf
<1>4. k - n \in T /\ n \in Nat
  BY <1>1
<1>5. \A j \in T : j <= k - n
  BY <1>2, <1>3, <1>4
<1> QED
  BY <1>4, <1>5

\* Induction over the natural numbers.
LEMMA NumbersByInduction ==
  ASSUME NEW P \in SUBSET Nat, 0 \in P, \A n \in P : n + 1 \in P
  PROVE  P = Nat
<1> SUFFICES ASSUME Nat \ P # {} PROVE FALSE
  OBVIOUS
<1>1. PICK m \in Nat \ P : \A k \in Nat \ P : m <= k
  BY SmallestOf
<1>2. m # 0 /\ m - 1 \in Nat
  BY <1>1
<1>3. m - 1 \in P
  BY <1>1, <1>2
<1>4. (m - 1) + 1 \in P
  BY <1>3
<1> QED
  BY <1>1, <1>2, <1>4

\* Induction over the subsets of a finite set, one element after another.
LEMMA SubsetsByInduction ==
  ASSUME NEW S, IsFiniteSet(S), NEW P \in SUBSET (SUBSET S), {} \in P,
         \A s \in SUBSET S : s # {} /\ (\A x \in s : s \ {x} \in P) => s \in P
  PROVE  P = SUBSET S
<1> DEFINE N == {n \in Nat : \A s \in SUBSET S : Cardinality(s) = n => s \in P}
<1>1. \A s \in SUBSET S : IsFiniteSet(s) /\ Cardinality(s) \in Nat
  BY FS_Subset, FS_CardinalityType
<1>2. 0 \in N
  BY <1>1, FS_EmptySet
<1>3. ASSUME NEW n \in N PROVE n + 1 \in N
  <2> SUFFICES ASSUME NEW s \in SUBSET S, Cardinality(s) = n + 1 PROVE s \in P
    OBVIOUS
  <2>1. s # {}
    BY FS_EmptySet
  <2>2. ASSUME NEW x \in s PROVE s \ {x} \in P
    <3>1. Cardinality(s \ {x}) = n
      BY <1>1, FS_RemoveElement
    <3> QED
      BY <3>1
  <2> QED
    BY <2>1, <2>2
<1>4. N \in SUBSET Nat
  OBVIOUS
<1>5. N = Nat
  <2> HIDE DEF N
  <2> QED
    BY <1>2, <1>3, <1>4, NumbersByInduction
<1> QED
  BY <1>1, <1>5

-----------------------------------------------------------------------------
(* Functions that follow a path: f is base where that stops, and what it   *)
(* is at the next element elsewhere.                                       *)

Follows(f, S, ends, base, next) ==
  f = [x \in S |-> IF x \in ends THEN base[x] ELSE f[next[x]]]

\* There is such a function when every path ends.
LEMMA PathsEnd ==
  ASSUME NEW S, NEW V, NEW ends, NEW base \in [S -> V], NEW next, NEW N \in Nat,
         NEW left \in [S -> 0 .. N],
         \A x \in S : x \notin ends => next[x] \in S /\ left[next[x]] < left[x]
  PROVE  \E f \in [S -> V] : Follows(f, S, ends, base, next)
<1> DEFINE Right(f, n) == \A x \in S : left[x] < n =>
                            f[x] = IF x \in ends THEN base[x] ELSE f[next[x]]
           P == {n \in Nat : \E f \in [S -> V] : Right(f, n)}
<1>1. 0 \in P
  <2>1. Right(base, 0)
    OBVIOUS
  <2> QED
    BY <2>1
<1>2. ASSUME NEW n \in P PROVE n + 1 \in P
  <2>1. PICK f \in [S -> V] : Right(f, n)
    OBVIOUS
  <2>2. PICK g : g = [x \in S |-> IF x \in ends THEN base[x]
                                  ELSE IF next[x] \in S THEN f[next[x]] ELSE base[x]]
    OBVIOUS
  <2>3. g \in [S -> V]
    BY <2>2
  <2>4. ASSUME NEW x \in S, left[x] < n + 1
        PROVE  g[x] = IF x \in ends THEN base[x] ELSE g[next[x]]
    <3>1. CASE x \in ends
      BY <2>2, <3>1
    <3>2. CASE x \notin ends
      <4>1. next[x] \in S /\ left[next[x]] < n /\ n \in Nat
        BY <2>4, <3>2
      <4>2. g[x] = f[next[x]]
        BY <2>2, <3>2, <4>1
      <4>3. f[next[x]] = IF next[x] \in ends THEN base[next[x]] ELSE f[next[next[x]]]
        BY <2>1, <4>1
      <4>4. g[next[x]] = IF next[x] \in ends THEN base[next[x]] ELSE f[next[next[x]]]
        BY <2>2, <4>1
      <4> QED
        BY <3>2, <4>2, <4>3, <4>4
    <3> QED
      BY <3>1, <3>2
  <2>5. Right(g, n + 1)
    BY <2>4
  <2> QED
    BY <2>3, <2>5
<1>3. P = Nat
  <2>1. P \in SUBSET Nat
    OBVIOUS
  <2> HIDE DEF P
  <2> QED
    BY <1>1, <1>2, <2>1, NumbersByInduction
<1>4. PICK f \in [S -> V] : Right(f, N + 1)
  <2>1. N + 1 \in P
    <3>1. N + 1 \in Nat
      OBVIOUS
    <3> HIDE DEF P
    <3> QED
      BY <1>3, <3>1
  <2> QED
    BY <2>1
<1>5. \A x \in S : left[x] < N + 1
  OBVIOUS
<1>6. f = [x \in S |-> IF x \in ends THEN base[x] ELSE f[next[x]]]
  BY <1>4, <1>5
<1> QED
  BY <1>6 DEF Follows

\* It only has the values of ends.
LEMMA PathsEndIn ==
  ASSUME NEW S, NEW V, NEW ends, NEW base, NEW next, NEW N \in Nat, NEW left \in [S -> 0 .. N],
         \A x \in S : x \in ends => base[x] \in V,
         \A x \in S : x \notin ends => next[x] \in S /\ left[next[x]] < left[x],
         NEW f, Follows(f, S, ends, base, next)
  PROVE  \A x \in S : f[x] \in V
<1>1. PICK P : P = {n \in Nat : \A x \in S : left[x] < n => f[x] \in V}
  OBVIOUS
<1>2. \A x \in S : left[x] \in 0 .. N
  OBVIOUS
<1>3. 0 \in P
  BY <1>1, <1>2
<1>4. ASSUME NEW n \in P PROVE n + 1 \in P
  <2> SUFFICES ASSUME NEW x \in S, left[x] < n + 1 PROVE f[x] \in V
    BY <1>1
  <2>1. f[x] = IF x \in ends THEN base[x] ELSE f[next[x]]
    BY DEF Follows
  <2>2. x \notin ends => next[x] \in S /\ left[next[x]] < n
    BY <1>1, <1>2
  <2> QED
    BY <1>1, <2>1, <2>2
<1>5. P = Nat
  BY <1>1, <1>3, <1>4, NumbersByInduction
<1>6. N + 1 \in P /\ \A x \in S : left[x] < N + 1
  BY <1>2, <1>5
<1> QED
  BY <1>1, <1>6


\* In a finite set in which no path runs in a circle, they end.
LEMMA PathsShorten ==
  ASSUME NEW S, IsFiniteSet(S), NEW next,
         \A T \in SUBSET S : T # {} => \E x \in T : next[x] \notin T
  PROVE  \E left \in [S -> 0 .. Cardinality(S)] :
           \A x \in S : next[x] \in S => left[next[x]] < left[x]
<1>1. PICK Closed : Closed = {C \in SUBSET S : \A x \in C : next[x] \in S => next[x] \in C}
  OBVIOUS
<1>2. PICK Path : Path = [x \in S |-> {y \in S : \A C \in Closed : x \in C => y \in C}]
  OBVIOUS
<1>3. ASSUME NEW x \in S
      PROVE  /\ x \in Path[x] /\ Path[x] \in Closed /\ Path[x] \subseteq S
             /\ \A C \in Closed : x \in C => Path[x] \subseteq C
  BY <1>1, <1>2
<1>4. ASSUME NEW x \in S, next[x] \in S PROVE Path[next[x]] \subseteq Path[x]
  BY <1>1, <1>3, <1>4
<1>5. ASSUME NEW x \in S, next[x] \in S, x \in Path[next[x]] PROVE FALSE
  <2>1. PICK T : T = {y \in Path[x] : x \in Path[y]}
    OBVIOUS
  <2>2. T \in SUBSET S /\ x \in T
    BY <1>3, <2>1
  <2>3. ASSUME NEW y \in T PROVE next[y] \in T
    <3>1. y \in S /\ y \in Path[x] /\ x \in Path[y]
      BY <2>1, <2>2
    <3>2. CASE next[y] \notin S
      <4>1. {y} \in Closed
        BY <1>1, <3>1, <3>2
      <4> QED
        BY <1>3, <1>5, <3>1, <3>2, <4>1
    <3>3. CASE next[y] \in S
      <4>1. next[y] \in Path[x]
        BY <1>1, <1>3, <3>1, <3>3
      <4>2. {y} \cup Path[next[y]] \in Closed
        <5>1. next[y] \in Path[next[y]] /\ Path[next[y]] \in Closed
          BY <1>3, <3>3
        <5> QED
          BY <1>1, <3>1, <5>1
      <4>3. Path[y] \subseteq {y} \cup Path[next[y]]
        BY <1>3, <3>1, <4>2
      <4> QED
        BY <1>5, <2>1, <3>1, <4>1, <4>3
    <3> QED
      BY <3>2, <3>3
  <2> QED
    BY <2>2, <2>3
<1>6. \A x \in S : IsFiniteSet(Path[x]) /\ Cardinality(Path[x]) \in 0 .. Cardinality(S)
  <2>1. ASSUME NEW x \in S PROVE IsFiniteSet(Path[x]) /\ Cardinality(Path[x]) \in 0 .. Cardinality(S)
    <3>1. Path[x] \subseteq S
      BY <1>3
    <3> QED
      BY <3>1, FS_Subset, FS_CardinalityType
  <2> QED
    BY <2>1
<1>7. PICK left : left = [x \in S |-> Cardinality(Path[x])]
  OBVIOUS
<1>8. ASSUME NEW x \in S, next[x] \in S PROVE left[next[x]] < left[x]
  <2>1. Path[next[x]] \subseteq Path[x] /\ Path[next[x]] # Path[x]
    BY <1>3, <1>4, <1>5, <1>8
  <2>2. Cardinality(Path[next[x]]) < Cardinality(Path[x])
    <3>1. /\ Cardinality(Path[next[x]]) <= Cardinality(Path[x])
          /\ Cardinality(Path[next[x]]) = Cardinality(Path[x]) => Path[next[x]] = Path[x]
      BY <1>6, <2>1, FS_Subset
    <3>2. Cardinality(Path[next[x]]) \in Nat /\ Cardinality(Path[x]) \in Nat
      BY <1>6, <1>8, FS_CardinalityType
    <3> QED
      BY <2>1, <3>1, <3>2
  <2> QED
    BY <1>7, <1>8, <2>2
<1> QED
  BY <1>6, <1>7, <1>8

-----------------------------------------------------------------------------
(* The sum as it is computed, one chosen element after another.            *)

Chosen(s) == CHOOSE x \in s : TRUE

\* it holds the sums of g over the subsets of S.
AreSums(it, g, S) ==
  it = [s \in SUBSET S |-> IF s = {} THEN 0 ELSE g[Chosen(s)] + it[s \ {Chosen(s)}]]

LEMMA ChosenIsIn == ASSUME NEW s, s # {} PROVE Chosen(s) \in s
  BY DEF Chosen

\* There are such sums.
LEMMA SumsExist ==
  ASSUME NEW S, IsFiniteSet(S), NEW g
  PROVE  \E it : AreSums(it, g, S)
<1> DEFINE Small(n) == {s \in SUBSET S : Cardinality(s) <= n}
           UpTo(it, n) ==
             it = [s \in Small(n) |-> IF s = {} THEN 0 ELSE g[Chosen(s)] + it[s \ {Chosen(s)}]]
           N == {n \in Nat : \E it : UpTo(it, n)}
<1>1. \A s \in SUBSET S : IsFiniteSet(s) /\ Cardinality(s) \in Nat
  BY FS_Subset, FS_CardinalityType
<1>2. 0 \in N
  <2> DEFINE it == [s \in Small(0) |-> 0]
  <2>1. Small(0) = {{}}
    BY <1>1, FS_EmptySet
  <2>2. UpTo(it, 0)
    BY <2>1
  <2> QED
    BY <2>2
<1>3. ASSUME NEW n \in N PROVE n + 1 \in N
  <2>1. PICK it : UpTo(it, n)
    OBVIOUS
  <2> DEFINE next == [s \in Small(n + 1) |->
                        IF s = {} THEN 0 ELSE g[Chosen(s)] + it[s \ {Chosen(s)}]]
  <2>2. \A s \in Small(n) : next[s] = it[s]
    <3>1. Small(n) \subseteq Small(n + 1)
      BY <1>1
    <3> QED
      BY <2>1, <3>1
  <2>3. ASSUME NEW s \in Small(n + 1), s # {} PROVE s \ {Chosen(s)} \in Small(n)
    <3>1. Cardinality(s \ {Chosen(s)}) = Cardinality(s) - 1
      BY <1>1, <2>3, ChosenIsIn, FS_RemoveElement
    <3> QED
      BY <1>1, <3>1
  <2>4. UpTo(next, n + 1)
    BY <2>2, <2>3
  <2> HIDE DEF next, UpTo
  <2>5. \E later : UpTo(later, n + 1)
    BY <2>4
  <2> QED
    BY <2>5
<1>4. N = Nat
  <2>1. N \in SUBSET Nat
    OBVIOUS
  <2> HIDE DEF N
  <2> QED
    BY <1>2, <1>3, <2>1, NumbersByInduction
<1>5. PICK it : UpTo(it, Cardinality(S))
  BY <1>1, <1>4
<1>6. Small(Cardinality(S)) = SUBSET S
  BY FS_Subset
<1> QED
  BY <1>5, <1>6 DEF AreSums

\* The sum is what they say of the whole set.
LEMMA SumIs ==
  ASSUME NEW S, IsFiniteSet(S), NEW g, DOMAIN g = S
  PROVE  \E it : AreSums(it, g, S) /\ SumFunction(g) = it[S]
<1>1. SumFunction(g) = (CHOOSE it : AreSums(it, g, S))[S]
  BY DEF SumFunction, SumFunctionOnSet, FoldFunctionOnSet, MapThenFoldSet, AreSums, Chosen
<1>2. \E it : AreSums(it, g, S)
  BY SumsExist
<1> HIDE DEF AreSums
<1>3. AreSums(CHOOSE it : AreSums(it, g, S), g, S)
  BY <1>2
<1> QED
  BY <1>1, <1>3

LEMMA SumType ==
  ASSUME NEW S, IsFiniteSet(S), NEW g \in [S -> Int]
  PROVE  SumFunction(g) \in Int
<1>1. PICK git : AreSums(git, g, S) /\ SumFunction(g) = git[S]
  BY SumIs
<1> DEFINE P == {s \in SUBSET S : git[s] \in Int}
<1>2. {} \in P
  BY <1>1, ChosenIsIn DEF AreSums
<1>3. ASSUME NEW s \in SUBSET S, s # {}, \A x \in s : s \ {x} \in P PROVE s \in P
  <2> DEFINE c == Chosen(s)
  <2>1. c \in s /\ git[s] = g[c] + git[s \ {c}]
    BY <1>1, <1>3, ChosenIsIn DEF AreSums
  <2>2. s \ {c} \in P
    BY <1>3, <2>1
  <2>3. g[c] \in Int
    BY <2>1
  <2> HIDE DEF c
  <2> QED
    BY <2>1, <2>2, <2>3
<1>4. P = SUBSET S
  <2>1. P \in SUBSET (SUBSET S)
    OBVIOUS
  <2> HIDE DEF P
  <2> QED
    BY <1>2, <1>3, <2>1, SubsetsByInduction
<1> QED
  BY <1>1, <1>4

\* The sum of a function below another is below.
LEMMA SumMonotone ==
  ASSUME NEW S, IsFiniteSet(S), NEW f \in [S -> Int], NEW g \in [S -> Int],
         \A x \in S : f[x] <= g[x]
  PROVE  SumFunction(f) <= SumFunction(g)
<1>1. PICK fit : AreSums(fit, f, S) /\ SumFunction(f) = fit[S]
  BY SumIs
<1>2. PICK git : AreSums(git, g, S) /\ SumFunction(g) = git[S]
  BY SumIs
<1> DEFINE P == {s \in SUBSET S : fit[s] \in Int /\ git[s] \in Int /\ fit[s] <= git[s]}
<1>3. {} \in P
  BY <1>1, <1>2, ChosenIsIn DEF AreSums
<1>4. ASSUME NEW s \in SUBSET S, s # {}, \A x \in s : s \ {x} \in P PROVE s \in P
  <2> DEFINE c == Chosen(s)
  <2>1. c \in s /\ fit[s] = f[c] + fit[s \ {c}] /\ git[s] = g[c] + git[s \ {c}]
    BY <1>1, <1>2, <1>4, ChosenIsIn DEF AreSums
  <2>2. s \ {c} \in P
    BY <1>4, <2>1
  <2>3. f[c] \in Int /\ g[c] \in Int /\ f[c] <= g[c]
    BY <2>1
  <2> HIDE DEF c
  <2> QED
    BY <2>1, <2>2, <2>3
<1>5. P = SUBSET S
  <2>1. P \in SUBSET (SUBSET S)
    OBVIOUS
  <2> HIDE DEF P
  <2> QED
    BY <1>3, <1>4, <2>1, SubsetsByInduction
<1> QED
  BY <1>1, <1>2, <1>5

\* The values of h are those of f and g together.
IsPlus(h, f, g, S) == \A x \in S : h[x] = f[x] + g[x]

\* The sum of the sums.
LEMMA SumPlus ==
  ASSUME NEW S, IsFiniteSet(S), NEW f \in [S -> Int], NEW g \in [S -> Int], NEW h \in [S -> Int],
         IsPlus(h, f, g, S)
  PROVE  SumFunction(h) = SumFunction(f) + SumFunction(g)
<1>1. PICK fit : AreSums(fit, f, S) /\ SumFunction(f) = fit[S]
  BY SumIs
<1>2. PICK git : AreSums(git, g, S) /\ SumFunction(g) = git[S]
  BY SumIs
<1>3. PICK hit : AreSums(hit, h, S) /\ SumFunction(h) = hit[S]
  BY SumIs
<1> DEFINE P == {s \in SUBSET S : fit[s] \in Int /\ git[s] \in Int /\ hit[s] = fit[s] + git[s]}
<1>4. {} \in P
  BY <1>1, <1>2, <1>3, ChosenIsIn DEF AreSums
<1>5. ASSUME NEW s \in SUBSET S, s # {}, \A x \in s : s \ {x} \in P PROVE s \in P
  <2> DEFINE c == Chosen(s)
  <2>1. /\ c \in s /\ fit[s] = f[c] + fit[s \ {c}] /\ git[s] = g[c] + git[s \ {c}]
        /\ hit[s] = h[c] + hit[s \ {c}]
    BY <1>1, <1>2, <1>3, <1>5, ChosenIsIn DEF AreSums
  <2>2. s \ {c} \in P
    BY <1>5, <2>1
  <2>3. f[c] \in Int /\ g[c] \in Int /\ h[c] = f[c] + g[c]
    BY <2>1 DEF IsPlus
  <2> HIDE DEF c
  <2> QED
    BY <2>1, <2>2, <2>3
<1>6. P = SUBSET S
  <2>1. P \in SUBSET (SUBSET S)
    OBVIOUS
  <2> HIDE DEF P
  <2> QED
    BY <1>4, <1>5, <2>1, SubsetsByInduction
<1> QED
  BY <1>1, <1>2, <1>3, <1>6

\* The sum of ones counts.
LEMMA SumOfOnes ==
  ASSUME NEW S, IsFiniteSet(S)
  PROVE  SumFunction([x \in S |-> 1]) = Cardinality(S)
<1> DEFINE f == [x \in S |-> 1]
<1>1. PICK fit : AreSums(fit, f, S) /\ SumFunction(f) = fit[S]
  BY SumIs
<1> DEFINE P == {s \in SUBSET S : fit[s] = Cardinality(s)}
<1>2. {} \in P
  BY <1>1, FS_EmptySet, ChosenIsIn DEF AreSums
<1>3. ASSUME NEW s \in SUBSET S, s # {}, \A x \in s : s \ {x} \in P PROVE s \in P
  <2> DEFINE c == Chosen(s)
  <2>1. c \in s /\ fit[s] = 1 + fit[s \ {c}]
    BY <1>1, <1>3, ChosenIsIn DEF AreSums
  <2>2. fit[s \ {c}] = Cardinality(s \ {c})
    BY <1>3, <2>1
  <2>3. IsFiniteSet(s) /\ Cardinality(s) \in Nat
    BY FS_Subset, FS_CardinalityType
  <2>4. Cardinality(s \ {c}) = Cardinality(s) - 1
    BY <2>1, <2>3, FS_RemoveElement
  <2> QED
    BY <2>1, <2>2, <2>3, <2>4
<1>4. P = SUBSET S
  <2>1. P \in SUBSET (SUBSET S)
    OBVIOUS
  <2> HIDE DEF P
  <2> QED
    BY <1>2, <1>3, <2>1, SubsetsByInduction
<1> QED
  BY <1>1, <1>4

\* The sum of a function that is 0 but for one element.
LEMMA SumOfOne ==
  ASSUME NEW S, IsFiniteSet(S), NEW f \in [S -> Int], NEW a \in S, \A x \in S \ {a} : f[x] = 0
  PROVE  SumFunction(f) = f[a]
<1>1. PICK fit : AreSums(fit, f, S) /\ SumFunction(f) = fit[S]
  BY SumIs
<1> DEFINE P == {s \in SUBSET S : fit[s] = IF a \in s THEN f[a] ELSE 0}
<1>2. {} \in P
  BY <1>1, ChosenIsIn DEF AreSums
<1>3. ASSUME NEW s \in SUBSET S, s # {}, \A x \in s : s \ {x} \in P PROVE s \in P
  <2> DEFINE c == Chosen(s)
  <2>1. c \in s /\ fit[s] = f[c] + fit[s \ {c}]
    BY <1>1, <1>3, ChosenIsIn DEF AreSums
  <2>2. fit[s \ {c}] = IF a \in s \ {c} THEN f[a] ELSE 0
    BY <1>3, <2>1
  <2>3. f[a] \in Int /\ f[c] = IF c = a THEN f[a] ELSE 0
    BY <2>1
  <2> HIDE DEF c
  <2> QED
    BY <2>1, <2>2, <2>3
<1>4. P = SUBSET S
  <2>1. P \in SUBSET (SUBSET S)
    OBVIOUS
  <2> HIDE DEF P
  <2> QED
    BY <1>2, <1>3, <2>1, SubsetsByInduction
<1> QED
  BY <1>1, <1>4

\* A function of zeros sums to zero.
LEMMA SumOfZeros ==
  ASSUME NEW S, IsFiniteSet(S), NEW f \in [S -> Int], \A x \in S : f[x] = 0
  PROVE  SumFunction(f) = 0
<1>1. PICK it : AreSums(it, f, S) /\ SumFunction(f) = it[S]
  BY SumIs
<1> DEFINE P == {s \in SUBSET S : it[s] = 0}
<1>2. {} \in P
  BY <1>1 DEF AreSums
<1>3. ASSUME NEW s \in SUBSET S, s # {}, \A x \in s : s \ {x} \in P PROVE s \in P
  <2> DEFINE c == Chosen(s)
  <2>1. c \in s /\ it[s] = f[c] + it[s \ {c}]
    BY <1>1, <1>3, ChosenIsIn DEF AreSums
  <2>2. s \ {c} \in P /\ f[c] = 0
    BY <1>3, <2>1
  <2> HIDE DEF c
  <2> QED
    BY <2>1, <2>2
<1>4. P = SUBSET S
  <2>1. P \in SUBSET (SUBSET S)
    OBVIOUS
  <2> HIDE DEF P
  <2> QED
    BY <1>2, <1>3, <2>1, SubsetsByInduction
<1> QED
  BY <1>1, <1>4

\* Two functions that differ at one element.
LEMMA SumChangedAtOne ==
  ASSUME NEW S, IsFiniteSet(S), NEW f \in [S -> Int], NEW g \in [S -> Int],
         NEW a \in S, \A x \in S \ {a} : f[x] = g[x]
  PROVE  SumFunction(f) + g[a] = SumFunction(g) + f[a]
<1> DEFINE d == [x \in S |-> IF x = a THEN f[a] - g[a] ELSE 0]
<1>1. d \in [S -> Int] /\ d[a] = f[a] - g[a] /\ \A x \in S \ {a} : d[x] = 0
  OBVIOUS
<1>2. IsPlus(f, g, d, S)
  BY DEF IsPlus
<1> HIDE DEF d
<1>3. SumFunction(d) = f[a] - g[a]
  BY <1>1, SumOfOne
<1>4. SumFunction(f) = SumFunction(g) + SumFunction(d)
  BY <1>1, <1>2, SumPlus
<1>5. SumFunction(f) \in Int /\ SumFunction(g) \in Int
  BY SumType
<1> QED
  BY <1>3, <1>4, <1>5

-----------------------------------------------------------------------------
(* Remainders.                                                             *)

LEMMA Quotient ==
  ASSUME NEW m \in Nat \ {0}, NEW a \in Int
  PROVE  a \div m \in Int /\ a % m \in 0 .. m - 1 /\ a = m * (a \div m) + (a % m)
  OBVIOUS

LEMMA RemainderIs ==
  ASSUME NEW m \in Nat \ {0}, NEW a \in Int, NEW q \in Int, NEW r \in 0 .. m - 1,
         a = m * q + r
  PROVE  a % m = r
  OBVIOUS

\* Remainders may be taken before an addition.
LEMMA RemainderOfSum ==
  ASSUME NEW m \in Nat \ {0}, NEW a \in Int, NEW d \in Int
  PROVE  ((a % m) + d) % m = (a + d) % m
<1> DEFINE q == a \div m
           r == a % m
           p == (r + d) \div m
           s == (r + d) % m
<1>1. q \in Int /\ r \in 0 .. m - 1 /\ a = m * q + r
  BY Quotient
<1>2. p \in Int /\ s \in 0 .. m - 1 /\ r + d = m * p + s
  <2>1. r + d \in Int
    BY <1>1
  <2> HIDE DEF r
  <2> QED
    BY <2>1, Quotient
<1> HIDE DEF q, p, r, s
<1>3. a + d = m * (q + p) + s
  BY <1>1, <1>2
<1>4. (a + d) % m = s
  <2> DEFINE z == a + d
             k == q + p
  <2>1. z \in Int /\ k \in Int /\ z = m * k + s
    BY <1>1, <1>2, <1>3
  <2> HIDE DEF z, k
  <2>2. z % m = s
    BY <1>2, <2>1, RemainderIs
  <2> QED
    BY <2>2 DEF z
<1> QED
  BY <1>4 DEF r, s

\* The remainder of a number smaller than the divisor.
LEMMA RemainderOfSmall ==
  ASSUME NEW m \in Nat \ {0}, NEW a \in Int, -m < a, a < m
  PROVE  a % m = IF a >= 0 THEN a ELSE a + m
<1>1. a = m * 0 + a
  OBVIOUS
<1>2. a = m * (-1) + (a + m)
  OBVIOUS
<1> QED
  BY <1>1, <1>2, RemainderIs

LEMMA RemainderIsSmaller ==
  ASSUME NEW m \in Nat \ {0}, NEW a \in Nat
  PROVE  a % m <= a
  OBVIOUS
=============================================================================

------------------------------ MODULE SumTheorems ------------------------------
(***************************************************************************)
(* What the sums of module Functions compute, for every function and every *)
(* finite set of indices.  SumFunctionOnSet is a fold: a function on the   *)
(* subsets of the index set, defined by recursion on the element that      *)
(* CHOOSE takes out of each of them.  Induction is on the finite subsets:  *)
(* a property that fails for some of them fails for a minimal one          *)
(* (MinimalSubset), so no theorem is needed that takes a predicate.        *)
(***************************************************************************)
EXTENDS Functions, FiniteSetTheorems, SequenceTheorems, WellFoundedInduction, TLAPS

\* A non-empty set of subsets of a finite set has a minimal element.
LEMMA MinimalSubset ==
  ASSUME NEW S, IsFiniteSet(S), NEW T \in SUBSET (SUBSET S), T # {}
  PROVE  \E U \in T : \A V \in T : V \subseteq U => V = U
<1> DEFINE R == StrictSubsetOrdering(S)
<1>1. IsWellFoundedOn(R, FiniteSubsetsOf(S))
  BY FS_StrictSubsetOrderingWellFounded
<1>2. T \subseteq FiniteSubsetsOf(S)
  BY FS_Subset DEF FiniteSubsetsOf
<1>3. \A U, V \in SUBSET S : U \subseteq V /\ U # V => <<U, V>> \in R
  BY DEF StrictSubsetOrdering
<1> HIDE DEF R
<1>4. PICK U \in T : \A V \in T : ~ (<<V, U>> \in R)
  BY <1>1, <1>2, WFMin
<1>5. QED
  BY <1>3, <1>4

\* A non-empty set of natural numbers has a least element.
LEMMA LeastNatural ==
  ASSUME NEW T \in SUBSET Nat, T # {}
  PROVE  \E n \in T : \A m \in T : n <= m
<1> DEFINE R == {ss \in Nat \X Nat : ss[1] < ss[2]}
<1>1. R = OpToRel(<, Nat)
  BY Zenon DEF OpToRel
<1>2. IsWellFoundedOn(R, Nat)
  BY <1>1, NatLessThanWellFounded
<1>3. \A m, n \in Nat : ~(<<m, n>> \in R) => n <= m
  OBVIOUS
<1> HIDE DEF R
<1>4. PICK n \in T : \A m \in T : ~ (<<m, n>> \in R)
  BY <1>2, WFMin
<1>5. \A m \in T : n <= m
  BY <1>3, <1>4
<1>6. QED
  BY <1>5

-----------------------------------------------------------------------------
\* The recursion behind a sum.

\* The element of s that the fold adds first.
First(s) == CHOOSE x \in s : TRUE

\* g holds the sums of f over the subsets of S.
HoldsSums(g, f, S) ==
    g = [s \in SUBSET S |-> IF s = {} THEN 0 ELSE f[First(s)] + g[s \ {First(s)}]]

LEMMA SumIsChosen ==
  ASSUME NEW f, NEW S
  PROVE  SumFunctionOnSet(f, S) = (CHOOSE g : HoldsSums(g, f, S))[S]
  BY DEF SumFunctionOnSet, FoldFunctionOnSet, MapThenFoldSet, HoldsSums, First

LEMMA FirstIsElement ==
  ASSUME NEW s, s # {}
  PROVE  First(s) \in s
  BY DEF First

LEMMA HoldsSumsProperties ==
  ASSUME NEW g, NEW f, NEW S, HoldsSums(g, f, S), NEW s \in SUBSET S
  PROVE  /\ s = {} => g[s] = 0
         /\ s # {} => g[s] = f[First(s)] + g[s \ {First(s)}]
  BY DEF HoldsSums

\* Two tables of sums agree wherever both are defined.
LEMMA SumsAreUnique ==
  ASSUME NEW f, NEW S, NEW T, NEW g, NEW h,
         HoldsSums(g, f, S), HoldsSums(h, f, T),
         NEW s \in SUBSET S, s \in SUBSET T, IsFiniteSet(s)
  PROVE  g[s] = h[s]
<1> DEFINE Differ == {u \in SUBSET s : g[u] # h[u]}
<1> SUFFICES ASSUME Differ # {} PROVE FALSE
  OBVIOUS
<1>1. PICK u \in Differ : \A v \in Differ : v \subseteq u => v = u
  <2>1. Differ \in SUBSET (SUBSET s)
    OBVIOUS
  <2> HIDE DEF Differ
  <2>2. QED
    BY <2>1, MinimalSubset
<1>2. u \in SUBSET S /\ u \in SUBSET T
  OBVIOUS
<1>3. CASE u = {}
  BY <1>2, <1>3, HoldsSumsProperties
<1>4. CASE u # {}
  <2> DEFINE v == u \ {First(u)}
  <2>1. v \subseteq u /\ v # u
    BY <1>4, FirstIsElement
  <2>2. g[v] = h[v]
    BY <1>1, <2>1
  <2>3. g[u] = f[First(u)] + g[v] /\ h[u] = f[First(u)] + h[v]
    BY <1>2, <1>4, HoldsSumsProperties
  <2>4. QED
    BY <2>2, <2>3
<1>5. QED
  BY <1>3, <1>4

\* A sum is what any table of sums holds.
LEMMA SumInTable ==
  ASSUME NEW f, NEW S, NEW g, HoldsSums(g, f, S),
         NEW s \in SUBSET S, IsFiniteSet(s), NEW h, HoldsSums(h, f, s)
  PROVE  g[s] = SumFunctionOnSet(f, s)
<1> DEFINE k == CHOOSE c : HoldsSums(c, f, s)
<1>1. HoldsSums(k, f, s)
  OBVIOUS
<1>2. SumFunctionOnSet(f, s) = k[s]
  BY SumIsChosen
<1> HIDE DEF k
<1>3. g[s] = k[s]
  BY <1>1, SumsAreUnique
<1>4. QED
  BY <1>2, <1>3

\* Every finite set of indices has a table of sums.
LEMMA SumsExist ==
  ASSUME NEW f, NEW S, IsFiniteSet(S)
  PROVE  \E g : HoldsSums(g, f, S)
<1> DEFINE Without == {u \in SUBSET S : ~ \E g : HoldsSums(g, f, u)}
<1> SUFFICES ASSUME Without # {} PROVE FALSE
  OBVIOUS
<1>1. PICK u \in Without : \A v \in Without : v \subseteq u => v = u
  <2>1. Without \in SUBSET (SUBSET S)
    OBVIOUS
  <2> HIDE DEF Without
  <2>2. QED
    BY <2>1, MinimalSubset
<1>2. \A v \in SUBSET u : v # u => \E g : HoldsSums(g, f, v)
  BY <1>1
<1>3. \A v \in SUBSET u : IsFiniteSet(v)
  BY FS_Subset
<1> DEFINE k == [s \in SUBSET u |->
                   IF s = {} THEN 0
                   ELSE f[First(s)] + SumFunctionOnSet(f, s \ {First(s)})]
<1>4. ASSUME NEW s \in SUBSET u, s # {}
      PROVE  /\ s \ {First(s)} \in SUBSET u
             /\ k[s \ {First(s)}] = SumFunctionOnSet(f, s \ {First(s)})
  <2> DEFINE v == s \ {First(s)}
  <2>1. v \in SUBSET u /\ v # u /\ v # s
    BY <1>4, FirstIsElement
  <2>2. PICK g : HoldsSums(g, f, v)
    BY <1>2, <2>1
  <2>3. g[v] = SumFunctionOnSet(f, v)
    BY <1>3, <2>1, <2>2, SumInTable
  <2>4. CASE v = {}
    <3>1. g[v] = 0
      BY <2>2, <2>4, HoldsSumsProperties
    <3>2. QED
      BY <2>1, <2>3, <2>4, <3>1
  <2>5. CASE v # {}
    <3> DEFINE w == v \ {First(v)}
    <3>1. w \in SUBSET v /\ w \in SUBSET u /\ w # u
      BY <2>1, <2>5, FirstIsElement
    <3>2. g[v] = f[First(v)] + g[w]
      <4>1. v \in SUBSET v
        OBVIOUS
      <4> HIDE DEF v
      <4>2. QED
        BY <2>2, <2>5, <4>1, HoldsSumsProperties
    <3>3. PICK h : HoldsSums(h, f, w)
      BY <1>2, <3>1
    <3>4. g[w] = SumFunctionOnSet(f, w)
      BY <1>3, <2>2, <3>1, <3>3, SumInTable
    <3>5. k[v] = f[First(v)] + SumFunctionOnSet(f, w)
      BY <2>1, <2>5
    <3>6. QED
      BY <2>1, <2>3, <3>2, <3>4, <3>5
  <2>6. QED
    BY <2>4, <2>5
<1>5. HoldsSums(k, f, u)
  BY <1>4 DEF HoldsSums
<1>6. QED
  BY <1>1, <1>5

-----------------------------------------------------------------------------
\* What a sum computes.

\* The sum over no index is zero; otherwise it is the first index's value
\* and the sum over the rest.
LEMMA SumUnfold ==
  ASSUME NEW f, NEW S, IsFiniteSet(S)
  PROVE  /\ S = {} => SumFunctionOnSet(f, S) = 0
         /\ S # {} => SumFunctionOnSet(f, S)
                        = f[First(S)] + SumFunctionOnSet(f, S \ {First(S)})
<1>1. PICK g : HoldsSums(g, f, S)
  BY SumsExist
<1>2. g[S] = SumFunctionOnSet(f, S)
  BY <1>1, SumInTable
<1>3. CASE S = {}
  BY <1>1, <1>2, <1>3, HoldsSumsProperties
<1>4. CASE S # {}
  <2> DEFINE v == S \ {First(S)}
  <2>1. IsFiniteSet(v)
    BY FS_Subset
  <2>2. PICK h : HoldsSums(h, f, v)
    BY <2>1, SumsExist
  <2>3. g[v] = SumFunctionOnSet(f, v)
    BY <1>1, <2>1, <2>2, SumInTable
  <2>4. g[S] = f[First(S)] + g[v]
    BY <1>1, <1>4, HoldsSumsProperties
  <2>5. QED
    BY <1>2, <1>4, <2>3, <2>4
<1>5. QED
  BY <1>3, <1>4

LEMMA SumOfNone == ASSUME NEW f PROVE SumFunctionOnSet(f, {}) = 0
  BY SumUnfold, FS_EmptySet

\* A sum of integers is an integer.
LEMMA SumIsInteger ==
  ASSUME NEW f, NEW S, IsFiniteSet(S), \A x \in S : f[x] \in Int
  PROVE  SumFunctionOnSet(f, S) \in Int
<1> DEFINE Bad == {u \in SUBSET S : SumFunctionOnSet(f, u) \notin Int}
<1> SUFFICES ASSUME Bad # {} PROVE FALSE
  OBVIOUS
<1>1. PICK u \in Bad : \A v \in Bad : v \subseteq u => v = u
  <2>1. Bad \in SUBSET (SUBSET S)
    OBVIOUS
  <2> HIDE DEF Bad
  <2>2. QED
    BY <2>1, MinimalSubset
<1>2. IsFiniteSet(u)
  BY FS_Subset
<1>3. u # {}
  BY SumOfNone
<1>4. First(u) \in u
  BY <1>3, FirstIsElement
<1>5. SumFunctionOnSet(f, u \ {First(u)}) \in Int
  BY <1>1, <1>4
<1>6. SumFunctionOnSet(f, u) = f[First(u)] + SumFunctionOnSet(f, u \ {First(u)})
  BY <1>2, <1>3, SumUnfold
<1>7. f[First(u)] \in Int
  BY <1>4
<1>8. QED
  BY <1>5, <1>6, <1>7

\* Any index may be taken out of the sum, not only the one the fold takes.
LEMMA SumWithout ==
  ASSUME NEW f, NEW S, IsFiniteSet(S), \A x \in S : f[x] \in Int, NEW e \in S
  PROVE  SumFunctionOnSet(f, S) = f[e] + SumFunctionOnSet(f, S \ {e})
<1> DEFINE Sum(u) == SumFunctionOnSet(f, u)
           Bad == {u \in SUBSET S : \E x \in u : Sum(u) # f[x] + Sum(u \ {x})}
<1>0. \A u \in SUBSET S : IsFiniteSet(u)
  BY FS_Subset
<1>a. \A u \in SUBSET S : Sum(u) \in Int
  BY <1>0, SumIsInteger
<1>b. \A u \in SUBSET S : u # {} => First(u) \in u /\ Sum(u) = f[First(u)] + Sum(u \ {First(u)})
  BY <1>0, SumUnfold, FirstIsElement
<1> HIDE DEF Sum
<1> SUFFICES ASSUME Bad # {} PROVE FALSE
  BY DEF Sum
<1>1. PICK u \in Bad : \A v \in Bad : v \subseteq u => v = u
  <2>1. Bad \in SUBSET (SUBSET S)
    OBVIOUS
  <2> HIDE DEF Bad
  <2>2. QED
    BY <2>1, MinimalSubset
<1>2. PICK x \in u : Sum(u) # f[x] + Sum(u \ {x})
  OBVIOUS
<1> DEFINE y == First(u)
<1>3. y \in u /\ Sum(u) = f[y] + Sum(u \ {y})
  BY <1>b
<1> HIDE DEF y
<1>4. y # x
  BY <1>2, <1>3
<1>5. Sum(u \ {y}) = f[x] + Sum((u \ {y}) \ {x})
  <2>1. u \ {y} \notin Bad
    BY <1>1, <1>3
  <2>2. x \in u \ {y} /\ u \ {y} \in SUBSET S
    BY <1>4
  <2>3. QED
    BY <2>1, <2>2
<1>6. Sum(u \ {x}) = f[y] + Sum((u \ {x}) \ {y})
  <2>1. u \ {x} \notin Bad
    BY <1>1
  <2>2. y \in u \ {x} /\ u \ {x} \in SUBSET S
    BY <1>3, <1>4
  <2>3. QED
    BY <2>1, <2>2
<1> DEFINE w == (u \ {y}) \ {x}
<1>7. (u \ {x}) \ {y} = w
  OBVIOUS
<1>8. f[x] \in Int /\ f[y] \in Int /\ Sum(w) \in Int
  BY <1>a, <1>3
<1>9. Sum(u) = f[y] + (f[x] + Sum(w)) /\ f[x] + Sum(u \ {x}) = f[x] + (f[y] + Sum(w))
  BY <1>3, <1>5, <1>6, <1>7
<1>10. QED
  BY <1>2, <1>8, <1>9

\* Adding an index adds its value.
LEMMA SumWith ==
  ASSUME NEW f, NEW S, IsFiniteSet(S), \A x \in S : f[x] \in Int,
         NEW e, e \notin S, f[e] \in Int
  PROVE  SumFunctionOnSet(f, S \cup {e}) = SumFunctionOnSet(f, S) + f[e]
<1>1. IsFiniteSet(S \cup {e})
  BY FS_AddElement
<1>2. (S \cup {e}) \ {e} = S
  OBVIOUS
<1>3. SumFunctionOnSet(f, S \cup {e}) = f[e] + SumFunctionOnSet(f, S)
  <2>1. \A x \in S \cup {e} : f[x] \in Int
    OBVIOUS
  <2>2. SumFunctionOnSet(f, S \cup {e}) = f[e] + SumFunctionOnSet(f, (S \cup {e}) \ {e})
    BY <1>1, <2>1, SumWithout
  <2>3. QED
    BY <1>2, <2>2
<1>4. SumFunctionOnSet(f, S) \in Int
  BY SumIsInteger
<1>5. QED
  BY <1>3, <1>4

\* The sum depends on the values at the indices only.
LEMMA SumOfEqual ==
  ASSUME NEW f, NEW g, NEW S, IsFiniteSet(S), \A x \in S : f[x] = g[x]
  PROVE  SumFunctionOnSet(f, S) = SumFunctionOnSet(g, S)
<1> DEFINE Bad == {u \in SUBSET S : SumFunctionOnSet(f, u) # SumFunctionOnSet(g, u)}
<1> SUFFICES ASSUME Bad # {} PROVE FALSE
  OBVIOUS
<1>1. PICK u \in Bad : \A v \in Bad : v \subseteq u => v = u
  <2>1. Bad \in SUBSET (SUBSET S)
    OBVIOUS
  <2> HIDE DEF Bad
  <2>2. QED
    BY <2>1, MinimalSubset
<1>2. IsFiniteSet(u)
  BY FS_Subset
<1>3. u # {}
  BY <1>2, SumUnfold
<1> DEFINE v == u \ {First(u)}
<1>4. First(u) \in u /\ v # u
  BY <1>3, FirstIsElement
<1>5. SumFunctionOnSet(f, v) = SumFunctionOnSet(g, v)
  BY <1>1, <1>4
<1>6. /\ SumFunctionOnSet(f, u) = f[First(u)] + SumFunctionOnSet(f, v)
      /\ SumFunctionOnSet(g, u) = g[First(u)] + SumFunctionOnSet(g, v)
  BY <1>2, <1>3, SumUnfold
<1>7. QED
  BY <1>4, <1>5, <1>6

\* Zeros add up to zero.
LEMMA SumOfZeros ==
  ASSUME NEW f, NEW S, IsFiniteSet(S), \A x \in S : f[x] = 0
  PROVE  SumFunctionOnSet(f, S) = 0
<1> DEFINE Bad == {u \in SUBSET S : SumFunctionOnSet(f, u) # 0}
<1> SUFFICES ASSUME Bad # {} PROVE FALSE
  OBVIOUS
<1>1. PICK u \in Bad : \A v \in Bad : v \subseteq u => v = u
  <2>1. Bad \in SUBSET (SUBSET S)
    OBVIOUS
  <2> HIDE DEF Bad
  <2>2. QED
    BY <2>1, MinimalSubset
<1>2. IsFiniteSet(u)
  BY FS_Subset
<1>3. u # {}
  BY SumOfNone
<1>4. First(u) \in u
  BY <1>3, FirstIsElement
<1>5. SumFunctionOnSet(f, u \ {First(u)}) = 0
  BY <1>1, <1>4
<1>6. SumFunctionOnSet(f, u) = f[First(u)] + SumFunctionOnSet(f, u \ {First(u)})
  BY <1>2, <1>3, SumUnfold
<1>7. f[First(u)] = 0
  BY <1>4
<1>8. QED
  BY <1>5, <1>6, <1>7

\* A sum of values that are not negative is not negative.
LEMMA SumIsNatural ==
  ASSUME NEW f, NEW S, IsFiniteSet(S), \A x \in S : f[x] \in Nat
  PROVE  SumFunctionOnSet(f, S) \in Nat
<1> DEFINE Bad == {u \in SUBSET S : SumFunctionOnSet(f, u) \notin Nat}
<1> SUFFICES ASSUME Bad # {} PROVE FALSE
  OBVIOUS
<1>1. PICK u \in Bad : \A v \in Bad : v \subseteq u => v = u
  <2>1. Bad \in SUBSET (SUBSET S)
    OBVIOUS
  <2> HIDE DEF Bad
  <2>2. QED
    BY <2>1, MinimalSubset
<1>2. IsFiniteSet(u)
  BY FS_Subset
<1>3. u # {}
  BY SumOfNone
<1>4. First(u) \in u
  BY <1>3, FirstIsElement
<1>5. SumFunctionOnSet(f, u \ {First(u)}) \in Nat
  BY <1>1, <1>4
<1>6. SumFunctionOnSet(f, u) = f[First(u)] + SumFunctionOnSet(f, u \ {First(u)})
  BY <1>2, <1>3, SumUnfold
<1>7. f[First(u)] \in Nat
  BY <1>4
<1>8. QED
  BY <1>5, <1>6, <1>7

\* Naturals that add up to zero are zero.
LEMMA SumOfNaturalsIsZero ==
  ASSUME NEW f, NEW S, IsFiniteSet(S), \A x \in S : f[x] \in Nat,
         SumFunctionOnSet(f, S) = 0, NEW e \in S
  PROVE  f[e] = 0
<1> DEFINE Rest == SumFunctionOnSet(f, S \ {e})
<1>1. SumFunctionOnSet(f, S) = f[e] + Rest
  BY SumWithout
<1>2. Rest \in Nat
  BY FS_Subset, SumIsNatural
<1> HIDE DEF Rest
<1>3. f[e] \in Nat
  OBVIOUS
<1>4. QED
  BY <1>1, <1>2, <1>3

\* Changing the value at one index changes the sum by as much.
LEMMA SumExcept ==
  ASSUME NEW S, IsFiniteSet(S), NEW f \in [S -> Int], NEW e \in S, NEW v \in Int
  PROVE  SumFunction([f EXCEPT ![e] = v]) = SumFunction(f) - f[e] + v
<1> DEFINE g == [f EXCEPT ![e] = v]
           R == S \ {e}
<1>1. /\ g \in [S -> Int] /\ g[e] = v
      /\ \A x \in R : g[x] = f[x]
      /\ DOMAIN f = S /\ DOMAIN g = S
  OBVIOUS
<1>2. IsFiniteSet(R)
  BY FS_Subset
<1> HIDE DEF g
<1>3. SumFunctionOnSet(g, R) = SumFunctionOnSet(f, R)
  <2> HIDE DEF R
  <2>1. QED
    BY <1>1, <1>2, SumOfEqual
<1>4. SumFunctionOnSet(f, R) \in Int
  BY <1>2, SumIsInteger
<1>5. \A x \in S : f[x] \in Int /\ g[x] \in Int
  BY <1>1
<1>6. SumFunctionOnSet(f, S) = f[e] + SumFunctionOnSet(f, R)
  BY <1>5, SumWithout
<1>7. SumFunctionOnSet(g, S) = g[e] + SumFunctionOnSet(g, R)
  BY <1>5, SumWithout
<1>8. SumFunctionOnSet(g, S) = SumFunctionOnSet(f, S) - f[e] + v
  <2>1. f[e] \in Int
    OBVIOUS
  <2> HIDE DEF R
  <2>2. QED
    BY <1>1, <1>3, <1>4, <1>6, <1>7, <2>1
<1>9. QED
  BY <1>1, <1>8 DEF SumFunction, g

-----------------------------------------------------------------------------
\* Sums of sequences.

LEMMA SumOfSequence ==
  ASSUME NEW s \in Seq(Int)
  PROVE  SumFunction(s) \in Int
<1>1. DOMAIN s = 1 .. Len(s) /\ Len(s) \in Nat /\ \A i \in 1 .. Len(s) : s[i] \in Int
  BY LenProperties
<1>2. IsFiniteSet(1 .. Len(s))
  BY <1>1, FS_Interval
<1>3. QED
  BY <1>1, <1>2, SumIsInteger DEF SumFunction

\* The sum of one more element.
LEMMA SumOfPrefix ==
  ASSUME NEW f, NEW n \in Nat, \A i \in 1 .. n + 1 : f[i] \in Int
  PROVE  SumFunctionOnSet(f, 1 .. n + 1) = SumFunctionOnSet(f, 1 .. n) + f[n + 1]
<1> DEFINE S == 1 .. n
           e == n + 1
<1>1. 1 .. n + 1 = S \cup {e} /\ e \notin S
  OBVIOUS
<1>2. IsFiniteSet(S)
  BY FS_Interval
<1>3. (\A i \in S : f[i] \in Int) /\ f[e] \in Int
  OBVIOUS
<1> HIDE DEF S, e
<1>4. SumFunctionOnSet(f, S \cup {e}) = SumFunctionOnSet(f, S) + f[e]
  BY <1>1, <1>2, <1>3, SumWith
<1>5. QED
  BY <1>1, <1>4 DEF S, e

\* The sum of a sequence with one more element at its end.
LEMMA SumOfAppend ==
  ASSUME NEW s \in Seq(Int), NEW e \in Int
  PROVE  SumFunction(Append(s, e)) = SumFunction(s) + e
<1> DEFINE n == Len(s)
           a == Append(s, e)
<1>1. /\ n \in Nat
      /\ DOMAIN s = 1 .. n /\ DOMAIN a = 1 .. n + 1
      /\ \A i \in 1 .. n : a[i] = s[i]
      /\ \A i \in 1 .. n + 1 : a[i] \in Int
      /\ a[n + 1] = e
  BY AppendProperties
<1> HIDE DEF n, a
<1>2. SumFunctionOnSet(a, 1 .. n + 1) = SumFunctionOnSet(a, 1 .. n) + a[n + 1]
  BY <1>1, SumOfPrefix
<1>3. SumFunctionOnSet(a, 1 .. n) = SumFunctionOnSet(s, 1 .. n)
  <2>1. IsFiniteSet(1 .. n)
    BY <1>1, FS_Interval
  <2>2. QED
    BY <1>1, <2>1, SumOfEqual
<1>4. QED
  BY <1>1, <1>2, <1>3 DEF SumFunction, a

\* The sum of two sequences one after the other is the sum of their sums.
LEMMA SumOfConcatenation ==
  ASSUME NEW s \in Seq(Int), NEW t \in Seq(Int)
  PROVE  SumFunction(s \o t) = SumFunction(s) + SumFunction(t)
<1> DEFINE m == Len(s)
           n == Len(t)
           c == s \o t
           Sum(f, k) == SumFunctionOnSet(f, 1 .. k)
           Bad == {k \in 0 .. n : Sum(c, m + k) # Sum(s, m) + Sum(t, k)}
<1>1. /\ m \in Nat /\ n \in Nat
      /\ DOMAIN s = 1 .. m /\ DOMAIN t = 1 .. n /\ DOMAIN c = 1 .. (m + n)
      /\ \A i \in 1 .. m : s[i] \in Int /\ c[i] = s[i]
      /\ \A i \in 1 .. n : t[i] \in Int /\ c[m + i] = t[i]
      /\ \A i \in 1 .. (m + n) : c[i] \in Int
  BY ConcatProperties
<1> HIDE DEF m, n, c
<1>2. /\ SumFunction(s) = Sum(s, m)
      /\ SumFunction(t) = Sum(t, n)
      /\ SumFunction(c) = Sum(c, m + n)
  BY <1>1 DEF SumFunction
<1>3. Sum(c, m) = Sum(s, m)
  <2>1. IsFiniteSet(1 .. m)
    BY <1>1, FS_Interval
  <2>2. QED
    BY <1>1, <2>1, SumOfEqual
<1>4. /\ Sum(s, m) \in Int
      /\ \A k \in 0 .. n : Sum(t, k) \in Int /\ Sum(c, m + k) \in Int
  <2>1. \A k \in Nat : IsFiniteSet(1 .. k)
    BY FS_Interval
  <2>2. Sum(s, m) \in Int
    BY <1>1, <2>1, SumIsInteger
  <2>3. ASSUME NEW k \in 0 .. n PROVE Sum(t, k) \in Int /\ Sum(c, m + k) \in Int
    <3>1. \A i \in 1 .. k : t[i] \in Int
      BY <1>1
    <3>2. \A i \in 1 .. (m + k) : c[i] \in Int
      BY <1>1
    <3>3. IsFiniteSet(1 .. k) /\ IsFiniteSet(1 .. (m + k))
      BY <1>1, <2>1
    <3>4. QED
      BY <3>1, <3>2, <3>3, SumIsInteger
  <2>4. QED
    BY <2>2, <2>3
<1>5. Bad = {}
  <2> SUFFICES ASSUME Bad # {} PROVE FALSE
    OBVIOUS
  <2>1. PICK k \in Bad : \A j \in Bad : k <= j
    <3>1. Bad \in SUBSET Nat
      OBVIOUS
    <3> HIDE DEF Bad
    <3>2. QED
      BY <3>1, LeastNatural
  <2>2. k # 0
    <3>1. Sum(t, 0) = 0
      BY SumOfNone
    <3>2. QED
      BY <1>1, <1>3, <1>4, <3>1
  <2> DEFINE j == k - 1
  <2>3. j \in Nat /\ j \in 0 .. n /\ j \notin Bad /\ k = j + 1
    BY <1>1, <2>1, <2>2
  <2> HIDE DEF j
  <2>4. Sum(c, m + j) = Sum(s, m) + Sum(t, j)
    BY <2>3
  <2>5. Sum(t, j + 1) = Sum(t, j) + t[j + 1]
    <3>1. \A i \in 1 .. j + 1 : t[i] \in Int
      BY <1>1, <2>3
    <3>2. QED
      BY <2>3, <3>1, SumOfPrefix
  <2>6. Sum(c, m + (j + 1)) = Sum(c, m + j) + c[m + (j + 1)]
    <3> DEFINE p == m + j
    <3>1. /\ p \in Nat /\ p + 1 = m + (j + 1) /\ p + 1 <= m + n
      BY <1>1, <2>3
    <3> HIDE DEF p, Sum, Bad
    <3>a. \A i \in 1 .. p + 1 : i \in 1 .. (m + n)
      BY <1>1, <3>1
    <3>b. \A i \in 1 .. p + 1 : c[i] \in Int
      BY <1>1, <3>a
    <3> USE DEF Sum
    <3>2. Sum(c, p + 1) = Sum(c, p) + c[p + 1]
      BY <3>1, <3>b, SumOfPrefix
    <3>3. QED
      BY <3>1, <3>2 DEF p
  <2>7. c[m + (j + 1)] = t[j + 1] /\ t[j + 1] \in Int
    BY <1>1, <2>3
  <2>8. Sum(c, m + k) = Sum(s, m) + Sum(t, k)
    <3> DEFINE a == Sum(s, m)
               b == Sum(t, j)
               x == t[j + 1]
    <3>1. a \in Int /\ b \in Int /\ x \in Int
      BY <1>4, <2>3, <2>7
    <3>2. Sum(t, j + 1) = b + x
      BY <2>5
    <3>3. Sum(c, m + (j + 1)) = (a + b) + x
      BY <2>4, <2>6, <2>7
    <3> HIDE DEF a, b, x, Sum
    <3>4. (a + b) + x = a + (b + x)
      BY <3>1
    <3>5. Sum(c, m + (j + 1)) = a + Sum(t, j + 1)
      BY <3>2, <3>3, <3>4
    <3>6. QED
      BY <2>3, <3>5 DEF a
  <2>9. QED
    BY <2>8
<1>6. Sum(c, m + n) = Sum(s, m) + Sum(t, n)
  <2>1. n \in 0 .. n
    BY <1>1
  <2> HIDE DEF Sum
  <2>2. QED
    BY <1>5, <2>1
<1>7. QED
  BY <1>2, <1>6 DEF c

=============================================================================

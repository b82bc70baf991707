----------------------- MODULE WindowAccumulationProofs -----------------------
(***************************************************************************)
(* Proofs about one accumulation window, for all sets of samples that fit  *)
(* an int, all latencies and packet sizes, every width of an int, every    *)
(* update interval and bound.                                              *)
(***************************************************************************)
EXTENDS WindowAccumulation, SumTheorems

-----------------------------------------------------------------------------
\* The variance without cancellation.

Squares(data) == [i \in DOMAIN data |-> data[i] * data[i]]

SquaredDifferences(data) ==
    [p \in (DOMAIN data) \X (DOMAIN data) |->
        (data[p[1]] - data[p[2]]) * (data[p[1]] - data[p[2]])]

\* The pairs of indices up to k, and those of j with an index up to m.
PairsUpTo(n, k) == {p \in (1 .. n) \X (1 .. n) : p[1] < p[2] /\ p[2] <= k}
PairsWith(n, j, m) == {p \in (1 .. n) \X (1 .. n) : p[1] <= m /\ p[2] = j}

LEMMA PairsAreFinite ==
  ASSUME NEW n \in Nat, NEW S \in SUBSET ((1 .. n) \X (1 .. n))
  PROVE  IsFiniteSet(S)
<1>1. IsFiniteSet(1 .. n)
  BY FS_Interval
<1>2. IsFiniteSet((1 .. n) \X (1 .. n))
  BY <1>1, FS_Product
<1>3. QED
  BY <1>2, FS_Subset

\* Squares and products of sums.
LEMMA Products ==
  ASSUME NEW x \in Int, NEW y \in Int, NEW s \in Int
  PROVE  /\ x * x \in Int /\ x * y \in Int /\ y * y \in Int /\ x * s \in Int /\ s * s \in Int
         /\ (y - x) * (y - x) = y * y - 2 * (x * y) + x * x
         /\ (s + x) * (s + x) = s * s + 2 * (x * s) + x * x
         /\ x * (s + y) = x * s + x * y
<1>1. x * x \in Int /\ x * y \in Int /\ y * y \in Int /\ x * s \in Int /\ s * s \in Int
  OBVIOUS
<1>2. (y - x) * (y - x) = y * y - 2 * (x * y) + x * x
  OBVIOUS
<1>3. (s + x) * (s + x) = s * s + 2 * (x * s) + x * x
  OBVIOUS
<1>4. x * (s + y) = x * s + x * y
  OBVIOUS
<1>5. QED
  BY <1>1, <1>2, <1>3, <1>4

\* The squared differences between sample j and the m samples before it add
\* up to the sum of their squares, less twice j's value times their sum, and
\* m times j's square.
LEMMA DifferencesToOne ==
  ASSUME NEW n \in Nat, NEW data \in [1 .. n -> Int], NEW k \in Nat, k + 1 <= n,
         NEW m \in 0 .. k
  PROVE  LET x == data[k + 1]
             d == SquaredDifferences(data)
         IN  SumFunctionOnSet(d, PairsUpTo(n, k) \cup PairsWith(n, k + 1, m))
               = SumFunctionOnSet(d, PairsUpTo(n, k))
                 + (SumFunctionOnSet(Squares(data), 1 .. m)
                    - 2 * (x * SumFunctionOnSet(data, 1 .. m)) + m * (x * x))
<1> DEFINE j == k + 1
           x == data[j]
           d == SquaredDifferences(data)
           q == Squares(data)
           P == PairsUpTo(n, k)
           E(i) == P \cup PairsWith(n, j, i)
           S(i) == SumFunctionOnSet(data, 1 .. i)
           Q(i) == SumFunctionOnSet(q, 1 .. i)
           D(i) == SumFunctionOnSet(d, E(i))
           T == SumFunctionOnSet(d, P)
           Bad == {i \in 0 .. k : D(i) # T + (Q(i) - 2 * (x * S(i)) + i * (x * x))}
<1>1. /\ x \in Int
      /\ \A i \in 1 .. k : data[i] \in Int /\ q[i] = data[i] * data[i] /\ q[i] \in Int
      /\ \A i \in 1 .. k : d[<<i, j>>] = (data[i] - x) * (data[i] - x)
      /\ \A p \in (1 .. n) \X (1 .. n) : d[p] \in Int
  BY DEF Squares, SquaredDifferences
<1>2. \A i \in 0 .. k : E(i) \in SUBSET ((1 .. n) \X (1 .. n)) /\ IsFiniteSet(E(i))
  <2>1. \A i \in 0 .. k : E(i) \in SUBSET ((1 .. n) \X (1 .. n))
    BY DEF PairsUpTo, PairsWith
  <2> HIDE DEF E
  <2>2. QED
    BY <2>1, PairsAreFinite
<1>3. E(0) = P
  BY DEF PairsUpTo, PairsWith
<1>4. ASSUME NEW i \in 0 .. k, i + 1 <= k
      PROVE  E(i + 1) = E(i) \cup {<<i + 1, j>>} /\ <<i + 1, j>> \notin E(i)
             /\ <<i + 1, j>> \in (1 .. n) \X (1 .. n)
  <2> DEFINE p == <<i + 1, j>>
  <2>1. /\ i + 1 \in 1 .. n /\ j \in 1 .. n
        /\ p \in (1 .. n) \X (1 .. n) /\ p[1] = i + 1 /\ p[2] = j
    BY <1>4
  <2>2. p \notin P
    BY <2>1 DEF PairsUpTo
  <2>3. p \notin PairsWith(n, j, i)
    BY <2>1 DEF PairsWith
  <2>4. ASSUME NEW r \in (1 .. n) \X (1 .. n)
        PROVE  r \in PairsWith(n, j, i + 1) <=> r \in PairsWith(n, j, i) \/ r = p
    <3>1. r[1] \in Nat /\ r[2] \in Nat /\ r = <<r[1], r[2]>>
      OBVIOUS
    <3>2. r[1] <= i + 1 <=> r[1] <= i \/ r[1] = i + 1
      BY <3>1
    <3>3. r = p <=> r[1] = i + 1 /\ r[2] = j
      BY <2>1, <3>1
    <3> HIDE DEF p, j
    <3>4. QED
      BY <3>2, <3>3 DEF PairsWith
  <2>5. /\ PairsWith(n, j, i + 1) \subseteq (1 .. n) \X (1 .. n)
        /\ PairsWith(n, j, i) \subseteq (1 .. n) \X (1 .. n)
    BY DEF PairsWith
  <2> HIDE DEF p, j, P
  <2>6. PairsWith(n, j, i + 1) = PairsWith(n, j, i) \cup {p}
    BY <2>1, <2>4, <2>5
  <2>7. QED
    BY <2>1, <2>2, <2>3, <2>6 DEF p
<1>5. \A i \in 0 .. k : S(i) \in Int /\ Q(i) \in Int /\ D(i) \in Int
  <2>1. ASSUME NEW i \in 0 .. k PROVE S(i) \in Int /\ Q(i) \in Int
    <3>1. IsFiniteSet(1 .. i)
      BY FS_Interval
    <3>2. (\A l \in 1 .. i : data[l] \in Int) /\ (\A l \in 1 .. i : q[l] \in Int)
      BY <1>1
    <3> HIDE DEF q
    <3>3. QED
      BY <3>1, <3>2, SumIsInteger
  <2>2. ASSUME NEW i \in 0 .. k PROVE D(i) \in Int
    <3> DEFINE e == E(i)
    <3>1. IsFiniteSet(e) /\ \A p \in e : d[p] \in Int
      BY <1>1, <1>2
    <3> HIDE DEF e, d
    <3>2. SumFunctionOnSet(d, e) \in Int
      BY <3>1, SumIsInteger
    <3>3. QED
      BY <3>2 DEF e
  <2>3. QED
    BY <2>1, <2>2
<1>6. Bad = {}
  <2> SUFFICES ASSUME Bad # {} PROVE FALSE
    OBVIOUS
  <2>1. PICK b \in Bad : \A i \in Bad : b <= i
    <3>1. Bad \in SUBSET Nat
      OBVIOUS
    <3> HIDE DEF Bad
    <3>2. QED
      BY <3>1, LeastNatural
  <2>2. b # 0
    <3>1. S(0) = 0 /\ Q(0) = 0
      BY SumOfNone
    <3>2. D(0) = T
      BY <1>3
    <3>3. T \in Int
      <4>1. 0 \in 0 .. k
        OBVIOUS
      <4> HIDE DEF S, Q, D, T
      <4>2. QED
        BY <1>5, <3>2, <4>1
    <3> HIDE DEF S, Q, D, T, x
    <3>4. D(0) = T + (Q(0) - 2 * (x * S(0)) + 0 * (x * x))
      BY <1>1, <3>1, <3>2, <3>3 DEF x
    <3>5. QED
      BY <3>4
  <2> DEFINE a == b - 1
  <2>3. a \in 0 .. k /\ a + 1 <= k /\ a \notin Bad /\ b = a + 1 /\ a \in Nat
    BY <2>1, <2>2
  <2> HIDE DEF a
  <2>4. D(a) = T + (Q(a) - 2 * (x * S(a)) + a * (x * x))
    BY <2>3
  <2> DEFINE y == data[a + 1]
  <2>5. y \in Int /\ q[a + 1] = y * y /\ d[<<a + 1, j>>] = (y - x) * (y - x)
    <3>1. a + 1 \in 1 .. k
      BY <2>3
    <3> HIDE DEF d, q, x, j, Bad
    <3>2. QED
      BY <1>1, <3>1
  <2>6. S(a + 1) = S(a) + y
    <3>a. \A i \in 1 .. a + 1 : i \in 1 .. k
      <4> HIDE DEF Bad, S, Q, D, T, E, P, d, q, x
      <4>1. a \in Nat /\ a + 1 <= k
        BY <2>3
      <4>2. QED
        BY <4>1
    <3>1. \A i \in 1 .. a + 1 : data[i] \in Int
      BY <1>1, <3>a
    <3>2. QED
      BY <2>3, <3>1, SumOfPrefix
  <2>7. Q(a + 1) = Q(a) + y * y
    <3>1. \A i \in 1 .. a + 1 : q[i] \in Int
      BY <1>1, <2>3
    <3> HIDE DEF q
    <3>2. Q(a + 1) = Q(a) + q[a + 1]
      BY <2>3, <3>1, SumOfPrefix
    <3>3. QED
      BY <2>5, <3>2
  <2>8. D(a + 1) = D(a) + (y - x) * (y - x)
    <3> DEFINE e == E(a)
               p == <<a + 1, j>>
    <3>1. /\ E(a + 1) = e \cup {p} /\ p \notin e
          /\ IsFiniteSet(e)
          /\ \A r \in e : d[r] \in Int
          /\ d[p] \in Int
      BY <1>1, <1>2, <1>4, <2>3
    <3>2. d[p] = (y - x) * (y - x)
      BY <2>5
    <3> HIDE DEF e, p, d
    <3>3. SumFunctionOnSet(d, e \cup {p}) = SumFunctionOnSet(d, e) + d[p]
      BY <3>1, SumWith
    <3>4. QED
      BY <3>1, <3>2, <3>3 DEF e
  <2>9. D(b) = T + (Q(b) - 2 * (x * S(b)) + b * (x * x))
    <3>1. T \in Int /\ S(a) \in Int /\ Q(a) \in Int /\ a \in Int
      <4>1. 0 \in 0 .. k
        OBVIOUS
      <4>2. D(0) \in Int /\ S(a) \in Int /\ Q(a) \in Int
        BY <1>5, <2>3, <4>1
      <4>3. D(0) = T
        BY <1>3
      <4> HIDE DEF D, S, Q, T
      <4>4. QED
        BY <2>3, <4>2, <4>3
    <3>2. x \in Int /\ y \in Int
      BY <1>1, <2>5
    <3> HIDE DEF S, Q, D, T, x, y
    <3>3. D(b) = T + (Q(a) - 2 * (x * S(a)) + a * (x * x)) + (y - x) * (y - x)
      BY <2>3, <2>4, <2>8
    <3>4. Q(b) = Q(a) + y * y /\ S(b) = S(a) + y
      BY <2>3, <2>6, <2>7
    <3>5. T + (Q(a) - 2 * (x * S(a)) + a * (x * x)) + (y - x) * (y - x)
            = T + ((Q(a) + y * y) - 2 * (x * (S(a) + y)) + (a + 1) * (x * x))
      <4> DEFINE s == S(a)
                 xx == x * x
                 xs == x * s
                 xy == x * y
                 yy == y * y
                 axx == a * xx
      <4>1. /\ (y - x) * (y - x) = yy - 2 * xy + xx
            /\ x * (s + y) = xs + xy
            /\ xx \in Int /\ xs \in Int /\ xy \in Int /\ yy \in Int
        <5>1. s \in Int
          BY <3>1
        <5> HIDE DEF s, Bad, E, P, d, q, axx
        <5>2. /\ x * x \in Int /\ x * y \in Int /\ y * y \in Int /\ x * s \in Int
              /\ (y - x) * (y - x) = y * y - 2 * (x * y) + x * x
              /\ x * (s + y) = x * s + x * y
          BY <3>2, <5>1, Products
        <5>3. QED
          BY <5>2, Zenon
      <4>2. axx \in Int /\ (a + 1) * xx = axx + xx
        <5> HIDE DEF xx
        <5>1. QED
          BY <3>1, <4>1
      <4> HIDE DEF s, xx, xs, xy, yy, axx, Bad, E, P, d, q
      <4>3. T + (Q(a) - 2 * xs + axx) + (yy - 2 * xy + xx)
              = T + ((Q(a) + yy) - 2 * (xs + xy) + (axx + xx))
        BY <3>1, <4>1, <4>2
      <4>4. QED
        BY <4>1, <4>2, <4>3 DEF s, xx, xs, xy, yy, axx
    <3>6. QED
      BY <2>3, <3>3, <3>4, <3>5
  <2>10. QED
    BY <2>9
<1>7. D(m) = T + (Q(m) - 2 * (x * S(m)) + m * (x * x))
  BY <1>6
<1>8. QED
  BY <1>7

\* For every sequence, the squared differences of all pairs add up to n times
\* the sum of squares minus the square of the sum: the running sums lose
\* nothing of the variance.
LEMMA PairwiseIdentity ==
  ASSUME NEW data \in Seq(Int)
  PROVE  /\ PairwiseSquares(data) = Len(data) * SumFunction(Squares(data))
                                    - SumFunction(data) * SumFunction(data)
         /\ PairwiseSquares(data) \in Nat
<1> DEFINE n == Len(data)
           d == SquaredDifferences(data)
           q == Squares(data)
           S(i) == SumFunctionOnSet(data, 1 .. i)
           Q(i) == SumFunctionOnSet(q, 1 .. i)
           D(i) == SumFunctionOnSet(d, PairsUpTo(n, i))
           Bad == {i \in 0 .. n : D(i) # i * Q(i) - S(i) * S(i)}
<1>1. /\ n \in Nat /\ data \in [1 .. n -> Int]
      /\ DOMAIN data = 1 .. n /\ DOMAIN q = 1 .. n
      /\ \A i \in 1 .. n : data[i] \in Int /\ q[i] = data[i] * data[i] /\ q[i] \in Int
  BY LenProperties DEF Squares
<1>2. \A p \in (1 .. n) \X (1 .. n) :
         d[p] \in Nat /\ d[p] = (data[p[1]] - data[p[2]]) * (data[p[1]] - data[p[2]])
  <2>1. ASSUME NEW p \in (1 .. n) \X (1 .. n)
        PROVE  d[p] \in Nat /\ d[p] = (data[p[1]] - data[p[2]]) * (data[p[1]] - data[p[2]])
    <3>1. p[1] \in 1 .. n /\ p[2] \in 1 .. n
      OBVIOUS
    <3>2. PICK v \in Int : v = data[p[1]] - data[p[2]]
      BY <1>1, <3>1
    <3>3. d[p] = v * v
      BY <1>1, <3>2 DEF SquaredDifferences
    <3>4. v * v \in Nat
      OBVIOUS
    <3>5. QED
      BY <3>2, <3>3, <3>4
  <2>2. QED
    BY <2>1
<1> HIDE DEF n, d, q
<1>3. \A i \in 0 .. n : IsFiniteSet(PairsUpTo(n, i)) /\ IsFiniteSet(1 .. i)
                        /\ PairsUpTo(n, i) \subseteq (1 .. n) \X (1 .. n)
  <2>1. \A i \in 0 .. n : PairsUpTo(n, i) \in SUBSET ((1 .. n) \X (1 .. n))
    BY DEF PairsUpTo
  <2>2. \A i \in 0 .. n : IsFiniteSet(1 .. i)
    BY <1>1, FS_Interval
  <2>3. QED
    BY <1>1, <2>1, <2>2, PairsAreFinite
<1>4. \A i \in 0 .. n : S(i) \in Int /\ Q(i) \in Int /\ D(i) \in Nat
  <2>1. ASSUME NEW i \in 0 .. n PROVE S(i) \in Int /\ Q(i) \in Int
    <3>1. (\A l \in 1 .. i : data[l] \in Int) /\ (\A l \in 1 .. i : q[l] \in Int)
      BY <1>1
    <3>2. QED
      BY <1>3, <3>1, SumIsInteger
  <2>2. ASSUME NEW i \in 0 .. n PROVE D(i) \in Nat
    <3>1. \A p \in PairsUpTo(n, i) : d[p] \in Nat
      BY <1>2, <1>3
    <3>2. QED
      BY <1>3, <3>1, SumIsNatural
  <2>3. QED
    BY <2>1, <2>2
<1>5. Bad = {}
  <2> SUFFICES ASSUME Bad # {} PROVE FALSE
    OBVIOUS
  <2>1. PICK b \in Bad : \A i \in Bad : b <= i
    <3>1. Bad \in SUBSET Nat
      BY <1>1
    <3> HIDE DEF Bad
    <3>2. QED
      BY <3>1, LeastNatural
  <2>2. b # 0
    <3>1. S(0) = 0 /\ Q(0) = 0
      BY SumOfNone
    <3>2. D(0) = 0
      <4>1. PairsUpTo(n, 0) = {}
        BY <1>1 DEF PairsUpTo
      <4>2. QED
        BY <4>1, SumOfNone
    <3> HIDE DEF S, Q, D
    <3>3. D(0) = 0 * Q(0) - S(0) * S(0)
      BY <3>1, <3>2
    <3>4. QED
      BY <3>3
  <2> DEFINE k == b - 1
  <2>3. k \in 0 .. n /\ k + 1 \in 1 .. n /\ k + 1 <= n /\ k \notin Bad /\ b = k + 1 /\ k \in Nat
    BY <1>1, <2>1, <2>2
  <2> HIDE DEF k
  <2>4. D(k) = k * Q(k) - S(k) * S(k)
    BY <2>3
  <2> DEFINE x == data[k + 1]
  <2>5. x \in Int /\ q[k + 1] = x * x
    BY <1>1, <2>3
  <2>6. S(k + 1) = S(k) + x
    <3>1. \A i \in 1 .. k + 1 : data[i] \in Int
      BY <1>1, <2>3
    <3>2. QED
      BY <2>3, <3>1, SumOfPrefix
  <2>7. Q(k + 1) = Q(k) + x * x
    <3>1. \A i \in 1 .. k + 1 : q[i] \in Int
      BY <1>1, <2>3
    <3>2. Q(k + 1) = Q(k) + q[k + 1]
      BY <2>3, <3>1, SumOfPrefix
    <3>3. QED
      BY <2>5, <3>2
  <2>8. D(k + 1) = D(k) + (Q(k) - 2 * (x * S(k)) + k * (x * x))
    <3>1. PairsUpTo(n, k + 1) = PairsUpTo(n, k) \cup PairsWith(n, k + 1, k)
      <4>1. ASSUME NEW p \in (1 .. n) \X (1 .. n)
            PROVE  p \in PairsUpTo(n, k + 1)
                     <=> p \in PairsUpTo(n, k) \/ p \in PairsWith(n, k + 1, k)
        <5> HIDE DEF S, Q, D, Bad, x
        <5>a. n \in Nat /\ k \in Nat
          BY <1>1, <2>3
        <5>1. p[1] \in Nat /\ p[2] \in Nat
          BY <5>a
        <5>2. p[1] < p[2] /\ p[2] <= k + 1
                <=> (p[1] < p[2] /\ p[2] <= k) \/ (p[1] <= k /\ p[2] = k + 1)
          BY SMTT(30), <5>a, <5>1
        <5>3. QED
          BY <5>2 DEF PairsUpTo, PairsWith
      <4>2. /\ PairsUpTo(n, k + 1) \subseteq (1 .. n) \X (1 .. n)
            /\ PairsUpTo(n, k) \subseteq (1 .. n) \X (1 .. n)
            /\ PairsWith(n, k + 1, k) \subseteq (1 .. n) \X (1 .. n)
        BY DEF PairsUpTo, PairsWith
      <4>3. QED
        BY <4>1, <4>2
    <3>2. k \in 0 .. k
      BY <2>3
    <3>3. SumFunctionOnSet(SquaredDifferences(data),
                           PairsUpTo(n, k) \cup PairsWith(n, k + 1, k))
            = SumFunctionOnSet(SquaredDifferences(data), PairsUpTo(n, k))
              + (SumFunctionOnSet(Squares(data), 1 .. k)
                 - 2 * (data[k + 1] * SumFunctionOnSet(data, 1 .. k))
                 + k * (data[k + 1] * data[k + 1]))
      <4>1. n \in Nat /\ data \in [1 .. n -> Int] /\ k \in Nat /\ k + 1 <= n
        BY <1>1, <2>3
      <4> HIDE DEF S, Q, D, Bad, x
      <4>2. QED
        BY <3>2, <4>1, DifferencesToOne, Zenon
    <3>4. SumFunctionOnSet(d, PairsUpTo(n, k) \cup PairsWith(n, k + 1, k))
            = D(k) + (Q(k) - 2 * (x * S(k)) + k * (x * x))
      BY <3>3, Zenon DEF d, q
    <3>5. QED
      BY <3>1, <3>4, Zenon
  <2>9. D(b) = b * Q(b) - S(b) * S(b)
    <3> DEFINE s == S(k)
               r == Q(k)
               xx == x * x
               xs == x * s
               ss == s * s
               kr == k * r
               kxx == k * xx
    <3>1. k \in Int /\ s \in Int /\ r \in Int /\ x \in Int
      BY <1>4, <2>3, <2>5
    <3> HIDE DEF S, Q, D, Bad, x
    <3>2. /\ D(k + 1) = (kr - ss) + (r - 2 * xs + kxx)
          /\ Q(k + 1) = r + xx /\ S(k + 1) = s + x
      BY <2>4, <2>6, <2>7, <2>8
    <3> HIDE DEF s, r
    <3>3. (s + x) * (s + x) = ss + 2 * xs + xx /\ xx \in Int /\ xs \in Int /\ ss \in Int
      BY <3>1, Products, Zenon
    <3>4. (k + 1) * (r + xx) = kr + kxx + r + xx /\ kr \in Int /\ kxx \in Int
      <4> HIDE DEF xx
      <4>1. QED
        BY <3>1, <3>3
    <3> HIDE DEF xx, xs, ss, kr, kxx
    <3>5. D(k + 1) = (k + 1) * (r + xx) - (s + x) * (s + x)
      BY <3>1, <3>2, <3>3, <3>4
    <3>6. QED
      BY <2>3, <3>2, <3>5
  <2>10. QED
    BY <2>9
<1>6. D(n) = n * Q(n) - S(n) * S(n) /\ D(n) \in Nat
  <2>1. n \in 0 .. n
    BY <1>1
  <2> HIDE DEF D, Q, S
  <2>2. QED
    BY <1>4, <1>5, <2>1
<1>7. PairwiseSquares(data) = D(n)
  <2> DEFINE P == PairsUpTo(n, n)
             g == [p \in P |-> (data[p[1]] - data[p[2]]) * (data[p[1]] - data[p[2]])]
  <2>1. P = {p \in (DOMAIN data) \X (DOMAIN data) : p[1] < p[2]}
    BY <1>1 DEF PairsUpTo
  <2>2. PairwiseSquares(data) = SumFunctionOnSet(g, P)
    BY <2>1 DEF PairwiseSquares, SumFunction
  <2>3. IsFiniteSet(P) /\ \A p \in P : g[p] = d[p]
    BY <1>1, <1>2, <1>3
  <2> HIDE DEF P, g
  <2>4. SumFunctionOnSet(g, P) = SumFunctionOnSet(d, P)
    BY <2>3, SumOfEqual
  <2>5. QED
    BY <2>2, <2>4 DEF P
<1>8. SumFunction(q) = Q(n) /\ SumFunction(data) = S(n)
  BY <1>1 DEF SumFunction
<1>9. QED
  BY <1>6, <1>7, <1>8 DEF n, q

LEMMA OneSampleHasNoPairs ==
  ASSUME NEW S, NEW data \in Seq(S), Len(data) = 1
  PROVE  PairwiseSquares(data) = 0
<1> DEFINE P == {p \in (DOMAIN data) \X (DOMAIN data) : p[1] < p[2]}
<1>1. DOMAIN data = 1 .. 1
  BY LenProperties
<1>2. P = {}
  BY <1>1
<1>3. PairwiseSquares(data)
        = SumFunctionOnSet([p \in P |-> (data[p[1]] - data[p[2]]) * (data[p[1]] - data[p[2]])], P)
  BY DEF PairwiseSquares, SumFunction
<1>4. QED
  BY <1>2, <1>3, SumOfNone

-----------------------------------------------------------------------------
\* Types.

LEMMA IntLimitType == IntLimit \in Nat \ {0}
<1> DEFINE k == IntWidth - 1
           S == 1 .. k
<1>1. k \in Nat
  BY WidthAssumption
<1>2. IsFiniteSet(S) /\ Cardinality(S) = k
  BY <1>1, FS_Interval
<1> HIDE DEF S, k
<1>3. IsFiniteSet(SUBSET S) /\ Cardinality(SUBSET S) = 2 ^ k
  BY <1>2, FS_SUBSET
<1>4. Cardinality(SUBSET S) \in Nat /\ Cardinality(SUBSET S) # 0
  <2>1. SUBSET S # {}
    OBVIOUS
  <2>2. QED
    BY <1>3, <2>1, FS_CardinalityType, FS_EmptySet
<1>5. QED
  BY <1>3, <1>4 DEF IntLimit, k

\* A product that fits an int is itself; any other is some int.
LEMMA WrapProperties ==
  ASSUME NEW n \in Int
  PROVE  /\ Wrap(n) \in Int
         /\ 0 <= n /\ n < IntLimit => Wrap(n) = n
<1>1. IntLimit \in Nat \ {0}
  BY IntLimitType
<1>2. 2 * IntLimit \in Nat \ {0} /\ n + IntLimit \in Int
  BY <1>1
<1>3. Wrap(n) \in Int
  BY <1>1, <1>2 DEF Wrap
<1>4. ASSUME 0 <= n, n < IntLimit
      PROVE  (n + IntLimit) % (2 * IntLimit) = n + IntLimit
  BY <1>1, <1>4
<1>5. QED
  BY <1>1, <1>3, <1>4 DEF Wrap

WrappedSquares(data) == [i \in DOMAIN data |-> Wrap(data[i] * data[i])]

LEMMA WrappedSquaresProperties ==
  ASSUME NEW data \in Seq(Int)
  PROVE  /\ WrappedSquares(data) \in Seq(Int)
         /\ Len(WrappedSquares(data)) = Len(data)
         /\ DOMAIN WrappedSquares(data) = 1 .. Len(data)
         /\ \A i \in 1 .. Len(data) : WrappedSquares(data)[i] = Wrap(data[i] * data[i])
<1>1. DOMAIN data = 1 .. Len(data) /\ Len(data) \in Nat
      /\ \A i \in 1 .. Len(data) : data[i] \in Int
  BY LenProperties
<1>2. \A i \in 1 .. Len(data) : Wrap(data[i] * data[i]) \in Int
  BY <1>1, WrapProperties
<1>3. WrappedSquares(data) = [i \in 1 .. Len(data) |-> Wrap(data[i] * data[i])]
  BY <1>1 DEF WrappedSquares
<1>4. QED
  BY <1>1, <1>2, <1>3

\* The squares of two sequences one after the other.
LEMMA WrappedSquaresOfConcatenation ==
  ASSUME NEW s \in Seq(Int), NEW t \in Seq(Int)
  PROVE  WrappedSquares(s \o t) = WrappedSquares(s) \o WrappedSquares(t)
<1> DEFINE c == s \o t
           l == WrappedSquares(c)
           r == WrappedSquares(s) \o WrappedSquares(t)
<1>1. /\ c \in Seq(Int) /\ Len(c) = Len(s) + Len(t)
      /\ Len(s) \in Nat /\ Len(t) \in Nat
      /\ \A i \in 1 .. Len(c) : c[i] = IF i <= Len(s) THEN s[i] ELSE t[i - Len(s)]
  BY ConcatProperties
<1>2. /\ l \in Seq(Int) /\ Len(l) = Len(c)
      /\ \A i \in 1 .. Len(c) : l[i] = Wrap(c[i] * c[i])
  <2> HIDE DEF c
  <2>1. QED
    BY <1>1, WrappedSquaresProperties
<1>3. /\ r \in Seq(Int) /\ Len(r) = Len(s) + Len(t)
      /\ \A i \in 1 .. Len(r) : r[i] = IF i <= Len(s) THEN WrappedSquares(s)[i]
                                       ELSE WrappedSquares(t)[i - Len(s)]
  <2> DEFINE u == WrappedSquares(s)
             v == WrappedSquares(t)
  <2>1. u \in Seq(Int) /\ v \in Seq(Int) /\ Len(u) = Len(s) /\ Len(v) = Len(t)
    BY WrappedSquaresProperties
  <2> HIDE DEF u, v
  <2>2. /\ u \o v \in Seq(Int) /\ Len(u \o v) = Len(u) + Len(v)
        /\ \A i \in 1 .. Len(u) + Len(v) :
              (u \o v)[i] = IF i <= Len(u) THEN u[i] ELSE v[i - Len(u)]
    BY <2>1, ConcatProperties
  <2>3. QED
    BY <2>1, <2>2 DEF u, v
<1>4. \A i \in 1 .. Len(s) : WrappedSquares(s)[i] = Wrap(s[i] * s[i])
  BY WrappedSquaresProperties
<1>5. \A i \in 1 .. Len(t) : WrappedSquares(t)[i] = Wrap(t[i] * t[i])
  BY WrappedSquaresProperties
<1> HIDE DEF c, l, r
<1>6. ASSUME NEW i \in 1 .. Len(l) PROVE l[i] = r[i]
  <2>1. CASE i <= Len(s)
    <3>1. i \in 1 .. Len(s) /\ i \in 1 .. Len(c) /\ i \in 1 .. Len(r)
      BY <1>1, <1>2, <1>3, <2>1
    <3>2. l[i] = Wrap(s[i] * s[i])
      BY <1>1, <1>2, <2>1, <3>1
    <3>3. QED
      BY <1>3, <1>4, <2>1, <3>1, <3>2
  <2>2. CASE ~(i <= Len(s))
    <3>1. i - Len(s) \in 1 .. Len(t)
      BY <1>1, <1>2, <2>2
    <3>2. QED
      BY <1>1, <1>2, <1>3, <1>5, <2>2, <3>1
  <2>3. QED
    BY <2>1, <2>2
<1>7. l = r
  BY <1>1, <1>2, <1>3, <1>6, SeqEqual
<1>8. QED
  BY <1>7 DEF l, r, c

\* What a packet's samples are, and what computeSumAndSumSquared returns of them.
LEMMA PacketData ==
  ASSUME NEW n \in PacketSizes, NEW data \in [1 .. n -> SampleValues]
  PROVE  /\ n \in Nat
         /\ data \in Seq(SampleValues) /\ data \in Seq(Int) /\ Len(data) = n
         /\ computeSumAndSumSquared(data).sum = SumFunction(data)
         /\ computeSumAndSumSquared(data).sumSquared = SumFunction(WrappedSquares(data))
         /\ SumFunction(data) \in Int
         /\ SumFunction(WrappedSquares(data)) \in Int
<1>1. n \in Nat
  BY PacketSizesAssumption
<1>2. SampleValues \subseteq Int
  BY IntLimitType, SamplesAssumption
<1>3. data \in Seq(SampleValues) /\ data \in Seq(Int) /\ Len(data) = n
  <2>1. data \in [1 .. n -> Int]
    BY <1>2
  <2>2. \A S : \A d \in [1 .. n -> S] : d \in Seq(S) /\ Len(d) = n
    BY <1>1
  <2>3. QED
    BY <2>1, <2>2
<1>4. \A s \in Seq(Int) : SumFunction(s) \in Int
  BY SumOfSequence
<1>5. WrappedSquares(data) \in Seq(Int)
  BY <1>3, WrappedSquaresProperties
<1>6. QED
  BY <1>1, <1>3, <1>4, <1>5 DEF computeSumAndSumSquared, WrappedSquares

-----------------------------------------------------------------------------
\* The window and its samples.

\* The running sums are those of the samples tabulated while the window is
\* open, and both counts are above zero or neither is.
WindowHoldsSamples ==
    /\ window.samplesCount = Len(samples)
    /\ window.packetsCount = Len(latencies)
    /\ window.sum = SumFunction(samples)
    /\ window.sumSquared = SumFunction(WrappedSquares(samples))
    /\ window.sumLatency = SumFunction(latencies)
    /\ samples = <<>> <=> latencies = <<>>

\* What a step of AddPacket does when the packet has samples, and when not.
LEMMA AddPacketStep ==
  ASSUME TypeOK, AddPacket
  PROVE  \/ UNCHANGED vars
         \/ \E data \in Seq(SampleValues), latency \in Latencies :
              /\ data # <<>>
              /\ window' = [lastUpdate   |-> window.lastUpdate,
                            sum          |-> window.sum + SumFunction(data),
                            sumSquared   |-> window.sumSquared + SumFunction(WrappedSquares(data)),
                            samplesCount |-> window.samplesCount + Len(data),
                            packetsCount |-> window.packetsCount + 1,
                            sumLatency   |-> window.sumLatency + latency]
              /\ samples' = samples \o data
              /\ latencies' = Append(latencies, latency)
              /\ UNCHANGED <<time, gauges, reported>>
<1>1. PICK n \in PacketSizes, latency \in Latencies :
         \E data \in [1 .. n -> SampleValues] :
            /\ window' = Update(window,
                                [nSamples   |-> n,
                                 sum        |-> computeSumAndSumSquared(data).sum,
                                 sumSquared |-> computeSumAndSumSquared(data).sumSquared],
                                latency)
            /\ samples' = samples \o data
            /\ latencies' = IF n > 0 THEN Append(latencies, latency) ELSE latencies
            /\ UNCHANGED <<time, gauges, reported>>
  BY DEF AddPacket
<1>2. PICK data \in [1 .. n -> SampleValues] :
         /\ window' = Update(window,
                             [nSamples   |-> n,
                              sum        |-> computeSumAndSumSquared(data).sum,
                              sumSquared |-> computeSumAndSumSquared(data).sumSquared],
                             latency)
         /\ samples' = samples \o data
         /\ latencies' = IF n > 0 THEN Append(latencies, latency) ELSE latencies
         /\ UNCHANGED <<time, gauges, reported>>
  BY <1>1
<1>3. /\ n \in Nat /\ Len(data) = n
      /\ data \in Seq(SampleValues)
      /\ computeSumAndSumSquared(data).sum = SumFunction(data)
      /\ computeSumAndSumSquared(data).sumSquared = SumFunction(WrappedSquares(data))
  BY PacketData
<1>4. CASE n = 0
  <2>1. data = <<>>
    BY <1>3, <1>4
  <2>2. samples \o data = samples
    BY <2>1 DEF TypeOK
  <2>3. QED
    BY <1>2, <1>4, <2>2 DEF vars, Update
<1>5. CASE n # 0
  <2>1. n > 0 /\ ~(n < 1) /\ data # <<>>
    BY <1>3, <1>5
  <2>2. window' = [lastUpdate   |-> window.lastUpdate,
                   sum          |-> window.sum + SumFunction(data),
                   sumSquared   |-> window.sumSquared + SumFunction(WrappedSquares(data)),
                   samplesCount |-> window.samplesCount + Len(data),
                   packetsCount |-> window.packetsCount + 1,
                   sumLatency   |-> window.sumLatency + latency]
    BY <1>2, <1>3, <2>1 DEF Update
  <2>3. QED
    BY <1>2, <1>3, <2>1, <2>2
<1>6. QED
  BY <1>4, <1>5

\* Sequences of samples and of latencies are sequences of integers.
LEMMA IntegerSequences ==
  ASSUME NEW S \in SUBSET Int, NEW s \in Seq(S)
  PROVE  s \in Seq(Int)
<1>1. Len(s) \in Nat /\ s \in [1 .. Len(s) -> S]
  BY LenProperties
<1>2. s \in [1 .. Len(s) -> Int]
  BY <1>1
<1>3. QED
  BY <1>1, <1>2

LEMMA ConstantTypes == SampleValues \subseteq Int /\ Latencies \subseteq Nat
  BY IntLimitType, SamplesAssumption, LatenciesAssumption

\* A window that holds its samples determines their variance as long as their
\* squares fit an int.
LEMMA HeldVariance == TypeOK /\ WindowHoldsSamples => SumsHoldTheVariance
<1> SUFFICES ASSUME TypeOK, WindowHoldsSamples, SquaresFit(samples)
             PROVE  VarianceNumerator(window) = PairwiseSquares(samples)
  BY DEF SumsHoldTheVariance
<1>1. samples \in Seq(Int)
  <2>1. SampleValues \in SUBSET Int /\ samples \in Seq(SampleValues)
    BY ConstantTypes DEF TypeOK
  <2>2. QED
    BY <2>1, IntegerSequences
<1>2. /\ DOMAIN samples = 1 .. Len(samples) /\ Len(samples) \in Nat
      /\ \A i \in 1 .. Len(samples) : samples[i] \in Int
  BY <1>1, LenProperties
<1>3. WrappedSquares(samples) = Squares(samples)
  <2>1. ASSUME NEW i \in DOMAIN samples
        PROVE  Wrap(samples[i] * samples[i]) = samples[i] * samples[i]
    <3>1. PICK x \in Int : x = samples[i]
      BY <1>2
    <3>2. x * x \in Int /\ 0 <= x * x /\ x * x < IntLimit
      BY <3>1 DEF SquaresFit
    <3>3. QED
      BY <3>1, <3>2, WrapProperties
  <2>2. QED
    BY <2>1 DEF WrappedSquares, Squares
<1>4. /\ window.samplesCount = Len(samples)
      /\ window.sum = SumFunction(samples)
      /\ window.sumSquared = SumFunction(Squares(samples))
  BY <1>3 DEF WindowHoldsSamples
<1>5. /\ PairwiseSquares(samples) = window.samplesCount * window.sumSquared
                                    - window.sum * window.sum
      /\ PairwiseSquares(samples) \in Nat
  BY <1>1, <1>4, PairwiseIdentity
<1>6. QED
  BY <1>5 DEF VarianceNumerator

\* The gauges of a window that holds its samples are its samples' averages,
\* and their denominators are positive.
LEMMA GaugesOfSamples ==
  ASSUME TypeOK, WindowHoldsSamples
  PROVE  LET n == Len(samples)
             m == Len(latencies)
             gs == [g \in GaugeName |-> GaugeValue(g, window)]
         IN  /\ gs \in [GaugeName -> Rational]
             /\ \A g \in GaugeName : gs[g][2] > 0
             /\ n > 0 => gs["counts"] = <<SumFunction(samples), n>>
             /\ m > 0 => gs["latency"] = <<SumFunction(latencies), m>>
             /\ m = 0 => /\ gs["latency"] = <<UpdateInterval, 1>>
                         /\ gs["counts"] = <<0, 1>>
                         /\ gs["std"] = <<0, 1>>
             /\ SquaresFit(samples) =>
                   /\ n = 1 => gs["std"][1] = 0
                   /\ n > 1 => gs["std"] = <<PairwiseSquares(samples), (n - 1) * (n - 1)>>
<1> DEFINE n == Len(samples)
           m == Len(latencies)
<1>1. /\ n \in Nat /\ m \in Nat
      /\ n > 0 <=> m > 0
      /\ n = 0 <=> m = 0
      /\ window.samplesCount = n /\ window.packetsCount = m
      /\ window.sum = SumFunction(samples) /\ window.sumLatency = SumFunction(latencies)
      /\ window.sum \in Int /\ window.sumSquared \in Int /\ window.sumLatency \in Nat
  BY DEF TypeOK, WindowHoldsSamples, Window
<1> HIDE DEF n, m
<1>2. VarianceNumerator(window) \in Nat
  <2>1. window.samplesCount * window.sumSquared - window.sum * window.sum \in Int
    BY <1>1
  <2>2. QED
    BY <2>1 DEF VarianceNumerator
<1>3. /\ AverageLatency(window) \in Rational /\ AverageLatency(window)[2] > 0
      /\ m > 0 => AverageLatency(window) = <<SumFunction(latencies), m>>
      /\ m = 0 => AverageLatency(window) = <<UpdateInterval, 1>>
  BY <1>1, UpdateIntervalAssumption DEF AverageLatency, Rational
<1>4. /\ AverageCounts(window) \in Rational /\ AverageCounts(window)[2] > 0
      /\ n > 0 => AverageCounts(window) = <<SumFunction(samples), n>>
      /\ m = 0 => AverageCounts(window) = <<0, 1>>
  BY <1>1 DEF AverageCounts, Rational
<1>5. /\ StdCountsSquared(window) \in Rational /\ StdCountsSquared(window)[2] > 0
      /\ m = 0 => StdCountsSquared(window) = <<0, 1>>
  <2>1. n > 1 => (n - 1) * (n - 1) \in Nat \ {0}
    BY <1>1
  <2>2. QED
    BY <1>1, <1>2, <2>1 DEF StdCountsSquared, Rational
<1>6. ASSUME SquaresFit(samples)
      PROVE  /\ n = 1 => StdCountsSquared(window)[1] = 0
             /\ n > 1 => StdCountsSquared(window)
                           = <<PairwiseSquares(samples), (n - 1) * (n - 1)>>
  <2>1. VarianceNumerator(window) = PairwiseSquares(samples)
    BY <1>6, HeldVariance DEF SumsHoldTheVariance
  <2>2. CASE n = 1
    <3>1. PairwiseSquares(samples) = 0
      BY <2>2, OneSampleHasNoPairs DEF TypeOK, n
    <3>2. QED
      BY <1>1, <2>1, <2>2, <3>1 DEF StdCountsSquared
  <2>3. CASE n > 1
    BY <1>1, <2>1, <2>3 DEF StdCountsSquared
  <2>4. QED
    BY <2>2, <2>3
<1>7. QED
  BY <1>3, <1>4, <1>5, <1>6 DEF GaugeValue, GaugeName, n, m

LEMMA EmptyWindowSums == SumFunction(<<>>) = 0 /\ WrappedSquares(<<>>) = <<>>
<1>1. DOMAIN <<>> = {} /\ <<>> \in Seq(Int) /\ Len(<<>>) = 0
  OBVIOUS
<1>2. SumFunction(<<>>) = 0
  BY <1>1, SumOfNone DEF SumFunction
<1>3. WrappedSquares(<<>>) \in Seq(Int) /\ Len(WrappedSquares(<<>>)) = 0
  BY <1>1, WrappedSquaresProperties
<1>4. WrappedSquares(<<>>) = <<>>
  BY <1>3, EmptySeq
<1>5. QED
  BY <1>2, <1>4

\* The invariants of every reachable state follow from one induction: a
\* window holds its samples, so closing it stores their averages.
Exact == TypeOK /\ WindowHoldsSamples /\ AveragesAreExact /\ StdIsScaledDeviation

LEMMA StartsExact == Init => Exact
<1> SUFFICES ASSUME Init PROVE Exact
  OBVIOUS
<1>1. SumFunction(<<>>) = 0 /\ WrappedSquares(<<>>) = <<>>
  BY EmptyWindowSums
<1>2. Len(<<>>) = 0
  OBVIOUS
<1>3. /\ window = [lastUpdate |-> 0, sum |-> 0, sumSquared |-> 0,
                   samplesCount |-> 0, packetsCount |-> 0, sumLatency |-> 0]
      /\ samples = <<>> /\ latencies = <<>> /\ time = 0
      /\ reported = [samples |-> <<>>, latencies |-> <<>>]
      /\ reported.samples = <<>> /\ reported.latencies = <<>>
  BY DEF Init, NewWindow
<1>4. WindowHoldsSamples
  BY <1>1, <1>2, <1>3 DEF WindowHoldsSamples
<1>5. /\ gauges["latency"] = <<UpdateInterval, 1>>
      /\ gauges["counts"] = <<0, 1>>
      /\ gauges["std"] = <<0, 1>>
      /\ DOMAIN gauges = GaugeName
      /\ gauges = [g \in GaugeName |-> gauges[g]]
  BY DEF Init, NewWindow, GaugeName, GaugeValue, AverageLatency, AverageCounts,
         StdCountsSquared
<1>6. gauges \in [GaugeName -> Rational] /\ \A g \in GaugeName : gauges[g][2] > 0
  BY <1>5, UpdateIntervalAssumption DEF GaugeName, Rational
<1>7. TypeOK
  BY <1>3, <1>6 DEF TypeOK, Window
<1>8. AveragesAreExact
  <2>1. Len(reported.samples) = 0 /\ Len(reported.latencies) = 0
    BY <1>3
  <2>2. SameRational(gauges["latency"], <<UpdateInterval, 1>>)
    BY <1>5 DEF SameRational
  <2>3. QED
    BY <1>5, <1>6, <2>1, <2>2 DEF AveragesAreExact
<1>9. StdIsScaledDeviation
  <2>1. Len(reported.samples) = 0
    BY <1>3
  <2>2. QED
    BY <2>1 DEF StdIsScaledDeviation
<1>10. QED
  BY <1>4, <1>7, <1>8, <1>9 DEF Exact

LEMMA StaysExact == Exact /\ [Next]_vars => Exact'
<1> SUFFICES ASSUME Exact, [Next]_vars PROVE Exact'
  OBVIOUS
<1>a. TypeOK /\ WindowHoldsSamples /\ AveragesAreExact /\ StdIsScaledDeviation
  BY DEF Exact
<1>b. ASSUME UNCHANGED <<window, gauges, samples, latencies, reported>>, time' \in Nat
      PROVE  Exact'
  BY <1>a, <1>b DEF Exact, TypeOK, WindowHoldsSamples, AveragesAreExact,
                         StdIsScaledDeviation
<1>1. CASE UNCHANGED vars
  BY <1>1, <1>a, <1>b DEF vars, TypeOK
<1>2. CASE Tick
  BY <1>2, <1>a, <1>b DEF Tick, TypeOK
<1>3. CASE AddPacket
  <2>1. CASE UNCHANGED vars
    BY <1>1, <2>1
  <2>2. ASSUME NEW data \in Seq(SampleValues), NEW latency \in Latencies,
               data # <<>>,
               window' = [lastUpdate   |-> window.lastUpdate,
                          sum          |-> window.sum + SumFunction(data),
                          sumSquared   |-> window.sumSquared + SumFunction(WrappedSquares(data)),
                          samplesCount |-> window.samplesCount + Len(data),
                          packetsCount |-> window.packetsCount + 1,
                          sumLatency   |-> window.sumLatency + latency],
               samples' = samples \o data,
               latencies' = Append(latencies, latency),
               UNCHANGED <<time, gauges, reported>>
        PROVE  Exact'
    <3>1. /\ samples \in Seq(SampleValues) /\ latencies \in Seq(Latencies)
          /\ window \in Window
          /\ latency \in Nat
      BY <1>a, ConstantTypes DEF TypeOK
    <3>2. samples \in Seq(Int) /\ data \in Seq(Int) /\ latencies \in Seq(Int)
      <4>1. SampleValues \in SUBSET Int /\ Latencies \in SUBSET Int
        BY ConstantTypes
      <4>2. QED
        BY <3>1, <4>1, IntegerSequences
    <3>3. /\ samples \o data \in Seq(SampleValues)
          /\ Len(samples \o data) = Len(samples) + Len(data)
          /\ samples \o data # <<>>
      <4>1. Len(data) \in Nat /\ Len(data) # 0 /\ Len(samples) \in Nat
        BY <2>2, <3>1
      <4>2. samples \o data \in Seq(SampleValues)
            /\ Len(samples \o data) = Len(samples) + Len(data)
        BY <3>1, ConcatProperties
      <4>3. QED
        BY <4>1, <4>2
    <3>4. /\ Append(latencies, latency) \in Seq(Latencies)
          /\ Len(Append(latencies, latency)) = Len(latencies) + 1
          /\ Append(latencies, latency) # <<>>
      BY <3>1, AppendProperties
    <3>5. SumFunction(samples \o data) = SumFunction(samples) + SumFunction(data)
      BY <3>2, SumOfConcatenation
    <3>6. SumFunction(WrappedSquares(samples \o data))
            = SumFunction(WrappedSquares(samples)) + SumFunction(WrappedSquares(data))
      <4>1. WrappedSquares(samples) \in Seq(Int) /\ WrappedSquares(data) \in Seq(Int)
        BY <3>2, WrappedSquaresProperties
      <4>2. WrappedSquares(samples \o data) = WrappedSquares(samples) \o WrappedSquares(data)
        BY <3>2, WrappedSquaresOfConcatenation
      <4>3. SumFunction(WrappedSquares(samples) \o WrappedSquares(data))
              = SumFunction(WrappedSquares(samples)) + SumFunction(WrappedSquares(data))
        BY <4>1, SumOfConcatenation
      <4>4. QED
        BY <4>2, <4>3
    <3>7. SumFunction(Append(latencies, latency)) = SumFunction(latencies) + latency
      BY <3>1, <3>2, SumOfAppend
    <3>8. WindowHoldsSamples'
      BY <1>a, <2>2, <3>3, <3>4, <3>5, <3>6, <3>7 DEF WindowHoldsSamples
    <3>9. window' \in Window
      <4>1. SumFunction(data) \in Int /\ SumFunction(WrappedSquares(data)) \in Int
        BY <3>2, WrappedSquaresProperties, SumOfSequence
      <4>2. Len(data) \in Nat /\ latency \in Nat
        BY <3>1
      <4>3. /\ window.lastUpdate \in Nat
            /\ window.sum \in Int /\ window.sumSquared \in Int
            /\ window.samplesCount \in Nat /\ window.packetsCount \in Nat
            /\ window.sumLatency \in Nat
        BY <3>1 DEF Window
      <4>4. /\ window.sum + SumFunction(data) \in Int
            /\ window.sumSquared + SumFunction(WrappedSquares(data)) \in Int
            /\ window.samplesCount + Len(data) \in Nat
            /\ window.packetsCount + 1 \in Nat
            /\ window.sumLatency + latency \in Nat
        <5>1. window.sum + SumFunction(data) \in Int
          BY <4>1, <4>3
        <5>2. window.sumSquared + SumFunction(WrappedSquares(data)) \in Int
          BY <4>1, <4>3
        <5>3. window.samplesCount + Len(data) \in Nat
          BY <4>2, <4>3
        <5>4. window.packetsCount + 1 \in Nat /\ window.sumLatency + latency \in Nat
          BY <4>2, <4>3
        <5>5. QED
          BY <5>1, <5>2, <5>3, <5>4
      <4>5. QED
        BY <2>2, <4>3, <4>4 DEF Window
    <3>10. TypeOK'
      BY <1>a, <2>2, <3>3, <3>4, <3>9 DEF TypeOK
    <3>11. AveragesAreExact'
      BY <1>a, <2>2 DEF AveragesAreExact
    <3>12. StdIsScaledDeviation'
      BY <1>a, <2>2 DEF StdIsScaledDeviation
    <3>13. QED
      BY <3>8, <3>10, <3>11, <3>12 DEF Exact
  <2>3. QED
    BY <1>3, <1>a, <2>1, <2>2, AddPacketStep
<1>4. CASE updateAndReset
  <2> DEFINE n == Len(samples)
             m == Len(latencies)
  <2>1. /\ gauges' = [g \in GaugeName |-> GaugeValue(g, window)]
        /\ window' = NewWindow(time)
        /\ reported' = [samples |-> samples, latencies |-> latencies]
        /\ reported'.samples = samples /\ reported'.latencies = latencies
        /\ samples' = <<>> /\ latencies' = <<>> /\ time' = time
    BY <1>4 DEF updateAndReset
  <2>2. /\ gauges' \in [GaugeName -> Rational]
        /\ \A g \in GaugeName : gauges'[g][2] > 0
        /\ n > 0 => gauges'["counts"] = <<SumFunction(samples), n>>
        /\ m > 0 => gauges'["latency"] = <<SumFunction(latencies), m>>
        /\ m = 0 => /\ gauges'["latency"] = <<UpdateInterval, 1>>
                    /\ gauges'["counts"] = <<0, 1>>
                    /\ gauges'["std"] = <<0, 1>>
        /\ SquaresFit(samples) =>
              /\ n = 1 => gauges'["std"][1] = 0
              /\ n > 1 => gauges'["std"] = <<PairwiseSquares(samples), (n - 1) * (n - 1)>>
    BY <1>a, <2>1, GaugesOfSamples
  <2>3. window' \in Window
    BY <1>a, <2>1 DEF NewWindow, Window, TypeOK
  <2>4. TypeOK'
    BY <1>a, <2>1, <2>2, <2>3 DEF TypeOK
  <2>5. SumFunction(<<>>) = 0 /\ WrappedSquares(<<>>) = <<>>
    BY EmptyWindowSums
  <2>6. WindowHoldsSamples'
    BY <2>1, <2>5 DEF WindowHoldsSamples, NewWindow
  <2>7. AveragesAreExact'
    <3>1. n > 0 => SameRational(gauges'["counts"], <<SumFunction(samples), n>>)
      BY <2>2 DEF SameRational
    <3>2. m > 0 => SameRational(gauges'["latency"], <<SumFunction(latencies), m>>)
      BY <2>2 DEF SameRational
    <3>3. m = 0 => /\ SameRational(gauges'["latency"], <<UpdateInterval, 1>>)
                   /\ gauges'["counts"][1] = 0
                   /\ gauges'["std"][1] = 0
      BY <2>2 DEF SameRational
    <3>4. QED
      BY <2>1, <2>2, <3>1, <3>2, <3>3 DEF AveragesAreExact
  <2>8. StdIsScaledDeviation'
    <3>1. (SquaresFit(samples) /\ n > 1) =>
            SameRational(gauges'["std"], <<PairwiseSquares(samples), (n - 1) * (n - 1)>>)
      BY <2>2 DEF SameRational
    <3>2. QED
      BY <2>1, <2>2, <3>1 DEF StdIsScaledDeviation
  <2>9. QED
    BY <2>4, <2>6, <2>7, <2>8 DEF Exact
<1>5. QED
  BY <1>1, <1>2, <1>3, <1>4 DEF Next

\* Every variable keeps its type: the window's sums stay integers, its counts
\* naturals, and what is reported are samples and latencies.
THEOREM WindowTypeCorrect == Spec => []TypeOK
<1>1. Spec => []Exact
  BY StartsExact, StaysExact, PTL DEF Spec
<1>2. Exact => TypeOK
  BY DEF Exact
<1>3. QED
  BY <1>1, <1>2, PTL

\* In every reachable state the averages last stored are those of exactly the
\* samples and packets that were tabulated while the window was open.
THEOREM ExactAverages == Spec => []AveragesAreExact
<1>1. Spec => []Exact
  BY StartsExact, StaysExact, PTL DEF Spec
<1>2. Exact => AveragesAreExact
  BY DEF Exact
<1>3. QED
  BY <1>1, <1>2, PTL

\* In every reachable state the standard deviation last stored is n / (n - 1)
\* times the root of the mean squared distance of exactly the samples tabulated
\* from their mean, as long as every sample's square fits an int.
THEOREM DeviationIsScaled == Spec => []StdIsScaledDeviation
<1>1. Spec => []Exact
  BY StartsExact, StaysExact, PTL DEF Spec
<1>2. Exact => StdIsScaledDeviation
  BY DEF Exact
<1>3. QED
  BY <1>1, <1>2, PTL

\* Differences that cancel out are differences that are zero.
LEMMA ZeroPairwiseSquares ==
  ASSUME NEW data \in Seq(Int), PairwiseSquares(data) = 0,
         NEW i \in DOMAIN data, NEW j \in DOMAIN data
  PROVE  data[i] = data[j]
<1> DEFINE n == Len(data)
           Pairs == {p \in (DOMAIN data) \X (DOMAIN data) : p[1] < p[2]}
           d == [p \in Pairs |-> (data[p[1]] - data[p[2]]) * (data[p[1]] - data[p[2]])]
<1>1. n \in Nat /\ DOMAIN data = 1 .. n /\ \A k \in 1 .. n : data[k] \in Int
  OBVIOUS
<1>2. SumFunctionOnSet(d, Pairs) = 0
  BY DEF PairwiseSquares, SumFunction, FoldFunction, SumFunctionOnSet
<1>3. IsFiniteSet(Pairs)
  BY <1>1, PairsAreFinite
<1>4. \A p \in Pairs : d[p] \in Nat
  <2> SUFFICES ASSUME NEW p \in Pairs PROVE d[p] \in Nat
    OBVIOUS
  <2>1. data[p[1]] \in Int /\ data[p[2]] \in Int
    BY <1>1
  <2>2. \A x, y \in Int : (x - y) * (x - y) \in Nat
    <3> SUFFICES ASSUME NEW x \in Int, NEW y \in Int PROVE (x - y) * (x - y) \in Nat
      OBVIOUS
    <3>1. PICK z \in Int : z = x - y
      OBVIOUS
    <3>2. z * z \in Int /\ z * z >= 0
      OBVIOUS
    <3>3. QED
      BY <3>1, <3>2
  <2>3. QED
    BY <2>1, <2>2
<1>5. ASSUME NEW a \in 1 .. n, NEW b \in 1 .. n, a < b
      PROVE  data[a] = data[b]
  <2>1. <<a, b>> \in Pairs /\ d[<<a, b>>] = (data[a] - data[b]) * (data[a] - data[b])
    BY <1>1, <1>5
  <2>2. d[<<a, b>>] = 0
    <3> HIDE DEF d, Pairs
    <3>1. QED
      BY <1>2, <1>3, <1>4, <2>1, SumOfNaturalsIsZero
  <2>3. PICK z \in Int : z = data[a] - data[b]
    BY <1>1
  <2>4. z * z = 0
    BY <2>1, <2>2, <2>3
  <2>5. z = 0
    BY <2>4
  <2>6. QED
    BY <1>1, <2>3, <2>5
<1>6. QED
  BY <1>1, <1>5

\* In every reachable state, unless the square of a sample overflowed, the
\* standard deviation last stored is zero only for samples that are equal: the
\* overflow is the one way to the wrong zero of StdIsZeroOnlyForEqualSamples.
THEOREM ZeroOnlyByOverflow ==
  Spec => [](SquaresFit(reported.samples) => StdIsZeroOnlyForEqualSamples)
<1>1. Spec => []Exact
  BY StartsExact, StaysExact, PTL DEF Spec
<1>2. Exact => (SquaresFit(reported.samples) => StdIsZeroOnlyForEqualSamples)
  <2> SUFFICES ASSUME Exact, SquaresFit(reported.samples), gauges["std"][1] = 0,
                      NEW i \in DOMAIN reported.samples, NEW j \in DOMAIN reported.samples
               PROVE  reported.samples[i] = reported.samples[j]
    BY DEF StdIsZeroOnlyForEqualSamples
  <2> DEFINE data == reported.samples
             n == Len(data)
             P == PairwiseSquares(data)
  <2>1. data \in Seq(SampleValues) /\ gauges["std"] \in Rational /\ gauges["std"][2] > 0
    BY DEF Exact, TypeOK, AveragesAreExact, GaugeName
  <2>2. data \in Seq(Int)
    BY <2>1, ConstantTypes, IntegerSequences
  <2>3. n \in Nat /\ DOMAIN data = 1 .. n
    BY <2>2
  <2>4. CASE n <= 1
    BY <2>3, <2>4
  <2>5. CASE n > 1
    <3>1. SameRational(gauges["std"], <<P, (n - 1) * (n - 1)>>)
      BY <2>5 DEF Exact, StdIsScaledDeviation
    <3>2. P \in Int
      BY <2>2, PairwiseIdentity
    <3>3. P * gauges["std"][2] = 0
      BY <3>1, <2>3 DEF SameRational
    <3>4. P = 0
      <4>1. PICK w \in Int : w = gauges["std"][2]
        BY <2>1 DEF Rational
      <4>2. PICK z \in Int : z = P
        BY <3>2
      <4> HIDE DEF P
      <4>3. z * w = 0 /\ w > 0
        BY <2>1, <3>3, <4>1, <4>2
      <4>4. z = 0
        BY <4>3
      <4>5. QED
        BY <4>2, <4>4
    <3>5. QED
      BY <2>2, <3>4, ZeroPairwiseSquares
  <2>6. QED
    BY <2>3, <2>4, <2>5
<1>3. QED
  BY <1>1, <1>2, PTL

\* In every reachable state, as long as every sample's square fits an int, the
\* open window's sums determine the variance, and it is never clipped.
THEOREM VarianceIsHeld == Spec => []SumsHoldTheVariance
<1>1. Spec => []Exact
  BY StartsExact, StaysExact, PTL DEF Spec
<1>2. Exact => SumsHoldTheVariance
  BY HeldVariance DEF Exact
<1>3. QED
  BY <1>1, <1>2, PTL

=============================================================================

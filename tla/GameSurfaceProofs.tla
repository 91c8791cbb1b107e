------------------------- MODULE GameSurfaceProofs -------------------------
(***************************************************************************)
(* Theorems about GamePackage and GameSurface for any packages, limits and *)
(* arguments: what a game draws stays in its surface and its atlases, its  *)
(* tiles meet, its animations follow the ticks and its frames are drawn as *)
(* they were submitted.                                                    *)
(***************************************************************************)
EXTENDS GameSurface, SequenceTheorems, WellFoundedInduction, TLAPS

-----------------------------------------------------------------------------
(* Numbers, and definitions by recursion. *)

\* Induction is proved by the least number for which a formula fails.
LEMMA Least ==
  ASSUME NEW S \in SUBSET Nat, S # {}
  PROVE  \E n \in S : \A m \in S : n <= m
<1>1. PICK n \in S : \A m \in S : <<m, n>> \notin OpToRel(<, Nat)
  BY WFMin, NatLessThanWellFounded, Zenon
<1>2. \A m \in S : ~(m < n)
  BY <1>1 DEF OpToRel
<1> QED
  BY <1>2

Steps(n, T) == [1..n -> [T -> T]]

Iterates(g, n, T, base, step) ==
  /\ g \in [0..n -> T] /\ g[0] = base
  /\ \A k \in 1..n : g[k] = step[k][g[k - 1]]

FoldsSets(g, n, T, base, step) ==
  /\ g \in [SUBSET (1..n) -> T]
  /\ \A s \in SUBSET (1..n) :
       g[s] = IF s = {} THEN base ELSE step[Max(s)][g[s \ {Max(s)}]]

\* A step for every number defines a function on the numbers up to n.
LEMMA Recursion ==
  ASSUME NEW n \in Nat, NEW T, NEW base \in T, NEW step \in Steps(n, T)
  PROVE  \E g : Iterates(g, n, T, base, step)
<1> USE DEF Steps, Iterates
<1> DEFINE Defined(m) == \E g \in [0..m -> T] :
             g[0] = base /\ \A k \in 1..m : g[k] = step[k][g[k - 1]]
           Failed == {m \in 0..n : ~Defined(m)}
<1>1. Defined(0)
  <2> DEFINE g == [k \in 0..0 |-> base]
  <2>1. g \in [0..0 -> T] /\ g[0] = base
    OBVIOUS
  <2> HIDE DEF g
  <2> QED
    BY <2>1
<1>2. ASSUME NEW m \in 0..n, m > 0, Defined(m - 1) PROVE Defined(m)
  <2>1. PICK g \in [0..(m - 1) -> T] :
          g[0] = base /\ \A k \in 1..(m - 1) : g[k] = step[k][g[k - 1]]
    BY <1>2
  <2> DEFINE h == [k \in 0..m |-> IF k = m THEN step[m][g[m - 1]] ELSE g[k]]
  <2>2. h \in [0..m -> T]
    BY <1>2, <2>1
  <2>3. h[0] = base
    BY <1>2, <2>1
  <2>4. \A k \in 1..m : h[k] = step[k][h[k - 1]]
    BY <1>2, <2>1
  <2> HIDE DEF h
  <2> QED
    BY <2>2, <2>3, <2>4
<1> HIDE DEF Defined
<1>3. Failed = {}
  <2> SUFFICES ASSUME Failed # {} PROVE FALSE
    OBVIOUS
  <2>1. Failed \in SUBSET Nat
    OBVIOUS
  <2> HIDE DEF Failed
  <2>2. PICK m \in Failed : \A k \in Failed : m <= k
    BY <2>1, Least
  <2> USE DEF Failed
  <2>3. m > 0 /\ m - 1 \in 0..n /\ m - 1 \notin Failed
    BY <1>1, <2>2
  <2> QED
    BY <1>2, <2>2, <2>3
<1>4. Defined(n)
  BY <1>3
<1> QED
  BY <1>4 DEF Defined

\* A nonempty set of numbers up to n has a greatest.
LEMMA Greatest ==
  ASSUME NEW n \in Nat, NEW S \in SUBSET (1..n), S # {}
  PROVE  Max(S) \in S /\ \A m \in S : Max(S) >= m
<1> DEFINE Above == {k \in 0..n : \A m \in S : k >= m}
<1>1. n \in Above /\ Above \in SUBSET Nat
  OBVIOUS
<1> HIDE DEF Above
<1>2. PICK k \in Above : \A j \in Above : k <= j
  BY <1>1, Least
<1> USE DEF Above
<1>3. k \in S
  <2> SUFFICES ASSUME k \notin S PROVE FALSE
    OBVIOUS
  <2>1. k \in 0..n /\ \A m \in S : m \in 1..n /\ k > m
    BY <1>2
  <2>2. k # 0
    <3>1. PICK m \in S : TRUE
      OBVIOUS
    <3> QED
      BY <2>1, <3>1
  <2>3. k - 1 \in Above
    BY <2>1, <2>2
  <2> QED
    BY <1>2, <2>2, <2>3
<1> QED
  BY <1>2, <1>3 DEF Max

\* A step for every number folds the sets of numbers up to n from left to right.
LEMMA Folding ==
  ASSUME NEW n \in Nat, NEW T, NEW base \in T, NEW step \in Steps(n, T)
  PROVE  \E g : FoldsSets(g, n, T, base, step)
<1> USE DEF Steps, FoldsSets
<1> DEFINE Folds(g, m) == \A s \in SUBSET (1..m) :
             g[s] = IF s = {} THEN base ELSE step[Max(s)][g[s \ {Max(s)}]]
           Defined(m) == \E g \in [SUBSET (1..m) -> T] : Folds(g, m)
           Failed == {m \in 0..n : ~Defined(m)}
<1>1. Defined(0)
  <2> DEFINE g == [s \in SUBSET (1..0) |-> base]
  <2>1. g \in [SUBSET (1..0) -> T]
    OBVIOUS
  <2>2. \A s \in SUBSET (1..0) : s = {}
    OBVIOUS
  <2>3. Folds(g, 0)
    BY <2>2
  <2> HIDE DEF g, Folds
  <2> QED
    BY <2>1, <2>3
<1>2. ASSUME NEW m \in 0..n, m > 0, Defined(m - 1) PROVE Defined(m)
  <2>1. PICK g \in [SUBSET (1..(m - 1)) -> T] : Folds(g, m - 1)
    BY <1>2
  <2> DEFINE h == [s \in SUBSET (1..m) |-> IF m \in s THEN step[m][g[s \ {m}]] ELSE g[s]]
  <2>2. \A s \in SUBSET (1..m) :
          /\ m \in s => s \ {m} \in SUBSET (1..(m - 1)) /\ Max(s) = m
          /\ m \notin s => s \in SUBSET (1..(m - 1))
    <3> SUFFICES ASSUME NEW s \in SUBSET (1..m)
                 PROVE  /\ m \in s => s \ {m} \in SUBSET (1..(m - 1)) /\ Max(s) = m
                        /\ m \notin s => s \in SUBSET (1..(m - 1))
      OBVIOUS
    <3>1. m \in s => Max(s) \in s /\ Max(s) >= m
      <4>1. m \in Nat /\ (m \in s => s # {})
        OBVIOUS
      <4> QED
        BY <4>1, Greatest
    <3>2. \A k \in s : k \in 1..m
      OBVIOUS
    <3>3. ASSUME m \in s PROVE Max(s) = m
      <4>1. Max(s) \in 1..m /\ Max(s) >= m
        BY <3>1, <3>2, <3>3
      <4> QED
        BY <4>1
    <3>4. /\ m \in s => s \ {m} \in SUBSET (1..(m - 1))
          /\ m \notin s => s \in SUBSET (1..(m - 1))
      BY <1>2
    <3> QED
      BY <3>3, <3>4
  <2>3. h \in [SUBSET (1..m) -> T]
    BY <1>2, <2>1, <2>2
  <2>4. ASSUME NEW s \in SUBSET (1..m)
        PROVE  h[s] = IF s = {} THEN base ELSE step[Max(s)][h[s \ {Max(s)}]]
    <3>1. CASE m \in s
      <4>1. Max(s) = m /\ s # {} /\ m \notin s \ {m} /\ s \ {m} \in SUBSET (1..m)
        BY <2>2, <3>1
      <4> QED
        BY <3>1, <4>1
    <3>2. CASE m \notin s
      <4>1. s \in SUBSET (1..(m - 1)) /\ h[s] = g[s]
        BY <2>2, <3>2
      <4>2. g[s] = IF s = {} THEN base ELSE step[Max(s)][g[s \ {Max(s)}]]
        BY <2>1, <4>1
      <4>3. h[s \ {Max(s)}] = g[s \ {Max(s)}]
        BY <3>2
      <4> QED
        BY <4>1, <4>2, <4>3
    <3> QED
      BY <3>1, <3>2
  <2> HIDE DEF h
  <2>5. Folds(h, m)
    BY <2>4
  <2> HIDE DEF Folds
  <2> QED
    BY <2>3, <2>5
<1> HIDE DEF Defined
<1>3. Failed = {}
  <2> SUFFICES ASSUME Failed # {} PROVE FALSE
    OBVIOUS
  <2>1. Failed \in SUBSET Nat
    OBVIOUS
  <2> HIDE DEF Failed
  <2>2. PICK m \in Failed : \A k \in Failed : m <= k
    BY <2>1, Least
  <2> USE DEF Failed
  <2>3. m > 0 /\ m - 1 \in 0..n /\ m - 1 \notin Failed
    BY <1>1, <2>2
  <2> QED
    BY <1>2, <2>2, <2>3
<1>4. Defined(n)
  BY <1>3
<1> QED
  BY <1>4 DEF Defined

-----------------------------------------------------------------------------
(* Sequences, and sequences flattened. *)

LEMMA SequenceOf ==
  ASSUME NEW S, NEW n \in Nat, NEW s \in [1..n -> S]
  PROVE  s \in Seq(S) /\ Len(s) = n
  OBVIOUS

\* The flattened prefixes of a sequence of sequences.
Flattens(f, ss, X) ==
  /\ f \in [0..Len(ss) -> Seq(X)] /\ f[0] = <<>>
  /\ \A k \in 1..Len(ss) : f[k] = f[k - 1] \o ss[k]

LEMMA Flattening ==
  ASSUME NEW X, NEW ss \in Seq(Seq(X))
  PROVE  \E f : Flattens(f, ss, X) /\ FlattenSeq(ss) = f[Len(ss)]
<1> DEFINE N == Len(ss)
           step == [n \in 1..N |-> [s \in Seq(X) |-> s \o ss[n]]]
           Flats(f) == f = [i \in 1..N |-> IF i = 1 THEN ss[i] ELSE f[i - 1] \o ss[i]]
<1>1. N \in Nat /\ \A n \in 1..N : ss[n] \in Seq(X)
  BY LenProperties, ElementOfSeq
<1>a. N = Len(ss)
  OBVIOUS
<1> HIDE DEF N
<1>2. step \in Steps(N, Seq(X))
  BY <1>1 DEF Steps
<1>3. PICK g : Iterates(g, N, Seq(X), <<>>, step)
  <2>1. N \in Nat /\ <<>> \in Seq(X)
    BY <1>1
  <2> HIDE DEF step
  <2> QED
    BY <1>2, <2>1, Recursion
<1>4. /\ g \in [0..N -> Seq(X)] /\ g[0] = <<>>
      /\ \A n \in 1..N : g[n] = g[n - 1] \o ss[n]
  <2>1. ASSUME NEW n \in 1..N PROVE g[n] = g[n - 1] \o ss[n]
    <3>a. n - 1 \in 0..N
      BY <1>1
    <3>1. g[n - 1] \in Seq(X)
      BY <1>3, <3>a DEF Iterates
    <3>2. g[n] = step[n][g[n - 1]]
      BY <1>3 DEF Iterates
    <3> QED
      BY <3>1, <3>2
  <2> QED
    BY <1>3, <2>1 DEF Iterates
<1>5. CASE N = 0
  <2>1. ss = <<>> /\ FlattenSeq(ss) = ss
    BY <1>a, <1>5, EmptySeq DEF FlattenSeq
  <2> QED
    BY <1>a, <1>4, <1>5, <2>1 DEF Flattens
<1>6. CASE N # 0
  <2> DEFINE f == CHOOSE h : Flats(h)
             F == [k \in 0..N |-> IF k = 0 THEN <<>> ELSE f[k]]
  <2>1. Flats([i \in 1..N |-> g[i]])
    <3> DEFINE h == [i \in 1..N |-> g[i]]
    <3>1. \A i \in 1..N : h[i] = IF i = 1 THEN ss[i] ELSE h[i - 1] \o ss[i]
      <4> TAKE i \in 1..N
      <4>a. h[i] = g[i] /\ ss[i] \in Seq(X) /\ g[i] = g[i - 1] \o ss[i]
        BY <1>1, <1>4
      <4>1. CASE i = 1
        <5>a. i - 1 = 0
          BY <4>1
        <5>1. h[i] = g[i] /\ g[i] = g[0] \o ss[i] /\ ss[i] \in Seq(X)
          BY <4>a, <5>a
        <5>2. <<>> \o ss[i] = ss[i]
          BY <5>1
        <5> QED
          BY <1>4, <4>1, <5>1, <5>2
      <4>2. CASE i # 1
        <5>1. i - 1 \in 1..N
          BY <1>1, <4>2
        <5>2. h[i] = g[i] /\ h[i - 1] = g[i - 1] /\ g[i] = g[i - 1] \o ss[i]
          BY <1>4, <5>1
        <5> QED
          BY <4>2, <5>2
      <4> QED
        BY <4>1, <4>2
    <3> QED
      BY <3>1
  <2>2. Flats(f)
    <3> HIDE DEF Flats
    <3> QED
      BY <2>1
  <2>3. FlattenSeq(ss) = f[N]
    BY <1>a, <1>6 DEF FlattenSeq
  <2> HIDE DEF f
  <2>4. \A i \in 1..N : f[i] = IF i = 1 THEN ss[i] ELSE f[i - 1] \o ss[i]
    BY <2>2
  <2>5. \A k \in 1..N : F[k] = F[k - 1] \o ss[k]
    <3> TAKE k \in 1..N
    <3>1. CASE k = 1
      <4>1. F[k] = f[k] /\ f[k] = ss[k] /\ F[0] = <<>> /\ ss[k] \in Seq(X)
        BY <1>1, <2>4, <3>1
      <4>2. <<>> \o ss[k] = ss[k]
        BY <4>1
      <4>3. k - 1 = 0
        BY <3>1
      <4> HIDE DEF F
      <4> QED
        BY <4>1, <4>2, <4>3
    <3>2. CASE k # 1
      <4>1. k - 1 \in 0..N /\ k - 1 # 0 /\ k \in 0..N /\ k # 0
        BY <1>1, <3>2
      <4>2. F[k] = f[k] /\ F[k - 1] = f[k - 1] /\ f[k] = f[k - 1] \o ss[k]
        BY <2>4, <3>2, <4>1
      <4> HIDE DEF F
      <4> QED
        BY <4>2
    <3> QED
      BY <3>1, <3>2
  <2>6. F[0] = <<>> /\ F[N] = f[N] /\ F = [k \in 0..N |-> F[k]]
    BY <1>1, <1>6
  <2> HIDE DEF F
  <2>7. \A k \in 0..N : F[k] = g[k]
    <3> DEFINE Failed == {k \in 0..N : F[k] # g[k]}
    <3> SUFFICES ASSUME Failed # {} PROVE FALSE
      OBVIOUS
    <3>1. Failed \in SUBSET Nat
      BY <1>1
    <3> HIDE DEF Failed
    <3>2. PICK k \in Failed : \A j \in Failed : k <= j
      BY <3>1, Least
    <3> USE DEF Failed
    <3>3. k \in 1..N /\ k - 1 \notin Failed /\ k - 1 \in 0..N
      BY <1>1, <1>4, <2>6, <3>2
    <3> QED
      BY <1>4, <2>5, <3>2, <3>3
  <2> QED
    BY <1>a, <1>1, <1>4, <2>3, <2>5, <2>6, <2>7 DEF Flattens
<1> QED
  BY <1>5, <1>6

\* A sequence has one flattening.
LEMMA OneFlattening ==
  ASSUME NEW X, NEW ss \in Seq(Seq(X)), NEW tt \in Seq(Seq(X)), IsPrefix(ss, tt),
         NEW f, Flattens(f, ss, X), NEW g, Flattens(g, tt, X)
  PROVE  \A k \in 0..Len(ss) : f[k] = g[k]
<1> DEFINE N == Len(ss)
           Failed == {k \in 0..N : f[k] # g[k]}
<1>1. N \in Nat /\ Len(tt) \in Nat /\ N <= Len(tt)
  BY LenProperties DEF IsPrefix
<1>a. /\ f[0] = g[0]
      /\ \A k \in 1..N : tt[k] = ss[k]
      /\ \A k \in 1..N : f[k] = f[k - 1] \o ss[k]
      /\ \A k \in 1..N : g[k] = g[k - 1] \o tt[k]
  <2>1. f[0] = g[0] /\ \A k \in 1..N : f[k] = f[k - 1] \o ss[k]
    BY DEF Flattens
  <2>2. \A k \in 1..N : k \in 1..Len(tt)
    BY <1>1
  <2>3. \A k \in 1..N : g[k] = g[k - 1] \o tt[k]
    BY <2>2 DEF Flattens
  <2>4. \A k \in 1..N : tt[k] = ss[k]
    BY DEF IsPrefix
  <2> QED
    BY <2>1, <2>3, <2>4
<1> HIDE DEF N
<1> SUFFICES ASSUME Failed # {} PROVE FALSE
  BY DEF N
<1>2. Failed \in SUBSET Nat
  BY <1>1
<1> HIDE DEF Failed
<1>3. PICK k \in Failed : \A j \in Failed : k <= j
  BY <1>2, Least
<1> USE DEF Failed
<1>4. k \in 1..N /\ k - 1 \in 0..N /\ k - 1 \notin Failed
  BY <1>a, <1>1, <1>3
<1>5. f[k] = g[k]
  BY <1>a, <1>4
<1> QED
  BY <1>3, <1>5

LEMMA FlattenAppended ==
  ASSUME NEW X, NEW ss \in Seq(Seq(X)), NEW s \in Seq(X)
  PROVE  /\ FlattenSeq(ss) \in Seq(X)
         /\ FlattenSeq(Append(ss, s)) = FlattenSeq(ss) \o s
<1> DEFINE N == Len(ss)
           tt == Append(ss, s)
<1>1. N \in Nat
  BY LenProperties
<1>2. tt \in Seq(Seq(X)) /\ Len(tt) = N + 1 /\ tt[N + 1] = s /\ \A i \in 1..N : tt[i] = ss[i]
  BY AppendProperties
<1> HIDE DEF tt
<1>3. PICK f : Flattens(f, ss, X) /\ FlattenSeq(ss) = f[N]
  BY Flattening
<1>4. PICK g : Flattens(g, tt, X) /\ FlattenSeq(tt) = g[N + 1]
  BY <1>2, Flattening
<1>5. f[N] = g[N] /\ f[N] \in Seq(X)
  <2>1. IsPrefix(ss, tt)
    BY <1>1, <1>2, LenProperties DEF IsPrefix
  <2>2. \A k \in 0..Len(ss) : f[k] = g[k]
    BY <1>2, <1>3, <1>4, <2>1, OneFlattening
  <2> QED
    BY <1>1, <1>3, <2>2 DEF Flattens
<1>6. g[N + 1] = g[N] \o s
  <2>1. \A k \in 1..Len(tt) : g[k] = g[k - 1] \o tt[k]
    BY <1>4 DEF Flattens
  <2>2. N + 1 \in 1..Len(tt) /\ (N + 1) - 1 = N
    BY <1>1, <1>2
  <2> QED
    BY <1>2, <2>1, <2>2
<1> QED
  BY <1>3, <1>4, <1>5, <1>6 DEF tt

-----------------------------------------------------------------------------
(* Rounding, and the edges of tiles. *)

LEMMA Division ==
  ASSUME NEW a \in Int, NEW b \in Nat \ {0}
  PROVE  /\ a \div b \in Int
         /\ b * (a \div b) <= a /\ a < b * (a \div b) + b
  OBVIOUS

\* A rounded quotient is no further than a half from the exact one.
LEMMA Rounding ==
  ASSUME NEW n \in Int, NEW d \in Nat \ {0}
  PROVE  /\ Round(n, d) \in Int
         /\ 2 * (d * Round(n, d) - n) \in -d .. d
<1>1. ASSUME NEW m \in Int
      PROVE  LET q == (2 * m + d) \div (2 * d)
             IN  q \in Int /\ 2 * (d * q) - 2 * m \in -d .. d
  <2> DEFINE q == (2 * m + d) \div (2 * d)
  <2>1. 2 * d \in Nat \ {0} /\ 2 * m + d \in Int
    BY <1>1
  <2>2. /\ q \in Int
        /\ (2 * d) * q <= 2 * m + d /\ 2 * m + d < (2 * d) * q + 2 * d
    BY <2>1, Division
  <2> HIDE DEF q
  <2>3. (2 * d) * q = 2 * (d * q) /\ d * q \in Int
    BY <2>2
  <2>4. 2 * (d * q) - 2 * m \in -d .. d
    BY <1>1, <2>2, <2>3
  <2> QED
    BY <2>2, <2>4 DEF q
<1>2. CASE n >= 0
  <2> DEFINE q == (2 * n + d) \div (2 * d)
  <2>1. Round(n, d) = q
    BY <1>2 DEF Round
  <2>2. q \in Int /\ 2 * (d * q) - 2 * n \in -d .. d
    BY <1>1
  <2> HIDE DEF q
  <2> QED
    BY <2>1, <2>2
<1>3. CASE ~(n >= 0)
  <2> DEFINE m == -n
             q == (2 * m + d) \div (2 * d)
  <2>1. Round(n, d) = -q /\ m \in Int
    BY <1>3 DEF Round
  <2> HIDE DEF m
  <2>2. q \in Int /\ 2 * (d * q) - 2 * m \in -d .. d
    BY <1>1, <2>1
  <2> HIDE DEF q
  <2>3. d * q \in Int /\ d * (-q) = -(d * q)
    BY <2>2
  <2>4. 2 * (-(d * q) - n) \in -d .. d
    BY <2>2, <2>3 DEF m
  <2> QED
    BY <2>1, <2>2, <2>3, <2>4
<1> QED
  BY <1>2, <1>3

\* A larger number is not rounded to a smaller one.
LEMMA RoundingIsOrdered ==
  ASSUME NEW m \in Int, NEW n \in Int, NEW d \in Nat \ {0}, m <= n
  PROVE  Round(m, d) <= Round(n, d)
<1> DEFINE p == Round(m, d)
           q == Round(n, d)
<1>1. /\ p \in Int /\ 2 * (d * p - m) \in -d .. d
      /\ q \in Int /\ 2 * (d * q - n) \in -d .. d
  BY Rounding
<1> HIDE DEF p, q
<1> SUFFICES ASSUME q + 1 <= p PROVE m = n
  BY <1>1 DEF p, q
<1>2. d * (q + 1) <= d * p
  BY <1>1
<1>3. d * (q + 1) = d * q + d /\ d * q \in Int /\ d * p \in Int
  BY <1>1
<1> QED
  BY <1>1, <1>2, <1>3

\* Where the k-th tile along an axis begins, and the one before it ends.
Edge(origin, k, tile, scale) == Round(origin + k * tile * scale, Unit)

LEMMA EdgesAreOrdered ==
  ASSUME NEW origin \in Int, NEW tile \in Nat, NEW scale \in Nat,
         NEW j \in Nat, NEW k \in Nat, j <= k
  PROVE  /\ Edge(origin, j, tile, scale) \in Int /\ Edge(origin, k, tile, scale) \in Int
         /\ Edge(origin, j, tile, scale) <= Edge(origin, k, tile, scale)
<1> DEFINE m == origin + j * tile * scale
           n == origin + k * tile * scale
<1>1. m \in Int /\ n \in Int /\ Unit \in Nat \ {0}
  BY PackageAssumption
<1>2. m <= n
  <2>1. tile * scale \in Nat
    OBVIOUS
  <2>2. j * (tile * scale) <= k * (tile * scale)
    BY <2>1
  <2>3. j * tile * scale = j * (tile * scale) /\ k * tile * scale = k * (tile * scale)
    OBVIOUS
  <2>4. j * (tile * scale) \in Int /\ k * (tile * scale) \in Int
    BY <2>1
  <2> QED
    BY <2>2, <2>3, <2>4
<1>3. Edge(origin, j, tile, scale) = Round(m, Unit) /\ Edge(origin, k, tile, scale) = Round(n, Unit)
  BY DEF Edge
<1> HIDE DEF m, n
<1> QED
  BY <1>1, <1>2, <1>3, Rounding, RoundingIsOrdered

\* A pixel between the first edge and the last is between two neighbours.
LEMMA BetweenEdges ==
  ASSUME NEW origin \in Int, NEW tile \in Nat, NEW scale \in Nat, NEW cells \in Nat, NEW p \in Int,
         Edge(origin, 0, tile, scale) <= p, p < Edge(origin, cells, tile, scale)
  PROVE  \E k \in 0 .. (cells - 1) :
           Edge(origin, k, tile, scale) <= p /\ p < Edge(origin, k + 1, tile, scale)
<1> DEFINE edge(k) == Edge(origin, k, tile, scale)
           Beyond == {k \in 0 .. cells : p < edge(k)}
<1>1. \A k \in 0 .. cells : edge(k) \in Int
  BY EdgesAreOrdered
<1>2. cells \in Beyond /\ Beyond \in SUBSET Nat
  OBVIOUS
<1> HIDE DEF edge
<1>3. PICK k \in Beyond : \A j \in Beyond : k <= j
  <2> HIDE DEF Beyond
  <2> QED
    BY <1>2, Least
<1>4. edge(0) <= p
  BY DEF edge
<1>5. k # 0 /\ p < edge(k)
  BY <1>1, <1>3, <1>4
<1>6. k - 1 \in 0 .. (cells - 1) /\ k - 1 \in 0 .. cells /\ k - 1 \notin Beyond /\ (k - 1) + 1 = k
  BY <1>3, <1>5
<1>7. edge(k - 1) <= p
  BY <1>1, <1>6
<1> QED
  BY <1>5, <1>6, <1>7 DEF edge

-----------------------------------------------------------------------------
(* The title screen. *)

LEMMA Products ==
  ASSUME NEW a \in Nat, NEW b \in Nat, NEW c \in Nat, NEW d \in Nat, a <= b, c <= d
  PROVE  a * c \in Nat /\ b * d \in Nat /\ a * c <= b * d
<1>1. a * c <= b * c
  OBVIOUS
<1>2. b * c <= b * d
  OBVIOUS
<1> QED
  BY <1>1, <1>2

\* What a quotient is bounded by.
LEMMA Quotients ==
  ASSUME NEW n \in Nat, NEW d \in Nat \ {0}
  PROVE  /\ n \div d \in Nat /\ d * (n \div d) <= n
         /\ d <= n => n \div d > 0
         /\ \A most \in Nat : n <= most * d => n \div d <= most
<1> DEFINE q == n \div d
<1>1. q \in Int /\ d * q <= n /\ n < d * q + d
  BY Division
<1> HIDE DEF q
<1>2. q >= 0
  <2> SUFFICES ASSUME q <= -1 PROVE FALSE
    BY <1>1
  <2>1. d * q <= d * (-1)
    BY <1>1
  <2> QED
    BY <1>1, <2>1
<1>3. ASSUME d <= n PROVE q > 0
  <2> SUFFICES ASSUME q = 0 PROVE FALSE
    BY <1>1, <1>2
  <2>1. d * q = 0
    OBVIOUS
  <2> QED
    BY <1>1, <1>3, <2>1
<1>4. ASSUME NEW most \in Nat, n <= most * d PROVE q <= most
  <2> SUFFICES ASSUME q >= most + 1 PROVE FALSE
    BY <1>1
  <2>1. d * q >= d * (most + 1)
    BY <1>1
  <2>2. d * (most + 1) = most * d + d /\ most * d \in Nat
    OBVIOUS
  <2> QED
    BY <1>1, <1>4, <2>1, <2>2
<1> QED
  BY <1>1, <1>2, <1>3, <1>4 DEF q

\* Half of what is left over goes before.
LEMMA Halves ==
  ASSUME NEW n \in Nat, NEW m \in Nat, m <= n
  PROVE  (n - m) \div 2 >= 0 /\ (n - m) \div 2 + m <= n
  OBVIOUS

\* A side of a title image against a side of the surface.
Side == MinSide .. MaxSide

\* A product of two sides is at least any third, so that a quotient is positive.
LEMMA SidesMultiply ==
  ASSUME NEW a \in Side, NEW b \in Side, NEW c \in Side
  PROVE  /\ a \in Nat \ {0} /\ b \in Nat \ {0} /\ c \in Nat \ {0}
         /\ a * b \in Nat /\ a * b = b * a /\ c <= a * b
<1>1. /\ MinSide \in Nat \ {0} /\ MaxSide \in Nat /\ MinSide * MinSide >= MaxSide
      /\ a \in Nat \ {0} /\ b \in Nat \ {0} /\ c \in Nat \ {0}
      /\ MinSide <= a /\ MinSide <= b /\ c <= MaxSide
  BY PackageAssumption DEF Side
<1>2. a * b \in Nat /\ MinSide * MinSide \in Nat /\ MinSide * MinSide <= a * b
  BY <1>1, Products
<1>3. a * b = b * a
  BY <1>1
<1> QED
  BY <1>1, <1>2, <1>3

LEMMA CoverFits ==
  ASSUME NEW image, NEW surface_, Dimensions(image), Dimensions(surface_)
  PROVE  Inside(Cover(image, surface_), image) /\ Visible(Cover(image, surface_))
<1> DEFINE ix == image.x  iy == image.y  sx == surface_.x  sy == surface_.y
           w == (iy * sx) \div sy
           h == (ix * sy) \div sx
<1>1. ix \in Side /\ iy \in Side /\ sx \in Side /\ sy \in Side
  BY DEF Dimensions, Axes, Side
<1>2. /\ ix \in Nat \ {0} /\ iy \in Nat \ {0} /\ sx \in Nat \ {0} /\ sy \in Nat \ {0}
      /\ iy * sx \in Nat /\ iy * sx = sx * iy /\ sy <= iy * sx
      /\ ix * sy \in Nat /\ sx <= ix * sy
  BY <1>1, SidesMultiply
<1>3. w \in Nat /\ w > 0 /\ (iy * sx <= ix * sy => w <= ix)
  BY <1>2, Quotients
<1>4. h \in Nat /\ h > 0 /\ (ix * sy <= iy * sx => h <= iy)
  BY <1>2, Quotients
<1>5. Cover(image, surface_) =
        CASE ix * sy > sx * iy -> Rectangle((ix - w) \div 2, 0, w, iy)
          [] ix * sy < sx * iy -> Rectangle(0, (iy - h) \div 2, ix, h)
          [] OTHER -> Rectangle(0, 0, ix, iy)
  BY DEF Cover
<1>6. ASSUME NEW x \in Int, NEW y \in Int, NEW width \in Int, NEW height \in Int,
             x >= 0, x + width <= ix, width > 0, y >= 0, y + height <= iy, height > 0,
             Cover(image, surface_) = Rectangle(x, y, width, height)
      PROVE  Inside(Cover(image, surface_), image) /\ Visible(Cover(image, surface_))
  BY <1>6 DEF Rectangle, XY, Inside, Visible, Axes
<1> HIDE DEF w, h, ix, iy, sx, sy
<1>7. CASE ix * sy > sx * iy
  <2>1. w <= ix
    BY <1>2, <1>3, <1>7
  <2>2. (ix - w) \div 2 \in Int /\ (ix - w) \div 2 >= 0 /\ (ix - w) \div 2 + w <= ix
    BY <1>2, <1>3, <2>1, Halves
  <2>3. Cover(image, surface_) = Rectangle((ix - w) \div 2, 0, w, iy)
    <3>1. ~(ix * sy < sx * iy)
      BY <1>2, <1>7
    <3> QED
      BY <1>5, <1>7, <3>1
  <2> QED
    BY <1>2, <1>3, <1>6, <2>2, <2>3
<1>8. CASE ix * sy < sx * iy
  <2>1. h <= iy
    BY <1>2, <1>4, <1>8
  <2>2. (iy - h) \div 2 \in Int /\ (iy - h) \div 2 >= 0 /\ (iy - h) \div 2 + h <= iy
    BY <1>2, <1>4, <2>1, Halves
  <2>3. Cover(image, surface_) = Rectangle(0, (iy - h) \div 2, ix, h)
    BY <1>2, <1>5, <1>8
  <2> QED
    BY <1>2, <1>4, <1>6, <2>2, <2>3
<1>9. CASE ix * sy = sx * iy
  <2>1. Cover(image, surface_) = Rectangle(0, 0, ix, iy)
    BY <1>2, <1>5, <1>9
  <2> QED
    BY <1>2, <1>6, <2>1
<1> QED
  BY <1>2, <1>7, <1>8, <1>9

LEMMA ContainFits ==
  ASSUME NEW image, NEW surface_, Dimensions(image), Dimensions(surface_)
  PROVE  Inside(Contain(image, surface_), surface_) /\ Visible(Contain(image, surface_))
<1> DEFINE ix == image.x  iy == image.y  sx == surface_.x  sy == surface_.y
           w == (ix * sy) \div iy
           h == (iy * sx) \div ix
<1>1. ix \in Side /\ iy \in Side /\ sx \in Side /\ sy \in Side
  BY DEF Dimensions, Axes, Side
<1>2. /\ ix \in Nat \ {0} /\ iy \in Nat \ {0} /\ sx \in Nat \ {0} /\ sy \in Nat \ {0}
      /\ iy * sx \in Nat /\ iy * sx = sx * iy /\ ix <= iy * sx
      /\ ix * sy \in Nat /\ ix * sy = sy * ix /\ iy <= ix * sy
  BY <1>1, SidesMultiply
<1>3. w \in Nat /\ w > 0 /\ (ix * sy <= sx * iy => w <= sx)
  BY <1>2, Quotients
<1>4. h \in Nat /\ h > 0 /\ (iy * sx <= sy * ix => h <= sy)
  BY <1>2, Quotients
<1>5. Contain(image, surface_) =
        IF sx * iy <= sy * ix
        THEN Rectangle((sx - sx) \div 2, (sy - h) \div 2, sx, h)
        ELSE Rectangle((sx - w) \div 2, (sy - sy) \div 2, w, sy)
  BY DEF Contain
<1>6. ASSUME NEW x \in Int, NEW y \in Int, NEW width \in Int, NEW height \in Int,
             x >= 0, x + width <= sx, width > 0, y >= 0, y + height <= sy, height > 0,
             Contain(image, surface_) = Rectangle(x, y, width, height)
      PROVE  Inside(Contain(image, surface_), surface_) /\ Visible(Contain(image, surface_))
  BY <1>6 DEF Rectangle, XY, Inside, Visible, Axes
<1> HIDE DEF w, h, ix, iy, sx, sy
<1>7. CASE sx * iy <= sy * ix
  <2>1. h <= sy /\ sx <= sx
    BY <1>2, <1>4, <1>7
  <2>2. /\ (sy - h) \div 2 \in Int /\ (sy - h) \div 2 >= 0 /\ (sy - h) \div 2 + h <= sy
        /\ (sx - sx) \div 2 \in Int /\ (sx - sx) \div 2 >= 0 /\ (sx - sx) \div 2 + sx <= sx
    BY <1>2, <1>4, <2>1, Halves
  <2>3. Contain(image, surface_) = Rectangle((sx - sx) \div 2, (sy - h) \div 2, sx, h)
    BY <1>5, <1>7
  <2> QED
    BY <1>2, <1>4, <1>6, <2>2, <2>3
<1>8. CASE ~(sx * iy <= sy * ix)
  <2>1. w <= sx /\ sy <= sy
    BY <1>2, <1>3, <1>8
  <2>2. /\ (sx - w) \div 2 \in Int /\ (sx - w) \div 2 >= 0 /\ (sx - w) \div 2 + w <= sx
        /\ (sy - sy) \div 2 \in Int /\ (sy - sy) \div 2 >= 0 /\ (sy - sy) \div 2 + sy <= sy
    BY <1>2, <1>3, <2>1, Halves
  <2>3. Contain(image, surface_) = Rectangle((sx - w) \div 2, (sy - sy) \div 2, w, sy)
    BY <1>5, <1>8
  <2> QED
    BY <1>2, <1>3, <1>6, <2>2, <2>3
<1> QED
  BY <1>7, <1>8

LEMMA RegionFits ==
  ASSUME NEW region, NEW surface_, RegionIsValid(region), Dimensions(surface_)
  PROVE  Inside(LogicalRegion(region, surface_), surface_)
<1> SUFFICES ASSUME NEW a \in Axes
             PROVE  /\ (region.at[a] * surface_[a]) \div Canvas >= 0
                    /\ (region.at[a] * surface_[a]) \div Canvas
                         + (region.size[a] * surface_[a]) \div Canvas <= surface_[a]
  BY DEF Inside, LogicalRegion
<1> DEFINE at == region.at[a]  size == region.size[a]  side == surface_[a]
           left == (at * side) \div Canvas
           width == (size * side) \div Canvas
<1>1. /\ at \in Nat /\ size \in Nat /\ side \in Nat /\ Canvas \in Nat \ {0}
      /\ at + size <= Canvas
  BY PackageAssumption DEF RegionIsValid, Dimensions
<1>2. at * side \in Nat /\ size * side \in Nat
  BY <1>1, Products
<1>3. /\ left \in Nat /\ Canvas * left <= at * side
      /\ width \in Nat /\ Canvas * width <= size * side
  BY <1>1, <1>2, Quotients
<1> HIDE DEF at, size, side, left, width
<1>4. at * side + size * side = (at + size) * side /\ (at + size) * side <= Canvas * side
  <2>1. (at + size) * side <= Canvas * side
    BY <1>1, Products
  <2>2. at * side + size * side = (at + size) * side
    BY <1>1
  <2> QED
    BY <2>1, <2>2
<1>5. Canvas * (left + width) <= Canvas * side
  <2>1. Canvas * (left + width) = Canvas * left + Canvas * width
    BY <1>1, <1>3
  <2>2. Canvas * left \in Nat /\ Canvas * width \in Nat /\ Canvas * side \in Nat
    BY <1>1, <1>3, Products
  <2> QED
    BY <1>2, <1>3, <1>4, <2>1, <2>2
<1>6. left + width <= side
  <2> SUFFICES ASSUME left + width >= side + 1 PROVE FALSE
    BY <1>1, <1>3
  <2>1. Canvas * (side + 1) <= Canvas * (left + width)
    BY <1>1, <1>3
  <2>2. Canvas * (side + 1) = Canvas * side + Canvas /\ Canvas * side \in Nat
    BY <1>1
  <2> QED
    BY <1>1, <1>3, <1>5, <2>1, <2>2
<1> QED
  BY <1>3, <1>6 DEF at, size, side, left, width

\* However a title image and the surface are shaped, as long as the package was
\* accepted, what is shown of the image is there to show and lies where it may.
THEOREM TitlesFit == \A p : LoadPackage(p) => TitleFits(p)
<1> SUFFICES ASSUME NEW p, LoadPackage(p), p.title.enabled
             PROVE  /\ Inside(Source(p.title, p.resolution), p.title.size)
                    /\ Visible(Source(p.title, p.resolution))
                    /\ Inside(Destination(p.title, p.resolution), p.resolution)
                    /\ Visible(Destination(p.title, p.resolution))
                    /\ Inside(LogicalRegion(p.title.controls, p.resolution), p.resolution)
  BY DEF TitleFits
<1> DEFINE image == p.title.size  screen == p.resolution
<1>1. Dimensions(image) /\ Dimensions(screen) /\ RegionIsValid(p.title.controls)
  BY DEF LoadPackage, ArtIsValid
<1>2. ASSUME NEW size, Dimensions(size)
      PROVE  Inside(Rectangle(0, 0, size.x, size.y), size) /\ Visible(Rectangle(0, 0, size.x, size.y))
  BY <1>2, PackageAssumption DEF Dimensions, Rectangle, XY, Inside, Visible, Axes
<1> HIDE DEF image, screen
<1>3. /\ Inside(Cover(image, screen), image) /\ Visible(Cover(image, screen))
      /\ Inside(Contain(image, screen), screen) /\ Visible(Contain(image, screen))
      /\ Inside(LogicalRegion(p.title.controls, screen), screen)
  BY <1>1, CoverFits, ContainFits, RegionFits
<1>4. /\ Inside(Rectangle(0, 0, image.x, image.y), image)
      /\ Visible(Rectangle(0, 0, image.x, image.y))
      /\ Inside(Rectangle(0, 0, screen.x, screen.y), screen)
      /\ Visible(Rectangle(0, 0, screen.x, screen.y))
  BY <1>1, <1>2
<1>5. /\ Source(p.title, screen) =
           IF p.title.fit = "cover" THEN Cover(image, screen)
           ELSE Rectangle(0, 0, image.x, image.y)
      /\ Destination(p.title, screen) =
           IF p.title.fit = "cover" THEN Rectangle(0, 0, screen.x, screen.y)
           ELSE Contain(image, screen)
  BY DEF Source, Destination, image
<1> QED
  BY <1>3, <1>4, <1>5 DEF image, screen

-----------------------------------------------------------------------------
(* Animations. *)

\* What a package that was loaded may be assumed to hold.
Loaded ==
  /\ package \in Packages /\ LoadPackage(package)
  /\ package.has_assets /\ AssetsAreRead(assets)

LEMMA LoadedAssets ==
  ASSUME package \in Packages, LoadPackage(package), package.has_assets
  PROVE  Loaded /\ AssetsAreValid(assets)
  BY SurfaceAssumption DEF Loaded, LoadPackage, assets

LEMMA TicksAreSummed ==
  ASSUME NEW frames, IsSequence(frames), \A i \in DOMAIN frames : frames[i].ticks \in Nat
  PROVE  /\ TicksBefore(frames) \in [0..Len(frames) -> Nat]
         /\ TicksBefore(frames)[0] = 0
         /\ \A n \in 1..Len(frames) :
              TicksBefore(frames)[n] = TicksBefore(frames)[n - 1] + frames[n].ticks
<1> DEFINE N == Len(frames)
           step == [n \in 1..N |-> [t \in Nat |-> t + frames[n].ticks]]
           Sums(f) == f = [n \in 0..N |-> IF n = 0 THEN 0 ELSE f[n - 1] + frames[n].ticks]
<1>1. N \in Nat /\ DOMAIN frames = 1..N
  BY LenProperties DEF IsSequence
<1>2. step \in Steps(N, Nat)
  BY <1>1 DEF Steps
<1>3. PICK g : Iterates(g, N, Nat, 0, step)
  <2>1. N \in Nat /\ 0 \in Nat
    BY <1>1
  <2> HIDE DEF step, N
  <2> QED
    BY <1>2, <2>1, Recursion
<1>4. Sums(g)
  <2>1. ASSUME NEW n \in 1..N
        PROVE  g[n - 1] \in Nat /\ g[n] = g[n - 1] + frames[n].ticks
    <3>1. n - 1 \in 0..N /\ g[n - 1] \in Nat
      BY <1>1, <1>3 DEF Iterates
    <3>2. g[n] = step[n][g[n - 1]]
      BY <1>3 DEF Iterates
    <3> QED
      BY <3>1, <3>2
  <2> QED
    BY <1>1, <1>3, <2>1 DEF Iterates
<1>5. Sums(TicksBefore(frames))
  <2>1. TicksBefore(frames) = CHOOSE f : Sums(f)
    BY DEF TicksBefore
  <2> HIDE DEF Sums
  <2> QED
    BY <1>4, <2>1
<1> DEFINE f == TicksBefore(frames)
<1> HIDE DEF f
<1>6. /\ f[0] = 0
      /\ \A n \in 1..N : f[n] = f[n - 1] + frames[n].ticks
      /\ f = [n \in 0..N |-> f[n]]
  BY <1>1, <1>5 DEF f
<1>7. \A n \in 0..N : f[n] \in Nat
  <2> DEFINE Failed == {n \in 0..N : f[n] \notin Nat}
  <2> SUFFICES ASSUME Failed # {} PROVE FALSE
    OBVIOUS
  <2>1. Failed \in SUBSET Nat
    OBVIOUS
  <2> HIDE DEF Failed
  <2>2. PICK n \in Failed : \A m \in Failed : n <= m
    BY <2>1, Least
  <2> USE DEF Failed
  <2>3. n \in 1..N /\ n - 1 \notin Failed
    BY <1>1, <1>6, <2>2
  <2>4. f[n - 1] \in Nat
    BY <1>1, <2>3
  <2>5. frames[n].ticks \in Nat
    BY <1>1, <2>3
  <2>6. f[n] = f[n - 1] + frames[n].ticks /\ f[n] \notin Nat
    BY <1>6, <2>2, <2>3
  <2> QED
    BY <2>4, <2>5, <2>6
<1> QED
  BY <1>6, <1>7 DEF f

\* The frame that shows at a position is the one whose ticks hold it.
Holds(frames, position, n) ==
  TicksBefore(frames)[n - 1] <= position /\ position < TicksBefore(frames)[n]

LEMMA FramesAreOrdered ==
  ASSUME NEW animation, NEW sprites, IsSequence(animation.frames),
         AnimationIsValid(animation, sprites)
  PROVE  LET frames == animation.frames
             before == TicksBefore(frames)
         IN  /\ Len(frames) \in Nat \ {0} /\ DOMAIN frames = 1..Len(frames)
             /\ \A i \in DOMAIN frames :
                  frames[i].ticks \in Nat \ {0} /\ frames[i].sprite \in DOMAIN sprites
             /\ before \in [0..Len(frames) -> Nat] /\ before[0] = 0
             /\ \A n \in 1..Len(frames) : before[n] = before[n - 1] + frames[n].ticks
             /\ \A m, n \in 0..Len(frames) : m <= n => before[m] <= before[n]
             /\ TotalTicks(animation) = before[Len(frames)] /\ TotalTicks(animation) > 0
<1> DEFINE frames == animation.frames
           N == Len(frames)
           before == TicksBefore(frames)
<1>1. N \in Nat \ {0} /\ DOMAIN frames = 1..N
  BY EmptySeq, LenProperties DEF IsSequence, AnimationIsValid
<1>2. \A i \in DOMAIN frames :
        frames[i].ticks \in Nat \ {0} /\ frames[i].sprite \in DOMAIN sprites
  BY PackageAssumption DEF AnimationIsValid
<1>3. /\ before \in [0..N -> Nat] /\ before[0] = 0
      /\ \A n \in 1..N : before[n] = before[n - 1] + frames[n].ticks
  <2>1. IsSequence(frames)
    OBVIOUS
  <2> HIDE DEF frames
  <2> QED
    BY <1>2, <2>1, TicksAreSummed
<1>4. TotalTicks(animation) = before[N]
  BY DEF TotalTicks
<1> HIDE DEF frames, N, before
<1>5. \A n \in 1..N : n - 1 \in 0..N /\ before[n - 1] \in Nat /\ before[n] \in Nat
                     /\ before[n - 1] < before[n]
  <2> TAKE n \in 1..N
  <2>1. n - 1 \in 0..N /\ n \in 0..N
    BY <1>1
  <2>2. before[n - 1] \in Nat /\ before[n] \in Nat /\ frames[n].ticks \in Nat \ {0}
    BY <1>1, <1>2, <1>3, <2>1
  <2> QED
    BY <1>3, <2>1, <2>2
<1>6. ASSUME NEW m \in 0..N, NEW n \in 0..N, m <= n PROVE before[m] <= before[n]
  <2> DEFINE Failed == {k \in m..N : ~(before[m] <= before[k])}
  <2> SUFFICES ASSUME Failed # {} PROVE FALSE
    BY <1>1, <1>6
  <2>1. Failed \in SUBSET Nat
    BY <1>1
  <2> HIDE DEF Failed
  <2>2. PICK k \in Failed : \A j \in Failed : k <= j
    BY <2>1, Least
  <2> USE DEF Failed
  <2>3. before[m] \in Nat
    BY <1>3
  <2>4. k # m /\ k \in 1..N /\ k - 1 \in m..N /\ k - 1 \notin Failed
    BY <1>1, <2>2, <2>3
  <2> QED
    BY <1>5, <2>2, <2>3, <2>4
<1>7. before[N] > 0
  <2>1. N \in 1..N /\ before[N - 1] \in Nat
    BY <1>1, <1>5
  <2> QED
    BY <1>5, <2>1
<1> QED
  BY <1>1, <1>2, <1>3, <1>4, <1>6, <1>7 DEF frames, N, before

LEMMA OneFrameHolds ==
  ASSUME NEW animation, NEW sprites, IsSequence(animation.frames),
         AnimationIsValid(animation, sprites),
         NEW position \in Nat, position < TotalTicks(animation)
  PROVE  \E n \in DOMAIN animation.frames :
           /\ Holds(animation.frames, position, n)
           /\ \A m \in DOMAIN animation.frames : Holds(animation.frames, position, m) => m = n
<1> DEFINE frames == animation.frames
           N == Len(frames)
           before == TicksBefore(frames)
           Past == {n \in 0..N : position < before[n]}
<1>1. /\ N \in Nat \ {0} /\ DOMAIN frames = 1..N
      /\ before \in [0..N -> Nat] /\ before[0] = 0
      /\ \A m, n \in 0..N : m <= n => before[m] <= before[n]
      /\ TotalTicks(animation) = before[N]
  BY FramesAreOrdered
<1> HIDE DEF frames, N, before
<1>2. Past \in SUBSET Nat /\ N \in Past
  BY <1>1
<1> HIDE DEF Past
<1>3. PICK n \in Past : \A m \in Past : n <= m
  BY <1>2, Least
<1> USE DEF Past
<1>4. n \in 1..N /\ n - 1 \in 0..N /\ n - 1 \notin Past
  BY <1>1, <1>3
<1>5. before[n - 1] <= position /\ position < before[n]
  BY <1>1, <1>3, <1>4
<1>6. ASSUME NEW m \in 1..N, before[m - 1] <= position, position < before[m]
      PROVE  m = n
  <2>1. m - 1 \in 0..N /\ m \in 0..N /\ n \in 0..N
    BY <1>1, <1>4
  <2>2. ~(n <= m - 1)
    BY <1>1, <1>4, <1>5, <1>6, <2>1
  <2>3. ~(m <= n - 1)
    BY <1>1, <1>4, <1>5, <1>6, <2>1
  <2> QED
    BY <1>1, <1>4, <2>2, <2>3
<1> QED
  BY <1>1, <1>4, <1>5, <1>6 DEF Holds, frames, before

\* The time at which an animation shows what it shows at a tick.
PositionAt(animation, time) ==
  IF animation.loop THEN time % TotalTicks(animation)
  ELSE IF time < TotalTicks(animation) THEN time ELSE TotalTicks(animation) - 1

LEMMA PositionIsWithin ==
  ASSUME NEW animation, NEW time \in Nat,
         TotalTicks(animation) \in Nat, TotalTicks(animation) > 0
  PROVE  PositionAt(animation, time) \in 0..(TotalTicks(animation) - 1)
<1> DEFINE total == TotalTicks(animation)
<1>1. time % total \in 0..(total - 1)
  <2> HIDE DEF total
  <2> QED
    BY DEF total
<1> HIDE DEF total
<1> QED
  BY <1>1 DEF PositionAt, total

LEMMA FrameShown ==
  ASSUME NEW animation, NEW sprites, IsSequence(animation.frames),
         AnimationIsValid(animation, sprites), NEW time \in Nat
  PROVE  \E n \in DOMAIN animation.frames :
           /\ Holds(animation.frames, PositionAt(animation, time), n)
           /\ FrameAt(animation, time) = animation.frames[n].sprite
<1> DEFINE frames == animation.frames
           position == PositionAt(animation, time)
           i == CHOOSE n \in DOMAIN frames : Holds(frames, position, n)
<1>1. TotalTicks(animation) \in Nat /\ TotalTicks(animation) > 0
  <2>1. Len(frames) \in 0..Len(frames)
    BY FramesAreOrdered
  <2> QED
    BY <2>1, FramesAreOrdered
<1>2. position \in Nat /\ position < TotalTicks(animation)
  BY <1>1, PositionIsWithin
<1>3. \E n \in DOMAIN frames : Holds(frames, position, n)
  <2> HIDE DEF position
  <2> QED
    BY <1>2, OneFrameHolds
<1>4. i \in DOMAIN frames /\ Holds(frames, position, i)
  BY <1>3
<1>5. FrameAt(animation, time) = frames[i].sprite
  BY DEF FrameAt, PositionAt, Holds
<1> QED
  BY <1>4, <1>5

\* The film of an animation has its frame at every position.
LEMMA FilmHasFrames ==
  ASSUME NEW animation, NEW sprites, IsSequence(animation.frames),
         AnimationIsValid(animation, sprites)
  PROVE  /\ Len(Film(animation)) = TotalTicks(animation)
         /\ \A position \in Nat, n \in DOMAIN animation.frames :
              Holds(animation.frames, position, n) =>
                Film(animation)[position + 1] = animation.frames[n].sprite
<1> DEFINE frames == animation.frames
           N == Len(frames)
           before == TicksBefore(frames)
           X == {frames[i].sprite : i \in DOMAIN frames}
           shots == [i \in DOMAIN frames |-> [t \in 1 .. frames[i].ticks |-> frames[i].sprite]]
<1>1. /\ N \in Nat \ {0} /\ DOMAIN frames = 1..N
      /\ \A i \in 1..N : frames[i].ticks \in Nat \ {0}
      /\ before \in [0..N -> Nat] /\ before[0] = 0
      /\ \A n \in 1..N : before[n] = before[n - 1] + frames[n].ticks
      /\ \A m, n \in 0..N : m <= n => before[m] <= before[n]
      /\ TotalTicks(animation) = before[N]
  BY FramesAreOrdered
<1> HIDE DEF frames, N, before
<1>2. \A i \in 1..N : /\ shots[i] \in Seq(X) /\ Len(shots[i]) = frames[i].ticks
                      /\ \A t \in 1..frames[i].ticks : shots[i][t] = frames[i].sprite
  <2> TAKE i \in 1..N
  <2> DEFINE shot == [t \in 1 .. frames[i].ticks |-> frames[i].sprite]
  <2>1. frames[i].ticks \in Nat /\ i \in DOMAIN frames
    BY <1>1
  <2>2. shot \in [1..frames[i].ticks -> X]
    BY <2>1
  <2>3. shot \in Seq(X) /\ Len(shot) = frames[i].ticks
    BY <2>1, <2>2, SequenceOf
  <2>4. shots[i] = shot
    BY <2>1
  <2> QED
    BY <2>3, <2>4
<1>3. shots \in Seq(Seq(X)) /\ Len(shots) = N
  <2>1. shots \in [1..N -> Seq(X)]
    BY <1>1, <1>2
  <2> HIDE DEF shots
  <2> QED
    BY <1>1, <2>1, SequenceOf
<1>4. Film(animation) = FlattenSeq(shots)
  BY DEF Film, frames
<1> HIDE DEF shots, X
<1>5. PICK f : Flattens(f, shots, X) /\ FlattenSeq(shots) = f[N]
  BY <1>3, Flattening
<1> DEFINE Shows(k) == /\ Len(f[k]) = before[k]
                       /\ \A j \in 1..k : \A t \in (before[j - 1] + 1)..before[j] :
                            f[k][t] = frames[j].sprite
           Failed == {k \in 0..N : ~Shows(k)}
<1>6. Shows(0)
  BY <1>1, <1>5 DEF Flattens
<1>7. ASSUME NEW k \in 1..N, Shows(k - 1) PROVE Shows(k)
  <2>1. k - 1 \in 0..N /\ k \in 0..N
    BY <1>1
  <2>2. /\ f[k] = f[k - 1] \o shots[k] /\ f[k - 1] \in Seq(X)
        /\ before[k] = before[k - 1] + frames[k].ticks
        /\ before[k] \in Nat /\ before[k - 1] \in Nat /\ frames[k].ticks \in Nat
    BY <1>1, <1>3, <1>5, <2>1 DEF Flattens
  <2>3. /\ shots[k] \in Seq(X) /\ Len(shots[k]) = frames[k].ticks
        /\ \A t \in 1..frames[k].ticks : shots[k][t] = frames[k].sprite
    BY <1>2
  <2> DEFINE done == f[k - 1]
             shot == shots[k]
  <2>a. done \in Seq(X) /\ shot \in Seq(X) /\ f[k] = done \o shot
        /\ Len(done) = before[k - 1] /\ Len(shot) = frames[k].ticks
    BY <1>7, <2>2, <2>3
  <2> HIDE DEF done, shot
  <2>b. /\ Len(done \o shot) = Len(done) + Len(shot)
        /\ \A t \in 1 .. Len(done) + Len(shot) :
             (done \o shot)[t] = IF t <= Len(done) THEN done[t] ELSE shot[t - Len(done)]
    BY <2>a, ConcatProperties
  <2>4. Len(f[k]) = before[k]
    BY <2>2, <2>a, <2>b
  <2>5. /\ \A t \in 1..before[k - 1] : f[k][t] = f[k - 1][t]
        /\ \A t \in (before[k - 1] + 1)..before[k] : f[k][t] = shots[k][t - before[k - 1]]
    <3>1. /\ \A t \in 1..before[k - 1] : t \in 1 .. Len(done) + Len(shot) /\ t <= Len(done)
          /\ \A t \in (before[k - 1] + 1)..before[k] :
               t \in 1 .. Len(done) + Len(shot) /\ ~(t <= Len(done))
      BY <2>2, <2>a
    <3> QED
      BY <2>a, <2>b, <3>1 DEF done, shot
  <2>6. ASSUME NEW j \in 1..k, NEW t \in (before[j - 1] + 1)..before[j]
        PROVE  f[k][t] = frames[j].sprite
    <3>1. CASE j = k
      <4>1. t - before[k - 1] \in 1..frames[k].ticks
        BY <2>2, <2>6, <3>1
      <4> QED
        BY <2>3, <2>5, <2>6, <3>1, <4>1
    <3>2. CASE j # k
      <4>1. j \in 1..(k - 1) /\ j \in 0..N /\ j - 1 \in 0..N
        BY <2>1, <3>2, <1>1
      <4>2. before[j] \in Nat /\ before[j - 1] \in Nat /\ before[j] <= before[k - 1]
        BY <1>1, <2>1, <4>1
      <4>3. t \in 1..before[k - 1]
        BY <2>2, <2>6, <4>2
      <4> QED
        BY <1>7, <2>5, <2>6, <4>1, <4>3
    <3> QED
      BY <3>1, <3>2
  <2> QED
    BY <2>4, <2>6
<1> HIDE DEF Shows
<1>8. Failed = {}
  <2> SUFFICES ASSUME Failed # {} PROVE FALSE
    OBVIOUS
  <2>1. Failed \in SUBSET Nat
    BY <1>1
  <2> HIDE DEF Failed
  <2>2. PICK k \in Failed : \A j \in Failed : k <= j
    BY <2>1, Least
  <2> USE DEF Failed
  <2>3. k \in 1..N /\ k - 1 \in 0..N /\ k - 1 \notin Failed
    BY <1>1, <1>6, <2>2
  <2> QED
    BY <1>7, <2>2, <2>3
<1>9. Shows(N)
  <2>1. \A k \in 0..N : Shows(k)
    BY <1>8
  <2> QED
    BY <1>1, <2>1
<1> QED
  <2>1. /\ Len(f[N]) = before[N]
        /\ \A j \in 1..N : \A t \in (before[j - 1] + 1)..before[j] : f[N][t] = frames[j].sprite
    BY <1>9 DEF Shows
  <2>2. ASSUME NEW position \in Nat, NEW n \in 1..N, Holds(frames, position, n)
        PROVE  f[N][position + 1] = frames[n].sprite
    <3>1. n - 1 \in 0..N /\ n \in 0..N
      BY <1>1
    <3>2. before[n - 1] \in Nat /\ before[n] \in Nat
      BY <1>1, <3>1
    <3>3. before[n - 1] <= position /\ position < before[n]
      BY <2>2 DEF Holds, before
    <3>4. position + 1 \in (before[n - 1] + 1)..before[n]
      BY <3>2, <3>3
    <3> QED
      BY <2>1, <3>4
  <2> QED
    BY <1>1, <1>4, <1>5, <2>1, <2>2 DEF frames

LEMMA AnimationShowsItsFilm ==
  ASSUME NEW animation, NEW sprites, IsSequence(animation.frames),
         AnimationIsValid(animation, sprites), NEW time \in Nat
  PROVE  LET film == Film(animation) IN
         FrameAt(animation, time) =
           IF animation.loop THEN film[(time % Len(film)) + 1]
           ELSE IF time < Len(film) THEN film[time + 1] ELSE film[Len(film)]
<1> DEFINE film == Film(animation)
           total == TotalTicks(animation)
           position == PositionAt(animation, time)
<1>1. total \in Nat /\ total > 0
  <2>1. Len(animation.frames) \in 0..Len(animation.frames)
    BY FramesAreOrdered
  <2> QED
    BY <2>1, FramesAreOrdered
<1>2. position \in Nat
  BY <1>1, PositionIsWithin
<1>3. Len(film) = total
  BY FilmHasFrames
<1>4. FrameAt(animation, time) = film[position + 1]
  <2>1. PICK n \in DOMAIN animation.frames :
          /\ Holds(animation.frames, position, n)
          /\ FrameAt(animation, time) = animation.frames[n].sprite
    BY FrameShown
  <2> HIDE DEF position
  <2>2. film[position + 1] = animation.frames[n].sprite
    BY <1>2, <2>1, FilmHasFrames
  <2> QED
    BY <2>1, <2>2
<1> HIDE DEF film
<1>5. position = IF animation.loop THEN time % total
                 ELSE IF time < total THEN time ELSE total - 1
  BY DEF PositionAt
<1> HIDE DEF total, position
<1>6. total - 1 + 1 = total
  BY <1>1
<1> QED
  BY <1>3, <1>4, <1>5, <1>6 DEF film

-----------------------------------------------------------------------------
(* What is drawn. *)

Point == [Axes -> Int]

AnySprite ==
  [type : {"sprite"}, atlas : Nat, source : [at : Point, size : Point], at : Point, size : Point]

AnyBox == [type : {"box"}, at : Point, size : Point]

\* A sprite is cut from inside its atlas, and a box that ints can hold is on the
\* surface: what NothingOutside says of a command.
IsInside(c) ==
  IF c.type = "sprite"
  THEN /\ package.has_assets /\ c.atlas \in DOMAIN assets.atlases
       /\ Inside(c.source, assets.atlases[c.atlas].size) /\ Visible(c.source) /\ Visible(c)
  ELSE IsHeld(c) => Inside(c, surface)

Commands == {c \in AnySprite \cup AnyBox : IsInside(c)}

\* The inductive invariant: whatever is called, the buffer holds commands that
\* are inside, and no more of them than it may.
SurfaceInv ==
  /\ package \in Packages /\ tick \in Nat
  /\ mode \in {"off", "update", "render", "shown", "dead"}
  /\ Running => LoadPackage(package)
  /\ drawing \in Seq(Commands) /\ Len(drawing) <= MaximumDrawCommands

\* A call that appends commands, all of them inside and no more than there is
\* room for, keeps the buffer so.
LEMMA SubmitKeeps ==
  ASSUME SurfaceInv, NEW commands \in Seq(Commands), Len(commands) <= Room,
         NEW succeeds, Submit(commands, succeeds)
  PROVE  SurfaceInv'
<1>1. Running /\ LoadPackage(package)
  BY DEF Submit, SurfaceInv, Running
<1>2. UNCHANGED <<package, tick>> /\ mode' \in {mode, "dead"} /\ drawing' = drawing \o commands
  BY DEF Submit
<1>3. Commands' = Commands
  BY <1>2 DEF Commands, IsInside, assets, surface
<1>4. /\ drawing \o commands \in Seq(Commands)
      /\ Len(drawing \o commands) = Len(drawing) + Len(commands)
  BY ConcatProperties DEF SurfaceInv
<1>5. Len(drawing) + Len(commands) <= MaximumDrawCommands
  <2>1. Len(drawing) \in Nat /\ Len(commands) \in Nat /\ MaximumDrawCommands \in Nat
    BY SurfaceAssumption, LenProperties DEF SurfaceInv
  <2> QED
    BY <2>1 DEF Room
<1>6. mode' \in {"off", "update", "render", "shown", "dead"} /\ LoadPackage(package')
  BY <1>1, <1>2 DEF SurfaceInv
<1> QED
  BY <1>2, <1>3, <1>4, <1>5, <1>6 DEF SurfaceInv

\* A call that fails before it appends anything keeps the buffer as it is.
LEMMA SubmitNothing ==
  ASSUME SurfaceInv, NEW succeeds, Submit(<<>>, succeeds)
  PROVE  SurfaceInv'
<1>1. <<>> \in Seq(Commands) /\ Len(<<>>) <= Room
  <2>1. Len(drawing) \in Nat /\ MaximumDrawCommands \in Nat /\ Len(drawing) <= MaximumDrawCommands
    BY SurfaceAssumption, LenProperties DEF SurfaceInv
  <2> QED
    BY <2>1, EmptySeq DEF Room
<1> QED
  BY <1>1, SubmitKeeps

\* A call that appends at most one command.
LEMMA SubmitOne ==
  ASSUME SurfaceInv, NEW command, NEW accepted,
         accepted => command \in Commands /\ Room > 0,
         Submit(IF accepted THEN <<command>> ELSE <<>>, accepted)
  PROVE  SurfaceInv'
<1>1. CASE accepted
  <2>1. <<command>> \in Seq(Commands) /\ Len(<<command>>) = 1
    BY <1>1
  <2>2. 1 <= Room
    <3>1. Len(drawing) \in Nat /\ MaximumDrawCommands \in Nat
      BY SurfaceAssumption, LenProperties DEF SurfaceInv
    <3> QED
      BY <1>1, <3>1 DEF Room
  <2> QED
    BY <1>1, <2>1, <2>2, SubmitKeeps
<1>2. CASE ~accepted
  BY <1>2, SubmitNothing
<1> QED
  BY <1>1, <1>2

-----------------------------------------------------------------------------
(* Boxes. *)

\* A sum that an int can hold is what the build adds up.
LEMMA WrappedIsExact ==
  ASSUME NEW n \in -MaxInt - 1 .. MaxInt
  PROVE  Wrapped(n) = n
<1>1. MaxInt \in Nat \ {0} /\ n + MaxInt + 1 \in 0..(2 * MaxInt + 1)
  BY SurfaceAssumption
<1>2. (n + MaxInt + 1) % (2 * MaxInt + 2) = n + MaxInt + 1
  BY <1>1
<1> QED
  BY <1>1, <1>2 DEF Wrapped

LEMMA BoxesAreInside ==
  ASSUME NEW at \in Point, NEW size \in Point, OnSurface(at, size)
  PROVE  [type |-> "box", at |-> at, size |-> size] \in Commands
<1> DEFINE c == [type |-> "box", at |-> at, size |-> size]
<1>1. c \in AnyBox /\ c.type # "sprite"
  BY DEF AnyBox
<1>2. ASSUME IsHeld(c),
             NEW a \in Axes
      PROVE  at[a] >= 0 /\ at[a] + size[a] <= surface[a]
  <2>1. at[a] \in Nat /\ size[a] \in Nat
    BY DEF OnSurface, Point
  <2>2. at[a] + size[a] <= MaxInt
    BY <1>2 DEF IsHeld
  <2> QED
    BY <2>1, <2>2, WrappedIsExact, SurfaceAssumption DEF OnSurface
<1>3. IsHeld(c) => Inside(c, surface)
  BY <1>2 DEF Inside
<1> QED
  BY <1>1, <1>3 DEF Commands, IsInside

LEMMA BoxesKeep ==
  ASSUME SurfaceInv, Rect \/ RoundedRect \/ Label
  PROVE  SurfaceInv'
<1>1. ASSUME NEW at \in Places, NEW size \in Shapes, NEW accepted,
             accepted => OnSurface(at, size) /\ Room > 0,
             Submit(IF accepted THEN <<[type |-> "box", at |-> at, size |-> size]>>
                                ELSE <<>>, accepted)
      PROVE  SurfaceInv'
  <2>1. at \in Point /\ size \in Point
    BY SurfaceAssumption DEF Point
  <2>2. accepted => [type |-> "box", at |-> at, size |-> size] \in Commands /\ Room > 0
    BY <1>1, <2>1, BoxesAreInside
  <2> QED
    BY <1>1, <2>2, SubmitOne
<1>2. CASE Rect
  BY <1>1, <1>2 DEF Rect, Boxes
<1>3. CASE RoundedRect
  BY <1>1, <1>3 DEF RoundedRect, Boxes
<1>4. CASE Label
  BY <1>1, <1>4 DEF Label, Boxes
<1> QED
  BY <1>2, <1>3, <1>4

LEMMA CirclesKeep ==
  ASSUME SurfaceInv, Circle
  PROVE  SurfaceInv'
<1>1. PICK at \in Places, radius \in Radii :
        LET accepted ==
              /\ Room > 0 /\ radius > 0
              /\ \A a \in Axes : /\ radius <= surface[a] /\ Wrapped(at[a] - radius) >= 0
                                 /\ Wrapped(at[a] + radius) < surface[a]
            command == [type |-> "box", at |-> [a \in Axes |-> at[a] - radius],
                        size |-> [a \in Axes |-> 2 * radius + 1]]
        IN Submit(IF accepted THEN <<command>> ELSE <<>>, accepted)
  BY DEF Circle
<1> DEFINE accepted ==
             /\ Room > 0 /\ radius > 0
             /\ \A a \in Axes : /\ radius <= surface[a] /\ Wrapped(at[a] - radius) >= 0
                                /\ Wrapped(at[a] + radius) < surface[a]
           command == [type |-> "box", at |-> [a \in Axes |-> at[a] - radius],
                       size |-> [a \in Axes |-> 2 * radius + 1]]
<1>2. at \in Point /\ radius \in Int
  BY SurfaceAssumption DEF Point
<1>3. ASSUME accepted PROVE command \in Commands
  <2>1. command \in AnyBox /\ command.type # "sprite"
    BY <1>2 DEF AnyBox, Point
  <2>2. ASSUME IsHeld(command), NEW a \in Axes
        PROVE  command.at[a] >= 0 /\ command.at[a] + command.size[a] <= surface[a]
    <3>1. /\ at[a] \in Int /\ radius > 0 /\ Wrapped(at[a] - radius) >= 0
          /\ Wrapped(at[a] + radius) < surface[a]
      BY <1>2, <1>3 DEF Point
    <3>2. command.at[a] = at[a] - radius /\ command.size[a] = 2 * radius + 1
      OBVIOUS
    <3> HIDE DEF command
    <3>3. at[a] - radius \in -MaxInt - 1 .. MaxInt /\ at[a] + radius \in -MaxInt - 1 .. MaxInt
      BY <1>2, <2>2, <3>1, <3>2, SurfaceAssumption DEF IsHeld
    <3>4. Wrapped(at[a] - radius) = at[a] - radius /\ Wrapped(at[a] + radius) = at[a] + radius
      BY <3>3, WrappedIsExact
    <3>5. surface[a] \in Int
      BY <1>1, PackageAssumption DEF SurfaceInv, Submit, Running, LoadPackage, Dimensions, surface
    <3> QED
      BY <1>2, <3>1, <3>2, <3>4, <3>5
  <2>3. IsHeld(command) => Inside(command, surface)
    BY <2>2 DEF Inside
  <2> QED
    BY <2>1, <2>3 DEF Commands, IsInside
<1>4. accepted => Room > 0
  OBVIOUS
<1>5. Submit(IF accepted THEN <<command>> ELSE <<>>, accepted)
  BY <1>1
<1> HIDE DEF accepted, command
<1> QED
  BY <1>3, <1>4, <1>5, SubmitOne

-----------------------------------------------------------------------------
(* Sprites. *)

LEMMA SpritesAreInside ==
  ASSUME Loaded, AssetsAreValid(assets), NEW i \in DOMAIN assets.sprites,
         NEW at \in Point, NEW size \in Point, \A a \in Axes : size[a] > 0
  PROVE  Sprite(assets.sprites[i], at, size) \in Commands
<1> DEFINE s == assets.sprites[i]
           c == Sprite(s, at, size)
<1>1. s.at \in [Axes -> Nat] /\ s.size \in [Axes -> Nat]
  BY DEF Loaded, AssetsAreRead
<1>2. /\ s.atlas \in DOMAIN assets.atlases
      /\ \A a \in Axes : /\ s.size[a] > 0
                         /\ s.at[a] + s.size[a] <= assets.atlases[s.atlas].size[a]
  BY DEF AssetsAreValid, SpriteIsValid
<1>3. DOMAIN assets.atlases \subseteq Nat
  <2>1. DOMAIN assets.atlases = 1 .. Len(assets.atlases)
    BY DEF Loaded, AssetsAreRead, IsSequence
  <2> QED
    BY <2>1
<1> HIDE DEF s
<1>4. c = [type |-> "sprite", atlas |-> s.atlas, source |-> [at |-> s.at, size |-> s.size],
           at |-> at, size |-> size]
  BY DEF Sprite
<1>5. s.at \in Point /\ s.size \in Point
  BY <1>1 DEF Point
<1> HIDE DEF c
<1>6. c \in AnySprite /\ c.type = "sprite"
  <2> HIDE DEF Point
  <2> QED
    BY <1>2, <1>3, <1>4, <1>5 DEF AnySprite
<1>7. Inside(c.source, assets.atlases[c.atlas].size) /\ Visible(c.source) /\ Visible(c)
  BY <1>1, <1>2, <1>4 DEF Inside, Visible
<1>8. c.atlas \in DOMAIN assets.atlases /\ package.has_assets
  BY <1>2, <1>4 DEF Loaded
<1>9. c \in Commands
  BY <1>6, <1>7, <1>8 DEF Commands, IsInside
<1> QED
  BY <1>9 DEF c, s

LEMMA PlacedIsInside ==
  ASSUME Loaded, AssetsAreValid(assets), NEW i \in DOMAIN assets.sprites,
         NEW point \in Point, NEW scale \in Nat
  PROVE  Placed(i, point, scale) \in Commands
<1> DEFINE s == assets.sprites[i]
           at == [a \in Axes |-> point[a] - Round(s.pivot[a] * scale, Unit)]
           size == [a \in Axes |-> AtLeastOne(Round(s.size[a] * scale, Unit))]
<1>1. s.pivot \in [Axes -> Nat] /\ s.size \in [Axes -> Nat]
  BY DEF Loaded, AssetsAreRead
<1>2. \A n \in Nat : Round(n * scale, Unit) \in Int
  <2> TAKE n \in Nat
  <2>1. n * scale \in Int /\ Unit \in Nat \ {0}
    BY PackageAssumption
  <2> QED
    BY <2>1, Rounding
<1>3. \A a \in Axes : s.pivot[a] \in Nat /\ s.size[a] \in Nat /\ point[a] \in Int
  BY <1>1 DEF Point
<1> HIDE DEF s
<1>4. at \in Point
  <2>1. ASSUME NEW a \in Axes PROVE point[a] - Round(s.pivot[a] * scale, Unit) \in Int
    <3>1. Round(s.pivot[a] * scale, Unit) \in Int /\ point[a] \in Int
      BY <1>2, <1>3
    <3> QED
      BY <3>1
  <2> QED
    BY <2>1 DEF Point
<1>5. size \in Point /\ \A a \in Axes : size[a] > 0
  <2>1. ASSUME NEW a \in Axes
        PROVE  /\ AtLeastOne(Round(s.size[a] * scale, Unit)) \in Int
               /\ AtLeastOne(Round(s.size[a] * scale, Unit)) > 0
    <3>1. Round(s.size[a] * scale, Unit) \in Int
      BY <1>2, <1>3
    <3> QED
      BY <3>1 DEF AtLeastOne
  <2> QED
    BY <2>1 DEF Point
<1>6. Placed(i, point, scale) = Sprite(s, at, size)
  BY DEF Placed, s
<1> HIDE DEF at, size
<1> QED
  BY <1>4, <1>5, <1>6, SpritesAreInside DEF s

LEMMA SelectedIsASprite ==
  ASSUME Loaded, AssetsAreValid(assets), tick \in Nat, NEW item \in Items
  PROVE  Selected(item) \in DOMAIN assets.sprites
<1>1. CASE item \in {[sprite |-> i] : i \in DOMAIN assets.sprites}
  BY <1>1 DEF Selected
<1>2. CASE item \in {[animation |-> i, phase |-> p] : i \in DOMAIN assets.animations, p \in Phases}
  <2>1. PICK i \in DOMAIN assets.animations, p \in Phases : item = [animation |-> i, phase |-> p]
    BY <1>2
  <2>2. Selected(item) = FrameAt(assets.animations[i], tick + p)
    BY <2>1 DEF Selected
  <2>3. /\ IsSequence(assets.animations[i].frames)
        /\ AnimationIsValid(assets.animations[i], assets.sprites) /\ tick + p \in Nat
    BY SurfaceAssumption DEF Loaded, AssetsAreRead, AssetsAreValid
  <2>4. PICK n \in DOMAIN assets.animations[i].frames :
          FrameAt(assets.animations[i], tick + p) = assets.animations[i].frames[n].sprite
    BY <2>3, FrameShown
  <2>5. assets.animations[i].frames[n].sprite \in DOMAIN assets.sprites
    BY <2>3 DEF AnimationIsValid
  <2> QED
    BY <2>2, <2>4, <2>5
<1> QED
  BY <1>1, <1>2 DEF Items

LEMMA SpritesKeep ==
  ASSUME SurfaceInv, DrawSprite
  PROVE  SurfaceInv'
<1>1. PICK item \in Items, at \in Places, scale \in Scales :
        LET command == Placed(Selected(item), at, scale)
            accepted == Touches(command) /\ Room > 0
        IN Submit(IF accepted THEN <<command>> ELSE <<>>, accepted)
  BY DEF DrawSprite
<1>2. Loaded /\ AssetsAreValid(assets) /\ tick \in Nat
  BY <1>1, LoadedAssets DEF DrawSprite, Submit, SurfaceInv, Running
<1>3. Selected(item) \in DOMAIN assets.sprites /\ at \in Point /\ scale \in Nat
  BY <1>2, SelectedIsASprite, SurfaceAssumption DEF Point
<1>4. Placed(Selected(item), at, scale) \in Commands
  BY <1>2, <1>3, PlacedIsInside
<1> QED
  BY <1>1, <1>4, SubmitOne

LEMMA BatchesKeep ==
  ASSUME SurfaceInv, SpriteBatch
  PROVE  SurfaceInv'
<1>1. PICK item \in Items, i \in DOMAIN assets.sprites, at \in Places, there \in Places :
       LET first == Placed(Selected(item), at, Unit)
           second == Placed(i, there, Unit)
           fits == 2 <= Room
       IN Submit(CASE fits /\ Touches(first) /\ Touches(second) -> <<first, second>>
                   [] fits /\ Touches(first) /\ ~Touches(second) -> <<first>>
                   [] OTHER -> <<>>,
                 fits /\ Touches(first) /\ Touches(second))
  BY DEF SpriteBatch
<1> DEFINE first == Placed(Selected(item), at, Unit)
           second == Placed(i, there, Unit)
           fits == 2 <= Room
           commands == CASE fits /\ Touches(first) /\ Touches(second) -> <<first, second>>
                         [] fits /\ Touches(first) /\ ~Touches(second) -> <<first>>
                         [] OTHER -> <<>>
<1>2. Loaded /\ AssetsAreValid(assets) /\ tick \in Nat
  BY <1>1, LoadedAssets DEF SpriteBatch, Submit, SurfaceInv, Running
<1>3. /\ Selected(item) \in DOMAIN assets.sprites /\ at \in Point /\ there \in Point
      /\ Unit \in Nat
  BY <1>2, SelectedIsASprite, SurfaceAssumption, PackageAssumption DEF Point
<1>4. first \in Commands /\ second \in Commands
  BY <1>2, <1>3, PlacedIsInside
<1>5. Submit(commands, fits /\ Touches(first) /\ Touches(second))
  BY <1>1
<1>6. Room \in Nat
  <2>1. Len(drawing) \in Nat /\ MaximumDrawCommands \in Nat /\ Len(drawing) <= MaximumDrawCommands
    BY SurfaceAssumption, LenProperties DEF SurfaceInv
  <2> QED
    BY <2>1 DEF Room
<1> HIDE DEF first, second
<1>7. commands \in Seq(Commands) /\ Len(commands) <= Room
  <2>1. <<>> \in Seq(Commands) /\ <<first>> \in Seq(Commands) /\ <<first, second>> \in Seq(Commands)
    BY <1>4
  <2>2. Len(<<>>) = 0 /\ Len(<<first>>) = 1 /\ Len(<<first, second>>) = 2
    OBVIOUS
  <2>3. CASE fits
    BY <1>6, <2>1, <2>2, <2>3
  <2>4. CASE ~fits
    BY <1>6, <2>1, <2>2, <2>4
  <2> QED
    BY <2>3, <2>4
<1> HIDE DEF commands, fits
<1> QED
  BY <1>5, <1>7, SubmitKeeps

-----------------------------------------------------------------------------
(* Tile maps. *)

LEMMA TileIsInside ==
  ASSUME Loaded, AssetsAreValid(assets), NEW i \in DOMAIN assets.tile_sets,
         NEW index \in Nat, index < Len(assets.tile_sets[i].sprites),
         NEW cell \in [Axes -> Int], NEW origin \in Point, NEW scale \in Nat,
         LET tile == TileIn(assets.tile_sets[i], index, cell, origin, scale)
         IN  OnSurface(tile.at, tile.size)
  PROVE  TileIn(assets.tile_sets[i], index, cell, origin, scale) \in Commands
<1> DEFINE tile_set == assets.tile_sets[i]
           edges == [a \in Axes |-> TileEdges(origin[a], cell[a], tile_set.tile[a], scale)]
           at == [a \in Axes |-> edges[a][1]]
           size == [a \in Axes |-> edges[a][2] - edges[a][1]]
           tile == TileIn(tile_set, index, cell, origin, scale)
<1>1. tile_set.sprites[index + 1] \in DOMAIN assets.sprites
  <2>1. index + 1 \in DOMAIN tile_set.sprites
    <3>1. DOMAIN tile_set.sprites = 1 .. Len(tile_set.sprites)
          /\ Len(tile_set.sprites) \in Nat
      BY LenProperties DEF Loaded, AssetsAreRead, IsSequence
    <3> QED
      BY <3>1
  <2> QED
    BY <2>1 DEF AssetsAreValid, TileSetIsValid
<1>2. ASSUME NEW a \in Axes PROVE edges[a][1] \in Int /\ edges[a][2] \in Int
  <2>1. tile_set.tile[a] \in Int
    BY PackageAssumption DEF AssetsAreValid, TileSetIsValid
  <2>2. origin[a] \in Int /\ cell[a] \in Int /\ Unit \in Nat \ {0}
    BY PackageAssumption DEF Point
  <2> DEFINE left == origin[a] + cell[a] * tile_set.tile[a] * scale
             right == origin[a] + (cell[a] + 1) * tile_set.tile[a] * scale
  <2>3. left \in Int /\ right \in Int
    BY <2>1, <2>2
  <2>4. edges[a][1] = Round(left, Unit) /\ edges[a][2] = Round(right, Unit)
    BY DEF TileEdges
  <2> HIDE DEF left, right, edges
  <2> QED
    BY <2>2, <2>3, <2>4, Rounding
<1>3. tile = Sprite(assets.sprites[tile_set.sprites[index + 1]], at, size)
  BY DEF TileIn
<1> HIDE DEF edges
<1>4. at \in Point /\ size \in Point
  BY <1>2 DEF Point
<1>5. tile.at = at /\ tile.size = size
  BY <1>3 DEF Sprite
<1>6. \A a \in Axes : size[a] > 0
  BY <1>5 DEF OnSurface
<1> HIDE DEF at, size, tile
<1>7. tile \in Commands
  BY <1>1, <1>3, <1>4, <1>6, SpritesAreInside
<1> QED
  BY <1>7 DEF tile

TileAt(tile_set, row, columns, origin, scale, n) ==
  TileIn(tile_set, row[n], XY((n - 1) % columns, (n - 1) \div columns), origin, scale)

TileResults == {d \in [commands : Seq(Commands), ok : BOOLEAN] : Len(d.commands) <= Room}

\* What a tile does to the commands before it.
TileStep(tile_set, row, columns, origin, scale, skip, done, n) ==
  LET tile == TileAt(tile_set, row, columns, origin, scale, n)
      known == row[n] < Len(tile_set.sprites)
  IN IF ~done.ok \/ (known /\ row[n] = skip) THEN done
     ELSE IF known /\ OnSurface(tile.at, tile.size) /\ Len(done.commands) < Room
          THEN [done EXCEPT !.commands = Append(@, tile)]
          ELSE [done EXCEPT !.ok = FALSE]

\* The commands of a map come about tile by tile.
FoldsTiles(results, tile_set, row, columns, origin, scale, skip) ==
  /\ results \in [0..Len(row) -> TileResults]
  /\ results[0] = [commands |-> <<>>, ok |-> TRUE]
  /\ \A n \in 1..Len(row) :
       results[n] = TileStep(tile_set, row, columns, origin, scale, skip, results[n - 1], n)
  /\ Tiles(tile_set, row, columns, origin, scale, skip) = results[Len(row)]

\* What has been done after each of the tiles; all of its commands are inside.
Folded(tile_set, row, columns, origin, scale, skip) ==
  CHOOSE results : FoldsTiles(results, tile_set, row, columns, origin, scale, skip)

LEMMA TilesAreFolded ==
  ASSUME Loaded, AssetsAreValid(assets), NEW i \in DOMAIN assets.tile_sets,
         NEW row \in Seq(Nat), NEW columns \in Nat \ {0}, NEW origin \in Point,
         NEW scale \in Nat, NEW skip, Room \in Nat
  PROVE  FoldsTiles(Folded(assets.tile_sets[i], row, columns, origin, scale, skip),
                    assets.tile_sets[i], row, columns, origin, scale, skip)
<1> DEFINE tile_set == assets.tile_sets[i]
           known(n) == row[n] < Len(tile_set.sprites)
           tile(n) == TileIn(tile_set, row[n], XY((n - 1) % columns, (n - 1) \div columns),
                             origin, scale)
           step(done, n) ==
             IF ~done.ok \/ (known(n) /\ row[n] = skip) THEN done
             ELSE IF known(n) /\ OnSurface(tile(n).at, tile(n).size) /\ Len(done.commands) < Room
                  THEN [done EXCEPT !.commands = Append(@, tile(n))]
                  ELSE [done EXCEPT !.ok = FALSE]
           base == [commands |-> <<>>, ok |-> TRUE]
           seq == [n \in DOMAIN row |-> n]
           Folds(f) == f = [s \in SUBSET DOMAIN seq |->
                              IF s = {} THEN base
                              ELSE step(f[s \ {Max(s)}], seq[Max(s)])]
           drawn == Tiles(tile_set, row, columns, origin, scale, skip)
           N == Len(row)
           T == {d \in [commands : Seq(Commands), ok : BOOLEAN] : Len(d.commands) <= Room}
<1>1. drawn = (CHOOSE f : Folds(f))[DOMAIN seq]
  BY DEF Tiles, FoldLeft, MapThenFoldSet
<1>2. N \in Nat /\ DOMAIN seq = 1..N /\ \A n \in 1..N : seq[n] = n /\ row[n] \in Nat
  BY LenProperties, ElementOfSeq
<1>3. base \in T
  BY EmptySeq
<1>4. ASSUME NEW n \in 1..N, NEW done \in T PROVE step(done, n) \in T
  <2>1. done.commands \in Seq(Commands) /\ done.ok \in BOOLEAN /\ Len(done.commands) <= Room
    OBVIOUS
  <2>2. CASE known(n) /\ OnSurface(tile(n).at, tile(n).size) /\ Len(done.commands) < Room
    <3>1. XY((n - 1) % columns, (n - 1) \div columns) \in [Axes -> Int]
      <4>1. (n - 1) % columns \in Int /\ (n - 1) \div columns \in Int
        BY <1>2
      <4> QED
        BY <4>1 DEF XY
    <3>2. tile(n) \in Commands
      BY <1>2, <2>2, <3>1, TileIsInside
    <3> HIDE DEF tile, known
    <3>3. /\ Append(done.commands, tile(n)) \in Seq(Commands)
          /\ Len(Append(done.commands, tile(n))) <= Room
      BY <2>1, <2>2, <3>2, AppendProperties, LenProperties
    <3> QED
      BY <2>1, <3>3
  <2>3. CASE ~(known(n) /\ OnSurface(tile(n).at, tile(n).size) /\ Len(done.commands) < Room)
    <3> HIDE DEF tile, known
    <3> QED
      BY <2>1, <2>3
  <2> QED
    BY <2>2, <2>3
<1> HIDE DEF tile_set, known, tile, step, base, T, N
<1> DEFINE steps == [n \in 1..N |-> [d \in T |-> step(d, n)]]
<1>5. steps \in Steps(N, T)
  BY <1>4 DEF Steps
<1>6. PICK g : FoldsSets(g, N, T, base, steps)
  <2> HIDE DEF steps
  <2> QED
    BY <1>2, <1>3, <1>5, Folding
<1>7. \A s \in SUBSET (1..N) : s # {} => Max(s) \in 1..N
  BY <1>2, Greatest
<1>8. Folds(g)
  <2>1. g = [s \in SUBSET (1..N) |-> g[s]]
    BY <1>6 DEF FoldsSets
  <2>2. ASSUME NEW s \in SUBSET (1..N), s # {}
        PROVE  g[s] = step(g[s \ {Max(s)}], seq[Max(s)])
    <3>1. g[s] = steps[Max(s)][g[s \ {Max(s)}]] /\ g[s \ {Max(s)}] \in T
      BY <1>6, <2>2 DEF FoldsSets
    <3>2. Max(s) \in 1..N /\ seq[Max(s)] = Max(s)
      BY <1>2, <1>7, <2>2
    <3> QED
      BY <3>1, <3>2
  <2>3. g[{}] = base
    BY <1>6 DEF FoldsSets
  <2> HIDE DEF seq
  <2> QED
    BY <1>2, <2>1, <2>2, <2>3
<1>9. Folds(CHOOSE f : Folds(f))
  <2> HIDE DEF Folds
  <2> QED
    BY <1>8
<1> DEFINE h == CHOOSE f : Folds(f)
<1> HIDE DEF h
<1>10. /\ h[1..0] = base
       /\ \A n \in 1..N : h[1..n] = step(h[1..(n - 1)], n)
  <2>1. \A s \in SUBSET (1..N) :
          h[s] = IF s = {} THEN base ELSE step(h[s \ {Max(s)}], seq[Max(s)])
    <3> HIDE DEF seq
    <3> QED
      BY <1>2, <1>9 DEF h
  <2>2. h[1..0] = base
    <3>1. 1..0 = {}
      OBVIOUS
    <3> QED
      BY <2>1, <3>1
  <2>3. ASSUME NEW n \in 1..N PROVE h[1..n] = step(h[1..(n - 1)], n)
    <3>1. 1..n \in SUBSET (1..N) /\ n \in 1..n /\ (1..n) \ {n} = 1..(n - 1) /\ n \in Nat
      BY <1>2
    <3>2. Max(1..n) \in 1..n /\ Max(1..n) >= n
      BY <3>1, Greatest
    <3>3. Max(1..n) = n /\ 1..n # {}
      BY <3>1, <3>2
    <3>4. h[1..n] = step(h[(1..n) \ {n}], seq[n])
      BY <2>1, <3>1, <3>3
    <3> QED
      BY <1>2, <3>1, <3>4
  <2> QED
    BY <2>2, <2>3
<1> DEFINE Failed == {n \in 0..N : h[1..n] \notin T}
<1>11. Failed = {}
  <2> SUFFICES ASSUME Failed # {} PROVE FALSE
    OBVIOUS
  <2>1. Failed \in SUBSET Nat
    BY <1>2
  <2> HIDE DEF Failed
  <2>2. PICK n \in Failed : \A j \in Failed : n <= j
    BY <2>1, Least
  <2> USE DEF Failed
  <2>3. n # 0
    BY <1>3, <1>10, <2>2
  <2>4. n \in 1..N /\ n - 1 \in 0..N /\ n - 1 \notin Failed
    BY <1>2, <2>2, <2>3
  <2>5. h[1..(n - 1)] \in T
    BY <2>4
  <2>6. h[1..n] \in T
    BY <1>4, <1>10, <2>4, <2>5
  <2> QED
    BY <2>2, <2>6
<1>12. drawn = h[1..N] /\ h[1..N] \in T
  <2>1. \A n \in 0..N : h[1..n] \in T
    BY <1>11
  <2>2. drawn = h[DOMAIN seq]
    BY <1>1 DEF h
  <2> HIDE DEF seq, drawn
  <2> QED
    BY <1>2, <2>1, <2>2
<1>13. \A n \in 0..N : h[1..n] \in T
  BY <1>11
<1> DEFINE results == [n \in 0..N |-> h[1..n]]
<1>14. results \in [0..N -> T]
  BY <1>13
<1>15. results[0] = base
  BY <1>2, <1>10
<1>16. ASSUME NEW n \in 1..N PROVE results[n] = step(results[n - 1], n)
  <2>1. n \in 0..N /\ n - 1 \in 0..N
    BY <1>2
  <2>2. results[n] = h[1..n] /\ results[n - 1] = h[1..(n - 1)]
    BY <2>1
  <2> QED
    BY <1>10, <2>2
<1>17. drawn = results[N]
  <2>1. N \in 0..N
    BY <1>2
  <2> QED
    BY <1>12, <2>1
<1>18. T = TileResults
  BY DEF T, TileResults
<1>19. \A d, n : step(d, n) = TileStep(tile_set, row, columns, origin, scale, skip, d, n)
  BY DEF step, tile, known, TileStep, TileAt
<1> HIDE DEF results, drawn
<1>20. /\ results \in [0..N -> TileResults] /\ results[0] = base
       /\ \A n \in 1..N :
            results[n] = TileStep(tile_set, row, columns, origin, scale, skip, results[n - 1], n)
       /\ drawn = results[N]
  BY <1>14, <1>15, <1>16, <1>17, <1>18, <1>19
<1> QED
  <2>1. FoldsTiles(results, tile_set, row, columns, origin, scale, skip)
    BY <1>20 DEF drawn, N, base, FoldsTiles
  <2> QED
    BY <2>1 DEF Folded, tile_set

LEMMA TilesAreInside ==
  ASSUME Loaded, AssetsAreValid(assets), NEW i \in DOMAIN assets.tile_sets,
         NEW row \in Seq(Nat), NEW columns \in Nat \ {0}, NEW origin \in Point,
         NEW scale \in Nat, NEW skip, Room \in Nat
  PROVE  LET drawn == Tiles(assets.tile_sets[i], row, columns, origin, scale, skip)
         IN  drawn.commands \in Seq(Commands) /\ Len(drawn.commands) <= Room
<1> DEFINE tile_set == assets.tile_sets[i]
           drawn == Tiles(tile_set, row, columns, origin, scale, skip)
<1>1. drawn \in TileResults
  <2> DEFINE results == Folded(tile_set, row, columns, origin, scale, skip)
  <2>1. FoldsTiles(results, tile_set, row, columns, origin, scale, skip)
    BY TilesAreFolded
  <2>2. Len(row) \in 0..Len(row)
    BY LenProperties
  <2> HIDE DEF results
  <2> QED
    BY <2>1, <2>2 DEF FoldsTiles
<1> QED
  BY <1>1 DEF TileResults

\* The cells of a map: every tile has one, no two have the same, none is left.
Column(n, columns) == (n - 1) % columns

Line(n, columns) == (n - 1) \div columns

HasCells(columns, total, lines) ==
  /\ lines \in Nat
  /\ \A n \in 1..total : Column(n, columns) \in 0..(columns - 1) /\ Line(n, columns) \in 0..(lines - 1)
  /\ \A m, n \in 1..total :
       Column(m, columns) = Column(n, columns) /\ Line(m, columns) = Line(n, columns) => m = n
  /\ \A x \in 0..(columns - 1), y \in 0..(lines - 1) :
       \E n \in 1..total : Column(n, columns) = x /\ Line(n, columns) = y

LEMMA CellsOfMap ==
  ASSUME NEW columns \in Nat \ {0}, NEW total \in Nat, total % columns = 0
  PROVE  HasCells(columns, total, total \div columns)
<1> DEFINE rows == total \div columns
<1>1. ASSUME NEW n \in Nat
      PROVE  /\ n \div columns \in Nat /\ n % columns \in 0..(columns - 1)
             /\ n = columns * (n \div columns) + (n % columns)
  <2>1. n \div columns \in Nat
    BY <1>1, Quotients
  <2>2. n % columns \in 0..(columns - 1) /\ n = columns * (n \div columns) + (n % columns)
    BY <1>1
  <2> QED
    BY <2>1, <2>2
<1>2. ASSUME NEW p \in Nat, NEW q \in Nat, NEW r \in 0..(columns - 1), NEW t \in 0..(columns - 1),
             columns * p + r = columns * q + t
      PROVE  p = q /\ r = t
  <2>1. ASSUME NEW a \in Nat, NEW b \in Nat, NEW c \in 0..(columns - 1), NEW d \in 0..(columns - 1),
               columns * a + c = columns * b + d
        PROVE  ~(a < b)
    <3> SUFFICES ASSUME a + 1 <= b PROVE FALSE
      BY <2>1
    <3>1. columns * (a + 1) <= columns * b
      OBVIOUS
    <3>2. columns * (a + 1) = columns * a + columns /\ columns * a \in Nat /\ columns * b \in Nat
      OBVIOUS
    <3> QED
      BY <2>1, <3>1, <3>2
  <2>2. p = q
    BY <1>2, <2>1
  <2> QED
    BY <1>2, <2>2
<1>3. rows \in Nat /\ total = columns * rows
  <2>1. total = columns * rows + 0
    BY <1>1
  <2>2. rows \in Nat
    BY <1>1
  <2> HIDE DEF rows
  <2>3. columns * rows \in Nat
    BY <2>2
  <2> QED
    BY <2>1, <2>2, <2>3
<1> HIDE DEF rows
<1>4. ASSUME NEW n \in 1..total
      PROVE  (n - 1) % columns \in 0..(columns - 1) /\ (n - 1) \div columns \in 0..(rows - 1)
  <2> DEFINE q == (n - 1) \div columns
             r == (n - 1) % columns
  <2>1. q \in Nat /\ r \in 0..(columns - 1) /\ n - 1 = columns * q + r
    BY <1>1, <1>4
  <2> HIDE DEF q, r
  <2>2. q < rows
    <3> SUFFICES ASSUME rows <= q PROVE FALSE
      BY <1>3, <2>1
    <3>1. columns * rows <= columns * q /\ columns * q \in Nat /\ columns * rows \in Nat
      BY <1>3, <2>1
    <3> QED
      BY <1>3, <1>4, <2>1, <3>1
  <2> QED
    BY <1>3, <2>1, <2>2 DEF q, r
<1>5. ASSUME NEW m \in 1..total, NEW n \in 1..total,
             (m - 1) % columns = (n - 1) % columns, (m - 1) \div columns = (n - 1) \div columns
      PROVE  m = n
  <2>1. /\ m - 1 = columns * ((m - 1) \div columns) + ((m - 1) % columns)
        /\ n - 1 = columns * ((n - 1) \div columns) + ((n - 1) % columns)
    BY <1>1
  <2>2. m - 1 = n - 1
    BY <1>5, <2>1
  <2> QED
    BY <2>2
<1>6. ASSUME NEW x \in 0..(columns - 1), NEW y \in 0..(rows - 1)
      PROVE  \E n \in 1..total : (n - 1) % columns = x /\ (n - 1) \div columns = y
  <2> DEFINE k == columns * y + x
  <2>1. y \in Nat /\ k \in Nat
    BY <1>3
  <2>2. k < total
    <3>1. columns * (y + 1) <= columns * rows
      BY <1>3
    <3>2. columns * (y + 1) = columns * y + columns /\ columns * y \in Nat
      BY <2>1
    <3> QED
      BY <1>3, <3>1, <3>2
  <2>3. k % columns = x /\ k \div columns = y
    <3>1. /\ k \div columns \in Nat /\ k % columns \in 0..(columns - 1)
          /\ k = columns * (k \div columns) + (k % columns)
      BY <1>1, <2>1
    <3> QED
      BY <1>2, <2>1, <3>1
  <2> HIDE DEF k
  <2>4. k + 1 \in 1..total /\ (k + 1) - 1 = k
    BY <2>1, <2>2
  <2> QED
    BY <2>3, <2>4
<1> QED
  BY <1>3, <1>4, <1>5, <1>6 DEF rows, HasCells, Column, Line

\* A tile covers the pixels between the edges of its cell.
LEMMA TileCovers ==
  ASSUME NEW i \in DOMAIN assets.tile_sets, NEW row, NEW columns, NEW origin \in Point,
         NEW scale \in Nat, NEW n, NEW pixel \in Point,
         NEW column \in Nat, NEW line \in Nat,
         Column(n, columns) = column, Line(n, columns) = line,
         \A a \in Axes : assets.tile_sets[i].tile[a] \in Nat
  PROVE  LET cell == XY(column, line)
             tile == assets.tile_sets[i].tile
         IN  Covers(TileAt(assets.tile_sets[i], row, columns, origin, scale, n), pixel) <=>
               \A a \in Axes : /\ Edge(origin[a], cell[a], tile[a], scale) <= pixel[a]
                               /\ pixel[a] < Edge(origin[a], cell[a] + 1, tile[a], scale)
<1> DEFINE tile_set == assets.tile_sets[i]
           tile == tile_set.tile
           cell == XY(column, line)
           edges == [a \in Axes |-> TileEdges(origin[a], cell[a], tile[a], scale)]
           c == TileAt(tile_set, row, columns, origin, scale, n)
<1>1. /\ c.at = [a \in Axes |-> edges[a][1]]
      /\ c.size = [a \in Axes |-> edges[a][2] - edges[a][1]]
  BY DEF TileAt, TileIn, Sprite, Column, Line
<1>2. ASSUME NEW a \in Axes
      PROVE  /\ edges[a][1] = Edge(origin[a], cell[a], tile[a], scale)
             /\ edges[a][2] = Edge(origin[a], cell[a] + 1, tile[a], scale)
             /\ edges[a][1] \in Int /\ edges[a][2] \in Int
  <2>1. cell[a] \in Nat /\ cell[a] + 1 \in Nat /\ origin[a] \in Int /\ tile[a] \in Nat
    BY DEF XY, Point
  <2>2. /\ edges[a][1] = Edge(origin[a], cell[a], tile[a], scale)
        /\ edges[a][2] = Edge(origin[a], cell[a] + 1, tile[a], scale)
    BY DEF TileEdges, Edge
  <2>3. /\ Edge(origin[a], cell[a], tile[a], scale) \in Int
        /\ Edge(origin[a], cell[a] + 1, tile[a], scale) \in Int
    <3> DEFINE k == cell[a]
               o == origin[a]
               t == tile[a]
    <3>1. k \in Nat /\ k + 1 \in Nat /\ k <= k + 1 /\ o \in Int /\ t \in Nat
      BY <2>1
    <3> HIDE DEF k, o, t
    <3>2. Edge(o, k, t, scale) \in Int /\ Edge(o, k + 1, t, scale) \in Int
      BY <3>1, EdgesAreOrdered
    <3> QED
      BY <3>2 DEF k, o, t
  <2> QED
    BY <2>2, <2>3
<1> HIDE DEF edges, c
<1>3. ASSUME NEW a \in Axes
      PROVE  /\ c.at[a] = edges[a][1] /\ c.at[a] + c.size[a] = edges[a][2]
  <2>1. c.at[a] = edges[a][1] /\ c.size[a] = edges[a][2] - edges[a][1]
    BY <1>1
  <2> QED
    BY <1>2, <2>1
<1>4. Covers(c, pixel) <=> \A a \in Axes : edges[a][1] <= pixel[a] /\ pixel[a] < edges[a][2]
  BY <1>3 DEF Covers
<1> HIDE DEF cell
<1> QED
  BY <1>2, <1>4 DEF c, cell

LEMMA OneCellHolds ==
  ASSUME NEW origin \in Int, NEW tile \in Nat, NEW scale \in Nat,
         NEW j \in Nat, NEW k \in Nat, NEW p \in Int,
         Edge(origin, j, tile, scale) <= p, p < Edge(origin, j + 1, tile, scale),
         Edge(origin, k, tile, scale) <= p, p < Edge(origin, k + 1, tile, scale)
  PROVE  j = k
<1>1. ASSUME NEW m \in Nat, NEW n \in Nat, m + 1 <= n,
             p < Edge(origin, m + 1, tile, scale), Edge(origin, n, tile, scale) <= p
      PROVE  FALSE
  <2> DEFINE l == m + 1
  <2>1. l \in Nat /\ l <= n
    BY <1>1
  <2>2. p < Edge(origin, l, tile, scale)
    BY <1>1
  <2> HIDE DEF l
  <2>3. /\ Edge(origin, l, tile, scale) \in Int /\ Edge(origin, n, tile, scale) \in Int
        /\ Edge(origin, l, tile, scale) <= Edge(origin, n, tile, scale)
    BY <2>1, EdgesAreOrdered
  <2> QED
    BY <1>1, <2>2, <2>3
<1>2. ~(j + 1 <= k) /\ ~(k + 1 <= j)
  BY <1>1
<1> QED
  BY <1>2

\* No two tiles of a map cover a pixel.
LEMMA TilesAreApart ==
  ASSUME AssetsAreValid(assets), NEW i \in DOMAIN assets.tile_sets, NEW row,
         NEW columns \in Nat \ {0}, NEW total \in Nat, total % columns = 0,
         NEW origin \in Point, NEW scale \in Nat, NEW pixel \in Point,
         NEW m \in 1..total, NEW n \in 1..total,
         Covers(TileAt(assets.tile_sets[i], row, columns, origin, scale, m), pixel),
         Covers(TileAt(assets.tile_sets[i], row, columns, origin, scale, n), pixel)
  PROVE  m = n
<1> DEFINE tile == assets.tile_sets[i].tile
           column(k) == Column(k, columns)
           line(k) == Line(k, columns)
           cell(k) == XY(column(k), line(k))
<1>1. \A a \in Axes : tile[a] \in Nat /\ origin[a] \in Int /\ pixel[a] \in Int
  <2> TAKE a \in Axes
  <2>1. tile[a] \in 1 .. MaxTile /\ MaxTile \in Nat
    BY PackageAssumption DEF AssetsAreValid, TileSetIsValid
  <2> QED
    BY <2>1 DEF Point
<1>2. column(m) \in Nat /\ line(m) \in Nat /\ column(n) \in Nat /\ line(n) \in Nat
  <2>1. /\ column(m) \in 0..(columns - 1) /\ line(m) \in 0..(total \div columns - 1)
        /\ column(n) \in 0..(columns - 1) /\ line(n) \in 0..(total \div columns - 1)
    BY CellsOfMap DEF HasCells
  <2> QED
    BY <2>1
<1>3. \A a \in Axes : /\ Edge(origin[a], cell(m)[a], tile[a], scale) <= pixel[a]
                      /\ pixel[a] < Edge(origin[a], cell(m)[a] + 1, tile[a], scale)
                      /\ Edge(origin[a], cell(n)[a], tile[a], scale) <= pixel[a]
                      /\ pixel[a] < Edge(origin[a], cell(n)[a] + 1, tile[a], scale)
  BY <1>1, <1>2, TileCovers
<1>4. \A a \in Axes : cell(m)[a] \in Nat /\ cell(n)[a] \in Nat
  BY <1>2 DEF XY
<1>5. ASSUME NEW a \in Axes PROVE cell(m)[a] = cell(n)[a]
  <2> DEFINE j == cell(m)[a]
             k == cell(n)[a]
             o == origin[a]
             t == tile[a]
             p == pixel[a]
  <2>1. /\ j \in Nat /\ k \in Nat /\ o \in Int /\ t \in Nat /\ p \in Int
        /\ Edge(o, j, t, scale) <= p /\ p < Edge(o, j + 1, t, scale)
        /\ Edge(o, k, t, scale) <= p /\ p < Edge(o, k + 1, t, scale)
    BY <1>1, <1>3, <1>4
  <2> HIDE DEF j, k, o, t, p
  <2>2. j = k
    BY <2>1, OneCellHolds
  <2> QED
    BY <2>2 DEF j, k
<1>6. column(m) = column(n) /\ line(m) = line(n)
  <2>1. "x" \in Axes /\ "y" \in Axes
    BY DEF Axes
  <2>2. /\ cell(m)["x"] = column(m) /\ cell(n)["x"] = column(n)
        /\ cell(m)["y"] = line(m) /\ cell(n)["y"] = line(n)
    BY <2>1 DEF XY
  <2> HIDE DEF cell
  <2> QED
    BY <1>5, <2>1, <2>2
<1>7. HasCells(columns, total, total \div columns)
  BY CellsOfMap
<1> HIDE DEF column, line
<1>8. Column(m, columns) = Column(n, columns) /\ Line(m, columns) = Line(n, columns)
  BY <1>6 DEF column, line
<1> QED
  BY <1>7, <1>8, Zenon DEF HasCells

\* The tiles of a map cover the pixels from its rounded origin to its rounded
\* end, and no others.
LEMMA TilesCoverTheMap ==
  ASSUME AssetsAreValid(assets), NEW i \in DOMAIN assets.tile_sets, NEW row,
         NEW columns \in Nat \ {0}, NEW total \in Nat, total % columns = 0,
         NEW origin \in Point, NEW scale \in Nat, NEW pixel \in Point
  PROVE  LET cells == XY(columns, total \div columns)
             tile == assets.tile_sets[i].tile
         IN  (\E n \in 1..total :
                Covers(TileAt(assets.tile_sets[i], row, columns, origin, scale, n), pixel)) <=>
               \A a \in Axes : /\ Edge(origin[a], 0, tile[a], scale) <= pixel[a]
                               /\ pixel[a] < Edge(origin[a], cells[a], tile[a], scale)
<1> DEFINE tile == assets.tile_sets[i].tile
           lines == total \div columns
           cells == XY(columns, lines)
           edge(a, k) == Edge(origin[a], k, tile[a], scale)
           column(n) == Column(n, columns)
           line(n) == Line(n, columns)
           c(n) == TileAt(assets.tile_sets[i], row, columns, origin, scale, n)
           InCell(x, y) == \A a \in Axes : /\ edge(a, XY(x, y)[a]) <= pixel[a]
                                           /\ pixel[a] < edge(a, XY(x, y)[a] + 1)
           InMap == \A a \in Axes : edge(a, 0) <= pixel[a] /\ pixel[a] < edge(a, cells[a])
<1>1. \A a \in Axes : tile[a] \in Nat /\ origin[a] \in Int /\ pixel[a] \in Int
  BY PackageAssumption DEF AssetsAreValid, TileSetIsValid, Point
<1>2. /\ lines \in Nat
      /\ \A n \in 1..total : column(n) \in 0..(columns - 1) /\ line(n) \in 0..(lines - 1)
      /\ \A x \in 0..(columns - 1), y \in 0..(lines - 1) :
           \E n \in 1..total : column(n) = x /\ line(n) = y
  BY CellsOfMap DEF HasCells
<1>3. ASSUME NEW n \in 1..total PROVE Covers(c(n), pixel) <=> InCell(column(n), line(n))
  <2>1. column(n) \in Nat /\ line(n) \in Nat
    BY <1>2
  <2> QED
    BY <1>1, <2>1, TileCovers
<1>4. ASSUME NEW a \in Axes, NEW j \in Nat, NEW k \in Nat, j <= k
      PROVE  edge(a, j) \in Int /\ edge(a, k) \in Int /\ edge(a, j) <= edge(a, k)
  BY <1>1, <1>4, EdgesAreOrdered
<1>5. "x" \in Axes /\ "y" \in Axes /\ \A a \in Axes : a = "x" \/ a = "y"
  BY DEF Axes
<1>6. \A x, y : XY(x, y)["x"] = x /\ XY(x, y)["y"] = y
  BY <1>5 DEF XY
<1>7. ASSUME NEW a \in Axes, NEW most \in Nat, edge(a, 0) <= pixel[a], pixel[a] < edge(a, most)
      PROVE  \E k \in 0..(most - 1) : edge(a, k) <= pixel[a] /\ pixel[a] < edge(a, k + 1)
  BY <1>1, <1>7, BetweenEdges
<1> HIDE DEF edge, lines, column, line, c
<1>8. ASSUME NEW n \in 1..total, Covers(c(n), pixel) PROVE InMap
  <2>1. InCell(column(n), line(n))
    BY <1>3, <1>8
  <2>2. ASSUME NEW a \in Axes, NEW k \in Nat, NEW most \in Nat, k + 1 <= most,
               edge(a, k) <= pixel[a], pixel[a] < edge(a, k + 1)
        PROVE  edge(a, 0) <= pixel[a] /\ pixel[a] < edge(a, most)
    <3>1. edge(a, 0) \in Int /\ edge(a, k) \in Int /\ edge(a, 0) <= edge(a, k)
      BY <1>4, <2>2
    <3> DEFINE l == k + 1
    <3>2. l \in Nat /\ l <= most /\ pixel[a] < edge(a, l)
      BY <2>2
    <3> HIDE DEF l
    <3>3. edge(a, l) \in Int /\ edge(a, most) \in Int /\ edge(a, l) <= edge(a, most)
      BY <1>4, <3>2
    <3> QED
      BY <1>1, <2>2, <3>1, <3>2, <3>3
  <2>3. /\ column(n) \in Nat /\ column(n) + 1 <= columns
        /\ line(n) \in Nat /\ line(n) + 1 <= lines
    BY <1>2
  <2>4. edge("x", 0) <= pixel["x"] /\ pixel["x"] < edge("x", columns)
    BY <1>5, <1>6, <2>1, <2>2, <2>3
  <2>5. edge("y", 0) <= pixel["y"] /\ pixel["y"] < edge("y", lines)
    BY <1>2, <1>5, <1>6, <2>1, <2>2, <2>3
  <2> QED
    BY <1>5, <1>6, <2>4, <2>5
<1>9. ASSUME InMap PROVE \E n \in 1..total : Covers(c(n), pixel)
  <2>1. /\ edge("x", 0) <= pixel["x"] /\ pixel["x"] < edge("x", columns)
        /\ edge("y", 0) <= pixel["y"] /\ pixel["y"] < edge("y", lines)
    BY <1>5, <1>6, <1>9
  <2>2. PICK x \in 0..(columns - 1) : edge("x", x) <= pixel["x"] /\ pixel["x"] < edge("x", x + 1)
    BY <1>5, <1>7, <2>1
  <2>3. PICK y \in 0..(lines - 1) : edge("y", y) <= pixel["y"] /\ pixel["y"] < edge("y", y + 1)
    BY <1>2, <1>5, <1>7, <2>1
  <2>4. InCell(x, y)
    BY <1>5, <1>6, <2>2, <2>3
  <2>5. PICK n \in 1..total : column(n) = x /\ line(n) = y
    BY <1>2
  <2> HIDE DEF InCell
  <2>6. Covers(c(n), pixel)
    BY <1>3, <2>4, <2>5
  <2> QED
    BY <2>6
<1>10. (\E n \in 1..total : Covers(c(n), pixel)) <=> InMap
  BY <1>8, <1>9
<1> QED
  BY <1>10 DEF c, edge, lines

\* What has been drawn of a map after its first k tiles: only those tiles, no two
\* commands on one pixel, and every tile unless one failed or was skipped.
DrawnSoFar(done, k, skip, row, tile(_)) ==
  /\ \A j \in DOMAIN done.commands : \E m \in 1..k : done.commands[j] = tile(m)
  /\ \A j, l \in DOMAIN done.commands : \A pixel \in Point :
       Covers(done.commands[j], pixel) /\ Covers(done.commands[l], pixel) => j = l
  /\ done.ok /\ (\A n \in 1..k : row[n] # skip) =>
       \A m \in 1..k : \E j \in DOMAIN done.commands : done.commands[j] = tile(m)

LEMMA MapIsDrawn ==
  ASSUME Loaded, AssetsAreValid(assets), NEW i \in DOMAIN assets.tile_sets,
         NEW row \in Seq(Nat), NEW columns \in Nat \ {0}, Len(row) % columns = 0,
         NEW origin \in Point, NEW scale \in Nat, NEW skip, Room \in Nat
  PROVE  LET drawn == Tiles(assets.tile_sets[i], row, columns, origin, scale, skip)
             tile(n) == TileAt(assets.tile_sets[i], row, columns, origin, scale, n)
         IN  /\ drawn \in TileResults
             /\ DrawnSoFar(drawn, Len(row), skip, row, tile)
<1> DEFINE tile_set == assets.tile_sets[i]
           drawn == Tiles(tile_set, row, columns, origin, scale, skip)
           tile(n) == TileAt(tile_set, row, columns, origin, scale, n)
           results == Folded(tile_set, row, columns, origin, scale, skip)
           N == Len(row)
           Drawn_(k) == DrawnSoFar(results[k], k, skip, row, tile)
           Failed == {k \in 0..N : ~Drawn_(k)}
<1>1. N \in Nat /\ N % columns = 0
  BY LenProperties
<1>2. FoldsTiles(results, tile_set, row, columns, origin, scale, skip)
  BY TilesAreFolded
<1> HIDE DEF results
<1>3. /\ results \in [0..N -> TileResults] /\ results[0] = [commands |-> <<>>, ok |-> TRUE]
      /\ drawn = results[N]
      /\ \A n \in 1..N :
           results[n] = TileStep(tile_set, row, columns, origin, scale, skip, results[n - 1], n)
  BY <1>2 DEF FoldsTiles
<1>4. ASSUME NEW m \in 1..N, NEW n \in 1..N, NEW pixel \in Point,
             Covers(tile(m), pixel), Covers(tile(n), pixel)
      PROVE  m = n
  <2> HIDE DEF N
  <2> QED
    BY <1>1, <1>4, TilesAreApart
<1> HIDE DEF drawn, tile, tile_set, N
<1>5. Drawn_(0)
  <2>1. DOMAIN results[0].commands = {} /\ 1..0 = {}
    BY <1>3
  <2> QED
    BY <2>1 DEF DrawnSoFar
<1>6. ASSUME NEW n \in 1..N, Drawn_(n - 1) PROVE Drawn_(n)
  <2> DEFINE before == results[n - 1]
             after == results[n]
             L == Len(before.commands)
  <2>1. n \in Nat /\ n - 1 \in 0..N /\ n \in 0..N /\ n \in 1..n /\ \A m \in 1..(n - 1) : m \in 1..n
    BY <1>1
  <2>2. /\ before.commands \in Seq(Commands) /\ before.ok \in BOOLEAN
        /\ before = [commands |-> before.commands, ok |-> before.ok]
    BY <1>3, <2>1 DEF TileResults
  <2>3. L \in Nat /\ DOMAIN before.commands = 1..L
    BY <2>2, LenProperties
  <2>4. /\ \A j \in DOMAIN before.commands : \E m \in 1..(n - 1) : before.commands[j] = tile(m)
        /\ \A j, l \in DOMAIN before.commands : \A pixel \in Point :
             Covers(before.commands[j], pixel) /\ Covers(before.commands[l], pixel) => j = l
        /\ before.ok /\ (\A m \in 1..(n - 1) : row[m] # skip) =>
             \A m \in 1..(n - 1) : \E j \in DOMAIN before.commands : before.commands[j] = tile(m)
    BY <1>6 DEF DrawnSoFar
  <2>5. \/ after = before /\ (~before.ok \/ row[n] = skip)
        \/ /\ before.ok /\ after.ok = before.ok
           /\ after.commands = Append(before.commands, tile(n))
        \/ after.commands = before.commands /\ after.ok = FALSE
    <3>1. after = TileStep(tile_set, row, columns, origin, scale, skip, before, n)
      BY <1>3
    <3> HIDE DEF before, after
    <3> QED
      BY <2>2, <3>1 DEF TileStep, tile
  <2> HIDE DEF before, after, L
  <2>6. CASE after.commands = before.commands /\ (~after.ok \/ row[n] = skip)
    <3>1. \A j \in DOMAIN after.commands : \E m \in 1..n : after.commands[j] = tile(m)
      BY <2>1, <2>4, <2>6
    <3>2. ~(after.ok /\ \A m \in 1..n : row[m] # skip)
      BY <2>1, <2>6
    <3>3. \A j, l \in DOMAIN after.commands : \A pixel \in Point :
             Covers(after.commands[j], pixel) /\ Covers(after.commands[l], pixel) => j = l
      BY <2>4, <2>6
    <3> QED
      BY <3>1, <3>2, <3>3 DEF DrawnSoFar, after
  <2>7. CASE /\ before.ok /\ after.ok = before.ok
             /\ after.commands = Append(before.commands, tile(n))
    <3>1. /\ DOMAIN after.commands = 1..(L + 1)
          /\ \A j \in 1..L : after.commands[j] = before.commands[j]
          /\ after.commands[L + 1] = tile(n)
      <4> DEFINE longer == Append(before.commands, tile(n))
      <4>1. /\ DOMAIN longer = 1..(L + 1) /\ longer[L + 1] = tile(n)
            /\ \A j \in 1..L : longer[j] = before.commands[j]
        BY <2>2, <2>3 DEF L
      <4> HIDE DEF longer
      <4> QED
        BY <2>7, <4>1 DEF longer
    <3>2. \A j \in 1..(L + 1) : j \in 1..L \/ j = L + 1
      BY <2>3
    <3>3. L + 1 \in 1..(L + 1) /\ \A j \in 1..L : j \in 1..(L + 1)
      BY <2>3
    <3>4. \A j \in DOMAIN after.commands : \E m \in 1..n : after.commands[j] = tile(m)
      BY <2>1, <2>3, <2>4, <3>1, <3>2
    <3>5. ASSUME NEW j \in 1..L, NEW pixel \in Point,
                 Covers(before.commands[j], pixel), Covers(tile(n), pixel)
          PROVE  FALSE
      <4>1. PICK m \in 1..(n - 1) : before.commands[j] = tile(m)
        BY <2>3, <2>4
      <4>2. m \in 1..N /\ m # n
        BY <1>1
      <4>3. m = n
        BY <1>4, <3>5, <4>1, <4>2
      <4> QED
        BY <4>2, <4>3
    <3>6. ASSUME NEW j \in DOMAIN after.commands, NEW l \in DOMAIN after.commands,
                 NEW pixel \in Point,
                 Covers(after.commands[j], pixel), Covers(after.commands[l], pixel)
          PROVE  j = l
      <4>1. (j \in 1..L \/ j = L + 1) /\ (l \in 1..L \/ l = L + 1)
        BY <3>1, <3>2
      <4>2. CASE j \in 1..L /\ l \in 1..L
        BY <2>3, <2>4, <3>1, <3>6, <4>2
      <4>3. CASE j \in 1..L /\ l = L + 1
        BY <3>1, <3>5, <3>6, <4>3
      <4>4. CASE j = L + 1 /\ l \in 1..L
        BY <3>1, <3>5, <3>6, <4>4
      <4> QED
        BY <4>1, <4>2, <4>3, <4>4
    <3>7. ASSUME \A m \in 1..n : row[m] # skip, NEW m \in 1..n
          PROVE  \E j \in DOMAIN after.commands : after.commands[j] = tile(m)
      <4>1. CASE m = n
        BY <3>1, <3>3, <4>1
      <4>2. CASE m # n
        <5>1. m \in 1..(n - 1)
          BY <2>1, <4>2
        <5>2. \A o \in 1..(n - 1) : row[o] # skip
          BY <2>1, <3>7
        <5>3. PICK j \in DOMAIN before.commands : before.commands[j] = tile(m)
          BY <2>4, <2>7, <5>1, <5>2
        <5> QED
          BY <2>3, <3>1, <3>3, <5>3
      <4> QED
        BY <4>1, <4>2
    <3> QED
      BY <3>4, <3>6, <3>7 DEF DrawnSoFar, after
  <2> QED
    BY <2>5, <2>6, <2>7
<1> HIDE DEF Drawn_
<1>7. Failed = {}
  <2> SUFFICES ASSUME Failed # {} PROVE FALSE
    OBVIOUS
  <2>1. Failed \in SUBSET Nat
    BY <1>1
  <2> HIDE DEF Failed
  <2>2. PICK k \in Failed : \A j \in Failed : k <= j
    BY <2>1, Least
  <2> USE DEF Failed
  <2>3. k # 0
    BY <1>5, <2>2
  <2>4. k \in 1..N /\ k - 1 \in 0..N /\ k - 1 \notin Failed
    BY <1>1, <2>2, <2>3
  <2> QED
    BY <1>6, <2>2, <2>4
<1>8. Drawn_(N) /\ drawn \in TileResults
  <2>1. N \in 0..N
    BY <1>1
  <2> QED
    BY <1>3, <1>7, <2>1
<1>9. drawn \in TileResults /\ DrawnSoFar(drawn, N, skip, row, tile)
  BY <1>3, <1>8 DEF Drawn_
<1> QED
  BY <1>9 DEF drawn, tile, tile_set, N

LEMMA TilemapsKeep ==
  ASSUME SurfaceInv, Tilemap
  PROVE  SurfaceInv'
<1>1. PICK i \in DOMAIN assets.tile_sets, row \in TileRows, columns \in Columns,
           origin \in Origins, scale \in Scales, skip \in Skips :
        LET drawn == Tiles(assets.tile_sets[i], row, columns, origin, scale, skip)
        IN IF IsMap(row, columns)
           THEN Submit(drawn.commands, drawn.ok)
           ELSE Submit(<<>>, FALSE)
  BY DEF Tilemap
<1> DEFINE drawn == Tiles(assets.tile_sets[i], row, columns, origin, scale, skip)
<1>2. Loaded /\ AssetsAreValid(assets)
  <2>1. Running
    BY <1>1 DEF Submit, SurfaceInv, Running
  <2> QED
    BY <2>1, LoadedAssets DEF Tilemap, SurfaceInv
<1>3. /\ row \in Seq(Nat) /\ origin \in Point /\ scale \in Nat
      /\ Room \in Nat
  <2>1. Len(drawing) \in Nat /\ MaximumDrawCommands \in Nat /\ Len(drawing) <= MaximumDrawCommands
    BY SurfaceAssumption, LenProperties DEF SurfaceInv
  <2> QED
    BY <2>1, SurfaceAssumption DEF Point, Room
<1>4. IsMap(row, columns) => drawn.commands \in Seq(Commands) /\ Len(drawn.commands) <= Room
  <2>1. IsMap(row, columns) => columns \in Nat \ {0}
    BY SurfaceAssumption DEF IsMap
  <2> QED
    BY <1>2, <1>3, <2>1, TilesAreInside
<1>5. (IsMap(row, columns) /\ Submit(drawn.commands, drawn.ok)) \/ Submit(<<>>, FALSE)
  BY <1>1
<1> HIDE DEF drawn
<1> QED
  BY <1>4, <1>5, SubmitKeeps, SubmitNothing

-----------------------------------------------------------------------------
(* The density of a sprite. *)

\* The mips of an atlas are in the order of their scales, none of them its own.
LEMMA MipsAreOrdered ==
  ASSUME NEW atlas, IsSequence(atlas.mips), MipsAreValid(atlas),
         \A i \in DOMAIN atlas.mips : atlas.mips[i].scale \in Nat
  PROVE  \A j \in DOMAIN atlas.mips :
           /\ atlas.mips[j].scale < Unit
           /\ \A i \in DOMAIN atlas.mips : i <= j => atlas.mips[i].scale <= atlas.mips[j].scale
<1> DEFINE mips == atlas.mips
           scale(i) == mips[i].scale
           N == Len(mips)
           Failed == {j \in 1..N : \E i \in 1..N : i <= j /\ ~(scale(i) <= scale(j))}
<1>1. N \in Nat /\ DOMAIN mips = 1..N
  BY LenProperties DEF IsSequence
<1>2. \A i \in 1..N : scale(i) \in Nat /\ scale(i) < Unit
  BY <1>1 DEF MipsAreValid
<1>3. \A i \in 1..N : i # 1 => scale(i) > scale(i - 1)
  BY <1>1 DEF MipsAreValid
<1> HIDE DEF mips, scale, N
<1>4. Failed = {}
  <2> SUFFICES ASSUME Failed # {} PROVE FALSE
    OBVIOUS
  <2>1. Failed \in SUBSET Nat
    BY <1>1
  <2> HIDE DEF Failed
  <2>2. PICK j \in Failed : \A k \in Failed : j <= k
    BY <2>1, Least
  <2> USE DEF Failed
  <2>3. PICK i \in 1..N : i <= j /\ ~(scale(i) <= scale(j))
    BY <2>2
  <2>4. i # j
    BY <1>1, <1>2, <2>3
  <2>5. j \in 1..N /\ j - 1 \in 1..N /\ i <= j - 1 /\ j - 1 \notin Failed
    BY <1>1, <2>2, <2>3, <2>4
  <2>6. scale(i) <= scale(j - 1)
    BY <2>3, <2>5
  <2>7. scale(j) > scale(j - 1) /\ scale(i) \in Nat /\ scale(j) \in Nat /\ scale(j - 1) \in Nat
    BY <1>1, <1>2, <1>3, <2>3, <2>5
  <2> QED
    BY <2>3, <2>6, <2>7
<1>5. \A j \in 1..N : scale(j) < Unit /\ \A i \in 1..N : i <= j => scale(i) <= scale(j)
  BY <1>2, <1>4
<1> QED
  BY <1>1, <1>5 DEF scale, mips

\* level_for finds the closest density that is enough, or else the densest.
LEMMA LevelIsClosest ==
  ASSUME package \in Packages, LoadPackage(package), NEW c \in Commands, c.type = "sprite"
  PROVE  LevelFor(c) \in Nat /\ IsClosest(c, LevelFor(c))
<1> DEFINE atlas == assets.atlases[c.atlas]
           mips == atlas.mips
           N == Len(mips)
           enough == {i \in DOMAIN mips : Needs(c, mips[i].scale)}
<1>1. c.atlas \in DOMAIN assets.atlases /\ Loaded /\ AssetsAreValid(assets)
  BY LoadedAssets DEF Commands, IsInside
<1>2. /\ IsSequence(mips) /\ MipsAreValid(atlas)
      /\ \A i \in DOMAIN mips : mips[i].scale \in Nat
  BY <1>1 DEF Loaded, AssetsAreRead, AssetsAreValid, AtlasIsValid
<1>3. /\ \A j \in DOMAIN mips : mips[j].scale < Unit
      /\ \A i, j \in DOMAIN mips : i <= j => mips[i].scale <= mips[j].scale
  BY <1>2, MipsAreOrdered
<1>4. N \in Nat /\ DOMAIN mips = 1..N
  BY <1>2, LenProperties DEF IsSequence
<1>5. Unit \in Nat
  BY PackageAssumption
<1>6. LevelFor(c) = IF enough = {} THEN 0 ELSE CHOOSE i \in enough : \A j \in enough : i <= j
  BY DEF LevelFor
<1>7. Scale(atlas, 0) = Unit /\ \A l \in 1..N : Scale(atlas, l) = mips[l].scale
  BY DEF Scale
<1>8. IsClosest(c, LevelFor(c)) <=>
        IF \E l \in 0..N : Needs(c, Scale(atlas, l))
        THEN /\ Needs(c, Scale(atlas, LevelFor(c)))
             /\ \A l \in 0..N : Needs(c, Scale(atlas, l)) =>
                  Scale(atlas, LevelFor(c)) <= Scale(atlas, l)
        ELSE Scale(atlas, LevelFor(c)) = Unit
  BY DEF IsClosest
<1> HIDE DEF atlas, N
<1>9. CASE enough = {}
  <2>1. LevelFor(c) = 0
    BY <1>6, <1>9
  <2>2. \A l \in 0..N : Needs(c, Scale(atlas, l)) => l = 0
    <3>1. \A l \in 1..N : ~Needs(c, Scale(atlas, l))
      BY <1>4, <1>7, <1>9
    <3> QED
      BY <1>4, <3>1
  <2> QED
    BY <1>5, <1>7, <1>8, <2>1, <2>2
<1>10. CASE enough # {}
  <2>1. enough \in SUBSET Nat
    BY <1>4
  <2> HIDE DEF enough
  <2>2. \E i \in enough : \A j \in enough : i <= j
    BY <1>10, <2>1, Least
  <2>3. LevelFor(c) \in enough /\ \A j \in enough : LevelFor(c) <= j
    BY <1>6, <1>10, <2>2
  <2> DEFINE level == LevelFor(c)
  <2> HIDE DEF level
  <2>4. level \in 1..N /\ Needs(c, mips[level].scale)
    BY <1>4, <2>3 DEF enough, level
  <2>5. ASSUME NEW l \in 0..N, Needs(c, Scale(atlas, l))
        PROVE  mips[level].scale <= Scale(atlas, l)
    <3>1. CASE l = 0
      <4>1. mips[level].scale \in Nat /\ mips[level].scale < Unit
        BY <1>2, <1>3, <1>4, <2>4
      <4> QED
        BY <1>5, <1>7, <3>1, <4>1
    <3>2. CASE l # 0
      <4>1. l \in 1..N
        BY <1>4, <3>2
      <4>2. l \in enough
        BY <1>4, <1>7, <2>5, <4>1 DEF enough
      <4>3. level <= l
        BY <2>3, <4>2 DEF level
      <4> QED
        BY <1>3, <1>4, <1>7, <2>4, <4>1, <4>3
    <3> QED
      BY <3>1, <3>2
  <2>6. Scale(atlas, level) = mips[level].scale /\ level \in 0..N
    BY <1>4, <1>7, <2>4
  <2> HIDE DEF mips
  <2> QED
    BY <1>4, <1>8, <2>4, <2>5, <2>6 DEF level
<1> QED
  BY <1>9, <1>10

-----------------------------------------------------------------------------
(* The batches of a frame. *)

\* Batches whose sprites have the atlas and the density of their batch.
Batches ==
  {b \in [atlas : Nat, level : Nat, commands : Seq(Commands)] :
     \A j \in DOMAIN b.commands : LET c == b.commands[j] IN
       c.type = "sprite" => c.atlas = b.atlas /\ b.level = LevelFor(c)}

CommandsOf(batches) == [i \in DOMAIN batches |-> batches[i].commands]

\* What draw_frame does with the next command.
Drawn(batches, c) ==
  IF batches # <<>> /\ Joins(Last(batches), c)
  THEN [batches EXCEPT ![Len(batches)].commands = Append(@, c)]
  ELSE Append(batches, Batch(c))

\* Some sequences, the last of which grows.
Grown(ss, x) == [ss EXCEPT ![Len(ss)] = Append(@, x)]

\* Appending to the last of some sequences appends to what they are together.
LEMMA FlattenGrown ==
  ASSUME NEW X, NEW ss \in Seq(Seq(X)), ss # <<>>, NEW x \in X
  PROVE  /\ Grown(ss, x) \in Seq(Seq(X))
         /\ FlattenSeq(Grown(ss, x)) = Append(FlattenSeq(ss), x)
<1> DEFINE N == Len(ss)
           tt == Grown(ss, x)
           front == SubSeq(ss, 1, N - 1)
           last == ss[N]
<1>1. N \in Nat \ {0} /\ last \in Seq(X) /\ ss \in [1..N -> Seq(X)]
  BY LenProperties, EmptySeq, ElementOfSeq
<1>2. /\ front \in Seq(Seq(X)) /\ Len(front) = N - 1
      /\ \A i \in 1..(N - 1) : front[i] = ss[i]
  BY <1>1
<1>3. Append(last, x) \in Seq(X) /\ <<x>> \in Seq(X) /\ Append(last, x) = last \o <<x>>
  BY <1>1
<1>4. tt \in Seq(Seq(X)) /\ Len(tt) = N
      /\ tt[N] = Append(last, x) /\ \A i \in 1..(N - 1) : tt[i] = ss[i]
  <2>1. tt = [ss EXCEPT ![N] = Append(last, x)]
    BY DEF Grown
  <2>2. tt = [i \in 1..N |-> IF i = N THEN Append(last, x) ELSE ss[i]]
    BY <1>1, <2>1
  <2> HIDE DEF front, last, N, tt
  <2>3. tt \in [1..N -> Seq(X)]
    BY <1>1, <1>3, <2>2
  <2>4. tt \in Seq(Seq(X)) /\ Len(tt) = N
    BY <1>1, <2>3, SequenceOf
  <2>5. tt[N] = Append(last, x) /\ \A i \in 1..(N - 1) : tt[i] = ss[i]
    <3>1. N \in 1..N /\ \A i \in 1..(N - 1) : i \in 1..N /\ i # N
      BY <1>1
    <3>2. \A i \in 1..N : tt[i] = IF i = N THEN Append(last, x) ELSE ss[i]
      BY <2>2
    <3> QED
      BY <3>1, <3>2
  <2> QED
    BY <2>4, <2>5
<1> HIDE DEF front, last, N, tt
<1>5. ss = Append(front, last) /\ tt = Append(front, Append(last, x))
  <2>1. ss \in Seq(Seq(X)) /\ Len(ss) = N /\ ss[N] = last
    BY DEF N, last
  <2>2. /\ Append(front, last) \in Seq(Seq(X)) /\ Len(Append(front, last)) = N
        /\ Append(front, last)[N] = last
        /\ \A i \in 1..(N - 1) : Append(front, last)[i] = ss[i]
    BY <1>1, <1>2, AppendProperties
  <2>3. /\ Append(front, Append(last, x)) \in Seq(Seq(X))
        /\ Len(Append(front, Append(last, x))) = N
        /\ Append(front, Append(last, x))[N] = Append(last, x)
        /\ \A i \in 1..(N - 1) : Append(front, Append(last, x))[i] = ss[i]
    BY <1>1, <1>2, <1>3, AppendProperties
  <2>4. \A i \in 1..N : i = N \/ i \in 1..(N - 1)
    BY <1>1
  <2>5. ss = Append(front, last)
    BY <2>1, <2>2, <2>4, SeqEqual
  <2>6. tt = Append(front, Append(last, x))
    <3> DEFINE u == Append(front, Append(last, x))
    <3>1. /\ u \in Seq(Seq(X)) /\ Len(u) = N /\ u[N] = Append(last, x)
          /\ \A i \in 1..(N - 1) : u[i] = ss[i]
      BY <2>3
    <3> HIDE DEF u
    <3>2. \A i \in 1..N : tt[i] = u[i]
      BY <1>4, <2>4, <3>1
    <3>3. tt = u
      BY <1>4, <3>1, <3>2, SeqEqual
    <3> QED
      BY <3>3 DEF u
  <2> QED
    BY <2>5, <2>6
<1>6. /\ FlattenSeq(front) \in Seq(X)
      /\ FlattenSeq(ss) = FlattenSeq(front) \o last
      /\ FlattenSeq(tt) = FlattenSeq(front) \o Append(last, x)
  <2>1. ASSUME NEW s \in Seq(X)
        PROVE  FlattenSeq(front) \in Seq(X)
               /\ FlattenSeq(Append(front, s)) = FlattenSeq(front) \o s
    BY <1>2, FlattenAppended
  <2>2. last \in Seq(X) /\ Append(last, x) \in Seq(X)
    BY <1>1, <1>3
  <2> QED
    BY <1>5, <2>1, <2>2
<1>7. FlattenSeq(front) \o Append(last, x) = Append(FlattenSeq(front) \o last, x)
  BY <1>1, <1>6
<1> QED
  BY <1>4, <1>6, <1>7 DEF tt

\* The next command keeps the batches faithful, and is drawn after the others.
LEMMA DrawnIsFaithful ==
  ASSUME package \in Packages, LoadPackage(package),
         NEW batches \in Seq(Batches), NEW c \in Commands
  PROVE  /\ Drawn(batches, c) \in Seq(Batches)
         /\ FlattenSeq(CommandsOf(Drawn(batches, c))) =
              Append(FlattenSeq(CommandsOf(batches)), c)
<1> DEFINE N == Len(batches)
           b == batches[N]
           ss == CommandsOf(batches)
<1>1. N \in Nat /\ DOMAIN batches = 1..N /\ \A i \in 1..N : batches[i] \in Batches
  BY LenProperties, ElementOfSeq
<1>2. ss \in Seq(Seq(Commands)) /\ Len(ss) = N /\ \A i \in 1..N : ss[i] = batches[i].commands
  <2>1. ss = [i \in 1..N |-> batches[i].commands]
    BY <1>1 DEF CommandsOf
  <2>2. \A i \in 1..N : batches[i].commands \in Seq(Commands)
    BY <1>1 DEF Batches
  <2>3. ss \in [1..N -> Seq(Commands)]
    BY <2>1, <2>2
  <2> QED
    BY <1>1, <2>1, <2>3, SequenceOf
<1>3. CASE batches # <<>> /\ Joins(Last(batches), c)
  <2> DEFINE grown == [b EXCEPT !.commands = Append(@, c)]
  <2>1. N \in 1..N /\ b \in Batches /\ Joins(b, c)
    BY <1>1, <1>3, EmptySeq DEF Last
  <2>2. Drawn(batches, c) = [batches EXCEPT ![N] = grown]
    BY <1>3 DEF Drawn
  <2>3. /\ grown.commands = Append(b.commands, c)
        /\ grown \in Batches
    <3>1. b.commands \in Seq(Commands) /\ b \in [atlas : Nat, level : Nat, commands : Seq(Commands)]
      BY <2>1 DEF Batches
    <3>2. /\ Append(b.commands, c) \in Seq(Commands)
          /\ Len(Append(b.commands, c)) = Len(b.commands) + 1
          /\ Append(b.commands, c)[Len(b.commands) + 1] = c
          /\ \A j \in 1..Len(b.commands) : Append(b.commands, c)[j] = b.commands[j]
      BY <3>1, AppendProperties
    <3>3. grown \in [atlas : Nat, level : Nat, commands : Seq(Commands)]
          /\ grown.atlas = b.atlas /\ grown.level = b.level
          /\ grown.commands = Append(b.commands, c)
      BY <3>1, <3>2
    <3> HIDE DEF grown
    <3>4. ASSUME NEW j \in DOMAIN grown.commands, grown.commands[j].type = "sprite"
          PROVE  /\ grown.commands[j].atlas = grown.atlas
                 /\ grown.level = LevelFor(grown.commands[j])
      <4>1. Len(b.commands) \in Nat /\ DOMAIN b.commands = 1..Len(b.commands)
            /\ j \in 1..(Len(b.commands) + 1)
        BY <3>1, <3>2, <3>3, <3>4, LenProperties
      <4>2. CASE j = Len(b.commands) + 1
        BY <2>1, <3>2, <3>3, <4>2 DEF Joins
      <4>3. CASE j # Len(b.commands) + 1
        <5>1. j \in 1..Len(b.commands)
          BY <4>1, <4>3
        <5>2. grown.commands[j] = b.commands[j]
          BY <3>2, <3>3, <5>1
        <5>3. b.commands[j].type = "sprite" =>
                b.commands[j].atlas = b.atlas /\ b.level = LevelFor(b.commands[j])
          BY <2>1, <4>1, <5>1 DEF Batches
        <5> QED
          BY <3>3, <3>4, <5>2, <5>3
      <4> QED
        BY <4>2, <4>3
    <3> QED
      BY <3>3, <3>4 DEF Batches
  <2> HIDE DEF grown, b
  <2>4. Drawn(batches, c) \in [1..N -> Batches]
    <3>1. batches \in [1..N -> Batches]
      BY <1>1
    <3> QED
      BY <2>1, <2>2, <2>3, <3>1
  <2>5. CommandsOf(Drawn(batches, c)) = [ss EXCEPT ![N] = Append(@, c)]
    <3>1. CommandsOf(Drawn(batches, c)) =
            [i \in 1..N |-> IF i = N THEN Append(b.commands, c) ELSE batches[i].commands]
      BY <1>1, <2>1, <2>2, <2>3 DEF CommandsOf
    <3>2. ss = [i \in 1..N |-> batches[i].commands]
      BY <1>1 DEF CommandsOf
    <3>3. ss[N] = b.commands
      BY <1>2, <2>1 DEF b
    <3> QED
      BY <2>1, <3>1, <3>2, <3>3
  <2>6. ss # <<>>
    BY <1>1, <1>2, <2>1, EmptySeq
  <2> HIDE DEF N, ss
  <2>7. CommandsOf(Drawn(batches, c)) = Grown(ss, c)
    BY <1>2, <2>5 DEF Grown
  <2>8. FlattenSeq(CommandsOf(Drawn(batches, c))) = Append(FlattenSeq(ss), c)
    BY <1>2, <2>6, <2>7, FlattenGrown
  <2>9. Drawn(batches, c) \in Seq(Batches)
    BY <1>1, <2>4, SequenceOf
  <2> QED
    BY <2>8, <2>9 DEF ss
<1>4. CASE ~(batches # <<>> /\ Joins(Last(batches), c))
  <2>1. Drawn(batches, c) = Append(batches, Batch(c))
    BY <1>4 DEF Drawn
  <2>2. Batch(c) \in Batches /\ Batch(c).commands = <<c>>
    <3>1. <<c>> \in Seq(Commands) /\ DOMAIN <<c>> = {1} /\ <<c>>[1] = c
      OBVIOUS
    <3>2. CASE c.type = "sprite"
      <4>1. Batch(c) = [atlas |-> c.atlas, level |-> LevelFor(c), commands |-> <<c>>]
        BY <3>2 DEF Batch
      <4>2. LevelFor(c) \in Nat /\ c.atlas \in Nat
        BY <3>2, LevelIsClosest DEF Commands, AnySprite, AnyBox
      <4> QED
        BY <3>1, <4>1, <4>2 DEF Batches
    <3>3. CASE c.type # "sprite"
      <4>1. Batch(c) = [atlas |-> 0, level |-> 0, commands |-> <<c>>]
        BY <3>3 DEF Batch
      <4> QED
        BY <3>1, <3>3, <4>1 DEF Batches
    <3> QED
      BY <3>2, <3>3
  <2>3. /\ Append(batches, Batch(c)) \in Seq(Batches)
        /\ DOMAIN Append(batches, Batch(c)) = 1..(N + 1)
        /\ Append(batches, Batch(c))[N + 1] = Batch(c)
        /\ \A i \in 1..N : Append(batches, Batch(c))[i] = batches[i]
    BY <2>2, AppendProperties, LenProperties
  <2>4. CommandsOf(Append(batches, Batch(c))) = Append(ss, <<c>>)
    <3> DEFINE tt == CommandsOf(Append(batches, Batch(c)))
    <3>1. tt = [i \in 1..(N + 1) |-> Append(batches, Batch(c))[i].commands]
      BY <2>3 DEF CommandsOf
    <3>2. tt[N + 1] = <<c>> /\ \A i \in 1..N : tt[i] = ss[i]
      <4>1. N + 1 \in 1..(N + 1) /\ \A i \in 1..N : i \in 1..(N + 1)
        BY <1>1
      <4> QED
        BY <1>2, <2>2, <2>3, <3>1, <4>1
    <3>3. tt \in [1..(N + 1) -> Seq(Commands)]
      <4>1. \A i \in 1..(N + 1) : Append(batches, Batch(c))[i].commands \in Seq(Commands)
        BY <2>3, ElementOfSeq, LenProperties DEF Batches
      <4> QED
        BY <3>1, <4>1
    <3> HIDE DEF tt, ss, N
    <3>4. tt \in Seq(Seq(Commands)) /\ Len(tt) = N + 1
      BY <1>1, <3>3, SequenceOf
    <3>5. <<c>> \in Seq(Commands)
      OBVIOUS
    <3>6. /\ Append(ss, <<c>>) \in Seq(Seq(Commands)) /\ Len(Append(ss, <<c>>)) = N + 1
          /\ Append(ss, <<c>>)[N + 1] = <<c>> /\ \A i \in 1..N : Append(ss, <<c>>)[i] = ss[i]
      BY <1>2, <3>5, AppendProperties
    <3>7. \A i \in 1..(N + 1) : i = N + 1 \/ i \in 1..N
      BY <1>1
    <3> DEFINE u == Append(ss, <<c>>)
    <3> HIDE DEF u
    <3>8. /\ u \in Seq(Seq(Commands)) /\ Len(u) = N + 1
          /\ \A i \in 1..(N + 1) : tt[i] = u[i]
      BY <3>2, <3>6, <3>7 DEF u
    <3>9. tt = u
      BY <3>4, <3>8, SeqEqual
    <3> QED
      BY <3>9 DEF tt, u
  <2>5. FlattenSeq(Append(ss, <<c>>)) = FlattenSeq(ss) \o <<c>> /\ FlattenSeq(ss) \in Seq(Commands)
    <3>1. <<c>> \in Seq(Commands)
      OBVIOUS
    <3> HIDE DEF ss
    <3> QED
      BY <1>2, <3>1, FlattenAppended
  <2>6. FlattenSeq(ss) \o <<c>> = Append(FlattenSeq(ss), c)
    BY <2>5
  <2> QED
    BY <2>1, <2>3, <2>4, <2>5, <2>6
<1> QED
  BY <1>3, <1>4

\* A frame is drawn command by command, as Drawn says.
LEMMA FrameIsFaithful ==
  ASSUME package \in Packages, LoadPackage(package), NEW commands \in Seq(Commands)
  PROVE  /\ DrawFrame(commands) \in Seq(Batches)
         /\ FlattenSeq(CommandsOf(DrawFrame(commands))) = commands
<1> DEFINE Folds(f) == f = [s \in SUBSET DOMAIN commands |->
                              IF s = {} THEN <<>>
                              ELSE Drawn(f[s \ {Max(s)}], commands[Max(s)])]
           N == Len(commands)
           T == Seq(Batches)
           Flat(batches) == FlattenSeq(CommandsOf(batches))
           drawn == DrawFrame(commands)
           steps == [n \in 1..N |-> [d \in T |-> Drawn(d, commands[n])]]
<1>1. drawn = (CHOOSE f : Folds(f))[DOMAIN commands]
  BY DEF DrawFrame, FoldLeft, MapThenFoldSet, Drawn
<1>2. N \in Nat /\ DOMAIN commands = 1..N /\ \A n \in 1..N : commands[n] \in Commands
  BY LenProperties, ElementOfSeq
<1>3. <<>> \in T /\ Flat(<<>>) = <<>>
  <2>1. <<>> \in T
    BY EmptySeq
  <2>2. CommandsOf(<<>>) = <<>>
    BY DEF CommandsOf
  <2>3. FlattenSeq(<<>>) = <<>>
    BY EmptySeq DEF FlattenSeq
  <2> QED
    BY <2>1, <2>2, <2>3
<1>4. ASSUME NEW n \in 1..N, NEW d \in T
      PROVE  Drawn(d, commands[n]) \in T /\ Flat(Drawn(d, commands[n])) = Append(Flat(d), commands[n])
  BY <1>2, DrawnIsFaithful
<1> HIDE DEF N, T, Flat, drawn
<1>5. steps \in Steps(N, T)
  BY <1>4 DEF Steps
<1>6. PICK g : FoldsSets(g, N, T, <<>>, steps)
  <2> HIDE DEF steps
  <2> QED
    BY <1>2, <1>3, <1>5, Folding
<1>7. \A s \in SUBSET (1..N) : s # {} => Max(s) \in 1..N
  BY <1>2, Greatest
<1>8. Folds(g)
  <2>1. g = [s \in SUBSET (1..N) |-> g[s]]
    BY <1>6 DEF FoldsSets
  <2>2. ASSUME NEW s \in SUBSET (1..N), s # {}
        PROVE  g[s] = Drawn(g[s \ {Max(s)}], commands[Max(s)])
    <3>1. g[s] = steps[Max(s)][g[s \ {Max(s)}]] /\ g[s \ {Max(s)}] \in T
      BY <1>6, <2>2 DEF FoldsSets
    <3>2. Max(s) \in 1..N
      BY <1>7, <2>2
    <3> QED
      BY <3>1, <3>2
  <2>3. g[{}] = <<>>
    BY <1>6 DEF FoldsSets
  <2> QED
    BY <1>2, <2>1, <2>2, <2>3
<1>9. Folds(CHOOSE f : Folds(f))
  <2> HIDE DEF Folds
  <2> QED
    BY <1>8
<1> DEFINE h == CHOOSE f : Folds(f)
<1> HIDE DEF h
<1>10. /\ h[1..0] = <<>>
       /\ \A n \in 1..N : h[1..n] = Drawn(h[1..(n - 1)], commands[n])
  <2>1. \A s \in SUBSET (1..N) :
          h[s] = IF s = {} THEN <<>> ELSE Drawn(h[s \ {Max(s)}], commands[Max(s)])
    BY <1>2, <1>9 DEF h
  <2>2. h[1..0] = <<>>
    <3>1. 1..0 = {}
      OBVIOUS
    <3> QED
      BY <2>1, <3>1
  <2>3. ASSUME NEW n \in 1..N PROVE h[1..n] = Drawn(h[1..(n - 1)], commands[n])
    <3>1. 1..n \in SUBSET (1..N) /\ n \in 1..n /\ (1..n) \ {n} = 1..(n - 1) /\ n \in Nat
      BY <1>2
    <3>2. Max(1..n) \in 1..n /\ Max(1..n) >= n
      BY <3>1, Greatest
    <3>3. Max(1..n) = n /\ 1..n # {}
      BY <3>1, <3>2
    <3> QED
      BY <2>1, <3>1, <3>3
  <2> QED
    BY <2>2, <2>3
<1> DEFINE Faithful(n) == h[1..n] \in T /\ Flat(h[1..n]) = SubSeq(commands, 1, n)
           Failed == {n \in 0..N : ~Faithful(n)}
<1>11. Failed = {}
  <2> SUFFICES ASSUME Failed # {} PROVE FALSE
    OBVIOUS
  <2>1. Failed \in SUBSET Nat
    BY <1>2
  <2> HIDE DEF Failed
  <2>2. PICK n \in Failed : \A j \in Failed : n <= j
    BY <2>1, Least
  <2> USE DEF Failed
  <2>3. n # 0
    <3>1. SubSeq(commands, 1, 0) = <<>>
      OBVIOUS
    <3> QED
      BY <1>3, <1>10, <2>2, <3>1
  <2>4. n \in 1..N /\ n - 1 \in 0..N /\ n - 1 \notin Failed
    BY <1>2, <2>2, <2>3
  <2>5. Faithful(n - 1)
    BY <2>4
  <2>6. SubSeq(commands, 1, n) = Append(SubSeq(commands, 1, n - 1), commands[n])
    <3> DEFINE s == SubSeq(commands, 1, n)
               t == SubSeq(commands, 1, n - 1)
    <3>1. n \in Nat /\ n - 1 \in Nat /\ n <= Len(commands)
      BY <1>2, <2>4 DEF N
    <3>2. s \in Seq(Commands) /\ Len(s) = n /\ \A k \in 1..n : s[k] = commands[k]
      BY <3>1
    <3>3. t \in Seq(Commands) /\ Len(t) = n - 1 /\ \A k \in 1..(n - 1) : t[k] = commands[k]
      BY <3>1
    <3> HIDE DEF s, t
    <3>4. /\ Append(t, commands[n]) \in Seq(Commands) /\ Len(Append(t, commands[n])) = n
          /\ \A k \in 1..n : Append(t, commands[n])[k] = commands[k]
      <4>1. commands[n] \in Commands
        BY <1>2, <2>4
      <4>2. /\ Append(t, commands[n]) \in Seq(Commands) /\ Len(Append(t, commands[n])) = n
            /\ Append(t, commands[n])[n] = commands[n]
            /\ \A k \in 1..(n - 1) : Append(t, commands[n])[k] = t[k]
        BY <3>1, <3>3, <4>1, AppendProperties
      <4>3. \A k \in 1..n : k = n \/ k \in 1..(n - 1)
        BY <3>1
      <4> QED
        BY <3>3, <4>2, <4>3
    <3> DEFINE u == Append(t, commands[n])
    <3> HIDE DEF u
    <3>5. u \in Seq(Commands) /\ Len(u) = n /\ \A k \in 1..n : s[k] = u[k]
      BY <3>2, <3>4 DEF u
    <3>6. s = u
      BY <3>2, <3>5, SeqEqual
    <3> QED
      BY <3>6 DEF s, t, u
  <2>7. Faithful(n)
    BY <1>4, <1>10, <2>4, <2>5, <2>6
  <2> QED
    BY <2>2, <2>7
<1>12. drawn = h[1..N] /\ Faithful(N)
  <2>1. \A n \in 0..N : Faithful(n)
    BY <1>11
  <2> HIDE DEF Faithful
  <2> QED
    BY <1>1, <1>2, <2>1 DEF h
<1>13. SubSeq(commands, 1, N) = commands
  BY DEF N
<1> QED
  BY <1>12, <1>13 DEF T, Flat, drawn

-----------------------------------------------------------------------------
(* The invariant and what follows from it. *)

LEMMA CallsKeep == SurfaceInv /\ Call => SurfaceInv'
  BY BoxesKeep, CirclesKeep, SpritesKeep, BatchesKeep, TilemapsKeep DEF Call

LEMMA FramesKeep ==
  ASSUME SurfaceInv, Load \/ UpdateEnds \/ Update \/ Render \/ RenderEnds \/ UNCHANGED vars
  PROVE  SurfaceInv'
<1> USE DEF SurfaceInv, Running
<1>1. package' = package
  BY DEF Load, UpdateEnds, Update, Render, RenderEnds, vars
<1>2. Commands' = Commands
  BY <1>1 DEF Commands, IsInside, assets, surface
<1>3. drawing' = drawing \/ drawing' = <<>>
  BY DEF Load, UpdateEnds, Update, Render, RenderEnds, vars
<1>4. drawing' \in Seq(Commands) /\ Len(drawing') <= MaximumDrawCommands
  <2>1. drawing \in Seq(Commands) /\ Len(drawing) <= MaximumDrawCommands
    OBVIOUS
  <2>2. CASE drawing' = drawing
    BY <2>1, <2>2
  <2>3. CASE drawing' = <<>>
    <3>1. <<>> \in Seq(Commands) /\ Len(<<>>) = 0
      BY EmptySeq
    <3>2. 0 <= MaximumDrawCommands
      BY SurfaceAssumption
    <3> QED
      BY <2>3, <3>1, <3>2
  <2> QED
    BY <1>3, <2>2, <2>3
<1>5. /\ tick' \in Nat /\ mode' \in {"off", "update", "render", "shown", "dead"}
      /\ mode' \notin {"off", "dead"} => LoadPackage(package)
  BY DEF Load, UpdateEnds, Update, Render, RenderEnds, vars
<1> QED
  BY <1>1, <1>2, <1>4, <1>5

LEMMA SurfaceInvariant == Spec => []SurfaceInv
<1>1. Init => SurfaceInv
  BY EmptySeq, SurfaceAssumption DEF Init, SurfaceInv, Running
<1>2. SurfaceInv /\ [Next]_vars => SurfaceInv'
  BY CallsKeep, FramesKeep DEF Next
<1> QED
  BY <1>1, <1>2, PTL DEF Spec

\* Whatever a script draws, with any arguments, in any order and whichever of
\* its calls fail half way, no frame outgrows its limit, no sprite is cut from
\* outside its atlas and no box that ints can hold leaves the surface.
THEOREM NothingIsOutside == Spec => []NothingOutside
<1>1. SurfaceInv => NothingOutside
  <2> SUFFICES ASSUME SurfaceInv PROVE NothingOutside
    OBVIOUS
  <2>1. \A i \in DOMAIN drawing : drawing[i] \in Commands
    BY ElementOfSeq, LenProperties DEF SurfaceInv
  <2> QED
    BY <2>1 DEF NothingOutside, SurfaceInv, Commands, IsInside
<1> QED
  BY <1>1, SurfaceInvariant, PTL

\* Whatever the tile set, the row, the columns, the origin and the scale, the
\* tiles that one call submits share no pixel, and those of a map that is drawn
\* whole, with none skipped, cover all of its pixels and no others.
THEOREM MapsAreTiled == Spec => []TilesFillTheirMap
<1>1. SurfaceInv => TilesFillTheirMap
  <2> SUFFICES ASSUME SurfaceInv, Running, package.has_assets,
                      NEW i \in DOMAIN assets.tile_sets, NEW row \in TileRows,
                      NEW columns \in Columns, NEW origin \in Origins,
                      NEW scale \in Scales, NEW skip \in Skips, IsMap(row, columns),
                      NEW x \in 0 .. surface.x - 1, NEW y \in 0 .. surface.y - 1
               PROVE  LET tile == assets.tile_sets[i].tile
                          drawn == Tiles(assets.tile_sets[i], row, columns, origin, scale, skip)
                          cells == XY(columns, Len(row) \div columns)
                          map == [at |-> [a \in Axes |-> Round(origin[a], Unit)],
                                  end |-> [a \in Axes |->
                                             Round(origin[a] + cells[a] * tile[a] * scale, Unit)]]
                          pixel == XY(x, y)
                          here == {n \in DOMAIN drawn.commands : Covers(drawn.commands[n], pixel)}
                      IN  /\ \A m, n \in here : m = n
                          /\ drawn.ok /\ (\A n \in DOMAIN row : row[n] # skip) =>
                               (here # {} <=> \A a \in Axes :
                                   map.at[a] <= pixel[a] /\ pixel[a] < map.end[a])
    BY DEF TilesFillTheirMap
  <2> DEFINE tile == assets.tile_sets[i].tile
             drawn == Tiles(assets.tile_sets[i], row, columns, origin, scale, skip)
             lines == Len(row) \div columns
             cells == XY(columns, lines)
             pixel == XY(x, y)
             c(n) == TileAt(assets.tile_sets[i], row, columns, origin, scale, n)
             here == {n \in DOMAIN drawn.commands : Covers(drawn.commands[n], pixel)}
             InMap == \A a \in Axes : /\ Edge(origin[a], 0, tile[a], scale) <= pixel[a]
                                      /\ pixel[a] < Edge(origin[a], cells[a], tile[a], scale)
  <2>1. Loaded /\ AssetsAreValid(assets)
    BY LoadedAssets DEF SurfaceInv
  <2>2. /\ row \in Seq(Nat) /\ columns \in Nat \ {0} /\ Len(row) % columns = 0
        /\ origin \in Point /\ scale \in Nat /\ Room \in Nat
        /\ Len(row) \in Nat /\ DOMAIN row = 1..Len(row)
    <3>1. Len(drawing) \in Nat /\ MaximumDrawCommands \in Nat /\ Len(drawing) <= MaximumDrawCommands
      BY SurfaceAssumption, LenProperties DEF SurfaceInv
    <3>2. row \in Seq(Nat) /\ Len(row) \in Nat /\ DOMAIN row = 1..Len(row)
      BY SurfaceAssumption, LenProperties
    <3> QED
      BY <3>1, <3>2, SurfaceAssumption DEF Point, Room, IsMap
  <2>3. pixel \in Point
    BY DEF Point, XY
  <2>4. drawn \in TileResults /\ DrawnSoFar(drawn, Len(row), skip, row, c)
    BY <2>1, <2>2, MapIsDrawn
  <2>5. (\E n \in 1..Len(row) : Covers(c(n), pixel)) <=> InMap
    <3> HIDE DEF pixel
    <3> QED
      BY <2>1, <2>2, <2>3, TilesCoverTheMap
  <2> HIDE DEF drawn, c, pixel
  <2>6. \A m, n \in here : m = n
    BY <2>3, <2>4 DEF DrawnSoFar
  <2>7. ASSUME drawn.ok, \A n \in DOMAIN row : row[n] # skip
        PROVE  here # {} <=> InMap
    <3>1. /\ \A j \in DOMAIN drawn.commands : \E m \in 1..Len(row) : drawn.commands[j] = c(m)
          /\ \A m \in 1..Len(row) : \E j \in DOMAIN drawn.commands : drawn.commands[j] = c(m)
      BY <2>2, <2>4, <2>7 DEF DrawnSoFar
    <3>2. here # {} <=> \E n \in 1..Len(row) : Covers(c(n), pixel)
      BY <3>1
    <3> QED
      BY <2>5, <3>2
  <2>8. ASSUME NEW a \in Axes
        PROVE  /\ Edge(origin[a], 0, tile[a], scale) = Round(origin[a], Unit)
               /\ Edge(origin[a], cells[a], tile[a], scale) =
                    Round(origin[a] + cells[a] * tile[a] * scale, Unit)
    <3>1. tile[a] \in 1 .. MaxTile /\ MaxTile \in Nat /\ origin[a] \in Int
      BY <2>1, <2>2, PackageAssumption DEF AssetsAreValid, TileSetIsValid, Point
    <3>2. origin[a] + 0 * tile[a] * scale = origin[a]
      BY <2>2, <3>1
    <3> QED
      BY <3>2 DEF Edge
  <2> QED
    BY <2>6, <2>7, <2>8 DEF drawn, pixel
<1> QED
  BY <1>1, SurfaceInvariant, PTL

\* At every tick and phase, however long the game runs, an animation shows the
\* frame that its film has there.
THEOREM AnimationsFollowTime == Spec => []AnimationFollowsTime
<1>1. SurfaceInv => AnimationFollowsTime
  <2> SUFFICES ASSUME SurfaceInv, Running, package.has_assets,
                      NEW i \in DOMAIN assets.animations, NEW phase \in Phases
               PROVE  LET animation == assets.animations[i]
                          film == Film(animation)
                          time == tick + phase
                      IN FrameAt(animation, time) =
                           IF animation.loop THEN film[(time % Len(film)) + 1]
                           ELSE IF time < Len(film) THEN film[time + 1] ELSE film[Len(film)]
    BY DEF AnimationFollowsTime
  <2>1. Loaded /\ AssetsAreValid(assets)
    BY LoadedAssets DEF SurfaceInv
  <2>2. /\ IsSequence(assets.animations[i].frames)
        /\ AnimationIsValid(assets.animations[i], assets.sprites)
    BY <2>1 DEF Loaded, AssetsAreRead, AssetsAreValid
  <2>3. tick + phase \in Nat
    BY SurfaceAssumption DEF SurfaceInv
  <2> QED
    BY <2>2, <2>3, AnimationShowsItsFilm
<1> QED
  BY <1>1, SurfaceInvariant, PTL

\* A frame is drawn as it was submitted, whatever was: every command once and in
\* its order, and every sprite from the closest density that is enough for it.
THEOREM FramesStayFaithful == Spec => FramesAreFaithful
<1> DEFINE Faithful(batches) ==
             /\ FlattenSeq([i \in DOMAIN batches |-> batches[i].commands]) = drawing
             /\ \A i \in DOMAIN batches : \A j \in DOMAIN batches[i].commands :
                  LET c == batches[i].commands[j] IN
                  c.type = "sprite" =>
                    c.atlas = batches[i].atlas /\ IsClosest(c, batches[i].level)
<1>1. ASSUME SurfaceInv, RenderEnds PROVE Faithful(shown')
  <2>1. /\ package \in Packages /\ LoadPackage(package)
        /\ drawing \in Seq(Commands) /\ shown' = DrawFrame(drawing)
    BY <1>1 DEF SurfaceInv, RenderEnds, Running
  <2>2. /\ shown' \in Seq(Batches)
        /\ FlattenSeq([i \in DOMAIN shown' |-> shown'[i].commands]) = drawing
    BY <2>1, FrameIsFaithful DEF CommandsOf
  <2>3. ASSUME NEW i \in DOMAIN shown', NEW j \in DOMAIN shown'[i].commands,
               shown'[i].commands[j].type = "sprite"
        PROVE  /\ shown'[i].commands[j].atlas = shown'[i].atlas
               /\ IsClosest(shown'[i].commands[j], shown'[i].level)
    <3> DEFINE batch == shown'[i]
               c == batch.commands[j]
    <3>1. batch \in Batches
      BY <2>2, LenProperties, ElementOfSeq
    <3> HIDE DEF batch
    <3>2. batch.commands \in Seq(Commands) /\ c \in Commands
      <4>1. batch.commands \in Seq(Commands) /\ j \in DOMAIN batch.commands
        BY <2>3, <3>1 DEF Batches, batch
      <4>2. j \in 1..Len(batch.commands)
        BY <4>1, LenProperties
      <4> QED
        BY <4>1, <4>2, ElementOfSeq
    <3>3. c.atlas = batch.atlas /\ batch.level = LevelFor(c)
      BY <2>3, <3>1 DEF Batches, batch
    <3>4. c.type = "sprite"
      BY <2>3 DEF batch
    <3> HIDE DEF c
    <3>5. IsClosest(c, LevelFor(c))
      BY <2>1, <3>2, <3>4, LevelIsClosest
    <3> QED
      BY <3>3, <3>5 DEF c, batch
  <2> QED
    BY <2>2, <2>3
<1>2. SurfaceInv => [RenderEnds => Faithful(shown')]_vars
  BY <1>1
<1> QED
  BY <1>2, SurfaceInvariant, PTL DEF FramesAreFaithful

=============================================================================

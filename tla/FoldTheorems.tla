---------------------------- MODULE FoldTheorems ----------------------------
(***************************************************************************)
(* What a fold over a sequence keeps and what it takes in, for any         *)
(* operation.  An instance of this module is the theory of one fold, with  *)
(* its operation for Op.  The community modules define a fold by recursion *)
(* over the parts of the domain; a set of numbers for P makes UpTo an      *)
(* induction.                                                              *)
(***************************************************************************)
EXTENDS Integers, SequencesExt, FiniteSetTheorems, SequenceTheorems,
        WellFoundedInduction, TLAPS

CONSTANT Op(_, _)

\* A set of numbers up to n has a last one.
THEOREM HasLast ==
  ASSUME NEW n \in Nat, NEW S \in SUBSET (1 .. n), S # {}
  PROVE  \E x \in S : \A y \in S : x >= y
<1>0. \A z \in S : z \in Nat
  <2>1. \A z \in 1 .. n : z \in Nat
    OBVIOUS
  <2>2. QED BY <2>1, Zenon
<1> DEFINE Above(x) == {y \in S : y > x}
           T == {Above(x) : x \in S}
<1>1. IsFiniteSet(S)
  <2>1. IsFiniteSet(1 .. n)
    BY FS_Interval
  <2>2. QED BY <2>1, FS_Subset
<1>2. T \subseteq FiniteSubsetsOf(S) /\ T # {}
  <2>1. \A x \in S : Above(x) \in SUBSET S
    OBVIOUS
  <2>2. FiniteSubsetsOf(S) = SUBSET S
    BY <1>1, FS_FiniteSubsetsOfFinite
  <2> HIDE DEF Above
  <2>3. T \subseteq SUBSET S
    BY <2>1, Zenon
  <2>4. T # {}
    <3>1. PICK x \in S : TRUE
      OBVIOUS
    <3>2. Above(x) \in T
      OBVIOUS
    <3>3. QED BY <3>2, Zenon
  <2>5. QED BY <2>2, <2>3, <2>4, Zenon
<1>3. PICK U \in T : \A V \in T : ~ (<<V, U>> \in StrictSubsetOrdering(S))
  <2>1. IsWellFoundedOn(StrictSubsetOrdering(S), FiniteSubsetsOf(S))
    BY FS_StrictSubsetOrderingWellFounded
  <2> HIDE DEF T
  <2>2. QED BY <1>2, <2>1, WFMin
<1>4. PICK x \in S : U = Above(x)
  OBVIOUS
<1>5. \A y \in S : x >= y
  <2>1. SUFFICES ASSUME NEW y \in S, y > x
                 PROVE  FALSE
    OBVIOUS
  <2>2. x \in Nat /\ y \in Nat /\ \A z \in S : z \in Nat
    BY <1>0, Zenon
  <2>3. Above(y) \subseteq Above(x) /\ y \in Above(x) /\ y \notin Above(y)
    <3>1. \A z \in S : z > y => z > x
      BY <2>1, <2>2
    <3>2. ~ (y > y)
      BY <2>2
    <3>3. QED BY <2>1, <3>1, <3>2, Zenon
  <2>4. Above(y) \in T /\ Above(y) \in SUBSET S /\ Above(x) \in SUBSET S
    OBVIOUS
  <2> HIDE DEF Above, T
  <2>5. <<Above(y), Above(x)>> \in StrictSubsetOrdering(S)
    BY <2>3, <2>4 DEF StrictSubsetOrdering
  <2>6. QED BY <1>3, <1>4, <2>4, <2>5
<1>6. QED BY <1>5

LEMMA LastPlace ==
  ASSUME NEW n \in Nat, NEW S \in SUBSET (1 .. n), S # {}
  PROVE  Max(S) \in S /\ \A x \in S : x <= Max(S)
<1>1. Max(S) \in S /\ \A x \in S : Max(S) >= x
  BY HasLast DEF Max
<1>2. \A x \in S : x \in Nat
  <2>1. \A x \in 1 .. n : x \in Nat
    OBVIOUS
  <2>2. QED BY <2>1, Zenon
<1>3. QED BY <1>1, <1>2

LEMMA LastIs ==
  ASSUME NEW n \in Nat, NEW S \in SUBSET (1 .. n), n \in S
  PROVE  Max(S) = n
<1>1. Max(S) \in S /\ n <= Max(S)
  BY LastPlace
<1>2. \A k \in 1 .. n : k <= n
  OBVIOUS
<1>3. Max(S) \in 1 .. n
  BY <1>1
<1>4. QED BY <1>1, <1>2, <1>3

\* What holds of 0 and is kept by one more holds up to n.
LEMMA UpTo ==
  ASSUME NEW n \in Nat, NEW P, 0 \in P, \A k \in 0 .. n : k < n /\ k \in P => k + 1 \in P
  PROVE  \A k \in 0 .. n : k \in P
<1> DEFINE T == {k \in 1 .. n : \A j \in 0 .. k : j \in P}
<1>1. CASE T = {}
  <2>1. SUFFICES ASSUME n # 0
                 PROVE  FALSE
    OBVIOUS
  <2>2. 1 \in P
    BY <2>1
  <2>3. 1 \in T
    BY <2>1, <2>2
  <2>4. QED BY <1>1, <2>3
<1>2. CASE T # {}
  <2> DEFINE m == Max(T)
  <2>1. m \in T /\ \A x \in T : x <= m
    BY <1>2, LastPlace
  <2> HIDE DEF m
  <2>2. m \in 1 .. n /\ \A j \in 0 .. m : j \in P
    BY <2>1
  <2>3. ASSUME m # n
        PROVE  FALSE
    <3>1. m + 1 \in P /\ m + 1 \in 1 .. n
      BY <2>2, <2>3
    <3>2. \A j \in 0 .. m + 1 : j \in 0 .. m \/ j = m + 1
      BY <2>2
    <3>3. m + 1 \in T
      BY <2>2, <3>1, <3>2
    <3>4. ~ (m + 1 <= m)
      BY <2>2
    <3>5. QED BY <2>1, <3>3, <3>4
  <2>4. QED BY <2>2, <2>3
<1>3. QED BY <1>1, <1>2

\* f folds Op over the elements of s at the places of any part of K.
Folds(base, s, K, f) ==
  \A S \in SUBSET K : f[S] = IF S = {} THEN base ELSE Op(f[S \ {Max(S)}], s[Max(S)])

\* Every operation has a fold.
LEMMA FoldExists ==
  ASSUME NEW A, NEW X, NEW base \in A, NEW s \in Seq(X),
         \A a \in A, x \in X : Op(a, x) \in A
  PROVE  \E f \in [SUBSET DOMAIN s -> A] : Folds(base, s, DOMAIN s, f)
<1> DEFINE P == {k \in 0 .. Len(s) :
                   \E f \in [SUBSET (1 .. k) -> A] : Folds(base, s, 1 .. k, f)}
<1>1. Len(s) \in Nat /\ DOMAIN s = 1 .. Len(s) /\ \A k \in 1 .. Len(s) : s[k] \in X
  OBVIOUS
<1>2. 0 \in P
  <2> DEFINE f == [S \in SUBSET (1 .. 0) |-> base]
  <2>1. 1 .. 0 = {}
    OBVIOUS
  <2>2. f \in [SUBSET (1 .. 0) -> A] /\ Folds(base, s, 1 .. 0, f)
    BY <2>1 DEF Folds
  <2>3. QED BY <1>1, <2>2
<1>3. ASSUME NEW k \in 0 .. Len(s), k < Len(s), k \in P
      PROVE  k + 1 \in P
  <2>1. PICK f \in [SUBSET (1 .. k) -> A] : Folds(base, s, 1 .. k, f)
    BY <1>3
  <2> DEFINE K == 1 .. k + 1
             h == [S \in SUBSET K |-> IF k + 1 \in S
                     THEN Op(f[S \ {k + 1}], s[k + 1]) ELSE f[S]]
  <2>2. k + 1 \in Nat /\ k + 1 \in 1 .. Len(s) /\ k + 1 \in 0 .. Len(s) /\ K \ {k + 1} = 1 .. k
    BY <1>1, <1>3
  <2>3. ASSUME NEW S \in SUBSET K
        PROVE  S \ {k + 1} \in SUBSET (1 .. k)
    BY <2>2
  <2>4. h \in [SUBSET K -> A]
    <3>1. s[k + 1] \in X
      BY <1>1, <2>2
    <3>2. ASSUME NEW S \in SUBSET K
          PROVE  (IF k + 1 \in S THEN Op(f[S \ {k + 1}], s[k + 1]) ELSE f[S]) \in A
      <4>1. k + 1 \notin S => S = S \ {k + 1}
        OBVIOUS
      <4>2. f[S \ {k + 1}] \in A
        BY <2>3
      <4>3. QED BY <3>1, <4>1, <4>2
    <3>3. QED BY <3>2
  <2>5. ASSUME NEW S \in SUBSET K, k + 1 \in S
        PROVE  h[S] = IF S = {} THEN base ELSE Op(h[S \ {Max(S)}], s[Max(S)])
    <3>1. Max(S) = k + 1
      BY <2>2, <2>5, LastIs
    <3>2. h[S \ {k + 1}] = f[S \ {k + 1}]
      OBVIOUS
    <3>3. h[S] = Op(f[S \ {k + 1}], s[k + 1])
      BY <2>5
    <3>4. QED BY <2>5, <3>1, <3>2, <3>3
  <2>6. ASSUME NEW S \in SUBSET K, k + 1 \notin S
        PROVE  h[S] = IF S = {} THEN base ELSE Op(h[S \ {Max(S)}], s[Max(S)])
    <3>1. S \in SUBSET (1 .. k)
      BY <2>3, <2>6
    <3>2. h[S] = f[S] /\ h[S \ {Max(S)}] = f[S \ {Max(S)}]
      BY <2>6
    <3>3. f[S] = IF S = {} THEN base ELSE Op(f[S \ {Max(S)}], s[Max(S)])
      BY <2>1, <3>1 DEF Folds
    <3>4. QED BY <3>2, <3>3
  <2> HIDE DEF h
  <2>7. Folds(base, s, K, h)
    BY <2>5, <2>6 DEF Folds
  <2>8. QED BY <2>2, <2>4, <2>7
<1>4. Len(s) \in P
  <2> HIDE DEF P
  <2>1. \A k \in 0 .. Len(s) : k \in P
    BY <1>1, <1>2, <1>3, UpTo
  <2>2. QED BY <1>1, <2>1
<1>5. QED BY <1>1, <1>4

Folded(base, s) == FoldLeft(Op, base, s)

\* g holds the results of a fold after every element.
Runs(base, s, g) == g[0] = base /\ \A n \in 1 .. Len(s) : g[n] = Op(g[n - 1], s[n])

\* A fold takes the elements of a sequence in order, one at a time.
THEOREM FoldLeftRuns ==
  ASSUME NEW A, NEW X, NEW base \in A, NEW s \in Seq(X),
         \A a \in A, x \in X : Op(a, x) \in A
  PROVE  \E g \in [0 .. Len(s) -> A] : Runs(base, s, g) /\ Folded(base, s) = g[Len(s)]
<1>1. PICK f \in [SUBSET DOMAIN s -> A] : Folds(base, s, DOMAIN s, f)
  BY FoldExists
<1>2. f = [S \in SUBSET DOMAIN s |->
             IF S = {} THEN base ELSE Op(f[S \ {Max(S)}], s[Max(S)])]
  BY <1>1 DEF Folds
<1>3. \E it : /\ it = [S \in SUBSET DOMAIN s |->
                         IF S = {} THEN base ELSE Op(it[S \ {Max(S)}], s[Max(S)])]
              /\ Folded(base, s) = it[DOMAIN s]
  BY <1>2, Zenon DEF Folded, FoldLeft, MapThenFoldSet
<1>4. PICK it :
        /\ it = [S \in SUBSET DOMAIN s |->
                   IF S = {} THEN base ELSE Op(it[S \ {Max(S)}], s[Max(S)])]
        /\ Folded(base, s) = it[DOMAIN s]
  BY <1>3
<1> DEFINE g == [n \in 0 .. Len(s) |-> it[1 .. n]]
<1>5. Len(s) \in Nat /\ DOMAIN s = 1 .. Len(s) /\ \A n \in 1 .. Len(s) : s[n] \in X
  OBVIOUS
<1>6. g[0] = base
  <2>1. 1 .. 0 = {} /\ 0 \in 0 .. Len(s)
    BY <1>5
  <2>2. it[{}] = base
    BY <1>4
  <2>3. QED BY <2>1, <2>2
<1>7. ASSUME NEW n \in 1 .. Len(s)
      PROVE  g[n] = Op(g[n - 1], s[n])
  <2>1. /\ n \in Nat /\ n \in 1 .. n /\ (1 .. n) \ {n} = 1 .. n - 1
        /\ 1 .. n \in SUBSET DOMAIN s /\ n - 1 \in 0 .. Len(s) /\ n \in 0 .. Len(s)
    BY <1>5
  <2>2. Max(1 .. n) = n
    BY <2>1, LastIs
  <2>3. it[1 .. n] = Op(it[(1 .. n) \ {Max(1 .. n)}], s[Max(1 .. n)])
    BY <1>4, <2>1
  <2>4. QED BY <2>1, <2>2, <2>3
<1>8. Folded(base, s) = g[Len(s)] /\ g = [n \in 0 .. Len(s) |-> g[n]]
  BY <1>4, <1>5
<1> HIDE DEF g
<1>9. \A n \in 0 .. Len(s) : g[n] \in A
  <2> DEFINE P == {n \in 0 .. Len(s) : g[n] \in A}
  <2>1. 0 \in P
    BY <1>5, <1>6
  <2>2. ASSUME NEW n \in 0 .. Len(s), n < Len(s), n \in P
        PROVE  n + 1 \in P
    <3>1. n + 1 \in 1 .. Len(s) /\ n + 1 \in 0 .. Len(s) /\ n + 1 - 1 = n
      BY <1>5, <2>2
    <3>2. g[n + 1] = Op(g[n], s[n + 1])
      BY <1>7, <3>1
    <3>3. QED BY <1>5, <2>2, <3>1, <3>2
  <2> HIDE DEF P
  <2>3. \A n \in 0 .. Len(s) : n \in P
    BY <1>5, <2>1, <2>2, UpTo
  <2>4. QED BY <2>3 DEF P
<1>10. g \in [0 .. Len(s) -> A]
  BY <1>8, <1>9
<1>11. QED BY <1>6, <1>7, <1>8, <1>10 DEF Runs

\* What every step keeps a fold keeps: A holds the results that have it.
THEOREM FoldLeftKeeps ==
  ASSUME NEW A, NEW X, NEW base \in A, NEW s \in Seq(X),
         \A a \in A, x \in X : Op(a, x) \in A
  PROVE  Folded(base, s) \in A
<1>1. PICK g \in [0 .. Len(s) -> A] : Folded(base, s) = g[Len(s)]
  BY FoldLeftRuns
<1>2. Len(s) \in 0 .. Len(s)
  OBVIOUS
<1>3. QED BY <1>1, <1>2

\* A fold takes in every element, if a step does with its own and undoes it
\* for none: R relates a result to the elements it has taken in.
THEOREM FoldLeftTakes ==
  ASSUME NEW A, NEW X, NEW R, NEW base \in A, NEW s \in Seq(X),
         \A a \in A, x \in X : Op(a, x) \in A,
         \A a \in A, x \in X : <<Op(a, x), x>> \in R,
         \A a \in A, x \in X, y \in X : <<a, y>> \in R => <<Op(a, x), y>> \in R
  PROVE  \A k \in DOMAIN s : <<Folded(base, s), s[k]>> \in R
<1>1. PICK g \in [0 .. Len(s) -> A] : Runs(base, s, g) /\ Folded(base, s) = g[Len(s)]
  BY FoldLeftRuns
<1> DEFINE P == {n \in 0 .. Len(s) : \A k \in 1 .. n : <<g[n], s[k]>> \in R}
<1>2. Len(s) \in Nat /\ DOMAIN s = 1 .. Len(s) /\ \A n \in 1 .. Len(s) : s[n] \in X
  OBVIOUS
<1>3. 0 \in P
  BY <1>2
<1>4. ASSUME NEW n \in 0 .. Len(s), n < Len(s), n \in P
      PROVE  n + 1 \in P
  <2>1. n + 1 \in 1 .. Len(s) /\ n + 1 \in 0 .. Len(s) /\ n + 1 - 1 = n
    BY <1>2, <1>4
  <2>2. g[n + 1] = Op(g[n], s[n + 1]) /\ g[n] \in A /\ s[n + 1] \in X
    BY <1>1, <1>2, <2>1 DEF Runs
  <2>3. ASSUME NEW k \in 1 .. n
        PROVE  <<g[n + 1], s[k]>> \in R
    <3>1. s[k] \in X /\ <<g[n], s[k]>> \in R
      BY <1>2, <1>4
    <3>2. QED BY <2>2, <3>1
  <2>4. \A k \in 1 .. n + 1 : k \in 1 .. n \/ k = n + 1
    OBVIOUS
  <2>5. <<g[n + 1], s[n + 1]>> \in R
    BY <2>2
  <2>6. QED BY <2>1, <2>3, <2>4, <2>5
<1> HIDE DEF P
<1>5. \A n \in 0 .. Len(s) : n \in P
  BY <1>2, <1>3, <1>4, UpTo
<1>6. Len(s) \in P
  BY <1>2, <1>5
<1>7. QED BY <1>1, <1>2, <1>6 DEF P

\* A fold whose steps change nothing changes nothing.
THEOREM FoldLeftRests ==
  ASSUME NEW base, NEW X, NEW s \in Seq(X), \A k \in DOMAIN s : Op(base, s[k]) = base
  PROVE  Folded(base, s) = base
<1> DEFINE Y == {s[k] : k \in DOMAIN s}
           A == {base}
<1>1. s \in Seq(Y)
  <2>1. Len(s) \in Nat /\ s \in [1 .. Len(s) -> X]
    OBVIOUS
  <2>2. s \in [1 .. Len(s) -> Y]
    BY <2>1
  <2>3. QED BY <2>1, <2>2, SeqDef
<1>2. base \in A /\ \A a \in A, y \in Y : Op(a, y) \in A
  OBVIOUS
<1> HIDE DEF Y, A
<1>3. Folded(base, s) \in A
  BY <1>1, <1>2, FoldLeftKeeps
<1>4. QED BY <1>3 DEF A

\* An element more is a step more.
THEOREM FoldLeftAppend ==
  ASSUME NEW A, NEW X, NEW base \in A, NEW s \in Seq(X), NEW z \in X,
         \A a \in A, x \in X : Op(a, x) \in A
  PROVE  Folded(base, Append(s, z)) = Op(Folded(base, s), z)
<1> DEFINE t == Append(s, z)
<1>1. /\ t \in Seq(X) /\ Len(s) \in Nat /\ Len(t) = Len(s) + 1 /\ t[Len(t)] = z
      /\ \A n \in 1 .. Len(s) : t[n] = s[n]
  OBVIOUS
<1> HIDE DEF t
<1>2. PICK g \in [0 .. Len(s) -> A] : Runs(base, s, g) /\ Folded(base, s) = g[Len(s)]
  BY FoldLeftRuns
<1>3. PICK h \in [0 .. Len(t) -> A] : Runs(base, t, h) /\ Folded(base, t) = h[Len(t)]
  BY <1>1, FoldLeftRuns
<1> DEFINE P == {n \in 0 .. Len(s) : g[n] = h[n]}
<1>4. 0 \in P
  BY <1>1, <1>2, <1>3 DEF Runs
<1>5. ASSUME NEW n \in 0 .. Len(s), n < Len(s), n \in P
      PROVE  n + 1 \in P
  <2>1. n + 1 \in 1 .. Len(s) /\ n + 1 \in 1 .. Len(t) /\ n + 1 \in 0 .. Len(s) /\ n + 1 - 1 = n
    BY <1>1, <1>5
  <2>2. g[n + 1] = Op(g[n], s[n + 1]) /\ h[n + 1] = Op(h[n], t[n + 1])
    BY <1>2, <1>3, <2>1 DEF Runs
  <2>3. g[n] = h[n] /\ t[n + 1] = s[n + 1]
    BY <1>1, <1>5, <2>1
  <2>4. QED BY <2>1, <2>2, <2>3
<1>6. g[Len(s)] = h[Len(s)]
  <2> HIDE DEF P
  <2>1. \A n \in 0 .. Len(s) : n \in P
    BY <1>1, <1>4, <1>5, UpTo
  <2>2. QED BY <1>1, <2>1 DEF P
<1>7. h[Len(t)] = Op(h[Len(s)], z)
  <2>1. Len(t) \in 1 .. Len(t) /\ Len(t) - 1 = Len(s)
    BY <1>1
  <2>2. QED BY <1>1, <1>3, <2>1 DEF Runs
<1>8. QED BY <1>2, <1>3, <1>6, <1>7 DEF t
=============================================================================

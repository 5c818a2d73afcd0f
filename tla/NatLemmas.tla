----------------------------- MODULE NatLemmas -----------------------------
(***************************************************************************)
(* Lemmas that the modules of proofs share: induction over the natural     *)
(* numbers in a form without an operator as a parameter, functions defined *)
(* from their value at the number before, remainders, and sums over sets.  *)
(* The code follows pointers, adds up arrays and counts modulo a power.    *)
(***************************************************************************)
EXTENDS Integers, FiniteSets, FiniteSetTheorems, TLAPS

\* A set of naturals that is not empty has a least element: the intervals up to
\* its elements have a smallest one under inclusion.
LEMMA LeastNat ==
  ASSUME NEW T \in SUBSET Nat, T # {}
  PROVE  \E x \in T : \A y \in T : x <= y
<1> DEFINE R == StrictSubsetOrdering(Nat)
           U == {1..n : n \in T}
<1>1. IsWellFoundedOn(R, FiniteSubsetsOf(Nat))
  BY FS_StrictSubsetOrderingWellFounded
<1>2. U \subseteq FiniteSubsetsOf(Nat)
  <2> SUFFICES ASSUME NEW n \in T PROVE 1..n \in FiniteSubsetsOf(Nat)
    OBVIOUS
  <2>1. IsFiniteSet(1..n) BY FS_Interval
  <2> QED BY <2>1 DEF FiniteSubsetsOf
<1>3. U # {} OBVIOUS
<1>4. \E u \in U : \A v \in U : ~ (<<v, u>> \in R)
  <2> HIDE DEF R, U
  <2> QED BY <1>1, <1>2, <1>3, WFMin
<1>5. PICK x \in T : \A v \in U : ~ (<<v, 1..x>> \in R) BY <1>4
<1>6. ASSUME NEW y \in T PROVE x <= y
  <2>1. x \in Nat /\ y \in Nat OBVIOUS
  <2>2. ~ (<<1..y, 1..x>> \in R) BY <1>5
  <2>3. <<1..y, 1..x>> \in (SUBSET Nat) \X (SUBSET Nat) OBVIOUS
  <2>4. ~(1..y \subseteq 1..x /\ 1..y # 1..x)
    BY <2>2, <2>3 DEF StrictSubsetOrdering
  <2>5. CASE y < x
    <3>1. 1..y \subseteq 1..x BY <2>1, <2>5
    <3>2. x \in 1..x /\ x \notin 1..y BY <2>1, <2>5
    <3> QED BY <2>4, <3>1, <3>2
  <2> QED BY <2>1, <2>5
<1> QED BY <1>5, <1>6

\* Induction up to a bound.
LEMMA UpTo ==
  ASSUME NEW N \in Nat, NEW S, 0 \in S, \A n \in 0..N-1 : n \in S => n + 1 \in S
  PROVE  0..N \subseteq S
<1> DEFINE T == (0..N) \ S
<1> SUFFICES ASSUME T # {} PROVE FALSE
  OBVIOUS
<1>1. T \in SUBSET Nat OBVIOUS
<1>2. PICK x \in T : \A y \in T : x <= y BY <1>1, LeastNat
<1>3. x \in 1..N BY <1>2
<1>4. x - 1 \in 0..N-1 /\ x - 1 \notin T BY <1>2, <1>3
<1>5. x - 1 \in S BY <1>4
<1>6. (x - 1) + 1 \in S BY <1>4, <1>5
<1> QED BY <1>3, <1>6

\* Induction over all the natural numbers.
LEMMA AllNat ==
  ASSUME NEW S, 0 \in S, \A n \in Nat : n \in S => n + 1 \in S
  PROVE  Nat \subseteq S
<1> SUFFICES ASSUME NEW n \in Nat PROVE n \in S
  OBVIOUS
<1>1. 0..n \subseteq S
  <2>1. \A m \in 0..n-1 : m \in S => m + 1 \in S OBVIOUS
  <2> QED BY <2>1, UpTo
<1> QED BY <1>1

LEMMA SizeUpTo ==
  ASSUME NEW n \in Nat
  PROVE  IsFiniteSet(1..n) /\ Cardinality(1..n) = n
<1>1. IsFiniteSet(1..n) /\ Cardinality(1..n) = IF 1 > n THEN 0 ELSE n - 1 + 1
  BY FS_Interval
<1> QED BY <1>1

\* The function on 0..N with values in S that is first at 0 and follows next.
Follows(f, N, S, first, next) ==
  /\ f \in [0..N -> S]
  /\ f[0] = first
  /\ \A n \in 1..N : f[n] = next[<<n, f[n-1]>>]

\* A function on 0..N is given by its value at 0 and by how each value follows
\* from its index and from the value before.
LEMMA RecursionUpTo ==
  ASSUME NEW N \in Nat, NEW S, NEW first \in S, NEW next \in [(1..N) \X S -> S]
  PROVE  \E f : Follows(f, N, S, first, next)
<1> DEFINE Good(m, f) == Follows(f, m, S, first, next)
           T == {m \in 0..N : \E f : Good(m, f)}
<1>1. 0 \in T
  <2> DEFINE f == [n \in 0..0 |-> first]
  <2>1. Good(0, f) BY DEF Follows
  <2>2. 0 \in 0..N OBVIOUS
  <2> HIDE DEF Good, f
  <2> QED BY <2>1, <2>2
<1>2. ASSUME NEW m \in 0..N-1, m \in T PROVE m + 1 \in T
  <2>1. PICK f : Follows(f, m, S, first, next) BY <1>2
  <2> DEFINE g == [n \in 0..m+1 |-> IF n = m + 1 THEN next[<<m + 1, f[m]>>] ELSE f[n]]
  <2>2. f[m] \in S BY <2>1 DEF Follows
  <2>3. <<m + 1, f[m]>> \in (1..N) \X S BY <2>2
  <2>4. next[<<m + 1, f[m]>>] \in S BY <2>3
  <2>5. \A n \in 0..m : g[n] = f[n] OBVIOUS
  <2>6. g[m + 1] = next[<<m + 1, f[m]>>] OBVIOUS
  <2>7. g \in [0..m+1 -> S] BY <2>1, <2>4 DEF Follows
  <2> HIDE DEF g
  <2>8. \A n \in 1..m+1 : g[n] = next[<<n, g[n-1]>>]
    <3> TAKE n \in 1..m+1
    <3>1. CASE n = m + 1
      <4>1. g[n - 1] = f[m] BY <3>1, <2>5
      <4> QED BY <4>1, <3>1, <2>6
    <3>2. CASE n \in 1..m
      <4>1. g[n] = f[n] /\ g[n - 1] = f[n - 1] BY <3>2, <2>5
      <4> QED BY <4>1, <3>2, <2>1 DEF Follows
    <3> QED BY <3>1, <3>2
  <2>9. g[0] = first BY <2>1, <2>5 DEF Follows
  <2>10. Good(m + 1, g) BY <2>7, <2>8, <2>9 DEF Follows
  <2>11. m + 1 \in 0..N OBVIOUS
  <2> HIDE DEF Good
  <2> QED BY <2>10, <2>11
<1>3. 0..N \subseteq T
  <2> HIDE DEF T
  <2> QED BY <1>1, <1>2, UpTo
<1>4. N \in T
  <2> HIDE DEF T
  <2> QED BY <1>3
<1> QED BY <1>4

(***************************************************************************)
(* Arithmetic modulo m.                                                    *)
(***************************************************************************)
\* A remainder is below the modulus.
LEMMA ModRange ==
  ASSUME NEW m \in Nat \ {0}, NEW a \in Int
  PROVE  a % m \in 0..m-1 /\ a \div m \in Int
  OBVIOUS

\* Quotient and remainder make up the number.
LEMMA ModSplit ==
  ASSUME NEW m \in Nat \ {0}, NEW a \in Int
  PROVE  a = m * (a \div m) + (a % m)
  OBVIOUS

\* A number below the modulus is its own remainder.
LEMMA ModSmall ==
  ASSUME NEW m \in Nat \ {0}, NEW a \in 0..m-1
  PROVE  a % m = a
  OBVIOUS

\* Multiples of the modulus do not change the remainder.
LEMMA ModMultiple ==
  ASSUME NEW m \in Nat \ {0}, NEW q \in Int, NEW r \in 0..m-1
  PROVE  (m * q + r) % m = r
  OBVIOUS

\* The distributive law, as a fact of its own for the steps below.
LEMMA Distributes ==
  ASSUME NEW m \in Int, NEW p \in Int, NEW q \in Int
  PROVE  m * (p + q) = m * p + m * q
  OBVIOUS

\* A sum may be reduced on the way.
LEMMA ModSum ==
  ASSUME NEW m \in Nat \ {0}, NEW a \in Nat, NEW d \in Nat
  PROVE  ((a % m) + d) % m = (a + d) % m
<1> DEFINE p == a \div m
           s == (a % m) + d
           q == s \div m
           r == s % m
<1>1. a = m * p + (a % m) /\ p \in Int /\ a % m \in 0..m-1
  BY ModSplit, ModRange
<1>2. s \in Int
  BY <1>1
<1>3. s = m * q + r /\ q \in Int /\ r \in 0..m-1
  BY <1>2, ModSplit, ModRange
<1>4. a + d = m * (p + q) + r
  <2>1. a + d = m * p + s
    BY <1>1
  <2>2. m * (p + q) = m * p + m * q
    BY <1>1, <1>3, Distributes
  <2>3. m * p \in Int /\ m * q \in Int
    BY <1>1, <1>3
  <2> HIDE DEF p, s, q, r
  <2> QED
    BY <2>1, <2>2, <2>3, <1>1, <1>2, <1>3
<1> HIDE DEF p, s, q, r
<1>5. (m * (p + q) + r) % m = r
  <2>1. p + q \in Int
    BY <1>1, <1>3
  <2> QED
    BY <2>1, <1>3, ModMultiple
<1> QED
  BY <1>4, <1>5 DEF s, r

(***************************************************************************)
(* Sums over finite sets.                                                  *)
(***************************************************************************)
\* The sums of v over the subsets of U, an element taken out at a time, as the
\* folds of the community modules do it.
SetSums(v, U) ==
  LET it[T \in SUBSET U] == IF T = {} THEN 0
                            ELSE LET x == CHOOSE x \in T : TRUE IN v[x] + it[T \ {x}]
  IN it

\* f follows that recursion.
AreSums(f, v, U) ==
  f = [T \in SUBSET U |-> IF T = {} THEN 0
                          ELSE v[CHOOSE x \in T : TRUE] + f[T \ {CHOOSE x \in T : TRUE}]]

\* The recursion has a solution: the sums of sets of at most m elements give
\* those of at most m + 1.
LEMMA SetSumsExist ==
  ASSUME NEW U, IsFiniteSet(U), NEW v \in [U -> Int]
  PROVE  \E f : AreSums(f, v, U)
<1> DEFINE N == Cardinality(U)
           Z == [SUBSET U -> Int]
           first == [T \in SUBSET U |-> 0]
           pick(T) == CHOOSE x \in T : TRUE
           more(g) == [T \in SUBSET U |-> IF T = {} THEN 0 ELSE v[pick(T)] + g[T \ {pick(T)}]]
           next == [p \in (1..N) \X Z |-> more(p[2])]
<1>1. N \in Nat
  BY FS_CardinalityType
<1>2. \A T \in SUBSET U : T # {} => pick(T) \in T /\ pick(T) \in U /\ T \ {pick(T)} \in SUBSET U
  OBVIOUS
<1>3. \A g \in Z : more(g) \in Z
  <2> SUFFICES ASSUME NEW g \in Z, NEW T \in SUBSET U, T # {}
               PROVE  v[pick(T)] + g[T \ {pick(T)}] \in Int
    OBVIOUS
  <2>1. v[pick(T)] \in Int /\ g[T \ {pick(T)}] \in Int
    BY <1>2
  <2> HIDE DEF pick
  <2> QED
    BY <2>1
<1>4. first \in Z /\ next \in [(1..N) \X Z -> Z]
  <2>1. first \in Z
    OBVIOUS
  <2> HIDE DEF more, Z
  <2> QED
    BY <1>3, <2>1
<1>5. PICK F : Follows(F, N, Z, first, next)
  <2> HIDE DEF N, Z, first, next
  <2> QED
    BY <1>1, <1>4, RecursionUpTo
<1>6. \A m \in 1..N : F[m] = more(F[m - 1])
  <2> TAKE m \in 1..N
  <2>1. F[m - 1] \in Z
    BY <1>1, <1>5 DEF Follows
  <2>2. F[m] = next[<<m, F[m - 1]>>]
    BY <1>5 DEF Follows
  <2> HIDE DEF Z, more
  <2> QED
    BY <2>1, <2>2
<1>7. \A T \in SUBSET U : Cardinality(T) \in 0..N
  BY <1>1, FS_Subset, FS_CardinalityType
<1> DEFINE f == [T \in SUBSET U |-> F[Cardinality(T)][T]]
<1>8. ASSUME NEW T \in SUBSET U
      PROVE  f[T] = IF T = {} THEN 0 ELSE v[pick(T)] + f[T \ {pick(T)}]
  <2>1. CASE T = {}
    <3>1. F[0] = first
      BY <1>5 DEF Follows
    <3> QED
      BY <2>1, <3>1, FS_EmptySet
  <2>2. CASE T # {}
    <3> DEFINE x == pick(T)
               m == Cardinality(T)
    <3>1. x \in T /\ T \ {x} \in SUBSET U
      BY <1>2, <2>2
    <3>2. IsFiniteSet(T) /\ m \in 0..N
      BY <1>7, FS_Subset
    <3>3. Cardinality(T \ {x}) = m - 1
      BY <3>1, <3>2, FS_RemoveElement
    <3>4. m # 0
      BY <2>2, <3>2, FS_EmptySet
    <3>5. m \in 1..N
      BY <1>1, <3>2, <3>4
    <3>6. F[m] = more(F[m - 1])
      BY <1>6, <3>5
    <3>7. F[m][T] = v[x] + F[m - 1][T \ {x}]
      BY <2>2, <3>6
    <3>8. f[T \ {x}] = F[m - 1][T \ {x}]
      BY <3>1, <3>3
    <3> HIDE DEF more, pick
    <3> QED
      BY <2>2, <3>7, <3>8
  <2> QED
    BY <2>1, <2>2
<1>9. f \in Z
  <2> SUFFICES ASSUME NEW T \in SUBSET U PROVE F[Cardinality(T)][T] \in Int
    OBVIOUS
  <2>1. F[Cardinality(T)] \in Z
    BY <1>5, <1>7 DEF Follows
  <2> QED
    BY <2>1
<1> HIDE DEF f
<1>10. f = [T \in SUBSET U |-> IF T = {} THEN 0 ELSE v[pick(T)] + f[T \ {pick(T)}]]
  <2> HIDE DEF pick
  <2> QED
    BY <1>8, <1>9
<1>11. AreSums(f, v, U)
  BY <1>10 DEF AreSums
<1> QED
  BY <1>11

\* .. so that the sums are what the recursion says.
LEMMA SetSumsUnfold ==
  ASSUME NEW U, IsFiniteSet(U), NEW v \in [U -> Int]
  PROVE  /\ SetSums(v, U) \in [SUBSET U -> Int]
         /\ SetSums(v, U)[{}] = 0
         /\ \A T \in SUBSET U : T # {} =>
              SetSums(v, U)[T] = v[CHOOSE x \in T : TRUE]
                                   + SetSums(v, U)[T \ {CHOOSE x \in T : TRUE}]
<1> DEFINE s == SetSums(v, U)
           pick(T) == CHOOSE x \in T : TRUE
<1>1. \E f : AreSums(f, v, U)
  BY SetSumsExist
<1>2. s = CHOOSE f : AreSums(f, v, U)
  BY DEF SetSums, AreSums
<1>3. AreSums(s, v, U)
  <2> HIDE DEF s
  <2> QED
    BY <1>1, <1>2
<1> HIDE DEF s
<1>4. DOMAIN s = SUBSET U /\ s[{}] = 0
  BY <1>3 DEF AreSums
<1>5. \A T \in SUBSET U : T # {} => s[T] = v[pick(T)] + s[T \ {pick(T)}]
  BY <1>3 DEF AreSums
<1>6. s \in [SUBSET U -> Int]
  <2> DEFINE A == {m \in 0..Cardinality(U) : \A T \in SUBSET U : Cardinality(T) = m => s[T] \in Int}
  <2>1. Cardinality(U) \in Nat
    BY FS_CardinalityType
  <2>2. 0 \in A
    <3>1. \A T \in SUBSET U : Cardinality(T) = 0 => T = {}
      BY FS_Subset, FS_EmptySet
    <3>2. \A T \in SUBSET U : Cardinality(T) = 0 => s[T] = 0
      BY <1>4, <3>1
    <3>3. 0 \in 0..Cardinality(U) /\ 0 \in Int
      BY <2>1
    <3> QED
      BY <3>2, <3>3
  <2>3. ASSUME NEW m \in 0..Cardinality(U) - 1, m \in A
        PROVE  m + 1 \in A
    <3>1. ASSUME NEW T \in SUBSET U, Cardinality(T) = m + 1
          PROVE  s[T] \in Int
      <4>1. IsFiniteSet(T) /\ T # {}
        BY <2>1, <3>1, FS_Subset, FS_EmptySet
      <4>2. pick(T) \in T /\ T \ {pick(T)} \in SUBSET U
        BY <4>1
      <4>3. Cardinality(T \ {pick(T)}) = m
        <5>1. \A x \in T : Cardinality(T \ {x}) = Cardinality(T) - 1
          BY <4>1, FS_RemoveElement
        <5> HIDE DEF pick
        <5>2. Cardinality(T \ {pick(T)}) = Cardinality(T) - 1
          BY <4>2, <5>1
        <5> QED
          BY <2>1, <3>1, <5>2
      <4>4. s[T \ {pick(T)}] \in Int /\ v[pick(T)] \in Int
        BY <2>3, <4>2, <4>3
      <4>5. s[T] = v[pick(T)] + s[T \ {pick(T)}]
        BY <1>5, <4>1
      <4> HIDE DEF pick
      <4> QED
        BY <4>4, <4>5
    <3> QED
      BY <2>1, <3>1
  <2>4. 0..Cardinality(U) \subseteq A
    <3> HIDE DEF A
    <3> QED
      BY <2>1, <2>2, <2>3, UpTo
  <2>5. \A T \in SUBSET U : Cardinality(T) \in 0..Cardinality(U)
    BY <2>1, FS_Subset, FS_CardinalityType
  <2>6. \A T \in SUBSET U : s[T] \in Int
    BY <2>4, <2>5
  <2>7. s = [T \in SUBSET U |-> s[T]]
    BY <1>3 DEF AreSums
  <2> QED
    BY <2>6, <2>7
<1> QED
  BY <1>4, <1>5, <1>6 DEF s

\* Any element may be taken out first.
LEMMA SetSumsAdd ==
  ASSUME NEW U, IsFiniteSet(U), NEW v \in [U -> Int]
  PROVE  \A T \in SUBSET U : \A y \in T :
           SetSums(v, U)[T] = v[y] + SetSums(v, U)[T \ {y}]
<1> DEFINE s == SetSums(v, U)
           pick(T) == CHOOSE x \in T : TRUE
           Any(T) == \A y \in T : s[T] = v[y] + s[T \ {y}]
           A == {m \in 0..Cardinality(U) : \A T \in SUBSET U : Cardinality(T) = m => Any(T)}
<1>1. Cardinality(U) \in Nat
  BY FS_CardinalityType
<1>2. /\ \A T \in SUBSET U : s[T] \in Int
      /\ \A T \in SUBSET U : T # {} => s[T] = v[pick(T)] + s[T \ {pick(T)}]
  <2>1. s \in [SUBSET U -> Int]
    BY SetSumsUnfold
  <2>2. \A T \in SUBSET U : T # {} => s[T] = v[pick(T)] + s[T \ {pick(T)}]
    BY SetSumsUnfold
  <2> HIDE DEF s, pick
  <2> QED
    BY <2>1, <2>2
<1> HIDE DEF s
<1>3. 0 \in A
  <2>1. \A T \in SUBSET U : Cardinality(T) = 0 => T = {}
    BY FS_Subset, FS_EmptySet
  <2> QED
    BY <1>1, <2>1
<1>4. ASSUME NEW m \in 0..Cardinality(U) - 1, m \in A
      PROVE  m + 1 \in A
  <2>1. ASSUME NEW T \in SUBSET U, Cardinality(T) = m + 1, NEW y \in T
        PROVE  s[T] = v[y] + s[T \ {y}]
    <3>1. IsFiniteSet(T) /\ T # {} /\ pick(T) \in T
      BY FS_Subset
    <3> DEFINE x == pick(T)
    <3> HIDE DEF pick
    <3>2. s[T] = v[x] + s[T \ {x}]
      BY <1>2, <3>1
    <3>3. CASE x = y
      BY <3>2, <3>3
    <3>4. CASE x # y
      <4>1. /\ T \ {x} \in SUBSET U /\ T \ {y} \in SUBSET U
            /\ y \in T \ {x} /\ x \in T \ {y} /\ x \in U /\ y \in U
        BY <3>1, <3>4
      <4>2. Cardinality(T \ {x}) = m /\ Cardinality(T \ {y}) = m
        <5>1. \A e \in T : Cardinality(T \ {e}) = Cardinality(T) - 1
          BY <3>1, FS_RemoveElement
        <5> QED
          BY <1>1, <2>1, <3>1, <5>1
      <4>3. Any(T \ {x}) /\ Any(T \ {y})
        BY <1>4, <4>1, <4>2
      <4>4. /\ s[T \ {x}] = v[y] + s[(T \ {x}) \ {y}]
            /\ s[T \ {y}] = v[x] + s[(T \ {y}) \ {x}]
        BY <4>1, <4>3
      <4>5. (T \ {x}) \ {y} = (T \ {y}) \ {x} /\ (T \ {x}) \ {y} \in SUBSET U
        OBVIOUS
      <4>6. v[x] \in Int /\ v[y] \in Int /\ s[(T \ {x}) \ {y}] \in Int
        BY <1>2, <4>1, <4>5
      <4>7. s[T] = v[x] + (v[y] + s[(T \ {x}) \ {y}])
            /\ s[T \ {y}] = v[x] + s[(T \ {x}) \ {y}]
        BY <3>2, <4>4, <4>5
      <4> HIDE DEF x
      <4> QED
        BY <4>6, <4>7
    <3> QED
      BY <3>3, <3>4
  <2>2. m + 1 \in 0..Cardinality(U)
    BY <1>1
  <2> QED
    BY <2>1, <2>2
<1>5. 0..Cardinality(U) \subseteq A
  <2> HIDE DEF A
  <2> QED
    BY <1>1, <1>3, <1>4, UpTo
<1>6. \A T \in SUBSET U : Cardinality(T) \in 0..Cardinality(U)
  BY <1>1, FS_Subset, FS_CardinalityType
<1>7. \A T \in SUBSET U : Any(T)
  BY <1>5, <1>6
<1> QED
  BY <1>7 DEF s

=============================================================================

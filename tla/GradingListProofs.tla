------------------------- MODULE GradingListProofs -------------------------
(***************************************************************************)
(* Proofs about GradingList.                                               *)
(***************************************************************************)
EXTENDS GradingList, SequenceTheorems, NatLemmas

LEMMA StepsUnfold ==
  ASSUME NEW head, NEW mem
  PROVE  Steps(head, mem) =
           [n \in 0..Cardinality(Nodes) |->
              IF n = 0 THEN head
              ELSE IF Steps(head, mem)[n - 1] \in Nodes
                   THEN mem[Steps(head, mem)[n - 1]].pNext ELSE NULL]
<1> DEFINE N == Cardinality(Nodes)
           S == Nodes \cup {NULL, head} \cup {mem[n].pNext : n \in Nodes}
           next == [p \in (1..N) \X S |-> IF p[2] \in Nodes THEN mem[p[2]].pNext ELSE NULL]
           Unfolds(f) == f = [n \in 0..N |->
                               IF n = 0 THEN head
                               ELSE IF f[n - 1] \in Nodes THEN mem[f[n - 1]].pNext ELSE NULL]
<1>1. N \in Nat BY FS_CardinalityType, ConstantsAssumption
<1>2. next \in [(1..N) \X S -> S] OBVIOUS
<1>3. \E f : Follows(f, N, S, head, next)
  <2>1. head \in S OBVIOUS
  <2> HIDE DEF next, S, N
  <2> QED BY <1>1, <1>2, <2>1, RecursionUpTo
<1>4. PICK f : Follows(f, N, S, head, next)
  BY <1>3
<1>5. \A n \in 1..N : f[n] = IF f[n - 1] \in Nodes THEN mem[f[n - 1]].pNext ELSE NULL
  <2> TAKE n \in 1..N
  <2>1. n - 1 \in 0..N BY <1>1
  <2>2. f[n - 1] \in S BY <1>4, <2>1 DEF Follows
  <2>3. <<n, f[n - 1]>> \in (1..N) \X S BY <2>2
  <2> QED BY <1>4, <2>3 DEF Follows
<1>6. Unfolds(f)
  <2> HIDE DEF S, next
  <2> QED BY <1>1, <1>4, <1>5 DEF Follows
<1>7. Steps(head, mem) = CHOOSE g : Unfolds(g)
  BY DEF Steps
<1>8. Unfolds(CHOOSE g : Unfolds(g))
  <2> HIDE DEF Unfolds
  <2> QED BY <1>6
<1> QED BY <1>7, <1>8

\* c is the list that begins at head: its nodes, each once, linked forwards.
IsChain(c, head, mem) ==
  /\ c \in Seq(Nodes)
  /\ \A i, j \in 1..Len(c) : c[i] = c[j] => i = j
  /\ head = IF Len(c) = 0 THEN NULL ELSE c[1]
  /\ \A i \in 1..Len(c) : mem[c[i]].pNext = IF i = Len(c) THEN NULL ELSE c[i + 1]

LEMMA ChainBounded ==
  ASSUME NEW c, NEW head, NEW mem, IsChain(c, head, mem)
  PROVE  Len(c) \in Nat /\ Cardinality(Nodes) \in Nat /\ Len(c) <= Cardinality(Nodes)
<1>1. c \in Seq(Nodes) /\ Len(c) \in Nat BY DEF IsChain
<1>2. c \in [1..Len(c) -> Nodes] BY <1>1
<1>3. c \in Injection(1..Len(c), Nodes)
  BY <1>1, <1>2 DEF IsChain, Injection, IsInjective
<1>4. IsFiniteSet(Nodes) BY ConstantsAssumption
<1>5. Cardinality(1..Len(c)) <= Cardinality(Nodes) BY <1>3, <1>4, FS_Injection
<1>6. Cardinality(1..Len(c)) = Len(c) BY <1>1, SizeUpTo
<1>7. Cardinality(Nodes) \in Nat BY <1>4, FS_CardinalityType
<1> QED BY <1>1, <1>5, <1>6, <1>7

\* Following pNext gives back the list.
LEMMA ChainIs ==
  ASSUME NEW c, NEW head, NEW mem, IsChain(c, head, mem)
  PROVE  ChainOf(head, mem) = c
<1> DEFINE N == Cardinality(Nodes)
           step == Steps(head, mem)
           At(n) == IF n < Len(c) THEN c[n + 1] ELSE NULL
           S == {n \in 0..N : step[n] = At(n)}
           reached == {n \in 1..N : step[n - 1] # NULL}
<1>1. Len(c) \in Nat /\ N \in Nat /\ Len(c) <= N BY ChainBounded
<1>2. step = [n \in 0..N |-> IF n = 0 THEN head
                             ELSE IF step[n - 1] \in Nodes
                                  THEN mem[step[n - 1]].pNext ELSE NULL]
  BY StepsUnfold
<1> HIDE DEF step, N
<1>3. 0 \in S
  <2>1. step[0] = head BY <1>1, <1>2
  <2> QED BY <1>1, <2>1 DEF IsChain
<1>4. ASSUME NEW n \in 0..N-1, n \in S PROVE n + 1 \in S
  <2>1. n + 1 \in 0..N /\ n \in Nat BY <1>1
  <2>2. step[n + 1] = IF step[n] \in Nodes THEN mem[step[n]].pNext ELSE NULL
    BY <1>1, <1>2, <2>1
  <2>3. CASE n < Len(c)
    <3>1. n + 1 \in 1..Len(c) /\ step[n] = c[n + 1] BY <1>1, <1>4, <2>1, <2>3
    <3>2. c[n + 1] \in Nodes BY <3>1 DEF IsChain
    <3>3. step[n + 1] = IF n + 1 = Len(c) THEN NULL ELSE c[(n + 1) + 1]
      BY <2>2, <3>1, <3>2 DEF IsChain
    <3> QED BY <1>1, <2>1, <3>1, <3>3
  <2>4. CASE ~(n < Len(c))
    <3>1. step[n] = NULL BY <1>4, <2>4
    <3>2. step[n + 1] = NULL BY <2>2, <3>1, ConstantsAssumption
    <3> QED BY <1>1, <2>1, <2>4, <3>2
  <2> QED BY <2>3, <2>4
<1>5. 0..N \subseteq S
  <2> HIDE DEF S
  <2> QED BY <1>1, <1>3, <1>4, UpTo
<1>6. \A n \in 1..N : step[n - 1] = IF n <= Len(c) THEN c[n] ELSE NULL
  <2> TAKE n \in 1..N
  <2>1. n - 1 \in S /\ (n - 1) + 1 = n BY <1>1, <1>5
  <2> QED BY <1>1, <2>1
<1>7. reached = 1..Len(c)
  <2>1. \A n \in 1..Len(c) : c[n] \in Nodes BY DEF IsChain
  <2> QED BY <1>1, <1>6, <2>1, ConstantsAssumption
<1>8. Cardinality(reached) = Len(c)
  <2> HIDE DEF reached
  <2>1. Cardinality(1..Len(c)) = Len(c) BY <1>1, SizeUpTo
  <2> QED BY <1>7, <2>1
<1>9. ChainOf(head, mem) = [n \in 1..Cardinality(reached) |-> step[n - 1]]
  BY DEF ChainOf, step, N
<1>10. c = [n \in 1..Len(c) |-> c[n]] BY DEF IsChain
<1>11. \A n \in 1..Len(c) : step[n - 1] = c[n] BY <1>1, <1>6
<1> HIDE DEF reached
<1> QED BY <1>8, <1>9, <1>10, <1>11

(***************************************************************************)
(* Sums.                                                                   *)
(***************************************************************************)
LEMMA Int32Type ==
  ASSUME NEW x \in Int
  PROVE  Int32(x) \in Int /\ (x \in 0..IntMax => Int32(x) = x)
<1>1. IntMax \in Nat BY ConstantsAssumption
<1>2. x % (2 * (IntMax + 1)) \in Int BY <1>1
<1>3. x \in 0..IntMax => x % (2 * (IntMax + 1)) = x BY <1>1
<1> QED BY <1>1, <1>2, <1>3 DEF Int32

LEMMA IntSumsUnfold ==
  ASSUME NEW s \in Seq(Int)
  PROVE  IntSums(s) =
           [t \in 0..Len(s) |-> IF t = 0 THEN 0 ELSE Int32(IntSums(s)[t - 1] + s[t])]
<1> DEFINE next == [p \in (1..Len(s)) \X Int |-> Int32(p[2] + s[p[1]])]
           Unfolds(f) ==
             f = [t \in 0..Len(s) |-> IF t = 0 THEN 0 ELSE Int32(f[t - 1] + s[t])]
<1>1. Len(s) \in Nat OBVIOUS
<1>2. next \in [(1..Len(s)) \X Int -> Int]
  <2>1. \A p \in (1..Len(s)) \X Int : p[2] + s[p[1]] \in Int OBVIOUS
  <2> QED BY <2>1, Int32Type
<1>3. \E f : Follows(f, Len(s), Int, 0, next)
  <2> DEFINE N == Len(s)
             Z == Int
  <2>1. N \in Nat /\ 0 \in Z /\ next \in [(1..N) \X Z -> Z] BY <1>1, <1>2
  <2> HIDE DEF next, N, Z
  <2>2. \E f : Follows(f, N, Z, 0, next) BY <2>1, RecursionUpTo
  <2> QED BY <2>2 DEF N, Z
<1>4. PICK f : Follows(f, Len(s), Int, 0, next) BY <1>3
<1>5. \A t \in 1..Len(s) : f[t] = Int32(f[t - 1] + s[t])
  <2> TAKE t \in 1..Len(s)
  <2>1. f[t - 1] \in Int BY <1>1, <1>4 DEF Follows
  <2>2. <<t, f[t - 1]>> \in (1..Len(s)) \X Int BY <2>1
  <2> QED BY <1>4, <2>2 DEF Follows
<1>6. Unfolds(f)
  <2> HIDE DEF next
  <2> QED BY <1>1, <1>4, <1>5 DEF Follows
<1>7. IntSums(s) = CHOOSE g : Unfolds(g) BY DEF IntSums
<1>8. Unfolds(CHOOSE g : Unfolds(g))
  <2> HIDE DEF Unfolds
  <2> QED BY <1>6
<1> QED BY <1>7, <1>8

LEMMA SumsUnfold ==
  ASSUME NEW s \in Seq(Int)
  PROVE  Sums(s) = [t \in 0..Len(s) |-> IF t = 0 THEN 0 ELSE Sums(s)[t - 1] + s[t]]
<1> DEFINE next == [p \in (1..Len(s)) \X Int |-> p[2] + s[p[1]]]
           Unfolds(f) == f = [t \in 0..Len(s) |-> IF t = 0 THEN 0 ELSE f[t - 1] + s[t]]
<1>1. Len(s) \in Nat OBVIOUS
<1>2. next \in [(1..Len(s)) \X Int -> Int] OBVIOUS
<1>3. \E f : Follows(f, Len(s), Int, 0, next)
  <2> DEFINE N == Len(s)
             Z == Int
  <2>1. N \in Nat /\ 0 \in Z /\ next \in [(1..N) \X Z -> Z] BY <1>1, <1>2
  <2> HIDE DEF next, N, Z
  <2>2. \E f : Follows(f, N, Z, 0, next) BY <2>1, RecursionUpTo
  <2> QED BY <2>2 DEF N, Z
<1>4. PICK f : Follows(f, Len(s), Int, 0, next) BY <1>3
<1>5. \A t \in 1..Len(s) : f[t] = f[t - 1] + s[t]
  <2> TAKE t \in 1..Len(s)
  <2>1. f[t - 1] \in Int BY <1>1, <1>4 DEF Follows
  <2>2. <<t, f[t - 1]>> \in (1..Len(s)) \X Int BY <2>1
  <2> QED BY <1>4, <2>2 DEF Follows
<1>6. Unfolds(f)
  <2> HIDE DEF next
  <2> QED BY <1>1, <1>4, <1>5 DEF Follows
<1>7. Sums(s) = CHOOSE g : Unfolds(g) BY DEF Sums
<1>8. Unfolds(CHOOSE g : Unfolds(g))
  <2> HIDE DEF Unfolds
  <2> QED BY <1>6
<1> QED BY <1>7, <1>8

\* An int holds an int.
LEMMA IntSumType ==
  ASSUME NEW s \in Seq(Int)
  PROVE  IntSum(s) \in Int
<1> DEFINE f == IntSums(s)
           S == {t \in 0..Len(s) : f[t] \in Int}
<1>1. Len(s) \in Nat OBVIOUS
<1>2. f = [t \in 0..Len(s) |-> IF t = 0 THEN 0 ELSE Int32(f[t - 1] + s[t])]
  BY IntSumsUnfold
<1> HIDE DEF f
<1>3. 0 \in S BY <1>1, <1>2
<1>4. ASSUME NEW t \in 0..Len(s)-1, t \in S PROVE t + 1 \in S
  <2>1. t + 1 \in 1..Len(s) /\ (t + 1) - 1 = t BY <1>1
  <2>2. f[t] + s[t + 1] \in Int BY <1>4, <2>1
  <2>3. f[t + 1] = Int32(f[t] + s[t + 1]) BY <1>1, <1>2, <2>1
  <2>4. f[t + 1] \in Int BY <2>2, <2>3, Int32Type
  <2> QED BY <1>1, <2>1, <2>4
<1>5. 0..Len(s) \subseteq S
  <2> HIDE DEF S
  <2> QED BY <1>1, <1>3, <1>4, UpTo
<1> QED BY <1>1, <1>5 DEF IntSum, f

\* Nothing adds up to nothing.
LEMMA IntSumOfZeros ==
  ASSUME NEW s \in Seq(Int), \A t \in 1..Len(s) : s[t] = 0
  PROVE  IntSum(s) = 0
<1> DEFINE f == IntSums(s)
           S == {t \in 0..Len(s) : f[t] = 0}
<1>1. Len(s) \in Nat OBVIOUS
<1>2. f = [t \in 0..Len(s) |-> IF t = 0 THEN 0 ELSE Int32(f[t - 1] + s[t])]
  BY IntSumsUnfold
<1> HIDE DEF f
<1>3. 0 \in S BY <1>1, <1>2
<1>4. ASSUME NEW t \in 0..Len(s)-1, t \in S PROVE t + 1 \in S
  <2>1. t + 1 \in 1..Len(s) /\ (t + 1) - 1 = t BY <1>1
  <2>2. f[t + 1] = Int32(0)
    <3>1. f[t + 1] = Int32(f[t] + s[t + 1]) BY <1>1, <1>2, <2>1
    <3>2. f[t] + s[t + 1] = 0 BY <1>4, <2>1
    <3> QED BY <3>1, <3>2
  <2>3. Int32(0) = 0 BY Int32Type, ConstantsAssumption
  <2> QED BY <1>1, <2>1, <2>2, <2>3
<1>5. 0..Len(s) \subseteq S
  <2> HIDE DEF S
  <2> QED BY <1>1, <1>3, <1>4, UpTo
<1> QED BY <1>1, <1>5 DEF IntSum, f

\* Sums within an int are those of an int, and what is smaller adds up to less.
LEMMA SumsWithin ==
  ASSUME NEW s \in Seq(Nat), NEW m \in Seq(Nat), Len(s) = Len(m), NEW b \in Nat,
         \A t \in 1..Len(s) : s[t] <= m[t] /\ m[t] <= b,
         Len(m) * b <= IntMax
  PROVE  /\ IntSum(s) = Sum(s) /\ IntSum(m) = Sum(m)
         /\ Sum(s) \in 0..Sum(m)
         /\ Sum(m) \in 0..Len(m) * b
         /\ (\A t \in 1..Len(m) : m[t] >= 1) => Sum(m) >= Len(m)
<1> DEFINE N == Len(m)
           fs == IntSums(s)
           fm == IntSums(m)
           gs == Sums(s)
           gm == Sums(m)
           Positive == \A t \in 1..Len(m) : m[t] >= 1
           S == {t \in 0..N : /\ fs[t] = gs[t] /\ fm[t] = gm[t]
                              /\ gs[t] \in Nat /\ gm[t] \in Nat
                              /\ gs[t] <= gm[t] /\ gm[t] <= t * b
                              /\ Positive => gm[t] >= t}
<1>1. /\ N \in Nat /\ IntMax \in Nat
      /\ s \in Seq(Int) /\ m \in Seq(Int) /\ Len(s) = N
  BY ConstantsAssumption
<1>2. /\ fs = [t \in 0..N |-> IF t = 0 THEN 0 ELSE Int32(fs[t - 1] + s[t])]
      /\ fm = [t \in 0..N |-> IF t = 0 THEN 0 ELSE Int32(fm[t - 1] + m[t])]
      /\ gs = [t \in 0..N |-> IF t = 0 THEN 0 ELSE gs[t - 1] + s[t]]
      /\ gm = [t \in 0..N |-> IF t = 0 THEN 0 ELSE gm[t - 1] + m[t]]
  BY <1>1, IntSumsUnfold, SumsUnfold
<1> HIDE DEF fs, fm, gs, gm, Positive
<1>3. 0 \in S
  <2>1. fs[0] = 0 /\ fm[0] = 0 /\ gs[0] = 0 /\ gm[0] = 0 BY <1>1, <1>2
  <2> QED BY <1>1, <2>1
<1>4. ASSUME NEW t \in 0..N-1, t \in S PROVE t + 1 \in S
  <2>1. t + 1 \in 1..N /\ (t + 1) - 1 = t /\ t \in Nat /\ t + 1 \in 0..N BY <1>1
  <2>2. /\ fs[t + 1] = Int32(fs[t] + s[t + 1]) /\ fm[t + 1] = Int32(fm[t] + m[t + 1])
        /\ gs[t + 1] = gs[t] + s[t + 1] /\ gm[t + 1] = gm[t] + m[t + 1]
    BY <1>2, <2>1
  <2>3. s[t + 1] \in Nat /\ m[t + 1] \in Nat /\ s[t + 1] <= m[t + 1] /\ m[t + 1] <= b
    BY <1>1, <2>1
  <2>4. /\ fs[t] = gs[t] /\ fm[t] = gm[t] /\ gs[t] \in Nat /\ gm[t] \in Nat
        /\ gs[t] <= gm[t]
    BY <1>4
  <2>12. gm[t] <= t * b BY <1>4
  <2>5. (t + 1) * b = t * b + b /\ t * b \in Nat BY <2>1
  <2>6. (t + 1) * b <= N * b
    <3>1. PICK r \in Nat : N = (t + 1) + r
      <4>1. N - (t + 1) \in Nat /\ N = (t + 1) + (N - (t + 1)) BY <1>1, <2>1
      <4> QED BY <4>1
    <3>2. N * b = (t + 1) * b + r * b BY <2>1, <3>1
    <3>3. r * b \in Nat /\ (t + 1) * b \in Nat BY <2>1
    <3> HIDE DEF N
    <3> QED BY <3>2, <3>3
  <2>7. gm[t + 1] \in Nat /\ gs[t + 1] \in Nat /\ gs[t + 1] <= gm[t + 1]
    <3>1. \A a, c, e, g \in Nat : a <= c /\ e <= g => a + e <= c + g /\ a + e \in Nat
      OBVIOUS
    <3>2. gs[t] + s[t + 1] \in Nat /\ gm[t] + m[t + 1] \in Nat
      BY <2>3, <2>4
    <3>3. gs[t] + s[t + 1] <= gm[t] + m[t + 1]
      <4> HIDE DEF S
      <4> QED BY <2>3, <2>4, <3>1
    <3> QED BY <2>2, <3>2, <3>3
  <2>8. gm[t + 1] <= (t + 1) * b
    <3> HIDE DEF S
    <3> QED BY <2>2, <2>3, <2>4, <2>5, <2>12
  <2>9. gm[t + 1] <= IntMax
    <3>1. (t + 1) * b \in Nat /\ N * b \in Nat BY <1>1, <2>1
    <3> QED BY <1>1, <2>6, <2>7, <2>8, <3>1
  <2>10. fs[t + 1] = gs[t + 1] /\ fm[t + 1] = gm[t + 1]
    <3>1. gs[t + 1] \in 0..IntMax /\ gm[t + 1] \in 0..IntMax BY <1>1, <2>7, <2>9
    <3> QED BY <2>2, <2>4, <3>1, Int32Type
  <2>11. Positive => gm[t + 1] >= t + 1
    <3> HAVE Positive
    <3>1. m[t + 1] >= 1 /\ gm[t] >= t BY <1>4, <2>1 DEF Positive
    <3> QED BY <2>1, <2>2, <2>3, <2>4, <3>1
  <2> QED BY <2>1, <2>7, <2>8, <2>10, <2>11
<1>5. 0..N \subseteq S
  <2> HIDE DEF S, N
  <2> QED BY <1>1, <1>3, <1>4, UpTo
<1>6. N \in S
  <2>1. N \in 0..N BY <1>1
  <2> HIDE DEF S
  <2> QED BY <1>5, <2>1
<1>7. IntSum(s) = fs[N] /\ IntSum(m) = fm[N] /\ Sum(s) = gs[N] /\ Sum(m) = gm[N]
  BY <1>1 DEF IntSum, Sum, fs, fm, gs, gm
<1>8. N * b \in Nat BY <1>1
<1>9. /\ fs[N] = gs[N] /\ fm[N] = gm[N] /\ gs[N] \in 0..gm[N] /\ gm[N] \in 0..N * b
      /\ Positive => gm[N] >= N
  BY <1>6, <1>8
<1> QED BY <1>7, <1>9 DEF Positive

(***************************************************************************)
(* The inductive invariant.                                                *)
(***************************************************************************)
\* c is the list, in both directions, and all that is allocated.
LinkedAs(c) ==
  /\ IsChain(c, pHead, node)
  /\ iCount = Len(c)
  /\ {c[i] : i \in 1..Len(c)} = Allocated
  /\ \A i \in 1..Len(c) : node[c[i]].pPrev = IF i = 1 THEN NULL ELSE c[i - 1]
  /\ pTail = IF Len(c) = 0 THEN NULL ELSE c[Len(c)]

Linked == LinkedAs(Chain)

\* Candidates exist only while the menu runs, which it does once there are tasks.
Started ==
  /\ pc = "setup" => aiMaxPoints = <<>>
  /\ pc \in {"setup", "exit"} => Allocated = {}
  /\ pc \in {"menu", "loading"} => aiMaxPoints # <<>>

\* A task is worth what the exam says, and has no points until it is graded.
TasksAgree ==
  \A n \in Allocated : \A t \in 1..iNumTasks :
    LET task == node[n].atTasks[t]
    IN  /\ task.iMaxPoints = aiMaxPoints[t]
        /\ task.iPoints \in 0..task.iMaxPoints
        /\ ~task.iGraded => task.iPoints = 0

ScoresSummed == \A n \in Allocated : node[n].iScore = updateScore(node[n].atTasks)

MaximaEntered == \A t \in 1..iNumTasks : aiMaxPoints[t] \in Maxima

IInv == TypeOK /\ Started /\ Linked /\ TasksAgree /\ ScoresSummed /\ MaximaEntered

(***************************************************************************)
(* Prefixes, the search and new candidates.                                *)
(***************************************************************************)
LEMMA PrefixIs ==
  ASSUME NEW S, NEW s \in Seq(S), NEW n \in Nat
  PROVE  /\ Prefix(s, n) \in Seq(S)
         /\ Len(Prefix(s, n)) = IF Len(s) < n THEN Len(s) ELSE n
         /\ Len(s) <= n => Prefix(s, n) = s
<1> DEFINE m == IF Len(s) < n THEN Len(s) ELSE n
<1>1. m \in Nat /\ m <= Len(s) /\ Len(s) \in Nat OBVIOUS
<1>2. \A i \in 1..m : s[i] \in S BY <1>1
<1>3. Prefix(s, n) = SubSeq(s, 1, m) BY DEF Prefix
<1> HIDE DEF m
<1>4. SubSeq(s, 1, m) \in Seq(S) /\ Len(SubSeq(s, 1, m)) = IF 1 <= m THEN m - 1 + 1 ELSE 0
  BY <1>1, <1>2, SubSeqProperties
<1>5. Len(SubSeq(s, 1, m)) = m BY <1>1, <1>4
<1>6. m = Len(s) => SubSeq(s, 1, m) = s BY SubSeqFull
<1> QED BY <1>3, <1>4, <1>5, <1>6 DEF m

\* The chain of a list is a sequence of its nodes.
LEMMA LinkedFacts ==
  ASSUME TypeOK, Linked
  PROVE  /\ Chain \in Seq(Nodes)
         /\ Len(Chain) \in Nat
         /\ \A i \in 1..Len(Chain) : Chain[i] \in Allocated
         /\ DOMAIN Chain = 1..Len(Chain)
<1>1. Chain \in Seq(Nodes) BY DEF Linked, LinkedAs, IsChain
<1>2. \A i \in 1..Len(Chain) : Chain[i] \in Allocated BY DEF Linked, LinkedAs
<1> QED BY <1>1, <1>2

LEMMA FindResult ==
  ASSUME TypeOK, Linked, NEW id
  PROVE  \/ /\ findCandidate(id) = NULL
            /\ \A i \in 1..Len(Chain) : ~SameId(node[Chain[i]].szCandidateID, id)
         \/ \E i \in 1..Len(Chain) :
              /\ findCandidate(id) = Chain[i]
              /\ Chain[i] \in Allocated
              /\ SameId(node[Chain[i]].szCandidateID, id)
<1>1. /\ Len(Chain) \in Nat
      /\ \A i \in 1..Len(Chain) : Chain[i] \in Allocated
  BY LinkedFacts
<1>2. CASE Matches(id) = {} BY <1>2 DEF findCandidate, Matches
<1>3. CASE Matches(id) # {}
  <2> DEFINE IsFirst(i) == i \in Matches(id) /\ \A j \in Matches(id) : i <= j
             k == CHOOSE i \in Matches(id) : \A j \in Matches(id) : i <= j
  <2>1. Matches(id) \subseteq 1..Len(Chain) BY DEF Matches
  <2>2. \E i \in Matches(id) : \A j \in Matches(id) : i <= j
    <3>1. Matches(id) \in SUBSET Nat BY <1>1, <2>1
    <3> QED BY <1>3, <3>1, LeastNat
  <2>3. k \in Matches(id) BY <2>2
  <2>4. findCandidate(id) = Chain[k] BY <1>3 DEF findCandidate
  <2> HIDE DEF k
  <2>5. k \in 1..Len(Chain) /\ SameId(node[Chain[k]].szCandidateID, id)
    BY <2>3 DEF Matches
  <2> QED BY <1>1, <2>4, <2>5
<1> QED BY <1>2, <1>3

LEMMA TailAllocated ==
  ASSUME TypeOK, Linked
  PROVE  pTail \in Allocated \cup {NULL}
BY LinkedFacts DEF Linked, LinkedAs

LEMMA NewCandidateType ==
  ASSUME TypeOK, Linked, NEW id \in Id
  PROVE  /\ NewCandidate(id) \in Candidate
         /\ NewCandidate(id) # Free
         /\ Len(NewCandidate(id).szCandidateID) < MaxIdLen
         /\ Len(NewCandidate(id).atTasks) = iNumTasks
         /\ NewCandidate(id).szCandidateID = Prefix(id, MaxIdLen - 1)
         /\ NewCandidate(id).pPrev = pTail /\ NewCandidate(id).pNext = NULL
         /\ NewCandidate(id).iScore = 0
         /\ NewCandidate(id).atTasks =
              [t \in 1..iNumTasks |-> [iPoints |-> 0, iMaxPoints |-> aiMaxPoints[t],
                                       iGraded |-> FALSE]]
<1> DEFINE tasks == [t \in 1..iNumTasks |->
                       [iPoints |-> 0, iMaxPoints |-> aiMaxPoints[t], iGraded |-> FALSE]]
<1>1. MaxIdLen - 1 \in Nat BY ConstantsAssumption
<1>2. /\ Prefix(id, MaxIdLen - 1) \in Id
      /\ Len(Prefix(id, MaxIdLen - 1)) <= MaxIdLen - 1
  <2>1. id \in Seq(STRING) BY DEF Id
  <2>2. Len(id) \in Nat BY <2>1
  <2> QED BY <1>1, <2>1, <2>2, PrefixIs DEF Id
<1>3. iNumTasks \in Nat /\ \A t \in 1..iNumTasks : aiMaxPoints[t] \in Int
  BY DEF TypeOK, iNumTasks
<1>4. tasks \in Seq(Task) /\ Len(tasks) = iNumTasks
  BY <1>3 DEF Task
<1>5. pTail \in Nodes \cup {NULL} BY DEF TypeOK
<1> HIDE DEF tasks
<1>6. NewCandidate(id) = [szCandidateID |-> Prefix(id, MaxIdLen - 1), atTasks |-> tasks,
                          iScore |-> 0, pPrev |-> pTail, pNext |-> NULL]
  BY DEF NewCandidate, tasks
<1>7. NewCandidate(id) \in Candidate BY <1>2, <1>4, <1>5, <1>6 DEF Candidate
<1>8. NewCandidate(id) # Free BY <1>7, ConstantsAssumption
<1>9. Len(NewCandidate(id).szCandidateID) < MaxIdLen
  BY <1>2, <1>6, ConstantsAssumption DEF Id
<1>10. /\ NewCandidate(id).szCandidateID = Prefix(id, MaxIdLen - 1)
       /\ NewCandidate(id).atTasks = tasks /\ NewCandidate(id).iScore = 0
       /\ NewCandidate(id).pPrev = pTail /\ NewCandidate(id).pNext = NULL
  BY <1>6
<1>11. Len(NewCandidate(id).atTasks) = iNumTasks BY <1>4, <1>10
<1> QED BY <1>7, <1>8, <1>9, <1>10, <1>11, Zenon DEF tasks

(***************************************************************************)
(* addCandidate.                                                           *)
(***************************************************************************)
\* new was appended to the list for id.
Added(id, new) ==
  /\ findCandidate(id) = NULL
  /\ new \in Nodes /\ node[new] = Free
  /\ node' = [n \in Nodes |-> IF n = new THEN NewCandidate(id)
                            ELSE IF n = pTail THEN WithNext(node[n], new)
                            ELSE node[n]]
  /\ pHead' = IF pTail = NULL THEN new ELSE pHead
  /\ pTail' = new
  /\ iCount' = iCount + 1

LEMMA WithNextType ==
  ASSUME NEW c \in Candidate, NEW next \in Nodes
  PROVE  /\ WithNext(c, next) \in Candidate
         /\ WithNext(c, next).szCandidateID = c.szCandidateID
         /\ WithNext(c, next).atTasks = c.atTasks
         /\ WithNext(c, next).iScore = c.iScore
         /\ WithNext(c, next).pPrev = c.pPrev
         /\ WithNext(c, next).pNext = next
BY DEF WithNext, Candidate

LEMMA AddsOrNot ==
  ASSUME NEW id, addCandidate(id)
  PROVE  (\E new \in Nodes : Added(id, new)) \/ UNCHANGED <<list, node>>
BY DEF addCandidate, Added

\* What is in the memory after an addition.
LEMMA AddedMemory ==
  ASSUME TypeOK, Linked, NEW id \in Id, NEW new, Added(id, new)
  PROVE  /\ new \notin Allocated
         /\ node'[new] = NewCandidate(id)
         /\ pTail # NULL => node'[pTail] = WithNext(node[pTail], new)
         /\ \A n \in Nodes \ {new, pTail} : node'[n] = node[n]
         /\ \A n \in Nodes \ {new} :
              /\ node'[n] = Free <=> node[n] = Free
              /\ node[n] # Free => /\ node'[n] \in Candidate
                                   /\ node'[n].szCandidateID = node[n].szCandidateID
                                   /\ node'[n].atTasks = node[n].atTasks
                                   /\ node'[n].iScore = node[n].iScore
                                   /\ node'[n].pPrev = node[n].pPrev
         /\ Allocated' = Allocated \cup {new}
         /\ node' \in [Nodes -> Candidate \cup {Free}]
<1>1. new \in Nodes /\ new \notin Allocated BY DEF Added, Allocated
<1>2. pTail = NULL \/ (pTail \in Nodes /\ pTail \in Allocated /\ pTail # new)
  BY <1>1, TailAllocated DEF Allocated
<1>3. NULL \notin Nodes BY ConstantsAssumption
<1>4. node'[new] = NewCandidate(id) BY <1>1 DEF Added
<1>5. pTail # NULL => node'[pTail] = WithNext(node[pTail], new)
  BY <1>2 DEF Added
<1>6. \A n \in Nodes \ {new, pTail} : node'[n] = node[n] BY DEF Added
<1>7. pTail # NULL =>
        /\ node'[pTail] \in Candidate
        /\ node'[pTail].szCandidateID = node[pTail].szCandidateID
        /\ node'[pTail].atTasks = node[pTail].atTasks
        /\ node'[pTail].iScore = node[pTail].iScore
        /\ node'[pTail].pPrev = node[pTail].pPrev
  <2> SUFFICES ASSUME pTail # NULL
               PROVE  /\ node'[pTail] \in Candidate
                      /\ node'[pTail].szCandidateID = node[pTail].szCandidateID
                      /\ node'[pTail].atTasks = node[pTail].atTasks
                      /\ node'[pTail].iScore = node[pTail].iScore
                      /\ node'[pTail].pPrev = node[pTail].pPrev
    OBVIOUS
  <2>1. node[pTail] \in Candidate BY <1>2 DEF TypeOK, Allocated
  <2> QED BY <1>1, <1>5, <2>1, WithNextType
<1>8. \A n \in Nodes \ {new} :
        /\ node'[n] = Free <=> node[n] = Free
        /\ node[n] # Free => /\ node'[n] \in Candidate
                             /\ node'[n].szCandidateID = node[n].szCandidateID
                             /\ node'[n].atTasks = node[n].atTasks
                             /\ node'[n].iScore = node[n].iScore
                             /\ node'[n].pPrev = node[n].pPrev
  <2> TAKE n \in Nodes \ {new}
  <2>1. CASE n = pTail
    <3>1. node[n] # Free BY <1>2, <1>3, <2>1 DEF Allocated
    <3>2. node'[n] # Free BY <1>3, <1>7, <2>1, ConstantsAssumption
    <3> QED BY <1>3, <1>7, <2>1, <3>1, <3>2
  <2>2. CASE n # pTail
    <3>1. node'[n] = node[n] BY <1>6, <2>2
    <3>2. node[n] # Free => node[n] \in Candidate BY DEF TypeOK
    <3> QED BY <3>1, <3>2
  <2> QED BY <2>1, <2>2
<1>9. NewCandidate(id) \in Candidate /\ NewCandidate(id) # Free BY NewCandidateType
<1>10. Allocated' = Allocated \cup {new} BY <1>1, <1>4, <1>8, <1>9 DEF Allocated
<1>11. node' \in [Nodes -> Candidate \cup {Free}]
  <2>1. \A n \in Nodes : node'[n] \in Candidate \cup {Free}
    BY <1>4, <1>8, <1>9
  <2>2. node' = [n \in Nodes |-> node'[n]] BY DEF Added
  <2> QED BY <2>1, <2>2
<1> QED BY <1>1, <1>4, <1>5, <1>6, <1>8, <1>10, <1>11

LEMMA AddedType ==
  ASSUME TypeOK, Linked, NEW id \in Id, NEW new, Added(id, new),
         pc' \in {"setup", "menu", "loading", "exit"}, lines' \in Seq(Id),
         UNCHANGED aiMaxPoints
  PROVE  TypeOK'
<1>1. new \in Nodes BY DEF Added
<1>2. {pHead', pTail'} \subseteq Nodes \cup {NULL} /\ iCount' \in Nat
  BY <1>1 DEF Added, TypeOK
<1>3. iNumTasks' = iNumTasks BY DEF iNumTasks
<1>4. \A n \in Allocated' : /\ Len(node'[n].szCandidateID) < MaxIdLen
                            /\ Len(node'[n].atTasks) = iNumTasks
  <2> TAKE n \in Allocated'
  <2>1. CASE n = new
    <3>1. node'[new] = NewCandidate(id) BY AddedMemory
    <3> QED BY <2>1, <3>1, NewCandidateType
  <2>2. CASE n # new
    <3>1. n \in Allocated BY <2>2, AddedMemory
    <3>2. n \in Nodes \ {new} /\ node[n] # Free BY <2>2, <3>1 DEF Allocated
    <3>3. /\ node'[n].szCandidateID = node[n].szCandidateID
          /\ node'[n].atTasks = node[n].atTasks
      BY <3>2, AddedMemory
    <3> QED BY <3>1, <3>3 DEF TypeOK
  <2> QED BY <2>1, <2>2
<1>5. node' \in [Nodes -> Candidate \cup {Free}] BY AddedMemory
<1> QED BY <1>2, <1>3, <1>4, <1>5 DEF TypeOK

\* A list that is linked is the chain from pHead; also after a step.
LEMMA LinkedAfter ==
  ASSUME NEW c, LinkedAs(c)'
  PROVE  Chain' = c /\ Linked'
<1>1. IsChain(c, pHead', node') BY DEF LinkedAs, IsChain
<1>2. Chain' = c BY <1>1, ChainIs DEF Chain
<1> QED BY <1>2 DEF Linked, LinkedAs

LEMMA AddedLinks ==
  ASSUME TypeOK, Linked, NEW id \in Id, NEW new, Added(id, new),
         NEW d, d = Append(Chain, new)
  PROVE  LinkedAs(d)'
<1> DEFINE c == Chain
           k == Len(Chain)
<1>1. c \in Seq(Nodes) /\ k \in Nat /\ new \in Nodes BY LinkedFacts DEF Added
<1>2. /\ d \in Seq(Nodes) /\ Len(d) = k + 1
      /\ \A i \in 1..k : d[i] = c[i]
      /\ d[k + 1] = new
  BY <1>1, AppendProperties
<1>3. LinkedAs(c) BY DEF Linked
<1>4. \A i \in 1..k : c[i] \in Allocated /\ c[i] # new
  BY LinkedFacts, AddedMemory
<1>5. Len(c) = 0 <=> pTail = NULL
  <2>1. Len(c) # 0 => pTail \in Nodes BY <1>1, <1>3 DEF LinkedAs
  <2> QED BY <1>1, <1>3, <2>1, ConstantsAssumption DEF LinkedAs
<1> HIDE DEF c, k
<1>6. \A i, j \in 1..Len(d) : d[i] = d[j] => i = j
  <2> SUFFICES ASSUME NEW i \in 1..Len(d), NEW j \in 1..Len(d), d[i] = d[j]
               PROVE  i = j
    OBVIOUS
  <2>1. i \in 1..k \/ i = k + 1 BY <1>1, <1>2
  <2>2. j \in 1..k \/ j = k + 1 BY <1>1, <1>2
  <2>3. CASE i \in 1..k /\ j \in 1..k
    BY <1>2, <1>3, <2>3 DEF LinkedAs, IsChain, c, k
  <2> QED BY <1>2, <1>4, <2>1, <2>2, <2>3
<1>7. pHead' = IF Len(d) = 0 THEN NULL ELSE d[1]
  <2>1. pHead' = IF k = 0 THEN new ELSE pHead BY <1>5 DEF Added, c, k
  <2>2. pHead = IF k = 0 THEN NULL ELSE c[1] BY <1>3 DEF LinkedAs, IsChain, c, k
  <2> QED BY <1>1, <1>2, <2>1, <2>2
<1>8. \A i \in 1..Len(d) : node'[d[i]].pNext = IF i = Len(d) THEN NULL ELSE d[i + 1]
  <2> TAKE i \in 1..Len(d)
  <2>1. CASE i = k + 1
    <3>1. node'[new].pNext = NULL BY AddedMemory, NewCandidateType
    <3> QED BY <1>2, <2>1, <3>1
  <2>2. CASE i = k
    <3>1. k \in 1..k /\ pTail = c[k] /\ pTail # NULL
      BY <1>1, <1>2, <1>3, <1>5, <2>2 DEF LinkedAs, c, k
    <3>2. pTail \in Allocated BY <1>4, <3>1
    <3>3. node[pTail] \in Candidate BY <3>2 DEF Allocated, TypeOK
    <3>4. node'[pTail].pNext = new BY <1>1, <3>1, <3>3, AddedMemory, WithNextType
    <3> QED BY <1>1, <1>2, <2>2, <3>1, <3>4
  <2>3. CASE i \in 1..k-1
    <3>1. i \in 1..k /\ k \in 1..k /\ pTail = c[k] /\ i + 1 \in 1..k
      BY <1>1, <1>3, <2>3 DEF LinkedAs, c, k
    <3>2. c[i] # pTail
      <4>1. c[i] = c[k] => i = k BY <1>3, <3>1 DEF LinkedAs, IsChain, c, k
      <4> QED BY <1>1, <2>3, <3>1, <4>1
    <3>3. c[i] \in Nodes \ {new, pTail} BY <1>1, <1>4, <3>1, <3>2 DEF c, k
    <3>4. node'[c[i]] = node[c[i]] BY <3>3, AddedMemory
    <3>5. node[c[i]].pNext = c[i + 1]
      <4>1. node[c[i]].pNext = IF i = k THEN NULL ELSE c[i + 1]
        BY <1>3, <3>1 DEF LinkedAs, IsChain, c, k
      <4> QED BY <1>1, <2>3, <4>1
    <3> QED BY <1>1, <1>2, <2>3, <3>1, <3>4, <3>5
  <2> QED BY <1>1, <1>2, <2>1, <2>2, <2>3
<1>9. IsChain(d, pHead', node') BY <1>2, <1>6, <1>7, <1>8 DEF IsChain
<1>10. {d[i] : i \in 1..Len(d)} = Allocated'
  <2>1. Allocated' = Allocated \cup {new} BY AddedMemory
  <2>2. Allocated = {c[i] : i \in 1..k} BY <1>3 DEF LinkedAs, c, k
  <2>3. 1..Len(d) = (1..k) \cup {k + 1} BY <1>1, <1>2
  <2> QED BY <1>2, <2>1, <2>2, <2>3
<1>11. \A i \in 1..Len(d) : node'[d[i]].pPrev = IF i = 1 THEN NULL ELSE d[i - 1]
  <2> TAKE i \in 1..Len(d)
  <2>1. CASE i = k + 1
    <3>1. node'[new].pPrev = pTail BY AddedMemory, NewCandidateType
    <3>2. pTail = IF k = 0 THEN NULL ELSE c[k] BY <1>3 DEF LinkedAs, c, k
    <3>3. k # 0 => k \in 1..k /\ (k + 1) - 1 = k BY <1>1
    <3> QED BY <1>1, <1>2, <2>1, <3>1, <3>2, <3>3
  <2>2. CASE i \in 1..k
    <3>1. c[i] \in Nodes \ {new} /\ node[c[i]] # Free
      BY <1>4, <2>2 DEF Allocated
    <3>2. node'[c[i]].pPrev = node[c[i]].pPrev BY <3>1, AddedMemory
    <3>3. node[c[i]].pPrev = IF i = 1 THEN NULL ELSE c[i - 1]
      BY <1>3, <2>2 DEF LinkedAs, c, k
    <3>4. i # 1 => i - 1 \in 1..k BY <1>1, <2>2
    <3> QED BY <1>2, <2>2, <3>2, <3>3, <3>4
  <2> QED BY <1>1, <1>2, <2>1, <2>2
<1>12. iCount' = Len(d) BY <1>2, <1>3 DEF Added, LinkedAs, c, k
<1>13. pTail' = IF Len(d) = 0 THEN NULL ELSE d[Len(d)]
  BY <1>1, <1>2 DEF Added
<1> QED BY <1>9, <1>10, <1>11, <1>12, <1>13 DEF LinkedAs

\* A candidate that is added has no points and no score.
LEMMA AddedScores ==
  ASSUME TypeOK, Linked, TasksAgree, ScoresSummed, NEW id \in Id,
         NEW new, Added(id, new), UNCHANGED aiMaxPoints
  PROVE  TasksAgree' /\ ScoresSummed'
<1>1. iNumTasks' = iNumTasks /\ iNumTasks \in Nat
  BY DEF iNumTasks, TypeOK
<1> DEFINE fresh == [t \in 1..iNumTasks |-> [iPoints |-> 0, iMaxPoints |-> aiMaxPoints[t],
                                             iGraded |-> FALSE]]
<1>2. node'[new].atTasks = fresh /\ node'[new].iScore = 0
  BY AddedMemory, NewCandidateType
<1>3. /\ Len(fresh) = iNumTasks
      /\ \A t \in 1..iNumTasks : /\ fresh[t].iMaxPoints = aiMaxPoints[t]
                                 /\ fresh[t].iPoints = 0 /\ ~fresh[t].iGraded
                                 /\ fresh[t].iMaxPoints \in Nat
  BY <1>1 DEF TypeOK, iNumTasks
<1>4. updateScore(fresh) = 0
  <2> DEFINE s == [t \in 1..Len(fresh) |-> IF fresh[t].iGraded THEN fresh[t].iPoints ELSE 0]
  <2>1. s \in Seq(Int) /\ Len(s) = iNumTasks /\ \A t \in 1..Len(s) : s[t] = 0
    BY <1>1, <1>3
  <2>2. updateScore(fresh) = IntSum(s) BY DEF updateScore
  <2> HIDE DEF s
  <2> QED BY <2>1, <2>2, IntSumOfZeros
<1> HIDE DEF fresh
<1>5. \A n \in Allocated' \ {new} :
        /\ n \in Allocated
        /\ node'[n].atTasks = node[n].atTasks /\ node'[n].iScore = node[n].iScore
  <2> TAKE n \in Allocated' \ {new}
  <2>1. n \in Allocated BY AddedMemory
  <2>2. n \in Nodes \ {new} /\ node[n] # Free BY <2>1 DEF Allocated
  <2> QED BY <2>1, <2>2, AddedMemory
<1>6. ASSUME NEW n \in Allocated', NEW t \in 1..iNumTasks
      PROVE  /\ node'[n].atTasks[t].iMaxPoints = aiMaxPoints[t]
             /\ node'[n].atTasks[t].iPoints \in 0..node'[n].atTasks[t].iMaxPoints
             /\ ~node'[n].atTasks[t].iGraded => node'[n].atTasks[t].iPoints = 0
  <2>1. CASE n = new BY <1>2, <1>3, <2>1
  <2>2. CASE n # new BY <1>5, <2>2 DEF TasksAgree
  <2> QED BY <2>1, <2>2
<1>7. ASSUME NEW n \in Allocated' PROVE node'[n].iScore = updateScore(node'[n].atTasks)
  <2>1. CASE n = new BY <1>2, <1>4, <2>1
  <2>2. CASE n # new BY <1>5, <2>2 DEF ScoresSummed
  <2> QED BY <2>1, <2>2
<1> QED BY <1>1, <1>6, <1>7 DEF TasksAgree, ScoresSummed

(***************************************************************************)
(* gradeTask.                                                              *)
(***************************************************************************)
GradedTasks(tasks, t, p) ==
  [tasks EXCEPT ![t] = [@ EXCEPT !.iPoints = p, !.iGraded = TRUE]]

WithTasks(c, tasks) == [c EXCEPT !.atTasks = tasks, !.iScore = updateScore(tasks)]

LEMMA ScoreType ==
  ASSUME NEW tasks \in Seq(Task)
  PROVE  updateScore(tasks) \in Int
<1> DEFINE s == [t \in 1..Len(tasks) |-> IF tasks[t].iGraded THEN tasks[t].iPoints ELSE 0]
<1>1. \A t \in 1..Len(tasks) : tasks[t].iPoints \in Int
  <2> TAKE t \in 1..Len(tasks)
  <2>1. tasks[t] \in Task OBVIOUS
  <2> QED BY <2>1 DEF Task
<1>2. s \in Seq(Int) BY <1>1
<1>3. updateScore(tasks) = IntSum(s) BY DEF updateScore
<1> HIDE DEF s
<1> QED BY <1>2, <1>3, IntSumType

LEMMA GradedTasksType ==
  ASSUME NEW tasks \in Seq(Task), NEW t \in 1..Len(tasks), NEW p \in Int
  PROVE  /\ GradedTasks(tasks, t, p) \in Seq(Task)
         /\ Len(GradedTasks(tasks, t, p)) = Len(tasks)
         /\ \A u \in 1..Len(tasks) \ {t} : GradedTasks(tasks, t, p)[u] = tasks[u]
         /\ GradedTasks(tasks, t, p)[t].iPoints = p
         /\ GradedTasks(tasks, t, p)[t].iMaxPoints = tasks[t].iMaxPoints
         /\ GradedTasks(tasks, t, p)[t].iGraded
<1>1. tasks[t] \in Task OBVIOUS
<1> DEFINE new == [tasks[t] EXCEPT !.iPoints = p, !.iGraded = TRUE]
<1>2. /\ new \in Task /\ new.iPoints = p /\ new.iGraded
      /\ new.iMaxPoints = tasks[t].iMaxPoints
  BY <1>1 DEF Task
<1> HIDE DEF new
<1>3. GradedTasks(tasks, t, p) = [tasks EXCEPT ![t] = new]
  BY DEF GradedTasks, new
<1>4. [tasks EXCEPT ![t] = new] \in Seq(Task) BY <1>2
<1> QED BY <1>2, <1>3, <1>4

LEMMA WithTasksType ==
  ASSUME NEW c \in Candidate, NEW tasks \in Seq(Task)
  PROVE  /\ WithTasks(c, tasks) \in Candidate
         /\ WithTasks(c, tasks).szCandidateID = c.szCandidateID
         /\ WithTasks(c, tasks).atTasks = tasks
         /\ WithTasks(c, tasks).iScore = updateScore(tasks)
         /\ WithTasks(c, tasks).pPrev = c.pPrev
         /\ WithTasks(c, tasks).pNext = c.pNext
BY ScoreType DEF WithTasks, Candidate

\* What is in the memory after task t of c was graded with p points.
LEMMA GradedMemory ==
  ASSUME TypeOK, NEW c \in Allocated, NEW t \in 1..iNumTasks, NEW p \in Int,
         gradeTask(c, t, p)
  PROVE  LET graded == GradedTasks(node[c].atTasks, t, p)
         IN  /\ node' \in [Nodes -> Candidate \cup {Free}]
             /\ Allocated' = Allocated
             /\ \A n \in Nodes \ {c} : node'[n] = node[n]
             /\ \A n \in Allocated :
                  /\ node'[n].szCandidateID = node[n].szCandidateID
                  /\ node'[n].pPrev = node[n].pPrev
                  /\ node'[n].pNext = node[n].pNext
                  /\ Len(node'[n].atTasks) = Len(node[n].atTasks)
             /\ node'[c].atTasks = graded
             /\ node'[c].iScore = updateScore(graded)
<1> DEFINE graded == GradedTasks(node[c].atTasks, t, p)
<1>1. c \in Nodes /\ node[c] \in Candidate /\ Len(node[c].atTasks) = iNumTasks
  BY DEF Allocated, TypeOK
<1>2. node[c].atTasks \in Seq(Task) BY <1>1 DEF Candidate
<1>3. graded \in Seq(Task) /\ Len(graded) = Len(node[c].atTasks)
  BY <1>1, <1>2, GradedTasksType
<1>4. node' = [node EXCEPT ![c] = WithTasks(node[c], graded)]
  BY DEF gradeTask, GradedTasks, WithTasks
<1> HIDE DEF graded
<1>5. /\ WithTasks(node[c], graded) \in Candidate
      /\ WithTasks(node[c], graded).szCandidateID = node[c].szCandidateID
      /\ WithTasks(node[c], graded).atTasks = graded
      /\ WithTasks(node[c], graded).iScore = updateScore(graded)
      /\ WithTasks(node[c], graded).pPrev = node[c].pPrev
      /\ WithTasks(node[c], graded).pNext = node[c].pNext
  BY <1>1, <1>3, WithTasksType
<1>6. node \in [Nodes -> Candidate \cup {Free}] BY DEF TypeOK
<1>7. /\ node'[c] = WithTasks(node[c], graded)
      /\ \A n \in Nodes \ {c} : node'[n] = node[n]
      /\ node' \in [Nodes -> Candidate \cup {Free}]
  BY <1>1, <1>4, <1>5, <1>6
<1>8. Allocated' = Allocated
  <2>1. node[c] # Free /\ node'[c] # Free
    BY <1>1, <1>5, <1>7, ConstantsAssumption
  <2> QED BY <1>7, <2>1 DEF Allocated
<1>9. \A n \in Allocated :
        /\ node'[n].szCandidateID = node[n].szCandidateID
        /\ node'[n].pPrev = node[n].pPrev
        /\ node'[n].pNext = node[n].pNext
        /\ Len(node'[n].atTasks) = Len(node[n].atTasks)
  BY <1>3, <1>5, <1>7 DEF Allocated
<1> QED BY <1>5, <1>7, <1>8, <1>9 DEF graded

LEMMA GradedKeeps ==
  ASSUME IInv, NEW c \in Allocated, NEW t \in 1..iNumTasks,
         NEW p \in 0..node[c].atTasks[t].iMaxPoints,
         gradeTask(c, t, p), UNCHANGED <<pc, lines, list, aiMaxPoints>>
  PROVE  IInv' /\ Chain' = Chain
<1> DEFINE graded == GradedTasks(node[c].atTasks, t, p)
<1>1. /\ TypeOK /\ Linked /\ TasksAgree /\ ScoresSummed /\ Started
      /\ iNumTasks \in Nat /\ iNumTasks' = iNumTasks
      /\ p \in Int
  BY DEF IInv, TypeOK, iNumTasks
<1>2. /\ node' \in [Nodes -> Candidate \cup {Free}]
      /\ Allocated' = Allocated
      /\ \A n \in Nodes \ {c} : node'[n] = node[n]
      /\ \A n \in Allocated :
           /\ node'[n].szCandidateID = node[n].szCandidateID
           /\ node'[n].pPrev = node[n].pPrev
           /\ node'[n].pNext = node[n].pNext
           /\ Len(node'[n].atTasks) = Len(node[n].atTasks)
      /\ node'[c].atTasks = graded
      /\ node'[c].iScore = updateScore(graded)
  BY <1>1, GradedMemory
<1>3. TypeOK' BY <1>1, <1>2 DEF TypeOK, list
<1>4. Started' BY <1>1, <1>2 DEF Started
<1>5. Linked' /\ Chain' = Chain
  <2> SUFFICES ASSUME NEW d, d = Chain PROVE LinkedAs(d)'
    BY LinkedAfter
  <2>1. LinkedAs(d) BY <1>1 DEF Linked
  <2>2. \A i \in 1..Len(d) : d[i] \in Allocated BY <2>1 DEF LinkedAs
  <2>3. \A i \in 1..Len(d) : /\ node'[d[i]].pNext = node[d[i]].pNext
                             /\ node'[d[i]].pPrev = node[d[i]].pPrev
    BY <1>2, <2>2
  <2>4. IsChain(d, pHead', node') BY <2>1, <2>3 DEF LinkedAs, IsChain, list
  <2> QED BY <1>2, <2>1, <2>3, <2>4 DEF LinkedAs, list
<1>6. node[c].atTasks \in Seq(Task) /\ Len(node[c].atTasks) = iNumTasks
  BY <1>1 DEF TypeOK, Allocated, Candidate
<1>7. /\ \A u \in 1..iNumTasks \ {t} : graded[u] = node[c].atTasks[u]
      /\ graded[t].iPoints = p
      /\ graded[t].iMaxPoints = node[c].atTasks[t].iMaxPoints
      /\ graded[t].iGraded
  BY <1>1, <1>6, GradedTasksType
<1> HIDE DEF graded
<1>8. ASSUME NEW n \in Allocated, NEW u \in 1..iNumTasks
      PROVE  /\ node'[n].atTasks[u].iMaxPoints = aiMaxPoints[u]
             /\ node'[n].atTasks[u].iPoints \in 0..node'[n].atTasks[u].iMaxPoints
             /\ ~node'[n].atTasks[u].iGraded => node'[n].atTasks[u].iPoints = 0
  <2>1. /\ node[n].atTasks[u].iMaxPoints = aiMaxPoints[u]
        /\ node[n].atTasks[u].iPoints \in 0..node[n].atTasks[u].iMaxPoints
        /\ ~node[n].atTasks[u].iGraded => node[n].atTasks[u].iPoints = 0
    BY <1>1 DEF TasksAgree
  <2>2. CASE n = c /\ u = t BY <1>2, <1>7, <2>1, <2>2
  <2>3. CASE n = c /\ u # t BY <1>2, <1>7, <2>1, <2>3
  <2>4. CASE n # c
    <3>1. node'[n] = node[n] BY <1>2, <2>4 DEF Allocated
    <3> QED BY <2>1, <3>1
  <2> QED BY <2>2, <2>3, <2>4
<1>9. TasksAgree' BY <1>1, <1>2, <1>8 DEF TasksAgree
<1>10. ASSUME NEW n \in Allocated PROVE node'[n].iScore = updateScore(node'[n].atTasks)
  <2>1. CASE n = c BY <1>2, <2>1
  <2>2. CASE n # c BY <1>1, <1>2, <2>2 DEF ScoresSummed, Allocated
  <2> QED BY <2>1, <2>2
<1>11. ScoresSummed' BY <1>2, <1>10 DEF ScoresSummed
<1>12. MaximaEntered' BY <1>1 DEF IInv, MaximaEntered
<1> QED BY <1>3, <1>4, <1>5, <1>9, <1>11, <1>12 DEF IInv

(***************************************************************************)
(* The invariant is inductive.                                             *)
(***************************************************************************)
\* The list without candidates.
LEMMA NoneLinked ==
  ASSUME pHead = NULL, pTail = NULL, iCount = 0, Allocated = {}
  PROVE  LinkedAs(<<>>)
<1>1. <<>> \in Seq(Nodes) /\ Len(<<>>) = 0 /\ 1..0 = {} OBVIOUS
<1>2. IsChain(<<>>, pHead, node) BY <1>1 DEF IsChain
<1> QED BY <1>1, <1>2 DEF LinkedAs

LEMMA InitKeeps ==
  ASSUME Init
  PROVE  IInv
<1>1. Allocated = {} BY DEF Init, Allocated
<1>2. iNumTasks = 0 BY DEF Init, iNumTasks
<1>3. TypeOK BY <1>1, <1>2, ConstantsAssumption DEF Init, TypeOK
<1>4. Linked
  <2>1. LinkedAs(<<>>) BY <1>1, NoneLinked DEF Init
  <2>2. IsChain(<<>>, pHead, node) BY <2>1 DEF LinkedAs
  <2>3. Chain = <<>> BY <2>2, ChainIs DEF Chain
  <2> QED BY <2>1, <2>3 DEF Linked
<1>5. MaximaEntered BY <1>2 DEF MaximaEntered
<1> QED BY <1>1, <1>3, <1>4, <1>5 DEF IInv, Started, TasksAgree, ScoresSummed, Init

\* A step that changes neither the list nor the memory nor the exam.
LEMMA ListStays ==
  ASSUME IInv, UNCHANGED <<list, aiMaxPoints, node>>,
         pc' \in {"setup", "menu", "loading", "exit"}, lines' \in Seq(Id), Started'
  PROVE  IInv' /\ Chain' = Chain
<1>1. Allocated' = Allocated /\ iNumTasks' = iNumTasks
  BY DEF Allocated, iNumTasks
<1>2. TypeOK' BY <1>1 DEF IInv, TypeOK, list
<1>3. Linked' /\ Chain' = Chain
  <2> SUFFICES ASSUME NEW d, d = Chain PROVE LinkedAs(d)'
    BY LinkedAfter
  <2>1. LinkedAs(d) BY DEF IInv, Linked
  <2>2. IsChain(d, pHead', node') BY <2>1 DEF LinkedAs, list
  <2> QED BY <1>1, <2>1, <2>2 DEF LinkedAs, list
<1>4. TasksAgree' /\ ScoresSummed' /\ MaximaEntered'
  BY <1>1 DEF IInv, TasksAgree, ScoresSummed, MaximaEntered
<1> QED BY <1>2, <1>3, <1>4 DEF IInv

LEMMA AddKeeps ==
  ASSUME IInv, NEW id \in Id, addCandidate(id), UNCHANGED aiMaxPoints,
         pc \in {"menu", "loading"}, pc' \in {"menu", "loading"}, lines' \in Seq(Id)
  PROVE  IInv'
<1>1. Started' BY DEF IInv, Started
<1>2. CASE UNCHANGED <<list, node>> BY <1>1, <1>2, ListStays
<1>3. ASSUME NEW new \in Nodes, Added(id, new) PROVE IInv'
  <2>1. TypeOK /\ Linked /\ TasksAgree /\ ScoresSummed BY DEF IInv
  <2>2. TypeOK' BY <1>3, <2>1, AddedType
  <2>3. Linked'
    <3> DEFINE d == Append(Chain, new)
    <3>1. PICK e : e = d OBVIOUS
    <3>2. LinkedAs(e)' BY <1>3, <2>1, <3>1, AddedLinks
    <3> QED BY <3>2, LinkedAfter
  <2>4. TasksAgree' /\ ScoresSummed' BY <1>3, <2>1, AddedScores
  <2>5. MaximaEntered' BY DEF IInv, MaximaEntered, iNumTasks
  <2> QED BY <1>1, <2>2, <2>3, <2>4, <2>5 DEF IInv
<1> QED BY <1>2, <1>3, AddsOrNot

LEMMA SetupKeeps ==
  ASSUME IInv, setupExam
  PROVE  IInv' /\ Chain' = Chain
<1>1. Allocated = {} /\ Allocated' = {} /\ pc = "setup"
  BY DEF IInv, Started, setupExam, Allocated
<1>2. CASE pc' = "exit" /\ UNCHANGED aiMaxPoints
  <2>1. Started' BY <1>1, <1>2 DEF IInv, Started
  <2>2. lines' \in Seq(Id) BY DEF setupExam, IInv, TypeOK
  <2> QED BY <1>2, <2>1, <2>2, ListStays DEF setupExam
<1>3. ASSUME NEW n \in 1..MaxTasks, NEW m \in [1..n -> Maxima \cap (Nat \ {0})],
             pc' = "menu", aiMaxPoints' = m
      PROVE  IInv' /\ Chain' = Chain
  <2>1. n \in Nat /\ n # 0 /\ n <= MaxTasks BY ConstantsAssumption
  <2>2. m \in Seq(Nat \ {0}) /\ Len(m) = n
    <3>1. m \in [1..n -> Nat \ {0}] OBVIOUS
    <3> QED BY <2>1, <3>1
  <2>3. TypeOK' BY <1>1, <1>3, <2>1, <2>2 DEF setupExam, IInv, TypeOK, iNumTasks, list
  <2>4. Started' BY <1>1, <1>3, <2>1, <2>2 DEF Started
  <2>5. Linked' /\ Chain' = Chain
    <3> SUFFICES ASSUME NEW d, d = Chain PROVE LinkedAs(d)'
      BY LinkedAfter
    <3>1. LinkedAs(d) BY DEF IInv, Linked
    <3>2. IsChain(d, pHead', node') BY <3>1 DEF LinkedAs, list, setupExam
    <3> QED BY <1>1, <3>1, <3>2 DEF LinkedAs, list, setupExam
  <2>6. TasksAgree' /\ ScoresSummed' BY <1>1 DEF TasksAgree, ScoresSummed
  <2>7. MaximaEntered' BY <1>3, <2>1, <2>2 DEF MaximaEntered, iNumTasks
  <2> QED BY <2>3, <2>4, <2>5, <2>6, <2>7 DEF IInv
<1> QED BY <1>2, <1>3 DEF setupExam

\* Every node of the memory is in the list, and so freed.
LEMMA Freed ==
  ASSUME IInv, freeList
  PROVE  /\ Allocated' = {} /\ node' \in [Nodes -> Candidate \cup {Free}]
         /\ LinkedAs(<<>>)'
<1>1. \A n \in Nodes : node'[n] = Free
  <2> TAKE n \in Nodes
  <2>1. n \in Allocated => \E i \in 1..Len(Chain) : Chain[i] = n
    BY DEF IInv, Linked, LinkedAs
  <2> QED BY <2>1 DEF freeList, Allocated
<1>2. Allocated' = {} BY <1>1 DEF Allocated
<1>3. node' \in [Nodes -> Candidate \cup {Free}] BY <1>1 DEF freeList
<1>4. <<>> \in Seq(Nodes) /\ Len(<<>>) = 0 /\ 1..0 = {} OBVIOUS
<1>5. IsChain(<<>>, pHead', node') BY <1>4 DEF IsChain, freeList
<1>6. LinkedAs(<<>>)' BY <1>2, <1>4, <1>5 DEF LinkedAs, freeList
<1> QED BY <1>2, <1>3, <1>6

LEMMA ExitKeeps ==
  ASSUME IInv, freeList, pc' = "exit", UNCHANGED <<lines, aiMaxPoints>>
  PROVE  IInv' /\ Chain' = <<>>
<1>1. /\ Allocated' = {} /\ node' \in [Nodes -> Candidate \cup {Free}]
      /\ LinkedAs(<<>>)'
  BY Freed
<1>2. Linked' /\ Chain' = <<>> BY <1>1, LinkedAfter
<1>3. TypeOK' BY <1>1 DEF IInv, TypeOK, iNumTasks, freeList
<1>4. Started' BY <1>1 DEF Started
<1>5. TasksAgree' /\ ScoresSummed' BY <1>1 DEF TasksAgree, ScoresSummed
<1>6. MaximaEntered' BY DEF IInv, MaximaEntered, iNumTasks
<1> QED BY <1>2, <1>3, <1>4, <1>5, <1>6 DEF IInv

THEOREM IInvInductive ==
  ASSUME IInv, [Next]_vars
  PROVE  IInv'
<1>1. CASE setupExam BY <1>1, SetupKeeps
<1>2. CASE menuAddManual
  <2>1. PICK id \in TypedIds : addCandidate(id) BY <1>2 DEF menuAddManual
  <2>2. id \in Id BY ConstantsAssumption
  <2>3. UNCHANGED <<pc, lines, aiMaxPoints>> /\ pc = "menu" BY <1>2 DEF menuAddManual
  <2>4. lines' \in Seq(Id) BY <2>3 DEF IInv, TypeOK
  <2> QED BY <2>1, <2>2, <2>3, <2>4, AddKeeps
<1>3. CASE menuLoadFile
  <2>1. Started' BY <1>3 DEF menuLoadFile, IInv, Started, Allocated
  <2>2. lines' \in Seq(Id) /\ pc' \in {"setup", "menu", "loading", "exit"}
    BY <1>3, ConstantsAssumption DEF menuLoadFile, IInv, TypeOK
  <2> QED BY <1>3, <2>1, <2>2, ListStays DEF menuLoadFile
<1>4. CASE LoadLine
  <2>1. CASE lines = <<>> /\ pc' = "menu" /\ UNCHANGED <<lines, list, node>>
    <3>1. Started' BY <1>4, <2>1 DEF LoadLine, IInv, Started, Allocated
    <3>2. lines' \in Seq(Id) BY <2>1 DEF IInv, TypeOK
    <3> QED BY <1>4, <2>1, <3>1, <3>2, ListStays DEF LoadLine
  <2>2. CASE lines # <<>> /\ lines' = Tail(lines)
             /\ (UNCHANGED <<list, node>> \/ addCandidate(Head(lines))) /\ UNCHANGED pc
    <3>1. lines \in Seq(Id) BY DEF IInv, TypeOK
    <3>2. Head(lines) \in Id /\ lines' \in Seq(Id) BY <2>2, <3>1, HeadTailProperties
    <3>3. pc = "loading" /\ pc' = "loading" /\ UNCHANGED aiMaxPoints
      BY <1>4, <2>2 DEF LoadLine
    <3>4. CASE UNCHANGED <<list, node>>
      <4>1. Started' BY <3>3 DEF IInv, Started
      <4> QED BY <3>2, <3>3, <3>4, <4>1, ListStays
    <3>5. CASE addCandidate(Head(lines)) BY <3>2, <3>3, <3>5, AddKeeps
    <3> QED BY <2>2, <3>4, <3>5
  <2> QED BY <1>4, <2>1, <2>2 DEF LoadLine
<1>5. CASE menuGradeTask
  <2>1. PICK id \in TypedIds, t \in Tasks, p \in Points :
          /\ findCandidate(id) # NULL
          /\ t \in 1..iNumTasks
          /\ p >= 0 /\ p <= node[findCandidate(id)].atTasks[t].iMaxPoints
          /\ gradeTask(findCandidate(id), t, p)
    BY <1>5 DEF menuGradeTask
  <2>2. PICK c \in Allocated : c = findCandidate(id)
    <3>1. TypeOK /\ Linked BY DEF IInv
    <3> QED BY <2>1, <3>1, FindResult
  <2>3. p \in 0..node[c].atTasks[t].iMaxPoints
    <3>1. p \in Int BY ConstantsAssumption
    <3>2. node[c].atTasks[t].iMaxPoints \in Int
      BY <2>1 DEF IInv, TasksAgree, TypeOK, iNumTasks
    <3> QED BY <2>1, <2>2, <3>1, <3>2
  <2>4. UNCHANGED <<pc, lines, list, aiMaxPoints>> BY <1>5 DEF menuGradeTask
  <2> QED BY <2>1, <2>2, <2>3, <2>4, GradedKeeps
<1>6. CASE Exit BY <1>6, ExitKeeps DEF Exit
<1>7. CASE UNCHANGED vars
  <2>1. Started' BY <1>7 DEF IInv, Started, Allocated, vars
  <2>2. lines' \in Seq(Id) /\ pc' \in {"setup", "menu", "loading", "exit"}
    BY <1>7 DEF IInv, TypeOK, vars
  <2> QED BY <1>7, <2>1, <2>2, ListStays DEF vars
<1> QED BY <1>1, <1>2, <1>3, <1>4, <1>5, <1>6, <1>7 DEF Next, Ended

\* The fields keep their types; an ID always fits its array with its zero, and
\* every candidate has as many tasks as the exam.
THEOREM TypeCorrect == Spec => []TypeOK
<1>1. Init => IInv BY InitKeeps
<1>2. IInv /\ [Next]_vars => IInv' BY IInvInductive
<1>3. IInv => TypeOK BY DEF IInv
<1> QED BY <1>1, <1>2, <1>3, PTL DEF Spec

\* Through every addition, load, grading and the exit, the two directions of the
\* list agree with each other, with iCount and with what is allocated; so
\* freeList frees each node once and leaves none.
THEOREM ListAgrees == Spec => []ListWellFormed
<1>1. IInv => ListWellFormed
  <2> SUFFICES ASSUME IInv PROVE ListWellFormed
    OBVIOUS
  <2>1. /\ Chain \in Seq(Nodes) /\ Len(Chain) \in Nat
        /\ \A i, j \in 1..Len(Chain) : Chain[i] = Chain[j] => i = j
        /\ DOMAIN Chain = 1..Len(Chain)
    BY DEF IInv, Linked, LinkedAs, IsChain
  <2>2. Listed = Allocated BY <2>1 DEF IInv, Linked, LinkedAs, Listed
  <2>3. Cardinality(Listed) = Len(Chain)
    <3>1. Chain \in [1..Len(Chain) -> Listed] BY <2>1 DEF Listed
    <3>2. Chain \in Bijection(1..Len(Chain), Listed)
      BY <2>1, <3>1 DEF Bijection, Injection, IsInjective, Surjection, Listed
    <3>3. ExistsBijection(1..Len(Chain), Listed) BY <3>2 DEF ExistsBijection
    <3> QED BY <2>1, <3>3, FS_CountingElements
  <2>4. Chain = <<>> <=> Len(Chain) = 0 BY <2>1
  <2> QED BY <2>1, <2>2, <2>3, <2>4 DEF IInv, Linked, LinkedAs, ListWellFormed
<1>2. Init => IInv BY InitKeeps
<1>3. IInv /\ [Next]_vars => IInv' BY IInvInductive
<1> QED BY <1>1, <1>2, <1>3, PTL DEF Spec

(***************************************************************************)
(* Scores and grades.                                                      *)
(***************************************************************************)
\* What the tasks of a candidate show adds up in an int, within the exam.
LEMMA ScoreIsSum ==
  ASSUME IInv, NEW b \in Nat, \A m \in Maxima : m <= b, MaxTasks * b <= IntMax,
         NEW n \in Allocated
  PROVE  /\ node[n].iScore =
              Sum([t \in 1..Len(node[n].atTasks) |-> node[n].atTasks[t].iPoints])
         /\ node[n].iScore \in 0..calcTotalMax
<1> DEFINE tasks == node[n].atTasks
           s == [t \in 1..Len(tasks) |-> tasks[t].iPoints]
           g == [t \in 1..Len(tasks) |-> IF tasks[t].iGraded THEN tasks[t].iPoints ELSE 0]
           m == aiMaxPoints
<1>1. Len(tasks) = Len(m) /\ Len(m) \in Nat /\ m \in Seq(Nat) /\ Len(m) <= MaxTasks
  BY DEF IInv, TypeOK, iNumTasks
<1>2. \A t \in 1..Len(m) : /\ tasks[t].iMaxPoints = m[t] /\ m[t] \in Nat /\ m[t] <= b
                           /\ tasks[t].iPoints \in 0..tasks[t].iMaxPoints
                           /\ ~tasks[t].iGraded => tasks[t].iPoints = 0
  BY <1>1 DEF IInv, TasksAgree, MaximaEntered, iNumTasks
<1>3. node[n].iScore = IntSum(g) BY DEF IInv, ScoresSummed, updateScore
<1>4. g = s BY <1>1, <1>2
<1>5. s \in Seq(Nat) /\ Len(s) = Len(m) /\ \A t \in 1..Len(m) : s[t] = tasks[t].iPoints
  BY <1>1, <1>2
<1> HIDE DEF s, g, m, tasks
<1>6. \A t \in 1..Len(m) : s[t] <= m[t] /\ m[t] <= b
  BY <1>2, <1>5
<1>7. Len(m) * b <= IntMax
  <2>1. MaxTasks \in Nat BY ConstantsAssumption
  <2>2. PICK r \in Nat : MaxTasks = Len(m) + r
    <3>1. MaxTasks - Len(m) \in Nat /\ MaxTasks = Len(m) + (MaxTasks - Len(m))
      BY <1>1, <2>1
    <3> QED BY <3>1
  <2>3. MaxTasks * b = Len(m) * b + r * b /\ r * b \in Nat /\ Len(m) * b \in Nat
    BY <1>1, <2>2
  <2> QED BY <2>3, ConstantsAssumption
<1>8. IntSum(s) = Sum(s) /\ IntSum(m) = Sum(m) /\ Sum(s) \in 0..Sum(m)
  BY <1>1, <1>5, <1>6, <1>7, SumsWithin
<1> QED BY <1>3, <1>4, <1>8 DEF calcTotalMax, s, m, tasks

\* While the maxima of an exam can be added up in an int, every score is the sum
\* of the points its tasks show, after any gradings and regradings, and none is
\* more than the total of the exam.
THEOREM ScoresAdd ==
  ASSUME NEW b \in Nat, \A m \in Maxima : m <= b, MaxTasks * b <= IntMax
  PROVE  Spec => []ScoreWithinTotal
<1>1. IInv => ScoreWithinTotal
  <2> SUFFICES ASSUME IInv, NEW n \in Allocated
               PROVE  /\ node[n].iScore = Sum([t \in 1..Len(node[n].atTasks) |->
                                                 node[n].atTasks[t].iPoints])
                      /\ node[n].iScore <= calcTotalMax
    BY DEF ScoreWithinTotal
  <2>1. /\ node[n].iScore = Sum([t \in 1..Len(node[n].atTasks) |->
                                   node[n].atTasks[t].iPoints])
        /\ node[n].iScore \in 0..calcTotalMax
    BY ScoreIsSum
  <2> QED BY <2>1
<1>2. Init => IInv BY InitKeeps
<1>3. IInv /\ [Next]_vars => IInv' BY IInvInductive
<1> QED BY <1>1, <1>2, <1>3, PTL DEF Spec

\* The total of an exam with a task is at least 1, and within its bound.
LEMMA TotalIs ==
  ASSUME IInv, aiMaxPoints # <<>>, NEW b \in Nat, \A m \in Maxima : m <= b,
         MaxTasks * b <= IntMax
  PROVE  calcTotalMax \in Nat /\ calcTotalMax >= 1 /\ calcTotalMax <= MaxTasks * b
<1> DEFINE m == aiMaxPoints
<1>1. Len(m) \in Nat /\ Len(m) >= 1 /\ Len(m) <= MaxTasks /\ m \in Seq(Nat)
  <2>1. m \in Seq(Nat \ {0}) /\ Len(m) <= MaxTasks BY DEF IInv, TypeOK, iNumTasks
  <2> QED BY <2>1
<1>2. \A t \in 1..Len(m) : m[t] <= m[t] /\ m[t] <= b /\ m[t] >= 1
  <2>1. m \in Seq(Nat \ {0}) BY DEF IInv, TypeOK
  <2>2. \A t \in 1..Len(m) : m[t] \in Nat \ {0} BY <2>1
  <2> QED BY <2>2 DEF IInv, MaximaEntered, iNumTasks
<1>3. Len(m) * b <= MaxTasks * b
  <2>1. MaxTasks \in Nat BY ConstantsAssumption
  <2>2. PICK r \in Nat : MaxTasks = Len(m) + r
    <3>1. MaxTasks - Len(m) \in Nat /\ MaxTasks = Len(m) + (MaxTasks - Len(m))
      BY <1>1, <2>1
    <3> QED BY <3>1
  <2>3. MaxTasks * b = Len(m) * b + r * b /\ r * b \in Nat /\ Len(m) * b \in Nat
    BY <1>1, <2>2
  <2> QED BY <2>3
<1> HIDE DEF m
<1>4. Len(m) * b \in Nat /\ MaxTasks * b \in Nat /\ IntMax \in Nat
  BY <1>1, ConstantsAssumption
<1>5. Len(m) * b <= IntMax BY <1>3, <1>4
<1>6. /\ IntSum(m) = Sum(m) /\ Sum(m) \in 0..Len(m) * b
      /\ Sum(m) >= Len(m)
  BY <1>1, <1>2, <1>5, SumsWithin
<1> QED BY <1>1, <1>3, <1>4, <1>6 DEF calcTotalMax, m

\* A quotient rounded down reaches a number exactly when the fraction does.
LEMMA QuotientReaches ==
  ASSUME NEW a \in Nat, NEW t \in Nat \ {0}, NEW k \in Nat
  PROVE  a \div t >= k <=> a >= k * t
<1> DEFINE q == a \div t
           r == a % t
<1>1. q \in Nat /\ r \in 0..t-1 /\ a = t * q + r OBVIOUS
<1> HIDE DEF q, r
<1>2. CASE q >= k
  <2>1. PICK d \in Nat : q = k + d
    <3>1. q - k \in Nat /\ q = k + (q - k) BY <1>1, <1>2
    <3> QED BY <3>1
  <2>2. a = k * t + d * t + r BY <1>1, <2>1
  <2>3. d * t \in Nat /\ k * t \in Nat BY <2>1
  <2>4. a >= k * t BY <1>1, <2>2, <2>3
  <2> QED BY <1>2, <2>4 DEF q
<1>3. CASE ~(q >= k)
  <2>1. PICK d \in Nat : k = q + 1 + d
    <3>1. k - (q + 1) \in Nat /\ k = q + 1 + (k - (q + 1)) BY <1>1, <1>3
    <3> QED BY <3>1
  <2>2. k * t = t * q + t + d * t BY <1>1, <2>1
  <2>3. d * t \in Nat /\ t * q \in Nat BY <1>1, <2>1
  <2>4. a < k * t BY <1>1, <2>2, <2>3
  <2> QED BY <1>1, <1>3, <2>4 DEF q
<1> QED BY <1>2, <1>3

LEMMA GradeIsExact ==
  ASSUME NEW total \in Nat \ {0}, NEW score \in 0..total, 100 * total <= IntMax
  PROVE  calcGrade(score, total) = ExactGrade(score, total)
<1> DEFINE percent == Div(Int32(score * 100), total)
<1>1. IntMax \in Nat /\ score \in Nat /\ score * 100 \in 0..IntMax
  BY ConstantsAssumption
<1>2. Int32(score * 100) = score * 100 BY <1>1, Int32Type
<1>3. percent = (score * 100) \div total BY <1>1, <1>2 DEF Div
<1> HIDE DEF percent
<1>4. DOMAIN Letters = 1..5 /\ \A i \in 1..5 : Letters[i].from \in Nat
  BY DEF Letters
<1>5. \A i \in DOMAIN Letters :
        percent >= Letters[i].from <=> score * 100 >= Letters[i].from * total
  BY <1>1, <1>3, <1>4, QuotientReaches
<1> DEFINE reached == {i \in DOMAIN Letters : percent >= Letters[i].from}
           exact   == {i \in DOMAIN Letters : score * 100 >= Letters[i].from * total}
<1>6. reached = exact BY <1>5
<1>7. calcGrade(score, total) =
        IF total <= 0 \/ reached = {} THEN "F"
        ELSE Letters[CHOOSE i \in reached : \A j \in reached : i <= j].letter
  BY DEF calcGrade, percent
<1>8. ExactGrade(score, total) =
        IF exact = {} THEN "F"
        ELSE Letters[CHOOSE i \in exact : \A j \in exact : i <= j].letter
  BY DEF ExactGrade
<1>9. ~(total <= 0) OBVIOUS
<1> HIDE DEF reached, exact
<1> QED BY <1>6, <1>7, <1>8, <1>9

LEMMA GradeIsLetter ==
  ASSUME NEW score, NEW total
  PROVE  ExactGrade(score, total) \in {"A", "B", "C", "D", "E", "F"}
<1> DEFINE exact == {i \in DOMAIN Letters : score * 100 >= Letters[i].from * total}
           k == CHOOSE i \in exact : \A j \in exact : i <= j
<1>1. DOMAIN Letters = 1..5
      /\ \A i \in 1..5 : Letters[i].letter \in {"A", "B", "C", "D", "E", "F"}
  BY DEF Letters
<1>2. ExactGrade(score, total) = IF exact = {} THEN "F" ELSE Letters[k].letter
  BY DEF ExactGrade
<1>3. exact # {} => k \in 1..5
  <2>1. exact \in SUBSET Nat BY <1>1
  <2> SUFFICES ASSUME exact # {} PROVE k \in 1..5
    OBVIOUS
  <2>2. \E i \in exact : \A j \in exact : i <= j
    <3> HIDE DEF exact
    <3> QED BY <2>1, LeastNat
  <2>3. k \in exact BY <2>2
  <2> QED BY <1>1, <2>3
<1> HIDE DEF k, exact
<1> QED BY <1>1, <1>2, <1>3

\* While a hundred times the total of an exam fits an int, calcGrade gives every
\* score the letter of its exact share of the total, although it rounds, and the
\* reports of the six letters show each candidate exactly once.
THEOREM GradesFollow ==
  ASSUME NEW b \in Nat, \A m \in Maxima : m <= b, 100 * (MaxTasks * b) <= IntMax
  PROVE  Spec => []GradeFollowsScore
<1>1. MaxTasks * b \in Nat /\ MaxTasks * b <= IntMax BY ConstantsAssumption
<1>2. IInv => GradeFollowsScore
  <2> SUFFICES ASSUME IInv PROVE GradeFollowsScore
    OBVIOUS
  <2>1. aiMaxPoints # <<>> => /\ calcTotalMax \in Nat \ {0}
                              /\ 100 * calcTotalMax <= IntMax
    <3> SUFFICES ASSUME aiMaxPoints # <<>>
                 PROVE  calcTotalMax \in Nat \ {0} /\ 100 * calcTotalMax <= IntMax
      OBVIOUS
    <3>1. calcTotalMax \in Nat /\ calcTotalMax >= 1 /\ calcTotalMax <= MaxTasks * b
      BY <1>1, TotalIs
    <3> QED BY <1>1, <3>1, ConstantsAssumption
  <2>2. pc = "menu" => \A score \in 0..calcTotalMax :
          calcGrade(score, calcTotalMax) = ExactGrade(score, calcTotalMax)
    BY <2>1, GradeIsExact DEF IInv, Started
  <2>3. ASSUME NEW i \in DOMAIN Chain
        PROVE  {l \in {"A", "B", "C", "D", "E", "F"} : i \in printByGrade(l)}
                 = {ExactGrade(node[Chain[i]].iScore, calcTotalMax)}
    <3>1. TypeOK /\ Linked BY DEF IInv
    <3>2. Chain[i] \in Allocated BY <3>1, LinkedFacts
    <3>3. aiMaxPoints # <<>> BY <3>2 DEF IInv, Started, TypeOK
    <3>4. node[Chain[i]].iScore \in 0..calcTotalMax BY <1>1, <3>2, ScoreIsSum
    <3>5. GradeOf(Chain[i]) = ExactGrade(node[Chain[i]].iScore, calcTotalMax)
      BY <2>1, <3>3, <3>4, GradeIsExact DEF GradeOf
    <3>6. ExactGrade(node[Chain[i]].iScore, calcTotalMax) \in {"A", "B", "C", "D", "E", "F"}
      BY GradeIsLetter
    <3> QED BY <3>5, <3>6 DEF printByGrade
  <2> QED BY <2>2, <2>3 DEF GradeFollowsScore
<1>3. Init => IInv BY InitKeeps
<1>4. IInv /\ [Next]_vars => IInv' BY IInvInductive
<1> QED BY <1>2, <1>3, <1>4, PTL DEF Spec

(***************************************************************************)
(* IDs.  A line of a file at least as long as an ID may be is searched for *)
(* whole and stored cut, and may so enter twice: what follows is about     *)
(* files of shorter lines.  The IDs that are typed are cut by fgets.       *)
(***************************************************************************)
ShortLines == \A f \in Files : \A i \in 1..Len(f) : Len(f[i]) < MaxIdLen

LinesShort == \A i \in 1..Len(lines) : Len(lines[i]) < MaxIdLen

SInv == IInv /\ LinesShort /\ IdsDistinct

\* An ID that fits is stored as it is, and found when it is there.
LEMMA ShortIds ==
  ASSUME NEW a \in Id, NEW b \in Id, Len(a) < MaxIdLen, Len(b) < MaxIdLen
  PROVE  Prefix(a, MaxIdLen - 1) = a /\ (SameId(a, b) <=> a = b)
<1>1. a \in Seq(STRING) /\ b \in Seq(STRING) BY DEF Id
<1>2. /\ MaxIdLen \in Nat /\ MaxIdLen - 1 \in Nat
      /\ Len(a) <= MaxIdLen - 1 /\ Len(a) <= MaxIdLen /\ Len(b) <= MaxIdLen
  BY <1>1, ConstantsAssumption
<1>3. Prefix(a, MaxIdLen - 1) = a /\ Prefix(a, MaxIdLen) = a /\ Prefix(b, MaxIdLen) = b
  BY <1>1, <1>2, PrefixIs
<1> QED BY <1>3 DEF SameId

\* What an addition does to the list, where IDs are short.
LEMMA AddedLast ==
  ASSUME IInv, NEW id \in Id, Len(id) < MaxIdLen, NEW new, Added(id, new)
  PROVE  /\ Chain' = Append(Chain, new)
         /\ node'[new].szCandidateID = id
         /\ \A n \in Allocated : /\ node'[n].szCandidateID = node[n].szCandidateID
                                 /\ node'[n].atTasks = node[n].atTasks
                                 /\ node[n].szCandidateID # id
         /\ new \notin Allocated /\ Allocated' = Allocated \cup {new}
<1>1. TypeOK /\ Linked BY DEF IInv
<1>2. Chain' = Append(Chain, new)
  <2>1. PICK d : d = Append(Chain, new) OBVIOUS
  <2>2. LinkedAs(d)' BY <1>1, <2>1, AddedLinks
  <2> QED BY <2>1, <2>2, LinkedAfter
<1>3. node'[new].szCandidateID = id
  <2>1. node'[new] = NewCandidate(id) BY <1>1, AddedMemory
  <2>2. NewCandidate(id).szCandidateID = Prefix(id, MaxIdLen - 1)
    BY <1>1, NewCandidateType
  <2>3. Prefix(id, MaxIdLen - 1) = id BY ShortIds
  <2> QED BY <2>1, <2>2, <2>3
<1>4. new \notin Allocated /\ Allocated' = Allocated \cup {new} BY <1>1, AddedMemory
<1>5. \A n \in Allocated : /\ node'[n].szCandidateID = node[n].szCandidateID
                           /\ node'[n].atTasks = node[n].atTasks
  BY <1>1, <1>4, AddedMemory DEF Allocated
<1>6. ASSUME NEW n \in Allocated PROVE node[n].szCandidateID # id
  <2>1. PICK i \in 1..Len(Chain) : Chain[i] = n BY <1>1 DEF Linked, LinkedAs
  <2>2. /\ Len(Chain) \in Nat /\ \A j \in 1..Len(Chain) : Chain[j] \in Allocated
        /\ Allocated \subseteq Nodes
    BY <1>1, LinkedFacts DEF Allocated
  <2>3. findCandidate(id) = NULL BY DEF Added
  <2>4. ~SameId(node[n].szCandidateID, id)
    BY <1>1, <2>1, <2>2, <2>3, FindResult, ConstantsAssumption
  <2>5. node[n].szCandidateID \in Id /\ Len(node[n].szCandidateID) < MaxIdLen
    BY <1>1 DEF TypeOK, Allocated, Candidate
  <2> QED BY <2>4, <2>5, ShortIds
<1> QED BY <1>2, <1>3, <1>4, <1>5, <1>6

LEMMA AddKeepsIds ==
  ASSUME IInv, IdsDistinct, NEW id \in Id, Len(id) < MaxIdLen, addCandidate(id)
  PROVE  IdsDistinct'
<1>1. CASE UNCHANGED <<list, node>> BY <1>1 DEF IdsDistinct, Allocated
<1>2. ASSUME NEW new \in Nodes, Added(id, new) PROVE IdsDistinct'
  <2>1. /\ node'[new].szCandidateID = id
        /\ \A n \in Allocated : /\ node'[n].szCandidateID = node[n].szCandidateID
                                /\ node[n].szCandidateID # id
        /\ Allocated' = Allocated \cup {new}
    BY <1>2, AddedLast
  <2> QED BY <2>1 DEF IdsDistinct
<1> QED BY <1>1, <1>2, AddsOrNot

LEMMA SInvInductive ==
  ASSUME ShortLines, SInv, [Next]_vars
  PROVE  SInv'
<1>1. IInv' BY IInvInductive DEF SInv
<1>2. lines \in Seq(Id) BY DEF SInv, IInv, TypeOK
<1>3. CASE UNCHANGED <<lines, list, node>>
  <2>1. LinesShort' BY <1>3 DEF SInv, LinesShort
  <2>2. IdsDistinct' BY <1>3 DEF SInv, IdsDistinct, Allocated
  <2> QED BY <1>1, <2>1, <2>2 DEF SInv
<1>4. CASE setupExam BY <1>3, <1>4 DEF setupExam
<1>5. CASE menuAddManual
  <2>1. PICK id \in TypedIds : addCandidate(id) BY <1>5 DEF menuAddManual
  <2>2. id \in Id /\ Len(id) < MaxIdLen BY ConstantsAssumption
  <2>3. IdsDistinct' BY <2>1, <2>2, AddKeepsIds DEF SInv
  <2>4. LinesShort' BY <1>5 DEF menuAddManual, SInv, LinesShort
  <2> QED BY <1>1, <2>3, <2>4 DEF SInv
<1>6. CASE menuLoadFile
  <2>1. LinesShort' BY <1>6 DEF menuLoadFile, SInv, LinesShort, ShortLines
  <2>2. IdsDistinct' BY <1>6 DEF menuLoadFile, SInv, IdsDistinct, Allocated
  <2> QED BY <1>1, <2>1, <2>2 DEF SInv
<1>7. CASE LoadLine
  <2>1. CASE lines # <<>> /\ lines' = Tail(lines)
             /\ (UNCHANGED <<list, node>> \/ addCandidate(Head(lines)))
    <3>1. /\ Head(lines) \in Id /\ Head(lines) = lines[1]
          /\ Len(lines) \in Nat /\ Len(lines) >= 1
          /\ Len(Tail(lines)) = Len(lines) - 1
          /\ \A i \in 1..Len(Tail(lines)) : Tail(lines)[i] = lines[i + 1]
      BY <1>2, <2>1, HeadTailProperties
    <3>2. Len(Head(lines)) < MaxIdLen BY <3>1 DEF SInv, LinesShort
    <3>3. LinesShort'
      <4>1. \A i \in 1..Len(lines') : i + 1 \in 1..Len(lines) BY <2>1, <3>1
      <4> QED BY <2>1, <3>1, <4>1 DEF SInv, LinesShort
    <3>4. IdsDistinct'
      <4>1. CASE UNCHANGED <<list, node>> BY <4>1 DEF SInv, IdsDistinct, Allocated
      <4>2. CASE addCandidate(Head(lines)) BY <3>1, <3>2, <4>2, AddKeepsIds DEF SInv
      <4> QED BY <2>1, <4>1, <4>2
    <3> QED BY <1>1, <3>3, <3>4 DEF SInv
  <2> QED BY <1>3, <1>7, <2>1 DEF LoadLine
<1>8. CASE menuGradeTask
  <2>1. PICK id \in TypedIds, t \in Tasks, p \in Points :
          /\ findCandidate(id) # NULL /\ t \in 1..iNumTasks
          /\ gradeTask(findCandidate(id), t, p)
    BY <1>8 DEF menuGradeTask
  <2>2. TypeOK /\ Linked BY DEF SInv, IInv
  <2>3. PICK c \in Allocated : c = findCandidate(id) BY <2>1, <2>2, FindResult
  <2>4. p \in Int BY ConstantsAssumption
  <2>5. /\ Allocated' = Allocated
        /\ \A n \in Allocated : node'[n].szCandidateID = node[n].szCandidateID
    BY <2>1, <2>2, <2>3, <2>4, GradedMemory
  <2>6. IdsDistinct' BY <2>5 DEF SInv, IdsDistinct
  <2>7. LinesShort' BY <1>8 DEF menuGradeTask, SInv, LinesShort
  <2> QED BY <1>1, <2>6, <2>7 DEF SInv
<1>9. CASE Exit
  <2>1. Allocated' = {} BY <1>9, Freed DEF Exit, SInv
  <2>2. LinesShort' BY <1>9 DEF Exit, SInv, LinesShort
  <2> QED BY <1>1, <2>1, <2>2 DEF SInv, IdsDistinct
<1>10. CASE UNCHANGED vars BY <1>3, <1>10 DEF vars
<1> QED BY <1>4, <1>5, <1>6, <1>7, <1>8, <1>9, <1>10 DEF Next, Ended

LEMMA SInvAtFirst ==
  ASSUME Init
  PROVE  SInv
<1>1. IInv BY InitKeeps
<1>2. LinesShort BY DEF Init, LinesShort
<1>3. IdsDistinct BY DEF Init, IdsDistinct, Allocated
<1> QED BY <1>1, <1>2, <1>3 DEF SInv

\* Where no line of a file is as long as an ID may be, no two candidates have the
\* same ID, typed or loaded, in whatever order; the run grading_duplicate shows
\* that without this condition they may.
THEOREM NoDuplicates ==
  ASSUME ShortLines
  PROVE  Spec => []IdsDistinct
<1>1. Init => SInv BY SInvAtFirst
<1>2. SInv /\ [Next]_vars => SInv' BY SInvInductive
<1>3. SInv => IdsDistinct BY DEF SInv
<1> QED BY <1>1, <1>2, <1>3, PTL DEF Spec

(***************************************************************************)
(* The list keeps the book.                                                *)
(***************************************************************************)
\* The marks of a candidate, as the book has them.
MarksOf(tasks, n) ==
  [t \in 1..n |-> IF tasks[t].iGraded THEN tasks[t].iPoints ELSE Ungraded]

LEMMA RecordedIs ==
  Recorded = [i \in 1..Len(Chain) |->
                [id    |-> node[Chain[i]].szCandidateID,
                 marks |-> MarksOf(node[Chain[i]].atTasks, iNumTasks)]]
BY DEF Recorded, MarksOf

LEMMA NothingRecorded ==
  ASSUME Chain' = <<>>
  PROVE  Recorded' = <<>>
<1>1. Len(<<>>) = 0 /\ 1..0 = {} OBVIOUS
<1> QED BY <1>1 DEF Recorded

LEMMA StillRecorded ==
  ASSUME Chain' = Chain, UNCHANGED <<node, aiMaxPoints>>
  PROVE  Recorded' = Recorded
BY DEF Recorded, iNumTasks

\* A mark entered in a book.
LEMMA MarkEntered ==
  ASSUME NEW k \in Nat, NEW ids, NEW marks, NEW i \in 1..k, NEW t, NEW p
  PROVE  [[j \in 1..k |-> [id |-> ids[j], marks |-> marks[j]]] EXCEPT ![i].marks[t] = p]
           = [j \in 1..k |-> [id    |-> ids[j],
                              marks |-> IF j = i THEN [marks[j] EXCEPT ![t] = p]
                                        ELSE marks[j]]]
<1> DEFINE new == [id |-> ids[i], marks |-> [marks[i] EXCEPT ![t] = p]]
           book == [j \in 1..k |-> [id |-> ids[j], marks |-> marks[j]]]
<1>1. [book[i] EXCEPT !.marks = [@ EXCEPT ![t] = p]] = new OBVIOUS
<1>2. [book EXCEPT ![i].marks[t] = p]
        = [j \in 1..k |-> IF j = i THEN new ELSE book[j]]
  BY <1>1
<1> QED BY <1>2

LEMMA Enrols ==
  ASSUME IInv, NEW id \in Id, Len(id) < MaxIdLen, addCandidate(id), UNCHANGED aiMaxPoints,
         pc \in {"menu", "loading"}, pc' \in {"menu", "loading"}
  PROVE  [Book!Next]_(Book!vars)
<1>1. pc # "exit" /\ pc' # "exit" OBVIOUS
<1>2. CASE UNCHANGED <<list, node>>
  <2>1. Chain' = Chain BY <1>2 DEF Chain, list
  <2>2. Recorded' = Recorded BY <1>2, <2>1, StillRecorded
  <2> QED BY <1>1, <2>2 DEF Book!vars
<1>3. ASSUME NEW new \in Nodes, Added(id, new) PROVE Book!Enrol
  <2> DEFINE k == Len(Chain)
             last == [id |-> id, marks |-> [t \in 1..iNumTasks |-> Ungraded]]
  <2>1. /\ Chain' = Append(Chain, new)
        /\ node'[new].szCandidateID = id
        /\ \A n \in Allocated : /\ node'[n].szCandidateID = node[n].szCandidateID
                                /\ node'[n].atTasks = node[n].atTasks
                                /\ node[n].szCandidateID # id
    BY <1>3, AddedLast
  <2>2. /\ Chain \in Seq(Nodes) /\ k \in Nat
        /\ \A i \in 1..k : Chain[i] \in Allocated
    BY LinkedFacts DEF IInv
  <2>3. /\ Len(Chain') = k + 1 /\ Chain'[k + 1] = new
        /\ \A i \in 1..k : Chain'[i] = Chain[i]
    BY <2>1, <2>2, AppendProperties
  <2>4. iNumTasks' = iNumTasks BY DEF iNumTasks
  <2>5. Recorded' = [i \in 1..k+1 |->
                       [id    |-> node'[Chain'[i]].szCandidateID,
                        marks |-> MarksOf(node'[Chain'[i]].atTasks, iNumTasks)]]
    BY <2>3, <2>4 DEF Recorded, MarksOf
  <2>6. MarksOf(node'[new].atTasks, iNumTasks) = [t \in 1..iNumTasks |-> Ungraded]
    <3>1. node'[new] = NewCandidate(id) BY <1>3, AddedMemory DEF IInv
    <3>2. node'[new].atTasks = [t \in 1..iNumTasks |->
                                  [iPoints |-> 0, iMaxPoints |-> aiMaxPoints[t],
                                   iGraded |-> FALSE]]
      BY <3>1, NewCandidateType DEF IInv
    <3> QED BY <3>2 DEF MarksOf
  <2>7. Recorded'[k + 1] = last
    <3>1. k + 1 \in 1..k+1 BY <2>2
    <3>2. Recorded'[k + 1] = [id    |-> node'[new].szCandidateID,
                              marks |-> MarksOf(node'[new].atTasks, iNumTasks)]
      BY <2>3, <2>5, <3>1
    <3> QED BY <2>1, <2>6, <3>2
  <2>8. \A i \in 1..k : Recorded'[i] = Recorded[i]
    BY <2>1, <2>2, <2>3, <2>5, RecordedIs
  <2>9. Recorded = [i \in 1..k |-> Recorded[i]] /\ Len(Recorded) = k
    BY <2>2, RecordedIs
  <2>10. Recorded' = [i \in 1..k+1 |-> Recorded'[i]] /\ Len(Recorded') = k + 1
    BY <2>2, <2>5
  <2>11. Recorded' = Append(Recorded, last)
    BY <2>2, <2>7, <2>8, <2>9, <2>10
  <2>12. \A i \in 1..k : Recorded[i].id # id BY <2>1, <2>2, RecordedIs
  <2>13. aiMaxPoints # <<>> BY DEF IInv, Started
  <2>14. last.id = id /\ last.marks = [t \in 1..Len(aiMaxPoints) |-> Ungraded]
    BY DEF iNumTasks
  <2> HIDE DEF last, k
  <2> QED BY <1>1, <2>7, <2>9, <2>10, <2>11, <2>12, <2>13, <2>14 DEF Book!Enrol
<1> QED BY <1>2, <1>3, AddsOrNot DEF Book!Next

LEMMA Grades ==
  ASSUME IInv, pc = "menu", NEW c \in Allocated, NEW t \in 1..iNumTasks,
         NEW p \in 0..node[c].atTasks[t].iMaxPoints,
         gradeTask(c, t, p), UNCHANGED <<pc, lines, list, aiMaxPoints>>
  PROVE  Book!Grade
<1> DEFINE k == Len(Chain)
           ids == [i \in 1..k |-> node[Chain[i]].szCandidateID]
           marks == [i \in 1..k |-> MarksOf(node[Chain[i]].atTasks, iNumTasks)]
<1>1. /\ Chain \in Seq(Nodes) /\ k \in Nat
      /\ \A j \in 1..k : Chain[j] \in Allocated
      /\ \A a, d \in 1..k : Chain[a] = Chain[d] => a = d
  BY LinkedFacts DEF IInv, Linked, LinkedAs, IsChain
<1>2. PICK i \in 1..k : Chain[i] = c BY DEF IInv, Linked, LinkedAs
<1>3. Chain' = Chain /\ iNumTasks' = iNumTasks BY GradedKeeps DEF iNumTasks
<1>4. /\ \A n \in Nodes \ {c} : node'[n] = node[n]
      /\ \A n \in Allocated : node'[n].szCandidateID = node[n].szCandidateID
      /\ node'[c].atTasks = GradedTasks(node[c].atTasks, t, p)
  <2>1. TypeOK /\ p \in Int BY DEF IInv
  <2> QED BY <2>1, GradedMemory
<1>5. MarksOf(GradedTasks(node[c].atTasks, t, p), iNumTasks)
        = [MarksOf(node[c].atTasks, iNumTasks) EXCEPT ![t] = p]
  <2> DEFINE tasks == node[c].atTasks
             graded == GradedTasks(tasks, t, p)
  <2>1. tasks \in Seq(Task) /\ Len(tasks) = iNumTasks /\ p \in Int
    BY DEF IInv, TypeOK, Allocated, Candidate
  <2>2. /\ \A u \in 1..iNumTasks \ {t} : graded[u] = tasks[u]
        /\ graded[t].iPoints = p /\ graded[t].iGraded
    BY <2>1, GradedTasksType
  <2> HIDE DEF graded, tasks
  <2>3. MarksOf(graded, iNumTasks) = [MarksOf(tasks, iNumTasks) EXCEPT ![t] = p]
    BY <2>2 DEF MarksOf
  <2> QED BY <2>3 DEF graded, tasks
<1>6. Recorded' = [j \in 1..k |->
                     [id    |-> ids[j],
                      marks |-> IF j = i THEN [marks[j] EXCEPT ![t] = p] ELSE marks[j]]]
  <2>1. Recorded' = [j \in 1..k |->
                       [id    |-> node'[Chain[j]].szCandidateID,
                        marks |-> MarksOf(node'[Chain[j]].atTasks, iNumTasks)]]
    BY <1>3 DEF Recorded, MarksOf
  <2>2. \A j \in 1..k : node'[Chain[j]].szCandidateID = ids[j] BY <1>1, <1>4
  <2>3. ASSUME NEW j \in 1..k
        PROVE  MarksOf(node'[Chain[j]].atTasks, iNumTasks)
                 = IF j = i THEN [marks[j] EXCEPT ![t] = p] ELSE marks[j]
    <3>1. marks[j] = MarksOf(node[Chain[j]].atTasks, iNumTasks) OBVIOUS
    <3> HIDE DEF marks, ids
    <3>2. CASE j = i BY <1>2, <1>4, <1>5, <3>1, <3>2
    <3>3. CASE j # i
      <4>1. Chain[j] \in Nodes \ {c} BY <1>1, <1>2, <3>3
      <4>2. node'[Chain[j]] = node[Chain[j]] BY <1>4, <4>1
      <4> QED BY <3>1, <3>3, <4>2
    <3> QED BY <3>2, <3>3
  <2> HIDE DEF ids, marks, k
  <2> QED BY <2>1, <2>2, <2>3
<1>7. Recorded = [j \in 1..k |-> [id |-> ids[j], marks |-> marks[j]]]
  BY RecordedIs
<1> HIDE DEF ids, marks
<1>8. Recorded' = [Recorded EXCEPT ![i].marks[t] = p]
  BY <1>1, <1>6, <1>7, MarkEntered
<1>9. Len(Recorded) = k BY <1>1, <1>7
<1>10. t \in 1..Len(aiMaxPoints) /\ p \in 0..aiMaxPoints[t]
  BY DEF IInv, TasksAgree, iNumTasks
<1> QED BY <1>3, <1>8, <1>9, <1>10 DEF Book!Grade

LEMMA BookStep ==
  ASSUME ShortLines, SInv, [Next]_vars
  PROVE  [Book!Next]_(Book!vars)
<1>1. IInv BY DEF SInv
<1>2. CASE setupExam
  <2>1. Allocated = {} /\ pc = "setup" /\ aiMaxPoints = <<>>
    BY <1>1, <1>2 DEF IInv, Started, setupExam
  <2>2. Chain = <<>> /\ Chain' = <<>>
    <3>1. Chain' = Chain BY <1>1, <1>2, SetupKeeps
    <3>2. Chain \in Seq(Nodes) /\ Len(Chain) = 0
      BY <1>1, <2>1, LinkedFacts DEF IInv
    <3> QED BY <3>1, <3>2
  <2>3. Recorded' = <<>> BY <2>2, NothingRecorded
  <2>4. Recorded = <<>>
    <3>1. Len(<<>>) = 0 /\ 1..0 = {} OBVIOUS
    <3> QED BY <2>2, <3>1 DEF Recorded
  <2>5. CASE pc' = "exit" /\ UNCHANGED aiMaxPoints
    <3>1. Book!Close BY <2>1, <2>3, <2>5 DEF Book!Close
    <3> QED BY <3>1 DEF Book!Next
  <2>6. CASE pc' = "menu" /\ \E n \in 1..MaxTasks :
               \E m \in [1..n -> Maxima \cap (Nat \ {0})] : aiMaxPoints' = m
    <3>1. PICK n \in 1..MaxTasks :
            \E m \in [1..n -> Maxima \cap (Nat \ {0})] : aiMaxPoints' = m
      BY <2>6
    <3>2. PICK m \in [1..n -> Maxima \cap (Nat \ {0})] : aiMaxPoints' = m
      BY <3>1
    <3>3. m \in Seq(Nat \ {0}) /\ m # <<>>
      <4>1. n \in Nat /\ n # 0 /\ m \in [1..n -> Nat \ {0}] BY ConstantsAssumption
      <4>2. m \in Seq(Nat \ {0}) /\ Len(m) = n BY <4>1
      <4> QED BY <4>1, <4>2
    <3>4. Book!Setup BY <2>1, <2>3, <2>4, <2>6, <3>2, <3>3 DEF Book!Setup
    <3> QED BY <3>4 DEF Book!Next
  <2> QED BY <1>2, <2>5, <2>6 DEF setupExam
<1>3. CASE menuAddManual
  <2>1. PICK id \in TypedIds : addCandidate(id) BY <1>3 DEF menuAddManual
  <2>2. id \in Id /\ Len(id) < MaxIdLen BY ConstantsAssumption
  <2> QED BY <1>1, <1>3, <2>1, <2>2, Enrols DEF menuAddManual
<1>4. ASSUME UNCHANGED <<list, aiMaxPoints, node>>, pc # "exit", pc' # "exit"
      PROVE  [Book!Next]_(Book!vars)
  <2>1. Chain' = Chain BY <1>4 DEF Chain, list
  <2>2. Recorded' = Recorded BY <1>4, <2>1, StillRecorded
  <2> QED BY <1>4, <2>2 DEF Book!vars
<1>5. CASE menuLoadFile BY <1>4, <1>5 DEF menuLoadFile
<1>6. CASE LoadLine
  <2>1. CASE lines # <<>> /\ addCandidate(Head(lines)) /\ UNCHANGED pc
    <3>1. lines \in Seq(Id) BY <1>1 DEF IInv, TypeOK
    <3>2. Head(lines) \in Id /\ Head(lines) = lines[1] /\ 1 \in 1..Len(lines)
      BY <2>1, <3>1
    <3>3. Len(Head(lines)) < MaxIdLen BY <3>2 DEF SInv, LinesShort
    <3> QED BY <1>1, <1>6, <2>1, <3>2, <3>3, Enrols DEF LoadLine
  <2> QED BY <1>4, <1>6, <2>1 DEF LoadLine
<1>7. CASE menuGradeTask
  <2>1. PICK id \in TypedIds, t \in Tasks, p \in Points :
          /\ findCandidate(id) # NULL
          /\ t \in 1..iNumTasks
          /\ p >= 0 /\ p <= node[findCandidate(id)].atTasks[t].iMaxPoints
          /\ gradeTask(findCandidate(id), t, p)
    BY <1>7 DEF menuGradeTask
  <2>2. PICK c \in Allocated : c = findCandidate(id)
    <3>1. TypeOK /\ Linked BY <1>1 DEF IInv
    <3> QED BY <2>1, <3>1, FindResult
  <2>3. p \in 0..node[c].atTasks[t].iMaxPoints
    <3>1. p \in Int BY ConstantsAssumption
    <3>2. node[c].atTasks[t].iMaxPoints \in Int
      BY <1>1, <2>1 DEF IInv, TasksAgree, TypeOK, iNumTasks
    <3> QED BY <2>1, <2>2, <3>1, <3>2
  <2>4. Book!Grade BY <1>1, <1>7, <2>1, <2>2, <2>3, Grades DEF menuGradeTask
  <2> QED BY <2>4 DEF Book!Next
<1>8. CASE Exit
  <2>1. Chain' = <<>> BY <1>1, <1>8, ExitKeeps DEF Exit
  <2>2. Recorded' = <<>> BY <2>1, NothingRecorded
  <2>3. Book!Close BY <1>8, <2>2 DEF Exit, Book!Close
  <2> QED BY <2>3 DEF Book!Next
<1>9. CASE UNCHANGED vars
  <2>1. Chain' = Chain BY <1>9 DEF Chain, list, vars
  <2>2. Recorded' = Recorded BY <1>9, <2>1, StillRecorded DEF vars
  <2> QED BY <1>9, <2>2 DEF Book!vars, vars
<1> QED BY <1>2, <1>3, <1>5, <1>6, <1>7, <1>8, <1>9 DEF Next, Ended

\* Where no line of a file is as long as an ID may be, the list, its memory and
\* the menu implement GradeBook: candidates in the order they came, each ID
\* once, a mark within the maximum of its task, and nothing else changed.
THEOREM KeepsBook ==
  ASSUME ShortLines
  PROVE  Spec => ImplementsBook
<1>1. Init => SInv BY SInvAtFirst
<1>2. Init => Book!Init
  <2> SUFFICES ASSUME Init PROVE Book!Init
    OBVIOUS
  <2>1. IInv BY InitKeeps
  <2>2. Allocated = {} BY DEF Init, Allocated
  <2>3. Chain \in Seq(Nodes) /\ Len(Chain) = 0
    BY <2>1, <2>2, LinkedFacts DEF IInv
  <2>4. Recorded = <<>>
    <3>1. Len(<<>>) = 0 /\ 1..0 = {} OBVIOUS
    <3> QED BY <2>3, <3>1 DEF Recorded
  <2> QED BY <2>4 DEF Init, Book!Init
<1>3. SInv /\ [Next]_vars => SInv' BY SInvInductive
<1>4. SInv /\ [Next]_vars => [Book!Next]_(Book!vars) BY BookStep
<1> QED BY <1>1, <1>2, <1>3, <1>4, PTL DEF Spec, ImplementsBook, Book!Spec
=============================================================================

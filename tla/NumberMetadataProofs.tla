------------------------ MODULE NumberMetadataProofs ------------------------
(***************************************************************************)
(* Proofs about NumberMetadata, for an int of any width and inputs of any  *)
(* length: the records name their numbers whichever records are lost, and  *)
(* what the eight predicates say of a number is true.                      *)
(***************************************************************************)
EXTENDS NumberMetadata, NatLemmas

(***************************************************************************)
(* PART 1.  The place of a record.                                         *)
(***************************************************************************)

\* A record, as far as its place goes.
RecordType ==
  [iIndex : Nat, iNumber : Ints,
   bIsFibonacci : BOOLEAN, bIsPrimeNumber : BOOLEAN, bIsSquareNumber : BOOLEAN,
   bIsCubeNumber : BOOLEAN, bIsPerfectNumber : BOOLEAN, bIsAbundantNumber : BOOLEAN,
   bIsDeficientNumber : BOOLEAN, bIsOddNumber : BOOLEAN]

\* The index is one behind the read position while a number is in hand, which
\* is then the one read last.
IndexFollows ==
  /\ numbers \in Seq(Ints)
  /\ fpos \in 0..Len(numbers) /\ index \in Nat
  /\ IF pc = "fibonacci" THEN fpos = index + 1 /\ number = numbers[fpos]
                         ELSE fpos = index

RecordsKept == written \in Seq(RecordType)

NInv == IndexFollows /\ RecordsKept /\ IndexNamesNumber

\* What Write makes of the number in hand is a record.
LEMMA RecordIsRecord ==
  ASSUME index \in Nat, NEW n \in Ints, NEW fib \in BOOLEAN, NEW root
  PROVE  /\ Record(n, fib, root) \in RecordType
         /\ Record(n, fib, root).iIndex = index /\ Record(n, fib, root).iNumber = n
<1>1. /\ isPrime(n) \in BOOLEAN /\ isSquareNumber(n) \in BOOLEAN
      /\ isCubeNumber(n, root) \in BOOLEAN /\ isPerfectNumber(n) \in BOOLEAN
      /\ isAbundantNumber(n) \in BOOLEAN /\ isDeficientNumber(n) \in BOOLEAN
      /\ isOdd(n) \in BOOLEAN
  BY DEF isPrime, isSquareNumber, isCubeNumber, isPerfectNumber, isAbundantNumber,
         isDeficientNumber, isOdd
<1> QED
  BY <1>1 DEF Record, RecordType

\* One more record, of the number the index stands for.
LEMMA OneMoreRecord ==
  ASSUME RecordsKept, IndexNamesNumber, index \in Nat, UNCHANGED numbers, index' = index + 1,
         NEW r \in RecordType, r.iIndex = index, r.iNumber = numbers[index + 1],
         written' = Append(written, r)
  PROVE  RecordsKept' /\ IndexNamesNumber'
<1> DEFINE l == Len(written)
<1>1. written \in Seq(RecordType) /\ l \in Nat
  BY DEF RecordsKept
<1>2. written' \in Seq(RecordType) /\ Len(written') = l + 1
  BY <1>1
<1>3. written'[l + 1] = r /\ \A k \in 1..l : written'[k] = written[k]
  BY <1>1
<1>4. DOMAIN written = 1..l /\ DOMAIN written' = 1..l + 1
  BY <1>1, <1>2
<1>5. \A k \in 1..l : /\ written[k].iIndex \in Nat /\ written[k].iIndex < index
                      /\ numbers[written[k].iIndex + 1] = written[k].iNumber
  <2>1. \A k \in 1..l : written[k] \in RecordType /\ written[k] \in Records
    BY <1>1, <1>4 DEF Records, Range
  <2>2. \A s \in RecordType : s.iIndex \in Nat
    BY DEF RecordType
  <2> QED
    BY <2>1, <2>2 DEF IndexNamesNumber
<1>6. \A k \in 1..l + 1 : k \in 1..l \/ k = l + 1
  BY <1>1
<1> HIDE DEF l
<1>7. ASSUME NEW s \in Records'
      PROVE  s.iIndex < index' /\ numbers'[s.iIndex + 1] = s.iNumber
  <2>1. PICK k \in 1..l + 1 : s = written'[k]
    BY <1>4 DEF Records, Range
  <2>2. CASE k \in 1..l
    <3>1. s = written[k] /\ s.iIndex \in Nat /\ s.iIndex < index
          /\ numbers[s.iIndex + 1] = s.iNumber
      BY <1>3, <1>5, <2>1, <2>2
    <3>2. s.iIndex < index'
      BY <3>1
    <3> QED
      BY <3>1, <3>2
  <2>3. CASE k = l + 1
    <3>1. s = r
      BY <1>3, <2>1, <2>3
    <3>2. s.iIndex < index' /\ s.iIndex + 1 = index + 1
      BY <3>1
    <3> QED
      BY <3>1, <3>2
  <2> QED
    BY <1>6, <2>2, <2>3
<1>8. ASSUME NEW j \in 1..l + 1, NEW k \in 1..l + 1, j < k
      PROVE  written'[j].iIndex < written'[k].iIndex
  <2>1. j \in 1..l
    BY <1>1, <1>8
  <2>2. CASE k \in 1..l
    BY <1>3, <1>4, <1>8, <2>1, <2>2 DEF IndexNamesNumber
  <2>3. CASE k = l + 1
    BY <1>3, <1>5, <2>1, <2>3
  <2> QED
    BY <1>6, <2>2, <2>3
<1> QED
  BY <1>2, <1>4, <1>7, <1>8 DEF RecordsKept, IndexNamesNumber

\* Every step keeps the records in place.
LEMMA RecordStep ==
  ASSUME NInv, [Next]_vars
  PROVE  NInv'
<1> USE DEF NInv
<1>1. CASE Scan
  <2>1. UNCHANGED <<numbers, index, written>> /\ pc = "scan" /\ fpos = index
    BY <1>1 DEF Scan, IndexFollows
  <2>2. IndexFollows'
    <3>1. Len(numbers) \in Nat
      BY DEF IndexFollows
    <3> QED
      BY <1>1, <2>1, <3>1 DEF Scan, IndexFollows
  <2> QED
    BY <2>1, <2>2 DEF RecordsKept, IndexNamesNumber, Records
<1>2. CASE Write
  <2>1. /\ pc = "fibonacci" /\ pc' = "scan" /\ index' = index + 1
        /\ UNCHANGED <<numbers, fpos, number>>
    BY <1>2 DEF Write
  <2>2. index \in Nat /\ fpos = index + 1 /\ number = numbers[fpos] /\ fpos \in 0..Len(numbers)
    BY <2>1 DEF IndexFollows
  <2>3. number \in Ints
    <3>1. fpos \in 1..Len(numbers) /\ numbers \in Seq(Ints)
      BY <2>2 DEF IndexFollows
    <3> QED
      BY <2>2, <3>1
  <2>4. IndexFollows'
    BY <2>1, <2>2 DEF IndexFollows
  <2>5. CASE UNCHANGED written
    <3>1. \A r \in Records : r.iIndex < index'
      <4>1. \A r \in Records : r \in RecordType
        BY DEF RecordsKept, Records, Range
      <4>2. \A r \in RecordType : r.iIndex \in Nat
        BY DEF RecordType
      <4> QED
        BY <2>1, <2>2, <4>1, <4>2 DEF IndexNamesNumber
    <3> QED
      BY <2>1, <2>4, <2>5, <3>1 DEF RecordsKept, IndexNamesNumber, Records
  <2>6. ASSUME NEW root, written' = Append(written, Record(number, c = number, root))
        PROVE  RecordsKept' /\ IndexNamesNumber'
    <3> DEFINE r == Record(number, c = number, root)
    <3>1. r \in RecordType /\ r.iIndex = index /\ r.iNumber = number
      BY <2>2, <2>3, RecordIsRecord
    <3> HIDE DEF r
    <3>2. r.iNumber = numbers[index + 1]
      BY <2>2, <3>1
    <3> QED
      BY <2>1, <2>2, <2>6, <3>1, <3>2, OneMoreRecord DEF r
  <2> QED
    BY <1>2, <2>4, <2>5, <2>6 DEF Write
<1>3. CASE Open \/ FibonacciRound \/ Close \/ Done \/ UNCHANGED vars
  <2>1. /\ UNCHANGED <<numbers, fpos, number, index, written>>
        /\ pc' = "fibonacci" <=> pc = "fibonacci"
    BY <1>3 DEF Open, FibonacciRound, Close, Done, vars
  <2> QED
    BY <2>1 DEF IndexFollows, RecordsKept, IndexNamesNumber, Records
<1> QED
  BY <1>1, <1>2, <1>3 DEF Next

\* IndexNamesNumber for every input: records come in the order of the numbers
\* and each names its own, also behind a record that was lost.
THEOREM IndicesNameNumbers == Spec => []IndexNamesNumber
<1>1. ASSUME Init
      PROVE  NInv
  <2>1. numbers \in Seq(Ints)
    BY <1>1, NumbersAssumption DEF Init
  <2>2. Len(numbers) \in Nat
    BY <2>1
  <2>3. <<>> \in Seq(RecordType) /\ DOMAIN <<>> = {}
    OBVIOUS
  <2>4. IndexFollows
    BY <1>1, <2>1, <2>2 DEF Init, IndexFollows
  <2>5. IndexNamesNumber
    BY <1>1, <2>3 DEF Init, IndexNamesNumber, Records, Range
  <2> QED
    BY <1>1, <2>3, <2>4, <2>5 DEF Init, NInv, RecordsKept
<1>2. NInv /\ [Next]_vars => NInv'
  BY RecordStep
<1>3. NInv => IndexNamesNumber
  BY DEF NInv
<1> QED
  BY <1>1, <1>2, <1>3, PTL DEF Spec

(***************************************************************************)
(* PART 2.  Ints.                                                          *)
(***************************************************************************)
\* How many ints there are, and that 0 and 1 are two of them.
Width == 2 * (IntMax + 1)

LEMMA IntFacts ==
  /\ IntMax \in Nat /\ IntMax > 2 /\ IntMin = -IntMax - 1 /\ IntMin \in Int
  /\ Width \in Nat \ {0} /\ IntMin + (Width - 1) = IntMax
  /\ 0 \in Ints /\ 1 \in Ints /\ Ints \subseteq Int
BY NumbersAssumption DEF IntMin, Ints, Width

\* The result of an addition or a multiplication is an int ..
LEMMA WrapType ==
  ASSUME NEW x \in Int
  PROVE  Wrap(x) \in Ints
<1>1. x - IntMin \in Int
  BY IntFacts
<1>2. (x - IntMin) % Width \in 0..Width - 1
  BY <1>1, IntFacts, ModRange
<1> QED
  BY <1>2, IntFacts DEF Wrap, Width, Ints

\* .. the right one when that is an int.
LEMMA WrapSame ==
  ASSUME NEW x \in Ints
  PROVE  Wrap(x) = x
<1>1. x - IntMin \in 0..Width - 1 /\ x \in Int
  BY IntFacts DEF Ints
<1>2. (x - IntMin) % Width = x - IntMin
  BY <1>1, IntFacts, ModSmall
<1> QED
  BY <1>1, <1>2, IntFacts DEF Wrap, Width

(***************************************************************************)
(* PART 3.  The Fibonacci loop.                                            *)
(***************************************************************************)
\* The recursion of the reference has a solution.
LEMMA PairsUnfold ==
  /\ FibonacciPairs \in [0..IntMax -> Nat \X Nat]
  /\ FibonacciPairs[0] = <<1, 1>>
  /\ \A i \in 1..IntMax :
       FibonacciPairs[i] = <<FibonacciPairs[i-1][2],
                             FibonacciPairs[i-1][1] + FibonacciPairs[i-1][2]>>
<1> DEFINE S == Nat \X Nat
           first == <<1, 1>>
           next == [p \in (1..IntMax) \X S |-> <<p[2][2], p[2][1] + p[2][2]>>]
           Good(f) == f = [i \in 0..IntMax |->
                             IF i = 0 THEN <<1, 1>> ELSE <<f[i-1][2], f[i-1][1] + f[i-1][2]>>]
           P == FibonacciPairs
<1>1. IntMax \in Nat
  BY IntFacts
<1>2. first \in S /\ next \in [(1..IntMax) \X S -> S]
  OBVIOUS
<1>3. PICK f : Follows(f, IntMax, S, first, next)
  <2> HIDE DEF S, first, next
  <2> QED
    BY <1>1, <1>2, RecursionUpTo
<1>4. \A i \in 1..IntMax : f[i] = <<f[i-1][2], f[i-1][1] + f[i-1][2]>>
  <2> TAKE i \in 1..IntMax
  <2>1. f[i-1] \in S
    BY <1>1, <1>3 DEF Follows
  <2>2. <<i, f[i-1]>> \in (1..IntMax) \X S
    BY <2>1
  <2> QED
    BY <1>3, <2>2 DEF Follows
<1>5. f \in [0..IntMax -> S] /\ f[0] = <<1, 1>>
  BY <1>3 DEF Follows
<1>6. Good(f)
  <2>1. \A i \in 0..IntMax : i = 0 \/ i \in 1..IntMax
    BY <1>1
  <2>2. \A i \in 0..IntMax :
          f[i] = IF i = 0 THEN <<1, 1>> ELSE <<f[i-1][2], f[i-1][1] + f[i-1][2]>>
    BY <1>4, <1>5, <2>1
  <2> QED
    BY <1>5, <2>2
<1>7. P = CHOOSE g : Good(g)
  BY DEF FibonacciPairs
<1>8. Good(P)
  <2> HIDE DEF Good, P
  <2> QED
    BY <1>6, <1>7
<1> HIDE DEF P
<1>9. /\ DOMAIN P = 0..IntMax /\ P[0] = <<1, 1>>
      /\ \A i \in 1..IntMax : P[i] = <<P[i-1][2], P[i-1][1] + P[i-1][2]>>
  BY <1>1, <1>8
<1> DEFINE T == {i \in 0..IntMax : P[i] \in S}
<1>10. 0 \in T /\ \A i \in 0..IntMax-1 : i \in T => i + 1 \in T
  <2>1. 0 \in T
    <3>1. P[0] \in S /\ 0 \in 0..IntMax
      BY <1>1, <1>9
    <3> HIDE DEF S
    <3> QED
      BY <3>1
  <2>2. ASSUME NEW i \in 0..IntMax-1, i \in T
        PROVE  i + 1 \in T
    <3>1. i + 1 \in 1..IntMax /\ (i + 1) - 1 = i /\ i + 1 \in 0..IntMax
      BY <1>1
    <3>2. P[i + 1] = <<P[i][2], P[i][1] + P[i][2]>>
      BY <1>9, <3>1
    <3>3. P[i][1] \in Nat /\ P[i][2] \in Nat
      BY <2>2
    <3>4. P[i + 1] \in S
      BY <3>2, <3>3
    <3> HIDE DEF S
    <3> QED
      BY <3>1, <3>4
  <2> QED
    BY <2>1, <2>2
<1>11. 0..IntMax \subseteq T
  <2> HIDE DEF T
  <2> QED
    BY <1>1, <1>10, UpTo
<1>12. P \in [0..IntMax -> S]
  <2> HIDE DEF S
  <2>1. \A i \in 0..IntMax : P[i] \in S
    BY <1>11
  <2>2. P = [i \in 0..IntMax |-> P[i]]
    BY <1>8, <1>9
  <2> QED
    BY <2>1, <2>2
<1> QED
  BY <1>9, <1>12 DEF P

\* The numbers and their successors grow, at least by one from the second on.
Fib(i)     == FibonacciPairs[i][1]
FibNext(i) == FibonacciPairs[i][2]

LEMMA FibFacts ==
  /\ \A i \in 0..IntMax :
       /\ Fib(i) \in Nat /\ FibNext(i) \in Nat
       /\ Fib(i) >= 1 /\ Fib(i) >= i /\ FibNext(i) >= i + 1 /\ FibNext(i) >= Fib(i)
       /\ FibonacciPairs[i] = <<Fib(i), FibNext(i)>>
  /\ Fib(0) = 1 /\ FibNext(0) = 1
  /\ \A i \in 0..IntMax-1 : Fib(i + 1) = FibNext(i) /\ FibNext(i + 1) = Fib(i) + FibNext(i)
<1>1. IntMax \in Nat
  BY IntFacts
<1>2. \A i \in 0..IntMax : /\ Fib(i) \in Nat /\ FibNext(i) \in Nat
                           /\ FibonacciPairs[i] = <<Fib(i), FibNext(i)>>
  BY PairsUnfold DEF Fib, FibNext
<1>3. Fib(0) = 1 /\ FibNext(0) = 1
  BY PairsUnfold DEF Fib, FibNext
<1>4. \A i \in 0..IntMax-1 : Fib(i + 1) = FibNext(i) /\ FibNext(i + 1) = Fib(i) + FibNext(i)
  <2> TAKE i \in 0..IntMax-1
  <2>1. i + 1 \in 1..IntMax /\ (i + 1) - 1 = i
    BY <1>1
  <2>2. FibonacciPairs[i + 1] = <<FibonacciPairs[i][2],
                                  FibonacciPairs[i][1] + FibonacciPairs[i][2]>>
    BY <2>1, PairsUnfold
  <2> QED
    BY <2>2 DEF Fib, FibNext
<1> DEFINE Grows(i) == Fib(i) >= 1 /\ Fib(i) >= i /\ FibNext(i) >= i + 1 /\ FibNext(i) >= Fib(i)
           T == {i \in 0..IntMax : Grows(i)}
<1>5. 0 \in T
  BY <1>1, <1>3
<1>6. ASSUME NEW i \in 0..IntMax-1, i \in T
      PROVE  i + 1 \in T
  <2>1. i + 1 \in 0..IntMax /\ i \in 0..IntMax
    BY <1>1
  <2>2. Fib(i) \in Nat /\ FibNext(i) \in Nat
    BY <1>2, <2>1
  <2> QED
    BY <1>4, <1>6, <2>1, <2>2
<1>7. 0..IntMax \subseteq T
  <2> HIDE DEF T
  <2> QED
    BY <1>1, <1>5, <1>6, UpTo
<1> QED
  BY <1>2, <1>3, <1>4, <1>7

\* A later number is no smaller, so that a greater one is later.
LEMMA FibMonotone ==
  ASSUME NEW i \in 0..IntMax, NEW j \in 0..IntMax, i <= j
  PROVE  Fib(i) <= Fib(j)
<1> DEFINE N == IntMax - i
           T == {d \in 0..N : Fib(i) <= Fib(i + d)}
<1>1. N \in Nat /\ IntMax \in Nat
  BY IntFacts
<1>2. 0 \in T
  BY <1>1, FibFacts
<1>3. ASSUME NEW d \in 0..N-1, d \in T
      PROVE  d + 1 \in T
  <2>1. i + d \in 0..IntMax-1 /\ i + d \in 0..IntMax /\ i + (d + 1) = (i + d) + 1 /\ d + 1 \in 0..N
    BY <1>1
  <2>2. Fib((i + d) + 1) = FibNext(i + d) /\ FibNext(i + d) >= Fib(i + d)
    BY <2>1, FibFacts
  <2>3. Fib(i) \in Nat /\ Fib(i + d) \in Nat /\ FibNext(i + d) \in Nat
    BY <2>1, FibFacts
  <2> QED
    BY <1>3, <2>1, <2>2, <2>3
<1>4. 0..N \subseteq T
  <2> HIDE DEF T, N
  <2> QED
    BY <1>1, <1>2, <1>3, UpTo
<1>5. j - i \in 0..N /\ i + (j - i) = j
  BY <1>1
<1> QED
  BY <1>4, <1>5

\* There is a last Fibonacci number that fits an int.
LEMMA LastFibonacci ==
  LET last == Max(FibonacciNumbers)
  IN  last \in FibonacciNumbers /\ \A x \in FibonacciNumbers : x <= last
<1> DEFINE FN == FibonacciNumbers
           T == {IntMax - x : x \in FN}
<1>1. FN \subseteq 1..IntMax
  <2> SUFFICES ASSUME NEW x \in FN PROVE x \in 1..IntMax
    OBVIOUS
  <2>1. PICK i \in 0..IntMax : x = Fib(i)
    BY DEF FibonacciNumbers, Fib
  <2>2. x \in Ints
    BY DEF FibonacciNumbers
  <2>3. x \in Nat /\ x >= 1
    BY <2>1, FibFacts
  <2> QED
    BY <2>2, <2>3, IntFacts DEF Ints
<1>2. 1 \in FN
  <2>1. 0 \in 0..IntMax /\ Fib(0) = 1 /\ 1 \in Ints
    BY FibFacts, IntFacts
  <2> QED
    BY <2>1 DEF FibonacciNumbers, Fib
<1>3. T \in SUBSET Nat /\ T # {}
  BY <1>1, <1>2, IntFacts
<1>4. PICK t \in T : \A u \in T : t <= u
  <2> HIDE DEF T
  <2> QED
    BY <1>3, LeastNat
<1>5. PICK x \in FN : t = IntMax - x
  BY <1>4
<1>7. \A y \in FN : x >= y
  <2> TAKE y \in FN
  <2>1. IntMax - x <= IntMax - y
    BY <1>4, <1>5
  <2>2. x \in Int /\ y \in Int /\ IntMax \in Int
    BY <1>1, IntFacts
  <2> QED
    BY <2>1, <2>2
<1> DEFINE Top(m) == m \in FN /\ \A y \in FN : m >= y
<1>8. Max(FN) = CHOOSE m : Top(m)
  BY DEF Max
<1>9. Top(Max(FN))
  <2>1. Top(x)
    BY <1>7
  <2> HIDE DEF Top
  <2> QED
    BY <1>8, <2>1
<1>10. \A y \in FN : y <= Max(FN)
  BY <1>1, <1>9
<1> QED
  BY <1>9, <1>10

\* The loop stands at two numbers that follow each other, the first of them
\* before the number in hand, as long as one fits that is not before it.
LoopFollows ==
  pc = "fibonacci" /\ number <= Max(FibonacciNumbers) =>
    \E k \in 0..IntMax : b = Fib(k) /\ c = FibNext(k) /\ (k = 0 \/ b < number)

IntsType == {number, a, b, c} \subseteq Ints

\* A round brings it to the next two.
LEMMA LoopRound ==
  ASSUME IntsType, LoopFollows, FibonacciRound
  PROVE  LoopFollows'
<1> DEFINE last == Max(FibonacciNumbers)
<1>1. /\ c < number /\ b' = c /\ c' = Wrap(b + c) /\ UNCHANGED number
      /\ pc = "fibonacci" /\ number \in Int /\ number <= IntMax
  BY IntFacts DEF FibonacciRound, IntsType, Ints
<1> SUFFICES ASSUME number <= last
             PROVE  \E k \in 0..IntMax : b' = Fib(k) /\ c' = FibNext(k) /\ b' < number
  BY <1>1 DEF LoopFollows
<1>2. PICK k \in 0..IntMax : b = Fib(k) /\ c = FibNext(k)
  BY <1>1 DEF LoopFollows
<1>3. last \in FibonacciNumbers
  BY LastFibonacci
<1> HIDE DEF last
<1>4. PICK j \in 0..IntMax : last = Fib(j)
  BY <1>3 DEF FibonacciNumbers, Fib
<1>5. last \in Int /\ last <= IntMax
  BY <1>3, IntFacts DEF FibonacciNumbers, Ints
<1>6. c \in Nat /\ b \in Nat /\ c >= k + 1 /\ IntMax \in Nat
  BY <1>2, FibFacts, IntFacts
<1>7. k + 1 \in 0..IntMax-1 /\ k \in 0..IntMax-1 /\ k + 1 \in 0..IntMax /\ k + 2 \in 0..IntMax
      /\ (k + 1) + 1 = k + 2
  BY <1>1, <1>6
<1>8. Fib(k + 1) = c /\ FibNext(k + 1) = b + c /\ Fib(k + 2) = b + c
  BY <1>2, <1>7, FibFacts
<1>9. ~(j <= k + 1)
  <2>1. ~(Fib(j) <= Fib(k + 1))
    BY <1>1, <1>4, <1>5, <1>6, <1>8
  <2> QED
    BY <1>7, <2>1, FibMonotone
<1>10. k + 2 <= j
  BY <1>7, <1>9
<1>11. b + c <= last
  BY <1>4, <1>7, <1>8, <1>10, FibMonotone
<1>12. b + c \in Ints
  BY <1>5, <1>6, <1>11, IntFacts DEF Ints
<1>13. c' = b + c
  BY <1>1, <1>12, WrapSame
<1> QED
  BY <1>1, <1>7, <1>8, <1>13

\* Where it stops, the number in hand is met if it is a Fibonacci number and,
\* up to the last that fits, only then.
LEMMA LoopAnswers ==
  ASSUME IntsType, LoopFollows, pc = "fibonacci", c >= number
  PROVE  /\ number \in FibonacciNumbers => c = number
         /\ c = number /\ number <= Max(FibonacciNumbers) => number \in FibonacciNumbers
<1> DEFINE last == Max(FibonacciNumbers)
<1>1. number \in Int /\ number <= IntMax /\ IntMax \in Nat /\ number \in Ints
  BY IntFacts DEF IntsType, Ints
<1>2. number \in FibonacciNumbers => number <= last
  BY LastFibonacci
<1> SUFFICES ASSUME number <= last
             PROVE  /\ number \in FibonacciNumbers => c = number
                    /\ c = number => number \in FibonacciNumbers
  BY <1>2
<1>3. PICK k \in 0..IntMax : b = Fib(k) /\ c = FibNext(k) /\ (k = 0 \/ b < number)
  BY DEF LoopFollows
<1> HIDE DEF last
<1>4. b \in Nat /\ c \in Nat /\ c >= k + 1
  BY <1>3, FibFacts
<1>5. ASSUME number \in FibonacciNumbers
      PROVE  c = number
  <2>1. PICK j \in 0..IntMax : number = Fib(j)
    BY <1>5 DEF FibonacciNumbers, Fib
  <2>2. CASE k = 0
    <3>1. c = 1 /\ number >= 1
      BY <1>3, <2>1, <2>2, FibFacts
    <3> QED
      BY <1>1, <3>1
  <2>3. CASE k # 0
    <3>1. ~(Fib(j) <= Fib(k))
      BY <1>1, <1>3, <1>4, <2>1, <2>3
    <3>2. ~(j <= k)
      BY <3>1, FibMonotone
    <3>3. k \in 0..IntMax-1 /\ k + 1 \in 0..IntMax /\ k + 1 <= j
      BY <1>1, <3>2
    <3>4. Fib(k + 1) = c
      BY <1>3, <3>3, FibFacts
    <3>5. c <= number
      BY <2>1, <3>3, <3>4, FibMonotone
    <3> QED
      BY <1>1, <1>4, <3>5
  <2> QED
    BY <2>2, <2>3
<1>6. ASSUME c = number
      PROVE  number \in FibonacciNumbers
  <2>1. k \in 0..IntMax-1 /\ k + 1 \in 0..IntMax
    BY <1>1, <1>4, <1>6
  <2>2. Fib(k + 1) = number
    BY <1>3, <1>6, <2>1, FibFacts
  <2> QED
    BY <1>1, <2>1, <2>2 DEF FibonacciNumbers, Fib
<1> QED
  BY <1>5, <1>6

(***************************************************************************)
(* PART 4.  The sum of the divisors.                                       *)
(***************************************************************************)
\* The loop, a round at a time.
LEMMA DivisorRounds ==
  ASSUME NEW n \in Ints, n >= 1
  PROVE  /\ \A t \in 0..n : DivisorSums(n)[t] \in Ints
         /\ DivisorSums(n)[0] = 0
         /\ \A t \in 1..n :
              DivisorSums(n)[t] = Wrap(DivisorSums(n)[t-1] + IF n % t = 0 THEN t ELSE 0)
<1> DEFINE next == [p \in (1..n) \X Ints |-> Wrap(p[2] + IF n % p[1] = 0 THEN p[1] ELSE 0)]
           Good(f) == f = [t \in 0..n |-> IF t = 0 THEN 0
                                          ELSE Wrap(f[t-1] + IF n % t = 0 THEN t ELSE 0)]
           D == DivisorSums(n)
<1>1. n \in Nat /\ 0 \in Ints
  BY IntFacts DEF Ints
<1>2. next \in [(1..n) \X Ints -> Ints]
  <2> SUFFICES ASSUME NEW p \in (1..n) \X Ints
               PROVE  Wrap(p[2] + IF n % p[1] = 0 THEN p[1] ELSE 0) \in Ints
    OBVIOUS
  <2>1. p[2] \in Int /\ p[1] \in Int
    <3>1. p[2] \in Ints /\ p[1] \in 1..n
      OBVIOUS
    <3>2. \A e \in 1..n : e \in Int
      BY <1>1
    <3>3. \A e \in Ints : e \in Int
      BY IntFacts
    <3> QED
      BY <3>1, <3>2, <3>3
  <2>2. (p[2] + IF n % p[1] = 0 THEN p[1] ELSE 0) \in Int
    BY <2>1
  <2> QED
    BY <2>2, WrapType
<1>3. PICK f : Follows(f, n, Ints, 0, next)
  <2> HIDE DEF next
  <2> QED
    BY <1>1, <1>2, RecursionUpTo
<1>4. \A t \in 1..n : f[t] = Wrap(f[t-1] + IF n % t = 0 THEN t ELSE 0)
  <2> TAKE t \in 1..n
  <2>1. f[t-1] \in Ints
    BY <1>1, <1>3 DEF Follows
  <2>2. <<t, f[t-1]>> \in (1..n) \X Ints
    BY <2>1
  <2> QED
    BY <1>3, <2>2 DEF Follows
<1>5. f \in [0..n -> Ints] /\ f[0] = 0
  BY <1>3 DEF Follows
<1>6. Good(f)
  <2>1. \A t \in 0..n : t = 0 \/ t \in 1..n
    BY <1>1
  <2>2. \A t \in 0..n : f[t] = IF t = 0 THEN 0
                               ELSE Wrap(f[t-1] + IF n % t = 0 THEN t ELSE 0)
    BY <1>4, <1>5, <2>1
  <2> QED
    BY <1>5, <2>2
<1>7. D = CHOOSE g : Good(g)
  BY DEF DivisorSums
<1>8. Good(D)
  <2> HIDE DEF Good, D
  <2> QED
    BY <1>6, <1>7
<1> HIDE DEF D
<1>9. D[0] = 0 /\ \A t \in 1..n : D[t] = Wrap(D[t-1] + IF n % t = 0 THEN t ELSE 0)
  BY <1>1, <1>8
<1> DEFINE T == {t \in 0..n : D[t] \in Ints}
<1>10. 0 \in T
  BY <1>1, <1>9
<1>11. ASSUME NEW t \in 0..n-1, t \in T
       PROVE  t + 1 \in T
  <2>1. t + 1 \in 1..n /\ (t + 1) - 1 = t /\ t + 1 \in 0..n /\ t + 1 \in Int
    BY <1>1
  <2>2. D[t] \in Int
    BY <1>11, IntFacts
  <2>3. (D[t] + IF n % (t + 1) = 0 THEN t + 1 ELSE 0) \in Int
    BY <2>1, <2>2
  <2>4. D[t + 1] = Wrap(D[t] + IF n % (t + 1) = 0 THEN t + 1 ELSE 0)
    BY <1>9, <2>1
  <2> QED
    BY <2>1, <2>3, <2>4, WrapType
<1>12. 0..n \subseteq T
  <2> HIDE DEF T
  <2> QED
    BY <1>1, <1>10, <1>11, UpTo
<1> QED
  BY <1>9, <1>12 DEF D

\* The sum is an int.
LEMMA DivisorSumType ==
  ASSUME NEW n \in Ints
  PROVE  DivisorSum(n) \in Ints
<1>1. CASE n < 1
  BY <1>1, IntFacts DEF DivisorSum
<1>2. CASE n >= 1
  <2>1. n - 1 \in 0..n /\ ~(n < 1)
    BY <1>2, IntFacts
  <2> QED
    BY <1>2, <2>1, DivisorRounds DEF DivisorSum
<1> QED
  BY <1>1, <1>2, IntFacts

\* The reference adds up a set.
LEMMA SumOfSet ==
  ASSUME NEW S, IsFiniteSet(S), S \subseteq Int
  PROVE  SumSet(S) = SetSums([x \in S |-> x], S)[S]
<1> DEFINE v == [x \in S |-> x]
           Good(f) == f = [T \in SUBSET S |-> IF T = {} THEN 0
                             ELSE (CHOOSE x \in T : TRUE) + f[T \ {CHOOSE x \in T : TRUE}]]
           same(f) == f = [T \in SUBSET S |-> IF T = {} THEN 0
                             ELSE v[CHOOSE x \in T : TRUE] + f[T \ {CHOOSE x \in T : TRUE}]]
<1>1. SumSet(S) = (CHOOSE f : Good(f))[S]
  BY DEF SumSet, FoldSet, MapThenFoldSet
<1>2. SetSums(v, S) = CHOOSE f : same(f)
  BY DEF SetSums
<1>3. ASSUME NEW T \in SUBSET S, T # {}
      PROVE  v[CHOOSE x \in T : TRUE] = CHOOSE x \in T : TRUE
  <2>1. (CHOOSE x \in T : TRUE) \in S
    BY <1>3
  <2> QED
    BY <2>1
<1>4. ASSUME NEW f
      PROVE  Good(f) <=> same(f)
  <2>1. [T \in SUBSET S |-> IF T = {} THEN 0
           ELSE (CHOOSE x \in T : TRUE) + f[T \ {CHOOSE x \in T : TRUE}]]
        = [T \in SUBSET S |-> IF T = {} THEN 0
             ELSE v[CHOOSE x \in T : TRUE] + f[T \ {CHOOSE x \in T : TRUE}]]
    <3> HIDE DEF v
    <3> QED
      BY <1>3
  <2> QED
    BY <2>1
<1>5. (CHOOSE f : Good(f)) = CHOOSE f : same(f)
  <2> HIDE DEF Good, same
  <2> QED
    BY <1>4
<1> QED
  BY <1>1, <1>2, <1>5

\* Without an overflow the loop adds up the proper divisors.
LEMMA DivisorSumExact ==
  ASSUME NEW n \in Ints, n > 0, SumSet(ProperDivisors(n)) <= IntMax
  PROVE  DivisorSum(n) = SumSet(ProperDivisors(n))
<1> DEFINE P == ProperDivisors(n)
           v == [x \in P |-> x]
           s == SetSums(v, P)
           upTo(t) == P \cap 1..t
           D == DivisorSums(n)
           N == n - 1
<1>1. n \in Nat /\ n >= 1 /\ N \in Nat /\ N + 1 = n
  BY IntFacts
<1>2. P \subseteq 1..N /\ \A t \in 1..N : t \in P <=> n % t = 0
  BY DEF ProperDivisors
<1>3. IsFiniteSet(P) /\ P \subseteq Int
  <2>1. IsFiniteSet(1..N)
    BY <1>1, FS_Interval
  <2>2. 1..N \subseteq Int
    OBVIOUS
  <2> HIDE DEF P, N
  <2>3. P \in SUBSET (1..N)
    BY <1>2
  <2>4. IsFiniteSet(P)
    BY <2>1, <2>3, FS_Subset
  <2> QED
    BY <2>2, <2>3, <2>4
<1>4. v \in [P -> Int] /\ \A x \in P : v[x] = x
  BY <1>3
<1>5. SumSet(P) = s[P]
  BY <1>3, SumOfSet
<1> HIDE DEF P, v
<1>6. /\ s \in [SUBSET P -> Int] /\ s[{}] = 0
      /\ \A T \in SUBSET P : \A y \in T : s[T] = v[y] + s[T \ {y}]
  <2>1. s \in [SUBSET P -> Int] /\ s[{}] = 0
    BY <1>3, <1>4, SetSumsUnfold
  <2>2. \A T \in SUBSET P : \A y \in T : s[T] = v[y] + s[T \ {y}]
    BY <1>3, <1>4, SetSumsAdd
  <2> QED
    BY <2>1, <2>2
<1> HIDE DEF s
<1>7. \A t \in 0..N : s[upTo(t)] \in Int
  BY <1>6
<1>8. ASSUME NEW t \in 0..N-1
      PROVE  /\ s[upTo(t + 1)] = s[upTo(t)] + IF n % (t + 1) = 0 THEN t + 1 ELSE 0
             /\ s[upTo(t + 1)] >= s[upTo(t)]
  <2>1. t + 1 \in 1..N /\ 1..t + 1 = (1..t) \cup {t + 1} /\ t + 1 \notin 1..t /\ t \in 0..N
    BY <1>1
  <2>2. s[upTo(t)] \in Int
    BY <1>7, <2>1
  <2>3. CASE n % (t + 1) = 0
    <3>1. t + 1 \in P
      BY <1>2, <2>1, <2>3
    <3>2. upTo(t + 1) \in SUBSET P /\ t + 1 \in upTo(t + 1) /\ upTo(t + 1) \ {t + 1} = upTo(t)
      BY <2>1, <3>1
    <3> HIDE DEF upTo
    <3>3. s[upTo(t + 1)] = v[t + 1] + s[upTo(t)]
      BY <1>6, <3>2
    <3>4. v[t + 1] = t + 1
      BY <1>4, <3>1
    <3> QED
      BY <2>1, <2>2, <2>3, <3>3, <3>4
  <2>4. CASE n % (t + 1) # 0
    <3>1. upTo(t + 1) = upTo(t)
      BY <1>2, <2>1, <2>4
    <3> HIDE DEF upTo
    <3> QED
      BY <2>2, <2>4, <3>1
  <2> QED
    BY <2>3, <2>4
<1>9. upTo(0) = {} /\ upTo(N) = P /\ s[upTo(0)] = 0
  <2>1. 1..0 = {}
    OBVIOUS
  <2>2. upTo(0) = {}
    BY <2>1
  <2>3. upTo(N) = P
    BY <1>2
  <2> HIDE DEF upTo
  <2> QED
    BY <1>6, <2>2, <2>3
<1> HIDE DEF upTo
<1> DEFINE Below == {j \in 0..N : s[upTo(N - j)] <= s[P]}
           Above == {t \in 0..N : s[upTo(t)] >= 0}
           Agree == {t \in 0..N : D[t] = s[upTo(t)]}
<1>10. 0..N \subseteq Below
  <2>1. 0 \in Below
    <3>1. N - 0 = N /\ 0 \in 0..N /\ N \in 0..N
      BY <1>1
    <3>2. s[P] \in Int
      BY <1>7, <1>9, <3>1
    <3> QED
      BY <1>9, <3>1, <3>2
  <2>2. ASSUME NEW j \in 0..N-1, j \in Below
        PROVE  j + 1 \in Below
    <3>1. N - (j + 1) \in 0..N-1 /\ (N - (j + 1)) + 1 = N - j /\ j + 1 \in 0..N
          /\ N - j \in 0..N /\ N \in 0..N /\ N - (j + 1) \in 0..N
      BY <1>1
    <3>2. s[upTo(N - j)] >= s[upTo(N - (j + 1))]
      BY <1>8, <3>1
    <3>3. s[upTo(N - j)] \in Int /\ s[upTo(N - (j + 1))] \in Int /\ s[P] \in Int
      BY <1>7, <1>9, <3>1
    <3>4. s[upTo(N - j)] <= s[P]
      BY <2>2
    <3>5. s[upTo(N - (j + 1))] <= s[P]
      BY <3>2, <3>3, <3>4
    <3> QED
      BY <3>1, <3>5
  <2> HIDE DEF Below, N
  <2> QED
    BY <1>1, <2>1, <2>2, UpTo
<1>11. 0..N \subseteq Above
  <2>1. 0 \in Above
    BY <1>1, <1>9
  <2>2. ASSUME NEW t \in 0..N-1, t \in Above
        PROVE  t + 1 \in Above
    <3>1. t + 1 \in 0..N /\ t \in 0..N
      BY <1>1
    <3>2. s[upTo(t)] \in Int /\ s[upTo(t + 1)] \in Int
      BY <1>7, <3>1
    <3>3. s[upTo(t + 1)] >= s[upTo(t)] /\ s[upTo(t)] >= 0
      BY <1>8, <2>2
    <3> QED
      BY <3>1, <3>2, <3>3
  <2> HIDE DEF Above, N
  <2> QED
    BY <1>1, <2>1, <2>2, UpTo
<1>12. \A t \in 0..N : s[upTo(t)] \in Ints
  <2> TAKE t \in 0..N
  <2>1. N - t \in 0..N /\ N - (N - t) = t /\ N \in 0..N
    BY <1>1
  <2>2. s[upTo(t)] <= s[P] /\ s[upTo(t)] >= 0
    BY <1>10, <1>11, <2>1
  <2>3. s[upTo(t)] \in Int /\ s[P] \in Int
    BY <1>7, <1>9, <2>1
  <2>4. s[P] <= IntMax
    BY <1>5 DEF P
  <2> QED
    BY <2>2, <2>3, <2>4, IntFacts DEF Ints
<1>13. 0..N \subseteq Agree
  <2>1. 0 \in Agree
    <3>1. D[0] = 0
      BY <1>1, DivisorRounds
    <3> HIDE DEF D
    <3> QED
      BY <1>1, <1>9, <3>1
  <2>2. ASSUME NEW t \in 0..N-1, t \in Agree
        PROVE  t + 1 \in Agree
    <3>1. t + 1 \in 1..n /\ (t + 1) - 1 = t /\ t + 1 \in 0..N
      BY <1>1
    <3>2. D[t + 1] = Wrap(D[t] + IF n % (t + 1) = 0 THEN t + 1 ELSE 0)
      BY <1>1, <3>1, DivisorRounds
    <3>3. D[t + 1] = Wrap(s[upTo(t + 1)])
      BY <1>8, <2>2, <3>2
    <3>4. D[t + 1] = s[upTo(t + 1)]
      BY <1>12, <3>1, <3>3, WrapSame
    <3> QED
      BY <3>1, <3>4
  <2> HIDE DEF Agree, N
  <2> QED
    BY <1>1, <2>1, <2>2, UpTo
<1>14. D[N] = s[P]
  BY <1>1, <1>9, <1>13
<1> QED
  BY <1>1, <1>5, <1>14 DEF DivisorSum, P

\* A prime has the one proper divisor 1.
LEMMA DivisorSumOfPrime ==
  ASSUME NEW n \in Ints, isPrime(n)
  PROVE  DivisorSum(n) = 1
<1> DEFINE D == DivisorSums(n)
           N == n - 2
           One == {j \in 0..N : D[j + 1] = 1}
<1>1. n \in Nat /\ n > 1 /\ n >= 1 /\ N \in Nat
  BY IntFacts DEF isPrime
<1>2. /\ D[0] = 0
      /\ \A t \in 1..n : D[t] = Wrap(D[t-1] + IF n % t = 0 THEN t ELSE 0)
  BY <1>1, DivisorRounds
<1> HIDE DEF D
<1>3. Wrap(1) = 1
  BY IntFacts, WrapSame
<1>4. 0 \in One
  <2>1. n % 1 = 0 /\ 1 \in 1..n
    BY <1>1
  <2>2. D[1] = Wrap(0 + 1)
    BY <1>2, <2>1
  <2> QED
    BY <1>1, <1>3, <2>2
<1>5. ASSUME NEW j \in 0..N-1, j \in One
      PROVE  j + 1 \in One
  <2>1. j + 2 \in 2..n-1 /\ j + 2 \in 1..n /\ (j + 2) - 1 = j + 1 /\ (j + 1) + 1 = j + 2
        /\ j + 1 \in 0..N
    BY <1>1
  <2>2. n % (j + 2) # 0
    BY <2>1 DEF isPrime
  <2>3. D[j + 2] = Wrap(1 + 0)
    BY <1>2, <1>5, <2>1, <2>2
  <2>4. D[j + 2] = 1
    BY <1>3, <2>3
  <2> QED
    BY <2>1, <2>4
<1>6. 0..N \subseteq One
  <2> HIDE DEF One, N
  <2> QED
    BY <1>1, <1>4, <1>5, UpTo
<1>7. D[n - 1] = 1
  <2>1. N \in 0..N /\ N + 1 = n - 1
    BY <1>1
  <2> QED
    BY <1>6, <2>1
<1> QED
  BY <1>1, <1>7 DEF DivisorSum, D

(***************************************************************************)
(* PART 5.  Squares and cubes.                                             *)
(***************************************************************************)
\* Products of naturals.
LEMMA Products ==
  ASSUME NEW p \in Nat, NEW q \in Nat, NEW k \in Nat
  PROVE  /\ p * q \in Nat
         /\ p <= q => p * k <= q * k /\ k * p <= k * q
         /\ q >= 1 => p <= p * q
<1>1. p * q \in Nat /\ q * k \in Nat /\ p * k \in Nat
  OBVIOUS
<1>2. ASSUME p <= q
      PROVE  p * k <= q * k /\ k * p <= k * q
  <2>1. PICK d \in Nat : q = p + d
    <3>1. q - p \in Nat /\ q = p + (q - p)
      BY <1>2
    <3> QED
      BY <3>1
  <2>2. (p + d) * k = p * k + d * k /\ d * k \in Nat /\ p * k = k * p /\ q * k = k * q
    OBVIOUS
  <2> QED
    BY <1>1, <2>1, <2>2
<1>3. ASSUME q >= 1
      PROVE  p <= p * q
  <2>1. PICK d \in Nat : q = 1 + d
    <3>1. q - 1 \in Nat /\ q = 1 + (q - 1)
      BY <1>3
    <3> QED
      BY <3>1
  <2>2. p * (1 + d) = p + p * d /\ p * d \in Nat
    OBVIOUS
  <2> QED
    BY <2>1, <2>2
<1> QED
  BY <1>1, <1>2, <1>3

\* Squares and cubes grow.
LEMMA PowersGrow ==
  ASSUME NEW p \in Nat, NEW q \in Nat, p <= q
  PROVE  /\ p * p <= q * q /\ p * p * p <= q * q * q
         /\ p * p \in Nat /\ p * p * p \in Nat /\ q * q \in Nat /\ q * q * q \in Nat
         /\ p <= p * p /\ p <= p * p * p
<1>1. p * p \in Nat /\ q * q \in Nat
  BY Products
<1>2. p * p <= p * q /\ p * q <= q * q /\ p * q \in Nat
  BY Products
<1>3. p * p <= q * q
  BY <1>1, <1>2
<1>4. /\ (p * p) * p <= (q * q) * p /\ (q * q) * p <= (q * q) * q
      /\ (p * p) * p \in Nat /\ (q * q) * p \in Nat /\ (q * q) * q \in Nat
  BY <1>1, <1>3, Products
<1>5. p <= p * p /\ p <= p * p * p
  <2>1. CASE p = 0
    BY <2>1
  <2>2. CASE p >= 1
    <3>1. p <= p * p /\ p * p <= (p * p) * p
      BY <1>1, <2>2, Products
    <3> QED
      BY <1>1, <1>4, <3>1
  <2> QED
    BY <2>1, <2>2
<1> QED
  BY <1>1, <1>3, <1>4, <1>5

\* Every natural has a square root and a cube root, cut to an integer.
LEMMA RootsExist ==
  ASSUME NEW n \in Nat
  PROVE  /\ \E r \in 0..n : r * r <= n /\ n < (r + 1) * (r + 1)
         /\ \E r \in 0..n : r * r * r <= n /\ n < (r + 1) * (r + 1) * (r + 1)
<1>1. \E r \in 0..n : r * r <= n /\ n < (r + 1) * (r + 1)
  <2> DEFINE T == {x \in Nat : n < (x + 1) * (x + 1)}
  <2>1. n \in T
    <3>1. n + 1 <= (n + 1) * (n + 1) /\ (n + 1) * (n + 1) \in Nat
      BY PowersGrow
    <3> QED
      BY <3>1
  <2>2. PICK x \in T : \A u \in T : x <= u
    <3>1. T \in SUBSET Nat /\ T # {}
      BY <2>1
    <3> HIDE DEF T
    <3> QED
      BY <3>1, LeastNat
  <2>3. x \in 0..n /\ n < (x + 1) * (x + 1)
    BY <2>1, <2>2
  <2>4. x * x <= n
    <3>1. CASE x = 0
      BY <3>1
    <3>2. CASE x >= 1
      <4>1. x - 1 \in Nat /\ (x - 1) + 1 = x /\ x - 1 \notin T
        BY <2>2, <3>2
      <4>2. x * x \in Nat
        BY Products
      <4> QED
        BY <4>1, <4>2
    <3> QED
      BY <3>1, <3>2
  <2> QED
    BY <2>3, <2>4
<1>2. \E r \in 0..n : r * r * r <= n /\ n < (r + 1) * (r + 1) * (r + 1)
  <2> DEFINE T == {x \in Nat : n < (x + 1) * (x + 1) * (x + 1)}
  <2>1. n \in T
    <3>1. n + 1 <= (n + 1) * (n + 1) * (n + 1) /\ (n + 1) * (n + 1) * (n + 1) \in Nat
      BY PowersGrow
    <3> QED
      BY <3>1
  <2>2. PICK x \in T : \A u \in T : x <= u
    <3>1. T \in SUBSET Nat /\ T # {}
      BY <2>1
    <3> HIDE DEF T
    <3> QED
      BY <3>1, LeastNat
  <2>3. x \in 0..n /\ n < (x + 1) * (x + 1) * (x + 1)
    BY <2>1, <2>2
  <2>4. x * x * x <= n
    <3>1. CASE x = 0
      BY <3>1
    <3>2. CASE x >= 1
      <4>1. x - 1 \in Nat /\ (x - 1) + 1 = x /\ x - 1 \notin T
        BY <2>2, <3>2
      <4>2. x * x * x \in Nat
        BY PowersGrow
      <4> QED
        BY <4>1, <4>2
    <3> QED
      BY <3>1, <3>2
  <2> QED
    BY <2>3, <2>4
<1> QED
  BY <1>1, <1>2

\* (int)sqrt, squared and compared, recognises the squares: the negative
\* numbers are none although the square of the least int wraps, to 0.
LEMMA SquaresExact ==
  ASSUME NEW n \in Ints
  PROVE  isSquareNumber(n) <=> \E s \in 0..IntMax : s * s = n
<1>1. n \in Int /\ n <= IntMax /\ IntMax \in Nat
  BY IntFacts DEF Ints
<1>2. CASE n < 0
  <2>1. ~\E s \in 0..IntMax : s * s = n
    <3>1. \A s \in 0..IntMax : s * s \in Nat
      BY <1>1, Products
    <3> QED
      BY <1>2, <3>1
  <2> DEFINE k == (IntMax + 1) \div 2
             h == IntMax + 1
  <2>2. k \in Nat /\ h = 2 * k /\ h \in 0..Width - 1
    BY <1>1, NumbersAssumption DEF Width
  <2>3. IntMin * IntMin - IntMin = Width * k + h
    <3>1. \A x \in Nat : (-(2 * x)) * (-(2 * x)) + 2 * x = (2 * (2 * x)) * x + 2 * x
      OBVIOUS
    <3>2. IntMin = -(2 * k) /\ Width = 2 * (2 * k)
      BY <1>1, <2>2, IntFacts DEF Width
    <3>3. IntMin * IntMin - IntMin = IntMin * IntMin + 2 * k
      BY <2>2, <3>2
    <3> HIDE DEF k, h
    <3> QED
      BY <2>2, <3>1, <3>2, <3>3
  <2>4. (Width * k + h) % Width = h
    <3> HIDE DEF k, h
    <3>1. Width \in Nat \ {0} /\ k \in Int
      BY <2>2, IntFacts
    <3> QED
      BY <2>2, <3>1, ModMultiple
  <2>5. Wrap(IntMin * IntMin) = 0
    BY <1>1, <2>3, <2>4, IntFacts DEF Wrap, Width
  <2> QED
    BY <1>2, <2>1, <2>5 DEF isSquareNumber, SquareRoot
<1>3. CASE n >= 0
  <2> DEFINE Good(r) == r * r <= n /\ n < (r + 1) * (r + 1)
             r == SquareRoot(n)
  <2>1. r \in 0..n /\ Good(r)
    <3>1. r = CHOOSE x \in 0..n : Good(x)
      BY <1>1, <1>3 DEF SquareRoot
    <3>2. \E x \in 0..n : Good(x)
      BY <1>1, <1>3, RootsExist
    <3> HIDE DEF Good, r
    <3> QED
      BY <3>1, <3>2
  <2> HIDE DEF r
  <2>2. r \in Nat /\ r * r \in Nat /\ r * r \in Ints
    <3>1. r \in Nat /\ r * r \in Nat
      BY <1>1, <2>1, Products
    <3> QED
      BY <1>1, <2>1, <3>1, IntFacts DEF Ints
  <2>3. Wrap(r * r) = r * r
    BY <2>2, WrapSame
  <2>4. ASSUME NEW s \in 0..IntMax, s * s = n
        PROVE  r = s
    <3>1. s \in Nat
      BY <1>1
    <3>2. ~(s + 1 <= r)
      <4>1. s + 1 <= r => (s + 1) * (s + 1) <= r * r
        BY <2>2, <3>1, PowersGrow
      <4>2. (s + 1) * (s + 1) = s * s + 2 * s + 1
        BY <3>1
      <4> QED
        BY <1>1, <2>1, <2>2, <2>4, <3>1, <4>1, <4>2
    <3>3. ~(r + 1 <= s)
      <4>1. r + 1 <= s => (r + 1) * (r + 1) <= s * s
        BY <2>2, <3>1, PowersGrow
      <4>2. (r + 1) * (r + 1) \in Nat
        BY <2>2, Products
      <4> QED
        BY <1>1, <2>1, <2>4, <4>1, <4>2
    <3> QED
      BY <2>2, <3>1, <3>2, <3>3
  <2>5. r \in 0..IntMax
    BY <1>1, <2>1
  <2> QED
    BY <2>3, <2>4, <2>5 DEF isSquareNumber, r
<1> QED
  BY <1>1, <1>2, <1>3

\* Whichever integer (int)cbrt returns, a number that is its cube is a cube.
LEMMA CubesExact ==
  ASSUME NEW n \in Ints, NEW root \in CubeRoots(n), isCubeNumber(n, root)
  PROVE  root \in Ints /\ root * root * root = n
<1> DEFINE m    == IF n < 0 THEN -n ELSE n
           sign == IF n < 0 THEN -1 ELSE 1
           Good(r) == r * r * r <= m /\ m < (r + 1) * (r + 1) * (r + 1)
           r == CHOOSE x \in 0..m : Good(x)
<1>1. n \in Int /\ n <= IntMax /\ n >= IntMin /\ m \in Nat /\ IntMin \in Int /\ IntMax \in Int
  BY IntFacts DEF Ints
<1>2. r \in 0..m /\ Good(r)
  <2>1. \E x \in 0..m : Good(x)
    <3> HIDE DEF m
    <3> QED
      BY <1>1, RootsExist
  <2> HIDE DEF Good, m
  <2> QED
    BY <2>1
<1>3. root \in {sign * r} \cup IF r > 0 /\ r * r * r = m THEN {sign * (r - 1)} ELSE {}
  BY DEF CubeRoots
<1> HIDE DEF r
<1>4. PICK q \in 0..r : root = sign * q
  <2>1. r \in Nat
    BY <1>1, <1>2
  <2>2. CASE root = sign * r
    BY <2>1, <2>2
  <2>3. CASE r > 0 /\ root = sign * (r - 1)
    <3>1. r - 1 \in 0..r
      BY <2>1, <2>3
    <3> QED
      BY <2>3, <3>1
  <2> QED
    BY <1>3, <2>2, <2>3
<1>5. q \in Nat /\ q <= q * q * q /\ q * q * q <= m /\ q * q * q \in Nat
  <2>1. q \in Nat /\ r \in Nat /\ q <= r
    BY <1>1, <1>2
  <2>2. q * q * q <= r * r * r /\ q <= q * q * q /\ q * q * q \in Nat /\ r * r * r \in Nat
    BY <2>1, PowersGrow
  <2> HIDE DEF m
  <2> QED
    BY <1>1, <1>2, <2>1, <2>2
<1>6. /\ root \in Ints /\ root * root * root \in Ints
  <2> DEFINE cube == q * q * q
  <2>1. CASE n < 0
    <3>1. root = -q
      BY <1>4, <1>5, <2>1
    <3>2. root * root * root = -cube
      BY <1>5, <3>1
    <3>3. cube <= -n /\ q <= cube /\ cube \in Nat
      BY <1>5, <2>1
    <3> HIDE DEF cube
    <3> QED
      BY <1>1, <1>5, <2>1, <3>1, <3>2, <3>3, IntFacts DEF Ints
  <2>2. CASE ~(n < 0)
    <3>1. root = q
      BY <1>4, <1>5, <2>2
    <3>2. root * root * root = cube
      BY <3>1
    <3>3. cube <= n /\ q <= cube /\ cube \in Nat
      BY <1>5, <2>2
    <3> HIDE DEF cube
    <3> QED
      BY <1>1, <1>5, <2>2, <3>1, <3>2, <3>3, IntFacts DEF Ints
  <2> QED
    BY <2>1, <2>2
<1>7. Wrap(root * root * root) = root * root * root
  BY <1>6, WrapSame
<1> QED
  BY <1>6, <1>7 DEF isCubeNumber

\* A number that has a factor between 1 and itself is no prime.
LEMMA FactorsDivide ==
  ASSUME NEW n \in Nat, NEW s \in Nat, NEW q \in Nat, n = s * q, s >= 2, s < n
  PROVE  ~isPrime(n)
<1>1. s \in 2..n-1
  OBVIOUS
<1>2. (s * q + 0) % s = 0
  BY ModMultiple
<1>3. n % s = 0
  BY <1>2
<1> QED
  BY <1>1, <1>3 DEF isPrime

\* A prime is no square, no cube and, unless it is 2, not even.
LEMMA PrimesAreOddNoPowers ==
  ASSUME NEW n \in Ints, isPrime(n)
  PROVE  /\ ~isSquareNumber(n)
         /\ \A root \in CubeRoots(n) : ~isCubeNumber(n, root)
         /\ isOdd(n) \/ n = 2
<1>1. n \in Nat /\ n > 1
  BY IntFacts DEF isPrime
<1>2. ~isSquareNumber(n)
  <2> SUFFICES ASSUME NEW s \in 0..IntMax, s * s = n
               PROVE  FALSE
    BY SquaresExact
  <2>1. s \in Nat
    BY IntFacts
  <2>2. s # 0 /\ s # 1
    BY <1>1
  <2>3. s >= 2 /\ 2 * s <= s * s
    BY <2>1, <2>2, Products
  <2>4. s < n
    BY <1>1, <2>1, <2>3
  <2> QED
    BY <1>1, <2>1, <2>3, <2>4, FactorsDivide
<1>3. ASSUME NEW root \in CubeRoots(n), isCubeNumber(n, root)
      PROVE  FALSE
  <2>1. root \in Int /\ root * root * root = n
    BY <1>3, CubesExact, IntFacts
  <2>2. root >= 2
    <3>1. ASSUME root <= 0
          PROVE  FALSE
      <4>1. -root \in Nat
        BY <2>1, <3>1
      <4>2. (-root) * (-root) * (-root) \in Nat
        BY <4>1, PowersGrow
      <4>3. (-root) * (-root) * (-root) = -(root * root * root)
        BY <2>1
      <4> QED
        BY <1>1, <2>1, <4>2, <4>3
    <3>2. root # 1
      BY <1>1, <2>1
    <3> QED
      BY <2>1, <3>1, <3>2
  <2>3. root \in Nat /\ root * root \in Nat /\ n = root * (root * root)
    BY <2>1, <2>2, Products
  <2>4. 2 * root <= root * root /\ root * root <= root * (root * root)
    <3>1. 2 * root <= root * root
      BY <2>2, <2>3, Products
    <3>2. root * root <= (root * root) * root /\ (root * root) * root = root * (root * root)
      BY <2>2, <2>3, Products
    <3> QED
      BY <3>1, <3>2
  <2>5. root < n
    BY <1>1, <2>2, <2>3, <2>4
  <2> QED
    BY <1>1, <2>2, <2>3, <2>5, FactorsDivide
<1>4. isOdd(n) \/ n = 2
  <2> SUFFICES ASSUME n % 2 = 0, n # 2
               PROVE  FALSE
    BY DEF isOdd
  <2>1. 2 \in 2..n-1
    BY <1>1
  <2> QED
    BY <2>1 DEF isPrime
<1> QED
  BY <1>2, <1>3, <1>4

(***************************************************************************)
(* PART 6.  The records are true, and the types.                           *)
(***************************************************************************)
\* The four claims about a record.
RecordTrue(r) ==
  FibonacciExact(r) /\ DivisorClassExact(r) /\ FlagsAgree(r) /\ PowersExact(r)

\* What Write writes is true.
LEMMA RecordIsTrue ==
  ASSUME IntsType, LoopFollows, pc = "fibonacci", c >= number,
         NEW root \in CubeRoots(number)
  PROVE  RecordTrue(Record(number, c = number, root))
<1> DEFINE r == Record(number, c = number, root)
           D == DivisorSum(number)
<1>1. number \in Ints /\ number \in Int
  BY IntFacts DEF IntsType
<1>2. /\ r.iNumber = number
      /\ r.bIsFibonacci = (c = number)
      /\ r.bIsPrimeNumber = isPrime(number)
      /\ r.bIsSquareNumber = isSquareNumber(number)
      /\ r.bIsCubeNumber = isCubeNumber(number, root)
      /\ r.bIsPerfectNumber = (D = number)
      /\ r.bIsAbundantNumber = (D > number)
      /\ r.bIsDeficientNumber = (D < number)
      /\ r.bIsOddNumber = isOdd(number)
  BY DEF Record, isPerfectNumber, isAbundantNumber, isDeficientNumber
<1>3. D \in Int
  BY <1>1, DivisorSumType, IntFacts
<1> HIDE DEF r, D
<1>4. FibonacciExact(r)
  BY <1>2, LoopAnswers DEF FibonacciExact
<1>5. DivisorClassExact(r)
  <2>1. number > 0 /\ SumSet(ProperDivisors(number)) <= IntMax
          => D = SumSet(ProperDivisors(number))
    BY <1>1, DivisorSumExact DEF D
  <2> QED
    BY <1>2, <2>1 DEF DivisorClassExact
<1>6. FlagsAgree(r)
  <2> DEFINE flags == {"bIsPerfectNumber", "bIsAbundantNumber", "bIsDeficientNumber"}
             set == {flag \in flags : r[flag]}
  <2>0. number \in Int
    BY <1>1
  <2>1. /\ r["bIsPerfectNumber"] = (D = number)
        /\ r["bIsAbundantNumber"] = (D > number)
        /\ r["bIsDeficientNumber"] = (D < number)
    BY <1>2
  <2>2. \E flag : set = {flag}
    <3>1. CASE D = number
      <4>1. r["bIsPerfectNumber"] /\ ~r["bIsAbundantNumber"] /\ ~r["bIsDeficientNumber"]
        <5>1. ~(D > number) /\ ~(D < number)
          BY <1>3, <2>0, <3>1
        <5> QED
          BY <2>1, <3>1, <5>1, Zenon
      <4>2. set = {"bIsPerfectNumber"}
        BY <4>1
      <4> QED
        BY <4>2
    <3>2. CASE D > number
      <4>1. ~r["bIsPerfectNumber"] /\ r["bIsAbundantNumber"] /\ ~r["bIsDeficientNumber"]
        <5>1. ~(D = number) /\ ~(D < number)
          BY <1>3, <2>0, <3>2
        <5> QED
          BY <2>1, <3>2, <5>1, Zenon
      <4>2. set = {"bIsAbundantNumber"}
        BY <4>1
      <4> QED
        BY <4>2
    <3>3. CASE D < number
      <4>1. ~r["bIsPerfectNumber"] /\ ~r["bIsAbundantNumber"] /\ r["bIsDeficientNumber"]
        <5>1. ~(D = number) /\ ~(D > number)
          BY <1>3, <2>0, <3>3
        <5> QED
          BY <2>1, <3>3, <5>1, Zenon
      <4>2. set = {"bIsDeficientNumber"}
        BY <4>1
      <4> QED
        BY <4>2
    <3> QED
      BY <1>1, <1>3, <3>1, <3>2, <3>3
  <2>3. Cardinality(set) = 1
    <3> HIDE DEF set
    <3> QED
      BY <2>2, FS_Singleton
  <2>4. r.bIsPrimeNumber =>
          /\ r.bIsDeficientNumber /\ ~r.bIsSquareNumber /\ ~r.bIsCubeNumber
          /\ r.bIsOddNumber \/ r.iNumber = 2
    <3> SUFFICES ASSUME isPrime(number)
                 PROVE  /\ D < number /\ ~isSquareNumber(number) /\ ~isCubeNumber(number, root)
                        /\ isOdd(number) \/ number = 2
      BY <1>2
    <3>1. D = 1 /\ number > 1
      BY <1>1, DivisorSumOfPrime DEF D, isPrime
    <3> QED
      BY <1>1, <3>1, PrimesAreOddNoPowers
  <2> QED
    BY <2>3, <2>4 DEF FlagsAgree
<1>7. PowersExact(r)
  <2>1. isSquareNumber(number) <=> \E s \in 0..IntMax : s * s = number
    BY <1>1, SquaresExact
  <2>2. isCubeNumber(number, root) => \E s \in Ints : s * s * s = number
    BY <1>1, CubesExact
  <2> QED
    BY <1>2, <2>1, <2>2 DEF PowersExact
<1> QED
  BY <1>4, <1>5, <1>6, <1>7 DEF RecordTrue, r

\* RecordsTrue is about each record.
LEMMA RecordsOneByOne == RecordsTrue <=> \A r \in Records : RecordTrue(r)
BY DEF RecordsTrue, RecordTrue

\* The numbers main is at are ints, its counters within the input.
CountersType ==
  /\ numbers \in Inputs
  /\ written \in Seq(RecordType) /\ Len(written) <= index
  /\ announced \in -1..Len(numbers)
  /\ exitCode \in {-1, 0, 1}
  /\ pc \in {"open", "scan", "fibonacci", "close", "done"}

TruthInv == IndexFollows /\ IntsType /\ CountersType /\ LoopFollows /\ RecordsTrue

\* It holds at the start ..
LEMMA TruthInit ==
  ASSUME Init
  PROVE  TruthInv
<1>1. numbers \in Inputs /\ numbers \in Seq(Ints) /\ Len(numbers) \in Nat
  BY NumbersAssumption DEF Init
<1>2. /\ fpos = 0 /\ number = 0 /\ index = 0 /\ a = 0 /\ b = 1 /\ c = 1 /\ written = <<>>
      /\ announced = -1 /\ exitCode = -1 /\ pc = "open"
  BY DEF Init
<1>3. <<>> \in Seq(RecordType) /\ Len(<<>>) = 0 /\ DOMAIN <<>> = {}
  OBVIOUS
<1>4. IndexFollows
  BY <1>1, <1>2 DEF IndexFollows
<1>5. IntsType
  BY <1>2, IntFacts DEF IntsType
<1>6. CountersType
  BY <1>1, <1>2, <1>3 DEF CountersType
<1>7. LoopFollows
  BY <1>2 DEF LoopFollows
<1>8. RecordsTrue
  BY <1>2, <1>3 DEF RecordsTrue, Records, Range
<1> QED
  BY <1>4, <1>5, <1>6, <1>7, <1>8 DEF TruthInv

\* .. a number read starts the loop anew ..
LEMMA TruthScan ==
  ASSUME TruthInv, Scan
  PROVE  TruthInv'
<1>1. /\ UNCHANGED <<numbers, index, written, announced, exitCode>> /\ pc = "scan"
      /\ numbers \in Seq(Ints) /\ Len(numbers) \in Nat /\ index \in Nat /\ fpos = index
      /\ fpos \in 0..Len(numbers)
  BY DEF Scan, TruthInv, IndexFollows
<1>2. RecordsTrue' /\ Records' = Records
  BY <1>1 DEF TruthInv, RecordsTrue, Records
<1>3. CASE fpos < Len(numbers)
  <2>1. /\ number' = numbers[fpos + 1] /\ fpos' = fpos + 1
        /\ a' = 0 /\ b' = 1 /\ c' = 1 /\ pc' = "fibonacci"
    BY <1>3 DEF Scan
  <2>2. fpos + 1 \in 1..Len(numbers) /\ number' \in Ints
    BY <1>1, <1>3, <2>1
  <2>3. IndexFollows'
    BY <1>1, <2>1, <2>2 DEF IndexFollows
  <2>4. IntsType'
    BY <2>1, <2>2, IntFacts DEF IntsType
  <2>5. CountersType'
    BY <1>1, <2>1 DEF TruthInv, CountersType
  <2>6. LoopFollows'
    <3>1. 0 \in 0..IntMax /\ b' = Fib(0) /\ c' = FibNext(0)
      BY <2>1, FibFacts, IntFacts
    <3> QED
      BY <3>1 DEF LoopFollows
  <2> QED
    BY <1>2, <2>3, <2>4, <2>5, <2>6 DEF TruthInv
<1>4. CASE ~(fpos < Len(numbers))
  <2>1. pc' = "close" /\ UNCHANGED <<fpos, number, a, b, c>>
    BY <1>4 DEF Scan
  <2> QED
    BY <1>1, <1>2, <2>1 DEF TruthInv, IndexFollows, IntsType, CountersType, LoopFollows
<1> QED
  BY <1>3, <1>4

\* .. and a record written is true.
LEMMA TruthWrite ==
  ASSUME TruthInv, Write
  PROVE  TruthInv'
<1>1. /\ UNCHANGED <<numbers, fpos, number, a, b, c, announced, exitCode>>
      /\ pc = "fibonacci" /\ pc' = "scan" /\ index' = index + 1 /\ c >= number
  BY DEF Write
<1>2. /\ index \in Nat /\ fpos = index + 1 /\ number \in Ints
      /\ written \in Seq(RecordType) /\ Len(written) <= index /\ Len(written) \in Nat
  BY <1>1 DEF TruthInv, IndexFollows, CountersType, IntsType
<1>3. IndexFollows'
  BY <1>1, <1>2 DEF TruthInv, IndexFollows
<1>4. IntsType' /\ LoopFollows'
  BY <1>1 DEF TruthInv, IntsType, LoopFollows
<1>5. CASE UNCHANGED written
  <2>1. CountersType'
    BY <1>1, <1>2, <1>5 DEF TruthInv, CountersType
  <2>2. RecordsTrue'
    BY <1>5 DEF TruthInv, RecordsTrue, Records
  <2> QED
    BY <1>3, <1>4, <2>1, <2>2 DEF TruthInv
<1>6. ASSUME NEW root \in CubeRoots(number),
             written' = Append(written, Record(number, c = number, root))
      PROVE  TruthInv'
  <2> DEFINE r == Record(number, c = number, root)
             l == Len(written)
  <2>1. r \in RecordType
    BY <1>2, RecordIsRecord
  <2>2. RecordTrue(r)
    BY <1>1, <1>6, RecordIsTrue DEF TruthInv
  <2> HIDE DEF r
  <2>3. /\ written' \in Seq(RecordType) /\ Len(written') = l + 1
        /\ written'[l + 1] = r /\ \A k \in 1..l : written'[k] = written[k]
    BY <1>2, <1>6, <2>1 DEF r
  <2>4. CountersType'
    BY <1>1, <1>2, <2>3 DEF TruthInv, CountersType
  <2>5. ASSUME NEW q \in Records'
        PROVE  RecordTrue(q)
    <3>1. PICK k \in 1..l + 1 : q = written'[k]
      BY <1>2, <2>3 DEF Records, Range
    <3>2. CASE k = l + 1
      BY <2>2, <2>3, <3>1, <3>2
    <3>3. CASE k \in 1..l
      <4>1. q = written[k] /\ k \in DOMAIN written
        BY <1>2, <2>3, <3>1, <3>3
      <4>2. q \in Records
        BY <4>1 DEF Records, Range
      <4> QED
        BY <4>2, RecordsOneByOne DEF TruthInv
    <3> QED
      BY <1>2, <3>2, <3>3
  <2>6. RecordsTrue'
    BY <2>5 DEF RecordsTrue, RecordTrue
  <2> QED
    BY <1>3, <1>4, <2>4, <2>6 DEF TruthInv
<1> QED
  BY <1>5, <1>6 DEF Write

\* Every step keeps it.
LEMMA TruthStep ==
  ASSUME TruthInv, [Next]_vars
  PROVE  TruthInv'
<1>1. CASE FibonacciRound
  <2>1. /\ UNCHANGED <<numbers, fpos, number, index, written, announced, exitCode, pc>>
        /\ a' = b /\ b' = c /\ c' = Wrap(b + c)
    BY <1>1 DEF FibonacciRound
  <2>2. IntsType'
    <3>1. b \in Ints /\ c \in Ints /\ number \in Ints
      BY DEF TruthInv, IntsType
    <3>2. b \in Int /\ c \in Int
      BY <3>1, IntFacts
    <3>3. b + c \in Int
      BY <3>2
    <3>4. c' \in Ints
      BY <2>1, <3>3, WrapType
    <3> QED
      BY <2>1, <3>1, <3>4 DEF IntsType
  <2>3. LoopFollows'
    BY <1>1, LoopRound DEF TruthInv
  <2> QED
    BY <2>1, <2>2, <2>3 DEF TruthInv, IndexFollows, CountersType, RecordsTrue, Records
<1>2. CASE Open
  <2>1. /\ UNCHANGED <<numbers, fpos, number, index, a, b, c, written, announced>>
        /\ pc = "open" /\ pc' \in {"scan", "done"} /\ exitCode' \in {exitCode, 1}
    BY <1>2 DEF Open
  <2> QED
    BY <2>1 DEF TruthInv, IndexFollows, IntsType, CountersType, LoopFollows, RecordsTrue, Records
<1>3. CASE Close
  <2>1. /\ UNCHANGED <<numbers, fpos, number, index, a, b, c, written>>
        /\ pc = "close" /\ pc' = "done" /\ exitCode' = 0 /\ announced' = index - 1
    BY <1>3 DEF Close
  <2>2. announced' \in -1..Len(numbers)
    BY <2>1 DEF TruthInv, IndexFollows
  <2> QED
    BY <2>1, <2>2
    DEF TruthInv, IndexFollows, IntsType, CountersType, LoopFollows, RecordsTrue, Records
<1>4. CASE Done \/ UNCHANGED vars
  <2>1. UNCHANGED vars
    BY <1>4 DEF Done
  <2> QED
    BY <2>1
    DEF vars, TruthInv, IndexFollows, IntsType, CountersType, LoopFollows, RecordsTrue, Records
<1> QED
  BY <1>1, <1>2, <1>3, <1>4, TruthScan, TruthWrite DEF Next

\* TypeOK for every width and input: every result is an int again, and there
\* are no more records than numbers.
THEOREM TypeCorrect == Spec => []TypeOK
<1>1. Init => TruthInv
  BY TruthInit
<1>2. TruthInv /\ [Next]_vars => TruthInv'
  BY TruthStep
<1>3. TruthInv => TypeOK
  <2> SUFFICES ASSUME TruthInv PROVE TypeOK
    OBVIOUS
  <2>1. index \in Nat /\ fpos \in 0..Len(numbers) /\ index \in {fpos, fpos - 1}
    BY DEF TruthInv, IndexFollows
  <2> QED
    BY <2>1 DEF TruthInv, IntsType, CountersType, TypeOK
<1> QED
  BY <1>1, <1>2, <1>3, PTL DEF Spec

\* RecordsTrue for every width and input: the eight files judge every number
\* rightly, as far as an int reaches, and agree with each other.
THEOREM RecordsTell == Spec => []RecordsTrue
<1>1. Init => TruthInv
  BY TruthInit
<1>2. TruthInv /\ [Next]_vars => TruthInv'
  BY TruthStep
<1>3. TruthInv => RecordsTrue
  BY DEF TruthInv
<1> QED
  BY <1>1, <1>2, <1>3, PTL DEF Spec
=============================================================================

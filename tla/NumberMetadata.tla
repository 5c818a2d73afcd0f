--------------------------- MODULE NumberMetadata ---------------------------
(***************************************************************************)
(* The program of task2_307: it reads integers from a text file, lets      *)
(* eight predicates judge each and writes one record per integer.          *)
(*                                                                         *)
(* An int reaches from IntMin to IntMax.  The makefile compiles with -O2   *)
(* and the build adds and multiplies modulo the number of ints, so that a  *)
(* result that does not fit is wrapped.                                    *)
(* The Fibonacci loop, whose number of rounds depends on such a wrap, runs *)
(* a round per step; the other loops are bounded and are operators.        *)
(* fscanf stops at the first token that is no number, so what follows one  *)
(* does not matter: an input is the sequence of numbers before it.         *)
(***************************************************************************)
EXTENDS Integers, Sequences, FiniteSets, FiniteSetsExt, Functions

CONSTANTS
  IntMax,    \* 2^31 - 1 in the code
  Inputs,    \* the sequences of numbers the input file may hold
  Faults     \* the calls that may fail, of FaultNames

FaultNames == {"fin", "fout", "fwrite"}

IntMin == -IntMax - 1
Ints   == IntMin..IntMax

ASSUME NumbersAssumption ==
  /\ IntMax \in Nat /\ IntMax > 2 /\ IntMax % 2 = 1
  /\ Inputs \subseteq Seq(Ints)
  /\ Faults \subseteq FaultNames

VARIABLES
  numbers,    \* what the input file holds
  fpos,       \* how many of them have been read
  number,     \* the number in hand
  index,      \* the running index of main
  a, b, c,    \* locals of isFibonacci
  written,    \* the records of the output file
  announced,  \* the count of records main prints at its end, or -1
  exitCode,
  pc

vars == <<numbers, fpos, number, index, a, b, c, written, announced, exitCode, pc>>

\* A slip: the result is kept in a wider type.
Wrap_Wide(x) == x

Wrap(x) == ((x - IntMin) % (2 * (IntMax + 1))) + IntMin

(***************************************************************************)
(* The predicates.                                                         *)
(***************************************************************************)
\* The loop that isPerfectNumber, isAbundantNumber and isDeficientNumber share,
\* after each of its rounds.
DivisorSums(n) ==
  LET sum[i \in 0..n] == IF i = 0 THEN 0
                         ELSE Wrap(sum[i-1] + IF n % i = 0 THEN i ELSE 0)
  IN sum

\* A slip: the number counts as a divisor of itself.
DivisorSum_Itself(n) == IF n < 1 THEN 0 ELSE DivisorSums(n)[n]

DivisorSum(n) == IF n < 1 THEN 0 ELSE DivisorSums(n)[n-1]

isPerfectNumber(n)   == DivisorSum(n) = n
isAbundantNumber(n)  == DivisorSum(n) > n

isDeficientNumber(n) == DivisorSum(n) < n

isPrime(n) == n > 1 /\ \A i \in 2..n-1 : n % i # 0

isOdd(n) == n % 2 # 0

\* (int)sqrt(n): exact for every int; a NaN converts to the least int.
SquareRoot(n) ==
  IF n < 0 THEN IntMin
  ELSE CHOOSE r \in 0..n : r * r <= n /\ n < (r + 1) * (r + 1)

isSquareNumber(n) == Wrap(SquareRoot(n) * SquareRoot(n)) = n

\* (int)cbrt(n): cbrt need not be exact, and for the cube of r its result
\* may be just below r, which (int) then cuts to the integer before r.
CubeRoots(n) ==
  LET m    == IF n < 0 THEN -n ELSE n
      sign == IF n < 0 THEN -1 ELSE 1
      r    == CHOOSE r \in 0..m : r * r * r <= m /\ m < (r + 1) * (r + 1) * (r + 1)
  IN {sign * r} \cup (IF r > 0 /\ r * r * r = m THEN {sign * (r - 1)} ELSE {})

isCubeNumber(n, root) == Wrap(root * root * root) = n

(***************************************************************************)
(* main                                                                    *)
(***************************************************************************)
Init ==
  /\ numbers \in Inputs
  /\ fpos = 0 /\ number = 0 /\ index = 0
  /\ a = 0 /\ b = 1 /\ c = 1
  /\ written = <<>> /\ announced = -1 /\ exitCode = -1
  /\ pc = "open"

Open ==
  /\ pc = "open"
  /\ \/ pc' = "scan" /\ UNCHANGED exitCode
     \/ /\ {"fin", "fout"} \cap Faults # {}
        /\ exitCode' = 1
        /\ pc' = "done"
  /\ UNCHANGED <<numbers, fpos, number, index, a, b, c, written, announced>>

\* fscanf, and the initial values of isFibonacci.
Scan ==
  /\ pc = "scan"
  /\ IF fpos < Len(numbers)
     THEN /\ number' = numbers[fpos + 1] /\ fpos' = fpos + 1
          /\ a' = 0 /\ b' = 1 /\ c' = 1
          /\ pc' = "fibonacci"
     ELSE pc' = "close" /\ UNCHANGED <<fpos, number, a, b, c>>
  /\ UNCHANGED <<numbers, index, written, announced, exitCode>>

\* A slip: the loop goes on while c is not past the number.
FibonacciRound_TooFar ==
  /\ pc = "fibonacci"
  /\ c <= number
  /\ a' = b /\ b' = c /\ c' = Wrap(b + c)
  /\ UNCHANGED <<numbers, fpos, number, index, written, announced, exitCode, pc>>

FibonacciRound ==
  /\ pc = "fibonacci"
  /\ c < number
  /\ a' = b /\ b' = c /\ c' = Wrap(b + c)
  /\ UNCHANGED <<numbers, fpos, number, index, written, announced, exitCode, pc>>

Record(n, fib, root) ==
  [iIndex            |-> index,
   iNumber           |-> n,
   bIsFibonacci      |-> fib,
   bIsPrimeNumber    |-> isPrime(n),
   bIsSquareNumber   |-> isSquareNumber(n),
   bIsCubeNumber     |-> isCubeNumber(n, root),
   bIsPerfectNumber  |-> isPerfectNumber(n),
   bIsAbundantNumber |-> isAbundantNumber(n),
   bIsDeficientNumber |-> isDeficientNumber(n),
   bIsOddNumber      |-> isOdd(n)]

\* A slip: the index counts the records that arrived.
Write_CountsArrived ==
  /\ pc = "fibonacci"
  /\ c >= number
  /\ \E root \in CubeRoots(number) :
       \/ /\ written' = Append(written, Record(number, c = number, root))
          /\ index' = index + 1
       \/ "fwrite" \in Faults /\ UNCHANGED <<written, index>>
  /\ pc' = "scan"
  /\ UNCHANGED <<numbers, fpos, number, a, b, c, announced, exitCode>>

\* The end of isFibonacci, the other predicates, and fwrite, whose result
\* main does not look at: a record the disk has no room for is lost.
Write ==
  /\ pc = "fibonacci"
  /\ c >= number
  /\ \E root \in CubeRoots(number) :
       \/ written' = Append(written, Record(number, c = number, root))
       \/ "fwrite" \in Faults /\ UNCHANGED written
  /\ index' = index + 1
  /\ pc' = "scan"
  /\ UNCHANGED <<numbers, fpos, number, a, b, c, announced, exitCode>>

Close ==
  /\ pc = "close"
  /\ announced' = index - 1
  /\ exitCode' = 0
  /\ pc' = "done"
  /\ UNCHANGED <<numbers, fpos, number, index, a, b, c, written>>

Done == pc = "done" /\ UNCHANGED vars

Next == Open \/ Scan \/ FibonacciRound \/ Write \/ Close \/ Done

Spec     == Init /\ [][Next]_vars
FairSpec == Spec /\ WF_vars(Next)

(***************************************************************************)
(* Properties                                                              *)
(***************************************************************************)
Records == Range(written)

TypeOK ==
  /\ numbers \in Inputs
  /\ {number, a, b, c} \subseteq Ints
  /\ fpos \in 0..Len(numbers) /\ index \in {fpos, fpos - 1}
  /\ Len(written) <= index
  /\ announced \in -1..Len(numbers)
  /\ exitCode \in {-1, 0, 1}
  /\ pc \in {"open", "scan", "fibonacci", "close", "done"}

\* The Fibonacci numbers by their recurrence, each with the next; those that
\* fit an int are among the first IntMax.
FibonacciPairs ==
  LET f[i \in 0..IntMax] == IF i = 0 THEN <<1, 1>>
                            ELSE LET p == f[i-1] IN <<p[2], p[1] + p[2]>>
  IN f

FibonacciNumbers == {FibonacciPairs[i][1] : i \in 0..IntMax} \cap Ints

ProperDivisors(n) == {d \in 1..n-1 : n % d = 0}

\* isFibonacci misses no positive Fibonacci number, and up to the last one
\* an int can hold it takes no other number for one; beyond it the sum has
\* wrapped before the loop ends, and a number may be met by accident
\* (task2_fib.c).
FibonacciExact(r) ==
  /\ r.iNumber \in FibonacciNumbers => r.bIsFibonacci
  /\ r.bIsFibonacci /\ r.iNumber <= Max(FibonacciNumbers)
       => r.iNumber \in FibonacciNumbers

\* A positive number is filed by the sum of its proper divisors, as long as
\* that sum fits an int (task2_perf.c, task2_abun.c, task2_def.c).
DivisorClassExact(r) ==
  LET s == SumSet(ProperDivisors(r.iNumber))
  IN r.iNumber > 0 /\ s <= IntMax =>
       /\ r.bIsPerfectNumber = (s = r.iNumber)
       /\ r.bIsAbundantNumber = (s > r.iNumber)
       /\ r.bIsDeficientNumber = (s < r.iNumber)

\* What the eight files answer fits together for every int, the overflowing
\* ones too: a number is in one class of divisor sums, and a prime is in the
\* deficient one, no square, no cube, and odd unless it is 2.
FlagsAgree(r) ==
  /\ Cardinality({flag \in {"bIsPerfectNumber", "bIsAbundantNumber",
                            "bIsDeficientNumber"} : r[flag]}) = 1
  /\ r.bIsPrimeNumber =>
       /\ r.bIsDeficientNumber
       /\ ~r.bIsSquareNumber /\ ~r.bIsCubeNumber
       /\ r.bIsOddNumber \/ r.iNumber = 2

\* Squares are recognised exactly; a number taken for a cube is one, though
\* a cube may be missed when cbrt falls short (task2_kvad.c, task2_cube.c).
PowersExact(r) ==
  /\ r.bIsSquareNumber <=> \E s \in 0..IntMax : s * s = r.iNumber
  /\ r.bIsCubeNumber => \E s \in Ints : s * s * s = r.iNumber

\* A record says the truth about its number, within what an int can hold, with
\* the verdicts of files that share no code in agreement.
RecordsTrue ==
  \A r \in Records :
    FibonacciExact(r) /\ DivisorClassExact(r) /\ FlagsAgree(r) /\ PowersExact(r)

\* Records are in the order of the input and iIndex names the number a
\* record is about, also when an earlier record was lost.  The first number has
\* index 0, as main sets it (task2_main.c:36), and not 1, as task2.h:21 says:
\* see IndicesFromOne.
IndexNamesNumber ==
  /\ \A r \in Records : r.iIndex < index /\ numbers[r.iIndex + 1] = r.iNumber
  /\ \A i, j \in DOMAIN written : i < j => written[i].iIndex < written[j].iIndex

\* "Sequence number, where first number = 1" (task2.h:21), "iIndex field is
\* 1-based and must match the record order exactly" (README.md:121): the first
\* number has index 1.  main begins at 0, so that every record is one behind.
IndicesFromOne ==
  \A r \in Records : r.iIndex \in 1..Len(numbers) /\ numbers[r.iIndex] = r.iNumber

\* The program ends, whatever the numbers are: the Fibonacci loop also comes
\* to an end for the numbers no Fibonacci number of an int reaches.
Terminates == <>(pc = "done")
=============================================================================

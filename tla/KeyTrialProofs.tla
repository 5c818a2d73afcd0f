-------------------------- MODULE KeyTrialProofs --------------------------
(***************************************************************************)
(* Proofs about the cipher, Xtea, and about what a number goes through,    *)
(* KeyTrial, for every width of a word and of a byte, every key and text.  *)
(***************************************************************************)
EXTENDS KeyTrial, NatLemmas, SequenceTheorems

(***************************************************************************)
(* PART 1.  Decoding undoes coding, for every word size, exclusive or, key,*)
(* pair and number of rounds.                                              *)
(***************************************************************************)

\* Adding and taking away the same word gives the first one back.
LEMMA MinusPlus ==
  ASSUME NEW a \in Word, NEW f \in Word
  PROVE  Minus(Plus(a, f), f) = a
  BY XteaAssumption DEF Minus, Plus, Word

\* Taking away and adding the same word too.
LEMMA WordSums ==
  ASSUME NEW a \in Int, NEW b \in Int
  PROVE  Plus(a, b) \in Word /\ Minus(a, b) \in Word
<1>1. a + b \in Int /\ a - b \in Int
  OBVIOUS
<1> QED
  BY <1>1, XteaAssumption, ModRange DEF Plus, Minus, Word

\* A word shifted right is a word.
LEMMA ShiftRight ==
  ASSUME NEW a \in Word
  PROVE  a \div 32 \in Word
<1> DEFINE p == a \div 32
           r == a % 32
<1>1. a = 32 * p + r /\ r \in 0..31 /\ p \in Int
  BY XteaAssumption DEF Word
<1> HIDE DEF p, r
<1>2. p \in Word
  BY <1>1, XteaAssumption DEF Word
<1> QED
  BY <1>2 DEF p

\* What a round adds to one half is a word.
LEMMA MixWord ==
  ASSUME NEW x \in Word, NEW s \in Word, NEW k \in Word
  PROVE  Mix(x, s, k) \in Word
<1> DEFINE u == Xor((x * 16) % Modulus, x \div 32)
<1>1. x \in Int /\ s \in Int /\ k \in Int /\ x * 16 \in Int
  BY XteaAssumption DEF Word
<1>2. (x * 16) % Modulus \in Word /\ x \div 32 \in Word
  BY <1>1, XteaAssumption, ModRange, ShiftRight DEF Word
<1>3. u \in Word
  BY <1>2, XteaAssumption
<1> HIDE DEF u
<1>4. u \in Int
  BY <1>3, XteaAssumption DEF Word
<1>5. Plus(u, x) \in Word /\ Plus(s, k) \in Word
  BY <1>1, <1>4, WordSums
<1> QED
  BY <1>5, XteaAssumption DEF Mix, u

(***************************************************************************)
(* Rounds.                                                                 *)
(***************************************************************************)
Rec == [y : Word, z : Word, sum : Word]

\* A coding round with key k takes r to t.
IsRound(r, t, k) ==
  /\ t.sum = Plus(r.sum, DELTA)
  /\ t.y = Plus(r.y, Mix(r.z, r.sum, LowKey(k, r.sum)))
  /\ t.z = Plus(r.z, Mix(t.y, t.sum, HighKey(k, t.sum)))

\* Key words are words.
LEMMA KeyWord ==
  ASSUME NEW k \in Key, NEW s \in Word
  PROVE  LowKey(k, s) \in Word /\ HighKey(k, s) \in Word
<1>1. s \in Int
  BY XteaAssumption DEF Word
<1>2. s % 4 \in 0..3
  BY <1>1, ModRange
<1> DEFINE h == s \div 2048
<1>3. h \in Int
  BY <1>1, ModRange
<1> HIDE DEF h
<1>4. h % 4 \in 0..3
  BY <1>3, ModRange
<1> QED
  BY <1>2, <1>4 DEF LowKey, HighKey, Key, h

\* What a decoding round computes from the result of a coding round is what
\* that round started from.
LEMMA UndoRound ==
  ASSUME NEW r \in Rec, NEW t \in Rec, NEW k \in Key, IsRound(r, t, k)
  PROVE  /\ Minus(t.z, Mix(t.y, t.sum, HighKey(k, t.sum))) = r.z
         /\ Minus(t.sum, DELTA) = r.sum
         /\ Minus(t.y, Mix(r.z, r.sum, LowKey(k, r.sum))) = r.y
<1>1. /\ r.y \in Word /\ r.z \in Word /\ r.sum \in Word
      /\ t.y \in Word /\ t.z \in Word /\ t.sum \in Word
  BY DEF Rec
<1>2. LowKey(k, r.sum) \in Word /\ HighKey(k, t.sum) \in Word
  BY <1>1, KeyWord
<1>3. /\ Mix(t.y, t.sum, HighKey(k, t.sum)) \in Word
      /\ Mix(r.z, r.sum, LowKey(k, r.sum)) \in Word
  BY <1>1, <1>2, MixWord
<1>4. DELTA \in Word
  BY XteaAssumption
<1> QED
  BY <1>1, <1>3, <1>4, MinusPlus DEF IsRound

(***************************************************************************)
(* The invariant.                                                          *)
(***************************************************************************)
CallType == [v : Pair, k : Key, N : -Cycles..Cycles]

TeanTypeOK ==
  /\ call \in CallType
  /\ y \in Word /\ z \in Word /\ sum \in Word /\ limit \in Word
  /\ w \in Pair
  /\ running \in {"coding", "decoding", "idle"}
  /\ trail \in Seq(Rec)
  /\ codings \subseteq [call : CallType, w : Pair, trail : Seq(Rec)]

\* t is the trail of a coding call c, from its start to where it is.
Coded(t, c) ==
  /\ c.N > 0
  /\ Len(t) \in 1..c.N + 1
  /\ t[1].y = c.v[1] /\ t[1].z = c.v[2]
  /\ \A j \in 1..Len(t) : t[j].sum = ((j - 1) * DELTA) % Modulus
  /\ \A j \in 1..Len(t) - 1 : IsRound(t[j], t[j + 1], c.k)

\* A call that codes has left such a trail.
CodingFollowsTrail ==
  running = "coding" =>
    /\ Coded(trail, call)
    /\ trail[Len(trail)] = State
    /\ limit = (call.N * DELTA) % Modulus

\* .. and the trails of the calls that have ended are complete.
TrailsComplete ==
  \A c \in codings :
    /\ Coded(c.trail, c.call)
    /\ c.trail[Len(c.trail)].sum = (c.call.N * DELTA) % Modulus
    /\ c.w = <<c.trail[Len(c.trail)].y, c.trail[Len(c.trail)].z>>

Undoes(c) == c.w = call.v /\ c.call.k = call.k /\ c.call.N = -call.N

\* A call that decodes what c coded walks back along the trail of c.
DecodingRetraces ==
  running = "decoding" =>
    \A c \in codings : Undoes(c) =>
      /\ Len(trail) \in 1..Len(c.trail)
      /\ c.trail[Len(c.trail) + 1 - Len(trail)] = State

NotBoth == running = "decoding" => call.N <= 0

TInv ==
  /\ TeanTypeOK
  /\ CodingFollowsTrail
  /\ TrailsComplete
  /\ DecodingRetraces
  /\ NotBoth
  /\ RoundTrip

(***************************************************************************)
(* The actions keep it.                                                    *)
(***************************************************************************)
LEMMA InitInv == TeanInit => TInv
<1> SUFFICES ASSUME TeanInit PROVE TInv
  OBVIOUS
<1> USE DEF TeanInit
<1>0. 0 \in Word
  BY XteaAssumption DEF Word
<1>1. 0 \in Word /\ <<0, 0>> \in Pair
  BY <1>0 DEF Pair
<1>2. [j \in 0..3 |-> 0] \in Key /\ 0 \in -Cycles..Cycles
  BY <1>1, XteaAssumption DEF Key
<1>3. TeanTypeOK
  BY <1>1, <1>2 DEF TeanTypeOK, CallType
<1>4. CodingFollowsTrail /\ TrailsComplete /\ DecodingRetraces /\ NotBoth /\ RoundTrip
  BY DEF CodingFollowsTrail, TrailsComplete, DecodingRetraces, NotBoth, RoundTrip
<1> QED
  BY <1>3, <1>4 DEF TInv

LEMMA CallInv ==
  ASSUME TInv, NEW v \in Pair, NEW k \in Key, NEW N \in -Cycles..Cycles,
         Call(v, k, N)
  PROVE  TInv'
<1> USE DEF Call
<1>0. N \in Int /\ DELTA \in Int /\ Modulus \in Nat \ {0} /\ 0 \in Word
  BY XteaAssumption DEF Word
<1>1. DELTA * N \in Int /\ DELTA * (-N) \in Int
  BY <1>0
<1>2. (DELTA * N) % Modulus \in Word /\ (DELTA * (-N)) % Modulus \in Word
  BY <1>0, <1>1, ModRange DEF Word
<1>3. v[1] \in Word /\ v[2] \in Word
  BY DEF Pair
<1>4. y' \in Word /\ z' \in Word /\ sum' \in Word /\ limit' \in Word
  BY <1>0, <1>2, <1>3
<1>5. call' \in CallType
  BY DEF CallType
<1>6. trail' \in Seq(Rec)
  BY <1>4 DEF Rec
<1>7. TeanTypeOK'
  BY <1>4, <1>5, <1>6 DEF TInv, TeanTypeOK
<1>8. TrailsComplete'
  BY DEF TInv, TrailsComplete
<1>9. Len(trail') = 1 /\ trail'[1] = [y |-> y', z |-> z', sum |-> sum']
  OBVIOUS
<1>10. CASE N > 0
  <2>1. running' = "coding" /\ sum' = 0 /\ limit' = (DELTA * N) % Modulus
    BY <1>10
  <2>2. DELTA * N = N * DELTA
    BY <1>0
  <2>3. Coded(trail', call')
    <3>1. call'.N = N /\ call'.v = v
      OBVIOUS
    <3>2. Len(trail') \in 1..call'.N + 1
      BY <1>9, <1>10, <1>0, <3>1
    <3>3. 0 = (0 * DELTA) % Modulus
      <4>1. 0 * DELTA = 0
        BY <1>0
      <4> QED
        BY <4>1, <1>0, ModSmall
    <3>4. \A j \in 1..Len(trail') : trail'[j].sum = ((j - 1) * DELTA) % Modulus
      BY <1>9, <2>1, <3>3
    <3>5. \A j \in 1..Len(trail') - 1 : IsRound(trail'[j], trail'[j + 1], call'.k)
      BY <1>9
    <3> QED
      BY <1>9, <1>10, <3>1, <3>2, <3>4, <3>5 DEF Coded
  <2>4. CodingFollowsTrail'
    BY <2>1, <2>2, <2>3, <1>9 DEF CodingFollowsTrail, State
  <2> QED
    BY <2>1, <2>4, <1>7, <1>8 DEF TInv, DecodingRetraces, NotBoth, RoundTrip
<1>11. CASE ~(N > 0)
  <2>1. running' = "decoding" /\ sum' = (DELTA * (-N)) % Modulus
    BY <1>11
  <2>2. DecodingRetraces'
    <3> SUFFICES ASSUME NEW c \in codings', Undoes(c)'
                 PROVE  /\ Len(trail') \in 1..Len(c.trail)
                        /\ c.trail[Len(c.trail) + 1 - Len(trail')] = State'
      BY DEF DecodingRetraces
    <3>1. c \in codings /\ c \in [call : CallType, w : Pair, trail : Seq(Rec)]
      BY DEF TInv, TeanTypeOK
    <3>2. /\ Coded(c.trail, c.call)
          /\ c.trail[Len(c.trail)].sum = (c.call.N * DELTA) % Modulus
          /\ c.w = <<c.trail[Len(c.trail)].y, c.trail[Len(c.trail)].z>>
      BY <3>1 DEF TInv, TrailsComplete
    <3>3. c.w = v /\ c.call.N = -N
      BY DEF Undoes
    <3>4. Len(c.trail) \in Nat /\ Len(c.trail) >= 1
      BY <3>1, <3>2 DEF Coded, CallType
    <3>5. c.trail[Len(c.trail)] \in Rec
      BY <3>1, <3>4
    <3>6. DELTA * (-N) = (-N) * DELTA
      BY <1>0
    <3>7. c.trail[Len(c.trail)] = [y |-> y', z |-> z', sum |-> sum']
      BY <2>1, <3>2, <3>3, <3>5, <3>6 DEF Rec
    <3>8. Len(c.trail) + 1 - Len(trail') = Len(c.trail)
      BY <3>4, <1>9
    <3> QED
      BY <3>4, <3>7, <3>8, <1>9 DEF State
  <2>3. NotBoth'
    BY <1>11, <1>0 DEF NotBoth
  <2> QED
    BY <2>1, <2>2, <2>3, <1>7, <1>8 DEF TInv, CodingFollowsTrail, RoundTrip
<1> QED
  BY <1>10, <1>11

LEMMA CodeRoundInv ==
  ASSUME TInv, CodeRound
  PROVE  TInv'
<1> USE DEF CodeRound
<1> DEFINE L == Len(trail)
           t == [y |-> y', z |-> z', sum |-> sum']
<1>0. DELTA \in Nat /\ Modulus \in Nat \ {0} /\ DELTA \in Word
  BY XteaAssumption DEF Word
<1>1. /\ call \in CallType /\ y \in Word /\ z \in Word /\ sum \in Word
      /\ trail \in Seq(Rec) /\ call.k \in Key /\ call.N \in Int
  BY DEF TInv, TeanTypeOK, CallType
<1>2. Coded(trail, call) /\ trail[L] = State /\ limit = (call.N * DELTA) % Modulus
  BY DEF TInv, CodingFollowsTrail
<1>3. L \in Nat /\ L >= 1 /\ L <= call.N + 1
  BY <1>1, <1>2 DEF Coded
<1>4. sum = ((L - 1) * DELTA) % Modulus
  BY <1>2, <1>3 DEF Coded, State
<1>5. L <= call.N
  BY <1>2, <1>3, <1>4, <1>1
<1>6. y' \in Word /\ z' \in Word /\ sum' \in Word
  <2>1. \A q \in Word : q \in Int
    BY <1>0 DEF Word
  <2>2. \A q \in Word : LowKey(call.k, q) \in Word /\ HighKey(call.k, q) \in Word
    BY <1>1, KeyWord
  <2>3. sum' \in Word
    BY <1>0, <1>1, <2>1, WordSums
  <2>4. y' \in Word
    BY <1>1, <2>1, <2>2, <2>3, MixWord, WordSums
  <2> QED
    BY <1>1, <2>1, <2>2, <2>3, <2>4, MixWord, WordSums
<1>7. t \in Rec /\ State \in Rec
  BY <1>6, <1>1 DEF Rec, State
<1>8. trail' \in Seq(Rec) /\ Len(trail') = L + 1 /\ trail'[L + 1] = t
      /\ \A j \in 1..L : trail'[j] = trail[j]
  BY <1>1, <1>3, <1>7
<1>9. IsRound(State, t, call.k)
  BY DEF IsRound, State
<1>10. sum' = (L * DELTA) % Modulus
  <2>1. (L - 1) * DELTA \in Nat /\ (L - 1) * DELTA + DELTA = L * DELTA
    BY <1>0, <1>3
  <2> QED
    BY <2>1, <1>0, <1>4, ModSum DEF Plus
<1>11. Coded(trail', call)
  <2>1. Len(trail') \in 1..call.N + 1
    BY <1>1, <1>3, <1>5, <1>8
  <2>2. \A j \in 1..Len(trail') : trail'[j].sum = ((j - 1) * DELTA) % Modulus
    <3> TAKE j \in 1..Len(trail')
    <3>1. CASE j \in 1..L
      BY <3>1, <1>2, <1>8 DEF Coded
    <3>2. CASE j = L + 1
      BY <3>2, <1>3, <1>8, <1>10
    <3> QED
      BY <3>1, <3>2, <1>3, <1>8
  <2>3. \A j \in 1..Len(trail') - 1 : IsRound(trail'[j], trail'[j + 1], call.k)
    <3> TAKE j \in 1..Len(trail') - 1
    <3>1. CASE j \in 1..L - 1
      <4>1. trail'[j] = trail[j] /\ trail'[j + 1] = trail[j + 1]
        BY <3>1, <1>3, <1>8
      <4> QED
        BY <3>1, <4>1, <1>2 DEF Coded
    <3>2. CASE j = L
      BY <3>2, <1>2, <1>3, <1>8, <1>9
    <3> QED
      BY <3>1, <3>2, <1>3, <1>8
  <2>4. call.N > 0 /\ trail'[1].y = call.v[1] /\ trail'[1].z = call.v[2]
    BY <1>2, <1>3, <1>8 DEF Coded
  <2> QED
    BY <2>1, <2>2, <2>3, <2>4 DEF Coded
<1>12. CodingFollowsTrail'
  BY <1>2, <1>8, <1>11 DEF CodingFollowsTrail, State
<1>13. TeanTypeOK'
  BY <1>6, <1>8 DEF TInv, TeanTypeOK
<1> QED
  BY <1>12, <1>13 DEF TInv, TrailsComplete, DecodingRetraces, NotBoth, RoundTrip

\* While the sum is not 0 a call that decodes has not come to the start of
\* the trail it walks back along, and its next round is the one before.
LEMMA DecodeRoundInv ==
  ASSUME TInv, DecodeRound
  PROVE  TInv'
<1> USE DEF DecodeRound
<1> DEFINE t == [y |-> y', z |-> z', sum |-> sum']
<1>0. DELTA \in Nat /\ Modulus \in Nat \ {0} /\ DELTA \in Word
  BY XteaAssumption DEF Word
<1>1. /\ call \in CallType /\ y \in Word /\ z \in Word /\ sum \in Word
      /\ trail \in Seq(Rec) /\ call.k \in Key
  BY DEF TInv, TeanTypeOK, CallType
<1>2. y' \in Word /\ z' \in Word /\ sum' \in Word
  <2>1. \A q \in Word : q \in Int
    BY <1>0 DEF Word
  <2>2. \A q \in Word : LowKey(call.k, q) \in Word /\ HighKey(call.k, q) \in Word
    BY <1>1, KeyWord
  <2>3. sum' \in Word
    BY <1>0, <1>1, <2>1, WordSums
  <2>4. z' \in Word
    BY <1>1, <2>1, <2>2, <2>3, MixWord, WordSums
  <2> QED
    BY <1>1, <2>1, <2>2, <2>3, <2>4, MixWord, WordSums
<1>3. t \in Rec /\ trail' \in Seq(Rec) /\ Len(trail') = Len(trail) + 1
  BY <1>1, <1>2 DEF Rec
<1>4. TeanTypeOK'
  BY <1>2, <1>3 DEF TInv, TeanTypeOK
<1>5. DecodingRetraces'
  <2> SUFFICES ASSUME NEW c \in codings', Undoes(c)'
               PROVE  /\ Len(trail') \in 1..Len(c.trail)
                      /\ c.trail[Len(c.trail) + 1 - Len(trail')] = t
    BY DEF DecodingRetraces, State
  <2> DEFINE p == Len(c.trail) + 1 - Len(trail)
  <2>1. c \in codings /\ c \in [call : CallType, w : Pair, trail : Seq(Rec)]
    BY DEF TInv, TeanTypeOK
  <2>2. Coded(c.trail, c.call)
    BY <2>1 DEF TInv, TrailsComplete
  <2>3. Len(trail) \in 1..Len(c.trail) /\ c.trail[p] = State /\ c.call.k = call.k
    BY <2>1 DEF TInv, DecodingRetraces, Undoes
  <2>4. Len(c.trail) \in Nat /\ Len(trail) \in Nat /\ p \in 1..Len(c.trail)
    BY <2>1, <2>3, <1>1
  <2>5. p # 1
    <3> SUFFICES ASSUME p = 1 PROVE FALSE
      OBVIOUS
    <3>1. sum = ((1 - 1) * DELTA) % Modulus
      BY <2>2, <2>3, <2>4 DEF Coded, State
    <3>2. (1 - 1) * DELTA = 0 /\ 0 \in 0..Modulus - 1
      BY <1>0
    <3> QED
      BY <3>1, <3>2, <1>0, ModSmall
  <2>6. p - 1 \in 1..Len(c.trail) - 1
    BY <2>4, <2>5
  <2>7. IsRound(c.trail[p - 1], c.trail[p], call.k)
    <3>1. (p - 1) + 1 = p
      BY <2>4
    <3> QED
      BY <2>2, <2>3, <2>6, <3>1 DEF Coded
  <2>8. c.trail[p - 1] \in Rec /\ c.trail[p] \in Rec
    BY <2>1, <2>4, <2>6
  <2> DEFINE r == c.trail[p - 1]
  <2>9. /\ Minus(z, Mix(y, sum, HighKey(call.k, sum))) = r.z
        /\ Minus(sum, DELTA) = r.sum
        /\ Minus(y, Mix(r.z, r.sum, LowKey(call.k, r.sum))) = r.y
    BY <2>3, <2>7, <2>8, <1>1, UndoRound DEF State
  <2>10. z' = r.z /\ sum' = r.sum /\ y' = r.y
    BY <2>9
  <2>11. r = t
    BY <2>8, <2>10 DEF Rec
  <2>12. Len(c.trail) + 1 - Len(trail') = p - 1
    <3> DEFINE m == Len(c.trail)
               l == Len(trail)
               l1 == Len(trail')
    <3>1. m \in Nat /\ l \in Nat /\ l1 = l + 1
      BY <2>4, <1>3
    <3> HIDE DEF m, l, l1
    <3>2. m + 1 - l1 = (m + 1 - l) - 1
      BY <3>1
    <3>3. p = m + 1 - l
      BY DEF m, l
    <3> HIDE DEF p
    <3> QED
      BY <3>2, <3>3 DEF m, l1
  <2>13. Len(trail') \in 1..Len(c.trail)
    BY <2>4, <2>6, <1>3
  <2> QED
    BY <2>11, <2>12, <2>13
<1> QED
  BY <1>4, <1>5 DEF TInv, CodingFollowsTrail, TrailsComplete, NotBoth, RoundTrip

\* With the sum at 0 it has come to the start.
LEMMA ReturnInv ==
  ASSUME TInv, Return
  PROVE  TInv'
<1> USE DEF Return
<1>0. DELTA \in Nat /\ Modulus \in Nat \ {0} /\ Cycles \in Nat
  BY XteaAssumption DEF Word
<1>1. /\ call \in CallType /\ y \in Word /\ z \in Word /\ sum \in Word
      /\ limit \in Word /\ trail \in Seq(Rec) /\ <<y, z>> \in Pair
      /\ codings \subseteq [call : CallType, w : Pair, trail : Seq(Rec)]
  BY DEF TInv, TeanTypeOK, Pair
<1>2. CASE running = "coding"
  <2> DEFINE c0 == [call |-> call, w |-> <<y, z>>, trail |-> trail]
  <2>1. sum = limit /\ codings' = codings \cup {c0}
    BY <1>2
  <2>2. Coded(trail, call) /\ trail[Len(trail)] = State
        /\ limit = (call.N * DELTA) % Modulus /\ call.N > 0
    BY <1>2 DEF TInv, CodingFollowsTrail, Coded
  <2>3. TeanTypeOK'
    BY <1>1, <2>1 DEF TInv, TeanTypeOK
  <2>4. TrailsComplete'
    <3>1. /\ Coded(c0.trail, c0.call)
          /\ c0.trail[Len(c0.trail)].sum = (c0.call.N * DELTA) % Modulus
          /\ c0.w = <<c0.trail[Len(c0.trail)].y, c0.trail[Len(c0.trail)].z>>
      BY <2>1, <2>2 DEF State
    <3> HIDE DEF c0
    <3> QED
      BY <2>1, <3>1 DEF TInv, TrailsComplete
  <2>5. RoundTrip'
    <3> SUFFICES ASSUME NEW c \in codings', c.call.N = -call.N
                 PROVE  FALSE
      BY DEF RoundTrip
    <3>1. c.call.N > 0
      BY <2>4 DEF TrailsComplete, Coded
    <3>2. call.N \in Int /\ c.call.N \in Int
      BY <1>0, <1>1, <2>3 DEF CallType, TeanTypeOK
    <3> QED
      BY <2>2, <3>1, <3>2
  <2> QED
    BY <2>3, <2>4, <2>5 DEF TInv, CodingFollowsTrail, DecodingRetraces, NotBoth
<1>3. CASE running = "decoding"
  <2>1. sum = 0 /\ codings' = codings
    BY <1>3
  <2>2. RoundTrip'
    <3> SUFFICES ASSUME NEW c \in codings, Undoes(c)
                 PROVE  <<y, z>> = c.call.v
      BY <2>1 DEF RoundTrip, Undoes
    <3> DEFINE p == Len(c.trail) + 1 - Len(trail)
    <3>1. c \in [call : CallType, w : Pair, trail : Seq(Rec)]
      BY <1>1
    <3>2. Coded(c.trail, c.call)
      BY DEF TInv, TrailsComplete
    <3>3. Len(trail) \in 1..Len(c.trail) /\ c.trail[p] = State
      BY <1>3 DEF TInv, DecodingRetraces
    <3>4. Len(c.trail) \in Nat /\ Len(trail) \in Nat /\ p \in 1..Len(c.trail)
      BY <3>1, <3>3, <1>1
    <3>5. ((p - 1) * DELTA) % Modulus = 0
      <4>1. c.trail[p].sum = 0
        BY <2>1, <3>3 DEF State
      <4>2. c.trail[p].sum = ((p - 1) * DELTA) % Modulus
        BY <3>2, <3>4 DEF Coded
      <4> QED
        BY <4>1, <4>2
    <3>6. p - 1 \in 0..Cycles
      BY <3>1, <3>2, <3>4, <1>0 DEF Coded, CallType
    <3>7. p = 1
      <4>1. CASE p - 1 \in 1..Cycles
        BY <4>1, <3>5, XteaAssumption
      <4> QED
        BY <4>1, <3>4, <3>6, <1>0
    <3>8. c.trail[1].y = c.call.v[1] /\ c.trail[1].z = c.call.v[2]
      BY <3>2 DEF Coded
    <3>9. c.call.v \in Word \X Word
      BY <3>1 DEF CallType, Pair
    <3>10. y = c.call.v[1] /\ z = c.call.v[2]
      BY <3>3, <3>7, <3>8 DEF State
    <3> QED
      BY <3>9, <3>10
  <2>3. TeanTypeOK'
    BY <1>1, <2>1 DEF TInv, TeanTypeOK
  <2> QED
    BY <2>1, <2>2, <2>3 DEF TInv, CodingFollowsTrail, TrailsComplete, DecodingRetraces, NotBoth
<1> QED
  BY <1>2, <1>3

\* Decoding with the key and the number of rounds of a coding call undoes
\* it, for every word, key and number of rounds up to Cycles (xtea.c).
THEOREM DecodingUndoesCoding == TeanSpec => []RoundTrip
<1>1. TInv /\ [TeanNext]_teanVars => TInv'
  <2> SUFFICES ASSUME TInv, [TeanNext]_teanVars PROVE TInv'
    OBVIOUS
  <2>1. CASE \E v \in Pair, k \in Key, N \in -Cycles..Cycles : Call(v, k, N)
    BY <2>1, CallInv
  <2>2. CASE Tean
    BY <2>2, CodeRoundInv, DecodeRoundInv, ReturnInv DEF Tean
  <2>3. CASE UNCHANGED teanVars
    BY <2>3 DEF teanVars, TInv, TeanTypeOK, CodingFollowsTrail, Coded, State,
             TrailsComplete, DecodingRetraces, Undoes, NotBoth, RoundTrip
  <2> QED
    BY <2>1, <2>2, <2>3 DEF TeanNext
<1>2. TInv => RoundTrip
  BY DEF TInv
<1> QED
  BY <1>1, <1>2, InitInv, PTL DEF TeanSpec

(***************************************************************************)
(* PART 2.  What isPrime answers, for every number: the loop of task4_prime.c,*)
(* a division per step, and what is read off its variable afterwards.      *)
(***************************************************************************)

\* Nothing below the divisor isPrime is at divides the number in hand.
NoDivisorYet == i \in Nat /\ i >= 2 /\ \A d \in 2..i-1 : n % d # 0

PrimeInv ==
  /\ n \in Nat
  /\ pc \in {"encrypt", "encrypted", "isPrime"} => verdict = -1
  /\ pc = "isPrime" => NoDivisorYet
  /\ PrimeVerdict

\* A number is a number.
LEMMA NumbersAreNat == Numbers \subseteq Nat
<1>1. Word \subseteq Nat
  BY XteaAssumption DEF Word
<1> QED
  BY <1>1, KeyTrialAssumption

\* Steps that neither are isPrime's nor come before it leave its answer alone.
LEMMA AnswerKept ==
  ASSUME PrimeInv, UNCHANGED <<n, verdict>>,
         pc' \in {"encrypt", "encrypted", "isPrime"} => pc = pc' /\ UNCHANGED i
  PROVE  PrimeInv'
BY DEF PrimeInv, NoDivisorYet, PrimeVerdict

\* Every step keeps the answer right.
LEMMA PrimeStep ==
  ASSUME PrimeInv, [Next]_vars
  PROVE  PrimeInv'
<1>1. CASE Encrypt
  <2>1. UNCHANGED <<n, verdict>> /\ verdict = -1
    BY <1>1 DEF Encrypt, PrimeInv
  <2>2. pc' = "encrypted" \/ (pc' = "isPrime" /\ i' = 2)
    BY <1>1 DEF Encrypt
  <2>3. pc' = "isPrime" => NoDivisorYet'
    BY <2>2 DEF NoDivisorYet
  <2> QED
    BY <2>1, <2>3 DEF PrimeInv, PrimeVerdict
<1>2. CASE Encrypted
  BY <1>2 DEF Encrypted, PrimeInv, PrimeVerdict
<1>3. CASE IsPrimeRound
  <2>1. NoDivisorYet /\ i' = i + 1 /\ n % i # 0 /\ UNCHANGED <<n, verdict, pc>> /\ pc = "isPrime"
    BY <1>3 DEF IsPrimeRound, PrimeInv
  <2>2. \A d \in 2..i' - 1 : d \in 2..i - 1 \/ d = i
    BY <2>1 DEF NoDivisorYet
  <2>3. NoDivisorYet'
    BY <2>1, <2>2 DEF NoDivisorYet
  <2> QED
    BY <2>1, <2>3 DEF PrimeInv, PrimeVerdict
<1>4. CASE IsPrimeReturn
  <2>1. /\ NoDivisorYet /\ n \in Nat /\ UNCHANGED n
        /\ i >= n \/ n % i = 0
        /\ verdict' = IF i < n THEN 0 ELSE n
        /\ pc' \in {"malloc", "end"}
    BY <1>4 DEF IsPrimeReturn, PrimeInv
  <2>2. CASE i < n
    <3>1. i \in 2..n-1 /\ n % i = 0 /\ n > 1 /\ n # 1
      BY <2>1, <2>2 DEF NoDivisorYet
    <3> QED
      BY <2>1, <2>2, <3>1 DEF PrimeInv, PrimeVerdict
  <2>3. CASE i >= n
    <3>1. verdict' = n
      BY <2>1, <2>3 DEF NoDivisorYet
    <3>2. \A d \in 2..n-1 : n % d # 0
      BY <2>1, <2>3 DEF NoDivisorYet
    <3>3. n # 0 <=> n = 1 \/ n > 1
      BY <2>1
    <3> QED
      BY <2>1, <3>1, <3>2, <3>3 DEF PrimeInv, PrimeVerdict
  <2> QED
    BY <2>1, <2>2, <2>3 DEF NoDivisorYet
<1>5. CASE Cipher \/ End \/ UNCHANGED vars
  <2>1. UNCHANGED <<n, verdict, pc, i>>
    BY <1>5 DEF Cipher, End, vars, work
  <2> QED
    BY <2>1, AnswerKept
<1>6. CASE Malloc \/ Decrypt \/ Decrypted \/ Compare \/ SavePlain \/ ChecksumRound \/ SaveHash
  <2>1. UNCHANGED <<n, verdict>>
        /\ pc' \notin {"encrypt", "encrypted", "isPrime"}
    BY <1>6 DEF Malloc, Decrypt, Decrypted, Compare, SavePlain, ChecksumRound, SaveHash, work
  <2> QED
    BY <2>1, AnswerKept
<1> QED
  BY <1>1, <1>2, <1>3, <1>4, <1>5, <1>6 DEF Next

\* PrimeVerdict for every number: isPrime passes the primes and 1, and no other.
THEOREM PrimesPass == Spec => []PrimeVerdict
<1>1. Init => PrimeInv
  BY NumbersAreNat DEF Init, PrimeInv, PrimeVerdict
<1>2. PrimeInv /\ [Next]_vars => PrimeInv'
  BY PrimeStep
<1>3. PrimeInv => PrimeVerdict
  BY DEF PrimeInv
<1> QED
  BY <1>1, <1>2, <1>3, PTL DEF Spec

(***************************************************************************)
(* PART 3.  Bytes and words: a word is taken apart into its bytes and put  *)
(* together again, whatever the width of a byte.                           *)
(***************************************************************************)

\* The larger factor gives the larger product.
LEMMA TimesMonotone ==
  ASSUME NEW m \in Nat, NEW p \in Nat, NEW q \in Nat, p <= q
  PROVE  m * p <= m * q
<1>1. m * (p + (q - p)) = m * p + m * (q - p)
  BY Distributes
<1>2. m * (q - p) >= 0 /\ m * p \in Nat /\ p + (q - p) = q
  OBVIOUS
<1> QED
  BY <1>1, <1>2

\* A number below K moved up by a byte, with a byte put in below it.
LEMMA PutByte ==
  ASSUME NEW K \in Nat, NEW a \in Byte, NEW q \in 0..K-1
  PROVE  /\ a + Base * q \in 0..Base * K - 1
         /\ (a + Base * q) % Base = a
         /\ (a + Base * q) \div Base = q
<1>1. Base \in Nat \ {0} /\ a \in 0..Base-1 /\ q \in Nat /\ q + 1 \in Nat /\ q + 1 <= K
  BY KeyTrialAssumption DEF Byte
<1>2. Base * (q + 1) <= Base * K
  BY <1>1, TimesMonotone
<1>3. Base * (q + 1) = Base * q + Base
  BY <1>1, Distributes
<1>4. Base * q \in Nat /\ Base * K \in Nat
  BY <1>1
<1>5. a + Base * q \in 0..Base * K - 1
  BY <1>1, <1>2, <1>3, <1>4
<1>6. (Base * q + a) % Base = a /\ (Base * q + a) \div Base = q
  BY <1>1
<1>7. a + Base * q = Base * q + a
  BY <1>1, <1>4
<1> QED
  BY <1>5, <1>6, <1>7

\* .. and a byte taken off a number.
LEMMA TakeByte ==
  ASSUME NEW K \in Nat, NEW x \in 0..Base * K - 1
  PROVE  /\ x % Base \in Byte
         /\ x \div Base \in 0..K-1
         /\ (x % Base) + Base * (x \div Base) = x
<1> DEFINE p == x \div Base
           r == x % Base
<1>1. Base \in Nat \ {0} /\ Base * K \in Nat /\ x \in Nat /\ x < Base * K
  BY KeyTrialAssumption
<1>2. x = Base * p + r /\ p \in Int /\ r \in 0..Base-1
  BY <1>1, ModSplit, ModRange
<1>3. p \in Nat
  BY <1>1
<1> HIDE DEF p, r
<1>4. p < K
  <2> SUFFICES ASSUME K <= p PROVE FALSE
    BY <1>3
  <2>1. Base * K <= Base * p
    BY <1>1, <1>3, TimesMonotone
  <2>2. Base * p \in Nat
    BY <1>1, <1>3
  <2> QED
    BY <1>1, <1>2, <2>1, <2>2
<1>5. r + Base * p = x
  <2>1. Base * p \in Nat
    BY <1>1, <1>3
  <2> QED
    BY <1>2, <2>1
<1> QED
  BY <1>2, <1>3, <1>4, <1>5 DEF p, r, Byte

\* Four bytes make a word.
LEMMA WordSpan == Modulus = Base * (Base * (Base * Base)) /\ Base \in Nat
  BY KeyTrialAssumption DEF ShortSpan

\* The bytes of the word at a place of a buffer are those that are there.
LEMMA BytesOfWord ==
  ASSUME NEW s, NEW at, s[at] \in Byte, s[at + 1] \in Byte, s[at + 2] \in Byte,
         s[at + 3] \in Byte
  PROVE  /\ WordAt(s, at) \in Word
         /\ Bytes(WordAt(s, at)) = <<s[at], s[at + 1], s[at + 2], s[at + 3]>>
<1> DEFINE x3 == s[at + 3]
           x2 == s[at + 2] + Base * x3
           x1 == s[at + 1] + Base * x2
           x  == s[at] + Base * x1
<1>0. Base \in Nat /\ Base * Base \in Nat /\ Base * (Base * Base) \in Nat
  BY WordSpan
<1>1. x3 \in 0..Base - 1
  BY DEF Byte
<1> HIDE DEF x3
<1>2. x2 \in 0..Base * Base - 1 /\ x2 % Base = s[at + 2] /\ x2 \div Base = x3
  BY <1>0, <1>1, PutByte
<1> HIDE DEF x2
<1>3. x1 \in 0..Base * (Base * Base) - 1 /\ x1 % Base = s[at + 1] /\ x1 \div Base = x2
  BY <1>0, <1>2, PutByte
<1> HIDE DEF x1
<1>4. /\ x \in 0..Base * (Base * (Base * Base)) - 1
      /\ x % Base = s[at] /\ x \div Base = x1
  BY <1>0, <1>3, PutByte
<1>5. x = WordAt(s, at)
  BY DEF x1, x2, x3, WordAt
<1> HIDE DEF x
<1>6. Bytes(x) = <<s[at], s[at + 1], s[at + 2], x3>>
  BY <1>2, <1>3, <1>4 DEF Bytes
<1> QED
  BY <1>4, <1>5, <1>6, WordSpan DEF Word, x3

\* A word is the one its bytes make.
LEMMA WordOfBytes ==
  ASSUME NEW x \in Word
  PROVE  /\ \A j \in 1..4 : Bytes(x)[j] \in Byte
         /\ Bytes(x)[1] + Base * (Bytes(x)[2] + Base * (Bytes(x)[3] + Base * Bytes(x)[4])) = x
<1> DEFINE x1 == x \div Base
           x2 == x1 \div Base
           x3 == x2 \div Base
<1>0. Base \in Nat /\ Base * Base \in Nat /\ Base * (Base * Base) \in Nat
  BY WordSpan
<1>1. x % Base \in Byte /\ x1 \in 0..Base * (Base * Base) - 1 /\ (x % Base) + Base * x1 = x
  <2>1. x \in 0..Base * (Base * (Base * Base)) - 1
    BY WordSpan DEF Word
  <2> QED
    BY <1>0, <2>1, TakeByte
<1>2. x1 % Base \in Byte /\ x2 \in 0..Base * Base - 1 /\ (x1 % Base) + Base * x2 = x1
  <2> HIDE DEF x1
  <2> QED
    BY <1>0, <1>1, TakeByte
<1>3. x2 % Base \in Byte /\ x3 \in 0..Base - 1 /\ (x2 % Base) + Base * x3 = x2
  <2> HIDE DEF x2
  <2> QED
    BY <1>0, <1>2, TakeByte
<1>4. Bytes(x) = <<x % Base, x1 % Base, x2 % Base, x3>>
  BY DEF Bytes
<1>5. x3 \in Byte
  BY <1>3 DEF Byte
<1> HIDE DEF x1, x2, x3
<1> QED
  BY <1>1, <1>2, <1>3, <1>4, <1>5

(***************************************************************************)
(* PART 4.  Buffers of bytes, and pairs of words put into them.            *)
(***************************************************************************)
Buffer(L) == [1..L -> Byte]

\* The pair at a place of a buffer.
LEMMA PairOfBuffer ==
  ASSUME NEW L \in Nat, NEW s \in Buffer(L), NEW at \in Nat \ {0}, at + 7 <= L
  PROVE  /\ WordAt(s, at) \in Word
         /\ Bytes(WordAt(s, at)) = <<s[at], s[at + 1], s[at + 2], s[at + 3]>>
         /\ WordAt(s, at + 4) \in Word
         /\ Bytes(WordAt(s, at + 4)) = <<s[at + 4], s[at + 5], s[at + 6], s[at + 7]>>
         /\ PairAt(s, at) \in Pair
<1>1. /\ s[at] \in Byte /\ s[at + 1] \in Byte /\ s[at + 2] \in Byte /\ s[at + 3] \in Byte
      /\ s[at + 4] \in Byte /\ s[at + 5] \in Byte /\ s[at + 6] \in Byte /\ s[at + 7] \in Byte
  BY DEF Buffer
<1>2. (at + 4) + 1 = at + 5 /\ (at + 4) + 2 = at + 6 /\ (at + 4) + 3 = at + 7
  OBVIOUS
<1>3. /\ WordAt(s, at) \in Word
      /\ Bytes(WordAt(s, at)) = <<s[at], s[at + 1], s[at + 2], s[at + 3]>>
  BY <1>1, BytesOfWord
<1>4. /\ WordAt(s, at + 4) \in Word
      /\ Bytes(WordAt(s, at + 4)) = <<s[at + 4], s[at + 5], s[at + 6], s[at + 7]>>
  BY <1>1, <1>2, BytesOfWord
<1> QED
  BY <1>3, <1>4 DEF PairAt, Pair

\* The pair depends on its eight bytes only.
LEMMA PairOfBytes ==
  ASSUME NEW s, NEW u, NEW at \in Nat \ {0}, \A j \in at..at+7 : s[j] = u[j]
  PROVE  PairAt(s, at) = PairAt(u, at)
<1>1. /\ s[at] = u[at] /\ s[at + 1] = u[at + 1] /\ s[at + 2] = u[at + 2]
      /\ s[at + 3] = u[at + 3] /\ s[at + 4] = u[at + 4] /\ s[at + 5] = u[at + 5]
      /\ s[at + 6] = u[at + 6] /\ s[at + 7] = u[at + 7]
  OBVIOUS
<1>2. (at + 4) + 1 = at + 5 /\ (at + 4) + 2 = at + 6 /\ (at + 4) + 3 = at + 7
  OBVIOUS
<1> QED
  BY <1>1, <1>2 DEF PairAt, WordAt

\* memcpy of a pair leaves the bytes around it alone.
LEMMA PairPut ==
  ASSUME NEW L \in Nat, NEW s \in Buffer(L), NEW at \in Nat \ {0}, at + 7 <= L,
         NEW p \in Pair
  PROVE  /\ PutPair(s, at, p) \in Buffer(L)
         /\ \A j \in 1..L : j \notin at..at+7 => PutPair(s, at, p)[j] = s[j]
         /\ \A j \in 0..3 : /\ PutPair(s, at, p)[at + j] = Bytes(p[1])[j + 1]
                            /\ PutPair(s, at, p)[at + 4 + j] = Bytes(p[2])[j + 1]
<1> DEFINE u == PutPair(s, at, p)
<1>1. p[1] \in Word /\ p[2] \in Word
  BY DEF Pair
<1>2. \A j \in 1..4 : Bytes(p[1])[j] \in Byte /\ Bytes(p[2])[j] \in Byte
  BY <1>1, WordOfBytes
<1>3. DOMAIN s = 1..L /\ \A j \in 1..L : s[j] \in Byte
  BY DEF Buffer
<1>4. \A j \in 1..L : u[j] = IF j \in at..at+3 THEN Bytes(p[1])[j - at + 1]
                             ELSE IF j \in at+4..at+7 THEN Bytes(p[2])[j - at - 3]
                             ELSE s[j]
  BY <1>3 DEF PutPair
<1>5. \A j \in 1..L : u[j] \in Byte
  <2> TAKE j \in 1..L
  <2>1. CASE j \in at..at+3
    <3>1. j - at + 1 \in 1..4
      BY <2>1
    <3> QED
      BY <1>2, <1>4, <2>1, <3>1
  <2>2. CASE j \in at+4..at+7
    <3>1. j - at - 3 \in 1..4 /\ j \notin at..at+3
      BY <2>2
    <3> QED
      BY <1>2, <1>4, <2>2, <3>1
  <2>3. CASE j \notin at..at+3 /\ j \notin at+4..at+7
    BY <1>3, <1>4, <2>3
  <2> QED
    BY <2>1, <2>2, <2>3
<1>6. u \in Buffer(L)
  <2>1. u = [j \in 1..L |-> u[j]]
    BY <1>3 DEF PutPair
  <2> QED
    BY <1>5, <2>1 DEF Buffer
<1>7. ASSUME NEW j \in 0..3
      PROVE  u[at + j] = Bytes(p[1])[j + 1] /\ u[at + 4 + j] = Bytes(p[2])[j + 1]
  <2>1. at + j \in 1..L /\ at + j \in at..at+3 /\ (at + j) - at + 1 = j + 1
    OBVIOUS
  <2>2. /\ at + 4 + j \in 1..L /\ at + 4 + j \notin at..at+3 /\ at + 4 + j \in at+4..at+7
        /\ (at + 4 + j) - at - 3 = j + 1
    OBVIOUS
  <2> QED
    BY <1>4, <2>1, <2>2
<1>8. \A j \in 1..L : j \notin at..at+7 => u[j] = s[j]
  <2> TAKE j \in 1..L
  <2> HAVE j \notin at..at+7
  <2>1. j \notin at..at+3 /\ j \notin at+4..at+7
    OBVIOUS
  <2> QED
    BY <1>4, <2>1
<1> QED
  BY <1>6, <1>7, <1>8

\* What is put is found again.
LEMMA PairFound ==
  ASSUME NEW L \in Nat, NEW s \in Buffer(L), NEW at \in Nat \ {0}, at + 7 <= L,
         NEW p \in Pair
  PROVE  PairAt(PutPair(s, at, p), at) = p
<1> DEFINE u == PutPair(s, at, p)
<1>1. p[1] \in Word /\ p[2] \in Word /\ p = <<p[1], p[2]>>
  BY DEF Pair
<1>2. \A j \in 0..3 : u[at + j] = Bytes(p[1])[j + 1] /\ u[at + 4 + j] = Bytes(p[2])[j + 1]
  BY PairPut
<1> HIDE DEF u
<1>3. /\ u[at] = Bytes(p[1])[1] /\ u[at + 1] = Bytes(p[1])[2]
      /\ u[at + 2] = Bytes(p[1])[3] /\ u[at + 3] = Bytes(p[1])[4]
      /\ u[at + 4] = Bytes(p[2])[1] /\ u[at + 4 + 1] = Bytes(p[2])[2]
      /\ u[at + 4 + 2] = Bytes(p[2])[3] /\ u[at + 4 + 3] = Bytes(p[2])[4]
  <2>1. at + 0 = at /\ at + 4 + 0 = at + 4
    OBVIOUS
  <2> QED
    BY <1>2, <2>1
<1>4. WordAt(u, at) = p[1] /\ WordAt(u, at + 4) = p[2]
  BY <1>1, <1>3, WordOfBytes DEF WordAt
<1> QED
  BY <1>1, <1>4 DEF PairAt, u

\* A pair taken from one buffer is put into the other byte by byte.
LEMMA PairMoved ==
  ASSUME NEW L \in Nat, NEW s \in Buffer(L), NEW u \in Buffer(L), NEW at \in Nat \ {0},
         at + 7 <= L
  PROVE  \A j \in at..at+7 : PutPair(s, at, PairAt(u, at))[j] = u[j]
<1> DEFINE p == PairAt(u, at)
           t == PutPair(s, at, p)
<1>1. /\ p \in Pair
      /\ Bytes(p[1]) = <<u[at], u[at + 1], u[at + 2], u[at + 3]>>
      /\ Bytes(p[2]) = <<u[at + 4], u[at + 5], u[at + 6], u[at + 7]>>
  BY PairOfBuffer DEF PairAt
<1> HIDE DEF p
<1>2. \A j \in 0..3 : t[at + j] = Bytes(p[1])[j + 1] /\ t[at + 4 + j] = Bytes(p[2])[j + 1]
  BY <1>1, PairPut
<1> HIDE DEF t
<1>3. /\ t[at + 0] = u[at] /\ t[at + 1] = u[at + 1] /\ t[at + 2] = u[at + 2]
      /\ t[at + 3] = u[at + 3] /\ t[at + 4 + 0] = u[at + 4] /\ t[at + 4 + 1] = u[at + 5]
      /\ t[at + 4 + 2] = u[at + 6] /\ t[at + 4 + 3] = u[at + 7]
  BY <1>1, <1>2
<1>4. /\ at + 0 = at /\ at + 4 + 0 = at + 4 /\ at + 4 + 1 = at + 5
      /\ at + 4 + 2 = at + 6 /\ at + 4 + 3 = at + 7
  OBVIOUS
<1>5. \A j \in at..at+7 : j \in {at, at + 1, at + 2, at + 3, at + 4, at + 5, at + 6, at + 7}
  OBVIOUS
<1>6. \A j \in {at, at + 1, at + 2, at + 3, at + 4, at + 5, at + 6, at + 7} : t[j] = u[j]
  BY <1>3, <1>4
<1> QED
  BY <1>5, <1>6 DEF t, p

(***************************************************************************)
(* PART 5.  The right key opens the text.  A block that has been coded has *)
(* a call among the codings that took the pair of the text to the pair of  *)
(* the code file; decoding that pair undoes that call (PART 1), and the    *)
(* bytes of the result are the bytes of the text (PART 4).                 *)
(***************************************************************************)
Coding == {"encrypt", "encrypted"}

\* The block of the code file behind its first b bytes is a coding of the block
\* of the text.
CodedAt(b) ==
  \E c \in codings :
    /\ c.call = [v |-> PairAt(text, b + 1), k |-> SameKey(secret), N |-> Cycles]
    /\ c.w = PairAt(pCodeBuf, b + 1)

TrialType ==
  /\ secret \in Word /\ n \in Word
  /\ Size \in Nat /\ Size >= 8
  /\ text \in Buffer(Size) /\ pCodeBuf \in Buffer(Size)
  /\ decBuf = <<>> \/ decBuf \in Buffer(Size)
  /\ \A j \in DOMAIN Magic : j \in 1..8 /\ text[j] = Magic[j]
  /\ iBlock \in Nat /\ iBlock <= Size /\ \E q \in Nat : iBlock = 8 * q
  /\ pc \in Coding \cup {"isPrime", "malloc", "decrypt", "decrypted", "compare",
                         "savePlain", "checksum", "end"}

\* The tool codes block after block.
CodingGoesOn ==
  pc \in Coding =>
    /\ decBuf = <<>>
    /\ \A q \in Nat : 8 * q < iBlock => CodedAt(8 * q)
    /\ \A j \in iBlock+1..Size : pCodeBuf[j] = text[j]

\* The call it waits for, or its result.
CodingCalled ==
  pc = "encrypted" =>
    /\ iBlock + 8 <= Size
    /\ call = [v |-> PairAt(text, iBlock + 1), k |-> SameKey(secret), N |-> Cycles]
    /\ \/ running = "coding"
       \/ running = "idle" /\ \E c \in codings : c.call = call /\ c.w = w

CodingDone ==
  pc \notin Coding => \A q \in Nat : 8 * q + 8 <= Size => CodedAt(8 * q)

\* The call the thread waits for.
DecodingCalled ==
  pc = "decrypted" =>
    /\ iBlock + 8 <= Size
    /\ call = [v |-> PairAt(pCodeBuf, iBlock + 1), k |-> SameKey(n), N |-> -Cycles]

\* What is decoded so far.
Opened ==
  /\ pc \in {"isPrime", "malloc"} => iBlock = 0 /\ decBuf = <<>>
  /\ pc \in {"decrypt", "decrypted", "compare", "savePlain", "checksum"} => decBuf # <<>>
  /\ pc \in {"compare", "savePlain", "checksum", "end"} /\ decBuf # <<>> => Size < iBlock + 8
  /\ decBuf # <<>> /\ n = secret => \A j \in 1..iBlock : decBuf[j] = text[j]

Announced ==
  pc \in {"savePlain", "checksum"} \/ (pc = "end" /\ n = secret /\ decBuf # <<>>) => found

KeyInv ==
  /\ TInv /\ TrialType
  /\ CodingGoesOn /\ CodingCalled /\ CodingDone
  /\ DecodingCalled /\ Opened /\ Announced

\* A block that is coded stays coded: codings are not forgotten.
LEMMA CodedKept ==
  ASSUME UNCHANGED <<text, secret>>, codings \subseteq codings', NEW b \in Nat, CodedAt(b),
         \A j \in b+1..b+8 : pCodeBuf[j] = pCodeBuf'[j]
  PROVE  CodedAt(b)'
<1>1. b + 1 \in Nat \ {0} /\ \A j \in (b+1)..(b+1)+7 : pCodeBuf[j] = pCodeBuf'[j]
  OBVIOUS
<1>2. PairAt(pCodeBuf, b + 1) = PairAt(pCodeBuf', b + 1)
  BY <1>1, PairOfBytes
<1>3. PICK c \in codings :
        /\ c.call = [v |-> PairAt(text, b + 1), k |-> SameKey(secret), N |-> Cycles]
        /\ c.w = PairAt(pCodeBuf, b + 1)
  BY DEF CodedAt
<1>4. /\ c \in codings' /\ text' = text /\ secret' = secret
      /\ c.w = PairAt(pCodeBuf', b + 1)
  BY <1>2, <1>3
<1>5. SameKey(secret') = SameKey(secret) /\ PairAt(text', b + 1) = PairAt(text, b + 1)
  BY <1>4
<1> QED
  BY <1>3, <1>4, <1>5 DEF CodedAt

\* The four words of a key are the number.
LEMMA SameKeyType ==
  ASSUME NEW q \in Word
  PROVE  SameKey(q) \in Key
  BY DEF SameKey, Key

\* A call of tean keeps the invariant of PART 1.
LEMMA BlockCalled ==
  ASSUME TInv, NEW s \in Buffer(Size), NEW q \in Word, NEW N \in {Cycles, -Cycles},
         Size \in Nat, iBlock \in Nat, iBlock + 8 <= Size,
         Call(PairAt(s, iBlock + 1), SameKey(q), N)
  PROVE  TInv'
<1>1. iBlock + 1 \in Nat \ {0} /\ (iBlock + 1) + 7 <= Size
  OBVIOUS
<1>2. PairAt(s, iBlock + 1) \in Pair
  BY <1>1, PairOfBuffer
<1>3. N \in -Cycles..Cycles
  BY XteaAssumption
<1> QED
  BY <1>2, <1>3, SameKeyType, CallInv

LEMMA TInvKept == TInv /\ UNCHANGED teanVars => TInv'
BY DEF teanVars, TInv, TeanTypeOK, CodingFollowsTrail, Coded, State,
       TrailsComplete, DecodingRetraces, Undoes, NotBoth, RoundTrip

LEMMA KeyInit == Init => KeyInv
<1> SUFFICES ASSUME Init PROVE KeyInv
  OBVIOUS
<1>1. secret \in Word /\ n \in Word
  BY KeyTrialAssumption DEF Init
<1>2. text \in Seq(Byte) /\ Len(text) \in Nat /\ Len(text) >= 8
  BY KeyTrialAssumption DEF Init
<1>3. text \in [1..Len(text) -> Byte]
  BY <1>2
<1>4. \A j \in DOMAIN Magic : j \in 1..8 /\ text[j] = Magic[j]
  <2>1. DOMAIN Magic = 1..Len(Magic) /\ Len(Magic) \in Nat /\ Len(Magic) <= 8
    BY KeyTrialAssumption
  <2>2. \A j \in DOMAIN Magic : text[j] = Magic[j]
    BY KeyTrialAssumption DEF Init
  <2> QED
    BY <2>1, <2>2
<1>5. iBlock \in Nat /\ iBlock = 0 /\ iBlock = 8 * 0 /\ decBuf = <<>> /\ pc = "encrypt"
      /\ pCodeBuf = text
  BY DEF Init
<1>6. TInv
  BY InitInv DEF Init
<1>7. TrialType
  BY <1>1, <1>2, <1>3, <1>4, <1>5 DEF TrialType, Size, Buffer, Coding
<1>8. \A q \in Nat : ~(8 * q < 0)
  OBVIOUS
<1>9. CodingGoesOn
  BY <1>5, <1>8 DEF CodingGoesOn
<1> QED
  BY <1>5, <1>6, <1>7, <1>9
  DEF KeyInv, CodingCalled, CodingDone, DecodingCalled, Opened, Announced, Coding

\* The tool calls tean for the next block, or is through.
LEMMA KeyEncrypt ==
  ASSUME KeyInv, Encrypt
  PROVE  KeyInv'
<1>1. /\ pc = "encrypt" /\ UNCHANGED <<secret, text, pCodeBuf, n, decBuf, found>>
      /\ Size' = Size
  BY DEF Encrypt, Size
<1>2. TInv /\ TrialType /\ CodingGoesOn
  BY DEF KeyInv
<1>3. decBuf = <<>>
  BY <1>1, <1>2 DEF CodingGoesOn, Coding
<1>4. codings' = codings
  BY DEF Encrypt, Call, teanVars
<1>5. \A b \in Nat : CodedAt(b) => CodedAt(b)'
  BY <1>1, <1>4, CodedKept
<1>6. CASE iBlock + 8 <= Size
  <2>1. /\ Call(PairAt(pCodeBuf, iBlock + 1), SameKey(secret), Cycles)
        /\ pc' = "encrypted" /\ iBlock' = iBlock
    BY <1>6 DEF Encrypt
  <2>2. TInv'
    BY <1>2, <1>6, <2>1, BlockCalled DEF TrialType
  <2>3. TrialType'
    BY <1>1, <1>2, <2>1 DEF TrialType, Coding
  <2>4. CodingGoesOn'
    BY <1>1, <1>2, <1>5, <2>1 DEF CodingGoesOn, Coding
  <2>5. PairAt(pCodeBuf, iBlock + 1) = PairAt(text, iBlock + 1)
    <3>1. iBlock + 1 \in Nat \ {0}
      BY <1>2 DEF TrialType
    <3>2. \A j \in iBlock+1..(iBlock+1)+7 : j \in iBlock+1..Size
      BY <1>2, <1>6 DEF TrialType
    <3>3. \A j \in iBlock+1..(iBlock+1)+7 : pCodeBuf[j] = text[j]
      BY <1>1, <1>2, <3>2 DEF CodingGoesOn, Coding
    <3> QED
      BY <3>1, <3>3, PairOfBytes
  <2>6. running' = "coding"
    BY <2>1, KeyTrialAssumption DEF Call
  <2>7. call' = [v |-> PairAt(text, iBlock + 1), k |-> SameKey(secret), N |-> Cycles]
    BY <2>1, <2>5 DEF Call
  <2>8. CodingCalled'
    <3>1. PairAt(text', iBlock' + 1) = PairAt(text, iBlock + 1) /\ SameKey(secret') = SameKey(secret)
      BY <1>1, <2>1
    <3> QED
      BY <1>1, <1>6, <2>1, <2>6, <2>7, <3>1 DEF CodingCalled
  <2> QED
    BY <1>1, <1>3, <2>1, <2>2, <2>3, <2>4, <2>8
    DEF KeyInv, CodingDone, DecodingCalled, Opened, Announced, Coding
<1>7. CASE ~(iBlock + 8 <= Size)
  <2>1. pc' = "isPrime" /\ iBlock' = 0 /\ UNCHANGED teanVars
    BY <1>7 DEF Encrypt
  <2>2. TInv'
    BY <1>2, <2>1, TInvKept
  <2>3. iBlock' = 8 * 0 /\ 0 \in Nat
    BY <2>1
  <2>4. TrialType'
    BY <1>1, <1>2, <2>1, <2>3 DEF TrialType, Coding
  <2>5. CodingDone'
    <3> SUFFICES ASSUME NEW q \in Nat, 8 * q + 8 <= Size PROVE CodedAt(8 * q)'
      BY <1>1 DEF CodingDone
    <3>1. PICK p \in Nat : iBlock = 8 * p
      BY <1>2 DEF TrialType
    <3>2. 8 * q < iBlock /\ 8 * q \in Nat
      BY <1>2, <1>7, <3>1 DEF TrialType
    <3>3. CodedAt(8 * q)
      BY <1>1, <1>2, <3>2 DEF CodingGoesOn, Coding
    <3> QED
      BY <1>5, <3>2, <3>3
  <2> QED
    BY <1>1, <1>3, <2>1, <2>2, <2>4, <2>5
    DEF KeyInv, CodingGoesOn, CodingCalled, DecodingCalled, Opened, Announced, Coding
<1> QED
  BY <1>6, <1>7

\* The result goes to the code file: the block is coded.
LEMMA KeyEncrypted ==
  ASSUME KeyInv, Encrypted
  PROVE  KeyInv'
<1>1. /\ pc = "encrypted" /\ pc' = "encrypt" /\ running = "idle"
      /\ UNCHANGED <<secret, text, n, decBuf, found>> /\ UNCHANGED teanVars
      /\ pCodeBuf' = PutPair(pCodeBuf, iBlock + 1, w)
      /\ iBlock' = iBlock + 8 /\ Size' = Size
  BY DEF Encrypted, Size
<1>2. TInv /\ TrialType /\ CodingGoesOn /\ CodingCalled
  BY DEF KeyInv
<1>3. /\ Size \in Nat /\ iBlock \in Nat /\ iBlock + 8 <= Size
      /\ iBlock + 1 \in Nat \ {0} /\ (iBlock + 1) + 7 <= Size
      /\ pCodeBuf \in Buffer(Size) /\ w \in Pair
  BY <1>1, <1>2 DEF TrialType, CodingCalled, TInv, TeanTypeOK
<1>4. /\ pCodeBuf' \in Buffer(Size)
      /\ \A j \in 1..Size : j \notin (iBlock+1)..(iBlock+1)+7 => pCodeBuf'[j] = pCodeBuf[j]
  BY <1>1, <1>3, PairPut
<1>5. PairAt(pCodeBuf', iBlock + 1) = w
  BY <1>1, <1>3, PairFound
<1>6. codings' = codings /\ TInv'
  BY <1>1, <1>2, TInvKept DEF teanVars
<1>7. PICK p \in Nat : iBlock = 8 * p
  BY <1>2 DEF TrialType
<1>8. TrialType'
  <2>1. iBlock' = 8 * (p + 1) /\ p + 1 \in Nat /\ iBlock' \in Nat /\ iBlock' <= Size
    BY <1>1, <1>3, <1>7
  <2> QED
    BY <1>1, <1>2, <1>4, <2>1 DEF TrialType, Coding
<1>9. CodedAt(8 * p)'
  <2>1. PICK c \in codings : c.call = call /\ c.w = w
    BY <1>1, <1>2 DEF CodingCalled
  <2>2. /\ c.call = [v |-> PairAt(text, iBlock + 1), k |-> SameKey(secret), N |-> Cycles]
        /\ c.w = PairAt(pCodeBuf', iBlock + 1) /\ c \in codings'
    BY <1>1, <1>2, <1>5, <1>6, <2>1 DEF CodingCalled
  <2> QED
    BY <1>1, <1>7, <2>2 DEF CodedAt
<1>10. CodingGoesOn'
  <2>1. ASSUME NEW q \in Nat, 8 * q < iBlock'
        PROVE  CodedAt(8 * q)'
    <3>1. CASE q = p
      BY <1>9, <3>1
    <3>2. CASE q # p
      <4>1. 8 * q \in Nat /\ 8 * q + 8 <= iBlock
        BY <1>1, <1>7, <2>1, <3>2
      <4>2. \A j \in 8*q+1..8*q+8 : j \in 1..Size /\ j \notin (iBlock+1)..(iBlock+1)+7
        BY <1>3, <4>1
      <4>3. \A j \in 8*q+1..8*q+8 : pCodeBuf[j] = pCodeBuf'[j]
        BY <1>4, <4>2
      <4>4. CodedAt(8 * q)
        BY <1>1, <1>2, <1>3, <4>1 DEF CodingGoesOn, Coding
      <4> QED
        BY <1>1, <1>6, <4>1, <4>3, <4>4, CodedKept
    <3> QED
      BY <3>1, <3>2
  <2>2. \A j \in iBlock+8+1..Size : pCodeBuf'[j] = text[j]
    <3> TAKE j \in iBlock+8+1..Size
    <3>1. j \in 1..Size /\ j \notin (iBlock+1)..(iBlock+1)+7 /\ j \in iBlock+1..Size
      BY <1>3
    <3> QED
      BY <1>1, <1>2, <1>4, <3>1 DEF CodingGoesOn, Coding
  <2>3. decBuf = <<>>
    BY <1>1, <1>2 DEF CodingGoesOn, Coding
  <2> QED
    BY <1>1, <2>1, <2>2, <2>3 DEF CodingGoesOn
<1>11. decBuf = <<>>
  BY <1>1, <1>2 DEF CodingGoesOn, Coding
<1> QED
  BY <1>1, <1>6, <1>8, <1>10, <1>11
  DEF KeyInv, CodingCalled, CodingDone, DecodingCalled, Opened, Announced, Coding

\* A round of the cipher, or its return.
LEMMA KeyCipher ==
  ASSUME KeyInv, Cipher
  PROVE  KeyInv'
<1>1. /\ Tean /\ UNCHANGED <<secret, text, pCodeBuf, n, iBlock, decBuf, found, pc>>
      /\ Size' = Size
  BY DEF Cipher, work, Size
<1>2. TInv /\ TrialType
  BY DEF KeyInv
<1>3. TInv'
  BY <1>1, <1>2, CodeRoundInv, DecodeRoundInv, ReturnInv DEF Tean
<1>4. call' = call /\ codings \subseteq codings'
  BY <1>1 DEF Tean, CodeRound, DecodeRound, Return
<1>5. TrialType'
  BY <1>1, <1>2 DEF TrialType
<1>6. \A b \in Nat : CodedAt(b) => CodedAt(b)'
  BY <1>1, <1>4, CodedKept
<1>7. \A q \in Nat : 8 * q \in Nat
  OBVIOUS
<1>8. CodingGoesOn' /\ CodingDone'
  BY <1>1, <1>6, <1>7 DEF KeyInv, CodingGoesOn, CodingDone
<1>9. CodingCalled'
  <2> SUFFICES ASSUME pc = "encrypted"
               PROVE  /\ iBlock + 8 <= Size
                      /\ call = [v |-> PairAt(text, iBlock + 1), k |-> SameKey(secret), N |-> Cycles]
                      /\ \/ running' = "coding"
                         \/ running' = "idle" /\ \E c \in codings' : c.call = call /\ c.w = w'
    BY <1>1, <1>4 DEF CodingCalled
  <2>1. /\ iBlock + 8 <= Size
        /\ call = [v |-> PairAt(text, iBlock + 1), k |-> SameKey(secret), N |-> Cycles]
        /\ \/ running = "coding"
           \/ running = "idle" /\ \E c \in codings : c.call = call /\ c.w = w
    BY DEF KeyInv, CodingCalled
  <2>2. running = "coding"
    BY <1>1, <2>1 DEF Tean, CodeRound, DecodeRound, Return
  <2>3. CASE CodeRound
    BY <2>1, <2>2, <2>3 DEF CodeRound
  <2>4. CASE Return
    <3> DEFINE c0 == [call |-> call, w |-> <<y, z>>, trail |-> trail]
    <3>1. c0 \in codings' /\ w' = <<y, z>> /\ running' = "idle"
      BY <2>2, <2>4 DEF Return
    <3>2. c0.call = call /\ c0.w = <<y, z>>
      OBVIOUS
    <3> HIDE DEF c0
    <3> QED
      BY <2>1, <3>1, <3>2
  <2> QED
    BY <1>1, <2>2, <2>3, <2>4 DEF Tean, DecodeRound
<1>10. DecodingCalled' /\ Opened' /\ Announced'
  BY <1>1, <1>4 DEF KeyInv, DecodingCalled, Opened, Announced
<1> QED
  BY <1>3, <1>5, <1>8, <1>9, <1>10 DEF KeyInv

\* malloc gives a buffer of bytes, or the trial ends.
LEMMA KeyMalloc ==
  ASSUME KeyInv, Malloc
  PROVE  KeyInv'
<1>1. /\ pc = "malloc" /\ UNCHANGED <<secret, text, pCodeBuf, n, iBlock, found>>
      /\ UNCHANGED teanVars /\ Size' = Size
      /\ \/ \E g \in Garbage : decBuf' = [j \in 1..Size |-> g] /\ pc' = "decrypt"
         \/ decBuf' = decBuf /\ pc' = "end"
  BY DEF Malloc, Size
<1>2. TInv /\ TrialType /\ Opened /\ CodingDone
  BY DEF KeyInv
<1>3. decBuf = <<>> /\ iBlock = 0 /\ Size \in Nat /\ Size >= 8
  BY <1>1, <1>2 DEF Opened, TrialType
<1>4. codings' = codings /\ TInv'
  BY <1>1, <1>2, TInvKept DEF teanVars
<1>5. \A q \in Nat : 8 * q \in Nat
  OBVIOUS
<1>6. CodingDone'
  BY <1>1, <1>2, <1>4, <1>5, CodedKept DEF CodingDone, Coding
<1>7. CASE decBuf' = decBuf /\ pc' = "end"
  <2>1. TrialType'
    BY <1>1, <1>2, <1>7 DEF TrialType, Coding
  <2> QED
    BY <1>3, <1>4, <1>6, <1>7, <2>1
    DEF KeyInv, CodingGoesOn, CodingCalled, DecodingCalled, Opened, Announced, Coding
<1>8. CASE \E g \in Garbage : decBuf' = [j \in 1..Size |-> g] /\ pc' = "decrypt"
  <2>1. PICK g \in Garbage : decBuf' = [j \in 1..Size |-> g]
    BY <1>8
  <2>2. decBuf' \in Buffer(Size)
    BY <2>1, KeyTrialAssumption DEF Buffer
  <2>3. decBuf' # <<>>
    <3>1. DOMAIN decBuf' = 1..Size /\ 1 \in 1..Size
      BY <1>3, <2>1
    <3>2. 1 \notin DOMAIN <<>>
      OBVIOUS
    <3> QED
      BY <3>1, <3>2
  <2>4. TrialType'
    BY <1>1, <1>2, <1>8, <2>2 DEF TrialType, Coding
  <2>5. \A j \in 1..0 : FALSE
    OBVIOUS
  <2> QED
    BY <1>1, <1>3, <1>4, <1>6, <1>8, <2>3, <2>4, <2>5
    DEF KeyInv, CodingGoesOn, CodingCalled, DecodingCalled, Opened, Announced, Coding
<1> QED
  BY <1>1, <1>7, <1>8

\* The thread calls tean for the next block, or is through.
LEMMA KeyDecrypt ==
  ASSUME KeyInv, Decrypt
  PROVE  KeyInv'
<1>1. /\ pc = "decrypt" /\ UNCHANGED <<secret, text, pCodeBuf, n, iBlock, decBuf, found>>
      /\ Size' = Size
  BY DEF Decrypt, work, Size
<1>2. TInv /\ TrialType /\ Opened /\ CodingDone
  BY DEF KeyInv
<1>3. codings' = codings
  BY DEF Decrypt, Call, teanVars
<1>4. \A q \in Nat : 8 * q \in Nat
  OBVIOUS
<1>5. pc' \in {"decrypted", "compare"}
  BY DEF Decrypt
<1>6. CodingDone'
  BY <1>1, <1>2, <1>3, <1>4, <1>5, CodedKept DEF CodingDone, Coding
<1>7. TrialType'
  BY <1>1, <1>2, <1>5 DEF TrialType, Coding
<1>8. CASE iBlock + 8 <= Size
  <2>1. Call(PairAt(pCodeBuf, iBlock + 1), SameKey(n), -Cycles) /\ pc' = "decrypted"
    BY <1>8 DEF Decrypt
  <2>2. TInv'
    BY <1>2, <1>8, <2>1, BlockCalled DEF TrialType
  <2>3. call' = [v |-> PairAt(pCodeBuf, iBlock + 1), k |-> SameKey(n), N |-> -Cycles]
    BY <2>1 DEF Call
  <2>4. PairAt(pCodeBuf', iBlock' + 1) = PairAt(pCodeBuf, iBlock + 1) /\ SameKey(n') = SameKey(n)
    BY <1>1
  <2>5. DecodingCalled'
    BY <1>1, <1>8, <2>3, <2>4 DEF DecodingCalled
  <2> QED
    BY <1>1, <1>2, <1>6, <1>7, <2>1, <2>2, <2>5
    DEF KeyInv, CodingGoesOn, CodingCalled, Opened, Announced, Coding
<1>9. CASE ~(iBlock + 8 <= Size)
  <2>1. pc' = "compare" /\ UNCHANGED teanVars
    BY <1>9 DEF Decrypt
  <2>2. TInv'
    BY <1>2, <2>1, TInvKept
  <2>3. Size < iBlock + 8
    BY <1>2, <1>9 DEF TrialType
  <2> QED
    BY <1>1, <1>2, <1>6, <1>7, <2>1, <2>2, <2>3
    DEF KeyInv, CodingGoesOn, CodingCalled, DecodingCalled, Opened, Announced, Coding
<1> QED
  BY <1>8, <1>9

\* With the right key the result is the block of the text.
LEMMA KeyDecrypted ==
  ASSUME KeyInv, Decrypted
  PROVE  KeyInv'
<1>1. /\ pc = "decrypted" /\ pc' = "decrypt" /\ running = "idle"
      /\ UNCHANGED <<secret, text, pCodeBuf, n, found>> /\ UNCHANGED teanVars
      /\ decBuf' = PutPair(decBuf, iBlock + 1, w)
      /\ iBlock' = iBlock + 8 /\ Size' = Size
  BY DEF Decrypted, Size
<1>2. TInv /\ TrialType /\ Opened /\ CodingDone /\ DecodingCalled
  BY DEF KeyInv
<1>3. /\ Size \in Nat /\ iBlock \in Nat /\ iBlock + 8 <= Size /\ Size >= 8
      /\ iBlock + 1 \in Nat \ {0} /\ (iBlock + 1) + 7 <= Size
      /\ decBuf \in Buffer(Size) /\ decBuf # <<>> /\ w \in Pair
      /\ text \in Buffer(Size)
  BY <1>1, <1>2 DEF TrialType, DecodingCalled, TInv, TeanTypeOK, Opened
<1>4. /\ decBuf' \in Buffer(Size)
      /\ \A j \in 1..Size : j \notin (iBlock+1)..(iBlock+1)+7 => decBuf'[j] = decBuf[j]
  BY <1>1, <1>3, PairPut
<1>5. decBuf' # <<>>
  <2>1. DOMAIN decBuf' = 1..Size /\ 1 \in 1..Size
    BY <1>3, <1>4 DEF Buffer
  <2>2. 1 \notin DOMAIN <<>>
    OBVIOUS
  <2> QED
    BY <2>1, <2>2
<1>6. codings' = codings /\ TInv'
  BY <1>1, <1>2, TInvKept DEF teanVars
<1>7. PICK p \in Nat : iBlock = 8 * p
  BY <1>2 DEF TrialType
<1>8. TrialType'
  <2>1. iBlock' = 8 * (p + 1) /\ p + 1 \in Nat /\ iBlock' \in Nat /\ iBlock' <= Size
    BY <1>1, <1>3, <1>7
  <2> QED
    BY <1>1, <1>2, <1>4, <2>1 DEF TrialType, Coding
<1>9. \A q \in Nat : 8 * q \in Nat
  OBVIOUS
<1>10. CodingDone'
  BY <1>1, <1>2, <1>6, <1>9, CodedKept DEF CodingDone, Coding
<1>11. ASSUME n = secret
       PROVE  \A j \in 1..iBlock + 8 : decBuf'[j] = text[j]
  <2>1. PICK c \in codings :
          /\ c.call = [v |-> PairAt(text, 8 * p + 1), k |-> SameKey(secret), N |-> Cycles]
          /\ c.w = PairAt(pCodeBuf, 8 * p + 1)
    <3>1. 8 * p + 8 <= Size
      BY <1>3, <1>7
    <3>2. CodedAt(8 * p)
      BY <1>1, <1>2, <3>1 DEF CodingDone, Coding
    <3> QED
      BY <3>2 DEF CodedAt
  <2>2. call = [v |-> PairAt(pCodeBuf, iBlock + 1), k |-> SameKey(n), N |-> -Cycles]
    BY <1>1, <1>2 DEF DecodingCalled
  <2>3. c.w = call.v /\ c.call.k = call.k
    BY <1>7, <1>11, <2>1, <2>2
  <2>4. c.call.N = -call.N
    <3>1. c.call.N = Cycles /\ call.N = -Cycles /\ Cycles \in Nat
      BY <2>1, <2>2, XteaAssumption
    <3> QED
      BY <3>1
  <2>5. w = c.call.v
    BY <1>1, <1>2, <2>3, <2>4 DEF TInv, RoundTrip
  <2>6. w = PairAt(text, iBlock + 1)
    BY <1>7, <2>1, <2>5
  <2>7. \A j \in iBlock+1..(iBlock+1)+7 : decBuf'[j] = text[j]
    BY <1>1, <1>3, <2>6, PairMoved
  <2>8. \A j \in 1..iBlock : j \in 1..Size /\ j \notin (iBlock+1)..(iBlock+1)+7
    BY <1>3
  <2>9. \A j \in 1..iBlock : decBuf'[j] = text[j]
    BY <1>2, <1>3, <1>4, <1>11, <2>8 DEF Opened
  <2>10. \A j \in 1..iBlock + 8 : j \in 1..iBlock \/ j \in iBlock+1..(iBlock+1)+7
    BY <1>3
  <2> QED
    BY <2>7, <2>9, <2>10
<1> QED
  BY <1>1, <1>5, <1>6, <1>8, <1>10, <1>11
  DEF KeyInv, CodingGoesOn, CodingCalled, DecodingCalled, Opened, Announced, Coding

\* The text begins with the magic word, in the first block.
LEMMA KeyCompare ==
  ASSUME KeyInv, Compare
  PROVE  KeyInv'
<1>1. /\ pc = "compare" /\ pc' \in {"savePlain", "end"}
      /\ UNCHANGED <<secret, text, pCodeBuf, n, iBlock, decBuf>> /\ UNCHANGED teanVars
      /\ found' = (\A j \in DOMAIN Magic : decBuf[j] = Magic[j])
      /\ (pc' = "savePlain" <=> found') /\ Size' = Size
  BY DEF Compare, Size
<1>2. TInv /\ TrialType /\ Opened /\ CodingDone
  BY DEF KeyInv
<1>3. codings' = codings /\ TInv'
  BY <1>1, <1>2, TInvKept DEF teanVars
<1>4. \A q \in Nat : 8 * q \in Nat
  OBVIOUS
<1>5. CodingDone'
  BY <1>1, <1>2, <1>3, <1>4, CodedKept DEF CodingDone, Coding
<1>6. TrialType'
  BY <1>1, <1>2 DEF TrialType, Coding
<1>7. n = secret => found'
  <2> SUFFICES ASSUME n = secret, NEW j \in DOMAIN Magic PROVE decBuf[j] = Magic[j]
    BY <1>1
  <2>1. PICK q \in Nat : iBlock = 8 * q
    BY <1>2 DEF TrialType
  <2>2. Size \in Nat /\ Size >= 8 /\ Size < iBlock + 8
    BY <1>1, <1>2 DEF TrialType, Opened
  <2>3. 8 <= iBlock
    BY <2>1, <2>2
  <2>4. j \in 1..iBlock /\ text[j] = Magic[j]
    BY <1>2, <2>1, <2>3 DEF TrialType
  <2> QED
    BY <1>1, <1>2, <2>4 DEF Opened
<1>8. Announced'
  BY <1>1, <1>7 DEF Announced
<1> QED
  BY <1>1, <1>2, <1>3, <1>5, <1>6, <1>8
  DEF KeyInv, CodingGoesOn, CodingCalled, DecodingCalled, Opened, Coding

\* The other steps touch neither the buffers nor the cipher.
LEMMA KeyOthers ==
  ASSUME KeyInv,
         \/ IsPrimeRound \/ IsPrimeReturn \/ SavePlain \/ ChecksumRound \/ SaveHash
         \/ UNCHANGED vars
  PROVE  KeyInv'
<1>1. /\ UNCHANGED <<secret, text, pCodeBuf, n, iBlock, decBuf, found>> /\ UNCHANGED teanVars
      /\ \/ UNCHANGED pc
         \/ pc = "isPrime" /\ pc' \in {"malloc", "end"}
         \/ pc = "savePlain" /\ pc' = "checksum"
         \/ pc = "checksum" /\ pc' = "end"
  BY DEF IsPrimeRound, IsPrimeReturn, SavePlain, ChecksumRound, SaveHash, vars, work
<1>2. Size' = Size
  BY <1>1 DEF Size
<1>3. TInv /\ TrialType
  BY DEF KeyInv
<1>4. codings' = codings /\ call' = call /\ w' = w /\ running' = running /\ TInv'
  BY <1>1, <1>3, TInvKept DEF teanVars
<1>5. TrialType'
  BY <1>1, <1>2, <1>3 DEF TrialType, Coding
<1>6. \A q \in Nat : 8 * q \in Nat
  OBVIOUS
<1>7. \A b \in Nat : CodedAt(b) => CodedAt(b)'
  BY <1>1, <1>4, CodedKept
<1>8. CodingGoesOn' /\ CodingDone'
  BY <1>1, <1>2, <1>6, <1>7 DEF KeyInv, CodingGoesOn, CodingDone, Coding
<1>9. CodingCalled' /\ DecodingCalled'
  BY <1>1, <1>2, <1>4 DEF KeyInv, CodingCalled, DecodingCalled
<1>10. Opened' /\ Announced'
  BY <1>1, <1>2 DEF KeyInv, Opened, Announced
<1> QED
  BY <1>4, <1>5, <1>8, <1>9, <1>10 DEF KeyInv

\* Every step keeps the invariant.
LEMMA KeyStep == KeyInv /\ [Next]_vars => KeyInv'
<1> SUFFICES ASSUME KeyInv, [Next]_vars PROVE KeyInv'
  OBVIOUS
<1>1. \/ Cipher \/ Encrypt \/ Encrypted \/ Malloc \/ Decrypt \/ Decrypted \/ Compare
      \/ IsPrimeRound \/ IsPrimeReturn \/ SavePlain \/ ChecksumRound \/ SaveHash
      \/ UNCHANGED vars
  BY DEF Next, End
<1> QED
  BY <1>1, KeyCipher, KeyEncrypt, KeyEncrypted, KeyMalloc, KeyDecrypt, KeyDecrypted,
     KeyCompare, KeyOthers

\* RoundTrip where the cipher is used: the calls of the tool and of the thread
\* come in the order of the trial.
THEOREM CipherInTrial == Spec => []RoundTrip
<1>1. KeyInv => RoundTrip
  BY DEF KeyInv, TInv
<1> QED
  BY <1>1, KeyInit, KeyStep, PTL DEF Spec

\* RightKeyOpens for every text that begins with the magic word, every width of
\* a byte, every cipher of the shape of tean, every key: the number the text was
\* coded with finds it, and every byte of its whole blocks, wherever memory
\* suffices for the buffer.
THEOREM RightKeyFinds == Spec => []RightKeyOpens
<1>1. Init => KeyInv
  BY KeyInit
<1>2. KeyInv /\ [Next]_vars => KeyInv'
  BY KeyStep
<1>3. KeyInv => RightKeyOpens
  <2> SUFFICES ASSUME KeyInv, pc = "end", n = secret, decBuf # <<>>
               PROVE  found /\ \A j \in 1..Size - (Size % 8) : decBuf[j] = text[j]
    BY DEF RightKeyOpens
  <2>1. TrialType /\ Opened /\ found
    BY DEF KeyInv, Announced
  <2>2. PICK q \in Nat : iBlock = 8 * q
    BY <2>1 DEF TrialType
  <2>3. Size \in Nat /\ iBlock <= Size /\ Size < iBlock + 8
    BY <2>1 DEF TrialType, Opened
  <2>4. Size - (Size % 8) = iBlock
    BY <2>2, <2>3
  <2> QED
    BY <2>1, <2>4 DEF Opened
<1> QED
  BY <1>1, <1>2, <1>3, PTL DEF Spec

(***************************************************************************)
(* PART 6.  The checksum.  tcp_checksum adds a carry back as soon as there *)
(* is one, the RFCs when the sum is complete; both give the remainder of   *)
(* the sum by ShortSpan - 1 in which 0 stands only for the sum 0.          *)
(***************************************************************************)
Ones(q) == IF q = 0 THEN 0 ELSE ((q - 1) % (ShortSpan - 1)) + 1

LEMMA ShortSpanType ==
  /\ Base \in Nat /\ Base >= 2
  /\ ShortSpan \in Nat /\ ShortSpan >= 4
  /\ Modulus = ShortSpan * ShortSpan
<1>1. Base \in Nat /\ Base >= 2 /\ Modulus = ShortSpan * ShortSpan
  BY KeyTrialAssumption
<1>2. Base * 2 <= Base * Base
  BY <1>1, TimesMonotone
<1> QED
  BY <1>1, <1>2 DEF ShortSpan

\* Whole multiples of the modulus do not change a remainder.
LEMMA ModShift ==
  ASSUME NEW m \in Nat \ {0}, NEW q \in Nat, NEW a \in Nat
  PROVE  (m * q + a) % m = a % m
<1> DEFINE p == a \div m
           r == a % m
<1>1. a = m * p + r /\ p \in Int /\ r \in 0..m-1
  BY ModSplit, ModRange
<1> HIDE DEF p, r
<1>2. m * (q + p) = m * q + m * p /\ m * q \in Int /\ m * p \in Int
  BY <1>1, Distributes
<1>3. m * q + a = m * (q + p) + r
  BY <1>1, <1>2
<1>4. q + p \in Int
  BY <1>1
<1>5. (m * (q + p) + r) % m = r
  BY <1>1, <1>4, ModMultiple
<1> QED
  BY <1>3, <1>5 DEF r

\* What is below ShortSpan is not folded.
LEMMA OnesSmall ==
  ASSUME NEW q \in 0..ShortSpan-1
  PROVE  Ones(q) = q
<1>1. CASE q = 0
  BY <1>1 DEF Ones
<1>2. CASE q # 0
  <2>1. q - 1 \in 0..(ShortSpan - 1) - 1 /\ ShortSpan - 1 \in Nat \ {0}
    BY <1>2, ShortSpanType
  <2>2. (q - 1) % (ShortSpan - 1) = q - 1
    BY <2>1, ModSmall
  <2> QED
    BY <1>2, <2>2, ShortSpanType DEF Ones
<1> QED
  BY <1>1, <1>2

\* Adding the carries back changes nothing, and leaves less.
LEMMA OnesFold ==
  ASSUME NEW q \in Nat, q >= ShortSpan
  PROVE  /\ (q % ShortSpan) + (q \div ShortSpan) \in Nat
         /\ (q % ShortSpan) + (q \div ShortSpan) < q
         /\ Ones((q % ShortSpan) + (q \div ShortSpan)) = Ones(q)
<1> DEFINE S == ShortSpan
           d == q \div S
           r == q % S
           M == S - 1
<1>1. S \in Nat /\ S >= 4 /\ M \in Nat \ {0}
  BY ShortSpanType
<1> HIDE DEF S
<1>2. q = S * d + r /\ d \in Int /\ r \in 0..S-1
  BY <1>1, ModSplit, ModRange
<1> HIDE DEF d, r
<1>3. d \in Nat /\ d >= 1
  <2>1. q >= S
    BY DEF S
  <2> QED
    BY <1>1, <1>2, <2>1
<1>4. d * 2 <= d * S
  BY <1>1, <1>3, TimesMonotone
<1>5. S * d = d * S /\ S * d \in Nat /\ M * d \in Nat /\ S * d = M * d + d
  <2>1. d * (M + 1) = d * M + d * 1
    BY <1>1, <1>3, Distributes
  <2>2. d * (M + 1) = S * d /\ d * M = M * d /\ d * 1 = d
    BY <1>1, <1>3
  <2> QED
    BY <1>1, <1>3, <2>1, <2>2
<1>6. r + d \in Nat /\ r + d < q /\ r + d # 0 /\ q # 0
  BY <1>1, <1>2, <1>3, <1>4, <1>5
<1>7. (q - 1) % M = ((r + d) - 1) % M
  <2>1. q - 1 = M * d + ((r + d) - 1) /\ (r + d) - 1 \in Nat
    BY <1>1, <1>2, <1>3, <1>5
  <2> HIDE DEF M
  <2> QED
    BY <1>1, <1>3, <2>1, ModShift
<1>8. ASSUME NEW x \in Nat, x = r + d
      PROVE  Ones(x) = Ones(q)
  <2>1. M = ShortSpan - 1
    BY DEF S
  <2>2. x # 0 /\ (q - 1) % M = (x - 1) % M
    BY <1>6, <1>7, <1>8
  <2> HIDE DEF M
  <2>3. Ones(x) = ((x - 1) % M) + 1 /\ Ones(q) = ((q - 1) % M) + 1
    BY <1>6, <2>1, <2>2 DEF Ones
  <2> QED
    BY <2>2, <2>3
<1> QED
  BY <1>6, <1>8 DEF r, d, S

\* So the fold of the RFCs ends with that remainder.
Folding(f) ==
  f = [q \in Nat |-> IF q < ShortSpan THEN q ELSE f[(q % ShortSpan) + (q \div ShortSpan)]]

LEMMA FoldIsOnes ==
  ASSUME NEW q \in Nat
  PROVE  (CHOOSE f : Folding(f))[q] = Ones(q)
<1> DEFINE g == [x \in Nat |-> Ones(x)]
           h == CHOOSE f : Folding(f)
<1>1. Folding(g)
  <2> SUFFICES ASSUME NEW x \in Nat
               PROVE  Ones(x) = IF x < ShortSpan THEN x
                                ELSE g[(x % ShortSpan) + (x \div ShortSpan)]
    BY DEF Folding
  <2>1. CASE x < ShortSpan
    <3>1. x \in 0..ShortSpan-1
      BY <2>1, ShortSpanType
    <3> QED
      BY <2>1, <3>1, OnesSmall
  <2>2. CASE ~(x < ShortSpan)
    <3>1. x >= ShortSpan
      BY <2>2, ShortSpanType
    <3>2. /\ (x % ShortSpan) + (x \div ShortSpan) \in Nat
          /\ Ones((x % ShortSpan) + (x \div ShortSpan)) = Ones(x)
      BY <3>1, OnesFold
    <3> QED
      BY <2>2, <3>2
  <2> QED
    BY <2>1, <2>2
<1>2. Folding(h)
  <2> HIDE DEF g
  <2> QED
    BY <1>1
<1> HIDE DEF h, g
<1>3. \A x \in Nat : h[x] = IF x < ShortSpan THEN x
                            ELSE h[(x % ShortSpan) + (x \div ShortSpan)]
  BY <1>2 DEF Folding
<1> DEFINE T == {x \in Nat : h[x] # Ones(x)}
<1>4. T = {}
  <2> SUFFICES ASSUME T # {} PROVE FALSE
    OBVIOUS
  <2>1. T \in SUBSET Nat
    OBVIOUS
  <2>2. PICK x \in T : \A u \in T : x <= u
    <3> HIDE DEF T
    <3> QED
      BY <2>1, LeastNat
  <2>3. x \in Nat /\ h[x] # Ones(x)
    BY <2>2
  <2>4. CASE x < ShortSpan
    <3>1. x \in 0..ShortSpan-1
      BY <2>3, <2>4, ShortSpanType
    <3> QED
      BY <1>3, <2>3, <2>4, <3>1, OnesSmall
  <2>5. CASE ~(x < ShortSpan)
    <3> DEFINE u == (x % ShortSpan) + (x \div ShortSpan)
    <3>1. x >= ShortSpan
      BY <2>3, <2>5, ShortSpanType
    <3>2. u \in Nat /\ u < x /\ Ones(u) = Ones(x)
      BY <2>3, <3>1, OnesFold
    <3>3. h[x] = h[u]
      BY <1>3, <2>3, <2>5
    <3> HIDE DEF u
    <3>4. u \notin T
      BY <2>2, <2>3, <3>2
    <3>5. h[u] = Ones(u)
      BY <3>2, <3>4
    <3> QED
      BY <2>3, <3>2, <3>3, <3>5
  <2> QED
    BY <2>4, <2>5
<1>5. h[q] = Ones(q)
  BY <1>4
<1> QED
  BY <1>5 DEF h

\* A short added to a folded sum, with the carry of tcp_checksum.
LEMMA OnesCarry ==
  ASSUME NEW q \in Nat, NEW u \in 0..ShortSpan-1
  PROVE  /\ Ones(q) \in 0..ShortSpan-1
         /\ Ones(q + u) = IF Ones(q) + u > ShortSpan - 1
                          THEN ((Ones(q) + u) % ShortSpan) + 1 ELSE Ones(q) + u
<1> DEFINE S == ShortSpan
           M == S - 1
<1>1. S \in Nat /\ S >= 4 /\ M \in Nat \ {0} /\ u \in 0..S-1
  BY ShortSpanType
<1>2. CASE q = 0
  <2>1. Ones(q) = 0 /\ q + u = u /\ 0 + u = u
    BY <1>2, ShortSpanType DEF Ones
  <2>2. Ones(u) = u
    BY OnesSmall
  <2>3. ~(u > S - 1) /\ 0 \in 0..S-1
    BY <1>1
  <2> QED
    BY <2>1, <2>2, <2>3
<1>3. CASE q # 0
  <2> DEFINE k == (q - 1) % M
             e == (q - 1) \div M
  <2>1. q - 1 \in Nat
    BY <1>3
  <2> HIDE DEF S
  <2>2. q - 1 = M * e + k /\ e \in Int /\ k \in 0..M-1
    <3> DEFINE q1 == q - 1
    <3>1. M \in Nat \ {0} /\ q1 \in Int
      BY <1>1, <2>1
    <3> HIDE DEF M, q1
    <3>2. q1 = M * (q1 \div M) + (q1 % M) /\ q1 \div M \in Int /\ q1 % M \in 0..M-1
      BY <3>1, ModSplit, ModRange
    <3> QED
      BY <3>2 DEF q1
  <2> HIDE DEF k, e
  <2>3. e \in Nat
    BY <1>1, <2>1, <2>2
  <2>4. Ones(q) = k + 1
    BY <1>3 DEF Ones, k, S
  <2>5. q + u # 0 /\ M * e \in Nat /\ (q + u) - 1 = M * e + (k + u) /\ k + u \in Nat
    BY <1>1, <1>3, <2>1, <2>2, <2>3
  <2>6. ((q + u) - 1) % M = (k + u) % M
    <3> DEFINE a == (q + u) - 1
               s == k + u
    <3>1. M \in Nat \ {0} /\ s \in Nat /\ a = M * e + s
      BY <1>1, <2>5
    <3> HIDE DEF M, a, s
    <3>2. a % M = s % M
      BY <2>3, <3>1, ModShift
    <3> QED
      BY <3>2 DEF a, s
  <2>7. Ones(q + u) = ((k + u) % M) + 1
    BY <2>5, <2>6 DEF Ones, S
  <2>8. CASE k + 1 + u <= M
    <3>1. k + u \in 0..M-1
      BY <1>1, <2>2, <2>8
    <3>2. (k + u) % M = k + u
      <4> HIDE DEF M
      <4> QED
        BY <1>1, <3>1, ModSmall
    <3>3. ~(k + 1 + u > S - 1) /\ k + 1 \in 0..S-1 /\ (k + u) + 1 = k + 1 + u
      BY <1>1, <2>2, <2>8
    <3> QED
      BY <2>4, <2>7, <3>2, <3>3 DEF S
  <2>9. CASE ~(k + 1 + u <= M)
    <3>1. k + u - M \in 0..M-1 /\ k + u = M * 1 + (k + u - M)
      BY <1>1, <2>2, <2>9
    <3>2. (k + u) % M = k + u - M
      <4> HIDE DEF M
      <4> QED
        BY <1>1, <3>1, ModMultiple
    <3>3. k + 1 + u - S \in 0..S-1 /\ k + 1 + u = S * 1 + (k + 1 + u - S)
      BY <1>1, <2>2, <2>9
    <3>4. (k + 1 + u) % S = k + 1 + u - S
      <4>1. S \in Nat \ {0}
        BY <1>1
      <4> QED
        BY <4>1, <3>3, ModMultiple
    <3>5. /\ k + 1 + u > S - 1 /\ k + 1 \in 0..S-1
          /\ (k + u - M) + 1 = (k + 1 + u - S) + 1
      BY <1>1, <2>2, <2>9
    <3> QED
      BY <2>4, <2>7, <3>2, <3>4, <3>5 DEF S
  <2> QED
    BY <1>1, <2>2, <2>8, <2>9
<1> QED
  BY <1>2, <1>3

\* The shorts of a buffer: where they begin, and their values.
Places(L) == {at \in 1..L : at % 2 = 1}
Values(s, L) ==
  [at \in Places(L) |-> s[at] * Base + IF at < L THEN s[at + 1] ELSE 0]
Sums(s, L) == SetSums(Values(s, L), Places(L))

LEMMA PlacesFinite ==
  ASSUME NEW L \in Nat
  PROVE  IsFiniteSet(Places(L)) /\ Places(L) \in SUBSET (1..L)
<1>1. IsFiniteSet(1..L)
  BY FS_Interval
<1>2. Places(L) \in SUBSET (1..L)
  BY DEF Places
<1> QED
  BY <1>1, <1>2, FS_Subset

LEMMA BufferIsSequence ==
  ASSUME NEW L \in Nat, NEW s \in Buffer(L)
  PROVE  s \in Seq(Byte) /\ Len(s) = L
<1>1. s \in Seq(Byte)
  BY SeqDef DEF Buffer
<1>2. DOMAIN s = 1..L /\ DOMAIN s = 1..Len(s) /\ Len(s) \in Nat
  BY <1>1, LenProperties DEF Buffer
<1> QED
  BY <1>1, <1>2

\* A short of two bytes is below ShortSpan; a low one keeps its sign bit clear.
LEMMA ShortValue ==
  ASSUME NEW a \in Byte, NEW b \in Byte
  PROVE  /\ a * Base + b \in 0..ShortSpan-1
         /\ 2 * a < Base /\ 2 * b < Base => 2 * (a * Base + b) < ShortSpan
<1>1. /\ Base \in Nat /\ Base >= 2 /\ a \in 0..Base-1 /\ b \in 0..Base-1
      /\ ShortSpan = Base * Base
  BY ShortSpanType DEF Byte, ShortSpan
<1>2. b + Base * a \in 0..Base * Base - 1 /\ Base * a = a * Base /\ a * Base \in Nat
  BY <1>1, PutByte
<1>3. ASSUME 2 * a < Base, 2 * b < Base
      PROVE  2 * (a * Base + b) < Base * Base
  <2>1. 2 * a + 1 <= Base /\ 2 * a + 1 \in Nat
    BY <1>1, <1>3
  <2>2. Base * (2 * a + 1) <= Base * Base
    BY <1>1, <2>1, TimesMonotone
  <2>3. Base * (2 * a + 1) = Base * (2 * a) + Base
    BY <1>1, Distributes
  <2>4. Base * (2 * a) = 2 * (a * Base)
    BY <1>1
  <2> DEFINE g == a * Base
             h == Base * Base
  <2>5. g \in Nat /\ h \in Nat
    BY <1>1
  <2>6. 2 * g + Base <= h
    BY <2>2, <2>3, <2>4
  <2> HIDE DEF g, h
  <2>7. 2 * (g + b) < h
    BY <1>1, <1>3, <2>5, <2>6
  <2> QED
    BY <2>7 DEF g, h
<1> QED
  BY <1>1, <1>2, <1>3

\* The values are shorts.
LEMMA ValuesType ==
  ASSUME NEW L \in Nat, NEW s \in Buffer(L)
  PROVE  /\ Values(s, L) \in [Places(L) -> Int]
         /\ \A at \in Places(L) : Values(s, L)[at] \in 0..ShortSpan-1
<1>1. ASSUME NEW at \in Places(L)
      PROVE  Values(s, L)[at] \in 0..ShortSpan-1
  <2> DEFINE b == IF at < L THEN s[at + 1] ELSE 0
  <2>1. at \in 1..L /\ s[at] \in Byte
    BY DEF Places, Buffer
  <2>2. b \in Byte
    <3>1. CASE at < L
      <4>1. at + 1 \in 1..L
        BY <2>1, <3>1
      <4> QED
        BY <3>1, <4>1 DEF Buffer
    <3>2. CASE ~(at < L)
      BY <3>2, ShortSpanType DEF Byte
    <3> QED
      BY <3>1, <3>2
  <2> HIDE DEF b
  <2>3. s[at] * Base + b \in 0..ShortSpan-1
    BY <2>1, <2>2, ShortValue
  <2> QED
    BY <2>3 DEF Values, b
<1>2. Values(s, L) = [at \in Places(L) |-> Values(s, L)[at]]
  BY DEF Values
<1>3. 0..ShortSpan-1 \subseteq Int
  OBVIOUS
<1> QED
  BY <1>1, <1>2, <1>3

\* The reference adds up these values.
LEMMA ReferenceSum ==
  ASSUME NEW L \in Nat, NEW s \in Buffer(L), Sums(s, L)[Places(L)] \in Nat
  PROVE  InternetChecksum(s) = ShortSpan - 1 - Ones(Sums(s, L)[Places(L)])
<1> DEFINE W == Places(L)
           v == Values(s, L)
           Good(f) == f = [T \in SUBSET W |-> IF T = {} THEN 0
                             ELSE (s[CHOOSE x \in T : TRUE] * Base
                                     + IF (CHOOSE x \in T : TRUE) < L
                                       THEN s[(CHOOSE x \in T : TRUE) + 1] ELSE 0)
                                  + f[T \ {CHOOSE x \in T : TRUE}]]
           same(f) == f = [T \in SUBSET W |-> IF T = {} THEN 0
                             ELSE v[CHOOSE x \in T : TRUE] + f[T \ {CHOOSE x \in T : TRUE}]]
<1>1. Len(s) = L
  BY BufferIsSequence
<1>2. InternetChecksum(s)
        = ShortSpan - 1 - (CHOOSE f : Folding(f))[(CHOOSE f : Good(f))[W]]
  BY <1>1 DEF InternetChecksum, MapThenSumSet, MapThenFoldSet, Folding, Places
<1>3. ASSUME NEW T \in SUBSET W, T # {}
      PROVE  v[CHOOSE x \in T : TRUE]
               = s[CHOOSE x \in T : TRUE] * Base
                   + IF (CHOOSE x \in T : TRUE) < L
                     THEN s[(CHOOSE x \in T : TRUE) + 1] ELSE 0
  <2>1. (CHOOSE x \in T : TRUE) \in W
    BY <1>3
  <2> HIDE DEF W
  <2> QED
    BY <2>1 DEF Values, W
<1> HIDE DEF v, W
<1>4. ASSUME NEW f
      PROVE  Good(f) <=> same(f)
  BY <1>3
<1>5. (CHOOSE f : Good(f)) = CHOOSE f : same(f)
  <2> HIDE DEF Good, same
  <2> QED
    BY <1>4
<1>6. Sums(s, L) = CHOOSE f : same(f)
  BY DEF Sums, SetSums, v, W
<1>7. (CHOOSE f : Folding(f))[Sums(s, L)[W]] = Ones(Sums(s, L)[W])
  BY FoldIsOnes DEF W
<1> HIDE DEF Good, same
<1> QED
  BY <1>2, <1>5, <1>6, <1>7 DEF W

(***************************************************************************)
(* The sum of tcp_checksum is what Ones makes of the shorts before ci.     *)
(***************************************************************************)
Small == \A j \in 1..Size : 2 * decBuf[j] < Base

Before(k) == {at \in Places(Size) : at <= k}

SumSoFar ==
  /\ pc # "end" => hash = -1
  /\ pc = "checksum" =>
       /\ ci \in Nat /\ \E q \in Nat : ci = 2 * q
       /\ Small => /\ Sums(decBuf, Size)[Before(ci)] \in Nat
                   /\ csum = Ones(Sums(decBuf, Size)[Before(ci)])

SumInv == SumSoFar /\ ChecksumOfText

\* What the folds of the sums obey.
LEMMA SumsOfBuffer ==
  ASSUME KeyInv, decBuf # <<>>
  PROVE  /\ Size \in Nat /\ decBuf \in Buffer(Size) /\ Len(decBuf) = Size
         /\ Sums(decBuf, Size)[{}] = 0
         /\ \A T \in SUBSET Places(Size) : \A at \in T :
              Sums(decBuf, Size)[T] = Values(decBuf, Size)[at] + Sums(decBuf, Size)[T \ {at}]
<1>1. Size \in Nat /\ decBuf \in Buffer(Size)
  BY DEF KeyInv, TrialType
<1>2. Len(decBuf) = Size
  BY <1>1, BufferIsSequence
<1>3. IsFiniteSet(Places(Size)) /\ Values(decBuf, Size) \in [Places(Size) -> Int]
  BY <1>1, PlacesFinite, ValuesType
<1> DEFINE U == Places(Size)
           v == Values(decBuf, Size)
<1>4. Sums(decBuf, Size) = SetSums(v, U)
  BY DEF Sums
<1> HIDE DEF U, v
<1>5. SetSums(v, U)[{}] = 0
  BY <1>3, SetSumsUnfold DEF U, v
<1>6. \A T \in SUBSET U : \A at \in T : SetSums(v, U)[T] = v[at] + SetSums(v, U)[T \ {at}]
  BY <1>3, SetSumsAdd DEF U, v
<1> QED
  BY <1>1, <1>2, <1>4, <1>5, <1>6 DEF U, v

\* A round adds the next short.
LEMMA SumRound ==
  ASSUME KeyInv, SumInv, ChecksumRound
  PROVE  SumInv'
<1>1. /\ pc = "checksum" /\ ci < Size /\ ci' = ci + 2
      /\ UNCHANGED <<text, decBuf, hash, pc>> /\ Size' = Size
      /\ csum' = LET s == (csum + Short(decBuf, ci)) % Modulus
                 IN IF s > ShortSpan - 1 THEN (s % ShortSpan) + 1 ELSE s
  BY DEF ChecksumRound, Size
<1>2. decBuf # <<>> /\ hash = -1 /\ ci \in Nat
  BY <1>1 DEF KeyInv, Opened, SumInv, SumSoFar
<1>3. PICK q \in Nat : ci = 2 * q
  BY <1>1 DEF SumInv, SumSoFar
<1>4. ci' \in Nat /\ \E q1 \in Nat : ci' = 2 * q1
  <2>1. ci' = 2 * (q + 1) /\ q + 1 \in Nat
    BY <1>1, <1>3
  <2> QED
    BY <2>1
<1>5. ASSUME Small
      PROVE  /\ Sums(decBuf, Size)[Before(ci + 2)] \in Nat
             /\ csum' = Ones(Sums(decBuf, Size)[Before(ci + 2)])
  <2> DEFINE u == Values(decBuf, Size)[ci + 1]
             old == Sums(decBuf, Size)[Before(ci)]
             new == Sums(decBuf, Size)[Before(ci + 2)]
  <2>1. /\ Size \in Nat /\ decBuf \in Buffer(Size) /\ Len(decBuf) = Size
        /\ \A T \in SUBSET Places(Size) : \A at \in T :
             Sums(decBuf, Size)[T] = Values(decBuf, Size)[at] + Sums(decBuf, Size)[T \ {at}]
    BY <1>2, SumsOfBuffer
  <2>2. ci + 1 \in 1..Size /\ (ci + 1) % 2 = 1 /\ (ci + 2) % 2 # 1
    BY <1>1, <1>2, <1>3, <2>1
  <2>3. ci + 1 \in Places(Size) /\ ci + 2 \notin Places(Size)
    BY <2>2 DEF Places
  <2>4. Before(ci + 2) \in SUBSET Places(Size) /\ ci + 1 \in Before(ci + 2)
    BY <1>2, <2>3 DEF Before
  <2>5. Before(ci + 2) \ {ci + 1} = Before(ci)
    <3>1. \A at \in Places(Size) : at \in Int
      BY DEF Places
    <3>2. \A at \in Places(Size) : at <= ci + 2 /\ at # ci + 1 <=> at <= ci
      BY <1>2, <2>3, <3>1
    <3> QED
      BY <3>2 DEF Before
  <2>6. new = u + old
    BY <2>1, <2>4, <2>5
  <2>7. old \in Nat /\ csum = Ones(old)
    BY <1>1, <1>5 DEF SumInv, SumSoFar
  <2>8. u \in 0..ShortSpan-1
    BY <2>1, <2>3, ValuesType
  <2>9. Short(decBuf, ci) = u
    <3> DEFINE b == IF ci + 1 < Size THEN decBuf[ci + 2] ELSE 0
    <3>1. u = decBuf[ci + 1] * Base + b
      <4>1. (ci + 1) + 1 = ci + 2
        BY <1>2
      <4> QED
        BY <2>3, <4>1 DEF Values
    <3>2. decBuf[ci + 1] \in Byte /\ 2 * decBuf[ci + 1] < Base
      BY <1>5, <2>1, <2>2 DEF Buffer, Small
    <3>3. b \in Byte /\ 2 * b < Base
      <4>1. CASE ci + 1 < Size
        <5>1. ci + 2 \in 1..Size
          BY <1>2, <2>1, <4>1
        <5> QED
          BY <1>5, <2>1, <4>1, <5>1 DEF Buffer, Small
      <4>2. CASE ~(ci + 1 < Size)
        BY <4>2, ShortSpanType DEF Byte
      <4> QED
        BY <4>1, <4>2
    <3> HIDE DEF b
    <3>4. 2 * u < ShortSpan
      BY <3>1, <3>2, <3>3, ShortValue
    <3>5. Short(decBuf, ci) = IF 2 * u >= ShortSpan THEN u - ShortSpan ELSE u
      BY <2>1, <3>1 DEF Short, b
    <3> HIDE DEF u
    <3> QED
      BY <2>8, <3>4, <3>5, ShortSpanType
  <2> HIDE DEF u, old, new
  <2>10. Ones(old) \in 0..ShortSpan-1
         /\ Ones(old + u) = IF Ones(old) + u > ShortSpan - 1
                            THEN ((Ones(old) + u) % ShortSpan) + 1 ELSE Ones(old) + u
    BY <2>7, <2>8, OnesCarry
  <2>11. (csum + u) % Modulus = csum + u
    <3> DEFINE S == ShortSpan
    <3>1. S \in Nat /\ S >= 4 /\ Modulus = S * S /\ csum \in 0..S-1 /\ u \in 0..S-1
      BY <2>7, <2>8, <2>10, ShortSpanType
    <3> HIDE DEF S
    <3>2. S * 2 <= S * S
      BY <3>1, TimesMonotone
    <3>3. csum + u \in 0..Modulus-1 /\ Modulus \in Nat \ {0}
      BY <3>1, <3>2
    <3> QED
      BY <3>3, ModSmall
  <2>12. csum' = IF csum + u > ShortSpan - 1 THEN ((csum + u) % ShortSpan) + 1 ELSE csum + u
    BY <1>1, <2>9, <2>11
  <2>13. csum' = Ones(old + u)
    BY <2>7, <2>10, <2>12
  <2>14. old + u = new /\ new \in Nat
    BY <2>6, <2>7, <2>8, ShortSpanType
  <2> QED
    BY <2>13, <2>14 DEF new
<1>6. SumSoFar'
  BY <1>1, <1>2, <1>4, <1>5 DEF SumSoFar, Small, Before
<1>7. ChecksumOfText'
  BY <1>1, <1>2 DEF ChecksumOfText
<1> QED
  BY <1>6, <1>7 DEF SumInv

\* When all are added the complement is that of the reference.
LEMMA SumSaved ==
  ASSUME KeyInv, SumInv, SaveHash
  PROVE  SumInv'
<1>1. /\ pc = "checksum" /\ ci >= Size /\ pc' = "end"
      /\ UNCHANGED <<text, decBuf>> /\ Size' = Size
      /\ hash' = Modulus - 1 - csum \/ hash' = hash
  BY DEF SaveHash, Size
<1>2. decBuf # <<>> /\ hash = -1 /\ ci \in Nat
  BY <1>1 DEF KeyInv, Opened, SumInv, SumSoFar
<1>3. Size \in Nat /\ decBuf \in Buffer(Size)
  BY <1>2, SumsOfBuffer
<1>4. ASSUME Small, hash' = Modulus - 1 - csum
      PROVE  /\ hash' % ShortSpan = InternetChecksum(decBuf)
             /\ hash' \div ShortSpan = ShortSpan - 1
  <2> DEFINE total == Sums(decBuf, Size)[Places(Size)]
  <2>1. Before(ci) = Places(Size)
    <3>1. \A at \in Places(Size) : at <= ci
      BY <1>1, <1>2, <1>3 DEF Places
    <3> QED
      BY <3>1 DEF Before
  <2>2. total \in Nat /\ csum = Ones(total)
    BY <1>1, <1>4, <2>1 DEF SumInv, SumSoFar
  <2>3. InternetChecksum(decBuf) = ShortSpan - 1 - csum
    BY <1>3, <2>2, ReferenceSum
  <2> HIDE DEF total
  <2> DEFINE S == ShortSpan
  <2>4. S \in Nat /\ S >= 4 /\ Modulus = S * S
    BY ShortSpanType
  <2>5. csum \in 0..S-1
    <3>1. 0 \in 0..ShortSpan-1
      BY ShortSpanType
    <3> QED
      BY <2>2, <3>1, OnesCarry
  <2> HIDE DEF S
  <2>6. S * S = S * (S - 1) + S /\ S * (S - 1) \in Nat
    <3>1. S * ((S - 1) + 1) = S * (S - 1) + S * 1
      BY <2>4, Distributes
    <3>2. (S - 1) + 1 = S /\ S * 1 = S
      BY <2>4
    <3>3. S - 1 \in Nat
      BY <2>4
    <3> QED
      BY <2>4, <3>1, <3>2, <3>3
  <2> DEFINE r == S - 1 - csum
             d == S - 1
  <2>7. r \in 0..S-1 /\ d \in Nat /\ S \in Nat \ {0}
    BY <2>4, <2>5
  <2>8. hash' = S * d + r
    BY <1>4, <2>4, <2>5, <2>6
  <2> HIDE DEF r, d
  <2>9. (S * d + r) % S = r /\ (S * d + r) \div S = d
    BY <2>7
  <2> QED
    BY <2>3, <2>8, <2>9 DEF r, d, S
<1>5. ChecksumOfText'
  <2> SUFFICES ASSUME hash' # -1, Small
               PROVE  /\ hash' % ShortSpan = InternetChecksum(decBuf)
                      /\ hash' \div ShortSpan = ShortSpan - 1
    BY <1>1 DEF ChecksumOfText, Small
  <2> QED
    BY <1>1, <1>2, <1>4
<1> QED
  BY <1>1, <1>5 DEF SumInv, SumSoFar

\* It begins at 0.
LEMMA SumBegins ==
  ASSUME KeyInv, SumInv, SavePlain
  PROVE  SumInv'
<1>1. /\ pc = "savePlain" /\ pc' = "checksum" /\ csum' = 0 /\ ci' = 0
      /\ UNCHANGED <<text, decBuf, hash>> /\ Size' = Size
  BY DEF SavePlain, Size
<1>2. decBuf # <<>> /\ hash = -1
  BY <1>1 DEF KeyInv, Opened, SumInv, SumSoFar
<1>3. Size \in Nat /\ Sums(decBuf, Size)[{}] = 0
  BY <1>2, SumsOfBuffer
<1>4. Before(0) = {}
  <2>1. \A at \in Places(Size) : at >= 1 /\ at \in Int
    BY <1>3 DEF Places
  <2>2. \A at \in Places(Size) : ~(at <= 0)
    BY <2>1
  <2> QED
    BY <2>2 DEF Before
<1>5. Sums(decBuf, Size)[Before(0)] = 0 /\ Ones(0) = 0 /\ 0 \in Nat /\ 0 = 2 * 0
  BY <1>3, <1>4 DEF Ones
<1>6. Before(ci)' = Before(0)
  BY <1>1 DEF Before
<1>7. SumSoFar'
  BY <1>1, <1>2, <1>5, <1>6 DEF SumSoFar
<1>8. ChecksumOfText'
  BY <1>1, <1>2 DEF ChecksumOfText
<1> QED
  BY <1>7, <1>8 DEF SumInv

\* Before there is no number saved, and after it nothing changes.
LEMMA SumOthers ==
  ASSUME SumInv,
         \/ Cipher \/ Encrypt \/ Encrypted \/ Malloc \/ Decrypt \/ Decrypted \/ Compare
         \/ IsPrimeRound \/ IsPrimeReturn \/ UNCHANGED vars
  PROVE  SumInv'
<1>1. CASE Cipher \/ UNCHANGED vars
  <2>1. UNCHANGED <<text, decBuf, csum, ci, hash, pc>> /\ Size' = Size
    BY <1>1 DEF Cipher, vars, work, Size
  <2> QED
    BY <2>1 DEF SumInv, SumSoFar, ChecksumOfText, Small, Before
<1>2. CASE \/ Encrypt \/ Encrypted \/ Malloc \/ Decrypt \/ Decrypted \/ Compare
           \/ IsPrimeRound \/ IsPrimeReturn
  <2>1. pc # "end" /\ pc' # "checksum" /\ hash' = hash
    BY <1>2
    DEF Encrypt, Encrypted, Malloc, Decrypt, Decrypted, Compare, IsPrimeRound,
        IsPrimeReturn, work
  <2> QED
    BY <2>1 DEF SumInv, SumSoFar, ChecksumOfText
<1> QED
  BY <1>1, <1>2

\* ChecksumOfText for every text of bytes below the half, every width of a byte
\* and every length: the low half of what is saved is the checksum of the RFCs,
\* although the carries are added back at another time (ipc.c:11).
THEOREM ChecksumIsInternet == Spec => []ChecksumOfText
<1>1. Init => KeyInv /\ SumInv
  BY KeyInit DEF Init, SumInv, SumSoFar, ChecksumOfText
<1>2. KeyInv /\ [Next]_vars => KeyInv'
  BY KeyStep
<1>3. KeyInv /\ SumInv /\ [Next]_vars => SumInv'
  <2> SUFFICES ASSUME KeyInv, SumInv, [Next]_vars PROVE SumInv'
    OBVIOUS
  <2>1. \/ Cipher \/ Encrypt \/ Encrypted \/ Malloc \/ Decrypt \/ Decrypted \/ Compare
        \/ IsPrimeRound \/ IsPrimeReturn \/ SavePlain \/ ChecksumRound \/ SaveHash
        \/ UNCHANGED vars
    BY DEF Next, End
  <2> QED
    BY <2>1, SumBegins, SumRound, SumSaved, SumOthers
<1>4. SumInv => ChecksumOfText
  BY DEF SumInv
<1> QED
  BY <1>1, <1>2, <1>3, <1>4, PTL DEF Spec
=============================================================================

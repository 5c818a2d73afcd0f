-------------------------------- MODULE Xtea --------------------------------
(***************************************************************************)
(* tean of task4_307/xtea.c, which codes a pair of words when N > 0 and    *)
(* decodes it otherwise.  A round is a step; a call and its return are     *)
(* steps too, so that a caller can be composed with it.                    *)
(*                                                                         *)
(* An unsigned int is a number below Modulus, 2^32 in the code.  Xor is    *)
(* the exclusive or of words, of which only the range matters here.        *)
(***************************************************************************)
EXTENDS Integers, Sequences

CONSTANTS
  Modulus,
  Xor(_, _),
  DELTA,      \* 0x9e3779b9, an odd number
  Cycles      \* the greatest number of rounds asked for, 32 in the code

Word  == 0..Modulus-1
Pair  == Word \X Word
Key   == [0..3 -> Word]

ASSUME XteaAssumption ==
  /\ Modulus \in Nat \ {0}
  /\ \A p, q \in Word : Xor(p, q) \in Word
  /\ DELTA \in Word
  /\ Cycles \in Nat
  /\ \A i \in 1..Cycles : (i * DELTA) % Modulus # 0

VARIABLES
  call,      \* the arguments of the call: v, k, N
  y, z, sum, limit,
  w,         \* the pair the last call left
  running,   \* "coding", "decoding" or "idle"
  trail,     \* history: y, z and sum at the start and after each round
  codings    \* history: the calls that coded, with their results and trails

teanVars == <<call, y, z, sum, limit, w, running, trail, codings>>

Plus(p, q)  == (p + q) % Modulus
Minus(p, q) == (p - q) % Modulus

\* (x << 4 ^ x >> 5) + x ^ s + k; in C the sums bind tighter than ^.
Mix(x, s, k) == Xor(Plus(Xor((x * 16) % Modulus, x \div 32), x), Plus(s, k))

LowKey(k, s)  == k[s % 4]                \* k[sum & 3]
HighKey(k, s) == k[(s \div 2048) % 4]    \* k[sum >> 11 & 3]

State == [y |-> y, z |-> z, sum |-> sum]

TeanInit ==
  /\ call = [v |-> <<0, 0>>, k |-> [j \in 0..3 |-> 0], N |-> 0]
  /\ y = 0 /\ z = 0 /\ sum = 0 /\ limit = 0
  /\ w = <<0, 0>>
  /\ running = "idle"
  /\ trail = <<>>
  /\ codings = {}

Call(v, k, N) ==
  /\ running = "idle"
  /\ call' = [v |-> v, k |-> k, N |-> N]
  /\ y' = v[1] /\ z' = v[2]
  /\ IF N > 0
     THEN /\ running' = "coding"
          /\ limit' = (DELTA * N) % Modulus
          /\ sum' = 0
     ELSE /\ running' = "decoding"
          /\ limit' = 0
          /\ sum' = (DELTA * (-N)) % Modulus
  /\ trail' = <<[y |-> y', z |-> z', sum |-> sum']>>
  /\ UNCHANGED <<w, codings>>

CodeRound ==
  /\ running = "coding" /\ sum # limit
  /\ y' = Plus(y, Mix(z, sum, LowKey(call.k, sum)))
  /\ sum' = Plus(sum, DELTA)
  /\ z' = Plus(z, Mix(y', sum', HighKey(call.k, sum')))
  /\ trail' = Append(trail, [y |-> y', z |-> z', sum |-> sum'])
  /\ UNCHANGED <<call, limit, w, running, codings>>

\* A slip: the halves are taken back in the order they were mixed.
DecodeRound_SameOrder ==
  /\ running = "decoding" /\ sum # 0
  /\ sum' = Minus(sum, DELTA)
  /\ y' = Minus(y, Mix(z, sum', LowKey(call.k, sum')))
  /\ z' = Minus(z, Mix(y', sum, HighKey(call.k, sum)))
  /\ trail' = Append(trail, [y |-> y', z |-> z', sum |-> sum'])
  /\ UNCHANGED <<call, limit, w, running, codings>>

DecodeRound ==
  /\ running = "decoding" /\ sum # 0
  /\ z' = Minus(z, Mix(y, sum, HighKey(call.k, sum)))
  /\ sum' = Minus(sum, DELTA)
  /\ y' = Minus(y, Mix(z', sum', LowKey(call.k, sum')))
  /\ trail' = Append(trail, [y |-> y', z |-> z', sum |-> sum'])
  /\ UNCHANGED <<call, limit, w, running, codings>>

Return ==
  /\ \/ running = "coding" /\ sum = limit
     \/ running = "decoding" /\ sum = 0
  /\ w' = <<y, z>>
  /\ running' = "idle"
  /\ codings' = IF running = "coding"
                THEN codings \cup {[call |-> call, w |-> <<y, z>>, trail |-> trail]}
                ELSE codings
  /\ UNCHANGED <<call, y, z, sum, limit, trail>>

Tean == CodeRound \/ DecodeRound \/ Return

TeanNext ==
  \/ \E v \in Pair, k \in Key, N \in -Cycles..Cycles : Call(v, k, N)
  \/ Tean

TeanSpec == TeanInit /\ [][TeanNext]_teanVars

(***************************************************************************)
(* Properties                                                              *)
(***************************************************************************)
\* A call that decodes what an earlier call has coded, with the same key and
\* the same number of rounds, gives back what that call was given (xtea.c:4,
\* "The same function is used for both encrypt and decrypt").
RoundTrip ==
  running = "idle" =>
    \A c \in codings :
      c.w = call.v /\ c.call.k = call.k /\ c.call.N = -call.N => w = c.call.v
=============================================================================

------------------------------ MODULE KeyTrial ------------------------------
(***************************************************************************)
(* What one number goes through in threadFunction of task4_threads.c: the  *)
(* test of isPrime, the decryption of the code file with the number as     *)
(* key, the comparison with the magic word, the saved text and checksum.   *)
(* Before that a tool outside the repository has coded a text with the     *)
(* same cipher and a prime as key.  The interleaving of the threads is in  *)
(* PrimeThreads, to which Primes and Keys say what is computed here.       *)
(*                                                                         *)
(* A byte is a number below Base, a short has two bytes and an int four,   *)
(* the low one first in memory.  Buffers are functions on 1..size.         *)
(***************************************************************************)
EXTENDS Xtea, FiniteSets, FiniteSetsExt, Functions

CONSTANTS
  Base,      \* values of a byte, 256 in the code
  Magic,     \* "BENGT"
  Texts,     \* the texts that may have been coded, which begin with it
  Secrets,   \* the primes they may have been coded with
  Numbers,   \* the numbers that may be tried
  Garbage,   \* what a byte that malloc left alone may hold
  Faults     \* the calls that may fail, of FaultNames

FaultNames == {"buf", "plain", "hash"}
Byte       == 0..Base-1
ShortSpan  == Base * Base       \* values of a short

ASSUME KeyTrialAssumption ==
  /\ Base \in Nat \ {0, 1} /\ Modulus = ShortSpan * ShortSpan
  /\ Cycles > 0
  /\ Magic \in Seq(Byte) /\ Len(Magic) <= 8
  /\ Texts \subseteq Seq(Byte)
  /\ \A t \in Texts : Len(t) >= 8 /\ \A j \in DOMAIN Magic : t[j] = Magic[j]
  /\ Secrets \cup Numbers \subseteq Word
  /\ Garbage \subseteq Byte
  /\ Faults \subseteq FaultNames

VARIABLES
  secret, text,   \* what the tool coded, and with which key
  pCodeBuf,       \* the code file
  n,              \* the number in hand
  i,              \* the divisor isPrime is at
  verdict,        \* what isPrime returned, or -1
  iBlock,
  decBuf,         \* the buffer for the text, <<>> before malloc
  plain,          \* task4_plain.txt
  csum, ci,       \* sum and i of tcp_checksum
  hash,           \* the number in task4_plain.hash, or -1
  found,
  pc

work == <<n, i, verdict, iBlock, decBuf, plain, csum, ci, hash, found>>
vars == <<teanVars, secret, text, pCodeBuf, work, pc>>

Size == Len(text)                      \* pArgs->iCodeSize
SameKey(q) == [j \in 0..3 |-> q]       \* key[0] .. key[3]

WordAt(s, at) ==
  s[at] + Base * (s[at + 1] + Base * (s[at + 2] + Base * s[at + 3]))
PairAt(s, at) == <<WordAt(s, at), WordAt(s, at + 4)>>

\* The bytes of a word, the low one first.
Bytes(x) ==
  LET x1 == x \div Base
      x2 == x1 \div Base
  IN <<x % Base, x1 % Base, x2 % Base, x2 \div Base>>

\* memcpy of a pair to position at of buffer s.
PutPair(s, at, p) ==
  [j \in DOMAIN s |-> IF j \in at..at+3 THEN Bytes(p[1])[j - at + 1]
                      ELSE IF j \in at+4..at+7 THEN Bytes(p[2])[j - at - 3]
                      ELSE s[j]]

Init ==
  /\ TeanInit
  /\ secret \in Secrets /\ text \in Texts /\ n \in Numbers
  /\ pCodeBuf = text
  /\ i = 0 /\ verdict = -1
  /\ iBlock = 0 /\ decBuf = <<>> /\ plain = <<>>
  /\ csum = 0 /\ ci = 0 /\ hash = -1
  /\ found = FALSE
  /\ pc = "encrypt"

\* A round of the cipher, or its return.
Cipher == Tean /\ UNCHANGED <<secret, text, pCodeBuf, work, pc>>

(***************************************************************************)
(* The tool: every whole block is coded; bytes behind the last whole block *)
(* are taken to stay as they are.                                          *)
(***************************************************************************)
Encrypt ==
  /\ pc = "encrypt"
  /\ IF iBlock + 8 <= Size
     THEN /\ Call(PairAt(pCodeBuf, iBlock + 1), SameKey(secret), Cycles)
          /\ pc' = "encrypted"
          /\ UNCHANGED <<i, iBlock>>
     ELSE /\ pc' = "isPrime" /\ i' = 2 /\ iBlock' = 0
          /\ UNCHANGED teanVars
  /\ UNCHANGED <<secret, text, pCodeBuf, n, verdict, decBuf, plain, csum, ci,
                 hash, found>>

Encrypted ==
  /\ pc = "encrypted"
  /\ running = "idle"
  /\ pCodeBuf' = PutPair(pCodeBuf, iBlock + 1, w)
  /\ iBlock' = iBlock + 8
  /\ pc' = "encrypt"
  /\ UNCHANGED <<teanVars, secret, text, n, i, verdict, decBuf, plain, csum,
                 ci, hash, found>>

(***************************************************************************)
(* isPrime                                                                 *)
(***************************************************************************)
IsPrimeRound ==
  /\ pc = "isPrime"
  /\ i < n /\ n % i # 0
  /\ i' = i + 1
  /\ UNCHANGED <<teanVars, secret, text, pCodeBuf, n, verdict, iBlock, decBuf,
                 plain, csum, ci, hash, found, pc>>

\* A slip: the loop is compared with the wrong end.
IsPrimeReturn_Equal ==
  /\ pc = "isPrime"
  /\ i >= n \/ n % i = 0
  /\ verdict' = IF i <= n THEN 0 ELSE n
  /\ pc' = IF verdict' # 0 THEN "malloc" ELSE "end"
  /\ UNCHANGED <<teanVars, secret, text, pCodeBuf, n, i, iBlock, decBuf, plain,
                 csum, ci, hash, found>>

IsPrimeReturn ==
  /\ pc = "isPrime"
  /\ i >= n \/ n % i = 0
  /\ verdict' = IF i < n THEN 0 ELSE n
  /\ pc' = IF verdict' # 0 THEN "malloc" ELSE "end"
  /\ UNCHANGED <<teanVars, secret, text, pCodeBuf, n, i, iBlock, decBuf, plain,
                 csum, ci, hash, found>>

(***************************************************************************)
(* The trial                                                               *)
(***************************************************************************)
Malloc ==
  /\ pc = "malloc"
  /\ \/ \E g \in Garbage : decBuf' = [j \in 1..Size |-> g] /\ pc' = "decrypt"
     \/ "buf" \in Faults /\ pc' = "end" /\ UNCHANGED decBuf
  /\ UNCHANGED <<teanVars, secret, text, pCodeBuf, n, i, verdict, iBlock, plain,
                 csum, ci, hash, found>>

\* A slip: the last whole block is left out.
Decrypt_Short ==
  /\ pc = "decrypt"
  /\ IF iBlock + 8 < Size
     THEN /\ Call(PairAt(pCodeBuf, iBlock + 1), SameKey(n), -Cycles)
          /\ pc' = "decrypted"
     ELSE pc' = "compare" /\ UNCHANGED teanVars
  /\ UNCHANGED <<secret, text, pCodeBuf, work>>

\* The loop over the blocks: what is behind the last whole one stays as
\* malloc left it.
Decrypt ==
  /\ pc = "decrypt"
  /\ IF iBlock + 8 <= Size
     THEN /\ Call(PairAt(pCodeBuf, iBlock + 1), SameKey(n), -Cycles)
          /\ pc' = "decrypted"
     ELSE pc' = "compare" /\ UNCHANGED teanVars
  /\ UNCHANGED <<secret, text, pCodeBuf, work>>

\* A slip: the loop stays at its block.
Decrypted_SameBlock ==
  /\ pc = "decrypted"
  /\ running = "idle"
  /\ decBuf' = PutPair(decBuf, iBlock + 1, w)
  /\ pc' = "decrypt"
  /\ UNCHANGED <<teanVars, secret, text, pCodeBuf, n, i, verdict, iBlock, plain,
                 csum, ci, hash, found>>

Decrypted ==
  /\ pc = "decrypted"
  /\ running = "idle"
  /\ decBuf' = PutPair(decBuf, iBlock + 1, w)
  /\ iBlock' = iBlock + 8
  /\ pc' = "decrypt"
  /\ UNCHANGED <<teanVars, secret, text, pCodeBuf, n, i, verdict, plain, csum,
                 ci, hash, found>>

Compare ==
  /\ pc = "compare"
  /\ found' = \A j \in DOMAIN Magic : decBuf[j] = Magic[j]
  /\ pc' = IF found' THEN "savePlain" ELSE "end"
  /\ UNCHANGED <<teanVars, secret, text, pCodeBuf, n, i, verdict, iBlock, decBuf,
                 plain, csum, ci, hash>>

SavePlain ==
  /\ pc = "savePlain"
  /\ \/ plain' = decBuf
     \/ "plain" \in Faults /\ UNCHANGED plain
  /\ pc' = "checksum" /\ csum' = 0 /\ ci' = 0
  /\ UNCHANGED <<teanVars, secret, text, pCodeBuf, n, i, verdict, iBlock, decBuf,
                 hash, found>>

(***************************************************************************)
(* tcp_checksum                                                            *)
(***************************************************************************)
\* short word = data[i] << 8, or-ed with data[i + 1] if there is one.
Short(s, at) ==
  LET u == s[at + 1] * Base + IF at + 1 < Len(s) THEN s[at + 2] ELSE 0
  IN IF 2 * u >= ShortSpan THEN u - ShortSpan ELSE u

\* A slip: the carry out of the sixteen bits is dropped.
ChecksumRound_NoCarry ==
  /\ pc = "checksum" /\ ci < Size
  /\ csum' = ((csum + Short(decBuf, ci)) % Modulus) % ShortSpan
  /\ ci' = ci + 2
  /\ UNCHANGED <<teanVars, secret, text, pCodeBuf, n, i, verdict, iBlock, decBuf,
                 plain, hash, found, pc>>

\* The word is converted to unsigned, so a negative one makes the sum huge.
ChecksumRound ==
  /\ pc = "checksum" /\ ci < Size
  /\ csum' = LET s == (csum + Short(decBuf, ci)) % Modulus
             IN IF s > ShortSpan - 1 THEN (s % ShortSpan) + 1 ELSE s
  /\ ci' = ci + 2
  /\ UNCHANGED <<teanVars, secret, text, pCodeBuf, n, i, verdict, iBlock, decBuf,
                 plain, hash, found, pc>>

SaveHash ==
  /\ pc = "checksum" /\ ci >= Size
  /\ \/ hash' = Modulus - 1 - csum       \* ~sum
     \/ "hash" \in Faults /\ UNCHANGED hash
  /\ pc' = "end"
  /\ UNCHANGED <<teanVars, secret, text, pCodeBuf, n, i, verdict, iBlock, decBuf,
                 plain, csum, ci, found>>

End == pc = "end" /\ UNCHANGED vars

Next ==
  \/ Cipher
  \/ Encrypt \/ Encrypted
  \/ IsPrimeRound \/ IsPrimeReturn
  \/ Malloc \/ Decrypt \/ Decrypted \/ Compare \/ SavePlain
  \/ ChecksumRound \/ SaveHash
  \/ End

Spec     == Init /\ [][Next]_vars
FairSpec == Spec /\ WF_vars(Next)

(***************************************************************************)
(* Properties                                                              *)
(***************************************************************************)
IsText(s) == s \in [1..Size -> Byte]

TypeOK ==
  /\ secret \in Secrets /\ text \in Texts /\ n \in Numbers
  /\ IsText(pCodeBuf)
  /\ {y, z, sum, limit} \subseteq Word /\ w \in Pair
  /\ i \in 0..Modulus /\ verdict \in {-1, 0, n}
  /\ iBlock \in {q \in 0..Size : q % 8 = 0}
  /\ decBuf = <<>> \/ IsText(decBuf)
  /\ plain \in {<<>>, decBuf}
  /\ csum \in 0..ShortSpan /\ ci \in 0..Size+1
  /\ hash \in -1..Modulus-1
  /\ found \in BOOLEAN

\* isPrime passes the primes and, since its loop has nothing to divide by,
\* the number 1; it passes no other (task4_prime.c).
PrimeVerdict ==
  verdict # -1 =>
    (verdict # 0 <=> n = 1 \/ (n > 1 /\ \A d \in 2..n-1 : n % d # 0))

\* The number the text was coded with opens it whenever there is memory: the
\* blocks come back, and only what lies behind the last whole block of eight
\* bytes is lost (task4_threads.c:127).
RightKeyOpens ==
  pc = "end" /\ n = secret /\ decBuf # <<>> =>
    /\ found
    /\ \A j \in 1..Size - (Size % 8) : decBuf[j] = text[j]

\* The Internet checksum of the RFCs: the sixteen-bit words, an odd last byte
\* padded, are added up, the carries added back, the result complemented.
InternetChecksum(s) ==
  LET words == {at \in 1..Len(s) : at % 2 = 1}
      total == MapThenSumSet(LAMBDA at : s[at] * Base + IF at < Len(s) THEN s[at+1] ELSE 0, words)
      fold[q \in Nat] == IF q < ShortSpan THEN q ELSE fold[(q % ShortSpan) + (q \div ShortSpan)]
  IN ShortSpan - 1 - fold[total]

\* For a text of bytes below 128 the low sixteen bits of the saved number are
\* the checksum of the RFCs ipc.c names; the upper ones are all set.
ChecksumOfText ==
  hash # -1 /\ (\A j \in 1..Size : 2 * decBuf[j] < Base) =>
    /\ hash % ShortSpan = InternetChecksum(decBuf)
    /\ hash \div ShortSpan = ShortSpan - 1

\* A trial comes to an end: both loops of tean meet the sum they wait for.
TrialEnds == <>(pc = "end")
=============================================================================

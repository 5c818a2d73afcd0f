------------------------ MODULE PrimeThreadsProofs ------------------------
(***************************************************************************)
(* Proofs about PrimeThreads, for every input, every length of a batch and *)
(* every set of calls that may fail: the invariants of the locks and of the*)
(* list, then that the threads implement PrimeSearch and deliver the key.  *)
(***************************************************************************)
EXTENDS PrimeThreads, SequenceTheorems, TLAPS

(***************************************************************************)
(* PART 1.  The invariants: types, locks, the list, what is done once.     *)
(***************************************************************************)

(***************************************************************************)
(* The inductive invariant, in layers.  Each layer is proved from the ones *)
(* before it.                                                              *)
(***************************************************************************)

\* The labels at which a thread holds each mutex.
FileHeld  == {"checkFound", "scan", "scanned", "unlockFile", "check",
              "unlockCheck", "unlockExit"}
ListHeld  == {"link", "publish", "unlockList"}
FoundHeld == {"setFound", "unlockFound"}

\* The labels after isPrime accepted the number in hand.
PrimeInHand == {"alloc", "lockList", "link", "publish", "unlockList", "decBuf",
                "tryKey", "lockFound", "setFound"}
Saving      == {"unlockFound", "openPlain", "writePlain", "openHash", "writeHash"}
BeforeTest  == {"lockCheck", "check", "unlockCheck", "isPrime"}
HasNumber   == BeforeTest \cup PrimeInHand \cup Saving

\* A mutex is held by exactly the thread that is between its lock and unlock.
LocksHeld ==
  \A t \in Threads :
    /\ mutex["file"] = t <=> pc[t] \in FileHeld
    /\ mutex["list"] = t <=> pc[t] \in ListHeld
    /\ mutex["found"] = t <=> pc[t] \in FoundHeld

\* What a batch is: numbers of the file, all before fpos.
BatchesRead ==
  /\ \A p \in 1..fpos-1 : file[p] \in Numbers
  /\ \A t \in Threads : \A i \in 0..iNumbersRead[t]-1 : auiNumbers[t][i] \in 1..fpos-1

\* What a thread's label says about its locals.
LocalsAgree ==
  \A t \in Threads :
    /\ pc[t] = "scanned" => /\ iNumbersRead[t] < Batch
                            /\ auiNumbers[t][iNumbersRead[t]] = fpos
                            /\ Readable(fpos)
    /\ pc[t] = "checkFound" => iNumbersRead[t] = 0
    /\ pc[t] \in HasNumber => iIndex[t] < iNumbersRead[t]
    /\ pc[t] = "writeHash" => hash \in Seq(Numbers \cup {Empty})

\* No position is in two batches, nor twice in one.
BatchesApart ==
  /\ \A t \in Threads : \A i, j \in 0..iNumbersRead[t]-1 :
       i < j => auiNumbers[t][i] < auiNumbers[t][j]
  /\ \A i \in 0..iNumbersRead[1]-1, j \in 0..iNumbersRead[2]-1 :
       auiNumbers[1][i] # auiNumbers[2][j]

\* The first index of thread t's batch that has not been through isPrime.
Ahead(t) ==
  IF pc[t] \in {"scan", "scanned", "unlockFile"} THEN 0
  ELSE IF pc[t] \in BeforeTest THEN iIndex[t]
  ELSE IF pc[t] \in PrimeInHand THEN iIndex[t] + 1
  ELSE Batch

\* The positions a thread has read and not yet tested.
Pending(t) == {auiNumbers[t][i] : i \in Ahead(t)..iNumbersRead[t]-1}

\* No position is tested twice, and none before it is read.
TestedOnce ==
  /\ \A p \in Pos : tested[p] <= 1 /\ (p >= fpos => tested[p] = 0)
  /\ \A t \in Threads : \A p \in Pending(t) : tested[p] = 0

\* Until the flag is up, what is behind fpos is tested or waits in a batch.
BehindCovered ==
  ~pFound => \A p \in 1..fpos-1 : tested[p] = 1 \/ \E t \in Threads : p \in Pending(t)

\* A thread that stopped without the flag stopped at the end of the input.
StoppedAtEnd ==
  \A t \in Threads :
    /\ pc[t] = "unlockFile" /\ iNumbersRead[t] = 0 => ~Readable(fpos)
    /\ pc[t] \in Saving \cup {"unlockExit"} => pFound
    /\ pc[t] = "done" => pFound \/ ~Readable(fpos)

\* A node belongs to one tested prime; a thread has one on its way only between
\* malloc and the unlock, with the next field the list had when it locked it.
NodesLinked ==
  /\ \A p \in nodes : tested[p] = 1
  /\ \A t \in Threads :
       /\ pc[t] = "alloc" => Cur(t) \notin nodes
       /\ pc[t] \in PrimeInHand => tested[Cur(t)] = 1
       /\ newNode[t] = IF pc[t] \in {"lockList", "link", "publish"} THEN Cur(t) ELSE 0
       /\ pc[t] = "publish" => newNext[t] = pPrimeList

\* What main's place says about the threads.
MainWaits ==
  /\ pcMain \in {"load", "open", "create1"} => pc[1] = "idle"
  /\ pcMain \in {"load", "open", "create1", "create2", "joinOnly1"} => pc[2] = "idle"
  /\ pcMain \in {"join2", "free"} => pc[1] = "done"
  /\ pcMain = "free" => pc[2] = "done"
  /\ pcMain = "exit" => pc[1] \in {"idle", "done"} /\ pc[2] \in {"idle", "done"}
  /\ exitCode = 0 => pcMain = "exit" /\ pc[1] = "done"
  /\ pcMain = "exit" => exitCode # -1

(***************************************************************************)
(* Types, and lemmas about the number in hand.                             *)
(***************************************************************************)
\* The input is a finite sequence.
LEMMA FileType ==
  ASSUME TypeOK
  PROVE  file \in Seq(Numbers \cup {Junk}) /\ Len(file) \in Nat
BY ConstantsAssumption DEF TypeOK

\* A thread with a number in hand has it at a position the file really has.
LEMMA CurFacts ==
  ASSUME TypeOK, BatchesRead, LocalsAgree, NEW t \in Threads, pc[t] \in HasNumber
  PROVE  /\ iIndex[t] < iNumbersRead[t]
         /\ iIndex[t] \in 0..Batch-1
         /\ Cur(t) \in 1..fpos-1
         /\ Cur(t) \in Pos
         /\ Number(t) \in Numbers
<1>1. iIndex[t] < iNumbersRead[t] /\ iIndex[t] \in 0..Batch-1
  BY ConstantsAssumption DEF TypeOK, LocalsAgree
<1>2. iIndex[t] \in 0..iNumbersRead[t]-1
  BY <1>1 DEF TypeOK
<1>2a. Cur(t) \in 1..fpos-1
  BY <1>2 DEF BatchesRead, Cur
<1>3. Cur(t) \in Pos /\ Number(t) \in Numbers
  BY <1>2a, FileType DEF TypeOK, BatchesRead, Number, Pos
<1> QED
  BY <1>1, <1>2a, <1>3

\* The initial states have the types.
LEMMA TypeInit == Init => TypeOK
<1> SUFFICES ASSUME Init PROVE TypeOK
  OBVIOUS
<1>1. file \in Files /\ Len(file) \in Nat
  BY ConstantsAssumption DEF Init
<1>2. auiNumbers \in [Threads -> [0..Batch-1 -> 0..Len(file)]]
  BY <1>1 DEF Init
<1>3. tested \in [Pos -> Nat]
  BY <1>1 DEF Init, Pos
<1>4. pPrimeList \in Seq(Pos) /\ newNext \in [Threads -> Seq(Pos)]
  BY <1>1 DEF Init
<1>5. pc \in [Threads -> Labels] /\ mutex \in [Mutexes -> Threads \cup {NoThread}]
  BY DEF Init, Labels
<1>6. /\ iNumbersRead \in [Threads -> 0..Batch]
      /\ iIndex \in [Threads -> 0..Batch]
      /\ newNode \in [Threads -> 0..Len(file)]
  BY <1>1, ConstantsAssumption DEF Init
<1>7. fpos \in 1..Len(file)+1
  BY <1>1 DEF Init
<1>8. /\ pcMain = "load" /\ exitCode = -1 /\ code = "empty" /\ pFound = FALSE
      /\ nodes = {} /\ plain = Absent /\ hash = Absent
  BY DEF Init
<1> QED
  BY <1>1, <1>2, <1>3, <1>4, <1>5, <1>6, <1>7, <1>8 DEF TypeOK


\* The for loop never moves iIndex past the batch.
LEMMA NextIndexType ==
  ASSUME TypeOK, BatchesRead, LocalsAgree, NEW t \in Threads, NEW l,
         pc[t] \in HasNumber, NextIndex(t, l)
  PROVE  pc' \in [Threads -> Labels] /\ iIndex' \in [Threads -> 0..Batch]
<1>1. iIndex[t] + 1 \in 0..Batch
  BY CurFacts, ConstantsAssumption
<1>2. iIndex' \in [Threads -> 0..Batch]
  BY <1>1 DEF NextIndex, TypeOK
<1>3. pc' \in [Threads -> Labels]
  BY DEF NextIndex, Step, TypeOK, Labels
<1> QED
  BY <1>2, <1>3

\* What WriteHash leaves in the file is a sequence of texts.
LEMMA WriteHashType ==
  ASSUME TypeOK, BatchesRead, LocalsAgree, NEW t \in Threads, WriteHash(t)
  PROVE  hash' \in Seq(Numbers \cup {Empty})
<1>1. pc[t] = "writeHash" /\ pc[t] \in HasNumber
  BY DEF WriteHash, Step, HasNumber, Saving
<1>2. <<Text(t)>> \in Seq(Numbers \cup {Empty})
  BY <1>1, CurFacts DEF Text
<1>3. hash \in Seq(Numbers \cup {Empty})
  BY <1>1 DEF LocalsAgree
<1>4. <<Text(t)>> \o hash \in Seq(Numbers \cup {Empty})
  BY <1>2, <1>3, ConcatProperties
<1> QED
  BY <1>2, <1>4 DEF WriteHash

\* fscanf writes behind the numbers already read, never over them.
LEMMA ScanKeeps ==
  ASSUME TypeOK, NEW t \in Threads, Scan(t)
  PROVE  \A u \in Threads : \A i \in 0..iNumbersRead[u]-1 :
           auiNumbers'[u][i] = auiNumbers[u][i]
<1>1. \/ auiNumbers' = auiNumbers
      \/ auiNumbers' = [auiNumbers EXCEPT ![t][iNumbersRead[t]] = fpos]
  BY DEF Scan
<1> SUFFICES ASSUME NEW u \in Threads, NEW i \in 0..iNumbersRead[u]-1
             PROVE  auiNumbers'[u][i] = auiNumbers[u][i]
  OBVIOUS
<1>2. u = t => i # iNumbersRead[t]
  BY DEF TypeOK
<1>3. auiNumbers \in [Threads -> [0..Batch-1 -> 0..Len(file)]] /\ iNumbersRead \in [Threads -> 0..Batch]
  BY DEF TypeOK
<1>3a. i \in 0..Batch-1
  BY <1>3, ConstantsAssumption
<1>4. CASE auiNumbers' = [auiNumbers EXCEPT ![t][iNumbersRead[t]] = fpos]
  <2>1. auiNumbers'[u] = IF u = t THEN [auiNumbers[t] EXCEPT ![iNumbersRead[t]] = fpos]
                                  ELSE auiNumbers[u]
    BY <1>3, <1>4
  <2> QED
    BY <1>2, <1>3, <1>3a, <2>1
<1> QED
  BY <1>1, <1>4

\* Pending depends on a thread's batch and its place in it only.
LEMMA PendingSame ==
  ASSUME NEW u, UNCHANGED <<auiNumbers, iNumbersRead>>, Ahead(u)' = Ahead(u)
  PROVE  Pending(u)' = Pending(u)
BY DEF Pending

\* A thread's step does not touch what the other thread has yet to test.
LEMMA PendingOthers ==
  ASSUME TypeOK, NEW t \in Threads, threadFunction(t), NEW u \in Threads \ {t}
  PROVE  Pending(u)' = Pending(u)
<1>1. /\ pc'[u] = pc[u] /\ iIndex'[u] = iIndex[u]
      /\ iNumbersRead'[u] = iNumbersRead[u] /\ auiNumbers'[u] = auiNumbers[u]
  BY DEF threadFunction, LockFile, CheckFound, Scan, Scanned, UnlockFile, LockCheck,
         Check, UnlockCheck, UnlockExit, IsPrime, Alloc, LockList, Link, Publish,
         UnlockList, DecBuf, TryKey, LockFound, SetFound, UnlockFound, OpenPlain,
         WritePlain, OpenHash, WriteHash, NextIndex, Step, shared, locals, TypeOK
<1>2. Ahead(u)' = Ahead(u)
  BY <1>1 DEF Ahead
<1> QED
  BY <1>1, <1>2 DEF Pending

\* All main does to a thread is to start it.
LEMMA MainFrame ==
  ASSUME TypeOK, MainWaits, main
  PROVE  /\ UNCHANGED <<file, fpos, mutex, hash, tested, pFound>>
         /\ UNCHANGED <<auiNumbers, iNumbersRead, iIndex, newNode, newNext>>
         /\ pc' \in [Threads -> Labels]
         /\ \A u \in Threads : pc'[u] = pc[u] \/ (pc[u] = "idle" /\ pc'[u] = "lockFile")
<1>1. \/ UNCHANGED pc
      \/ pc[1] = "idle" /\ pc' = [pc EXCEPT ![1] = "lockFile"]
      \/ pc[2] = "idle" /\ pc' = [pc EXCEPT ![2] = "lockFile"]
  BY DEF main, LoadCode, OpenInput, Create1, Create2, JoinOnly1, Join1, Join2,
         FreeNode, ReturnMain, MainStep, MainWaits
<1> QED
  BY <1>1 DEF main, LoadCode, OpenInput, Create1, Create2, JoinOnly1, Join1, Join2,
         FreeNode, ReturnMain, TypeOK, Threads, Labels, shared, locals

\* main does not change what a thread has yet to test.
LEMMA MainPending ==
  ASSUME TypeOK, MainWaits, main, NEW u \in Threads
  PROVE  Pending(u)' = Pending(u)
<1>1. Ahead(u)' = Ahead(u)
  BY MainFrame DEF Ahead, BeforeTest, PrimeInHand
<1> QED
  BY <1>1, MainFrame, PendingSame

\* Every step keeps the types: each index stays inside its array.
LEMMA TypeStep ==
  ASSUME TypeOK, BatchesRead, LocalsAgree, NodesLinked, [Next]_vars
  PROVE  TypeOK'
<1>0. file \in Seq(Numbers \cup {Junk}) /\ Len(file) \in Nat
  BY FileType
<1> USE ConstantsAssumption, <1>0
    DEF Step, MainStep, Return, Lock, Unlock, Alive, vars, shared, locals,
        TypeOK, Threads, Mutexes, Labels, Pos
<1>1. ASSUME NEW t \in Threads, threadFunction(t) PROVE TypeOK'
  <2>1. CASE LockFile(t)
    BY <2>1 DEF LockFile
  <2>2. CASE CheckFound(t)
    BY <2>2 DEF CheckFound
  <2>3. CASE Scan(t)
    <3>1. CASE iNumbersRead[t] < Batch /\ Readable(fpos)
      <4>1. iNumbersRead[t] \in 0..Batch-1 /\ fpos \in 0..Len(file)
        BY <3>1 DEF Readable
      <4>2. pc' \in [Threads -> Labels]
        BY <2>3, <3>1 DEF Scan
      <4>3. auiNumbers' = [auiNumbers EXCEPT ![t][iNumbersRead[t]] = fpos]
        BY <2>3, <3>1 DEF Scan
      <4>4. auiNumbers' \in [Threads -> [0..Batch-1 -> 0..Len(file)]]
        BY <4>1, <4>3
      <4> QED
        BY <2>3, <4>2, <4>4 DEF Scan
    <3>2. CASE ~(iNumbersRead[t] < Batch /\ Readable(fpos))
      BY <2>3, <3>2 DEF Scan
    <3> QED
      BY <3>1, <3>2
  <2>4. CASE Scanned(t)
    <3>0. /\ iNumbersRead[t] < Batch
          /\ auiNumbers[t][iNumbersRead[t]] = fpos
          /\ fpos <= Len(file)
      BY <2>4 DEF Scanned, LocalsAgree, Readable
    <3>1. iNumbersRead[t] \in 0..Batch-1
      BY <3>0
    <3>2. fpos' \in 1..Len(file)+1
      <4>1. fpos' = fpos + 1
        BY <2>4, <3>0 DEF Scanned
      <4> QED
        BY <4>1, <3>0
    <3>3. iNumbersRead[t] + 1 \in 0..Batch
      BY <3>1
    <3>4. iNumbersRead' \in [Threads -> 0..Batch]
      BY <2>4, <3>3 DEF Scanned
    <3>5. pc' \in [Threads -> Labels]
      BY <2>4 DEF Scanned
    <3> QED
      BY <2>4, <3>2, <3>4, <3>5 DEF Scanned
  <2>5. CASE UnlockFile(t)
    BY <2>5 DEF UnlockFile
  <2>6. CASE LockCheck(t)
    BY <2>6 DEF LockCheck
  <2>7. CASE Check(t)
    BY <2>7 DEF Check
  <2>8. CASE UnlockCheck(t)
    BY <2>8 DEF UnlockCheck
  <2>9. CASE UnlockExit(t)
    BY <2>9 DEF UnlockExit
  <2>10. CASE IsPrime(t)
    <3>1. pc[t] = "isPrime" /\ pc[t] \in HasNumber
      BY <2>10 DEF IsPrime, NextIndex, HasNumber, BeforeTest, PrimeInHand, Saving
    <3>2. iIndex[t] < iNumbersRead[t] /\ Cur(t) \in Pos /\ Number(t) \in Numbers
      BY <3>1, CurFacts
    <3>3. pc' \in [Threads -> Labels] /\ iIndex' \in [Threads -> 0..Batch]
      <4>1. CASE NextIndex(t, "isPrime")
        BY <4>1, <3>1, NextIndexType
      <4>2. CASE Step(t, "isPrime", "alloc") /\ UNCHANGED iIndex
        BY <4>2
      <4> QED
        BY <2>10, <4>1, <4>2 DEF IsPrime
    <3>4. tested' \in [Pos -> Nat]
      BY <2>10, <3>2 DEF IsPrime
    <3> QED
      BY <2>10, <3>3, <3>4 DEF IsPrime
  <2>11. CASE Alloc(t)
    <3>1. pc[t] = "alloc" /\ pc[t] \in HasNumber
      BY <2>11 DEF Alloc, HasNumber, BeforeTest, PrimeInHand, Saving
    <3>2. iIndex[t] < iNumbersRead[t] /\ Cur(t) \in Pos /\ Number(t) \in Numbers
      BY <3>1, CurFacts
    <3>3. nodes' \subseteq Pos
      BY <2>11, <3>2 DEF Alloc
    <3>3a. newNode' \in [Threads -> 0..Len(file)]
      <4>1. newNode' = newNode \/ newNode' = [newNode EXCEPT ![t] = Cur(t)]
        BY <2>11 DEF Alloc
      <4> QED
        BY <4>1, <3>2
    <3>4. pc' \in [Threads -> Labels]
      BY <2>11 DEF Alloc
    <3> QED
      BY <2>11, <3>3, <3>3a, <3>4 DEF Alloc
  <2>12. CASE LockList(t)
    BY <2>12 DEF LockList
  <2>13. CASE Link(t)
    BY <2>13 DEF Link
  <2>14. CASE Publish(t)
    <3>1. pc[t] = "publish" /\ pc[t] \in HasNumber
      BY <2>14 DEF Publish, HasNumber, BeforeTest, PrimeInHand, Saving
    <3>2. iIndex[t] < iNumbersRead[t] /\ Cur(t) \in Pos /\ Number(t) \in Numbers
      BY <3>1, CurFacts
    <3>3. newNode[t] \in Pos
      BY <3>1, <3>2 DEF NodesLinked
    <3>4. pPrimeList' \in Seq(Pos)
      BY <2>14, <3>3, ConcatProperties DEF Publish
    <3>5. newNode' \in [Threads -> 0..Len(file)] /\ pc' \in [Threads -> Labels]
      BY <2>14 DEF Publish
    <3> QED
      BY <2>14, <3>4, <3>5 DEF Publish
  <2>15. CASE UnlockList(t)
    BY <2>15 DEF UnlockList
  <2>16. CASE DecBuf(t)
    <3>1. pc[t] = "decBuf" /\ pc[t] \in HasNumber
      BY <2>16 DEF DecBuf, NextIndex, HasNumber, BeforeTest, PrimeInHand, Saving
    <3>2. iIndex[t] < iNumbersRead[t] /\ Cur(t) \in Pos /\ Number(t) \in Numbers
      BY <3>1, CurFacts
    <3>3. pc' \in [Threads -> Labels] /\ iIndex' \in [Threads -> 0..Batch]
      <4>1. CASE NextIndex(t, "decBuf")
        BY <4>1, <3>1, NextIndexType
      <4>2. CASE ~NextIndex(t, "decBuf")
        BY <2>16, <4>2 DEF DecBuf
      <4> QED
        BY <4>1, <4>2
    <3> QED
      BY <2>16, <3>3 DEF DecBuf, NextIndex
  <2>17. CASE TryKey(t)
    <3>1. pc[t] = "tryKey" /\ pc[t] \in HasNumber
      BY <2>17 DEF TryKey, NextIndex, HasNumber, BeforeTest, PrimeInHand, Saving
    <3>2. iIndex[t] < iNumbersRead[t] /\ Cur(t) \in Pos /\ Number(t) \in Numbers
      BY <3>1, CurFacts
    <3>3. pc' \in [Threads -> Labels] /\ iIndex' \in [Threads -> 0..Batch]
      <4>1. CASE NextIndex(t, "tryKey")
        BY <4>1, <3>1, NextIndexType
      <4>2. CASE ~NextIndex(t, "tryKey")
        BY <2>17, <4>2 DEF TryKey
      <4> QED
        BY <4>1, <4>2
    <3> QED
      BY <2>17, <3>3 DEF TryKey, NextIndex
  <2>18. CASE LockFound(t)
    BY <2>18 DEF LockFound
  <2>19. CASE SetFound(t)
    BY <2>19 DEF SetFound
  <2>20. CASE UnlockFound(t)
    BY <2>20 DEF UnlockFound
  <2>21. CASE OpenPlain(t)
    BY <2>21 DEF OpenPlain
  <2>22. CASE WritePlain(t)
    <3>1. pc[t] = "writePlain" /\ pc[t] \in HasNumber
      BY <2>22 DEF WritePlain, HasNumber, BeforeTest, PrimeInHand, Saving
    <3>2. iIndex[t] < iNumbersRead[t] /\ Cur(t) \in Pos /\ Number(t) \in Numbers
      BY <3>1, CurFacts
    <3> QED
      BY <2>22, <3>2 DEF WritePlain, Text
  <2>23. CASE OpenHash(t)
    <3>1. <<>> \in Seq(Numbers \cup {Empty})
      OBVIOUS
    <3>2. hash' = Absent \/ hash' \in Seq(Numbers \cup {Empty})
      BY <2>23, <3>1 DEF OpenHash
    <3>3. pc' \in [Threads -> Labels]
      BY <2>23 DEF OpenHash
    <3> QED
      BY <2>23, <3>2, <3>3 DEF OpenHash
  <2>24. CASE WriteHash(t)
    <3>1. hash' \in Seq(Numbers \cup {Empty})
      BY <2>24, WriteHashType
    <3>2. pc' \in [Threads -> Labels]
      BY <2>24 DEF WriteHash
    <3> QED
      BY <2>24, <3>1, <3>2 DEF WriteHash
  <2> QED
    BY <1>1, <2>1, <2>2, <2>3, <2>4, <2>5, <2>6, <2>7, <2>8, <2>9, <2>10, <2>11,
       <2>12, <2>13, <2>14, <2>15, <2>16, <2>17, <2>18, <2>19, <2>20, <2>21, <2>22,
       <2>23, <2>24 DEF threadFunction
<1>2. CASE main
  <2>1. CASE LoadCode
    BY <2>1 DEF LoadCode
  <2>2. CASE OpenInput
    BY <2>2 DEF OpenInput
  <2>3. CASE Create1
    BY <2>3 DEF Create1
  <2>4. CASE Create2
    BY <2>4 DEF Create2
  <2>5. CASE JoinOnly1
    BY <2>5 DEF JoinOnly1
  <2>6. CASE Join1
    BY <2>6 DEF Join1
  <2>7. CASE Join2
    BY <2>7 DEF Join2
  <2>8. CASE FreeNode
    <3>1. pPrimeList' \in Seq(Pos)
      BY <2>8, HeadTailProperties DEF FreeNode
    <3> QED
      BY <2>8, <3>1 DEF FreeNode
  <2>9. CASE ReturnMain
    BY <2>9 DEF ReturnMain
  <2> QED
    BY <1>2, <2>1, <2>2, <2>3, <2>4, <2>5, <2>6, <2>7, <2>8, <2>9 DEF main
<1>3. CASE UNCHANGED vars
  BY <1>3
<1> QED
  BY <1>1, <1>2, <1>3 DEF Next, Ended

(***************************************************************************)
(* The mutexes, the batches and main.                                      *)
(***************************************************************************)
\* Every step keeps the mutexes in the hands their labels say.
LEMMA LocksStep ==
  ASSUME TypeOK, MainWaits, LocksHeld, [Next]_vars
  PROVE  LocksHeld'
<1> USE ConstantsAssumption
    DEF Step, MainStep, Return, Lock, Unlock, Alive, vars, shared, locals,
        TypeOK, Threads, Mutexes, Labels,
        LocksHeld, FileHeld, ListHeld, FoundHeld
<1>1. ASSUME NEW t \in Threads, threadFunction(t) PROVE LocksHeld'
  <2>1. CASE LockFile(t)
    BY <2>1 DEF LockFile
  <2>2. CASE CheckFound(t)
    BY <2>2 DEF CheckFound
  <2>3. CASE Scan(t)
    BY <2>3 DEF Scan
  <2>4. CASE Scanned(t)
    BY <2>4 DEF Scanned
  <2>5. CASE UnlockFile(t)
    BY <2>5 DEF UnlockFile
  <2>6. CASE LockCheck(t)
    BY <2>6 DEF LockCheck
  <2>7. CASE Check(t)
    BY <2>7 DEF Check
  <2>8. CASE UnlockCheck(t)
    BY <2>8 DEF UnlockCheck
  <2>9. CASE UnlockExit(t)
    BY <2>9 DEF UnlockExit
  <2>10. CASE IsPrime(t)
    BY <2>10 DEF IsPrime, NextIndex
  <2>11. CASE Alloc(t)
    BY <2>11 DEF Alloc
  <2>12. CASE LockList(t)
    BY <2>12 DEF LockList
  <2>13. CASE Link(t)
    BY <2>13 DEF Link
  <2>14. CASE Publish(t)
    BY <2>14 DEF Publish
  <2>15. CASE UnlockList(t)
    BY <2>15 DEF UnlockList
  <2>16. CASE DecBuf(t)
    BY <2>16 DEF DecBuf, NextIndex
  <2>17. CASE TryKey(t)
    BY <2>17 DEF TryKey, NextIndex
  <2>18. CASE LockFound(t)
    BY <2>18 DEF LockFound
  <2>19. CASE SetFound(t)
    BY <2>19 DEF SetFound
  <2>20. CASE UnlockFound(t)
    BY <2>20 DEF UnlockFound
  <2>21. CASE OpenPlain(t)
    BY <2>21 DEF OpenPlain
  <2>22. CASE WritePlain(t)
    BY <2>22 DEF WritePlain
  <2>23. CASE OpenHash(t)
    BY <2>23 DEF OpenHash
  <2>24. CASE WriteHash(t)
    BY <2>24 DEF WriteHash
  <2> QED
    BY <1>1, <2>1, <2>2, <2>3, <2>4, <2>5, <2>6, <2>7, <2>8, <2>9, <2>10, <2>11,
       <2>12, <2>13, <2>14, <2>15, <2>16, <2>17, <2>18, <2>19, <2>20, <2>21, <2>22,
       <2>23, <2>24 DEF threadFunction
<1>2. CASE main
  BY <1>2, MainFrame
<1>3. CASE UNCHANGED vars
  BY <1>3
<1> QED
  BY <1>1, <1>2, <1>3 DEF Next, Ended

\* Every step leaves in the batches only numbers from before fpos.
LEMMA ReadStep ==
  ASSUME TypeOK, MainWaits, BatchesRead, LocalsAgree, [Next]_vars
  PROVE  BatchesRead'
<1> USE ConstantsAssumption
    DEF Step, MainStep, Return, Lock, Unlock, Alive, vars, shared, locals,
        TypeOK, Threads, Mutexes,
        BatchesRead
<1>1. ASSUME NEW t \in Threads, threadFunction(t) PROVE BatchesRead'
  <2>1. CASE LockFile(t)
    <3>1. iNumbersRead' = [iNumbersRead EXCEPT ![t] = 0] /\ UNCHANGED <<file, fpos, auiNumbers>>
      BY <2>1 DEF LockFile
    <3>2. \A u \in Threads : 0..iNumbersRead'[u]-1 \subseteq 0..iNumbersRead[u]-1
      BY <3>1
    <3> QED
      BY <3>1, <3>2
  <2>2. CASE Scan(t)
    <3>1. \A u \in Threads : \A i \in 0..iNumbersRead[u]-1 :
            auiNumbers'[u][i] = auiNumbers[u][i]
      BY <2>2, ScanKeeps
    <3> QED
      BY <2>2, <3>1 DEF Scan
  <2>3. CASE Scanned(t)
    <3>1. /\ fpos' = fpos + 1 /\ file[fpos] \in Numbers
          /\ auiNumbers[t][iNumbersRead[t]] = fpos
      BY <2>3 DEF Scanned, LocalsAgree, Readable
    <3>2. \A p \in 1..fpos'-1 : file'[p] \in Numbers
      BY <2>3, <3>1 DEF Scanned
    <3>3. \A u \in Threads : \A i \in 0..iNumbersRead'[u]-1 :
            auiNumbers'[u][i] \in 1..fpos'-1
      <4>1. UNCHANGED auiNumbers /\ iNumbersRead' = [iNumbersRead EXCEPT ![t] = @ + 1]
        BY <2>3 DEF Scanned
      <4> SUFFICES ASSUME NEW u \in Threads, NEW i \in 0..iNumbersRead'[u]-1
                   PROVE  auiNumbers'[u][i] \in 1..fpos'-1
        OBVIOUS
      <4>2. CASE i \in 0..iNumbersRead[u]-1
        <5>1. auiNumbers[u][i] \in 1..fpos-1
          BY <4>2
        <5> QED
          BY <5>1, <4>1, <3>1
      <4>3. CASE ~(i \in 0..iNumbersRead[u]-1)
        <5>1. u = t /\ i = iNumbersRead[t]
          BY <4>1, <4>3
        <5> QED
          BY <5>1, <4>1, <3>1
      <4> QED
        BY <4>2, <4>3
    <3> QED
      BY <3>2, <3>3
  <2>4. CASE UNCHANGED <<file, fpos, auiNumbers, iNumbersRead>>
    BY <2>4
  <2> QED
    BY <1>1, <2>1, <2>2, <2>3, <2>4 DEF threadFunction, LockFile, CheckFound, Scan,
           Scanned, UnlockFile, LockCheck, Check, UnlockCheck, UnlockExit, IsPrime,
           Alloc, LockList, Link, Publish, UnlockList, DecBuf, TryKey, LockFound,
           SetFound, UnlockFound, OpenPlain, WritePlain, OpenHash, WriteHash,
           NextIndex
<1>2. CASE main
  BY <1>2, MainFrame
<1>3. CASE UNCHANGED vars
  BY <1>3
<1> QED
  BY <1>1, <1>2, <1>3 DEF Next, Ended

\* Every step keeps a thread's locals in agreement with its label.
LEMMA LocalsStep ==
  ASSUME TypeOK, MainWaits, LocksHeld, BatchesRead, LocalsAgree, [Next]_vars
  PROVE  LocalsAgree'
<1> USE ConstantsAssumption
    DEF Step, MainStep, Return, Lock, Unlock, Alive, vars, shared, locals,
        TypeOK, Threads, Mutexes, LocalsAgree, Readable,
        HasNumber, BeforeTest, PrimeInHand, Saving
<1>1. ASSUME NEW t \in Threads, threadFunction(t) PROVE LocalsAgree'
  <2>1. CASE LockFile(t)
    BY <2>1 DEF LockFile
  <2>2. CASE CheckFound(t)
    BY <2>2 DEF CheckFound
  <2>3. CASE Scan(t)
    <3>1. CASE iNumbersRead[t] < Batch /\ Readable(fpos)
      <4>1. iNumbersRead[t] \in 0..Batch-1
        BY <3>1
      <4>2. auiNumbers'[t][iNumbersRead[t]] = fpos
        BY <2>3, <3>1, <4>1 DEF Scan
      <4>3. \A u \in Threads : u # t => auiNumbers'[u] = auiNumbers[u]
        BY <2>3 DEF Scan
      <4> QED
        BY <2>3, <3>1, <4>2, <4>3 DEF Scan
    <3>2. CASE ~(iNumbersRead[t] < Batch /\ Readable(fpos))
      BY <2>3, <3>2 DEF Scan
    <3> QED
      BY <3>1, <3>2
  <2>4. CASE Scanned(t)
    <3>1. pc[t] = "scanned" /\ pc' = [pc EXCEPT ![t] = "scan"]
      BY <2>4 DEF Scanned
    <3>2. \A u \in Threads : u # t => ~(pc[u] \in {"scanned", "checkFound"})
      BY <3>1 DEF LocksHeld, FileHeld
    <3>3. \A u \in Threads : u # t => iNumbersRead'[u] = iNumbersRead[u]
      BY <2>4 DEF Scanned
    <3> QED
      BY <2>4, <3>1, <3>2, <3>3 DEF Scanned
  <2>5. CASE UnlockFile(t)
    BY <2>5 DEF UnlockFile
  <2>6. CASE LockCheck(t)
    BY <2>6 DEF LockCheck
  <2>7. CASE Check(t)
    BY <2>7 DEF Check
  <2>8. CASE UnlockCheck(t)
    BY <2>8 DEF UnlockCheck
  <2>9. CASE UnlockExit(t)
    BY <2>9 DEF UnlockExit
  <2>10. CASE IsPrime(t)
    <3>1. \/ pc' = [pc EXCEPT ![t] = "alloc"] /\ UNCHANGED iIndex
          \/ /\ pc' = [pc EXCEPT ![t] = IF iIndex[t] + 1 < iNumbersRead[t]
                                          THEN "lockCheck" ELSE "lockFile"]
             /\ iIndex' = [iIndex EXCEPT ![t] = @ + 1]
      BY <2>10 DEF IsPrime, NextIndex
    <3>2. pc[t] = "isPrime" /\ iIndex[t] < iNumbersRead[t]
      BY <2>10 DEF IsPrime, NextIndex
    <3>3. /\ pc' = [pc EXCEPT ![t] = pc'[t]]
          /\ pc'[t] \in {"alloc", "lockCheck", "lockFile", "isPrime"}
      BY <3>1, <3>2
    <3>4. \A u \in Threads : pc'[u] \in HasNumber => iIndex'[u] < iNumbersRead[u]
      BY <3>1, <3>2
    <3> QED
      BY <2>10, <3>3, <3>4 DEF IsPrime
  <2>11. CASE Alloc(t)
    BY <2>11 DEF Alloc
  <2>12. CASE LockList(t)
    BY <2>12 DEF LockList
  <2>13. CASE Link(t)
    BY <2>13 DEF Link
  <2>14. CASE Publish(t)
    BY <2>14 DEF Publish
  <2>15. CASE UnlockList(t)
    BY <2>15 DEF UnlockList
  <2>16. CASE DecBuf(t)
    <3>1. \/ pc' = [pc EXCEPT ![t] = "tryKey"] /\ UNCHANGED iIndex
          \/ /\ pc' = [pc EXCEPT ![t] = IF iIndex[t] + 1 < iNumbersRead[t]
                                          THEN "lockCheck" ELSE "lockFile"]
             /\ iIndex' = [iIndex EXCEPT ![t] = @ + 1]
      BY <2>16 DEF DecBuf, NextIndex
    <3>2. pc[t] = "decBuf" /\ iIndex[t] < iNumbersRead[t]
      BY <2>16 DEF DecBuf, NextIndex
    <3>3. /\ pc' = [pc EXCEPT ![t] = pc'[t]]
          /\ pc'[t] \in {"tryKey", "lockCheck", "lockFile", "decBuf"}
      BY <3>1, <3>2
    <3>4. \A u \in Threads : pc'[u] \in HasNumber => iIndex'[u] < iNumbersRead[u]
      BY <3>1, <3>2
    <3> QED
      BY <2>16, <3>3, <3>4 DEF DecBuf
  <2>17. CASE TryKey(t)
    <3>1. CASE Step(t, "tryKey", "lockFound") /\ UNCHANGED iIndex
      BY <2>17, <3>1 DEF TryKey
    <3>2. CASE NextIndex(t, "tryKey")
      <4>1. iIndex'[t] = iIndex[t] + 1
        BY <3>2 DEF NextIndex
      <4> QED
        BY <2>17, <3>2, <4>1 DEF TryKey, NextIndex
    <3>3. CASE Step(t, "tryKey", "tryKey") /\ UNCHANGED iIndex
      BY <2>17, <3>3 DEF TryKey
    <3> QED
      BY <2>17, <3>1, <3>2, <3>3 DEF TryKey
  <2>18. CASE LockFound(t)
    BY <2>18 DEF LockFound
  <2>19. CASE SetFound(t)
    BY <2>19 DEF SetFound
  <2>20. CASE UnlockFound(t)
    BY <2>20 DEF UnlockFound
  <2>21. CASE OpenPlain(t)
    BY <2>21 DEF OpenPlain
  <2>22. CASE WritePlain(t)
    BY <2>22 DEF WritePlain
  <2>23. CASE OpenHash(t)
    <3>0. <<>> \in Seq(Numbers \cup {Empty})
      OBVIOUS
    <3>1. hash' = hash \/ hash' \in Seq(Numbers \cup {Empty})
      BY ONLY OpenHash(t), <2>23, <3>0 DEF OpenHash
    <3>2. pc'[t] = "writeHash" => hash' \in Seq(Numbers \cup {Empty})
      BY <2>23, <3>0 DEF OpenHash
    <3> QED
      BY <2>23, <3>1, <3>2 DEF OpenHash
  <2>24. CASE WriteHash(t)
    <3>1. hash' \in Seq(Numbers \cup {Empty})
      BY <2>24, WriteHashType
    <3> QED
      BY <2>24, <3>1 DEF WriteHash
  <2> QED
    BY <1>1, <2>1, <2>2, <2>3, <2>4, <2>5, <2>6, <2>7, <2>8, <2>9, <2>10, <2>11,
       <2>12, <2>13, <2>14, <2>15, <2>16, <2>17, <2>18, <2>19, <2>20, <2>21, <2>22,
       <2>23, <2>24 DEF threadFunction
<1>2. CASE main
  BY <1>2, MainFrame
<1>3. CASE UNCHANGED vars
  BY <1>3
<1> QED
  BY <1>1, <1>2, <1>3 DEF Next, Ended

\* Every step keeps the two batches apart: only the holder of the file mutex
\* reads, and it reads at fpos, which is past both batches.
LEMMA ApartStep ==
  ASSUME TypeOK, MainWaits, BatchesRead, LocalsAgree, BatchesApart, [Next]_vars
  PROVE  BatchesApart'
<1> USE ConstantsAssumption
    DEF Step, MainStep, Return, Lock, Unlock, Alive, vars, shared, locals,
        TypeOK, Threads, Mutexes,
        BatchesApart
<1>1. ASSUME NEW t \in Threads, threadFunction(t) PROVE BatchesApart'
  <2>1. CASE LockFile(t)
    <3>1. iNumbersRead' = [iNumbersRead EXCEPT ![t] = 0] /\ UNCHANGED <<file, fpos, auiNumbers>>
      BY <2>1 DEF LockFile
    <3>2. \A u \in Threads : 0..iNumbersRead'[u]-1 \subseteq 0..iNumbersRead[u]-1
      BY <3>1
    <3> QED
      BY ONLY BatchesApart, <3>1, <3>2 DEF BatchesApart, Threads
  <2>2. CASE Scan(t)
    <3>1. \A u \in Threads : \A i \in 0..iNumbersRead[u]-1 :
            auiNumbers'[u][i] = auiNumbers[u][i]
      BY <2>2, ScanKeeps
    <3> QED
      BY <2>2, <3>1 DEF Scan
  <2>3. CASE Scanned(t)
    <3>1. /\ auiNumbers[t][iNumbersRead[t]] = fpos
          /\ iNumbersRead[t] \in 0..Batch /\ fpos \in Nat
      BY <2>3 DEF Scanned, LocalsAgree
    <3>2. \A u \in Threads : iNumbersRead'[u] = IF u = t THEN iNumbersRead[u] + 1
                                                        ELSE iNumbersRead[u]
      BY <2>3 DEF Scanned
    <3>3. UNCHANGED auiNumbers /\ \A u \in Threads : iNumbersRead[u] \in 0..Batch
      BY <2>3 DEF Scanned
    <3>4. \A u \in Threads : \A i \in 0..iNumbersRead[u]-1 :
            auiNumbers[u][i] \in Int /\ auiNumbers[u][i] < fpos
      BY ONLY BatchesRead, fpos \in Nat, <3>1 DEF BatchesRead
    <3>5. \A u \in Threads : \A i, j \in 0..iNumbersRead'[u]-1 :
            i < j => auiNumbers'[u][i] < auiNumbers'[u][j]
      BY ONLY BatchesApart, <3>1, <3>2, <3>3, <3>4, t \in Threads DEF BatchesApart
    <3>6. \A i \in 0..iNumbersRead'[1]-1, j \in 0..iNumbersRead'[2]-1 :
            auiNumbers'[1][i] # auiNumbers'[2][j]
      BY ONLY BatchesApart, <3>1, <3>2, <3>3, <3>4, t \in Threads DEF BatchesApart, Threads
    <3> QED
      BY <3>5, <3>6
  <2>4. CASE UNCHANGED <<auiNumbers, iNumbersRead>>
    BY <2>4
  <2> QED
    BY <1>1, <2>1, <2>2, <2>3, <2>4 DEF threadFunction, LockFile, CheckFound, Scan,
           Scanned, UnlockFile, LockCheck, Check, UnlockCheck, UnlockExit, IsPrime,
           Alloc, LockList, Link, Publish, UnlockList, DecBuf, TryKey, LockFound,
           SetFound, UnlockFound, OpenPlain, WritePlain, OpenHash, WriteHash,
           NextIndex
<1>2. CASE main
  BY <1>2, MainFrame
<1>3. CASE UNCHANGED vars
  BY <1>3
<1> QED
  BY <1>1, <1>2, <1>3 DEF Next, Ended

\* Every step keeps what main's place says about the threads.
LEMMA MainWaitsStep ==
  ASSUME TypeOK, MainWaits, [Next]_vars
  PROVE  MainWaits'
<1>1. ASSUME NEW t \in Threads, threadFunction(t) PROVE MainWaits'
  <2>1. /\ pc[t] \notin {"idle", "done"} /\ \A u \in Threads \ {t} : pc'[u] = pc[u]
        /\ pcMain' \in {pcMain, "crashed"} /\ UNCHANGED exitCode /\ pcMain # "crashed"
    BY <1>1 DEF threadFunction, LockFile, CheckFound, Scan, Scanned, UnlockFile,
           LockCheck, Check, UnlockCheck, UnlockExit, IsPrime, Alloc, LockList, Link,
           Publish, UnlockList, DecBuf, TryKey, LockFound, SetFound, UnlockFound,
           OpenPlain, WritePlain, OpenHash, WriteHash, NextIndex, Step, Alive, TypeOK
  <2>2. pcMain = "exit" => \A u \in Threads : pc[u] \in {"idle", "done"}
    BY DEF MainWaits, Threads
  <2> QED
    BY <2>1, <2>2 DEF MainWaits, Threads
<1>2. CASE main
  <2>1. CASE LoadCode
    BY <2>1 DEF LoadCode, Step, MainStep, Return, TypeOK, Threads, MainWaits
  <2>2. CASE OpenInput
    BY <2>2 DEF OpenInput, Step, MainStep, Return, TypeOK, Threads, MainWaits
  <2>3. CASE Create1
    BY <2>3 DEF Create1, Step, MainStep, Return, TypeOK, Threads, MainWaits
  <2>4. CASE Create2
    BY <2>4 DEF Create2, Step, MainStep, Return, TypeOK, Threads, MainWaits
  <2>5. CASE JoinOnly1
    BY <2>5 DEF JoinOnly1, Step, MainStep, Return, TypeOK, Threads, MainWaits
  <2>6. CASE Join1
    BY <2>6 DEF Join1, Step, MainStep, Return, TypeOK, Threads, MainWaits
  <2>7. CASE Join2
    BY <2>7 DEF Join2, Step, MainStep, Return, TypeOK, Threads, MainWaits
  <2>8. CASE FreeNode
    BY <2>8 DEF FreeNode, Step, MainStep, Return, TypeOK, Threads, MainWaits
  <2>9. CASE ReturnMain
    BY <2>9 DEF ReturnMain, Step, MainStep, Return, TypeOK, Threads, MainWaits
  <2> QED
    BY <1>2, <2>1, <2>2, <2>3, <2>4, <2>5, <2>6, <2>7, <2>8, <2>9 DEF main
<1>3. CASE UNCHANGED vars
  BY <1>3 DEF vars, MainWaits
<1> QED
  BY <1>1, <1>2, <1>3 DEF Next, Ended

\* Every step keeps the reason why a thread stopped true.
LEMMA StoppedStep ==
  ASSUME TypeOK, MainWaits, LocksHeld, LocalsAgree, StoppedAtEnd, [Next]_vars
  PROVE  StoppedAtEnd'
<1> USE ConstantsAssumption
    DEF Step, MainStep, Return, Lock, Unlock, Alive, vars, shared, locals,
        TypeOK, Threads, Mutexes, Readable,
        LocksHeld, FileHeld, LocalsAgree, StoppedAtEnd, Saving
<1>1. ASSUME NEW t \in Threads, threadFunction(t) PROVE StoppedAtEnd'
  <2>1. CASE LockFile(t)
    BY <2>1 DEF LockFile
  <2>2. CASE CheckFound(t)
    BY <2>2 DEF CheckFound
  <2>3. CASE Scan(t)
    <3>1. CASE iNumbersRead[t] < Batch /\ Readable(fpos)
      BY <2>3, <3>1 DEF Scan
    <3>2. CASE ~(iNumbersRead[t] < Batch /\ Readable(fpos))
      <4>1. iNumbersRead[t] = 0 => ~Readable(fpos)
        BY <3>2
      <4> QED
        BY <2>3, <3>2, <4>1 DEF Scan
    <3> QED
      BY <3>1, <3>2
  <2>4. CASE Scanned(t)
    BY <2>4 DEF Scanned
  <2>5. CASE UnlockFile(t)
    BY <2>5 DEF UnlockFile
  <2>6. CASE LockCheck(t)
    BY <2>6 DEF LockCheck
  <2>7. CASE Check(t)
    BY <2>7 DEF Check
  <2>8. CASE UnlockCheck(t)
    BY <2>8 DEF UnlockCheck
  <2>9. CASE UnlockExit(t)
    BY <2>9 DEF UnlockExit
  <2>10. CASE IsPrime(t)
    BY <2>10 DEF IsPrime, NextIndex
  <2>11. CASE Alloc(t)
    BY <2>11 DEF Alloc
  <2>12. CASE LockList(t)
    BY <2>12 DEF LockList
  <2>13. CASE Link(t)
    BY <2>13 DEF Link
  <2>14. CASE Publish(t)
    BY <2>14 DEF Publish
  <2>15. CASE UnlockList(t)
    BY <2>15 DEF UnlockList
  <2>16. CASE DecBuf(t)
    BY <2>16 DEF DecBuf, NextIndex
  <2>17. CASE TryKey(t)
    BY <2>17 DEF TryKey, NextIndex
  <2>18. CASE LockFound(t)
    BY <2>18 DEF LockFound
  <2>19. CASE SetFound(t)
    BY <2>19 DEF SetFound
  <2>20. CASE UnlockFound(t)
    BY <2>20 DEF UnlockFound
  <2>21. CASE OpenPlain(t)
    BY <2>21 DEF OpenPlain
  <2>22. CASE WritePlain(t)
    BY <2>22 DEF WritePlain
  <2>23. CASE OpenHash(t)
    BY <2>23 DEF OpenHash
  <2>24. CASE WriteHash(t)
    BY <2>24 DEF WriteHash
  <2> QED
    BY <1>1, <2>1, <2>2, <2>3, <2>4, <2>5, <2>6, <2>7, <2>8, <2>9, <2>10, <2>11,
       <2>12, <2>13, <2>14, <2>15, <2>16, <2>17, <2>18, <2>19, <2>20, <2>21, <2>22,
       <2>23, <2>24 DEF threadFunction
<1>2. CASE main
  BY <1>2, MainFrame
<1>3. CASE UNCHANGED vars
  BY <1>3
<1> QED
  BY <1>1, <1>2, <1>3 DEF Next, Ended

(***************************************************************************)
(* What a thread has yet to test.                                          *)
(***************************************************************************)
\* How a thread's step changes what it has yet to test: fscanf adds the number
\* at fpos, isPrime takes away the number in hand, and nothing else is dropped
\* unless the flag is up.
LEMMA PendingActor ==
  ASSUME TypeOK, LocksHeld, BatchesRead, LocalsAgree, BatchesApart, StoppedAtEnd,
         NEW t \in Threads, threadFunction(t)
  PROVE  \/ Pending(t)' = Pending(t) /\ ~IsPrime(t) /\ ~Scanned(t)
         \/ pFound' /\ Pending(t)' = {} /\ ~IsPrime(t) /\ ~Scanned(t)
         \/ IsPrime(t) /\ Pending(t)' = Pending(t) \ {Cur(t)} /\ Cur(t) \in Pending(t)
         \/ Scanned(t) /\ Pending(t)' = Pending(t) \cup {fpos}
<1>0. pc[t] \notin {"isPrime", "scanned"} => ~IsPrime(t) /\ ~Scanned(t)
  BY DEF IsPrime, Scanned, NextIndex, Step
<1> USE DEF BeforeTest, PrimeInHand
<1>1. CASE LockFile(t)
  <2>1. Pending(t) = {} /\ Pending(t)' = {}
    BY <1>1, ConstantsAssumption DEF LockFile, Step, TypeOK, Ahead, Pending
  <2> QED
    BY <1>1, <1>0, <2>1 DEF LockFile, Step
<1>2. CASE CheckFound(t)
  <2>1. Pending(t) = {} /\ Pending(t)' = {}
    BY <1>2, ConstantsAssumption DEF CheckFound, Step, TypeOK, Ahead, Pending, locals, LocalsAgree
  <2> QED
    BY <1>2, <1>0, <2>1 DEF CheckFound, Step
<1>3. CASE Scan(t)
  <2>1. /\ pc[t] = "scan" /\ pc'[t] \in {"scanned", "unlockFile"}
        /\ UNCHANGED iNumbersRead
    BY <1>3 DEF Scan, Step, TypeOK
  <2>2. Ahead(t) = 0 /\ Ahead(t)' = 0
    BY <2>1 DEF Ahead
  <2> QED
    BY <1>3, <1>0, <2>1, <2>2, ScanKeeps DEF Pending
<1>4. CASE Scanned(t)
  <2>1. /\ Ahead(t) = 0 /\ Ahead(t)' = 0
        /\ UNCHANGED auiNumbers /\ iNumbersRead'[t] = iNumbersRead[t] + 1
        /\ iNumbersRead[t] \in 0..Batch /\ auiNumbers[t][iNumbersRead[t]] = fpos
    BY <1>4 DEF Scanned, Step, TypeOK, LocalsAgree, Ahead
  <2>2. 0..iNumbersRead[t] + 1 - 1 = (0..iNumbersRead[t]-1) \cup {iNumbersRead[t]}
    BY <2>1, ConstantsAssumption
  <2>3. Pending(t)' = Pending(t) \cup {fpos}
    BY <2>1, <2>2 DEF Pending
  <2> QED
    BY <1>4, <2>3
<1>5. CASE UnlockFile(t)
  <2>1. UNCHANGED <<auiNumbers, iNumbersRead>> /\ pc[t] = "unlockFile" /\ iIndex'[t] = 0
    BY <1>5 DEF UnlockFile, Step, TypeOK
  <2>2. CASE iNumbersRead[t] = 0
    BY <1>5, <1>0, <2>1, <2>2, ConstantsAssumption DEF UnlockFile, Step, TypeOK, Ahead, Pending
  <2>3. CASE iNumbersRead[t] # 0
    <3>1. Ahead(t) = 0 /\ Ahead(t)' = 0
      BY <1>5, <2>1, <2>3 DEF UnlockFile, Step, TypeOK, Ahead
    <3> QED
      BY <1>0, <2>1, <3>1, PendingSame
  <2> QED
    BY <2>2, <2>3
<1>6. CASE LockCheck(t)
  <2>1. Ahead(t)' = Ahead(t) /\ UNCHANGED <<auiNumbers, iNumbersRead>>
    BY <1>6 DEF LockCheck, Step, TypeOK, Ahead, locals
  <2> QED
    BY <1>0, <1>6, <2>1, PendingSame DEF LockCheck, Step
<1>7. CASE Check(t)
  <2>1. /\ pc[t] = "check" /\ pc'[t] = (IF pFound THEN "unlockExit" ELSE "unlockCheck")
        /\ UNCHANGED <<auiNumbers, iNumbersRead, iIndex, pFound>>
    BY <1>7 DEF Check, Step, TypeOK, locals, shared
  <2>2. CASE pFound
    <3>1. Pending(t)' = {}
      BY <2>1, <2>2, ConstantsAssumption DEF Pending, Ahead, TypeOK
    <3> QED
      BY <1>0, <2>1, <2>2, <3>1
  <2>3. CASE ~pFound
    BY <1>0, <2>1, <2>3, PendingSame DEF Ahead
  <2> QED
    BY <2>2, <2>3
<1>8. CASE UnlockCheck(t)
  <2>1. Ahead(t)' = Ahead(t) /\ UNCHANGED <<auiNumbers, iNumbersRead>>
    BY <1>8 DEF UnlockCheck, Step, TypeOK, Ahead, locals
  <2> QED
    BY <1>0, <1>8, <2>1, PendingSame DEF UnlockCheck, Step
<1>9. CASE UnlockExit(t)
  <2>1. /\ pc[t] = "unlockExit" /\ pc'[t] = "done"
        /\ UNCHANGED <<auiNumbers, iNumbersRead>>
    BY <1>9 DEF UnlockExit, Step, TypeOK, locals
  <2> QED
    BY <1>0, <2>1, PendingSame DEF Ahead
<1>10. CASE IsPrime(t)
  <2>1. /\ UNCHANGED <<auiNumbers, iNumbersRead>> /\ pc[t] = "isPrime"
        /\ iIndex[t] \in 0..iNumbersRead[t]-1 /\ iNumbersRead[t] \in 0..Batch
    BY <1>10 DEF IsPrime, NextIndex, Step, TypeOK, LocalsAgree, HasNumber
  <2>2. Ahead(t) = iIndex[t]
    BY <2>1 DEF Ahead
  <2>3. \/ Ahead(t)' = iIndex[t] + 1
        \/ Ahead(t)' = Batch /\ iIndex[t] + 1 >= iNumbersRead[t]
    BY <1>10, <2>1 DEF IsPrime, NextIndex, Step, TypeOK, Ahead
  <2>4. Ahead(t)'..iNumbersRead[t]-1 = (iIndex[t]..iNumbersRead[t]-1) \ {iIndex[t]}
    BY <2>1, <2>3, ConstantsAssumption DEF TypeOK
  <2>5. \A i \in iIndex[t]..iNumbersRead[t]-1 : i # iIndex[t] => auiNumbers[t][i] # Cur(t)
    <3> SUFFICES ASSUME NEW i \in iIndex[t]..iNumbersRead[t]-1, i # iIndex[t]
                 PROVE  auiNumbers[t][i] # Cur(t)
      OBVIOUS
    <3>1. i \in 0..iNumbersRead[t]-1 /\ iIndex[t] < i
      BY <2>1
    <3>2. auiNumbers[t][iIndex[t]] < auiNumbers[t][i]
      BY <2>1, <3>1 DEF BatchesApart
    <3>3. auiNumbers[t][i] \in Int /\ Cur(t) \in Int
      BY <2>1, <3>1 DEF BatchesRead, Cur
    <3> QED
      BY <3>2, <3>3 DEF Cur
  <2>6. Pending(t)' = Pending(t) \ {Cur(t)} /\ Cur(t) \in Pending(t)
    BY <2>1, <2>2, <2>4, <2>5 DEF Pending, Cur
  <2> QED
    BY <1>10, <2>6
<1>11. CASE Alloc(t)
  <2>1. Ahead(t)' = Ahead(t) /\ UNCHANGED <<auiNumbers, iNumbersRead>>
    BY <1>11 DEF Alloc, Step, TypeOK, Ahead, locals
  <2> QED
    BY <1>0, <1>11, <2>1, PendingSame DEF Alloc, Step
<1>12. CASE LockList(t)
  <2>1. Ahead(t)' = Ahead(t) /\ UNCHANGED <<auiNumbers, iNumbersRead>>
    BY <1>12 DEF LockList, Step, TypeOK, Ahead, locals
  <2> QED
    BY <1>0, <1>12, <2>1, PendingSame DEF LockList, Step
<1>13. CASE Link(t)
  <2>1. Ahead(t)' = Ahead(t) /\ UNCHANGED <<auiNumbers, iNumbersRead>>
    BY <1>13 DEF Link, Step, TypeOK, Ahead, locals
  <2> QED
    BY <1>0, <1>13, <2>1, PendingSame DEF Link, Step
<1>14. CASE Publish(t)
  <2>1. Ahead(t)' = Ahead(t) /\ UNCHANGED <<auiNumbers, iNumbersRead>>
    BY <1>14 DEF Publish, Step, TypeOK, Ahead, locals
  <2> QED
    BY <1>0, <1>14, <2>1, PendingSame DEF Publish, Step
<1>15. CASE UnlockList(t)
  <2>1. Ahead(t)' = Ahead(t) /\ UNCHANGED <<auiNumbers, iNumbersRead>>
    BY <1>15 DEF UnlockList, Step, TypeOK, Ahead, locals
  <2> QED
    BY <1>0, <1>15, <2>1, PendingSame DEF UnlockList, Step
<1>16. CASE DecBuf(t)
  <2>1. UNCHANGED <<auiNumbers, iNumbersRead>> /\ pc[t] = "decBuf" /\ Ahead(t) = iIndex[t] + 1
    BY <1>16 DEF DecBuf, NextIndex, Step, Ahead
  <2>2. \/ Ahead(t)' = iIndex[t] + 1
        \/ Ahead(t)' = Batch /\ iIndex[t] + 1 >= iNumbersRead[t]
    BY <1>16 DEF DecBuf, NextIndex, Step, TypeOK, Ahead
  <2>3. Ahead(t)'..iNumbersRead[t]-1 = Ahead(t)..iNumbersRead[t]-1
    BY <2>1, <2>2, ConstantsAssumption DEF TypeOK
  <2> QED
    BY <1>0, <2>1, <2>3 DEF Pending
<1>17. CASE TryKey(t)
  <2>1. UNCHANGED <<auiNumbers, iNumbersRead>> /\ pc[t] = "tryKey" /\ Ahead(t) = iIndex[t] + 1
    BY <1>17 DEF TryKey, NextIndex, Step, Ahead
  <2>2. \/ Ahead(t)' = iIndex[t] + 1
        \/ Ahead(t)' = Batch /\ iIndex[t] + 1 >= iNumbersRead[t]
    BY <1>17 DEF TryKey, NextIndex, Step, TypeOK, Ahead
  <2>3. Ahead(t)'..iNumbersRead[t]-1 = Ahead(t)..iNumbersRead[t]-1
    BY <2>1, <2>2, ConstantsAssumption DEF TypeOK
  <2> QED
    BY <1>0, <2>1, <2>3 DEF Pending
<1>18. CASE LockFound(t)
  <2>1. Ahead(t)' = Ahead(t) /\ UNCHANGED <<auiNumbers, iNumbersRead>>
    BY <1>18 DEF LockFound, Step, TypeOK, Ahead, locals
  <2> QED
    BY <1>0, <1>18, <2>1, PendingSame DEF LockFound, Step
<1>19. CASE SetFound(t)
  <2>1. /\ pFound' /\ pc[t] = "setFound" /\ pc'[t] = "unlockFound"
        /\ UNCHANGED <<auiNumbers, iNumbersRead>>
    BY <1>19 DEF SetFound, Step, TypeOK, locals
  <2>2. Pending(t)' = {}
    BY <2>1, ConstantsAssumption DEF Pending, Ahead, TypeOK
  <2> QED
    BY <1>0, <2>1, <2>2
<1>20. CASE UnlockFound(t)
  <2>1. Ahead(t)' = Ahead(t) /\ UNCHANGED <<auiNumbers, iNumbersRead>>
    BY <1>20 DEF UnlockFound, Step, TypeOK, Ahead, locals
  <2> QED
    BY <1>0, <1>20, <2>1, PendingSame DEF UnlockFound, Step
<1>21. CASE OpenPlain(t)
  <2>1. Ahead(t)' = Ahead(t) /\ UNCHANGED <<auiNumbers, iNumbersRead>>
    BY <1>21 DEF OpenPlain, Step, TypeOK, Ahead, locals
  <2> QED
    BY <1>0, <1>21, <2>1, PendingSame DEF OpenPlain, Step
<1>22. CASE WritePlain(t)
  <2>1. Ahead(t)' = Ahead(t) /\ UNCHANGED <<auiNumbers, iNumbersRead>>
    BY <1>22 DEF WritePlain, Step, TypeOK, Ahead, locals
  <2> QED
    BY <1>0, <1>22, <2>1, PendingSame DEF WritePlain, Step
<1>23. CASE OpenHash(t)
  <2>1. Ahead(t)' = Ahead(t) /\ UNCHANGED <<auiNumbers, iNumbersRead>>
    BY <1>23 DEF OpenHash, Step, TypeOK, Ahead, locals
  <2> QED
    BY <1>0, <1>23, <2>1, PendingSame DEF OpenHash, Step
<1>24. CASE WriteHash(t)
  <2>1. Ahead(t)' = Ahead(t) /\ UNCHANGED <<auiNumbers, iNumbersRead>>
    BY <1>24 DEF WriteHash, Step, TypeOK, Ahead, locals
  <2> QED
    BY <1>0, <1>24, <2>1, PendingSame DEF WriteHash, Step
<1> QED
  BY <1>1, <1>2, <1>3, <1>4, <1>5, <1>6, <1>7, <1>8, <1>9, <1>10, <1>11, <1>12, <1>13,
         <1>14, <1>15, <1>16, <1>17, <1>18, <1>19, <1>20, <1>21, <1>22, <1>23, <1>24
         DEF threadFunction

\* Which actions move fpos and tested, and that *pFound is never cleared.
LEMMA ThreadFrame ==
  ASSUME NEW t \in Threads, threadFunction(t)
  PROVE  /\ UNCHANGED file
         /\ ~IsPrime(t) => UNCHANGED tested
         /\ ~Scanned(t) => UNCHANGED fpos
         /\ pFound => pFound'
BY DEF threadFunction, LockFile, CheckFound, Scan, Scanned, UnlockFile, LockCheck,
       Check, UnlockCheck, UnlockExit, IsPrime, Alloc, LockList, Link, Publish,
       UnlockList, DecBuf, TryKey, LockFound, SetFound, UnlockFound, OpenPlain,
       WritePlain, OpenHash, WriteHash, NextIndex, shared, locals

\* What is pending lies before fpos, and in one thread's batch only.
LEMMA PendingBehind ==
  ASSUME TypeOK, BatchesRead, BatchesApart, NEW t \in Threads
  PROVE  /\ Pending(t) \subseteq 1..fpos-1
         /\ Pending(t) \subseteq Pos
         /\ \A u \in Threads \ {t} : Pending(t) \cap Pending(u) = {}
<1>1. \A u \in Threads : Ahead(u) \in Nat
  BY ConstantsAssumption DEF Ahead, TypeOK
<1>2. \A u \in Threads : \A i \in Ahead(u)..iNumbersRead[u]-1 : i \in 0..iNumbersRead[u]-1
  BY <1>1 DEF TypeOK
<1>3. Pending(t) \subseteq 1..fpos-1
  BY <1>2 DEF Pending, BatchesRead
<1>4. Pending(t) \subseteq Pos
  BY <1>3, FileType DEF TypeOK, Pos
<1>5. Pending(1) \cap Pending(2) = {}
  BY <1>2 DEF Pending, BatchesApart, Threads
<1> QED
  BY <1>3, <1>4, <1>5 DEF Threads

\* No step tests a position a second time.
LEMMA TestedStep ==
  ASSUME TypeOK, LocksHeld, BatchesRead, LocalsAgree, BatchesApart, StoppedAtEnd,
         MainWaits, TestedOnce, [Next]_vars
  PROVE  TestedOnce'
<1>1. ASSUME NEW t \in Threads, threadFunction(t) PROVE TestedOnce'
  <2>1. \A u \in Threads \ {t} : Pending(u)' = Pending(u)
    BY <1>1, PendingOthers
  <2>2. UNCHANGED file /\ Pos' = Pos
    BY <1>1, ThreadFrame DEF Pos
  <2>3. CASE IsPrime(t)
    <3>1. Pending(t)' = Pending(t) \ {Cur(t)} /\ Cur(t) \in Pending(t)
      BY <1>1, <2>3, PendingActor DEF IsPrime, Scanned, NextIndex, Step
    <3>2. /\ tested' = [tested EXCEPT ![Cur(t)] = @ + 1] /\ UNCHANGED fpos
      BY <2>3 DEF IsPrime, shared
    <3>3. Cur(t) \in Pos /\ Cur(t) < fpos /\ tested[Cur(t)] = 0
      BY <3>1, PendingBehind, FileType DEF TestedOnce, TypeOK, Pos
    <3>4. \A p \in Pos : tested'[p] <= 1 /\ (p >= fpos => tested'[p] = 0)
      <4>1. \A p \in Pos : tested'[p] = IF p = Cur(t) THEN 1 ELSE tested[p]
        BY <3>2, <3>3 DEF TypeOK
      <4> QED
        BY <3>3, <4>1, ConstantsAssumption DEF TestedOnce, TypeOK, Pos
    <3>5. \A u \in Threads : Pending(u)' \subseteq Pending(u) \ {Cur(t)}
      BY <3>1, <2>1, PendingBehind
    <3>6. \A u \in Threads : \A p \in Pending(u)' : tested'[p] = 0
      BY <3>2, <3>5, PendingBehind DEF TestedOnce, TypeOK
    <3> QED
      BY <2>2, <3>2, <3>4, <3>6 DEF TestedOnce
  <2>4. CASE Scanned(t)
    <3>1. Pending(t)' = Pending(t) \cup {fpos}
      BY <1>1, <2>4, PendingActor DEF IsPrime, Scanned, NextIndex, Step
    <3>2. /\ UNCHANGED tested /\ fpos' = fpos + 1 /\ fpos \in Pos
      BY <2>4, FileType DEF Scanned, Step, LocalsAgree, Readable, TypeOK, Pos
    <3>3. \A p \in Pos : tested[p] <= 1 /\ (p >= fpos' => tested[p] = 0)
      BY <3>2, FileType DEF TestedOnce, TypeOK, Pos
    <3>4. tested[fpos] = 0
      BY <3>2 DEF TestedOnce, Pos
    <3>5. \A u \in Threads : \A p \in Pending(u)' : tested[p] = 0
      BY <3>1, <3>4, <2>1 DEF TestedOnce
    <3> QED
      BY <2>2, <3>2, <3>3, <3>5 DEF TestedOnce
  <2>5. CASE ~IsPrime(t) /\ ~Scanned(t)
    <3>1. UNCHANGED <<tested, fpos>> /\ Pending(t)' \subseteq Pending(t)
      BY <1>1, <2>5, PendingActor, ThreadFrame
    <3> QED
      BY <2>1, <2>2, <3>1 DEF TestedOnce
  <2> QED
    BY <2>3, <2>4, <2>5
<1>2. CASE main
  BY <1>2, MainFrame, MainPending DEF TestedOnce, Pos
<1>3. CASE UNCHANGED vars
  BY <1>3 DEF vars, shared, locals, TestedOnce, Pending, Ahead, Pos
<1> QED
  BY <1>1, <1>2, <1>3 DEF Next, Ended

\* No step drops a number that was read, unless the flag is up.
LEMMA CoveredStep ==
  ASSUME TypeOK, LocksHeld, BatchesRead, LocalsAgree, BatchesApart, StoppedAtEnd,
         MainWaits, TestedOnce, BehindCovered, [Next]_vars
  PROVE  BehindCovered'
<1>1. ASSUME NEW t \in Threads, threadFunction(t) PROVE BehindCovered'
  <2> SUFFICES ASSUME ~pFound'
               PROVE  \A p \in 1..fpos'-1 :
                        tested'[p] = 1 \/ \E u \in Threads : p \in Pending(u)'
    BY DEF BehindCovered
  <2>1. \A u \in Threads \ {t} : Pending(u)' = Pending(u)
    BY <1>1, PendingOthers
  <2>2. \A p \in 1..fpos-1 : tested[p] = 1 \/ \E u \in Threads : p \in Pending(u)
    BY <1>1, ThreadFrame DEF BehindCovered
  <2>3. CASE IsPrime(t)
    <3>1. Pending(t)' = Pending(t) \ {Cur(t)} /\ Cur(t) \in Pending(t)
      BY <1>1, <2>3, PendingActor DEF IsPrime, Scanned, NextIndex, Step
    <3>2. /\ tested' = [tested EXCEPT ![Cur(t)] = @ + 1] /\ UNCHANGED fpos
      BY <2>3 DEF IsPrime, shared
    <3>3. Cur(t) \in Pos /\ tested[Cur(t)] = 0
      BY <3>1, PendingBehind DEF TestedOnce
    <3>4. /\ tested'[Cur(t)] = 1
          /\ \A p \in 1..fpos-1 : p # Cur(t) => tested'[p] = tested[p]
      BY <3>2, <3>3, FileType DEF TypeOK, Pos
    <3> QED
      BY <2>1, <2>2, <3>1, <3>2, <3>4
  <2>4. CASE Scanned(t)
    <3>1. Pending(t)' = Pending(t) \cup {fpos}
      BY <1>1, <2>4, PendingActor DEF IsPrime, Scanned, NextIndex, Step
    <3>2. UNCHANGED tested /\ fpos' = fpos + 1
      BY <2>4 DEF Scanned, Step, LocalsAgree
    <3>3. \A p \in 1..fpos'-1 : p = fpos \/ p \in 1..fpos-1
      BY <3>2, FileType DEF TypeOK
    <3> QED
      BY <2>1, <2>2, <3>1, <3>2, <3>3
  <2>5. CASE ~IsPrime(t) /\ ~Scanned(t)
    <3>1. UNCHANGED <<tested, fpos>> /\ Pending(t)' = Pending(t)
      BY <1>1, <2>5, PendingActor, ThreadFrame
    <3> QED
      BY <2>1, <2>2, <3>1
  <2> QED
    BY <2>3, <2>4, <2>5
<1>2. CASE main
  BY <1>2, MainFrame, MainPending DEF BehindCovered
<1>3. CASE UNCHANGED vars
  BY <1>3 DEF vars, shared, locals, BehindCovered, Pending, Ahead
<1> QED
  BY <1>1, <1>2, <1>3 DEF Next, Ended

(***************************************************************************)
(* The list of primes.                                                     *)
(***************************************************************************)
\* Two threads never have the same position in hand.
LEMMA HandsApart ==
  ASSUME TypeOK, BatchesRead, LocalsAgree, BatchesApart,
         pc[1] \in HasNumber, pc[2] \in HasNumber
  PROVE  Cur(1) # Cur(2)
<1>1. \A t \in Threads : iIndex[t] < iNumbersRead[t] /\ iIndex[t] \in 0..Batch-1
  BY CurFacts DEF Threads
<1>2. \A t \in Threads : iIndex[t] \in 0..iNumbersRead[t]-1
  BY <1>1 DEF TypeOK
<1> QED
  BY <1>2 DEF Cur, BatchesApart, Threads

\* A thread keeps the number in its hand while it steps between the labels
\* after isPrime, and the other thread's step does not change it.
LEMMA CurKept ==
  ASSUME TypeOK, NEW t \in Threads, threadFunction(t),
         NEW u \in Threads, pc'[u] \in PrimeInHand
  PROVE  /\ Cur(u)' = Cur(u)
         /\ pc[u] \in PrimeInHand \/ (u = t /\ IsPrime(t) /\ pc'[t] = "alloc")
BY DEF threadFunction, LockFile, CheckFound, Scan, Scanned, UnlockFile, LockCheck,
       Check, UnlockCheck, UnlockExit, IsPrime, Alloc, LockList, Link, Publish,
       UnlockList, DecBuf, TryKey, LockFound, SetFound, UnlockFound, OpenPlain,
       WritePlain, OpenHash, WriteHash, NextIndex, Step, shared, locals, TypeOK, Cur,
       PrimeInHand

\* Every step keeps the nodes of the two threads apart and each one tested.
LEMMA NodesStep ==
  ASSUME TypeOK, LocksHeld, BatchesRead, LocalsAgree, BatchesApart, StoppedAtEnd,
         MainWaits, TestedOnce, NodesLinked, [Next]_vars
  PROVE  NodesLinked'
<1>1. ASSUME NEW t \in Threads, threadFunction(t) PROVE NodesLinked'
  <2> DEFINE Others == Threads \ {t}
  <2>1. \A u \in Others : /\ pc'[u] = pc[u] /\ newNode'[u] = newNode[u]
                         /\ newNext'[u] = newNext[u]
    BY <1>1 DEF threadFunction, LockFile, CheckFound, Scan, Scanned, UnlockFile,
           LockCheck, Check, UnlockCheck, UnlockExit, IsPrime, Alloc, LockList, Link,
           Publish, UnlockList, DecBuf, TryKey, LockFound, SetFound, UnlockFound,
           OpenPlain, WritePlain, OpenHash, WriteHash, NextIndex, Step, shared,
           locals, TypeOK
  <2>2. \/ UNCHANGED nodes /\ (pc'[t] = "alloc" => IsPrime(t))
        \/ pc[t] = "alloc" /\ pc'[t] # "alloc" /\ nodes' \subseteq nodes \cup {Cur(t)}
    BY <1>1 DEF threadFunction, LockFile, CheckFound, Scan, Scanned, UnlockFile,
           LockCheck, Check, UnlockCheck, UnlockExit, IsPrime, Alloc, LockList, Link,
           Publish, UnlockList, DecBuf, TryKey, LockFound, SetFound, UnlockFound,
           OpenPlain, WritePlain, OpenHash, WriteHash, NextIndex, Step, shared, TypeOK
  <2>3. IsPrime(t) => /\ Cur(t) \in Pos /\ tested[Cur(t)] = 0
                      /\ tested' = [tested EXCEPT ![Cur(t)] = @ + 1]
    <3>1. IsPrime(t) => Cur(t) \in Pending(t)
      BY <1>1, PendingActor DEF IsPrime, Scanned, NextIndex, Step
    <3> QED
      BY <3>1, PendingBehind DEF IsPrime, TestedOnce
  <2>4. \A p \in Pos : tested[p] = 1 => tested'[p] = 1
    BY <1>1, <2>3, ThreadFrame DEF TypeOK
  <2>5. IsPrime(t) => tested'[Cur(t)] = 1 /\ Cur(t) \notin nodes
    BY <2>3 DEF TypeOK, NodesLinked
  <2>6. \A u \in Threads : pc[u] \in HasNumber => Cur(u) \in Pos
    BY CurFacts
  <2>7. \A p \in nodes' : tested'[p] = 1
    <3>1. pc[t] = "alloc" => tested'[Cur(t)] = 1
      BY <2>4, <2>6 DEF NodesLinked, HasNumber, PrimeInHand
    <3>2. \A p \in nodes : tested'[p] = 1
      BY <2>4 DEF NodesLinked, TypeOK
    <3> QED
      BY <2>2, <3>1, <3>2
  <2>8. \A u \in Threads : pc'[u] = "alloc" => Cur(u)' \notin nodes'
    <3> SUFFICES ASSUME NEW u \in Threads, pc'[u] = "alloc"
                 PROVE  Cur(u)' \notin nodes'
      OBVIOUS
    <3>1. Cur(u)' = Cur(u)
      BY <1>1, CurKept DEF PrimeInHand
    <3>2. CASE u = t
      BY <2>2, <2>5, <3>1, <3>2
    <3>3. CASE u # t
      <4>1. pc[u] = "alloc" /\ Cur(u) \notin nodes
        BY <2>1, <3>3 DEF NodesLinked
      <4>2. pc[t] = "alloc" => Cur(u) # Cur(t)
        BY <3>3, <4>1, HandsApart DEF Threads, HasNumber, PrimeInHand
      <4> QED
        BY <2>2, <3>1, <4>1, <4>2
    <3> QED
      BY <3>2, <3>3
  <2>9. \A u \in Threads : pc'[u] \in PrimeInHand => tested'[Cur(u)'] = 1
    <3> SUFFICES ASSUME NEW u \in Threads, pc'[u] \in PrimeInHand
                 PROVE  tested'[Cur(u)'] = 1
      OBVIOUS
    <3>1. /\ Cur(u)' = Cur(u)
          /\ pc[u] \in PrimeInHand \/ (u = t /\ IsPrime(t))
      BY <1>1, CurKept
    <3>2. pc[u] \in PrimeInHand => tested[Cur(u)] = 1 /\ Cur(u) \in Pos
      BY <2>6 DEF NodesLinked, HasNumber
    <3> QED
      BY <2>4, <2>5, <3>1, <3>2
  <2>10. \A u \in Threads :
           newNode'[u] = IF pc'[u] \in {"lockList", "link", "publish"} THEN Cur(u)' ELSE 0
    <3>1. \A u \in Threads : pc'[u] \in PrimeInHand => Cur(u)' = Cur(u)
      BY <1>1, CurKept
    <3>2. newNode'[t] = IF pc'[t] \in {"lockList", "link", "publish"} THEN Cur(t) ELSE 0
      BY <1>1 DEF threadFunction, LockFile, CheckFound, Scan, Scanned, UnlockFile,
             LockCheck, Check, UnlockCheck, UnlockExit, IsPrime, Alloc, LockList,
             Link, Publish, UnlockList, DecBuf, TryKey, LockFound, SetFound,
             UnlockFound, OpenPlain, WritePlain, OpenHash, WriteHash, NextIndex, Step,
             shared, locals, TypeOK, NodesLinked
    <3> QED
      BY <2>1, <3>1, <3>2 DEF NodesLinked, PrimeInHand
  <2>11. \A u \in Threads : pc'[u] = "publish" => newNext'[u] = pPrimeList'
    <3>1. \/ UNCHANGED pPrimeList /\ (pc'[t] = "publish" => newNext'[t] = pPrimeList)
          \/ pc[t] = "publish" /\ pc'[t] # "publish"
      BY <1>1 DEF threadFunction, LockFile, CheckFound, Scan, Scanned, UnlockFile,
             LockCheck, Check, UnlockCheck, UnlockExit, IsPrime, Alloc, LockList,
             Link, Publish, UnlockList, DecBuf, TryKey, LockFound, SetFound,
             UnlockFound, OpenPlain, WritePlain, OpenHash, WriteHash, NextIndex, Step,
             shared, locals, TypeOK
    <3>2. \A u \in Others : ~(pc[u] = "publish" /\ pc[t] = "publish")
      BY DEF LocksHeld, ListHeld
    <3> QED
      BY <2>1, <3>1, <3>2 DEF NodesLinked
  <2> QED
    BY <2>7, <2>8, <2>9, <2>10, <2>11 DEF NodesLinked
<1>2. CASE main
  <2>1. /\ nodes' \subseteq nodes
        /\ UNCHANGED pPrimeList \/ \A u \in Threads : pc'[u] = "done"
    BY <1>2 DEF main, LoadCode, OpenInput, Create1, Create2, JoinOnly1, Join1, Join2,
           FreeNode, ReturnMain, MainStep, MainWaits, TypeOK, Threads, shared
  <2> QED
    BY <1>2, <2>1, MainFrame DEF NodesLinked, Cur, PrimeInHand
<1>3. CASE UNCHANGED vars
  BY <1>3 DEF vars, shared, locals, NodesLinked, Cur
<1> QED
  BY <1>1, <1>2, <1>3 DEF Next, Ended

\* Putting a new element in front of a sequence.
LEMMA RangeOfCons ==
  ASSUME NEW S, NEW s \in Seq(S), NEW x \in S
  PROVE  /\ Range(<<x>> \o s) = {x} \cup Range(s)
         /\ x \notin Range(s) /\ IsInjective(s) => IsInjective(<<x>> \o s)
<1> DEFINE c == <<x>> \o s
<1>1. /\ c \in Seq(S) /\ Len(c) = Len(s) + 1 /\ Len(s) \in Nat
      /\ c[1] = x /\ \A i \in 1..Len(s) : c[i+1] = s[i]
  BY ConcatProperties
<1>2. /\ DOMAIN c = 1..Len(s)+1 /\ DOMAIN s = 1..Len(s)
      /\ \A i \in DOMAIN c : i = 1 \/ (i-1 \in DOMAIN s /\ c[i] = s[i-1])
  BY <1>1
<1>3. Range(c) = {x} \cup Range(s)
  <2>1. \A y \in Range(c) : y = x \/ y \in Range(s)
    BY <1>1, <1>2 DEF Range
  <2>2. x \in Range(c)
    BY <1>1, <1>2 DEF Range
  <2>3. \A i \in DOMAIN s : i+1 \in DOMAIN c /\ c[i+1] = s[i]
    BY <1>1, <1>2
  <2>4. \A y \in Range(s) : y \in Range(c)
    BY <2>3 DEF Range
  <2> QED
    BY <2>1, <2>2, <2>4
<1>4. x \notin Range(s) /\ IsInjective(s) => IsInjective(c)
  BY <1>1, <1>2 DEF Range, IsInjective
<1> QED
  BY <1>3, <1>4

\* Taking the first element off a sequence without repetitions.
LEMMA RangeOfTail ==
  ASSUME NEW S, NEW s \in Seq(S), s # <<>>, IsInjective(s)
  PROVE  Range(Tail(s)) = Range(s) \ {Head(s)} /\ IsInjective(Tail(s))
<1>1. /\ Len(Tail(s)) = Len(s) - 1 /\ Len(s) \in Nat \ {0} /\ Head(s) = s[1]
      /\ \A i \in 1..Len(Tail(s)) : Tail(s)[i] = s[i+1]
      /\ DOMAIN s = 1..Len(s) /\ DOMAIN Tail(s) = 1..Len(s)-1
  BY HeadTailProperties, EmptySeq
<1>2. \A i \in DOMAIN s : i = 1 \/ (i-1 \in DOMAIN Tail(s) /\ Tail(s)[i-1] = s[i])
  BY <1>1
<1>3. Range(Tail(s)) = Range(s) \ {Head(s)}
  BY <1>1, <1>2 DEF Range, IsInjective
<1>4. IsInjective(Tail(s))
  BY <1>1 DEF IsInjective
<1> QED
  BY <1>3, <1>4

\* No step loses a node, links one twice, or frees one that is linked.
LEMMA ListStep ==
  ASSUME TypeOK, LocksHeld, BatchesRead, LocalsAgree, BatchesApart, MainWaits,
         NodesLinked, ListHoldsEveryNode, [Next]_vars
  PROVE  ListHoldsEveryNode'
<1> DEFINE Linked(n) == {n[t] : t \in {u \in Threads : n[u] # 0}}
<1>1. ASSUME NEW t \in Threads, threadFunction(t) PROVE ListHoldsEveryNode'
  <2>1. CASE Alloc(t) /\ pc'[t] = "lockList"
    <3>0. /\ pc[t] = "alloc"
          /\ nodes' = nodes \cup {Cur(t)} /\ newNode' = [newNode EXCEPT ![t] = Cur(t)]
          /\ UNCHANGED pPrimeList
      BY <2>1 DEF Alloc, Step, TypeOK
    <3>1. newNode[t] = 0 /\ Cur(t) \notin nodes /\ Cur(t) # 0
      BY <3>0, CurFacts DEF NodesLinked, HasNumber, PrimeInHand, Pos
    <3>2. Linked(newNode') = Linked(newNode) \cup {Cur(t)}
      BY <3>0, <3>1 DEF TypeOK
    <3>3. \A u \in Threads \ {t} : newNode'[u] = newNode[u] /\ newNode[u] # Cur(t)
      BY <3>0, <3>1 DEF ListHoldsEveryNode, TypeOK
    <3> QED
      BY <3>0, <3>1, <3>2, <3>3 DEF ListHoldsEveryNode, TypeOK, Threads
  <2>2. CASE Publish(t)
    <3>1. /\ pc[t] = "publish" /\ newNode[t] \in Pos /\ newNext[t] = pPrimeList
          /\ newNode[t] # 0 /\ newNode' = [newNode EXCEPT ![t] = 0] /\ UNCHANGED nodes
          /\ pPrimeList' = <<newNode[t]>> \o pPrimeList
      BY <2>2, CurFacts DEF Publish, Step, NodesLinked, TypeOK, HasNumber, PrimeInHand, Pos
    <3>2. /\ Range(pPrimeList') = {newNode[t]} \cup Range(pPrimeList)
          /\ IsInjective(pPrimeList')
      BY <3>1, RangeOfCons DEF ListHoldsEveryNode, TypeOK
    <3>3. Linked(newNode') = Linked(newNode) \ {newNode[t]}
      BY <3>1 DEF TypeOK, ListHoldsEveryNode, Threads
    <3>4. newNode[t] \in Linked(newNode)
      BY <3>1
    <3>5. \A u \in Threads : newNode'[u] \notin Range(pPrimeList')
      <4>1. 0 \notin Range(pPrimeList')
        <5>1. \A i \in DOMAIN pPrimeList : pPrimeList[i] \in Pos
          BY DEF TypeOK
        <5>2. 0 \notin Range(pPrimeList)
          BY <5>1 DEF Range, Pos
        <5> QED
          BY <3>1, <3>2, <5>2
      <4> QED
        BY <3>1, <3>2, <4>1 DEF ListHoldsEveryNode, TypeOK, Threads
    <3>6. newNode'[1] # 0 => newNode'[1] # newNode'[2]
      BY <3>1 DEF TypeOK, Threads
    <3> QED
      BY <3>1, <3>2, <3>3, <3>4, <3>5, <3>6 DEF ListHoldsEveryNode
  <2>3. CASE UNCHANGED <<nodes, newNode, pPrimeList>>
    BY <2>3 DEF ListHoldsEveryNode
  <2> QED
    BY <1>1, <2>1, <2>2, <2>3 DEF threadFunction, LockFile, CheckFound, Scan, Scanned,
           UnlockFile, LockCheck, Check, UnlockCheck, UnlockExit, IsPrime, Alloc,
           LockList, Link, Publish, UnlockList, DecBuf, TryKey, LockFound, SetFound,
           UnlockFound, OpenPlain, WritePlain, OpenHash, WriteHash, NextIndex, Step,
           shared, locals, TypeOK
<1>2. CASE main
  <2>1. CASE FreeNode
    <3>1. \A u \in Threads : newNode[u] = 0
      BY <2>1 DEF FreeNode, MainStep, MainWaits, NodesLinked, Threads
    <3>2. /\ Range(pPrimeList') = Range(pPrimeList) \ {Head(pPrimeList)}
          /\ IsInjective(pPrimeList')
      BY <2>1, RangeOfTail DEF FreeNode, ListHoldsEveryNode, TypeOK
    <3>3. nodes' = nodes \ {Head(pPrimeList)} /\ UNCHANGED newNode
      BY <2>1 DEF FreeNode, locals
    <3> QED
      BY <3>1, <3>2, <3>3 DEF ListHoldsEveryNode, Threads
  <2>2. CASE UNCHANGED <<nodes, newNode, pPrimeList>>
    BY <2>2 DEF ListHoldsEveryNode
  <2> QED
    BY <1>2, <2>1, <2>2 DEF main, LoadCode, OpenInput, Create1, Create2, JoinOnly1,
           Join1, Join2, ReturnMain, shared, locals
<1>3. CASE UNCHANGED vars
  BY <1>3 DEF vars, shared, locals, ListHoldsEveryNode
<1> QED
  BY <1>1, <1>2, <1>3 DEF Next, Ended

(***************************************************************************)
(* The invariant and the theorems.                                         *)
(***************************************************************************)
\* Everything above, which every step preserves.
IInv ==
  /\ TypeOK /\ LocksHeld /\ BatchesRead /\ LocalsAgree /\ BatchesApart
  /\ TestedOnce /\ BehindCovered /\ StoppedAtEnd /\ NodesLinked
  /\ ListHoldsEveryNode /\ MainWaits

\* The invariant holds at the start.
LEMMA InitIInv == Init => IInv
<1> SUFFICES ASSUME Init PROVE IInv
  OBVIOUS
<1>1. TypeOK
  BY TypeInit
<1>2. \A t \in Threads : /\ pc[t] = "idle" /\ iNumbersRead[t] = 0 /\ newNode[t] = 0
                         /\ Pending(t) = {}
  BY ConstantsAssumption DEF Init, Pending, Ahead, BeforeTest, PrimeInHand
<1>3. LocksHeld
  BY <1>2, ConstantsAssumption DEF Init, LocksHeld, Mutexes, Threads, FileHeld, ListHeld, FoundHeld
<1>4. BatchesRead /\ BatchesApart /\ LocalsAgree
  BY <1>2 DEF Init, BatchesRead, BatchesApart, LocalsAgree, HasNumber, BeforeTest,
              PrimeInHand, Saving, Threads
<1>5. TestedOnce /\ BehindCovered
  BY <1>2 DEF Init, TestedOnce, BehindCovered, Pos
<1>6. StoppedAtEnd /\ NodesLinked
  BY <1>2 DEF Init, StoppedAtEnd, NodesLinked, Saving, PrimeInHand
<1>7. ListHoldsEveryNode
  BY <1>2 DEF Init, ListHoldsEveryNode, Range, IsInjective, Threads
<1>8. MainWaits
  BY DEF Init, MainWaits, Threads
<1> QED
  BY <1>1, <1>3, <1>4, <1>5, <1>6, <1>7, <1>8 DEF IInv

\* Every step preserves the invariant.
LEMMA StepIInv == IInv /\ [Next]_vars => IInv'
BY TypeStep, LocksStep, ReadStep, LocalsStep, ApartStep, TestedStep, CoveredStep,
   StoppedStep, NodesStep, ListStep, MainWaitsStep DEF IInv

\* The inductive invariant holds in every reachable state.
THEOREM Invariance == Spec => []IInv
BY InitIInv, StepIInv, PTL DEF Spec

\* Whatever the input and the length of a batch, no thread reads or writes
\* auiNumbers outside its ten elements or takes a number it did not read.
THEOREM TypeCorrect == Spec => []TypeOK
<1>1. IInv => TypeOK
  BY DEF IInv
<1> QED
  BY <1>1, Invariance, PTL

\* Two threads that are through without the flag have tested the whole input.
LEMMA AllTested ==
  ASSUME IInv, pc[1] = "done", pc[2] \in {"idle", "done"}, ~pFound
  PROVE  \A p \in InputPrefix : tested[p] = 1
<1> SUFFICES ASSUME NEW p \in InputPrefix PROVE tested[p] = 1
  OBVIOUS
<1>1. ~Readable(fpos)
  BY DEF IInv, StoppedAtEnd, Threads
<1>2. p \in 1..fpos-1
  BY <1>1, FileType DEF IInv, TypeOK, InputPrefix, Pos, Readable
<1>3. \A t \in Threads : Pending(t) = {}
  <2>1. \A t \in Threads : Ahead(t) = Batch
    BY DEF Threads, Ahead, BeforeTest, PrimeInHand
  <2>2. \A t \in Threads : iNumbersRead[t] \in 0..Batch
    BY DEF IInv, TypeOK
  <2> QED
    BY <2>1, <2>2, ConstantsAssumption DEF Pending
<1> QED
  BY <1>2, <1>3 DEF IInv, BehindCovered

\* The file mutex and the flag make the two threads share the input without
\* testing a number twice or, when no key was found, leaving one out.
THEOREM TestedExactlyOnce == Spec => []EachNumberTestedOnce
<1>1. ASSUME IInv, AllJoined, ~pFound
      PROVE  \A p \in InputPrefix : tested[p] = 1
  <2>1. pc[1] = "done" /\ pc[2] \in {"idle", "done"}
    BY <1>1 DEF IInv, MainWaits, AllJoined
  <2> QED
    BY <1>1, <2>1, AllTested
<1>2. IInv => EachNumberTestedOnce
  BY <1>1 DEF EachNumberTestedOnce, IInv, TestedOnce
<1> QED
  BY <1>2, Invariance, PTL

\* No node is lost or freed twice, for any interleaving of the two threads and
\* of main, and also when malloc fails.
THEOREM ListKeepsEveryNode == Spec => []ListHoldsEveryNode
<1>1. IInv => ListHoldsEveryNode
  BY DEF IInv
<1> QED
  BY <1>1, Invariance, PTL

\* While the process has a code buffer, its last use is before its free.
CodeUsable ==
  /\ code # "null" /\ pcMain # "crashed"
  /\ code = "freed" => pcMain \in {"free", "exit"}

\* With a code file that was read, no step uses the buffer after its free.
LEMMA CodeStep ==
  ASSUME "code" \notin Faults, IInv, CodeUsable, [Next]_vars
  PROVE  CodeUsable'
<1>1. ASSUME NEW t \in Threads, threadFunction(t) PROVE CodeUsable'
  <2>1. CASE TryKey(t)
    <3>1. pc[t] = "tryKey"
      BY <2>1 DEF TryKey, NextIndex, Step
    <3>2. code \notin {"null", "freed"}
      BY <3>1 DEF IInv, MainWaits, CodeUsable, Threads
    <3> QED
      BY <2>1, <3>2 DEF TryKey, CodeUsable, shared
  <2>2. CASE ~TryKey(t)
    BY <1>1, <2>2 DEF threadFunction, LockFile, CheckFound, Scan, Scanned, UnlockFile,
           LockCheck, Check, UnlockCheck, UnlockExit, IsPrime, Alloc, LockList, Link,
           Publish, UnlockList, DecBuf, TryKey, LockFound, SetFound, UnlockFound,
           OpenPlain, WritePlain, OpenHash, WriteHash, NextIndex, shared, CodeUsable
  <2> QED
    BY <2>1, <2>2
<1>2. CASE main
  BY <1>2 DEF main, LoadCode, OpenInput, Create1, Create2, JoinOnly1, Join1, Join2,
         FreeNode, ReturnMain, MainStep, shared, CodeUsable
<1>3. CASE UNCHANGED vars
  BY <1>3 DEF vars, shared, CodeUsable
<1> QED
  BY <1>1, <1>2, <1>3 DEF Next, Ended

\* What main has freed by the end.
EndFreed ==
  /\ pcMain = "free" => code = "freed"
  /\ pcMain = "exit" /\ exitCode = 0 /\ pc[2] # "idle" => pPrimeList = <<>> /\ code = "freed"

\* Every step keeps the end freed: no thread moves any more.
LEMMA EndStep ==
  ASSUME IInv, EndFreed, [Next]_vars
  PROVE  EndFreed'
<1>1. ASSUME NEW t \in Threads, threadFunction(t) PROVE EndFreed'
  <2>1. pc[t] \notin {"idle", "done"}
    BY <1>1 DEF threadFunction, LockFile, CheckFound, Scan, Scanned, UnlockFile,
           LockCheck, Check, UnlockCheck, UnlockExit, IsPrime, Alloc, LockList, Link,
           Publish, UnlockList, DecBuf, TryKey, LockFound, SetFound, UnlockFound,
           OpenPlain, WritePlain, OpenHash, WriteHash, NextIndex, Step
  <2>2. pcMain \notin {"free", "exit"}
    BY <2>1 DEF IInv, MainWaits, Threads
  <2>3. pcMain' \in {pcMain, "crashed"}
    BY <1>1 DEF threadFunction, LockFile, CheckFound, Scan, Scanned, UnlockFile,
           LockCheck, Check, UnlockCheck, UnlockExit, IsPrime, Alloc, LockList, Link,
           Publish, UnlockList, DecBuf, TryKey, LockFound, SetFound, UnlockFound,
           OpenPlain, WritePlain, OpenHash, WriteHash, NextIndex, shared
  <2> QED
    BY <2>2, <2>3 DEF EndFreed
<1>2. CASE main
  <2>1. CASE Join2
    BY <2>1 DEF Join2, MainStep, EndFreed
  <2>2. CASE FreeNode \/ ReturnMain
    BY <2>2 DEF FreeNode, ReturnMain, MainStep, EndFreed, shared
  <2>3. CASE JoinOnly1
    <3>1. pc[2] = "idle" /\ pcMain' = "exit" /\ UNCHANGED pc
      BY <2>3 DEF JoinOnly1, MainStep, IInv, MainWaits
    <3> QED
      BY <3>1 DEF EndFreed
  <2>4. CASE LoadCode \/ OpenInput \/ Create1 \/ Create2 \/ Join1
    <3>1. pcMain' # "free" /\ (pcMain' = "exit" => exitCode' = 1)
      BY <2>4 DEF LoadCode, OpenInput, Create1, Create2, Join1, MainStep, Return
    <3> QED
      BY <3>1 DEF EndFreed
  <2> QED
    BY <1>2, <2>1, <2>2, <2>3, <2>4 DEF main
<1>3. CASE UNCHANGED vars
  BY <1>3 DEF vars, shared, EndFreed
<1> QED
  BY <1>1, <1>2, <1>3 DEF Next, Ended

\* With a code file that was read, main frees the list and the code buffer only
\* when both threads are through with them, and then frees them all.
THEOREM FreedLast ==
  ASSUME "code" \notin Faults
  PROVE  Spec => []FreedWhenQuiet
<1>1. Init => CodeUsable /\ EndFreed
  BY DEF Init, CodeUsable, EndFreed
<1>2. IInv /\ CodeUsable /\ EndFreed /\ [Next]_vars => CodeUsable' /\ EndFreed'
  BY CodeStep, EndStep
<1>3. IInv /\ CodeUsable /\ EndFreed => FreedWhenQuiet
  <2> SUFFICES ASSUME IInv, CodeUsable, EndFreed PROVE FreedWhenQuiet
    OBVIOUS
  <2>1. ASSUME pcMain = "exit", exitCode = 0, pc[2] # "idle"
        PROVE  nodes = {} /\ code = "freed"
    <3>1. pPrimeList = <<>> /\ code = "freed" /\ Range(pPrimeList) = {}
      BY <2>1 DEF EndFreed, Range
    <3>2. \A t \in Threads : pc[t] \notin {"lockList", "link", "publish"}
      BY <2>1 DEF IInv, MainWaits, Threads
    <3>3. \A t \in Threads : newNode[t] = 0
      BY <3>2 DEF IInv, NodesLinked
    <3>4. nodes = Range(pPrimeList) \cup
                    {newNode[t] : t \in {u \in Threads : newNode[u] # 0}}
      BY DEF IInv, ListHoldsEveryNode
    <3> QED
      BY <3>1, <3>3, <3>4
  <2> QED
    BY <2>1 DEF IInv, MainWaits, CodeUsable, FreedWhenQuiet, Threads
<1> QED
  BY <1>1, <1>2, <1>3, Invariance, PTL DEF Spec

\* Once *pFound is set a thread takes up no further number.
THEOREM StopsSoon == Spec => StopsAfterNumberInHand
<1>1. TypeOK /\ [Next]_vars =>
        [\A t \in Threads : pFound /\ pc[t] \notin InHand => pc'[t] \notin InHand]_vars
  <2> SUFFICES ASSUME TypeOK, [Next]_vars, NEW u \in Threads, pFound, pc[u] \notin InHand
               PROVE  pc'[u] \notin InHand \/ UNCHANGED vars
    OBVIOUS
  <2>1. ASSUME NEW t \in Threads, threadFunction(t) PROVE pc'[u] \notin InHand
    BY <2>1 DEF threadFunction, LockFile, CheckFound, Scan, Scanned, UnlockFile,
           LockCheck, Check, UnlockCheck, UnlockExit, IsPrime, Alloc, LockList, Link,
           Publish, UnlockList, DecBuf, TryKey, LockFound, SetFound, UnlockFound,
           OpenPlain, WritePlain, OpenHash, WriteHash, NextIndex, Step, TypeOK, InHand
  <2>2. CASE main
    BY <2>2 DEF main, LoadCode, OpenInput, Create1, Create2, JoinOnly1, Join1, Join2,
           FreeNode, ReturnMain, TypeOK, InHand, Threads
  <2> QED
    BY <2>1, <2>2 DEF Next, Ended
<1> QED
  BY <1>1, TypeCorrect, PTL DEF Spec, StopsAfterNumberInHand

(***************************************************************************)
(* PART 2.  The threads implement PrimeSearch, and they deliver the key, as*)
(* long as the code file loads and there is memory to try a key in; other  *)
(* calls may fail.                                                         *)
(***************************************************************************)

\* The positions of the keys among the input.
KeyPositions == {p \in InputPrefix : file[p] \in Primes \cap Keys}

\* From the time main has loaded the code until it frees it, it is there.
CodeLoaded ==
  pcMain \in {"open", "create1", "create2", "joinOnly1", "join1", "join2"}
    => code = "loaded"

\* A thread has no number in hand but a prime, no key to announce but a key,
\* and until the flag is up a key that was tested is still in the hand of the
\* thread that tested it.
KeysKnown ==
  /\ \A t \in Threads :
       /\ pc[t] \in PrimeInHand => Number(t) \in Primes
       /\ pc[t] \in {"lockFound", "setFound"} => Number(t) \in Keys
  /\ ~pFound => \A p \in KeyPositions :
       tested[p] = 1 => \E t \in Threads : pc[t] \in PrimeInHand /\ Cur(t) = p

\* What the refinement adds to the invariant.
KInv == CodeUsable /\ CodeLoaded /\ KeysKnown

\* Only main touches the code, and never while a thread is at work.
LEMMA LoadedStep ==
  ASSUME "code" \notin Faults, IInv, CodeLoaded, [Next]_vars
  PROVE  CodeLoaded'
<1>1. ASSUME NEW t \in Threads, threadFunction(t) PROVE CodeLoaded'
  <2>1. UNCHANGED code /\ pcMain' \in {pcMain, "crashed"}
    BY <1>1 DEF threadFunction, LockFile, CheckFound, Scan, Scanned, UnlockFile, LockCheck,
         Check, UnlockCheck, UnlockExit, IsPrime, Alloc, LockList, Link, Publish,
         UnlockList, DecBuf, TryKey, LockFound, SetFound, UnlockFound, OpenPlain,
         WritePlain, OpenHash, WriteHash, NextIndex, Step, shared, locals
  <2> QED
    BY <2>1 DEF CodeLoaded
<1>2. CASE main
  BY <1>2 DEF main, LoadCode, OpenInput, Create1, Create2, JoinOnly1, Join1, Join2,
         FreeNode, ReturnMain, MainStep, shared, CodeLoaded
<1>3. CASE UNCHANGED vars
  BY <1>3 DEF vars, shared, CodeLoaded
<1> QED
  BY <1>1, <1>2, <1>3 DEF Next, Ended

\* A thread that can move has the code at hand.
LEMMA LoadedInUse ==
  ASSUME IInv, CodeUsable, CodeLoaded, NEW t \in Threads, threadFunction(t)
  PROVE  code = "loaded" /\ ~AllJoined
<1>1. pc[t] \notin {"idle", "done"}
  BY DEF threadFunction, LockFile, CheckFound, Scan, Scanned, UnlockFile, LockCheck,
         Check, UnlockCheck, UnlockExit, IsPrime, Alloc, LockList, Link, Publish,
         UnlockList, DecBuf, TryKey, LockFound, SetFound, UnlockFound, OpenPlain,
         WritePlain, OpenHash, WriteHash, NextIndex, Step
<1>2. pcMain \notin {"load", "open", "create1", "free", "exit", "crashed"}
  BY <1>1 DEF IInv, MainWaits, CodeUsable, Threads
<1> QED
  BY <1>2 DEF IInv, TypeOK, MainWaits, CodeLoaded, AllJoined

\* A prime leaves a thread's hand with the flag up or refuted as a key.
LEMMA HandKept ==
  ASSUME "buf" \notin Faults, TypeOK, code = "loaded",
         NEW t \in Threads, threadFunction(t), NEW u \in Threads, pc[u] \in PrimeInHand
  PROVE  \/ pc'[u] \in PrimeInHand /\ Cur(u)' = Cur(u)
         \/ pFound'
         \/ Number(u) \notin Keys
<1>1. CASE u # t
  <2>1. pc'[u] = pc[u]
    BY <1>1 DEF threadFunction, LockFile, CheckFound, Scan, Scanned, UnlockFile, LockCheck,
         Check, UnlockCheck, UnlockExit, IsPrime, Alloc, LockList, Link, Publish,
         UnlockList, DecBuf, TryKey, LockFound, SetFound, UnlockFound, OpenPlain,
         WritePlain, OpenHash, WriteHash, NextIndex, Step, TypeOK
  <2> QED
    BY <2>1, CurKept
<1>2. CASE u = t
  <2>1. pc'[t] \in PrimeInHand \/ pFound' \/ Number(t) \notin Keys
    BY <1>2 DEF threadFunction, LockFile, CheckFound, Scan, Scanned, UnlockFile, LockCheck,
         Check, UnlockCheck, UnlockExit, IsPrime, Alloc, LockList, Link, Publish,
         UnlockList, DecBuf, TryKey, LockFound, SetFound, UnlockFound, OpenPlain,
         WritePlain, OpenHash, WriteHash, NextIndex, Step, TypeOK, PrimeInHand
  <2> QED
    BY <1>2, <2>1, CurKept
<1> QED
  BY <1>1, <1>2

\* A thread gets hold of a prime through isPrime, of a key by trying it.
LEMMA HandTaken ==
  ASSUME TypeOK, code = "loaded", NEW t \in Threads, threadFunction(t), NEW u \in Threads
  PROVE  /\ pc'[u] \in PrimeInHand =>
              pc[u] \in PrimeInHand \/ (u = t /\ IsPrime(t) /\ Number(u) \in Primes)
         /\ pc'[u] \in {"lockFound", "setFound"} =>
              pc[u] \in {"lockFound", "setFound"} \/ Number(u) \in Keys
BY DEF threadFunction, LockFile, CheckFound, Scan, Scanned, UnlockFile, LockCheck,
       Check, UnlockCheck, UnlockExit, IsPrime, Alloc, LockList, Link, Publish,
       UnlockList, DecBuf, TryKey, LockFound, SetFound, UnlockFound, OpenPlain,
       WritePlain, OpenHash, WriteHash, NextIndex, Step, TypeOK, PrimeInHand

\* The input does not change, nor do the positions of its keys.
LEMMA InputKept ==
  ASSUME UNCHANGED file
  PROVE  /\ InputPrefix' = InputPrefix /\ KeyPositions' = KeyPositions
         /\ Pos' = Pos
BY DEF InputPrefix, KeyPositions, Pos

\* Keys stay known.
LEMMA KeysStep ==
  ASSUME "code" \notin Faults, "buf" \notin Faults, IInv, KInv, [Next]_vars
  PROVE  KeysKnown'
<1>1. ASSUME NEW t \in Threads, threadFunction(t) PROVE KeysKnown'
  <2>1. code = "loaded" /\ UNCHANGED file
    BY <1>1, LoadedInUse, ThreadFrame DEF KInv
  <2>2. ASSUME NEW u \in Threads, pc'[u] \in PrimeInHand
        PROVE  /\ Number(u)' = Number(u)
               /\ Number(u)' \in Primes
               /\ pc'[u] \in {"lockFound", "setFound"} => Number(u)' \in Keys
    <3>1. Number(u)' = Number(u)
      BY <1>1, <2>1, <2>2, CurKept DEF Number, IInv
    <3> QED
      BY <1>1, <2>1, <2>2, <3>1, HandTaken DEF KInv, KeysKnown, IInv
  <2>3. ASSUME ~pFound', NEW p \in KeyPositions', tested'[p] = 1
        PROVE  \E u \in Threads : pc'[u] \in PrimeInHand /\ Cur(u)' = p
    <3>1. ~pFound /\ p \in KeyPositions /\ p \in Pos
      BY <1>1, <2>1, <2>3, ThreadFrame, InputKept DEF KeyPositions, InputPrefix
    <3>2. CASE tested[p] = 1
      <4>1. PICK u \in Threads : pc[u] \in PrimeInHand /\ Cur(u) = p
        BY <3>1, <3>2 DEF KInv, KeysKnown
      <4>2. Number(u) \in Keys
        BY <3>1, <4>1 DEF Number, KeyPositions
      <4> QED
        BY <1>1, <2>1, <2>3, <4>1, <4>2, HandKept DEF IInv
    <3>3. CASE tested[p] # 1
      <4>1. IsPrime(t) /\ p = Cur(t)
        BY <1>1, <2>3, <3>1, <3>3, ThreadFrame DEF IsPrime, IInv, TypeOK
      <4>2. Number(t) \in Primes
        BY <3>1, <4>1 DEF KeyPositions, Number
      <4>3. pc'[t] = "alloc" /\ Cur(t)' = Cur(t)
        BY <4>1, <4>2 DEF IsPrime, Step, IInv, TypeOK, Cur
      <4> QED
        BY <4>1, <4>3 DEF PrimeInHand
    <3> QED
      BY <3>2, <3>3
  <2>4. \A u \in Threads : pc'[u] \in {"lockFound", "setFound"} => pc'[u] \in PrimeInHand
    BY DEF PrimeInHand
  <2> QED
    BY <2>2, <2>3, <2>4 DEF KeysKnown
<1>2. CASE main \/ UNCHANGED vars
  <2>1. /\ UNCHANGED <<file, tested, pFound, auiNumbers, iIndex>>
        /\ \A u \in Threads : pc'[u] = pc[u] \/ (pc[u] = "idle" /\ pc'[u] = "lockFile")
    BY <1>2, MainFrame DEF IInv, vars, shared, locals
  <2>2. \A u \in Threads : pc'[u] \in PrimeInHand <=> pc[u] \in PrimeInHand
    BY <2>1 DEF PrimeInHand
  <2>3. \A u \in Threads : pc'[u] \in {"lockFound", "setFound"} => pc[u] = pc'[u]
    BY <2>1
  <2>4. \A u \in Threads : Cur(u)' = Cur(u) /\ Number(u)' = Number(u)
    BY <2>1 DEF Cur, Number
  <2> QED
    BY <2>1, <2>2, <2>3, <2>4, InputKept DEF KInv, KeysKnown
<1> QED
  BY <1>1, <1>2 DEF Next, Ended

\* The addition to the invariant holds at the start and is preserved.
LEMMA KInvHolds ==
  ASSUME "code" \notin Faults, "buf" \notin Faults
  PROVE  Spec => [](IInv /\ KInv)
<1>1. Init => KInv
  BY DEF Init, KInv, CodeUsable, CodeLoaded, KeysKnown, PrimeInHand, KeyPositions,
         InputPrefix, Pos
<1>2. IInv /\ KInv /\ [Next]_vars => KInv'
  BY CodeStep, LoadedStep, KeysStep DEF KInv
<1> QED
  BY <1>1, <1>2, Invariance, PTL DEF Spec

\* When both threads are through and none found a key, there was none.
LEMMA NothingLeft ==
  ASSUME IInv, KInv, pc[1] = "done", pc[2] \in {"idle", "done"}, ~pFound
  PROVE  KeyPositions = {} /\ \A p \in InputPrefix : tested[p] = 1
<1>1. \A p \in InputPrefix : tested[p] = 1
  BY AllTested
<1>2. \A t \in Threads : pc[t] \notin PrimeInHand
  BY DEF Threads, PrimeInHand
<1> QED
  BY <1>1, <1>2 DEF KInv, KeysKnown, KeyPositions

\* The number in hand is part of the input before its first junk.
LEMMA HandInPrefix ==
  ASSUME IInv, NEW t \in Threads, pc[t] \in HasNumber
  PROVE  Cur(t) \in InputPrefix
<1>1. Cur(t) \in 1..fpos-1 /\ Cur(t) \in Pos
  BY CurFacts DEF IInv
<1>2. \A q \in 1..Cur(t) : file[q] \in Numbers
  BY <1>1, FileType DEF IInv, TypeOK, BatchesRead, Pos
<1> QED
  BY <1>1, <1>2 DEF InputPrefix

\* isPrime is called for a number that has not been through it.
LEMMA TestedInHand ==
  ASSUME IInv, NEW t \in Threads, threadFunction(t), IsPrime(t)
  PROVE  Cur(t) \in InputPrefix /\ tested[Cur(t)] = 0
<1>1. Cur(t) \in Pending(t)
  <2>1. ~Scanned(t)
    BY DEF IsPrime, Scanned, NextIndex, Step
  <2> QED
    BY <2>1, PendingActor DEF IInv
<1>2. pc[t] \in HasNumber
  BY DEF IsPrime, NextIndex, Step, HasNumber, BeforeTest
<1> QED
  BY <1>1, <1>2, HandInPrefix DEF IInv, TestedOnce

\* Every step of the program is a step of the search, or none.
LEMMA SearchStep ==
  ASSUME IInv, KInv, IInv', KInv', [Next]_vars
  PROVE  [Search!Next]_(Search!vars)
<1> DEFINE Todo == {p \in InputPrefix : tested[p] = 0}
<1>1. ASSUME NEW t \in Threads, threadFunction(t)
      PROVE  [Search!Next]_(Search!vars)
  <2>1. UNCHANGED file /\ AllJoined = FALSE /\ AllJoined' = FALSE
    <3>1. UNCHANGED exitCode /\ pcMain' \in {pcMain, "crashed"}
      BY <1>1 DEF threadFunction, LockFile, CheckFound, Scan, Scanned, UnlockFile, LockCheck,
         Check, UnlockCheck, UnlockExit, IsPrime, Alloc, LockList, Link, Publish,
         UnlockList, DecBuf, TryKey, LockFound, SetFound, UnlockFound, OpenPlain,
         WritePlain, OpenHash, WriteHash, NextIndex, Step, shared, locals
    <3> QED
      BY <1>1, <3>1, LoadedInUse, ThreadFrame DEF KInv, AllJoined
  <2>2. InputPrefix' = InputPrefix /\ KeyPositions' = KeyPositions
    BY <2>1, InputKept
  <2>3. CASE IsPrime(t)
    <3>1. pc[t] = "isPrime" /\ tested' = [tested EXCEPT ![Cur(t)] = @ + 1] /\ UNCHANGED pFound
      BY <2>3 DEF IsPrime, NextIndex, Step, shared
    <3>2. Cur(t) \in InputPrefix /\ tested[Cur(t)] = 0
      BY <1>1, <2>3, TestedInHand
    <3>3. Todo' = Todo \ {Cur(t)} /\ Cur(t) \in Todo
      BY <2>2, <3>1, <3>2 DEF IInv, TypeOK, InputPrefix
    <3> QED
      BY <2>1, <2>2, <3>1, <3>3 DEF Search!Next, Search!Examine, KeyPositions
  <2>4. CASE SetFound(t)
    <3>1. pc[t] = "setFound" /\ pFound' = TRUE /\ UNCHANGED tested
      BY <2>4 DEF SetFound, Step
    <3>2. Cur(t) \in KeyPositions
      BY <3>1, HandInPrefix DEF HasNumber, PrimeInHand, KInv, KeysKnown, KeyPositions, Number
    <3>3. tested[Cur(t)] = 1
      BY <3>1 DEF IInv, NodesLinked, PrimeInHand
    <3>4. Cur(t) \in KeyPositions \ Todo /\ Todo' = Todo
      BY <2>2, <3>1, <3>2, <3>3
    <3> QED
      BY <2>1, <2>2, <3>1, <3>4 DEF Search!Next, Search!Find, KeyPositions
  <2>5. CASE ~IsPrime(t) /\ ~SetFound(t)
    <3>1. UNCHANGED <<tested, pFound>>
      BY <1>1, <2>5 DEF threadFunction, LockFile, CheckFound, Scan, Scanned, UnlockFile,
         LockCheck, Check, UnlockCheck, UnlockExit, IsPrime, Alloc, LockList, Link, Publish,
         UnlockList, DecBuf, TryKey, LockFound, SetFound, UnlockFound, OpenPlain,
         WritePlain, OpenHash, WriteHash, shared, locals
    <3>2. Todo' = Todo
      BY <2>2, <3>1
    <3> QED
      BY <2>1, <2>2, <3>1, <3>2 DEF Search!vars, KeyPositions
  <2> QED
    BY <2>3, <2>4, <2>5
<1>2. CASE main \/ UNCHANGED vars
  <2>1. UNCHANGED <<file, tested, pFound>>
    BY <1>2, MainFrame DEF IInv, vars, shared
  <2>2. InputPrefix' = InputPrefix /\ KeyPositions' = KeyPositions /\ Todo' = Todo
    BY <2>1, InputKept
  <2>3. CASE AllJoined' = AllJoined
    BY <2>1, <2>2, <2>3 DEF Search!vars, KeyPositions
  <2>4. CASE AllJoined' # AllJoined
    <3>1. AllJoined = FALSE /\ AllJoined' = TRUE /\ pc[1] = "done" /\ pc[2] \in {"idle", "done"}
      BY <1>2, <2>4 DEF main, LoadCode, OpenInput, Create1, Create2, JoinOnly1, Join1, Join2,
         FreeNode, ReturnMain, MainStep, Return, AllJoined, vars, IInv, MainWaits
    <3>2. pFound \/ (Todo = {} /\ KeyPositions = {})
      BY <3>1, NothingLeft
    <3> QED
      BY <2>1, <2>2, <3>1, <3>2 DEF Search!Next, Search!Stop, KeyPositions
  <2> QED
    BY <2>3, <2>4
<1> QED
  BY <1>1, <1>2 DEF Next, Ended

\* The program of the two threads implements the search.
THEOREM Implements ==
  ASSUME "code" \notin Faults, "buf" \notin Faults
  PROVE  Spec => ImplementsSearch
<1>1. Init => Search!Init
  <2> SUFFICES ASSUME Init PROVE Search!Init
    OBVIOUS
  <2>1. Pos \subseteq Nat \ {0}
    BY TypeInit, FileType DEF Pos
  <2>2. InputPrefix \subseteq Pos /\ \A p \in InputPrefix : tested[p] = 0
    BY DEF Init, InputPrefix, Pos
  <2>3. AllJoined = FALSE
    BY DEF Init, AllJoined
  <2>4. {p \in InputPrefix : tested[p] = 0} = InputPrefix
    BY <2>2
  <2> QED
    BY <2>1, <2>2, <2>3, <2>4 DEF Init, Search!Init
<1>2. IInv /\ KInv /\ IInv' /\ KInv' /\ [Next]_vars => [Search!Next]_(Search!vars)
  BY SearchStep
<1> QED
  BY <1>1, <1>2, KInvHolds, PTL DEF Spec, ImplementsSearch, Search!Spec

(***************************************************************************)
(* What the threads leave in the two files, if these can be written and    *)
(* the input holds one key value.                                          *)
(***************************************************************************)
\* What the key positions hold, and that no input has two such values.
KeyValues == {file[p] : p \in KeyPositions}
OneKey    == \A f \in Files : \A p, q \in 1..Len(f) :
               {f[p], f[q]} \subseteq Primes \cap Keys => f[p] = f[q]

\* The labels before the text is in its file.
TextToCome == {"unlockFound", "openPlain", "writePlain"}

\* The flag is up for a key, and a thread that saves has a key in hand.
FoundForKey ==
  /\ pFound => KeyPositions # {}
  /\ \A t \in Threads : pc[t] \in Saving => Cur(t) \in KeyPositions

\* The text is in its file, or a thread is on its way to put it there.
PlainSoon ==
  /\ ~pFound => plain = Absent
  /\ pFound => plain \in KeyValues \/ \E t \in Threads : pc[t] \in TextToCome

\* The same for the checksum; its file has been emptied before it is written.
HashSoon ==
  /\ ~pFound => hash = Absent
  /\ pFound => (\E v \in KeyValues : hash = <<v>>) \/ \E t \in Threads : pc[t] \in Saving
  /\ \A t \in Threads : pc[t] = "writeHash" =>
       hash = <<>> \/ \E v \in KeyValues : hash = <<v>>

DInv == FoundForKey /\ PlainSoon /\ HashSoon

\* With one key value in the input all key positions hold it.
LEMMA SameValue ==
  ASSUME OneKey, TypeOK, NEW v \in KeyValues, NEW w \in KeyValues
  PROVE  v = w
<1>1. PICK p \in KeyPositions, q \in KeyPositions : v = file[p] /\ w = file[q]
  BY DEF KeyValues
<1>2. p \in 1..Len(file) /\ q \in 1..Len(file) /\ file \in Files
  BY DEF KeyPositions, InputPrefix, Pos, TypeOK
<1>3. {file[p], file[q]} \subseteq Primes \cap Keys
  BY DEF KeyPositions
<1> QED
  BY <1>1, <1>2, <1>3 DEF OneKey

\* A thread begins to save when it sets the flag, and keeps its number.
LEMMA SavingKept ==
  ASSUME TypeOK, NEW t \in Threads, threadFunction(t),
         NEW u \in Threads, pc'[u] \in Saving
  PROVE  /\ Cur(u)' = Cur(u)
         /\ pc[u] \in Saving \/ (u = t /\ SetFound(t))
BY DEF threadFunction, LockFile, CheckFound, Scan, Scanned, UnlockFile, LockCheck,
       Check, UnlockCheck, UnlockExit, IsPrime, Alloc, LockList, Link, Publish,
       UnlockList, DecBuf, TryKey, LockFound, SetFound, UnlockFound, OpenPlain,
       WritePlain, OpenHash, WriteHash, NextIndex, Step, shared, locals, TypeOK, Cur,
       Saving

\* A thread at setFound has a key in hand.
LEMMA FoundIsKey ==
  ASSUME IInv, KInv, NEW t \in Threads, pc[t] = "setFound"
  PROVE  Cur(t) \in KeyPositions
<1>1. Cur(t) \in InputPrefix
  BY HandInPrefix DEF HasNumber, PrimeInHand
<1> QED
  BY <1>1 DEF PrimeInHand, KInv, KeysKnown, KeyPositions, Number

\* What a thread writes is the key in its hand.
LEMMA TextIsKey ==
  ASSUME IInv, KInv, FoundForKey, NEW t \in Threads, threadFunction(t), pc[t] \in Saving
  PROVE  Text(t) \in KeyValues
<1>1. code = "loaded"
  BY LoadedInUse DEF KInv
<1>2. Cur(t) \in KeyPositions
  BY DEF FoundForKey
<1> QED
  BY <1>1, <1>2 DEF Text, Number, KeyValues

\* Only SetFound raises the flag, and only four actions touch the files.
LEMMA FilesFrame ==
  ASSUME NEW t \in Threads, threadFunction(t)
  PROVE  /\ ~SetFound(t) => UNCHANGED pFound
         /\ ~OpenPlain(t) /\ ~WritePlain(t) => UNCHANGED plain
         /\ ~OpenHash(t) /\ ~WriteHash(t) => UNCHANGED hash
BY DEF threadFunction, LockFile, CheckFound, Scan, Scanned, UnlockFile, LockCheck,
       Check, UnlockCheck, UnlockExit, IsPrime, Alloc, LockList, Link, Publish,
       UnlockList, DecBuf, TryKey, LockFound, SetFound, UnlockFound, OpenPlain,
       WritePlain, OpenHash, WriteHash, shared, locals

\* Where a thread's step leads from the labels of saving.
LEMMA SavingMoves ==
  ASSUME TypeOK, "fopen" \notin Faults, NEW t \in Threads, threadFunction(t), NEW u \in Threads
  PROVE  /\ pc[u] \in TextToCome => pc'[u] \in TextToCome \/ (u = t /\ WritePlain(t))
         /\ pc[u] \in Saving => pc'[u] \in Saving \/ (u = t /\ WriteHash(t))
         /\ pc'[u] = "writeHash" => pc[u] = "writeHash" \/ OpenHash(t)
BY DEF threadFunction, LockFile, CheckFound, Scan, Scanned, UnlockFile, LockCheck,
       Check, UnlockCheck, UnlockExit, IsPrime, Alloc, LockList, Link, Publish,
       UnlockList, DecBuf, TryKey, LockFound, SetFound, UnlockFound, OpenPlain,
       WritePlain, OpenHash, WriteHash, NextIndex, Step, TypeOK, Saving, TextToCome

\* A thread's step keeps the files right.
LEMMA DeliveryThread ==
  ASSUME OneKey, "fopen" \notin Faults, IInv, KInv, DInv, NEW t \in Threads, threadFunction(t)
  PROVE  DInv'
<1>1. UNCHANGED file /\ KeyPositions' = KeyPositions /\ KeyValues' = KeyValues
  BY ThreadFrame, InputKept DEF KeyValues
<1>2. TypeOK
  BY DEF IInv
<1>3. SetFound(t) => pc[t] = "setFound" /\ pc'[t] = "unlockFound" /\ pFound'
                     /\ Cur(t) \in KeyPositions
  BY <1>2, FoundIsKey DEF SetFound, Step, TypeOK
<1>4. \A u \in Threads : pc[u] \in Saving => pFound
  BY DEF IInv, StoppedAtEnd
<1>5. FoundForKey'
  <2>1. pFound' => KeyPositions # {}
    BY <1>3, FilesFrame DEF DInv, FoundForKey
  <2>2. ASSUME NEW u \in Threads, pc'[u] \in Saving
        PROVE  Cur(u)' \in KeyPositions
    BY <1>2, <1>3, <2>2, SavingKept DEF DInv, FoundForKey
  <2> QED
    BY <1>1, <2>1, <2>2 DEF FoundForKey
<1>6. PlainSoon'
  <2>1. CASE SetFound(t)
    BY <1>3, <2>1 DEF PlainSoon, TextToCome
  <2>2. CASE OpenPlain(t)
    <3>1. pc[t] = "openPlain" /\ pc'[t] = "writePlain" /\ UNCHANGED pFound
      BY <1>2, <2>2 DEF OpenPlain, Step, TypeOK
    <3> QED
      BY <1>4, <3>1 DEF PlainSoon, TextToCome, Saving
  <2>3. CASE WritePlain(t)
    <3>1. pc[t] = "writePlain" /\ plain' = Text(t) /\ UNCHANGED pFound
      BY <2>3 DEF WritePlain, Step
    <3> QED
      BY <1>1, <1>4, <3>1, TextIsKey DEF DInv, PlainSoon, Saving
  <2>4. CASE ~SetFound(t) /\ ~OpenPlain(t) /\ ~WritePlain(t)
    BY <1>1, <1>2, <2>4, FilesFrame, SavingMoves DEF DInv, PlainSoon
  <2> QED
    BY <2>1, <2>2, <2>3, <2>4
<1>7. HashSoon'
  <2>1. CASE SetFound(t)
    <3>1. UNCHANGED hash /\ \A u \in Threads : pc'[u] = "writeHash" => pc[u] = "writeHash"
      BY <1>2, <2>1 DEF SetFound, Step, TypeOK
    <3> QED
      BY <1>1, <1>3, <2>1, <3>1 DEF DInv, HashSoon, Saving
  <2>2. CASE OpenHash(t)
    <3>1. pc[t] = "openHash" /\ pc'[t] = "writeHash" /\ hash' = <<>> /\ UNCHANGED pFound
      BY <1>2, <2>2 DEF OpenHash, Step, TypeOK
    <3> QED
      BY <1>4, <3>1 DEF HashSoon, Saving
  <2>3. CASE WriteHash(t)
    <3>1. pc[t] = "writeHash" /\ UNCHANGED pFound
      BY <2>3 DEF WriteHash, Step
    <3>2. Text(t) \in KeyValues
      BY <3>1, TextIsKey DEF DInv, Saving
    <3>3. hash = <<>> \/ hash = <<Text(t)>>
      BY <1>2, <3>1, <3>2, SameValue DEF DInv, HashSoon
    <3>4. hash' = <<Text(t)>>
      BY <2>3, <3>3 DEF WriteHash
    <3> QED
      BY <1>1, <1>4, <3>1, <3>2, <3>4 DEF HashSoon, Saving
  <2>4. CASE ~SetFound(t) /\ ~OpenHash(t) /\ ~WriteHash(t)
    BY <1>1, <1>2, <2>4, FilesFrame, SavingMoves DEF DInv, HashSoon
  <2> QED
    BY <2>1, <2>2, <2>3, <2>4
<1> QED
  BY <1>5, <1>6, <1>7 DEF DInv

\* main leaves the files alone, and starts threads only.
LEMMA DeliveryMain ==
  ASSUME IInv, DInv, main \/ UNCHANGED vars
  PROVE  DInv'
<1>1. /\ UNCHANGED <<file, hash, plain, pFound, auiNumbers, iIndex>>
      /\ \A u \in Threads : pc'[u] = pc[u] \/ (pc[u] = "idle" /\ pc'[u] = "lockFile")
  BY MainFrame DEF IInv, vars, shared, locals, main, LoadCode, OpenInput, Create1, Create2,
     JoinOnly1, Join1, Join2, FreeNode, ReturnMain
<1>2. \A u \in Threads : /\ pc'[u] \in Saving <=> pc[u] \in Saving
                         /\ pc'[u] \in TextToCome <=> pc[u] \in TextToCome
                         /\ pc'[u] = "writeHash" <=> pc[u] = "writeHash"
  BY <1>1 DEF Saving, TextToCome
<1>3. KeyPositions' = KeyPositions /\ KeyValues' = KeyValues
  BY <1>1, InputKept DEF KeyValues
<1>4. \A u \in Threads : Cur(u)' = Cur(u)
  BY <1>1 DEF Cur
<1>5. FoundForKey'
  BY <1>1, <1>2, <1>3, <1>4 DEF DInv, FoundForKey
<1>6. PlainSoon'
  BY <1>1, <1>2, <1>3 DEF DInv, PlainSoon
<1>7. HashSoon'
  BY <1>1, <1>2, <1>3 DEF DInv, HashSoon
<1> QED
  BY <1>5, <1>6, <1>7 DEF DInv

\* KeyDelivered: when the threads are joined, the flag is up exactly if the
\* input holds a key, and then both files are complete and about it.
THEOREM Delivered ==
  ASSUME OneKey, {"code", "buf", "fopen"} \cap Faults = {}
  PROVE  Spec => []KeyDelivered
<1>1. Init => DInv
  BY DEF Init, DInv, FoundForKey, PlainSoon, HashSoon, Saving, TextToCome
<1>2. IInv /\ KInv /\ DInv /\ [Next]_vars => DInv'
  BY DeliveryThread, DeliveryMain DEF Next, Ended
<1>3. IInv /\ KInv /\ DInv => KeyDelivered
  <2> SUFFICES ASSUME IInv, KInv, DInv, AllJoined PROVE
        /\ pFound <=> KeyPositions # {}
        /\ IF pFound THEN plain \in Keys /\ hash = <<plain>>
                     ELSE plain = Absent /\ hash = Absent
    BY DEF KeyDelivered, KeyPositions
  <2>1. pc[1] = "done" /\ pc[2] \in {"idle", "done"}
    BY DEF IInv, MainWaits, AllJoined
  <2>2. \A t \in Threads : pc[t] \notin Saving /\ pc[t] \notin TextToCome
    BY <2>1 DEF Threads, Saving, TextToCome
  <2>3. pFound <=> KeyPositions # {}
    BY <2>1, NothingLeft DEF DInv, FoundForKey
  <2>4. CASE ~pFound
    BY <2>4, <2>3 DEF DInv, PlainSoon, HashSoon
  <2>5. CASE pFound
    <3>1. plain \in KeyValues /\ \E v \in KeyValues : hash = <<v>>
      BY <2>2, <2>5 DEF DInv, PlainSoon, HashSoon
    <3>2. hash = <<plain>>
      BY <3>1, SameValue DEF IInv
    <3>3. plain \in Keys
      BY <3>1 DEF KeyValues, KeyPositions
    <3> QED
      BY <2>3, <2>5, <3>2, <3>3
  <2> QED
    BY <2>4, <2>5
<1>4. Spec => [](IInv /\ KInv)
  BY KInvHolds
<1> QED
  BY <1>1, <1>2, <1>3, <1>4, PTL DEF Spec
=============================================================================

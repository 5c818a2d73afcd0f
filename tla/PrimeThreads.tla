---------------------------- MODULE PrimeThreads ----------------------------
(***************************************************************************)
(* The worker threads of task4_307/task4_threads.c.                        *)
(*                                                                         *)
(* Two threads run threadFunction on one struct THREADARGS: they read      *)
(* batches of numbers from one FILE, link every prime into one list, try   *)
(* every prime as an XTEA key, and the thread whose key decrypts the code  *)
(* file to a text starting with "BENGT" sets *pFound and saves the text    *)
(* and its checksum.  main creates the threads, joins them and frees what  *)
(* they share.                                                             *)
(*                                                                         *)
(* A number of the input is known by its position in the file, so that two *)
(* equal numbers stay apart.  What isPrime and the decryption compute is   *)
(* given by the constants Primes and Keys.                                 *)
(***************************************************************************)
EXTENDS Integers, Sequences, Functions, TLC

CONSTANTS
  Numbers,   \* the unsigned ints that occur in the input
  Primes,    \* those isPrime returns nonzero for
  Keys,      \* those that decrypt the code file to a text starting "BENGT"
  Junk,      \* a token "%u" does not match
  Files,     \* the contents the input file may have
  Batch,     \* length of auiNumbers, 10 in the code
  Faults,    \* the calls that may fail (see FaultNames)
  NoThread, Absent, Empty

FaultNames == {"code", "open", "create1", "create2", "node", "buf", "fopen"}

ASSUME ConstantsAssumption ==
  /\ Primes \subseteq Numbers
  /\ Keys \subseteq Numbers
  /\ Junk \notin Numbers
  /\ Files \subseteq Seq(Numbers \cup {Junk})
  /\ Batch \in Nat \ {0}
  /\ Faults \subseteq FaultNames
  /\ NoThread \notin {1, 2}
  /\ {Absent, Empty} \cap Numbers = {}

Threads == {1, 2}
Mutexes == {"file", "list", "found"}

VARIABLES
  pcMain,        \* where main is
  exitCode,      \* what main returned
  file,          \* content of the file behind fInputFile
  fpos,          \* read position of fInputFile
  code,          \* pCodeBuf: "loaded", "empty" (no file), "null", "freed"
  mutex,         \* holder of *pMutexFile, *pMutexList, *pMutexFound
  pFound,        \* *pFound
  pPrimeList,    \* the list from its head, a node known by its position
  nodes,         \* PGPRIMENUMBER blocks malloc'ed and not yet freed
  plain,         \* task4_plain.txt: the text, known by the key it came from
  hash,          \* task4_plain.hash: the texts whose checksum it has digits of
  pc,            \* where each thread is
  auiNumbers, iNumbersRead, iIndex,   \* locals of threadFunction
  newNode,       \* the node a thread has allocated and not linked, or 0
  newNext,       \* newNode->next, as the list it points to
  tested         \* history: how often each position went through isPrime

locals == <<auiNumbers, iNumbersRead, iIndex, newNode, newNext>>
shared == <<file, fpos, code, mutex, pFound, pPrimeList, nodes, plain, hash>>
vars   == <<pcMain, exitCode, shared, pc, locals, tested>>

Cur(t)      == auiNumbers[t][iIndex[t]]   \* position of the number in hand
Number(t)   == file[Cur(t)]
Readable(p) == p <= Len(file) /\ file[p] \in Numbers
Alive       == pcMain # "crashed"

\* The text in decBuf; without a code file it has no bytes.
Text(t) == IF code = "loaded" THEN Number(t) ELSE Empty

Init ==
  /\ pcMain = "load" /\ exitCode = -1
  /\ file \in Files /\ fpos = 1
  /\ code = "empty"
  /\ mutex = [m \in Mutexes |-> NoThread]
  /\ pFound = FALSE
  /\ pPrimeList = <<>> /\ nodes = {}
  /\ plain = Absent /\ hash = Absent
  /\ pc = [t \in Threads |-> "idle"]
  /\ auiNumbers = [t \in Threads |-> [i \in 0..Batch-1 |-> 0]]
  /\ iNumbersRead = [t \in Threads |-> 0]
  /\ iIndex = [t \in Threads |-> 0]
  /\ newNode = [t \in Threads |-> 0]
  /\ newNext = [t \in Threads |-> <<>>]
  /\ tested = [p \in 1..Len(file) |-> 0]

(***************************************************************************)
(* Steps of a thread.  Step(t, l, k) moves thread t from label l to k.     *)
(***************************************************************************)
Step(t, l, k) ==
  /\ Alive
  /\ pc[t] = l
  /\ pc' = [pc EXCEPT ![t] = k]

Lock(t, m) == mutex[m] = NoThread /\ mutex' = [mutex EXCEPT ![m] = t]
Unlock(m)  == mutex' = [mutex EXCEPT ![m] = NoThread]

\* A slip: the last number of a batch is left out.
NextIndex_SkipsLast(t, l) ==
  /\ Step(t, l, IF iIndex[t] + 2 < iNumbersRead[t] THEN "lockCheck" ELSE "lockFile")
  /\ iIndex' = [iIndex EXCEPT ![t] = @ + 1]

\* The increment and test of the for loop: the next number, or a new batch.
NextIndex(t, l) ==
  /\ Step(t, l, IF iIndex[t] + 1 < iNumbersRead[t] THEN "lockCheck" ELSE "lockFile")
  /\ iIndex' = [iIndex EXCEPT ![t] = @ + 1]

\* A slip: a batch is read without the file mutex.
LockFile_NoLock(t) ==
  /\ Step(t, "lockFile", "checkFound")
  /\ iNumbersRead' = [iNumbersRead EXCEPT ![t] = 0]
  /\ UNCHANGED <<pcMain, exitCode, file, fpos, code, mutex, pFound, pPrimeList,
                 nodes, plain, hash, auiNumbers, iIndex, newNode, newNext, tested>>

LockFile(t) ==
  /\ Step(t, "lockFile", "checkFound")
  /\ Lock(t, "file")
  /\ iNumbersRead' = [iNumbersRead EXCEPT ![t] = 0]
  /\ UNCHANGED <<pcMain, exitCode, file, fpos, code, pFound, pPrimeList, nodes,
                 plain, hash, auiNumbers, iIndex, newNode, newNext, tested>>

CheckFound(t) ==
  /\ Step(t, "checkFound", IF pFound THEN "unlockExit" ELSE "scan")
  /\ UNCHANGED <<pcMain, exitCode, shared, locals, tested>>

\* A slip: one number more than the batch holds.
Scan_OffByOne(t) ==
  /\ IF iNumbersRead[t] <= Batch /\ Readable(fpos)
     THEN /\ Step(t, "scan", "scanned")
          /\ auiNumbers' = [auiNumbers EXCEPT ![t] = (iNumbersRead[t] :> fpos) @@ @]
     ELSE Step(t, "scan", "unlockFile") /\ UNCHANGED auiNumbers
  /\ UNCHANGED <<pcMain, exitCode, shared, iNumbersRead, iIndex, newNode,
                 newNext, tested>>

\* fscanf is two steps, taking the number and moving the position: nothing
\* here relies on the C library locking the stream.
Scan(t) ==
  /\ IF iNumbersRead[t] < Batch /\ Readable(fpos)
     THEN /\ Step(t, "scan", "scanned")
          /\ auiNumbers' = [auiNumbers EXCEPT ![t][iNumbersRead[t]] = fpos]
     ELSE Step(t, "scan", "unlockFile") /\ UNCHANGED auiNumbers
  /\ UNCHANGED <<pcMain, exitCode, shared, iNumbersRead, iIndex, newNode,
                 newNext, tested>>

Scanned(t) ==
  /\ Step(t, "scanned", "scan")
  /\ fpos' = auiNumbers[t][iNumbersRead[t]] + 1
  /\ iNumbersRead' = [iNumbersRead EXCEPT ![t] = @ + 1]
  /\ UNCHANGED <<pcMain, exitCode, file, code, mutex, pFound, pPrimeList, nodes,
                 plain, hash, auiNumbers, iIndex, newNode, newNext, tested>>

\* A slip: a short batch is taken for the end of the input.
UnlockFile_ShortIsEnd(t) ==
  /\ Step(t, "unlockFile", IF iNumbersRead[t] < Batch THEN "done" ELSE "lockCheck")
  /\ Unlock("file")
  /\ iIndex' = [iIndex EXCEPT ![t] = 0]
  /\ UNCHANGED <<pcMain, exitCode, file, fpos, code, pFound, pPrimeList, nodes,
                 plain, hash, auiNumbers, iNumbersRead, newNode, newNext, tested>>

\* A slip: the break out of the loop comes before the unlock.
UnlockFile_AfterBreak(t) ==
  /\ Step(t, "unlockFile", IF iNumbersRead[t] = 0 THEN "done" ELSE "lockCheck")
  /\ IF iNumbersRead[t] = 0 THEN UNCHANGED mutex ELSE Unlock("file")
  /\ iIndex' = [iIndex EXCEPT ![t] = 0]
  /\ UNCHANGED <<pcMain, exitCode, file, fpos, code, pFound, pPrimeList, nodes,
                 plain, hash, auiNumbers, iNumbersRead, newNode, newNext, tested>>

UnlockFile(t) ==
  /\ Step(t, "unlockFile", IF iNumbersRead[t] = 0 THEN "done" ELSE "lockCheck")
  /\ Unlock("file")
  /\ iIndex' = [iIndex EXCEPT ![t] = 0]
  /\ UNCHANGED <<pcMain, exitCode, file, fpos, code, pFound, pPrimeList, nodes,
                 plain, hash, auiNumbers, iNumbersRead, newNode, newNext, tested>>

LockCheck(t) ==
  /\ Step(t, "lockCheck", "check")
  /\ Lock(t, "file")
  /\ UNCHANGED <<pcMain, exitCode, file, fpos, code, pFound, pPrimeList, nodes,
                 plain, hash, locals, tested>>

\* A slip: the flag is looked at once per batch only.
Check_Never(t) ==
  /\ Step(t, "check", "unlockCheck")
  /\ UNCHANGED <<pcMain, exitCode, shared, locals, tested>>

Check(t) ==
  /\ Step(t, "check", IF pFound THEN "unlockExit" ELSE "unlockCheck")
  /\ UNCHANGED <<pcMain, exitCode, shared, locals, tested>>

UnlockCheck(t) ==
  /\ Step(t, "unlockCheck", "isPrime")
  /\ Unlock("file")
  /\ UNCHANGED <<pcMain, exitCode, file, fpos, code, pFound, pPrimeList, nodes,
                 plain, hash, locals, tested>>

UnlockExit(t) ==
  /\ Step(t, "unlockExit", "done")
  /\ Unlock("file")
  /\ UNCHANGED <<pcMain, exitCode, file, fpos, code, pFound, pPrimeList, nodes,
                 plain, hash, locals, tested>>

IsPrime(t) ==
  /\ \/ /\ Step(t, "isPrime", "alloc")
        /\ Number(t) \in Primes
        /\ UNCHANGED iIndex
     \/ /\ NextIndex(t, "isPrime")
        /\ Number(t) \notin Primes
  /\ tested' = [tested EXCEPT ![Cur(t)] = @ + 1]
  /\ UNCHANGED <<pcMain, exitCode, shared, auiNumbers, iNumbersRead, newNode,
                 newNext>>

\* malloc of the list node; when it fails the prime is still tried as a key.
Alloc(t) ==
  /\ \/ /\ Step(t, "alloc", "lockList")
        /\ nodes' = nodes \cup {Cur(t)}
        /\ newNode' = [newNode EXCEPT ![t] = Cur(t)]
     \/ /\ "node" \in Faults
        /\ Step(t, "alloc", "decBuf")
        /\ UNCHANGED <<nodes, newNode>>
  /\ UNCHANGED <<pcMain, exitCode, file, fpos, code, mutex, pFound, pPrimeList,
                 plain, hash, auiNumbers, iNumbersRead, iIndex, newNext, tested>>

\* A slip: the node is linked without the list mutex.
LockList_NoLock(t) ==
  /\ Step(t, "lockList", "link")
  /\ UNCHANGED <<pcMain, exitCode, shared, locals, tested>>

LockList(t) ==
  /\ Step(t, "lockList", "link")
  /\ Lock(t, "list")
  /\ UNCHANGED <<pcMain, exitCode, file, fpos, code, pFound, pPrimeList, nodes,
                 plain, hash, locals, tested>>

Link(t) ==
  /\ Step(t, "link", "publish")
  /\ newNext' = [newNext EXCEPT ![t] = pPrimeList]
  /\ UNCHANGED <<pcMain, exitCode, shared, auiNumbers, iNumbersRead, iIndex,
                 newNode, tested>>

\* A node is never written after it is linked, so the pointer newNode stands
\* for the node followed by the list its next field points to.
Publish(t) ==
  /\ Step(t, "publish", "unlockList")
  /\ pPrimeList' = <<newNode[t]>> \o newNext[t]
  /\ newNode' = [newNode EXCEPT ![t] = 0]
  /\ UNCHANGED <<pcMain, exitCode, file, fpos, code, mutex, pFound, nodes, plain,
                 hash, auiNumbers, iNumbersRead, iIndex, newNext, tested>>

UnlockList(t) ==
  /\ Step(t, "unlockList", "decBuf")
  /\ Unlock("list")
  /\ UNCHANGED <<pcMain, exitCode, file, fpos, code, pFound, pPrimeList, nodes,
                 plain, hash, locals, tested>>

\* malloc of the decryption buffer; when it fails the key is skipped.
DecBuf(t) ==
  /\ \/ Step(t, "decBuf", "tryKey") /\ UNCHANGED iIndex
     \/ "buf" \in Faults /\ NextIndex(t, "decBuf")
  /\ UNCHANGED <<pcMain, exitCode, shared, auiNumbers, iNumbersRead, newNode,
                 newNext, tested>>

\* Decrypt and compare.  Without a code file iCodeSize is 0 and memcmp reads
\* bytes nobody wrote, so either outcome is possible; with a null pCodeBuf
\* memcpy reads through it and the process dies.
TryKey(t) ==
  /\ \/ /\ Step(t, "tryKey", "lockFound")
        /\ code = "empty" \/ (code = "loaded" /\ Number(t) \in Keys)
        /\ UNCHANGED <<pcMain, iIndex>>
     \/ /\ NextIndex(t, "tryKey")
        /\ code = "empty" \/ (code = "loaded" /\ Number(t) \notin Keys)
        /\ UNCHANGED pcMain
     \/ /\ Step(t, "tryKey", "tryKey")
        /\ code \in {"null", "freed"}
        /\ pcMain' = "crashed"
        /\ UNCHANGED iIndex
  /\ UNCHANGED <<exitCode, shared, auiNumbers, iNumbersRead, newNode, newNext,
                 tested>>

LockFound(t) ==
  /\ Step(t, "lockFound", "setFound")
  /\ Lock(t, "found")
  /\ UNCHANGED <<pcMain, exitCode, file, fpos, code, pFound, pPrimeList, nodes,
                 plain, hash, locals, tested>>

SetFound(t) ==
  /\ Step(t, "setFound", "unlockFound")
  /\ pFound' = TRUE
  /\ UNCHANGED <<pcMain, exitCode, file, fpos, code, mutex, pPrimeList, nodes,
                 plain, hash, locals, tested>>

UnlockFound(t) ==
  /\ Step(t, "unlockFound", "openPlain")
  /\ Unlock("found")
  /\ UNCHANGED <<pcMain, exitCode, file, fpos, code, pFound, pPrimeList, nodes,
                 plain, hash, locals, tested>>

\* fopen(.., "wb") empties the file; the text reaches it at fclose.
OpenPlain(t) ==
  /\ \/ Step(t, "openPlain", "writePlain") /\ plain' = Empty
     \/ "fopen" \in Faults /\ Step(t, "openPlain", "openHash") /\ UNCHANGED plain
  /\ UNCHANGED <<pcMain, exitCode, file, fpos, code, mutex, pFound, pPrimeList,
                 nodes, hash, locals, tested>>

WritePlain(t) ==
  /\ Step(t, "writePlain", "openHash")
  /\ plain' = Text(t)
  /\ UNCHANGED <<pcMain, exitCode, file, fpos, code, mutex, pFound, pPrimeList,
                 nodes, hash, locals, tested>>

OpenHash(t) ==
  /\ \/ Step(t, "openHash", "writeHash") /\ hash' = <<>>
     \/ "fopen" \in Faults /\ Step(t, "openHash", "done") /\ UNCHANGED hash
  /\ UNCHANGED <<pcMain, exitCode, file, fpos, code, mutex, pFound, pPrimeList,
                 nodes, plain, locals, tested>>

\* Two threads that have both opened the file both write it from its start:
\* the shorter of two different checksums leaves the end of the longer.
WriteHash(t) ==
  /\ Step(t, "writeHash", "done")
  /\ \/ hash' = <<Text(t)>>
     \/ hash \notin {<<>>, <<Text(t)>>} /\ hash' = <<Text(t)>> \o hash
  /\ UNCHANGED <<pcMain, exitCode, file, fpos, code, mutex, pFound, pPrimeList,
                 nodes, plain, locals, tested>>

threadFunction(t) ==
  \/ LockFile(t) \/ CheckFound(t) \/ Scan(t) \/ Scanned(t) \/ UnlockFile(t)
  \/ LockCheck(t) \/ Check(t) \/ UnlockCheck(t) \/ UnlockExit(t)
  \/ IsPrime(t) \/ Alloc(t) \/ LockList(t) \/ Link(t) \/ Publish(t)
  \/ UnlockList(t) \/ DecBuf(t) \/ TryKey(t)
  \/ LockFound(t) \/ SetFound(t) \/ UnlockFound(t)
  \/ OpenPlain(t) \/ WritePlain(t) \/ OpenHash(t) \/ WriteHash(t)

(***************************************************************************)
(* Steps of main.                                                          *)
(***************************************************************************)
MainStep(l, k) == pcMain = l /\ pcMain' = k

Return(rc) == exitCode' = rc

\* Load task4_code.bin, which may be missing or too large to allocate.
LoadCode ==
  /\ MainStep("load", "open")
  /\ \/ code' = "loaded"
     \/ "code" \in Faults /\ code' \in {"empty", "null"}
  /\ UNCHANGED <<exitCode, file, fpos, mutex, pFound, pPrimeList, nodes, plain,
                 hash, pc, locals, tested>>

OpenInput ==
  /\ \/ MainStep("open", "create1") /\ UNCHANGED exitCode
     \/ "open" \in Faults /\ MainStep("open", "exit") /\ Return(1)
  /\ UNCHANGED <<shared, pc, locals, tested>>

Create1 ==
  /\ \/ /\ MainStep("create1", "create2")
        /\ pc' = [pc EXCEPT ![1] = "lockFile"]
        /\ UNCHANGED exitCode
     \/ /\ "create1" \in Faults
        /\ MainStep("create1", "exit") /\ Return(1)
        /\ UNCHANGED pc
  /\ UNCHANGED <<shared, locals, tested>>

Create2 ==
  /\ \/ /\ MainStep("create2", "join1")
        /\ pc' = [pc EXCEPT ![2] = "lockFile"]
     \/ /\ "create2" \in Faults
        /\ MainStep("create2", "joinOnly1")
        /\ UNCHANGED pc
  /\ UNCHANGED <<exitCode, shared, locals, tested>>

\* Without a second thread main waits for the first and returns at once: the
\* list and the code buffer are not freed.
JoinOnly1 ==
  /\ MainStep("joinOnly1", "exit") /\ Return(0)
  /\ pc[1] = "done"
  /\ UNCHANGED <<shared, pc, locals, tested>>

Join1 ==
  /\ MainStep("join1", "join2")
  /\ pc[1] = "done"
  /\ UNCHANGED <<exitCode, shared, pc, locals, tested>>

\* A slip: main frees what the second thread still uses.
Join2_NoWait ==
  /\ MainStep("join2", "free")
  /\ code' = "freed"
  /\ UNCHANGED <<exitCode, file, fpos, mutex, pFound, pPrimeList, nodes, plain,
                 hash, pc, locals, tested>>

Join2 ==
  /\ MainStep("join2", "free")
  /\ pc[2] = "done"
  /\ code' = "freed"
  /\ UNCHANGED <<exitCode, file, fpos, mutex, pFound, pPrimeList, nodes, plain,
                 hash, pc, locals, tested>>

FreeNode ==
  /\ MainStep("free", "free")
  /\ pPrimeList # <<>>
  /\ nodes' = nodes \ {Head(pPrimeList)}
  /\ pPrimeList' = Tail(pPrimeList)
  /\ UNCHANGED <<exitCode, file, fpos, code, mutex, pFound, plain, hash, pc,
                 locals, tested>>

ReturnMain ==
  /\ MainStep("free", "exit") /\ Return(0)
  /\ pPrimeList = <<>>
  /\ UNCHANGED <<shared, pc, locals, tested>>

main ==
  \/ LoadCode \/ OpenInput \/ Create1 \/ Create2 \/ JoinOnly1 \/ Join1 \/ Join2
  \/ FreeNode \/ ReturnMain

\* The process has ended.
Ended == pcMain \in {"exit", "crashed"} /\ UNCHANGED vars

Next == main \/ (\E t \in Threads : threadFunction(t)) \/ Ended

\* The scheduler runs main and every thread that can move.  The threads take
\* finitely many steps, so a thread that waits for a mutex needs no fairer lock:
\* sooner or later the other one is done and the mutex stays free.
Fairness ==
  /\ WF_vars(main)
  /\ \A t \in Threads : WF_vars(threadFunction(t))

Spec     == Init /\ [][Next]_vars
FairSpec == Spec /\ Fairness

(***************************************************************************)
(* Properties.                                                             *)
(***************************************************************************)
Pos == 1..Len(file)

Labels == {"idle", "lockFile", "checkFound", "scan", "scanned", "unlockFile",
           "lockCheck", "check", "unlockCheck", "unlockExit", "isPrime",
           "alloc", "lockList", "link", "publish", "unlockList", "decBuf",
           "tryKey", "lockFound", "setFound", "unlockFound", "openPlain",
           "writePlain", "openHash", "writeHash", "done"}

\* The type invariant: every index stays inside auiNumbers and the file.
TypeOK ==
  /\ pcMain \in {"load", "open", "create1", "create2", "joinOnly1", "join1",
                 "join2", "free", "exit", "crashed"}
  /\ exitCode \in {-1, 0, 1}
  /\ file \in Files /\ fpos \in 1..Len(file) + 1
  /\ code \in {"loaded", "empty", "null", "freed"}
  /\ mutex \in [Mutexes -> Threads \cup {NoThread}]
  /\ pFound \in BOOLEAN
  /\ pPrimeList \in Seq(Pos) /\ nodes \subseteq Pos
  /\ plain \in Numbers \cup {Absent, Empty}
  /\ hash = Absent \/ hash \in Seq(Numbers \cup {Empty})
  /\ pc \in [Threads -> Labels]
  /\ auiNumbers \in [Threads -> [0..Batch-1 -> 0..Len(file)]]
  /\ iNumbersRead \in [Threads -> 0..Batch]
  /\ iIndex \in [Threads -> 0..Batch]
  /\ newNode \in [Threads -> 0..Len(file)]
  /\ newNext \in [Threads -> Seq(Pos)]
  /\ tested \in [Pos -> Nat]

\* main has joined every thread it created.
AllJoined == pcMain = "free" \/ exitCode = 0

\* The positions before the first token that is not a number.
InputPrefix == {p \in Pos : \A q \in 1..p : file[q] \in Numbers}

\* Two threads share the FILE and stop at different moments: still no number is
\* tested twice, and when no key was found none was skipped, wherever the
\* boundaries of the batches fell (the comment at lines 58-63).
EachNumberTestedOnce ==
  /\ \A p \in Pos : tested[p] <= 1
  /\ AllJoined /\ ~pFound => \A p \in InputPrefix : tested[p] = 1

\* The blocks malloc'ed and not freed are exactly the list's nodes and the ones
\* a thread is about to link, each once: no node is lost by two threads that
\* link at the same time, none is freed twice (the comment at lines 98-107).
ListHoldsEveryNode ==
  /\ nodes = Range(pPrimeList) \cup {newNode[t] : t \in {u \in Threads : newNode[u] # 0}}
  /\ IsInjective(pPrimeList)
  /\ \A t \in Threads : newNode[t] \notin Range(pPrimeList)
  /\ newNode[1] # 0 => newNode[1] # newNode[2]

\* When the threads are joined, a key the input holds has been found, whichever
\* thread drew it, and both files are complete and about the same text; else
\* neither file exists.  For inputs with one key value, and calls that succeed.
KeyDelivered ==
  AllJoined =>
    /\ pFound <=> \E p \in InputPrefix : file[p] \in Primes \cap Keys
    /\ IF pFound THEN plain \in Keys /\ hash = <<plain>>
                 ELSE plain = Absent /\ hash = Absent

\* Nothing is freed while a thread may still use it, no thread outlives main,
\* no thread reads the freed code buffer; and when both threads were started, in
\* the end everything is freed.  A main that could not start the second one
\* returns with the list and the buffer as they are (lines 252-259).
FreedWhenQuiet ==
  /\ pcMain # "crashed"
  /\ pcMain \in {"free", "exit"} => \A t \in Threads : pc[t] \in {"idle", "done"}
  /\ pcMain = "exit" /\ exitCode = 0 /\ pc[2] # "idle" => nodes = {} /\ code = "freed"

\* The labels between the check of *pFound and the next one.
InHand == {"unlockCheck", "isPrime", "alloc", "lockList", "link", "publish",
           "unlockList", "decBuf", "tryKey"}

\* "Signal other threads to stop as soon as possible" (line 137): once the flag
\* is up a thread may finish the number in hand but never takes up another.
StopsAfterNumberInHand ==
  [][\A t \in Threads : pFound /\ pc[t] \notin InHand => pc'[t] \notin InHand]_vars

\* The search the threads carry out between them is the one PrimeSearch
\* describes, however their steps interleave.
Search == INSTANCE PrimeSearch WITH
            Positions <- Nat \ {0},
            keys  <- {p \in InputPrefix : file[p] \in Primes \cap Keys},
            todo  <- {p \in InputPrefix : tested[p] = 0},
            found <- pFound,
            over  <- AllJoined

ImplementsSearch == Search!Spec

\* Both threads come to an end, are joined, and the process exits, unless it has
\* died over a null code buffer: no exit path keeps a mutex the other thread
\* waits for, whichever call fails.
Terminates == <>(pcMain \in {"exit", "crashed"})

\* "Protects oFound flag" (line 32): no thread reads *pFound while another
\* writes it, unless a mutex both hold keeps them apart.
FoundFlagProtected ==
  ~ \E t, u \in Threads : pc[t] \in {"checkFound", "check"} /\ pc[u] = "setFound"
=============================================================================

# Verification of PG3401_EXAM-

TLA+ models of the programs in this repository, the TLC runs that check them
on small instances, and proofs checked by TLAPS. The repository holds five
small C programs, one per exam task; each has its own directory and none calls
another. What makes them interesting is not size but circumstance: two threads
on one `FILE` and one list, a server and a client on TCP streams that arrive in
pieces, a sender that repeats packets, a linked list under any sequence of
menu choices and of lines typed at the wrong prompt, sums that wrap, and calls
that fail.

Contents: inventory, plan, the modules and how they follow the code, the runs
and their bounds, the proofs, findings, what is not modelled.

## 1. Inventory

| Component | Source | State it keeps | Operations | Interaction |
|---|---|---|---|---|
| Prime search threads | `task4_307/task4_threads.c` | the `FILE`, the list, `*pFound`, three mutexes, the code buffer, `task4_plain.txt`/`.hash`; per thread a batch of ten numbers | `main` (load, create, join, free), `threadFunction` twice | shared memory under mutexes; calls `isPrime`, `tean`, `tcp_checksum` |
| Primality test | `task4_prime.c` | the divisor `i` | `isPrime` | called by the threads |
| XTEA and checksum | `xtea.c`, `ipc.c` | `y`, `z`, `sum`, `limit`; `sum` and `i` | `tean` codes and decodes, `tcp_checksum` | called by the threads for a prime and for a key |
| File transfer client | `task6_307/task6_main.c`, `include/ewpdef.h` | the socket, the expected sequence number, the buffer, `butterfly.bmp` | `connect`, `recvFull`, `sendAck`, the loop of `main`, the save | a TCP stream to the EWA tool, packets one way and answers the other |
| Sender | external (the EWA tool), its messages in `logdata/ewa_log.txt` | packets, tries | send, wait for an answer, repeat | the same stream |
| EWP server | `task5_307/task5_main.c`, `include/ewpdef.h` | listening socket, the session of one client, files of its directory | `-port`, `bind`, `listen`; `accept`, `handleClient`, replies, file writing | one TCP stream at a time; clients queue |
| Grading list | `task3_307/task3_list.c`, `include/task3.h` | doubly linked list, head, tail, count, maxima | `addCandidate`, `loadFromFile`, `gradeTask`, reports, `freeList` | called by the menu |
| Grading menu | `task3_307/task3_main.c` | the prompt it is at, the answers of the dialogue under way; what is left of the line typed last | `setupExam`, eight choices, eleven prompts | stdin; calls the list |
| Number metadata | `task2_307/*.c` | the position in the input, the number in hand, an index, the locals of the predicates | read a number, evaluate eight predicates, write a record | files only |
| Superseded copies | `task4_threadsP1.c`, `task4_main.c`, `old_threads.c`, `old_task6_main.c` | | | not built by the makefiles |
| EWA tool | `ewa_exam_v26_i64` | | binary | runs and judges the programs |

What is hard, and what makes each part correct:

- **Threads.** Concurrency. Every number is tested once wherever the batches
  fall; no list node is lost; a thread stops at the number in hand once the flag
  is up; nothing is freed early; no path keeps a mutex; the key is delivered.
- **Client.** Ordering and failure. Packets may come late, twice, overlapping;
  a read returns any part of what was asked for; memory may run out; the peer may
  go. What is kept is a prefix of the file, and the answers say so.
- **Server.** Ordering and failure again, with commands instead of packets.
  Every command gets its answer, no file under a refused name, every client its
  turn.
- **Grading list.** Sequences of legal calls. The links agree, IDs are distinct,
  scores are the sums of their points, grades follow scores.
- **Grading menu.** Lines longer than a buffer, and the end of the input in the
  middle of a dialogue. A line answers one prompt, a dialogue that is cut short
  changes nothing, and the end of the input ends the program.
- **Arithmetic.** Widths: Fibonacci, divisor sums and squares that do not fit an
  `int`, a short made of two bytes, sums modulo 2^32 that two loops must meet
  exactly. Flags are true where an `int` can tell, the files that compute them
  agree, decoding undoes coding, and each loop ends.

Every hazard, at its line and with the properties that cover it, is in
`PROJECT.json`.

## 2. Plan

The order is by importance: shared memory first, then the two network programs,
then the sequential one.

1. `PrimeThreads` with `PrimeSearch` above it, and `PrimeThreadsProofs`. *Done.*
2. `EwpClient`, and `EwpTransfer`, which composes it with a sender. *Done.*
3. `EwpServer`. *Done.*
4. `GradingList` with `GradeBook` above it. *Done.*
5. Arithmetic: `NumberMetadata` for task 2; `Xtea` for `tean`, and `KeyTrial`,
   which composes it with `isPrime`, the comparison and `tcp_checksum` to the
   way one number takes through a thread. *Done.*
6. `GradingMenu`: stdin as lines, and the dialogues around `GradingList`; the
   start of the server. *Done.*
7. Proofs of every safety property the passing runs check, and of the three
   refinements: `PrimeThreadsProofs`, `EwpTransferProofs` (the client and the
   transfer), `EwpServerProofs`, `GradingListProofs`, `GradingMenuProofs`,
   `KeyTrialProofs` (the cipher, `isPrime`, the trial), `NumberMetadataProofs`, and
   `NatLemmas` below them. *Done.*
8. Left to model checking: what must eventually happen (section 5, at its end).
   Worth adding next: safety lemmas that carry the weight of the liveness
   properties, such as a measure that no step of the client or of the Fibonacci
   loop increases, and the theorems about the threads and the transfer under weaker
   assumptions on `Faults`, as those about the client have them.

Abstract specifications: the search (`PrimeSearch`) for the threads, the book
(`GradeBook`) for the list, and the list itself for the menu.

## 3. Modules

An action stands for the statements between two places where another process,
thread or byte can come in between; its name is the function's or the
statement's, variables have the names of the C variables. `pc` and `pcMain` are
program counters. Every module takes the calls that may fail as a constant
`Faults`. Operators headed "A slip" are plausible mistakes in the code that
follows them, kept to show that the properties notice them; no specification
uses them.

**PrimeThreads** (`task4_threads.c`). One action per access to something shared:
lock, read of the flag, `fscanf` in two steps (take the number, move the
position), unlock, and so on to the writing of the two files, also in two steps
each. A number is known by its position in the file, so equal numbers stay
apart; `Primes` and `Keys` say what `isPrime` and the decryption answer. Without
a code file `memcmp` reads memory nobody wrote: `TryKey` then goes either way.
With a null buffer the process dies (`pcMain = "crashed"`). `newNext` holds the
list a new node's `next` points to. `tested` is a history variable.

**PrimeSearch**: what the threads promise together: each position examined once,
the flag raised only when a key has been met, the end only with the flag or
with everything examined. `PrimeThreads!ImplementsSearch` maps positions not yet
tested to `todo`, `pFound` to `found`, the joins to `over`.

**EwpClient** (`task6_main.c`). A byte on the wire is a cell: its packet and its
offset in it. So nothing has to be assembled, and a read that starts at the
wrong byte (after a packet dropped for want of memory, or of 65535 bytes) is
noticed: such a header shows any of the values of `Misread`. `recvFull` takes
any number of the bytes that have arrived. The peer sends any packet of
`Packets` at any time. The checksum is the bit `ok`, which no action reads,
as in the code. What the data of a damaged packet shows is `Garbled`, and a cell of a
header is no byte of the file at all (`ByteOf`), so that a client which keeps the one
for the other is told apart from one that keeps the data. `reset` lets bytes on
their way get lost when the peer goes. `failed` is a history variable: what has
failed so far of the calls that cost data, which is what the properties make
allowance for, instead of for what may fail.

**EwpTransfer**: the same client with a sender that follows a schedule, reads
`HeaderSize` bytes of the answers, is content only with an ACK that repeats its
number, and moves on after three tries. The sender is external; this is what
its log shows.

**EwpServer** (`task5_main.c`). `Start` is the command line and the listening
socket, with a port cut to an `unsigned short` (`PortSpan`); then the backlog, one
session at a time, commands as cells as above. `DataHeader` tests what the code
tests, the size of the command and not of the data; `Written` records that
`fwrite` was given the `FILE` object. When it is accepted a client is one that
waits for its answers or one that pipelines (`Pipelining`); the former sends only
messages of `WellFormed`, whose assumption says what that means, the latter any
message at any time. Both hang up at any point.

**GradingList** (`task3_list.c`, `task3_main.c`). Memory is a function from
addresses to nodes or `Free`; `malloc` picks any free address. IDs are sequences
of characters, since the length at which they are cut matters; `int` goes up to
`IntMax`, and sums and products wrap beyond. `loadFromFile` takes one line per step, so that the invariants
hold between lines. The reports are operators. The text of a justification is
left out: nothing in the program depends on it.

**GradingMenu** (`task3_main.c`) extends `GradingList`. `stdin` is what is left of
the line typed last; `fgets` (`szBuf`, `Got`) takes as much as the buffer of the
prompt holds, so the rest of a line that is too long, or its new line alone,
answers the next prompt. `sscanf` takes the digits at the front. The user types
anything of `Lines` at any prompt and may end the input anywhere, also behind a
last line without a new line. `typed` is a history variable. `ImplementsList` says
that the dialogues do to the list what `GradingList!Next` allows and no more;
`CutShortDoesNothing` that they do nothing when an answer is missing or no number.

**GradeBook**: a sequence of candidates with distinct IDs and points within the
maximum. `ImplementsBook` reads it off the linked list.

**NumberMetadata** (`task2_307`). An `int` goes up to `IntMax`; the makefile compiles with
-O2 and the build wraps, so `Wrap` follows every sum and product that may leave the
range. The Fibonacci loop, the only one whose end depends on a wrap, runs a round
per step; the divisor sums are recursive functions. `sqrt` is exact for every
`int`; `cbrt` need not be, and `CubeRoots` gives what `(int)cbrt(n)` may be. Both
opens and each `fwrite` may fail. Input is the numbers before the first token that
is none.

**Xtea** (`xtea.c`): a round per step, a call and a return as steps too. `Xor` is a
constant, of which the proof uses only that it stays in the words. `trail` and
`codings` are history variables.

**KeyTrial** extends it: one number's way through `isPrime`, `malloc`, the
decryption of the code block by block, the comparison, and `tcp_checksum`. `Base` is
the number of values of a byte, `ShortSpan` that of a short, and a word is two
shorts. A text begins with `Magic`, the word the thread looks for, and has at least
a block; `malloc` returns bytes of
`Garbage`, and those behind the last whole block of 8 keep them, as in the code
(task4_threads.c:127). The coding of the file is external: it is the EWA tool that
did it, with the same function.

`MC*` modules give values to the constants.

## 4. Runs

| Run | Checks | Instance |
|---|---|---|
| `prime_key` | `TypeOK`, `EachNumberTestedOnce`, `KeyDelivered`, `FreedWhenQuiet`, `ImplementsSearch` | all files of up to 3 numbers (composite, prime, key), five more with junk, two keys or five numbers; batch of 2; open, create and node allocation may fail |
| `prime_faults` | `ListHoldsEveryNode`, `StopsAfterNumberInHand`, and with fairness `Terminates` | files of up to 2 numbers, three of 3, every fault |
| `client` | `TypeOK`, `KeepsPrefix`, `FinMeansComplete`, `AnswersAgree`, `BufferWithinSequence`, and with fairness `EndsAfterClose` | a file of 4 bytes, up to 4 packets of 6 kinds, one damaged, any order; all faults, misread headers |
| `transfer` | `InOrderDelivers`, `AnswerOnItsWay`, and with fairness `TransferEnds` | 4 schedules of 3 packets, 3 tries |
| `server` | `TypeOK`, `InStep`, `NothingAfterQuit`, `FilesStayInDirectory`, and with fairness `EveryClientServed` | 2 clients, each of which waits or pipelines, 3 messages of 9 kinds (6 of them well formed), every fault, three ports |
| `grading_list` | `TypeOK`, `ListWellFormed`, `ScoreWithinTotal`, `GradeFollowsScore`, `ImplementsBook` | 3 candidates, 1 or 2 tasks, maxima 2 and 17, 2 files, all faults |
| `grading_menu` | `IdsDistinct`, `ImplementsList`, `CutShortDoesNothing`, and with fairness `EndsAtEof` | 2 candidates, 1 or 2 tasks, buffers of 3 to 6 characters, lines too long for each of the prompts that tell, all faults |
| `numbers` | `TypeOK`, `RecordsTrue`, `IndexNamesNumber`, and with fairness `Terminates` | every input of up to 2 of the integers of 6 bits, all faults |
| `key_trial` | `RoundTrip`, `PrimeVerdict`, `RightKeyOpens`, `ChecksumOfText`, and with fairness `TrialEnds` | 19 numbers against texts of one and two blocks coded with 3 keys; bytes of 2 bits, 3 rounds |
| `prime_flag`, `grading_duplicate`, `numbers_from_one` | one property each, which the code does not have | section 6 |

One run of each program checks the type invariant of its module.

Why the bounds are enough. A batch of 2 gives full, short, and empty batches
and a boundary inside every longer file; the two threads are the code's. A
header of 2 bytes can be cut in the middle and read from the wrong byte; longer
ones add only more of the same cuts. The file goes in three slices, and four
packets let the whole of it arrive with one packet that is late, repeated, damaged or
overlapping; any two of the faults find room in that. For the transfer a header
of 3 and an answer of 4 bytes keep the difference of one byte that puts the
reads out of step; three answers are enough to be one whole read ahead. Two
clients are enough for one to hold up the other, and three messages are a DATA
command, its data and what comes after; pipelined, data is read where a command
is expected and the other way round. Three nodes have a first, a middle and
a last. `GradeFollowsScore` compares the letter with an exact one for every score
of 0..34, the greatest total of two tasks, so that scores fall on both sides of
each threshold. For the menu the buffers keep the order of the sizes in the code,
so that a rest that overflows one prompt fits or overflows the next as it would
there, and the lines at each prompt are one that fits, one that is too long by its
new line only, and one with a rest that reads as a number or an option. With 6 bits
-32..31 has numbers beyond the last Fibonacci number (21), with a divisor sum that
does not fit (24, 30), perfect numbers, squares, and cubes of both signs;
two numbers are what an order needs. `tean` with 3 rounds of a word of 8 bits
goes round the modulus more than once and uses different parts of the key, and
texts have a short with its sign bit set, an odd length, and bytes behind the last
block. `MaxSent` and `MaxMessages` are the only bounds on behaviour; the rest are
sizes of constants.

Fairness. `PrimeThreads`: weak fairness of `main` and of each thread, which is
what the scheduler gives a runnable thread; no fairness of the mutexes is
needed, since the other thread takes finitely many steps. `Terminates` counts a
process that died over a null code buffer as ended. `EwpClient`: weak
fairness of the client only, a single process whose `recv` returns once there is
something to return; of the peer nothing. `EwpTransfer`: the same for both sides.
`EwpServer`: weak fairness of the server, and of clients hanging up: the server
has no timeout, so a client that neither sends nor goes away really holds up the
others, and `EveryClientServed` is claimed under that assumption only. A failing
`accept` is a step after which the server tries again; fairness of `main` as a whole
says that it does not only fail for ever when a client waits. `sigpipe`, the fault
that kills the server, is among the faults, and the property allows for it: a dead
server serves nobody. `NumberMetadata` and `KeyTrial`: weak fairness of the one
program there is. `GradingMenu`: weak fairness of the program; the user need not
type, but an input that has ended stays ended.

The run and the theorem on `InOrderDelivers` assume that TCP loses nothing when the sender closes. The
sender does close with bytes of the answers unread, since they are longer than
it thinks, and a reset that follows could cut off the end of a file; the client
would then save what it has and return 0.

`KeyDelivered` is for inputs with one key value. Two threads that find
different keys before either sees the flag write the same two files, and the
text may then be of one key and the checksum of the other.

Other properties too are narrower than the hazard that names them, because the code
does what the hazard says and no document promises otherwise. `RightKeyOpens` is about
whole blocks; the bytes behind them are saved and summed as `malloc` left them. A client
or a server that SIGPIPE kills loses its file or its clients: `EndsAfterClose` and
`EveryClientServed` count that as an end. `InStep` is about clients that send commands
the server knows; one that waits for an answer to `EHLO` would wait for good. The rest
of a line that is too long is an answer to the next prompt; it can choose a dialogue,
but not make one that lacks an answer do something. `GradeFollowsScore` ends where
`iScore * 100` leaves the range of `int`. Each of these hazards has a note in
`PROJECT.json`.

## 5. Proofs

Eight modules of proofs, every one of them for all values of the constants that
satisfy the assumptions named in the modules (`ConstantsAssumption` and the like,
which TLC evaluates for its instances):

| Module | Theorem | States |
|---|---|---|
| `PrimeThreadsProofs` | `TypeCorrect` | `Spec => []TypeOK` |
| | `TestedExactlyOnce` | `Spec => []EachNumberTestedOnce` |
| | `ListKeepsEveryNode` | `Spec => []ListHoldsEveryNode` |
| | `FreedLast` | `Spec => []FreedWhenQuiet`, if the code file loads |
| | `StopsSoon` | `Spec => StopsAfterNumberInHand` |
| | `Invariance` | `Spec => []IInv` |
| | `Implements` | `Spec => ImplementsSearch`, if the code file loads and there is memory to try a key in |
| | `Delivered` | `Spec => []KeyDelivered`, if further files open and the input has one key value |
| `EwpTransferProofs` | `TypeCorrect` | `Spec => []TypeOK`, of the client, as are the next four |
| | `BufferBounded` | `Spec => []BufferWithinSequence` |
| | `AnswersTellOneStory` | `Spec => []AnswersAgree` |
| | `PrefixKept` | `Spec => []KeepsPrefix` |
| | `FinIsComplete` | `Spec => []FinMeansComplete` |
| | `TransferIsClient` | `TransferSpec => Spec` of the client |
| | `OrderlyTransferDelivers` | `TransferSpec => []InOrderDelivers`, with memory, and if TCP loses and damages nothing |
| | `AnswersCome` | `TransferSpec => []AnswerOnItsWay`, with memory for each packet, packets with data, and answers no shorter than what the sender reads |
| `EwpServerProofs` | `TypeCorrect` | `Spec => []TypeOK` |
| | `QuitIsLast` | `Spec => []NothingAfterQuit` |
| | `FilesInside` | `Spec => []FilesStayInDirectory` |
| | `WaitingClientsInStep` | `Spec => []InStep` |
| `GradingListProofs` | `TypeCorrect` | `Spec => []TypeOK` |
| | `ListAgrees` | `Spec => []ListWellFormed` |
| | `ScoresAdd` | `Spec => []ScoreWithinTotal`, while the maxima add up to an `int` |
| | `GradesFollow` | `Spec => []GradeFollowsScore`, while a hundred times that sum is an `int` |
| | `NoDuplicates` | `Spec => []IdsDistinct`, if the lines of files are shorter than `MaxIdLen` |
| | `KeepsBook` | `Spec => ImplementsBook`, if they are |
| `GradingMenuProofs` | `MenuRunsList` | `MenuSpec => ImplementsList` |
| | `CutShortNothing` | `MenuSpec => CutShortDoesNothing` |
| | `OneLineAnswersOnce` | `MenuSpec => []OneLineOneAnswer` |
| | `MenuNoDuplicates` | `MenuSpec => []IdsDistinct`, if the lines of files are shorter than `MaxIdLen` |
| `KeyTrialProofs` | `DecodingUndoesCoding` | `TeanSpec => []RoundTrip`, all calls in any order |
| | `CipherInTrial` | `Spec => []RoundTrip`, the calls of one trial |
| | `PrimesPass` | `Spec => []PrimeVerdict` |
| | `RightKeyFinds` | `Spec => []RightKeyOpens` |
| | `ChecksumIsInternet` | `Spec => []ChecksumOfText` |
| `NumberMetadataProofs` | `TypeCorrect` | `Spec => []TypeOK` |
| | `IndicesNameNumbers` | `Spec => []IndexNamesNumber` |
| | `RecordsTell` | `Spec => []RecordsTrue` |

`NatLemmas` is what several of them rest on. The induction theorems of the library
take a predicate as a parameter, which the provers cannot instantiate; an induction
is done instead over a *set*, the numbers for which something fails, whose least
element (`LeastNat`, from the well-foundedness of strict inclusion) leads to the
contradiction. `UpTo` and `AllNat` put that into the usual form. `RecursionUpTo` says
that a recursive function on `Nat` satisfies its equation, and `SetSums` are sums
over finite sets, with the lemmas to take one element out (`SetSumsUnfold`) and to
add (`SetSumsAdd`). The recursive functions of the models (`Steps`, `IntSums`,
`DivisorSums`, `FibonacciPairs`, `fold`) are reasoned about through them.

### The threads

The properties are not inductive. `EachNumberTestedOnce` speaks of the numbers
tested, and what keeps two threads from testing the same one is what their
batches hold; that depends on who has the file mutex, and that on where each
thread is. `IInv` says all of it, in layers, each proved from those before it:

1. `TypeOK`; `LocksHeld`: a mutex is held by exactly the thread between its lock
   and its unlock, so two threads are never both between them.
2. `BatchesRead`, `LocalsAgree`: what is in a batch is a number before `fpos`, and
   a thread's index is inside its batch.
3. `BatchesApart`: batches increase and share no position.
4. `TestedOnce`: no position has been tested twice, and none that waits in a
   batch, or is not read, has been tested.
5. `BehindCovered`, `StoppedAtEnd`: without the flag everything before `fpos` is
   tested or waits in a batch, and a thread that stopped did so at the end.
   Together, when both have stopped, everything is tested.
6. `NodesLinked`, `ListHoldsEveryNode`: a node belongs to a tested number, and the
   thread that links has the list as it was when it locked it.
7. `MainWaits`: what `main` has joined is done.

`FreedWhenQuiet` also says that nothing is left allocated when `main` returns 0 after
it started both threads; `EndFreed` is what it takes from one step to the next. Where
the second thread cannot be created `main` returns 1 and leaves the list and the code
buffer (task4_threads.c:252-259), which the property does not deny.

That the threads implement `PrimeSearch` takes more, `KInv`: from loading to
`free` the code buffer is there (`CodeUsable`, `CodeLoaded`), a thread has no
number in hand but a prime and announces none but a key, and until the flag is
up a key that was tested is still in the hand of the thread that tested it
(`KeysKnown`). So `SetFound` is a step of the search that has met a key, and
when both threads are through without the flag, nobody holds a key and
everything is tested: there was none. The two assumptions are needed. Without a
code file a thread may take any prime for the key, and a thread that cannot
allocate `decBuf` drops a key without a word. Every other call may fail.

`Delivered` (`DInv`) adds what is in the files. The flag is up only for a key, and
a thread that saves has one in hand (`FoundForKey`). Once the flag is up the text is
in its file or a thread is on its way to put it there (`PlainSoon`), and so is the
checksum (`HashSoon`); a thread that empties a file fills it again. With one key
value (`OneKey`) a second finder writes the same, so whichever comes last leaves a
text and a checksum that belong together.

Every layer was checked with TLC on the instance of `prime_faults` before it was
proved.

### The client

`KeepsPrefix` is not inductive because it does not say where a read begins.
`Framing` does: every byte on the wire belongs to a packet that stands there whole
(`FramedIn`, `StandsAt`), and `Aligned`: where the client will read a header the
next byte, if there is one, is the first of a packet, and when it reads data the
header it took stands just before. So a header shows the packet that is there
(`ShowsPacket`), its data is its slice of the file (`PacketData`), and taking the
data leads to the start of the next packet (`EndOfPacket`). Only a packet dropped
for want of memory leaves the frame; a damaged packet does not. So the three
theorems need nothing of `Faults`: the invariant holds until such a failure is in
`failed`, where it stays (`FailuresStay`). A byte that is kept is that of the file or
`Garbled`, and then a damaged packet with that position is among the bytes read
(`GarbledAt`), of which no step takes one back (`GarbledStays`). `AnswersAgree` needs
`AcksReach`: the greatest number of an ACK so far is what is expected next, and a
packet with data moves it up.

### The transfer

`TransferIsClient` is a refinement without a mapping: each step of the sender is one
the open peer of `EwpClient` may take. So the client's invariants hold, and
`OrderlyTransferDelivers` adds what the order gives (`Orderly`). The sender may be
any number of answers ahead, since it reads them out of step, so the proof does not
count answers. It says what stands on the wire: it ends with the packet sent last
(`OnWire`), and each packet repeats the one before it or goes on where that ends
(`Linked`). The client expects what follows the packet it has read last (`UpToDate`):
a packet it reads then is in sequence, or is the last one again and is refused
without harm. When the sender has closed, the client has read whole packets to the
end of the wire (`AllRead`), the last of which is the last of the schedule.

`AnswersCome` is where answers are counted (`CountedInv`). `Starts` is the set of
places on the wire where a packet begins. There are as many of them as packets were
sent (`SentOnce`); up to the reading place there are as many as answers, and one
more while a packet is in hand (`Answered`); and a sender that waits has sent one
packet more than it has read answers (`WaitsForOne`). So if the client has nothing
more to read, there is at least one answer more than was read, and since the sender
reads no more bytes than an answer has, they are on the wire. A packet without data
is excluded: the client skips it without an answer (task6_main.c:140), and a sender
that waits for one would wait for good.

### The server

`QuitIsLast` and `FilesInside` rest on two short invariants: after 221 the session
is at `close` (`QuitCloses`), and while a file name is in hand it has passed the
check, also when later messages are misread (`NamesChecked`). `InStep` is the long
one. `Waiting` describes a session with a waiting client by its phase: the server
is about to greet, or waits for a message and has answered all there are, or has
one message of the script before it of which so many bytes are read, or is between
the 354 and the answer to the data. Each phase says how many answers there are
and what is unread, so that a command is read where it begins. A client that left in
the middle of its data is the odd case (`Lost`, `Gone`): what the server then takes
for data or misses no longer matters, since nobody waits. `WellFormedAssumption` says
that a waiting client sends commands with a body whose header gives their size, and
no command the server does not know: to `EHLO` it answers nothing.

### tean

`RoundTrip` compares the result of a call with the arguments of an earlier one, so
the invariant needs what lies between. `trail` records `y`, `z` and `sum` after each
round, and each coding that ended is kept in `codings` with its trail. A call that
decodes with the same key and number of rounds goes through the states of that trail
backwards: if it has taken `i` rounds it is at state `N - i`. One round back undoes one
round forth, since `Minus` undoes `Plus` modulo `Modulus` and `Mix` is applied to a half
that the round left as it was. The sum of the decoding is 0 at the end of the trail
and not before, as no multiple of `DELTA` up to `Cycles` is 0 (`XteaAssumption`; for
2^32 and an odd `DELTA` that is so). Nothing is assumed of `Xor` but its range.

### The trial of a key

`PrimesPass`: nothing from 2 to the divisor in hand, exclusive, divides the number.

`RightKeyFinds` follows a block from the text to the code file and back. `KeyInv` says
that each block the tool is through with stands in the code file as the result of
a coding kept in `codings` (`CodedAt`), and that the thread, at block `b` with the
right number, has the text in front of it (`Opened`). The step between is `RoundTrip`,
which with `SameKey` and the same number of rounds gives back the *words*; that the
bytes are back too needs that a word is taken apart and put together without loss
(PART 3) and that `PutPair` touches the eight bytes of its block only (PART 4). At
the end no whole block is left; the first, which every text has, holds `Magic`, so
the comparison succeeds. The bytes behind the last whole block are those `malloc`
left, and the property says nothing of them.

`ChecksumIsInternet` compares two orders of work: `tcp_checksum` adds a carry back as
soon as there is one, the RFCs when the sum is complete. Both compute `Ones` of the
sum of the words, the remainder by `ShortSpan - 1` in which 0 stands only for the sum
0. The invariant `SumSoFar` says that the loop has `Ones` of the sum of the words before
`i`; a word that would be negative in C, or a byte of the upper half, is where code and
RFCs part, and bytes below the half exclude it.

### The list and the menu

What the recursive walk along `pNext` yields is not something an invariant can be
read off step by step. `LinkedAs` therefore describes the list by a sequence: its
elements are distinct, linked in both directions, begin at the head, end at the
tail, number `iCount`, and are what is allocated. `ChainBounded` and the lemmas after
it show that `Chain`, which follows the links and nothing else, is that sequence, by
an induction over the number of steps; `addCandidate` extends it by one. `IInv` adds what a
node holds: a task is worth what the exam says and has its points within that
(`TasksAgree`), the score is what `updateScore` makes of them (`ScoresSummed`).
From there `ScoresAdd` and `GradesFollow` are arithmetic about sums that may wrap:
their hypotheses give a bound `b` of the maxima for which `MaxTasks * b`, and for the
letters a hundred times that, is an `int`. In the code a maximum may be any positive
`int`, so both hypotheses are about what the user enters, and section 6 names what
happens beyond. `GradesFollow` shows that the rounding of `calcGrade` never moves a
score across a threshold.

`NoDuplicates` and `KeepsBook` hold for files whose lines fit an ID (`ShortLines`);
`grading_duplicate` shows that without it the same ID can be stored twice. `KeepsBook`
is the refinement: to add extends the book by one candidate with no marks, to grade
changes one mark, `freeList` empties it, and the rest leaves it as it is, also
where an allocation fails halfway.

`MenuRunsList` shows that every step of a dialogue is a step of the list or none.
What a prompt has stored must have been checked (`Dialogue`: the maxima read so far
are positive and no more than announced, an ID fits its buffer), since the list is
called only when the last line of the dialogue is in. The theorem takes it that the
user may enter any ID that fits and any number (`AnyAnswer`: it concerns what
`GradingList` allows, not what is typed). `ImplementsList` alone would let a dialogue
grade at the end of the input, since to grade is a step of the list whoever asks for
it. `CutShortDoesNothing` therefore looks at the prompt: where the input has ended, or a
number is missing, nothing changes, and what changes the list comes at the last prompt
of a dialogue. `OneLineAnswersOnce`, of a line that fits its buffer, is a lemma of
that and inductive with the type of `stdin`. `MenuNoDuplicates` is `NoDuplicates` through
the refinement.

### The records

`IndicesNameNumbers`: while a number is in hand the index is the number of those read
before it, and the indices written are below it. `RecordsTell` has four parts. The
Fibonacci loop holds two neighbours of the sequence until a sum wraps
(`LoopFollows`), so up to the last Fibonacci number of an `int` the flag is right;
beyond it nothing is claimed. Divisor sums that fit an `int` are those of the divisors, and
those that wrap still put a number in one class, and a prime in the right one. Squares
are recognised exactly, since the root is exact and the square of the least `int`
wraps to 0. A number taken for a cube is one, although the product may wrap and
`cbrt` may be one off.

### Assumptions

An assumption on `Faults` in a theorem is a call that must not fail, and each is
needed: without a code file a thread may take any prime for the key; a thread that
cannot allocate `decBuf` drops a key without a word; a client without memory reads
data as a header, so that the transfer does not come to its end. Every other call may
fail. The theorems about the client alone assume nothing: their properties speak of
what holds until a call has failed. Bounds on behaviour such as `MaxSent`
are constants and arbitrary.

The other hypotheses are about inputs: lines of files shorter than an ID may be,
maxima whose sum an `int` can hold, packets with data. Each is one the text above
gives the reason for, and the constants of the runs meet each except where a run is
there to show what happens without it (`grading_duplicate`), and except `AnyAnswer`,
which asks for all numbers where a run has a few. The assumptions of `Xtea` and
`KeyTrial` are of the shape of the code: a word of four bytes, eight bytes of magic
word at most, a positive number of rounds.

### Model-checked only

Liveness: `Terminates` (of the threads and of the numbers), `EndsAfterClose`,
`TransferEnds`, `EveryClientServed`, `EndsAtEof` and `TrialEnds`. What must happen under
fairness is beyond the prover, as is ENABLED. Every other property of a passing run
is a theorem above.

## 6. Where the code and what is said of it differ

Three of these are runs that end in a counterexample:

| Run | What is said | What the code does |
|---|---|---|
| `prime_flag` | `pMutexFound` "Protects oFound flag" (task4_threads.c:32) | writes under it, reads under `pMutexFile` |
| `grading_duplicate` | "Reject duplicate IDs" (task3_list.c:87) | compares 20 characters, stores 19 |
| `numbers_from_one` | "Sequence number, where first number = 1" (task2.h:21), "`iIndex` field is 1-based" (README.md:121) | the index begins at 0 (task2_main.c:36) |

`IndexNamesNumber`, which the runs and the proof are about, takes the index from 0 as the
code does: that each record is one behind is all that is wrong with it.

The others were met while modelling. The models do what the code does, or leave
the detail out where the last column says so; they have no run of their own.

| What is said | What the code does | In the model |
|---|---|---|
| "ACK (packet accepted)" (ewpdef.h:9) | acknowledges data dropped for want of memory (task6_main.c:177 and 188) | `EwpClient`, `InSequence`; `KeepsPrefix` is claimed until that happens |
| "received ACK flags 0x10, but checksum showed an error" (ewa_log.txt:601) | never compares the checksum of a packet | `EwpClient`, `ok` is not read by an action; `KeepsPrefix` allows other bytes where a damaged packet has come, and nowhere else |
| "expected same as last sequence number" (ewa_log.txt:1573) | an ACK has the number of the next byte expected | `EwpTransfer` |
| "recv got 10 of expected 20 bytes" (ewa_log.txt:645) | an answer has 21 bytes | `EwpTransfer`, `SentSize` |
| "Client sends `EHLO` → Server responds `250`" (README.md:198) | knows `HELO` only and answers nothing | `EwpServer`; a client that pipelines sends it in `server`, one that waits does not |
| "Drain trailing new line if present" (task5_main.c:305) | drains any byte (line 308) | `EwpServer`, `Drain` |
| "`250` after successful data receipt" (README.md:202) | tests the wrong variable (task5_main.c:277), answers 250 after a failed receipt | `EwpServer`, `DataHeaderFails` |
| "Write to file" (task5_main.c:311) | passes the `FILE` object to `fwrite` as the data (line 320) | `EwpServer`, `Written` |
| "Strip trailing whitespace" (task5_main.c:255) | the condition of the loop (line 258) is never true | `EwpServer`, names keep their blanks |
| "Wrote %d records" (task2_main.c:67) | prints one less than it read | `NumberMetadata`, `Close` |
| "based off definitions in RFC 791 (IPv4) and RFC 793 (TCP)" (ipc.c:2) | returns the complement of 32 bits, and extends the sign of a word from 128 * 256 on | `KeyTrial`; `ChecksumOfText` is claimed of the low half and of bytes below 128 |
| "IS prime" (task4_prime.c:17) | passes 1 | `KeyTrial`, `PrimeVerdict` says so |
| "letter grade A-F based on score percentage" (task3_list.c:235) | `iScore * 100` overflows from 21474837 points on | `GradingList`, `IntMax`; the runs stay below |
| "Set points and justification" (task3_list.c:183) | `strncpy` and the terminating zero use two lengths (lines 211 and 213) | left out |

## 7. Not modelled

The superseded copies (`task4_threadsP1.c`, `task4_main.c`, `old_threads.c`,
`old_task6_main.c`), which are not built. The wording and layout of what the
programs print, the reports of the grading list with it, beyond which candidates
they select. What `sscanf` makes of blanks and signs before a number and of numbers
that do not fit an `int`; what `fscanf` makes of those in the input of task 2. The
text of a justification. The error codes of the C library: a call succeeds or fails.
The EWA tool, beyond its side of a transfer.

## Running

```
tlc -config PrimeThreads_key.cfg MCPrimeThreads
tlapm PrimeThreadsProofs.tla
```

and so for the other configurations, whose first part names the module, and for
`EwpTransferProofs`, `EwpServerProofs`, `GradingListProofs`, `GradingMenuProofs`,
`KeyTrialProofs`, `NumberMetadataProofs` and `NatLemmas`. The proofs of the threads
take the longest, some six minutes. `server` takes the longest of the runs,
under three minutes with two workers.

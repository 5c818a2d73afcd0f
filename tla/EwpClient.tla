----------------------------- MODULE EwpClient -----------------------------
(***************************************************************************)
(* The client of task6_307/task6_main.c: it receives the packets of a file *)
(* over one TCP connection, keeps those that come in sequence, answers     *)
(* each with an ACK or a NACK, and saves what it kept.                     *)
(*                                                                         *)
(* The peer is open: it sends any packets of the file in any order and as  *)
(* often as it likes, and closes when it likes.  A byte of the connection  *)
(* is a cell that knows its packet and its place in it, so that a read     *)
(* that starts in the wrong place is seen to.  Byte k of the file is k.    *)
(***************************************************************************)
EXTENDS Integers, Sequences

CONSTANTS
  HeaderSize,   \* sizeof the packed header less Data[1]: 20 in the code
  FileLen,      \* bytes of the file the peer sends
  Packets,      \* the headers it may send
  Misread,      \* the headers that bytes read from the wrong place may show
  MaxSize,      \* 65535 in the code: a size from here on is bad
  MaxSent,      \* bound: packets the peer sends
  Faults,       \* the calls that may fail: see FaultNames
  NoFile

\* "reset": bytes still on their way when the peer closes may be lost.
FaultNames == {"connect", "pData", "pNew", "fopen", "sigpipe", "reset"}

\* ok: the checksum agrees with the bytes, which the client does not look at.
Header == [seq : Nat, size : Nat, fin : BOOLEAN, ok : BOOLEAN]

ASSUME ConstantsAssumption ==
  /\ HeaderSize \in Nat \ {0}
  /\ FileLen \in Nat
  /\ MaxSize \in Nat
  /\ MaxSent \in Nat
  /\ Faults \subseteq FaultNames
  /\ Misread \subseteq Header
  /\ NoFile \notin Seq(Nat)

\* Packets of the file: a slice of it each, FIN on the last slice only.
ASSUME PacketsAssumption ==
  /\ Packets \subseteq Header
  /\ \A p \in Packets : /\ p.seq + p.size <= FileLen
                        /\ p.fin => p.seq + p.size = FileLen
                        /\ p.size < MaxSize

VARIABLES
  wire,           \* every byte the peer has sent
  sent,           \* how many packets those are
  closed,         \* the peer has closed the connection
  pc,             \* where main is
  rpos,           \* bytes of wire taken by finished recvFull calls
  iTotal,         \* bytes the recvFull call under way has
  stHead,         \* the header read last
  uiExpectedSeq,
  pFileBuf,       \* the bytes kept
  iDone,          \* FIN received in sequence
  answers,        \* the answers sent
  saved,          \* butterfly.bmp
  exitCode,
  failed          \* history, read by properties only: what has failed for want
                  \* of memory or of a file so far

peer   == <<wire, sent, closed>>
memory == <<uiExpectedSeq, pFileBuf, iDone, answers, failed>>
vars   == <<peer, pc, rpos, iTotal, stHead, memory, saved, exitCode>>

NoHeader == [seq |-> 0, size |-> 0, fin |-> FALSE, ok |-> FALSE]

Init ==
  /\ wire = <<>> /\ sent = 0 /\ closed = FALSE
  /\ pc = "connect"
  /\ rpos = 0 /\ iTotal = 0
  /\ stHead = NoHeader
  /\ uiExpectedSeq = 0 /\ pFileBuf = <<>> /\ iDone = FALSE
  /\ answers = <<>>
  /\ saved = NoFile
  /\ exitCode = -1
  /\ failed = {}

(***************************************************************************)
(* The peer.                                                               *)
(***************************************************************************)
Cells(p) == [k \in 1..HeaderSize + p.size |-> [pkt |-> p, off |-> k - 1]]

PeerSends(p) ==
  /\ pc # "connect" /\ ~closed
  /\ sent < MaxSent
  /\ wire' = wire \o Cells(p)
  /\ sent' = sent + 1
  /\ UNCHANGED <<closed, pc, rpos, iTotal, stHead, memory, saved, exitCode>>

PeerCloses ==
  /\ pc # "connect" /\ ~closed
  /\ closed' = TRUE
  /\ UNCHANGED <<wire, sent, pc, rpos, iTotal, stHead, memory, saved, exitCode>>

(***************************************************************************)
(* The client.                                                             *)
(***************************************************************************)
swapU32(v) ==
  (v % 256) * 16777216 + ((v \div 256) % 256) * 65536
    + ((v \div 65536) % 256) * 256 + ((v \div 16777216) % 256)

\* The header the bytes from rpos show, when they are a header, else any that
\* such bytes may be taken for.
Shown ==
  IF \A k \in 1..HeaderSize :
       wire[rpos + k] = [pkt |-> wire[rpos + 1].pkt, off |-> k - 1]
  THEN {wire[rpos + 1].pkt}
  ELSE Misread

\* What a damaged packet's data shows in the place of bytes of the file.
Garbled == FileLen + 1

\* The byte of the file a cell carries; a header's cell is none of them.
ByteOf(c) ==
  IF c.off < HeaderSize THEN 0
  ELSE IF c.pkt.ok THEN c.pkt.seq + c.off - HeaderSize + 1 ELSE Garbled

\* A slip: the data is taken from the start of the packet, its header included.
pData_AtHeader == [k \in 1..stHead.size |-> ByteOf(wire[rpos - HeaderSize + k])]

pData == [k \in 1..stHead.size |-> ByteOf(wire[rpos + k])]

connect ==
  /\ pc = "connect"
  /\ \/ pc' = "header" /\ UNCHANGED exitCode
     \/ "connect" \in Faults /\ pc' = "exit" /\ exitCode' = 1
  /\ UNCHANGED <<peer, rpos, iTotal, stHead, memory, saved>>

\* What recvFull waits for.
Wanted == IF pc = "header" THEN HeaderSize ELSE stHead.size

Receiving == pc \in {"header", "data"} /\ iTotal < Wanted

\* recv returns some of the bytes that have arrived.
recvFull ==
  /\ Receiving
  /\ \E n \in 1..Wanted - iTotal :
       /\ rpos + iTotal + n <= Len(wire)
       /\ iTotal' = iTotal + n
  /\ UNCHANGED <<peer, pc, rpos, stHead, memory, saved, exitCode>>

\* recv has nothing more to return.
Disconnected ==
  /\ Receiving /\ closed
  /\ rpos + iTotal = Len(wire) \/ "reset" \in Faults

\* A slip: 0 from recv is not taken for the end of the connection.
recvFails_Ignored ==
  /\ Disconnected
  /\ UNCHANGED vars

\* recv returns 0 or -1: the loop is left, what was read of the packet is dropped.
recvFails ==
  /\ Disconnected
  /\ pc' = "close"
  /\ UNCHANGED <<peer, rpos, iTotal, stHead, memory, saved, exitCode>>

sendAck(n, nack) == answers' = Append(answers, [num |-> n, nack |-> nack])

\* A slip: iTotal is not reset for the next packet.
Take_NoReset(n) == rpos' = rpos + n /\ UNCHANGED iTotal

Take(n) == rpos' = rpos + n /\ iTotal' = 0

Fails(call) == call \in Faults /\ failed' = failed \cup {call}

GoodSize(h) == h.size > 0 /\ h.size < MaxSize

\* A bad size is skipped without an answer, and without its data; so is a
\* packet there is no memory for, after a NACK with the number as it was sent.
HeaderRead ==
  /\ pc = "header" /\ iTotal = HeaderSize
  /\ Take(HeaderSize)
  /\ stHead' \in Shown
  /\ \/ ~GoodSize(stHead') /\ UNCHANGED <<pc, answers, failed>>
     \/ /\ GoodSize(stHead')
        /\ \/ pc' = "data" /\ UNCHANGED <<answers, failed>>
           \/ /\ Fails("pData")
              /\ sendAck(swapU32(stHead'.seq), TRUE)
              /\ UNCHANGED pc
  /\ UNCHANGED <<peer, uiExpectedSeq, pFileBuf, iDone, saved, exitCode>>

DataComplete == pc = "data" /\ iTotal = stHead.size

\* A slip: FIN ends the transfer although the packet is refused.
OutOfSequence_Ends ==
  /\ DataComplete
  /\ stHead.seq # uiExpectedSeq
  /\ sendAck(uiExpectedSeq, TRUE)
  /\ Take(stHead.size)
  /\ iDone' = stHead.fin
  /\ pc' = IF stHead.fin THEN "close" ELSE "header"
  /\ UNCHANGED <<peer, stHead, uiExpectedSeq, pFileBuf, saved, exitCode, failed>>

\* A slip: the NACK gives the number of the packet that came.
OutOfSequence_WrongNumber ==
  /\ DataComplete
  /\ stHead.seq # uiExpectedSeq
  /\ sendAck(stHead.seq, TRUE)
  /\ Take(stHead.size)
  /\ pc' = "header"
  /\ UNCHANGED <<peer, stHead, uiExpectedSeq, pFileBuf, iDone, saved, exitCode, failed>>

\* A slip: a packet out of sequence is dropped in silence.
OutOfSequence_Silent ==
  /\ DataComplete
  /\ stHead.seq # uiExpectedSeq
  /\ Take(stHead.size)
  /\ pc' = "header"
  /\ UNCHANGED <<peer, stHead, memory, saved, exitCode>>

OutOfSequence ==
  /\ DataComplete
  /\ stHead.seq # uiExpectedSeq
  /\ sendAck(uiExpectedSeq, TRUE)
  /\ Take(stHead.size)
  /\ pc' = "header"
  /\ UNCHANGED <<peer, stHead, uiExpectedSeq, pFileBuf, iDone, saved, exitCode, failed>>

\* A slip: the sequence number does not advance with the data.
InSequence_NoAdvance ==
  /\ DataComplete
  /\ stHead.seq = uiExpectedSeq
  /\ pFileBuf' = pFileBuf \o pData
  /\ sendAck(stHead.seq + stHead.size, FALSE)
  /\ iDone' = stHead.fin
  /\ pc' = IF stHead.fin THEN "close" ELSE "header"
  /\ Take(stHead.size)
  /\ UNCHANGED <<peer, stHead, uiExpectedSeq, saved, exitCode, failed>>

\* Without memory for the longer buffer the data is dropped, the answer is the
\* same.
InSequence ==
  /\ DataComplete
  /\ stHead.seq = uiExpectedSeq
  /\ \/ pFileBuf' = pFileBuf \o pData /\ UNCHANGED failed
     \/ Fails("pNew") /\ UNCHANGED pFileBuf
  /\ sendAck(stHead.seq + stHead.size, FALSE)
  /\ uiExpectedSeq' = stHead.seq + stHead.size
  /\ iDone' = stHead.fin
  /\ pc' = IF stHead.fin THEN "close" ELSE "header"
  /\ Take(stHead.size)
  /\ UNCHANGED <<peer, stHead, saved, exitCode>>

\* The peer has closed, so that send may raise SIGPIPE, which ends the process.
sendKills ==
  /\ "sigpipe" \in Faults /\ closed
  /\ \/ DataComplete
     \/ /\ "pData" \in Faults
        /\ pc = "header" /\ iTotal = HeaderSize
        /\ \E h \in Shown : GoodSize(h)
  /\ pc' = "killed"
  /\ UNCHANGED <<peer, rpos, iTotal, stHead, memory, saved, exitCode>>

Save ==
  /\ pc = "close"
  /\ pc' = "exit" /\ exitCode' = 0
  /\ \/ pFileBuf # <<>> /\ saved' = pFileBuf /\ UNCHANGED failed
     \/ pFileBuf # <<>> /\ Fails("fopen") /\ UNCHANGED saved
     \/ pFileBuf = <<>> /\ UNCHANGED <<saved, failed>>
  /\ UNCHANGED <<peer, rpos, iTotal, stHead, uiExpectedSeq, pFileBuf, iDone, answers>>

client ==
  \/ connect \/ recvFull \/ recvFails \/ HeaderRead \/ OutOfSequence
  \/ InSequence \/ sendKills \/ Save

\* The process has ended.
Ended == pc \in {"exit", "killed"} /\ UNCHANGED vars

Next == client \/ PeerCloses \/ (\E p \in Packets : PeerSends(p)) \/ Ended

\* The client is never held back when it can move; of the peer nothing is
\* asked.
Spec     == Init /\ [][Next]_vars
FairSpec == Spec /\ WF_vars(client)

(***************************************************************************)
(* Properties.                                                             *)
(***************************************************************************)
File == [k \in 1..FileLen |-> k]

Over == pc \in {"exit", "killed"}

TypeOK ==
  /\ wire \in Seq([pkt : Packets, off : Nat])
  /\ sent \in 0..MaxSent
  /\ closed \in BOOLEAN
  /\ pc \in {"connect", "header", "data", "close", "exit", "killed"}
  /\ rpos \in Nat /\ iTotal \in Nat /\ rpos + iTotal <= Len(wire)
  /\ stHead \in Header
  /\ uiExpectedSeq \in Nat
  /\ pFileBuf \in Seq(Nat)
  /\ iDone \in BOOLEAN
  /\ answers \in Seq([num : Nat, nack : BOOLEAN])
  /\ saved \in Seq(Nat) \cup {NoFile}
  /\ exitCode \in {-1, 0, 1}
  /\ failed \subseteq Faults

Damage == \E p \in Packets : ~p.ok

\* A damaged packet that has byte k in its slice has come.
GarbledAt(k) ==
  \E j \in 1..rpos :
    LET p == wire[j].pkt
    IN  ~p.ok /\ k \in p.seq + 1..p.seq + p.size

\* Byte k of what is kept is that of the file, or a damaged packet's.
Right(k) == pFileBuf[k] = k \/ (pFileBuf[k] = Garbled /\ GarbledAt(k))

\* Whatever the peer sends, in whatever order and however often, the client
\* keeps the first uiExpectedSeq bytes of the file, each once and in its place,
\* until an allocation fails.  Other bytes stand only where a damaged packet
\* that has come carries them, since the client never verifies uiChecksum.
KeepsPrefix ==
  failed \cap {"pData", "pNew"} = {} =>
    /\ uiExpectedSeq <= FileLen
    /\ Len(pFileBuf) = uiExpectedSeq
    /\ \A k \in 1..Len(pFileBuf) : Right(k)

\* "FIN received, transfer complete": the file is whole, unless an allocation
\* failed; and a client that returns with something kept has saved all of it,
\* unless fopen failed.
FinMeansComplete ==
  /\ iDone /\ failed \cap {"pData", "pNew"} = {} =>
       /\ Len(pFileBuf) = FileLen
       /\ \A k \in 1..FileLen : Right(k)
  /\ pc = "exit" /\ pFileBuf # <<>> /\ "fopen" \notin failed => saved = pFileBuf

\* The answers tell one story: each ACK is beyond the ACKs before it, each NACK
\* repeats the number of the last ACK, the first byte still missing; until there
\* is no memory for a packet, whose data is then read as headers.
AnswersAgree ==
  "pData" \notin failed =>
    \A j \in 1..Len(answers) :
      LET before == {answers[i].num : i \in {k \in 1..j-1 : ~answers[k].nack}} \cup {0}
      IN  IF answers[j].nack
          THEN answers[j].num \in before /\ \A n \in before : n <= answers[j].num
          ELSE \A n \in before : n < answers[j].num

\* Even when an allocation fails and headers are read from the wrong place, the
\* buffer never holds more than the sequence number accounts for, and holds
\* exactly that much until data is dropped.
BufferWithinSequence ==
  /\ Len(pFileBuf) <= uiExpectedSeq
  /\ "pNew" \notin failed => Len(pFileBuf) = uiExpectedSeq

\* Once the peer has closed, the client stops waiting for it and ends.
EndsAfterClose == closed ~> Over
=============================================================================

------------------------- MODULE EwpTransferProofs -------------------------
(***************************************************************************)
(* Proofs about EwpClient and about EwpTransfer, the client with the sender*)
(* of the tool, for all packets, in any number and order, every file, number*)
(* of tries and size of the answers.                                       *)
(***************************************************************************)
EXTENDS EwpTransfer, FiniteSetTheorems, TLAPS

(***************************************************************************)
(* PART 1.  The client with any peer and any failures: its type invariant, *)
(* the bound on the buffer, the prefix of the file, the meaning of FIN and *)
(* the story of the answers.                                               *)
(***************************************************************************)

(***************************************************************************)
(* Types, one part of the state at a time.                                 *)
(***************************************************************************)
Labels == {"connect", "header", "data", "close", "exit", "killed"}
Cell   == [pkt : Packets, off : Nat]
Answer == [num : Nat, nack : BOOLEAN]

PeerType   == wire \in Seq(Cell) /\ sent \in 0..MaxSent /\ closed \in BOOLEAN
CountsType == /\ pc \in Labels
              /\ rpos \in Nat /\ iTotal \in Nat /\ rpos + iTotal <= Len(wire)
HeadType   == stHead \in Header
BufferType == uiExpectedSeq \in Nat /\ pFileBuf \in Seq(Nat)
OtherType  == /\ iDone \in BOOLEAN
              /\ saved \in Seq(Nat) \cup {NoFile}
              /\ exitCode \in {-1, 0, 1}
AnswerType == answers \in Seq(Answer)
FailedType == failed \subseteq Faults

TInv ==
  /\ PeerType /\ CountsType /\ HeadType /\ BufferType /\ OtherType /\ AnswerType
  /\ FailedType

\* The parts make up the type invariant of the module.
LEMMA PartsAreTypes == TInv => TypeOK
BY DEF TInv, PeerType, CountsType, HeadType, BufferType, OtherType, AnswerType, FailedType,
       TypeOK,
       Labels, Cell, Answer

\* The constants that are numbers.
LEMMA Sizes == /\ HeaderSize \in Nat /\ HeaderSize >= 1
               /\ FileLen \in Nat /\ MaxSize \in Nat /\ MaxSent \in Nat
BY ConstantsAssumption

\* Packets are headers of slices of the file.
LEMMA PacketFacts ==
  ASSUME NEW p \in Packets
  PROVE  /\ p \in Header /\ p.seq \in Nat /\ p.size \in Nat
         /\ p.fin \in BOOLEAN /\ p.ok \in BOOLEAN
         /\ p.seq + p.size <= FileLen /\ p.size < MaxSize
         /\ p.fin => p.seq + p.size = FileLen
<1>1. p \in Header
  BY PacketsAssumption
<1> QED
  BY <1>1, PacketsAssumption DEF Header

\* Lengths are numbers.
LEMMA LenWire ==
  ASSUME PeerType
  PROVE  Len(wire) \in Nat /\ wire \in Seq(Cell)
<1>1. wire \in Seq(Cell)
  BY DEF PeerType
<1> QED
  BY <1>1

\* The same for what the client keeps and answers.
LEMMA LenKept ==
  ASSUME BufferType, AnswerType
  PROVE  /\ pFileBuf \in Seq(Nat) /\ Len(pFileBuf) \in Nat
         /\ answers \in Seq(Answer) /\ Len(answers) \in Nat
<1>1. pFileBuf \in Seq(Nat) /\ answers \in Seq(Answer)
  BY DEF BufferType, AnswerType
<1> QED
  BY <1>1

\* The bytes a packet adds to the connection.
LEMMA CellsType ==
  ASSUME NEW p \in Packets
  PROVE  Cells(p) \in Seq(Cell) /\ Len(Cells(p)) = HeaderSize + p.size
<1>1. HeaderSize + p.size \in Nat
  BY PacketFacts, Sizes
<1>2. \A k \in 1..HeaderSize + p.size : [pkt |-> p, off |-> k - 1] \in Cell
  BY <1>1 DEF Cell
<1> QED
  BY <1>1, <1>2 DEF Cells

\* A header that is read is a header, of a packet or misread.
LEMMA ShownType ==
  ASSUME PeerType, CountsType, iTotal = HeaderSize
  PROVE  Shown \subseteq Header
<1>1. rpos + 1 \in 1..Len(wire)
  BY LenWire, Sizes DEF CountsType
<1>2. wire[rpos + 1] \in Cell
  BY <1>1, LenWire
<1>3. wire[rpos + 1].pkt \in Header
  BY <1>2, PacketsAssumption DEF Cell
<1>4. {wire[rpos + 1].pkt} \subseteq Header /\ Misread \subseteq Header
  BY <1>3, ConstantsAssumption
<1> QED
  BY <1>4 DEF Shown

\* Sizes and numbers of a header.
LEMMA HeaderFacts ==
  ASSUME NEW h \in Header
  PROVE  h.seq \in Nat /\ h.size \in Nat /\ h.fin \in BOOLEAN /\ h.ok \in BOOLEAN
BY DEF Header

\* The data of a packet is a sequence of as many bytes as its header says.
LEMMA DataType ==
  ASSUME PeerType, CountsType, HeadType, DataComplete
  PROVE  /\ pData \in Seq(Nat) /\ Len(pData) = stHead.size
         /\ \A k \in 1..stHead.size : pData[k] = ByteOf(wire[rpos + k])
<1>1. stHead.size \in Nat /\ stHead.seq \in Nat
  BY HeaderFacts DEF HeadType
<1>2. ASSUME NEW k \in 1..stHead.size
      PROVE  ByteOf(wire[rpos + k]) \in Nat
  <2>1. rpos + k \in 1..Len(wire)
    BY <1>1, LenWire DEF CountsType, DataComplete
  <2>2. wire[rpos + k] \in Cell
    BY <2>1, LenWire
  <2>3. wire[rpos + k].pkt \in Packets /\ wire[rpos + k].off \in Nat
    BY <2>2 DEF Cell
  <2>4. wire[rpos + k].pkt.seq \in Nat
    BY <2>3, PacketFacts
  <2>5. \A a, b \in Nat : b >= HeaderSize => a + b - HeaderSize + 1 \in Nat
    BY Sizes
  <2>6. Garbled \in Nat
    BY Sizes DEF Garbled
  <2>7. ~(wire[rpos + k].off < HeaderSize) => wire[rpos + k].off >= HeaderSize
    BY <2>3, Sizes
  <2> QED
    BY <2>3, <2>4, <2>5, <2>6, <2>7 DEF ByteOf
<1> QED
  BY <1>1, <1>2 DEF pData

\* Swapping the bytes of a number gives a number.
LEMMA SwapType ==
  ASSUME NEW v \in Nat
  PROVE  swapU32(v) \in Nat
<1>1. \A a \in Nat : a % 256 \in Nat
  OBVIOUS
<1>2. v \div 256 \in Nat /\ v \div 65536 \in Nat /\ v \div 16777216 \in Nat
  OBVIOUS
<1>3. /\ v % 256 \in Nat /\ (v \div 256) % 256 \in Nat
      /\ (v \div 65536) % 256 \in Nat /\ (v \div 16777216) % 256 \in Nat
  BY <1>1, <1>2
<1>4. \A a, b, c, d \in Nat : a * 16777216 + b * 65536 + c * 256 + d \in Nat
  OBVIOUS
<1> QED
  BY <1>3, <1>4 DEF swapU32

\* The types hold at the start.
LEMMA TypeInit == Init => TInv
<1> SUFFICES ASSUME Init PROVE TInv
  OBVIOUS
<1>1. PeerType
  <2>1. <<>> \in Seq(Cell)
    OBVIOUS
  <2>2. 0 \in 0..MaxSent
    BY Sizes
  <2> QED
    BY <2>1, <2>2 DEF Init, PeerType
<1>2. CountsType
  BY DEF Init, CountsType, Labels
<1>3. HeadType
  BY DEF Init, HeadType, NoHeader, Header
<1>4. BufferType /\ OtherType
  <2>1. <<>> \in Seq(Nat)
    OBVIOUS
  <2> QED
    BY <2>1 DEF Init, BufferType, OtherType
<1>5. AnswerType
  <2>1. <<>> \in Seq(Answer)
    OBVIOUS
  <2> QED
    BY <2>1 DEF Init, AnswerType
<1>6. FailedType
  BY DEF Init, FailedType
<1> QED
  BY <1>1, <1>2, <1>3, <1>4, <1>5, <1>6 DEF TInv

\* Taking what has been read leaves the counts right.
LEMMA TakeCounts ==
  ASSUME PeerType, CountsType, UNCHANGED wire, NEW n \in Nat, n <= iTotal, Take(n)
  PROVE  rpos' \in Nat /\ iTotal' \in Nat /\ rpos' + iTotal' <= Len(wire')
BY LenWire DEF CountsType, Take

\* What the peer sends keeps the types.
LEMMA TypePeer ==
  ASSUME TInv, PeerCloses \/ \E p \in Packets : PeerSends(p)
  PROVE  TInv'
<1>1. CASE PeerCloses
  BY <1>1 DEF PeerCloses, TInv, PeerType, CountsType, HeadType, BufferType, OtherType,
              AnswerType, FailedType, memory
<1>2. ASSUME NEW p \in Packets, PeerSends(p)
      PROVE  TInv'
  <2>1. wire \o Cells(p) \in Seq(Cell) /\ Len(wire \o Cells(p)) >= Len(wire)
    <3>1. wire \in Seq(Cell) /\ Cells(p) \in Seq(Cell) /\ Len(Cells(p)) \in Nat
      BY LenWire, CellsType, Sizes, PacketFacts DEF TInv
    <3> QED
      BY <3>1
  <2>2. PeerType'
    BY <1>2, <2>1, Sizes DEF PeerSends, TInv, PeerType
  <2>3. CountsType'
    <3>1. Len(wire) \in Nat /\ Len(wire') \in Nat /\ Len(wire') >= Len(wire)
      BY <1>2, <2>1, LenWire DEF PeerSends, TInv
    <3> QED
      BY <1>2, <3>1 DEF PeerSends, TInv, CountsType
  <2> QED
    BY <1>2, <2>2, <2>3
       DEF PeerSends, TInv, HeadType, BufferType, OtherType, AnswerType, FailedType, memory
<1> QED
  BY <1>1, <1>2

\* An answer is a number and its kind.
LEMMA AnswerAppended ==
  ASSUME AnswerType, NEW n \in Nat, NEW nack \in BOOLEAN, sendAck(n, nack)
  PROVE  AnswerType'
<1>1. answers \in Seq(Answer) /\ [num |-> n, nack |-> nack] \in Answer
  BY DEF AnswerType, Answer
<1> QED
  BY <1>1 DEF sendAck, AnswerType

\* What the client does keeps the types.
LEMMA TypeClient ==
  ASSUME TInv, client
  PROVE  TInv'
<1> USE DEF TInv
<1>1. CASE connect \/ recvFails \/ sendKills
  BY <1>1 DEF connect, recvFails, sendKills, PeerType, CountsType, HeadType, BufferType,
              OtherType, AnswerType, FailedType, peer, memory, Labels
<1>2. CASE recvFull
  <2>1. CountsType'
    <3>1. Wanted \in Nat
      BY HeaderFacts, Sizes DEF Wanted, HeadType
    <3> QED
      BY <1>2, <3>1, LenWire DEF recvFull, CountsType, peer
  <2> QED
    BY <1>2, <2>1 DEF recvFull, PeerType, HeadType, BufferType, OtherType, AnswerType,
                      FailedType, peer, memory
<1>3. CASE HeaderRead
  <2>1. UNCHANGED wire /\ Take(HeaderSize) /\ iTotal = HeaderSize /\ pc = "header"
    BY <1>3 DEF HeaderRead, peer
  <2>2. rpos' \in Nat /\ iTotal' \in Nat /\ rpos' + iTotal' <= Len(wire')
    BY <2>1, TakeCounts, Sizes
  <2>3. CountsType'
    BY <1>3, <2>1, <2>2 DEF HeaderRead, CountsType, Labels
  <2>4. stHead' \in Header
    BY <1>3, <2>1, ShownType DEF HeaderRead
  <2>5. AnswerType'
    <3>1. CASE UNCHANGED answers
      BY <3>1 DEF AnswerType
    <3>2. CASE sendAck(swapU32(stHead'.seq), TRUE)
      BY <2>4, <3>2, HeaderFacts, SwapType, AnswerAppended
    <3> QED
      BY <1>3, <3>1, <3>2 DEF HeaderRead
  <2>6. FailedType'
    BY <1>3 DEF HeaderRead, Fails, FailedType
  <2> QED
    BY <1>3, <2>3, <2>4, <2>5, <2>6
       DEF HeaderRead, PeerType, HeadType, BufferType, OtherType, peer
<1>4. CASE OutOfSequence \/ InSequence
  <2>1. DataComplete /\ UNCHANGED <<peer, stHead>> /\ Take(stHead.size)
        /\ pc' \in {"header", "close"}
    BY <1>4 DEF OutOfSequence, InSequence
  <2>2. stHead.size \in Nat /\ stHead.seq \in Nat /\ stHead.fin \in BOOLEAN
    BY HeaderFacts DEF HeadType
  <2>3. rpos' \in Nat /\ iTotal' \in Nat /\ rpos' + iTotal' <= Len(wire')
    BY <2>1, <2>2, TakeCounts DEF DataComplete, CountsType, peer
  <2>4. CountsType'
    BY <2>1, <2>3 DEF CountsType, Labels
  <2>5. AnswerType'
    <3>1. CASE OutOfSequence
      BY <3>1, AnswerAppended DEF OutOfSequence, BufferType
    <3>2. CASE InSequence
      <4>1. stHead.seq + stHead.size \in Nat
        BY <2>2
      <4> QED
        BY <3>2, <4>1, AnswerAppended DEF InSequence
    <3> QED
      BY <1>4, <3>1, <3>2
  <2>6. BufferType'
    <3>1. pFileBuf \o pData \in Seq(Nat)
      BY <2>1, DataType, LenKept
    <3>2. pFileBuf' = pFileBuf \/ pFileBuf' = pFileBuf \o pData
      BY <1>4 DEF OutOfSequence, InSequence
    <3>3. stHead.seq + stHead.size \in Nat
      BY <2>2
    <3>4. uiExpectedSeq' = uiExpectedSeq \/ uiExpectedSeq' = stHead.seq + stHead.size
      BY <1>4 DEF OutOfSequence, InSequence
    <3> QED
      BY <3>1, <3>2, <3>3, <3>4 DEF BufferType
  <2>7. OtherType'
    BY <1>4, <2>2 DEF OutOfSequence, InSequence, OtherType
  <2>8. FailedType'
    BY <1>4 DEF OutOfSequence, InSequence, Fails, FailedType
  <2> QED
    BY <2>1, <2>4, <2>5, <2>6, <2>7, <2>8 DEF PeerType, HeadType, peer
<1>5. CASE Save
  <2>1. OtherType'
    BY <1>5 DEF Save, OtherType, BufferType
  <2>2. FailedType'
    BY <1>5 DEF Save, Fails, FailedType
  <2> QED
    BY <1>5, <2>1, <2>2 DEF Save, PeerType, CountsType, HeadType, BufferType, AnswerType,
                            peer, Labels
<1> QED
  BY <1>1, <1>2, <1>3, <1>4, <1>5 DEF client

\* Every step keeps the types.
LEMMA TypeNext ==
  ASSUME TInv, [Next]_vars
  PROVE  TInv'
<1>1. CASE Ended \/ UNCHANGED vars
  BY <1>1 DEF Ended, TInv, PeerType, CountsType, HeadType, BufferType, OtherType, AnswerType,
              FailedType, vars, peer, memory
<1> QED
  BY <1>1, TypePeer, TypeClient DEF Next

\* TypeOK holds in every reachable state: reads stay on the wire, and the buffer,
\* the answers and the saved file are what their types say.
THEOREM TypeCorrect == Spec => []TypeOK
<1>1. Init => TInv
  BY TypeInit
<1>2. TInv /\ [Next]_vars => TInv'
  BY TypeNext
<1>3. TInv => TypeOK
  BY PartsAreTypes
<1> QED
  BY <1>1, <1>2, <1>3, PTL DEF Spec

(***************************************************************************)
(* The buffer and the answers.                                             *)
(***************************************************************************)
\* What has failed stays on record.
LEMMA FailuresStay ==
  ASSUME [Next]_vars
  PROVE  failed \subseteq failed'
BY DEF Next, client, connect, recvFull, recvFails, HeaderRead, OutOfSequence, InSequence, sendKills,
       Save, Fails, PeerCloses, PeerSends, Ended, vars, memory

\* Every step keeps the buffer within the sequence number.
LEMMA BufferNext ==
  ASSUME TInv, BufferWithinSequence, [Next]_vars
  PROVE  BufferWithinSequence'
<1> USE DEF TInv
<1>1. CASE InSequence
  <2>1. /\ \/ pFileBuf' = pFileBuf \o pData /\ UNCHANGED failed
           \/ "pNew" \in failed' /\ pFileBuf' = pFileBuf
        /\ uiExpectedSeq' = stHead.seq + stHead.size
        /\ stHead.seq = uiExpectedSeq /\ DataComplete
    BY <1>1 DEF InSequence, Fails
  <2>2. stHead.size \in Nat /\ uiExpectedSeq \in Nat
    BY HeaderFacts DEF HeadType, BufferType
  <2>3. Len(pFileBuf \o pData) = Len(pFileBuf) + stHead.size /\ Len(pFileBuf) \in Nat
    <3>1. pFileBuf \in Seq(Nat) /\ Len(pFileBuf) \in Nat
      BY LenKept
    <3>2. pData \in Seq(Nat) /\ Len(pData) = stHead.size
      BY <2>1, DataType
    <3> QED
      BY <3>1, <3>2
  <2>4. uiExpectedSeq' = uiExpectedSeq + stHead.size
    BY <2>1
  <2>5. CASE pFileBuf' = pFileBuf \o pData /\ UNCHANGED failed
    BY <2>2, <2>3, <2>4, <2>5 DEF BufferWithinSequence
  <2>6. CASE "pNew" \in failed' /\ pFileBuf' = pFileBuf
    BY <2>2, <2>3, <2>4, <2>6 DEF BufferWithinSequence
  <2> QED
    BY <2>1, <2>5, <2>6
<1>2. CASE ~InSequence
  <2>1. UNCHANGED <<pFileBuf, uiExpectedSeq>>
    BY <1>2 DEF Next, client, connect, recvFull, recvFails, HeaderRead, OutOfSequence, sendKills,
         Save, PeerCloses, PeerSends, Ended, vars, memory
  <2> QED
    BY <2>1, FailuresStay DEF BufferWithinSequence
<1> QED
  BY <1>1, <1>2

\* BufferWithinSequence, whatever is sent, misread or fails.
THEOREM BufferBounded == Spec => []BufferWithinSequence
<1>1. Init => TInv /\ BufferWithinSequence
  BY TypeInit DEF Init, BufferWithinSequence
<1>2. TInv /\ BufferWithinSequence /\ [Next]_vars => (TInv /\ BufferWithinSequence)'
  BY TypeNext, BufferNext
<1> QED
  BY <1>1, <1>2, PTL DEF Spec

\* With a packet in hand its size is good, and until then nothing is kept.
InHand ==
  /\ pc \in {"connect", "header", "data"} => ~iDone
  /\ pc = "data" => GoodSize(stHead)
  /\ pc = "connect" => pFileBuf = <<>>

\* Every step keeps the packet in hand good.
LEMMA InHandNext ==
  ASSUME TInv, InHand, [Next]_vars
  PROVE  InHand'
<1>1. CASE HeaderRead
  BY <1>1 DEF HeaderRead, InHand, GoodSize
<1>2. CASE OutOfSequence \/ InSequence
  <2>1. stHead.fin \in BOOLEAN
    BY HeaderFacts DEF TInv, HeadType
  <2>2. pc = "data" /\ pc' \in {"header", "close"}
    BY <1>2 DEF OutOfSequence, InSequence, DataComplete
  <2>3. pc' = "header" => ~iDone'
    <3>1. CASE OutOfSequence
      BY <2>2, <3>1 DEF OutOfSequence, InHand
    <3>2. CASE InSequence
      BY <2>1, <3>2 DEF InSequence
    <3> QED
      BY <1>2, <3>1, <3>2
  <2> QED
    BY <2>2, <2>3 DEF InHand
<1>3. CASE connect \/ recvFails \/ sendKills \/ Save
  BY <1>3 DEF connect, recvFails, sendKills, Save, InHand, memory
<1>4. CASE recvFull \/ Ended \/ UNCHANGED vars \/ PeerCloses \/ \E p \in Packets : PeerSends(p)
  <2>1. UNCHANGED <<pc, stHead, iDone, pFileBuf>>
    BY <1>4 DEF recvFull, Ended, PeerCloses, PeerSends, vars, memory
  <2>2. GoodSize(stHead) => GoodSize(stHead')
    BY <2>1
  <2> QED
    BY <2>1, <2>2 DEF InHand, GoodSize
<1> QED
  BY <1>1, <1>2, <1>3, <1>4 DEF Next, client

\* The last ACK gave the number of the byte expected, and none a greater one.
AcksReach ==
  /\ \A i \in 1..Len(answers) : ~answers[i].nack => answers[i].num <= uiExpectedSeq
  /\ uiExpectedSeq = 0 \/ \E i \in 1..Len(answers) :
                            ~answers[i].nack /\ answers[i].num = uiExpectedSeq

\* The numbers of the ACKs before the j-th answer, and what AnswersAgree says of it.
AcksBefore(s, j) == {s[i].num : i \in {k \in 1..j-1 : ~s[k].nack}} \cup {0}
Agrees(s, j) ==
  IF s[j].nack
  THEN s[j].num \in AcksBefore(s, j) /\ \A n \in AcksBefore(s, j) : n <= s[j].num
  ELSE \A n \in AcksBefore(s, j) : n < s[j].num

Story == \A j \in 1..Len(answers) : Agrees(answers, j)

\* AnswersAgree answer by answer.
LEMMA AgreeOneByOne == AnswersAgree <=> ("pData" \notin failed => Story)
BY DEF AnswersAgree, Story, Agrees, AcksBefore

\* One more answer: a NACK of the byte expected, or an ACK beyond it.
LEMMA OneMoreAnswer ==
  ASSUME TInv, Story, AcksReach, NEW n \in Nat, NEW nack \in BOOLEAN,
         sendAck(n, nack),
         nack => n = uiExpectedSeq /\ uiExpectedSeq' = uiExpectedSeq,
         ~nack => n > uiExpectedSeq /\ uiExpectedSeq' = n
  PROVE  Story' /\ AcksReach'
<1> DEFINE l == Len(answers)
           s == answers'
<1>1. answers \in Seq(Answer) /\ l \in Nat /\ uiExpectedSeq \in Nat
  BY LenKept DEF TInv, BufferType
<1>2. Len(s) = l + 1 /\ s[l + 1] = [num |-> n, nack |-> nack]
      /\ \A i \in 1..l : s[i] = answers[i]
  BY <1>1 DEF sendAck
<1>3. \A i \in 1..l : answers[i] \in Answer /\ answers[i].num \in Nat
  <2>1. \A i \in 1..l : answers[i] \in Answer
    BY <1>1
  <2>2. \A a \in Answer : a.num \in Nat
    BY DEF Answer
  <2> QED
    BY <2>1, <2>2
<1>4. s[l + 1].num = n /\ s[l + 1].nack = nack
  BY <1>2
<1>5. \A m \in AcksBefore(s, l + 1) : m \in Nat /\ m <= uiExpectedSeq
  <2>1. ASSUME NEW i \in 1..(l + 1) - 1, ~s[i].nack
        PROVE  s[i].num \in Nat /\ s[i].num <= uiExpectedSeq
    <3>1. i \in 1..l
      BY <1>1
    <3> QED
      BY <1>2, <1>3, <2>1, <3>1 DEF AcksReach
  <2> HIDE DEF s, l
  <2> QED
    BY <1>1, <2>1 DEF AcksBefore
<1>6. uiExpectedSeq \in AcksBefore(s, l + 1)
  <2>1. CASE uiExpectedSeq = 0
    BY <2>1 DEF AcksBefore
  <2>2. ASSUME NEW i \in 1..l, ~answers[i].nack, answers[i].num = uiExpectedSeq
        PROVE  uiExpectedSeq \in AcksBefore(s, l + 1)
    <3>1. i \in 1..(l + 1) - 1 /\ ~s[i].nack /\ s[i].num = uiExpectedSeq
      BY <1>1, <1>2, <2>2
    <3> HIDE DEF s, l
    <3> QED
      BY <3>1 DEF AcksBefore
  <2> QED
    BY <2>1, <2>2 DEF AcksReach
<1>7. Agrees(s, l + 1)
  <2> HIDE DEF s, l
  <2>1. CASE nack
    BY <1>4, <1>5, <1>6, <2>1 DEF Agrees
  <2>2. CASE ~nack
    <3>1. \A m \in AcksBefore(s, l + 1) : m < n
      BY <1>1, <1>5, <2>2
    <3> QED
      BY <1>4, <2>2, <3>1 DEF Agrees
  <2> QED
    BY <2>1, <2>2
<1>8. ASSUME NEW j \in 1..l
      PROVE  Agrees(s, j)
  <2>1. Agrees(answers, j)
    BY DEF Story
  <2>2. j \in Nat /\ \A k \in 1..j-1 : k \in 1..l
    BY <1>1
  <2>3. \A k \in 1..j-1 : s[k] = answers[k]
    BY <1>2, <2>2
  <2>4. AcksBefore(s, j) = AcksBefore(answers, j)
    <3> HIDE DEF s, l
    <3> QED
      BY <2>3 DEF AcksBefore
  <2>5. s[j] = answers[j]
    BY <1>2
  <2> HIDE DEF s, l
  <2> QED
    BY <2>1, <2>4, <2>5 DEF Agrees
<1>9. Story'
  <2>1. \A j \in 1..Len(s) : j \in 1..l \/ j = l + 1
    BY <1>1, <1>2
  <2>2. \A j \in 1..Len(s) : Agrees(s, j)
    BY <1>7, <1>8, <2>1
  <2> QED
    BY <2>2 DEF Story, Agrees, AcksBefore
<1>10. AcksReach'
  <2>1. ASSUME NEW i \in 1..Len(s), ~s[i].nack
        PROVE  s[i].num <= uiExpectedSeq'
    <3>1. CASE i = l + 1
      BY <1>1, <1>4, <2>1, <3>1
    <3>2. CASE i # l + 1
      <4>1. i \in 1..l
        BY <1>1, <1>2, <3>2
      <4>2. answers[i].num <= uiExpectedSeq /\ answers[i].num \in Nat /\ s[i] = answers[i]
        BY <1>2, <1>3, <2>1, <4>1 DEF AcksReach
      <4> QED
        BY <1>1, <4>2
    <3> QED
      BY <3>1, <3>2
  <2>2. uiExpectedSeq' = 0 \/ \E i \in 1..Len(s) : ~s[i].nack /\ s[i].num = uiExpectedSeq'
    <3>1. CASE nack
      <4>1. ASSUME NEW i \in 1..l, ~answers[i].nack, answers[i].num = uiExpectedSeq
            PROVE  i \in 1..Len(s) /\ ~s[i].nack /\ s[i].num = uiExpectedSeq'
        BY <1>1, <1>2, <3>1, <4>1
      <4> QED
        BY <3>1, <4>1 DEF AcksReach
    <3>2. CASE ~nack
      <4>1. l + 1 \in 1..Len(s)
        BY <1>1, <1>2
      <4> QED
        BY <1>4, <3>2, <4>1
    <3> QED
      BY <3>1, <3>2
  <2> QED
    BY <2>1, <2>2 DEF AcksReach
<1> QED
  BY <1>9, <1>10

\* Every step keeps the answers in agreement as long as there is memory for each
\* packet.
LEMMA AnswersNext ==
  ASSUME TInv, InHand, Story, AcksReach, "pData" \notin failed', [Next]_vars
  PROVE  Story' /\ AcksReach'
<1>1. CASE OutOfSequence
  <2>1. uiExpectedSeq \in Nat
    BY DEF TInv, BufferType
  <2> QED
    BY <1>1, <2>1, OneMoreAnswer DEF OutOfSequence
<1>2. CASE InSequence
  <2>1. stHead.size \in Nat /\ stHead.size > 0 /\ stHead.seq \in Nat
    BY <1>2, HeaderFacts DEF InSequence, DataComplete, InHand, GoodSize, TInv, HeadType
  <2>2. stHead.seq + stHead.size \in Nat /\ stHead.seq + stHead.size > stHead.seq
    BY <2>1
  <2>3. stHead.seq = uiExpectedSeq /\ sendAck(stHead.seq + stHead.size, FALSE)
        /\ uiExpectedSeq' = stHead.seq + stHead.size
    BY <1>2 DEF InSequence
  <2> QED
    BY <2>2, <2>3, OneMoreAnswer
<1>3. CASE ~(OutOfSequence \/ InSequence)
  <2>1. UNCHANGED <<answers, uiExpectedSeq>>
    BY <1>3 DEF Next, client, connect, recvFull, recvFails, HeaderRead, Fails, sendKills,
         Save, PeerCloses, PeerSends, Ended, vars, memory
  <2> QED
    BY <2>1 DEF Story, Agrees, AcksBefore, AcksReach
<1> QED
  BY <1>1, <1>2, <1>3

AnswersInv == TInv /\ InHand /\ ("pData" \notin failed => Story /\ AcksReach)

\* AnswersAgree, whatever is sent in whatever order, until there is no memory for
\* a packet.
THEOREM AnswersTellOneStory == Spec => []AnswersAgree
<1>1. Init => AnswersInv
  BY TypeInit DEF Init, InHand, Story, AcksReach, AnswersInv
<1>2. AnswersInv /\ [Next]_vars => AnswersInv'
  BY TypeNext, InHandNext, AnswersNext, FailuresStay DEF AnswersInv
<1>3. AnswersInv => AnswersAgree
  BY AgreeOneByOne DEF AnswersInv
<1> QED
  BY <1>1, <1>2, <1>3, PTL DEF Spec

(***************************************************************************)
(* Where packets begin.  As long as there is memory for each packet, the   *)
(* client reads whole packets: then a header shows the packet it is of.    *)
(***************************************************************************)
\* The cells of packet p stand behind the first s bytes of w.
StandsAt(w, p, s) ==
  /\ s >= 0 /\ s + HeaderSize + p.size <= Len(w)
  /\ \A j \in 1..HeaderSize + p.size : w[s + j] = [pkt |-> p, off |-> j - 1]

\* What is sent is whole packets: each cell lies in one.
InPacket(w, k) ==
  w[k].off < HeaderSize + w[k].pkt.size /\ StandsAt(w, w[k].pkt, k - w[k].off - 1)
FramedIn(w) == \A k \in 1..Len(w) : InPacket(w, k)

\* A packet begins behind the first s bytes, or will.
AtStart(w, s) == s < Len(w) => w[s + 1].off = 0

\* Reads begin where packets do.
Aligned ==
  /\ pc = "header" => AtStart(wire, rpos)
  /\ pc = "data" => stHead \in Packets /\ StandsAt(wire, stHead, rpos - HeaderSize)
  /\ pc = "connect" => rpos = 0 /\ wire = <<>>

Framing == FramedIn(wire) /\ Aligned

\* Where one packet ends the next begins.
LEMMA EndOfPacket ==
  ASSUME PeerType, FramedIn(wire), NEW p \in Packets, NEW s \in Nat, StandsAt(wire, p, s)
  PROVE  s + HeaderSize + p.size \in Nat /\ AtStart(wire, s + HeaderSize + p.size)
<1> DEFINE n == HeaderSize + p.size
           e == s + n
           c == wire[e + 1]
<1>1. n \in Nat /\ n >= 1 /\ e \in Nat /\ e = s + HeaderSize + p.size
  BY Sizes, PacketFacts
<1>2. Len(wire) \in Nat /\ wire \in Seq(Cell)
  BY LenWire
<1>3. wire[s + n] = [pkt |-> p, off |-> n - 1]
  <2>1. n \in 1..HeaderSize + p.size
    BY <1>1
  <2> HIDE DEF n
  <2> QED
    BY <2>1 DEF StandsAt
<1> HIDE DEF n, e
<1>4. ASSUME e < Len(wire), c.off # 0
      PROVE  FALSE
  <2>1. e + 1 \in 1..Len(wire) /\ (e + 1) - c.off - 1 = e - c.off
    <3>1. e + 1 \in 1..Len(wire)
      BY <1>1, <1>2, <1>4
    <3>2. c \in Cell
      BY <1>2, <3>1
    <3>3. c.off \in Nat
      BY <3>2 DEF Cell
    <3> QED
      BY <1>1, <3>1, <3>3
  <2>2. c \in Cell
    BY <1>2, <2>1
  <2>3. c.off \in Nat /\ c.pkt \in Packets
    BY <2>2 DEF Cell
  <2>4. HeaderSize + c.pkt.size \in Nat
    BY <2>3, PacketFacts, Sizes
  <2>5. c.off < HeaderSize + c.pkt.size /\ StandsAt(wire, c.pkt, (e + 1) - c.off - 1)
    <3>1. InPacket(wire, e + 1)
      BY <2>1 DEF FramedIn
    <3> QED
      BY <3>1 DEF InPacket
  <2>6. StandsAt(wire, c.pkt, e - c.off)
    BY <2>1, <2>5
  <2>7. c.off \in 1..HeaderSize + c.pkt.size
    BY <1>4, <2>3, <2>4, <2>5
  <2> HIDE DEF c
  <2>8. wire[e - c.off + c.off] = [pkt |-> c.pkt, off |-> c.off - 1]
    BY <2>6, <2>7 DEF StandsAt
  <2>9. e - c.off + c.off = e
    BY <1>1, <2>3
  <2>10. [pkt |-> c.pkt, off |-> c.off - 1] = [pkt |-> p, off |-> n - 1]
    BY <1>3, <2>8, <2>9 DEF e
  <2>11. c.pkt = p /\ c.off - 1 = n - 1
    BY <2>10
  <2>12. c.off = n
    BY <1>1, <2>3, <2>11
  <2>13. c.off < n
    BY <2>5, <2>11 DEF n
  <2> QED
    BY <1>1, <2>12, <2>13
<1> QED
  BY <1>1, <1>4 DEF AtStart

\* A packet stays where it stands when more is sent.
LEMMA StandsWhenLonger ==
  ASSUME NEW v, NEW w, Len(v) \in Nat, Len(w) \in Nat, Len(w) >= Len(v),
         \A i \in 1..Len(v) : w[i] = v[i],
         NEW p \in Packets, NEW s \in Nat, StandsAt(v, p, s)
  PROVE  StandsAt(w, p, s)
<1>1. HeaderSize + p.size \in Nat /\ s + HeaderSize + p.size = s + (HeaderSize + p.size)
  BY Sizes, PacketFacts
<1>2. s + HeaderSize + p.size <= Len(v)
  BY DEF StandsAt
<1>3. \A j \in 1..HeaderSize + p.size : s + j \in 1..Len(v)
  BY <1>1, <1>2
<1>4. s >= 0 /\ s + HeaderSize + p.size <= Len(w)
  BY <1>1, <1>2
<1> QED
  BY <1>3, <1>4 DEF StandsAt

\* What the peer sends begins where the last packet ended.
LEMMA FramingPeer ==
  ASSUME TInv, Framing, NEW p \in Packets, PeerSends(p)
  PROVE  Framing'
<1> DEFINE v == wire
           w == wire'
           l == Len(wire)
           n == HeaderSize + p.size
<1>1. l \in Nat /\ v \in Seq(Cell) /\ n \in Nat /\ n >= 1
  BY LenWire, PacketFacts, Sizes DEF TInv
<1>2. Cells(p) \in Seq(Cell) /\ Len(Cells(p)) = n
  BY CellsType
<1>3. w = v \o Cells(p) /\ UNCHANGED <<pc, rpos, stHead>> /\ pc # "connect"
  BY DEF PeerSends
<1>4. \A j \in 1..n : Cells(p)[j] = [pkt |-> p, off |-> j - 1]
  BY DEF Cells
<1>5. Len(w) = l + n
  BY <1>1, <1>2, <1>3
<1>6. \A i \in 1..l : w[i] = v[i]
  BY <1>1, <1>2, <1>3
<1>7. \A j \in 1..n : w[l + j] = [pkt |-> p, off |-> j - 1]
  <2>1. \A j \in 1..n : w[l + j] = Cells(p)[j]
    BY <1>1, <1>2, <1>3
  <2> QED
    BY <1>4, <2>1
<1>8. StandsAt(w, p, l)
  <2>1. l + HeaderSize + p.size = l + n
    BY <1>1, Sizes, PacketFacts
  <2>2. l >= 0 /\ l + HeaderSize + p.size <= Len(w)
    BY <1>1, <1>5, <2>1
  <2> HIDE DEF w, l
  <2> QED
    BY <1>7, <2>2 DEF StandsAt
<1>9. \A q \in Packets : \A s \in Nat : StandsAt(v, q, s) => StandsAt(w, q, s)
  <2>1. Len(w) \in Nat /\ Len(w) >= Len(v)
    BY <1>1, <1>5
  <2> HIDE DEF w
  <2> QED
    BY <1>1, <1>6, <2>1, StandsWhenLonger
<1>10. FramedIn(w)
  <2>1. ASSUME NEW k \in 1..l
        PROVE  InPacket(w, k)
    <3>1. v[k].off < HeaderSize + v[k].pkt.size /\ StandsAt(v, v[k].pkt, k - v[k].off - 1)
      BY DEF Framing, FramedIn, InPacket
    <3>2. v[k] \in Cell
      BY <1>1
    <3>3. v[k].pkt \in Packets /\ v[k].off \in Nat
      BY <3>2 DEF Cell
    <3>4. k - v[k].off - 1 \in Nat
      <4>1. k - v[k].off - 1 >= 0
        BY <3>1 DEF StandsAt
      <4> QED
        BY <1>1, <3>3, <4>1
    <3> HIDE DEF v, w, l
    <3>5. StandsAt(w, v[k].pkt, k - v[k].off - 1)
      BY <1>9, <3>1, <3>3, <3>4
    <3>6. w[k] = v[k]
      BY <1>6
    <3> QED
      BY <3>1, <3>5, <3>6 DEF InPacket
  <2>2. ASSUME NEW j \in 1..n
        PROVE  InPacket(w, l + j)
    <3>1. w[l + j].off = j - 1 /\ w[l + j].pkt = p
      <4>1. w[l + j] = [pkt |-> p, off |-> j - 1]
        BY <1>7
      <4> HIDE DEF w, l
      <4> QED
        BY <4>1
    <3>2. (l + j) - (j - 1) - 1 = l /\ j - 1 < n
      BY <1>1
    <3> HIDE DEF w, l
    <3>3. StandsAt(w, w[l + j].pkt, (l + j) - w[l + j].off - 1)
      BY <1>8, <3>1, <3>2
    <3>4. w[l + j].off < HeaderSize + w[l + j].pkt.size
      BY <3>1, <3>2 DEF n
    <3> QED
      BY <3>3, <3>4 DEF InPacket
  <2>3. \A k \in 1..Len(w) : k \in 1..l \/ (k - l \in 1..n /\ l + (k - l) = k)
    BY <1>1, <1>5
  <2> HIDE DEF w, l, n
  <2>4. ASSUME NEW k \in 1..Len(w)
        PROVE  InPacket(w, k)
    <3>1. CASE k \in 1..l
      BY <2>1, <3>1
    <3>2. CASE k - l \in 1..n /\ l + (k - l) = k
      <4>1. InPacket(w, l + (k - l))
        BY <2>2, <3>2
      <4> QED
        BY <3>2, <4>1
    <3> QED
      BY <2>3, <3>1, <3>2
  <2> QED
    BY <2>4 DEF FramedIn
<1>11. Aligned'
  <2>1. ASSUME pc = "header"
        PROVE  AtStart(w, rpos)
    <3>1. rpos \in Nat /\ rpos <= l
      BY <1>1 DEF TInv, CountsType
    <3>2. CASE rpos < l
      <4>1. rpos + 1 \in 1..l
        BY <1>1, <3>1, <3>2
      <4> QED
        BY <1>6, <2>1, <3>2, <4>1 DEF AtStart, Aligned, Framing
    <3>3. CASE rpos = l
      <4>1. w[l + 1] = [pkt |-> p, off |-> 1 - 1]
        BY <1>1, <1>7
      <4> QED
        BY <3>3, <4>1 DEF AtStart
    <3> QED
      BY <1>1, <3>1, <3>2, <3>3
  <2>2. ASSUME pc = "data"
        PROVE  stHead \in Packets /\ StandsAt(w, stHead, rpos - HeaderSize)
    <3>1. stHead \in Packets /\ StandsAt(v, stHead, rpos - HeaderSize)
      BY <2>2 DEF Aligned, Framing
    <3>2. rpos - HeaderSize \in Nat
      <4>1. rpos - HeaderSize >= 0
        BY <3>1 DEF StandsAt
      <4> QED
        BY <4>1, Sizes DEF TInv, CountsType
    <3> HIDE DEF v, w
    <3> QED
      BY <1>9, <3>1, <3>2
  <2> HIDE DEF w
  <2> QED
    BY <1>3, <2>1, <2>2 DEF Aligned, w
<1> QED
  BY <1>10, <1>11 DEF Framing

\* A header read where a packet begins shows that packet.
LEMMA ShowsPacket ==
  ASSUME TInv, Framing, pc = "header", iTotal = HeaderSize
  PROVE  \E p \in Packets : Shown = {p} /\ StandsAt(wire, p, rpos)
<1> DEFINE c == wire[rpos + 1]
<1>1. rpos \in Nat /\ rpos + 1 \in 1..Len(wire) /\ rpos < Len(wire)
  BY LenWire, Sizes DEF TInv, CountsType
<1>2. c \in Cell
  BY <1>1, LenWire DEF TInv
<1>3. c.pkt \in Packets
  BY <1>2 DEF Cell
<1>4. c.off = 0
  BY <1>1 DEF Framing, Aligned, AtStart
<1>5. StandsAt(wire, c.pkt, rpos)
  <2>1. InPacket(wire, rpos + 1)
    BY <1>1 DEF Framing, FramedIn
  <2>2. StandsAt(wire, c.pkt, (rpos + 1) - c.off - 1)
    BY <2>1 DEF InPacket
  <2>3. (rpos + 1) - 0 - 1 = rpos
    BY <1>1
  <2> HIDE DEF c
  <2> QED
    BY <1>4, <2>2, <2>3
<1> HIDE DEF c
<1>6. \A k \in 1..HeaderSize : wire[rpos + k] = [pkt |-> c.pkt, off |-> k - 1]
  <2>1. \A k \in 1..HeaderSize : k \in 1..HeaderSize + c.pkt.size
    BY <1>3, PacketFacts, Sizes
  <2> QED
    BY <1>5, <2>1 DEF StandsAt
<1>7. Shown = {c.pkt}
  BY <1>6 DEF Shown, c
<1> QED
  BY <1>3, <1>5, <1>7

\* The client takes whole packets.
LEMMA FramingClient ==
  ASSUME TInv, Framing, "pData" \notin failed', client
  PROVE  Framing'
<1>1. UNCHANGED wire
  BY DEF client, connect, recvFull, recvFails, HeaderRead, OutOfSequence, InSequence, sendKills,
         Save, peer
<1>2. rpos \in Nat /\ Len(wire) \in Nat
  BY LenWire DEF TInv, CountsType
<1>3. CASE connect
  <2>1. Len(wire') = 0 /\ rpos' = 0 /\ pc' \in {"header", "exit"}
    BY <1>1, <1>3 DEF connect, Framing, Aligned
  <2>2. AtStart(wire', rpos')
    BY <2>1 DEF AtStart
  <2> QED
    BY <1>1, <2>1, <2>2 DEF Framing, Aligned
<1>4. CASE recvFull
  BY <1>1, <1>4 DEF recvFull, Framing, Aligned
<1>5. CASE recvFails \/ sendKills \/ Save
  <2>1. pc' \in {"close", "killed", "exit"}
    BY <1>5 DEF recvFails, sendKills, Save
  <2> QED
    BY <1>1, <2>1 DEF Framing, Aligned
<1>6. CASE HeaderRead
  <2>1. PICK p \in Packets : Shown = {p} /\ StandsAt(wire, p, rpos)
    BY <1>6, ShowsPacket DEF HeaderRead
  <2>2. stHead' = p /\ rpos' = rpos + HeaderSize
    BY <1>6, <2>1 DEF HeaderRead, Take
  <2>3. CASE pc' = "data"
    <3>1. rpos' - HeaderSize = rpos
      BY <1>2, <2>2, Sizes
    <3> QED
      BY <1>1, <2>1, <2>2, <2>3, <3>1 DEF Framing, Aligned
  <2>4. CASE ~GoodSize(p) /\ UNCHANGED pc
    <3>1. p.size = 0 /\ rpos' = rpos + HeaderSize + p.size
      BY <1>2, <2>2, <2>4, PacketFacts, Sizes DEF GoodSize
    <3>2. AtStart(wire, rpos + HeaderSize + p.size)
      BY <1>2, <2>1, EndOfPacket DEF TInv, Framing
    <3>3. AtStart(wire', rpos') /\ pc' = "header"
      BY <1>1, <1>6, <2>4, <3>1, <3>2 DEF HeaderRead
    <3> QED
      BY <1>1, <3>3 DEF Framing, Aligned
  <2> QED
    BY <1>6, <2>2, <2>3, <2>4 DEF HeaderRead, Fails
<1>7. CASE OutOfSequence \/ InSequence
  <2>1. DataComplete /\ rpos' = rpos + stHead.size /\ pc' \in {"header", "close"}
    BY <1>7 DEF OutOfSequence, InSequence, Take
  <2>2. stHead \in Packets /\ StandsAt(wire, stHead, rpos - HeaderSize)
    BY <2>1 DEF DataComplete, Framing, Aligned
  <2>3. rpos - HeaderSize \in Nat
    <3>1. rpos - HeaderSize >= 0
      BY <2>2 DEF StandsAt
    <3> QED
      BY <1>2, <3>1, Sizes
  <2>4. AtStart(wire, (rpos - HeaderSize) + HeaderSize + stHead.size)
    BY <2>2, <2>3, EndOfPacket DEF TInv, Framing
  <2>5. rpos' = (rpos - HeaderSize) + HeaderSize + stHead.size
    BY <1>2, <2>1, <2>2, PacketFacts, Sizes
  <2>6. AtStart(wire', rpos')
    BY <1>1, <2>4, <2>5
  <2> QED
    BY <1>1, <2>1, <2>6 DEF Framing, Aligned
<1> QED
  BY <1>3, <1>4, <1>5, <1>6, <1>7 DEF client

\* Every step keeps the client where packets begin, as long as there is memory
\* for each of them.
LEMMA FramingNext ==
  ASSUME TInv, Framing, "pData" \notin failed', [Next]_vars
  PROVE  Framing'
<1>1. CASE Ended \/ PeerCloses \/ UNCHANGED vars
  <2>1. UNCHANGED <<wire, pc, rpos, stHead>>
    BY <1>1 DEF Ended, PeerCloses, vars, peer
  <2> QED
    BY <2>1 DEF Framing, Aligned
<1> QED
  BY <1>1, FramingPeer, FramingClient DEF Next

\* Reads end on the wire, and what was received stays received.
LEMMA GarbledStays ==
  ASSUME TInv, [Next]_vars, NEW k \in Nat, GarbledAt(k)
  PROVE  GarbledAt(k)'
<1>1. rpos \in Nat /\ Len(wire) \in Nat /\ rpos <= Len(wire) /\ wire \in Seq(Cell)
  BY LenWire DEF TInv, CountsType
<1>2. rpos' \in Nat /\ rpos <= rpos'
  <2>1. CASE HeaderRead
    BY <1>1, <2>1, Sizes DEF HeaderRead, Take
  <2>2. CASE OutOfSequence \/ InSequence
    <3>1. stHead.size \in Nat
      BY HeaderFacts DEF TInv, HeadType
    <3>2. rpos' = rpos + stHead.size
      BY <2>2 DEF OutOfSequence, InSequence, Take
    <3> QED
      BY <1>1, <3>1, <3>2
  <2>3. CASE UNCHANGED rpos
    BY <1>1, <2>3
  <2> QED
    BY <2>1, <2>2, <2>3 DEF Next, client, connect, recvFull, recvFails, sendKills, Save,
         PeerCloses, PeerSends, Ended, vars
<1>3. \A j \in 1..rpos : wire'[j] = wire[j]
  <2>1. ASSUME NEW p \in Packets, PeerSends(p)
        PROVE  \A j \in 1..rpos : wire'[j] = wire[j]
    <3>1. wire' = wire \o Cells(p) /\ Cells(p) \in Seq(Cell)
      BY <2>1, CellsType DEF PeerSends
    <3>2. \A j \in 1..Len(wire) : wire'[j] = wire[j]
      BY <1>1, <3>1
    <3> QED
      BY <1>1, <3>2
  <2>2. CASE UNCHANGED wire
    BY <2>2
  <2> QED
    BY <2>1, <2>2 DEF Next, client, connect, recvFull, recvFails, HeaderRead, OutOfSequence,
         InSequence, sendKills, Save, PeerCloses, Ended, vars, peer
<1>4. PICK j \in 1..rpos : ~wire[j].pkt.ok
                           /\ k \in wire[j].pkt.seq + 1..wire[j].pkt.seq + wire[j].pkt.size
  BY DEF GarbledAt
<1>5. j \in 1..rpos' /\ wire'[j] = wire[j]
  BY <1>1, <1>2, <1>3
<1> QED
  BY <1>4, <1>5 DEF GarbledAt

\* Only a damaged packet garbles.
LEMMA GarbledIsDamage ==
  ASSUME TInv, NEW k, GarbledAt(k)
  PROVE  Damage
<1>1. PICK j \in 1..rpos : ~wire[j].pkt.ok
  BY DEF GarbledAt
<1>2. j \in 1..Len(wire)
  BY LenWire DEF TInv, CountsType
<1>3. wire[j] \in Cell
  BY <1>2, LenWire DEF TInv
<1>4. wire[j].pkt \in Packets
  BY <1>3 DEF Cell
<1> QED
  BY <1>1, <1>4 DEF Damage

\* What holds of the packet that is complete: it stands in front of the read
\* position, and its data is its slice of the file, or garbled if it is damaged.
LEMMA PacketData ==
  ASSUME TInv, Framing, DataComplete
  PROVE  /\ stHead \in Packets
         /\ \A k \in 1..stHead.size :
              \/ pData[k] = stHead.seq + k
              \/ pData[k] = Garbled /\ GarbledAt(stHead.seq + k)
<1>1. stHead \in Packets /\ StandsAt(wire, stHead, rpos - HeaderSize)
  BY DEF DataComplete, Framing, Aligned
<1>2. stHead.size \in Nat /\ stHead.seq \in Nat /\ rpos \in Nat
  BY <1>1, PacketFacts DEF TInv, CountsType
<1>3. ASSUME NEW k \in 1..stHead.size
      PROVE  \/ pData[k] = stHead.seq + k
             \/ pData[k] = Garbled /\ GarbledAt(stHead.seq + k)
  <2>1. HeaderSize + k \in 1..HeaderSize + stHead.size
        /\ (rpos - HeaderSize) + (HeaderSize + k) = rpos + k
        /\ (HeaderSize + k) - 1 >= HeaderSize
        /\ stHead.seq + ((HeaderSize + k) - 1) - HeaderSize + 1 = stHead.seq + k
    BY <1>2, Sizes
  <2>2. wire[(rpos - HeaderSize) + (HeaderSize + k)]
          = [pkt |-> stHead, off |-> (HeaderSize + k) - 1]
    BY <1>1, <2>1 DEF StandsAt
  <2>3. wire[rpos + k].pkt = stHead /\ wire[rpos + k].off = (HeaderSize + k) - 1
    BY <2>1, <2>2
  <2>4. pData[k] = ByteOf(wire[rpos + k])
    BY DataType DEF TInv
  <2>5. ~(wire[rpos + k].off < HeaderSize)
    BY <1>2, <2>1, <2>3, Sizes
  <2>6. CASE stHead.ok
    BY <2>1, <2>3, <2>4, <2>5, <2>6 DEF ByteOf
  <2>7. CASE ~stHead.ok
    <3>1. pData[k] = Garbled
      BY <2>3, <2>4, <2>5, <2>7 DEF ByteOf
    <3>2. 1 \in 1..HeaderSize + stHead.size /\ (rpos - HeaderSize) + 1 \in 1..rpos
      <4>1. rpos - HeaderSize >= 0
        BY <1>1 DEF StandsAt
      <4> QED
        BY <1>2, <4>1, Sizes
    <3>3. wire[(rpos - HeaderSize) + 1] = [pkt |-> stHead, off |-> 1 - 1]
      BY <1>1, <3>2 DEF StandsAt
    <3>4. wire[(rpos - HeaderSize) + 1].pkt = stHead
      BY <3>3
    <3>5. stHead.seq + k \in stHead.seq + 1..stHead.seq + stHead.size
      BY <1>2
    <3> QED
      BY <2>7, <3>1, <3>2, <3>4, <3>5 DEF GarbledAt
  <2> QED
    BY <2>6, <2>7
<1> QED
  BY <1>1, <1>3

\* Every step keeps the prefix, as long as no allocation fails.
LEMMA PrefixNext ==
  ASSUME TInv, Framing, KeepsPrefix, failed' \cap {"pData", "pNew"} = {}, [Next]_vars
  PROVE  KeepsPrefix'
<1>1. failed \cap {"pData", "pNew"} = {}
  BY FailuresStay
<1>2. /\ uiExpectedSeq <= FileLen
      /\ Len(pFileBuf) = uiExpectedSeq
      /\ \A k \in 1..Len(pFileBuf) : Right(k)
  BY <1>1 DEF KeepsPrefix
<1>3. \A k \in Nat : GarbledAt(k) => GarbledAt(k)'
  BY GarbledStays
<1>4. pFileBuf \in Seq(Nat) /\ Len(pFileBuf) \in Nat
  BY LenKept DEF TInv
<1>5. Garbled' = Garbled
  BY DEF Garbled
<1>6. CASE InSequence
  <2>1. /\ pFileBuf' = pFileBuf \o pData
        /\ uiExpectedSeq' = stHead.seq + stHead.size
        /\ stHead.seq = uiExpectedSeq /\ DataComplete
    BY <1>6 DEF InSequence, Fails
  <2>2. stHead \in Packets
        /\ \A k \in 1..stHead.size :
             \/ pData[k] = stHead.seq + k
             \/ pData[k] = Garbled /\ GarbledAt(stHead.seq + k)
    BY <2>1, PacketData
  <2>3. /\ stHead.size \in Nat /\ stHead.seq \in Nat /\ FileLen \in Nat
        /\ stHead.seq + stHead.size <= FileLen
    BY <2>2, PacketFacts, Sizes
  <2>4. pFileBuf \in Seq(Nat) /\ pData \in Seq(Nat) /\ Len(pData) = stHead.size
    BY <1>4, <2>1, DataType DEF TInv
  <2>5. Len(pFileBuf) = stHead.seq
    BY <1>2, <2>1
  <2>6. Len(pFileBuf') = stHead.seq + stHead.size
    <3>1. Len(pFileBuf \o pData) = Len(pFileBuf) + Len(pData)
      BY <2>4
    <3> QED
      BY <2>1, <2>4, <2>5, <3>1
  <2>7. ASSUME NEW k \in 1..Len(pFileBuf')
        PROVE  pFileBuf'[k] = k \/ (pFileBuf'[k] = Garbled /\ GarbledAt(k))
    <3>1. CASE k <= Len(pFileBuf)
      <4>1. pFileBuf'[k] = pFileBuf[k] /\ k \in 1..Len(pFileBuf)
        BY <2>1, <2>3, <2>4, <2>5, <2>6, <3>1
      <4> QED
        BY <1>2, <4>1 DEF Right
    <3>2. CASE k > Len(pFileBuf)
      <4>1. k - stHead.seq \in 1..stHead.size /\ stHead.seq + (k - stHead.seq) = k
        BY <2>3, <2>5, <2>6, <3>2
      <4>2. pFileBuf'[k] = pData[k - stHead.seq]
        BY <2>1, <2>3, <2>4, <2>5, <4>1
      <4> QED
        BY <2>2, <4>1, <4>2
    <3> QED
      BY <2>3, <2>5, <2>6, <3>1, <3>2
  <2>8. \A k \in 1..Len(pFileBuf') : Right(k)'
    <3>1. \A k \in 1..Len(pFileBuf') : k \in Nat
      BY <2>3, <2>6
    <3> QED
      BY <1>3, <1>5, <2>7, <3>1 DEF Right
  <2>9. uiExpectedSeq' <= FileLen /\ Len(pFileBuf') = uiExpectedSeq'
    BY <2>1, <2>3, <2>6
  <2> QED
    BY <2>8, <2>9 DEF KeepsPrefix
<1>7. CASE ~InSequence
  <2>1. UNCHANGED <<pFileBuf, uiExpectedSeq>>
    BY <1>7 DEF Next, client, connect, recvFull, recvFails, HeaderRead, OutOfSequence, sendKills,
         Save, PeerCloses, PeerSends, Ended, vars, memory
  <2>2. ASSUME NEW k \in 1..Len(pFileBuf')
        PROVE  Right(k)'
    <3>1. k \in Nat /\ k \in 1..Len(pFileBuf)
      BY <1>4, <2>1
    <3> QED
      BY <1>2, <1>3, <1>5, <2>1, <3>1 DEF Right
  <2> QED
    BY <1>2, <2>1, <2>2 DEF KeepsPrefix
<1> QED
  BY <1>6, <1>7

PrefixInv == TInv /\ ("pData" \notin failed => Framing) /\ KeepsPrefix

\* What PrefixInv needs to start with and what keeps it.
LEMMA PrefixInductive == (Init => PrefixInv) /\ (PrefixInv /\ [Next]_vars => PrefixInv')
<1>1. ASSUME Init
      PROVE  Framing /\ KeepsPrefix
  <2>1. wire = <<>> /\ pFileBuf = <<>> /\ uiExpectedSeq = 0 /\ pc = "connect" /\ rpos = 0
    BY <1>1 DEF Init
  <2>2. FramedIn(wire)
    BY <2>1 DEF FramedIn
  <2>3. Framing
    BY <2>1, <2>2 DEF Framing, Aligned
  <2>4. KeepsPrefix
    BY <2>1, Sizes DEF KeepsPrefix
  <2> QED
    BY <2>3, <2>4
<1>2. ASSUME PrefixInv, [Next]_vars
      PROVE  PrefixInv'
  <2>1. failed \subseteq failed'
    BY <1>2, FailuresStay
  <2>2. TInv'
    BY <1>2, TypeNext DEF PrefixInv
  <2>3. "pData" \notin failed' => Framing /\ Framing'
    BY <1>2, <2>1, FramingNext DEF PrefixInv
  <2>4. KeepsPrefix'
    <3>1. CASE failed' \cap {"pData", "pNew"} = {}
      <4>1. "pData" \notin failed'
        BY <3>1
      <4> QED
        BY <1>2, <2>3, <3>1, <4>1, PrefixNext DEF PrefixInv
    <3>2. CASE failed' \cap {"pData", "pNew"} # {}
      BY <3>2 DEF KeepsPrefix
    <3> QED
      BY <3>1, <3>2
  <2> QED
    BY <2>2, <2>3, <2>4 DEF PrefixInv
<1> QED
  BY <1>1, <1>2, TypeInit DEF PrefixInv

\* KeepsPrefix for every file, every set of packets and any number of them, in
\* any order and as often as the peer likes, whatever fails.
THEOREM PrefixKept == Spec => []KeepsPrefix
<1>1. Init => PrefixInv
  BY PrefixInductive
<1>2. PrefixInv /\ [Next]_vars => PrefixInv'
  BY PrefixInductive
<1>3. PrefixInv => KeepsPrefix
  BY DEF PrefixInv
<1> QED
  BY <1>1, <1>2, <1>3, PTL DEF Spec

(***************************************************************************)
(* The end of the transfer.                                                *)
(***************************************************************************)
\* FIN was met at the end of the file, and what was kept is what is saved.
Finished ==
  /\ iDone /\ "pData" \notin failed => uiExpectedSeq = FileLen
  /\ pc = "exit" /\ pFileBuf # <<>> /\ "fopen" \notin failed => saved = pFileBuf

\* Every step keeps the end right.
LEMMA FinishedNext ==
  ASSUME TInv, InHand, "pData" \notin failed => Framing, Finished, [Next]_vars
  PROVE  Finished'
<1>0. failed \subseteq failed'
  BY FailuresStay
<1>1. CASE InSequence
  <2>1. ASSUME "pData" \notin failed'
        PROVE  stHead.fin \in BOOLEAN /\ (stHead.fin => stHead.seq + stHead.size = FileLen)
    <3>1. stHead \in Packets
      BY <1>0, <1>1, <2>1, PacketData DEF InSequence
    <3> QED
      BY <3>1, PacketFacts
  <2>3. iDone' = stHead.fin /\ uiExpectedSeq' = stHead.seq + stHead.size
        /\ pc' \in {"header", "close"}
    BY <1>1 DEF InSequence
  <2> QED
    BY <2>1, <2>3 DEF Finished
<1>2. CASE Save
  BY <1>0, <1>2 DEF Save, Fails, Finished
<1>3. CASE connect \/ recvFull \/ recvFails \/ HeaderRead \/ OutOfSequence \/ sendKills
  <2>1. UNCHANGED <<iDone, uiExpectedSeq, pFileBuf>>
    BY <1>3 DEF connect, recvFull, recvFails, HeaderRead, OutOfSequence, sendKills, memory
  <2>2. pc' = "exit" => pFileBuf = <<>>
    BY <1>3 DEF connect, recvFull, Receiving, recvFails, HeaderRead, OutOfSequence, sendKills,
                InHand
  <2> QED
    BY <1>0, <2>1, <2>2 DEF Finished
<1>4. CASE Ended \/ PeerCloses \/ UNCHANGED vars \/ \E p \in Packets : PeerSends(p)
  <2>1. UNCHANGED <<pc, iDone, uiExpectedSeq, pFileBuf, saved>>
    BY <1>4 DEF Ended, PeerCloses, PeerSends, vars, memory
  <2> QED
    BY <1>0, <2>1 DEF Finished
<1> QED
  BY <1>1, <1>2, <1>3, <1>4 DEF Next, client

\* FinMeansComplete: FIN in sequence means the whole file, until an allocation
\* fails, and the client that returns has saved what it kept, unless fopen fails.
THEOREM FinIsComplete == Spec => []FinMeansComplete
<1> DEFINE FInv == PrefixInv /\ InHand /\ Finished
<1>1. Init => FInv
  BY PrefixInductive DEF Init, InHand, Finished
<1>2. FInv /\ [Next]_vars => FInv'
  BY PrefixInductive, InHandNext, FinishedNext DEF PrefixInv
<1>3. FInv => FinMeansComplete
  <2> SUFFICES ASSUME FInv PROVE FinMeansComplete
    OBVIOUS
  <2>1. ASSUME iDone, failed \cap {"pData", "pNew"} = {}
        PROVE  Len(pFileBuf) = FileLen /\ \A k \in 1..FileLen : Right(k)
    <3>1. uiExpectedSeq = FileLen
      BY <2>1 DEF Finished
    <3> QED
      BY <2>1, <3>1 DEF PrefixInv, KeepsPrefix
  <2> QED
    BY <2>1 DEF FinMeansComplete, Finished
<1> HIDE DEF FInv
<1> QED
  BY <1>1, <1>2, <1>3, PTL DEF Spec

(***************************************************************************)
(* PART 2.  A whole transfer: the client with this sender is a client with *)
(* some peer, and a sender that takes the packets in order gets the file   *)
(* across.                                                                 *)
(***************************************************************************)

(***************************************************************************)
(* The sender.                                                             *)
(***************************************************************************)
\* Where the sender is, and that it closes only when it has nothing to send or
\* nobody to send it to.
SenderType ==
  /\ schedule \in Schedules
  /\ at \in 1..Len(schedule) + 1
  /\ tries \in Nat
  /\ awaiting => tries > 0
  /\ tries > 0 => at <= Len(schedule)
  /\ closed => Over \/ (~awaiting /\ at > Len(schedule))

\* Packet p is the last on wire w.
EndsWith(w, p) == \E s \in Nat : StandsAt(w, p, s) /\ s + HeaderSize + p.size = Len(w)

\* The packet sent last.
LastSent == schedule[IF tries = 0 THEN at - 1 ELSE at]
OnWire   == IF at = 1 /\ tries = 0 THEN wire = <<>> ELSE EndsWith(wire, LastSent)

\* What is on the wire begins with the first byte of the file, and each packet
\* repeats the one before it or goes on where that ends.
Follows(w, p, q, s) ==
  StandsAt(w, p, s) /\ StandsAt(w, q, s + HeaderSize + p.size)
    => q = p \/ q.seq = p.seq + p.size
Linked(w) ==
  /\ \A p \in Packets : StandsAt(w, p, 0) => p.seq = 0
  /\ \A p, q \in Packets : \A s \in Nat : Follows(w, p, q, s)

(***************************************************************************)
(* The client.                                                             *)
(***************************************************************************)
\* Behind the first r bytes of wire w, e is the end of the packet just read.
Reached(w, r, e) ==
  \/ r = 0 /\ e = 0
  \/ \E p \in Packets : \E s \in Nat :
       StandsAt(w, p, s) /\ r = s + HeaderSize + p.size /\ e = p.seq + p.size

\* The client expects what follows the packet it has read last.
UpToDate ==
  /\ pc \in {"connect", "header"} => Reached(wire, rpos, uiExpectedSeq)
  /\ pc = "data" => Reached(wire, rpos - HeaderSize, uiExpectedSeq)

\* It leaves the loop with the whole file.
LeftComplete ==
  pc = "close" \/ (pc = "exit" /\ exitCode = 0) => uiExpectedSeq = FileLen

Orderly == OnWire /\ Linked(wire) /\ UpToDate /\ LeftComplete

(***************************************************************************)
(* Packets on a wire.                                                      *)
(***************************************************************************)
\* The sizes of a packet are numbers, for the steps below.
LEMMA PacketSizes ==
  ASSUME NEW p \in Packets
  PROVE  /\ p.seq \in Nat /\ p.size \in Nat /\ HeaderSize \in Nat /\ HeaderSize >= 1
         /\ HeaderSize + p.size \in Nat /\ HeaderSize + p.size >= 1
BY PacketFacts, Sizes

\* Cell j of the packet that stands behind s bytes.
CellIs(w, p, s, j) == w[s + j] = [pkt |-> p, off |-> j - 1]

\* .. its packet and its offset.
LEMMA CellParts ==
  ASSUME NEW w, NEW p, NEW s, NEW j, CellIs(w, p, s, j)
  PROVE  w[s + j].pkt = p /\ w[s + j].off = j - 1
<1>1. w[s + j] = [pkt |-> p, off |-> j - 1]
  BY DEF CellIs
<1> QED
  BY <1>1

\* The cells of a packet; among them the first and the last.
LEMMA CellsOfPacket ==
  ASSUME NEW w, NEW p \in Packets, NEW s \in Nat, StandsAt(w, p, s)
  PROVE  /\ \A j \in 1..HeaderSize + p.size : CellIs(w, p, s, j)
         /\ CellIs(w, p, s, 1) /\ CellIs(w, p, s, HeaderSize + p.size)
<1>1. 1 \in 1..HeaderSize + p.size /\ HeaderSize + p.size \in 1..HeaderSize + p.size
  BY PacketSizes
<1>2. \A j \in 1..HeaderSize + p.size : CellIs(w, p, s, j)
  BY DEF StandsAt, CellIs
<1> QED
  BY <1>1, <1>2

\* Two packets that end at the same byte are the same.
LEMMA SameEnd ==
  ASSUME NEW w, NEW p \in Packets, NEW q \in Packets, NEW s \in Nat, NEW t \in Nat,
         StandsAt(w, p, s), StandsAt(w, q, t),
         s + HeaderSize + p.size = t + HeaderSize + q.size
  PROVE  p = q
<1>1. s + (HeaderSize + p.size) = t + (HeaderSize + q.size)
  BY PacketSizes
<1>2. CellIs(w, p, s, HeaderSize + p.size)
  BY CellsOfPacket
<1>3. CellIs(w, q, t, HeaderSize + q.size)
  BY CellsOfPacket
<1>4. w[s + (HeaderSize + p.size)].pkt = p
  BY <1>2, CellParts
<1>5. w[t + (HeaderSize + q.size)].pkt = q
  BY <1>3, CellParts
<1> QED
  BY <1>1, <1>4, <1>5

\* A packet on a wire that grew by packet c stood there before or is c.
LEMMA OldOrNew ==
  ASSUME NEW v \in Seq(Cell), NEW c \in Packets, NEW q \in Packets, NEW t \in Nat,
         StandsAt(v \o Cells(c), q, t)
  PROVE  StandsAt(v, q, t) \/ (t = Len(v) /\ q = c)
<1> DEFINE w == v \o Cells(c)
           l == Len(v)
           n == HeaderSize + q.size
           m == HeaderSize + c.size
<1>1. l \in Nat /\ n \in Nat /\ n >= 1 /\ m \in Nat /\ m >= 1
  BY PacketSizes
<1>2. Cells(c) \in Seq(Cell) /\ Len(Cells(c)) = m
  BY CellsType
<1>3. \A j \in 1..m : Cells(c)[j] = [pkt |-> c, off |-> j - 1]
  BY DEF Cells
<1>4. Len(w) = l + m
  BY <1>1, <1>2
<1>5. \A i \in 1..l : w[i] = v[i]
  BY <1>1, <1>2
<1>6. \A j \in 1..m : w[l + j] = [pkt |-> c, off |-> j - 1]
  <2>1. \A j \in 1..m : w[l + j] = Cells(c)[j]
    BY <1>1, <1>2
  <2> QED
    BY <1>3, <2>1
<1>7. StandsAt(w, q, t)
  OBVIOUS
<1>8. t + n <= l + m
  <2>1. t + HeaderSize + q.size = t + n
    BY PacketSizes
  <2> HIDE DEF w
  <2> QED
    BY <1>4, <1>7, <2>1 DEF StandsAt
<1>9. \A j \in 1..n : CellIs(w, q, t, j)
  <2> HIDE DEF w
  <2> QED
    BY <1>7, CellsOfPacket
<1>10. \A j \in 1..m : CellIs(w, c, l, j)
  <2> HIDE DEF w, l, m
  <2> QED
    BY <1>6 DEF CellIs
<1> HIDE DEF w
<1>11. CASE t + n <= l
  <2>1. \A j \in 1..n : t + j \in 1..l
    BY <1>1, <1>11
  <2>2. \A j \in 1..n : v[t + j] = [pkt |-> q, off |-> j - 1]
    BY <1>5, <1>9, <2>1 DEF CellIs
  <2>3. t >= 0 /\ t + HeaderSize + q.size <= l
    BY <1>11, PacketSizes
  <2> QED
    BY <2>2, <2>3 DEF StandsAt
<1>12. CASE t = l
  <2>1. CellIs(w, q, t, 1) /\ CellIs(w, c, l, 1)
    BY <1>1, <1>9, <1>10
  <2>2. w[t + 1].pkt = q /\ w[l + 1].pkt = c
    BY <2>1, CellParts
  <2> QED
    BY <1>12, <2>2
<1>13. CASE t < l /\ l < t + n
  <2> DEFINE j == (l - t) + 1
  <2>1. j \in 1..n /\ t + j = l + 1 /\ 1 \in 1..m /\ j - 1 # 1 - 1
    BY <1>1, <1>13
  <2> HIDE DEF j
  <2>2. CellIs(w, q, t, j) /\ CellIs(w, c, l, 1)
    BY <1>9, <1>10, <2>1
  <2>3. w[t + j].off = j - 1 /\ w[l + 1].off = 1 - 1
    BY <2>2, CellParts
  <2> QED
    BY <2>1, <2>3
<1>14. CASE t > l
  <2> DEFINE j == (t - l) + 1
  <2>1. j \in 1..m /\ l + j = t + 1 /\ 1 \in 1..n /\ j - 1 # 1 - 1
    BY <1>1, <1>8, <1>14
  <2> HIDE DEF j
  <2>2. CellIs(w, c, l, j) /\ CellIs(w, q, t, 1)
    BY <1>9, <1>10, <2>1
  <2>3. w[l + j].off = j - 1 /\ w[t + 1].off = 1 - 1
    BY <2>2, CellParts
  <2> QED
    BY <2>1, <2>3
<1> QED
  BY <1>1, <1>11, <1>12, <1>13, <1>14

\* Where the wire grows the new packet stands, and the old ones as they did.
LEMMA Grown ==
  ASSUME NEW v \in Seq(Cell), NEW c \in Packets
  PROVE  /\ StandsAt(v \o Cells(c), c, Len(v))
         /\ Len(v \o Cells(c)) = Len(v) + (HeaderSize + c.size)
         /\ \A p \in Packets : \A s \in Nat :
              StandsAt(v, p, s) => StandsAt(v \o Cells(c), p, s)
<1> DEFINE w == v \o Cells(c)
           l == Len(v)
           m == HeaderSize + c.size
<1>1. l \in Nat /\ m \in Nat /\ m >= 1
  BY PacketSizes
<1>2. Cells(c) \in Seq(Cell) /\ Len(Cells(c)) = m
  BY CellsType
<1>3. \A j \in 1..m : Cells(c)[j] = [pkt |-> c, off |-> j - 1]
  BY DEF Cells
<1>4. Len(w) = l + m
  BY <1>1, <1>2
<1>5. \A i \in 1..l : w[i] = v[i]
  BY <1>1, <1>2
<1>6. \A j \in 1..m : w[l + j] = [pkt |-> c, off |-> j - 1]
  <2>1. \A j \in 1..m : w[l + j] = Cells(c)[j]
    BY <1>1, <1>2
  <2> QED
    BY <1>3, <2>1
<1> HIDE DEF w
<1>7. StandsAt(w, c, l)
  <2>1. l >= 0 /\ l + HeaderSize + c.size <= Len(w)
    BY <1>1, <1>4, PacketSizes
  <2> QED
    BY <1>6, <2>1 DEF StandsAt
<1>8. Len(w) \in Nat /\ Len(w) >= l
  BY <1>1, <1>4
<1>9. \A p \in Packets : \A s \in Nat : StandsAt(v, p, s) => StandsAt(w, p, s)
  BY <1>1, <1>5, <1>8, StandsWhenLonger
<1> QED
  BY <1>4, <1>7, <1>9 DEF w

\* Where the client is about to read a header of bytes that have come, the whole
\* of a packet stands.
LEMMA PacketToCome ==
  ASSUME TInv, Framing, pc = "header", rpos < Len(wire)
  PROVE  \E p \in Packets : StandsAt(wire, p, rpos)
<1> DEFINE c == wire[rpos + 1]
<1>1. rpos \in Nat /\ rpos + 1 \in 1..Len(wire)
  BY LenWire DEF TInv, CountsType
<1>2. c \in Cell
  BY <1>1, LenWire DEF TInv
<1>3. c.pkt \in Packets
  BY <1>2 DEF Cell
<1>4. c.off = 0
  BY DEF Framing, Aligned, AtStart
<1>5. StandsAt(wire, c.pkt, (rpos + 1) - c.off - 1)
  BY <1>1 DEF Framing, FramedIn, InPacket
<1>6. (rpos + 1) - 0 - 1 = rpos
  BY <1>1
<1> HIDE DEF c
<1> QED
  BY <1>3, <1>4, <1>5, <1>6

(***************************************************************************)
(* Every transfer is a behaviour of the client with some peer.             *)
(***************************************************************************)
\* What a schedule holds are packets.
LEMMA ScheduleFacts ==
  ASSUME SenderType
  PROVE  /\ schedule \in Seq(Packets) /\ Len(schedule) \in Nat /\ at \in Nat /\ at >= 1
         /\ \A i \in 1..Len(schedule) : schedule[i] \in Packets
<1>1. schedule \in Seq(Packets)
  BY TransferAssumption DEF SenderType
<1>2. Len(schedule) \in Nat /\ \A i \in 1..Len(schedule) : schedule[i] \in Packets
  BY <1>1
<1> QED
  BY <1>1, <1>2 DEF SenderType

\* The packet that is sent is one of the packets.
LEMMA PacketSent ==
  ASSUME SenderType, SenderSends
  PROVE  at \in 1..Len(schedule) /\ schedule[at] \in Packets /\ PeerSends(schedule[at])
<1>1. at \in 1..Len(schedule)
  BY ScheduleFacts DEF SenderSends
<1> QED
  BY <1>1, ScheduleFacts DEF SenderSends

\* A step of a transfer is one of the client or of its peer, or none.
LEMMA StepOfClient ==
  ASSUME SenderType, [TransferNext]_all
  PROVE  [Next]_vars
<1>1. CASE clientStep
  BY <1>1 DEF clientStep, Next
<1>2. CASE SenderSends
  BY <1>2, PacketSent DEF Next
<1>3. CASE SenderReads
  BY <1>3 DEF SenderReads
<1>4. CASE SenderCloses
  BY <1>4 DEF SenderCloses, Next
<1>5. CASE TransferEnded \/ UNCHANGED all
  BY <1>5 DEF TransferEnded, all
<1> QED
  BY <1>1, <1>2, <1>3, <1>4, <1>5 DEF TransferNext, senderStep

\* A client that has ended does nothing more.
LEMMA OverForGood ==
  ASSUME Over, [Next]_vars
  PROVE  Over'
BY DEF Over, Next, client, connect, recvFull, Receiving, recvFails, Disconnected, HeaderRead,
       OutOfSequence, InSequence, DataComplete, sendKills, Save, Ended, PeerCloses, PeerSends, vars

\* The sender keeps to its schedule.
LEMMA SenderNext ==
  ASSUME SenderType, [TransferNext]_all
  PROVE  SenderType'
<1>1. [Next]_vars
  BY StepOfClient
<1>2. Over => Over'
  BY <1>1, OverForGood
<1>3. CASE clientStep
  <2>1. UNCHANGED <<schedule, at, tries, awaiting, reads>> /\ UNCHANGED closed
    BY <1>3 DEF clientStep, sender, client, connect, recvFull, recvFails, HeaderRead,
         OutOfSequence, InSequence, sendKills, Save, peer
  <2> QED
    BY <1>2, <2>1 DEF SenderType
<1>4. CASE SenderSends
  <2>1. at \in 1..Len(schedule) /\ PeerSends(schedule[at])
    BY <1>4, PacketSent
  <2>2. UNCHANGED <<schedule, at, closed, pc>> /\ ~closed /\ tries' = tries + 1
    BY <1>4, <2>1 DEF SenderSends, PeerSends
  <2> QED
    BY <2>1, <2>2 DEF SenderType
<1>5. CASE SenderReads
  <2>1. UNCHANGED <<schedule, closed, pc>> /\ awaiting /\ ~awaiting'
    BY <1>5 DEF SenderReads, vars, peer
  <2>2. at <= Len(schedule)
    BY <2>1 DEF SenderType
  <2>3. \/ at' = at + 1 /\ tries' = 0
        \/ at' = at /\ tries' = tries
    BY <1>5 DEF SenderReads
  <2>4. at' \in 1..Len(schedule) + 1 /\ tries' \in Nat /\ (tries' > 0 => at' <= Len(schedule))
    BY <2>2, <2>3, ScheduleFacts DEF SenderType
  <2>5. closed => Over
    BY <2>1 DEF SenderType
  <2> QED
    BY <1>2, <2>1, <2>4, <2>5 DEF SenderType
<1>6. CASE SenderCloses
  <2>1. UNCHANGED <<schedule, at, tries, awaiting>> /\ UNCHANGED pc
    BY <1>6 DEF SenderCloses, PeerCloses, sender
  <2>2. Over \/ (~awaiting /\ at > Len(schedule))
    BY <1>6 DEF SenderCloses
  <2> QED
    BY <1>2, <2>1, <2>2 DEF SenderType
<1>7. CASE TransferEnded \/ UNCHANGED all
  <2>1. UNCHANGED <<schedule, at, tries, awaiting, closed, pc>>
    BY <1>7 DEF TransferEnded, all, vars, peer, sender
  <2> QED
    BY <2>1 DEF SenderType, Over
<1> QED
  BY <1>3, <1>4, <1>5, <1>6, <1>7 DEF TransferNext, senderStep

\* At the start the sender is at its first packet.
LEMMA SenderInit == TransferInit => SenderType
<1> SUFFICES ASSUME TransferInit PROVE SenderType
  OBVIOUS
<1>1. schedule \in Seq(Packets)
  BY TransferAssumption DEF TransferInit
<1>2. Len(schedule) \in Nat
  BY <1>1
<1> QED
  BY <1>2 DEF TransferInit, Init, SenderType

\* The composition implements the client: the sender is one of the peers that
\* EwpClient allows for, so that all theorems about the client hold in a transfer.
THEOREM TransferIsClient == TransferSpec => Spec
<1>1. TransferInit => Init /\ SenderType
  BY SenderInit DEF TransferInit
<1>2. SenderType /\ [TransferNext]_all => SenderType' /\ [Next]_vars
  BY SenderNext, StepOfClient
<1> QED
  BY <1>1, <1>2, PTL DEF TransferSpec, Spec

(***************************************************************************)
(* A sender that takes the packets in order.                               *)
(***************************************************************************)
\* What has been sent is a packet, the one the sender is at or the one before.
LEMMA LastSentIsPacket ==
  ASSUME SenderType, ~(at = 1 /\ tries = 0)
  PROVE  LastSent \in Packets
<1>1. at \in 1..Len(schedule) + 1 /\ tries \in Nat /\ (tries > 0 => at <= Len(schedule))
  BY DEF SenderType
<1>2. CASE tries = 0
  <2>1. at - 1 \in 1..Len(schedule)
    BY <1>1, <1>2, ScheduleFacts
  <2> QED
    BY <1>2, <2>1, ScheduleFacts DEF LastSent
<1>3. CASE tries # 0
  <2>1. at \in 1..Len(schedule)
    BY <1>1, <1>3, ScheduleFacts
  <2> QED
    BY <1>3, <2>1, ScheduleFacts DEF LastSent
<1> QED
  BY <1>2, <1>3

\* A packet does not end at the beginning of the wire.
LEMMA NothingEndsAtStart ==
  ASSUME NEW w, NEW p \in Packets, NEW s \in Nat, StandsAt(w, p, s)
  PROVE  Len(w) # 0 /\ s + HeaderSize + p.size # 0
BY PacketSizes DEF StandsAt

\* Sending the next packet, or the last once more, goes on where the wire ends.
LEMMA SentFollows ==
  ASSUME SenderType, InOrder, OnWire, Linked(wire), at \in 1..Len(schedule),
         NEW p \in Packets, EndsWith(wire, p)
  PROVE  schedule[at] = p \/ schedule[at].seq = p.seq + p.size
<1>1. PICK s \in Nat : StandsAt(wire, p, s) /\ s + HeaderSize + p.size = Len(wire)
  BY DEF EndsWith
<1>2. ~(at = 1 /\ tries = 0)
  <2>1. Len(wire) # 0
    BY <1>1, NothingEndsAtStart
  <2> QED
    BY <2>1 DEF OnWire
<1>3. PICK t \in Nat : StandsAt(wire, LastSent, t)
                       /\ t + HeaderSize + LastSent.size = Len(wire)
  BY <1>2 DEF OnWire, EndsWith
<1>4. p = LastSent
  <2> HIDE DEF LastSent
  <2> QED
    BY <1>1, <1>2, <1>3, LastSentIsPacket, SameEnd
<1>5. CASE tries = 0
  <2>1. at - 1 \in 1..Len(schedule) - 1 /\ (at - 1) + 1 = at
    BY <1>2, <1>5, ScheduleFacts
  <2>2. schedule[at].seq = schedule[at - 1].seq + schedule[at - 1].size
    BY <2>1 DEF InOrder
  <2> QED
    BY <1>4, <1>5, <2>2 DEF LastSent
<1>6. CASE tries # 0
  BY <1>4, <1>6 DEF LastSent
<1> QED
  BY <1>5, <1>6

\* Sending keeps the wire linked and what has been reached.
LEMMA SendsOrderly ==
  ASSUME TInv, SenderType, InOrder, OnWire, Linked(wire), UpToDate, SenderSends
  PROVE  OnWire' /\ Linked(wire)' /\ UpToDate'
<1> DEFINE c == schedule[at]
           v == wire
           w == v \o Cells(c)
<1>1. at \in 1..Len(schedule) /\ c \in Packets
  BY PacketSent
<1>2. /\ wire' = w /\ tries' = tries + 1
      /\ UNCHANGED <<schedule, at, pc, rpos, uiExpectedSeq>>
  BY PacketSent DEF SenderSends, PeerSends, memory
<1>3. v \in Seq(Cell) /\ Len(v) \in Nat
  BY LenWire DEF TInv
<1>4. /\ StandsAt(w, c, Len(v))
      /\ Len(w) = Len(v) + (HeaderSize + c.size)
      /\ \A p \in Packets : \A s \in Nat : StandsAt(v, p, s) => StandsAt(w, p, s)
  BY <1>1, <1>3, Grown
<1>5. \A q \in Packets : \A t \in Nat :
        StandsAt(w, q, t) => StandsAt(v, q, t) \/ (t = Len(v) /\ q = c)
  BY <1>1, <1>3, OldOrNew
<1>6. OnWire'
  <2>1. tries' # 0
    BY <1>2 DEF SenderType
  <2>2. LastSent' = c
    BY <1>2, <2>1 DEF LastSent
  <2>3. EndsWith(w, c)
    <3>1. Len(v) + HeaderSize + c.size = Len(w)
      BY <1>1, <1>3, <1>4, PacketSizes
    <3> HIDE DEF w, c, v
    <3> QED
      BY <1>3, <1>4, <3>1 DEF EndsWith
  <2> HIDE DEF w, c
  <2> QED
    BY <1>2, <2>1, <2>2, <2>3 DEF OnWire
<1>7. ASSUME NEW p \in Packets, StandsAt(w, p, 0)
      PROVE  p.seq = 0
  <2>1. CASE StandsAt(v, p, 0)
    BY <2>1 DEF Linked
  <2>2. CASE 0 = Len(v) /\ p = c
    <3>1. at = 1
      <4>1. ~(at = 1 /\ tries = 0) => FALSE
        <5>1. ASSUME ~(at = 1 /\ tries = 0)
              PROVE  FALSE
          <6>1. PICK t \in Nat : StandsAt(wire, LastSent, t)
            BY <5>1 DEF OnWire, EndsWith
          <6> HIDE DEF LastSent
          <6> QED
            BY <2>2, <5>1, <6>1, LastSentIsPacket, NothingEndsAtStart
        <5> QED
          BY <5>1
      <4> QED
        BY <4>1
    <3> QED
      BY <2>2, <3>1 DEF InOrder
  <2> QED
    BY <1>5, <1>7, <2>1, <2>2
<1>8. ASSUME NEW p \in Packets, NEW q \in Packets, NEW s \in Nat,
             StandsAt(w, p, s), StandsAt(w, q, s + HeaderSize + p.size)
      PROVE  q = p \/ q.seq = p.seq + p.size
  <2> DEFINE e == s + HeaderSize + p.size
  <2>1. e \in Nat
    BY PacketSizes
  <2>2. StandsAt(v, p, s)
    <3>1. ASSUME s = Len(v), p = c
          PROVE  FALSE
      <4>1. e + HeaderSize + q.size <= Len(w)
        BY <1>8 DEF StandsAt
      <4>2. e = Len(w)
        BY <1>1, <1>3, <1>4, <3>1, PacketSizes
      <4> HIDE DEF e, w
      <4> QED
        BY <2>1, <4>1, <4>2, PacketSizes
    <3> QED
      BY <1>5, <1>8, <3>1
  <2>3. CASE StandsAt(v, q, e)
    <3>1. Follows(v, p, q, s)
      BY DEF Linked
    <3> QED
      BY <2>2, <2>3, <3>1 DEF Follows
  <2>4. CASE e = Len(v) /\ q = c
    <3>1. EndsWith(v, p)
      BY <2>2, <2>4 DEF EndsWith
    <3> QED
      BY <1>1, <2>4, <3>1, SentFollows
  <2> HIDE DEF e, w, v, c
  <2> QED
    BY <1>5, <1>8, <2>1, <2>3, <2>4 DEF e
<1>9. Linked(w)
  <2> HIDE DEF w
  <2> QED
    BY <1>7, <1>8 DEF Linked, Follows
<1>10. \A r, e : Reached(v, r, e) => Reached(w, r, e)
  <2> HIDE DEF w, v
  <2> QED
    BY <1>4 DEF Reached
<1>11. UpToDate'
  <2> HIDE DEF w
  <2> QED
    BY <1>2, <1>10 DEF UpToDate
<1> HIDE DEF w
<1> QED
  BY <1>2, <1>6, <1>9, <1>11

\* Reading an answer moves the sender from a packet it has sent to the next.
LEMMA ReadsOrderly ==
  ASSUME SenderType, OnWire, SenderReads
  PROVE  OnWire'
<1>1. tries > 0 /\ tries \in Nat /\ UNCHANGED <<wire, schedule>>
  BY DEF SenderReads, SenderType, vars, peer
<1>2. CASE at' = at + 1 /\ tries' = 0
  <2>1. at' - 1 = at /\ at' # 1
    BY <1>2, ScheduleFacts
  <2>2. LastSent' = LastSent
    BY <1>1, <1>2, <2>1 DEF LastSent
  <2>3. EndsWith(wire, LastSent)
    BY <1>1 DEF OnWire
  <2> HIDE DEF LastSent
  <2> QED
    BY <1>1, <2>1, <2>2, <2>3 DEF OnWire
<1>3. CASE at' = at /\ tries' = tries
  BY <1>1, <1>3 DEF OnWire, LastSent
<1> QED
  BY <1>2, <1>3 DEF SenderReads

\* A packet read where the client is up to date is the one it expects or the one
\* it has just had.
LEMMA ExpectedOrRepeated ==
  ASSUME Linked(wire), NEW r \in Nat, Reached(wire, r, uiExpectedSeq),
         NEW h \in Packets, StandsAt(wire, h, r)
  PROVE  h.seq = uiExpectedSeq \/ h.seq + h.size = uiExpectedSeq
<1>1. CASE r = 0 /\ uiExpectedSeq = 0
  BY <1>1 DEF Linked
<1>2. ASSUME NEW p \in Packets, NEW s \in Nat, StandsAt(wire, p, s),
             r = s + HeaderSize + p.size, uiExpectedSeq = p.seq + p.size
      PROVE  h.seq = uiExpectedSeq \/ h.seq + h.size = uiExpectedSeq
  <2>1. Follows(wire, p, h, s)
    BY DEF Linked
  <2> QED
    BY <1>2, <2>1 DEF Follows
<1> QED
  BY <1>1, <1>2 DEF Reached

\* Behind a packet the client has read it expects what follows.
LEMMA ReachedBehind ==
  ASSUME NEW w, NEW h \in Packets, NEW r \in Nat, StandsAt(w, h, r)
  PROVE  Reached(w, r + HeaderSize + h.size, h.seq + h.size)
BY DEF Reached

\* The client stays up to date.
LEMMA ClientUpToDate ==
  ASSUME TInv, Framing, Linked(wire), UpToDate, "pData" \notin Faults, client
  PROVE  UpToDate'
<1>1. UNCHANGED wire
  BY DEF client, connect, recvFull, recvFails, HeaderRead, OutOfSequence, InSequence, sendKills,
         Save, peer
<1>2. rpos \in Nat
  BY DEF TInv, CountsType
<1>3. CASE connect
  <2>1. UNCHANGED <<rpos, uiExpectedSeq>> /\ pc = "connect" /\ pc' \in {"header", "exit"}
    BY <1>3 DEF connect, memory
  <2> QED
    BY <1>1, <2>1 DEF UpToDate
<1>4. CASE recvFull
  BY <1>1, <1>4 DEF recvFull, memory, UpToDate
<1>5. CASE recvFails \/ sendKills \/ Save
  <2>1. pc' \in {"close", "killed", "exit"}
    BY <1>5 DEF recvFails, sendKills, Save
  <2> QED
    BY <2>1 DEF UpToDate
<1>6. CASE HeaderRead
  <2>1. PICK h \in Packets : Shown = {h} /\ StandsAt(wire, h, rpos)
    BY <1>6, ShowsPacket DEF HeaderRead
  <2>2. stHead' = h /\ rpos' = rpos + HeaderSize /\ UNCHANGED uiExpectedSeq
    BY <1>6, <2>1 DEF HeaderRead, Take
  <2>3. Reached(wire, rpos, uiExpectedSeq)
    BY <1>6 DEF HeaderRead, UpToDate
  <2>4. CASE pc' = "data"
    <3>1. rpos' - HeaderSize = rpos
      BY <1>2, <2>2, Sizes
    <3> QED
      BY <1>1, <2>2, <2>3, <2>4, <3>1 DEF UpToDate
  <2>5. CASE ~GoodSize(h) /\ UNCHANGED pc
    <3>1. h.size = 0 /\ rpos' = rpos + HeaderSize + h.size
      BY <1>2, <2>2, <2>5, PacketFacts, Sizes DEF GoodSize
    <3>2. h.seq + h.size = uiExpectedSeq
      BY <1>2, <2>1, <2>3, <3>1, ExpectedOrRepeated, PacketFacts
    <3>3. Reached(wire, rpos', uiExpectedSeq)
      BY <1>2, <2>1, <3>1, <3>2, ReachedBehind
    <3>4. pc' = "header"
      BY <1>6, <2>5 DEF HeaderRead
    <3> QED
      BY <1>1, <2>2, <3>3, <3>4 DEF UpToDate
  <2> QED
    BY <1>6, <2>2, <2>4, <2>5 DEF HeaderRead, Fails
<1>7. CASE OutOfSequence \/ InSequence
  <2> DEFINE r == rpos - HeaderSize
             h == stHead
  <2>1. DataComplete /\ rpos' = rpos + h.size /\ pc' \in {"header", "close"}
    BY <1>7 DEF OutOfSequence, InSequence, Take
  <2>2. h \in Packets /\ StandsAt(wire, h, r)
    BY <2>1 DEF DataComplete, Framing, Aligned
  <2>3. r \in Nat
    <3>1. r >= 0
      BY <2>2 DEF StandsAt
    <3> QED
      BY <1>2, <3>1, Sizes
  <2>4. rpos' = r + HeaderSize + h.size
    BY <1>2, <2>1, <2>2, PacketFacts, Sizes
  <2>5. uiExpectedSeq' = h.seq + h.size
    <3>1. CASE InSequence
      BY <3>1 DEF InSequence
    <3>2. CASE OutOfSequence
      <4>1. h.seq # uiExpectedSeq /\ UNCHANGED uiExpectedSeq
        BY <3>2 DEF OutOfSequence
      <4>2. Reached(wire, r, uiExpectedSeq)
        BY <2>1 DEF DataComplete, UpToDate
      <4> HIDE DEF r, h
      <4> QED
        BY <2>2, <2>3, <4>1, <4>2, ExpectedOrRepeated
    <3> QED
      BY <1>7, <3>1, <3>2
  <2> HIDE DEF r, h
  <2>6. Reached(wire', rpos', uiExpectedSeq')
    BY <1>1, <2>2, <2>3, <2>4, <2>5, ReachedBehind
  <2> QED
    BY <2>1, <2>6 DEF UpToDate
<1> QED
  BY <1>3, <1>4, <1>5, <1>6, <1>7 DEF client

\* When nothing more comes and nothing is lost on the way, the client has read
\* whole packets to the end of the wire.
LEMMA AllRead ==
  ASSUME TInv, InHand, Framing, Disconnected, "reset" \notin Faults
  PROVE  pc = "header" /\ rpos = Len(wire)
<1>1. rpos \in Nat /\ iTotal \in Nat /\ rpos + iTotal = Len(wire) /\ Len(wire) \in Nat
  BY LenWire DEF TInv, CountsType, Disconnected
<1>2. CASE pc = "header"
  <2>1. iTotal < HeaderSize
    BY <1>2 DEF Disconnected, Receiving, Wanted
  <2>2. ASSUME rpos < Len(wire)
        PROVE  FALSE
    <3>1. PICK p \in Packets : StandsAt(wire, p, rpos)
      BY <1>2, <2>2, PacketToCome
    <3>2. rpos + HeaderSize + p.size <= Len(wire)
      BY <3>1 DEF StandsAt
    <3> QED
      BY <1>1, <2>1, <3>2, PacketSizes
  <2> QED
    BY <1>1, <1>2, <2>2
<1>3. CASE pc = "data"
  <2>1. stHead \in Packets /\ StandsAt(wire, stHead, rpos - HeaderSize)
    BY <1>3 DEF Framing, Aligned
  <2>2. (rpos - HeaderSize) + HeaderSize + stHead.size <= Len(wire)
    BY <2>1 DEF StandsAt
  <2>3. iTotal < stHead.size
    BY <1>3 DEF Disconnected, Receiving, Wanted
  <2> QED
    BY <1>1, <2>1, <2>2, <2>3, PacketSizes
<1> QED
  BY <1>2, <1>3 DEF Disconnected, Receiving

\* .. which, the sender having sent all of an orderly schedule, is the file.
LEMMA AllReadIsAll ==
  ASSUME TInv, InHand, Framing, SenderType, InOrder, OnWire, UpToDate,
         Disconnected, "reset" \notin Faults
  PROVE  uiExpectedSeq = FileLen
<1>1. pc = "header" /\ rpos = Len(wire)
  BY AllRead
<1>2. at = Len(schedule) + 1 /\ tries = 0
  <2>1. at > Len(schedule)
    BY <1>1 DEF Disconnected, SenderType, Over
  <2> QED
    BY <2>1, ScheduleFacts DEF SenderType
<1>3. Len(schedule) >= 1
  BY ScheduleFacts DEF InOrder
<1> DEFINE f == schedule[Len(schedule)]
<1>4. f \in Packets /\ f.fin
  BY <1>3, ScheduleFacts DEF InOrder
<1>5. EndsWith(wire, f)
  <2>1. at # 1 /\ at - 1 = Len(schedule)
    BY <1>2, <1>3, ScheduleFacts
  <2>2. LastSent = f
    BY <1>2, <2>1 DEF LastSent
  <2> HIDE DEF f
  <2> QED
    BY <2>1, <2>2 DEF OnWire
<1> HIDE DEF f
<1>6. PICK t \in Nat : StandsAt(wire, f, t) /\ t + HeaderSize + f.size = Len(wire)
  BY <1>5 DEF EndsWith
<1>7. Len(wire) # 0
  BY <1>4, <1>6, NothingEndsAtStart
<1>8. PICK p \in Packets, s \in Nat :
        StandsAt(wire, p, s) /\ rpos = s + HeaderSize + p.size
          /\ uiExpectedSeq = p.seq + p.size
  BY <1>1, <1>7 DEF UpToDate, Reached
<1>9. p = f
  BY <1>1, <1>4, <1>6, <1>8, SameEnd
<1> QED
  BY <1>4, <1>8, <1>9, PacketFacts

\* The client leaves the loop with the whole file.
LEMMA ClientLeavesComplete ==
  ASSUME TInv, InHand, Framing, SenderType, InOrder, OnWire, UpToDate, LeftComplete,
         "reset" \notin Faults, client
  PROVE  LeftComplete'
<1>1. CASE connect \/ recvFull \/ HeaderRead \/ OutOfSequence \/ sendKills
  <2>1. CASE connect
    BY <2>1 DEF connect, LeftComplete
  <2>2. CASE recvFull
    BY <2>2 DEF recvFull, Receiving, LeftComplete
  <2>3. CASE HeaderRead \/ OutOfSequence \/ sendKills
    <3>1. pc' \in {"header", "data", "killed"}
      BY <2>3 DEF HeaderRead, OutOfSequence, sendKills
    <3> QED
      BY <3>1 DEF LeftComplete
  <2> QED
    BY <1>1, <2>1, <2>2, <2>3
<1>2. CASE recvFails
  <2>1. uiExpectedSeq = FileLen
    BY <1>2, AllReadIsAll DEF recvFails
  <2> QED
    BY <1>2, <2>1 DEF recvFails, memory, LeftComplete
<1>3. CASE InSequence
  <2>1. stHead \in Packets
    BY <1>3, PacketData DEF InSequence
  <2>2. uiExpectedSeq' = stHead.seq + stHead.size /\ pc' = "close" => stHead.fin
    BY <1>3 DEF InSequence
  <2>3. pc' # "exit" /\ uiExpectedSeq' = stHead.seq + stHead.size
    BY <1>3 DEF InSequence
  <2> QED
    BY <2>1, <2>2, <2>3, PacketFacts DEF LeftComplete
<1>4. CASE Save
  BY <1>4 DEF Save, memory, LeftComplete
<1> QED
  BY <1>1, <1>2, <1>3, <1>4 DEF client

\* Every step of an orderly transfer keeps the order.
LEMMA OrderlyNext ==
  ASSUME TInv, InHand, Framing, SenderType, InOrder, Orderly,
         {"pData", "pNew", "reset"} \cap Faults = {}, [TransferNext]_all
  PROVE  Orderly'
<1>1. CASE clientStep
  <2>1. client /\ UNCHANGED <<schedule, at, tries>>
    BY <1>1 DEF clientStep, sender
  <2>2. UNCHANGED wire
    BY <2>1 DEF client, connect, recvFull, recvFails, HeaderRead, OutOfSequence, InSequence,
         sendKills, Save, peer
  <2>3. OnWire'
    BY <2>1, <2>2 DEF Orderly, OnWire, LastSent
  <2>4. Linked(wire)'
    BY <2>2 DEF Orderly, Linked
  <2>5. UpToDate'
    BY <2>1, ClientUpToDate DEF Orderly
  <2>6. LeftComplete'
    BY <2>1, ClientLeavesComplete DEF Orderly
  <2> QED
    BY <2>3, <2>4, <2>5, <2>6 DEF Orderly
<1>2. CASE SenderSends
  <2>1. UNCHANGED <<pc, exitCode, uiExpectedSeq>>
    BY <1>2, PacketSent DEF PeerSends, memory
  <2>2. LeftComplete'
    BY <2>1 DEF Orderly, LeftComplete
  <2> QED
    BY <1>2, <2>2, SendsOrderly DEF Orderly
<1>3. CASE SenderReads
  <2>1. UNCHANGED <<wire, pc, exitCode, rpos, uiExpectedSeq>>
    BY <1>3 DEF SenderReads, vars, peer, memory
  <2>2. Linked(wire)' /\ UpToDate' /\ LeftComplete'
    BY <2>1 DEF Orderly, Linked, UpToDate, LeftComplete
  <2> QED
    BY <1>3, <2>2, ReadsOrderly DEF Orderly
<1>4. CASE SenderCloses \/ TransferEnded \/ UNCHANGED all
  <2>1. UNCHANGED <<wire, pc, exitCode, rpos, uiExpectedSeq, schedule, at, tries>>
    BY <1>4 DEF SenderCloses, PeerCloses, TransferEnded, all, vars, peer, memory, sender
  <2>2. Linked(wire)' /\ UpToDate' /\ LeftComplete'
    BY <2>1 DEF Orderly, Linked, UpToDate, LeftComplete
  <2>3. OnWire'
    BY <2>1 DEF Orderly, OnWire, LastSent
  <2> QED
    BY <2>2, <2>3 DEF Orderly
<1> QED
  BY <1>1, <1>2, <1>3, <1>4 DEF TransferNext, senderStep

TransferInv == PrefixInv /\ InHand /\ SenderType /\ (InOrder => Orderly)

\* InOrderDelivers, for every orderly schedule, number of tries and size of the
\* answers, as long as memory suffices and TCP loses and damages nothing.
THEOREM OrderlyTransferDelivers ==
  ASSUME {"pData", "pNew", "reset"} \cap Faults = {}, ~Damage
  PROVE  TransferSpec => []InOrderDelivers
<1>1. TransferInit => TransferInv
  <2> SUFFICES ASSUME TransferInit PROVE TransferInv
    OBVIOUS
  <2>1. PrefixInv
    BY PrefixInductive DEF TransferInit
  <2>2. InHand
    BY DEF TransferInit, Init, InHand
  <2>3. wire = <<>> /\ rpos = 0 /\ uiExpectedSeq = 0 /\ pc = "connect" /\ at = 1 /\ tries = 0
    BY DEF TransferInit, Init
  <2>4. \A p \in Packets : \A s \in Nat : ~StandsAt(<<>>, p, s)
    BY PacketSizes DEF StandsAt
  <2>5. Orderly
    <3>1. OnWire
      BY <2>3 DEF OnWire
    <3>2. Linked(wire)
      BY <2>3, <2>4 DEF Linked, Follows
    <3>3. UpToDate /\ LeftComplete
      BY <2>3 DEF UpToDate, Reached, LeftComplete
    <3> QED
      BY <3>1, <3>2, <3>3 DEF Orderly
  <2> QED
    BY <2>1, <2>2, <2>5, SenderInit DEF TransferInv
<1>2. TransferInv /\ [TransferNext]_all => TransferInv'
  <2> SUFFICES ASSUME TransferInv, [TransferNext]_all PROVE TransferInv'
    OBVIOUS
  <2>1. [Next]_vars
    BY StepOfClient DEF TransferInv
  <2>2. PrefixInv' /\ InHand'
    BY <2>1, PrefixInductive, InHandNext DEF TransferInv, PrefixInv
  <2>3. SenderType'
    BY SenderNext DEF TransferInv
  <2>4. InOrder' => InOrder
    <3>1. UNCHANGED schedule
      BY DEF TransferNext, clientStep, senderStep, SenderSends, SenderReads, SenderCloses,
             TransferEnded, all, sender
    <3> QED
      BY <3>1 DEF InOrder
  <2>5. InOrder => Orderly'
    <3>1. Framing
      BY DEF TransferInv, PrefixInv, TInv, FailedType
    <3> QED
      BY <3>1, OrderlyNext DEF TransferInv, PrefixInv
  <2> QED
    BY <2>2, <2>3, <2>4, <2>5 DEF TransferInv
<1>3. TransferInv => InOrderDelivers
  <2> SUFFICES ASSUME TransferInv, InOrder, pc = "exit", exitCode = 0
               PROVE  pFileBuf = File
    BY DEF InOrderDelivers
  <2>1. uiExpectedSeq = FileLen
    BY DEF TransferInv, Orderly, LeftComplete
  <2>2. failed \cap {"pData", "pNew"} = {}
    BY DEF TransferInv, PrefixInv, TInv, FailedType
  <2>3. pFileBuf \in Seq(Nat) /\ Len(pFileBuf) = FileLen
    BY <2>1, <2>2, LenKept DEF TransferInv, PrefixInv, TInv, KeepsPrefix
  <2>4. \A k \in 1..FileLen : pFileBuf[k] = k
    <3>1. \A k : ~GarbledAt(k)
      BY GarbledIsDamage DEF TransferInv, PrefixInv
    <3> QED
      BY <2>2, <2>3, <3>1 DEF TransferInv, PrefixInv, KeepsPrefix, Right
  <2>5. File \in Seq(Nat) /\ Len(File) = FileLen /\ \A k \in 1..FileLen : File[k] = k
    BY Sizes DEF File
  <2> QED
    BY <2>3, <2>4, <2>5
<1> QED
  BY <1>1, <1>2, <1>3, PTL DEF TransferSpec

(***************************************************************************)
(* The count of packets and answers.  A packet begins at each cell with    *)
(* offset 0, so that the cells before a position count the packets.        *)
(***************************************************************************)
\* The packets that begin within the first r bytes of w.
Starts(w, r) == {k \in 1..r : w[k].off = 0}

\* They are finitely many.
LEMMA StartsFinite ==
  ASSUME NEW w, NEW r \in Nat
  PROVE  IsFiniteSet(Starts(w, r)) /\ Cardinality(Starts(w, r)) \in Nat
<1>1. IsFiniteSet(1..r)
  BY FS_Interval
<1>2. Starts(w, r) \in SUBSET (1..r)
  BY DEF Starts
<1> QED
  BY <1>1, <1>2, FS_Subset, FS_CardinalityType

\* The bytes behind a header begin no packet ..
LEMMA StartsSame ==
  ASSUME NEW w, NEW r \in Nat, NEW n \in Nat, \A j \in 1..n : w[r + j].off # 0
  PROVE  Starts(w, r + n) = Starts(w, r)
<1>1. ASSUME NEW k \in 1..r + n, k \notin 1..r
      PROVE  w[k].off # 0
  <2>1. k - r \in 1..n /\ r + (k - r) = k
    BY <1>1
  <2> QED
    BY <2>1
<1>2. 1..r \subseteq 1..r + n
  OBVIOUS
<1> QED
  BY <1>1, <1>2 DEF Starts

\* .. and the first of them begins one.
LEMMA StartsGrow ==
  ASSUME NEW w, NEW r \in Nat, NEW n \in Nat \ {0}, w[r + 1].off = 0,
         \A j \in 2..n : w[r + j].off # 0
  PROVE  Cardinality(Starts(w, r + n)) = Cardinality(Starts(w, r)) + 1
<1>1. Starts(w, r + 1) = Starts(w, r) \cup {r + 1}
  <2>1. 1..r + 1 = (1..r) \cup {r + 1}
    OBVIOUS
  <2> QED
    BY <2>1 DEF Starts
<1>2. r + 1 \notin Starts(w, r)
  BY DEF Starts
<1>3. Cardinality(Starts(w, r + 1)) = Cardinality(Starts(w, r)) + 1
  BY <1>1, <1>2, StartsFinite, FS_AddElement
<1>4. Starts(w, (r + 1) + (n - 1)) = Starts(w, r + 1)
  <2>1. ASSUME NEW j \in 1..n - 1
        PROVE  w[(r + 1) + j].off # 0
    <3>1. j + 1 \in 2..n /\ r + (j + 1) = (r + 1) + j
      OBVIOUS
    <3> QED
      BY <3>1
  <2>2. r + 1 \in Nat /\ n - 1 \in Nat
    OBVIOUS
  <2> QED
    BY <2>1, <2>2, StartsSame
<1>5. (r + 1) + (n - 1) = r + n
  OBVIOUS
<1> QED
  BY <1>3, <1>4, <1>5

\* Each packet on the wire was sent once; each packet taken was answered once,
\* but the one in hand; and the sender waits for the answer to one at most.
SentOnce == Cardinality(Starts(wire, Len(wire))) = sent
Answered ==
  /\ pc \in {"connect", "header"} => Cardinality(Starts(wire, rpos)) = Len(answers)
  /\ pc = "data" => Cardinality(Starts(wire, rpos)) = Len(answers) + 1
WaitsForOne ==
  /\ reads \in Nat
  /\ awaiting => sent = reads + 1
  /\ ~awaiting => sent = reads

Counted == SentOnce /\ Answered /\ WaitsForOne

\* One more packet sent is one more on the wire, and none taken.
LEMMA CountedSends ==
  ASSUME TInv, SenderType, Counted, SenderSends
  PROVE  Counted'
<1> DEFINE p == schedule[at]
           l == Len(wire)
           n == HeaderSize + p.size
<1>1. p \in Packets /\ PeerSends(p)
  BY PacketSent
<1>2. n \in Nat \ {0} /\ l \in Nat /\ wire \in Seq(Cell) /\ rpos \in Nat /\ rpos <= l
  BY <1>1, PacketSizes, LenWire DEF TInv, CountsType
<1>3. /\ wire' = wire \o Cells(p) /\ sent' = sent + 1 /\ sent \in Nat
      /\ UNCHANGED <<pc, rpos, answers>>
  BY <1>1 DEF PeerSends, memory, TInv, PeerType
<1>4. Cells(p) \in Seq(Cell) /\ Len(Cells(p)) = n /\ \A j \in 1..n : Cells(p)[j].off = j - 1
  <2>1. Cells(p) \in Seq(Cell) /\ Len(Cells(p)) = n
    BY <1>1, CellsType
  <2>2. \A j \in 1..n : Cells(p)[j] = [pkt |-> p, off |-> j - 1]
    BY DEF Cells
  <2> HIDE DEF p, n
  <2> QED
    BY <2>1, <2>2
<1> HIDE DEF p, n
<1>5. /\ Len(wire') = l + n
      /\ \A k \in 1..l : wire'[k] = wire[k]
      /\ \A j \in 1..n : wire'[l + j] = Cells(p)[j]
  <2>1. \A v, u \in Seq(Cell) :
          /\ Len(v \o u) = Len(v) + Len(u)
          /\ \A k \in 1..Len(v) : (v \o u)[k] = v[k]
          /\ \A j \in 1..Len(u) : (v \o u)[Len(v) + j] = u[j]
    OBVIOUS
  <2> QED
    BY <1>2, <1>3, <1>4, <2>1
<1>6. \A j \in 1..n : wire'[l + j].off = j - 1
  BY <1>4, <1>5
<1>7. wire'[l + 1].off = 0 /\ \A j \in 2..n : wire'[l + j].off # 0
  <2>1. 1 \in 1..n /\ \A j \in 2..n : j \in 1..n /\ j - 1 # 0
    BY <1>2
  <2> QED
    BY <1>6, <2>1
<1>8. \A r \in 0..l : Starts(wire', r) = Starts(wire, r)
  <2>1. \A r \in 0..l : \A k \in 1..r : k \in 1..l
    BY <1>2
  <2> QED
    BY <1>5, <2>1 DEF Starts
<1>9. Cardinality(Starts(wire', Len(wire'))) = sent'
  <2>1. Cardinality(Starts(wire', l + n)) = Cardinality(Starts(wire', l)) + 1
    BY <1>2, <1>7, StartsGrow
  <2>2. Starts(wire', l) = Starts(wire, l)
    BY <1>2, <1>8
  <2> QED
    BY <1>3, <1>5, <2>1, <2>2 DEF Counted, SentOnce
<1>10. Starts(wire', rpos') = Starts(wire, rpos)
  <2>1. rpos \in 0..l
    BY <1>2
  <2> QED
    BY <1>3, <1>8, <2>1
<1>11. WaitsForOne'
  <2>1. UNCHANGED reads /\ awaiting' /\ ~awaiting
    BY DEF SenderSends
  <2> QED
    BY <1>3, <2>1 DEF Counted, WaitsForOne
<1>12. Answered'
  BY <1>3, <1>10 DEF Counted, Answered
<1> QED
  BY <1>9, <1>11, <1>12 DEF Counted, SentOnce

\* A packet read is a packet answered, when every packet carries data and there
\* is memory for it.
LEMMA CountedClient ==
  ASSUME TInv, Framing, Counted, "pData" \notin Faults, \A p \in Packets : p.size > 0, client,
         UNCHANGED <<awaiting, reads>>
  PROVE  Counted'
<1>1. UNCHANGED <<wire, sent>>
  BY DEF client, connect, recvFull, recvFails, HeaderRead, OutOfSequence, InSequence, sendKills,
         Save, peer
<1>2. rpos \in Nat /\ Len(answers) \in Nat /\ answers \in Seq(Answer)
  BY DEF TInv, CountsType, AnswerType
<1>3. SentOnce' /\ WaitsForOne'
  BY <1>1 DEF Counted, SentOnce, WaitsForOne
<1>4. Answered
  BY DEF Counted
<1> SUFFICES Answered'
  BY <1>3 DEF Counted
<1>5. CASE connect \/ recvFull
  <2>1. /\ UNCHANGED <<rpos, answers>>
        /\ (pc \in {"connect", "header"} /\ pc' \in {"header", "exit"}) \/ UNCHANGED pc
    BY <1>5 DEF connect, recvFull, memory
  <2> QED
    BY <1>1, <1>4, <2>1 DEF Answered
<1>7. CASE recvFails \/ sendKills \/ Save
  <2>1. pc' \in {"close", "killed", "exit"}
    BY <1>7 DEF recvFails, sendKills, Save
  <2> QED
    BY <2>1 DEF Answered
<1>8. CASE HeaderRead
  <2>1. PICK p \in Packets : Shown = {p} /\ StandsAt(wire, p, rpos)
    BY <1>8, ShowsPacket DEF HeaderRead
  <2>2. GoodSize(p) /\ HeaderSize \in Nat \ {0} /\ p.size \in Nat
    BY <2>1, PacketFacts, Sizes DEF GoodSize
  <2>3. /\ stHead' = p /\ pc = "header" /\ pc' = "data"
        /\ rpos' = rpos + HeaderSize /\ answers' = answers
    BY <1>8, <2>1, <2>2 DEF HeaderRead, Fails, Take
  <2>4. \A j \in 1..HeaderSize : wire[rpos + j].off = j - 1
    <3>1. \A j \in 1..HeaderSize + p.size : CellIs(wire, p, rpos, j)
      BY <1>2, <2>1, CellsOfPacket
    <3>2. \A j \in 1..HeaderSize : j \in 1..HeaderSize + p.size
      BY <2>2
    <3> QED
      BY <3>1, <3>2, CellParts
  <2>5. wire[rpos + 1].off = 0 /\ \A j \in 2..HeaderSize : wire[rpos + j].off # 0
    <3>1. 1 \in 1..HeaderSize /\ \A j \in 2..HeaderSize : j \in 1..HeaderSize /\ j - 1 # 0
      BY <2>2
    <3> QED
      BY <2>4, <3>1
  <2>6. Cardinality(Starts(wire, rpos + HeaderSize)) = Cardinality(Starts(wire, rpos)) + 1
    BY <1>2, <2>2, <2>5, StartsGrow
  <2> QED
    BY <1>1, <1>4, <2>3, <2>6 DEF Answered
<1>9. CASE OutOfSequence \/ InSequence
  <2>1. /\ DataComplete /\ pc = "data"
        /\ rpos' = rpos + stHead.size /\ pc' \in {"header", "close"}
    BY <1>9 DEF OutOfSequence, InSequence, Take, DataComplete
  <2>2. Len(answers') = Len(answers) + 1
    BY <1>2, <1>9 DEF OutOfSequence, InSequence, sendAck
  <2>3. stHead \in Packets /\ StandsAt(wire, stHead, rpos - HeaderSize)
    BY <2>1 DEF Framing, Aligned
  <2>4. stHead.size \in Nat /\ HeaderSize \in Nat \ {0}
    BY <2>3, PacketFacts, Sizes
  <2>5. rpos - HeaderSize \in Nat
    BY <1>2, <2>3, <2>4 DEF StandsAt
  <2>6. ASSUME NEW j \in 1..stHead.size
        PROVE  wire[rpos + j].off # 0
    <3>1. HeaderSize + j \in 1..HeaderSize + stHead.size
          /\ (rpos - HeaderSize) + (HeaderSize + j) = rpos + j
          /\ (HeaderSize + j) - 1 # 0
      BY <1>2, <2>4
    <3>2. CellIs(wire, stHead, rpos - HeaderSize, HeaderSize + j)
      BY <2>3, <2>5, <3>1, CellsOfPacket
    <3> QED
      BY <3>1, <3>2, CellParts
  <2>7. Starts(wire, rpos + stHead.size) = Starts(wire, rpos)
    BY <1>2, <2>4, <2>6, StartsSame
  <2> QED
    BY <1>1, <1>2, <1>4, <2>1, <2>2, <2>7 DEF Answered
<1> QED
  BY <1>5, <1>7, <1>8, <1>9 DEF client

\* Every step keeps the count.
LEMMA CountedNext ==
  ASSUME TInv, Framing, SenderType, Counted, "pData" \notin Faults,
         \A p \in Packets : p.size > 0, [TransferNext]_all
  PROVE  Counted'
<1>1. CASE clientStep
  BY <1>1, CountedClient DEF clientStep, sender
<1>2. CASE SenderSends
  BY <1>2, CountedSends
<1>3. CASE SenderReads
  <2>1. UNCHANGED <<wire, sent, pc, rpos, answers>> /\ reads' = reads + 1
        /\ awaiting /\ ~awaiting'
    BY <1>3 DEF SenderReads, vars, peer, memory
  <2> QED
    BY <2>1 DEF Counted, SentOnce, Answered, WaitsForOne
<1>4. CASE SenderCloses \/ TransferEnded \/ UNCHANGED all
  <2>1. UNCHANGED <<wire, sent, pc, rpos, answers, reads, awaiting>>
    BY <1>4 DEF SenderCloses, PeerCloses, TransferEnded, all, vars, peer, memory, sender
  <2> QED
    BY <2>1 DEF Counted, SentOnce, Answered, WaitsForOne
<1> QED
  BY <1>1, <1>2, <1>3, <1>4 DEF TransferNext, senderStep

\* When the client has read all there is, all that was sent is answered.
LEMMA CountedMeansAnswered ==
  ASSUME TInv, InHand, Framing, Counted, HeaderSize <= SentSize
  PROVE  AnswerOnItsWay
<1> SUFFICES ASSUME awaiting, ~Over, pc # "close", ~(rpos < Len(wire))
             PROVE  ReadFrom + HeaderSize <= Len(answers) * SentSize
  BY DEF AnswerOnItsWay
<1>1. rpos = Len(wire) /\ rpos \in Nat /\ pc \in {"connect", "header", "data"}
  BY LenWire DEF TInv, CountsType, Labels, Over
<1>2. pc # "data"
  <2> SUFFICES ASSUME pc = "data" PROVE FALSE
    OBVIOUS
  <2>1. stHead \in Packets /\ StandsAt(wire, stHead, rpos - HeaderSize)
    BY DEF Framing, Aligned
  <2>2. stHead.size \in Nat /\ stHead.size > 0 /\ HeaderSize \in Nat
    BY <2>1, PacketFacts, Sizes DEF InHand, GoodSize
  <2>3. (rpos - HeaderSize) + HeaderSize + stHead.size <= Len(wire)
    BY <2>1 DEF StandsAt
  <2> QED
    BY <1>1, <2>2, <2>3
<1>3. Len(answers) = reads + 1 /\ reads \in Nat
  BY <1>1, <1>2 DEF Counted, SentOnce, Answered, WaitsForOne
<1>4. SentSize \in Nat /\ HeaderSize \in Nat
  BY TransferAssumption, Sizes
<1>5. \A a \in Nat, h \in Nat, s \in Nat : h <= s => a * h + h <= (a + 1) * s
  <2>1. \A a \in Nat, h \in Nat, s \in Nat : h <= s => (a + 1) * h <= (a + 1) * s
    OBVIOUS
  <2>2. \A a \in Nat, h \in Nat : (a + 1) * h = a * h + h
    OBVIOUS
  <2> QED
    BY <2>1, <2>2
<1> QED
  BY <1>3, <1>4, <1>5 DEF ReadFrom

CountedInv == TInv /\ InHand /\ Framing /\ SenderType /\ Counted

\* AnswerOnItsWay, for every schedule and number of tries: a sender that reads
\* no more bytes of an answer than there are never waits in vain, as long as
\* each packet carries data and there is memory for it.
THEOREM AnswersCome ==
  ASSUME "pData" \notin Faults, \A p \in Packets : p.size > 0, HeaderSize <= SentSize
  PROVE  TransferSpec => []AnswerOnItsWay
<1>1. TransferInit => CountedInv
  <2> SUFFICES ASSUME TransferInit PROVE CountedInv
    OBVIOUS
  <2>1. TInv /\ SenderType
    BY TypeInit, SenderInit DEF TransferInit
  <2>2. wire = <<>> /\ sent = 0 /\ pc = "connect" /\ rpos = 0 /\ answers = <<>>
        /\ ~iDone /\ pFileBuf = <<>> /\ ~awaiting /\ reads = 0
    BY DEF TransferInit, Init
  <2>3. InHand /\ Framing
    BY <2>2 DEF InHand, Framing, FramedIn, Aligned
  <2>4. Starts(<<>>, 0) = {}
    BY DEF Starts
  <2>5. Cardinality(Starts(<<>>, 0)) = 0
    BY <2>4, FS_EmptySet
  <2>6. Counted
    BY <2>2, <2>5 DEF Counted, SentOnce, Answered, WaitsForOne
  <2> QED
    BY <2>1, <2>3, <2>6 DEF CountedInv
<1>2. CountedInv /\ [TransferNext]_all => CountedInv'
  <2> SUFFICES ASSUME CountedInv, [TransferNext]_all PROVE CountedInv'
    OBVIOUS
  <2>1. [Next]_vars
    BY StepOfClient DEF CountedInv
  <2>2. "pData" \notin failed'
    BY <2>1, TypeNext DEF CountedInv, TInv, FailedType
  <2> QED
    BY <2>1, <2>2, TypeNext, InHandNext, FramingNext, SenderNext, CountedNext DEF CountedInv
<1>3. CountedInv => AnswerOnItsWay
  BY CountedMeansAnswered DEF CountedInv
<1> QED
  BY <1>1, <1>2, <1>3, PTL DEF TransferSpec
=============================================================================

-------------------------- MODULE EwpServerProofs --------------------------
(***************************************************************************)
(* Proofs about EwpServer: its type invariant, what comes after QUIT and   *)
(* where files are written, for all clients, messages and failing calls.   *)
(***************************************************************************)
EXTENDS EwpServer, TLAPS

(***************************************************************************)
(* Types, one part of the state at a time.                                 *)
(***************************************************************************)
Labels == {"start", "exit", "accept", "greet", "header", "body", "dataHeader",
           "fileData", "write", "close", "killed"}
Session == {"greet", "header", "body", "dataHeader", "fileData", "write", "close"}
Codes  == {"220", "250", "354", "501", "221"}

\* In a session there is a client.
QueueType ==
  /\ listening \subseteq 0..PortSpan - 1
  /\ backlog \in Seq(Clients) /\ cur \in Clients \cup {Nobody}
  /\ hung \subseteq Clients /\ served \subseteq Clients
  /\ pc \in Session => cur \in Clients

InputType == pipelines \in BOOLEAN /\ wire \in Seq(Cell) /\ script \in Seq(Messages)

\* A command is read only when its header promised at least one byte of it.
CountsType ==
  /\ pc \in Labels
  /\ rpos \in Nat /\ iTotal \in Nat /\ rpos + iTotal <= Len(wire)
  /\ iPayloadSize \in Int /\ iFileBody \in Int
  /\ pc = "body" => iPayloadSize - HeaderSize >= 1

OutputType ==
  /\ cFilename \in Names \cup {<<>>}
  /\ replies \in Seq(Codes)
  /\ files \in [Names -> [of : {"FILE object"}, size : Int] \cup {NoFile}]

TInv == QueueType /\ InputType /\ CountsType /\ OutputType

\* The parts make up the type invariant of the module.
LEMMA PartsAreTypes == TInv => TypeOK
BY DEF TInv, QueueType, InputType, CountsType, OutputType, TypeOK, Labels, Codes

\* The sizes that are constants.
LEMMA Sizes == HeaderSize \in Nat /\ HeaderSize >= 1 /\ PortSpan \in Nat /\ PortSpan >= 1
BY ConstantsAssumption

\* The wire has a length.
LEMMA LenWire ==
  ASSUME InputType
  PROVE  Len(wire) \in Nat
BY DEF InputType

\* The bytes a message adds to a connection.
LEMMA CellsType ==
  ASSUME NEW m \in Messages
  PROVE  Cells(m) \in Seq(Cell)
<1>1. m.len \in Nat
  BY ConstantsAssumption DEF Message
<1>2. HeaderSize + m.len \in Nat
  BY <1>1, Sizes
<1>3. \A k \in 1..HeaderSize + m.len : [msg |-> m, off |-> k - 1] \in Cell
  BY <1>2 DEF Cell
<1> QED
  BY <1>2, <1>3 DEF Cells

\* A byte that was taken or is about to be.
LEMMA FirstCell ==
  ASSUME InputType, CountsType, iTotal >= 1
  PROVE  wire[rpos + 1] \in Cell
<1>1. rpos + 1 \in 1..Len(wire)
  BY LenWire DEF CountsType
<1>2. wire \in Seq(Cell)
  BY DEF InputType
<1> QED
  BY <1>1, <1>2

\* What a header shows is an integer.
LEMMA ShownType ==
  ASSUME InputType, CountsType, iTotal = HeaderSize
  PROVE  Shown \subseteq Int
<1>1. Misread \subseteq Int
  BY ConstantsAssumption
<1>2. wire[rpos + 1] \in Cell
  BY FirstCell, Sizes
<1>3. wire[rpos + 1].msg \in Message
  BY <1>2, ConstantsAssumption DEF Cell
<1>4. wire[rpos + 1].msg.size \in Int
  BY <1>3 DEF Message
<1>5. {wire[rpos + 1].msg.size} \subseteq Int /\ Misread \cup {-1} \subseteq Int
  BY <1>1, <1>4
<1> QED
  BY <1>5 DEF Shown

\* The name in a command that was read is one of the names.
LEMMA NameType ==
  ASSUME InputType, CountsType, BodyRead
  PROVE  Body.msg.name \in Names
<1>1. iTotal >= 1
  BY Sizes DEF CountsType, BodyRead
<1>2. Body \in Cell
  BY <1>1, FirstCell DEF Body
<1>3. Body.msg \in Message
  BY <1>2, ConstantsAssumption DEF Cell
<1> QED
  BY <1>3 DEF Message

\* The types hold at the start.
LEMMA TypeInit == Init => TInv
<1> SUFFICES ASSUME Init PROVE TInv
  OBVIOUS
<1>1. QueueType
  BY DEF Init, QueueType, Session
<1>2. InputType
  <2>1. <<>> \in Seq(Cell) /\ <<>> \in Seq(Messages)
    OBVIOUS
  <2> QED
    BY <2>1 DEF Init, InputType
<1>3. CountsType
  BY Sizes DEF Init, CountsType, Labels
<1>4. OutputType
  BY DEF Init, OutputType
<1> QED
  BY <1>1, <1>2, <1>3, <1>4 DEF TInv

\* A session leaves the other clients and what its own sends alone.
LEMMA SessionKeeps ==
  ASSUME handleClient
  PROVE  UNCHANGED <<queue, input>> /\ pc \in Session
BY DEF handleClient, sendServerAccept, recvFull, recvFails, readSizeHeader, Courtesy,
       DataAccepted, DataRefused, Quit, Unknown, DataHeaderRead, DataHeaderFails,
       DataHeader, Drain, WriteFile, sendKills, Served, queue, input,
       Receiving, Disconnected, BodyRead, Session

\* Clients queue up, are served and leave.
LEMMA QueueNext ==
  ASSUME QueueType, [Next]_vars
  PROVE  QueueType'
<1>1. CASE handleClient
  BY <1>1, SessionKeeps DEF QueueType, queue
<1>2. CASE Start
  <2>1. \A p \in Int : p % PortSpan \in 0..PortSpan - 1
    BY Sizes
  <2>2. listening' \subseteq 0..PortSpan - 1
    BY <1>2, <2>1, ConstantsAssumption DEF Start, QueueType
  <2> QED
    BY <1>2, <2>2 DEF Start, QueueType, Session
<1>3. CASE Accept
  <2>1. Head(backlog) \in Clients /\ Tail(backlog) \in Seq(Clients)
    BY <1>3 DEF Accept, QueueType
  <2> QED
    BY <1>3, <2>1 DEF Accept, QueueType
<1>4. ASSUME NEW c \in Clients, ClientConnects(c)
      PROVE  QueueType'
  <2>1. Append(backlog, c) \in Seq(Clients)
    BY DEF QueueType
  <2> QED
    BY <1>4, <2>1 DEF ClientConnects, QueueType
<1>5. ASSUME NEW m \in Messages, ClientSends(m)
      PROVE  QueueType'
  BY <1>5 DEF ClientSends, QueueType, queue
<1>6. CASE ClientHangsUp
  BY <1>6 DEF ClientHangsUp, QueueType
<1>7. CASE CloseClient
  BY <1>7 DEF CloseClient, QueueType, Session
<1>8. CASE AcceptFails \/ Idle \/ UNCHANGED vars
  BY <1>8 DEF AcceptFails, Idle, QueueType, vars, queue
<1> QED
  BY <1>1, <1>2, <1>3, <1>4, <1>5, <1>6, <1>7, <1>8 DEF Next, main, clients

\* What a client sends is made of messages.
LEMMA InputNext ==
  ASSUME InputType, [Next]_vars
  PROVE  InputType'
<1>1. CASE handleClient
  BY <1>1, SessionKeeps DEF InputType, input
<1>2. CASE Start
  BY <1>2 DEF Start, InputType, input
<1>3. CASE Accept
  <2>1. pipelines' \in BOOLEAN
    BY <1>3, ConstantsAssumption DEF Accept
  <2> QED
    BY <1>3, <2>1 DEF Accept, InputType
<1>4. ASSUME NEW c \in Clients, ClientConnects(c)
      PROVE  InputType'
  BY <1>4 DEF ClientConnects, InputType, input
<1>5. ASSUME NEW m \in Messages, ClientSends(m)
      PROVE  InputType'
  <2>1. wire \o Cells(m) \in Seq(Cell)
    BY CellsType DEF InputType
  <2>2. Append(script, m) \in Seq(Messages)
    BY DEF InputType
  <2> QED
    BY <1>5, <2>1, <2>2 DEF ClientSends, InputType
<1>6. CASE ClientHangsUp
  BY <1>6 DEF ClientHangsUp, InputType, input
<1>7. CASE CloseClient
  <2>1. <<>> \in Seq(Cell) /\ <<>> \in Seq(Messages)
    OBVIOUS
  <2> QED
    BY <1>7, <2>1 DEF CloseClient, InputType
<1>8. CASE AcceptFails \/ Idle \/ UNCHANGED vars
  BY <1>8 DEF AcceptFails, Idle, InputType, vars, input
<1> QED
  BY <1>1, <1>2, <1>3, <1>4, <1>5, <1>6, <1>7, <1>8 DEF Next, main, clients

\* Taking what has been read leaves the counts right.
LEMMA TakeCounts ==
  ASSUME InputType, CountsType, UNCHANGED wire,
         NEW n \in Nat, n <= iTotal \/ rpos + n <= Len(wire), Take(n)
  PROVE  rpos' \in Nat /\ iTotal' \in Nat /\ rpos' + iTotal' <= Len(wire')
BY LenWire DEF CountsType, Take

\* Of the counters, the actions outside a session touch those they reset only.
LEMMA CountsNext ==
  ASSUME InputType, CountsType, [Next]_vars
  PROVE  CountsType'
<1> USE LenWire, Sizes DEF CountsType, Labels
<1>1. CASE Start \/ Accept
  BY <1>1 DEF Start, Accept, input
<1>2. CASE sendServerAccept \/ recvFails \/ sendKills
  BY <1>2 DEF sendServerAccept, recvFails, sendKills, input
<1>3. CASE recvFull
  BY <1>3 DEF recvFull, Receiving, Wanted, input
<1>4. CASE readSizeHeader
  <2>1. iPayloadSize' \in Int
    BY <1>4, ShownType DEF readSizeHeader
  <2>2. UNCHANGED wire /\ Take(HeaderSize) /\ HeaderSize <= iTotal
    BY <1>4 DEF readSizeHeader, input
  <2>3. rpos' \in Nat /\ iTotal' \in Nat /\ rpos' + iTotal' <= Len(wire')
    BY <2>2, TakeCounts
  <2>4. UNCHANGED iFileBody /\ pc' \in {"close", "body"}
    BY <1>4 DEF readSizeHeader
  <2>5. ASSUME pc' = "body" PROVE iPayloadSize' - HeaderSize >= 1
    <3>1. ~(iPayloadSize' - HeaderSize < 1)
      BY <1>4, <2>5 DEF readSizeHeader
    <3>2. \A s \in Int : s - HeaderSize < 1 \/ s - HeaderSize >= 1
      BY Sizes
    <3> QED
      BY <2>1, <3>1, <3>2
  <2> QED
    BY <2>1, <2>3, <2>4, <2>5
<1>5. CASE Courtesy \/ DataAccepted \/ DataRefused \/ Quit \/ Unknown
  <2>1. BodyRead /\ UNCHANGED <<wire, iPayloadSize, iFileBody>>
    BY <1>5 DEF Courtesy, DataAccepted, DataRefused, Quit, Unknown, Served, input
  <2>2. Take(iPayloadSize - HeaderSize) /\ pc' \in {"header", "dataHeader", "close"}
    BY <1>5 DEF Courtesy, DataAccepted, DataRefused, Quit, Unknown, Served
  <2>3. iPayloadSize - HeaderSize \in Nat /\ iPayloadSize - HeaderSize <= iTotal
    BY <2>1 DEF BodyRead
  <2>4. rpos' \in Nat /\ iTotal' \in Nat /\ rpos' + iTotal' <= Len(wire')
    BY <2>1, <2>2, <2>3, TakeCounts
  <2> QED
    BY <2>1, <2>2, <2>4
<1>6. CASE DataHeaderRead
  <2>1. PICK size \in Shown : DataHeader(size)
    BY <1>6 DEF DataHeaderRead
  <2>2. size \in Int
    BY <1>6, <2>1, ShownType DEF DataHeaderRead
  <2>3. UNCHANGED wire /\ Take(HeaderSize) /\ HeaderSize <= iTotal
    BY <1>6, <2>1 DEF DataHeaderRead, DataHeader, input
  <2>4. rpos' \in Nat /\ iTotal' \in Nat /\ rpos' + iTotal' <= Len(wire')
    BY <2>3, TakeCounts
  <2> QED
    BY <2>1, <2>2, <2>4 DEF DataHeader
<1>7. CASE DataHeaderFails
  <2>1. UNCHANGED wire /\ Take(iTotal)
    BY <1>7 DEF DataHeaderFails, DataHeader, input
  <2>2. rpos' \in Nat /\ iTotal' \in Nat /\ rpos' + iTotal' <= Len(wire')
    BY <2>1, TakeCounts
  <2> QED
    BY <1>7, <2>2 DEF DataHeaderFails, DataHeader
<1>8. CASE Drain
  <2>1. UNCHANGED wire /\ \E n \in Nat : (n <= iTotal \/ rpos + n <= Len(wire)) /\ Take(n)
    <3>1. CASE Take(iTotal)
      BY <1>8, <3>1 DEF Drain, input
    <3>2. CASE rpos + iTotal < Len(wire) /\ Take(iTotal + 1)
      BY <1>8, <3>2 DEF Drain, input
    <3> QED
      BY <1>8, <3>1, <3>2 DEF Drain
  <2>2. rpos' \in Nat /\ iTotal' \in Nat /\ rpos' + iTotal' <= Len(wire')
    BY <2>1, TakeCounts
  <2> QED
    BY <1>8, <2>2 DEF Drain
<1>9. CASE WriteFile
  BY <1>9 DEF WriteFile, input
<1>10. CASE CloseClient
  BY <1>10 DEF CloseClient
<1>11. ASSUME NEW c \in Clients, ClientConnects(c)
       PROVE  CountsType'
  BY <1>11 DEF ClientConnects, input
<1>12. ASSUME NEW m \in Messages, ClientSends(m)
       PROVE  CountsType'
  <2>1. Cells(m) \in Seq(Cell) /\ wire \in Seq(Cell)
    BY CellsType DEF InputType
  <2>2. Len(wire \o Cells(m)) \in Nat /\ Len(wire \o Cells(m)) >= Len(wire)
    BY <2>1
  <2> QED
    BY <1>12, <2>2 DEF ClientSends
<1>13. CASE ClientHangsUp \/ AcceptFails \/ Idle \/ UNCHANGED vars
  BY <1>13 DEF ClientHangsUp, AcceptFails, Idle, vars, input
<1> QED
  BY <1>1, <1>2, <1>3, <1>4, <1>5, <1>6, <1>7, <1>8, <1>9, <1>10, <1>11, <1>12, <1>13
     DEF Next, main, clients, handleClient

\* Replies are a finite sequence of codes.
LEMMA RepliesType ==
  ASSUME OutputType
  PROVE  replies \in Seq(Codes) /\ Len(replies) \in Nat
<1>1. replies \in Seq(Codes)
  BY DEF OutputType
<1> QED
  BY <1>1

\* One more answer.
LEMMA ReplyType ==
  ASSUME OutputType, NEW code \in Codes, sendReply(code)
  PROVE  replies' \in Seq(Codes)
BY RepliesType DEF sendReply

\* Answers are status codes, and files what fwrite was given.
LEMMA OutputNext ==
  ASSUME InputType, CountsType, OutputType, [Next]_vars
  PROVE  OutputType'
<1>1. CASE Courtesy \/ Quit
  <2>1. \E code \in Codes : sendReply(code)
    BY <1>1 DEF Courtesy, Quit, Served, Codes
  <2>2. replies' \in Seq(Codes)
    BY <2>1, ReplyType, RepliesType
  <2> QED
    BY <1>1, <2>2 DEF Courtesy, Quit, Served, OutputType
<1>2. CASE DataAccepted \/ DataRefused
  <2>1. \E code \in Codes : sendReply(code)
    BY <1>2 DEF DataAccepted, DataRefused, Served, Codes
  <2>2. replies' \in Seq(Codes)
    BY <2>1, ReplyType, RepliesType
  <2>3. cFilename' \in Names
    BY <1>2, NameType DEF DataAccepted, DataRefused
  <2> QED
    BY <1>2, <2>2, <2>3 DEF DataAccepted, DataRefused, Served, OutputType
<1>3. CASE sendServerAccept
  <2>1. replies' = replies \/ \E code \in Codes : sendReply(code)
    BY <1>3 DEF sendServerAccept, Codes
  <2>2. replies' \in Seq(Codes)
    BY <2>1, ReplyType, RepliesType
  <2> QED
    BY <1>3, <2>2 DEF sendServerAccept, OutputType
<1>4. Written => files' \in [Names -> [of : {"FILE object"}, size : Int] \cup {NoFile}]
  <2>1. [of |-> "FILE object", size |-> iFileBody] \in [of : {"FILE object"}, size : Int]
    BY DEF CountsType
  <2> QED
    BY <2>1 DEF Written, OutputType
<1>5. CASE WriteFile
  <2>1. \E code \in Codes : sendReply(code)
    BY <1>5 DEF WriteFile, Codes
  <2>2. replies' \in Seq(Codes)
    BY <2>1, ReplyType, RepliesType
  <2>3. files' = files \/ Written
    BY <1>5 DEF WriteFile
  <2> QED
    BY <1>4, <1>5, <2>2, <2>3 DEF WriteFile, OutputType
<1>6. CASE sendKills
  <2>1. files' = files \/ Written
    BY <1>6 DEF sendKills
  <2> QED
    BY <1>4, <1>6, <2>1 DEF sendKills, OutputType
<1>7. CASE CloseClient
  <2>1. <<>> \in Seq(Codes)
    OBVIOUS
  <2> QED
    BY <1>7, <2>1 DEF CloseClient, OutputType
<1>8. CASE clients \/ Start \/ Accept \/ AcceptFails \/ Idle \/ UNCHANGED vars
  BY <1>8 DEF clients, ClientConnects, ClientSends, ClientHangsUp, Start, Accept,
              AcceptFails, Idle, OutputType, vars
<1>9. CASE recvFull \/ recvFails \/ readSizeHeader \/ Unknown \/ DataHeaderRead
           \/ DataHeaderFails \/ Drain
  BY <1>9 DEF recvFull, recvFails, readSizeHeader, Unknown, DataHeaderRead,
              DataHeaderFails, DataHeader, Drain, OutputType
<1> QED
  BY <1>1, <1>2, <1>3, <1>5, <1>6, <1>7, <1>8, <1>9 DEF Next, main, handleClient

\* TypeOK holds in every reachable state: no read leaves the wire, no counter
\* its range, no answer the list of codes, no name the names that were sent.
THEOREM TypeCorrect == Spec => []TypeOK
<1>1. Init => TInv
  BY TypeInit
<1>2. TInv /\ [Next]_vars => TInv'
  BY QueueNext, InputNext, CountsNext, OutputNext DEF TInv
<1>3. TInv => TypeOK
  BY PartsAreTypes
<1> QED
  BY <1>1, <1>2, <1>3, PTL DEF Spec

(***************************************************************************)
(* Answers and files.                                                      *)
(***************************************************************************)
\* 221 is the last answer, and with it the session is over.
QuitCloses ==
  \A i \in 1..Len(replies) : replies[i] = "221" => i = Len(replies) /\ pc = "close"

\* A session that waits for the data of a file has an accepted name for it.
NamesChecked ==
  /\ pc \in {"dataHeader", "fileData", "write"} => isValidFilename(cFilename)
  /\ \A n \in Names : files[n] # NoFile => isValidFilename(n)

\* An answer that is sent before QUIT is not 221.
LEMMA ReplyKeepsQuit ==
  ASSUME OutputType, QuitCloses, pc # "close", NEW code \in Codes, sendReply(code),
         code = "221" => pc' = "close"
  PROVE  QuitCloses'
<1>1. replies \in Seq(Codes) /\ Len(replies) \in Nat
  BY RepliesType
<1>2. \A i \in 1..Len(replies) : replies[i] # "221"
  BY DEF QuitCloses
<1>3. Len(replies') = Len(replies) + 1 /\ replies'[Len(replies) + 1] = code
  BY <1>1 DEF sendReply
<1>4. \A i \in 1..Len(replies) : replies'[i] = replies[i]
  BY <1>1 DEF sendReply
<1> QED
  BY <1>1, <1>2, <1>3, <1>4 DEF QuitCloses

\* Every step keeps 221 the last answer.
LEMMA QuitNext ==
  ASSUME OutputType, QuitCloses, [Next]_vars
  PROVE  QuitCloses'
<1>1. CASE Courtesy \/ DataAccepted \/ DataRefused \/ Quit \/ WriteFile
  <2>1. pc # "close"
    BY <1>1 DEF Courtesy, DataAccepted, DataRefused, Quit, WriteFile, BodyRead
  <2>2. \E code \in Codes : sendReply(code) /\ (code = "221" => pc' = "close")
    BY <1>1 DEF Courtesy, DataAccepted, DataRefused, Quit, WriteFile, Served, Codes
  <2> QED
    BY <2>1, <2>2, ReplyKeepsQuit
<1>2. CASE sendServerAccept
  <2>1. CASE sendReply("220")
    <3>1. "220" \in Codes /\ pc # "close"
      BY <1>2 DEF sendServerAccept, Codes
    <3> QED
      BY <2>1, <3>1, ReplyKeepsQuit
  <2>2. CASE UNCHANGED replies
    BY <1>2, <2>2 DEF sendServerAccept, QuitCloses
  <2> QED
    BY <1>2, <2>1, <2>2 DEF sendServerAccept
<1>3. CASE CloseClient
  BY <1>3 DEF CloseClient, QuitCloses
<1>4. CASE clients \/ AcceptFails \/ Idle \/ UNCHANGED vars
  BY <1>4 DEF clients, ClientConnects, ClientSends, ClientHangsUp, AcceptFails,
              Idle, QuitCloses, vars
<1>5. CASE Start \/ Accept \/ recvFull \/ recvFails \/ readSizeHeader \/ Unknown
           \/ DataHeaderRead \/ DataHeaderFails \/ Drain \/ sendKills
  <2>1. UNCHANGED replies /\ (pc = "close" => UNCHANGED pc)
    BY <1>5 DEF Start, Accept, recvFull, recvFails, readSizeHeader, Unknown,
                DataHeaderRead, DataHeaderFails, DataHeader, Drain, sendKills,
                Receiving, Disconnected, BodyRead
  <2> QED
    BY <2>1 DEF QuitCloses
<1> QED
  BY <1>1, <1>2, <1>3, <1>4, <1>5 DEF Next, main, handleClient

\* NothingAfterQuit, whatever clients send and whatever fails.
THEOREM QuitIsLast == Spec => []NothingAfterQuit
<1>1. Init => TInv /\ QuitCloses
  BY TypeInit DEF Init, QuitCloses
<1>2. TInv /\ QuitCloses /\ [Next]_vars => (TInv /\ QuitCloses)'
  BY QueueNext, InputNext, CountsNext, OutputNext, QuitNext DEF TInv
<1>3. TInv /\ QuitCloses => NothingAfterQuit
  <2>1. ASSUME TInv PROVE Len(replies) \in Nat
    BY <2>1, RepliesType DEF TInv
  <2> QED
    BY <2>1 DEF QuitCloses, NothingAfterQuit
<1> QED
  BY <1>1, <1>2, <1>3, PTL DEF Spec

\* Every step keeps the names checked.
LEMMA NamesNext ==
  ASSUME OutputType, NamesChecked, [Next]_vars
  PROVE  NamesChecked'
<1>1. files' = files \/ (pc = "write" /\ Written)
  BY DEF Next, main, handleClient, clients, ClientConnects, ClientSends, ClientHangsUp,
         AcceptFails, Idle, vars, Start, Accept, sendServerAccept, recvFull, recvFails,
         readSizeHeader, Courtesy, DataAccepted, DataRefused, Quit, Unknown, Served,
         DataHeaderRead, DataHeaderFails, DataHeader, Drain, WriteFile, sendKills,
         CloseClient
<1>2. \A n \in Names : files'[n] # NoFile => isValidFilename(n)
  <2>1. CASE files' = files
    BY <2>1 DEF NamesChecked
  <2>2. CASE pc = "write" /\ Written
    BY <2>2 DEF NamesChecked, Written, OutputType
  <2> QED
    BY <1>1, <2>1, <2>2
<1>3. pc' \in {"dataHeader", "fileData", "write"} => isValidFilename(cFilename)'
  <2>1. CASE DataAccepted
    BY <2>1 DEF DataAccepted, isValidFilename, Chars
  <2>2. CASE DataRefused \/ CloseClient
    BY <2>2 DEF DataRefused, CloseClient, Served
  <2>3. CASE ~(DataAccepted \/ DataRefused \/ CloseClient)
    <3>1. UNCHANGED cFilename
      BY <2>3 DEF Next, main, handleClient, clients, ClientConnects, ClientSends,
         ClientHangsUp, AcceptFails, Idle, vars, Start, Accept, sendServerAccept,
         recvFull, recvFails, readSizeHeader, Courtesy, Quit, Unknown, Served,
         DataHeaderRead, DataHeaderFails, DataHeader, Drain, WriteFile, sendKills
    <3>2. pc' \in {"dataHeader", "fileData", "write"} =>
            pc \in {"dataHeader", "fileData", "write"}
      BY <2>3 DEF Next, main, handleClient, clients, ClientConnects, ClientSends,
         ClientHangsUp, AcceptFails, Idle, vars, Start, Accept, sendServerAccept,
         recvFull, recvFails, readSizeHeader, Courtesy, Quit, Unknown, Served,
         DataHeaderRead, DataHeaderFails, DataHeader, Drain, WriteFile, sendKills,
         Disconnected, Receiving
    <3> QED
      BY <3>1, <3>2 DEF NamesChecked, isValidFilename, Chars
  <2> QED
    BY <2>1, <2>2, <2>3
<1> QED
  BY <1>2, <1>3 DEF NamesChecked, isValidFilename, Chars

\* FilesStayInDirectory, whatever clients send and whatever fails.
THEOREM FilesInside == Spec => []FilesStayInDirectory
<1>1. Init => TInv /\ NamesChecked
  BY TypeInit DEF Init, NamesChecked
<1>2. TInv /\ NamesChecked /\ [Next]_vars => (TInv /\ NamesChecked)'
  BY QueueNext, InputNext, CountsNext, OutputNext, NamesNext DEF TInv
<1>3. NamesChecked => FilesStayInDirectory
  <2>1. ASSUME NEW n \in Names, isValidFilename(n)
        PROVE  n \notin {<<>>, <<".", ".">>} /\ "/" \notin Chars(n)
    <3>1. n # <<>> /\ "/" \notin Chars(n)
      BY <2>1 DEF isValidFilename
    <3>2. ASSUME n = <<".", ".">> PROVE FALSE
      <4>1. 1 \in 1..Len(n) - 1 /\ n[1] = "." /\ n[1 + 1] = "."
        BY <3>2
      <4> QED
        BY <2>1, <4>1 DEF isValidFilename
    <3> QED
      BY <3>1, <3>2
  <2> QED
    BY <2>1 DEF NamesChecked, FilesStayInDirectory
<1> QED
  BY <1>1, <1>2, <1>3, PTL DEF Spec

(***************************************************************************)
(* A client that waits for its answers.                                    *)
(***************************************************************************)
\* The last message, and how many bytes there are before it.
LastMsg == script[Len(script)]
Before  == Len(wire) - HeaderSize - LastMsg.len

\* The wire ends with the whole of the last message.
LastSent ==
  /\ script # <<>> /\ LastMsg \in WellFormed
  /\ Before >= 0
  /\ \A j \in 1..HeaderSize + LastMsg.len : wire[Before + j] = [msg |-> LastMsg, off |-> j - 1]

\* Everything is read and answered.
Quiet == Len(replies) = Len(script) + 1 /\ rpos = Len(wire) /\ iTotal = 0

\* The last message, a command or file data, has no answer yet.
Pending == Len(replies) = Len(script) /\ LastSent
CommandPending == Pending /\ LastMsg.cmd # "FILE"
FilePending    == Pending /\ LastMsg.cmd = "FILE"

\* The client is gone, and bytes of file data are all it may have left.
LeftBehind ==
  /\ cur \in hung
  /\ \A j \in rpos + 1..Len(wire) : wire[j].msg.cmd = "FILE"
Gone == LeftBehind /\ Len(replies) >= Len(script) + 1
Lost == LeftBehind /\ (Len(replies) >= Len(script) + 1 \/ FilePending)

\* Where each phase of a session stands.
Fresh ==
  pc \in {"start", "exit", "accept", "greet"} =>
    replies = <<>> /\ script = <<>> /\ wire = <<>> /\ rpos = 0 /\ iTotal = 0
AtHeader ==
  pc = "header" =>
    \/ Quiet /\ LastReply # "354"
    \/ CommandPending /\ rpos = Before
    \/ Gone
AtBody ==
  pc = "body" =>
    \/ CommandPending /\ rpos = Before + HeaderSize /\ iPayloadSize = LastMsg.size
    \/ Gone
AtDataHeader ==
  pc = "dataHeader" =>
    \/ Quiet /\ LastReply = "354"
    \/ FilePending /\ rpos = Before
AtFileData ==
  pc = "fileData" =>
    \/ FilePending /\ rpos = Before + HeaderSize /\ iFileBody = LastMsg.size
    \/ Lost
AtWrite ==
  pc = "write" => (FilePending /\ rpos = Len(wire) /\ iTotal = 0) \/ Lost

Phases == Fresh /\ AtHeader /\ AtBody /\ AtDataHeader /\ AtFileData /\ AtWrite

Waiting == ~pipelines => RepliesMatch /\ Phases

\* Nobody pipelines between two sessions.
Between == pc \in {"start", "exit", "accept"} => ~pipelines

\* Lengths are numbers.
LEMMA Lengths ==
  ASSUME InputType, OutputType
  PROVE  Len(wire) \in Nat /\ Len(script) \in Nat /\ Len(replies) \in Nat
<1>1. script \in Seq(Messages)
  BY DEF InputType
<1> QED
  BY <1>1, LenWire, RepliesType

\* What the last message is like.
LEMMA LastFacts ==
  ASSUME LastSent
  PROVE  /\ LastMsg \in Message /\ LastMsg.len \in Nat
         /\ LastMsg.cmd = "FILE" => LastMsg.size = LastMsg.len
         /\ LastMsg.cmd # "FILE" =>
              /\ LastMsg.cmd # "EHLO" /\ LastMsg.len >= 1
              /\ LastMsg.size = HeaderSize + LastMsg.len
<1>1. LastMsg \in WellFormed /\ LastMsg \in Message
  BY ConstantsAssumption DEF LastSent
<1> QED
  BY <1>1, WellFormedAssumption DEF Message

\* The bytes of the last message.
LEMMA LastCells ==
  ASSUME LastSent, NEW j \in 1..HeaderSize + LastMsg.len
  PROVE  wire[Before + j] = [msg |-> LastMsg, off |-> j - 1]
BY DEF LastSent

\* A header that begins where the last message does shows its size.
LEMMA LastShown ==
  ASSUME LastSent, rpos = Before
  PROVE  Shown = {LastMsg.size}
<1>1. LastMsg.len \in Nat
  BY LastFacts
<1>2. \A k \in 1..HeaderSize : wire[rpos + k] = [msg |-> LastMsg, off |-> k - 1]
  BY <1>1, LastCells, Sizes
<1>3. wire[rpos + 1].msg = LastMsg
  <2>1. 1 \in 1..HeaderSize
    BY Sizes
  <2>2. wire[rpos + 1] = [msg |-> LastMsg, off |-> 1 - 1]
    BY <1>2, <2>1
  <2> QED
    BY <2>2
<1> QED
  BY <1>2, <1>3 DEF Shown

\* A body that begins where that of the last message does is its command.
LEMMA LastBody ==
  ASSUME LastSent, rpos = Before + HeaderSize, LastMsg.len >= 1, Before \in Int
  PROVE  Body.msg = LastMsg /\ Command = LastMsg.cmd
<1>1. HeaderSize + 1 \in 1..HeaderSize + LastMsg.len
  BY LastFacts, Sizes
<1>2. wire[Before + (HeaderSize + 1)] = [msg |-> LastMsg, off |-> (HeaderSize + 1) - 1]
  BY <1>1, LastCells
<1>3. rpos + 1 = Before + (HeaderSize + 1) /\ (HeaderSize + 1) - 1 = HeaderSize
  BY Sizes
<1> QED
  BY <1>2, <1>3 DEF Body, Command

\* An answer to the last message keeps the answers matched.
LEMMA AnswerMatches ==
  ASSUME InputType, OutputType, RepliesMatch, UNCHANGED <<script, cur, hung>>,
         NEW code \in Codes, sendReply(code),
         Len(replies) >= Len(script),
         Len(replies) = Len(script) \/ cur \in hung,
         Len(replies) = Len(script) /\ script # <<>> => code \in Answer(LastMsg)
  PROVE  RepliesMatch' /\ Len(replies') = Len(replies) + 1 /\ LastReply' = code
<1>1. replies \in Seq(Codes) /\ Len(replies) \in Nat /\ Len(script) \in Nat
  BY RepliesType, Lengths
<1>2. Len(replies') = Len(replies) + 1 /\ replies'[Len(replies) + 1] = code
  BY <1>1 DEF sendReply
<1>3. \A i \in 1..Len(replies) : replies'[i] = replies[i]
  BY <1>1 DEF sendReply
<1>4. LastReply' = code
  <2>1. replies' # <<>>
    BY <1>1, <1>2
  <2> QED
    BY <1>2, <2>1 DEF LastReply
<1>5. ASSUME NEW i \in 1..Len(replies), i <= Len(script)
      PROVE  replies'[i + 1] \in Answer(script[i])
  <2>1. CASE i = Len(replies)
    <3>1. i = Len(script) /\ Len(replies) = Len(script) /\ script # <<>>
      BY <1>1, <1>5, <2>1
    <3> QED
      BY <1>2, <2>1, <3>1 DEF LastMsg
  <2>2. CASE i # Len(replies)
    <3>1. i \in 1..Len(replies) - 1 /\ i + 1 \in 1..Len(replies)
      BY <1>1, <2>2
    <3>2. replies[i + 1] \in Answer(script[i])
      BY <1>5, <3>1 DEF RepliesMatch
    <3> QED
      BY <1>3, <3>1, <3>2
  <2> QED
    BY <2>1, <2>2
<1>6. Len(replies') - 1 = Len(replies)
  BY <1>1, <1>2
<1>7. cur \in Clients \ hung => Len(replies') <= 1 + Len(script)
  BY <1>1, <1>2
<1>8. \A i \in 1..Len(replies') - 1 :
        i <= Len(script') => replies'[i + 1] \in Answer(script'[i])
  BY <1>5, <1>6
<1>9. RepliesMatch'
  BY <1>7, <1>8 DEF RepliesMatch
<1> QED
  BY <1>2, <1>4, <1>9

\* More clients may have hung up, or nothing has changed.
LEMMA PhasesStay ==
  ASSUME Waiting, hung \subseteq hung',
         UNCHANGED <<pc, pipelines, wire, script, rpos, iTotal, iPayloadSize, iFileBody,
                     replies, cur>>
  PROVE  Waiting'
<1>1. Before' = Before /\ LastMsg' = LastMsg /\ LastReply' = LastReply
  BY DEF Before, LastMsg, LastReply
<1>2. LastSent' = LastSent /\ Quiet' = Quiet
  BY <1>1 DEF LastSent, Quiet
<1>3. Pending' = Pending /\ CommandPending' = CommandPending /\ FilePending' = FilePending
  BY <1>1, <1>2 DEF Pending, CommandPending, FilePending
<1>4. (Gone => Gone') /\ (Lost => Lost')
  BY <1>3 DEF Gone, Lost, LeftBehind
<1>5. Phases => Phases'
  BY <1>1, <1>2, <1>3, <1>4 DEF Phases, Fresh, AtHeader, AtBody, AtDataHeader, AtFileData, AtWrite
<1>6. RepliesMatch => RepliesMatch'
  <2>1. SUFFICES ASSUME RepliesMatch PROVE RepliesMatch'
    OBVIOUS
  <2>2. \A i \in 1..Len(replies') - 1 :
          i <= Len(script') => replies'[i + 1] \in Answer(script'[i])
    BY <2>1 DEF RepliesMatch
  <2>3. cur' \in Clients \ hung' => Len(replies') <= 1 + Len(script')
    BY <2>1 DEF RepliesMatch
  <2> QED
    BY <2>2, <2>3 DEF RepliesMatch
<1> QED
  BY <1>5, <1>6 DEF Waiting

\* While nothing is answered and nobody leaves, the answers stay matched.
LEMMA MatchStays ==
  ASSUME RepliesMatch, UNCHANGED <<replies, script, cur, hung>>
  PROVE  RepliesMatch'
<1>1. \A i \in 1..Len(replies') - 1 :
        i <= Len(script') => replies'[i + 1] \in Answer(script'[i])
  BY DEF RepliesMatch
<1>2. cur' \in Clients \ hung' => Len(replies') <= 1 + Len(script')
  BY DEF RepliesMatch
<1> QED
  BY <1>1, <1>2 DEF RepliesMatch

\* What was sent stays what it is while nothing more is.
LEMMA SentStays ==
  ASSUME UNCHANGED <<wire, script>>
  PROVE  LastSent' = LastSent /\ Before' = Before /\ LastMsg' = LastMsg
<1>1. Before' = Before /\ LastMsg' = LastMsg
  BY DEF Before, LastMsg
<1> QED
  BY <1>1 DEF LastSent

\* What a client has left behind gets less.
LEMMA LeftStays ==
  ASSUME InputType, CountsType, LeftBehind, UNCHANGED <<wire, cur, hung>>,
         rpos' \in Nat, rpos' >= rpos
  PROVE  LeftBehind'
<1>1. Len(wire') = Len(wire) /\ Len(wire) \in Nat /\ rpos \in Nat
  BY LenWire DEF CountsType
<1>2. \A a, b, n \in Nat : b >= a => \A j \in b + 1..n : j \in a + 1..n
  OBVIOUS
<1>3. \A j \in rpos' + 1..Len(wire') : j \in rpos + 1..Len(wire)
  BY <1>1, <1>2
<1> QED
  BY <1>3 DEF LeftBehind

\* A message of a client that waits: a command where one is expected, data
\* after 354.
LEMMA SendsWaiting ==
  ASSUME TInv, Waiting, ~pipelines, NEW m \in Messages, ClientSends(m)
  PROVE  Waiting'
<1> USE DEF TInv
<1>1. /\ m \in WellFormed /\ Len(replies) = 1 + Len(script)
      /\ m.cmd = "FILE" <=> LastReply = "354"
  BY DEF ClientSends, Answered
<1>2. m.len \in Nat /\ HeaderSize + m.len \in Nat
  BY Sizes, ConstantsAssumption DEF Message
<1>3. Cells(m) \in Seq(Cell) /\ Len(Cells(m)) = HeaderSize + m.len
  BY <1>2, CellsType DEF Cells
<1>4. wire \in Seq(Cell) /\ script \in Seq(Messages) /\ Len(wire) \in Nat /\ Len(script) \in Nat
  BY Lengths DEF InputType
<1>5. Len(wire') = Len(wire) + HeaderSize + m.len
  <2>1. Len(wire \o Cells(m)) = Len(wire) + Len(Cells(m))
    BY <1>3, <1>4
  <2>2. wire' = wire \o Cells(m)
    BY DEF ClientSends
  <2> QED
    BY <1>2, <1>3, <1>4, <2>1, <2>2, Sizes
<1>6. \A j \in 1..HeaderSize + m.len : wire'[Len(wire) + j] = [msg |-> m, off |-> j - 1]
  <2>1. SUFFICES ASSUME NEW j \in 1..HeaderSize + m.len
                 PROVE  (wire \o Cells(m))[Len(wire) + j] = [msg |-> m, off |-> j - 1]
    BY DEF ClientSends
  <2>2. (wire \o Cells(m))[Len(wire) + j] = Cells(m)[j]
    BY <1>2, <1>3, <1>4
  <2> QED
    BY <2>2 DEF Cells
<1>7. Len(script') = Len(script) + 1 /\ script'[Len(script) + 1] = m
      /\ \A i \in 1..Len(script) : script'[i] = script[i]
  BY <1>4 DEF ClientSends
<1>8. script' # <<>> /\ LastMsg' = m
  BY <1>4, <1>7 DEF LastMsg
<1>9. Before' = Len(wire)
  BY <1>2, <1>4, <1>5, <1>8, Sizes DEF Before
<1>10. LastSent'
  BY <1>1, <1>4, <1>6, <1>8, <1>9 DEF LastSent
<1>11. Pending' /\ UNCHANGED <<pc, rpos, replies, cur, hung, pipelines>>
  BY <1>1, <1>7, <1>10 DEF ClientSends, Pending, queue
<1>12. RepliesMatch'
  <2>1. ASSUME NEW i \in 1..Len(replies) - 1
        PROVE  replies[i + 1] \in Answer(script'[i])
    <3>1. i \in 1..Len(script)
      BY <1>1, <1>4
    <3>2. replies[i + 1] \in Answer(script[i])
      BY <3>1 DEF RepliesMatch, Waiting
    <3> QED
      BY <1>7, <3>1, <3>2
  <2>2. \A i \in 1..Len(replies') - 1 :
          i <= Len(script') => replies'[i + 1] \in Answer(script'[i])
    BY <1>11, <2>1
  <2>3. cur' \in Clients \ hung' => Len(replies') <= 1 + Len(script')
    BY <1>1, <1>4, <1>7, <1>11
  <2> QED
    BY <2>2, <2>3 DEF RepliesMatch
<1>13. replies # <<>> /\ Len(replies) # Len(script) /\ cur \notin hung
  BY <1>1, <1>4 DEF ClientSends
<1>15. /\ pc \notin {"start", "exit", "accept", "greet", "body", "fileData", "write"}
       /\ pc = "header" => Quiet /\ LastReply # "354"
       /\ pc = "dataHeader" => Quiet /\ LastReply = "354"
  BY <1>13 DEF Waiting, Phases, Fresh, AtHeader, AtBody, AtDataHeader, AtFileData, AtWrite,
        CommandPending, FilePending, Pending, Gone, Lost, LeftBehind
<1>16. Phases'
  <2>1. pc = "header" => CommandPending' /\ rpos' = Before'
    BY <1>1, <1>8, <1>9, <1>11, <1>15 DEF CommandPending, Quiet
  <2>2. pc = "dataHeader" => FilePending' /\ rpos' = Before'
    BY <1>1, <1>8, <1>9, <1>11, <1>15 DEF FilePending, Quiet
  <2> QED
    BY <1>11, <1>15, <2>1, <2>2 DEF Phases, Fresh, AtHeader, AtBody, AtDataHeader, AtFileData, AtWrite
<1> QED
  BY <1>12, <1>16 DEF Waiting

\* A reply to the command that is pending: everything is answered.
LEMMA CommandAnswered ==
  ASSUME TInv, Waiting, ~pipelines, BodyRead, Command # "none", ~Gone,
         NEW code \in Codes, NEW next \in {"header", "dataHeader", "close"},
         Served(code, next), code \in Answer(Body.msg),
         next = "header" => code # "354",
         next = "dataHeader" => code = "354"
  PROVE  Waiting'
<1> USE DEF TInv
<1>1. CommandPending /\ rpos = Before + HeaderSize /\ iPayloadSize = LastMsg.size
  BY DEF Waiting, Phases, AtBody, BodyRead
<1>2. LastSent /\ LastMsg.cmd # "FILE" /\ Len(replies) = Len(script)
  BY <1>1 DEF CommandPending, Pending
<1>3. LastMsg.len \in Nat /\ LastMsg.len >= 1 /\ LastMsg.size = HeaderSize + LastMsg.len
  BY <1>2, LastFacts
<1>4. Len(wire) \in Nat /\ Len(script) \in Nat /\ Before \in Int
  BY <1>3, Lengths, Sizes DEF Before
<1>5. Body.msg = LastMsg
  BY <1>1, <1>2, <1>3, <1>4, LastBody
<1>6. sendReply(code) /\ UNCHANGED <<script, cur, hung, wire, pipelines>> /\ pc' = next
      /\ Take(iPayloadSize - HeaderSize)
  BY DEF Served, queue, input
<1>7. RepliesMatch' /\ Len(replies') = Len(replies) + 1 /\ LastReply' = code
  BY <1>2, <1>4, <1>5, <1>6, AnswerMatches DEF Waiting
<1>8. rpos' = Len(wire) /\ iTotal' = 0
  <2>1. rpos' = Before + HeaderSize + (LastMsg.size - HeaderSize) /\ iTotal' = 0
    BY <1>1, <1>6 DEF Take
  <2> QED
    BY <1>3, <1>4, <2>1, Sizes DEF Before
<1>9. Quiet'
  BY <1>2, <1>6, <1>7, <1>8 DEF Quiet
<1>10. Phases'
  BY <1>6, <1>7, <1>9 DEF Phases, Fresh, AtHeader, AtBody, AtDataHeader, AtFileData, AtWrite
<1> QED
  BY <1>7, <1>10 DEF Waiting

\* A client that is gone has left no command behind.
LEMMA NoCommandLeft ==
  ASSUME InputType, CountsType, LeftBehind, BodyRead
  PROVE  Command \in {"FILE", "none"}
<1>1. rpos + 1 \in rpos + 1..Len(wire)
  BY LenWire, Sizes DEF CountsType, BodyRead
<1>2. Body.msg.cmd = "FILE"
  BY <1>1 DEF LeftBehind, Body
<1> QED
  BY <1>2 DEF Command

\* The body of a command and its answer.
LEMMA BodyWaiting ==
  ASSUME TInv, Waiting, ~pipelines,
         Courtesy \/ DataAccepted \/ DataRefused \/ Quit \/ Unknown
  PROVE  Waiting'
<1> USE DEF TInv
<1>1. BodyRead
  BY DEF Courtesy, DataAccepted, DataRefused, Quit, Unknown
<1>2. CASE Gone
  <2>1. Command \in {"FILE", "none"}
    BY <1>1, <1>2, NoCommandLeft DEF Gone
  <2>2. Unknown
    BY <2>1 DEF Courtesy, DataAccepted, DataRefused, Quit
  <2>3. UNCHANGED <<replies, script, cur, hung, wire, pipelines>> /\ pc' = "header"
        /\ rpos' = rpos + (iPayloadSize - HeaderSize)
    BY <2>2 DEF Unknown, Take, queue, input
  <2>4. rpos' \in Nat /\ rpos' >= rpos
    BY <1>1, <2>3, Sizes DEF CountsType, BodyRead
  <2>5. Gone'
    BY <1>2, <2>3, <2>4, LeftStays DEF Gone
  <2>6. RepliesMatch'
    BY <2>3, MatchStays DEF Waiting
  <2> QED
    BY <2>3, <2>5, <2>6
       DEF Waiting, Phases, Fresh, AtHeader, AtBody, AtDataHeader, AtFileData, AtWrite
<1>3. CASE ~Gone
  <2>1. CommandPending /\ rpos = Before + HeaderSize
    BY <1>1, <1>3 DEF Waiting, Phases, AtBody, BodyRead
  <2>2. LastSent /\ LastMsg.cmd # "FILE" /\ LastMsg \in Message
    BY <2>1, LastFacts DEF CommandPending, Pending
  <2>3. LastMsg.len >= 1 /\ LastMsg.cmd # "EHLO" /\ LastMsg.len \in Nat
    BY <2>2, LastFacts
  <2>4. Before \in Int
    BY <2>3, Lengths, Sizes DEF Before
  <2>5. Body.msg = LastMsg /\ Command = LastMsg.cmd
    BY <2>1, <2>2, <2>3, <2>4, LastBody
  <2>6. Command \in {"HELO", "MAIL", "RCPT", "DATA", "QUIT"}
    BY <2>2, <2>3, <2>5 DEF Message
  <2>7. CASE Courtesy
    <3>1. "250" \in Answer(Body.msg)
      BY <2>5, <2>7 DEF Courtesy, Answer
    <3> QED
      BY <1>1, <1>3, <2>6, <2>7, <3>1, CommandAnswered DEF Courtesy, Codes
  <2>8. CASE DataAccepted
    <3>1. isValidFilename(Body.msg.name)
      BY <2>8 DEF DataAccepted, isValidFilename, Chars
    <3>2. "354" \in Answer(Body.msg)
      BY <2>5, <2>8, <3>1 DEF DataAccepted, Answer
    <3> QED
      BY <1>1, <1>3, <2>6, <2>8, <3>2, CommandAnswered DEF DataAccepted, Codes
  <2>9. CASE DataRefused
    <3>1. ~isValidFilename(Body.msg.name)
      BY <2>9 DEF DataRefused, isValidFilename, Chars
    <3>2. "501" \in Answer(Body.msg)
      BY <2>5, <2>9, <3>1 DEF DataRefused, Answer
    <3> QED
      BY <1>1, <1>3, <2>6, <2>9, <3>2, CommandAnswered DEF DataRefused, Codes
  <2>10. CASE Quit
    <3>1. "221" \in Answer(Body.msg)
      BY <2>5, <2>10 DEF Quit, Answer
    <3> QED
      BY <1>1, <1>3, <2>6, <2>10, <3>1, CommandAnswered DEF Quit, Codes
  <2>11. CASE Unknown
    BY <2>6, <2>11 DEF Unknown
  <2> QED
    BY <2>7, <2>8, <2>9, <2>10, <2>11
<1> QED
  BY <1>2, <1>3

\* A header, of a command or of file data.
LEMMA HeaderWaiting ==
  ASSUME TInv, Waiting, ~pipelines, readSizeHeader \/ DataHeaderRead \/ DataHeaderFails
  PROVE  Waiting'
<1> USE DEF TInv
<1>1. /\ UNCHANGED <<replies, script, cur, hung, wire, pipelines>>
      /\ Take(HeaderSize) \/ Take(iTotal)
  BY DEF readSizeHeader, DataHeaderRead, DataHeaderFails, DataHeader, Disconnected, queue, input
<1>2. RepliesMatch'
  BY <1>1, MatchStays DEF Waiting
<1>3. LastSent' = LastSent /\ Before' = Before /\ LastMsg' = LastMsg
  BY <1>1, SentStays
<1>4. rpos' \in Nat /\ rpos' >= rpos
  BY <1>1, Sizes DEF Take, CountsType
<1>5. LeftBehind => LeftBehind'
  BY <1>1, <1>4, LeftStays
<1>6. CASE readSizeHeader
  <2>1. pc = "header" /\ iTotal >= 1 /\ iPayloadSize' \in Shown /\ pc' \in {"close", "body"}
    BY <1>6, Sizes DEF readSizeHeader
  <2>2. CASE Gone
    <3>1. Gone'
      BY <1>1, <1>5, <2>2 DEF Gone
    <3> QED
      BY <1>2, <2>1, <3>1
         DEF Waiting, Phases, Fresh, AtHeader, AtBody, AtDataHeader, AtFileData, AtWrite
  <2>3. CASE ~Gone
    <3>1. CommandPending /\ rpos = Before
      BY <2>1, <2>3 DEF Waiting, Phases, AtHeader, Quiet
    <3>2. iPayloadSize' = LastMsg.size
      BY <2>1, <3>1, LastShown DEF CommandPending, Pending
    <3>3. rpos' = Before + HeaderSize
      BY <1>6, <3>1 DEF readSizeHeader, Take
    <3>4. CommandPending'
      BY <1>1, <1>3, <3>1 DEF CommandPending, Pending
    <3> QED
      BY <1>2, <1>3, <2>1, <3>2, <3>3, <3>4
         DEF Waiting, Phases, Fresh, AtHeader, AtBody, AtDataHeader, AtFileData, AtWrite
  <2> QED
    BY <2>2, <2>3
<1>7. CASE DataHeaderRead
  <2>1. pc = "dataHeader" /\ iTotal >= 1
    BY <1>7, Sizes DEF DataHeaderRead
  <2>2. FilePending /\ rpos = Before
    BY <2>1 DEF Waiting, Phases, AtDataHeader, Quiet
  <2>3. DataHeader(LastMsg.size)
    BY <1>7, <2>2, LastShown DEF DataHeaderRead, FilePending, Pending
  <2>4. iFileBody' = LastMsg.size /\ pc' \in {"fileData", "close"}
    BY <2>3 DEF DataHeader
  <2>5. rpos' = Before + HeaderSize
    BY <1>7, <2>2 DEF DataHeaderRead, Take
  <2>6. FilePending'
    BY <1>1, <1>3, <2>2 DEF FilePending, Pending
  <2> QED
    BY <1>2, <1>3, <2>4, <2>5, <2>6
       DEF Waiting, Phases, Fresh, AtHeader, AtBody, AtDataHeader, AtFileData, AtWrite
<1>8. CASE DataHeaderFails
  <2>1. pc = "dataHeader" /\ cur \in hung /\ pc' \in {"fileData", "close"}
        /\ rpos' = rpos + iTotal
    BY <1>8 DEF DataHeaderFails, DataHeader, Disconnected, Take
  <2>2. CASE Quiet
    <3>1. rpos' = Len(wire) /\ Len(wire) \in Nat /\ Len(wire') = Len(wire)
      BY <1>1, <2>1, <2>2, LenWire DEF Quiet, CountsType
    <3>2. LeftBehind'
      BY <1>1, <2>1, <3>1 DEF LeftBehind
    <3>3. Lost'
      BY <1>1, <2>2, <3>2, Lengths DEF Lost, Quiet
    <3> QED
      BY <1>2, <2>1, <3>3
         DEF Waiting, Phases, Fresh, AtHeader, AtBody, AtDataHeader, AtFileData, AtWrite
  <2>3. CASE FilePending /\ rpos = Before
    <3>1. LastSent /\ LastMsg.cmd = "FILE" /\ LastMsg.len \in Nat
      BY <2>3, LastFacts DEF FilePending, Pending
    <3>2. Len(wire) \in Nat /\ Before \in Int /\ Len(wire) = Before + (HeaderSize + LastMsg.len)
      BY <3>1, LenWire, Sizes DEF Before
    <3>3. ASSUME NEW j \in Before + 1..Len(wire)
          PROVE  wire[j].msg.cmd = "FILE"
      <4>1. j - Before \in 1..HeaderSize + LastMsg.len /\ Before + (j - Before) = j
        BY <3>1, <3>2, Sizes
      <4>2. wire[Before + (j - Before)] = [msg |-> LastMsg, off |-> (j - Before) - 1]
        BY <3>1, <4>1, LastCells
      <4>3. wire[j].msg = LastMsg
        BY <4>1, <4>2
      <4> QED
        BY <3>1, <4>3
    <3>4. LeftBehind
      BY <2>1, <2>3, <3>3 DEF LeftBehind
    <3>5. FilePending'
      BY <1>1, <1>3, <2>3 DEF FilePending, Pending
    <3>6. Lost'
      BY <1>5, <3>4, <3>5 DEF Lost
    <3> QED
      BY <1>2, <2>1, <3>6
         DEF Waiting, Phases, Fresh, AtHeader, AtBody, AtDataHeader, AtFileData, AtWrite
  <2> QED
    BY <2>1, <2>2, <2>3 DEF Waiting, Phases, AtDataHeader
<1> QED
  BY <1>6, <1>7, <1>8

\* File data: read, drained, written and answered.
LEMMA FileWaiting ==
  ASSUME TInv, Waiting, ~pipelines, Drain \/ WriteFile
  PROVE  Waiting'
<1> USE DEF TInv
<1>1. UNCHANGED <<script, cur, hung, wire, pipelines>>
  BY DEF Drain, WriteFile, queue, input
<1>2. LastSent' = LastSent /\ Before' = Before /\ LastMsg' = LastMsg
  BY <1>1, SentStays
<1>3. CASE Drain
  <2>1. /\ pc = "fileData" /\ pc' = "write" /\ UNCHANGED replies
        /\ iTotal >= iFileBody /\ iTotal' = 0
        /\ rpos' = rpos + iTotal \/ (rpos + iTotal < Len(wire) /\ rpos' = rpos + (iTotal + 1))
    BY <1>3 DEF Drain, Take
  <2>2. RepliesMatch'
    BY <1>1, <2>1, MatchStays DEF Waiting
  <2>3. CASE Lost
    <3>1. rpos' \in Nat /\ rpos' >= rpos
      BY <2>1 DEF CountsType
    <3>2. LeftBehind'
      BY <1>1, <2>3, <3>1, LeftStays DEF Lost
    <3>3. FilePending' = FilePending
      BY <1>1, <1>2, <2>1 DEF FilePending, Pending
    <3>4. Lost'
      BY <1>1, <2>1, <2>3, <3>2, <3>3 DEF Lost
    <3> QED
      BY <2>1, <2>2, <3>4
         DEF Waiting, Phases, Fresh, AtHeader, AtBody, AtDataHeader, AtFileData, AtWrite
  <2>4. CASE ~Lost
    <3>1. FilePending /\ rpos = Before + HeaderSize /\ iFileBody = LastMsg.size
      BY <2>1, <2>4 DEF Waiting, Phases, AtFileData
    <3>2. LastMsg.len \in Nat /\ LastMsg.size = LastMsg.len
      BY <3>1, LastFacts DEF FilePending, Pending
    <3>3. Len(wire) \in Nat /\ Before \in Int /\ Len(wire) = Before + HeaderSize + LastMsg.len
      BY <3>2, LenWire, Sizes DEF Before
    <3>4. iTotal \in Nat /\ rpos + iTotal <= Len(wire)
      BY DEF CountsType
    <3>5. iTotal = LastMsg.len
      BY <2>1, <3>1, <3>2, <3>3, <3>4, Sizes
    <3>6. rpos' = Len(wire')
      BY <1>1, <2>1, <3>1, <3>2, <3>3, <3>5, Sizes
    <3>7. FilePending'
      BY <1>1, <1>2, <2>1, <3>1 DEF FilePending, Pending
    <3> QED
      BY <2>1, <2>2, <3>6, <3>7
         DEF Waiting, Phases, Fresh, AtHeader, AtBody, AtDataHeader, AtFileData, AtWrite
  <2> QED
    BY <2>3, <2>4
<1>4. CASE WriteFile
  <2>1. /\ pc = "write" /\ pc' = "header" /\ UNCHANGED <<rpos, iTotal>>
        /\ \E code \in {"250", "501"} : sendReply(code)
    BY <1>4 DEF WriteFile
  <2>2. (FilePending /\ rpos = Len(wire) /\ iTotal = 0) \/ Lost
    BY <2>1 DEF Waiting, Phases, AtWrite
  <2>3. PICK code \in {"250", "501"} : sendReply(code)
    BY <2>1
  <2>4. FilePending => Len(replies) = Len(script) /\ code \in Answer(LastMsg)
    BY <2>3 DEF FilePending, Pending, Answer
  <2>5. Len(script) \in Nat /\ Len(replies) \in Nat
    BY Lengths
  <2>6. Len(replies) >= Len(script) /\ (Len(replies) = Len(script) \/ cur \in hung)
    BY <2>2, <2>4, <2>5 DEF Lost, LeftBehind
  <2>7. Len(replies) = Len(script) => code \in Answer(LastMsg)
    BY <2>2, <2>4, <2>5 DEF Lost
  <2>8. RepliesMatch' /\ Len(replies') = Len(replies) + 1 /\ LastReply' = code
    BY <1>1, <2>3, <2>6, <2>7, AnswerMatches DEF Waiting, Codes
  <2>9. CASE FilePending /\ rpos = Len(wire) /\ iTotal = 0
    <3>1. Quiet' /\ LastReply' # "354"
      BY <1>1, <2>1, <2>3, <2>4, <2>5, <2>8, <2>9 DEF Quiet
    <3> QED
      BY <2>1, <2>8, <3>1
         DEF Waiting, Phases, Fresh, AtHeader, AtBody, AtDataHeader, AtFileData, AtWrite
  <2>10. CASE Lost
    <3>1. LeftBehind'
      BY <1>1, <2>1, <2>10 DEF Lost, LeftBehind
    <3>2. Gone'
      BY <1>1, <2>5, <2>6, <2>8, <3>1 DEF Gone
    <3> QED
      BY <2>1, <2>8, <3>2
         DEF Waiting, Phases, Fresh, AtHeader, AtBody, AtDataHeader, AtFileData, AtWrite
  <2> QED
    BY <2>2, <2>9, <2>10
<1> QED
  BY <1>3, <1>4

\* Every step keeps a client that waits and the server in step.
LEMMA WaitingNext ==
  ASSUME TInv, Between, Waiting, [Next]_vars
  PROVE  Between' /\ Waiting'
<1> USE DEF TInv
<1>1. CASE Accept
  <2>1. replies' = <<>> /\ script' = <<>> /\ wire' = <<>> /\ rpos' = 0 /\ iTotal' = 0
        /\ pc' = "greet"
    BY <1>1 DEF Accept, Between, Waiting, Phases, Fresh
  <2>2. RepliesMatch'
    BY <2>1 DEF RepliesMatch
  <2> QED
    BY <2>1, <2>2 DEF Between, Waiting, Phases, Fresh, AtHeader, AtBody, AtDataHeader,
                      AtFileData, AtWrite
<1>2. CASE CloseClient
  <2>1. replies' = <<>> /\ script' = <<>> /\ wire' = <<>> /\ rpos' = 0 /\ iTotal' = 0
        /\ pc' = "accept" /\ ~pipelines'
    BY <1>2 DEF CloseClient
  <2>2. RepliesMatch'
    BY <2>1 DEF RepliesMatch
  <2> QED
    BY <2>1, <2>2 DEF Between, Waiting, Phases, Fresh, AtHeader, AtBody, AtDataHeader,
                      AtFileData, AtWrite
<1>3. CASE Start
  <2>1. UNCHANGED <<replies, script, cur, hung, wire, pipelines, rpos, iTotal>>
        /\ pc = "start" /\ pc' \in {"accept", "exit"}
    BY <1>3 DEF Start, input
  <2>2. Waiting => (~pipelines => RepliesMatch')
    BY <2>1, MatchStays DEF Waiting
  <2> QED
    BY <2>1, <2>2 DEF Between, Waiting, Phases, Fresh, AtHeader, AtBody, AtDataHeader,
                      AtFileData, AtWrite
<1>4. CASE ClientHangsUp \/ AcceptFails \/ Idle \/ UNCHANGED vars
           \/ \E c \in Clients : ClientConnects(c)
  <2>1. /\ hung \subseteq hung'
        /\ UNCHANGED <<pc, pipelines, wire, script, rpos, iTotal, iPayloadSize, iFileBody,
                       replies, cur>>
    BY <1>4 DEF ClientHangsUp, ClientConnects, AcceptFails, Idle, vars, queue, input
  <2> QED
    BY <2>1, PhasesStay DEF Between
<1>5. ASSUME NEW m \in Messages, ClientSends(m)
      PROVE  Between' /\ Waiting'
  <2>1. UNCHANGED <<pc, pipelines>>
    BY <1>5 DEF ClientSends
  <2> QED
    BY <1>5, <2>1, SendsWaiting DEF Between, Waiting
<1>6. CASE handleClient
  <2>1. UNCHANGED <<cur, hung, wire, script, pipelines>>
    BY <1>6, SessionKeeps DEF queue, input
  <2>2. Between'
    BY <1>6, <2>1 DEF Between, handleClient, sendServerAccept, recvFull, recvFails,
         readSizeHeader, Courtesy, DataAccepted, DataRefused, Quit, Unknown, DataHeaderRead,
         DataHeaderFails, DataHeader, Drain, WriteFile, sendKills, Served, Receiving,
         Disconnected, BodyRead
  <2> SUFFICES ASSUME ~pipelines PROVE Waiting'
    BY <2>1, <2>2 DEF Waiting
  <2>3. CASE sendServerAccept
    <3>1. replies = <<>> /\ script = <<>> /\ wire = <<>> /\ rpos = 0 /\ iTotal = 0
      BY <2>3 DEF sendServerAccept, Waiting, Phases, Fresh
    <3>2. CASE pc' = "close" /\ UNCHANGED replies
      BY <2>1, <3>2, MatchStays
         DEF Waiting, Phases, Fresh, AtHeader, AtBody, AtDataHeader, AtFileData, AtWrite
    <3>3. CASE sendReply("220") /\ pc' = "header"
      <4>1. RepliesMatch' /\ Len(replies') = 1 /\ LastReply' = "220"
        BY <2>1, <3>1, <3>3, AnswerMatches DEF Waiting, Codes
      <4>2. rpos' = 0 /\ iTotal' = 0
        BY <2>3, <3>1 DEF sendServerAccept
      <4>3. Quiet' /\ LastReply' # "354"
        BY <2>1, <3>1, <4>1, <4>2 DEF Quiet
      <4> QED
        BY <3>3, <4>1, <4>3
           DEF Waiting, Phases, Fresh, AtHeader, AtBody, AtDataHeader, AtFileData, AtWrite
    <3> QED
      BY <2>3, <3>2, <3>3 DEF sendServerAccept
  <2>4. CASE recvFull
    <3>1. PICK n \in 1..Wanted - iTotal : rpos + iTotal + n <= Len(wire)
      BY <2>4 DEF recvFull
    <3>2. n >= 1 /\ Len(wire) \in Nat /\ rpos \in Nat /\ iTotal \in Nat /\ Wanted \in Int
      BY LenWire, Sizes DEF CountsType, Wanted
    <3>3. ~Quiet
      BY <3>1, <3>2 DEF Quiet
    <3>4. UNCHANGED <<pc, replies, rpos, iPayloadSize, iFileBody>>
          /\ pc \in {"header", "body", "dataHeader", "fileData"}
      BY <2>4 DEF recvFull, Receiving
    <3>5. LastSent' = LastSent /\ Before' = Before /\ LastMsg' = LastMsg
      BY <2>1, SentStays
    <3>6. CommandPending' = CommandPending /\ FilePending' = FilePending
      BY <2>1, <3>4, <3>5 DEF CommandPending, FilePending, Pending
    <3>7. Gone' = Gone /\ Lost' = Lost
      BY <2>1, <3>4, <3>6 DEF Gone, Lost, LeftBehind
    <3>8. RepliesMatch'
      BY <2>1, <3>4, MatchStays DEF Waiting
    <3> QED
      BY <3>3, <3>4, <3>5, <3>6, <3>7, <3>8
         DEF Waiting, Phases, Fresh, AtHeader, AtBody, AtDataHeader, AtFileData, AtWrite
  <2>5. CASE recvFails \/ sendKills
    <3>1. UNCHANGED replies /\ pc' \in {"close", "killed"}
      BY <2>5 DEF recvFails, sendKills
    <3> QED
      BY <2>1, <3>1, MatchStays
         DEF Waiting, Phases, Fresh, AtHeader, AtBody, AtDataHeader, AtFileData, AtWrite
  <2> QED
    BY <1>6, <2>3, <2>4, <2>5, HeaderWaiting, BodyWaiting, FileWaiting DEF handleClient
<1> QED
  BY <1>1, <1>2, <1>3, <1>4, <1>5, <1>6 DEF Next, main, clients

\* InStep, for clients that wait for their answers: however their messages are
\* cut up, whatever fails and whenever they leave, each answer is the one to the
\* message it follows and the server owes none when it waits for a command.
THEOREM WaitingClientsInStep == Spec => []InStep
<1>1. Init => TInv /\ Between /\ Waiting
  <2>1. Init => RepliesMatch
    BY ConstantsAssumption DEF Init, RepliesMatch
  <2> QED
    BY <2>1, TypeInit
       DEF Init, Between, Waiting, Phases, Fresh, AtHeader, AtBody, AtDataHeader, AtFileData, AtWrite
<1>2. TInv /\ Between /\ Waiting /\ [Next]_vars => (TInv /\ Between /\ Waiting)'
  BY QueueNext, InputNext, CountsNext, OutputNext, WaitingNext DEF TInv
<1>3. TInv /\ Waiting => InStep
  <2> SUFFICES ASSUME TInv, Waiting, ~pipelines PROVE RepliesMatch /\ CommandsAnswered
    BY DEF InStep
  <2>1. ASSUME pc = "header", rpos = Len(wire), CommandPending, rpos = Before
        PROVE  FALSE
    <3>1. LastMsg.len \in Nat
      BY <2>1, LastFacts DEF CommandPending, Pending
    <3>2. Len(wire) \in Nat
      BY LenWire DEF TInv
    <3> QED
      BY <2>1, <3>1, <3>2, Sizes DEF Before
  <2>2. Len(replies) \in Nat /\ Len(script) \in Nat
    BY Lengths DEF TInv
  <2>3. pc = "header" /\ rpos = Len(wire) => Len(replies) >= 1 + Len(script)
    BY <2>1, <2>2 DEF Waiting, Phases, AtHeader, Quiet, Gone
  <2> QED
    BY <2>3 DEF Waiting, CommandsAnswered
<1> QED
  BY <1>1, <1>2, <1>3, PTL DEF Spec
=============================================================================

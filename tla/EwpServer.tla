----------------------------- MODULE EwpServer -----------------------------
(***************************************************************************)
(* The server of task5_307/task5_main.c: it serves one client at a time,   *)
(* reads commands behind a size header, answers each with a status code,   *)
(* and writes the data that follows a DATA command to a file.              *)
(*                                                                         *)
(* As in EwpClient a byte of a connection is a cell that knows its message *)
(* and its place in it.  A client that does not pipeline sends a message   *)
(* when it has the answer to the one before, file data after 354 only, and  *)
(* only messages that are well formed and known to the server.             *)
(***************************************************************************)
EXTENDS Integers, Sequences

CONSTANTS
  Clients,
  HeaderSize,    \* sizeof SIZEHEADER: 8 in the code
  Messages,      \* what clients may send: see Message
  WellFormed,    \* those of them that a client that waits for answers sends
  Names,         \* the file names of DATA commands, as sequences of characters
  Misread,       \* sizes that bytes read from the wrong place may show
  Pipelining,    \* whether a client may send without waiting for answers
  Ports,         \* what atoi makes of the -port argument: 0 if it is missing
  PortSpan,      \* 2^16 in the code: a port is an unsigned short
  MaxMessages,   \* bound: messages of one connection
  Faults,        \* the calls that may fail: see FaultNames
  Nobody, NoFile

\* "reset": bytes still on their way when the client closes may be lost.
FaultNames == {"listen", "accept", "send", "malloc", "fopen", "sigpipe", "reset"}

\* size: what acDataSize says, -1 without the magic "EWP"; len: the bytes that
\* follow the header, a trailing new line among them.
Message == [cmd : {"HELO", "EHLO", "MAIL", "RCPT", "DATA", "FILE", "QUIT"},
            name : Names, size : Int, len : Nat]

ASSUME ConstantsAssumption ==
  /\ HeaderSize \in Nat \ {0}
  /\ Messages \subseteq Message
  /\ WellFormed \subseteq Messages
  /\ Misread \subseteq Int
  /\ Pipelining \subseteq BOOLEAN
  /\ Ports \subseteq Int
  /\ PortSpan \in Nat \ {0}
  /\ MaxMessages \in Nat
  /\ Faults \subseteq FaultNames
  /\ Nobody \notin Clients

\* A command says its own size and has a body, data says the size of the data.
ASSUME WellFormedAssumption ==
  \A m \in WellFormed :
    /\ m.cmd = "FILE" => m.size = m.len
    /\ m.cmd # "FILE" => m.cmd # "EHLO" /\ m.len >= 1 /\ m.size = HeaderSize + m.len

VARIABLES
  listening,     \* the port of the listening socket, as a set of at most one
  backlog,       \* clients connected and not yet accepted
  cur,           \* the client being served
  hung,          \* clients that have closed their end
  served,        \* clients the server is done with
  pc,
  pipelines,     \* cur sends without waiting for answers
  wire,          \* every byte cur has sent
  script,        \* the messages these are
  rpos, iTotal,  \* bytes taken by finished recvFull calls, and by this one
  iPayloadSize,
  iFileBody,
  cFilename,
  replies,       \* the status codes sent to cur
  files          \* content of the files of the server's directory

queue == <<listening, backlog, cur, hung, served>>
input == <<pipelines, wire, script>>
vars  == <<queue, pc, input, rpos, iTotal, iPayloadSize, iFileBody, cFilename,
           replies, files>>

Init ==
  /\ listening = {}
  /\ backlog = <<>> /\ cur = Nobody /\ hung = {} /\ served = {}
  /\ pc = "start"
  /\ pipelines = FALSE /\ wire = <<>> /\ script = <<>>
  /\ rpos = 0 /\ iTotal = 0
  /\ iPayloadSize = 0 /\ iFileBody = 0
  /\ cFilename = <<>>
  /\ replies = <<>>
  /\ files = [n \in Names |-> NoFile]

(***************************************************************************)
(* The clients.                                                            *)
(***************************************************************************)
Cells(m) == [k \in 1..HeaderSize + m.len |-> [msg |-> m, off |-> k - 1]]

ClientConnects(c) ==
  /\ listening # {} /\ pc # "killed"
  /\ c \notin served \cup hung \cup {cur} /\ \A i \in 1..Len(backlog) : backlog[i] # c
  /\ backlog' = Append(backlog, c)
  /\ UNCHANGED <<listening, cur, hung, served, pc, input, rpos, iTotal, iPayloadSize,
                 iFileBody, cFilename, replies, files>>

LastReply == IF replies = <<>> THEN "" ELSE replies[Len(replies)]

\* The greeting and one answer for each message.
Answered == Len(replies) = 1 + Len(script)

ClientSends(m) ==
  /\ cur # Nobody /\ cur \notin hung
  /\ Len(script) < MaxMessages
  /\ pipelines \/ (m \in WellFormed /\ Answered /\ (m.cmd = "FILE" <=> LastReply = "354"))
  /\ wire' = wire \o Cells(m)
  /\ script' = Append(script, m)
  /\ UNCHANGED <<queue, pipelines, pc, rpos, iTotal, iPayloadSize, iFileBody, cFilename,
                 replies, files>>

ClientHangsUp ==
  /\ cur # Nobody /\ cur \notin hung
  /\ hung' = hung \cup {cur}
  /\ UNCHANGED <<listening, backlog, cur, served, pc, input, rpos, iTotal, iPayloadSize,
                 iFileBody, cFilename, replies, files>>

(***************************************************************************)
(* The server.                                                             *)
(***************************************************************************)
Chars(n) == {n[i] : i \in 1..Len(n)}

isValidFilename(n) ==
  /\ n # <<>>
  /\ \A i \in 1..Len(n) - 1 : ~(n[i] = "." /\ n[i + 1] = ".")
  /\ Chars(n) \cap {"/", "\\", ":"} = {}

\* parseArgs refuses port 0, then the port is cut to an unsigned short; socket,
\* bind and listen end the program when they fail.
Start ==
  /\ pc = "start"
  /\ \E p \in Ports :
       \/ p # 0 /\ listening' = {p % PortSpan} /\ pc' = "accept"
       \/ (p = 0 \/ "listen" \in Faults) /\ pc' = "exit" /\ UNCHANGED listening
  /\ UNCHANGED <<backlog, cur, hung, served, input, rpos, iTotal, iPayloadSize,
                 iFileBody, cFilename, replies, files>>

Accept ==
  /\ pc = "accept" /\ backlog # <<>>
  /\ cur' = Head(backlog) /\ backlog' = Tail(backlog)
  /\ pc' = "greet"
  /\ pipelines' \in Pipelining
  /\ UNCHANGED <<listening, hung, served, wire, script, rpos, iTotal, iPayloadSize,
                 iFileBody, cFilename, replies, files>>

\* Too many open files, say: the loop tries again.
AcceptFails ==
  /\ pc = "accept" /\ backlog # <<>> /\ "accept" \in Faults
  /\ UNCHANGED vars

sendReply(code) == replies' = Append(replies, code)

\* A greeting that cannot be sent ends the session.
sendServerAccept ==
  /\ pc = "greet"
  /\ \/ sendReply("220") /\ pc' = "header"
     \/ "send" \in Faults /\ pc' = "close" /\ UNCHANGED replies
  /\ UNCHANGED <<queue, input, rpos, iTotal, iPayloadSize, iFileBody, cFilename,
                 files>>

\* What recvFull waits for.
Wanted ==
  CASE pc \in {"header", "dataHeader"} -> HeaderSize
    [] pc = "body"                     -> iPayloadSize - HeaderSize
    [] pc = "fileData"                 -> iFileBody
    [] OTHER                           -> 0

Receiving == pc \in {"header", "body", "dataHeader", "fileData"} /\ iTotal < Wanted

recvFull ==
  /\ Receiving
  /\ \E n \in 1..Wanted - iTotal :
       /\ rpos + iTotal + n <= Len(wire)
       /\ iTotal' = iTotal + n
  /\ UNCHANGED <<queue, pc, input, rpos, iPayloadSize, iFileBody, cFilename,
                 replies, files>>

\* recv has nothing more to return.
Disconnected ==
  /\ Receiving /\ cur \in hung
  /\ rpos + iTotal = Len(wire) \/ "reset" \in Faults

\* A slip: 0 from recv is not taken for the end of the connection.
recvFails_Ignored == Disconnected /\ pc # "dataHeader" /\ UNCHANGED vars

recvFails ==
  /\ Disconnected /\ pc # "dataHeader"
  /\ pc' = "close"
  /\ UNCHANGED <<queue, input, rpos, iTotal, iPayloadSize, iFileBody, cFilename,
                 replies, files>>

\* A slip: iTotal is not reset for the next message.
Take_NoReset(n) == rpos' = rpos + n /\ UNCHANGED iTotal

Take(n) == rpos' = rpos + n /\ iTotal' = 0

\* The size the header bytes show; what is no header lacks the magic number.
Shown ==
  IF \A k \in 1..HeaderSize :
       wire[rpos + k] = [msg |-> wire[rpos + 1].msg, off |-> k - 1]
  THEN {wire[rpos + 1].msg.size}
  ELSE Misread \cup {-1}

readSizeHeader ==
  /\ pc = "header" /\ iTotal = HeaderSize
  /\ Take(HeaderSize)
  /\ iPayloadSize' \in Shown
  /\ pc' = IF iPayloadSize' - HeaderSize < 1 THEN "close" ELSE "body"
  /\ UNCHANGED <<queue, input, iFileBody, cFilename, replies, files>>

\* The body in cBody is complete; its first bytes name the command.
BodyRead == pc = "body" /\ iTotal = iPayloadSize - HeaderSize

Body == wire[rpos + 1]

Command == IF Body.off = HeaderSize THEN Body.msg.cmd ELSE "none"

Served(code, next) ==
  /\ sendReply(code)
  /\ pc' = next
  /\ Take(iPayloadSize - HeaderSize)
  /\ UNCHANGED <<queue, input, iPayloadSize, iFileBody, files>>

\* HELO, MAIL FROM: and RCPT TO: are answered wherever they come.
Courtesy ==
  /\ BodyRead /\ Command \in {"HELO", "MAIL", "RCPT"}
  /\ Served("250", "header")
  /\ UNCHANGED cFilename

\* The loop over trailing blanks asks for a negative length: none is removed.
DataAccepted ==
  /\ BodyRead /\ Command = "DATA"
  /\ cFilename' = Body.msg.name
  /\ isValidFilename(cFilename')
  /\ Served("354", "dataHeader")

\* A slip: the 501 is sent and the data is received all the same.
DataRefused_GoesOn ==
  /\ BodyRead /\ Command = "DATA"
  /\ cFilename' = Body.msg.name
  /\ ~isValidFilename(cFilename')
  /\ Served("501", "dataHeader")

DataRefused ==
  /\ BodyRead /\ Command = "DATA"
  /\ cFilename' = Body.msg.name
  /\ ~isValidFilename(cFilename')
  /\ Served("501", "header")

\* A slip: the loop goes on after QUIT.
Quit_GoesOn ==
  /\ BodyRead /\ Command = "QUIT"
  /\ Served("221", "header")
  /\ UNCHANGED cFilename

Quit ==
  /\ BodyRead /\ Command = "QUIT"
  /\ Served("221", "close")
  /\ UNCHANGED cFilename

\* No answer: the client is left waiting for one.
Unknown ==
  /\ BodyRead /\ Command \notin {"HELO", "MAIL", "RCPT", "DATA", "QUIT"}
  /\ pc' = "header"
  /\ Take(iPayloadSize - HeaderSize)
  /\ UNCHANGED <<queue, input, iPayloadSize, iFileBody, cFilename, replies,
                 files>>

\* After the header of the data the code tests iPayloadSize, the size of the
\* command, which is positive, and not iFilePayload: an error goes unseen.
\* malloc(iFileBody + 1) fails for a size below -1.
DataHeader(size) ==
  /\ iFileBody' = size
  /\ \/ size >= -1 /\ pc' = "fileData"
     \/ (size < -1 \/ "malloc" \in Faults) /\ pc' = "close"
  /\ UNCHANGED <<queue, input, iPayloadSize, cFilename, replies, files>>

DataHeaderRead ==
  /\ pc = "dataHeader" /\ iTotal = HeaderSize
  /\ Take(HeaderSize)
  /\ \E size \in Shown : DataHeader(size)

DataHeaderFails ==
  /\ Disconnected /\ pc = "dataHeader"
  /\ Take(iTotal)
  /\ DataHeader(-1)

\* One more byte is taken if it has arrived, a trailing new line or not.
Drain ==
  /\ pc = "fileData" /\ iTotal >= iFileBody
  /\ \/ Take(iTotal)
     \/ rpos + iTotal < Len(wire) /\ Take(iTotal + 1)
  /\ pc' = "write"
  /\ UNCHANGED <<queue, input, iPayloadSize, iFileBody, cFilename, replies, files>>

\* fwrite gets pFile for its data and iFileBody for its size: so many bytes of
\* the FILE object, or nothing when the size is negative.
Written == files' = [files EXCEPT ![cFilename] = [of |-> "FILE object", size |-> iFileBody]]

\* A slip: no way out after a file that cannot be created.
WriteFile_NoContinue ==
  /\ pc = "write"
  /\ pc' = "header"
  /\ \/ Written /\ sendReply("250")
     \/ "fopen" \in Faults /\ replies' = replies \o <<"501", "250">> /\ UNCHANGED files
  /\ UNCHANGED <<queue, input, rpos, iTotal, iPayloadSize, iFileBody, cFilename>>

WriteFile ==
  /\ pc = "write"
  /\ pc' = "header"
  /\ \/ Written /\ sendReply("250")
     \/ "fopen" \in Faults /\ sendReply("501") /\ UNCHANGED files
  /\ UNCHANGED <<queue, input, rpos, iTotal, iPayloadSize, iFileBody, cFilename>>

\* The client is gone, so that send may raise SIGPIPE, which ends the server.
sendKills ==
  /\ "sigpipe" \in Faults
  /\ cur \in hung
  /\ \/ pc = "greet" /\ UNCHANGED files
     \/ /\ BodyRead /\ Command \in {"HELO", "MAIL", "RCPT", "DATA", "QUIT"}
        /\ UNCHANGED files
     \/ pc = "write" /\ (Written \/ ("fopen" \in Faults /\ UNCHANGED files))
  /\ pc' = "killed"
  /\ UNCHANGED <<queue, input, rpos, iTotal, iPayloadSize, iFileBody, cFilename,
                 replies>>

\* The connection and the variables of handleClient are gone with the client.
CloseClient ==
  /\ pc = "close"
  /\ pc' = "accept"
  /\ served' = served \cup {cur}
  /\ cur' = Nobody
  /\ pipelines' = FALSE /\ wire' = <<>> /\ script' = <<>>
  /\ rpos' = 0 /\ iTotal' = 0
  /\ iPayloadSize' = 0 /\ iFileBody' = 0 /\ cFilename' = <<>>
  /\ replies' = <<>>
  /\ UNCHANGED <<listening, backlog, hung, files>>

handleClient ==
  \/ sendServerAccept \/ recvFull \/ recvFails \/ readSizeHeader
  \/ Courtesy \/ DataAccepted \/ DataRefused \/ Quit \/ Unknown
  \/ DataHeaderRead \/ DataHeaderFails \/ Drain \/ WriteFile \/ sendKills

main == Start \/ Accept \/ AcceptFails \/ handleClient \/ CloseClient

clients ==
  \/ \E c \in Clients : ClientConnects(c)
  \/ \E m \in Messages : ClientSends(m)
  \/ ClientHangsUp

\* Every client has been served and the server waits in accept, or it has ended.
Idle == (served = Clients \/ pc \in {"killed", "exit"}) /\ UNCHANGED vars

Next == main \/ clients \/ Idle

\* The server runs when it can; a client that waits for ever loses patience.
Spec     == Init /\ [][Next]_vars
FairSpec == Spec /\ WF_vars(main) /\ WF_vars(ClientHangsUp)

(***************************************************************************)
(* Properties.                                                             *)
(***************************************************************************)
Cell == [msg : Messages, off : Nat]

TypeOK ==
  /\ listening \subseteq 0..PortSpan - 1
  /\ backlog \in Seq(Clients) /\ cur \in Clients \cup {Nobody}
  /\ hung \subseteq Clients /\ served \subseteq Clients
  /\ pc \in {"start", "exit", "accept", "greet", "header", "body", "dataHeader", "fileData",
             "write", "close", "killed"}
  /\ pipelines \in BOOLEAN /\ wire \in Seq(Cell) /\ script \in Seq(Messages)
  /\ rpos \in Nat /\ iTotal \in Nat /\ rpos + iTotal <= Len(wire)
  /\ iPayloadSize \in Int /\ iFileBody \in Int
  /\ cFilename \in Names \cup {<<>>}
  /\ replies \in Seq({"220", "250", "354", "501", "221"})
  /\ files \in [Names -> [of : {"FILE object"}, size : Int] \cup {NoFile}]

\* The answer the header file and the README give each message.
Answer(m) ==
  CASE m.cmd \in {"HELO", "EHLO", "MAIL", "RCPT"} -> {"250"}
    [] m.cmd = "DATA" -> {IF isValidFilename(m.name) THEN "354" ELSE "501"}
    [] m.cmd = "FILE" -> {"250", "501"}
    [] m.cmd = "QUIT" -> {"221"}

\* The i-th answer after the greeting is the answer to the i-th message ..
RepliesMatch ==
  /\ \A i \in 1..Len(replies) - 1 :
       i <= Len(script) => replies[i + 1] \in Answer(script[i])
  /\ cur \in Clients \ hung => Len(replies) <= 1 + Len(script)

\* .. and the server owes none when it waits for the next command, which would
\* leave the client and the server waiting for each other.
CommandsAnswered ==
  pc = "header" /\ rpos = Len(wire) => Len(replies) >= 1 + Len(script)

\* A client that waits for answers and the server never get out of step, however
\* the bytes arrive and whatever fails on the way.
InStep == ~pipelines => RepliesMatch /\ CommandsAnswered

\* 221 is the last a client hears, whatever it has sent after QUIT.
NothingAfterQuit == \A i \in 1..Len(replies) - 1 : replies[i] # "221"

\* A file is created under the name of an accepted DATA command only, and so
\* inside the server's directory, whatever sequence of commands, refusals and
\* misread bytes led there.
FilesStayInDirectory ==
  \A n \in Names : files[n] # NoFile =>
    n \notin {<<>>, <<".", ".">>} /\ "/" \notin Chars(n)

\* Clients are served one at a time, yet each that connects is served in the
\* end, whatever those before it did; unless the server itself is killed.
EveryClientServed ==
  \A c \in Clients : (\E i \in 1..Len(backlog) : backlog[i] = c)
                      ~> (c \in served \/ pc = "killed")
=============================================================================

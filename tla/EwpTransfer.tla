---------------------------- MODULE EwpTransfer ----------------------------
(***************************************************************************)
(* A whole transfer of task 6: EwpClient with the sender of the EWA tool.  *)
(* The tool is a binary; what it does is taken from its messages in        *)
(* logdata/ewa_log.txt.  It sends the packets of a schedule, not always in *)
(* sequence, waits for an answer to each, sends a packet up to MaxTries    *)
(* times until it is satisfied and goes on to the next whether it is or    *)
(* not.  It reads HeaderSize bytes of each answer; the client sends one    *)
(* more, since Data[1] is part of the struct it sends.                     *)
(***************************************************************************)
EXTENDS EwpClient

CONSTANTS
  Schedules,    \* the orders in which the sender may take the packets
  MaxTries,     \* 3 in the log
  SentSize      \* bytes of an answer on the wire

ASSUME TransferAssumption ==
  /\ Schedules \subseteq Seq(Packets)
  /\ MaxTries \in Nat \ {0}
  /\ SentSize \in Nat \ {0}
  /\ \A s \in Schedules : Len(s) * MaxTries <= MaxSent

VARIABLES
  schedule,   \* the packets in the order of this transfer
  at,         \* the packet the sender is at
  tries,      \* how often it has sent it
  awaiting,   \* it waits for an answer
  reads       \* how many answers it has read

sender == <<schedule, at, tries, awaiting, reads>>
all    == <<vars, sender>>

TransferInit ==
  /\ Init
  /\ schedule \in Schedules
  /\ at = 1 /\ tries = 0
  /\ awaiting = FALSE /\ reads = 0

\* The sender's next read begins at this byte of the answers.
ReadFrom == reads * HeaderSize

\* The answers the next read is made of: one, if the reads are in step.
AnswerRead == {k \in 1..Len(answers) : ReadFrom = (k - 1) * SentSize}

\* The sender is content with an ACK that gives the number of the packet sent.
Content ==
  \E k \in AnswerRead : ~answers[k].nack /\ answers[k].num = schedule[at].seq

SenderSends ==
  /\ ~awaiting /\ at <= Len(schedule)
  /\ PeerSends(schedule[at])
  /\ tries' = tries + 1
  /\ awaiting' = TRUE
  /\ UNCHANGED <<schedule, at, reads>>

SenderReads ==
  /\ awaiting
  /\ ReadFrom + HeaderSize <= Len(answers) * SentSize
  /\ reads' = reads + 1
  /\ awaiting' = FALSE
  /\ IF Content \/ tries = MaxTries
     THEN at' = at + 1 /\ tries' = 0
     ELSE UNCHANGED <<at, tries>>
  /\ UNCHANGED <<vars, schedule>>

\* Nothing more to send, or the client has gone.
SenderCloses ==
  /\ \/ ~awaiting /\ at > Len(schedule)
     \/ awaiting /\ Over /\ ReadFrom + HeaderSize > Len(answers) * SentSize
  /\ PeerCloses
  /\ UNCHANGED sender

senderStep == SenderSends \/ SenderReads \/ SenderCloses

clientStep == client /\ UNCHANGED sender

TransferEnded == Over /\ UNCHANGED all

TransferNext == clientStep \/ senderStep \/ TransferEnded

TransferSpec ==
  TransferInit /\ [][TransferNext]_all /\ WF_all(clientStep) /\ WF_all(senderStep)

(***************************************************************************)
(* Properties.                                                             *)
(***************************************************************************)
TransferTypeOK ==
  /\ TypeOK
  /\ schedule \in Schedules
  /\ at \in 1..Len(schedule) + 1
  /\ tries \in 0..MaxTries
  /\ awaiting \in BOOLEAN
  /\ reads \in 0..MaxSent

InOrder ==
  /\ schedule # <<>>
  /\ \A i \in 1..Len(schedule) - 1 : schedule[i + 1].seq = schedule[i].seq + schedule[i].size
  /\ schedule[1].seq = 0 /\ schedule[Len(schedule)].fin

\* A sender that takes the packets in order gets the whole file across although
\* it misreads the answers: a packet sent again is refused without harm, and
\* the third try moves on.
InOrderDelivers == InOrder /\ pc = "exit" /\ exitCode = 0 => pFileBuf = File

\* The sender waits for an answer only while one is on its way or the client
\* has stopped: the odd byte of each answer delays nothing.
AnswerOnItsWay ==
  awaiting /\ ~Over /\ pc # "close" =>
    \/ ReadFrom + HeaderSize <= Len(answers) * SentSize
    \/ rpos < Len(wire)

\* Client and sender both come to an end.
TransferEnds == <>(Over /\ closed) \/ <>(exitCode = 1)
=============================================================================

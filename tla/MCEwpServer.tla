---------------------------- MODULE MCEwpServer ----------------------------
(***************************************************************************)
(* Messages with a header of two bytes, commands with a body of one byte   *)
(* and file data of two at most; a name that is valid and one that is not. *)
(***************************************************************************)
EXTENDS EwpServer

Plain == <<"a">>
Up    == <<".", ".", "/", "a">>
MCNames == {Plain, Up}

Cmd(c, n) == [cmd |-> c, name |-> n, size |-> HeaderSize + 1, len |-> 1]
Data(size, len) == [cmd |-> "FILE", name |-> Plain, size |-> size, len |-> len]

PoliteMessages ==
  {Cmd("HELO", Plain), Cmd("DATA", Plain), Cmd("DATA", Up), Cmd("QUIT", Plain),
   Data(2, 2), Data(0, 0)}

\* And a command the server does not know, data followed by a new line, and
\* sizes out of range.
MCMessages ==
  PoliteMessages \cup {Cmd("EHLO", Plain), Data(1, 2), Data(-2, 0)}

\* A missing -port, the first port, and one that an unsigned short cannot hold.
MCPorts == {0, 1, 5}

MCMisread == {3}

AllFaults == FaultNames
=============================================================================

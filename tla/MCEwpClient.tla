---------------------------- MODULE MCEwpClient ----------------------------
(***************************************************************************)
(* A file of four bytes in three packets, a packet that overlaps two of    *)
(* them, a FIN without data, and a packet that gets damaged.  A header is  *)
(* two bytes here: enough for a read to start in the middle of one.        *)
(***************************************************************************)
EXTENDS EwpClient

Pkt(s, n, f) == [seq |-> s, size |-> n, fin |-> f, ok |-> TRUE]
Bad(p) == [p EXCEPT !.ok = FALSE]

MCPackets == {Pkt(0, 2, FALSE), Pkt(2, 1, FALSE), Pkt(3, 1, TRUE)}

OddPackets == MCPackets \cup {Pkt(1, 2, FALSE), Pkt(4, 0, TRUE), Bad(Pkt(2, 1, FALSE))}

\* In sequence with a FIN that nobody sent, and without data.
MCMisread == {Pkt(2, 2, TRUE), Pkt(1, 0, FALSE)}

MCFaults == FaultNames
=============================================================================

--------------------------- MODULE MCEwpTransfer ---------------------------
(***************************************************************************)
(* The three packets of a five-byte file in the orders the log shows: in   *)
(* sequence, the second and third swapped, and one left out.               *)
(***************************************************************************)
EXTENDS EwpTransfer

Pkt(s, n, f) == [seq |-> s, size |-> n, fin |-> f, ok |-> TRUE]

P1 == Pkt(0, 2, FALSE)
P2 == Pkt(2, 1, FALSE)
P3 == Pkt(3, 2, TRUE)

MCPackets   == {P1, P2, P3}
MCSchedules == {<<P1, P2, P3>>, <<P2, P1, P3>>, <<P1, P3, P2>>, <<P1, P3>>}
NoMisread   == {}
MCFaults    == {"connect", "sigpipe"}
=============================================================================

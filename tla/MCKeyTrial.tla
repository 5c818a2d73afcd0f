----------------------------- MODULE MCKeyTrial -----------------------------
(***************************************************************************)
(* Values for KeyTrial: bytes of two bits, so a short has four bits and an *)
(* int eight.  Texts have one or two blocks, with and without bytes behind *)
(* the last, an odd number of them among them.                             *)
(***************************************************************************)
EXTENDS KeyTrial

Bits == INSTANCE Bitwise
MCXor(p, q) == Bits!^^(p, q)
MCMagic     == <<1, 0, 1>>
MCTails     == {<<>>, <<1>>, <<3, 0>>}
MCBlocks    == {<<0, 1, 1, 0, 1>>, <<1, 1, 1, 1, 1>>, <<0, 3, 2, 3, 1>>}
MCTexts     == {MCMagic \o p \o t : p \in MCBlocks, t \in MCTails}
               \cup {MCMagic \o p \o MCMagic \o q : p, q \in MCBlocks}
MCSecrets   == {2, 3, 13}
MCNumbers   == 0..16 \cup {25, 49}
MCGarbage   == {0, 1, 3}
=============================================================================

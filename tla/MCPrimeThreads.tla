--------------------------- MODULE MCPrimeThreads ---------------------------
(***************************************************************************)
(* Values for the constants of PrimeThreads.  "c" stands for a composite,  *)
(* "p" for a prime that is not a key, "k" for a key and "j" for a token    *)
(* fscanf does not match.  Batch is 2, so that files of three and four     *)
(* numbers give full, short and empty batches.                             *)
(***************************************************************************)
EXTENDS PrimeThreads

MCNumbers == {"c", "p", "k"}
MCPrimes  == {"p", "k"}
MCKeys    == {"k"}

\* Every file of up to two numbers.
ShortFiles == UNION {[1..n -> MCNumbers] : n \in 0..2}

\* .. and some of three, with a key at either end of a batch.
FaultFiles == ShortFiles \cup {<<"p", "c", "k">>, <<"k", "p", "k">>, <<"p", "p", "j">>}

\* Every file of three numbers.
MediumFiles == ShortFiles \cup [1..3 -> MCNumbers]

\* Files whose numbers need more than one batch of each thread.
LongFiles == {<<"p", "j", "k">>, <<"k", "j">>, <<"c", "p", "p", "k">>,
              <<"k", "c", "c", "k">>, <<"p", "c", "p", "c", "k">>}

MCFiles == MediumFiles \cup LongFiles

NoFaults   == {}
SafeFaults == {"open", "create1", "create2", "node"}
AllFaults  == FaultNames
=============================================================================

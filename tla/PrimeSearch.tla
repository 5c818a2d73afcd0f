---------------------------- MODULE PrimeSearch ----------------------------
(***************************************************************************)
(* What the program of task4_threads.c promises, whatever its threads do:  *)
(* every number of the input is looked at once, the flag goes up only when *)
(* a key has been met, and the search ends with the flag up or with every  *)
(* number looked at and no key among them.  PrimeThreads implements it.    *)
(***************************************************************************)
CONSTANT Positions

VARIABLES
  keys,    \* the positions of the primes that decrypt the code file
  todo,    \* the positions nobody has looked at
  found,
  over

vars == <<keys, todo, found, over>>

Init ==
  /\ todo \subseteq Positions
  /\ keys \subseteq todo
  /\ found = FALSE
  /\ over = FALSE

Examine ==
  /\ ~over
  /\ \E p \in todo : todo' = todo \ {p}
  /\ UNCHANGED <<keys, found, over>>

Find ==
  /\ ~over
  /\ keys \ todo # {}
  /\ found' = TRUE
  /\ UNCHANGED <<keys, todo, over>>

Stop ==
  /\ ~over
  /\ found \/ (todo = {} /\ keys = {})
  /\ over' = TRUE
  /\ UNCHANGED <<keys, todo, found>>

Next == Examine \/ Find \/ Stop

Spec == Init /\ [][Next]_vars
=============================================================================

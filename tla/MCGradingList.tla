--------------------------- MODULE MCGradingList ---------------------------
(***************************************************************************)
(* Three candidates and one or two tasks, with IDs of up to three          *)
(* characters: MaxIdLen is 3 here, so that a line of a file can be longer  *)
(* than what the list stores.                                              *)
(***************************************************************************)
EXTENDS GradingList, TLC

MCTypedIds == {<<"a">>, <<"a", "b">>}

ShortFiles == {<< <<"#", "a">>, <<"c">>, <<>>, <<"a", "b">>, <<"c">> >>,
               << <<"d">>, <<"\r">>, <<"a">> >>}
LongFiles  == {<< <<"a", "b", "c">>, <<"a", "b", "c">> >>}

\* Which address malloc returns makes no difference.
Addresses == Permutations(Nodes)

\* A regrading, and points and a maximum out of range.
MCMaxima == {0, 2, 17}
MCPoints == {-1, 2, 3}
MCTasks  == 0..3
OneTask  == {17}

NoFaults  == {}
AllFaults == FaultNames
=============================================================================

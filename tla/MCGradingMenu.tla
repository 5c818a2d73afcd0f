--------------------------- MODULE MCGradingMenu ---------------------------
(***************************************************************************)
(* Two candidates and two tasks.  The buffers have their order in the code *)
(* and are a few characters long; at each prompt a line that is too long   *)
(* for it can be typed, the rest of which may be a number or an option,    *)
(* and a line that is too long by its new line only.                       *)
(***************************************************************************)
EXTENDS GradingMenu, TLC

Enter == <<"\n">>
Key(k) == <<k, "\n">>
Long   == <<"a", "a", "0", "\n">>
Longer == <<"a", "a", "a", "a", "a", "1", "\n">>

MCLines ==
  [p \in Prompts |->
     CASE p \in IdPrompts     -> {Enter, Key("1"), Long, <<"a", "a", "\n">>}
       [] p = "maxPoints"     -> {Key("0"), Key("1")}
       [] p = "gradePoints"   -> {Key("1"), Key("2")}
       [] p \in NumberPrompts -> {Key("0"), Key("1"), Key("2"), Long}
       [] p = "choice"        -> {Enter, Key("1"), Key("2"), Key("3"), Key("5"), Key("7"), Long}
       [] OTHER               -> {Key("1"), Longer}]

MCLastLines == {<<>>, <<"1">>}
MCSizes     == [letter |-> 3, choice |-> 3, number |-> 4, filename |-> 5, justification |-> 6]
MCFiles     == {<< <<"1">>, <<"b">> >>}
MCDirectory == <<"1">> :> << <<"1">>, <<"b">> >>

\* What fgets may give at the prompts for IDs and for numbers.
MCTypedIds == {<<>>, <<"0">>, <<"1">>, <<"2">>, <<"3">>, <<"7">>, <<"a", "a">>, <<"a", "1">>}
MCNumbers  == {0, 1, 2}

AllFaults == FaultNames
=============================================================================

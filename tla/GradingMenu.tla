---------------------------- MODULE GradingMenu ----------------------------
(***************************************************************************)
(* The dialogue of task3_307/task3_main.c around the list of GradingList:  *)
(* what a user types, line by line, and what fgets makes of it.            *)
(*                                                                         *)
(* A line longer than the buffer of a prompt is not thrown away: what does *)
(* not fit is the answer to the next prompt, and a line that fits but for  *)
(* its new line answers the next prompt with an empty line.  Numbers are   *)
(* decimal, without blanks before them, and fit an int.                    *)
(***************************************************************************)
EXTENDS GradingList

CONSTANTS
  Lines,       \* what a user may type at each prompt: characters up to a "\n"
  LastLines,   \* what may precede the end of the input, without a "\n"
  Sizes,       \* the buffers of task3_main.c but szID, which has MaxIdLen
  Directory    \* the files by their names

IdPrompts     == {"addId", "gradeId", "printId"}
NumberPrompts == {"numTasks", "maxPoints", "gradeTask", "gradePoints"}
OtherPrompts  == {"choice", "filename", "justification", "letter"}
Prompts       == IdPrompts \cup NumberPrompts \cup OtherPrompts

ASSUME DialogueAssumption ==
  /\ Lines \in [Prompts -> SUBSET Id] /\ LastLines \subseteq Id
  /\ \A p \in Prompts : \A l \in Lines[p] : \A j \in 1..Len(l) : l[j] = "\n" <=> j = Len(l)
  /\ \A l \in LastLines : \A j \in 1..Len(l) : l[j] # "\n"
  /\ Sizes \in [{"number"} \cup OtherPrompts -> Nat \ {0, 1}]
  /\ Directory \in [DOMAIN Directory -> Files]

VARIABLES
  at,        \* the prompt the program is at
  nums,      \* the numbers this dialogue has read so far
  szID,      \* the ID menuGradeTask has read
  stdin,     \* characters typed and not yet read
  eof,       \* the user has ended the input
  typed      \* history: the line stdin is the rest of, and its prompt

dialogue == <<at, nums, szID>>
input    == <<stdin, eof, typed>>
menuVars == <<vars, dialogue, input>>

Nothing == [line |-> <<>>, prompt |-> "none"]

MenuInit ==
  /\ Init
  /\ at = "numTasks" /\ nums = <<>> /\ szID = <<>>
  /\ stdin = <<>> /\ eof = FALSE /\ typed = Nothing

\* The program waits in fgets, at the prompt, for a line or the end of input.
Type ==
  /\ pc \in {"setup", "menu"} /\ stdin = <<>> /\ ~eof
  /\ \/ \E l \in Lines[at] : stdin' = l /\ UNCHANGED eof
     \/ \E l \in LastLines : stdin' = l /\ eof' = TRUE
  /\ typed' = IF stdin' = <<>> THEN Nothing ELSE [line |-> stdin', prompt |-> at]
  /\ UNCHANGED <<vars, dialogue>>

(***************************************************************************)
(* fgets and sscanf.                                                       *)
(***************************************************************************)
\* A slip: an ID is read into a buffer of the size numbers have.
BufferSize_IdAsNumber(p) ==
  IF p \in IdPrompts \cup NumberPrompts THEN Sizes["number"] ELSE Sizes[p]

BufferSize(p) ==
  CASE p \in IdPrompts     -> MaxIdLen
    [] p \in NumberPrompts -> Sizes["number"]
    [] OTHER               -> Sizes[p]

\* What fgets puts into the buffer; stdin is never more than one line.
szBuf == Prefix(stdin, BufferSize(at) - 1)

Got ==
  /\ stdin # <<>>
  /\ stdin' = SubSeq(stdin, Len(szBuf) + 1, Len(stdin))
  /\ typed' = IF stdin' = <<>> THEN Nothing ELSE typed
  /\ UNCHANGED eof

\* fgets returns NULL.
AtEof == stdin = <<>> /\ eof /\ UNCHANGED input

\* Up to the new line, which is the last character if it is there.
Answer == IF szBuf[Len(szBuf)] = "\n" THEN SubSeq(szBuf, 1, Len(szBuf) - 1) ELSE szBuf

Numerals == <<"0", "1", "2", "3", "4", "5", "6", "7", "8", "9">>

DigitOf(char) == CHOOSE d \in 0..9 : Numerals[d + 1] = char

\* The digits szBuf begins with, and what sscanf makes of them.
Digits == {j \in 1..Len(szBuf) : \A k \in 1..j : \E d \in 0..9 : Numerals[d + 1] = szBuf[k]}

IsNumber == Digits # {}

\* The value of the first j digits, for each j.
Values ==
  LET value[j \in 0..Cardinality(Digits)] ==
        IF j = 0 THEN 0 ELSE 10 * value[j - 1] + DigitOf(szBuf[j])
  IN  value

Number == Values[Cardinality(Digits)]

(***************************************************************************)
(* setupExam.                                                              *)
(***************************************************************************)
SetupFails ==
  /\ pc' = "exit"
  /\ UNCHANGED <<lines, list, aiMaxPoints, node, dialogue>>

AskNumTasks ==
  /\ pc = "setup" /\ at = "numTasks"
  /\ \/ /\ Got /\ IsNumber /\ Number \in 1..MaxTasks
        /\ nums' = <<Number>> /\ at' = "maxPoints"
        /\ UNCHANGED <<vars, szID>>
     \/ /\ AtEof \/ (Got /\ ~(IsNumber /\ Number \in 1..MaxTasks))
        /\ SetupFails

\* After the last task the list is made: initList.
AskMaxPoints ==
  /\ pc = "setup" /\ at = "maxPoints"
  /\ \/ /\ Got /\ IsNumber /\ Number >= 1
        /\ \/ /\ Len(nums) < nums[1]
              /\ nums' = Append(nums, Number)
              /\ UNCHANGED <<pc, at, aiMaxPoints>>
           \/ /\ Len(nums) = nums[1]
              /\ aiMaxPoints' = Append(Tail(nums), Number)
              /\ nums' = <<>> /\ at' = "choice" /\ pc' = "menu"
        /\ UNCHANGED <<lines, list, node, szID>>
     \/ /\ AtEof \/ (Got /\ ~(IsNumber /\ Number >= 1))
        /\ SetupFails

(***************************************************************************)
(* The menu.                                                               *)
(***************************************************************************)
\* The prompt an option begins with; 4 and 6 print and ask for nothing.
Opens == <<"addId", "filename", "gradeId", "choice", "letter", "choice", "printId">>

Leave ==
  /\ pc' = "exit"
  /\ freeList
  /\ UNCHANGED <<lines, aiMaxPoints, dialogue>>

\* A slip: the end of the input is an answer that is no number.
Choose_EofContinues ==
  /\ pc = "menu" /\ at = "choice"
  /\ \/ /\ Got /\ IsNumber /\ Number \in DOMAIN Opens
        /\ at' = Opens[Number]
        /\ UNCHANGED <<vars, nums, szID>>
     \/ /\ AtEof \/ (Got /\ ~(IsNumber /\ Number \in 0..Len(Opens)))
        /\ UNCHANGED <<vars, dialogue>>
     \/ Got /\ IsNumber /\ Number = 0 /\ Leave

Choose ==
  /\ pc = "menu" /\ at = "choice"
  /\ \/ /\ Got /\ IsNumber /\ Number \in DOMAIN Opens
        /\ at' = Opens[Number]
        /\ UNCHANGED <<vars, nums, szID>>
     \/ /\ Got /\ ~(IsNumber /\ Number \in 0..Len(Opens))
        /\ UNCHANGED <<vars, dialogue>>
     \/ (AtEof \/ (Got /\ IsNumber /\ Number = 0)) /\ Leave

\* A dialogue is over: its locals are gone.
Back == at' = "choice" /\ nums' = <<>> /\ szID' = <<>>

\* Nothing to do, or nothing read, or no number where there should be one.
NothingDone == Back /\ UNCHANGED vars

AddManual ==
  /\ pc = "menu" /\ at = "addId"
  /\ \/ Got /\ addCandidate(Answer) /\ Back /\ UNCHANGED <<pc, lines, aiMaxPoints>>
     \/ AtEof /\ NothingDone

LoadFile ==
  /\ pc = "menu" /\ at = "filename"
  /\ \/ /\ Got /\ Answer \in DOMAIN Directory
        /\ lines' = Directory[Answer] /\ pc' = "loading"
        /\ Back /\ UNCHANGED <<list, aiMaxPoints, node>>
     \/ Got /\ (Answer \notin DOMAIN Directory \/ "fopen" \in Faults) /\ NothingDone
     \/ AtEof /\ NothingDone

AskGradeId ==
  /\ pc = "menu" /\ at = "gradeId"
  /\ \/ /\ Got /\ szID' = Answer /\ at' = "gradeTask"
        /\ UNCHANGED <<vars, nums>>
     \/ AtEof /\ NothingDone

AskNumber(from, to) ==
  /\ pc = "menu" /\ at = from
  /\ \/ /\ Got /\ IsNumber
        /\ nums' = Append(nums, Number) /\ at' = to
        /\ UNCHANGED <<vars, szID>>
     \/ (AtEof \/ (Got /\ ~IsNumber)) /\ NothingDone

AskGradeTask   == AskNumber("gradeTask", "gradePoints")
AskGradePoints == AskNumber("gradePoints", "justification")

\* The checks of gradeTask.
Gradable(c, task, points) ==
  /\ c # NULL
  /\ task \in 1..iNumTasks
  /\ points \in 0..node[c].atTasks[task].iMaxPoints

\* A slip: the points are not compared with the maximum of the task.
Grade_NoMaximum ==
  /\ pc = "menu" /\ at = "justification"
  /\ \/ LET c == findCandidate(szID)
        IN  /\ Got
            /\ \/ /\ c # NULL /\ nums[1] \in 1..iNumTasks
                  /\ gradeTask(c, nums[1], nums[2])
                  /\ Back /\ UNCHANGED <<pc, lines, list, aiMaxPoints>>
               \/ ~Gradable(c, nums[1], nums[2]) /\ NothingDone
     \/ AtEof /\ NothingDone

\* A slip: the candidate is graded although no justification was read.
Grade_AtEof ==
  /\ pc = "menu" /\ at = "justification"
  /\ Got \/ AtEof
  /\ LET c == findCandidate(szID)
     IN  \/ /\ Gradable(c, nums[1], nums[2])
            /\ gradeTask(c, nums[1], nums[2])
            /\ Back /\ UNCHANGED <<pc, lines, list, aiMaxPoints>>
         \/ ~Gradable(c, nums[1], nums[2]) /\ NothingDone

Grade ==
  /\ pc = "menu" /\ at = "justification"
  /\ \/ LET c == findCandidate(szID)
        IN  /\ Got
            /\ \/ /\ Gradable(c, nums[1], nums[2])
                  /\ gradeTask(c, nums[1], nums[2])
                  /\ Back /\ UNCHANGED <<pc, lines, list, aiMaxPoints>>
               \/ ~Gradable(c, nums[1], nums[2]) /\ NothingDone
     \/ AtEof /\ NothingDone

\* menuPrintByGrade and menuPrintOne.
Report ==
  /\ pc = "menu" /\ at \in {"letter", "printId"}
  /\ Got \/ AtEof
  /\ NothingDone

Load == LoadLine /\ UNCHANGED <<dialogue, input>>

program ==
  \/ AskNumTasks \/ AskMaxPoints
  \/ Choose \/ AddManual \/ LoadFile \/ Load
  \/ AskGradeId \/ AskGradeTask \/ AskGradePoints \/ Grade
  \/ Report

Over == pc = "exit" /\ UNCHANGED menuVars

MenuNext == Type \/ program \/ Over

\* The program goes on whenever fgets returns; the user need not type.
MenuSpec == MenuInit /\ [][MenuNext]_menuVars /\ WF_menuVars(program)

(***************************************************************************)
(* Properties.                                                             *)
(***************************************************************************)
\* A line answers the prompt it was typed at and no other, unless it is too
\* long for the buffer of that prompt with its new line (task3_main.c line 70).
OneLineOneAnswer ==
  stdin # <<>> => \/ typed = [line |-> stdin, prompt |-> at]
                  \/ Len(typed.line) >= BufferSize(typed.prompt)

\* Whatever is typed, at whatever prompt, and in whatever order: all the
\* dialogues do to the list are the operations of GradingList, with numbers
\* that were checked.
ImplementsList == Spec

\* The input ends where a dialogue waits for an answer, or what it gets is no
\* number where it needs one.
CutShort ==
  \/ stdin = <<>> /\ eof
  \/ stdin # <<>> /\ at \in NumberPrompts /\ ~IsNumber

\* A dialogue cut short at any of its prompts changes no candidate, opens no file
\* and leaves no answer behind for the next one; what does change them is the
\* last answer of a dialogue, the line typed at that very prompt unless an
\* earlier line was too long (the returns of task3_main.c lines 35 to 85).
CutShortDoesNothing ==
  [][pc = "menu" =>
       /\ CutShort /\ at # "choice" => NothingDone
       /\ UNCHANGED vars \/ pc' = "exit" \/
            /\ at \in {"addId", "filename", "justification"}
            /\ stdin # <<>> /\ OneLineOneAnswer]_menuVars

\* After the end of the input no dialogue waits for ever: the program unwinds
\* to the menu, leaves, and gives back every candidate.
EndsAtEof == eof ~> (pc = "exit" /\ \A n \in Nodes : node[n] = Free)
=============================================================================

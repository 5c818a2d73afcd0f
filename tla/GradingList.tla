---------------------------- MODULE GradingList ----------------------------
(***************************************************************************)
(* The grading system of task3_307: the doubly linked list of candidates   *)
(* of task3_list.c, driven by the menu of task3_main.c.                    *)
(*                                                                         *)
(* A node of the list is an address; pHead and pTail and the fields pPrev  *)
(* and pNext hold addresses or NULL.  An ID is a sequence of characters.   *)
(* The justification of a grading is left out.                             *)
(***************************************************************************)
EXTENDS Integers, Sequences, FiniteSets

CONSTANTS
  Nodes,        \* addresses malloc may return
  MaxIdLen,     \* MAX_ID_LEN, 20 in the code
  MaxTasks,     \* MAX_TASKS, 10
  IntMax,       \* the greatest int, 2147483647
  TypedIds,     \* the IDs a user may enter: fgets cuts them to MaxIdLen - 1
  Files,        \* candidate files, as sequences of lines
  Maxima,       \* the numbers a user may enter for the maximum points
  Points,       \* .. and for the points of a task
  Tasks,        \* .. and for the task to grade
  Faults,       \* the calls that may fail
  NULL, Free

FaultNames == {"malloc", "fopen"}

Id   == Seq(STRING)
Task == [iPoints : Int, iMaxPoints : Int, iGraded : BOOLEAN]

Candidate ==
  [szCandidateID : Id, atTasks : Seq(Task), iScore : Int,
   pPrev : Nodes \cup {NULL}, pNext : Nodes \cup {NULL}]

ASSUME ConstantsAssumption ==
  /\ MaxIdLen \in Nat \ {0, 1}
  /\ MaxTasks \in Nat \ {0}
  /\ IntMax \in Nat
  /\ TypedIds \subseteq Id /\ \A id \in TypedIds : Len(id) < MaxIdLen
  /\ Files \subseteq Seq(Id)
  /\ Maxima \subseteq Int /\ Points \subseteq Int /\ Tasks \subseteq Int
  /\ Faults \subseteq FaultNames
  /\ IsFiniteSet(Nodes)
  /\ NULL \notin Nodes /\ Free \notin Candidate

VARIABLES
  pc,            \* "setup", "menu", "loading" a file, or "exit"
  lines,         \* the lines of the file not yet read
  pHead, pTail, iCount, aiMaxPoints,   \* the ExamList
  node           \* the memory: a Candidate for each address, or Free

list == <<pHead, pTail, iCount>>
vars == <<pc, lines, list, aiMaxPoints, node>>

iNumTasks == Len(aiMaxPoints)

Init ==
  /\ pc = "setup" /\ lines = <<>>
  /\ pHead = NULL /\ pTail = NULL /\ iCount = 0
  /\ aiMaxPoints = <<>>
  /\ node = [n \in Nodes |-> Free]

\* A slip: a task may be worth nothing.
setupExam_Zero ==
  /\ pc = "setup"
  /\ \/ \E n \in 1..MaxTasks : \E m \in [1..n -> Maxima \cap Nat] :
          pc' = "menu" /\ aiMaxPoints' = m
     \/ pc' = "exit" /\ UNCHANGED aiMaxPoints
  /\ UNCHANGED <<lines, list, node>>

\* A number out of range or none at all ends the program.
setupExam ==
  /\ pc = "setup"
  /\ \/ \E n \in 1..MaxTasks : \E m \in [1..n -> Maxima \cap (Nat \ {0})] :
          pc' = "menu" /\ aiMaxPoints' = m
     \/ pc' = "exit" /\ UNCHANGED aiMaxPoints
  /\ UNCHANGED <<lines, list, node>>

(***************************************************************************)
(* Walking the list.                                                       *)
(***************************************************************************)
\* The address n steps along pNext from head, for each n.
Steps(head, mem) ==
  LET step[n \in 0..Cardinality(Nodes)] ==
        IF n = 0 THEN head
        ELSE IF step[n - 1] \in Nodes THEN mem[step[n - 1]].pNext ELSE NULL
  IN  step

ChainOf(head, mem) ==
  LET reached == {n \in 1..Cardinality(Nodes) : Steps(head, mem)[n - 1] # NULL}
  IN  [n \in 1..Cardinality(reached) |-> Steps(head, mem)[n - 1]]

Chain == ChainOf(pHead, node)

Prefix(s, n) == SubSeq(s, 1, IF Len(s) < n THEN Len(s) ELSE n)

\* strncmp over MaxIdLen characters.
SameId(a, b) == Prefix(a, MaxIdLen) = Prefix(b, MaxIdLen)

Matches(id) == {i \in 1..Len(Chain) : SameId(node[Chain[i]].szCandidateID, id)}

\* The first candidate with the ID, or NULL.
findCandidate(id) ==
  IF Matches(id) = {} THEN NULL
  ELSE Chain[CHOOSE i \in Matches(id) : \A j \in Matches(id) : i <= j]

(***************************************************************************)
(* Operations.                                                             *)
(***************************************************************************)
\* A slip: the node is appended without its link back.
NewCandidate_NoPrev(id) ==
  [szCandidateID |-> Prefix(id, MaxIdLen - 1),
   atTasks |-> [t \in 1..iNumTasks |->
                  [iPoints |-> 0, iMaxPoints |-> aiMaxPoints[t],
                   iGraded |-> FALSE]],
   iScore |-> 0, pPrev |-> NULL, pNext |-> NULL]

NewCandidate(id) ==
  [szCandidateID |-> Prefix(id, MaxIdLen - 1),
   atTasks |-> [t \in 1..iNumTasks |->
                  [iPoints |-> 0, iMaxPoints |-> aiMaxPoints[t],
                   iGraded |-> FALSE]],
   iScore |-> 0, pPrev |-> pTail, pNext |-> NULL]

WithNext(c, next) == [c EXCEPT !.pNext = next]

\* Append to the tail; the search for duplicates is over the whole ID, what is
\* stored is cut to MaxIdLen - 1 characters.
addCandidate(id) ==
  \/ /\ findCandidate(id) = NULL
     /\ \E new \in {n \in Nodes : node[n] = Free} :
          /\ node' = [n \in Nodes |-> IF n = new THEN NewCandidate(id)
                                    ELSE IF n = pTail THEN WithNext(node[n], new)
                                    ELSE node[n]]
          /\ pHead' = IF pTail = NULL THEN new ELSE pHead
          /\ pTail' = new
     /\ iCount' = iCount + 1
  \/ /\ \/ findCandidate(id) # NULL
        \/ "malloc" \in Faults
        \/ \A n \in Nodes : node[n] # Free
     /\ UNCHANGED <<list, node>>

menuAddManual ==
  /\ pc = "menu"
  /\ \E id \in TypedIds : addCandidate(id)
  /\ UNCHANGED <<pc, lines, aiMaxPoints>>

menuLoadFile ==
  /\ pc = "menu"
  /\ \/ \E f \in Files : lines' = f /\ pc' = "loading"
     \/ "fopen" \in Faults /\ UNCHANGED <<pc, lines>>
  /\ UNCHANGED <<list, aiMaxPoints, node>>

\* Empty lines and comments.
Skipped(line) == Prefix(line, 1) \in {<<>>, <<"#">>, <<"\r">>}

\* One turn of the loop of loadFromFile.
LoadLine ==
  /\ pc = "loading"
  /\ \/ /\ lines = <<>>
        /\ pc' = "menu"
        /\ UNCHANGED <<lines, list, node>>
     \/ /\ lines # <<>>
        /\ lines' = Tail(lines)
        /\ \/ Skipped(Head(lines)) /\ UNCHANGED <<list, node>>
           \/ ~Skipped(Head(lines)) /\ addCandidate(Head(lines))
        /\ UNCHANGED pc
  /\ UNCHANGED aiMaxPoints

\* The value an int keeps of an integer.
Int32(n) ==
  LET m == n % (2 * (IntMax + 1))
  IN  IF m <= IntMax THEN m ELSE m - 2 * (IntMax + 1)

\* The numbers of a sequence added up, one after the other, in an int.
IntSums(s) ==
  LET sum[t \in 0..Len(s)] == IF t = 0 THEN 0 ELSE Int32(sum[t - 1] + s[t])
  IN  sum

IntSum(s) == IntSums(s)[Len(s)]

\* What an ungraded task adds, nothing, leaves the sum as it is.
updateScore(tasks) ==
  IntSum([t \in 1..Len(tasks) |-> IF tasks[t].iGraded THEN tasks[t].iPoints ELSE 0])

\* A slip: the points are added to the score, also when a task is graded again.
gradeTask_Adds(c, t, p) ==
  LET graded == [node[c].atTasks EXCEPT ![t] =
                   [@ EXCEPT !.iPoints = p, !.iGraded = TRUE]]
  IN  node' = [node EXCEPT ![c].atTasks = graded, ![c].iScore = @ + p]

gradeTask(c, t, p) ==
  LET graded == [node[c].atTasks EXCEPT ![t] =
                   [@ EXCEPT !.iPoints = p, !.iGraded = TRUE]]
  IN  node' = [node EXCEPT ![c] = [@ EXCEPT !.atTasks = graded,
                                            !.iScore = updateScore(graded)]]

\* A slip: the points are not compared with the maximum.
menuGradeTask_NoMaximum ==
  /\ pc = "menu"
  /\ \E id \in TypedIds, t \in Tasks, p \in Points :
       LET c == findCandidate(id)
       IN  /\ c # NULL
           /\ t \in 1..iNumTasks
           /\ p >= 0
           /\ gradeTask(c, t, p)
  /\ UNCHANGED <<pc, lines, list, aiMaxPoints>>

\* What the user enters is checked before anything is changed.
menuGradeTask ==
  /\ pc = "menu"
  /\ \E id \in TypedIds, t \in Tasks, p \in Points :
       LET c == findCandidate(id)
       IN  /\ c # NULL
           /\ t \in 1..iNumTasks
           /\ p >= 0 /\ p <= node[c].atTasks[t].iMaxPoints
           /\ gradeTask(c, t, p)
  /\ UNCHANGED <<pc, lines, list, aiMaxPoints>>

freeList ==
  /\ node' = [n \in Nodes |-> IF \E i \in 1..Len(Chain) : Chain[i] = n THEN Free ELSE node[n]]
  /\ pHead' = NULL /\ pTail' = NULL /\ iCount' = 0

Exit ==
  /\ pc = "menu"
  /\ pc' = "exit"
  /\ freeList
  /\ UNCHANGED <<lines, aiMaxPoints>>

Ended == pc = "exit" /\ UNCHANGED vars

Next == setupExam \/ menuAddManual \/ menuLoadFile \/ LoadLine \/ menuGradeTask \/ Exit \/ Ended

Spec == Init /\ [][Next]_vars

(***************************************************************************)
(* Reports.                                                                *)
(***************************************************************************)
\* Division that truncates towards zero.
Div(a, b) == IF a >= 0 THEN a \div b ELSE -((-a) \div b)

calcTotalMax == IntSum(aiMaxPoints)

Letters == <<[letter |-> "A", from |-> 90], [letter |-> "B", from |-> 80],
             [letter |-> "C", from |-> 65], [letter |-> "D", from |-> 50],
             [letter |-> "E", from |-> 40]>>

\* A slip: the thresholds are tried from the lowest up.
calcGrade_Reversed(score, total) ==
  LET percent == Div(Int32(score * 100), total)
      reached == {i \in DOMAIN Letters : percent >= Letters[i].from}
  IN  IF total <= 0 \/ reached = {} THEN "F"
      ELSE Letters[CHOOSE i \in reached : \A j \in reached : i >= j].letter

calcGrade(score, total) ==
  LET percent == Div(Int32(score * 100), total)
      reached == {i \in DOMAIN Letters : percent >= Letters[i].from}
  IN  IF total <= 0 \/ reached = {} THEN "F"
      ELSE Letters[CHOOSE i \in reached : \A j \in reached : i <= j].letter

GradeOf(n) == calcGrade(node[n].iScore, calcTotalMax)

isFullyGraded(n) == \A t \in DOMAIN node[n].atTasks : node[n].atTasks[t].iGraded

\* The places in the list of the candidates each report shows.
printByGrade(letter) == {i \in DOMAIN Chain : GradeOf(Chain[i]) = letter}
printUngraded        == {i \in DOMAIN Chain : ~isFullyGraded(Chain[i])}

(***************************************************************************)
(* Properties.                                                             *)
(***************************************************************************)
Allocated == {n \in Nodes : node[n] # Free}
Listed    == {Chain[i] : i \in DOMAIN Chain}

TypeOK ==
  /\ pc \in {"setup", "menu", "loading", "exit"}
  /\ lines \in Seq(Id)
  /\ {pHead, pTail} \subseteq Nodes \cup {NULL}
  /\ iCount \in Nat
  /\ aiMaxPoints \in Seq(Nat \ {0}) /\ iNumTasks <= MaxTasks
  /\ node \in [Nodes -> Candidate \cup {Free}]
  /\ \A n \in Allocated : /\ Len(node[n].szCandidateID) < MaxIdLen
                          /\ Len(node[n].atTasks) = iNumTasks

\* The links agree: forwards from pHead and backwards from pTail lie the same
\* candidates, iCount of them, and they are all that was allocated and not
\* freed; so freeList at exit frees everything, once.
ListWellFormed ==
  /\ Len(Chain) = iCount /\ Cardinality(Listed) = iCount
  /\ Listed = Allocated
  /\ \A i \in DOMAIN Chain :
       node[Chain[i]].pPrev = IF i = 1 THEN NULL ELSE Chain[i - 1]
  /\ pTail = IF Chain = <<>> THEN NULL ELSE Chain[Len(Chain)]

\* "Reject duplicate IDs" (task3_list.c line 87): no two candidates of the list
\* have the same ID, however they were added.
IdsDistinct ==
  \A a, b \in Allocated : a # b => node[a].szCandidateID # node[b].szCandidateID

\* The sums without an int.
Sums(s) ==
  LET sum[t \in 0..Len(s)] == IF t = 0 THEN 0 ELSE sum[t - 1] + s[t]
  IN  sum

Sum(s) == Sums(s)[Len(s)]

\* After any sequence of gradings and regradings a score is the sum of what the
\* tasks show, and never more than the maximum of the exam.
ScoreWithinTotal ==
  \A n \in Allocated :
    LET tasks == node[n].atTasks
    IN  /\ node[n].iScore = Sum([t \in 1..Len(tasks) |-> tasks[t].iPoints])
        /\ node[n].iScore <= calcTotalMax

\* The letter of a share of the maximum, with nothing rounded.
ExactGrade(score, total) ==
  LET reached == {i \in DOMAIN Letters : score * 100 >= Letters[i].from * total}
  IN  IF reached = {} THEN "F" ELSE Letters[CHOOSE i \in reached : \A j \in reached : i <= j].letter

\* "Returns letter grade A-F based on score percentage" (task3_list.c line 235):
\* rounding the percentage down to an int moves no score of the exam across a
\* threshold, and the reports of the six letters show each candidate once.
GradeFollowsScore ==
  /\ pc = "menu" => \A score \in 0..calcTotalMax :
       calcGrade(score, calcTotalMax) = ExactGrade(score, calcTotalMax)
  /\ \A i \in DOMAIN Chain :
       {l \in {"A", "B", "C", "D", "E", "F"} : i \in printByGrade(l)}
         = {ExactGrade(node[Chain[i]].iScore, calcTotalMax)}

\* The linked list and the menu do to the candidates what GradeBook describes.
Ungraded == -1

Recorded ==
  [i \in 1..Len(Chain) |->
     [id    |-> node[Chain[i]].szCandidateID,
      marks |-> [t \in 1..iNumTasks |->
                   IF node[Chain[i]].atTasks[t].iGraded
                   THEN node[Chain[i]].atTasks[t].iPoints ELSE Ungraded]]]

Book == INSTANCE GradeBook WITH
          Ids <- Id, book <- Recorded, maxima <- aiMaxPoints, over <- pc = "exit"

ImplementsBook == Book!Spec
=============================================================================

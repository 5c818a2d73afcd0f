----------------------------- MODULE GradeBook -----------------------------
(***************************************************************************)
(* What the grading system of task 3 promises, without its linked list: a  *)
(* book of candidates in the order they came, each ID once, with the       *)
(* points of every task graded so far.  GradingList implements it.         *)
(***************************************************************************)
EXTENDS Integers, Sequences

CONSTANTS Ids, Ungraded

VARIABLES
  book,      \* the candidates, as records of an ID and the points per task
  maxima,    \* the maximum of each task
  over

vars == <<book, maxima, over>>

Init == book = <<>> /\ maxima = <<>> /\ over = FALSE

Setup ==
  /\ ~over /\ maxima = <<>>
  /\ maxima' \in Seq(Nat \ {0}) /\ maxima' # <<>>
  /\ UNCHANGED <<book, over>>

Enrol ==
  /\ ~over /\ maxima # <<>>
  /\ Len(book') = Len(book) + 1
  /\ LET last == book'[Len(book')]
     IN  /\ book' = Append(book, last)
         /\ last.id \in Ids
         /\ \A i \in 1..Len(book) : book[i].id # last.id
         /\ last.marks = [t \in 1..Len(maxima) |-> Ungraded]
  /\ UNCHANGED <<maxima, over>>

Grade ==
  /\ ~over
  /\ \E i \in 1..Len(book), t \in 1..Len(maxima) :
       \E p \in 0..maxima[t] : book' = [book EXCEPT ![i].marks[t] = p]
  /\ UNCHANGED <<maxima, over>>

Close ==
  /\ ~over
  /\ over' = TRUE /\ book' = <<>>
  /\ UNCHANGED maxima

Next == Setup \/ Enrol \/ Grade \/ Close

Spec == Init /\ [][Next]_vars
=============================================================================

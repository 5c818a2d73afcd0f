------------------------- MODULE GradingMenuProofs -------------------------
(***************************************************************************)
(* Proofs about GradingMenu.  The user may type any ID that fits the       *)
(* buffer for IDs, and any number.                                         *)
(***************************************************************************)
EXTENDS GradingMenu, GradingListProofs

AnyAnswer ==
  /\ \A id \in Id : Len(id) < MaxIdLen => id \in TypedIds
  /\ Nat \subseteq Maxima /\ Nat \subseteq Points /\ Nat \subseteq Tasks

(***************************************************************************)
(* fgets and sscanf.                                                       *)
(***************************************************************************)
LEMMA BufferSizeIs ==
  ASSUME NEW p \in Prompts
  PROVE  /\ BufferSize(p) \in Nat \ {0, 1}
         /\ p \in IdPrompts => BufferSize(p) = MaxIdLen
<1>1. /\ MaxIdLen \in Nat \ {0, 1} /\ Sizes["number"] \in Nat \ {0, 1}
      /\ p \in OtherPrompts => Sizes[p] \in Nat \ {0, 1}
  BY ConstantsAssumption, DialogueAssumption
<1>2. p \in IdPrompts => p \notin NumberPrompts BY DEF IdPrompts, NumberPrompts
<1>3. p \in IdPrompts \/ p \in NumberPrompts \/ p \in OtherPrompts BY DEF Prompts
<1>4. CASE p \in IdPrompts
  <2>1. BufferSize(p) = MaxIdLen BY <1>2, <1>4, Zenon DEF BufferSize
  <2> QED BY <1>1, <2>1
<1>5. CASE p \in NumberPrompts
  <2>1. BufferSize(p) = Sizes["number"] BY <1>2, <1>5, Zenon DEF BufferSize
  <2> QED BY <1>1, <1>2, <1>5, <2>1
<1>6. CASE p \notin IdPrompts /\ p \notin NumberPrompts
  <2>1. BufferSize(p) = Sizes[p] BY <1>6, Zenon DEF BufferSize
  <2> QED BY <1>1, <1>3, <1>6, <2>1
<1> QED BY <1>4, <1>5, <1>6

LEMMA szBufIs ==
  ASSUME stdin \in Id, stdin # <<>>, at \in Prompts
  PROVE  /\ szBuf \in Id /\ Len(szBuf) \in Nat \ {0} /\ Len(stdin) \in Nat
         /\ Len(szBuf) <= Len(stdin) /\ Len(szBuf) < BufferSize(at)
         /\ Len(szBuf) # Len(stdin) => Len(stdin) >= BufferSize(at)
<1>1. BufferSize(at) - 1 \in Nat \ {0} /\ BufferSize(at) \in Nat BY BufferSizeIs
<1>2. stdin \in Seq(STRING) /\ Len(stdin) \in Nat /\ Len(stdin) # 0 BY DEF Id
<1>3. /\ szBuf \in Seq(STRING)
      /\ Len(szBuf) = IF Len(stdin) < BufferSize(at) - 1 THEN Len(stdin)
                      ELSE BufferSize(at) - 1
  BY <1>1, <1>2, PrefixIs DEF szBuf
<1> QED BY <1>1, <1>2, <1>3 DEF Id

\* What fgets leaves is the rest of the line.
LEMMA GotRest ==
  ASSUME stdin \in Id, at \in Prompts, Got
  PROVE  /\ stdin' \in Id
         /\ stdin' # <<>> => Len(stdin) >= BufferSize(at) /\ typed' = typed
<1>1. stdin # <<>> BY DEF Got
<1>2. /\ Len(szBuf) \in Nat \ {0} /\ Len(stdin) \in Nat
      /\ Len(szBuf) <= Len(stdin)
      /\ Len(szBuf) # Len(stdin) => Len(stdin) >= BufferSize(at)
  BY <1>1, szBufIs
<1>3. stdin' = SubSeq(stdin, Len(szBuf) + 1, Len(stdin)) BY DEF Got
<1>4. stdin \in Seq(STRING) BY DEF Id
<1>5. \A i \in Len(szBuf)+1..Len(stdin) : stdin[i] \in STRING BY <1>2, <1>4
<1>6. /\ stdin' \in Seq(STRING)
      /\ Len(stdin') = IF Len(szBuf) + 1 <= Len(stdin)
                       THEN Len(stdin) - (Len(szBuf) + 1) + 1 ELSE 0
  BY <1>2, <1>3, <1>4, <1>5, SubSeqProperties
<1>7. stdin' # <<>> => Len(szBuf) # Len(stdin)
  BY <1>2, <1>6
<1> QED BY <1>2, <1>6, <1>7 DEF Id, Got

\* An ID that is read fits its array.
LEMMA AnswerIs ==
  ASSUME stdin \in Id, stdin # <<>>, at \in IdPrompts
  PROVE  Answer \in Id /\ Len(Answer) < MaxIdLen
<1>1. at \in Prompts /\ BufferSize(at) = MaxIdLen /\ MaxIdLen \in Nat
  BY BufferSizeIs, ConstantsAssumption DEF Prompts
<1>2. szBuf \in Seq(STRING) /\ Len(szBuf) \in Nat \ {0} /\ Len(szBuf) < MaxIdLen
  BY <1>1, szBufIs DEF Id
<1> DEFINE m == Len(szBuf) - 1
<1>3. SubSeq(szBuf, 1, m) \in Seq(STRING) /\ Len(SubSeq(szBuf, 1, m)) = m
  <2>1. m \in Nat /\ \A i \in 1..m : szBuf[i] \in STRING BY <1>2
  <2> HIDE DEF m
  <2>2. /\ SubSeq(szBuf, 1, m) \in Seq(STRING)
        /\ Len(SubSeq(szBuf, 1, m)) = IF 1 <= m THEN m - 1 + 1 ELSE 0
    BY <1>2, <2>1, SubSeqProperties
  <2> QED BY <2>1, <2>2
<1>4. Answer = szBuf \/ Answer = SubSeq(szBuf, 1, m) BY DEF Answer
<1>5. CASE Answer = szBuf BY <1>2, <1>5 DEF Id
<1>6. CASE Answer = SubSeq(szBuf, 1, m)
  <2>1. Len(Answer) = m /\ m < MaxIdLen BY <1>1, <1>2, <1>3, <1>6
  <2> QED BY <1>3, <1>6, <2>1 DEF Id
<1> QED BY <1>4, <1>5, <1>6

LEMMA DigitType ==
  ASSUME NEW char, \E d \in 0..9 : Numerals[d + 1] = char
  PROVE  DigitOf(char) \in Nat
BY DEF DigitOf

\* The digits are the first characters, as many as they are.
LEMMA DigitsAre ==
  ASSUME szBuf \in Id
  PROVE  Cardinality(Digits) \in Nat /\ Digits = 1..Cardinality(Digits)
<1> DEFINE n == Len(szBuf)
           T == {k \in 1..n+1 : k \notin Digits}
<1>1. n \in Nat BY DEF Id
<1>2. Digits \subseteq 1..n BY DEF Digits
<1>3. n + 1 \in T BY <1>1, <1>2
<1>4. PICK m \in T : \A k \in T : m <= k
  <2>1. T \in SUBSET Nat BY <1>1
  <2> HIDE DEF T
  <2> QED BY <1>3, <2>1, LeastNat
<1>5. \A k \in 1..m-1 : k \in Digits BY <1>1, <1>4
<1>6. \A k \in Digits : k <= m - 1
  <2> SUFFICES ASSUME NEW k \in Digits, m <= k PROVE FALSE
    BY <1>1, <1>2, <1>4
  <2>1. m \in 1..n /\ \A j \in 1..m : j \in 1..k BY <1>1, <1>2, <1>4
  <2>2. m \in Digits BY <2>1 DEF Digits
  <2> QED BY <1>4, <2>2
<1>7. Digits = 1..m-1
  <2>1. m \in Nat BY <1>1, <1>4
  <2>2. \A k \in Digits : k \in 1..m-1 BY <1>1, <1>2, <1>6, <2>1
  <2> QED BY <1>5, <2>2
<1>8. m - 1 \in Nat /\ Cardinality(1..m-1) = m - 1 BY <1>1, <1>4, SizeUpTo
<1> QED BY <1>7, <1>8

LEMMA NumberType ==
  ASSUME szBuf \in Id
  PROVE  Number \in Nat
<1> DEFINE n == Cardinality(Digits)
           next == [p \in (1..n) \X Nat |-> 10 * p[2] + DigitOf(szBuf[p[1]])]
           Unfolds(f) ==
             f = [j \in 0..n |-> IF j = 0 THEN 0 ELSE 10 * f[j - 1] + DigitOf(szBuf[j])]
<1>1. n \in Nat /\ Digits = 1..n BY DigitsAre
<1>2. \A j \in 1..n : DigitOf(szBuf[j]) \in Nat
  <2> TAKE j \in 1..n
  <2>1. j \in Digits /\ j \in 1..j BY <1>1
  <2> QED BY <2>1, DigitType DEF Digits
<1> HIDE DEF n
<1>3. next \in [(1..n) \X Nat -> Nat] BY <1>2
<1>4. \E f : Follows(f, n, Nat, 0, next)
  <2> DEFINE N == n
             Z == Nat
  <2>1. N \in Nat /\ 0 \in Z /\ next \in [(1..N) \X Z -> Z] BY <1>1, <1>3
  <2> HIDE DEF next, N, Z
  <2>2. \E f : Follows(f, N, Z, 0, next) BY <2>1, RecursionUpTo
  <2> QED BY <2>2 DEF N, Z
<1>5. PICK f : Follows(f, n, Nat, 0, next) BY <1>4
<1>6. \A j \in 1..n : f[j] = 10 * f[j - 1] + DigitOf(szBuf[j])
  <2> TAKE j \in 1..n
  <2>1. f[j - 1] \in Nat BY <1>1, <1>5 DEF Follows
  <2>2. <<j, f[j - 1]>> \in (1..n) \X Nat BY <2>1
  <2> QED BY <1>5, <2>2 DEF Follows
<1>7. Unfolds(f)
  <2> HIDE DEF next
  <2> QED BY <1>1, <1>5, <1>6 DEF Follows
<1>8. Values = CHOOSE g : Unfolds(g) BY DEF Values, n
<1>9. Unfolds(Values)
  <2> HIDE DEF Unfolds
  <2> QED BY <1>7, <1>8
<1> DEFINE S == {j \in 0..n : Values[j] \in Nat}
<1>10. 0 \in S BY <1>1, <1>9
<1>11. ASSUME NEW j \in 0..n-1, j \in S PROVE j + 1 \in S
  <2>1. j + 1 \in 1..n /\ (j + 1) - 1 = j /\ j + 1 \in 0..n BY <1>1
  <2>2. Values[j + 1] = 10 * Values[j] + DigitOf(szBuf[j + 1])
    BY <1>1, <1>9, <2>1
  <2>3. Values[j] \in Nat /\ DigitOf(szBuf[j + 1]) \in Nat BY <1>2, <1>11, <2>1
  <2> QED BY <2>1, <2>2, <2>3
<1>12. 0..n \subseteq S
  <2> HIDE DEF S
  <2> QED BY <1>1, <1>10, <1>11, UpTo
<1>13. n \in 0..n BY <1>1
<1> QED BY <1>12, <1>13 DEF Number, n

(***************************************************************************)
(* The dialogues.                                                          *)
(***************************************************************************)
\* The maxima read so far, after the number of tasks.
ReadMaxima ==
  /\ nums \in Seq(Nat) /\ Len(nums) >= 1
  /\ nums[1] \in 1..MaxTasks /\ Len(nums) <= nums[1]
  /\ \A i \in 2..Len(nums) : nums[i] # 0

\* What each prompt finds in the locals of its dialogue.
Dialogue ==
  /\ at \in Prompts
  /\ at = "maxPoints" => ReadMaxima
  /\ at \notin {"maxPoints", "gradePoints", "justification"} => nums = <<>>
  /\ at = "gradePoints" => nums \in Seq(Nat) /\ Len(nums) = 1
  /\ at = "justification" => nums \in Seq(Nat) /\ Len(nums) = 2
  /\ at \in {"gradeTask", "gradePoints", "justification"} =>
       szID \in Id /\ Len(szID) < MaxIdLen

MInv == stdin \in Id /\ Dialogue /\ OneLineOneAnswer

LEMMA InputKeeps ==
  ASSUME MInv, Got \/ AtEof
  PROVE  stdin' \in Id /\ OneLineOneAnswer'
<1>1. stdin \in Id /\ at \in Prompts BY DEF MInv, Dialogue
<1>2. CASE AtEof BY <1>1, <1>2 DEF AtEof, input, OneLineOneAnswer
<1>3. CASE Got
  <2>1. stdin # <<>> BY <1>3 DEF Got
  <2>2. stdin' \in Id /\ (stdin' # <<>> => Len(stdin) >= BufferSize(at) /\ typed' = typed)
    BY <1>1, <1>3, GotRest
  <2>3. typed = [line |-> stdin, prompt |-> at] \/ Len(typed.line) >= BufferSize(typed.prompt)
    BY <2>1 DEF MInv, OneLineOneAnswer
  <2>4. stdin' # <<>> => Len(typed'.line) >= BufferSize(typed'.prompt)
    BY <2>2, <2>3
  <2>5. \A p : (BufferSize(p))' = BufferSize(p) BY DEF BufferSize
  <2> QED BY <2>2, <2>4, <2>5 DEF OneLineOneAnswer
<1> QED BY <1>2, <1>3

LEMMA TypeKeeps ==
  ASSUME MInv, Type
  PROVE  MInv'
<1>1. stdin' \in Id
  <2>1. at \in Prompts BY DEF MInv, Dialogue
  <2>2. Lines[at] \subseteq Id /\ LastLines \subseteq Id BY <2>1, DialogueAssumption
  <2> QED BY <2>2 DEF Type
<1>2. Dialogue' BY DEF MInv, Dialogue, ReadMaxima, Type, dialogue
<1>3. OneLineOneAnswer' BY DEF OneLineOneAnswer, Type, dialogue
<1> QED BY <1>1, <1>2, <1>3 DEF MInv

\* What is read at a prompt: a number, and an ID where one is asked for.
LEMMA AnswerTypes ==
  ASSUME MInv, Got
  PROVE  /\ Number \in Nat
         /\ at \in IdPrompts => Answer \in Id /\ Len(Answer) < MaxIdLen
<1>1. stdin \in Id /\ stdin # <<>> /\ at \in Prompts BY DEF MInv, Dialogue, Got
<1>2. szBuf \in Id BY <1>1, szBufIs
<1> QED BY <1>1, <1>2, NumberType, AnswerIs

LEMMA AskNumTasksKeeps ==
  ASSUME MInv, AskNumTasks
  PROVE  MInv' /\ (setupExam \/ UNCHANGED vars)
<1>1. stdin' \in Id /\ OneLineOneAnswer' BY InputKeeps DEF AskNumTasks
<1>2. CASE Got /\ Number \in 1..MaxTasks /\ nums' = <<Number>> /\ at' = "maxPoints"
           /\ UNCHANGED <<vars, szID>>
  <2>1. Number \in Nat BY <1>2, AnswerTypes
  <2>2. /\ nums' \in Seq(Nat) /\ Len(nums') = 1 /\ nums'[1] = Number
    BY <1>2, <2>1
  <2>3. ReadMaxima' BY <1>2, <2>1, <2>2 DEF ReadMaxima
  <2>4. Dialogue' BY <1>2, <2>3 DEF Dialogue, Prompts, NumberPrompts
  <2> QED BY <1>1, <1>2, <2>4 DEF MInv
<1>3. CASE SetupFails
  <2>1. Dialogue' BY <1>3 DEF SetupFails, dialogue, MInv, Dialogue, ReadMaxima
  <2>2. setupExam BY <1>3 DEF SetupFails, setupExam, AskNumTasks
  <2> QED BY <1>1, <2>1, <2>2 DEF MInv
<1> QED BY <1>2, <1>3 DEF AskNumTasks

LEMMA AskMaxPointsKeeps ==
  ASSUME MInv, AskMaxPoints
  PROVE  MInv' /\ (AnyAnswer => setupExam \/ UNCHANGED vars)
<1>1. stdin' \in Id /\ OneLineOneAnswer' BY InputKeeps DEF AskMaxPoints
<1>2. at = "maxPoints" /\ pc = "setup" /\ ReadMaxima
  BY DEF AskMaxPoints, MInv, Dialogue
<1>3. Len(nums) \in Nat /\ nums[1] \in Nat /\ nums[1] \in 1..MaxTasks
  BY <1>2, ConstantsAssumption DEF ReadMaxima
<1>4. CASE Got /\ Number >= 1 /\ Len(nums) < nums[1] /\ nums' = Append(nums, Number)
           /\ UNCHANGED <<pc, at, aiMaxPoints, lines, list, node, szID>>
  <2>1. Number \in Nat BY <1>4, AnswerTypes
  <2>2. /\ nums' \in Seq(Nat) /\ Len(nums') = Len(nums) + 1
        /\ \A i \in 1..Len(nums) : nums'[i] = nums[i]
        /\ nums'[Len(nums) + 1] = Number
    BY <1>2, <1>4, <2>1, AppendProperties DEF ReadMaxima
  <2>3. 1 \in 1..Len(nums) BY <1>2, <1>3 DEF ReadMaxima
  <2>4. \A i \in 2..Len(nums') : nums'[i] # 0
    <3> TAKE i \in 2..Len(nums')
    <3>1. i \in 2..Len(nums) \/ i = Len(nums) + 1 BY <1>3, <2>2
    <3>2. i \in 2..Len(nums) => i \in 1..Len(nums) /\ nums[i] # 0
      BY <1>2, <1>3 DEF ReadMaxima
    <3> QED BY <1>4, <2>1, <2>2, <3>1, <3>2
  <2>5. ReadMaxima' BY <1>2, <1>3, <1>4, <2>2, <2>3, <2>4 DEF ReadMaxima
  <2>6. Dialogue' BY <1>2, <1>4, <2>5 DEF Dialogue, Prompts, NumberPrompts
  <2> QED BY <1>1, <1>4, <2>6 DEF MInv, vars
<1>5. CASE Got /\ Number >= 1 /\ Len(nums) = nums[1]
           /\ aiMaxPoints' = Append(Tail(nums), Number)
           /\ nums' = <<>> /\ at' = "choice" /\ pc' = "menu"
           /\ UNCHANGED <<lines, list, node, szID>>
  <2>1. Number \in Nat BY <1>5, AnswerTypes
  <2>2. /\ Tail(nums) \in Seq(Nat) /\ Len(Tail(nums)) = Len(nums) - 1
        /\ \A i \in 1..Len(Tail(nums)) : Tail(nums)[i] = nums[i + 1]
    BY <1>2, <1>3, HeadTailProperties DEF ReadMaxima
  <2>3. /\ aiMaxPoints' \in Seq(Nat) /\ Len(aiMaxPoints') = Len(nums)
        /\ \A i \in 1..Len(nums)-1 : aiMaxPoints'[i] = nums[i + 1]
        /\ aiMaxPoints'[Len(nums)] = Number
    BY <1>3, <1>5, <2>1, <2>2, AppendProperties
  <2>4. AnyAnswer =>
          \A i \in 1..Len(nums) : aiMaxPoints'[i] \in Maxima \cap (Nat \ {0})
    <3> HAVE AnyAnswer
    <3> TAKE i \in 1..Len(nums)
    <3>1. i \in 1..Len(nums)-1 \/ i = Len(nums) BY <1>3
    <3>2. CASE i = Len(nums) BY <1>5, <2>1, <2>3, <3>2 DEF AnyAnswer
    <3>3. CASE i \in 1..Len(nums)-1
      <4>1. i + 1 \in 2..Len(nums) /\ i + 1 \in 1..Len(nums) BY <1>3, <3>3
      <4>2. nums[i + 1] # 0 /\ nums[i + 1] \in Nat BY <1>2, <4>1 DEF ReadMaxima
      <4> QED BY <2>3, <3>3, <4>2 DEF AnyAnswer
    <3> QED BY <3>1, <3>2, <3>3
  <2>5. AnyAnswer => aiMaxPoints' \in [1..Len(nums) -> Maxima \cap (Nat \ {0})]
    <3>1. aiMaxPoints' = [i \in 1..Len(nums) |-> aiMaxPoints'[i]] BY <2>3
    <3> QED BY <2>4, <3>1
  <2>6. AnyAnswer => setupExam
    <3>1. Len(nums) \in 1..MaxTasks BY <1>3, <1>5
    <3> QED BY <1>2, <1>5, <2>5, <3>1 DEF setupExam
  <2>7. Dialogue' BY <1>5 DEF Dialogue, Prompts, OtherPrompts
  <2> QED BY <1>1, <2>6, <2>7 DEF MInv
<1>6. CASE SetupFails
  <2>1. Dialogue' BY <1>6 DEF SetupFails, dialogue, MInv, Dialogue, ReadMaxima
  <2>2. setupExam BY <1>6 DEF SetupFails, setupExam, AskMaxPoints
  <2> QED BY <1>1, <2>1, <2>2 DEF MInv
<1> QED BY <1>4, <1>5, <1>6 DEF AskMaxPoints

\* A dialogue that is over leaves no locals.
LEMMA BackKeeps ==
  ASSUME MInv, Got \/ AtEof, Back
  PROVE  MInv'
<1>1. stdin' \in Id /\ OneLineOneAnswer' BY InputKeeps
<1>2. Dialogue' BY DEF Back, Dialogue, Prompts, OtherPrompts
<1> QED BY <1>1, <1>2 DEF MInv

LEMMA ChooseKeeps ==
  ASSUME MInv, Choose
  PROVE  MInv' /\ (Exit \/ UNCHANGED vars)
<1>1. stdin' \in Id /\ OneLineOneAnswer' BY InputKeeps DEF Choose
<1>2. at = "choice" /\ nums = <<>> /\ pc = "menu" BY DEF Choose, MInv, Dialogue
<1>3. CASE Number \in DOMAIN Opens /\ at' = Opens[Number] /\ UNCHANGED <<vars, nums, szID>>
  <2>1. at' \in {"addId", "filename", "gradeId", "choice", "letter", "printId"}
    BY <1>3 DEF Opens
  <2>2. Dialogue' BY <1>2, <1>3, <2>1 DEF Dialogue, Prompts, IdPrompts, OtherPrompts
  <2> QED BY <1>1, <1>3, <2>2 DEF MInv
<1>4. CASE UNCHANGED <<vars, dialogue>>
  <2>1. Dialogue' BY <1>4 DEF MInv, Dialogue, ReadMaxima, dialogue
  <2> QED BY <1>1, <1>4, <2>1 DEF MInv
<1>5. CASE Leave
  <2>1. Dialogue' BY <1>5 DEF MInv, Dialogue, ReadMaxima, dialogue, Leave
  <2>2. Exit BY <1>2, <1>5 DEF Exit, Leave
  <2> QED BY <1>1, <2>1, <2>2 DEF MInv
<1> QED BY <1>3, <1>4, <1>5 DEF Choose

LEMMA AddManualKeeps ==
  ASSUME MInv, AddManual
  PROVE  MInv' /\ (AnyAnswer => menuAddManual \/ UNCHANGED vars)
<1>1. MInv' BY BackKeeps DEF AddManual, NothingDone
<1>2. CASE Got /\ addCandidate(Answer) /\ UNCHANGED <<pc, lines, aiMaxPoints>>
  <2>1. AnyAnswer => Answer \in TypedIds
    BY <1>2, AnswerTypes DEF AddManual, IdPrompts, AnyAnswer
  <2> QED BY <1>1, <1>2, <2>1 DEF menuAddManual, AddManual
<1> QED BY <1>1, <1>2 DEF AddManual, NothingDone

LEMMA LoadFileKeeps ==
  ASSUME MInv, LoadFile
  PROVE  MInv' /\ (menuLoadFile \/ UNCHANGED vars)
<1>1. MInv' BY BackKeeps DEF LoadFile, NothingDone
<1>2. CASE Answer \in DOMAIN Directory /\ lines' = Directory[Answer] /\ pc' = "loading"
           /\ UNCHANGED <<list, aiMaxPoints, node>>
  <2>1. Directory[Answer] \in Files BY <1>2, DialogueAssumption
  <2> QED BY <1>1, <1>2, <2>1 DEF menuLoadFile, LoadFile
<1> QED BY <1>1, <1>2 DEF LoadFile, NothingDone

LEMMA AskGradeIdKeeps ==
  ASSUME MInv, AskGradeId
  PROVE  MInv' /\ UNCHANGED vars
<1>1. CASE NothingDone /\ AtEof BY <1>1, BackKeeps DEF NothingDone
<1>2. CASE Got /\ szID' = Answer /\ at' = "gradeTask" /\ UNCHANGED <<vars, nums>>
  <2>1. stdin' \in Id /\ OneLineOneAnswer' BY <1>2, InputKeeps
  <2>2. szID' \in Id /\ Len(szID') < MaxIdLen /\ nums = <<>>
    BY <1>2, AnswerTypes DEF AskGradeId, IdPrompts, MInv, Dialogue
  <2>3. Dialogue' BY <1>2, <2>2 DEF Dialogue, Prompts, NumberPrompts
  <2> QED BY <1>2, <2>1, <2>3 DEF MInv
<1> QED BY <1>1, <1>2 DEF AskGradeId

LEMMA AskNumberKeeps ==
  ASSUME MInv, AskGradeTask \/ AskGradePoints
  PROVE  MInv' /\ UNCHANGED vars
<1>1. CASE NothingDone /\ (AtEof \/ Got) BY <1>1, BackKeeps DEF NothingDone
<1>2. ASSUME Got, nums' = Append(nums, Number), UNCHANGED <<vars, szID>>,
             \/ at = "gradeTask" /\ at' = "gradePoints"
             \/ at = "gradePoints" /\ at' = "justification"
      PROVE  MInv'
  <2>1. stdin' \in Id /\ OneLineOneAnswer' BY <1>2, InputKeeps
  <2>2. Number \in Nat BY <1>2, AnswerTypes
  <2>3. nums \in Seq(Nat) /\ Len(nums) = IF at = "gradeTask" THEN 0 ELSE 1
    <3>1. at = "gradeTask" => nums = <<>> BY DEF MInv, Dialogue
    <3>2. at = "gradePoints" => nums \in Seq(Nat) /\ Len(nums) = 1 BY DEF MInv, Dialogue
    <3>3. <<>> \in Seq(Nat) /\ Len(<<>>) = 0 OBVIOUS
    <3>4. CASE at = "gradeTask"
      <4>1. nums = <<>> BY <3>1, <3>4
      <4>2. nums \in Seq(Nat) /\ Len(nums) = 0 BY <3>3, <4>1, Zenon
      <4> QED BY <3>4, <4>2
    <3>5. CASE at = "gradePoints" BY <3>2, <3>5
    <3> QED BY <1>2, <3>4, <3>5
  <2>4. nums' \in Seq(Nat) /\ Len(nums') = Len(nums) + 1 BY <1>2, <2>2, <2>3
  <2>5. szID' \in Id /\ Len(szID') < MaxIdLen BY <1>2 DEF MInv, Dialogue
  <2>6. Dialogue' BY <1>2, <2>3, <2>4, <2>5 DEF Dialogue, Prompts, NumberPrompts, OtherPrompts
  <2> QED BY <2>1, <2>6 DEF MInv
<1> QED BY <1>1, <1>2 DEF AskGradeTask, AskGradePoints, AskNumber, NothingDone

LEMMA GradeKeeps ==
  ASSUME MInv, Grade
  PROVE  MInv' /\ (AnyAnswer => menuGradeTask \/ UNCHANGED vars)
<1>1. MInv' BY BackKeeps DEF Grade, NothingDone
<1>2. CASE /\ Gradable(findCandidate(szID), nums[1], nums[2])
           /\ gradeTask(findCandidate(szID), nums[1], nums[2])
           /\ UNCHANGED <<pc, lines, list, aiMaxPoints>>
  <2>1. /\ szID \in Id /\ Len(szID) < MaxIdLen
        /\ nums \in Seq(Nat) /\ Len(nums) = 2
    BY DEF Grade, MInv, Dialogue
  <2>2. nums[1] \in Nat /\ nums[2] \in Nat
    <3>1. 1 \in 1..Len(nums) /\ 2 \in 1..Len(nums) BY <2>1
    <3> QED BY <2>1, <3>1
  <2>3. AnyAnswer => szID \in TypedIds /\ nums[1] \in Tasks /\ nums[2] \in Points
    BY <2>1, <2>2 DEF AnyAnswer
  <2>4. /\ findCandidate(szID) # NULL /\ nums[1] \in 1..iNumTasks
        /\ nums[2] >= 0
        /\ nums[2] <= node[findCandidate(szID)].atTasks[nums[1]].iMaxPoints
    BY <1>2 DEF Gradable
  <2> QED BY <1>1, <1>2, <2>3, <2>4 DEF menuGradeTask, Grade
<1> QED BY <1>1, <1>2 DEF Grade, NothingDone

LEMMA MenuKeeps ==
  ASSUME MInv, [MenuNext]_menuVars
  PROVE  MInv' /\ (AnyAnswer => [Next]_vars)
<1>1. CASE Type
  <2>1. MInv' BY <1>1, TypeKeeps
  <2> QED BY <1>1, <2>1 DEF Type
<1>2. CASE AskNumTasks BY <1>2, AskNumTasksKeeps DEF Next
<1>3. CASE AskMaxPoints BY <1>3, AskMaxPointsKeeps DEF Next
<1>4. CASE Choose BY <1>4, ChooseKeeps DEF Next
<1>5. CASE AddManual BY <1>5, AddManualKeeps DEF Next
<1>6. CASE LoadFile BY <1>6, LoadFileKeeps DEF Next
<1>7. ASSUME UNCHANGED <<dialogue, input>> PROVE MInv'
  <2>1. \A p : (BufferSize(p))' = BufferSize(p) BY DEF BufferSize
  <2> QED BY <1>7, <2>1 DEF MInv, Dialogue, ReadMaxima, OneLineOneAnswer, dialogue, input
<1>8. CASE Load BY <1>7, <1>8 DEF Load, Next
<1>9. CASE AskGradeId BY <1>9, AskGradeIdKeeps
<1>10. CASE AskGradeTask \/ AskGradePoints BY <1>10, AskNumberKeeps
<1>11. CASE Grade BY <1>11, GradeKeeps DEF Next
<1>12. CASE Report
  <2>1. MInv' BY <1>12, BackKeeps DEF Report, NothingDone
  <2> QED BY <1>12, <2>1 DEF Report, NothingDone
<1>13. CASE UNCHANGED menuVars BY <1>7, <1>13 DEF menuVars
<1> QED BY <1>1, <1>2, <1>3, <1>4, <1>5, <1>6, <1>8, <1>9, <1>10, <1>11, <1>12, <1>13
        DEF MenuNext, program, Over

LEMMA MenuFirst ==
  ASSUME MenuInit
  PROVE  MInv
<1>1. stdin \in Id BY DEF MenuInit, Id
<1>2. Dialogue BY DEF MenuInit, Dialogue, Prompts, NumberPrompts
<1>3. OneLineOneAnswer BY DEF MenuInit, OneLineOneAnswer
<1> QED BY <1>1, <1>2, <1>3 DEF MInv

(***************************************************************************)
(* Theorems.                                                               *)
(***************************************************************************)
\* Whatever is typed, wherever the input ends: what the dialogues do to the list
\* are the operations of GradingList, each with IDs that fit their array, numbers
\* that were checked and the locals of its own dialogue.
THEOREM MenuRunsList ==
  ASSUME AnyAnswer
  PROVE  MenuSpec => ImplementsList
<1>1. MenuInit => MInv /\ Init BY MenuFirst DEF MenuInit
<1>2. MInv /\ [MenuNext]_menuVars => MInv' /\ [Next]_vars BY MenuKeeps
<1> QED BY <1>1, <1>2, PTL DEF MenuSpec, ImplementsList, Spec

\* A line answers the prompt it was typed at and no other, unless it does not fit
\* the buffer of that prompt.
THEOREM OneLineAnswersOnce == MenuSpec => []OneLineOneAnswer
<1>1. MenuInit => MInv BY MenuFirst
<1>2. MInv /\ [MenuNext]_menuVars => MInv' BY MenuKeeps
<1>3. MInv => OneLineOneAnswer BY DEF MInv
<1> QED BY <1>1, <1>2, <1>3, PTL DEF MenuSpec

\* A dialogue cut short does nothing, and only the last answer of a dialogue does
\* something, for all lines, all sizes of the buffers and all files.
THEOREM CutShortNothing == MenuSpec => CutShortDoesNothing
<1> DEFINE Kept == CutShort /\ at # "choice" => NothingDone
           Done == UNCHANGED vars \/ pc' = "exit" \/
                     /\ at \in {"addId", "filename", "justification"}
                     /\ stdin # <<>> /\ OneLineOneAnswer
<1>1. MenuInit => MInv BY MenuFirst
<1>2. MInv /\ [MenuNext]_menuVars => MInv' BY MenuKeeps
<1>3. ASSUME MInv, MenuNext, pc = "menu" PROVE (Kept /\ Done) \/ UNCHANGED menuVars
  <2>1. CASE Type BY <2>1 DEF Type, CutShort
  <2>2. CASE Choose
    <3>1. at = "choice" /\ (UNCHANGED vars \/ pc' = "exit")
      BY <2>2 DEF Choose, Leave
    <3> QED BY <3>1
  <2>3. CASE AddManual \/ LoadFile \/ Grade
    <3>1. /\ at \in {"addId", "filename", "justification"}
          /\ NothingDone \/ Got
      BY <2>3 DEF AddManual, LoadFile, Grade
    <3>2. Got => stdin # <<>> /\ ~CutShort
      BY <3>1 DEF Got, CutShort, NumberPrompts
    <3>3. CASE NothingDone BY <3>3 DEF NothingDone
    <3>4. CASE Got
      <4>1. OneLineOneAnswer BY <1>3 DEF MInv
      <4> QED BY <3>1, <3>2, <3>4, <4>1, Zenon
    <3> QED BY <3>1, <3>3, <3>4
  <2>4. CASE AskGradeId
    <3>1. at = "gradeId" /\ (NothingDone \/ (Got /\ UNCHANGED vars))
      BY <2>4 DEF AskGradeId
    <3>2. Got => ~CutShort BY <3>1 DEF Got, CutShort, NumberPrompts
    <3> QED BY <3>1, <3>2 DEF NothingDone
  <2>5. CASE AskGradeTask \/ AskGradePoints
    <3>1. NothingDone \/ (Got /\ IsNumber /\ UNCHANGED vars)
      BY <2>5 DEF AskGradeTask, AskGradePoints, AskNumber
    <3>2. Got /\ IsNumber => ~CutShort BY DEF Got, CutShort
    <3> QED BY <3>1, <3>2 DEF NothingDone
  <2>6. CASE Report
    <3>1. NothingDone BY <2>6 DEF Report
    <3> QED BY <3>1 DEF NothingDone
  <2>7. CASE AskNumTasks \/ AskMaxPoints \/ Load
    BY <1>3, <2>7 DEF AskNumTasks, AskMaxPoints, Load, LoadLine
  <2>8. CASE Over BY <2>8 DEF Over
  <2> QED BY <1>3, <2>1, <2>2, <2>3, <2>4, <2>5, <2>6, <2>7, <2>8 DEF MenuNext, program
<1>4. MInv /\ [MenuNext]_menuVars => [pc = "menu" => Kept /\ Done]_menuVars
  BY <1>3
<1> QED BY <1>1, <1>2, <1>4, PTL DEF MenuSpec, CutShortDoesNothing

\* Through the dialogues, too, no two candidates come to have the same ID, where
\* no line of a file is as long as an ID may be.
THEOREM MenuNoDuplicates ==
  ASSUME AnyAnswer, ShortLines
  PROVE  MenuSpec => []IdsDistinct
<1>1. MenuSpec => Spec BY MenuRunsList DEF ImplementsList
<1>2. Spec => []IdsDistinct BY NoDuplicates
<1> QED BY <1>1, <1>2
=============================================================================

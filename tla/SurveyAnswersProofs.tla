------------------------- MODULE SurveyAnswersProofs -------------------------
(***************************************************************************)
(* Theorems about SurveyAnswers, for any number of submissions, students,  *)
(* answerers and roles: every duplicate has two submissions behind it that *)
(* had both checked before either wrote, and the sheet agrees with the     *)
(* answers wherever no two writes crossed and none was cut off, or a       *)
(* submission that was alone has come since.                               *)
(***************************************************************************)
EXTENDS SurveyAnswers, TLAPS

Checked(q) == pc[q] = "checked"
Matched(q) == pc[q] = "matched"

\* The dto of a submission is what it was received with.
DtoInv == \A q \in Submission : pc[q] # "new" => dto[q] \in Dto

\* The check of a submission is good until another one with its key has checked as well.
AnswerInv ==
    /\ \A q \in Submission : Checked(q) /\ match[q] # None /\ answers[match[q]] # None
         => answers[match[q]].key = KeyOf(q)
    /\ \A p, q \in Submission : p # q /\ Checked(p) /\ Checked(q) /\ KeyOf(p) = KeyOf(q)
         => KeyOf(q) \in crossed
    /\ \A q \in Submission : Checked(q) /\ match[q] = None /\ AnswersOf(KeyOf(q)) # {}
         => KeyOf(q) \in crossed
    /\ DuplicatesNeedCrossing

\* The same for the upsert of the sheet; no sheet is ever taken away.
OneSheetInv ==
    /\ \A q \in Submission : Matched(q) /\ sheetMatch[q] # None
         => sheets[sheetMatch[q]] # None /\ sheets[sheetMatch[q]].student = StudentOf(q)
    /\ \A p, q \in Submission : p # q /\ Matched(p) /\ Matched(q) /\ StudentOf(p) = StudentOf(q)
         => StudentOf(q) \in crossedSheet
    /\ \A q \in Submission : Matched(q) /\ sheetMatch[q] = None /\ SheetsOf(StudentOf(q)) # {}
         => StudentOf(q) \in crossedSheet
    /\ \A s, t \in SheetId :
         s # t /\ sheets[s] # None /\ sheets[t] # None /\ sheets[s].student = sheets[t].student
         => sheets[s].student \in crossedSheet

\* A submission between its two writes is the last of its cell, unless it is unsettled.
LastInv ==
    /\ \A q \in Submission : Between(q) => Cell(q) \in Student \X Role /\ CarriesStatus(q)
    /\ \A q \in Submission : Between(q) /\ Cell(q) \notin unsettled => lastBy[Cell(q)] = q
    /\ \A c \in Student \X Role : lastBy[c] # None
         => lastBy[c] \in Submission /\ pc[lastBy[c]] # "new" /\ Cell(lastBy[c]) = c

SurveyInv == TypeOK /\ DtoInv /\ AnswerInv /\ OneSheetInv /\ LastInv /\ SheetFollowsAnswer

LEMMA SurveyInitial == Init => SurveyInv
<1> SUFFICES ASSUME Init PROVE SurveyInv
  OBVIOUS
<1>1. TypeOK
  BY DEF Init, TypeOK
<1>2. DtoInv /\ AnswerInv
  BY DEF Init, DtoInv, AnswerInv, DuplicatesNeedCrossing, Checked
<1>3. OneSheetInv /\ LastInv
  BY DEF Init, OneSheetInv, LastInv, Matched, Between
<1>4. SheetFollowsAnswer
  BY DEF Init, SheetFollowsAnswer
<1> QED
  BY <1>1, <1>2, <1>3, <1>4 DEF SurveyInv

-----------------------------------------------------------------------------
(* Type correctness.                                                        *)

LEMMA DtoTypes ==
    ASSUME SurveyInv, NEW q \in Submission, pc[q] # "new"
    PROVE  /\ dto[q] \in Dto /\ KeyOf(q) \in Key /\ KeyOf(q).role \in Role
           /\ StatusToCarry(q) \in MaybeStatus /\ StudentOf(q) \in Student \cup {NoStudent}
           /\ CarriesStatus(q) => Cell(q) \in Student \X Role
<1>1. dto[q] \in Dto
  BY DEF SurveyInv, DtoInv
<1> QED
  BY <1>1 DEF Dto, Key, KeyOf, StatusToCarry, StudentOf, CarriesStatus, Cell

LEMMA WriteAnswerTypes ==
    ASSUME SurveyInv, NEW q \in Submission, WriteAnswer(q)
    PROVE  TypeOK'
<1> DEFINE doc == [key |-> KeyOf(q), answered |-> Answered(q), by |-> q]
<1>1. doc \in Answer
  BY DtoTypes DEF WriteAnswer, Answer, Answered
<1>2. answers' \in [AnswerId -> Answer \cup {None}]
  BY <1>1 DEF SurveyInv, TypeOK, WriteAnswer
<1>3. pc' \in [Submission -> {"new", "received", "checked", "written", "matched", "done"}]
  BY DEF SurveyInv, TypeOK, WriteAnswer, Goto
<1>4. lastBy' \in [Student \X Role -> Submission \cup {None}]
  BY DEF SurveyInv, TypeOK, WriteAnswer
<1>5. unsettled' \in SUBSET (Student \X Role)
  BY DtoTypes DEF SurveyInv, TypeOK, WriteAnswer
<1> QED
  BY <1>2, <1>3, <1>4, <1>5 DEF SurveyInv, TypeOK, WriteAnswer

LEMMA StampedTypes ==
    ASSUME SurveyInv, NEW q \in Submission, pc[q] # "new", NEW sheet \in Sheet
    PROVE  /\ Stamped(sheet, q) \in Sheet /\ Stamped(sheet, q).student = sheet.student
           /\ Stamped(sheet, q).status[KeyOf(q).role] = StatusToCarry(q)
           /\ \A r \in Role \ {KeyOf(q).role} : Stamped(sheet, q).status[r] = sheet.status[r]
<1>1. sheet.status \in [Role -> MaybeStatus] /\ sheet.student \in Student
  BY DEF Sheet
<1>2. [sheet.status EXCEPT ![KeyOf(q).role] = StatusToCarry(q)] \in [Role -> MaybeStatus]
  BY <1>1, DtoTypes
<1>3. Stamped(sheet, q) =
        [student |-> sheet.student, status |-> [sheet.status EXCEPT ![KeyOf(q).role] = StatusToCarry(q)]]
  BY DEF Stamped, Sheet
<1> QED
  BY <1>1, <1>2, <1>3, DtoTypes DEF Sheet

\* What WriteSheet does: one sheet of the student shows the status, the rest are kept.
LEMMA SheetWritten ==
    ASSUME SurveyInv, NEW q \in Submission, WriteSheet(q)
    PROVE  \E s \in SheetId :
             /\ s = sheetMatch[q] \/ (sheetMatch[q] = None /\ sheets[s] = None)
             /\ sheets'[s] \in Sheet /\ sheets'[s] # None /\ sheets'[s].student = StudentOf(q)
             /\ sheets'[s].status[KeyOf(q).role] = StatusToCarry(q)
             /\ sheets[s] # None => \A r \in Role \ {KeyOf(q).role} :
                                       sheets'[s].status[r] = sheets[s].status[r]
             /\ \A t \in SheetId : t # s => sheets'[t] = sheets[t]
             /\ sheets' \in [SheetId -> Sheet \cup {None}]
<1>0. /\ KeyOf(q).role \in Role /\ StatusToCarry(q) \in MaybeStatus /\ StudentOf(q) \in Student
      /\ None \notin Sheet /\ sheets \in [SheetId -> Sheet \cup {None}] /\ pc[q] # "new"
  BY DtoTypes, NoDocumentAssumption
     DEF SurveyInv, TypeOK, LastInv, Between, CarriesStatus, Cell, WriteSheet
<1> DEFINE new == [student |-> StudentOf(q),
                   status |-> [role \in Role |->
                                 IF role = KeyOf(q).role THEN StatusToCarry(q) ELSE NoStatus]]
<1>1. new \in Sheet
  BY <1>0 DEF Sheet, MaybeStatus
<1>2. CASE sheetMatch[q] = None
  <2>1. PICK s \in SheetId : sheets[s] = None /\ sheets' = [sheets EXCEPT ![s] = new]
    BY <1>2 DEF WriteSheet
  <2>2. sheets'[s] = new /\ \A t \in SheetId : t # s => sheets'[t] = sheets[t]
    BY <1>0, <2>1
  <2> QED
    BY <1>0, <1>1, <1>2, <2>1, <2>2
<1>3. CASE sheetMatch[q] # None
  <2> DEFINE m == sheetMatch[q]
  <2>1. /\ m \in SheetId /\ sheets[m] \in Sheet /\ sheets[m].student = StudentOf(q)
        /\ sheets' = [sheets EXCEPT ![m] = Stamped(sheets[m], q)]
    BY <1>0, <1>3 DEF SurveyInv, TypeOK, OneSheetInv, Matched, WriteSheet
  <2>2. sheets'[m] = Stamped(sheets[m], q) /\ \A t \in SheetId : t # m => sheets'[t] = sheets[t]
    BY <1>0, <2>1
  <2>3. /\ sheets'[m] \in Sheet /\ sheets'[m].student = StudentOf(q)
        /\ sheets'[m].status[KeyOf(q).role] = StatusToCarry(q)
        /\ \A r \in Role \ {KeyOf(q).role} : sheets'[m].status[r] = sheets[m].status[r]
    BY <1>0, <2>1, <2>2, StampedTypes
  <2>4. sheets' \in [SheetId -> Sheet \cup {None}] /\ sheets'[m] # None
    BY <1>0, <2>1, <2>2, <2>3
  <2>5. m \in SheetId /\ m = sheetMatch[q]
    BY <2>1
  <2> HIDE DEF m
  <2> QED
    BY <2>2, <2>3, <2>4, <2>5
<1> QED
  BY <1>2, <1>3

LEMMA TypeStep == SurveyInv /\ [Next]_vars => TypeOK'
<1> SUFFICES ASSUME SurveyInv, [Next]_vars PROVE TypeOK'
  OBVIOUS
<1>1. ASSUME NEW q \in Submission, NEW d \in Dto, Receive(q, d) PROVE TypeOK'
  BY <1>1 DEF SurveyInv, TypeOK, Receive, Goto, docVars, historyVars
<1>2. ASSUME NEW q \in Submission, CheckExist(q) PROVE TypeOK'
  <2>1. KeyOf(q) \in Key
    BY <1>2, DtoTypes DEF CheckExist
  <2> QED
    BY <1>2, <2>1 DEF SurveyInv, TypeOK, CheckExist, Goto, FoundBefore, AnswersOf, docVars
<1>3. ASSUME NEW q \in Submission, WriteAnswer(q) PROVE TypeOK'
  BY <1>3, WriteAnswerTypes
<1>4. ASSUME NEW q \in Submission, MatchSheet(q) PROVE TypeOK'
  <2>1. StudentOf(q) \in Student
    BY <1>4 DEF SurveyInv, LastInv, Between, Cell, MatchSheet
  <2> QED
    BY <1>4, <2>1 DEF SurveyInv, TypeOK, MatchSheet, Goto, SheetFound, SheetsOf, docVars
<1>5. ASSUME NEW q \in Submission, WriteSheet(q) PROVE TypeOK'
  BY <1>5, SheetWritten DEF SurveyInv, TypeOK, WriteSheet, Goto, historyVars
<1>6. ASSUME NEW q \in Submission, Abort(q) PROVE TypeOK'
  BY <1>6 DEF SurveyInv, TypeOK, LastInv, Abort, Goto, docVars
<1>7. ASSUME NEW a \in AnswerId, DeleteAnswer(a) PROVE TypeOK'
  BY <1>7 DEF SurveyInv, TypeOK, DeleteAnswer, localVars, historyVars
<1>8. CASE UNCHANGED vars
  BY <1>8 DEF SurveyInv, TypeOK, vars, docVars, localVars, historyVars
<1> QED
  BY <1>1, <1>2, <1>3, <1>4, <1>5, <1>6, <1>7, <1>8 DEF Next

LEMMA DtoStep == SurveyInv /\ [Next]_vars =>
    /\ DtoInv'
    /\ \A q \in Submission : pc[q] # "new" => dto'[q] = dto[q] /\ pc'[q] # "new"
<1> SUFFICES ASSUME SurveyInv, [Next]_vars, NEW q \in Submission
             PROVE  /\ pc'[q] # "new" => dto'[q] \in Dto
                    /\ pc[q] # "new" => dto'[q] = dto[q] /\ pc'[q] # "new"
  BY DEF DtoInv
<1>1. ASSUME NEW p \in Submission, NEW d \in Dto, Receive(p, d)
      PROVE  /\ pc'[q] # "new" => dto'[q] \in Dto
             /\ pc[q] # "new" => dto'[q] = dto[q] /\ pc'[q] # "new"
  BY <1>1 DEF SurveyInv, TypeOK, DtoInv, Receive, Goto
<1>2. ASSUME NEW p \in Submission,
             CheckExist(p) \/ WriteAnswer(p) \/ MatchSheet(p) \/ WriteSheet(p) \/ Abort(p)
      PROVE  dto' = dto /\ pc[p] # "new" /\ \E l : l # "new" /\ pc' = [pc EXCEPT ![p] = l]
  BY <1>2 DEF CheckExist, WriteAnswer, MatchSheet, WriteSheet, Abort, Goto
<1>3. ASSUME NEW a \in AnswerId, DeleteAnswer(a) PROVE UNCHANGED <<dto, pc>>
  BY <1>3 DEF DeleteAnswer, localVars
<1>4. CASE UNCHANGED vars
  BY <1>4 DEF SurveyInv, DtoInv, vars, localVars
<1> QED
  BY <1>1, <1>2, <1>3, <1>4 DEF Next, SurveyInv, DtoInv, TypeOK

-----------------------------------------------------------------------------
(* The answers.                                                             *)

\* A step that writes no answer and checks nothing.
LEMMA AnswersKept ==
    ASSUME SurveyInv, UNCHANGED <<answers, match>>, crossed \subseteq crossed',
           \A q \in Submission : Checked(q)' => Checked(q) /\ dto'[q] = dto[q]
    PROVE  AnswerInv'
<1>1. \A q \in Submission : Checked(q)' => Checked(q) /\ KeyOf(q)' = KeyOf(q)
  BY DEF KeyOf
<1>2. \A k : AnswersOf(k)' = AnswersOf(k)
  BY DEF AnswersOf
<1>3. \A q \in Submission : Checked(q)' /\ match'[q] # None /\ answers'[match'[q]] # None
         => answers'[match'[q]].key = KeyOf(q)'
  BY <1>1 DEF SurveyInv, AnswerInv
<1>4. \A p, q \in Submission : p # q /\ Checked(p)' /\ Checked(q)' /\ KeyOf(p)' = KeyOf(q)'
         => KeyOf(q)' \in crossed'
  BY <1>1 DEF SurveyInv, AnswerInv
<1>5. \A q \in Submission : Checked(q)' /\ match'[q] = None /\ AnswersOf(KeyOf(q))' # {}
         => KeyOf(q)' \in crossed'
  <2> SUFFICES ASSUME NEW q \in Submission, Checked(q)', match'[q] = None, AnswersOf(KeyOf(q))' # {}
               PROVE  KeyOf(q)' \in crossed'
    OBVIOUS
  <2>1. Checked(q) /\ KeyOf(q)' = KeyOf(q) /\ AnswersOf(KeyOf(q)) # {}
    BY <1>1 DEF AnswersOf
  <2> QED
    BY <2>1 DEF SurveyInv, AnswerInv
<1>6. DuplicatesNeedCrossing'
  BY DEF SurveyInv, AnswerInv, DuplicatesNeedCrossing
<1> QED
  BY <1>3, <1>4, <1>5, <1>6 DEF AnswerInv

LEMMA CheckExistKeeps ==
    ASSUME SurveyInv, NEW r \in Submission, CheckExist(r)
    PROVE  AnswerInv'
<1>1. /\ UNCHANGED <<answers, dto>> /\ crossed \subseteq crossed'
      /\ \A q \in Submission : KeyOf(q)' = KeyOf(q)
      /\ \A q \in Submission : q # r => match'[q] = match[q] /\ Checked(q)' = Checked(q)
  BY DEF SurveyInv, TypeOK, CheckExist, Goto, Checked, KeyOf, docVars
<1>2. \/ FoundBefore(r) = {} /\ match'[r] = None
      \/ match'[r] \in FoundBefore(r)
  BY DEF SurveyInv, TypeOK, CheckExist
<1>3. \A k : AnswersOf(k)' = AnswersOf(k)
  BY <1>1 DEF AnswersOf
<1>4. ASSUME NEW q \in Submission, Checked(q)', match'[q] # None, answers'[match'[q]] # None
      PROVE  answers'[match'[q]].key = KeyOf(q)'
  <2>1. CASE q = r
    BY <1>1, <1>2, <1>4, <2>1 DEF FoundBefore, AnswersOf
  <2>2. CASE q # r
    BY <1>1, <1>4, <2>2 DEF SurveyInv, AnswerInv
  <2> QED
    BY <2>1, <2>2
<1>5. ASSUME NEW p \in Submission, NEW q \in Submission, p # q, Checked(p)', Checked(q)',
             KeyOf(p)' = KeyOf(q)'
      PROVE  KeyOf(q)' \in crossed'
  <2>1. CASE p # r /\ q # r
    BY <1>1, <1>5, <2>1 DEF SurveyInv, AnswerInv
  <2>2. ASSUME NEW o \in Others(r), Checked(o), KeyOf(o) = KeyOf(r) PROVE KeyOf(r) \in crossed'
    BY <2>2 DEF CheckExist, Checked
  <2>3. CASE p = r
    BY <1>1, <1>5, <2>2, <2>3 DEF Others
  <2>4. CASE q = r
    BY <1>1, <1>5, <2>2, <2>4 DEF Others
  <2> QED
    BY <2>1, <2>3, <2>4
<1>6. ASSUME NEW q \in Submission, Checked(q)', match'[q] = None, AnswersOf(KeyOf(q))' # {}
      PROVE  KeyOf(q)' \in crossed'
  <2>1. AnswersOf(KeyOf(q)) # {}
    BY <1>1, <1>6 DEF AnswersOf
  <2>2. q # r
    <3>1. ASSUME q = r PROVE FALSE
      <4>1. match'[r] = None /\ FoundBefore(r) # {}
        BY <1>6, <2>1, <3>1 DEF FoundBefore
      <4>2. None \in FoundBefore(r)
        BY <1>2, <4>1
      <4> QED
        BY <4>2, NoneAssumption DEF FoundBefore, AnswersOf
    <3> QED
      BY <3>1
  <2> QED
    BY <1>1, <1>6, <2>1, <2>2 DEF SurveyInv, AnswerInv
<1>7. DuplicatesNeedCrossing'
  BY <1>1 DEF SurveyInv, AnswerInv, DuplicatesNeedCrossing
<1> QED
  BY <1>4, <1>5, <1>6, <1>7 DEF AnswerInv

\* Writing on a free _id: an answer with the key is a duplicate only where keys crossed.
LEMMA InsertKeeps ==
    ASSUME SurveyInv, NEW r \in Submission, WriteAnswer(r), match[r] = None
    PROVE  AnswerInv'
<1> DEFINE k == KeyOf(r)
           doc == [key |-> k, answered |-> Answered(r), by |-> r]
<1>0. UNCHANGED <<dto, match, crossed>> /\ Checked(r)
  BY DEF WriteAnswer, Checked
<1>1. PICK a \in AnswerId : FreeAnswer(a) /\ answers' = [answers EXCEPT ![a] = doc]
  BY DEF WriteAnswer
<1>2. /\ answers'[a] = doc /\ answers'[a].key = k /\ answers[a] = None
      /\ \A b \in AnswerId : b # a => answers'[b] = answers[b]
      /\ \A q \in Submission : match[q] # a
  BY <1>1 DEF SurveyInv, TypeOK, FreeAnswer
<1>3. \A q \in Submission : Checked(q)' => Checked(q) /\ q # r
  BY DEF SurveyInv, TypeOK, WriteAnswer, Goto, Checked
<1>4. \A q \in Submission : KeyOf(q)' = KeyOf(q)
  BY <1>0 DEF KeyOf
<1>5. ASSUME NEW q \in Submission, Checked(q)', match'[q] # None, answers'[match'[q]] # None
      PROVE  answers'[match'[q]].key = KeyOf(q)'
  <2>1. match[q] \in AnswerId /\ match[q] # a
    BY <1>0, <1>2, <1>5 DEF SurveyInv, TypeOK
  <2> QED
    BY <1>0, <1>2, <1>3, <1>4, <1>5, <2>1 DEF SurveyInv, AnswerInv
<1>6. ASSUME NEW p \in Submission, NEW q \in Submission, p # q, Checked(p)', Checked(q)',
             KeyOf(p)' = KeyOf(q)'
      PROVE  KeyOf(q)' \in crossed'
  BY <1>0, <1>3, <1>4, <1>6 DEF SurveyInv, AnswerInv
<1>7. ASSUME NEW q \in Submission, Checked(q)', match'[q] = None, AnswersOf(KeyOf(q))' # {}
      PROVE  KeyOf(q)' \in crossed'
  <2>1. CASE KeyOf(q) = k
    BY <1>0, <1>3, <1>4, <1>7, <2>1 DEF SurveyInv, AnswerInv
  <2>2. CASE KeyOf(q) # k
    <3>1. PICK b \in AnswerId : answers'[b] # None /\ answers'[b].key = KeyOf(q)
      BY <1>4, <1>7 DEF AnswersOf
    <3>2. b # a
      BY <1>2, <2>2, <3>1
    <3>3. b \in AnswersOf(KeyOf(q))
      BY <1>2, <3>1, <3>2 DEF AnswersOf
    <3> QED
      BY <1>0, <1>3, <1>4, <1>7, <3>3 DEF SurveyInv, AnswerInv
  <2> QED
    BY <2>1, <2>2
<1>8. DuplicatesNeedCrossing'
  <2> SUFFICES ASSUME NEW b \in AnswerId, NEW c \in AnswerId, b # c,
                      answers'[b] # None, answers'[c] # None, answers'[b].key = answers'[c].key
               PROVE  answers'[b].key \in crossed'
    BY DEF DuplicatesNeedCrossing
  <2>1. CASE b # a /\ c # a
    BY <1>0, <1>2, <2>1 DEF SurveyInv, AnswerInv, DuplicatesNeedCrossing
  <2>2. ASSUME NEW d \in AnswerId, d # a, answers'[d] # None, answers'[d].key = k
        PROVE  k \in crossed'
    <3>1. d \in AnswersOf(k)
      BY <1>2, <2>2 DEF AnswersOf
    <3> QED
      BY <1>0, <3>1 DEF SurveyInv, AnswerInv
  <2> QED
    BY <1>2, <2>1, <2>2
<1> QED
  BY <1>5, <1>6, <1>7, <1>8 DEF AnswerInv

\* Writing on the answer found before: its key is the same, if it is still there.
LEMMA UpdateKeeps ==
    ASSUME SurveyInv, NEW r \in Submission, WriteAnswer(r), match[r] # None
    PROVE  AnswerInv'
<1> DEFINE doc == [key |-> KeyOf(r), answered |-> Answered(r), by |-> r]
           a == match[r]
<1>0. UNCHANGED <<dto, match, crossed>> /\ Checked(r) /\ a \in AnswerId
  BY DEF SurveyInv, TypeOK, WriteAnswer, Checked
<1>1. answers' = IF answers[a] = None THEN answers ELSE [answers EXCEPT ![a] = doc]
  BY DEF WriteAnswer
<1>2. doc \in Answer /\ doc # None /\ doc.key = KeyOf(r)
  <2>1. doc \in Answer
    BY DtoTypes DEF WriteAnswer, Answer, Answered
  <2> QED
    BY <2>1, NoDocumentAssumption
<1>3. ASSUME NEW b \in AnswerId
      PROVE  /\ answers'[b] = None <=> answers[b] = None
             /\ answers[b] # None => answers'[b].key = answers[b].key
  <2>1. CASE answers[a] # None /\ b = a
    <3>1. answers'[b] = doc /\ answers[b].key = KeyOf(r)
      BY <1>0, <1>1, <2>1 DEF SurveyInv, TypeOK, AnswerInv
    <3> QED
      BY <1>2, <2>1, <3>1
  <2>2. CASE ~ (answers[a] # None /\ b = a)
    BY <1>1, <2>2 DEF SurveyInv, TypeOK
  <2> QED
    BY <2>1, <2>2
<1>4. \A q \in Submission : Checked(q)' => Checked(q) /\ q # r
  BY DEF SurveyInv, TypeOK, WriteAnswer, Goto, Checked
<1>5. \A q \in Submission : KeyOf(q)' = KeyOf(q)
  BY <1>0 DEF KeyOf
<1>6. \A k : AnswersOf(k)' = AnswersOf(k)
  BY <1>3 DEF AnswersOf
<1>7. ASSUME NEW q \in Submission, Checked(q)', match'[q] # None, answers'[match'[q]] # None
      PROVE  answers'[match'[q]].key = KeyOf(q)'
  <2>1. match[q] \in AnswerId
    BY <1>0, <1>7 DEF SurveyInv, TypeOK
  <2> QED
    BY <1>0, <1>3, <1>4, <1>5, <1>7, <2>1 DEF SurveyInv, AnswerInv
<1>8. ASSUME NEW p \in Submission, NEW q \in Submission, p # q, Checked(p)', Checked(q)',
             KeyOf(p)' = KeyOf(q)'
      PROVE  KeyOf(q)' \in crossed'
  BY <1>0, <1>4, <1>5, <1>8 DEF SurveyInv, AnswerInv
<1>9. ASSUME NEW q \in Submission, Checked(q)', match'[q] = None, AnswersOf(KeyOf(q))' # {}
      PROVE  KeyOf(q)' \in crossed'
  <2>1. AnswersOf(KeyOf(q)) # {}
    BY <1>3, <1>5, <1>9 DEF AnswersOf
  <2> QED
    BY <1>0, <1>4, <1>5, <1>9, <2>1 DEF SurveyInv, AnswerInv
<1>10. DuplicatesNeedCrossing'
  BY <1>0, <1>3 DEF SurveyInv, AnswerInv, DuplicatesNeedCrossing
<1> QED
  BY <1>7, <1>8, <1>9, <1>10 DEF AnswerInv

LEMMA DeleteKeeps ==
    ASSUME SurveyInv, NEW a \in AnswerId, DeleteAnswer(a)
    PROVE  AnswerInv'
<1>1. /\ UNCHANGED <<pc, dto, match, crossed>>
      /\ \A b \in AnswerId : answers'[b] = IF b = a THEN None ELSE answers[b]
  BY DEF SurveyInv, TypeOK, DeleteAnswer, localVars, historyVars
<1>2. ASSUME NEW q \in Submission, AnswersOf(KeyOf(q))' # {} PROVE AnswersOf(KeyOf(q)) # {}
  BY <1>1, <1>2 DEF AnswersOf, KeyOf
<1>3. ASSUME NEW q \in Submission, Checked(q)', match'[q] # None, answers'[match'[q]] # None
      PROVE  answers'[match'[q]].key = KeyOf(q)'
  <2>1. match[q] \in AnswerId
    BY <1>1, <1>3 DEF SurveyInv, TypeOK
  <2> QED
    BY <1>1, <1>3, <2>1 DEF SurveyInv, AnswerInv, Checked, KeyOf
<1>4. \A p, q \in Submission : p # q /\ Checked(p)' /\ Checked(q)' /\ KeyOf(p)' = KeyOf(q)'
         => KeyOf(q)' \in crossed'
  BY <1>1 DEF SurveyInv, AnswerInv, Checked, KeyOf
<1>5. \A q \in Submission : Checked(q)' /\ match'[q] = None /\ AnswersOf(KeyOf(q))' # {}
         => KeyOf(q)' \in crossed'
  BY <1>1, <1>2 DEF SurveyInv, AnswerInv, Checked, KeyOf
<1>6. DuplicatesNeedCrossing'
  BY <1>1 DEF SurveyInv, AnswerInv, DuplicatesNeedCrossing
<1> QED
  BY <1>3, <1>4, <1>5, <1>6 DEF AnswerInv

LEMMA AnswerStep == SurveyInv /\ [Next]_vars => AnswerInv'
<1> SUFFICES ASSUME SurveyInv, [Next]_vars PROVE AnswerInv'
  OBVIOUS
<1>1. ASSUME NEW q \in Submission, NEW d \in Dto, Receive(q, d) PROVE AnswerInv'
  BY <1>1, AnswersKept DEF SurveyInv, TypeOK, Receive, Goto, Checked, docVars, historyVars
<1>2. ASSUME NEW q \in Submission, MatchSheet(q) PROVE AnswerInv'
  BY <1>2, AnswersKept DEF SurveyInv, TypeOK, MatchSheet, Goto, Checked, docVars
<1>3. ASSUME NEW q \in Submission, WriteSheet(q) PROVE AnswerInv'
  BY <1>3, AnswersKept DEF SurveyInv, TypeOK, WriteSheet, Goto, Checked, historyVars
<1>4. ASSUME NEW q \in Submission, Abort(q) PROVE AnswerInv'
  BY <1>4, AnswersKept DEF SurveyInv, TypeOK, Abort, Goto, Checked, docVars
<1>5. CASE UNCHANGED vars
  BY <1>5, AnswersKept DEF Checked, vars, docVars, localVars, historyVars
<1> QED
  BY <1>1, <1>2, <1>3, <1>4, <1>5, CheckExistKeeps, InsertKeeps, UpdateKeeps, DeleteKeeps DEF Next

-----------------------------------------------------------------------------
(* The sheets.                                                              *)

\* A step that writes no sheet and matches none.
LEMMA SheetsKept ==
    ASSUME SurveyInv, UNCHANGED <<sheets, sheetMatch>>, crossedSheet \subseteq crossedSheet',
           \A q \in Submission : Matched(q)' => Matched(q) /\ dto'[q] = dto[q]
    PROVE  OneSheetInv'
<1>1. \A q \in Submission : Matched(q)' => Matched(q) /\ StudentOf(q)' = StudentOf(q)
  BY DEF StudentOf, KeyOf
<1>2. \A st : SheetsOf(st)' = SheetsOf(st)
  BY DEF SheetsOf
<1>3. \A q \in Submission : Matched(q)' /\ sheetMatch'[q] # None
         => sheets'[sheetMatch'[q]] # None /\ sheets'[sheetMatch'[q]].student = StudentOf(q)'
  BY <1>1 DEF SurveyInv, OneSheetInv
<1>4. \A p, q \in Submission : p # q /\ Matched(p)' /\ Matched(q)' /\ StudentOf(p)' = StudentOf(q)'
         => StudentOf(q)' \in crossedSheet'
  BY <1>1 DEF SurveyInv, OneSheetInv
<1>5. \A q \in Submission : Matched(q)' /\ sheetMatch'[q] = None /\ SheetsOf(StudentOf(q))' # {}
         => StudentOf(q)' \in crossedSheet'
  <2> SUFFICES ASSUME NEW q \in Submission, Matched(q)', sheetMatch'[q] = None,
                      SheetsOf(StudentOf(q))' # {}
               PROVE  StudentOf(q)' \in crossedSheet'
    OBVIOUS
  <2>1. Matched(q) /\ StudentOf(q)' = StudentOf(q) /\ SheetsOf(StudentOf(q)) # {}
    BY <1>1 DEF SheetsOf
  <2> QED
    BY <2>1 DEF SurveyInv, OneSheetInv
<1> QED
  BY <1>3, <1>4, <1>5 DEF SurveyInv, OneSheetInv

LEMMA MatchSheetKeeps ==
    ASSUME SurveyInv, NEW r \in Submission, MatchSheet(r)
    PROVE  OneSheetInv'
<1>1. /\ UNCHANGED <<sheets, dto>> /\ crossedSheet \subseteq crossedSheet'
      /\ \A q \in Submission : StudentOf(q)' = StudentOf(q)
      /\ \A q \in Submission : q # r => sheetMatch'[q] = sheetMatch[q] /\ Matched(q)' = Matched(q)
  BY DEF SurveyInv, TypeOK, MatchSheet, Goto, Matched, StudentOf, KeyOf, docVars
<1>2. \/ SheetFound(r) = {} /\ sheetMatch'[r] = None
      \/ sheetMatch'[r] \in SheetFound(r)
  BY DEF SurveyInv, TypeOK, MatchSheet
<1>3. ASSUME NEW q \in Submission, Matched(q)', sheetMatch'[q] # None
      PROVE  sheets'[sheetMatch'[q]] # None /\ sheets'[sheetMatch'[q]].student = StudentOf(q)'
  <2>1. CASE q = r
    BY <1>1, <1>2, <1>3, <2>1 DEF SheetFound, SheetsOf
  <2>2. CASE q # r
    BY <1>1, <1>3, <2>2 DEF SurveyInv, OneSheetInv
  <2> QED
    BY <2>1, <2>2
<1>4. ASSUME NEW p \in Submission, NEW q \in Submission, p # q, Matched(p)', Matched(q)',
             StudentOf(p)' = StudentOf(q)'
      PROVE  StudentOf(q)' \in crossedSheet'
  <2>1. CASE p # r /\ q # r
    BY <1>1, <1>4, <2>1 DEF SurveyInv, OneSheetInv
  <2>2. ASSUME NEW o \in Others(r), Matched(o), StudentOf(o) = StudentOf(r)
        PROVE  StudentOf(r) \in crossedSheet'
    BY <2>2 DEF MatchSheet, Matched
  <2>3. CASE p = r
    BY <1>1, <1>4, <2>2, <2>3 DEF Others
  <2>4. CASE q = r
    BY <1>1, <1>4, <2>2, <2>4 DEF Others
  <2> QED
    BY <2>1, <2>3, <2>4
<1>5. ASSUME NEW q \in Submission, Matched(q)', sheetMatch'[q] = None, SheetsOf(StudentOf(q))' # {}
      PROVE  StudentOf(q)' \in crossedSheet'
  <2>1. SheetsOf(StudentOf(q)) # {}
    BY <1>1, <1>5 DEF SheetsOf
  <2>2. q # r
    <3>1. ASSUME q = r PROVE FALSE
      <4>1. sheetMatch'[r] = None /\ SheetFound(r) # {}
        BY <1>5, <2>1, <3>1 DEF SheetFound
      <4>2. None \in SheetFound(r)
        BY <1>2, <4>1
      <4> QED
        BY <4>2, NoneAssumption DEF SheetFound, SheetsOf
    <3> QED
      BY <3>1
  <2> QED
    BY <1>1, <1>5, <2>1, <2>2 DEF SurveyInv, OneSheetInv
<1> QED
  BY <1>1, <1>3, <1>4, <1>5 DEF SurveyInv, OneSheetInv

LEMMA WriteSheetKeeps ==
    ASSUME SurveyInv, NEW r \in Submission, WriteSheet(r)
    PROVE  OneSheetInv'
<1> DEFINE st == StudentOf(r)
<1>1. PICK s \in SheetId :
        /\ s = sheetMatch[r] \/ (sheetMatch[r] = None /\ sheets[s] = None)
        /\ sheets'[s] # None /\ sheets'[s].student = st
        /\ \A t \in SheetId : t # s => sheets'[t] = sheets[t]
  BY SheetWritten
<1>2. /\ UNCHANGED <<dto, sheetMatch, crossedSheet>> /\ Matched(r)
      /\ \A q \in Submission : StudentOf(q)' = StudentOf(q)
      /\ \A q \in Submission : Matched(q)' => Matched(q) /\ q # r
  BY DEF SurveyInv, TypeOK, WriteSheet, Goto, Matched, StudentOf, KeyOf, historyVars
<1>3. sheets[s] # None => sheets[s].student = st /\ sheetMatch[r] = s /\ s # None
  BY <1>1, <1>2, NoneAssumption DEF SurveyInv, OneSheetInv
<1>4. sheetMatch[r] = None /\ SheetsOf(st) # {} => st \in crossedSheet
  BY <1>2 DEF SurveyInv, OneSheetInv
<1>5. ASSUME NEW t \in SheetId, sheets[t] # None
      PROVE  sheets'[t] # None /\ sheets'[t].student = sheets[t].student
  BY <1>1, <1>3, <1>5
<1>6. ASSUME NEW q \in Submission, Matched(q)', sheetMatch'[q] # None
      PROVE  sheets'[sheetMatch'[q]] # None /\ sheets'[sheetMatch'[q]].student = StudentOf(q)'
  <2>1. sheetMatch[q] \in SheetId
    BY <1>2, <1>6 DEF SurveyInv, TypeOK
  <2> QED
    BY <1>2, <1>5, <1>6, <2>1 DEF SurveyInv, OneSheetInv
<1>7. ASSUME NEW p \in Submission, NEW q \in Submission, p # q, Matched(p)', Matched(q)',
             StudentOf(p)' = StudentOf(q)'
      PROVE  StudentOf(q)' \in crossedSheet'
  BY <1>2, <1>7 DEF SurveyInv, OneSheetInv
<1>8. ASSUME NEW q \in Submission, Matched(q)', sheetMatch'[q] = None, SheetsOf(StudentOf(q))' # {}
      PROVE  StudentOf(q)' \in crossedSheet'
  <2>1. CASE StudentOf(q) = st
    BY <1>2, <1>8, <2>1 DEF SurveyInv, OneSheetInv
  <2>2. CASE StudentOf(q) # st
    <3>1. PICK t \in SheetId : sheets'[t] # None /\ sheets'[t].student = StudentOf(q)
      BY <1>2, <1>8 DEF SheetsOf
    <3>2. t \in SheetsOf(StudentOf(q))
      BY <1>1, <2>2, <3>1 DEF SheetsOf
    <3> QED
      BY <1>2, <1>8, <3>2 DEF SurveyInv, OneSheetInv
  <2> QED
    BY <2>1, <2>2
<1>9. ASSUME NEW t \in SheetId, NEW u \in SheetId, t # u, sheets'[t] # None, sheets'[u] # None,
             sheets'[t].student = sheets'[u].student
      PROVE  sheets'[t].student \in crossedSheet'
  <2>1. CASE sheets[t] # None /\ sheets[u] # None
    BY <1>2, <1>5, <1>9, <2>1 DEF SurveyInv, OneSheetInv
  <2>2. ASSUME NEW v \in SheetId, v # s, sheets'[v] # None, sheets'[v].student = st, sheets[s] = None
        PROVE  st \in crossedSheet'
    <3>1. v \in SheetsOf(st)
      BY <1>1, <2>2 DEF SheetsOf
    <3>2. sheetMatch[r] = None
      BY <1>1, <1>2, <2>2 DEF SurveyInv, OneSheetInv
    <3> QED
      BY <1>2, <1>4, <3>1, <3>2
  <2>3. CASE sheets[t] = None
    BY <1>1, <1>9, <2>2, <2>3
  <2>4. CASE sheets[u] = None
    BY <1>1, <1>9, <2>2, <2>4
  <2> QED
    BY <2>1, <2>3, <2>4
<1> QED
  BY <1>6, <1>7, <1>8, <1>9 DEF OneSheetInv

LEMMA OneSheetStep == SurveyInv /\ [Next]_vars => OneSheetInv'
<1> SUFFICES ASSUME SurveyInv, [Next]_vars PROVE OneSheetInv'
  OBVIOUS
<1>1. ASSUME NEW q \in Submission, NEW d \in Dto, Receive(q, d) PROVE OneSheetInv'
  BY <1>1, SheetsKept DEF SurveyInv, TypeOK, Receive, Goto, Matched, docVars, historyVars
<1>2. ASSUME NEW q \in Submission, CheckExist(q) PROVE OneSheetInv'
  BY <1>2, SheetsKept DEF SurveyInv, TypeOK, CheckExist, Goto, Matched, docVars
<1>3. ASSUME NEW q \in Submission, WriteAnswer(q) PROVE OneSheetInv'
  BY <1>3, SheetsKept DEF SurveyInv, TypeOK, WriteAnswer, Goto, Matched
<1>4. ASSUME NEW q \in Submission, Abort(q) PROVE OneSheetInv'
  BY <1>4, SheetsKept DEF SurveyInv, TypeOK, Abort, Goto, Matched, docVars
<1>5. ASSUME NEW a \in AnswerId, DeleteAnswer(a) PROVE OneSheetInv'
  BY <1>5, SheetsKept DEF DeleteAnswer, Matched, localVars, historyVars
<1>6. CASE UNCHANGED vars
  BY <1>6, SheetsKept DEF Matched, vars, docVars, localVars, historyVars
<1> QED
  BY <1>1, <1>2, <1>3, <1>4, <1>5, <1>6, MatchSheetKeeps, WriteSheetKeeps DEF Next

-----------------------------------------------------------------------------
(* The two collections.                                                     *)

\* Whoever was received keeps its cell and its status.
LEMMA CellKept ==
    ASSUME SurveyInv, [Next]_vars, NEW q \in Submission, pc[q] # "new"
    PROVE  /\ pc'[q] # "new" /\ dto'[q] = dto[q] /\ Cell(q)' = Cell(q)
           /\ CarriesStatus(q)' = CarriesStatus(q)
  BY DtoStep DEF Cell, StudentOf, KeyOf, CarriesStatus, StatusToCarry

\* A step that writes no answer which carries a status.
LEMMA LastKept ==
    ASSUME SurveyInv, [Next]_vars, UNCHANGED lastBy, unsettled \subseteq unsettled',
           \A q \in Submission : Between(q)' => Between(q)
    PROVE  LastInv'
<1>1. \A q \in Submission : Between(q)' =>
        Between(q) /\ Cell(q)' = Cell(q) /\ CarriesStatus(q)' = CarriesStatus(q)
  BY CellKept DEF Between
<1>2. \A c \in Student \X Role : lastBy'[c] # None
         => lastBy'[c] \in Submission /\ pc'[lastBy'[c]] # "new" /\ Cell(lastBy[c])' = c
  BY CellKept DEF SurveyInv, LastInv
<1> QED
  BY <1>1, <1>2 DEF SurveyInv, LastInv

\* A step that writes no sheet and no such answer, and settles nothing.
LEMMA FollowKept ==
    ASSUME SurveyInv, [Next]_vars, UNCHANGED <<sheets, lastBy>>,
           unsettled \subseteq unsettled', crossedSheet \subseteq crossedSheet',
           \A q \in Submission : Between(q) => Between(q)' \/ Cell(q) \in unsettled'
    PROVE  SheetFollowsAnswer'
<1> SUFFICES ASSUME NEW st \in Student \ crossedSheet', NEW role \in Role,
                    lastBy'[<<st, role>>] # None, <<st, role>> \notin unsettled',
                    \A q \in Submission : Between(q)' => Cell(q)' # <<st, role>>
             PROVE  \E s \in SheetId :
                       /\ SheetsOf(st)' = {s}
                       /\ sheets'[s].status[role] = dto'[lastBy'[<<st, role>>]].status[role]
  BY DEF SheetFollowsAnswer
<1> DEFINE cell == <<st, role>>
<1>1. \A q \in Submission : Between(q) => Cell(q) # cell
  BY CellKept DEF Between
<1>2. PICK s \in SheetId : SheetsOf(st) = {s} /\ sheets[s].status[role] = dto[lastBy[cell]].status[role]
  BY <1>1 DEF SurveyInv, SheetFollowsAnswer
<1>3. cell \in Student \X Role /\ lastBy[cell] \in Submission /\ pc[lastBy[cell]] # "new"
  BY DEF SurveyInv, LastInv
<1>4. dto'[lastBy'[cell]] = dto[lastBy[cell]]
  BY <1>3, CellKept
<1> QED
  BY <1>2, <1>4 DEF SheetsOf

LEMMA WriteAnswerLast ==
    ASSUME SurveyInv, NEW r \in Submission, WriteAnswer(r)
    PROVE  LastInv' /\ SheetFollowsAnswer'
<1>0. [Next]_vars /\ pc[r] = "checked" /\ UNCHANGED <<sheets, crossedSheet, dto>>
  BY DEF Next, WriteAnswer
<1>1. /\ pc' = [pc EXCEPT ![r] = IF CarriesStatus(r) THEN "written" ELSE "done"]
      /\ pc'[r] = IF CarriesStatus(r) THEN "written" ELSE "done"
      /\ \A q \in Submission : q # r => pc'[q] = pc[q] /\ Between(q)' = Between(q)
  BY DEF SurveyInv, TypeOK, WriteAnswer, Goto, Between
<1>2. ~ Between(r)
  BY <1>0 DEF Between
<1>3. CASE ~ CarriesStatus(r)
  <2>1. UNCHANGED <<lastBy, unsettled>> /\ ~ Between(r)'
    BY <1>1, <1>3 DEF WriteAnswer, Between
  <2>2. \A q \in Submission : Between(q)' <=> Between(q)
    BY <1>1, <1>2, <2>1
  <2> QED
    BY <1>0, <2>1, <2>2, LastKept, FollowKept
<1>4. CASE CarriesStatus(r)
  <2> DEFINE cell == Cell(r)
  <2>0. cell \in Student \X Role
    BY <1>0, <1>4, DtoTypes
  <2>1. /\ lastBy'[cell] = r /\ \A c \in Student \X Role : c # cell => lastBy'[c] = lastBy[c]
        /\ \A c \in Student \X Role : c # cell /\ c \notin unsettled' => c \notin unsettled
        /\ (\E p \in Others(r) : Between(p) /\ Cell(p) = cell) => cell \in unsettled'
    BY <1>4, <2>0 DEF SurveyInv, TypeOK, WriteAnswer
  <2>2. Between(r)' /\ \A q \in Submission : Cell(q)' = Cell(q) /\ CarriesStatus(q)' = CarriesStatus(q)
    BY <1>0, <1>1, <1>4 DEF Between, Cell, StudentOf, KeyOf, CarriesStatus, StatusToCarry
  <2>3. ASSUME NEW q \in Submission, Between(q)'
        PROVE  Cell(q)' \in Student \X Role /\ CarriesStatus(q)'
    <3>1. CASE q = r
      BY <1>4, <2>0, <2>2, <3>1
    <3>2. CASE q # r
      BY <1>1, <2>2, <2>3, <3>2 DEF SurveyInv, LastInv
    <3> QED
      BY <3>1, <3>2
  <2>4. ASSUME NEW q \in Submission, Between(q)', Cell(q)' \notin unsettled'
        PROVE  lastBy'[Cell(q)'] = q
    <3>1. CASE q = r
      BY <2>1, <2>2, <3>1
    <3>2. CASE q # r
      <4>1. Between(q) /\ Cell(q) # cell /\ Cell(q) \in Student \X Role
        BY <1>1, <2>1, <2>2, <2>4, <3>2 DEF Others, SurveyInv, LastInv
      <4> QED
        BY <2>1, <2>2, <2>4, <4>1 DEF SurveyInv, LastInv
    <3> QED
      BY <3>1, <3>2
  <2>5. ASSUME NEW c \in Student \X Role, lastBy'[c] # None
        PROVE  lastBy'[c] \in Submission /\ pc'[lastBy'[c]] # "new" /\ Cell(lastBy[c])' = c
    <3>1. CASE c = cell
      BY <1>1, <2>1, <2>2, <3>1
    <3>2. CASE c # cell
      <4>1. lastBy'[c] = lastBy[c] /\ lastBy[c] \in Submission /\ pc[lastBy[c]] # "new" /\ Cell(lastBy[c]) = c
        BY <2>1, <2>5, <3>2 DEF SurveyInv, LastInv
      <4> QED
        BY <1>0, <4>1, CellKept
    <3> QED
      BY <3>1, <3>2
  <2>6. SheetFollowsAnswer'
    <3> SUFFICES ASSUME NEW st \in Student \ crossedSheet, NEW role \in Role,
                        lastBy'[<<st, role>>] # None, <<st, role>> \notin unsettled',
                        \A q \in Submission : Between(q)' => Cell(q)' # <<st, role>>
                 PROVE  \E s \in SheetId :
                           /\ SheetsOf(st) = {s}
                           /\ sheets[s].status[role] = dto[lastBy'[<<st, role>>]].status[role]
      BY <1>0 DEF SheetFollowsAnswer, SheetsOf
    <3>1. <<st, role>> # cell
      BY <2>2
    <3>2. \A q \in Submission : Between(q) => Cell(q) # <<st, role>>
      BY <1>1, <1>2, <2>2
    <3>3. lastBy'[<<st, role>>] = lastBy[<<st, role>>]
      BY <2>1, <3>1
    <3>4. <<st, role>> \notin unsettled
      BY <2>1, <3>1
    <3> QED
      BY <1>0, <3>2, <3>3, <3>4 DEF SurveyInv, SheetFollowsAnswer
  <2> QED
    BY <2>3, <2>4, <2>5, <2>6 DEF LastInv
<1> QED
  BY <1>3, <1>4

LEMMA WriteSheetFollows ==
    ASSUME SurveyInv, NEW r \in Submission, WriteSheet(r)
    PROVE  SheetFollowsAnswer'
<1>0. [Next]_vars /\ Between(r) /\ UNCHANGED <<lastBy, unsettled, crossedSheet, dto>>
  BY DEF Next, WriteSheet, Between, historyVars
<1>1. PICK s \in SheetId :
        /\ s = sheetMatch[r] \/ (sheetMatch[r] = None /\ sheets[s] = None)
        /\ sheets'[s] # None /\ sheets'[s].student = StudentOf(r)
        /\ sheets'[s].status[KeyOf(r).role] = StatusToCarry(r)
        /\ sheets[s] # None => \A o \in Role \ {KeyOf(r).role} :
                                  sheets'[s].status[o] = sheets[s].status[o]
        /\ \A t \in SheetId : t # s => sheets'[t] = sheets[t]
  BY SheetWritten
<1> SUFFICES ASSUME NEW st \in Student \ crossedSheet, NEW role \in Role,
                    lastBy[<<st, role>>] # None, <<st, role>> \notin unsettled,
                    \A q \in Submission : Between(q)' => Cell(q)' # <<st, role>>
             PROVE  \E t \in SheetId :
                       /\ SheetsOf(st)' = {t}
                       /\ sheets'[t].status[role] = dto[lastBy[<<st, role>>]].status[role]
  BY <1>0 DEF SheetFollowsAnswer
<1> DEFINE cell == <<st, role>>
<1>2. ASSUME NEW t \in SheetId, sheets'[t] # None, sheets'[t].student = st
      PROVE  SheetsOf(st)' = {t}
  <2>1. OneSheetInv' /\ crossedSheet' = crossedSheet
    BY <1>0, OneSheetStep
  <2> QED
    BY <1>2, <2>1 DEF OneSheetInv, SheetsOf
<1>3. CASE Cell(r) = cell
  <2>1. lastBy[cell] = r /\ StudentOf(r) = st /\ KeyOf(r).role = role
    BY <1>0, <1>3 DEF SurveyInv, LastInv, Cell
  <2>2. StatusToCarry(r) = dto[r].status[role]
    BY <2>1 DEF StatusToCarry
  <2> QED
    BY <1>1, <1>2, <2>1, <2>2
<1>4. CASE Cell(r) # cell
  <2>1. \A q \in Submission : q # r => Between(q)' = Between(q)
    BY DEF SurveyInv, TypeOK, WriteSheet, Goto, Between
  <2>2. \A q \in Submission : Between(q) => Cell(q) # cell
    BY <1>0, <1>4, <2>1 DEF Cell, StudentOf, KeyOf
  <2>3. PICK t \in SheetId : SheetsOf(st) = {t} /\ sheets[t].status[role] = dto[lastBy[cell]].status[role]
    BY <2>2 DEF SurveyInv, SheetFollowsAnswer
  <2>4. sheets[t] # None /\ sheets[t].student = st
    BY <2>3 DEF SheetsOf
  <2>5. CASE t # s
    BY <1>1, <1>2, <2>3, <2>4, <2>5
  <2>6. CASE t = s
    <3>1. StudentOf(r) = st
      <4>1. s = sheetMatch[r] /\ s # None
        BY <1>1, <2>4, <2>6, NoneAssumption
      <4> QED
        BY <2>4, <2>6, <4>1 DEF SurveyInv, OneSheetInv, WriteSheet, Matched
    <3>2. KeyOf(r).role # role
      BY <1>4, <3>1 DEF Cell
    <3> QED
      BY <1>1, <1>2, <2>3, <2>4, <2>6, <3>1, <3>2
  <2> QED
    BY <2>5, <2>6
<1> QED
  BY <1>3, <1>4

LEMMA LastStep == SurveyInv /\ [Next]_vars => LastInv' /\ SheetFollowsAnswer'
<1> SUFFICES ASSUME SurveyInv, [Next]_vars PROVE LastInv' /\ SheetFollowsAnswer'
  OBVIOUS
<1>1. ASSUME NEW q \in Submission, NEW d \in Dto, Receive(q, d)
      PROVE  LastInv' /\ SheetFollowsAnswer'
  <2>1. \A p \in Submission : Between(p)' = Between(p)
    BY <1>1 DEF SurveyInv, TypeOK, Receive, Goto, Between
  <2> QED
    BY <1>1, <2>1, LastKept, FollowKept DEF Receive, docVars, historyVars
<1>2. ASSUME NEW q \in Submission, CheckExist(q) PROVE LastInv' /\ SheetFollowsAnswer'
  <2>1. \A p \in Submission : Between(p)' = Between(p)
    BY <1>2 DEF SurveyInv, TypeOK, CheckExist, Goto, Between
  <2> QED
    BY <1>2, <2>1, LastKept, FollowKept DEF CheckExist, docVars
<1>3. ASSUME NEW q \in Submission, MatchSheet(q) PROVE LastInv' /\ SheetFollowsAnswer'
  <2>1. \A p \in Submission : Between(p)' = Between(p)
    BY <1>3 DEF SurveyInv, TypeOK, MatchSheet, Goto, Between
  <2> QED
    BY <1>3, <2>1, LastKept, FollowKept DEF MatchSheet, docVars
<1>4. ASSUME NEW q \in Submission, WriteSheet(q) PROVE LastInv' /\ SheetFollowsAnswer'
  <2>1. \A p \in Submission : Between(p)' => Between(p)
    BY <1>4 DEF SurveyInv, TypeOK, WriteSheet, Goto, Between
  <2> QED
    BY <1>4, <2>1, LastKept, WriteSheetFollows DEF WriteSheet, historyVars
<1>5. ASSUME NEW q \in Submission, Abort(q) PROVE LastInv' /\ SheetFollowsAnswer'
  <2>1. \A p \in Submission : /\ Between(p)' => Between(p)
                              /\ Between(p) => Between(p)' \/ Cell(p) \in unsettled'
    BY <1>5 DEF SurveyInv, TypeOK, Abort, Goto, Between
  <2> QED
    BY <1>5, <2>1, LastKept, FollowKept DEF Abort, docVars
<1>6. ASSUME NEW a \in AnswerId, DeleteAnswer(a) PROVE LastInv' /\ SheetFollowsAnswer'
  BY <1>6, LastKept, FollowKept DEF DeleteAnswer, Between, localVars, historyVars
<1>7. CASE UNCHANGED vars
  BY <1>7, LastKept, FollowKept DEF Between, vars, docVars, localVars, historyVars
<1> QED
  BY <1>1, <1>2, <1>3, <1>4, <1>5, <1>6, <1>7, WriteAnswerLast DEF Next

LEMMA SurveyStep == SurveyInv /\ [Next]_vars => SurveyInv'
  BY TypeStep, DtoStep, AnswerStep, OneSheetStep, LastStep DEF SurveyInv

\* Every variable keeps its type.
THEOREM SurveyTypeCorrect == Spec => []TypeOK
  BY SurveyInitial, SurveyStep, PTL DEF Spec, SurveyInv

\* user_create_cau_tra_loi_khao_sat: two answers with one key need two submissions of that
\* key that had both checked before either wrote.
THEOREM DuplicateCorrect == Spec => []DuplicatesNeedCrossing
<1>1. SurveyInv => DuplicatesNeedCrossing
  BY DEF SurveyInv, AnswerInv
<1> QED
  BY <1>1, SurveyInitial, SurveyStep, PTL DEF Spec

\* The sheet of a student shows, for each role, the status of the submission that wrote its
\* answer last, unless writes crossed or were cut off and none came after that was alone.
THEOREM SheetCorrect == Spec => []SheetFollowsAnswer
  BY SurveyInitial, SurveyStep, PTL DEF Spec, SurveyInv
=============================================================================

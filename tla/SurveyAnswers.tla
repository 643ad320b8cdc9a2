---------------------------- MODULE SurveyAnswers ----------------------------
(***************************************************************************)
(* KhaoSatService.user_create_cau_tra_loi_khao_sat: submitting or saving   *)
(* the answer of a survey, and carrying its status over to the training    *)
(* score sheet (phieu_diem_ren_luyen) of the student.                      *)
(*                                                                         *)
(* A submission looks for an earlier answer with the same key, inserts or  *)
(* updates, and then upserts the sheet.  The three are separate awaited    *)
(* calls on two collections without unique indexes, so submissions of the  *)
(* same key interleave, and a submission may be cut off between the two    *)
(* writes.  MongoDB runs an upsert as a match followed by a write; without *)
(* a unique index two upserts may both match nothing, hence two steps.     *)
(*                                                                         *)
(* One survey round (idDotChamDiemRenLuyen) is modelled: rounds share no   *)
(* answer and no sheet.  A submission without a round is one without a     *)
(* student here: it is of a key of its own and no sheet is concerned.  One *)
(* without a role (nguoiTraLoi) is of a role whose status is never given.  *)
(* The texts of the answers and the score computed from them are left out. *)
(***************************************************************************)
EXTENDS Naturals

CONSTANTS
    Submission,     \* requests: each is one call of the function
    Student,        \* ssoIdSinhVien
    Answerer,       \* userSsoId: who answers about the student
    Role,           \* nguoiTraLoi, each with its status field on the sheet
    AnswerId,       \* the values of `_id` in cau_tra_loi_khao_sat
    SheetId,        \* the values of `_id` in phieu_diem_ren_luyen
    NoStudent,      \* ssoIdSinhVien or the round left out: no sheet is concerned
    NoStatus,       \* a status field left out or not set yet
    None            \* no document

ASSUME NoStudentAssumption == NoStudent \notin Student
ASSUME NoneAssumption == None \notin AnswerId \cup SheetId

Status == {"LUU", "DA_GUI"}
MaybeStatus == Status \cup {NoStatus}
Mode == {"create", "save"}
Key == [student : Student \cup {NoStudent}, who : Answerer, role : Role]
Answer == [key : Key, answered : BOOLEAN, by : Submission]
Sheet == [student : Student, status : [Role -> MaybeStatus]]
\* What a submission sends: the status it gives each role's field.
Dto == [key : Key, mode : Mode, status : [Role -> MaybeStatus]]

ASSUME NoStatusAssumption == NoStatus \notin Status
ASSUME NoDocumentAssumption == None \notin Answer \cup Sheet

VARIABLES
    answers,    \* the answer of each _id
    sheets,     \* the sheet of each _id
    pc,         \* where each submission stands
    dto,        \* what each submission sent
    match,      \* local `check_exist["_id"]`, or None
    sheetMatch, \* the sheet the upsert matched, or None
    crossed,    \* history: keys whose check-and-write windows overlapped
    crossedSheet, \* history: students whose upsert windows overlapped
    unsettled,  \* history: <<student, role>> whose two writes crossed or were cut, until a
                \* submission that meets no other writes an answer about them again
    lastBy      \* history: the last answer written that carries a status for a role

docVars == <<answers, sheets>>
localVars == <<pc, dto, match, sheetMatch>>
historyVars == <<crossed, crossedSheet, unsettled, lastBy>>
vars == <<docVars, localVars, historyVars>>

Goto(q, label) == pc' = [pc EXCEPT ![q] = label]
Others(q) == Submission \ {q}
KeyOf(q) == dto[q].key
StudentOf(q) == KeyOf(q).student
AnswersOf(key) == {a \in AnswerId : answers[a] # None /\ answers[a].key = key}
SheetsOf(student) == {s \in SheetId : sheets[s] # None /\ sheets[s].student = student}

\* A mutated form: the adviser's status is carried over for every role.
StatusToCarryAny(q) ==
    IF \E role \in Role : dto[q].status[role] # NoStatus
      THEN dto[q].status[CHOOSE role \in Role : dto[q].status[role] # NoStatus]
      ELSE NoStatus
\* update_trang_thai: each role hands on its own status field and no other.
StatusToCarry(q) == dto[q].status[KeyOf(q).role]

\* The submission goes on to the sheet: a student and a status were given.
CarriesStatus(q) == StudentOf(q) # NoStudent /\ StatusToCarry(q) # NoStatus

Cell(q) == <<StudentOf(q), KeyOf(q).role>>

\* Between the write of the answer and that of the sheet.
Between(q) == pc[q] \in {"written", "matched"}

-----------------------------------------------------------------------------
\* The call starts and awaits the survey, which it only reads.
Receive(q, d) ==
    /\ pc[q] = "new"
    /\ dto' = [dto EXCEPT ![q] = d]
    /\ Goto(q, "received")
    /\ UNCHANGED <<docVars, match, sheetMatch, historyVars>>

\* A mutated form: the check ignores answers that were only saved.
FoundBeforeAnswered(q) == {a \in AnswersOf(KeyOf(q)) : answers[a].answered}
\* check_exist: find_one by student, answerer, round and role.
FoundBefore(q) == AnswersOf(KeyOf(q))

CheckExist(q) ==
    /\ pc[q] = "received"
    /\ Goto(q, "checked")
    /\ \/ FoundBefore(q) = {} /\ match' = [match EXCEPT ![q] = None]
       \/ \E a \in FoundBefore(q) : match' = [match EXCEPT ![q] = a]
    /\ crossed' = IF \E p \in Others(q) : pc[p] = "checked" /\ KeyOf(p) = KeyOf(q)
                    THEN crossed \cup {KeyOf(q)} ELSE crossed
    /\ UNCHANGED <<docVars, dto, sheetMatch, crossedSheet, unsettled, lastBy>>

\* "answered" is set by create and cleared by save, also on an answer sent before.
Answered(q) == dto[q].mode = "create"

\* An _id is not given out again: none that a submission found before is taken.
FreeAnswer(a) == answers[a] = None /\ \A p \in Submission : match[p] # a

\* insert_one, or update_one on the `_id` found before: when that answer was deleted
\* meanwhile the update matches nothing and the submission goes on all the same.
WriteAnswer(q) ==
    /\ pc[q] = "checked"
    /\ LET doc == [key |-> KeyOf(q), answered |-> Answered(q), by |-> q]
       IN  \/ /\ match[q] = None
              /\ \E a \in AnswerId : FreeAnswer(a) /\ answers' = [answers EXCEPT ![a] = doc]
           \/ /\ match[q] # None
              /\ answers' = IF answers[match[q]] = None THEN answers
                            ELSE [answers EXCEPT ![match[q]] = doc]
    /\ Goto(q, IF CarriesStatus(q) THEN "written" ELSE "done")
    /\ lastBy' = IF CarriesStatus(q) THEN [lastBy EXCEPT ![Cell(q)] = q] ELSE lastBy
    /\ unsettled' = IF ~ CarriesStatus(q) THEN unsettled
                    ELSE IF \E p \in Others(q) : Between(p) /\ Cell(p) = Cell(q)
                      THEN unsettled \cup {Cell(q)} ELSE unsettled \ {Cell(q)}
    /\ UNCHANGED <<sheets, dto, match, sheetMatch, crossed, crossedSheet>>

SheetFound(q) == SheetsOf(StudentOf(q))

\* The upsert of the sheet, first half: what it matches.
MatchSheet(q) ==
    /\ pc[q] = "written"
    /\ Goto(q, "matched")
    /\ \/ SheetFound(q) = {} /\ sheetMatch' = [sheetMatch EXCEPT ![q] = None]
       \/ \E s \in SheetFound(q) : sheetMatch' = [sheetMatch EXCEPT ![q] = s]
    /\ crossedSheet' = IF \E p \in Others(q) : pc[p] = "matched" /\ StudentOf(p) = StudentOf(q)
                         THEN crossedSheet \cup {StudentOf(q)} ELSE crossedSheet
    /\ UNCHANGED <<docVars, dto, match, crossed, unsettled, lastBy>>

\* $set of the one field.
Stamped(sheet, q) == [sheet EXCEPT !.status[KeyOf(q).role] = StatusToCarry(q)]

\* The upsert of the sheet, second half: $set of one field, or a new sheet.
WriteSheet(q) ==
    /\ pc[q] = "matched"
    /\ Goto(q, "done")
    /\ \/ /\ sheetMatch[q] = None
          /\ \E s \in SheetId :
               /\ sheets[s] = None
               /\ sheets' = [sheets EXCEPT ![s] =
                    [student |-> StudentOf(q),
                     status |-> [role \in Role |->
                                   IF role = KeyOf(q).role THEN StatusToCarry(q) ELSE NoStatus]]]
       \/ /\ sheetMatch[q] # None
          /\ sheets' = [sheets EXCEPT ![sheetMatch[q]] = Stamped(@, q)]
    /\ UNCHANGED <<answers, dto, match, sheetMatch, historyVars>>

-----------------------------------------------------------------------------
\* The call is cut off at an await: its worker is killed or the database raises.
Abort(q) ==
    /\ pc[q] \in {"received", "checked", "written", "matched"}
    /\ Goto(q, "done")
    /\ unsettled' = IF Between(q) THEN unsettled \cup {Cell(q)} ELSE unsettled
    /\ UNCHANGED <<docVars, dto, match, sheetMatch, crossed, crossedSheet, lastBy>>

\* delete_by_id of the generic router over the answers.
DeleteAnswer(a) ==
    /\ answers[a] # None
    /\ answers' = [answers EXCEPT ![a] = None]
    /\ UNCHANGED <<sheets, localVars, historyVars>>

Init ==
    /\ answers = [a \in AnswerId |-> None]
    /\ sheets = [s \in SheetId |-> None]
    /\ pc = [q \in Submission |-> "new"]
    /\ dto = [q \in Submission |-> None]
    /\ match = [q \in Submission |-> None]
    /\ sheetMatch = [q \in Submission |-> None]
    /\ crossed = {}
    /\ crossedSheet = {}
    /\ unsettled = {}
    /\ lastBy = [c \in Student \X Role |-> None]

Next ==
    \/ \E q \in Submission :
         \/ \E d \in Dto : Receive(q, d)
         \/ CheckExist(q) \/ WriteAnswer(q) \/ MatchSheet(q) \/ WriteSheet(q)
         \/ Abort(q)
    \/ \E a \in AnswerId : DeleteAnswer(a)

Spec == Init /\ [][Next]_vars

-----------------------------------------------------------------------------
TypeOK ==
    /\ answers \in [AnswerId -> Answer \cup {None}]
    /\ sheets \in [SheetId -> Sheet \cup {None}]
    /\ pc \in [Submission -> {"new", "received", "checked", "written", "matched", "done"}]
    /\ dto \in [Submission -> Dto \cup {None}]
    /\ match \in [Submission -> AnswerId \cup {None}]
    /\ sheetMatch \in [Submission -> SheetId \cup {None}]
    /\ crossed \in SUBSET Key
    /\ crossedSheet \in SUBSET Student
    /\ unsettled \in SUBSET (Student \X Role)
    /\ lastBy \in [Student \X Role -> Submission \cup {None}]

\* "Chống trùng (checkExist)", the docstring says: there is one answer for a
\* student, answerer, round and role.
NoDuplicateAnswer ==
    \A a, b \in AnswerId :
        (a # b /\ answers[a] # None /\ answers[b] # None) => answers[a].key # answers[b].key

\* The check does prevent duplicates as long as no two submissions of the key had
\* both checked before either wrote, in any order of all the others.
DuplicatesNeedCrossing ==
    \A a, b \in AnswerId :
        (/\ a # b /\ answers[a] # None /\ answers[b] # None
         /\ answers[a].key = answers[b].key) => answers[a].key \in crossed

\* Once the submissions about a student and role are at rest, there is one sheet and it
\* shows the status of the last of them to have written its answer: the two collections agree,
\* and no other role's submission has touched the field.  A submission cut off between its two
\* writes, or a pair that crossed there, may leave them apart: the next submission of the
\* role that is alone between its writes repairs that, whatever became of the earlier
\* ones.  Excepted are students two of whose upserts overlapped: they keep two sheets.
SheetFollowsAnswer ==
    \A student \in Student \ crossedSheet, role \in Role :
        LET cell == <<student, role>>
        IN  (/\ lastBy[cell] # None
             /\ cell \notin unsettled
             /\ \A q \in Submission : Between(q) => Cell(q) # cell)
            => \E s \in SheetId : /\ SheetsOf(student) = {s}
                                  /\ sheets[s].status[role] = dto[lastBy[cell]].status[role]
=============================================================================

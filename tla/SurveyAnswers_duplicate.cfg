SPECIFICATION Spec
CONSTANTS
    Submission = {q1, q2}
    Student = {st}
    Answerer = {u}
    Role = {CA_NHAN, CO_VAN_HOC_TAP}
    AnswerId = {a1, a2}
    SheetId = {s1, s2}
    NoStudent = NoStudent
    NoStatus = NoStatus
    None = None
SYMMETRY SurveySymmetry
\* the submissions of an instance come to an end
CHECK_DEADLOCK FALSE
INVARIANTS
    NoDuplicateAnswer

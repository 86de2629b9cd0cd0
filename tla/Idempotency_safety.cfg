SPECIFICATION Spec
CONSTANTS
    i1 = i1
    s1 = s1
    n1 = n1
    Keys = {i1, s1, n1}
    Payloads = {a, b}
    Kind <- MCKind
    Requests = {r1, r2}
    None = None
INVARIANTS
    TypeOK
    AnswersAreTrue
    MailedOnce
PROPERTIES
    OnceSpec
    RequestsEnd

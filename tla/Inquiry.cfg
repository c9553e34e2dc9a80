SPECIFICATION Spec
CONSTANTS
    User = {u}
    Admin = {a}
    Id = {x, y}
    Handler = {h1, h2}
    Action = {"reply", "close", "block"}
    None = None
CONSTRAINT Bounded
SYMMETRY Symmetry
INVARIANTS
    OneOpenInquiry
    TellsTruth
    FormHasDraft

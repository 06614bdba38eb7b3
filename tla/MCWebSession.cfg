\* Two requests in progress; requests that come one at a time are among the
\* behaviours.
CONSTANTS
    Browser = {b1, b2}
    User = {u1, u2}
    Device = {d1}
    Request = {r1, r2}
    Kind = {"login", "register", "apply", "remove", "list", "test"}
    NoOne = NoOne
    MaxLate = 3
SYMMETRY Symmetry
SPECIFICATION Spec
INVARIANTS
    TypeOK
    RegisteredOnce
    AppliedOnce
    AnswerShowsChange
    FlagIsTaken
PROPERTY ActsForOwnUser
\* No request after the last one.
CHECK_DEADLOCK FALSE

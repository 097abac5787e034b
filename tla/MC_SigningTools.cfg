CONSTANTS
    Absent = Absent
    None = None
    OpensslError = OpensslError
    BadValue = BadValue

SPECIFICATION Spec

\* Both tools end: a state where both have exited has no successor.
CHECK_DEADLOCK FALSE

INVARIANTS
    TypeOK
    JsonTokensReadBack
    SignedImageLayout

CONSTANTS
    s1 = s1
    s2 = s2
    s3 = s3
    Span = {s1, s2, s3}
    NoSpan = NoSpan
    Hidden = {s3}
    t1 = t1
    t2 = t2
    Thread = {t1, t2}
    MaxEvents = 1
    MaxSaid = 1
    MaxDepth = 2
SPECIFICATION Spec
SYMMETRY MCSymmetry
INVARIANTS StartsAndFinishes FinishIsOutcome
CHECK_DEADLOCK FALSE

CONSTANTS
    d1 = d1  d2 = d2  c1 = c1  f1 = f1  f2 = f2  r1 = r1  r2 = r2
    Params <- MCParams  Field <- MCField  Rest <- MCRest
    None = None  Us = Us  Other = Other
    QUERY_RETRIES = 2  Soonest = 1  Latest = 2  Messages = 2  Buffer = 1  MaxLate = 1  MaxChanges = 2
SPECIFICATION Spec
INVARIANTS TypeOK Truthful RightSender AckMeansSet PatchKeepsRest FailureHasReason
PROPERTIES JobsEnd
SYMMETRY Symmetry

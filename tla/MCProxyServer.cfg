SPECIFICATION FairSpec
INVARIANTS NothingLeft FailureIsReported
PROPERTY CommandEnds
CHECK_DEADLOCK FALSE

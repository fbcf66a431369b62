SPECIFICATION FairSpec
CONSTANTS
    Requests = {r1, r2}
    Reads = {d1}
    Inputs <- RacingInputs
    Queries <- SomeQueries
    Chunks = {1, 2}
    MaxOutput = 2
    None = None
INVARIANTS
    TypeOK
    WrittenAtMostOnce
    ExpectedSeqWinsOnce
    WriteCursorsOrdered
    EofIsFinal
PROPERTIES
    LossReleasesEveryone
    OrdinaryAfterSettled
    ImplementsPromise
CHECK_DEADLOCK FALSE

SPECIFICATION Spec
CONSTANTS
    Requests = {r1, r2}
    Reads = {d1}
    Inputs <- LongInputs
    Queries <- LongQueries
    Chunks = {1}
    MaxOutput = 2
    None = None
PROPERTY BlockedUntilMoreOutput
CHECK_DEADLOCK FALSE

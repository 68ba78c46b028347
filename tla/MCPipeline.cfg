CONSTANTS
    Text <- MCText
    Width <- MCWidth
    Plain <- MCPlain
    Parents <- Short
    Children <- Longer
    DefaultMaxBytes = 9
    MaxLines = 5
SPECIFICATION Spec
INVARIANTS
    PipelineTypeOK
    StreamEqualsBatch
    StateBounded
    OutputCapped
\* A run ends when the last stage has been flushed.
CHECK_DEADLOCK FALSE

\* chat_stream_ollama or chat: two tool-calling iterations and a third one; the model
\* and the tools may never answer.
CONSTANTS
    turnOn = turnOn
    lock = lock
    read = read
    bad = bad
    MaxIterations = 3
    LLMTimeout = 1
    RequestTimeout = 3
    Actions = {turnOn}
    Reads = {read}
    Refused = {bad}
    MaxCalls = 2
    MaxDeltas = 2
SPECIFICATION FairSpec
CHECK_DEADLOCK FALSE
INVARIANTS
    TypeOK
    AttemptsBounded
    OneVoice
    CleanEnd
PROPERTIES
    NoRepeatAfterRetry
    NothingStartsLate
    RequestEnds

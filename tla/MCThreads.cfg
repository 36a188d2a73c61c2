SPECIFICATION MCSpec
CONSTANTS
    Session = Session
    Workers = {w}
    Nobody = Nobody
    NoThread = NoThread
    MaxTries = 2
    MaxLen = 4
    MaxTurns = 2
    MaxOut = 2
    MaxChunks = 3
    MaxBlocks = 2
    MaxUtterances = 2
    Writers = {w1, w2}
    Proposals = {1}
    Texts = {text}
    MaxPreviews = 1
    MaxRevisions = 2
    MaxFaults = 1
    Refreshers = {c1, c2, c3}
    Logins = 2
    MaxRefresh = 3
INVARIANTS
    ConversationIsHeard
    VoiceIsHeard
    PendingIsSearchable
    FileCanBeRefreshed
PROPERTIES
    NoAnswerMissed
    ImplementsVersionedNote
CHECK_DEADLOCK FALSE

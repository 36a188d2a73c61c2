SPECIFICATION MCSpec
CONSTANTS
    main = main
    worker = worker
    list = list
    fetch = fetch
    Agents <- MCAgents
    Asking = {main}
    Commands <- MCCommands
    Blocked = {fetch}
    MaxAudit = 1
    Texts = {t1, t2}
    note = note
    memory = memory
    goal = goal
    quarantined = quarantined
    chat = chat
    paper = paper
    NotePages <- MCNotePages
    Sources <- MCSources
    Drafts <- MCDrafts
    MaxMarkers = 2
    MaxDigest = 1
    Indexed <- MCIndexed
    Kind <- MCKind
    MaxResults = 1
    MaxTouched = 1
    NumNotes = 2
    Torn = Torn
    Absent = Absent
    MaxRuns = 2
    MaxEdits = 2
INVARIANTS
    RunsAreApproved
    ClaimsAreAccountedFor
    SearchIsSound
PROPERTIES
    EditsKeepTheRest
    RollbackIsExact
CHECK_DEADLOCK FALSE

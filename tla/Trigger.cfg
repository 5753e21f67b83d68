SPECIFICATION TriggerSpec
CONSTANTS
    Nil = Nil
    Signals <- MCSignals
    Window <- MCWindow
    ValidFor = 1
    Deadline = 3
    QuarantineFor = 2
INVARIANT PauseIsCounted
PROPERTY NoEntryPastDeadline
PROPERTY SetupExpires
CHECK_DEADLOCK FALSE

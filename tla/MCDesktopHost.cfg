SPECIFICATION FairSpec
CONSTANTS
    Kept = 2
    MaxRequests = 2
    StrictEffects = TRUE
    BuildInputs <- MCInputs
    MaxAttempts = 3
    MaxReloads = 1
INVARIANTS TypeOK RepliesInOrder ShownCounterIsCurrent
PROPERTIES ServedWhenShown ShellStaysShown StartupSettles PostedGetsAnswered
CHECK_DEADLOCK FALSE

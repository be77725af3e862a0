SPECIFICATION FairSpec
CONSTANTS
    first = first
    retry = retry
    Nobody = Nobody
    Uploads = {first, retry}
    Overwrites = {retry}
    Pieces = 1
CHECK_DEADLOCK FALSE
INVARIANTS
    OutcomesAreTrue
    UploadInv
PROPERTIES
    ConfirmedCleanupIsFinal
    NeverClobbers
    CancelledUploadEnds

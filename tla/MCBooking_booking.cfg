CONSTANTS
    None = None
    MAX_TURNS <- Eight
SPECIFICATION FairSpec
CHECK_DEADLOCK FALSE
INVARIANTS TypeOK AnsweredNumberIsRecorded
PROPERTIES ImplementsBookingTask OutcomeIsRecorded

CONSTANTS
    Proposals = {1}
    Requests = {"first", "second"}
    Tools = {"pool_write", "memory_write"}
    VersionBound = 3
    Disturbances = 1
SPECIFICATION ConfirmationsSpec
INVARIANT PendingCanBeApproved
CHECK_DEADLOCK FALSE

SPECIFICATION FairSpec
CONSTANTS
    plain = plain
    maint = maint
    None = None
    Payload <- MCPayload
    Maintenance <- MCMaintenance
    MaxAttempts = 2
    MaxRevision = 1
PROPERTY PendingDecided

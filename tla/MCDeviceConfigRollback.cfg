SPECIFICATION Spec
CONSTANTS
    plain = plain
    maint = maint
    None = None
    Payload <- MCPayload
    Maintenance <- MCMaintenance
    MaxAttempts = 2
    MaxRevision = 2
INVARIANT RollbackLeavesActiveUntouched

SPECIFICATION Spec
CONSTANTS
    None = None
    MaxAttempts = 2
INVARIANTS ChangedFieldsEnableSaving
CHECK_DEADLOCK FALSE

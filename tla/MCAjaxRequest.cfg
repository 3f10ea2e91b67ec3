CONSTANTS
    Null = Null
    Undefined = Undefined
    NoText = NoText
    EmptyText = EmptyText
    EmptyKey = EmptyKey
    Requests = {r1, r2}
    Kinds <- MCKinds
    Statuses <- MCStatuses
    MaxInteractive = 1
    MaxRegistrations = 2
SYMMETRY Symmetry
SPECIFICATION UpdaterSpec
INVARIANTS ActiveCount RespondersAgree CallbacksInOrder UpdaterGoesOn
CHECK_DEADLOCK FALSE

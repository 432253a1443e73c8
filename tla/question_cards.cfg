SPECIFICATION Spec
CONSTANTS
    Clients = {c1}
    Approvals = {p1}
    Asks = {k1}
    None = None
    MaxEvents = 2
    MaxMoves = 2
INVARIANTS TypeOK OneVerdict ApprovalsShown AskCardIsOpen BatchesLeave
CHECK_DEADLOCK FALSE

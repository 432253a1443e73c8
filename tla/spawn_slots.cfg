SPECIFICATION FairSpec
CONSTANTS
    root = root
    left = left
    right = right
    middle = middle
    Agents <- MCAgents
    Root = root
    Parent <- MCParent
    Turns = 1
    ProviderLimits = {1}
    SpawnLimits = {1, 2}
    MaxChanges = 1
    MaxAborts = 1
INVARIANTS TypeOK SlotsAccounted NoIdleSlot
PROPERTIES CapRespected FirstComeFirstServed TreeEnds
CHECK_DEADLOCK FALSE

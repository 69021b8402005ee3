\* Three handlers and one goroutine of the flag around a producer that holds
\* two messages.  Everybody may be done, or stuck for good.
SPECIFICATION Spec
CONSTANTS
    Orders = {o1, o2, o3}
    Floods = {f1}
    Capacity = 2
    None = None
INVARIANTS
    IInv
    BlockedSendersAreExplained
PROPERTY LiveUnlessOverloaded
CHECK_DEADLOCK FALSE

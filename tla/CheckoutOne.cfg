\* One call, two products, one of them in a cart whose total panics.
SPECIFICATION Spec
CONSTANTS
    alice = alice
    p1 = p1
    Requests = {r1}
    Users = {alice}
    Products = {p1, p2}
    UserOf <- OfAlice
    PanickingCarts <- FirstProductPanics
    None = None
PROPERTIES
    
    CallsEndOrWaitForOthers
    CancelledCallsEnd
CHECK_DEADLOCK FALSE

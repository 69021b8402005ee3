\* Two concurrent PlaceOrder calls on one cart.  Once both calls have ended
\* and the cart is full nothing is left to do.
SPECIFICATION Spec
CONSTANTS
    alice = alice
    p1 = p1
    Requests = {r1, r2}
    Users = {alice}
    Products = {p1}
    UserOf <- OfAlice
    PanickingCarts = {}
    None = None
SYMMETRY Symmetry
INVARIANTS
    IInv
    ShippedIsPaid
    AnswersAreTruthful
    AnnouncedIsShipped
PROPERTIES
    OrdersTakeOnlyTheirItems
    ImplementsOrder
CHECK_DEADLOCK FALSE

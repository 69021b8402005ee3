\* Three calls, of alice, who may have two browser windows open, and of bob,
\* who waits for every answer: enough for an item to be added, lost, and brought
\* back after the cart was emptied.  Quantities may be negative, and wrap at 3.
SPECIFICATION HistorySpec
CONSTANTS
    Calls = {c1, c2, c3}
    Users = {alice, bob}
    Products = {p1, p2}
    Quantities <- SampleQuantities
    HalfInt32 = 4
    Serial = {bob}
    Absent = {alice, bob}
    NoCart = NoCart
SYMMETRY Symmetry
INVARIANTS
    TypeOK
    CartsExpire
    OnlyOverlapsLoseOrRestore
PROPERTY ImplementsCart
CHECK_DEADLOCK FALSE

\* One property, refuted: see the finding on ValkeyCartStore.cs:148.
SPECIFICATION Spec
CONSTANTS
    Calls = {c1, c2}
    Users = {alice}
    Products = {p1}
    Quantities = {1}
    HalfInt32 = 16
    Serial = {}
    Absent = {}
    NoCart = NoCart
INVARIANT AddsAccumulate
CHECK_DEADLOCK FALSE

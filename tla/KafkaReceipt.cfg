\* One property, refuted: see the finding on main.go:663.
SPECIFICATION Spec
CONSTANTS
    Orders = {o1, o2}
    Floods = {}
    Capacity = 2
    None = None
INVARIANT ReceiptIsOwn
CHECK_DEADLOCK FALSE

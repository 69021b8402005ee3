\* A behaviour of any part may end: clicks, questions and changes are bounded.
SPECIFICATION FrontendSpec
CONSTANTS
    Tabs = {t1, t2}
    Currencies = {usd, eur}
    USD = usd
    None = None
    Changes = {a1}
    Orders = {o1, o2}
    ShopCurrencies = {k1, k2}
    Retries = 1
    Products = {p1, p2}
    Questions = {q1, q2}
    Quantities = {1, 2}
    One = 1
    Scores = {0, 14, 15, 34, 45, 50}
    MaxReviews = 7
    Requests = {r1, r2}
    Addresses = {here, there}
    Default = here
    MaxStarts = 2
    MaxChanges = 3
SYMMETRY Symmetry
INVARIANTS
    OneShopper
    CartOnDisplayIsCurrent
    PaidOnce
    AnswerIsForThisProduct
    QuantityWasChosenHere
    PercentsAddUp
    OneUser
    AddressTakesEffect
CHECK_DEADLOCK FALSE

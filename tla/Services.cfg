\* A behaviour of any service may end: requests, orders and restarts are bounded.
SPECIFICATION ServicesSpec
CONSTANTS
    Calls = {c1, c2, c3}
    None = None
    Items = {i1, i2, i3}
    MaxResponses = 2
    Conversions = {k1, k2}
    eur = eur
    usd = usd
    Known = {eur, usd}
    Unknown = {odd}
    Rate <- Rates
    NanosMod = 100
    Precision = 300
    Amounts <- SampleAmounts
    LastMonth = 14
    Expirations = {0, 10, 11, 12, 13}
    off = off
    Flags = {f1, f2}
    Variants = {on, off}
    Shipped <- AllOff
    Editors = {e1, e2}
    MaxCasts = 3
    MaxCrashes = 1
    NoFlags = NoFlags
    Text = Text
    Partial = Partial
    MaxOrders = 4
    MaxDeaths = 2
    MaxStarts = 3
SYMMETRY Symmetry
INVARIANTS
    StoppedIsStopped
    RecommendationsAreFull
    ConversionIsClose
    OnlyCardsInDateAreCharged
    HandledWritesLast
    OrdersAreBooked
    OrdersAreCounted
CHECK_DEADLOCK FALSE

\* Every pair of values with up to two units, and orders of up to two items,
\* with four nanos to a unit: the int32 range is scaled with the unit
\* (2^31 / 10^9 is between 2 and 3).  An order ends in
\* "charge" or "panic", so its last state has no successor.
SPECIFICATION AmountsSpec
CONSTANTS
    NanosMod = 4
    HalfInt32 = 9
    Currencies = {"USD", "EUR"}
    MaxUnits = 2
    Costs <- SampleCosts
    Quantities = {0, 1, 2, 3}
    MaxItems = 2
INVARIANTS
    SumIsExact
    SumIsValidExactly
    IInv
    TotalIsExact
    OrdinaryOrdersAreCharged
    ShownIsCharged
CHECK_DEADLOCK FALSE

\* One property, refuted: see the finding on ProductCard.tsx:49.
SPECIFICATION Spec
CONSTANTS
    NanosMod = 10
    HalfInt32 = 21
    Currencies = {"USD"}
    Costs <- SampleCosts
    Quantities = {1}
    MaxItems = 1
INVARIANT MobileShowsThePrice
CHECK_DEADLOCK FALSE

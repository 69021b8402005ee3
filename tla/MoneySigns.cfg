\* One property, refuted: see the finding on demo.proto:195.
SPECIFICATION Calculating
CONSTANTS
    NanosMod = 10
    HalfInt32 = 21
    Currencies = {"USD"}
    MaxUnits = 1
INVARIANT SumSignsMatch

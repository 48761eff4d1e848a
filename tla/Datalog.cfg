CONSTANTS
    MaxDay = 2
    MaxCycles = 3
    MaxLines = 2
    MaxCrashes = 1
    Wrap = 16
SPECIFICATION Spec
INVARIANTS TypeOK DatesAgree IndexPoints NewestKept RangeComplete RangeTight

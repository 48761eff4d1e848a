CONSTANTS
    f1 = f1
    f2 = f2
    f3 = f3
    NoTable = NoTable
    Firmwares <- MCFirmwares
    Last = 5
    Version <- MCVersion
    Size <- MCSize
    Start <- MCStart
    Schema <- MCSchema
    Blank = 3
    Room = 4
    Values = {a, b}
    Garbage = Garbage
    MaxFlashes = 2
SPECIFICATION Spec
INVARIANTS TypeOK ReadsBack SavedIsUsed
SYMMETRY ValuesAlike

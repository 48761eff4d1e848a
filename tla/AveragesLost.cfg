CONSTANTS
    p = p
    q = q
    Parameters = {p, q}
    None = None
    Reads <- MCReads
    NaN = NaN
    NoFile = NoFile
    Slots <- MCSlots
    Day = 3
    Scale = 54
    MaxMinutes = 7
    MaxEvents = 3
SPECIFICATION Spec
PROPERTY SurvivesPowerOff

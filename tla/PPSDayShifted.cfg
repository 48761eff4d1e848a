CONSTANTS
    Week = 7
    Requests <- MCTimeRequest
    Units <- MCUnit
    Modes <- MCWrite
    Esp32 = FALSE
SPECIFICATION Spec
PROPERTIES DayIsSent

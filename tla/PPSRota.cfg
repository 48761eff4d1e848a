CONSTANTS
    Week = 1
    Requests <- MCRequests
    Units <- MCUnits
    Modes <- MCModes
    Esp32 = TRUE
SPECIFICATION FairSpec
INVARIANTS TypeOK TimeIsSent
PROPERTIES OnlyOnRequest RotaResumes RotaGoesOn

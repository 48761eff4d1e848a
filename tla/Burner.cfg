CONSTANTS
    Payloads <- MCPayloads
    Wrap = 5
    Second = 2
    MaxEvents = 4
SPECIFICATION Spec
INVARIANTS TypeOK OneStageTimed Accounted
PROPERTIES StartsCounted

CONSTANTS
    h0 = h0
    h1 = h1
    h2 = h2
    h9 = h9
    Nobody = Nobody
    Free = Free
    Everyone = Everyone
    Default = Default
    Configured = h0
    Addr <- MCThreeAndGhost
    Devices <- MCThree
    Slots = 2
    Families = 1
    MaxList = 3
    Json <- MCJsonAll
    Unknown = FALSE
    Readdress = TRUE
SPECIFICATION Spec
INVARIANTS TypeOK AsDirected AtHome
PROPERTIES ImplementsConversation

CONSTANTS
    h0 = h0
    h1 = h1
    h2 = h2
    h9 = h9
    Nobody = Nobody
    Free = Free
    Everyone = Everyone
    Default = Default
    Configured = h0
    Addr <- MCThree
    Devices <- MCThree
    Slots = 2
    Families = 3
    MaxList = 2
    Json <- MCJsonAll
    Unknown = TRUE
    Readdress = TRUE
SPECIFICATION FairSpec
   
INVARIANTS IdentityFits

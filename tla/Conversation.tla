---------------------------- MODULE Conversation -----------------------------
(***************************************************************************)
(* What the handling of destinations promises its users, without tables,   *)
(* scans or saved copies: there is one partner at a time; only within a    *)
(* conversation may it be someone other than the default partner; and a    *)
(* conversation leaves the default partner behind.                         *)
(***************************************************************************)
CONSTANTS Addr, Configured

VARIABLES
    partner,   \* to whom a telegram would go
    default,   \* the configured default destination
    busy       \* a request, a list or a device detection is being served

Init == partner = Configured /\ default = Configured /\ busy = TRUE

Begin(d) ==
    /\ ~busy /\ busy' = TRUE
    /\ partner' = d
    /\ UNCHANGED default

Address(d) ==
    /\ busy
    /\ partner' = d
    /\ UNCHANGED <<default, busy>>

Finish ==
    /\ busy /\ busy' = FALSE
    /\ partner' = default
    /\ UNCHANGED default

\* The user moves the default destination; this too is a conversation.
Move(d) ==
    /\ ~busy /\ busy' = TRUE
    /\ partner' = d /\ default' = d

Next == (\E d \in Addr : Begin(d) \/ Address(d) \/ Move(d)) \/ Finish

Spec == Init /\ [][Next]_<<partner, default, busy>>

=============================================================================

------------------------- MODULE MqttSession_proofs -------------------------
(***************************************************************************)
(* Types, the retained status and the wait between two attempts, for every  *)
(* set of prefixes, width of millis() and length of the wait.              *)
(***************************************************************************)
EXTENDS MqttSession, TLAPS

USE MqttAssumption DEF board, link, broker, history, Callers, PCs

\* TypeOK in parts: numbers, the rest, and what connects client and up.
CountsOK ==
    /\ now \in 0..(Wrap - 1) /\ timer \in 0..(Wrap - 1)
    /\ since \in 0..Wait /\ mishaps \in 0..MaxMishaps

FlagsOK ==
    /\ pc \in PCs /\ caller \in Callers
    /\ mode \in BOOLEAN /\ server \in BOOLEAN /\ prefix \in Prefixes
    /\ timeKnown \in BOOLEAN /\ client \in BOOLEAN /\ up \in BOOLEAN
    /\ had \in BOOLEAN /\ reachable \in BOOLEAN /\ alive \in BOOLEAN
    /\ will \in Prefixes \cup {NoWill} /\ session \in BOOLEAN
    /\ subs \subseteq Prefixes /\ announced \subseteq Devices
    /\ status \in [Prefixes -> {"none", "online", "offline"}]
    /\ orphans \subseteq Prefixes /\ forgone \subseteq Devices

ClientOK ==
    /\ up => client
    /\ pc = "attempt" => client

LEMMA Parts == CountsOK /\ FlagsOK /\ ClientOK => TypeOK
BY DEF TypeOK, CountsOK, FlagsOK, ClientOK

LEMMA ClientKept ==
    ASSUME ClientOK, [Next]_vars
    PROVE  ClientOK'
<1>1. CASE NoTime \/ NewClient \/ Connected \/ JustLost \/ Waiting \/ Retry \/ Refused
  BY <1>1 DEF ClientOK, NoTime, NewClient, Connected, JustLost, Waiting, Retry, Refused
<1>2. CASE Accepted
  BY <1>2 DEF ClientOK, Accepted
<1>3. CASE AckedTooLate
  BY <1>3 DEF ClientOK, AckedTooLate
<1>4. CASE Subscribe \/ Online \/ Discover
  BY <1>4 DEF ClientOK, Subscribe, Online, Discover
<1>5. CASE NoRequest \/ KeepConnected \/ NotInUse \/ NullClient \/ Returned
  BY <1>5 DEF ClientOK, NoRequest, KeepConnected, NotInUse, NullClient, Boot, Returned
<1>6. CASE EndTurn
  BY <1>6 DEF ClientOK, EndTurn, Disconnect
<1>7. ASSUME NEW m \in BOOLEAN, NEW s \in BOOLEAN, NEW changed \in BOOLEAN,
             NEW p \in Prefixes, SaveConfig(m, s, changed, p)
      PROVE  ClientOK'
  BY <1>7 DEF ClientOK, SaveConfig, Disconnect
<1>8. ASSUME NEW c \in Callers \ {"loop"}, DiscoveryRequest(c)
      PROVE  ClientOK'
  BY <1>8 DEF ClientOK, DiscoveryRequest
<1>9. CASE ResetBoard \/ PowerFailure
  BY <1>9 DEF ClientOK, ResetBoard, PowerFailure, Boot
<1>10. CASE Cut \/ Repair \/ ClientNotices \/ BrokerNotices
  BY <1>10 DEF ClientOK, Cut, Repair, ClientNotices, BrokerNotices
<1>11. CASE SessionExpires \/ BrokerRestarts \/ TimeArrives \/ UNCHANGED vars
  BY <1>11 DEF ClientOK, SessionExpires, BrokerRestarts, TimeArrives, vars
<1>12. ASSUME NEW device \in Devices, NEW changed \in BOOLEAN,
              SendDiscovery(device, changed)
       PROVE  ClientOK'
  BY <1>12 DEF ClientOK, SendDiscovery
<1> QED
  BY <1>1, <1>2, <1>3, <1>4, <1>5, <1>6, <1>7, <1>8, <1>9, <1>10, <1>11, <1>12
  DEF Next, Connect, Loop, Request, Environment

LEMMA CountsKept ==
    ASSUME CountsOK, [Next]_vars
    PROVE  CountsOK'
<1>1. CASE NoTime \/ NewClient \/ Connected \/ JustLost \/ Waiting \/ Retry
  BY <1>1 DEF CountsOK, NoTime, NewClient, Connected, JustLost, Waiting, Retry
<1>2. CASE Refused \/ Accepted \/ AckedTooLate
  BY <1>2 DEF CountsOK, Refused, Accepted, AckedTooLate
<1>3. CASE Subscribe \/ Online
  BY <1>3 DEF CountsOK, Subscribe, Online
<1>12. CASE Discover
  <2>1. /\ mishaps' \in {mishaps, mishaps + 1} /\ mishaps' <= MaxMishaps
        /\ now' = now /\ timer' = timer /\ since' = since
    BY <1>12 DEF Discover
  <2> QED
    BY <2>1 DEF CountsOK
<1>13. ASSUME NEW device \in Devices, NEW changed \in BOOLEAN,
              SendDiscovery(device, changed)
       PROVE  CountsOK'
  BY <1>13 DEF CountsOK, SendDiscovery
<1>4. CASE NoRequest \/ KeepConnected \/ NotInUse \/ Returned
  BY <1>4 DEF CountsOK, NoRequest, KeepConnected, NotInUse, Returned
<1>5. CASE NullClient
  BY <1>5 DEF CountsOK, NullClient, Boot
<1>6. CASE EndTurn
  <2>1. PICK d \in 1..Slow :
            /\ now' = IF now + d < Wrap THEN now + d ELSE now + d - Wrap
            /\ since' = IF since + d < Wait THEN since + d ELSE Wait
    BY <1>6 DEF EndTurn
  <2>2. timer' = timer /\ mishaps' = mishaps
    BY <1>6 DEF EndTurn
  <2> QED
    BY <2>1, <2>2 DEF CountsOK
<1>7. ASSUME NEW m \in BOOLEAN, NEW s \in BOOLEAN, NEW changed \in BOOLEAN,
             NEW p \in Prefixes, SaveConfig(m, s, changed, p)
      PROVE  CountsOK'
  BY <1>7 DEF CountsOK, SaveConfig
<1>8. ASSUME NEW c \in Callers \ {"loop"}, DiscoveryRequest(c)
      PROVE  CountsOK'
  BY <1>8 DEF CountsOK, DiscoveryRequest
<1>9. CASE ResetBoard \/ PowerFailure
  BY <1>9 DEF CountsOK, ResetBoard, PowerFailure, Boot, Mishap
<1>10. CASE Cut \/ SessionExpires \/ BrokerRestarts
  BY <1>10 DEF CountsOK, Cut, SessionExpires, BrokerRestarts, Mishap
<1>11. CASE Repair \/ ClientNotices \/ BrokerNotices \/ TimeArrives \/ UNCHANGED vars
  BY <1>11 DEF CountsOK, Repair, ClientNotices, BrokerNotices, TimeArrives, vars
<1> QED
  BY <1>1, <1>2, <1>3, <1>4, <1>5, <1>6, <1>7, <1>8, <1>9, <1>10, <1>11, <1>12, <1>13
  DEF Next, Connect, Loop, Request, Environment

\* What a closed connection leaves behind.
LEMMA DisconnectOK ==
    ASSUME FlagsOK, NEW p \in Prefixes, Disconnect(p)
    PROVE  /\ client' = FALSE /\ up' = FALSE /\ alive' = FALSE
           /\ will' \in Prefixes \cup {NoWill}
           /\ status' \in [Prefixes -> {"none", "online", "offline"}]
           /\ orphans' \subseteq Prefixes
BY DEF FlagsOK, Disconnect

LEMMA AdmitOK ==
    ASSUME FlagsOK, Admit
    PROVE  /\ will' = prefix /\ session' = TRUE /\ announced' = announced
           /\ subs' \subseteq Prefixes
           /\ status' \in [Prefixes -> {"none", "online", "offline"}]
BY DEF FlagsOK, Admit

LEMMA FlagsKept ==
    ASSUME FlagsOK, [Next]_vars
    PROVE  FlagsOK'
<1>1. CASE NoTime \/ NewClient \/ Connected \/ JustLost \/ Waiting \/ Retry \/ Refused
  <2>1. UNCHANGED <<caller, mode, server, prefix, timeKnown, up, had, reachable, alive,
                    will, session, subs, status, announced, orphans, forgone>>
    BY <1>1 DEF NoTime, NewClient, Connected, JustLost, Waiting, Retry, Refused
  <2>2. pc' \in PCs /\ client' \in BOOLEAN
    BY <1>1 DEF FlagsOK, NoTime, NewClient, Connected, JustLost, Waiting, Retry, Refused
  <2> QED
    BY <2>1, <2>2 DEF FlagsOK
<1>2. CASE Accepted
  <2>1. UNCHANGED <<caller, mode, server, prefix, timeKnown, client, reachable,
                    orphans, forgone>>
    BY <1>2 DEF Accepted
  <2>2. pc' \in PCs /\ up' \in BOOLEAN /\ alive' \in BOOLEAN /\ had' \in BOOLEAN
    BY <1>2 DEF Accepted, FlagsOK
  <2>3. Admit
    BY <1>2 DEF Accepted
  <2>4. /\ will' = prefix /\ session' = TRUE /\ announced' = announced
        /\ subs' \subseteq Prefixes
        /\ status' \in [Prefixes -> {"none", "online", "offline"}]
    BY <2>3, AdmitOK
  <2> QED
    BY <2>1, <2>2, <2>4 DEF FlagsOK
<1>3. CASE AckedTooLate
  <2>1. UNCHANGED <<caller, mode, server, prefix, timeKnown, client, up, had,
                    reachable, alive, orphans>>
    BY <1>3 DEF AckedTooLate
  <2>2. pc' \in PCs /\ forgone' \subseteq Devices /\ Admit
    BY <1>3 DEF AckedTooLate, FlagsOK
  <2>3. /\ will' = prefix /\ session' = TRUE /\ announced' = announced
        /\ subs' \subseteq Prefixes
        /\ status' \in [Prefixes -> {"none", "online", "offline"}]
    BY <2>2, AdmitOK
  <2> QED
    BY <2>1, <2>2, <2>3 DEF FlagsOK
<1>4. CASE Subscribe \/ Online \/ Discover
  <2>1. UNCHANGED <<caller, mode, server, prefix, timeKnown, client, up, had, reachable,
                    alive, will, session>>
    <3>1. CASE Subscribe
      BY <3>1 DEF Subscribe
    <3>2. CASE Online
      BY <3>2 DEF Online
    <3>3. CASE Discover
      BY <3>3 DEF Discover
    <3> QED
      BY <1>4, <3>1, <3>2, <3>3
  <2>2. pc' \in PCs
    BY <1>4 DEF Subscribe, Online, Discover
  <2>3. /\ subs' \subseteq Prefixes /\ orphans' \subseteq Prefixes
        /\ status' \in [Prefixes -> {"none", "online", "offline"}]
    BY <1>4 DEF FlagsOK, Subscribe, Online, Discover
  <2>4. announced' \subseteq Devices /\ forgone' \subseteq Devices
    <3>1. CASE Subscribe \/ Online
      BY <3>1 DEF FlagsOK, Subscribe, Online
    <3>2. CASE Discover
      <4>1. PICK found \in SUBSET Devices :
                /\ announced' = IF alive THEN announced \cup found ELSE announced
                /\ forgone' = IF alive THEN Devices \ found ELSE Devices
        BY <3>2 DEF Discover
      <4> QED
        BY <4>1 DEF FlagsOK
    <3> QED
      BY <1>4, <3>1, <3>2
  <2> QED
    BY <2>1, <2>2, <2>3, <2>4 DEF FlagsOK
<1>5. CASE NoRequest \/ KeepConnected \/ NotInUse
  BY <1>5 DEF FlagsOK, NoRequest, KeepConnected, NotInUse
<1>6. CASE NullClient
  BY <1>6 DEF FlagsOK, NullClient, Boot
<1>7. CASE Returned
  BY <1>7 DEF FlagsOK, Returned
<1>18. ASSUME NEW device \in Devices, NEW changed \in BOOLEAN,
              SendDiscovery(device, changed)
       PROVE  FlagsOK'
  <2>1. UNCHANGED <<caller, mode, server, prefix, timeKnown, client, up, had, reachable,
                    alive, will, session, subs, status, orphans>>
    BY <1>18 DEF SendDiscovery
  <2>2. pc' \in PCs /\ announced' \subseteq Devices /\ forgone' \subseteq Devices
    BY <1>18 DEF SendDiscovery, FlagsOK
  <2> QED
    BY <2>1, <2>2 DEF FlagsOK
<1>8. CASE EndTurn
  <2>1. /\ UNCHANGED <<caller, mode, server, prefix, timeKnown, had, reachable,
                       session, subs, announced, forgone>>
        /\ pc' \in PCs
    BY <1>8 DEF EndTurn
  <2>2. CASE mode
    BY <1>8, <2>1, <2>2 DEF EndTurn, FlagsOK
  <2>3. CASE ~mode
    <3>1. prefix \in Prefixes /\ Disconnect(prefix)
      BY <1>8, <2>3 DEF EndTurn, FlagsOK
    <3>2. /\ client' = FALSE /\ up' = FALSE /\ alive' = FALSE
          /\ will' \in Prefixes \cup {NoWill}
          /\ status' \in [Prefixes -> {"none", "online", "offline"}]
          /\ orphans' \subseteq Prefixes
      BY <3>1, DisconnectOK
    <3> QED
      BY <2>1, <3>2 DEF FlagsOK
  <2> QED
    BY <2>2, <2>3
<1>9. ASSUME NEW m \in BOOLEAN, NEW s \in BOOLEAN, NEW changed \in BOOLEAN,
             NEW p \in Prefixes, SaveConfig(m, s, changed, p)
      PROVE  FlagsOK'
  <2>1. /\ UNCHANGED <<caller, timeKnown, had, reachable, session, subs, announced, forgone>>
        /\ pc' \in PCs /\ mode' = m /\ server' = s /\ prefix' = p
    BY <1>9 DEF SaveConfig
  <2>2. CASE changed
    <3>1. Disconnect(p)
      BY <1>9, <2>2 DEF SaveConfig
    <3>2. /\ client' = FALSE /\ up' = FALSE /\ alive' = FALSE
          /\ will' \in Prefixes \cup {NoWill}
          /\ status' \in [Prefixes -> {"none", "online", "offline"}]
          /\ orphans' \subseteq Prefixes
      BY <3>1, DisconnectOK
    <3> QED
      BY <2>1, <3>2 DEF FlagsOK
  <2>3. CASE ~changed
    BY <1>9, <2>1, <2>3 DEF SaveConfig, FlagsOK
  <2> QED
    BY <2>2, <2>3
<1>10. ASSUME NEW c \in Callers \ {"loop"}, DiscoveryRequest(c)
       PROVE  FlagsOK'
  BY <1>10 DEF FlagsOK, DiscoveryRequest
<1>11. CASE ResetBoard
  <2>1. prefix \in Prefixes /\ Disconnect(prefix) /\ Boot
    BY <1>11 DEF FlagsOK, ResetBoard
  <2>2. /\ UNCHANGED <<mode, server, prefix, reachable, session, subs, announced, forgone>>
        /\ pc' \in PCs /\ caller' \in Callers /\ had' \in BOOLEAN /\ timeKnown' \in BOOLEAN
    BY <1>11 DEF ResetBoard, Boot
  <2>3. /\ client' = FALSE /\ up' = FALSE /\ alive' = FALSE
        /\ will' \in Prefixes \cup {NoWill}
        /\ status' \in [Prefixes -> {"none", "online", "offline"}]
        /\ orphans' \subseteq Prefixes
    BY <2>1, DisconnectOK
  <2> QED
    BY <2>2, <2>3 DEF FlagsOK
<1>12. CASE Cut
  <2>1. UNCHANGED <<pc, caller, mode, server, prefix, timeKnown, client, up, had, will,
                    session, subs, status, announced, orphans, forgone>>
    BY <1>12 DEF Cut
  <2>2. reachable' \in BOOLEAN /\ alive' \in BOOLEAN
    BY <1>12 DEF Cut
  <2> QED
    BY <2>1, <2>2 DEF FlagsOK
<1>13. CASE Repair \/ ClientNotices \/ TimeArrives \/ UNCHANGED vars
  <2>1. UNCHANGED <<pc, caller, mode, server, prefix, client, had, alive, will, session,
                    subs, status, announced, orphans, forgone>>
    BY <1>13 DEF Repair, ClientNotices, TimeArrives, vars
  <2>2. up' \in BOOLEAN /\ reachable' \in BOOLEAN /\ timeKnown' \in BOOLEAN
    BY <1>13 DEF FlagsOK, Repair, ClientNotices, TimeArrives, vars
  <2> QED
    BY <2>1, <2>2 DEF FlagsOK
<1>14. CASE BrokerNotices
  BY <1>14 DEF FlagsOK, BrokerNotices
<1>15. CASE SessionExpires
  <2>1. UNCHANGED <<pc, caller, mode, server, prefix, timeKnown, client, up, had,
                    reachable, alive, will, status, announced, orphans, forgone>>
    BY <1>15 DEF SessionExpires
  <2>2. session' \in BOOLEAN /\ subs' \subseteq Prefixes
    BY <1>15 DEF SessionExpires
  <2> QED
    BY <2>1, <2>2 DEF FlagsOK
<1>16. CASE BrokerRestarts
  <2>1. UNCHANGED <<pc, caller, mode, server, prefix, timeKnown, client, up, had,
                    reachable, forgone>>
    BY <1>16 DEF BrokerRestarts
  <2>2. /\ session' \in BOOLEAN /\ alive' \in BOOLEAN /\ announced' \subseteq Devices
        /\ subs' \subseteq Prefixes /\ orphans' \subseteq Prefixes /\ will' = NoWill
    BY <1>16 DEF BrokerRestarts
  <2>3. status' \in [Prefixes -> {"none", "online", "offline"}]
    BY <1>16 DEF BrokerRestarts
  <2> QED
    BY <2>1, <2>2, <2>3 DEF FlagsOK
<1>17. CASE PowerFailure
  <2>1. UNCHANGED <<mode, server, prefix, reachable, will, session, subs, status,
                    announced, orphans>>
    BY <1>17 DEF PowerFailure
  <2>2. /\ pc' \in PCs /\ caller' \in Callers /\ client' = FALSE /\ up' = FALSE
        /\ had' = FALSE /\ timeKnown' = FALSE /\ alive' = FALSE
    BY <1>17 DEF PowerFailure, Boot
  <2>3. forgone' \subseteq Devices
    BY <1>17 DEF PowerFailure, FlagsOK
  <2> QED
    BY <2>1, <2>2, <2>3 DEF FlagsOK
<1> QED
  BY <1>1, <1>2, <1>3, <1>4, <1>5, <1>6, <1>7, <1>8, <1>9, <1>10, <1>11, <1>12,
     <1>13, <1>14, <1>15, <1>16, <1>17, <1>18
  DEF Next, Connect, Loop, Request, Environment

\* Every variable keeps its type, and only a client that exists is connected.
THEOREM TypeCorrect == Spec => []TypeOK
<1>1. Init => CountsOK /\ FlagsOK /\ ClientOK
  <2>1. Init => CountsOK
    BY DEF Init, CountsOK
  <2>2. Init => FlagsOK
    BY DEF Init, FlagsOK
  <2>3. Init => ClientOK
    BY DEF Init, ClientOK
  <2> QED
    BY <2>1, <2>2, <2>3
<1>2. CountsOK /\ FlagsOK /\ ClientOK /\ [Next]_vars =>
          CountsOK' /\ FlagsOK' /\ ClientOK'
  BY CountsKept, FlagsKept, ClientKept
<1> QED
  BY <1>1, <1>2, Parts, PTL DEF Spec

-----------------------------------------------------------------------------

\* Between the answer of the broker and "online" the connection carries the
\* will of this prefix, and the subscription comes first.
StatusInv ==
    /\ StatusTrue
    /\ pc \in {"acked", "subscribed"} /\ alive => will = prefix
    /\ pc = "subscribed" /\ alive => prefix \in subs

\* A connection closed in order leaves no "online" but that of an orphan.
LEMMA DisconnectStatus ==
    ASSUME TypeOK, StatusInv, NEW p \in Prefixes, Disconnect(p), UNCHANGED subs
    PROVE  StatusTrue'
BY DEF TypeOK, StatusInv, StatusTrue, Disconnect

\* Neither does a broker that takes a new connection.
LEMMA AdmitStatus ==
    ASSUME TypeOK, StatusInv, Admit, UNCHANGED orphans
    PROVE  StatusTrue' /\ will' = prefix
BY DEF TypeOK, StatusInv, StatusTrue, Admit

LEMMA StatusKept ==
    ASSUME TypeOK, StatusInv,
           UNCHANGED <<will, subs, status, orphans, prefix>>,
           pc' = pc \/ pc' \notin {"acked", "subscribed"}, alive' => alive
    PROVE  StatusInv'
BY DEF StatusInv, StatusTrue

LEMMA ConnectStatus ==
    ASSUME TypeOK, StatusInv, Connect
    PROVE  StatusInv'
<1>1. CASE NoTime \/ NewClient \/ Connected \/ JustLost \/ Waiting \/ Retry \/ Refused
  BY <1>1, StatusKept DEF NoTime, NewClient, Connected, JustLost, Waiting, Retry, Refused
<1>2. CASE Accepted
  BY <1>2, AdmitStatus DEF StatusInv, Accepted
<1>3. CASE AckedTooLate
  BY <1>3, AdmitStatus DEF StatusInv, AckedTooLate
<1>4. CASE Subscribe
  BY <1>4 DEF StatusInv, StatusTrue, Subscribe
<1>5. CASE Online
  <2>1. CASE alive
    <3>1. /\ will = prefix /\ prefix \in subs /\ orphans' = orphans \ {prefix}
          /\ UNCHANGED <<will, subs>> /\ pc' \notin {"acked", "subscribed"}
      BY <1>5, <2>1 DEF StatusInv, Online
    <3>2. \A t \in Prefixes : t # prefix => status'[t] = status[t]
      BY <1>5, <2>1 DEF Online, TypeOK
    <3> QED
      BY <3>1, <3>2 DEF StatusInv, StatusTrue
  <2>2. CASE ~alive
    BY <1>5, <2>2, StatusKept DEF Online
  <2> QED
    BY <2>1, <2>2
<1>6. CASE Discover
  BY <1>6, StatusKept DEF Discover
<1> QED
  BY <1>1, <1>2, <1>3, <1>4, <1>5, <1>6 DEF Connect

LEMMA LoopStatus ==
    ASSUME TypeOK, StatusInv, Loop
    PROVE  StatusInv'
<1>1. CASE NoRequest \/ KeepConnected \/ NotInUse \/ NullClient \/ Returned
  BY <1>1, StatusKept DEF NoRequest, KeepConnected, NotInUse, NullClient, Returned, Boot
<1>2. CASE EndTurn
  <2>1. CASE mode
    BY <1>2, <2>1, StatusKept DEF EndTurn
  <2>2. CASE ~mode
    <3>1. prefix \in Prefixes /\ pc' = "http" /\ Disconnect(prefix) /\ UNCHANGED subs
      BY <1>2, <2>2 DEF EndTurn, TypeOK
    <3> QED
      BY <3>1, DisconnectStatus DEF StatusInv
  <2> QED
    BY <2>1, <2>2
<1>3. ASSUME NEW device \in Devices, NEW changed \in BOOLEAN,
             SendDiscovery(device, changed)
      PROVE  StatusInv'
  BY <1>3, StatusKept DEF SendDiscovery
<1> QED
  BY <1>1, <1>2, <1>3 DEF Loop

LEMMA RequestStatus ==
    ASSUME TypeOK, StatusInv, Request
    PROVE  StatusInv'
<1>1. ASSUME NEW m \in BOOLEAN, NEW s \in BOOLEAN, NEW changed \in BOOLEAN,
             NEW p \in Prefixes, SaveConfig(m, s, changed, p)
      PROVE  StatusInv'
  <2>1. CASE changed
    BY <1>1, <2>1, DisconnectStatus DEF StatusInv, SaveConfig
  <2>2. CASE ~changed
    BY <1>1, <2>2 DEF StatusInv, StatusTrue, SaveConfig
  <2> QED
    BY <2>1, <2>2
<1>2. ASSUME NEW c \in Callers \ {"loop"}, DiscoveryRequest(c)
      PROVE  StatusInv'
  BY <1>2, StatusKept DEF DiscoveryRequest
<1>3. CASE ResetBoard
  <2>1. prefix \in Prefixes /\ pc' = "http" /\ Disconnect(prefix) /\ UNCHANGED subs
    BY <1>3 DEF TypeOK, ResetBoard, Boot
  <2> QED
    BY <2>1, DisconnectStatus DEF StatusInv
<1> QED
  BY <1>1, <1>2, <1>3 DEF Request

LEMMA EnvironmentStatus ==
    ASSUME TypeOK, StatusInv, Environment
    PROVE  StatusInv'
<1>1. CASE Cut \/ Repair \/ ClientNotices \/ PowerFailure \/ TimeArrives
  BY <1>1, StatusKept DEF Cut, Repair, ClientNotices, PowerFailure, TimeArrives, Boot
<1>2. CASE BrokerNotices
  BY <1>2 DEF TypeOK, StatusInv, StatusTrue, BrokerNotices
<1>3. CASE SessionExpires
  <2>1. \A t \in Prefixes \ orphans : status[t] # "online"
    BY <1>3 DEF SessionExpires, StatusInv, StatusTrue
  <2>2. ~(pc \in {"acked", "subscribed"} /\ alive)
    BY <1>3 DEF SessionExpires, StatusInv, TypeOK
  <2> QED
    BY <1>3, <2>1, <2>2 DEF SessionExpires, StatusInv, StatusTrue
<1>4. CASE BrokerRestarts
  BY <1>4 DEF StatusInv, StatusTrue, BrokerRestarts
<1> QED
  BY <1>1, <1>2, <1>3, <1>4 DEF Environment

\* The broker never keeps an "online" for a connection that it would not follow
\* with "offline" when it breaks (mqtt_handler.h, lines 428 to 461 and 520).
THEOREM StatusCorrect == Spec => []StatusTrue
<1>1. Init => StatusInv
  BY DEF Init, StatusInv, StatusTrue
<1>2. TypeOK /\ StatusInv /\ [Next]_vars => StatusInv'
  <2>1. TypeOK /\ StatusInv /\ UNCHANGED vars => StatusInv'
    BY StatusKept DEF vars
  <2> QED
    BY <2>1, ConnectStatus, LoopStatus, RequestStatus, EnvironmentStatus DEF Next
<1>3. StatusInv => StatusTrue
  BY DEF StatusInv
<1> QED
  BY <1>1, <1>2, <1>3, TypeCorrect, PTL DEF Spec

-----------------------------------------------------------------------------

\* The timer of a client that is not in an attempt is no older than its last
\* attempt, up to the wait.
WaitInv ==
    client /\ timer # 0 /\ pc \notin {"attempt", "acked"} =>
        Elapsed <= since \/ since = Wait

LEMMA WaitKept ==
    ASSUME WaitInv, UNCHANGED <<timer, now, since>>, client' => client,
           pc' = pc \/ pc \notin {"attempt", "acked"}
    PROVE  WaitInv'
BY DEF WaitInv, Elapsed

LEMMA WaitSteps ==
    ASSUME TypeOK, WaitInv, [Next]_vars
    PROVE  WaitInv'
<1>1. CASE NoTime \/ NewClient \/ Connected \/ Waiting \/ Retry
  BY <1>1, WaitKept DEF NoTime, NewClient, Connected, Waiting, Retry, WaitInv
<1>2. CASE JustLost
  BY <1>2 DEF JustLost, WaitInv, Elapsed, TypeOK
<1>3. CASE Refused \/ AckedTooLate
  <2>1. timer' = now /\ now' = now /\ since' = 0
    BY <1>3 DEF Refused, AckedTooLate
  <2>2. Elapsed' = 0
    BY <2>1 DEF Elapsed, TypeOK
  <2> QED
    BY <2>1, <2>2 DEF WaitInv
<1>4. CASE Accepted \/ Subscribe
  BY <1>4 DEF Accepted, Subscribe, WaitInv
<1>5. CASE Online \/ Discover
  BY <1>5, WaitKept DEF Online, Discover
<1>6. CASE NoRequest \/ KeepConnected \/ NotInUse \/ Returned
  BY <1>6, WaitKept DEF NoRequest, KeepConnected, NotInUse, Returned
<1>7. CASE NullClient \/ ResetBoard \/ PowerFailure
  BY <1>7 DEF NullClient, ResetBoard, PowerFailure, Boot, WaitInv
<1>8. CASE EndTurn
  <2>1. SUFFICES ASSUME client', timer' # 0
                 PROVE  Elapsed' <= since' \/ since' = Wait
    BY DEF WaitInv
  <2>2. client /\ timer' = timer /\ pc = "off"
    BY <1>8, <2>1 DEF EndTurn, Disconnect
  <2>3. Elapsed <= since \/ since = Wait
    BY <2>1, <2>2 DEF WaitInv
  <2>4. PICK d \in 1..Slow :
            /\ now' = IF now + d < Wrap THEN now + d ELSE now + d - Wrap
            /\ since' = IF since + d < Wait THEN since + d ELSE Wait
    BY <1>8 DEF EndTurn
  <2>5. Elapsed' <= Elapsed + d
    BY <2>2, <2>4 DEF Elapsed, TypeOK
  <2>6. Elapsed \in Nat /\ Elapsed' \in Int /\ since \in 0..Wait
    BY <2>2, <2>4 DEF Elapsed, TypeOK
  <2> HIDE DEF Elapsed
  <2> QED
    BY <2>3, <2>4, <2>5, <2>6
<1>9. ASSUME NEW m \in BOOLEAN, NEW s \in BOOLEAN, NEW changed \in BOOLEAN,
             NEW p \in Prefixes, SaveConfig(m, s, changed, p)
      PROVE  WaitInv'
  <2>1. client' => client
    BY <1>9 DEF SaveConfig, Disconnect
  <2> QED
    BY <1>9, <2>1, WaitKept DEF SaveConfig
<1>10. ASSUME NEW c \in Callers \ {"loop"}, DiscoveryRequest(c)
       PROVE  WaitInv'
  BY <1>10, WaitKept DEF DiscoveryRequest
<1>11. CASE Cut \/ Repair \/ ClientNotices \/ BrokerNotices
  BY <1>11, WaitKept DEF Cut, Repair, ClientNotices, BrokerNotices
<1>12. CASE SessionExpires \/ BrokerRestarts \/ TimeArrives
  BY <1>12, WaitKept DEF SessionExpires, BrokerRestarts, TimeArrives
<1>13. CASE UNCHANGED vars
  BY <1>13, WaitKept DEF vars
<1>14. ASSUME NEW device \in Devices, NEW changed \in BOOLEAN,
              SendDiscovery(device, changed)
       PROVE  WaitInv'
  BY <1>14, WaitKept DEF SendDiscovery
<1> QED
  BY <1>1, <1>2, <1>3, <1>4, <1>5, <1>6, <1>7, <1>8, <1>9, <1>10, <1>11, <1>12,
     <1>13, <1>14 DEF Next, Connect, Loop, Request, Environment

\* Of the steps that begin an attempt, only Retry is that of a client in use.
LEMMA OnlyRetry ==
    ASSUME TypeOK, [Next]_vars, pc = "connect", pc' = "attempt", client
    PROVE  Retry
<1>1. ~(Loop \/ Request)
  BY DEF Loop, NoRequest, KeepConnected, NotInUse, NullClient, Returned, EndTurn,
         SendDiscovery,
         Request, SaveConfig, DiscoveryRequest, ResetBoard
<1>2. ~(Environment \/ UNCHANGED vars)
  BY DEF Environment, Cut, Repair, ClientNotices, BrokerNotices, SessionExpires,
         BrokerRestarts, PowerFailure, Boot, TimeArrives, vars
<1>3. Connect
  BY <1>1, <1>2 DEF Next
<1> QED
  BY <1>3 DEF Connect, NoTime, NewClient, Connected, JustLost, Waiting, Refused,
              Accepted, AckedTooLate, Subscribe, Online, Discover

\* A client never tries again before the wait is over (lines 403 to 413).
THEOREM WaitsCorrect == Spec => WaitsBetween
<1>1. Init => WaitInv
  BY DEF Init, WaitInv
<1>2. TypeOK /\ WaitInv /\ [Next]_vars => WaitInv'
  BY WaitSteps
<1>3. TypeOK /\ WaitInv /\ [Next]_vars =>
          [pc = "connect" /\ pc' = "attempt" /\ client => since = Wait]_vars
  <2> SUFFICES ASSUME TypeOK, WaitInv, [Next]_vars, pc = "connect", pc' = "attempt", client
               PROVE  since = Wait
    OBVIOUS
  <2>1. timer # 0 /\ Elapsed >= Wait
    BY OnlyRetry DEF Retry, WaitOver
  <2>2. Elapsed <= since \/ since = Wait
    BY <2>1 DEF WaitInv
  <2>3. Elapsed \in Int /\ since \in 0..Wait
    BY DEF Elapsed, TypeOK
  <2> QED
    BY <2>1, <2>2, <2>3
<1> QED
  BY <1>1, <1>2, <1>3, TypeCorrect, PTL DEF Spec, WaitsBetween

=============================================================================

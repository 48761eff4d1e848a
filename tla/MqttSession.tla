----------------------------- MODULE MqttSession -----------------------------
(***************************************************************************)
(* The connection of BSB-LAN with an MQTT broker (mqtt_handler.h, loop()).  *)
(*                                                                         *)
(* The broker keeps a session for the device (cleanSession is false), the   *)
(* retained <prefix>/status, and the will of a connection it holds open: a  *)
(* connection that breaks has the broker publish "offline" for the device.  *)
(* Each side finds out about a broken connection in its own time.           *)
(*                                                                         *)
(* FaultX are mutated forms of X, used by no specification: they show that  *)
(* the properties can fail.                                                *)
(***************************************************************************)
EXTENDS Integers

CONSTANTS
    Prefixes,    \* values of MQTTTopicPrefix
    Devices,     \* heating devices with a place in dev_lookup, once found
    NoWill,      \* the broker holds no connection of ours
    Tls,         \* port other than 1883: needs the time of day
    Wrap,        \* millis() counts 0..Wrap - 1; 2^32
    Wait,        \* between two attempts; 10000
    Slow,        \* bound on the time a turn of loop() takes
    MaxMishaps   \* bound on what network, broker, power and user do

ASSUME MqttAssumption ==
    /\ NoWill \notin Prefixes /\ Tls \in BOOLEAN
    /\ Wrap \in Nat \ {0} /\ Wait \in Nat /\ Slow \in 1..(Wrap - 1)
    /\ MaxMishaps \in Nat

VARIABLES
    pc,          \* where loop() is
    caller,      \* of mqtt_connect(): "loop", or /M with 1 or 0
    mode,        \* LoggingMode & CF_LOGMODE_MQTT
    server,      \* mqtt_broker_addr is set
    prefix,      \* MQTTTopicPrefix
    timeKnown,   \* getLocalTime() succeeds
    client,      \* MQTTPubSubClient is no null pointer
    up,          \* MQTTPubSubClient->connected()
    now,         \* millis()
    timer,       \* mqtt_reconnect_timer; 0: no wait is due
    had,         \* brokerHadSession
    reachable,   \* network and broker would take a connection
    alive,       \* what is sent on the connection arrives
    will,        \* of the connection the broker holds open
    session,     \* the broker knows the device
    subs,        \* prefixes subscribed in that session
    status,      \* retained <prefix>/status
    announced,   \* devices whose retained messages of the discovery it has
    since,       \* history: time since this client's last attempt, up to Wait
    orphans,     \* history: prefixes given up in a connection ended in order
    forgone,     \* history: devices a session began without, or /M0 took back
    mishaps

board == <<mode, server, prefix, timeKnown>>
link == <<client, up, timer, had>>
broker == <<will, session, subs, status, announced>>
history == <<since, orphans, forgone>>
vars == <<pc, caller, board, link, now, reachable, alive, broker, history, mishaps>>

Callers == {"loop", "/M1", "/M0"}

Init ==
    /\ pc = "http" /\ caller = "loop"
    /\ mode \in BOOLEAN /\ server \in BOOLEAN /\ prefix \in Prefixes
    /\ timeKnown = FALSE
    /\ client = FALSE /\ up = FALSE /\ timer = 0 /\ had = FALSE
    /\ now = 0 /\ reachable = TRUE /\ alive = FALSE
    /\ will = NoWill /\ session = FALSE /\ subs = {} /\ announced = {}
    /\ status = [t \in Prefixes |-> "none"]
    /\ since = 0 /\ orphans = {} /\ forgone = {} /\ mishaps = 0

-----------------------------------------------------------------------------
(* mqtt_connect()                                                          *)

\* A TLS connection without the time of day: false, and no client.
NoTime ==
    /\ pc = "connect" /\ ~client /\ Tls /\ ~timeKnown
    /\ pc' = "return"
    /\ UNCHANGED <<caller, board, link, now, reachable, alive, broker, history, mishaps>>

\* The first call: a client is made and connected at once.
NewClient ==
    /\ pc = "connect" /\ ~client /\ (Tls => timeKnown)
    /\ client' = TRUE /\ timer' = 0
    /\ pc' = "attempt"
    /\ UNCHANGED <<caller, board, up, had, now, reachable, alive, broker, history, mishaps>>

Connected ==
    /\ pc = "connect" /\ client /\ up
    /\ pc' = "return"
    /\ UNCHANGED <<caller, board, link, now, reachable, alive, broker, history, mishaps>>

\* "We just lost connection, don't try to reconnect immediately"
JustLost ==
    /\ pc = "connect" /\ client /\ ~up /\ timer = 0
    /\ timer' = now
    /\ pc' = "return"
    /\ UNCHANGED <<caller, board, client, up, had, now, reachable, alive, broker,
                   history, mishaps>>

\* millis() - mqtt_reconnect_timer, over a wrap.
Elapsed == IF now >= timer THEN now - timer ELSE now + Wrap - timer

WaitOver == Elapsed >= Wait

Waiting ==
    /\ pc = "connect" /\ client /\ ~up /\ timer # 0 /\ ~WaitOver
    /\ pc' = "return"
    /\ UNCHANGED <<caller, board, link, now, reachable, alive, broker, history, mishaps>>

Retry ==
    /\ pc = "connect" /\ client /\ ~up /\ timer # 0 /\ WaitOver
    /\ pc' = "attempt"
    /\ UNCHANGED <<caller, board, link, now, reachable, alive, broker, history, mishaps>>

Answerable == reachable /\ server

\* No connection, or no CONNACK within 15 s: wait before the next attempt.
Refused ==
    /\ pc = "attempt" /\ ~Answerable
    /\ timer' = now /\ since' = 0
    /\ pc' = "return"
    /\ UNCHANGED <<caller, board, client, up, had, now, reachable, alive, broker,
                   orphans, forgone, mishaps>>

\* What the broker does with a CONNECT: a connection of the same client that it
\* still holds is closed, which publishes its will.
Admit ==
    /\ status' = [t \in Prefixes |-> IF t = will THEN "offline" ELSE status[t]]
    /\ will' = prefix
    /\ session' = TRUE
    /\ subs' = IF session THEN subs ELSE {}
    /\ UNCHANGED announced

Accepted ==
    /\ pc = "attempt" /\ Answerable
    /\ Admit
    /\ up' = TRUE /\ alive' = TRUE /\ had' = session /\ since' = 0
    /\ pc' = "acked"
    /\ UNCHANGED <<caller, board, client, timer, now, reachable, orphans, forgone, mishaps>>

\* The broker has a connection, but its CONNACK comes too late.
AckedTooLate ==
    /\ pc = "attempt" /\ Answerable /\ mishaps < MaxMishaps
    /\ Admit
    /\ timer' = now /\ since' = 0
    /\ forgone' = IF session THEN forgone ELSE Devices
    /\ pc' = "return" /\ mishaps' = mishaps + 1
    /\ UNCHANGED <<caller, board, client, up, had, now, reachable, alive, orphans>>

FaultSubscribe ==
    /\ pc = "acked"
    /\ subs' = IF alive THEN subs \cup {prefix} ELSE subs
    /\ pc' = "subscribed"
    /\ UNCHANGED <<caller, board, link, now, reachable, alive, will, session, status,
                   announced, history, mishaps>>

\* Birth message, end of the wait, subscription of <prefix>/#.
Subscribe ==
    /\ pc = "acked"
    /\ timer' = 0
    /\ subs' = IF alive THEN subs \cup {prefix} ELSE subs
    /\ pc' = "subscribed"
    /\ UNCHANGED <<caller, board, client, up, had, now, reachable, alive, will, session,
                   status, announced, history, mishaps>>

FaultOnline ==
    /\ pc = "subscribed"
    /\ status' = IF alive /\ ~had THEN [status EXCEPT ![prefix] = "online"] ELSE status
    /\ orphans' = IF alive THEN orphans \ {prefix} ELSE orphans
    /\ pc' = IF had THEN "return" ELSE "discover"
    /\ UNCHANGED <<caller, board, link, now, reachable, alive, will, session, subs,
                   announced, since, forgone, mishaps>>

\* A retained "online", and the discovery if the broker knew no session.
Online ==
    /\ pc = "subscribed"
    /\ status' = IF alive THEN [status EXCEPT ![prefix] = "online"] ELSE status
    /\ orphans' = IF alive THEN orphans \ {prefix} ELSE orphans
    /\ pc' = IF had THEN "return" ELSE "discover"
    /\ UNCHANGED <<caller, board, link, now, reachable, alive, will, session, subs,
                   announced, since, forgone, mishaps>>

\* mqtt_send_discovery() of each device that is in dev_lookup and answers when
\* the destination is changed to it.  The others are left out, and not tried
\* again in this session.
Discover ==
    /\ pc = "discover"
    /\ \E found \in SUBSET Devices :
          /\ mishaps' = IF found = Devices THEN mishaps ELSE mishaps + 1
          /\ announced' = IF alive THEN announced \cup found ELSE announced
          /\ forgone' = IF alive THEN Devices \ found ELSE Devices
    /\ mishaps' <= MaxMishaps
    /\ pc' = "return"
    /\ UNCHANGED <<caller, board, link, now, reachable, alive, will, session, subs,
                   status, since, orphans>>

Connect ==
    \/ NoTime \/ NewClient \/ Connected \/ JustLost \/ Waiting \/ Retry
    \/ Refused \/ Accepted \/ AckedTooLate \/ Subscribe \/ Online \/ Discover

-----------------------------------------------------------------------------
(* mqtt_disconnect(), the callers and loop()                               *)

\* The client is deleted, its connection left open.
FaultDrop(p) == client' = FALSE /\ UNCHANGED <<up, alive, will, status, orphans>>

FaultDisconnect(p) ==
    /\ client' = FALSE /\ up' = FALSE /\ alive' = FALSE
    /\ IF alive
       THEN /\ will' = NoWill /\ UNCHANGED status
            /\ orphans' = orphans \cup ({will} \ {NoWill, p})
       ELSE UNCHANGED <<will, status, orphans>>

\* "offline" and DISCONNECT, after which the broker forgets the will.  The
\* topic is made of the prefix p of this moment, not that of the connection.
Disconnect(p) ==
    /\ client' = FALSE /\ up' = FALSE /\ alive' = FALSE
    /\ IF alive
       THEN /\ status' = [status EXCEPT ![p] = "offline"]
            /\ will' = NoWill
            /\ orphans' = orphans \cup ({will} \ {NoWill, p})
       ELSE UNCHANGED <<will, status, orphans>>

\* Start-up: nothing of the connection is left, and the time is not known.
Boot ==
    /\ pc' = "http" /\ caller' = "loop"
    /\ client' = FALSE /\ up' = FALSE /\ timer' = 0 /\ had' = FALSE
    /\ now' = 0 /\ timeKnown' = FALSE /\ alive' = FALSE

\* The configuration is saved; other options apply when they are next used.
SaveConfig(m, s, changed, p) ==
    /\ pc = "http" /\ mishaps < MaxMishaps
    /\ mode' = m /\ server' = s /\ prefix' = p
    /\ IF changed THEN Disconnect(p)
       ELSE UNCHANGED <<client, up, alive, will, status, orphans>>
    /\ pc' = "mqtt" /\ mishaps' = mishaps + 1
    /\ UNCHANGED <<caller, timeKnown, timer, had, now, reachable, session, subs,
                   announced, since, forgone>>

\* /M1 and /M0, whether MQTT is in use or not.
DiscoveryRequest(c) ==
    /\ pc = "http" /\ pc' = "connect" /\ caller' = c
    /\ UNCHANGED <<board, link, now, reachable, alive, broker, history, mishaps>>

ResetBoard ==
    /\ pc = "http" /\ mishaps < MaxMishaps /\ mishaps' = mishaps + 1
    /\ Disconnect(prefix) /\ Boot
    /\ UNCHANGED <<mode, server, prefix, reachable, session, subs, announced, since, forgone>>

NoRequest ==
    /\ pc = "http" /\ pc' = "mqtt"
    /\ UNCHANGED <<caller, board, link, now, reachable, alive, broker, history, mishaps>>

\* The turn of MQTT in loop().
KeepConnected ==
    /\ pc = "mqtt" /\ server /\ mode
    /\ pc' = "connect" /\ caller' = "loop"
    /\ UNCHANGED <<board, link, now, reachable, alive, broker, history, mishaps>>

NotInUse ==
    /\ pc = "mqtt" /\ ~(server /\ mode) /\ pc' = "off"
    /\ UNCHANGED <<caller, board, link, now, reachable, alive, broker, history, mishaps>>

\* loop() calls the client's loop(), /M the discovery: both through a null
\* pointer if there is no client, which restarts an ESP32.
NullClient ==
    /\ pc = "return" /\ ~client
    /\ Boot
    /\ UNCHANGED <<mode, server, prefix, reachable, broker, history, mishaps>>

Returned ==
    /\ pc = "return" /\ client /\ caller = "loop"
    /\ pc' = "off"
    /\ UNCHANGED <<caller, board, link, now, reachable, alive, broker, history, mishaps>>

\* /M goes on with the device it names, the default one or another; "changed":
\* the change of destination, made before mqtt_connect(), was answered; if not
\* there is no discovery.
SendDiscovery(device, changed) ==
    /\ pc = "return" /\ caller # "loop" /\ (client \/ ~changed)
    /\ pc' = "mqtt"
    /\ IF ~(alive /\ changed) THEN UNCHANGED <<announced, forgone>>
       ELSE IF caller = "/M1"
       THEN announced' = announced \cup {device} /\ forgone' = forgone \ {device}
       ELSE announced' = announced \ {device} /\ forgone' = forgone \cup {device}
    /\ UNCHANGED <<caller, board, link, now, reachable, alive, will, session, subs,
                   status, since, orphans, mishaps>>

\* The end of a turn: a connection that is not wanted is closed.  A turn takes
\* its time, for which no bound is known but that it is less than a wrap.
EndTurn ==
    /\ pc = "off" /\ pc' = "http"
    /\ IF mode THEN UNCHANGED <<client, up, alive, will, status, orphans>>
       ELSE Disconnect(prefix)
    /\ \E d \in 1..Slow :
          /\ now' = IF now + d < Wrap THEN now + d ELSE now + d - Wrap
          /\ since' = IF since + d < Wait THEN since + d ELSE Wait
    /\ UNCHANGED <<caller, board, timer, had, reachable, session, subs, announced,
                   forgone, mishaps>>

Loop ==
    \/ NoRequest \/ KeepConnected \/ NotInUse \/ NullClient \/ Returned \/ EndTurn
    \/ \E device \in Devices, changed \in BOOLEAN : SendDiscovery(device, changed)

Request ==
    \/ \E m, s, changed \in BOOLEAN, p \in Prefixes :
          (changed \/ s = server) /\ SaveConfig(m, s, changed, p)
    \/ \E c \in Callers \ {"loop"} : DiscoveryRequest(c)
    \/ ResetBoard

-----------------------------------------------------------------------------
(* Network, broker and power                                               *)

Mishap == mishaps < MaxMishaps /\ mishaps' = mishaps + 1

Cut ==
    /\ Mishap /\ reachable' \in BOOLEAN /\ alive' = FALSE
    /\ UNCHANGED <<pc, caller, board, link, now, broker, history>>

Repair ==
    /\ ~reachable /\ reachable' = TRUE
    /\ UNCHANGED <<pc, caller, board, link, now, alive, broker, history, mishaps>>

\* A reset of the connection, or no answer to a ping; between two calls.
ClientNotices ==
    /\ up /\ ~alive /\ up' = FALSE
    /\ UNCHANGED <<pc, caller, board, client, timer, had, now, reachable, alive,
                   broker, history, mishaps>>

BrokerNotices ==
    /\ will # NoWill /\ ~alive
    /\ status' = [status EXCEPT ![will] = "offline"]
    /\ will' = NoWill
    /\ UNCHANGED <<pc, caller, board, link, now, reachable, alive, session, subs,
                   announced, history, mishaps>>

\* The broker forgets a session, or restarts without anything it held.
SessionExpires ==
    /\ Mishap /\ will = NoWill
    /\ session' = FALSE /\ subs' = {}
    /\ UNCHANGED <<pc, caller, board, link, now, reachable, alive, will, status,
                   announced, history>>

BrokerRestarts ==
    /\ Mishap
    /\ will' = NoWill /\ session' = FALSE /\ subs' = {} /\ announced' = {}
    /\ status' = [t \in Prefixes |-> "none"] /\ alive' = FALSE /\ orphans' = {}
    /\ UNCHANGED <<pc, caller, board, link, now, reachable, since, forgone>>

PowerFailure ==
    /\ Mishap /\ Boot
    /\ forgone' = IF pc \in {"acked", "subscribed", "discover"} /\ ~had THEN Devices
                  ELSE forgone
    /\ UNCHANGED <<mode, server, prefix, reachable, broker, since, orphans>>

TimeArrives ==
    /\ ~timeKnown /\ timeKnown' = TRUE
    /\ UNCHANGED <<pc, caller, mode, server, prefix, link, now, reachable, alive,
                   broker, history, mishaps>>

Environment ==
    \/ Cut \/ Repair \/ ClientNotices \/ BrokerNotices \/ SessionExpires
    \/ BrokerRestarts \/ PowerFailure \/ TimeArrives

Next == Connect \/ Loop \/ Request \/ Environment

Spec == Init /\ [][Next]_vars

\* loop() is called for ever and waits for no one; keep-alive finds a broken
\* connection on either side; the time comes from the net.
Fairness ==
    /\ WF_vars(Connect \/ Loop)
    /\ WF_vars(ClientNotices) /\ WF_vars(BrokerNotices)
    /\ WF_vars(TimeArrives)

FairSpec == Spec /\ Fairness

-----------------------------------------------------------------------------

PCs == {"http", "mqtt", "connect", "attempt", "acked", "subscribed", "discover",
        "return", "off"}

TypeOK ==
    /\ pc \in PCs /\ caller \in Callers
    /\ mode \in BOOLEAN /\ server \in BOOLEAN /\ prefix \in Prefixes
    /\ timeKnown \in BOOLEAN /\ client \in BOOLEAN /\ up \in BOOLEAN
    /\ now \in 0..(Wrap - 1) /\ timer \in 0..(Wrap - 1) /\ had \in BOOLEAN
    /\ reachable \in BOOLEAN /\ alive \in BOOLEAN
    /\ will \in Prefixes \cup {NoWill} /\ session \in BOOLEAN
    /\ subs \subseteq Prefixes /\ announced \subseteq Devices
    /\ status \in [Prefixes -> {"none", "online", "offline"}]
    /\ since \in 0..Wait /\ orphans \subseteq Prefixes /\ forgone \subseteq Devices
    /\ mishaps \in 0..MaxMishaps
    /\ up => client

\* resetBoard(), "required to send update the WILL topic correctly": the
\* retained status says "online" only of a connection the broker holds, which
\* will say "offline" when it breaks, and whose commands it passes on; not so
\* for a prefix that was changed before the connection was closed in order.
StatusTrue ==
    \A t \in Prefixes \ orphans : status[t] = "online" => will = t /\ t \in subs

\* A broker that is gone is not overrun: a client tries again only when the
\* wait since its last attempt is over, whatever millis() does.
WaitsBetween ==
    [][pc = "connect" /\ pc' = "attempt" /\ client => since = Wait]_vars

\* After any mishaps: with MQTT in use, a broker that can be reached and the
\* time known, the device is connected for good, says so and is listened to,
\* and each device is announced, unless a session began without that: the
\* CONNACK was late, power or the connection failed before the end of it, or the
\* device was not found or did not answer, which is not tried again (findings).
Usable == mode /\ server /\ reachable /\ (Tls => timeKnown)

Well ==
    /\ client /\ up /\ alive /\ will \in subs /\ status[will] = "online"
    /\ Devices \subseteq announced \cup forgone

Reconnects == <>[]Usable => <>[]Well

=============================================================================

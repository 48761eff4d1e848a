----------------------------- MODULE PPSRoomUnit -----------------------------
(***************************************************************************)
(* BSB-LAN as a room unit on the PPS bus (pps_handling.h, set()).           *)
(*                                                                         *)
(* The heater polls the room unit with RTS telegrams and each time gets the *)
(* next telegram of a rota, msg_cycle.  It may ask for one telegram out of  *)
(* turn (REQ), and it sends its own values and its clock (INF).  The user   *)
(* may set time and day of the week, which then have to be sent to it.      *)
(*                                                                         *)
(* A telegram is its position in the rota.  The temperatures, switching     *)
(* times and states that telegrams carry are left out: they are copied.     *)
(* The clock is the day of the week and who set the time of day.  No NTP    *)
(* server: the clock is set over the bus or by the user only.               *)
(*                                                                         *)
(* FaultX are mutated forms of X, used by no specification: they show that  *)
(* the properties can fail.                                                *)
(***************************************************************************)
EXTENDS Naturals

CONSTANTS
    Week,       \* days of a week, 7; Monday is 1 on the bus
    Requests,   \* the positions the heater asks for, see Answer
    Units,      \* room unit types in use: subset of {"QAA70","QAA50","MCBA"}
    Modes,      \* the values pps_write takes: subset of BOOLEAN
    Esp32       \* built for an ESP32, not for an Arduino Due

\* Positions 26 and 27 follow the rota and are sent upon request only.
Rota == 0..25
TheTime == 14
EndOfTime == 15
TimeOnRequest == 26
OnRequest == {TimeOnRequest, 27}
None == 99

\* Where the request telegrams point: 08, 09, 0B and 4C, 38, 3A, 48, 49, 4D,
\* 4F, 60 to 66, 79, 7C.
Answer == {10, 11, 12, 0, 27, 1, 5, 2, 3} \cup (16..22) \cup {TimeOnRequest, 23}

ASSUME PPSAssumption ==
    /\ Week \in Nat \ {0}
    /\ Requests \subseteq Answer
    /\ Units \subseteq {"QAA70", "QAA50", "MCBA"}
    /\ Modes \subseteq BOOLEAN
    /\ Esp32 \in BOOLEAN

VARIABLES
    msg_cycle,          \* position of the next telegram
    saved_msg_cycle,    \* position a request interrupted; 0: none
    unit,               \* pps_values[PPS_QTP]
    pps_write,          \* does BSB-LAN act as the room unit?
    pps_time_set,       \* the user's time waits to be sent
    pps_wday_set,       \* the user's day of the week waits to be sent
    pps_time_received,  \* the heater has sent its clock
    dow,                \* pps_values[PPS_DOW]; 0: not known
    clock,              \* our clock: day of the week, and who set the time
    asked,              \* history: OnRequest telegrams asked for since a poll left
                        \*   the unit within the rota
    interrupted,        \* history: msg_cycle at the first request since the last RTS
    owed,               \* history: the user set the time, the heater was not told,
                        \*   and telegram 15 was not already next
    wday                \* history: the user's day, not yet told; 0: none

settings == <<unit, pps_write>>
flags == <<pps_time_set, pps_wday_set, pps_time_received>>
wishes == <<owed, wday>>
vars == <<msg_cycle, saved_msg_cycle, settings, flags, dow, clock, asked,
          interrupted, wishes>>

Init ==
    /\ msg_cycle = 0 /\ saved_msg_cycle = 0
    /\ unit \in Units /\ pps_write \in Modes
    /\ pps_time_set = FALSE /\ pps_wday_set = FALSE /\ pps_time_received = FALSE
    /\ dow = 0
    /\ clock \in [day : 1..Week, time : {"boot"}]
    /\ asked = {} /\ interrupted = None
    /\ owed = FALSE /\ wday = 0

-----------------------------------------------------------------------------
(* RTS: the heater polls.                                                    *)

TimePending == (pps_time_set \/ pps_wday_set) /\ pps_time_received

\* What goes out: 9 (next switching time), 14 and 15 fall through to the next
\* case as long as they have nothing to say.
Telegram ==
    IF msg_cycle = 9 /\ ~pps_time_set THEN 10
    ELSE IF msg_cycle \in {TheTime, EndOfTime} /\ ~TimePending THEN 16
    ELSE msg_cycle

FaultAdvanced ==
    LET next == IF msg_cycle = 9 /\ ~pps_time_set THEN 11 ELSE msg_cycle + 1
    IN  IF next > 27 \/ (unit = "QAA50" /\ next > 6) THEN 0 ELSE next

FaultAdvancedNoEnd ==
    IF msg_cycle = 9 /\ ~pps_time_set THEN 11 ELSE msg_cycle + 1

FaultAdvancedShort ==
    LET next == IF msg_cycle = 9 /\ ~pps_time_set THEN 11 ELSE msg_cycle + 1
    IN  IF next > 24 \/ (unit = "QAA50" /\ next > 6) THEN 0 ELSE next

\* msg_cycle++, twice where 9 fell through; a QAA50 has the first 7 positions.
Advanced ==
    LET next == IF msg_cycle = 9 /\ ~pps_time_set THEN 11 ELSE msg_cycle + 1
    IN  IF next > 25 \/ (unit = "QAA50" /\ next > 6) THEN 0 ELSE next

FaultPoll ==
    /\ pps_write
    /\ msg_cycle' = IF saved_msg_cycle > 0 THEN saved_msg_cycle ELSE Advanced
    /\ saved_msg_cycle' = 0
    /\ pps_time_set' = (pps_time_set /\ msg_cycle # EndOfTime)
    /\ pps_wday_set' = (pps_wday_set /\ msg_cycle # EndOfTime)
    /\ asked' = IF msg_cycle' \in Rota THEN {} ELSE asked
    /\ interrupted' = None
    /\ owed' = (owed /\ Telegram \notin {TheTime, TimeOnRequest})
    /\ wday' = IF Telegram \in {TheTime, TimeOnRequest} THEN 0 ELSE wday
    /\ UNCHANGED <<settings, pps_time_received, dow, clock>>

Poll ==
    /\ pps_write
    /\ msg_cycle' = IF saved_msg_cycle > 0 THEN saved_msg_cycle ELSE Advanced
    /\ saved_msg_cycle' = 0
    /\ pps_time_set' = (pps_time_set /\ Telegram # EndOfTime)
    /\ pps_wday_set' = (pps_wday_set /\ Telegram # EndOfTime)
    /\ asked' = IF msg_cycle' \in Rota THEN {} ELSE asked
    /\ interrupted' = None
    /\ owed' = (owed /\ Telegram \notin {TheTime, TimeOnRequest})
    /\ wday' = IF Telegram \in {TheTime, TimeOnRequest} THEN 0 ELSE wday
    /\ UNCHANGED <<settings, pps_time_received, dow, clock>>

-----------------------------------------------------------------------------
(* REQ and INF: the heater asks and informs.                                 *)

FaultInterruptedBy(p) ==
    /\ saved_msg_cycle' = msg_cycle
    /\ msg_cycle' = p
    /\ interrupted' = IF interrupted = None THEN msg_cycle ELSE interrupted

\* The rota is put aside, once, and p comes next.
InterruptedBy(p) ==
    /\ saved_msg_cycle' = IF saved_msg_cycle = 0 THEN msg_cycle ELSE saved_msg_cycle
    /\ msg_cycle' = p
    /\ interrupted' = IF interrupted = None THEN msg_cycle ELSE interrupted

Request(p) ==
    /\ InterruptedBy(p)
    /\ asked' = asked \cup ({p} \cap OnRequest)
    /\ UNCHANGED <<settings, flags, dow, clock, wishes>>

\* A request for something unknown leaves msg_cycle where it is.
RequestUnknown ==
    /\ InterruptedBy(msg_cycle)
    /\ UNCHANGED <<settings, flags, dow, clock, asked, wishes>>

\* INF 4F: a new connection; the unit introduces itself, position 0.
Connect ==
    /\ InterruptedBy(0)
    /\ UNCHANGED <<settings, flags, dow, clock, asked, wishes>>

\* The rota stands between telegram 14 and telegram 15, which ends the message
\* about the time whether 14 was sent or not.
BehindTime == EndOfTime \in {msg_cycle, saved_msg_cycle}

\* INF 79: the heater's clock, once; always when only listening.  Of day and
\* time, what the user has set and is waiting to be sent is kept.  setTime()
\* gets the day of the week as a day of January 2018, which began on a Monday.
HeaterClock(d) ==
    /\ ~pps_write \/ ~pps_time_received
    /\ dow' = IF pps_wday_set THEN dow ELSE d
    /\ clock' = [day |-> dow',
                 time |-> IF pps_time_set THEN clock.time ELSE "heater"]
    /\ pps_time_received' = TRUE
    /\ owed' = (owed /\ ~BehindTime)
    /\ UNCHANGED <<msg_cycle, saved_msg_cycle, settings, pps_time_set,
                   pps_wday_set, asked, interrupted, wday>>

\* INF 38, when only listening: the type of the room unit that is there.
UnitSeen(u) ==
    /\ ~pps_write
    /\ unit' = u
    /\ UNCHANGED <<msg_cycle, saved_msg_cycle, pps_write, flags, dow, clock,
                   asked, interrupted, wishes>>

\* loop(): a heater of type MCBA is not polling, it is polled every 500 ms.
McbaQuery ==
    /\ unit = "MCBA" /\ pps_write
    /\ msg_cycle' = IF msg_cycle + 1 > 3 THEN 0 ELSE msg_cycle + 1
    /\ UNCHANGED <<saved_msg_cycle, settings, flags, dow, clock, asked,
                   interrupted, wishes>>

-----------------------------------------------------------------------------
(* The user (set(), the configuration page, /P), and the calendar.           *)

\* The day after d.
Tomorrow(d) == IF d = Week THEN 1 ELSE d + 1

\* weekday() of day d of the bus: it counts from Sunday = 1.
Weekday(d) == Tomorrow(d)

\* The hour is set together with a date, day weekday() of January 2024, which
\* began on a Monday, too.
UserSetsTime ==
    /\ clock' = [day |-> Weekday(clock.day), time |-> "user"]
    /\ pps_time_set' = TRUE
    /\ owed' = (owed \/ ~BehindTime)
    /\ UNCHANGED <<msg_cycle, saved_msg_cycle, settings, pps_wday_set,
                   pps_time_received, dow, asked, interrupted, wday>>

\* On an ESP32 the clock is left alone.
UserSetsWeekday(d) ==
    /\ dow' = d
    /\ clock' = IF Esp32 THEN clock ELSE [clock EXCEPT !.day = d]
    /\ pps_wday_set' = TRUE
    /\ wday' = d
    /\ UNCHANGED <<msg_cycle, saved_msg_cycle, settings, pps_time_set,
                   pps_time_received, asked, interrupted, owed>>

UserConfigures(u, w) ==
    /\ unit' = u /\ pps_write' = w
    /\ UNCHANGED <<msg_cycle, saved_msg_cycle, flags, dow, clock, asked,
                   interrupted, wishes>>

Midnight ==
    /\ clock' = [clock EXCEPT !.day = Tomorrow(@)]
    /\ wday' = IF wday = 0 THEN 0 ELSE Tomorrow(wday)
    /\ UNCHANGED <<msg_cycle, saved_msg_cycle, settings, flags, dow,
                   asked, interrupted, owed>>

Disturbance ==
    \/ \E p \in Requests : Request(p)
    \/ RequestUnknown
    \/ Connect

Next ==
    \/ Poll
    \/ Disturbance
    \/ \E d \in 1..Week : HeaterClock(d) \/ UserSetsWeekday(d)
    \/ \E u \in Units : UnitSeen(u) \/ \E w \in Modes : UserConfigures(u, w)
    \/ McbaQuery
    \/ UserSetsTime
    \/ Midnight

Spec == Init /\ [][Next]_vars

\* The heater goes on polling, and loop() serves the bus in every turn.
FairSpec == Spec /\ WF_vars(Poll)

-----------------------------------------------------------------------------

\* The state is of its type; positions never leave 0..27.
TypeOK ==
    /\ msg_cycle \in 0..27 /\ saved_msg_cycle \in 0..27
    /\ unit \in Units /\ pps_write \in Modes
    /\ pps_time_set \in BOOLEAN /\ pps_wday_set \in BOOLEAN
    /\ pps_time_received \in BOOLEAN
    /\ dow \in 0..Week
    /\ clock \in [day : 1..Week, time : {"boot", "heater", "user"}]
    /\ asked \subseteq OnRequest
    /\ interrupted \in (0..27) \cup {None}
    /\ owed \in BOOLEAN /\ wday \in 0..Week

\* A time the user has set is not forgotten before the heater is told, and the
\* heater's clock, which comes by itself, does not replace it (line 409); the
\* one exception is a time set, or a first clock of the heater, when the rota
\* is already behind telegram 14.
TimeIsSent == owed => pps_time_set /\ clock.time = "user"

\* The rota does not run into the positions behind its end, whatever requests
\* and changes of the unit's type do to it: these telegrams go out only when
\* the heater has asked for them (comment at line 231).
OnlyOnRequest == [][Poll /\ Telegram \in OnRequest => Telegram \in asked]_vars

\* A poll after any number of requests goes on where the first one interrupted
\* the rota (position 0 excepted: it stands for "nothing saved").
RotaResumes ==
    [][Poll /\ interrupted \notin {None, 0} => msg_cycle' = interrupted]_vars

\* The time of our clock is not sent unasked before somebody has set the clock.
NoTimeOfOurOwn == [][Poll /\ Telegram = TheTime => clock.time # "boot"]_vars

\* The heater has no requests any more, and the user leaves the unit alone.
Quiet ==
    /\ <>[][~Disturbance /\ UNCHANGED unit]_vars
    /\ <>[]pps_write

\* Then every position of the rota comes again and again, except where it has
\* nothing to say (9, 14, 15); of a QAA50, the first seven.
PollSends(p) == Poll /\ Telegram = p

RotaGoesOn ==
    Quiet => /\ <>[](unit = "QAA50") => \A p \in 0..6 : []<><<PollSends(p)>>_vars
             /\ <>[](unit = "QAA70") =>
                    \A p \in Rota \ {9, TheTime, EndOfTime} : []<><<PollSends(p)>>_vars

\* docs/en/CHANGELOG.md:191, "PPS users can now send time and day of week to
\* heater": when the time goes out, it is with the day that the user has set.
DayIsSent ==
    [][Poll /\ Telegram = TheTime /\ wday # 0 => clock.day = wday]_vars

=============================================================================

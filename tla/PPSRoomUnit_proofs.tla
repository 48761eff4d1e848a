------------------------- MODULE PPSRoomUnit_proofs -------------------------
(***************************************************************************)
(* Safety of the PPS room unit for every set of requests and unit types.    *)
(***************************************************************************)
EXTENDS PPSRoomUnit, TLAPS

\* Where the rota wraps, it stays within 0..25, whatever msg_cycle was.
LEMMA AdvancedInRota ==
    ASSUME msg_cycle \in 0..27
    PROVE  Advanced \in Rota
BY DEF Advanced, Rota

\* A telegram behind the rota's end is sent only if msg_cycle stands there.
LEMMA TelegramOnRequest ==
    ASSUME Telegram \in OnRequest
    PROVE  Telegram = msg_cycle
BY DEF Telegram, OnRequest, TimeOnRequest

\* TypeOK is not inductive: INF 79 copies the user's day of the week, which is
\* a day as soon as it is set.
TypeInv == TypeOK /\ (pps_wday_set => dow \in 1..Week)

\* The state of the room unit is of its type, positions stay within 0..27
\* (pps_handling.h, lines 246 to 255 and 284 to 307).
THEOREM TypeCorrect == Spec => []TypeOK
<1>1. Init => TypeInv
  <2> SUFFICES ASSUME Init PROVE TypeInv
    OBVIOUS
  <2>1. clock \in [day : 1..Week, time : {"boot", "heater", "user"}]
    BY DEF Init
  <2>2. dow \in 0..Week /\ wday \in 0..Week
    BY PPSAssumption DEF Init
  <2>3. /\ pps_time_set \in BOOLEAN /\ pps_wday_set \in BOOLEAN
        /\ pps_time_received \in BOOLEAN /\ owed \in BOOLEAN
    BY DEF Init
  <2> QED
    BY <2>1, <2>2, <2>3 DEF Init, TypeInv, TypeOK
<1>2. TypeInv /\ [Next]_vars => TypeInv'
  <2> SUFFICES ASSUME TypeInv, [Next]_vars PROVE TypeInv'
    OBVIOUS
  <2> USE PPSAssumption DEF TypeInv, TypeOK
  <2>1. CASE Poll
    <3>1. msg_cycle' \in 0..27
      BY <2>1, AdvancedInRota DEF Poll, Rota
    <3>2. asked' \subseteq OnRequest
      BY <2>1 DEF Poll
    <3>3. pps_time_set' \in BOOLEAN /\ pps_wday_set' \in BOOLEAN /\ owed' \in BOOLEAN
      BY <2>1 DEF Poll
    <3>4. wday' \in 0..Week
      BY <2>1 DEF Poll
    <3>5. UNCHANGED <<unit, pps_write, pps_time_received, dow, clock>>
      BY <2>1 DEF Poll, settings
    <3>6. saved_msg_cycle' \in 0..27 /\ interrupted' \in (0..27) \cup {None}
      BY <2>1 DEF Poll
    <3>7. pps_wday_set' => pps_wday_set
      BY <2>1 DEF Poll
    <3> QED
      BY <3>1, <3>2, <3>3, <3>4, <3>5, <3>6, <3>7
  <2>2. ASSUME NEW p \in 0..27, InterruptedBy(p)
        PROVE  /\ msg_cycle' \in 0..27 /\ saved_msg_cycle' \in 0..27
               /\ interrupted' \in (0..27) \cup {None}
    BY <2>2 DEF InterruptedBy
  <2>3. ASSUME NEW p \in Requests, Request(p) PROVE TypeInv'
    <3>1. p \in 0..27
      BY DEF Answer, TimeOnRequest
    <3>2. InterruptedBy(p)
      BY <2>3 DEF Request
    <3> QED
      BY <2>2, <2>3, <3>1, <3>2 DEF Request, settings, flags, wishes
  <2>4. CASE RequestUnknown
    <3>1. InterruptedBy(msg_cycle)
      BY <2>4 DEF RequestUnknown
    <3> QED
      BY <2>2, <2>4, <3>1 DEF RequestUnknown, settings, flags, wishes
  <2>5. CASE Connect
    <3>1. InterruptedBy(0)
      BY <2>5 DEF Connect
    <3> QED
      BY <2>2, <2>5, <3>1 DEF Connect, settings, flags, wishes
  <2>6. ASSUME NEW d \in 1..Week, HeaterClock(d) PROVE TypeInv'
    <3>1. dow' \in 1..Week /\ dow' \in 0..Week
      BY <2>6 DEF HeaterClock
    <3>2. clock' \in [day : 1..Week, time : {"boot", "heater", "user"}]
      BY <2>6, <3>1 DEF HeaterClock
    <3>3. pps_time_received' \in BOOLEAN /\ owed' \in BOOLEAN
      BY <2>6 DEF HeaterClock
    <3>4. UNCHANGED <<msg_cycle, saved_msg_cycle, unit, pps_write, pps_time_set,
                      pps_wday_set, asked, interrupted, wday>>
      BY <2>6 DEF HeaterClock, settings
    <3> QED
      BY <3>1, <3>2, <3>3, <3>4
  <2>7. ASSUME NEW d \in 1..Week, UserSetsWeekday(d) PROVE TypeInv'
    <3>1. clock' \in [day : 1..Week, time : {"boot", "heater", "user"}]
      BY <2>7 DEF UserSetsWeekday
    <3>2. dow' \in 0..Week /\ dow' \in 1..Week /\ wday' \in 0..Week
      BY <2>7 DEF UserSetsWeekday
    <3>3. pps_wday_set' \in BOOLEAN
      BY <2>7 DEF UserSetsWeekday
    <3>4. UNCHANGED <<msg_cycle, saved_msg_cycle, unit, pps_write, pps_time_set,
                      pps_time_received, asked, interrupted, owed>>
      BY <2>7 DEF UserSetsWeekday, settings
    <3> QED
      BY <3>1, <3>2, <3>3, <3>4
  <2>8. ASSUME NEW u \in Units, UnitSeen(u) PROVE TypeInv'
    BY <2>8 DEF UnitSeen, flags, wishes
  <2>9. ASSUME NEW u \in Units, NEW w \in Modes, UserConfigures(u, w)
        PROVE  TypeInv'
    BY <2>9 DEF UserConfigures, flags, wishes
  <2>10. CASE McbaQuery
    <3>1. msg_cycle' \in 0..27
      BY <2>10 DEF McbaQuery
    <3> QED
      BY <2>10, <3>1 DEF McbaQuery, settings, flags, wishes
  <2>11. CASE UserSetsTime
    <3>1. Weekday(clock.day) \in 1..Week
      BY DEF Weekday, Tomorrow
    <3>2. clock' \in [day : 1..Week, time : {"boot", "heater", "user"}]
      BY <2>11, <3>1 DEF UserSetsTime
    <3>3. pps_time_set' \in BOOLEAN /\ owed' \in BOOLEAN
      BY <2>11 DEF UserSetsTime
    <3>4. UNCHANGED <<msg_cycle, saved_msg_cycle, unit, pps_write, pps_wday_set,
                      pps_time_received, dow, asked, interrupted, wday>>
      BY <2>11 DEF UserSetsTime, settings
    <3> QED
      BY <3>2, <3>3, <3>4
  <2>12. CASE Midnight
    <3>1. clock' \in [day : 1..Week, time : {"boot", "heater", "user"}]
      BY <2>12 DEF Midnight, Tomorrow
    <3>2. wday' \in 0..Week
      BY <2>12 DEF Midnight, Tomorrow
    <3> QED
      BY <2>12, <3>1, <3>2 DEF Midnight, settings, flags
  <2>13. CASE UNCHANGED vars
    BY <2>13 DEF vars, settings, flags, wishes
  <2> QED
    BY <2>1, <2>3, <2>4, <2>5, <2>6, <2>7, <2>8, <2>9, <2>10, <2>11, <2>12,
       <2>13 DEF Next, Disturbance
<1>3. TypeInv => TypeOK
  BY DEF TypeInv
<1> QED
  BY <1>1, <1>2, <1>3, PTL DEF Spec

-----------------------------------------------------------------------------

\* Who has set the clock, as far as the flags remember it.
ClockInv ==
    /\ pps_time_set => clock.time = "user"
    /\ pps_time_received => clock.time # "boot"

\* The clock changes hands only as the flags allow.
THEOREM ClockIsRight == Spec => []ClockInv
<1>1. Init => ClockInv
  BY DEF Init, ClockInv
<1>2. TypeOK /\ ClockInv /\ [Next]_vars => ClockInv'
  <2> SUFFICES ASSUME TypeOK, ClockInv, [Next]_vars PROVE ClockInv'
    OBVIOUS
  <2> USE DEF ClockInv
  <2>1. CASE Poll
    BY <2>1 DEF Poll
  <2>2. CASE Disturbance
    BY <2>2 DEF Disturbance, Request, RequestUnknown, Connect, flags
  <2>3. ASSUME NEW d \in 1..Week, HeaterClock(d) PROVE ClockInv'
    BY <2>3 DEF HeaterClock
  <2>4. ASSUME NEW d \in 1..Week, UserSetsWeekday(d) PROVE ClockInv'
    <3>1. clock'.time = clock.time
      BY <2>4 DEF UserSetsWeekday, TypeOK
    <3> QED
      BY <2>4, <3>1 DEF UserSetsWeekday
  <2>5. CASE \E u \in Units : UnitSeen(u) \/ \E w \in Modes : UserConfigures(u, w)
    BY <2>5 DEF UnitSeen, UserConfigures, flags
  <2>6. CASE McbaQuery
    BY <2>6 DEF McbaQuery, flags
  <2>7. CASE UserSetsTime
    BY <2>7 DEF UserSetsTime
  <2>8. CASE Midnight
    <3>1. clock'.time = clock.time
      BY <2>8 DEF Midnight, TypeOK
    <3> QED
      BY <2>8, <3>1 DEF Midnight, flags
  <2>9. CASE UNCHANGED vars
    BY <2>9 DEF vars, flags
  <2> QED
    BY <2>1, <2>2, <2>3, <2>4, <2>5, <2>6, <2>7, <2>8, <2>9 DEF Next
<1> QED
  BY <1>1, <1>2, TypeCorrect, PTL DEF Spec

\* A time that is owed waits to be sent; and it does not wait behind telegram
\* 14 once the rota would end the message about the time.
WishInv ==
    /\ owed => pps_time_set
    /\ owed /\ BehindTime => ~pps_time_received

\* A wish stays pending until the time has gone out.
THEOREM WishIsKept == Spec => []WishInv
<1>1. Init => WishInv
  BY DEF Init, WishInv
<1>2. TypeOK /\ WishInv /\ [Next]_vars => WishInv'
  <2> SUFFICES ASSUME TypeOK, WishInv, [Next]_vars PROVE WishInv'
    OBVIOUS
  <2> USE DEF WishInv
  <2>1. CASE Poll
    <3> SUFFICES ASSUME owed'
                 PROVE  pps_time_set' /\ (BehindTime' => ~pps_time_received')
      OBVIOUS
    <3>1. owed /\ pps_time_set /\ Telegram # TheTime /\ pps_time_received' = pps_time_received
      BY <2>1 DEF Poll
    <3>2. Telegram # EndOfTime
      <4>1. CASE msg_cycle = EndOfTime
        <5>1. ~TimePending
          BY <4>1, <3>1 DEF BehindTime, TimePending
        <5> QED
          BY <4>1, <5>1 DEF Telegram, EndOfTime, TheTime
      <4>2. CASE msg_cycle # EndOfTime
        BY <4>2 DEF Telegram, EndOfTime, TheTime
      <4> QED
        BY <4>1, <4>2
    <3>3. pps_time_set'
      BY <2>1, <3>1, <3>2 DEF Poll
    <3>4. ASSUME BehindTime' PROVE ~pps_time_received
      <4>1. msg_cycle' = EndOfTime
        BY <2>1, <3>4 DEF Poll, BehindTime, EndOfTime
      <4>2. CASE saved_msg_cycle > 0
        BY <2>1, <3>1, <4>1, <4>2 DEF Poll, BehindTime
      <4>3. CASE ~(saved_msg_cycle > 0)
        <5>1. Advanced = EndOfTime
          BY <2>1, <4>1, <4>3 DEF Poll
        <5>2. msg_cycle = TheTime
          BY <5>1 DEF Advanced, EndOfTime, TheTime, TypeOK
        <5>3. ~TimePending
          BY <5>2, <3>1 DEF Telegram, TheTime, EndOfTime
        <5> QED
          BY <5>3, <3>1 DEF TimePending
      <4> QED
        BY <4>2, <4>3
    <3> QED
      BY <3>1, <3>3, <3>4
  <2>2. CASE Disturbance
    <3>1. ASSUME NEW p, p # EndOfTime \/ p = msg_cycle, InterruptedBy(p),
                 UNCHANGED <<flags, wishes>>
          PROVE  WishInv'
      BY <3>1 DEF InterruptedBy, BehindTime, EndOfTime, flags, wishes
    <3>2. ASSUME NEW p \in Requests, Request(p) PROVE WishInv'
      <4>1. p # EndOfTime
        BY PPSAssumption DEF PPSAssumption, Answer, TimeOnRequest, EndOfTime
      <4> QED
        BY <3>1, <3>2, <4>1 DEF Request
    <3>3. CASE RequestUnknown
      BY <3>1, <3>3 DEF RequestUnknown
    <3>4. CASE Connect
      BY <3>1, <3>4 DEF Connect, EndOfTime
    <3> QED
      BY <2>2, <3>2, <3>3, <3>4 DEF Disturbance
  <2>3. ASSUME NEW d \in 1..Week, HeaterClock(d) PROVE WishInv'
    BY <2>3 DEF HeaterClock, BehindTime
  <2>4. ASSUME NEW d \in 1..Week, UserSetsWeekday(d) PROVE WishInv'
    BY <2>4 DEF UserSetsWeekday, BehindTime
  <2>5. CASE \E u \in Units : UnitSeen(u) \/ \E w \in Modes : UserConfigures(u, w)
    BY <2>5 DEF UnitSeen, UserConfigures, flags, wishes, BehindTime
  <2>6. CASE McbaQuery
    BY <2>6 DEF McbaQuery, flags, wishes, BehindTime, EndOfTime, TypeOK
  <2>7. CASE UserSetsTime
    BY <2>7 DEF UserSetsTime, BehindTime
  <2>8. CASE Midnight
    BY <2>8 DEF Midnight, flags, BehindTime
  <2>9. CASE UNCHANGED vars
    BY <2>9 DEF vars, flags, wishes, BehindTime
  <2> QED
    BY <2>1, <2>2, <2>3, <2>4, <2>5, <2>6, <2>7, <2>8, <2>9 DEF Next
<1> QED
  BY <1>1, <1>2, TypeCorrect, PTL DEF Spec

\* A time of the user is neither replaced by the heater's clock nor forgotten
\* before it is sent (pps_handling.h, lines 126 to 148 and 405 to 418).
THEOREM TimeWillBeSent == Spec => []TimeIsSent
<1>1. ClockInv /\ WishInv => TimeIsSent
  BY DEF ClockInv, WishInv, TimeIsSent
<1> QED
  BY <1>1, ClockIsRight, WishIsKept, PTL

\* A clock nobody has set is not sent in the rota (line 126).
THEOREM NoOwnTime == Spec => NoTimeOfOurOwn
<1>1. ClockInv => (Poll /\ Telegram = TheTime => clock.time # "boot")
  <2> SUFFICES ASSUME ClockInv, Telegram = TheTime PROVE clock.time # "boot"
    OBVIOUS
  <2>1. TimePending
    BY DEF Telegram, TheTime, EndOfTime
  <2> QED
    BY <2>1 DEF ClockInv, TimePending
<1>2. ClockInv /\ [Next]_vars =>
        [Poll /\ Telegram = TheTime => clock.time # "boot"]_vars
  BY <1>1
<1> QED
  BY <1>2, ClockIsRight, PTL DEF Spec, NoTimeOfOurOwn

-----------------------------------------------------------------------------

\* A position behind the rota's end was asked for; saved_msg_cycle holds the
\* interrupted position, unless that is 0.
RotaInv ==
    /\ {msg_cycle, saved_msg_cycle} \cap OnRequest \subseteq asked
    /\ interrupted = None => saved_msg_cycle = 0
    /\ interrupted \notin {None, 0} => saved_msg_cycle = interrupted

\* Requests in any number and order leave the rota consistent.
THEOREM RotaIsRight == Spec => []RotaInv
<1>1. Init => RotaInv
  BY DEF Init, RotaInv, OnRequest, TimeOnRequest
<1>2. TypeOK /\ RotaInv /\ [Next]_vars => RotaInv'
  <2> SUFFICES ASSUME TypeOK, RotaInv, [Next]_vars PROVE RotaInv'
    OBVIOUS
  <2> USE DEF RotaInv
  <2>1. CASE Poll
    <3>1. saved_msg_cycle' = 0 /\ interrupted' = None /\ 0 \notin OnRequest
      BY <2>1 DEF Poll, OnRequest, TimeOnRequest
    <3>2. ASSUME msg_cycle' \in OnRequest PROVE msg_cycle' \in asked'
      <4>1. msg_cycle' \notin Rota
        BY <3>2 DEF OnRequest, TimeOnRequest, Rota
      <4>2. msg_cycle' = saved_msg_cycle
        BY <4>1, <2>1, AdvancedInRota DEF Poll, TypeOK
      <4> QED
        BY <4>1, <4>2, <3>2, <2>1 DEF Poll
    <3> QED
      BY <3>1, <3>2
  <2>2. ASSUME NEW p, InterruptedBy(p), asked' = asked \cup ({p} \cap OnRequest)
        PROVE  RotaInv'
    <3>1. {msg_cycle', saved_msg_cycle'} \cap OnRequest \subseteq asked'
      BY <2>2 DEF InterruptedBy
    <3>2. interrupted' # None
      BY <2>2 DEF InterruptedBy, TypeOK, None
    <3>3. interrupted' # 0 => saved_msg_cycle' = interrupted'
      BY <2>2 DEF InterruptedBy, TypeOK, None
    <3> QED
      BY <3>1, <3>2, <3>3
  <2>3. CASE Disturbance
    <3>1. ASSUME NEW p \in Requests, Request(p) PROVE RotaInv'
      BY <2>2, <3>1 DEF Request
    <3>2. CASE RequestUnknown
      <4>1. asked' = asked \cup ({msg_cycle} \cap OnRequest)
        BY <3>2 DEF RequestUnknown
      <4> QED
        BY <2>2, <3>2, <4>1 DEF RequestUnknown
    <3>3. CASE Connect
      <4>1. asked' = asked \cup ({0} \cap OnRequest)
        BY <3>3 DEF Connect, OnRequest, TimeOnRequest
      <4> QED
        BY <2>2, <3>3, <4>1 DEF Connect
    <3> QED
      BY <2>3, <3>1, <3>2, <3>3 DEF Disturbance
  <2>4. CASE McbaQuery
    <3>1. msg_cycle' \notin OnRequest
      BY <2>4 DEF McbaQuery, OnRequest, TimeOnRequest, TypeOK
    <3> QED
      BY <2>4, <3>1 DEF McbaQuery
  <2>5. CASE UNCHANGED <<msg_cycle, saved_msg_cycle, asked, interrupted>>
    BY <2>5
  <2> QED
    BY <2>3, <2>4, <2>5, <2>1 DEF Next, HeaterClock, UserSetsWeekday, UnitSeen,
       UserConfigures, UserSetsTime, Midnight, vars
<1> QED
  BY <1>1, <1>2, TypeCorrect, PTL DEF Spec

\* The telegrams behind the rota's end go out only when the heater asked for
\* them (comment at pps_handling.h:231).
THEOREM OnlyWhenAsked == Spec => OnlyOnRequest
<1>1. RotaInv /\ [Next]_vars =>
        [Poll /\ Telegram \in OnRequest => Telegram \in asked]_vars
  BY TelegramOnRequest DEF RotaInv
<1> QED
  BY <1>1, RotaIsRight, PTL DEF Spec, OnlyOnRequest

\* The poll that follows requests resumes the rota where the first of them
\* interrupted it (lines 251 to 255 and 284).
THEOREM RotaIsResumed == Spec => RotaResumes
<1>1. TypeOK /\ RotaInv /\ [Next]_vars =>
        [Poll /\ interrupted \notin {None, 0} => msg_cycle' = interrupted]_vars
  BY DEF RotaInv, Poll, TypeOK
<1> QED
  BY <1>1, RotaIsRight, TypeCorrect, PTL DEF Spec, RotaResumes

=============================================================================

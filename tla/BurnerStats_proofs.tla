------------------------- MODULE BurnerStats_proofs -------------------------
(***************************************************************************)
(* Proofs about BurnerStats, for all payloads and any width of millis():    *)
(* types, the change of stages, the counting of starts, and that the        *)
(* running times and their remainders are those of the flames.              *)
(***************************************************************************)
EXTENDS BurnerStats, TLAPS

LEMMA DivNat ==
    ASSUME NEW a \in Nat, NEW b \in Nat \ {0}
    PROVE  a \div b \in Nat
OBVIOUS

LEMMA ModRange ==
    ASSUME NEW a \in Nat, NEW b \in Nat \ {0}
    PROVE  a % b \in 0..(b - 1)
OBVIOUS

LEMMA ElapsedNat ==
    ASSUME NEW s \in 0..(Wrap - 1), NEW e \in 0..(Wrap - 1)
    PROVE  Elapsed(s, e) \in Nat
BY BurnerAssumption DEF Elapsed

\* Starting a meter counts one start, unless it runs already.
LEMMA StartedMeter ==
    ASSUME NEW r \in Meter, now \in 0..(Wrap - 1)
    PROVE  /\ Started(r) \in Meter
           /\ r.start = 0 => Started(r).count = r.count + 1
<1>1. /\ r = [start |-> r.start, duration |-> r.duration, count |-> r.count]
      /\ r.start \in 0..(Wrap - 1) /\ r.duration \in Nat /\ r.count \in Nat
  BY DEF Meter
<1>2. CASE r.start = 0
  <2>1. Started(r) = [start |-> now, duration |-> r.duration, count |-> r.count + 1]
    BY <1>1, <1>2 DEF Started
  <2>2. r.count + 1 \in Nat
    BY <1>1
  <2> QED
    BY <1>1, <2>1, <2>2 DEF Meter
<1>3. CASE r.start # 0
  BY <1>3 DEF Started
<1> QED
  BY <1>2, <1>3

\* Stopping a meter leaves its count and marks it as not running.
LEMMA StoppedMeter ==
    ASSUME NEW r \in Meter, now \in 0..(Wrap - 1)
    PROVE  Stopped(r) \in Meter /\ Stopped(r).start = 0 /\ Stopped(r).count = r.count
<1>1. Elapsed(r.start, now) \in Nat
  BY ElapsedNat DEF Meter
<1>2. Elapsed(r.start, now) \div Second \in Nat
  BY <1>1, DivNat, BurnerAssumption
<1>3. 0 \in 0..(Wrap - 1)
  BY BurnerAssumption
<1>4. r = [start |-> r.start, duration |-> r.duration, count |-> r.count]
  BY DEF Meter
<1>5. r.duration \in Nat /\ r.count \in Nat
  BY DEF Meter
<1>6. r.duration + (Elapsed(r.start, now) \div Second) \in Nat
  BY <1>2, <1>5
<1>7. Stopped(r) = [start |-> 0, count |-> r.count,
                    duration |-> r.duration + (Elapsed(r.start, now) \div Second)]
  <2> DEFINE d == Elapsed(r.start, now) \div Second
  <2>1. Stopped(r) = [r EXCEPT !.start = 0, !.duration = @ + d]
    BY DEF Stopped
  <2> HIDE DEF d
  <2>2. Stopped(r) = [start |-> 0, count |-> r.count, duration |-> r.duration + d]
    BY <1>4, <2>1
  <2> QED
    BY <2>2 DEF d
<1> QED
  BY <1>3, <1>5, <1>6, <1>7 DEF Meter

LEMMA StoppedIfTimedMeter ==
    ASSUME NEW r \in Meter, now \in 0..(Wrap - 1)
    PROVE  /\ StoppedIfTimed(r) \in Meter
           /\ StoppedIfTimed(r).start = 0
           /\ StoppedIfTimed(r).count = r.count
BY StoppedMeter DEF StoppedIfTimed

\* The part of TypeOK that the program keeps.
CodeOK ==
    /\ now \in 0..(Wrap - 1)
    /\ meter \in [Meters -> Meter]
    /\ brenner_stufe \in 0..2

LEMMA StagesOK ==
    ASSUME CodeOK, NEW p
    PROVE  Stages(p).one \in Meter /\ Stages(p).two \in Meter /\ Stages(p).stufe \in 0..2
<1> DEFINE one == IF 4 \in p THEN Started(meter["stage1"]) ELSE meter["stage1"]
           two == IF 16 \in p THEN Started(meter["stage2"]) ELSE meter["stage2"]
<1>1. meter["stage1"] \in Meter /\ meter["stage2"] \in Meter
  BY DEF CodeOK, Meters
<1>2. one \in Meter /\ two \in Meter
  BY <1>1, StartedMeter DEF CodeOK
<1>3. Stopped(one) \in Meter /\ Stopped(two) \in Meter
  BY <1>2, StoppedMeter DEF CodeOK
<1> QED
  BY <1>2, <1>3 DEF Stages, CodeOK

\* The meters and the stage after a burner telegram.
LEMMA BurnerStatusMeters ==
    ASSUME CodeOK, NEW p, BurnerStatus(p)
    PROVE  /\ CodeOK'
           /\ meter'["water"] = meter["water"]
           /\ IsOff(p) => /\ meter'["stage1"].start = 0 /\ meter'["stage2"].start = 0
                          /\ meter'["stage1"].count = Stages(p).one.count
                          /\ meter'["stage2"].count = Stages(p).two.count
           /\ ~IsOff(p) => /\ meter'["stage1"] = Stages(p).one
                           /\ meter'["stage2"] = Stages(p).two
<1> DEFINE one == IF IsOff(p) THEN StoppedIfTimed(Stages(p).one) ELSE Stages(p).one
           two == IF IsOff(p) THEN StoppedIfTimed(Stages(p).two) ELSE Stages(p).two
<1>1. one \in Meter /\ two \in Meter
  BY StagesOK, StoppedIfTimedMeter DEF CodeOK
<1>2. meter' = [meter EXCEPT !["stage1"] = one, !["stage2"] = two]
  BY DEF BurnerStatus
<1>3. meter' \in [Meters -> Meter]
  BY <1>1, <1>2 DEF CodeOK
<1>4. meter'["stage1"] = one /\ meter'["stage2"] = two /\ meter'["water"] = meter["water"]
  BY <1>2 DEF CodeOK, Meters
<1>5. brenner_stufe' \in 0..2 /\ now' = now
  BY StagesOK DEF BurnerStatus
<1>6. IsOff(p) => /\ one.start = 0 /\ two.start = 0
                  /\ one.count = Stages(p).one.count
                  /\ two.count = Stages(p).two.count
  BY StagesOK, StoppedIfTimedMeter DEF CodeOK
<1> QED
  BY <1>3, <1>4, <1>5, <1>6 DEF CodeOK

LEMMA WaterStatusMeters ==
    ASSUME CodeOK, NEW on \in BOOLEAN, WaterStatus(on)
    PROVE  /\ CodeOK'
           /\ meter'["stage1"] = meter["stage1"] /\ meter'["stage2"] = meter["stage2"]
           /\ ~on => /\ meter'["water"].start = 0
                     /\ meter'["water"].count = meter["water"].count
           /\ on => meter'["water"] = Started(meter["water"])
<1> DEFINE w == IF on THEN Started(meter["water"]) ELSE StoppedIfTimed(meter["water"])
<1>1. meter["water"] \in Meter
  BY DEF CodeOK, Meters
<1>2. w \in Meter /\ (~on => w.start = 0 /\ w.count = meter["water"].count)
  BY <1>1, StartedMeter, StoppedIfTimedMeter DEF CodeOK
<1>3. meter' = [meter EXCEPT !["water"] = w]
  BY DEF WaterStatus
<1>4. meter' \in [Meters -> Meter]
  BY <1>2, <1>3 DEF CodeOK
<1>5. /\ meter'["stage1"] = meter["stage1"] /\ meter'["stage2"] = meter["stage2"]
      /\ meter'["water"] = w
  BY <1>3 DEF CodeOK, Meters
<1> QED
  BY <1>2, <1>4, <1>5 DEF CodeOK, WaterStatus

LEMMA ResetMeters ==
    ASSUME CodeOK, ResetDurations
    PROVE  CodeOK' /\ \A m \in Meters : meter'[m].start = meter[m].start
<1>1. \A m \in Meters : meter[m] \in Meter
  BY DEF CodeOK
<1>2. \A m \in Meters : [meter[m] EXCEPT !.duration = 0, !.count = 0] \in Meter
  BY <1>1 DEF Meter
<1>3. meter' \in [Meters -> Meter]
  BY <1>2 DEF ResetDurations
<1>4. \A m \in Meters : meter'[m].start = meter[m].start
  BY <1>1 DEF ResetDurations, Meter
<1> QED
  BY <1>3, <1>4 DEF CodeOK, ResetDurations

LEMMA TickCode ==
    ASSUME CodeOK, Tick
    PROVE  CodeOK' /\ meter' = meter
<1>1. now' \in 0..(Wrap - 1)
  BY ModRange, BurnerAssumption DEF Tick, CodeOK
<1> QED
  BY <1>1 DEF Tick, CodeOK

LEMMA InitCode ==
    ASSUME Init
    PROVE  CodeOK
<1>1. [start |-> 0, duration |-> 0, count |-> 0] \in Meter
  BY BurnerAssumption DEF Meter
<1> QED
  BY <1>1 DEF Init, CodeOK

-----------------------------------------------------------------------------

\* The stage is that of the last telegram, and only its meter runs.
StageInv ==
    /\ brenner_stufe = IF IsOff(payload) THEN 0 ELSE IF 16 \in payload THEN 2 ELSE 1
    /\ OneStageTimed
    /\ meter["water"].start # 0 => hot

BurnerInv == CodeOK /\ StageInv

\* A payload that does not mean "off" has bit 0x04.
LEMMA OnHasStageOne ==
    ASSUME NEW p, ~IsOff(p)
    PROVE  4 \in p
BY DEF IsOff

LEMMA BurnerStatusStage ==
    ASSUME BurnerInv, NEW p \in Payloads, BurnerStatus(p)
    PROVE  StageInv'
<1>1. payload' = p /\ hot' = hot
  BY DEF BurnerStatus, Note
<1>2. CASE IsOff(p)
  BY <1>1, <1>2, BurnerStatusMeters DEF BurnerInv, StageInv, OneStageTimed, BurnerStatus
<1>3. CASE ~IsOff(p)
  <2>1. 4 \in p
    BY <1>3, OnHasStageOne
  <2>2. brenner_stufe' = IF 16 \in p THEN 2 ELSE 1
    BY <2>1, <1>3 DEF BurnerStatus, Stages
  <2>3. CASE 16 \in p
    <3>1. Started(meter["stage1"]) \in Meter
      BY StartedMeter DEF BurnerInv, CodeOK, Meters
    <3>2. Stages(p).one = Stopped(Started(meter["stage1"]))
      BY <2>1, <2>3 DEF Stages
    <3>3. meter'["stage1"].start = 0
      BY <3>1, <3>2, <1>3, BurnerStatusMeters, StoppedMeter DEF BurnerInv, CodeOK
    <3> QED
      BY <1>1, <1>3, <2>2, <2>3, <3>3, BurnerStatusMeters
         DEF BurnerInv, StageInv, OneStageTimed
  <2>4. CASE 16 \notin p
    <3>1. Stages(p).two = IF brenner_stufe = 2 THEN Stopped(meter["stage2"])
                                               ELSE meter["stage2"]
      BY <2>1, <2>4 DEF Stages
    <3>2. meter'["stage2"].start = 0
      BY <3>1, <1>3, BurnerStatusMeters, StoppedMeter
         DEF BurnerInv, StageInv, OneStageTimed, CodeOK, Meters
    <3> QED
      BY <1>1, <1>3, <2>2, <2>4, <3>2, BurnerStatusMeters
         DEF BurnerInv, StageInv, OneStageTimed
  <2> QED
    BY <2>3, <2>4
<1> QED
  BY <1>2, <1>3

\* What the program keeps in memory stays in range, and the meters follow the
\* last telegram.
THEOREM MetersFollow == Spec => []BurnerInv
<1>1. Init => BurnerInv
  <2> SUFFICES ASSUME Init PROVE BurnerInv
    OBVIOUS
  <2>1. \A m \in Meters : meter[m].start = 0
    BY DEF Init
  <2>2. IsOff({})
    BY DEF IsOff
  <2> QED
    BY <2>1, <2>2, InitCode DEF Init, BurnerInv, StageInv, OneStageTimed, Meters
<1>2. BurnerInv /\ [Next]_vars => BurnerInv'
  <2> SUFFICES ASSUME BurnerInv, [Next]_vars PROVE BurnerInv'
    OBVIOUS
  <2>1. ASSUME NEW p \in Payloads, BurnerStatus(p) PROVE BurnerInv'
    BY <2>1, BurnerStatusMeters, BurnerStatusStage DEF BurnerInv
  <2>2. ASSUME NEW on \in BOOLEAN, WaterStatus(on) PROVE BurnerInv'
    <3>1. payload' = payload /\ hot' = on /\ brenner_stufe' = brenner_stufe
      BY <2>2 DEF WaterStatus, Note
    <3> QED
      BY <2>2, <3>1, WaterStatusMeters DEF BurnerInv, StageInv, OneStageTimed
  <2>3. CASE ResetDurations
    <3>1. UNCHANGED <<payload, hot, brenner_stufe>>
      BY <2>3 DEF ResetDurations, heater
    <3> QED
      BY <2>3, <3>1, ResetMeters DEF BurnerInv, StageInv, OneStageTimed, Meters
  <2>4. CASE Tick
    <3>1. UNCHANGED <<payload, hot, brenner_stufe>>
      BY <2>4 DEF Tick, heater
    <3> QED
      BY <2>4, <3>1, TickCode DEF BurnerInv, StageInv, OneStageTimed
  <2>5. CASE UNCHANGED vars
    BY <2>5 DEF vars, heater, BurnerInv, StageInv, OneStageTimed, CodeOK
  <2> QED
    BY <2>1, <2>2, <2>3, <2>4, <2>5 DEF Next
<1> QED
  BY <1>1, <1>2, PTL DEF Spec

\* The history of flames keeps its type.
HistoryOK ==
    /\ payload \in Payloads \cup {{}} /\ hot \in BOOLEAN
    /\ run \in [Meters -> Nat] /\ burnt \in [Meters -> Nat]
    /\ ended \in [Meters -> Nat] /\ unlucky \subseteq Meters

LEMMA NoteOK ==
    ASSUME HistoryOK, NEW p \in Payloads \cup {{}}, NEW h \in BOOLEAN, Note(p, h)
    PROVE  HistoryOK'
<1>1. \A m \in Meters : run[m] \in Nat /\ burnt[m] \in Nat /\ ended[m] \in Nat
  BY DEF HistoryOK
<1>2. run' \in [Meters -> Nat]
  BY <1>1 DEF Note
<1>3. burnt' \in [Meters -> Nat]
  BY <1>1 DEF Note
<1>4. ended' \in [Meters -> Nat]
  BY <1>1 DEF Note
<1> QED
  BY <1>2, <1>3, <1>4 DEF Note, HistoryOK

\* The meters, the stage and the clock stay within their types, whatever the
\* heater sends.
THEOREM TypeCorrect == Spec => []TypeOK
<1>1. Init => HistoryOK
  <2> SUFFICES ASSUME Init PROVE HistoryOK
    OBVIOUS
  <2>1. [m \in Meters |-> 0] \in [Meters -> Nat]
    OBVIOUS
  <2>2. payload \in Payloads \cup {{}} /\ hot \in BOOLEAN
    BY DEF Init
  <2> QED
    BY <2>1, <2>2 DEF Init, HistoryOK
<1>2. HistoryOK /\ [Next]_vars => HistoryOK'
  <2> SUFFICES ASSUME HistoryOK, [Next]_vars PROVE HistoryOK'
    OBVIOUS
  <2>1. ASSUME NEW p \in Payloads, BurnerStatus(p) PROVE HistoryOK'
    BY <2>1, NoteOK DEF BurnerStatus, HistoryOK
  <2>2. ASSUME NEW on \in BOOLEAN, WaterStatus(on) PROVE HistoryOK'
    BY <2>2, NoteOK DEF WaterStatus, HistoryOK
  <2>3. CASE ResetDurations
    BY <2>3 DEF ResetDurations, heater, HistoryOK
  <2>4. CASE Tick
    <3>1. \A m \in Meters : run[m] \in Nat
      BY DEF HistoryOK
    <3>2. run' \in [Meters -> Nat]
      BY <2>4, <3>1 DEF Tick
    <3> QED
      BY <2>4, <3>2 DEF Tick, heater, HistoryOK
  <2>5. CASE UNCHANGED vars
    BY <2>5 DEF vars, heater, history, HistoryOK
  <2> QED
    BY <2>1, <2>2, <2>3, <2>4, <2>5 DEF Next
<1>3. BurnerInv /\ HistoryOK => TypeOK
  BY DEF BurnerInv, CodeOK, StageInv, HistoryOK, TypeOK
<1> QED
  BY <1>1, <1>2, <1>3, MetersFollow, PTL DEF Spec

\* However telegrams are lost or repeated, the two stages are never timed
\* together (broadcast_msg_handling.h, lines 45 to 104).
THEOREM StagesExclude == Spec => []OneStageTimed
<1>1. BurnerInv => OneStageTimed
  BY DEF BurnerInv, StageInv
<1> QED
  BY <1>1, MetersFollow, PTL

-----------------------------------------------------------------------------

\* A flame that was seen is timed, unless it came up when millis() was 0.
RunInv ==
    /\ payload = {4} /\ "stage1" \notin unlucky => meter["stage1"].start # 0
    /\ hot /\ "water" \notin unlucky => meter["water"].start # 0

LEMMA StageOne ==
    ASSUME BurnerInv, BurnerStatus({4})
    PROVE  /\ meter'["stage1"] = Started(meter["stage1"])
           /\ payload = {4} => meter'["stage2"] = meter["stage2"]
<1>1. ~IsOff({4}) /\ 16 \notin {4}
  BY DEF IsOff
<1>2. Stages({4}).one = Started(meter["stage1"])
  BY <1>1 DEF Stages
<1>3. ASSUME payload = {4}
      PROVE  Stages({4}).two = meter["stage2"]
  <2>1. brenner_stufe = 1
    BY <1>1, <1>3 DEF BurnerInv, StageInv
  <2> QED
    BY <1>1, <2>1 DEF Stages
<1> QED
  BY <1>1, <1>2, <1>3, BurnerStatusMeters DEF BurnerInv

\* A meter that is started runs, unless the start makes it unlucky.
LEMMA StartedRuns ==
    ASSUME NEW r \in Meter, now \in 0..(Wrap - 1), Started(r).start = 0
    PROVE  now = 0 /\ Started(r).count > r.count
<1>1. /\ r = [start |-> r.start, duration |-> r.duration, count |-> r.count]
      /\ r.count \in Nat
  BY DEF Meter
<1>2. r.start = 0
  BY DEF Started
<1>3. Started(r) = [start |-> now, duration |-> r.duration, count |-> r.count + 1]
  BY <1>1, <1>2 DEF Started
<1> QED
  BY <1>1, <1>3

LEMMA RunKept ==
    ASSUME BurnerInv, RunInv, [Next]_vars
    PROVE  RunInv'
<1>1. ASSUME NEW p \in Payloads, BurnerStatus(p) PROVE RunInv'
  <2>1. /\ payload' = p /\ hot' = hot /\ now' = now /\ unlucky \subseteq unlucky'
        /\ meter'["water"] = meter["water"]
    BY <1>1, BurnerStatusMeters DEF BurnerStatus, Note, BurnerInv
  <2>2. ASSUME p = {4}, meter'["stage1"].start = 0 PROVE "stage1" \in unlucky'
    <3>1. meter'["stage1"] = Started(meter["stage1"])
      BY <1>1, <2>2, StageOne
    <3>2. now = 0 /\ meter'["stage1"].count > meter["stage1"].count
      BY <2>2, <3>1, StartedRuns DEF BurnerInv, CodeOK, Meters
    <3> QED
      BY <1>1, <3>2 DEF BurnerStatus, Note, Meters
  <2> QED
    BY <2>1, <2>2 DEF RunInv
<1>2. ASSUME NEW on \in BOOLEAN, WaterStatus(on) PROVE RunInv'
  <2>1. /\ payload' = payload /\ hot' = on /\ unlucky \subseteq unlucky'
        /\ meter'["stage1"] = meter["stage1"]
    BY <1>2, WaterStatusMeters DEF WaterStatus, Note, BurnerInv
  <2>2. ASSUME on, meter'["water"].start = 0 PROVE "water" \in unlucky'
    <3>1. meter'["water"] = Started(meter["water"])
      BY <1>2, <2>2, WaterStatusMeters DEF BurnerInv
    <3>2. now = 0 /\ meter'["water"].count > meter["water"].count
      BY <2>2, <3>1, StartedRuns DEF BurnerInv, CodeOK, Meters
    <3> QED
      BY <1>2, <3>2 DEF WaterStatus, Note, Meters
  <2> QED
    BY <2>1, <2>2 DEF RunInv
<1>3. CASE ResetDurations
  <2>1. UNCHANGED <<payload, hot, unlucky>>
    BY <1>3 DEF ResetDurations, heater
  <2> QED
    BY <1>3, <2>1, ResetMeters DEF RunInv, BurnerInv, Meters
<1>4. CASE Tick
  BY <1>4 DEF Tick, heater, RunInv
<1>5. CASE UNCHANGED vars
  BY <1>5 DEF vars, heater, history, RunInv
<1> QED
  BY <1>1, <1>2, <1>3, <1>4, <1>5 DEF Next

\* A telegram that repeats the last one counts no start.
LEMMA RepeatCounts ==
    ASSUME BurnerInv, RunInv, [Next]_vars
    PROVE  RepeatCountsNone
<1> SUFFICES ASSUME heater' = heater, payload \in {{}, {4}},
                    NEW m \in Meters \ unlucky
             PROVE  meter'[m].count <= meter[m].count
  BY DEF RepeatCountsNone
<1>1. \A n \in Meters : meter[n] \in Meter /\ meter[n].count \in Nat
  BY DEF BurnerInv, CodeOK, Meter
<1>2. ASSUME NEW p \in Payloads, BurnerStatus(p) PROVE meter'[m].count = meter[m].count
  <2>1. payload' = p /\ p = payload /\ meter'["water"] = meter["water"]
    BY <1>2, BurnerStatusMeters DEF BurnerStatus, Note, BurnerInv, heater
  <2>2. CASE p = {4}
    <3>1. /\ meter'["stage1"] = Started(meter["stage1"])
          /\ meter'["stage2"] = meter["stage2"]
      BY <1>2, <2>1, <2>2, StageOne
    <3>2. "stage1" \notin unlucky => meter'["stage1"] = meter["stage1"]
      BY <2>1, <2>2, <3>1 DEF RunInv, Started
    <3> QED
      BY <2>1, <3>1, <3>2 DEF Meters
  <2>3. CASE p = {}
    <3>1. Stages(p).one = meter["stage1"] /\ Stages(p).two = meter["stage2"]
      BY <2>3 DEF Stages
    <3>2. IsOff(p)
      BY <2>3 DEF IsOff
    <3> QED
      BY <1>2, <2>1, <3>1, <3>2, BurnerStatusMeters DEF BurnerInv, Meters
  <2> QED
    BY <2>1, <2>2, <2>3
<1>3. ASSUME NEW on \in BOOLEAN, WaterStatus(on) PROVE meter'[m].count = meter[m].count
  <2>1. hot' = on /\ on = hot
    BY <1>3 DEF WaterStatus, Note, heater
  <2>2. on /\ "water" \notin unlucky => meter'["water"] = meter["water"]
    BY <1>3, <2>1, WaterStatusMeters DEF RunInv, BurnerInv, Started
  <2> QED
    BY <1>3, <2>1, <2>2, WaterStatusMeters DEF BurnerInv, Meters
<1>4. CASE ResetDurations
  <2>1. meter'[m] = [meter[m] EXCEPT !.duration = 0, !.count = 0]
    BY <1>4 DEF ResetDurations
  <2>2. meter[m] = [start |-> meter[m].start, duration |-> meter[m].duration,
                    count |-> meter[m].count]
    BY <1>1 DEF Meter
  <2>3. meter'[m].count = 0
    BY <2>1, <2>2
  <2> QED
    BY <1>1, <2>3
<1>5. CASE Tick \/ UNCHANGED vars
  BY <1>1, <1>5 DEF Tick, vars
<1> QED
  BY <1>1, <1>2, <1>3, <1>4, <1>5 DEF Next

\* Every flame that comes up counts as one start, and a repeated telegram none
\* (lines 22, 46, 56).
THEOREM StartsCount == Spec => StartsCounted
<1> DEFINE Begins(m) == m \in Flames(payload', hot') \ Flames(payload, hot)
           Counts(m) == meter'[m].count = meter[m].count + 1
<1>1. ASSUME BurnerInv, NEW p \in Payloads, BurnerStatus(p), NEW m, Begins(m)
      PROVE  Counts(m)
  <2>1. payload' = p /\ hot' = hot
    BY <1>1 DEF BurnerStatus, Note
  <2>2. ~IsOff(p) /\ m = (IF 16 \in p THEN "stage2" ELSE "stage1")
    BY <1>1, <2>1 DEF Flames
  <2>3. 4 \in p
    BY <2>2, OnHasStageOne
  <2>4. meter'["stage1"] = Stages(p).one /\ meter'["stage2"] = Stages(p).two
    BY <1>1, <2>2, BurnerStatusMeters DEF BurnerInv
  <2>5. meter["stage1"] \in Meter /\ meter["stage2"] \in Meter
    BY <1>1 DEF BurnerInv, CodeOK, Meters
  <2>6. CASE 16 \in p
    <3>1. brenner_stufe # 2
      BY <1>1, <2>1, <2>2, <2>6 DEF BurnerInv, StageInv, Flames
    <3>2. meter["stage2"].start = 0
      BY <1>1, <3>1 DEF BurnerInv, StageInv, OneStageTimed
    <3>3. Stages(p).two = Started(meter["stage2"])
      BY <2>3, <2>6 DEF Stages
    <3> QED
      BY <1>1, <2>2, <2>4, <2>5, <2>6, <3>2, <3>3, StartedMeter DEF BurnerInv, CodeOK
  <2>7. CASE 16 \notin p
    <3>1. brenner_stufe # 1
      BY <1>1, <2>1, <2>2, <2>7 DEF BurnerInv, StageInv, Flames
    <3>2. meter["stage1"].start = 0
      BY <1>1, <3>1 DEF BurnerInv, StageInv, OneStageTimed
    <3>3. Stages(p).one = Started(meter["stage1"])
      BY <2>3, <2>7 DEF Stages
    <3> QED
      BY <1>1, <2>2, <2>4, <2>5, <2>7, <3>2, <3>3, StartedMeter DEF BurnerInv, CodeOK
  <2> QED
    BY <2>6, <2>7
<1>2. ASSUME BurnerInv, NEW on \in BOOLEAN, WaterStatus(on), NEW m, Begins(m)
      PROVE  Counts(m)
  <2>1. payload' = payload /\ hot' = on
    BY <1>2 DEF WaterStatus, Note
  <2>2. m = "water" /\ on /\ ~hot
    BY <1>2, <2>1 DEF Flames
  <2>3. meter["water"].start = 0 /\ meter["water"] \in Meter
    BY <1>2, <2>2 DEF BurnerInv, StageInv, CodeOK, Meters
  <2> QED
    BY <1>2, <2>2, <2>3, WaterStatusMeters, StartedMeter DEF BurnerInv, CodeOK
<1>3. ASSUME ResetDurations \/ Tick \/ UNCHANGED vars, NEW m, Begins(m)
      PROVE  FALSE
  BY <1>3 DEF ResetDurations, Tick, vars, heater
<1>4. BurnerInv /\ [Next]_vars => EveryFlameCounts \/ UNCHANGED vars
  BY <1>1, <1>2, <1>3 DEF Next, EveryFlameCounts
<1>5. Init => RunInv
  BY DEF Init, RunInv
<1>6. BurnerInv /\ RunInv /\ [Next]_vars => RunInv' /\ RepeatCountsNone
  BY RunKept, RepeatCounts
<1>7. BurnerInv /\ RunInv /\ [Next]_vars => [EveryFlameCounts /\ RepeatCountsNone]_vars
  BY <1>4, <1>6
<1> QED
  BY <1>5, <1>6, <1>7, MetersFollow, PTL DEF Spec, StartsCounted

-----------------------------------------------------------------------------
(* Running times                                                             *)

\* Whole seconds since a meter was started.
Counting(r) == Elapsed(r.start, now) \div Second

LEMMA QuotientBounds ==
    ASSUME NEW a \in Nat, NEW b \in Nat \ {0}
    PROVE  /\ a \div b \in Nat
           /\ b * (a \div b) <= a /\ a < b * (a \div b) + b
<1>1. /\ a \div b \in Int /\ b * (a \div b) <= a /\ a < b * ((a \div b) + 1)
  BY SMT
<1>2. a \div b \in Nat
  BY DivNat
<1>3. b * ((a \div b) + 1) = b * (a \div b) + b
  BY <1>2
<1> QED
  BY <1>1, <1>2, <1>3

LEMMA StartedValue ==
    ASSUME NEW r \in Meter
    PROVE  /\ r.start # 0 => Started(r) = r
           /\ r.start = 0 => /\ Started(r).start = now
                             /\ Started(r).duration = r.duration
                             /\ Started(r).count > r.count
<1>1. /\ r = [start |-> r.start, duration |-> r.duration, count |-> r.count]
      /\ r.count \in Nat
  BY DEF Meter
<1>2. ASSUME r.start = 0
      PROVE  Started(r) = [start |-> now, duration |-> r.duration, count |-> r.count + 1]
  BY <1>1, <1>2 DEF Started
<1> QED
  BY <1>1, <1>2 DEF Started

LEMMA StoppedValue ==
    ASSUME NEW r \in Meter
    PROVE  Stopped(r).start = 0 /\ Stopped(r).duration = r.duration + Counting(r)
<1> DEFINE d == Elapsed(r.start, now) \div Second
<1>1. Stopped(r) = [r EXCEPT !.start = 0, !.duration = @ + d]
  BY DEF Stopped
<1> HIDE DEF d
<1>2. r = [start |-> r.start, duration |-> r.duration, count |-> r.count]
  BY DEF Meter
<1>3. Stopped(r) = [start |-> 0, duration |-> r.duration + d, count |-> r.count]
  BY <1>1, <1>2
<1> QED
  BY <1>3 DEF Counting, d

\* A meter that is stopped when it has just been started.
LEMMA NoTime ==
    ASSUME NEW r \in Meter, r.start = now
    PROVE  Counting(r) = 0
<1>1. Elapsed(r.start, now) = 0
  BY DEF Elapsed, Meter
<1>2. 0 \div Second = 0
  BY QuotientBounds, BurnerAssumption
<1> QED
  BY <1>1, <1>2 DEF Counting

\* A running meter, stopped by a change of the stage, by "off", or both.
LEMMA EndTimed ==
    ASSUME NEW r \in Meter, r.start # 0, now \in 0..(Wrap - 1),
           NEW x \in {r, Started(r)},
           NEW y \in {Stopped(x), StoppedIfTimed(x), StoppedIfTimed(Stopped(x))}
    PROVE  y.start = 0 /\ y.duration = r.duration + Counting(r)
<1>1. x = r
  BY StartedValue
<1>2. y = Stopped(r)
  BY <1>1, StoppedValue DEF StoppedIfTimed
<1> QED
  BY <1>2, StoppedValue

\* A meter that does not run gains nothing when it is stopped.
LEMMA EndIdle ==
    ASSUME NEW r \in Meter, r.start = 0, now \in 0..(Wrap - 1),
           NEW y \in {r, Started(r), Stopped(Started(r)), StoppedIfTimed(r),
                      StoppedIfTimed(Started(r)), StoppedIfTimed(Stopped(Started(r)))}
    PROVE  y.duration = r.duration
<1> DEFINE x == Started(r)
<1>1. x \in Meter /\ x.start = now /\ x.duration = r.duration
  BY StartedMeter, StartedValue
<1> HIDE DEF x
<1>2. Stopped(x).start = 0 /\ Stopped(x).duration = r.duration
  <2>1. Counting(x) = 0 /\ x.duration \in Nat
    BY <1>1, NoTime DEF Meter
  <2> QED
    BY <1>1, <2>1, StoppedValue
<1>3. /\ StoppedIfTimed(r) = r
      /\ StoppedIfTimed(x) \in {x, Stopped(x)}
      /\ StoppedIfTimed(Stopped(x)) = Stopped(x)
  BY <1>2 DEF StoppedIfTimed
<1>4. y \in {r, x, Stopped(x)}
  BY <1>3 DEF x
<1> QED
  BY <1>1, <1>2, <1>4

\* A flame that is seen is timed from when it came up, modulo the width of
\* millis(), unless that was when millis() was 0.
TimedInv ==
    \A m \in Flames(payload, hot) \ unlucky :
        /\ meter[m].start # 0 /\ run[m] <= Wrap - 1
        /\ \/ now = meter[m].start + run[m]
           \/ now + Wrap = meter[m].start + run[m]

Burns(m) == m \in Flames(payload, hot)

\* What a telegram does to a meter: it goes on, it ends with the time of its
\* flame, or it starts.
MeterFollows(m) ==
    /\ Burns(m) /\ Burns(m)' =>
          /\ meter'[m].start = meter[m].start
          /\ meter'[m].duration = meter[m].duration
    /\ Burns(m) /\ ~Burns(m)' =>
          meter'[m].duration = meter[m].duration + Counting(meter[m])
    /\ ~Burns(m) => meter'[m].duration = meter[m].duration
    /\ ~Burns(m) /\ Burns(m)' => meter'[m].start = now /\ now # 0

LEMMA FlamesAreMeters == ASSUME NEW p, NEW h PROVE Flames(p, h) \subseteq Meters
BY DEF Flames, Meters

\* A meter that runs is that of a flame.
LEMMA TimedBurns ==
    ASSUME BurnerInv, NEW m \in Meters
    PROVE  meter[m].start # 0 => Burns(m)
<1>1. meter["stage1"].start # 0 => ~IsOff(payload) /\ 16 \notin payload
  BY DEF BurnerInv, StageInv, OneStageTimed
<1>2. meter["stage2"].start # 0 => ~IsOff(payload) /\ 16 \in payload
  BY DEF BurnerInv, StageInv, OneStageTimed
<1> QED
  BY <1>1, <1>2 DEF Meters, Burns, Flames, BurnerInv, StageInv

LEMMA StageOneFollows ==
    ASSUME BurnerInv, NEW p \in Payloads, BurnerStatus(p),
           Burns("stage1") => meter["stage1"].start # 0,
           now = 0 => meter'["stage1"].count <= meter["stage1"].count
    PROVE  MeterFollows("stage1")
<1> DEFINE r == meter["stage1"]
           x == IF 4 \in p THEN Started(r) ELSE r
           stops == 16 \in p /\ (4 \in p \/ brenner_stufe = 1)
           y == IF stops THEN Stopped(x) ELSE x
           end == IF IsOff(p) THEN StoppedIfTimed(y) ELSE y
<1>1. r \in Meter /\ now \in 0..(Wrap - 1) /\ r.count \in Nat
  BY DEF BurnerInv, CodeOK, Meters, Meter
<1>2. meter'["stage1"] = end
  <2>1. Stages(p).one = y
    BY DEF Stages, BurnerInv, CodeOK
  <2>2. meter' = [meter EXCEPT !["stage1"] =
                     IF IsOff(p) THEN StoppedIfTimed(Stages(p).one) ELSE Stages(p).one,
                               !["stage2"] =
                     IF IsOff(p) THEN StoppedIfTimed(Stages(p).two) ELSE Stages(p).two]
    BY DEF BurnerStatus
  <2> HIDE DEF y
  <2> QED
    BY <2>1, <2>2 DEF BurnerInv, CodeOK, Meters
<1>3. Burns("stage1")' <=> ~IsOff(p) /\ 16 \notin p
  BY DEF Burns, Flames, BurnerStatus, Note
<1>4. Burns("stage1") <=> brenner_stufe = 1
  BY DEF Burns, Flames, BurnerInv, StageInv
<1>5. r.start = 0 <=> ~Burns("stage1")
  BY TimedBurns DEF Meters
<1>6. CASE Burns("stage1") /\ Burns("stage1")'
  <2>1. end = r
    BY <1>1, <1>3, <1>5, <1>6, StartedValue
  <2> QED
    BY <1>2, <1>6, <2>1 DEF MeterFollows
<1>7. CASE Burns("stage1") /\ ~Burns("stage1")'
  <2>1. ~IsOff(p) => 4 \in p
    BY OnHasStageOne
  <2>2. x \in {r, Started(r)} /\ end \in {Stopped(x), StoppedIfTimed(x), StoppedIfTimed(Stopped(x))}
    BY <1>3, <1>7, <2>1
  <2> HIDE DEF x, end
  <2>3. end.duration = r.duration + Counting(r)
    BY <1>1, <1>5, <1>7, <2>2, EndTimed
  <2> QED
    BY <1>2, <1>7, <2>3 DEF MeterFollows
<1>8. CASE ~Burns("stage1")
  <2>1. end \in {r, Started(r), Stopped(Started(r)), StoppedIfTimed(r),
                 StoppedIfTimed(Started(r)), StoppedIfTimed(Stopped(Started(r)))}
    BY <1>4, <1>8
  <2>2. ASSUME Burns("stage1")' PROVE end = Started(r)
    BY <1>3, <2>2, OnHasStageOne
  <2> HIDE DEF end
  <2>3. end.duration = r.duration
    BY <1>1, <1>5, <1>8, <2>1, EndIdle
  <2>4. ASSUME Burns("stage1")' PROVE end.start = now /\ now # 0
    <3>1. end.start = now /\ end.count > r.count
      BY <1>1, <1>5, <1>8, <2>2, <2>4, StartedValue
    <3>2. end.count \in Nat
      BY <1>1, <2>2, <2>4, StartedMeter DEF Meter
    <3> QED
      BY <1>1, <1>2, <3>1, <3>2
  <2> QED
    BY <1>2, <1>8, <2>3, <2>4 DEF MeterFollows
<1> QED
  BY <1>6, <1>7, <1>8

LEMMA StageTwoFollows ==
    ASSUME BurnerInv, NEW p \in Payloads, BurnerStatus(p),
           Burns("stage2") => meter["stage2"].start # 0,
           now = 0 => meter'["stage2"].count <= meter["stage2"].count
    PROVE  MeterFollows("stage2")
<1> DEFINE r == meter["stage2"]
           x == IF 16 \in p THEN Started(r) ELSE r
           stops == 16 \notin p /\ 4 \in p /\ brenner_stufe = 2
           y == IF stops THEN Stopped(x) ELSE x
           end == IF IsOff(p) THEN StoppedIfTimed(y) ELSE y
<1>1. r \in Meter /\ now \in 0..(Wrap - 1) /\ r.count \in Nat
  BY DEF BurnerInv, CodeOK, Meters, Meter
<1>2. meter'["stage2"] = end
  <2>1. Stages(p).two = y
    BY DEF Stages, BurnerInv, CodeOK
  <2>2. meter' = [meter EXCEPT !["stage1"] =
                     IF IsOff(p) THEN StoppedIfTimed(Stages(p).one) ELSE Stages(p).one,
                               !["stage2"] =
                     IF IsOff(p) THEN StoppedIfTimed(Stages(p).two) ELSE Stages(p).two]
    BY DEF BurnerStatus
  <2> HIDE DEF y
  <2> QED
    BY <2>1, <2>2 DEF BurnerInv, CodeOK, Meters
<1>3. Burns("stage2")' <=> ~IsOff(p) /\ 16 \in p
  BY DEF Burns, Flames, BurnerStatus, Note
<1>4. Burns("stage2") <=> brenner_stufe = 2
  BY DEF Burns, Flames, BurnerInv, StageInv
<1>5. r.start = 0 <=> ~Burns("stage2")
  BY TimedBurns DEF Meters
<1>6. CASE Burns("stage2") /\ Burns("stage2")'
  <2>1. end = r
    BY <1>1, <1>3, <1>5, <1>6, StartedValue
  <2> QED
    BY <1>2, <1>6, <2>1 DEF MeterFollows
<1>7. CASE Burns("stage2") /\ ~Burns("stage2")'
  <2>1. ~IsOff(p) => 4 \in p
    BY OnHasStageOne
  <2>2. x \in {r, Started(r)} /\ end \in {Stopped(x), StoppedIfTimed(x), StoppedIfTimed(Stopped(x))}
    BY <1>3, <1>4, <1>7, <2>1
  <2> HIDE DEF x, end
  <2>3. end.duration = r.duration + Counting(r)
    BY <1>1, <1>5, <1>7, <2>2, EndTimed
  <2> QED
    BY <1>2, <1>7, <2>3 DEF MeterFollows
<1>8. CASE ~Burns("stage2")
  <2>1. end \in {r, Started(r), Stopped(Started(r)), StoppedIfTimed(r),
                 StoppedIfTimed(Started(r)), StoppedIfTimed(Stopped(Started(r)))}
    BY <1>4, <1>8
  <2>2. ASSUME Burns("stage2")' PROVE end = Started(r)
    BY <1>3, <2>2
  <2> HIDE DEF end
  <2>3. end.duration = r.duration
    BY <1>1, <1>5, <1>8, <2>1, EndIdle
  <2>4. ASSUME Burns("stage2")' PROVE end.start = now /\ now # 0
    <3>1. end.start = now /\ end.count > r.count
      BY <1>1, <1>5, <1>8, <2>2, <2>4, StartedValue
    <3>2. end.count \in Nat
      BY <1>1, <2>2, <2>4, StartedMeter DEF Meter
    <3> QED
      BY <1>1, <1>2, <3>1, <3>2
  <2> QED
    BY <1>2, <1>8, <2>3, <2>4 DEF MeterFollows
<1> QED
  BY <1>6, <1>7, <1>8

LEMMA WaterFollows ==
    ASSUME BurnerInv, NEW on \in BOOLEAN, WaterStatus(on),
           Burns("water") => meter["water"].start # 0,
           now = 0 => meter'["water"].count <= meter["water"].count
    PROVE  MeterFollows("water")
<1> DEFINE r == meter["water"]
           end == IF on THEN Started(r) ELSE StoppedIfTimed(r)
<1>1. r \in Meter /\ now \in 0..(Wrap - 1) /\ r.count \in Nat
  BY DEF BurnerInv, CodeOK, Meters, Meter
<1>2. meter'["water"] = end
  BY DEF WaterStatus, BurnerInv, CodeOK, Meters
<1>3. (Burns("water")' <=> on) /\ (Burns("water") <=> hot)
  BY DEF Burns, Flames, WaterStatus, Note
<1>4. r.start = 0 <=> ~Burns("water")
  BY TimedBurns DEF Meters
<1>5. CASE Burns("water") /\ on
  <2>1. end = r
    BY <1>1, <1>4, <1>5, StartedValue
  <2> QED
    BY <1>2, <1>3, <1>5, <2>1 DEF MeterFollows
<1>6. CASE Burns("water") /\ ~on
  <2>1. end.duration = r.duration + Counting(r)
    BY <1>1, <1>4, <1>6, EndTimed
  <2> QED
    BY <1>2, <1>3, <1>6, <2>1 DEF MeterFollows
<1>7. CASE ~Burns("water") /\ on
  <2>1. end = Started(r)
    BY <1>7
  <2>2. end.start = now /\ end.duration = r.duration /\ end.count > r.count
        /\ end.count \in Nat
    BY <1>1, <1>4, <1>7, <2>1, StartedValue, StartedMeter DEF Meter
  <2> QED
    BY <1>1, <1>2, <1>7, <2>2 DEF MeterFollows
<1>8. CASE ~Burns("water") /\ ~on
  <2>1. end.duration = r.duration
    BY <1>1, <1>4, <1>8, EndIdle
  <2> QED
    BY <1>2, <1>3, <1>8, <2>1 DEF MeterFollows
<1> QED
  BY <1>5, <1>6, <1>7, <1>8

\* What a telegram does to the history of a flame.
HistoryFollows(m) ==
    /\ m \notin unlucky
    /\ run'[m] = IF Burns(m) <=> Burns(m)' THEN run[m] ELSE 0
    /\ IF Burns(m) /\ ~Burns(m)'
       THEN burnt'[m] = burnt[m] + run[m] /\ ended'[m] = ended[m] + 1
       ELSE burnt'[m] = burnt[m] /\ ended'[m] = ended[m]

LEMMA NoteFollows ==
    ASSUME HistoryOK, NEW p, NEW h, Note(p, h), NEW m \in Meters, m \notin unlucky'
    PROVE  /\ HistoryFollows(m)
           /\ now = 0 => ~(meter'[m].count > meter[m].count)
<1>1. run[m] \in Nat /\ burnt[m] \in Nat /\ ended[m] \in Nat
  BY DEF HistoryOK
<1>2. payload' = p /\ hot' = h
  BY DEF Note
<1>3. run'[m] = IF Burns(m) <=> Burns(m)' THEN run[m] ELSE 0
  BY <1>2 DEF Note, Burns
<1>4. /\ burnt'[m] = burnt[m] + IF Burns(m) /\ ~Burns(m)' THEN run[m] ELSE 0
      /\ ended'[m] = ended[m] + IF Burns(m) /\ ~Burns(m)' THEN 1 ELSE 0
  BY <1>2 DEF Note, Burns
<1>5. m \notin unlucky /\ (now = 0 => ~(meter'[m].count > meter[m].count))
  BY DEF Note
<1> QED
  BY <1>1, <1>3, <1>4, <1>5 DEF HistoryFollows

LEMMA BurnerFollows ==
    ASSUME BurnerInv, HistoryOK, TimedInv, NEW p \in Payloads, BurnerStatus(p),
           NEW m \in Meters, m \notin unlucky'
    PROVE  MeterFollows(m) /\ HistoryFollows(m) /\ UNCHANGED now
<1>1. HistoryFollows(m) /\ (now = 0 => ~(meter'[m].count > meter[m].count))
  BY NoteFollows DEF BurnerStatus
<1>2. Burns(m) => meter[m].start # 0
  BY <1>1 DEF TimedInv, HistoryFollows, Burns
<1>3. now = 0 => meter'[m].count <= meter[m].count
  <2>1. meter[m].count \in Nat /\ meter'[m].count \in Nat
    BY BurnerStatusMeters DEF BurnerInv, CodeOK, Meter
  <2> QED
    BY <1>1, <2>1
<1>4. CASE m = "water"
  <2>1. meter'[m] = meter[m] /\ (Burns(m)' <=> Burns(m))
    BY <1>4, BurnerStatusMeters DEF BurnerInv, BurnerStatus, Note, Burns, Flames
  <2> QED
    BY <1>1, <2>1 DEF MeterFollows, BurnerStatus
<1>5. CASE m # "water"
  BY <1>1, <1>2, <1>3, <1>5, StageOneFollows, StageTwoFollows DEF Meters, BurnerStatus
<1> QED
  BY <1>4, <1>5

LEMMA HotWaterFollows ==
    ASSUME BurnerInv, HistoryOK, TimedInv, NEW on \in BOOLEAN, WaterStatus(on),
           NEW m \in Meters, m \notin unlucky'
    PROVE  MeterFollows(m) /\ HistoryFollows(m) /\ UNCHANGED now
<1>1. HistoryFollows(m) /\ (now = 0 => ~(meter'[m].count > meter[m].count))
  BY NoteFollows DEF WaterStatus
<1>2. Burns(m) => meter[m].start # 0
  BY <1>1 DEF TimedInv, HistoryFollows, Burns
<1>3. now = 0 => meter'[m].count <= meter[m].count
  <2>1. meter[m].count \in Nat /\ meter'[m].count \in Nat
    BY WaterStatusMeters DEF BurnerInv, CodeOK, Meter
  <2> QED
    BY <1>1, <2>1
<1>4. CASE m = "water"
  BY <1>1, <1>2, <1>3, <1>4, WaterFollows DEF WaterStatus
<1>5. CASE m # "water"
  <2>1. meter'[m] = meter[m] /\ (Burns(m)' <=> Burns(m))
    BY <1>5, WaterStatusMeters
       DEF BurnerInv, WaterStatus, Note, Burns, Flames, Meters
  <2> QED
    BY <1>1, <2>1 DEF MeterFollows, WaterStatus
<1> QED
  BY <1>4, <1>5

\* The time a meter has counted is that of its flame, or one millisecond less.
LEMMA CountingBounds ==
    ASSUME BurnerInv, HistoryOK, TimedInv, NEW m \in Meters, m \notin unlucky, Burns(m)
    PROVE  LET q == Counting(meter[m])
           IN  q \in Nat /\ Second * q <= run[m] /\ run[m] <= Second * q + Second
<1> DEFINE s == meter[m].start
           e == Elapsed(s, now)
<1>1. s \in 0..(Wrap - 1) /\ now \in 0..(Wrap - 1) /\ run[m] \in Nat
  BY DEF BurnerInv, CodeOK, HistoryOK, Meter
<1>2. run[m] <= Wrap - 1 /\ (now = s + run[m] \/ now + Wrap = s + run[m])
  BY DEF TimedInv, Burns
<1>3. e \in {run[m], run[m] - 1} /\ e \in Nat
  BY <1>1, <1>2, ElapsedNat, BurnerAssumption DEF Elapsed
<1>4. Counting(meter[m]) = e \div Second
  BY DEF Counting
<1> HIDE DEF e
<1>5. /\ e \div Second \in Nat
      /\ Second * (e \div Second) <= e /\ e < Second * (e \div Second) + Second
  BY <1>3, QuotientBounds, BurnerAssumption
<1>6. Second * (e \div Second) \in Nat
  BY <1>5, BurnerAssumption
<1> QED
  BY <1>1, <1>3, <1>4, <1>5, <1>6, BurnerAssumption

\* The bounds of Accounted, of one meter.
Balance(d, b, n) == Second * d <= b /\ b <= Second * d + Second * n

LEMMA BalanceEnds ==
    ASSUME NEW d \in Nat, NEW b \in Nat, NEW n \in Nat, NEW q \in Nat, NEW r \in Nat,
           Balance(d, b, n), Second * q <= r, r <= Second * q + Second
    PROVE  Balance(d + q, b + r, n + 1)
<1>1. Second * (d + q) = Second * d + Second * q /\ Second * (n + 1) = Second * n + Second
  BY BurnerAssumption
<1>2. Second * d \in Nat /\ Second * q \in Nat /\ Second * n \in Nat /\ Second \in Nat
  BY BurnerAssumption
<1> QED
  BY <1>1, <1>2 DEF Balance

LEMMA AccountedIs ==
    Accounted <=> \A m \in Meters \ unlucky : Balance(meter[m].duration, burnt[m], ended[m])
BY DEF Accounted, Balance

TimesInv ==
    /\ TimedInv
    /\ \A m \in Meters \ unlucky : Balance(meter[m].duration, burnt[m], ended[m])

\* A telegram keeps the times of one meter.
LEMMA FollowKeepsTimes ==
    ASSUME BurnerInv, HistoryOK, TimesInv, NEW m \in Meters, m \notin unlucky',
           MeterFollows(m), HistoryFollows(m), UNCHANGED now
    PROVE  /\ Burns(m)' => /\ meter'[m].start # 0 /\ run'[m] <= Wrap - 1
                           /\ \/ now' = meter'[m].start + run'[m]
                              \/ now' + Wrap = meter'[m].start + run'[m]
           /\ Balance(meter'[m].duration, burnt'[m], ended'[m])
<1>1. m \notin unlucky /\ Balance(meter[m].duration, burnt[m], ended[m])
  BY DEF HistoryFollows, TimesInv
<1>2. /\ now \in 0..(Wrap - 1) /\ run[m] \in Nat /\ burnt[m] \in Nat /\ ended[m] \in Nat
      /\ meter[m].duration \in Nat
  BY DEF BurnerInv, CodeOK, HistoryOK, Meter
<1>3. CASE Burns(m) /\ Burns(m)'
  BY <1>1, <1>3 DEF MeterFollows, HistoryFollows, TimesInv, TimedInv, Burns
<1>4. CASE Burns(m) /\ ~Burns(m)'
  <2> DEFINE q == Counting(meter[m])
  <2>1. q \in Nat /\ Second * q <= run[m] /\ run[m] <= Second * q + Second
    BY <1>1, <1>4, CountingBounds DEF TimesInv
  <2>2. /\ meter'[m].duration = meter[m].duration + q
        /\ burnt'[m] = burnt[m] + run[m] /\ ended'[m] = ended[m] + 1
    BY <1>4 DEF MeterFollows, HistoryFollows
  <2> HIDE DEF q
  <2> QED
    BY <1>1, <1>2, <1>4, <2>1, <2>2, BalanceEnds
<1>5. CASE ~Burns(m)
  <2>1. /\ meter'[m].duration = meter[m].duration
        /\ burnt'[m] = burnt[m] /\ ended'[m] = ended[m]
    BY <1>5 DEF MeterFollows, HistoryFollows
  <2>2. Burns(m)' => meter'[m].start = now /\ now # 0 /\ run'[m] = 0
    BY <1>5 DEF MeterFollows, HistoryFollows
  <2>3. Balance(meter'[m].duration, burnt'[m], ended'[m])
    BY <1>1, <2>1
  <2> QED
    BY <1>2, <2>2, <2>3, BurnerAssumption
<1> QED
  BY <1>3, <1>4, <1>5

\* A millisecond passes, and millis() may wrap.
LEMMA TickKeepsTimes ==
    ASSUME BurnerInv, HistoryOK, TimesInv, Tick
    PROVE  TimesInv'
<1>1. UNCHANGED <<meter, payload, hot, burnt, ended, unlucky>>
  BY DEF Tick, heater
<1>2. ASSUME NEW m \in Flames(payload, hot) \ unlucky
      PROVE  /\ run'[m] <= Wrap - 1
             /\ \/ now' = meter[m].start + run'[m]
                \/ now' + Wrap = meter[m].start + run'[m]
  <2>0. m \in Meters
    BY FlamesAreMeters
  <2>1. /\ meter[m].start \in 0..(Wrap - 1) /\ now \in 0..(Wrap - 1) /\ run[m] \in Nat
        /\ run[m] < Wrap - 1 /\ Wrap \in Nat \ {0}
    BY <2>0, BurnerAssumption DEF BurnerInv, CodeOK, HistoryOK, Meter, Tick
  <2>2. run'[m] = run[m] + 1
    BY <2>0 DEF Tick
  <2>3. now = meter[m].start + run[m] \/ now + Wrap = meter[m].start + run[m]
    BY DEF TimesInv, TimedInv
  <2>4. CASE now + 1 < Wrap
    <3>1. (now + 1) % Wrap = now + 1
      BY <2>1, <2>4
    <3>2. now' = now + 1
      BY <3>1 DEF Tick
    <3> QED
      BY <2>1, <2>2, <2>3, <3>2
  <2>5. CASE now + 1 = Wrap
    <3>1. Wrap % Wrap = 0
      BY <2>1
    <3>2. now' = 0
      BY <2>5, <3>1 DEF Tick
    <3> QED
      BY <2>1, <2>2, <2>3, <2>5, <3>2
  <2> QED
    BY <2>1, <2>4, <2>5
<1> QED
  BY <1>1, <1>2 DEF TimesInv, TimedInv

\* The times that are shown are those of the flames: never more, and less by at
\* most a second for each run, over any number of wraps of millis() and however
\* the telegrams are lost or repeated (broadcast_msg_handling.h, lines 18 to 105).
THEOREM TimesAccounted == Spec => []Accounted
<1>1. Init => TimesInv
  <2> SUFFICES ASSUME Init PROVE TimesInv
    OBVIOUS
  <2>1. Flames(payload, hot) = {}
    BY DEF Init, Flames, IsOff
  <2>2. Second * 0 = 0
    BY BurnerAssumption
  <2>3. \A m \in Meters : /\ meter[m].duration = 0
                          /\ burnt[m] = 0 /\ ended[m] = 0
    BY DEF Init
  <2> QED
    BY <2>1, <2>2, <2>3 DEF TimesInv, TimedInv, Balance
<1>2. BurnerInv /\ HistoryOK /\ TimesInv /\ [Next]_vars => TimesInv'
  <2> SUFFICES ASSUME BurnerInv, HistoryOK, TimesInv, [Next]_vars PROVE TimesInv'
    OBVIOUS
  <2>1. ASSUME \A m \in Meters \ unlucky' :
                   MeterFollows(m) /\ HistoryFollows(m) /\ UNCHANGED now
        PROVE  TimesInv'
    <3>1. \A m \in Meters \ unlucky' :
              /\ Burns(m)' => /\ meter'[m].start # 0 /\ run'[m] <= Wrap - 1
                              /\ \/ now' = meter'[m].start + run'[m]
                                 \/ now' + Wrap = meter'[m].start + run'[m]
              /\ Balance(meter'[m].duration, burnt'[m], ended'[m])
      BY <2>1, FollowKeepsTimes
    <3>2. Flames(payload', hot') \subseteq Meters
      BY FlamesAreMeters
    <3> QED
      BY <3>1, <3>2 DEF TimesInv, TimedInv, Burns, Balance
  <2>2. ASSUME NEW p \in Payloads, BurnerStatus(p) PROVE TimesInv'
    BY <2>1, <2>2, BurnerFollows DEF TimesInv
  <2>3. ASSUME NEW on \in BOOLEAN, WaterStatus(on) PROVE TimesInv'
    BY <2>1, <2>3, HotWaterFollows DEF TimesInv
  <2>4. CASE ResetDurations
    <3>1. UNCHANGED <<now, payload, hot, run, unlucky>>
      BY <2>4 DEF ResetDurations, heater
    <3>2. ASSUME NEW m \in Meters
          PROVE  /\ meter'[m].start = meter[m].start /\ meter'[m].duration = 0
                 /\ burnt'[m] = 0 /\ ended'[m] = 0
      <4>1. meter[m] \in Meter
        BY DEF BurnerInv, CodeOK
      <4>2. meter'[m].duration = 0
        BY <2>4, <4>1 DEF ResetDurations, Meter
      <4> QED
        BY <2>4, <4>2, ResetMeters DEF BurnerInv, ResetDurations
    <3>3. Second * 0 = 0
      BY BurnerAssumption
    <3> QED
      BY <3>1, <3>2, <3>3, FlamesAreMeters DEF TimesInv, TimedInv, Balance
  <2>5. CASE Tick
    BY <2>5, TickKeepsTimes
  <2>6. CASE UNCHANGED vars
    BY <2>6 DEF vars, heater, history, TimesInv, TimedInv, Balance
  <2> QED
    BY <2>2, <2>3, <2>4, <2>5, <2>6 DEF Next
<1>3. TypeOK => HistoryOK
  BY DEF TypeOK, HistoryOK
<1>4. TimesInv => Accounted
  BY AccountedIs DEF TimesInv
<1> QED
  BY <1>1, <1>2, <1>3, <1>4, MetersFollow, TypeCorrect, PTL DEF Spec

=============================================================================

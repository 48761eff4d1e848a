----------------------------- MODULE BurnerStats -----------------------------
(***************************************************************************)
(* Running times and starts of the burner's two stages and of the hot water *)
(* charging (broadcast_msg_handling.h).                                      *)
(*                                                                         *)
(* Nothing is asked for: the heater broadcasts its state, several times or  *)
(* never, and BSB-LAN takes the time with millis(), which wraps.  A payload *)
(* byte is the set of its bits.                                             *)
(*                                                                         *)
(* FaultX are mutated forms of X, used by no specification: they show that  *)
(* the properties can fail.                                                *)
(***************************************************************************)
EXTENDS Integers

CONSTANTS
    Payloads,    \* first payload bytes of the burner telegrams
    Wrap,        \* millis() counts 0..Wrap - 1; 2^32
    Second,      \* milliseconds of a second; 1000
    MaxEvents    \* bound on counted starts and completed runs

ASSUME BurnerAssumption ==
    /\ Payloads \subseteq SUBSET {1, 2, 4, 8, 16}
    /\ Wrap \in Nat \ {0} /\ Second \in Nat \ {0} /\ MaxEvents \in Nat

Meters == {"stage1", "stage2", "water"}
Meter == [start : 0..(Wrap - 1), duration : Nat, count : Nat]

VARIABLES
    now,             \* millis()
    meter,           \* brenner_*, brenner_*_2 and TWW_*; start 0: not timed
    brenner_stufe,   \* stage at the last burner telegram
    payload,         \* history: that telegram
    hot,             \* history: water is charged, by the last telegram
    run,             \* history: how long each flame has been seen burning
    burnt,           \* history: the same, completed runs since the reset
    ended,           \* history: number of those runs
    unlucky          \* history: meters started when millis() was 0

heater == <<payload, hot>>
history == <<run, burnt, ended, unlucky>>
vars == <<now, meter, brenner_stufe, heater, history>>

Init ==
    /\ now \in 1..(Wrap - 1)
    /\ meter = [m \in Meters |-> [start |-> 0, duration |-> 0, count |-> 0]]
    /\ brenner_stufe = 0
    /\ payload = {} /\ hot = FALSE
    /\ run = [m \in Meters |-> 0] /\ burnt = [m \in Meters |-> 0]
    /\ ended = [m \in Meters |-> 0] /\ unlucky = {}

-----------------------------------------------------------------------------

FaultElapsed(start, end) == IF end >= start THEN end - start ELSE start - end

\* 0xffffffff - start + end over an overflow: one less than it was.
Elapsed(start, end) ==
    IF end >= start THEN end - start ELSE (Wrap - 1) - start + end

FaultStarted(r) == [r EXCEPT !.start = now, !.count = @ + 1]

Started(r) ==
    IF r.start = 0 THEN [r EXCEPT !.start = now, !.count = @ + 1] ELSE r

Stopped(r) ==
    [r EXCEPT !.start = 0, !.duration = @ + (Elapsed(r.start, now) \div Second)]

StoppedIfTimed(r) == IF r.start # 0 THEN Stopped(r) ELSE r

\* Low nibble other than 4: brenner off.
IsOff(p) == p \cap {1, 2, 4, 8} # {4}

\* What a telegram says: the stage that burns.
Flames(p, h) ==
    (IF IsOff(p) THEN {} ELSE IF 16 \in p THEN {"stage2"} ELSE {"stage1"})
    \cup (IF h THEN {"water"} ELSE {})

\* History of what the telegrams p and h tell about flames.
Note(p, h) ==
    LET before == Flames(payload, hot)
        after == Flames(p, h)
        over == before \ after
        begin == after \ before
    IN  /\ payload' = p /\ hot' = h
        /\ run' = [m \in Meters |-> IF m \in over \cup begin THEN 0 ELSE run[m]]
        /\ burnt' = [m \in Meters |-> burnt[m] + IF m \in over THEN run[m] ELSE 0]
        /\ ended' = [m \in Meters |-> ended[m] + IF m \in over THEN 1 ELSE 0]
        /\ unlucky' = unlucky \cup {m \in Meters :
                          now = 0 /\ meter'[m].count > meter[m].count}

FaultStages(p) ==
    LET s1 == IF 4 \in p THEN 1 ELSE brenner_stufe
        s2 == IF 16 \in p THEN 2 ELSE s1
        change == (16 \in p /\ s1 = 1)
        one == IF 4 \in p THEN Started(meter["stage1"]) ELSE meter["stage1"]
        two == IF 16 \in p THEN Started(meter["stage2"]) ELSE meter["stage2"]
    IN  [stufe |-> s2,
         one |-> IF change /\ s2 = 2 THEN Stopped(one) ELSE one,
         two |-> IF change /\ s2 = 1 THEN Stopped(two) ELSE two]

\* Bit 0x04 stands for stage 1, bit 0x10 for stage 2 (oil only); a change of
\* stage ends the run of the other one.
Stages(p) ==
    LET s1 == IF 4 \in p THEN 1 ELSE brenner_stufe
        s2 == IF 16 \in p THEN 2 ELSE s1
        change == (4 \in p /\ brenner_stufe = 2) \/ (16 \in p /\ s1 = 1)
        one == IF 4 \in p THEN Started(meter["stage1"]) ELSE meter["stage1"]
        two == IF 16 \in p THEN Started(meter["stage2"]) ELSE meter["stage2"]
    IN  [stufe |-> s2,
         one |-> IF change /\ s2 = 2 THEN Stopped(one) ELSE one,
         two |-> IF change /\ s2 = 1 THEN Stopped(two) ELSE two]

\* "off" ends the runs and leaves the stage as it is.
FaultBurnerStatus(p) ==
    LET s == Stages(p)
    IN  /\ brenner_stufe' = s.stufe
        /\ meter' = [meter EXCEPT
              !["stage1"] = IF IsOff(p) THEN StoppedIfTimed(s.one) ELSE s.one,
              !["stage2"] = IF IsOff(p) THEN StoppedIfTimed(s.two) ELSE s.two]
        /\ Note(p, hot)
        /\ UNCHANGED now

\* Broadcast 05000213.
BurnerStatus(p) ==
    LET s == Stages(p)
    IN  /\ brenner_stufe' = IF IsOff(p) THEN 0 ELSE s.stufe
        /\ meter' = [meter EXCEPT
              !["stage1"] = IF IsOff(p) THEN StoppedIfTimed(s.one) ELSE s.one,
              !["stage2"] = IF IsOff(p) THEN StoppedIfTimed(s.two) ELSE s.two]
        /\ Note(p, hot)
        /\ UNCHANGED now

\* Broadcast 31000212, bit 0x08.
WaterStatus(on) ==
    /\ meter' = [meter EXCEPT !["water"] =
                    IF on THEN Started(@) ELSE StoppedIfTimed(@)]
    /\ Note(payload, on)
    /\ UNCHANGED <<now, brenner_stufe>>

\* /B0 and parameter 20006: a running meter goes on running.
ResetDurations ==
    /\ meter' = [m \in Meters |-> [meter[m] EXCEPT !.duration = 0, !.count = 0]]
    /\ burnt' = [m \in Meters |-> 0] /\ ended' = [m \in Meters |-> 0]
    /\ UNCHANGED <<now, brenner_stufe, heater, run, unlucky>>

\* A flame burns for less than a wrap of millis(), 49 days.
Tick ==
    /\ \A m \in Flames(payload, hot) : run[m] < Wrap - 1
    /\ now' = (now + 1) % Wrap
    /\ run' = [m \in Meters |->
                  run[m] + IF m \in Flames(payload, hot) THEN 1 ELSE 0]
    /\ UNCHANGED <<meter, brenner_stufe, heater, burnt, ended, unlucky>>

\* For TLC: starts counted and runs completed since the last reset.
Events == meter["stage1"].count + meter["stage2"].count + meter["water"].count
          + ended["stage1"] + ended["stage2"] + ended["water"]

Next ==
    \/ /\ Events < MaxEvents
       /\ \/ \E p \in Payloads : BurnerStatus(p)
          \/ \E on \in BOOLEAN : WaterStatus(on)
    \/ ResetDurations
    \/ Tick

Spec == Init /\ [][Next]_vars

-----------------------------------------------------------------------------

\* Types; the stage is 0 just when the last burner telegram said "off"
\* (line 87), and never one that has no flame.
TypeOK ==
    /\ now \in 0..(Wrap - 1)
    /\ meter \in [Meters -> Meter]
    /\ brenner_stufe \in IF IsOff(payload) THEN {0} ELSE {1, 2}
    /\ payload \in Payloads \cup {{}} /\ hot \in BOOLEAN
    /\ run \in [Meters -> Nat] /\ burnt \in [Meters -> Nat]
    /\ ended \in [Meters -> Nat] /\ unlucky \subseteq Meters

\* No two stages are timed at once: a meter that runs is that of the stage of
\* the last telegram, however the telegrams were lost or repeated.
OneStageTimed ==
    /\ meter["stage1"].start # 0 => brenner_stufe = 1
    /\ meter["stage2"].start # 0 => brenner_stufe = 2

\* The running times are those of the flames that were seen: never more, and
\* less by at most one second for each run (the division, and the lost
\* millisecond at a wrap).  Not so for a run that began when millis() was 0,
\* the mark for "not timed".
Accounted ==
    \A m \in Meters \ unlucky :
        LET counted == Second * meter[m].duration
        IN  counted <= burnt[m] /\ burnt[m] <= counted + Second * ended[m]

EveryFlameCounts ==
    \A m \in Flames(payload', hot') \ Flames(payload, hot) :
        meter'[m].count = meter[m].count + 1

RepeatCountsNone ==
    heater' = heater /\ payload \in {{}, {4}} =>
        \A m \in Meters \ unlucky : meter'[m].count <= meter[m].count

\* Comments "increment number of starts" (lines 24, 48, 58): every flame that
\* comes up counts as one start, and a telegram that is only repeated counts
\* none, for hot water and as long as the second stage is off.
StartsCounted == [][EveryFlameCounts /\ RepeatCountsNone]_vars

=============================================================================

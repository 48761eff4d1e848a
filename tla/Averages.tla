------------------------------ MODULE Averages ------------------------------
(***************************************************************************)
(* The 24 h averages (BSB_LAN.ino): once a minute loop() queries each listed *)
(* parameter and carries the mean of the day so far, weighed with the day    *)
(* before.  They are kept in averages.txt on the logging device, which       *)
(* setup() reads back.                                                       *)
(*                                                                         *)
(* Values are fixed-point numbers, Scale to the unit; the code uses floats.  *)
(*                                                                         *)
(* FaultX are mutated forms of X, used by no specification: they show that  *)
(* the properties can fail.                                                *)
(***************************************************************************)
EXTENDS Integers

CONSTANTS
    Parameters,   \* that can be listed
    None,         \* avg_parameters[i].number is 0
    Reads,        \* Reads[p]: what strtod() makes of the values of p; 0: no answer
    NaN,          \* a sensor's value that is no number
    Slots,        \* 0..numAverages - 1
    NoFile,       \* averages.txt does not exist
    Day,          \* minutes of a day; 1440
    Scale,
    MaxMinutes,   \* bound on the minutes averaged
    MaxEvents     \* bound on the commands and starts

ASSUME AveragesAssumption ==
    /\ None \notin Parameters /\ Reads \in [Parameters -> SUBSET Nat]
    /\ NaN \notin Nat /\ 0 \in Slots
    /\ Day \in Nat \ {0} /\ Scale \in Nat \ {0} /\ MaxMinutes \in Nat
    /\ MaxEvents \in Nat

NoOld == -9999

Lists == [Slots -> Parameters \cup {None}]
Values == [Slots -> Int]

VARIABLES
    pc,                \* loop() serves "http", is at the "averages", or "off"
    list,              \* avg_parameters
    avg24, sd,         \* LoggingMode & CF_LOGMODE_24AVG, _SD_CARD
    saved,             \* these three in EEPROM
    started,           \* the logging device is mounted
    avgValues, avgValues_Old, avgValues_Current, avgCounter,
    file,              \* averages.txt
    minutes, events,   \* history: minutes averaged, commands and starts
    seen,              \* history: readings since the slot's parameter was set
    today,             \* history: readings of the day, their sum, and those skipped
    skips,             \* history: readings skipped since avgValues changed
    mixed              \* history: the list was set back to the one in EEPROM

config == <<list, avg24, sd, saved>>
averages == <<avgValues, avgValues_Old, avgValues_Current, avgCounter>>
history == <<seen, today, skips, mixed>>
vars == <<pc, config, started, averages, file, minutes, events, history>>

Modes == [list : Lists, avg24 : BOOLEAN, sd : BOOLEAN]
Files == [avg : Values, old : Values, cur : Values, counter : Int]

NewDay == [taken |-> 0, sum |-> 0, skipped |-> 0]
OfAll(x) == [i \in Slots |-> x]

Init ==
    /\ pc = "http"
    /\ list \in Lists /\ avg24 \in BOOLEAN /\ sd \in BOOLEAN
    /\ saved = [list |-> list, avg24 |-> avg24, sd |-> sd]
    /\ started = sd
    /\ avgValues = OfAll(0) /\ avgValues_Old = OfAll(NoOld)
    /\ avgValues_Current = OfAll(0) /\ avgCounter = 1
    /\ file = NoFile
    /\ minutes = 0 /\ events = 0
    /\ seen = OfAll({}) /\ today = OfAll(NewDay) /\ skips = OfAll(Day)
    /\ mixed = FALSE

-----------------------------------------------------------------------------
(* The averages of a minute. *)

\* resetAverageCalculation() uses the logging mode of that moment; a device
\* that is not mounted has no file to remove.
FileWithout(on) == IF on /\ started' THEN NoFile ELSE file

Reset ==
    /\ avgValues' = OfAll(0)
    /\ avgValues_Old' = OfAll(NoOld)
    /\ avgValues_Current' = OfAll(0)
    /\ avgCounter' = 1
    /\ file' = FileWithout(sd')
    /\ seen' = OfAll({}) /\ today' = OfAll(NewDay) /\ skips' = OfAll(Day)
    /\ mixed' = FALSE

\* The day ends a minute late.
FaultDayIsOver == avgCounter = Day + 2

\* The 1441st minute begins another day.
DayIsOver == avgCounter = Day + 1

Counter == IF DayIsOver THEN 1 ELSE avgCounter

\* The value of the day is zeroed before it is carried over.
FaultOldValue(i) == IF DayIsOver THEN 0 ELSE avgValues_Old[i]

OldValue(i) == IF DayIsOver THEN avgValues[i] ELSE avgValues_Old[i]
DayValue(i) == IF DayIsOver THEN 0 ELSE avgValues_Current[i]

Mean(i, r) == (DayValue(i) * (Counter - 1) + r * Scale) \div Counter
Weighed(old, cur) ==
    IF old = NoOld THEN cur ELSE (old * (Day - Counter) + cur * Counter) \div Day

Taken(t) == IF t.taken = Day THEN NewDay ELSE t

\* The history of a reading; before the first of a day a skipped one counts 0.
Record(reading) ==
    /\ seen' = [i \in Slots |->
                  IF list[i] = None THEN seen[i]
                  ELSE seen[i] \cup (IF reading[i] # NaN THEN {reading[i]}
                                     ELSE IF Counter = 1 THEN {0} ELSE {})]
    /\ today' = [i \in Slots |->
                   LET t == Taken(today[i])
                       r == reading[i]
                   IN  IF list[i] = None THEN today[i]
                       ELSE [taken |-> t.taken + 1,
                             sum |-> IF r = NaN THEN t.sum ELSE t.sum + r,
                             skipped |-> IF r = NaN THEN t.skipped + 1 ELSE t.skipped]]
    /\ skips' = [i \in Slots |->
                   IF list[i] = None \/ reading[i] # NaN THEN 0
                   ELSE IF skips[i] < Day THEN skips[i] + 1 ELSE Day]
    /\ UNCHANGED mixed

Counted(i, reading) == list[i] # None /\ reading[i] # NaN

Average(reading) ==
    /\ avgValues_Old' = [i \in Slots |-> OldValue(i)]
    /\ avgValues_Current' = [i \in Slots |->
           IF Counted(i, reading) THEN Mean(i, reading[i]) ELSE DayValue(i)]
    /\ avgValues' = [i \in Slots |->
           IF Counted(i, reading) THEN Weighed(OldValue(i), Mean(i, reading[i]))
           ELSE avgValues[i]]
    /\ avgCounter' = Counter + 1

\* The file is written when the first slot holds a parameter.
Write ==
    file' = IF sd /\ started /\ list[0] # None
            THEN [avg |-> avgValues', old |-> avgValues_Old',
                  cur |-> avgValues_Current', counter |-> avgCounter']
            ELSE file

Readings(i) == IF list[i] = None THEN {NaN} ELSE Reads[list[i]] \cup {NaN}

Minute ==
    /\ pc = "averages" /\ avg24 /\ minutes < MaxMinutes
    /\ \E reading \in [Slots -> UNION {Readings(i) : i \in Slots}] :
        /\ \A i \in Slots : reading[i] \in Readings(i)
        /\ Average(reading)
        /\ Record(reading)
    /\ Write
    /\ minutes' = minutes + 1
    /\ pc' = "http"
    /\ UNCHANGED <<config, started, events>>

\* The minute is not over.
NotYet ==
    /\ pc = "averages" /\ avg24
    /\ pc' = "http"
    /\ UNCHANGED <<config, started, averages, file, minutes, events, history>>

\* The counter starts anew, in another day; the values stay.
NewCount ==
    /\ avgCounter' = 1
    /\ today' = OfAll(NewDay) /\ skips' = OfAll(Day)
    /\ UNCHANGED <<avgValues, avgValues_Old, avgValues_Current, file, seen, mixed>>

Off ==
    /\ pc = "averages" /\ ~avg24
    /\ NewCount
    /\ pc' = "http"
    /\ UNCHANGED <<config, started, minutes, events>>

-----------------------------------------------------------------------------
(* Commands, and the start. *)

Event == events < MaxEvents /\ events' = events + 1 /\ UNCHANGED minutes
Serve == pc = "http" /\ UNCHANGED pc /\ Event

\* /AC=<on>
SetAverages(on) ==
    /\ Serve
    /\ avg24' = on
    /\ UNCHANGED <<list, sd, saved, started, averages, file, history>>

\* /LC=<on>
SetLogging(on) ==
    /\ Serve
    /\ sd' = on
    /\ UNCHANGED <<list, avg24, saved, started, averages, file, history>>

\* /A=<new>, until the next start.
SetList(new) ==
    /\ Serve /\ avg24
    /\ UNCHANGED <<avg24, sd, saved, started>>
    /\ list' = new
    /\ Reset

\* /A= without a parameter.
EmptyList ==
    /\ Serve /\ avg24
    /\ UNCHANGED <<config, started>>
    /\ NewCount

\* Another list in the configuration does not reset the averages.
FaultListChanged(new) == FALSE

\* Saving the configuration compares it with the EEPROM, not with what was in
\* use.
ListChanged(new) == new # saved.list

SaveConfig(new, on, log) ==
    /\ Serve
    /\ UNCHANGED started
    /\ list' = new /\ avg24' = on /\ sd' = log
    /\ saved' = [list |-> new, avg24 |-> on, sd |-> log]
    /\ IF ListChanged(new) THEN Reset
       ELSE /\ mixed' = (mixed \/ list # saved.list)
            /\ seen' = IF new = list THEN seen ELSE OfAll({})
            /\ UNCHANGED <<averages, file, today, skips>>

\* The power fails, or resetBoard().
PowerOff ==
    /\ pc # "off" /\ pc' = "off"
    /\ Event
    /\ UNCHANGED <<config, started, averages, file, history>>

\* What setup() reads from the file, if it is there.
Restore(kept) ==
    IF kept = NoFile \/ ~started' THEN Reset
    ELSE /\ avgValues' = kept.avg
         /\ avgValues_Old' = kept.old
         /\ avgValues_Current' = kept.cur
         /\ avgCounter' = kept.counter
         /\ file' = kept
         /\ seen' = OfAll({}) /\ today' = OfAll(NewDay) /\ skips' = OfAll(Day)
         /\ mixed' = TRUE

\* setup() resets the averages, removing the file, before it looks for it.
Boot(mounts) ==
    /\ pc = "off" /\ pc' = "http"
    /\ list' = saved.list /\ avg24' = saved.avg24 /\ sd' = saved.sd
    /\ started' = (saved.sd /\ mounts)
    /\ Restore(FileWithout(saved.sd))
    /\ UNCHANGED <<saved, minutes, events>>

-----------------------------------------------------------------------------
ToAverages ==
    /\ pc = "http"
    /\ pc' = "averages"
    /\ UNCHANGED <<config, started, averages, file, minutes, events, history>>

Command ==
    \/ \E on \in BOOLEAN : SetAverages(on) \/ SetLogging(on)
    \/ \E new \in Lists : SetList(new)
    \/ EmptyList
    \/ \E new \in Lists, on, log \in BOOLEAN : SaveConfig(new, on, log)

Next ==
    \/ ToAverages \/ Minute \/ NotYet \/ Off
    \/ Command
    \/ PowerOff
    \/ \E mounts \in BOOLEAN : Boot(mounts)

Spec == Init /\ [][Next]_vars

-----------------------------------------------------------------------------
(* Properties *)

Histories ==
    /\ seen \in [Slots -> SUBSET Nat]
    /\ today \in [Slots -> [taken : 0..Day, sum : Nat, skipped : Nat]]
    /\ skips \in [Slots -> 0..Day] /\ mixed \in BOOLEAN

\* The counter stays within a day, also in the file.
TypeOK ==
    /\ pc \in {"http", "averages", "off"}
    /\ list \in Lists /\ avg24 \in BOOLEAN /\ sd \in BOOLEAN /\ saved \in Modes
    /\ started \in BOOLEAN
    /\ avgValues \in Values /\ avgValues_Old \in Values /\ avgValues_Current \in Values
    /\ avgCounter \in 1..(Day + 1)
    /\ file # NoFile => file \in Files /\ file.counter \in 2..(Day + 1)
    /\ minutes \in 0..MaxMinutes /\ events \in 0..MaxEvents
    /\ Histories

\* The value of a day is the mean of its readings, none lost and none counted
\* twice at its ends or over a pause, unless one was skipped.
MeanOfDay ==
    \A i \in Slots :
        list[i] # None /\ today[i].skipped = 0 =>
            /\ avgCounter = today[i].taken + 1
            /\ avgValues_Current[i] * today[i].taken = today[i].sum * Scale

Within(x, readings) ==
    /\ \E r \in readings : r * Scale <= x
    /\ \E r \in readings : x <= r * Scale

\* Averages lie between the readings of the parameter that is listed now.
InRange ==
    \A i \in Slots :
        seen[i] # {} =>
            /\ Within(avgValues[i], seen[i])
            /\ avgValues_Old[i] # NoOld => Within(avgValues_Old[i], seen[i])
            /\ avgCounter > 1 => Within(avgValues_Current[i], seen[i])

\* What is shown as an average is one: of this parameter's readings, each with
\* its weight (resetAverageCalculation() for another list, 7016-7058).
AveragesRight == ~mixed => MeanOfDay /\ InRange

Distance(x, y) == IF x < y THEN y - x ELSE x - y

\* A minute moves an average by no more than its share of a day, up to so many
\* units of the fixed-point values; a reading that was skipped passes its share on.
SlowChange(rounding) ==
    \A i \in Slots :
        ~mixed /\ minutes' # minutes /\ seen'[i] # {} /\ avgValues_Old'[i] # NoOld =>
            \E a, b \in seen'[i] :
                Distance(avgValues[i], avgValues'[i]) * Day
                    <= (skips[i] + 1) * (b - a) * Scale + rounding * Day

\* Once a day is complete a minute moves an average by no more than its share of
\* a day, also from one day to the next (7016-7022, 7052-7058).
ChangesSlowly == [][SlowChange(0)]_vars

\* "write averages to SD card to protect from power off" (7073): a start with the
\* device mounted finds the averages that were written for its list.
SurvivesPowerOff ==
    [][pc = "off" /\ pc' = "http" /\ started' /\ list' = list /\ file # NoFile =>
         averages' = <<file.avg, file.old, file.cur, file.counter>>]_vars
=============================================================================

--------------------------- MODULE Averages_proofs ---------------------------
(***************************************************************************)
(* Proofs about Averages: the counter of minutes stays within a day; an     *)
(* average lies between readings of the parameter it is shown for; the      *)
(* value of a day is the mean of its readings; and a minute moves an        *)
(* average by its share of a day.                                           *)
(***************************************************************************)
EXTENDS Averages, TLAPS

-----------------------------------------------------------------------------
(* Arithmetic *)

LEMMA ProductOrder ==
  ASSUME NEW x \in Int, NEW y \in Int, NEW n \in Nat, x <= y
  PROVE  x * n <= y * n
<1>1. CASE n = 0
  BY <1>1
<1>2. CASE n > 0
  BY <1>2
<1> QED
  BY <1>1, <1>2

LEMMA Quotient ==
  ASSUME NEW z \in Int, NEW d \in Nat \ {0}
  PROVE  /\ z \div d \in Int
         /\ d * (z \div d) <= z
         /\ z < d * ((z \div d) + 1)
  BY SMT

\* What is at least lo, d times, is at least lo when divided by d.
LEMMA QuotientBounds ==
  ASSUME NEW z \in Int, NEW d \in Nat \ {0}, NEW lo \in Int, NEW hi \in Int,
         lo * d <= z, z <= hi * d
  PROVE  lo <= z \div d /\ z \div d <= hi
<1> DEFINE q == z \div d
<1>1. q \in Int /\ d * q <= z /\ z < d * (q + 1)
  BY Quotient
<1> HIDE DEF q
<1>2. lo <= q
  <2> SUFFICES ASSUME q + 1 <= lo PROVE FALSE
    BY <1>1
  <2>1. (q + 1) * d <= lo * d
    BY <1>1, ProductOrder
  <2> QED
    BY <1>1, <2>1
<1>3. q <= hi
  <2> SUFFICES ASSUME hi + 1 <= q PROVE FALSE
    BY <1>1
  <2>1. (hi + 1) * d <= q * d
    BY <1>1, ProductOrder
  <2>2. (hi + 1) * d = hi * d + d
    OBVIOUS
  <2> QED
    BY <1>1, <2>1, <2>2
<1> QED
  BY <1>2, <1>3 DEF q

\* A weighted mean lies between what is weighed.
LEMMA WeightedMean ==
  ASSUME NEW x \in Int, NEW y \in Int, NEW n \in Nat, NEW m \in Nat, n + m # 0,
         NEW lo \in Int, NEW hi \in Int, lo <= x, x <= hi, lo <= y, y <= hi
  PROVE  LET mean == (x * n + y * m) \div (n + m)
         IN  lo <= mean /\ mean <= hi
<1>1. lo * n <= x * n /\ lo * m <= y * m /\ x * n <= hi * n /\ y * m <= hi * m
  BY ProductOrder
<1>2. lo * (n + m) = lo * n + lo * m /\ hi * (n + m) = hi * n + hi * m
  OBVIOUS
<1>3. lo * (n + m) <= x * n + y * m /\ x * n + y * m <= hi * (n + m)
  BY <1>1, <1>2
<1> QED
  BY <1>3, QuotientBounds

-----------------------------------------------------------------------------
(* Types *)

AvgTypes ==
    /\ avgValues \in Values /\ avgValues_Old \in Values /\ avgValues_Current \in Values
    /\ avgCounter \in 1..(Day + 1)

FileType == file # NoFile => file \in Files /\ file.counter \in 2..(Day + 1)

ConfigTypes ==
    /\ list \in Lists /\ avg24 \in BOOLEAN /\ sd \in BOOLEAN /\ saved \in Modes
    /\ started \in BOOLEAN

LEMMA Constants == /\ Day \in Nat \ {0} /\ Scale \in Nat \ {0} /\ NoOld \in Int
                   /\ MaxMinutes \in Nat /\ MaxEvents \in Nat
  BY AveragesAssumption DEF NoOld

LEMMA FreshHistories ==
  /\ OfAll({}) \in [Slots -> SUBSET Nat]
  /\ OfAll(NewDay) \in [Slots -> [taken : 0..Day, sum : Nat, skipped : Nat]]
  /\ OfAll(Day) \in [Slots -> 0..Day]
<1>1. {} \in SUBSET Nat
  OBVIOUS
<1>2. NewDay \in [taken : 0..Day, sum : Nat, skipped : Nat] /\ Day \in 0..Day
  BY Constants DEF NewDay
<1> QED
  BY <1>1, <1>2 DEF OfAll

LEMMA ResetTypes ==
  ASSUME FileType, Reset
  PROVE  AvgTypes' /\ FileType' /\ Histories'
<1>1. AvgTypes'
  BY Constants DEF Reset, AvgTypes, OfAll, Values
<1>2. FileType'
  <2>1. file' = NoFile \/ file' = file
    BY DEF Reset, FileWithout
  <2> QED
    BY <2>1 DEF FileType
<1>3. Histories'
  BY FreshHistories DEF Reset, Histories
<1> QED
  BY <1>1, <1>2, <1>3

LEMMA NewCountTypes ==
  ASSUME AvgTypes, FileType, Histories, NewCount
  PROVE  AvgTypes' /\ FileType' /\ Histories'
<1>1. AvgTypes' /\ FileType'
  BY Constants DEF NewCount, AvgTypes, FileType
<1>2. Histories'
  BY FreshHistories DEF NewCount, Histories
<1> QED
  BY <1>1, <1>2

\* What is averaged is a value, for any reading.
LEMMA MinuteValues ==
  ASSUME AvgTypes, NEW i \in Slots
  PROVE  /\ Counter \in 1..Day
         /\ OldValue(i) \in Int /\ DayValue(i) \in Int
         /\ \A r \in Nat : /\ Mean(i, r) \in Int
                           /\ Weighed(OldValue(i), Mean(i, r)) \in Int
<1>1. Counter \in 1..Day /\ OldValue(i) \in Int /\ DayValue(i) \in Int
  BY Constants DEF AvgTypes, Values, Counter, OldValue, DayValue, DayIsOver
<1>2. ASSUME NEW r \in Nat
      PROVE  Mean(i, r) \in Int /\ Weighed(OldValue(i), Mean(i, r)) \in Int
  <2> DEFINE z == DayValue(i) * (Counter - 1) + r * Scale
  <2>1. z \in Int
    BY <1>1, Constants
  <2>2. z \div Counter \in Int
    <3> HIDE DEF z
    <3> QED
      BY <1>1, <2>1, Constants, Quotient
  <2>3. Mean(i, r) \in Int
    BY <2>2 DEF Mean
  <2> DEFINE m == Mean(i, r)
             w == OldValue(i) * (Day - Counter) + m * Counter
  <2>4. w \in Int
    <3> HIDE DEF m
    <3>1. m \in Int
      BY <2>3 DEF m
    <3> QED
      BY <1>1, <3>1, Constants
  <2>5. w \div Day \in Int
    <3> HIDE DEF w
    <3> QED
      BY <2>4, Constants, Quotient
  <2> QED
    BY <2>3, <2>5 DEF Weighed
<1> QED
  BY <1>1, <1>2

LEMMA ReadingIsNat ==
  ASSUME list \in Lists, NEW i \in Slots, NEW r \in Readings(i), r # NaN
  PROVE  r \in Nat /\ list[i] # None
  BY AveragesAssumption DEF Lists, Readings

LEMMA MinuteTypes ==
  ASSUME AvgTypes, FileType, Histories, list \in Lists, Minute
  PROVE  AvgTypes' /\ FileType' /\ Histories'
<1>1. PICK reading \in [Slots -> UNION {Readings(i) : i \in Slots}] :
        /\ \A i \in Slots : reading[i] \in Readings(i)
        /\ Average(reading)
        /\ Record(reading)
  BY DEF Minute
<1>2. \A i \in Slots : reading[i] # NaN => reading[i] \in Nat
  BY <1>1, ReadingIsNat
<1>3. AvgTypes'
  <2>1. avgValues_Old' \in Values
    BY <1>1, MinuteValues DEF Average, Values
  <2>2. avgValues_Current' \in Values
    BY <1>1, <1>2, MinuteValues DEF Average, Counted, Values
  <2>3. avgValues' \in Values
    BY <1>1, <1>2, MinuteValues DEF Average, Counted, Values, AvgTypes
  <2>4. avgCounter' \in 2..(Day + 1)
    BY <1>1, AveragesAssumption DEF Average, AvgTypes, Counter, DayIsOver
  <2> QED
    BY <2>1, <2>2, <2>3, <2>4, Constants DEF AvgTypes
<1>4. avgCounter' \in 2..(Day + 1)
  BY <1>1, AveragesAssumption DEF Average, AvgTypes, Counter, DayIsOver
<1>5. FileType'
  BY <1>3, <1>4 DEF Minute, Write, FileType, Files, AvgTypes
<1>6. Histories'
  <2>1. seen' \in [Slots -> SUBSET Nat]
    <3> DEFINE Now(i) == IF list[i] = None THEN seen[i]
                         ELSE seen[i] \cup (IF reading[i] # NaN THEN {reading[i]}
                                            ELSE IF Counter = 1 THEN {0} ELSE {})
    <3>1. ASSUME NEW i \in Slots PROVE Now(i) \in SUBSET Nat
      BY <1>2 DEF Histories
    <3>2. seen' = [i \in Slots |-> Now(i)]
      BY <1>1 DEF Record
    <3> QED
      BY <3>1, <3>2
  <2>2. \A i \in Slots : Taken(today[i]) \in [taken : 0..(Day - 1), sum : Nat, skipped : Nat]
    <3> SUFFICES ASSUME NEW i \in Slots
                 PROVE  Taken(today[i]) \in [taken : 0..(Day - 1), sum : Nat, skipped : Nat]
      OBVIOUS
    <3>1. today[i] \in [taken : 0..Day, sum : Nat, skipped : Nat]
      BY DEF Histories
    <3>2. CASE today[i].taken = Day
      BY <3>2, Constants DEF Taken, NewDay
    <3>3. CASE today[i].taken # Day
      BY <3>1, <3>3, Constants DEF Taken
    <3> QED
      BY <3>2, <3>3
  <2>3. today' \in [Slots -> [taken : 0..Day, sum : Nat, skipped : Nat]]
    <3> DEFINE Next_(i) ==
                 LET t == Taken(today[i])
                     r == reading[i]
                 IN  IF list[i] = None THEN today[i]
                     ELSE [taken |-> t.taken + 1,
                           sum |-> IF r = NaN THEN t.sum ELSE t.sum + r,
                           skipped |-> IF r = NaN THEN t.skipped + 1 ELSE t.skipped]
    <3>1. ASSUME NEW i \in Slots
          PROVE  Next_(i) \in [taken : 0..Day, sum : Nat, skipped : Nat]
      BY <1>2, <2>2, Constants DEF Histories
    <3>2. today' = [i \in Slots |-> Next_(i)]
      BY <1>1 DEF Record
    <3> QED
      BY <3>1, <3>2
  <2>4. skips' \in [Slots -> 0..Day] /\ mixed' \in BOOLEAN
    BY <1>1, Constants DEF Record, Histories
  <2> QED
    BY <2>1, <2>3, <2>4 DEF Histories
<1> QED
  BY <1>3, <1>5, <1>6

LEMMA BootTypes ==
  ASSUME NEW mounts \in BOOLEAN, ConfigTypes, FileType, Boot(mounts)
  PROVE  ConfigTypes' /\ AvgTypes' /\ FileType' /\ Histories'
<1>1. ConfigTypes'
  BY DEF ConfigTypes, Boot, Modes
<1> DEFINE kept == FileWithout(saved.sd)
<1>2. kept = NoFile \/ kept = file
  BY DEF FileWithout
<1>3. CASE kept = NoFile \/ ~started'
  <2>1. Reset
    BY <1>3 DEF Boot, Restore
  <2> QED
    BY <1>1, <2>1, ResetTypes
<1>4. CASE kept # NoFile /\ started'
  <2>1. kept \in Files /\ kept.counter \in 2..(Day + 1)
    BY <1>2, <1>4 DEF FileType
  <2>2. /\ avgValues' = kept.avg /\ avgValues_Old' = kept.old
        /\ avgValues_Current' = kept.cur /\ avgCounter' = kept.counter
        /\ file' = kept
        /\ seen' = OfAll({}) /\ today' = OfAll(NewDay) /\ skips' = OfAll(Day)
        /\ mixed' = TRUE
    BY <1>4 DEF Boot, Restore
  <2> HIDE DEF kept
  <2>3. AvgTypes' /\ FileType'
    BY <2>1, <2>2, Constants DEF AvgTypes, FileType, Files
  <2>4. Histories'
    BY <2>2, FreshHistories DEF Histories
  <2> QED
    BY <1>1, <2>3, <2>4
<1> QED
  BY <1>3, <1>4

LEMMA SaveTypes ==
  ASSUME ConfigTypes, AvgTypes, FileType, Histories,
         NEW new \in Lists, NEW on \in BOOLEAN, NEW log \in BOOLEAN,
         SaveConfig(new, on, log)
  PROVE  ConfigTypes' /\ AvgTypes' /\ FileType' /\ Histories'
<1>1. ConfigTypes'
  BY DEF SaveConfig, ConfigTypes, Modes
<1>2. CASE ListChanged(new)
  <2>1. Reset
    BY <1>2 DEF SaveConfig
  <2> QED
    BY <1>1, <2>1, ResetTypes
<1>3. CASE ~ListChanged(new)
  <2>1. /\ mixed' = (mixed \/ list # saved.list)
        /\ seen' = IF new = list THEN seen ELSE OfAll({})
        /\ UNCHANGED <<averages, file, today, skips>>
    BY <1>3 DEF SaveConfig
  <2>2. AvgTypes' /\ FileType'
    BY <2>1 DEF AvgTypes, FileType, averages
  <2>3. Histories'
    BY <2>1, FreshHistories DEF Histories
  <2> QED
    BY <1>1, <2>2, <2>3
<1> QED
  BY <1>2, <1>3

Bounds ==
    /\ pc \in {"http", "averages", "off"}
    /\ minutes \in 0..MaxMinutes /\ events \in 0..MaxEvents

LEMMA Types == TypeOK <=> ConfigTypes /\ AvgTypes /\ FileType /\ Bounds /\ Histories
  BY DEF TypeOK, ConfigTypes, AvgTypes, FileType, Bounds

LEMMA NextBounds == Bounds /\ [Next]_vars => Bounds'
<1> SUFFICES ASSUME Bounds, [Next]_vars PROVE Bounds'
  OBVIOUS
<1> USE Constants DEF Bounds, Event, Serve
<1>1. CASE ToAverages \/ NotYet \/ Off \/ UNCHANGED vars
  BY <1>1 DEF ToAverages, NotYet, Off, vars
<1>2. CASE Minute
  BY <1>2 DEF Minute
<1>3. CASE Command
  BY <1>3 DEF Command, SetAverages, SetLogging, SetList, EmptyList, SaveConfig
<1>4. CASE PowerOff
  BY <1>4 DEF PowerOff
<1>5. ASSUME NEW mounts \in BOOLEAN, Boot(mounts) PROVE Bounds'
  BY <1>5 DEF Boot
<1> QED
  BY <1>1, <1>2, <1>3, <1>4, <1>5 DEF Next

LEMMA NextTypes == TypeOK /\ [Next]_vars => TypeOK'
<1> SUFFICES ASSUME TypeOK, [Next]_vars PROVE TypeOK'
  OBVIOUS
<1>0. ConfigTypes /\ AvgTypes /\ FileType /\ Bounds /\ Histories
  BY Types
<1>1. Bounds'
  BY <1>0, NextBounds
<1>2. SUFFICES ConfigTypes' /\ AvgTypes' /\ FileType' /\ Histories'
  BY <1>1 DEF TypeOK, ConfigTypes, AvgTypes, FileType, Bounds
<1>3. ASSUME UNCHANGED <<config, started>> PROVE ConfigTypes'
  BY <1>0, <1>3 DEF ConfigTypes, config
<1>4. ASSUME UNCHANGED <<averages, file, history>>
      PROVE  AvgTypes' /\ FileType' /\ Histories'
  BY <1>0, <1>4 DEF AvgTypes, FileType, Histories, averages, history
<1>5. CASE ToAverages \/ NotYet \/ PowerOff \/ UNCHANGED vars
  <2>1. UNCHANGED <<config, started, averages, file, history>>
    BY <1>5 DEF ToAverages, NotYet, PowerOff, vars
  <2> QED
    BY <2>1, <1>3, <1>4
<1>6. CASE Minute
  <2>1. ConfigTypes'
    BY <1>3, <1>6 DEF Minute
  <2> QED
    BY <1>0, <1>6, <2>1, MinuteTypes DEF ConfigTypes
<1>7. CASE Off
  BY <1>0, <1>3, <1>7, NewCountTypes DEF Off
<1>8. ASSUME NEW on \in BOOLEAN, SetAverages(on) \/ SetLogging(on)
      PROVE  ConfigTypes' /\ AvgTypes' /\ FileType' /\ Histories'
  <2>1. ConfigTypes'
    BY <1>0, <1>8 DEF SetAverages, SetLogging, ConfigTypes
  <2> QED
    BY <1>4, <1>8, <2>1 DEF SetAverages, SetLogging
<1>9. ASSUME NEW new \in Lists, SetList(new)
      PROVE  ConfigTypes' /\ AvgTypes' /\ FileType' /\ Histories'
  <2>1. ConfigTypes'
    BY <1>0, <1>9 DEF SetList, ConfigTypes
  <2> QED
    BY <1>0, <1>9, <2>1, ResetTypes DEF SetList
<1>10. CASE EmptyList
  BY <1>0, <1>3, <1>10, NewCountTypes DEF EmptyList
<1>11. ASSUME NEW new \in Lists, NEW on \in BOOLEAN, NEW log \in BOOLEAN,
              SaveConfig(new, on, log)
       PROVE  ConfigTypes' /\ AvgTypes' /\ FileType' /\ Histories'
  BY <1>0, <1>11, SaveTypes
<1>12. ASSUME NEW mounts \in BOOLEAN, Boot(mounts)
       PROVE  ConfigTypes' /\ AvgTypes' /\ FileType' /\ Histories'
  BY <1>0, <1>12, BootTypes
<1> QED
  BY <1>5, <1>6, <1>7, <1>8, <1>9, <1>10, <1>11, <1>12 DEF Next, Command

\* The counter of minutes is never beyond the day, in use or in the file, whatever
\* is listed, switched, saved or cut short (7016-7021, 7070, 6679, 7088).
THEOREM TypeCorrect == Spec => []TypeOK
<1>1. Init => TypeOK
  <2> SUFFICES ASSUME Init PROVE TypeOK
    OBVIOUS
  <2>1. ConfigTypes /\ Bounds
    BY Constants DEF Init, ConfigTypes, Bounds, Modes
  <2>2. AvgTypes /\ FileType
    BY Constants DEF Init, AvgTypes, FileType, OfAll, Values
  <2>3. Histories
    BY FreshHistories DEF Init, Histories
  <2> QED
    BY <2>1, <2>2, <2>3, Types
<1> QED
  BY <1>1, NextTypes, PTL DEF Spec

-----------------------------------------------------------------------------
(* Averages between readings *)

LEMMA WithinMore ==
  ASSUME NEW x, NEW R, NEW T, R \subseteq T, Within(x, R)
  PROVE  Within(x, T)
  BY DEF Within

LEMMA WithinItself ==
  ASSUME NEW r \in Nat, NEW R, r \in R
  PROVE  Within(r * Scale, R)
<1>1. r * Scale <= r * Scale
  BY Constants
<1> QED
  BY <1>1 DEF Within

LEMMA MeanWithin ==
  ASSUME NEW x \in Int, NEW y \in Int, NEW n \in Nat, NEW m \in Nat, n + m # 0,
         NEW R \in SUBSET Nat, Within(x, R), Within(y, R)
  PROVE  Within((x * n + y * m) \div (n + m), R)
<1>1. PICK a \in R : a * Scale <= x
  BY DEF Within
<1>2. PICK b \in R : b * Scale <= y
  BY DEF Within
<1>3. PICK c \in R : x <= c * Scale
  BY DEF Within
<1>4. PICK d \in R : y <= d * Scale
  BY DEF Within
<1>5. /\ a * Scale \in Int /\ b * Scale \in Int
      /\ c * Scale \in Int /\ d * Scale \in Int
  BY Constants
<1>6. PICK lo \in R : lo * Scale <= x /\ lo * Scale <= y /\ lo * Scale \in Int
  <2>1. CASE a * Scale <= b * Scale
    BY <1>1, <1>2, <1>5, <2>1
  <2>2. CASE b * Scale <= a * Scale
    BY <1>1, <1>2, <1>5, <2>2
  <2> QED
    BY <1>5, <2>1, <2>2
<1>7. PICK hi \in R : x <= hi * Scale /\ y <= hi * Scale /\ hi * Scale \in Int
  <2>1. CASE c * Scale <= d * Scale
    BY <1>3, <1>4, <1>5, <2>1
  <2>2. CASE d * Scale <= c * Scale
    BY <1>3, <1>4, <1>5, <2>2
  <2> QED
    BY <1>5, <2>1, <2>2
<1> DEFINE mean == (x * n + y * m) \div (n + m)
           low == lo * Scale
           high == hi * Scale
<1>8. low <= mean /\ mean <= high
  <2>1. /\ low \in Int /\ low <= x /\ low <= y
        /\ high \in Int /\ x <= high /\ y <= high
    BY <1>6, <1>7
  <2> HIDE DEF low, high
  <2> QED
    BY <2>1, WeightedMean
<1> QED
  BY <1>8 DEF Within

SlotInRange(i) ==
    seen[i] # {} =>
        /\ Within(avgValues[i], seen[i])
        /\ avgValues_Old[i] # NoOld => Within(avgValues_Old[i], seen[i])
        /\ avgCounter > 1 => Within(avgValues_Current[i], seen[i])

\* A slot without a reading has fresh values; its value of the day may be a zero
\* that no reading stands for.
SlotInv(i) ==
    /\ SlotInRange(i)
    /\ list[i] = None => seen[i] = {}
    /\ seen[i] = {} => avgValues[i] = 0 /\ avgValues_Current[i] = 0
    /\ list[i] # None /\ seen[i] = {} => avgCounter = 1 /\ avgValues_Old[i] = NoOld
    /\ Within(avgValues_Current[i], seen[i] \cup {0})

RangeInv == ~mixed => \A i \in Slots : SlotInv(i)

LEMMA ZeroWithin ==
  ASSUME NEW R, 0 \in R
  PROVE  Within(0, R)
<1>1. 0 * Scale = 0
  BY Constants
<1>2. Within(0 * Scale, R)
  BY WithinItself
<1> QED
  BY <1>1, <1>2

LEMMA ResetRange ==
  ASSUME Reset
  PROVE  RangeInv'
<1> SUFFICES ASSUME NEW i \in Slots PROVE SlotInv(i)'
  BY DEF RangeInv
<1>1. /\ seen'[i] = {} /\ avgValues'[i] = 0 /\ avgValues_Current'[i] = 0
      /\ avgCounter' = 1 /\ avgValues_Old'[i] = NoOld
  BY DEF Reset, OfAll
<1>2. Within(0, {} \cup {0})
  BY ZeroWithin
<1>3. Within(avgValues_Current[i], seen[i] \cup {0})'
  BY <1>1, <1>2 DEF Within
<1> QED
  BY <1>1, <1>3 DEF SlotInv, SlotInRange

\* Without a reading a minute carries over, or begins the day with a zero.
LEMMA SkippedRange ==
  ASSUME AvgTypes, Histories, NEW i \in Slots, SlotInv(i), list[i] # None,
         seen'[i] = seen[i] \cup (IF Counter = 1 THEN {0} ELSE {}),
         avgValues'[i] = avgValues[i], avgValues_Old'[i] = OldValue(i),
         avgValues_Current'[i] = DayValue(i), avgCounter' = Counter + 1,
         list' = list
  PROVE  SlotInv(i)'
<1>1. CASE Counter = 1
  <2>1. seen'[i] = seen[i] \cup {0} /\ seen'[i] # {}
    BY <1>1
  <2>2. Within(avgValues[i], seen[i] \cup {0})
    BY ZeroWithin, WithinMore DEF SlotInv, SlotInRange
  <2>3. OldValue(i) # NoOld => Within(OldValue(i), seen[i] \cup {0})
    <3>1. CASE DayIsOver
      BY <2>2, <3>1 DEF OldValue
    <3>2. CASE ~DayIsOver
      BY <3>2, WithinMore DEF OldValue, SlotInv, SlotInRange
    <3> QED
      BY <3>1, <3>2
  <2>4. Within(DayValue(i), seen[i] \cup {0})
    BY ZeroWithin DEF DayValue, SlotInv
  <2>5. DayValue(i) \in Int
    BY MinuteValues
  <2>6. /\ Within(avgValues[i], seen[i])'
        /\ (avgValues_Old[i] # NoOld => Within(avgValues_Old[i], seen[i]))'
        /\ Within(avgValues_Current[i], seen[i])'
        /\ Within(avgValues_Current[i], seen[i] \cup {0})'
    <3>1. seen'[i] \cup {0} = seen[i] \cup {0}
      BY <2>1
    <3> QED
      BY <2>1, <2>2, <2>3, <2>4, <3>1 DEF Within
  <2> QED
    BY <2>1, <2>6 DEF SlotInv, SlotInRange
<1>2. CASE Counter # 1
  <2>1. avgCounter > 1 /\ ~DayIsOver /\ Counter = avgCounter
    BY <1>2, Constants DEF Counter, DayIsOver, AvgTypes
  <2>2. /\ seen'[i] = seen[i] /\ avgValues'[i] = avgValues[i]
        /\ avgValues_Old'[i] = avgValues_Old[i]
        /\ avgValues_Current'[i] = avgValues_Current[i]
    BY <1>2, <2>1 DEF OldValue, DayValue
  <2>3. seen[i] # {}
    BY <2>1 DEF SlotInv
  <2>4. /\ Within(avgValues[i], seen[i])'
        /\ (avgValues_Old[i] # NoOld => Within(avgValues_Old[i], seen[i]))'
        /\ Within(avgValues_Current[i], seen[i])'
        /\ Within(avgValues_Current[i], seen[i] \cup {0})'
    BY <2>1, <2>2, <2>3 DEF SlotInv, SlotInRange, Within
  <2> QED
    BY <2>2, <2>3, <2>4 DEF SlotInv, SlotInRange
<1> QED
  BY <1>1, <1>2

\* A reading enters the mean of the day, and with it the average.
LEMMA ReadRange ==
  ASSUME AvgTypes, Histories, NEW i \in Slots, SlotInv(i), list[i] # None,
         NEW r \in Nat, seen'[i] = seen[i] \cup {r},
         avgValues'[i] = Weighed(OldValue(i), Mean(i, r)),
         avgValues_Old'[i] = OldValue(i),
         avgValues_Current'[i] = Mean(i, r), avgCounter' = Counter + 1,
         list' = list
  PROVE  SlotInv(i)'
<1> DEFINE R == seen[i] \cup {r}
<1>1. R \in SUBSET Nat /\ r \in R /\ seen[i] \subseteq R
  BY DEF Histories
<1>2. /\ Counter \in 1..Day /\ OldValue(i) \in Int /\ DayValue(i) \in Int
      /\ Mean(i, r) \in Int
  BY MinuteValues
<1>3. r * Scale \in Int /\ Within(r * Scale, R)
  BY <1>1, WithinItself, Constants
<1>4. Within(Mean(i, r), R)
  <2>1. CASE Counter = 1
    <3>1. DayValue(i) * (Counter - 1) + r * Scale = r * Scale
      BY <1>2, <1>3, <2>1
    <3>2. (r * Scale) \div 1 = r * Scale
      <4> DEFINE z == r * Scale
      <4>1. z \in Int
        BY <1>3
      <4> HIDE DEF z
      <4>2. z \div 1 = z
        BY <4>1
      <4> QED
        BY <4>2 DEF z
    <3> QED
      BY <1>3, <2>1, <3>1, <3>2 DEF Mean
  <2>2. CASE Counter # 1
    <3>1. avgCounter > 1 /\ ~DayIsOver
      BY <2>2, Constants DEF Counter, DayIsOver, AvgTypes
    <3>2. seen[i] # {}
      BY <3>1 DEF SlotInv
    <3>3. Within(avgValues_Current[i], seen[i])
      BY <3>1, <3>2 DEF SlotInv, SlotInRange
    <3>4. Within(DayValue(i), R)
      BY <1>1, <3>1, <3>3, WithinMore DEF DayValue
    <3>5. Counter - 1 \in Nat /\ 1 \in Nat /\ (Counter - 1) + 1 # 0
      BY <1>2
    <3>6. Within((DayValue(i) * (Counter - 1) + (r * Scale) * 1)
                   \div ((Counter - 1) + 1), R)
      <4> DEFINE y == r * Scale
                 n == Counter - 1
                 x == DayValue(i)
      <4>1. x \in Int /\ y \in Int /\ n \in Nat /\ n + 1 # 0
        BY <1>2, <1>3, <3>5
      <4>2. Within(x, R) /\ Within(y, R)
        BY <1>3, <3>4
      <4> HIDE DEF x, y, n, R
      <4>3. R \in SUBSET Nat
        BY <1>1 DEF R
      <4>4. Within((x * n + y * 1) \div (n + 1), R)
        BY <4>1, <4>2, <4>3, MeanWithin
      <4> QED
        BY <4>4 DEF x, y, n
    <3>7. (r * Scale) * 1 = r * Scale /\ (Counter - 1) + 1 = Counter
      BY <1>2, <1>3
    <3> QED
      BY <3>6, <3>7 DEF Mean
  <2> QED
    BY <2>1, <2>2
<1>5. OldValue(i) # NoOld => Within(OldValue(i), R)
  <2>1. CASE DayIsOver
    <3>1. seen[i] # {}
      BY <2>1, Constants DEF DayIsOver, SlotInv
    <3> QED
      BY <1>1, <2>1, <3>1, WithinMore DEF OldValue, SlotInv, SlotInRange
  <2>2. CASE ~DayIsOver
    BY <1>1, <2>2, WithinMore DEF OldValue, SlotInv, SlotInRange
  <2> QED
    BY <2>1, <2>2
<1>6. Within(Weighed(OldValue(i), Mean(i, r)), R)
  <2>1. CASE OldValue(i) = NoOld
    BY <1>4, <2>1 DEF Weighed
  <2>2. CASE OldValue(i) # NoOld
    <3> DEFINE x == OldValue(i)
               y == Mean(i, r)
               n == Day - Counter
    <3>1. x \in Int /\ y \in Int /\ n \in Nat /\ Counter \in Nat /\ n + Counter = Day
      BY <1>2, Constants
    <3>2. Within(x, R) /\ Within(y, R) /\ R \in SUBSET Nat
      BY <1>1, <1>4, <1>5, <2>2
    <3>3. Weighed(x, y) = (x * n + y * Counter) \div Day
      BY <2>2 DEF Weighed
    <3> HIDE DEF x, y, n, R
    <3>4. Within((x * n + y * Counter) \div (n + Counter), R)
      BY <3>1, <3>2, Constants, MeanWithin
    <3>5. Within(Weighed(x, y), R)
      BY <3>1, <3>3, <3>4
    <3> QED
      BY <3>5 DEF x, y
  <2> QED
    BY <2>1, <2>2
<1>7. Within(Mean(i, r), R \cup {0})
  BY <1>4, WithinMore
<1>8. /\ Within(avgValues[i], seen[i])'
      /\ (avgValues_Old[i] # NoOld => Within(avgValues_Old[i], seen[i]))'
      /\ Within(avgValues_Current[i], seen[i])'
      /\ Within(avgValues_Current[i], seen[i] \cup {0})'
  BY <1>4, <1>5, <1>6, <1>7 DEF Within
<1>9. seen'[i] # {}
  OBVIOUS
<1> QED
  BY <1>8, <1>9 DEF SlotInv, SlotInRange

LEMMA MinuteRange ==
  ASSUME TypeOK, RangeInv, Minute
  PROVE  RangeInv'
<1>0. AvgTypes /\ Histories /\ list \in Lists
  BY Types DEF ConfigTypes
<1>1. PICK reading \in [Slots -> UNION {Readings(i) : i \in Slots}] :
        /\ \A i \in Slots : reading[i] \in Readings(i)
        /\ Average(reading)
        /\ Record(reading)
  BY DEF Minute
<1>2. SUFFICES ASSUME ~mixed, NEW i \in Slots PROVE SlotInv(i)'
  BY <1>1 DEF RangeInv, Record
<1>3. SlotInv(i) /\ list' = list
  BY <1>2 DEF RangeInv, Minute, config
<1>4. /\ avgValues_Old'[i] = OldValue(i)
      /\ avgCounter' = Counter + 1
      /\ seen'[i] = IF list[i] = None THEN seen[i]
                    ELSE seen[i] \cup (IF reading[i] # NaN THEN {reading[i]}
                                       ELSE IF Counter = 1 THEN {0} ELSE {})
  BY <1>1 DEF Average, Record
<1>5. CASE list[i] = None
  <2>1. seen[i] = {} /\ avgValues[i] = 0 /\ avgValues_Current[i] = 0
    BY <1>3, <1>5 DEF SlotInv
  <2>2. seen'[i] = {} /\ avgValues'[i] = 0 /\ avgValues_Current'[i] = 0
    BY <1>1, <1>4, <1>5, <2>1 DEF Average, Counted, DayValue
  <2>3. Within(0, {} \cup {0})
    BY ZeroWithin
  <2>4. Within(avgValues_Current[i], seen[i] \cup {0})'
    BY <2>2, <2>3 DEF Within
  <2> QED
    BY <1>3, <1>5, <2>2, <2>4 DEF SlotInv, SlotInRange
<1>6. CASE list[i] # None /\ reading[i] = NaN
  <2>1. avgValues'[i] = avgValues[i] /\ avgValues_Current'[i] = DayValue(i)
    BY <1>1, <1>6 DEF Average, Counted
  <2> QED
    BY <1>0, <1>3, <1>4, <1>6, <2>1, SkippedRange
<1>7. CASE list[i] # None /\ reading[i] # NaN
  <2>1. reading[i] \in Nat
    BY <1>0, <1>1, <1>7, ReadingIsNat
  <2>2. /\ avgValues'[i] = Weighed(OldValue(i), Mean(i, reading[i]))
        /\ avgValues_Current'[i] = Mean(i, reading[i])
    BY <1>1, <1>7 DEF Average, Counted
  <2> QED
    BY <1>0, <1>3, <1>4, <1>7, <2>1, <2>2, ReadRange
<1> QED
  BY <1>5, <1>6, <1>7

LEMMA NewCountRange ==
  ASSUME RangeInv, NewCount, list' = list
  PROVE  RangeInv'
<1> SUFFICES ASSUME ~mixed, NEW i \in Slots PROVE SlotInv(i)'
  BY DEF RangeInv, NewCount
<1>1. SlotInv(i)
  BY DEF RangeInv
<1> QED
  BY <1>1 DEF NewCount, SlotInv, SlotInRange, Within

LEMMA SameRange ==
  ASSUME RangeInv, UNCHANGED <<averages, history, list>>
  PROVE  RangeInv'
  BY DEF RangeInv, SlotInv, SlotInRange, Within, averages, history

LEMMA SaveRange ==
  ASSUME RangeInv, mixed \in BOOLEAN,
         NEW new \in Lists, NEW on, NEW log, SaveConfig(new, on, log)
  PROVE  RangeInv'
<1>1. CASE ListChanged(new)
  BY <1>1, ResetRange DEF SaveConfig
<1>2. CASE ~ListChanged(new) /\ new = list
  <2>1. list = saved.list /\ mixed' = (mixed \/ list # saved.list)
    BY <1>2 DEF SaveConfig, ListChanged
  <2>2. mixed' = mixed
    BY <2>1
  <2>3. UNCHANGED <<averages, history, list>>
    BY <1>2, <2>2 DEF SaveConfig, history
  <2> QED
    BY <2>3, SameRange
<1>3. CASE ~ListChanged(new) /\ new # list
  <2>1. mixed' = TRUE
    BY <1>3 DEF SaveConfig, ListChanged
  <2> QED
    BY <2>1 DEF RangeInv
<1> QED
  BY <1>1, <1>2, <1>3

LEMMA NextRange ==
  ASSUME TypeOK, RangeInv, [Next]_vars
  PROVE  RangeInv'
<1>1. CASE ToAverages \/ NotYet \/ PowerOff \/ UNCHANGED vars
  <2>1. UNCHANGED <<averages, history, list>>
    BY <1>1 DEF ToAverages, NotYet, PowerOff, vars, config
  <2> QED
    BY <2>1, SameRange
<1>2. CASE Minute
  BY <1>2, MinuteRange
<1>3. CASE Off \/ EmptyList
  BY <1>3, NewCountRange DEF Off, EmptyList, config
<1>4. ASSUME NEW on \in BOOLEAN, SetAverages(on) \/ SetLogging(on) PROVE RangeInv'
  <2>1. UNCHANGED <<averages, history, list>>
    BY <1>4 DEF SetAverages, SetLogging
  <2> QED
    BY <2>1, SameRange
<1>5. ASSUME NEW new \in Lists, SetList(new) PROVE RangeInv'
  BY <1>5, ResetRange DEF SetList
<1>6. ASSUME NEW new \in Lists, NEW on \in BOOLEAN, NEW log \in BOOLEAN,
             SaveConfig(new, on, log)
      PROVE  RangeInv'
  BY <1>6, SaveRange DEF TypeOK, Histories
<1>7. ASSUME NEW mounts \in BOOLEAN, Boot(mounts) PROVE RangeInv'
  <2>1. CASE Reset
    BY <2>1, ResetRange
  <2>2. CASE ~Reset
    <3>1. mixed' = TRUE
      BY <1>7, <2>2 DEF Boot, Restore
    <3> QED
      BY <3>1 DEF RangeInv
  <2> QED
    BY <2>1, <2>2
<1> QED
  BY <1>1, <1>2, <1>3, <1>4, <1>5, <1>6, <1>7 DEF Next, Command

LEMMA ValuesInRange == Spec => []RangeInv
<1>1. Init => RangeInv
  <2> SUFFICES ASSUME Init, NEW i \in Slots PROVE SlotInv(i)
    BY DEF RangeInv
  <2>1. /\ seen[i] = {} /\ avgValues[i] = 0 /\ avgValues_Current[i] = 0
        /\ avgCounter = 1 /\ avgValues_Old[i] = NoOld
    BY DEF Init, OfAll
  <2>2. Within(avgValues_Current[i], seen[i] \cup {0})
    BY <2>1, ZeroWithin
  <2> QED
    BY <2>1, <2>2 DEF SlotInv, SlotInRange
<1>2. TypeOK /\ RangeInv /\ [Next]_vars => RangeInv'
  BY NextRange
<1> QED
  BY <1>1, <1>2, TypeCorrect, PTL DEF Spec

\* Every average, that of the day before and that of the day so far lie between
\* readings of the listed parameter since it was listed, over the ends of days,
\* pauses, resets and starts; unless the list was set back to the one in EEPROM
\* without a reset (4287-4297, 7016-7058, 2144-2146).
THEOREM AveragesInRange == Spec => [](~mixed => InRange)
<1>1. RangeInv => (~mixed => InRange)
  BY DEF RangeInv, SlotInv, SlotInRange, InRange
<1> QED
  BY <1>1, ValuesInRange, PTL

-----------------------------------------------------------------------------
(* The mean of a day *)

\* The resolution of the fixed-point values is fine enough for the means of a day.
Exact == \A n \in 1..Day : \E k \in Int : Scale = n * k

LEMMA ExactQuotient ==
  ASSUME NEW n \in Nat \ {0}, NEW z \in Int
  PROVE  (n * z) \div n = z
<1> DEFINE q == (n * z) \div n
<1>1. n * z \in Int /\ z * n = n * z
  OBVIOUS
<1>2. z <= q /\ q <= z
  <2> HIDE DEF q
  <2> DEFINE y == n * z
  <2>1. y \in Int /\ z * n <= y /\ y <= z * n
    BY <1>1
  <2> HIDE DEF y
  <2>2. z <= y \div n /\ y \div n <= z
    BY <2>1, QuotientBounds
  <2> QED
    BY <2>2 DEF q, y
<1>3. q \in Int
  BY <1>1, Quotient
<1> QED
  BY <1>2, <1>3

\* The counter is that of the readings of the day, and what is carried is their
\* mean; a slot that is listed has a reading for every minute.
SlotMean(i) ==
    list[i] # None =>
        /\ avgCounter = today[i].taken + 1
        /\ today[i].skipped = 0 =>
              avgValues_Current[i] * today[i].taken = today[i].sum * Scale

MeanInv == ~mixed => \A i \in Slots : SlotMean(i)

\* Any value is the mean of no readings.
LEMMA NoReadings ==
  ASSUME avgCounter = 1, today = OfAll(NewDay), avgValues_Current \in Values,
         NEW i \in Slots
  PROVE  SlotMean(i)
<1>1. today[i].taken = 0 /\ today[i].sum = 0 /\ today[i].skipped = 0
  BY DEF OfAll, NewDay
<1>2. avgValues_Current[i] * 0 = 0 /\ 0 * Scale = 0
  BY Constants DEF Values
<1> QED
  BY <1>1, <1>2 DEF SlotMean

LEMMA NoReadingsNext ==
  ASSUME avgCounter' = 1, today' = OfAll(NewDay), avgValues_Current' \in Values,
         NEW i \in Slots
  PROVE  SlotMean(i)'
<1>1. today'[i].taken = 0 /\ today'[i].sum = 0 /\ today'[i].skipped = 0
  BY DEF OfAll, NewDay
<1>2. avgValues_Current'[i] * 0 = 0 /\ 0 * Scale = 0
  BY Constants DEF Values
<1> QED
  BY <1>1, <1>2 DEF SlotMean

LEMMA ResetMean ==
  ASSUME Reset
  PROVE  MeanInv'
<1>1. avgValues_Current' \in Values
  BY DEF Reset, OfAll, Values
<1> QED
  BY <1>1, NoReadingsNext DEF Reset, MeanInv

LEMMA NewCountMean ==
  ASSUME AvgTypes, NewCount
  PROVE  MeanInv'
<1>1. avgValues_Current' \in Values
  BY DEF NewCount, AvgTypes
<1> QED
  BY <1>1, NoReadingsNext DEF NewCount, MeanInv

LEMMA SameMean ==
  ASSUME MeanInv, UNCHANGED <<averages, history, list>>
  PROVE  MeanInv'
  BY DEF MeanInv, SlotMean, averages, history

\* The day so far, before a minute: nothing, when another day begins.
LEMMA DaySoFar ==
  ASSUME AvgTypes, Histories, NEW i \in Slots, SlotMean(i), list[i] # None
  PROVE  LET t == Taken(today[i])
         IN  /\ t \in [taken : 0..(Day - 1), sum : Nat, skipped : Nat]
             /\ Counter = t.taken + 1
             /\ t.skipped = 0 => DayValue(i) * t.taken = t.sum * Scale
<1>1. today[i] \in [taken : 0..Day, sum : Nat, skipped : Nat]
  BY DEF Histories
<1>2. avgCounter = today[i].taken + 1
  BY DEF SlotMean
<1>3. CASE today[i].taken = Day
  <2>1. Taken(today[i]) = NewDay /\ DayIsOver
    BY <1>2, <1>3 DEF Taken, DayIsOver
  <2>2. Counter = 1 /\ DayValue(i) = 0
    BY <2>1 DEF Counter, DayValue
  <2>3. NewDay.taken = 0 /\ NewDay.sum = 0
        /\ NewDay \in [taken : 0..(Day - 1), sum : Nat, skipped : Nat]
    BY Constants DEF NewDay
  <2>4. 0 * 0 = 0 * Scale
    BY Constants
  <2> QED
    BY <2>1, <2>2, <2>3, <2>4
<1>4. CASE today[i].taken # Day
  <2>1. Taken(today[i]) = today[i] /\ ~DayIsOver
    BY <1>1, <1>2, <1>4, Constants DEF Taken, DayIsOver
  <2>2. Counter = avgCounter /\ DayValue(i) = avgValues_Current[i]
    BY <2>1 DEF Counter, DayValue
  <2>3. today[i] \in [taken : 0..(Day - 1), sum : Nat, skipped : Nat]
    BY <1>1, <1>4, Constants
  <2> QED
    BY <1>2, <2>1, <2>2, <2>3 DEF SlotMean
<1> QED
  BY <1>3, <1>4

\* The mean with one reading more has no remainder.
LEMMA ReadMean ==
  ASSUME Exact, NEW n \in 1..Day, NEW cur \in Int, NEW sum \in Nat, NEW r \in Nat,
         cur * (n - 1) = sum * Scale
  PROVE  ((cur * (n - 1) + r * Scale) \div n) * n = (sum + r) * Scale
<1>1. PICK k \in Int : Scale = n * k
  BY DEF Exact
<1> DEFINE z == (sum + r) * k
<1>2. cur * (n - 1) + r * Scale = (sum + r) * Scale
  <2>1. (sum + r) * Scale = sum * Scale + r * Scale
    BY Constants
  <2> QED
    BY <2>1
<1>3. (sum + r) * Scale = n * z /\ z \in Int
  <2>1. (sum + r) * (n * k) = n * ((sum + r) * k)
    BY SMT
  <2> QED
    BY <1>1, <2>1
<1>4. (n * z) \div n = z
  <2> HIDE DEF z
  <2> QED
    BY <1>3, ExactQuotient
<1>5. z * n = n * z
  BY <1>3
<1> QED
  BY <1>2, <1>3, <1>4, <1>5

LEMMA MinuteMean ==
  ASSUME Exact, TypeOK, MeanInv, Minute
  PROVE  MeanInv'
<1>0. AvgTypes /\ Histories /\ list \in Lists
  BY Types DEF ConfigTypes
<1>1. PICK reading \in [Slots -> UNION {Readings(i) : i \in Slots}] :
        /\ \A i \in Slots : reading[i] \in Readings(i)
        /\ Average(reading)
        /\ Record(reading)
  BY DEF Minute
<1>2. SUFFICES ASSUME ~mixed, NEW i \in Slots, list[i] # None PROVE SlotMean(i)'
  BY <1>1 DEF MeanInv, Record, SlotMean, Minute, config
<1> DEFINE t == Taken(today[i])
           r == reading[i]
<1>3. /\ t \in [taken : 0..(Day - 1), sum : Nat, skipped : Nat]
      /\ Counter = t.taken + 1
      /\ t.skipped = 0 => DayValue(i) * t.taken = t.sum * Scale
  BY <1>0, <1>2, DaySoFar DEF MeanInv
<1>4. today'[i] = [taken |-> t.taken + 1,
                   sum |-> IF r = NaN THEN t.sum ELSE t.sum + r,
                   skipped |-> IF r = NaN THEN t.skipped + 1 ELSE t.skipped]
  BY <1>1, <1>2 DEF Record
<1>5. avgCounter' = Counter + 1
  BY <1>1 DEF Average
<1> HIDE DEF t
<1>6. avgCounter' = today'[i].taken + 1
  BY <1>3, <1>4, <1>5
<1>7. ASSUME today'[i].skipped = 0
      PROVE  avgValues_Current'[i] * today'[i].taken = today'[i].sum * Scale
  <2>1. r # NaN /\ t.skipped = 0
    BY <1>3, <1>4, <1>7
  <2>2. r \in Nat
    BY <1>0, <1>1, <2>1, ReadingIsNat
  <2>3. avgValues_Current'[i] = (DayValue(i) * (Counter - 1) + r * Scale) \div Counter
    BY <1>1, <1>2, <2>1 DEF Average, Counted, Mean
  <2>4. Counter \in 1..Day /\ DayValue(i) \in Int
    BY <1>0, MinuteValues
  <2>5. DayValue(i) * (Counter - 1) = t.sum * Scale
    <3>1. t.taken = Counter - 1
      BY <1>3
    <3> QED
      BY <1>3, <2>1, <3>1
  <2>6. avgValues_Current'[i] * Counter = (t.sum + r) * Scale
    <3> DEFINE n == Counter
               cur == DayValue(i)
               sum == t.sum
    <3>1. n \in 1..Day /\ cur \in Int /\ sum \in Nat /\ cur * (n - 1) = sum * Scale
      BY <1>3, <2>4, <2>5
    <3>2. avgValues_Current'[i] = (cur * (n - 1) + r * Scale) \div n
      BY <2>3
    <3> HIDE DEF n, cur, sum, r
    <3>3. ((cur * (n - 1) + r * Scale) \div n) * n = (sum + r) * Scale
      BY <2>2, <3>1, ReadMean
    <3>4. avgValues_Current'[i] * n = (sum + r) * Scale
      BY <3>2, <3>3
    <3> QED
      BY <3>4 DEF n, sum
  <2>7. today'[i].taken = Counter /\ today'[i].sum = t.sum + r
    BY <1>3, <1>4, <2>1
  <2> QED
    BY <2>6, <2>7
<1> QED
  BY <1>6, <1>7 DEF SlotMean

LEMMA NextMean ==
  ASSUME Exact, TypeOK, MeanInv, [Next]_vars
  PROVE  MeanInv'
<1>0. AvgTypes /\ mixed \in BOOLEAN
  BY Types DEF Histories
<1>1. CASE ToAverages \/ NotYet \/ PowerOff \/ UNCHANGED vars
  <2>1. UNCHANGED <<averages, history, list>>
    BY <1>1 DEF ToAverages, NotYet, PowerOff, vars, config
  <2> QED
    BY <2>1, SameMean
<1>2. CASE Minute
  BY <1>2, MinuteMean
<1>3. CASE Off \/ EmptyList
  BY <1>0, <1>3, NewCountMean DEF Off, EmptyList
<1>4. ASSUME NEW on \in BOOLEAN, SetAverages(on) \/ SetLogging(on) PROVE MeanInv'
  <2>1. UNCHANGED <<averages, history, list>>
    BY <1>4 DEF SetAverages, SetLogging
  <2> QED
    BY <2>1, SameMean
<1>5. ASSUME NEW new \in Lists, SetList(new) PROVE MeanInv'
  BY <1>5, ResetMean DEF SetList
<1>6. ASSUME NEW new \in Lists, NEW on \in BOOLEAN, NEW log \in BOOLEAN,
             SaveConfig(new, on, log)
      PROVE  MeanInv'
  <2>1. CASE ListChanged(new)
    BY <1>6, <2>1, ResetMean DEF SaveConfig
  <2>2. CASE ~ListChanged(new) /\ new = list
    <3>1. list = saved.list /\ mixed' = (mixed \/ list # saved.list)
      BY <1>6, <2>2 DEF SaveConfig, ListChanged
    <3>2. mixed' = mixed
      BY <1>0, <3>1
    <3>3. UNCHANGED <<averages, history, list>>
      BY <1>6, <2>2, <3>2 DEF SaveConfig, history
    <3> QED
      BY <3>3, SameMean
  <2>3. CASE ~ListChanged(new) /\ new # list
    <3>1. mixed' = TRUE
      BY <1>6, <2>3 DEF SaveConfig, ListChanged
    <3> QED
      BY <3>1 DEF MeanInv
  <2> QED
    BY <2>1, <2>2, <2>3
<1>7. ASSUME NEW mounts \in BOOLEAN, Boot(mounts) PROVE MeanInv'
  <2>1. CASE Reset
    BY <2>1, ResetMean
  <2>2. CASE ~Reset
    <3>1. mixed' = TRUE
      BY <1>7, <2>2 DEF Boot, Restore
    <3> QED
      BY <3>1 DEF MeanInv
  <2> QED
    BY <2>1, <2>2
<1> QED
  BY <1>1, <1>2, <1>3, <1>4, <1>5, <1>6, <1>7 DEF Next, Command

\* What is shown as an average is one: the value of a day is the mean of exactly
\* its readings, as long as none was skipped, and every value lies between
\* readings of the parameter listed now (7016-7058).
THEOREM AveragesAreRight ==
  ASSUME Exact
  PROVE  Spec => []AveragesRight
<1>1. Init => MeanInv
  <2> SUFFICES ASSUME Init, NEW i \in Slots PROVE SlotMean(i)
    BY DEF MeanInv
  <2>1. avgValues_Current \in Values
    BY DEF Init, OfAll, Values
  <2> QED
    BY <2>1, NoReadings DEF Init
<1>2. TypeOK /\ MeanInv /\ [Next]_vars => MeanInv'
  BY NextMean
<1>3. MeanInv /\ (~mixed => InRange) => AveragesRight
  BY DEF MeanInv, SlotMean, MeanOfDay, AveragesRight
<1> QED
  BY <1>1, <1>2, <1>3, TypeCorrect, AveragesInRange, PTL DEF Spec

-----------------------------------------------------------------------------
(* How far a minute moves an average *)

\* A quotient, multiplied again, misses what was divided by less than the divisor.
Near(q, d, z) == q * d <= z /\ z < q * d + d

LEMMA QuotientNear ==
  ASSUME NEW z \in Int, NEW d \in Nat \ {0}
  PROVE  z \div d \in Int /\ Near(z \div d, d, z)
<1> DEFINE q == z \div d
<1>1. q \in Int /\ d * q <= z /\ z < d * (q + 1)
  BY Quotient
<1> HIDE DEF q
<1>2. d * q = q * d /\ d * (q + 1) = q * d + d
  BY <1>1
<1> QED
  BY <1>1, <1>2 DEF q, Near

\* What k minutes of a day change in a weighed sum: the last k shares of the day
\* before give way to k of the day so far, the newest reading among them.
LEMMA ShareBound ==
  ASSUME NEW old \in Int, NEW cur \in Int, NEW read \in Int, NEW k \in Nat \ {0},
         NEW lo \in Int, NEW hi \in Int,
         lo <= old, old <= hi, lo <= read, read <= hi,
         k > 1 => lo <= cur /\ cur <= hi
  PROVE  /\ (k - 1) * (cur - old) + (read - old) <= k * (hi - lo)
         /\ -(k * (hi - lo)) <= (k - 1) * (cur - old) + (read - old)
<1> DEFINE w == hi - lo
           x == cur - old
           j == k - 1
<1>1. w \in Nat /\ x \in Int /\ j \in Nat /\ k = j + 1
  OBVIOUS
<1>2. read - old <= w /\ -w <= read - old
  OBVIOUS
<1>3. k > 1 => x <= w /\ -w <= x
  OBVIOUS
<1> HIDE DEF w, x, j
<1>4. x * j <= w * j /\ (-w) * j <= x * j
  <2>1. CASE k > 1
    BY <1>1, <1>3, <2>1, ProductOrder
  <2>2. CASE k = 1
    <3>1. j = 0
      BY <1>1, <2>2
    <3> QED
      BY <1>1, <3>1
  <2> QED
    BY <2>1, <2>2
<1>5. /\ (-w) * j = -(w * j) /\ j * x = x * j /\ k * w = w * j + w
      /\ x * j \in Int /\ w * j \in Int
  BY <1>1
<1> DEFINE d == read - old
<1>6. d \in Int /\ d <= w /\ -w <= d
  BY <1>2
<1> HIDE DEF d
<1>7. j * x + d <= k * w /\ -(k * w) <= j * x + d
  BY <1>1, <1>4, <1>5, <1>6
<1> QED
  BY <1>7 DEF w, x, j, d

\* The weighed sums of minute n, of minute c, and what the code makes of the
\* latter, whose mean of the day is rounded.
LEMMA SumsDiffer ==
  ASSUME NEW old \in Int, NEW cur \in Int, NEW read \in Int, NEW m \in Int,
         NEW d \in Nat \ {0}, NEW c \in 1..d, NEW n \in 0..(c - 1),
         Near(m, c, cur * (c - 1) + read)
  PROVE  LET before == old * (d - n) + cur * n
             after == old * (d - c) + m * c
             share == (c - n - 1) * (cur - old) + (read - old)
         IN  /\ before \in Int /\ after \in Int /\ share \in Int
             /\ after <= before + share
             /\ before + share < after + c
<1> DEFINE on == old * n
           oc == old * c
           od == old * d
           cn == cur * n
           cc == cur * c
           mc == m * c
<1>1. /\ on \in Int /\ oc \in Int /\ od \in Int /\ cn \in Int /\ cc \in Int /\ mc \in Int
  OBVIOUS
<1>2. old * (d - n) = od - on /\ old * (d - c) = od - oc /\ cur * (c - 1) = cc - cur
  OBVIOUS
<1>3. (c - n - 1) * (cur - old) = cc - oc - cn + on - cur + old
  OBVIOUS
<1>4. mc <= cc - cur + read /\ cc - cur + read < mc + c
  BY <1>2 DEF Near
<1> DEFINE before == old * (d - n) + cur * n
           after == old * (d - c) + m * c
           share == (c - n - 1) * (cur - old) + (read - old)
<1>5. /\ before = od - on + cn /\ after = od - oc + mc
      /\ share = cc - oc - cn + on - cur + old + read - old
  BY <1>1, <1>2, <1>3
<1> HIDE DEF on, oc, od, cn, cc, mc, before, after, share
<1>6. /\ before \in Int /\ after \in Int /\ share \in Int
      /\ after <= before + share /\ before + share < after + c
  BY <1>1, <1>4, <1>5
<1> QED
  BY <1>6 DEF before, after, share

LEMMA DistanceTimes ==
  ASSUME NEW x \in Int, NEW y \in Int, NEW d \in Nat, NEW bound \in Int,
         y * d - x * d <= bound, x * d - y * d <= bound
  PROVE  Distance(x, y) * d <= bound
<1>1. (y - x) * d = y * d - x * d /\ (x - y) * d = x * d - y * d
  OBVIOUS
<1> QED
  BY <1>1 DEF Distance

\* An average moves with what it is divided from, but for the roundings.
LEMMA RoundedMove ==
  ASSUME NEW avg \in Int, NEW new \in Int, NEW d \in Nat \ {0},
         NEW before \in Int, Near(avg, d, before),
         NEW after \in Int, Near(new, d, after),
         NEW share \in Int, after <= before + share, before + share < after + d,
         NEW most \in Nat, share <= most, -most <= share
  PROVE  Distance(avg, new) * d <= most + 2 * d
<1> DEFINE x == avg * d
           y == new * d
<1>1. x \in Int /\ y \in Int /\ x <= before /\ before < x + d /\ y <= after /\ after < y + d
  BY DEF Near
<1> HIDE DEF x, y
<1>2. y - x <= most + 2 * d /\ x - y <= most + 2 * d
  BY <1>1
<1> DEFINE bound == most + 2 * d
<1>3. bound \in Int /\ new * d - avg * d <= bound /\ avg * d - new * d <= bound
  BY <1>2 DEF x, y
<1> HIDE DEF bound
<1>4. Distance(avg, new) * d <= bound
  BY <1>3, DistanceTimes
<1> QED
  BY <1>4 DEF bound

\* From minute n on the readings of slot i were skipped: its average is that of
\* the days before and of minute n.
Since(i, n) ==
    /\ avgCounter - n <= skips[i] + 1
    /\ Near(avgValues[i], Day,
            avgValues_Old[i] * (Day - n) + avgValues_Current[i] * n)

\* Unless so many were skipped that the average may move anywhere, or another day
\* begins.
SlotSlow(i) ==
    list[i] # None /\ avgValues_Old[i] # NoOld =>
        \/ skips[i] = Day
        \/ avgCounter = Day + 1
        \/ \E n \in 0..(avgCounter - 1) : Since(i, n)

SlowInv == ~mixed => \A i \in Slots : SlotSlow(i)

LEMMA ResetSlow ==
  ASSUME Reset
  PROVE  SlowInv'
  BY DEF Reset, OfAll, SlowInv, SlotSlow

LEMMA NewCountSlow ==
  ASSUME NewCount
  PROVE  SlowInv'
  BY DEF NewCount, OfAll, SlowInv, SlotSlow

LEMMA SameSlow ==
  ASSUME SlowInv, UNCHANGED <<averages, history, list>>
  PROVE  SlowInv'
  BY DEF SlowInv, SlotSlow, Since, Near, averages, history

\* The divisions of a minute with a reading.
LEMMA ReadNear ==
  ASSUME AvgTypes, NEW i \in Slots, NEW r \in Nat
  PROVE  LET c == Counter
             m == Mean(i, r)
             x == DayValue(i) * (c - 1) + r * Scale
             old == OldValue(i)
         IN  /\ Near(m, c, x)
             /\ old # NoOld => Near(Weighed(old, m), Day, old * (Day - c) + m * c)
<1> DEFINE c == Counter
           m == Mean(i, r)
           cur == DayValue(i)
           rs == r * Scale
           x == cur * (c - 1) + rs
           old == OldValue(i)
           y == old * (Day - c) + m * c
<1>1. c \in 1..Day /\ old \in Int /\ cur \in Int /\ m \in Int /\ Day \in Nat \ {0}
  BY MinuteValues, Constants
<1>2. rs \in Int
  BY Constants
<1>3. m = x \div c
  BY DEF Mean
<1>4. old # NoOld => Weighed(old, m) = y \div Day
  BY DEF Weighed
<1>5. x \in Int /\ y \in Int
  <2> HIDE DEF c, m, cur, rs, old
  <2> QED
    BY <1>1, <1>2
<1> HIDE DEF c, m, cur, rs, x, old, y
<1>6. Near(x \div c, c, x) /\ Near(y \div Day, Day, y)
  BY <1>1, <1>5, QuotientNear
<1>7. Near(m, c, x) /\ (old # NoOld => Near(Weighed(old, m), Day, y))
  BY <1>3, <1>4, <1>6
<1> QED
  BY <1>7 DEF c, m, cur, rs, x, old, y

LEMMA ReadSlow ==
  ASSUME AvgTypes, NEW i \in Slots, NEW r \in Nat,
         avgValues'[i] = Weighed(OldValue(i), Mean(i, r)),
         avgValues_Old'[i] = OldValue(i),
         avgValues_Current'[i] = Mean(i, r), avgCounter' = Counter + 1,
         skips'[i] = 0
  PROVE  SlotSlow(i)'
<1> SUFFICES ASSUME avgValues_Old'[i] # NoOld
             PROVE  \E n \in 0..(avgCounter' - 1) : Since(i, n)'
  BY DEF SlotSlow
<1>1. Counter \in 1..Day
  BY MinuteValues
<1>2. Near(avgValues'[i], Day,
           avgValues_Old'[i] * (Day - Counter) + avgValues_Current'[i] * Counter)
  BY ReadNear
<1>3. Counter \in 0..(avgCounter' - 1) /\ avgCounter' - Counter <= skips'[i] + 1
  BY <1>1
<1> DEFINE c == Counter
<1>4. /\ c \in 0..(avgCounter' - 1) /\ avgCounter' - c <= skips'[i] + 1
      /\ Near(avgValues'[i], Day,
              avgValues_Old'[i] * (Day - c) + avgValues_Current'[i] * c)
  BY <1>2, <1>3
<1> HIDE DEF c
<1>5. \E n \in 0..(avgCounter' - 1) :
         /\ avgCounter' - n <= skips'[i] + 1
         /\ Near(avgValues'[i], Day,
                 avgValues_Old'[i] * (Day - n) + avgValues_Current'[i] * n)
  BY <1>4
<1> QED
  BY <1>5 DEF Since, Near

LEMMA SkippedSlow ==
  ASSUME AvgTypes, Histories, NEW i \in Slots, SlotSlow(i), list[i] # None,
         avgValues'[i] = avgValues[i], avgValues_Old'[i] = OldValue(i),
         avgValues_Current'[i] = DayValue(i), avgCounter' = Counter + 1,
         skips'[i] = IF skips[i] < Day THEN skips[i] + 1 ELSE Day
  PROVE  SlotSlow(i)'
<1>0. /\ skips[i] \in 0..Day /\ Day \in Nat \ {0} /\ avgCounter \in 1..(Day + 1)
      /\ avgValues[i] \in Int /\ avgValues_Old[i] \in Int /\ avgValues_Current[i] \in Int
  BY Constants DEF Histories, AvgTypes, Values
<1> SUFFICES ASSUME avgValues_Old'[i] # NoOld, skips'[i] # Day
             PROVE  \E n \in 0..(avgCounter' - 1) : Since(i, n)'
  BY DEF SlotSlow
<1>1. skips[i] < Day /\ skips'[i] = skips[i] + 1
  BY <1>0
<1>2. CASE DayIsOver
  <2>1. /\ avgCounter' = 2 /\ avgValues_Old'[i] = avgValues[i]
        /\ avgValues_Current'[i] = 0
    BY <1>2 DEF Counter, OldValue, DayValue
  <2>2. avgValues[i] * (Day - 0) + 0 * 0 = avgValues[i] * Day /\ avgValues[i] * Day \in Int
    BY <1>0
  <2>3. Near(avgValues[i], Day, avgValues[i] * (Day - 0) + 0 * 0)
    BY <1>0, <2>2 DEF Near
  <2>4. Near(avgValues'[i], Day,
             avgValues_Old'[i] * (Day - 0) + avgValues_Current'[i] * 0)
    BY <2>1, <2>3
  <2>5. 0 \in 0..(avgCounter' - 1) /\ avgCounter' - 0 <= skips'[i] + 1
    BY <1>0, <1>1, <2>1
  <2> QED
    BY <2>4, <2>5 DEF Since, Near
<1>3. CASE ~DayIsOver
  <2>1. /\ avgCounter' = avgCounter + 1 /\ avgValues_Old'[i] = avgValues_Old[i]
        /\ avgValues_Current'[i] = avgValues_Current[i] /\ avgCounter # Day + 1
    BY <1>3 DEF Counter, OldValue, DayValue, DayIsOver
  <2>2. PICK n \in 0..(avgCounter - 1) : Since(i, n)
    BY <1>0, <1>1, <2>1 DEF SlotSlow
  <2>3. n \in 0..(avgCounter' - 1) /\ avgCounter' - n <= skips'[i] + 1
    BY <1>0, <1>1, <2>1, <2>2 DEF Since
  <2>4. Near(avgValues'[i], Day,
             avgValues_Old'[i] * (Day - n) + avgValues_Current'[i] * n)
    BY <2>1, <2>2 DEF Since
  <2> QED
    BY <2>3, <2>4 DEF Since, Near
<1> QED
  BY <1>2, <1>3

LEMMA MinuteSlow ==
  ASSUME TypeOK, SlowInv, Minute
  PROVE  SlowInv'
<1>0. AvgTypes /\ Histories /\ list \in Lists
  BY Types DEF ConfigTypes
<1>1. PICK reading \in [Slots -> UNION {Readings(i) : i \in Slots}] :
        /\ \A i \in Slots : reading[i] \in Readings(i)
        /\ Average(reading)
        /\ Record(reading)
  BY DEF Minute
<1>2. SUFFICES ASSUME ~mixed, NEW i \in Slots, list[i] # None PROVE SlotSlow(i)'
  BY <1>1 DEF SlowInv, Record, SlotSlow, Minute, config
<1>3. SlotSlow(i)
  BY <1>2 DEF SlowInv
<1>4. avgValues_Old'[i] = OldValue(i) /\ avgCounter' = Counter + 1
  BY <1>1 DEF Average
<1>5. CASE reading[i] = NaN
  <2>1. /\ avgValues'[i] = avgValues[i] /\ avgValues_Current'[i] = DayValue(i)
        /\ skips'[i] = IF skips[i] < Day THEN skips[i] + 1 ELSE Day
    BY <1>1, <1>2, <1>5 DEF Average, Counted, Record
  <2> QED
    BY <1>0, <1>2, <1>3, <1>4, <2>1, SkippedSlow
<1>6. CASE reading[i] # NaN
  <2>1. reading[i] \in Nat
    BY <1>0, <1>1, <1>6, ReadingIsNat
  <2>2. /\ avgValues'[i] = Weighed(OldValue(i), Mean(i, reading[i]))
        /\ avgValues_Current'[i] = Mean(i, reading[i])
        /\ skips'[i] = 0
    BY <1>1, <1>2, <1>6 DEF Average, Counted, Record
  <2> QED
    BY <1>0, <1>4, <2>1, <2>2, ReadSlow
<1> QED
  BY <1>5, <1>6

LEMMA NextSlow ==
  ASSUME TypeOK, SlowInv, [Next]_vars
  PROVE  SlowInv'
<1>0. mixed \in BOOLEAN
  BY Types DEF Histories
<1>1. CASE ToAverages \/ NotYet \/ PowerOff \/ UNCHANGED vars
  <2>1. UNCHANGED <<averages, history, list>>
    BY <1>1 DEF ToAverages, NotYet, PowerOff, vars, config
  <2> QED
    BY <2>1, SameSlow
<1>2. CASE Minute
  BY <1>2, MinuteSlow
<1>3. CASE Off \/ EmptyList
  BY <1>3, NewCountSlow DEF Off, EmptyList
<1>4. ASSUME NEW on \in BOOLEAN, SetAverages(on) \/ SetLogging(on) PROVE SlowInv'
  <2>1. UNCHANGED <<averages, history, list>>
    BY <1>4 DEF SetAverages, SetLogging
  <2> QED
    BY <2>1, SameSlow
<1>5. ASSUME NEW new \in Lists, SetList(new) PROVE SlowInv'
  BY <1>5, ResetSlow DEF SetList
<1>6. ASSUME NEW new \in Lists, NEW on \in BOOLEAN, NEW log \in BOOLEAN,
             SaveConfig(new, on, log)
      PROVE  SlowInv'
  <2>1. CASE ListChanged(new)
    BY <1>6, <2>1, ResetSlow DEF SaveConfig
  <2>2. CASE ~ListChanged(new) /\ new = list
    <3>1. list = saved.list /\ mixed' = (mixed \/ list # saved.list)
      BY <1>6, <2>2 DEF SaveConfig, ListChanged
    <3>2. mixed' = mixed
      BY <1>0, <3>1
    <3>3. UNCHANGED <<averages, history, list>>
      BY <1>6, <2>2, <3>2 DEF SaveConfig, history
    <3> QED
      BY <3>3, SameSlow
  <2>3. CASE ~ListChanged(new) /\ new # list
    <3>1. mixed' = TRUE
      BY <1>6, <2>3 DEF SaveConfig, ListChanged
    <3> QED
      BY <3>1 DEF SlowInv
  <2> QED
    BY <2>1, <2>2, <2>3
<1>7. ASSUME NEW mounts \in BOOLEAN, Boot(mounts) PROVE SlowInv'
  <2>1. CASE Reset
    BY <2>1, ResetSlow
  <2>2. CASE ~Reset
    <3>1. mixed' = TRUE
      BY <1>7, <2>2 DEF Boot, Restore
    <3> QED
      BY <3>1 DEF SlowInv
  <2> QED
    BY <2>1, <2>2
<1> QED
  BY <1>1, <1>2, <1>3, <1>4, <1>5, <1>6, <1>7 DEF Next, Command

\* Two readings that bound three values.
LEMMA LowestReading ==
  ASSUME NEW x \in Int, NEW y \in Int, NEW z \in Int, NEW R \in SUBSET Nat,
         Within(x, R), Within(y, R), Within(z, R)
  PROVE  \E a \in R : a * Scale <= x /\ a * Scale <= y /\ a * Scale <= z
<1>1. PICK a \in R : a * Scale <= x
  BY DEF Within
<1>2. PICK b \in R : b * Scale <= y
  BY DEF Within
<1>3. PICK c \in R : c * Scale <= z
  BY DEF Within
<1>4. a * Scale \in Int /\ b * Scale \in Int /\ c * Scale \in Int
  BY Constants
<1>5. \/ a * Scale <= b * Scale /\ a * Scale <= c * Scale
      \/ b * Scale <= a * Scale /\ b * Scale <= c * Scale
      \/ c * Scale <= a * Scale /\ c * Scale <= b * Scale
  BY <1>4
<1> QED
  BY <1>1, <1>2, <1>3, <1>4, <1>5

LEMMA HighestReading ==
  ASSUME NEW x \in Int, NEW y \in Int, NEW z \in Int, NEW R \in SUBSET Nat,
         Within(x, R), Within(y, R), Within(z, R)
  PROVE  \E b \in R : x <= b * Scale /\ y <= b * Scale /\ z <= b * Scale
<1>1. PICK a \in R : x <= a * Scale
  BY DEF Within
<1>2. PICK b \in R : y <= b * Scale
  BY DEF Within
<1>3. PICK c \in R : z <= c * Scale
  BY DEF Within
<1>4. a * Scale \in Int /\ b * Scale \in Int /\ c * Scale \in Int
  BY Constants
<1>5. \/ b * Scale <= a * Scale /\ c * Scale <= a * Scale
      \/ a * Scale <= b * Scale /\ c * Scale <= b * Scale
      \/ a * Scale <= c * Scale /\ b * Scale <= c * Scale
  BY <1>4
<1> QED
  BY <1>1, <1>2, <1>3, <1>4, <1>5

\* Readings R explain that a value moves from x to y after s were skipped.
Explained(x, y, s, R) ==
    \E a, b \in R : Distance(x, y) * Day <= (s + 1) * (b - a) * Scale + 2 * Day

LEMMA ExplainedBy ==
  ASSUME NEW x \in Int, NEW y \in Int, NEW s \in Nat, NEW R \in SUBSET Nat,
         NEW a \in R, NEW b \in R, NEW lo, lo = a * Scale, NEW hi, hi = b * Scale,
         Distance(x, y) * Day <= (s + 1) * (hi - lo) + 2 * Day
  PROVE  Explained(x, y, s, R)
<1>1. (s + 1) * (b - a) * Scale = (s + 1) * (b * Scale - a * Scale)
  BY Constants
<1> QED
  BY <1>1 DEF Explained

\* Values within the readings are no further apart than these.
LEMMA ExplainedWithin ==
  ASSUME NEW x \in Int, NEW y \in Int, NEW s \in Nat, Day <= s,
         NEW R \in SUBSET Nat, Within(x, R), Within(y, R)
  PROVE  Explained(x, y, s, R)
<1>1. PICK a \in R : a * Scale <= x /\ a * Scale <= y
  BY LowestReading
<1>2. PICK b \in R : x <= b * Scale /\ y <= b * Scale
  BY HighestReading
<1> DEFINE lo == a * Scale
           hi == b * Scale
           w == hi - lo
           d == Distance(x, y)
<1>3. lo \in Int /\ hi \in Int
  BY Constants
<1>4. lo <= x /\ lo <= y /\ x <= hi /\ y <= hi
  BY <1>1, <1>2
<1> HIDE DEF lo, hi
<1>5. w \in Nat /\ d \in Nat /\ d <= w
  BY <1>3, <1>4 DEF Distance
<1>6. Day \in Nat /\ s + 1 \in Nat /\ Day <= s + 1
  BY Constants
<1> HIDE DEF w, d
<1>7. d * Day <= w * Day
  BY <1>5, <1>6, ProductOrder
<1>8. Day * w <= (s + 1) * w
  BY <1>5, <1>6, ProductOrder
<1>9. d * Day <= (s + 1) * w + 2 * Day
  <2>1. w * Day = Day * w
    BY <1>5, <1>6
  <2>2. d * Day \in Int /\ w * Day \in Int /\ (s + 1) * w \in Int
    BY <1>5, <1>6
  <2> QED
    BY <1>6, <1>7, <1>8, <2>1, <2>2
<1>10. Distance(x, y) * Day <= (s + 1) * (hi - lo) + 2 * Day
  BY <1>9 DEF d, w
<1>11. lo = a * Scale /\ hi = b * Scale
  BY DEF lo, hi
<1> QED
  BY <1>10, <1>11, ExplainedBy

LEMMA ExplainedRead ==
  ASSUME NEW R \in SUBSET Nat, NEW r \in R,
         NEW old \in Int, Within(old, R), NEW cur \in Int, NEW m \in Int,
         NEW c \in 1..Day, NEW n \in 0..(c - 1), c - n > 1 => Within(cur, R),
         NEW avg \in Int, NEW new \in Int, NEW s \in Nat, c - n <= s + 1,
         Near(m, c, cur * (c - 1) + r * Scale),
         Near(avg, Day, old * (Day - n) + cur * n),
         Near(new, Day, old * (Day - c) + m * c)
  PROVE  Explained(avg, new, s, R)
<1> DEFINE read == r * Scale
           third == IF c - n > 1 THEN cur ELSE old
<1>1. read \in Int /\ Within(read, R) /\ third \in Int /\ Within(third, R)
  BY WithinItself, Constants
<1>2. c - n > 1 => third = cur
  OBVIOUS
<1> HIDE DEF third
<1>3. PICK a \in R : a * Scale <= old /\ a * Scale <= read /\ a * Scale <= third
  BY <1>1, LowestReading
<1>4. PICK b \in R : old <= b * Scale /\ read <= b * Scale /\ third <= b * Scale
  BY <1>1, HighestReading
<1> DEFINE lo == a * Scale
           hi == b * Scale
<1>5. lo \in Int /\ hi \in Int
  BY Constants
<1>6. /\ lo <= old /\ old <= hi /\ lo <= read /\ read <= hi
      /\ c - n > 1 => lo <= cur /\ cur <= hi
  BY <1>2, <1>3, <1>4
<1>7. Near(m, c, cur * (c - 1) + read)
  OBVIOUS
<1> HIDE DEF lo, hi, read
<1>8. Day \in Nat \ {0}
  BY Constants
<1> DEFINE before == old * (Day - n) + cur * n
           after == old * (Day - c) + m * c
           share == (c - n - 1) * (cur - old) + (read - old)
           k == c - n
           w == hi - lo
           most == (s + 1) * w
<1>9. Distance(avg, new) * Day <= most + 2 * Day
  <2>1. /\ before \in Int /\ after \in Int /\ share \in Int
        /\ after <= before + share /\ before + share < after + c
    BY <1>1, <1>7, <1>8, SumsDiffer
  <2>2. k \in Nat \ {0} /\ w \in Nat /\ k <= s + 1 /\ c \in Nat /\ c <= Day
    BY <1>5, <1>6, <1>8
  <2>3. share <= k * w /\ -(k * w) <= share
    <3>1. k > 1 => lo <= cur /\ cur <= hi
      BY <1>6
    <3>2. share = (k - 1) * (cur - old) + (read - old)
      OBVIOUS
    <3> HIDE DEF k, share
    <3> QED
      BY <1>1, <1>5, <1>6, <2>2, <3>1, <3>2, ShareBound
  <2>4. Near(avg, Day, before) /\ Near(new, Day, after)
    OBVIOUS
  <2> HIDE DEF before, after, share, w, k
  <2>5. k * w <= (s + 1) * w /\ k * w \in Nat /\ (s + 1) * w \in Nat
    BY <2>2, ProductOrder
  <2>6. most \in Nat /\ share <= most /\ -most <= share
    <3> DEFINE kw == k * w
    <3>1. most \in Nat /\ kw \in Nat /\ kw <= most /\ share <= kw /\ -kw <= share
      BY <2>3, <2>5
    <3> HIDE DEF most, kw
    <3> QED
      BY <2>1, <3>1
  <2> HIDE DEF most
  <2>7. before + share < after + Day
    BY <1>8, <2>1, <2>2
  <2> QED
    BY <1>8, <2>1, <2>4, <2>6, <2>7, RoundedMove
<1>10. lo = a * Scale /\ hi = b * Scale
  BY DEF lo, hi
<1> QED
  BY <1>9, <1>10, ExplainedBy DEF most, w

LEMMA ReadExplained ==
  ASSUME AvgTypes, AvgTypes', Histories, NEW i \in Slots, SlotInv(i), SlotInv(i)', SlotSlow(i),
         list[i] # None, NEW r \in Nat, seen'[i] = seen[i] \cup {r},
         avgValues'[i] = Weighed(OldValue(i), Mean(i, r)),
         avgValues_Old'[i] = OldValue(i), OldValue(i) # NoOld
  PROVE  Explained(avgValues[i], avgValues'[i], skips[i], seen'[i])
<1> DEFINE R == seen'[i]
           x == avgValues[i]
           y == avgValues'[i]
           s == skips[i]
           c == Counter
           m == Mean(i, r)
           cur == DayValue(i)
           old == OldValue(i)
<1>1. R \in SUBSET Nat /\ r \in R /\ seen[i] \subseteq R /\ s \in Nat /\ s <= Day
  BY Constants DEF Histories
<1>2. c \in 1..Day /\ old \in Int /\ cur \in Int /\ m \in Int /\ x \in Int /\ y \in Int
  BY MinuteValues DEF AvgTypes, Values
<1>3. Within(old, R) /\ Within(y, R)
  BY <1>1 DEF SlotInv, SlotInRange, Within
<1>4. seen[i] # {}
  BY Constants DEF SlotInv, OldValue, DayIsOver
<1>5. Within(x, R)
  BY <1>1, <1>4, WithinMore DEF SlotInv, SlotInRange
<1>6. /\ Near(m, c, cur * (c - 1) + r * Scale)
      /\ Near(y, Day, old * (Day - c) + m * c)
  BY ReadNear
<1>7. CASE s = Day
  <2> HIDE DEF R, x, y, s
  <2> QED
    BY <1>1, <1>2, <1>3, <1>5, <1>7, Constants, ExplainedWithin DEF R, x, y, s
<1>8. CASE s # Day
  <2>1. \E n \in 0..(c - 1) : c - n <= s + 1 /\ Near(x, Day, old * (Day - n) + cur * n)
    <3>1. CASE DayIsOver
      <4>1. c = 1 /\ old = x /\ cur = 0
        BY <3>1 DEF Counter, OldValue, DayValue
      <4>2. Near(x, Day, x * (Day - 0) + 0 * 0)
        <5> HIDE DEF x
        <5>1. x * (Day - 0) + 0 * 0 = x * Day /\ x * Day \in Int /\ Day \in Nat \ {0}
          BY <1>2, Constants
        <5> QED
          BY <5>1 DEF Near
      <4>3. 0 \in 0..(c - 1) /\ c - 0 <= s + 1
        BY <1>1, <4>1
      <4> HIDE DEF x, c, old, cur, s
      <4> QED
        BY <4>1, <4>2, <4>3
    <3>2. CASE ~DayIsOver
      <4>1. c = avgCounter /\ old = avgValues_Old[i] /\ cur = avgValues_Current[i]
            /\ avgCounter # Day + 1
        BY <3>2 DEF Counter, OldValue, DayValue, DayIsOver
      <4>2. PICK n \in 0..(avgCounter - 1) : Since(i, n)
        BY <1>8, <4>1 DEF SlotSlow
      <4> QED
        BY <4>1, <4>2 DEF Since
    <3> QED
      BY <3>1, <3>2
  <2>2. PICK n \in 0..(c - 1) : c - n <= s + 1 /\ Near(x, Day, old * (Day - n) + cur * n)
    BY <2>1
  <2>3. c - n > 1 => Within(cur, R)
    <3> SUFFICES ASSUME c - n > 1 PROVE Within(cur, R)
      OBVIOUS
    <3>1. c > 1
      BY <1>2, <2>2
    <3>2. ~DayIsOver /\ avgCounter > 1
      BY <3>1 DEF Counter
    <3>3. cur = avgValues_Current[i] /\ Within(avgValues_Current[i], seen[i])
      BY <1>4, <3>2 DEF DayValue, SlotInv, SlotInRange
    <3> QED
      BY <1>1, <3>3, WithinMore
  <2>4. Explained(x, y, s, R)
    <3> HIDE DEF R, x, y, s, c, m, cur, old
    <3> QED
      BY <1>1, <1>2, <1>3, <1>6, <2>2, <2>3, ExplainedRead
  <2> QED
    BY <2>4
<1> QED
  BY <1>7, <1>8

LEMMA MinuteExplained ==
  ASSUME TypeOK, TypeOK', RangeInv, RangeInv', SlowInv, Minute
  PROVE  SlowChange(2)
<1> SUFFICES ASSUME NEW i \in Slots, ~mixed, seen'[i] # {}, avgValues_Old'[i] # NoOld
             PROVE  Explained(avgValues[i], avgValues'[i], skips[i], seen'[i])
  BY DEF SlowChange, Explained
<1>0. /\ AvgTypes /\ AvgTypes' /\ Histories /\ Histories' /\ list \in Lists
      /\ list' = list
  BY Types DEF ConfigTypes, TypeOK, AvgTypes, Minute, config
<1>1. PICK reading \in [Slots -> UNION {Readings(j) : j \in Slots}] :
        /\ \A j \in Slots : reading[j] \in Readings(j)
        /\ Average(reading)
        /\ Record(reading)
  BY DEF Minute
<1>2. mixed' = mixed
  BY <1>1 DEF Record
<1>3. SlotInv(i) /\ SlotInv(i)' /\ SlotSlow(i)
  BY <1>2 DEF RangeInv, SlowInv
<1>4. list[i] # None
  BY <1>0, <1>3 DEF SlotInv
<1>5. CASE reading[i] = NaN
  <2>1. avgValues'[i] = avgValues[i]
    BY <1>1, <1>5 DEF Average, Counted
  <2>2. PICK a \in seen'[i] : TRUE
    OBVIOUS
  <2>3. /\ a \in Nat /\ skips[i] \in Nat /\ avgValues[i] \in Int
        /\ Day \in Nat /\ Scale \in Nat
    BY <1>0, Constants DEF Histories, AvgTypes, Values
  <2>4. Distance(avgValues[i], avgValues[i]) * Day
          <= (skips[i] + 1) * (a - a) * Scale + 2 * Day
    <3> DEFINE s == skips[i]
               x == avgValues[i]
    <3>1. s \in Nat /\ x \in Int
      BY <2>3
    <3> HIDE DEF s, x
    <3>2. Distance(x, x) = 0 /\ a - a = 0 /\ (s + 1) * 0 = 0 /\ 0 * Scale = 0
          /\ 0 * Day = 0
      BY <2>3, <3>1 DEF Distance
    <3>3. Distance(x, x) * Day <= (s + 1) * (a - a) * Scale + 2 * Day
      BY <2>3, <3>2
    <3> QED
      BY <3>3 DEF s, x
  <2> QED
    BY <2>1, <2>2, <2>4 DEF Explained
<1>6. CASE reading[i] # NaN
  <2>1. reading[i] \in Nat
    BY <1>0, <1>1, <1>6, ReadingIsNat
  <2>2. /\ avgValues'[i] = Weighed(OldValue(i), Mean(i, reading[i]))
        /\ avgValues_Old'[i] = OldValue(i)
        /\ seen'[i] = seen[i] \cup {reading[i]}
    BY <1>1, <1>4, <1>6 DEF Average, Counted, Record
  <2> QED
    BY <1>0, <1>3, <1>4, <2>1, <2>2, ReadExplained
<1> QED
  BY <1>5, <1>6

\* From the second day on a minute moves an average by no more than its share of a
\* day, over the ends of days and pauses, and a skipped reading passes its share on
\* (7016-7022, 7052-7058): for any Scale, but for two units of the fixed-point
\* values, whose divisions are rounded.
THEOREM AveragesMoveSlowly == Spec => [][SlowChange(2)]_vars
<1>1. Init => SlowInv
  BY DEF Init, OfAll, SlowInv, SlotSlow
<1>2. TypeOK /\ SlowInv /\ [Next]_vars => SlowInv'
  BY NextSlow
<1>3. TypeOK /\ TypeOK' /\ RangeInv /\ RangeInv' /\ SlowInv /\ [Next]_vars
        => [SlowChange(2)]_vars
  <2> SUFFICES ASSUME TypeOK, TypeOK', RangeInv, RangeInv', SlowInv, Next
               PROVE  SlowChange(2)
    OBVIOUS
  <2>1. CASE Minute
    BY <2>1, MinuteExplained
  <2>2. CASE minutes' = minutes
    BY <2>2 DEF SlowChange
  <2>3. Minute \/ minutes' = minutes
    BY DEF Next, ToAverages, NotYet, Off, Command, SetAverages, SetLogging, SetList,
           EmptyList, SaveConfig, PowerOff, Boot, Serve, Event
  <2> QED
    BY <2>1, <2>2, <2>3
<1> QED
  BY <1>1, <1>2, <1>3, TypeCorrect, ValuesInRange, PTL DEF Spec
=============================================================================

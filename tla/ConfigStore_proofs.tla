------------------------- MODULE ConfigStore_proofs -------------------------
(***************************************************************************)
(* For any tables of options, sizes, values and firmwares: what start-up      *)
(* reads is what was written, and what was saved is used.                    *)
(***************************************************************************)
EXTENDS ConfigStore, WellFoundedInduction, TLAPS

-----------------------------------------------------------------------------
(* Layouts                                                                   *)

\* A set of positions has a first one.
LEMMA LeastElement ==
    ASSUME NEW T, T \subseteq Nat, T # {}
    PROVE  \E m \in T : \A j \in T : m <= j
<1> DEFINE R == OpToRel(<, Nat)
<1>1. \A a, b \in Nat : <<a, b>> \in R <=> a < b
  BY DEF OpToRel
<1>2. IsWellFoundedOn(R, Nat)
  BY NatLessThanWellFounded
<1> HIDE DEF R
<1>3. \E x \in T : \A y \in T : ~ (<<y, x>> \in R)
  BY <1>2, WFMin, Zenon
<1>4. PICK x \in T : \A y \in T : ~ (<<y, x>> \in R)
  BY <1>3
<1>5. \A y \in T : ~ (y < x)
  BY <1>1, <1>4
<1>6. \A y \in T : x <= y
  BY <1>5
<1> QED
  BY <1>6

LEMMA LayoutTypes ==
    ASSUME NEW f \in Firmwares, NEW v \in Versions
    PROVE  /\ \A o \in 3..(Last + 1) : Start[f][v][o] \in 0..Room
           /\ \A o \in Options :
                 Start[f][v][o + 1] =
                     Start[f][v][o] + IF o \in Known(f, v) THEN Size[f][o] ELSE 0
           /\ \A o \in Options : Size[f][o] \in Nat \ {0}
<1>1. Start[f][v] \in [3..(Last + 1) -> 0..Room]
  BY ConfigAssumption DEF AddressTable
<1>2. \A o \in Options :
         Start[f][v][o + 1] =
             Start[f][v][o] + IF o \in Known(f, v) THEN Size[f][o] ELSE 0
  BY ConfigAssumption DEF AddressTable
<1>3. \A o \in Options : Size[f][o] \in Nat \ {0}
  BY ConfigAssumption
<1> QED
  BY <1>1, <1>2, <1>3

\* A later option starts behind the end of an earlier one.
LEMMA Behind ==
    ASSUME NEW f \in Firmwares, NEW v \in Versions,
           NEW o \in Known(f, v), NEW p \in (o + 1)..(Last + 1)
    PROVE  Start[f][v][o] + Size[f][o] <= Start[f][v][p]
<1> DEFINE at(q) == Start[f][v][q]
           end == at(o) + Size[f][o]
           T == {q \in (o + 1)..(Last + 1) : at(q) < end}
<1>1. o \in Options /\ o \in Nat /\ Last \in Nat /\ 3 <= o /\ o <= Last
  BY ConfigAssumption DEF Known, Options
<1>2. /\ \A q \in 3..(Last + 1) : at(q) \in Nat
      /\ \A q \in Options : Size[f][q] \in Nat
      /\ \A q \in Options :
            at(q + 1) = at(q) + IF q \in Known(f, v) THEN Size[f][q] ELSE 0
  BY LayoutTypes, ConfigAssumption
<1>3. at(o + 1) = end /\ end \in Nat
  BY <1>1, <1>2
<1> HIDE DEF at, end
<1>4. SUFFICES ASSUME T # {} PROVE FALSE
  <2>1. p \in 3..(Last + 1) /\ p \in (o + 1)..(Last + 1)
    BY <1>1
  <2>2. ~ (at(p) < end)
    BY <1>4, <2>1
  <2>3. end <= at(p)
    BY <2>1, <2>2, <1>2, <1>3
  <2> QED
    BY <2>3 DEF at, end
<1>5. T \subseteq Nat
  BY <1>1
<1>6. PICK q \in T : \A j \in T : q <= j
  BY <1>4, <1>5, LeastElement
<1>7. q \in (o + 1)..(Last + 1) /\ at(q) < end
  BY <1>6
<1>8. q # o + 1
  BY <1>7, <1>3
<1>9. q - 1 \in (o + 1)..(Last + 1) /\ q - 1 \in Options /\ q - 1 < q /\ (q - 1) + 1 = q
  BY <1>7, <1>8, <1>1 DEF Options
<1>10. q - 1 \notin T
  BY <1>6, <1>9, <1>5
<1>11. ~ (at(q - 1) < end)
  BY <1>10, <1>9
<1>12. at(q) = at(q - 1) + (IF q - 1 \in Known(f, v) THEN Size[f][q - 1] ELSE 0)
  BY <1>2, <1>9
<1>13. at(q - 1) \in Nat /\ Size[f][q - 1] \in Nat /\ q - 1 \in 3..(Last + 1)
  BY <1>2, <1>9, <1>1
<1>14. at(q - 1) <= at(q) /\ at(q) \in Nat
  BY <1>12, <1>13
<1>15. end <= at(q - 1)
  BY <1>3, <1>11, <1>13
<1> QED
  BY <1>3, <1>7, <1>13, <1>14, <1>15

\* Options do not share bytes, and none lies outside the EEPROM.
LEMMA Disjoint ==
    ASSUME NEW f \in Firmwares, NEW v \in Versions,
           NEW o \in Known(f, v), NEW p \in Known(f, v), o # p
    PROVE  Place(f, v, o) \cap Place(f, v, p) = {}
<1>1. o \in Options /\ p \in Options /\ o \in Nat /\ p \in Nat
  BY ConfigAssumption DEF Known, Options
<1>2. /\ Start[f][v][o] \in Nat /\ Start[f][v][p] \in Nat
      /\ Size[f][o] \in Nat /\ Size[f][p] \in Nat
  <2>1. o \in 3..(Last + 1) /\ p \in 3..(Last + 1) /\ Room \in Nat
    BY <1>1, ConfigAssumption DEF Options
  <2>2. Start[f][v][o] \in 0..Room /\ Start[f][v][p] \in 0..Room
    BY <2>1, LayoutTypes
  <2> QED
    BY <1>1, <2>1, <2>2, LayoutTypes
<1>3. CASE o < p
  <2>1. p \in (o + 1)..(Last + 1)
    BY <1>1, <1>3, ConfigAssumption DEF Options
  <2>2. Start[f][v][o] + Size[f][o] <= Start[f][v][p]
    BY <2>1, Behind
  <2> QED
    BY <1>2, <2>2 DEF Place
<1>4. CASE p < o
  <2>1. o \in (p + 1)..(Last + 1)
    BY <1>1, <1>4, ConfigAssumption DEF Options
  <2>2. Start[f][v][p] + Size[f][p] <= Start[f][v][o]
    BY <2>1, Behind
  <2> QED
    BY <1>2, <2>2 DEF Place
<1> QED
  BY <1>1, <1>3, <1>4

LEMMA PlaceIn ==
    ASSUME NEW f \in Firmwares, NEW v \in Versions, NEW o \in Known(f, v)
    PROVE  /\ Place(f, v, o) \subseteq Cells
           /\ Start[f][v][o] \in Place(f, v, o)
           /\ \A a \in Place(f, v, o) : a - Start[f][v][o] \in Nat
<1>1. o \in Options /\ o \in Nat /\ o + 1 \in (o + 1)..(Last + 1) /\ o \in 3..(Last + 1)
      /\ o + 1 \in 3..(Last + 1)
  BY ConfigAssumption DEF Known, Options
<1>2. /\ Start[f][v][o] \in Nat /\ Start[f][v][o + 1] \in Nat
      /\ Start[f][v][o + 1] <= Room
      /\ Size[f][o] \in Nat \ {0} /\ Room \in Nat
  BY <1>1, LayoutTypes, ConfigAssumption
<1>3. Start[f][v][o] + Size[f][o] <= Start[f][v][o + 1]
  BY <1>1, Behind
<1> QED
  BY <1>2, <1>3 DEF Place, Cells

LEMMA SchemaVersion ==
    ASSUME NEW f \in Firmwares PROVE Schema[f] \in Versions /\ Blank \in Versions
BY ConfigAssumption DEF Versions

\* An erased checksum is none.
LEMMA NoCrcIsNone ==
    ASSUME NEW f, NEW v \in Versions PROVE NoCrc # Crc(f, v)
<1>1. DOMAIN Crc(f, v) = 0..v /\ 0 \in 0..v
  BY ConfigAssumption DEF Crc, Versions
<1>2. DOMAIN NoCrc = {}
  BY DEF NoCrc
<1> QED
  BY <1>1, <1>2

LEMMA ReadType ==
    ASSUME NEW f, NEW v, NEW o PROVE Read(f, v, o) \in Values \cup {Garbage}
BY DEF Read

LEMMA OptionType ==
    ASSUME image \in Images, NEW o PROVE Option(o) \in Values \cup {Garbage}
BY ReadType DEF Option, Images

-----------------------------------------------------------------------------
(* Types                                                                     *)

LEMMA TableType ==
    ASSUME image \in Images
    PROVE  /\ Table \in Firmwares /\ Schema[Table] \in Versions
           /\ image.file \in Values /\ image.use \in {0, 1}
BY SchemaVersion DEF Table, Images

LEMMA WrittenType ==
    ASSUME TypeOK, NEW o \in Known(Table, Schema[Table])
    PROVE  Written(o) \in [Cells -> Byte]
<1> DEFINE at == Start[Table][Schema[Table]][o]
           pl == Place(Table, Schema[Table], o)
<1>1. /\ o \in Options /\ ram[o] \in Values \cup {Garbage}
      /\ \A a \in pl : a - at \in Nat
      /\ cells \in [Cells -> Byte]
  BY TableType, PlaceIn DEF TypeOK, Known
<1>2. Written(o) =
        [a \in Cells |-> IF a \in pl
                         THEN [opt |-> o, byte |-> a - at, val |-> ram[o]]
                         ELSE cells[a]]
  BY DEF Written
<1> HIDE DEF at, pl
<1>3. \A a \in pl : [opt |-> o, byte |-> a - at, val |-> ram[o]] \in Byte
  BY <1>1 DEF Byte
<1> QED
  BY <1>1, <1>2, <1>3

LEMMA InitType == Init => TypeOK
<1> SUFFICES ASSUME Init PROVE TypeOK
  OBVIOUS
<1>1. image.file \in Values /\ image.use \in {0, 1}
  BY TableType DEF Init
<1>2. NoByte \in Byte /\ Blank \in Versions /\ 0 \in 0..(Last + 1) /\ 0 \in 0..MaxFlashes
  BY ConfigAssumption DEF NoByte, Byte, Versions
<1>3. eUse \in Uses /\ UseEEPROM \in Uses /\ phase \in Phases /\ eCrc \in Crcs
  BY <1>1 DEF Init, Uses, Erased, On, Off, Phases, Crcs
<1>4. /\ cells \in [Cells -> Byte]
      /\ ram \in [Options -> Values \cup {Garbage}]
      /\ stored \in [Options -> Values \cup {Garbage}]
  BY <1>1, <1>2 DEF Init
<1> QED
  BY <1>2, <1>3, <1>4 DEF Init, TypeOK

\* The values of the variables as initialised.
LEMMA InitialisedType ==
    ASSUME NEW im \in Images, Initialised(im)
    PROVE  UseEEPROM' \in Uses /\ ram' \in [Options -> Values \cup {Garbage}]
<1>1. im.file \in Values /\ im.use \in {0, 1}
  BY DEF Images
<1> QED
  BY <1>1 DEF Initialised, Uses

LEMMA StepType == TypeOK /\ [Next]_vars => TypeOK'
<1> SUFFICES ASSUME TypeOK, [Next]_vars PROVE TypeOK'
  OBVIOUS
<1> USE DEF TypeOK
<1>1. CASE Boot
  <2>1. ram' \in [Options -> Values \cup {Garbage}]
    BY <1>1, OptionType DEF Boot
  <2>2. FoundUse \in Uses /\ UseEEPROM' \in Uses /\ phase' \in Phases
    BY <1>1 DEF Boot, FoundUse, Uses, On, Off, Phases
  <2>3. next' \in 0..(Last + 1) /\ checked' \in BOOLEAN
    BY <1>1, ConfigAssumption DEF Boot
  <2> QED
    BY <1>1, <2>1, <2>2, <2>3 DEF Boot, eeprom
<1>2. CASE WriteUse
  <2>1. next' \in 0..(Last + 1)
    BY <1>2, ConfigAssumption DEF WriteUse, Writing, CF_USEEEPROM
  <2> QED
    BY <1>2, <2>1 DEF WriteUse, history
<1>3. CASE WriteVersion
  <2>1. next' \in 0..(Last + 1)
    BY <1>3, ConfigAssumption DEF WriteVersion, Writing, CF_VERSION
  <2>2. eVersion' \in Versions /\ intact' \in BOOLEAN
    BY <1>3, TableType DEF WriteVersion
  <2> QED
    BY <1>3, <2>1, <2>2 DEF WriteVersion
<1>4. CASE WriteCrc
  <2>1. next' \in 0..(Last + 1)
    BY <1>4, ConfigAssumption DEF WriteCrc, Writing, CF_CRC32
  <2>2. eCrc' \in Crcs
    BY <1>4, TableType DEF WriteCrc, Crcs
  <2> QED
    BY <1>4, <2>1, <2>2 DEF WriteCrc, history
<1>5. CASE WriteOption
  <2>1. next \in Options /\ next' \in 0..(Last + 1)
    BY <1>5, ConfigAssumption DEF WriteOption, Writing, Options
  <2>2. intact' \in BOOLEAN
    BY <1>5 DEF WriteOption
  <2>3. stored' \in [Options -> Values \cup {Garbage}]
    BY <1>5, <2>1 DEF WriteOption
  <2>4. cells' \in [Cells -> Byte]
    <3>1. CASE next \in Known(Table, Schema[Table])
      <4>1. Written(next) \in [Cells -> Byte]
        BY <3>1, WrittenType DEF TypeOK
      <4> QED
        BY <1>5, <3>1, <4>1 DEF WriteOption
    <3>2. CASE next \notin Known(Table, Schema[Table])
      BY <1>5, <3>2 DEF WriteOption
    <3> QED
      BY <3>1, <3>2
  <2> QED
    BY <1>5, <2>1, <2>2, <2>3, <2>4 DEF WriteOption
<1>6. CASE EndWriting
  <2>1. phase' \in Phases /\ next' \in 0..(Last + 1) /\ intact' \in BOOLEAN
    BY <1>6, ConfigAssumption DEF EndWriting, Phases, HeaderCurrent
  <2>2. saver' = Nobody \/ saver' \in [table : Firmwares, checked : BOOLEAN]
    BY <1>6, TableType DEF EndWriting
  <2> QED
    BY <1>6, <2>1, <2>2 DEF EndWriting, eeprom
<1>7. CASE \E o \in Options, x \in Values : Set(o, x)
  BY <1>7 DEF Set, eeprom, history
<1>8. CASE \E u \in {On, Off} : SetUse(u)
  BY <1>8 DEF SetUse, Uses, eeprom, history
<1>9. CASE Save
  <2>1. phase' \in Phases /\ next' \in 0..(Last + 1)
    BY <1>9, ConfigAssumption DEF Save, Phases
  <2> QED
    BY <1>9, <2>1 DEF Save, eeprom, history
<1>10. CASE Clear
  <2>1. UseEEPROM' \in Uses /\ ram' \in [Options -> Values \cup {Garbage}]
    BY <1>10, InitialisedType DEF Clear
  <2>2. /\ eUse' \in Uses /\ eVersion' \in Versions /\ eCrc' \in Crcs
        /\ phase' \in Phases /\ next' \in 0..(Last + 1)
    BY <1>10, ConfigAssumption DEF Clear, Uses, Erased, Versions, Crcs, Phases
  <2>3. NoByte \in Byte
    BY DEF NoByte, Byte
  <2>4. /\ cells' \in [Cells -> Byte]
        /\ stored' \in [Options -> Values \cup {Garbage}]
    BY <1>10, <2>3 DEF Clear
  <2> QED
    BY <1>10, <2>1, <2>2, <2>4 DEF Clear
<1>11. CASE PowerOff
  <2>1. UseEEPROM' \in Uses /\ ram' \in [Options -> Values \cup {Garbage}]
    BY <1>11, InitialisedType DEF PowerOff
  <2>2. phase' \in Phases /\ next' \in 0..(Last + 1)
    BY <1>11, ConfigAssumption DEF PowerOff, Phases
  <2> QED
    BY <1>11, <2>1, <2>2 DEF PowerOff, eeprom
<1>12. CASE Flash
  <2>1. UseEEPROM' \in Uses /\ ram' \in [Options -> Values \cup {Garbage}]
    BY <1>12, InitialisedType DEF Flash
  <2>2. flashes' \in 0..MaxFlashes
    BY <1>12, ConfigAssumption DEF Flash
  <2> QED
    BY <1>12, <2>1, <2>2 DEF Flash, eeprom
<1>13. CASE UNCHANGED vars
  BY <1>13 DEF vars, eeprom, history
<1> QED
  BY <1>1, <1>2, <1>3, <1>4, <1>5, <1>6, <1>7, <1>8, <1>9, <1>10, <1>11,
     <1>12, <1>13 DEF Next, Write

\* The variables keep their types; the EEPROM holds bytes of options, values
\* and nothing else, whatever is flashed, written and cut off.
THEOREM TypeCorrect == Spec => []TypeOK
<1>1. Init => TypeOK
  BY InitType
<1>2. TypeOK /\ [Next]_vars => TypeOK'
  BY StepType
<1> QED
  BY <1>1, <1>2, PTL DEF Spec

-----------------------------------------------------------------------------
(* The inductive invariant                                                   *)

\* The bytes of a layout are what was last written of its options.
Contents(f, v) == \A o \in Known(f, v) : Read(f, v, o) = stored[o]

\* While the history says so, any firmware that the checksum lets in finds
\* its options.
Agreed ==
    intact => \A g \in Firmwares : eCrc = Crc(g, eVersion) => Contents(g, eVersion)

\* What the loop over the options has done so far.
SoFar ==
    phase \in {"updating", "saving"} =>
        \A f \in Firmwares : Table = f =>
            \A o \in Known(f, Schema[f]) : o < next => Read(f, Schema[f], o) = stored[o]

\* The header is written before the options of an update.
HeaderFirst ==
    phase = "updating" =>
        /\ next > 1 => ~ intact /\ eVersion = Schema[Table]
        /\ next > 2 => eCrc = Crc(Table, Schema[Table])

CheckedIsCurrent == checked /\ phase \in {"running", "saving"} => HeaderCurrent

\* What was saved is there until something else is written.
SavedIsThere ==
    phase \in {"off", "running"} /\ saver.checked =>
        \E f \in Firmwares :
            /\ saver.table = f
            /\ eUse = On /\ eVersion = Schema[f] /\ eCrc = Crc(f, Schema[f])
            /\ Contents(f, Schema[f])

IInv == TypeOK /\ Agreed /\ SoFar /\ HeaderFirst /\ CheckedIsCurrent /\ SavedIsThere

LEMMA ReadSame ==
    ASSUME NEW f, NEW v, NEW o,
           \A a \in Place(f, v, o) : cells'[a] = cells[a]
    PROVE  Read(f, v, o)' = Read(f, v, o)
<1> DEFINE want(a, x) == [opt |-> o, byte |-> a - Start[f][v][o], val |-> x]
           held == {x \in Values : \A a \in Place(f, v, o) : cells[a] = want(a, x)}
           heldn == {x \in Values : \A a \in Place(f, v, o) : cells'[a] = want(a, x)}
<1>1. heldn = held
  <2> HIDE DEF want
  <2>1. \A x \in Values : (\A a \in Place(f, v, o) : cells'[a] = want(a, x))
                             <=> (\A a \in Place(f, v, o) : cells[a] = want(a, x))
    OBVIOUS
  <2>2. \A x : x \in heldn <=> x \in held
    BY <2>1, Zenon
  <2> HIDE DEF held, heldn
  <2> QED
    BY <2>2
<1>2. /\ Read(f, v, o) = IF held = {} THEN Garbage ELSE CHOOSE x \in held : TRUE
      /\ Read(f, v, o)' = IF heldn = {} THEN Garbage ELSE CHOOSE x \in heldn : TRUE
  BY DEF Read, Place
<1> HIDE DEF held, heldn
<1> QED
  BY <1>1, <1>2

\* What was written is read back, and what was garbage stays garbage.
LEMMA ReadWritten ==
    ASSUME TypeOK, NEW f \in Firmwares, f = Table,
           NEW o \in Known(f, Schema[f]), cells' = Written(o)
    PROVE  Read(f, Schema[f], o)' = ram[o]
<1> DEFINE v == Schema[f]
           at == Start[f][v][o]
           pl == Place(f, v, o)
           heldn == {x \in Values : \A a \in pl :
                        cells'[a] = [opt |-> o, byte |-> a - at, val |-> x]}
<1>1. v \in Versions /\ o \in Options /\ ram[o] \in Values \cup {Garbage}
  BY SchemaVersion DEF TypeOK, Known
<1>2. pl \subseteq Cells /\ at \in pl
  BY <1>1, PlaceIn
<1>3. \A a \in pl : cells'[a] = [opt |-> o, byte |-> a - at, val |-> ram[o]]
  BY <1>2 DEF Written
<1>4. Read(f, v, o)' = IF heldn = {} THEN Garbage ELSE CHOOSE x \in heldn : TRUE
  BY DEF Read, Place
<1> HIDE DEF at, pl
<1>5. \A x \in Values :
         (\A a \in pl : cells'[a] = [opt |-> o, byte |-> a - at, val |-> x])
            => x = ram[o]
  <2> SUFFICES ASSUME NEW x \in Values,
                      \A a \in pl : cells'[a] = [opt |-> o, byte |-> a - at, val |-> x]
               PROVE  x = ram[o]
    OBVIOUS
  <2>1. [opt |-> o, byte |-> at - at, val |-> x] = [opt |-> o, byte |-> at - at, val |-> ram[o]]
    BY <1>2, <1>3
  <2>2. [opt |-> o, byte |-> at - at, val |-> x].val
           = [opt |-> o, byte |-> at - at, val |-> ram[o]].val
    BY <2>1
  <2> QED
    BY <2>2
<1>6. CASE ram[o] \in Values
  <2>1. heldn = {ram[o]}
    BY <1>3, <1>5, <1>6
  <2> QED
    BY <1>4, <2>1
<1>7. CASE ram[o] = Garbage
  <2>1. heldn = {}
    BY <1>5, <1>7, ConfigAssumption
  <2> QED
    BY <1>4, <1>7, <2>1
<1> QED
  BY <1>1, <1>6, <1>7

\* ... and the other options keep what they have.
LEMMA OthersKept ==
    ASSUME TypeOK, NEW f \in Firmwares, f = Table,
           NEW o \in Known(f, Schema[f]), cells' = Written(o),
           NEW p \in Known(f, Schema[f]), p # o
    PROVE  Read(f, Schema[f], p)' = Read(f, Schema[f], p)
<1> DEFINE v == Schema[f]
<1>1. v \in Versions
  BY SchemaVersion
<1>2. Place(f, v, p) \subseteq Cells /\ Place(f, v, o) \cap Place(f, v, p) = {}
  BY <1>1, PlaceIn, Disjoint
<1>3. \A a \in Place(f, v, p) : cells'[a] = cells[a]
  BY <1>2 DEF Written
<1> QED
  BY <1>3, ReadSame

\* The checksum tells where the options are.
LEMMA SameLayout ==
    ASSUME NEW f \in Firmwares, NEW g \in Firmwares,
           NEW v \in Versions, NEW w \in Versions, Crc(f, v) = Crc(g, w)
    PROVE  /\ v = w /\ Known(f, v) = Known(g, w)
           /\ \A o \in Known(f, v) : Read(f, v, o) = Read(g, w, o)
<1>1. /\ v = w /\ Known(f, v) = Known(g, v)
      /\ \A o \in Known(f, v) : /\ Start[f][v][o] = Start[g][v][o]
                                /\ Size[f][o] = Size[g][o]
  BY ReleaseAssumption DEF SchemaTells
<1>2. ASSUME NEW o \in Known(f, v) PROVE Read(f, v, o) = Read(g, w, o)
  <2>1. Start[f][v][o] = Start[g][w][o] /\ Size[f][o] = Size[g][o]
    BY <1>1
  <2>2. Place(f, v, o) = Place(g, w, o)
    BY <2>1 DEF Place
  <2> DEFINE Held(start, pl) ==
               {x \in Values : \A a \in pl :
                    cells[a] = [opt |-> o, byte |-> a - start, val |-> x]}
             Found(h) == IF h = {} THEN Garbage ELSE CHOOSE x \in h : TRUE
  <2>3. /\ Read(f, v, o) = Found(Held(Start[f][v][o], Place(f, v, o)))
        /\ Read(g, w, o) = Found(Held(Start[g][w][o], Place(g, w, o)))
    BY DEF Read
  <2> HIDE DEF Held, Found
  <2> QED
    BY <2>1, <2>2, <2>3
<1> QED
  BY <1>1, <1>2

LEMMA SameContents ==
    ASSUME NEW f \in Firmwares, NEW g \in Firmwares,
           NEW v \in Versions, NEW w \in Versions, Crc(f, v) = Crc(g, w),
           Contents(f, v)
    PROVE  Contents(g, w)
BY SameLayout DEF Contents

LEMMA ContentsKept ==
    ASSUME NEW f, NEW v, cells' = cells, stored' = stored
    PROVE  Contents(f, v)' <=> Contents(f, v)
BY DEF Contents, Read, Place

LEMMA InitInv == Init => IInv
<1> SUFFICES ASSUME Init PROVE IInv
  OBVIOUS
<1>1. TypeOK
  BY InitType
<1>2. Agreed
  <2>1. ASSUME NEW g \in Firmwares PROVE eCrc # Crc(g, eVersion)
    BY NoCrcIsNone, <1>1 DEF Init, TypeOK
  <2> QED
    BY <2>1 DEF Agreed
<1>3. phase = "off" /\ checked = FALSE /\ saver = Nobody
  BY DEF Init
<1>4. SoFar /\ HeaderFirst /\ CheckedIsCurrent
  BY <1>3 DEF SoFar, HeaderFirst, CheckedIsCurrent
<1>5. SavedIsThere
  BY <1>3 DEF SavedIsThere, Nobody
<1> QED
  BY <1>1, <1>2, <1>4, <1>5 DEF IInv

LEMMA AgreedKept ==
    ASSUME Agreed, eVersion' = eVersion, eCrc' = eCrc, cells' = cells,
           stored' = stored, intact' = intact
    PROVE  Agreed'
<1>1. ASSUME NEW g \in Firmwares, intact, eCrc = Crc(g, eVersion)
      PROVE  Contents(g, eVersion)'
  <2>1. Contents(g, eVersion)
    BY <1>1 DEF Agreed
  <2>2. \A o : Read(g, eVersion, o)' = Read(g, eVersion, o)
    BY DEF Read, Place
  <2> QED
    BY <2>1, <2>2 DEF Contents, Known
<1> QED
  BY <1>1 DEF Agreed, Crc, Known

LEMMA SavedIsThereKept ==
    ASSUME SavedIsThere, phase \in {"off", "running"}, saver' = saver,
           eUse' = eUse, eVersion' = eVersion, eCrc' = eCrc,
           cells' = cells, stored' = stored
    PROVE  SavedIsThere'
<1>1. CASE saver.checked
  <2>1. PICK f \in Firmwares :
            /\ saver.table = f
            /\ eUse = On /\ eVersion = Schema[f] /\ eCrc = Crc(f, Schema[f])
            /\ Contents(f, Schema[f])
    BY <1>1 DEF SavedIsThere
  <2>2. Contents(f, Schema[f])'
    BY <2>1, ContentsKept
  <2> QED
    BY <2>1, <2>2 DEF SavedIsThere, Crc, Known
<1>2. CASE ~ saver.checked
  BY <1>2 DEF SavedIsThere
<1> QED
  BY <1>1, <1>2

\* Start-up reads only, and what it goes on with is the layout it has checked.
LEMMA BootInv == IInv /\ Boot => /\ Agreed' /\ SoFar' /\ HeaderFirst'
                                 /\ CheckedIsCurrent' /\ SavedIsThere'
<1> SUFFICES ASSUME IInv, Boot
             PROVE  /\ Agreed' /\ SoFar' /\ HeaderFirst'
                    /\ CheckedIsCurrent' /\ SavedIsThere'
  OBVIOUS
<1>1. /\ image' = image /\ eUse' = eUse /\ eVersion' = eVersion /\ eCrc' = eCrc
      /\ cells' = cells /\ stored' = stored /\ intact' = intact /\ saver' = saver
      /\ phase = "off" /\ next' = 0
  BY DEF Boot, eeprom
<1>2. Agreed'
  BY <1>1, AgreedKept DEF IInv
<1>3. SavedIsThere'
  BY <1>1, SavedIsThereKept DEF IInv
<1>4. SoFar'
  <2>1. \A o \in Options : ~ (o < 0)
    BY ConfigAssumption DEF Options
  <2> QED
    BY <1>1, <2>1 DEF SoFar, Known
<1>5. HeaderFirst'
  BY <1>1 DEF HeaderFirst
<1>6. CheckedIsCurrent'
  <2> SUFFICES ASSUME checked', phase' \in {"running", "saving"}
               PROVE  HeaderCurrent'
    BY DEF CheckedIsCurrent
  <2>1. image.use = 1 /\ (FoundUse = On \/ ~ UpToDate)
    BY DEF Boot
  <2>2. UpToDate
    BY <2>1 DEF Boot
  <2>3. FoundVersion = eVersion
    BY <2>1 DEF FoundVersion
  <2>4. eVersion = Schema[Table] /\ eCrc = Crc(Table, Schema[Table])
    BY <2>1, <2>2, <2>3 DEF UpToDate, Reads
  <2> QED
    BY <1>1, <2>4 DEF HeaderCurrent, Table, Crc, Known
<1> QED
  BY <1>2, <1>3, <1>4, <1>5, <1>6

LEMMA SoFarHeader == next' \in 0..3 => SoFar'
<1>1. \A o \in Options : \A n \in 0..3 : ~ (o < n)
  BY ConfigAssumption DEF Options
<1> QED
  BY <1>1 DEF SoFar, Known

LEMMA WriteUseInv == IInv /\ WriteUse => /\ Agreed' /\ SoFar' /\ HeaderFirst'
                                         /\ CheckedIsCurrent' /\ SavedIsThere'
<1> SUFFICES ASSUME IInv, WriteUse
             PROVE  /\ Agreed' /\ SoFar' /\ HeaderFirst'
                    /\ CheckedIsCurrent' /\ SavedIsThere'
  OBVIOUS
<1>1. /\ image' = image /\ eVersion' = eVersion /\ eCrc' = eCrc
      /\ cells' = cells /\ stored' = stored /\ intact' = intact
      /\ checked' = checked /\ phase' = phase /\ phase \in {"updating", "saving"}
      /\ next' = 1
  BY DEF WriteUse, Writing, history, CF_USEEEPROM
<1>2. Agreed'
  BY <1>1, AgreedKept DEF IInv
<1>3. SoFar' /\ HeaderFirst' /\ SavedIsThere'
  BY <1>1, SoFarHeader DEF HeaderFirst, SavedIsThere
<1>4. CheckedIsCurrent'
  BY <1>1 DEF IInv, CheckedIsCurrent, HeaderCurrent, Table, Crc, Known
<1> QED
  BY <1>2, <1>3, <1>4

LEMMA WriteVersionInv == IInv /\ WriteVersion => /\ Agreed' /\ SoFar' /\ HeaderFirst'
                                                 /\ CheckedIsCurrent' /\ SavedIsThere'
<1> SUFFICES ASSUME IInv, WriteVersion
             PROVE  /\ Agreed' /\ SoFar' /\ HeaderFirst'
                    /\ CheckedIsCurrent' /\ SavedIsThere'
  OBVIOUS
<1>1. /\ image' = image /\ eCrc' = eCrc
      /\ cells' = cells /\ stored' = stored /\ checked' = checked
      /\ phase' = phase /\ phase \in {"updating", "saving"}
      /\ next' = 2
  BY DEF WriteVersion, Writing, CF_VERSION
<1>2. SoFar' /\ SavedIsThere'
  BY <1>1, SoFarHeader DEF SavedIsThere
<1>3. CASE phase = "updating"
  <2>1. eVersion' = Schema[Table] /\ intact' = FALSE
    BY <1>3 DEF WriteVersion
  <2> QED
    BY <1>1, <1>2, <1>3, <2>1 DEF Agreed, HeaderFirst, CheckedIsCurrent, Table
<1>4. CASE phase = "saving"
  <2>1. eVersion' = eVersion /\ intact' = intact
    BY <1>4 DEF WriteVersion
  <2>2. Agreed'
    BY <1>1, <2>1, AgreedKept DEF IInv
  <2>3. CheckedIsCurrent'
    BY <1>1, <2>1 DEF IInv, CheckedIsCurrent, HeaderCurrent, Table, Crc, Known
  <2> QED
    BY <1>1, <1>2, <1>4, <2>2, <2>3 DEF HeaderFirst
<1> QED
  BY <1>1, <1>3, <1>4

LEMMA WriteCrcInv == IInv /\ WriteCrc => /\ Agreed' /\ SoFar' /\ HeaderFirst'
                                         /\ CheckedIsCurrent' /\ SavedIsThere'
<1> SUFFICES ASSUME IInv, WriteCrc
             PROVE  /\ Agreed' /\ SoFar' /\ HeaderFirst'
                    /\ CheckedIsCurrent' /\ SavedIsThere'
  OBVIOUS
<1>1. /\ image' = image /\ eVersion' = eVersion
      /\ cells' = cells /\ stored' = stored /\ checked' = checked /\ intact' = intact
      /\ phase' = phase /\ phase \in {"updating", "saving"}
      /\ next = 2 /\ next' = 3
  BY DEF WriteCrc, Writing, CF_CRC32, history
<1>2. SoFar' /\ SavedIsThere'
  BY <1>1, SoFarHeader DEF SavedIsThere
<1>3. CASE phase = "updating"
  <2>1. eCrc' = Crc(Table, Schema[Table])
    BY <1>3 DEF WriteCrc
  <2>2. ~ intact /\ eVersion = Schema[Table]
    BY <1>1, <1>3 DEF IInv, HeaderFirst
  <2>3. HeaderFirst'
    BY <1>1, <2>1, <2>2 DEF HeaderFirst, Table, Crc, Known
  <2> QED
    BY <1>1, <1>2, <1>3, <2>2, <2>3 DEF Agreed, CheckedIsCurrent
<1>4. CASE phase = "saving"
  <2>1. eCrc' = eCrc
    BY <1>4 DEF WriteCrc
  <2>2. Agreed'
    BY <1>1, <2>1, AgreedKept DEF IInv
  <2>3. CheckedIsCurrent'
    BY <1>1, <2>1 DEF IInv, CheckedIsCurrent, HeaderCurrent, Table, Crc, Known
  <2> QED
    BY <1>1, <1>2, <1>4, <2>2, <2>3 DEF HeaderFirst
<1> QED
  BY <1>1, <1>3, <1>4

\* When the header is that of the table in use, what holds for its layout
\* holds for every firmware the checksum lets in.
LEMMA CurrentContents ==
    ASSUME TypeOK, HeaderCurrent, Contents(Table, Schema[Table]),
           NEW g \in Firmwares, eCrc = Crc(g, eVersion)
    PROVE  Contents(g, eVersion)
<1>1. Table \in Firmwares /\ Schema[Table] \in Versions /\ eVersion = Schema[Table]
  BY TableType DEF TypeOK, HeaderCurrent
<1>2. Crc(Table, Schema[Table]) = Crc(g, eVersion)
  BY DEF HeaderCurrent
<1> QED
  BY <1>1, <1>2, SameContents

LEMMA EndWritingInv == IInv /\ EndWriting => /\ Agreed' /\ SoFar' /\ HeaderFirst'
                                             /\ CheckedIsCurrent' /\ SavedIsThere'
<1> SUFFICES ASSUME IInv, EndWriting
             PROVE  /\ Agreed' /\ SoFar' /\ HeaderFirst'
                    /\ CheckedIsCurrent' /\ SavedIsThere'
  OBVIOUS
<1>1. /\ image' = image /\ eUse' = eUse /\ eVersion' = eVersion /\ eCrc' = eCrc
      /\ cells' = cells /\ stored' = stored /\ checked' = checked
      /\ phase \in {"updating", "saving"} /\ next = Last + 1
      /\ phase' = "running" /\ intact' = HeaderCurrent
      /\ saver' = IF eUse = On THEN [table |-> Table, checked |-> checked] ELSE Nobody
  BY DEF EndWriting, Writing, eeprom
<1>2. TypeOK /\ Table \in Firmwares /\ Last \in Nat
  BY TableType, ConfigAssumption DEF IInv, TypeOK
<1>3. Contents(Table, Schema[Table])
  <2>1. \A o \in Known(Table, Schema[Table]) : o < next
    BY <1>1, <1>2, ConfigAssumption DEF Known, Options
  <2> QED
    BY <1>1, <1>2, <2>1 DEF IInv, SoFar, Contents
<1>4. Agreed'
  <2> SUFFICES ASSUME intact', NEW g \in Firmwares, eCrc = Crc(g, eVersion)
               PROVE  Contents(g, eVersion)'
    BY <1>1 DEF Agreed, Crc, Known
  <2>1. Contents(g, eVersion)
    BY <1>1, <1>2, <1>3, CurrentContents
  <2>2. \A o : Read(g, eVersion, o)' = Read(g, eVersion, o)
    BY <1>1 DEF Read, Place
  <2> QED
    BY <1>1, <2>1, <2>2 DEF Contents, Known
<1>5. SoFar' /\ HeaderFirst'
  BY <1>1 DEF SoFar, HeaderFirst
<1>6. checked => HeaderCurrent
  <2>1. CASE phase = "updating"
    BY <1>1, <2>1, ConfigAssumption DEF IInv, HeaderFirst, HeaderCurrent
  <2>2. CASE phase = "saving"
    BY <2>2 DEF IInv, CheckedIsCurrent
  <2> QED
    BY <1>1, <2>1, <2>2
<1>7. CheckedIsCurrent'
  BY <1>1, <1>6 DEF CheckedIsCurrent, HeaderCurrent, Table, Crc, Known
<1>8. SavedIsThere'
  <2> SUFFICES ASSUME saver'.checked
               PROVE  \E f \in Firmwares :
                         /\ saver'.table = f
                         /\ eUse' = On /\ eVersion' = Schema[f]
                         /\ eCrc' = Crc(f, Schema[f])
                         /\ Contents(f, Schema[f])'
    BY DEF SavedIsThere, Crc, Known
  <2>1. eUse = On /\ saver' = [table |-> Table, checked |-> checked]
    BY <1>1 DEF Nobody
  <2>2. checked /\ saver'.table = Table
    BY <2>1
  <2>3. HeaderCurrent
    BY <1>6, <2>2
  <2>4. PICK f \in Firmwares : f = Table
    BY <1>2
  <2>5. Contents(f, Schema[f])'
    BY <1>1, <1>3, <2>4, ContentsKept
  <2> WITNESS f \in Firmwares
  <2> QED
    BY <1>1, <2>1, <2>2, <2>3, <2>4, <2>5 DEF HeaderCurrent
<1> QED
  BY <1>4, <1>5, <1>7, <1>8

LEMMA WriteOptionInv == IInv /\ WriteOption => /\ Agreed' /\ SoFar' /\ HeaderFirst'
                                               /\ CheckedIsCurrent' /\ SavedIsThere'
<1> SUFFICES ASSUME IInv, WriteOption
             PROVE  /\ Agreed' /\ SoFar' /\ HeaderFirst'
                    /\ CheckedIsCurrent' /\ SavedIsThere'
  OBVIOUS
<1>1. /\ image' = image /\ eVersion' = eVersion /\ eCrc' = eCrc
      /\ checked' = checked /\ phase' = phase /\ phase \in {"updating", "saving"}
      /\ next \in Options /\ next' = next + 1
  BY DEF WriteOption, Writing
<1>2. TypeOK /\ Table \in Firmwares
  BY TableType DEF IInv, TypeOK
<1>3. next \in Nat /\ next > 2
  BY <1>1, ConfigAssumption DEF Options
<1>4. intact' => intact /\ (next \in Known(Table, Schema[Table]) => HeaderCurrent)
  BY DEF WriteOption
<1>5. HeaderFirst'
  BY <1>1, <1>3, <1>4 DEF IInv, HeaderFirst, Table, Crc, Known
<1>6. CheckedIsCurrent'
  BY <1>1 DEF IInv, CheckedIsCurrent, HeaderCurrent, Table, Crc, Known
<1>7. SavedIsThere'
  BY <1>1 DEF SavedIsThere
<1>8. PICK f \in Firmwares : f = Table
  BY <1>2
<1> SUFFICES ASSUME NEW n \in Options, n = next
             PROVE  Agreed' /\ SoFar'
  BY <1>1, <1>5, <1>6, <1>7
<1>9. CASE n \in Known(f, Schema[f])
  <2>1. /\ cells' = Written(n)
        /\ stored' = [stored EXCEPT ![n] = ram[n]]
    BY <1>8, <1>9 DEF WriteOption
  <2>2. stored'[n] = ram[n] /\ \A o \in Options : o # n => stored'[o] = stored[o]
    BY <1>1, <1>2, <2>1 DEF TypeOK
  <2>3. Read(f, Schema[f], n)' = ram[n]
    BY <1>2, <1>8, <1>9, <2>1, ReadWritten
  <2>4. \A o \in Known(f, Schema[f]) :
           o # n => Read(f, Schema[f], o)' = Read(f, Schema[f], o)
    BY <1>2, <1>8, <1>9, <2>1, OthersKept
  <2>5. ASSUME NEW o \in Known(f, Schema[f]),
               o # n => Read(f, Schema[f], o) = stored[o]
        PROVE  Read(f, Schema[f], o)' = stored'[o]
    <3>1. o \in Options
      BY DEF Known
    <3>2. CASE o = n
      BY <2>2, <2>3, <3>2
    <3>3. CASE o # n
      BY <2>2, <2>4, <2>5, <3>1, <3>3
    <3> QED
      BY <3>2, <3>3
  <2>6. SoFar'
    <3>1. \A o \in Known(f, Schema[f]) : o < next => Read(f, Schema[f], o) = stored[o]
      BY <1>1, <1>8 DEF IInv, SoFar
    <3>2. \A o \in Known(f, Schema[f]) : o < next + 1 => o < next \/ o = n
      BY <1>3, ConfigAssumption DEF Known, Options
    <3>3. \A o \in Known(f, Schema[f]) : o < next + 1 => Read(f, Schema[f], o)' = stored'[o]
      BY <3>1, <3>2, <2>5
    <3>4. Table' = f
      BY <1>1, <1>8 DEF Table
    <3> QED
      BY <1>1, <3>3, <3>4 DEF SoFar, Known
  <2>7. Agreed'
    <3> SUFFICES ASSUME intact', NEW g \in Firmwares, eCrc = Crc(g, eVersion)
                 PROVE  Contents(g, eVersion)'
      BY <1>1 DEF Agreed, Crc, Known
    <3>1. intact /\ HeaderCurrent
      BY <1>4, <1>8, <1>9
    <3>2. /\ eVersion = Schema[f] /\ eVersion \in Versions
          /\ Crc(f, Schema[f]) = Crc(g, eVersion)
      BY <1>8, <3>1, SchemaVersion DEF HeaderCurrent
    <3>3. Contents(f, Schema[f])
      BY <1>8, <3>1, <3>2 DEF IInv, Agreed
    <3>4. Contents(f, Schema[f])'
      BY <3>3, <2>5 DEF Contents, Known
    <3>5. /\ Known(f, Schema[f]) = Known(g, Schema[f])
          /\ \A o \in Known(f, Schema[f]) :
                /\ Start[f][Schema[f]][o] = Start[g][Schema[f]][o]
                /\ Size[f][o] = Size[g][o]
      BY <3>2, ReleaseAssumption DEF SchemaTells
    <3>6. ASSUME NEW o \in Known(f, Schema[f])
          PROVE  Read(f, Schema[f], o)' = Read(g, Schema[f], o)'
      <4>1. Place(f, Schema[f], o) = Place(g, Schema[f], o)
        BY <3>5 DEF Place
      <4> DEFINE Held(start, pl) ==
                   {x \in Values : \A a \in pl :
                        cells'[a] = [opt |-> o, byte |-> a - start, val |-> x]}
                 Found(h) == IF h = {} THEN Garbage ELSE CHOOSE x \in h : TRUE
      <4>2. /\ Read(f, Schema[f], o)' = Found(Held(Start[f][Schema[f]][o], Place(f, Schema[f], o)))
            /\ Read(g, Schema[f], o)' = Found(Held(Start[g][Schema[f]][o], Place(g, Schema[f], o)))
        BY DEF Read, Place
      <4> HIDE DEF Held, Found
      <4> QED
        BY <3>5, <4>1, <4>2
    <3>7. Contents(g, Schema[f])'
      BY <3>4, <3>5, <3>6 DEF Contents, Known
    <3>8. \A o : Read(g, eVersion, o)' = Read(g, Schema[f], o)'
      BY <1>1, <3>2 DEF Read, Place
    <3> QED
      BY <1>1, <3>2, <3>7, <3>8 DEF Contents, Known
  <2> QED
    BY <2>6, <2>7
<1>10. CASE n \notin Known(f, Schema[f])
  <2>1. cells' = cells /\ stored' = stored /\ intact' = intact
    BY <1>8, <1>10 DEF WriteOption
  <2>2. Agreed'
    BY <1>1, <2>1, AgreedKept DEF IInv
  <2>3. SoFar'
    <3>1. \A o \in Known(f, Schema[f]) : o < next => Read(f, Schema[f], o) = stored[o]
      BY <1>1, <1>8 DEF IInv, SoFar
    <3>2. \A o \in Known(f, Schema[f]) : o < next + 1 => o < next
      BY <1>3, <1>8, <1>10, ConfigAssumption DEF Known, Options
    <3>3. \A o : Read(f, Schema[f], o)' = Read(f, Schema[f], o)
      BY <2>1 DEF Read, Place
    <3>4. Table' = f
      BY <1>1, <1>8 DEF Table
    <3> QED
      BY <1>1, <2>1, <3>1, <3>2, <3>3, <3>4 DEF SoFar, Known
  <2> QED
    BY <2>2, <2>3
<1> QED
  BY <1>9, <1>10

\* Steps that leave the EEPROM and its history alone, and end no run.
LEMMA QuietInv ==
    ASSUME IInv, UNCHANGED <<image, eeprom, stored, intact, checked, saver>>,
           phase = "running", phase' \in {"running", "saving"}, next' = 0
    PROVE  Agreed' /\ SoFar' /\ HeaderFirst' /\ CheckedIsCurrent' /\ SavedIsThere'
<1>1. Agreed'
  BY AgreedKept DEF IInv, eeprom
<1>2. SoFar' /\ HeaderFirst'
  BY SoFarHeader DEF HeaderFirst
<1>3. CheckedIsCurrent'
  BY DEF IInv, CheckedIsCurrent, HeaderCurrent, Table, Crc, Known, eeprom
<1>4. SavedIsThere'
  BY SavedIsThereKept DEF IInv, eeprom
<1> QED
  BY <1>1, <1>2, <1>3, <1>4

LEMMA ClearInv == IInv /\ Clear => /\ Agreed' /\ SoFar' /\ HeaderFirst'
                                   /\ CheckedIsCurrent' /\ SavedIsThere'
<1> SUFFICES ASSUME IInv, Clear
             PROVE  /\ Agreed' /\ SoFar' /\ HeaderFirst'
                    /\ CheckedIsCurrent' /\ SavedIsThere'
  OBVIOUS
<1>1. /\ eVersion' = Blank /\ eCrc' = NoCrc /\ phase' = "off"
      /\ checked' = FALSE /\ saver' = Nobody
  BY DEF Clear
<1>2. Agreed'
  <2>1. \A g \in Firmwares : NoCrc # Crc(g, Blank)
    BY NoCrcIsNone, ConfigAssumption DEF Versions
  <2> QED
    BY <1>1, <2>1 DEF Agreed, Crc, Known
<1> QED
  BY <1>1, <1>2 DEF SoFar, HeaderFirst, CheckedIsCurrent, SavedIsThere, Nobody

LEMMA PowerOffInv == IInv /\ PowerOff => /\ Agreed' /\ SoFar' /\ HeaderFirst'
                                         /\ CheckedIsCurrent' /\ SavedIsThere'
<1> SUFFICES ASSUME IInv, PowerOff
             PROVE  /\ Agreed' /\ SoFar' /\ HeaderFirst'
                    /\ CheckedIsCurrent' /\ SavedIsThere'
  OBVIOUS
<1>1. /\ eUse' = eUse /\ eVersion' = eVersion /\ eCrc' = eCrc /\ cells' = cells
      /\ stored' = stored /\ intact' = intact /\ phase' = "off" /\ checked' = FALSE
  BY DEF PowerOff, eeprom
<1>2. Agreed'
  BY <1>1, AgreedKept DEF IInv
<1>3. SavedIsThere'
  <2>1. CASE phase = "running"
    BY <1>1, <2>1, SavedIsThereKept DEF PowerOff, IInv
  <2>2. CASE phase # "running"
    BY <2>2 DEF PowerOff, SavedIsThere, Nobody
  <2> QED
    BY <2>1, <2>2
<1> QED
  BY <1>1, <1>2, <1>3 DEF SoFar, HeaderFirst, CheckedIsCurrent

LEMMA FlashInv == IInv /\ Flash => /\ Agreed' /\ SoFar' /\ HeaderFirst'
                                   /\ CheckedIsCurrent' /\ SavedIsThere'
<1> SUFFICES ASSUME IInv, Flash
             PROVE  /\ Agreed' /\ SoFar' /\ HeaderFirst'
                    /\ CheckedIsCurrent' /\ SavedIsThere'
  OBVIOUS
<1>1. /\ eUse' = eUse /\ eVersion' = eVersion /\ eCrc' = eCrc /\ cells' = cells
      /\ stored' = stored /\ intact' = intact /\ phase = "off" /\ phase' = phase
      /\ saver' = saver
  BY DEF Flash, eeprom
<1>2. Agreed'
  BY <1>1, AgreedKept DEF IInv
<1>3. SavedIsThere'
  BY <1>1, SavedIsThereKept DEF IInv
<1> QED
  BY <1>1, <1>2, <1>3 DEF SoFar, HeaderFirst, CheckedIsCurrent

LEMMA StutterInv == IInv /\ UNCHANGED vars => /\ Agreed' /\ SoFar' /\ HeaderFirst'
                                              /\ CheckedIsCurrent' /\ SavedIsThere'
<1> SUFFICES ASSUME IInv, UNCHANGED vars
             PROVE  /\ Agreed' /\ SoFar' /\ HeaderFirst'
                    /\ CheckedIsCurrent' /\ SavedIsThere'
  OBVIOUS
<1>1. /\ image' = image /\ eUse' = eUse /\ eVersion' = eVersion /\ eCrc' = eCrc
      /\ cells' = cells /\ stored' = stored /\ intact' = intact /\ phase' = phase
      /\ next' = next /\ checked' = checked /\ saver' = saver
  BY DEF vars, eeprom, history
<1>2. Agreed'
  BY <1>1, AgreedKept DEF IInv
<1>3. SoFar'
  <2>1. \A f, v, o : Read(f, v, o)' = Read(f, v, o)
    BY <1>1 DEF Read, Place
  <2> QED
    BY <1>1, <2>1 DEF IInv, SoFar, Known, Table
<1>4. HeaderFirst' /\ CheckedIsCurrent'
  BY <1>1 DEF IInv, HeaderFirst, CheckedIsCurrent, HeaderCurrent, Table, Crc, Known
<1>5. SavedIsThere'
  <2>1. CASE phase \in {"off", "running"}
    BY <1>1, <2>1, SavedIsThereKept DEF IInv
  <2>2. CASE phase \notin {"off", "running"}
    BY <1>1, <2>2 DEF SavedIsThere
  <2> QED
    BY <2>1, <2>2
<1> QED
  BY <1>2, <1>3, <1>4, <1>5

LEMMA StepInv == IInv /\ [Next]_vars => IInv'
<1> SUFFICES ASSUME IInv, [Next]_vars
             PROVE  Agreed' /\ SoFar' /\ HeaderFirst' /\ CheckedIsCurrent' /\ SavedIsThere'
  BY StepType DEF IInv
<1>1. CASE Boot
  BY <1>1, BootInv
<1>2. CASE Write
  BY <1>2, WriteUseInv, WriteVersionInv, WriteCrcInv, WriteOptionInv, EndWritingInv
     DEF Write
<1>3. CASE \/ \E o \in Options, x \in Values : Set(o, x)
           \/ \E u \in {On, Off} : SetUse(u)
  <2>1. /\ UNCHANGED <<image, eeprom, stored, intact, checked, saver>>
        /\ phase = "running" /\ phase' = "running" /\ next' = next
    BY <1>3 DEF Set, SetUse, history
  <2>2. Agreed'
    BY <2>1, AgreedKept DEF IInv, eeprom
  <2>3. SavedIsThere'
    BY <2>1, SavedIsThereKept DEF IInv, eeprom
  <2>4. CheckedIsCurrent'
    BY <2>1 DEF IInv, CheckedIsCurrent, HeaderCurrent, Table, Crc, Known, eeprom
  <2> QED
    BY <2>1, <2>2, <2>3, <2>4 DEF SoFar, HeaderFirst
<1>4. CASE Save
  <2>1. /\ UNCHANGED <<image, eeprom, stored, intact, checked, saver>>
        /\ phase = "running" /\ phase' \in {"running", "saving"} /\ next' = 0
    BY <1>4 DEF Save, history
  <2> QED
    BY <2>1, QuietInv
<1>5. CASE Clear
  BY <1>5, ClearInv
<1>6. CASE PowerOff
  BY <1>6, PowerOffInv
<1>7. CASE Flash
  BY <1>7, FlashInv
<1>8. CASE UNCHANGED vars
  BY <1>8, StutterInv
<1> QED
  BY <1>1, <1>2, <1>3, <1>4, <1>5, <1>6, <1>7, <1>8 DEF Next

LEMMA ReadsFound ==
    ASSUME Reads
    PROVE  FoundUse = eUse /\ FoundVersion = eVersion /\ eUse = On
           /\ eCrc = Crc(Table, eVersion)
<1>1. image.use # 0
  BY DEF Reads, FoundUse, On
<1> QED
  BY <1>1 DEF Reads, FoundUse, FoundVersion

\* Start-up reads what was last written of each option, for all tables and
\* sizes of options, as long as no update of the schema was cut off.
THEOREM ReadsBackCorrect == Spec => []ReadsBack
<1>1. Init => IInv
  BY InitInv
<1>2. IInv /\ [Next]_vars => IInv'
  BY StepInv
<1>3. IInv => ReadsBack
  <2> SUFFICES ASSUME IInv, intact, Reads, NEW o \in Known(Table, FoundVersion)
               PROVE  Option(o) = stored[o]
    BY DEF ReadsBack
  <2>1. FoundVersion = eVersion /\ eCrc = Crc(Table, eVersion)
    BY ReadsFound
  <2>2. Contents(Table, eVersion)
    BY <2>1, TableType DEF IInv, TypeOK, Agreed
  <2> QED
    BY <2>1, <2>2 DEF Contents, Option
<1> QED
  BY <1>1, <1>2, <1>3, PTL DEF Spec

\* What was saved by an image with UseEEPROM 1 is found again at its next
\* start, whatever other images and power failures come in between.
THEOREM SavedCorrect == Spec => []SavedIsUsed
<1>1. Init => IInv
  BY InitInv
<1>2. IInv /\ [Next]_vars => IInv'
  BY StepInv
<1>3. IInv => SavedIsUsed
  <2> SUFFICES ASSUME IInv, phase = "off", saver.table = Table, saver.checked,
                      image.use = 1, NEW o \in Known(Table, Schema[Table])
               PROVE  Reads /\ Option(o) = stored[o]
    BY DEF SavedIsUsed
  <2>1. /\ eUse = On /\ eVersion = Schema[Table] /\ eCrc = Crc(Table, Schema[Table])
        /\ Contents(Table, Schema[Table])
    BY DEF IInv, SavedIsThere
  <2>2. FoundUse = eUse /\ FoundVersion = eVersion
    BY DEF FoundUse, FoundVersion
  <2>3. Reads
    BY <2>1, <2>2 DEF Reads
  <2> QED
    BY <2>1, <2>2, <2>3 DEF Contents, Option
<1> QED
  BY <1>1, <1>2, <1>3, PTL DEF Spec

=============================================================================

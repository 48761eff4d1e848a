----------------------------- MODULE ConfigStore -----------------------------
(***************************************************************************)
(* The configuration in EEPROM: start-up, change of its layout, saving,      *)
(* erasing, new firmware, and power failures between any two options that    *)
(* are written (BSB_LAN.ino, BSB_LAN_EEPROMconfig.h, include/eeprom_io.h).   *)
(*                                                                         *)
(* Options are numbers in the order of cf_params.  The three of the header   *)
(* have addresses that never change; the others move when the table config[] *)
(* of another firmware has other options or sizes before them.  The writing  *)
(* of one option is one step: EEPROM.commit() stores all its bytes or none.  *)
(*                                                                         *)
(* FaultX are mutated forms of X, used by no specification: they show that  *)
(* the properties can fail.                                                *)
(***************************************************************************)
EXTENDS Integers

CONSTANTS
    Firmwares,    \* builds: each has a table config[]
    NoTable,      \* none of them
    Last,         \* CF_LAST_OPTION - 1
    Version,      \* Version[f][o]: version of option o in the table of f, 0 if not in it
    Size,         \* Size[f][o]: its length in bytes
    Start,        \* Start[f][v][o]: its address once initConfigTable(v) has run
    Schema,       \* Schema[f]: the highest version of the table, maxconfversion
    Blank,        \* version found in an erased EEPROM, above any other; 254
    Room,         \* bytes of the EEPROM behind the header
    Values,       \* what an option can be set to
    Garbage,      \* what it is after bytes of others were read into it
    MaxFlashes    \* bound on new images

CF_USEEEPROM == 0
CF_VERSION == 1
CF_CRC32 == 2
Options == 3..Last
Versions == 0..Blank

\* UseEEPROM: 0 and 1 are what BSB_LAN_config.h may say, On and Off the magic
\* bytes 0x96 and 0x69, Erased an erased byte.
On == 150
Off == 105
Erased == 255
Uses == {0, 1, On, Off, Erased}

\* The options of the table that a version knows.
Known(f, v) == {o \in Options : Version[f][o] \in 1..v}

\* initConfigTable(): options lie one behind the other, as far as they are
\* known to the version.
AddressTable ==
    \A f \in Firmwares, v \in Versions :
        /\ Start[f][v] \in [3..(Last + 1) -> 0..Room]
        /\ Start[f][v][3] = 0
        /\ \A o \in Options :
              Start[f][v][o + 1] =
                  Start[f][v][o] + IF o \in Known(f, v) THEN Size[f][o] ELSE 0

\* The checksum runs over the addresses of the options of each version in
\* turn; it is taken to be different for different addresses.
Crc(f, v) == [w \in 0..v |-> {Start[f][w][o] : o \in Known(f, w)}]

\* What the checksum is there for: builds with the same addresses have the
\* same options there.
SchemaTells ==
    \A f, g \in Firmwares : \A v, w \in Versions :
        Crc(f, v) = Crc(g, w) =>
            /\ v = w /\ Known(f, v) = Known(g, v)
            /\ \A o \in Known(f, v) : /\ Start[f][v][o] = Start[g][v][o]
                                      /\ Size[f][o] = Size[g][o]

ASSUME ConfigAssumption ==
    /\ Last \in Nat \ 0..2 /\ Room \in Nat /\ Blank \in Nat /\ MaxFlashes \in Nat
    /\ Version \in [Firmwares -> [Options -> 0..(Blank - 1)]]
    /\ Size \in [Firmwares -> [Options -> Nat \ {0}]]
    /\ Schema \in [Firmwares -> 1..(Blank - 1)]
    /\ \A f \in Firmwares, o \in Options : Version[f][o] <= Schema[f]
    /\ Garbage \notin Values /\ NoTable \notin Firmwares
    /\ AddressTable

ASSUME ReleaseAssumption == SchemaTells

Cells == 0..(Room - 1)
NoByte == [opt |-> 0, byte |-> 0, val |-> Garbage]
Byte == [opt : {0} \cup Options, byte : Nat, val : Values \cup {Garbage}]
NoCrc == <<>>
Crcs == {NoCrc} \cup {Crc(f, Schema[f]) : f \in Firmwares}

\* firmware, UseEEPROM and the values of the options in BSB_LAN_config.h
Images == [table : Firmwares, use : {0, 1}, file : Values]

Phases == {"off", "updating", "running", "saving"}

VARIABLES
    image,        \* the image in flash
    eUse, eVersion, eCrc, cells,      \* the EEPROM
    phase, next,  \* what the program is at; the next option it writes
    UseEEPROM, ram,
    flashes,      \* history: number of images flashed
    stored,       \* history: the value last written of each option
    intact,       \* history: header and options in the EEPROM agree
    checked,      \* history: start-up compared or renewed the checksum
    saver         \* history: the table that saved everything, and if checked

eeprom == <<eUse, eVersion, eCrc, cells>>
history == <<flashes, stored, intact, checked, saver>>
vars == <<image, eeprom, phase, next, UseEEPROM, ram, history>>

Nobody == [table |-> NoTable, checked |-> FALSE]

Init ==
    /\ image \in Images
    /\ eUse = Erased /\ eVersion = Blank /\ eCrc = NoCrc
    /\ cells = [a \in Cells |-> NoByte]
    /\ phase = "off" /\ next = 0
    /\ UseEEPROM = image.use /\ ram = [o \in Options |-> image.file]
    /\ flashes = 0
    /\ stored = [o \in Options |-> Garbage] /\ intact = TRUE
    /\ checked = FALSE /\ saver = Nobody

-----------------------------------------------------------------------------

Table == image.table

\* The bytes of option o of firmware f where the layout of version v has it.
Place(f, v, o) == Start[f][v][o]..(Start[f][v][o] + Size[f][o] - 1)

\* readFromEEPROM()
Read(f, v, o) ==
    LET held == {x \in Values :
                    \A a \in Place(f, v, o) :
                        cells[a] = [opt |-> o, byte |-> a - Start[f][v][o], val |-> x]}
    IN  IF held = {} THEN Garbage ELSE CHOOSE x \in held : TRUE

\* The EEPROM after writeToEEPROM(o): the addresses in use are those of the
\* highest version of the firmware, whatever version was found.
Written(o) ==
    [a \in Cells |->
        IF a \in Place(Table, Schema[Table], o)
        THEN [opt |-> o, byte |-> a - Start[Table][Schema[Table]][o], val |-> ram[o]]
        ELSE cells[a]]

\* What start-up finds for UseEEPROM and the version, if it may look.
FoundUse == IF image.use = 0 THEN 0 ELSE eUse
FoundVersion == IF image.use = 0 THEN 0 ELSE eVersion

\* The stored configuration is used.
Reads == FoundUse = On /\ eCrc = Crc(Table, FoundVersion)

FaultUpToDate == FoundVersion = Schema[Table]

UpToDate == FoundVersion = Schema[Table] /\ (FoundUse = On => Reads)

FaultOption(o) ==
    IF Reads THEN Read(Table, Schema[Table], o) ELSE image.file

\* The value start-up leaves an option with.
Option(o) ==
    IF Reads /\ o \in Known(Table, FoundVersion)
    THEN Read(Table, FoundVersion, o) ELSE image.file

\* setup(), up to the update of the schema.
Boot ==
    /\ phase = "off"
    /\ ram' = [o \in Options |-> Option(o)]
    /\ IF ~ UpToDate /\ image.use = 1
       THEN /\ UseEEPROM' = IF FoundUse \in {On, Off} THEN FoundUse ELSE On
            /\ phase' = "updating"
       ELSE /\ UseEEPROM' = FoundUse
            /\ phase' = "running"
    /\ next' = 0
    /\ checked' = (image.use = 1 /\ (FoundUse = On \/ ~ UpToDate))
    /\ UNCHANGED <<image, eeprom, flashes, stored, intact, saver>>

-----------------------------------------------------------------------------
(* writeToEEPROM() for one option after the other: in setup() when the schema *)
(* changed, with VERSION and CRC32; later from /CS and /CI, without them.     *)

Writing(ids) == phase \in {"updating", "saving"} /\ next \in ids

WriteUse ==
    /\ Writing({CF_USEEEPROM})
    /\ eUse' = UseEEPROM
    /\ next' = next + 1
    /\ UNCHANGED <<image, eVersion, eCrc, cells, phase, UseEEPROM, ram, history>>

WriteVersion ==
    /\ Writing({CF_VERSION})
    /\ IF phase = "updating"
       THEN eVersion' = Schema[Table] /\ intact' = FALSE
       ELSE UNCHANGED <<eVersion, intact>>
    /\ next' = next + 1
    /\ UNCHANGED <<image, eUse, eCrc, cells, phase, UseEEPROM, ram,
                   flashes, stored, checked, saver>>

WriteCrc ==
    /\ Writing({CF_CRC32})
    /\ eCrc' = IF phase = "updating" THEN Crc(Table, Schema[Table]) ELSE eCrc
    /\ next' = next + 1
    /\ UNCHANGED <<image, eUse, eVersion, cells, phase, UseEEPROM, ram, history>>

\* The header tells the layout in use.
HeaderCurrent ==
    eVersion = Schema[Table] /\ eCrc = Crc(Table, Schema[Table])

FaultWriteOption ==
    /\ Writing(3..(Last + 1))
    /\ next' = next + 1
    /\ UNCHANGED <<image, eeprom, phase, UseEEPROM, ram, history>>

WriteOption ==
    /\ Writing(Options)
    /\ IF next \in Known(Table, Schema[Table])
       THEN /\ cells' = Written(next)
            /\ stored' = [stored EXCEPT ![next] = ram[next]]
            /\ intact' = (intact /\ HeaderCurrent)
       ELSE UNCHANGED <<cells, stored, intact>>
    /\ next' = next + 1
    /\ UNCHANGED <<image, eUse, eVersion, eCrc, phase, UseEEPROM, ram,
                   flashes, checked, saver>>

EndWriting ==
    /\ Writing({Last + 1})
    /\ phase' = "running" /\ next' = 0
    /\ intact' = HeaderCurrent
    /\ saver' = IF eUse = On THEN [table |-> Table, checked |-> checked] ELSE Nobody
    /\ UNCHANGED <<image, eeprom, UseEEPROM, ram, flashes, stored, checked>>

-----------------------------------------------------------------------------

\* takeNewConfigValueFromUI_andWriteToRAM()
Set(o, x) ==
    /\ phase = "running" /\ o \in Known(Table, Schema[Table])
    /\ ram' = [ram EXCEPT ![o] = x]
    /\ UNCHANGED <<image, eeprom, phase, next, UseEEPROM, history>>

\* /CE=1, /CE=0 and the switch in the form: in effect when saved.
SetUse(u) ==
    /\ phase = "running"
    /\ UseEEPROM' = u
    /\ UNCHANGED <<image, eeprom, phase, next, ram, history>>

\* /CS and SaveConfigFromRAMtoEEPROM()
Save ==
    /\ phase = "running"
    /\ phase' = "saving" /\ next' = 0
    /\ UNCHANGED <<image, eeprom, UseEEPROM, ram, history>>

\* The variables as BSB_LAN_config.h initialises them.
Initialised(im) ==
    UseEEPROM' = im.use /\ ram' = [o \in Options |-> im.file]

\* clearEEPROM(): /NE with its reset, and the erasing pin before start-up.
Clear ==
    /\ phase \in {"off", "running"}
    /\ eUse' = Erased /\ eVersion' = Blank /\ eCrc' = NoCrc
    /\ cells' = [a \in Cells |-> NoByte]
    /\ stored' = [o \in Options |-> Garbage]
    /\ intact' = TRUE /\ saver' = Nobody
    /\ phase' = "off" /\ next' = 0
    /\ Initialised(image)
    /\ checked' = FALSE
    /\ UNCHANGED <<image, flashes>>

\* Power fails or the board is reset.
PowerOff ==
    /\ phase # "off"
    /\ phase' = "off" /\ next' = 0
    /\ Initialised(image)
    /\ checked' = FALSE
    /\ saver' = IF phase = "running" THEN saver ELSE Nobody
    /\ UNCHANGED <<image, eeprom, flashes, stored, intact>>

\* A new image; the EEPROM stays as it is.
Flash ==
    /\ phase = "off" /\ flashes < MaxFlashes
    /\ image' \in Images
    /\ Initialised(image')
    /\ flashes' = flashes + 1
    /\ UNCHANGED <<eeprom, phase, next, stored, intact, checked, saver>>

Write == WriteUse \/ WriteVersion \/ WriteCrc \/ WriteOption \/ EndWriting

Next ==
    \/ Boot
    \/ Write
    \/ \E o \in Options, x \in Values : Set(o, x)
    \/ \E u \in {On, Off} : SetUse(u)
    \/ Save
    \/ Clear
    \/ PowerOff
    \/ Flash

Spec == Init /\ [][Next]_vars

-----------------------------------------------------------------------------

TypeOK ==
    /\ image \in Images
    /\ eUse \in Uses /\ eVersion \in Versions /\ eCrc \in Crcs
    /\ cells \in [Cells -> Byte]
    /\ phase \in Phases /\ next \in 0..(Last + 1)
    /\ UseEEPROM \in Uses
    /\ ram \in [Options -> Values \cup {Garbage}]
    /\ flashes \in 0..MaxFlashes
    /\ stored \in [Options -> Values \cup {Garbage}]
    /\ intact \in BOOLEAN /\ checked \in BOOLEAN
    /\ saver = Nobody \/ saver \in [table : Firmwares, checked : BOOLEAN]

\* What start-up reads is what was last written of each option, whatever
\* firmware wrote it at whatever addresses: bytes of another option, or of a
\* layout given up, are never taken for a setting (BSB_LAN.ino:7680).
ReadsBack ==
    phase = "off" /\ intact /\ Reads =>
        \A o \in Known(Table, FoundVersion) : Option(o) = stored[o]

\* faq.md:25 "If it is set to 1, then the configuration is read from the
\* EEPROM": all that a run with UseEEPROM 1 has saved comes back with the next
\* start of that firmware, other firmwares and power failures in between or not.
SavedIsUsed ==
    phase = "off" /\ saver.table = Table /\ saver.checked /\ image.use = 1 =>
        \A o \in Known(Table, Schema[Table]) : Reads /\ Option(o) = stored[o]

\* faq.md:25: an option comes from BSB_LAN_config.h or from the EEPROM, as it
\* was stored there; also when power fails while the schema is updated.
ReadsConfiguration ==
    phase = "off" => \A o \in Options : Option(o) # Garbage

=============================================================================

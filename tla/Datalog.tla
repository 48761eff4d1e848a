------------------------------- MODULE Datalog -------------------------------
(***************************************************************************)
(* The log of values (datalog.txt) and the index of its days, on SD card or  *)
(* flash: logging cycles, /D0, /DD0, /DK<n>, dumps by date, boot, and power  *)
(* failures between any two steps on the files (BSB_LAN.ino).               *)
(*                                                                         *)
(* A file is the sequence of its elements, a position counts them: the      *)
(* header is element 1 of the datalog, so the first line is at position 1.  *)
(* A file system shows the size a file had when it was last closed.  A day  *)
(* of 0 is a date that was never set.                                        *)
(*                                                                         *)
(* FaultX are mutated forms of X, used by no specification: they show that  *)
(* the properties can fail.                                                *)
(***************************************************************************)
EXTENDS Integers, Sequences

CONSTANTS
    MaxDay,       \* days are 1..MaxDay
    MaxCycles,    \* bound on the logging cycles
    MaxCrashes,   \* bound on the power failures
    MaxLines,     \* numLogValues: lines of a cycle
    Wrap          \* positions wrap at it; 2^32

ASSUME DatalogAssumption ==
    /\ MaxDay \in Nat \ {0} /\ MaxCycles \in Nat /\ MaxLines \in Nat
    /\ MaxCrashes \in Nat /\ Wrap \in Nat \ {0, 1}

Days == 1..MaxDay

\* "cycle" numbers the logging cycles; "indexed": the index knew the day when
\* the line was written.  Both are history.
Line == [day : 0..MaxDay, cycle : 0..MaxCycles, indexed : BOOLEAN]
Header == [day |-> 0, cycle |-> 0, indexed |-> FALSE]
Entry == [day : Days, pos : Nat]

Files == {"datalog", "index", "datalogTmp", "indexTmp"}

\* Where loop() or setup() stands between two steps on the files.
Steps == {"off", "loop", "logging", "copied", "dataGone", "dataSwapped",
          "indexGone", "indexSwapped", "create", "header", "unindex", "newIndex"}

VARIABLES
    present,      \* files that exist
    data, index, dataTmp, indexTmp,    \* their contents, as last closed
    step,
    previousDatalogDate, firstDatalogDate,
    buffer,       \* lines of the cycle, before its close()
    cycle,        \* history: number of the cycle
    crashes,      \* history: number of power failures
    written,      \* history: header and lines since the datalog was created
    intact,       \* history: neither a power failure nor a failed creation has
                  \* parted datalog and index
    unread        \* history: a boot could not create the datalog, so it did not
                  \* read the index that was there

files == <<present, data, index, dataTmp, indexTmp>>
dates == <<previousDatalogDate, firstDatalogDate>>
history == <<cycle, crashes, written, intact, unread>>
vars == <<files, step, dates, buffer, history>>

Init ==
    /\ present = {}
    /\ data = <<>> /\ index = <<>> /\ dataTmp = <<>> /\ indexTmp = <<>>
    /\ step = "off"
    /\ previousDatalogDate = 0 /\ firstDatalogDate = 0
    /\ buffer = <<>>
    /\ cycle = 0 /\ crashes = 0 /\ written = <<>>
    /\ intact = TRUE /\ unread = FALSE

-----------------------------------------------------------------------------
(* Logging: while the card has space, a cycle opens the datalog, writes a line *)
(* for each parameter and closes it.  A datalog that does not open leaves the *)
(* files as they are.                                                        *)

\* FILE_APPEND creates a datalog that is not there, without a header.
StartLog ==
    /\ step = "loop" /\ cycle < MaxCycles
    /\ Len(data) + MaxLines < Wrap
    /\ present' = present \cup {"datalog"}
    /\ step' = "logging"
    /\ cycle' = cycle + 1
    /\ UNCHANGED <<data, index, dataTmp, indexTmp, dates, buffer,
                   crashes, written, intact, unread>>

\* The position is the size found by a second handle on the datalog: lines
\* of this cycle do not count yet.
IndexDay(day) == index' = Append(index, [day |-> day, pos |-> Len(data)])

\* The first line of another day puts the day in the index; when the index
\* cannot be opened the next line tries again.
NewDay(day, opens) ==
    IF opens
    THEN /\ IndexDay(day)
         /\ present' = present \cup {"index"}
         /\ previousDatalogDate' = day
         /\ firstDatalogDate' = IF firstDatalogDate = 0 THEN day
                                ELSE firstDatalogDate
    ELSE UNCHANGED <<index, present, dates>>

\* A loop over the parameters that goes one too far.
FaultLogLine(day, opens) ==
    /\ step = "logging" /\ Len(buffer) <= MaxLines
    /\ IF previousDatalogDate # day THEN NewDay(day, opens)
       ELSE UNCHANGED <<index, present, dates>>
    /\ buffer' = Append(buffer, [day |-> day, cycle |-> cycle,
                                 indexed |-> previousDatalogDate' = day])
    /\ UNCHANGED <<data, dataTmp, indexTmp, step, history>>

\* A line carries the day GetDateTime() finds: the clock may go on between two
\* lines, be set back, or have no time yet after a boot.
LogLine(day, opens) ==
    /\ step = "logging" /\ Len(buffer) < MaxLines
    /\ IF previousDatalogDate # day THEN NewDay(day, opens)
       ELSE UNCHANGED <<index, present, dates>>
    /\ buffer' = Append(buffer, [day |-> day, cycle |-> cycle,
                                 indexed |-> previousDatalogDate' = day])
    /\ UNCHANGED <<data, dataTmp, indexTmp, step, history>>

CloseLog ==
    /\ step = "logging"
    /\ data' = data \o buffer
    /\ written' = written \o buffer
    /\ buffer' = <<>>
    /\ step' = "loop"
    /\ UNCHANGED <<present, index, dataTmp, indexTmp, dates,
                   cycle, crashes, intact, unread>>

-----------------------------------------------------------------------------
(* /DK<n>                                                                    *)

\* readFirstAndPreviousDatalogDateFromFile()
ReadDates ==
    /\ firstDatalogDate' = IF index' = <<>> THEN 0 ELSE index'[1].day
    /\ previousDatalogDate' = IF index' = <<>> THEN 0 ELSE index'[Len(index')].day

\* The entries of the n most recent days.
Kept(n) == SubSeq(index, Len(index) - n + 1, Len(index))

FaultDataStart(n) == Kept(n)[n].pos

\* dataStart: the first position that is not 0, the mark for "not set yet".
DataStart(n) ==
    LET set == {k \in 1..n : Kept(n)[k].pos # 0}
    IN  IF set = {} THEN 0
        ELSE Kept(n)[CHOOSE k \in set : \A j \in set : k <= j].pos

FaultMoved(n, k) ==
    [Kept(n)[k] EXCEPT !.pos = (@ - DataStart(n)) % Wrap]

\* Entry k of the copy: its position without the lines left out.  Up to the
\* entry that sets dataStart each is moved to the end of the header.
Moved(n, k) ==
    [Kept(n)[k] EXCEPT !.pos =
        IF \A j \in 1..k : Kept(n)[j].pos = 0 THEN 1
        ELSE (@ - DataStart(n) + 1) % Wrap]

Cleanable(n) ==
    /\ {"datalog", "index"} \subseteq present
    /\ Len(index) > n
    /\ DataStart(n) <= Len(data)

\* cleanupDatalog() up to the end of the copies; FILE_WRITE truncates.
CopyRecent(n) ==
    /\ step = "loop" /\ Cleanable(n)
    /\ present' = present \cup {"datalogTmp", "indexTmp"}
    /\ indexTmp' = [k \in 1..n |-> Moved(n, k)]
    /\ dataTmp' = <<Header>> \o SubSeq(data, DataStart(n) + 1, Len(data))
    /\ step' = "copied"
    /\ UNCHANGED <<data, index, dates, buffer, history>>

\* It ends early: nothing to do, no space, a file that does not open.
RefuseCleanup ==
    /\ step = "loop"
    /\ present' = present \ {"datalogTmp", "indexTmp"}
    /\ dataTmp' = <<>> /\ indexTmp' = <<>>
    /\ UNCHANGED <<data, index>>
    /\ ReadDates
    /\ UNCHANGED <<step, buffer, history>>

RemoveData ==
    /\ step = "copied"
    /\ present' = present \ {"datalog"} /\ data' = <<>>
    /\ step' = "dataGone"
    /\ UNCHANGED <<index, dataTmp, indexTmp, dates, buffer, history>>

RenameData ==
    /\ step = "dataGone"
    /\ present' = (present \cup {"datalog"}) \ {"datalogTmp"}
    /\ data' = dataTmp /\ dataTmp' = <<>>
    /\ step' = "dataSwapped"
    /\ UNCHANGED <<index, indexTmp, dates, buffer, history>>

RemoveIndex ==
    /\ step = "dataSwapped"
    /\ present' = present \ {"index"} /\ index' = <<>>
    /\ step' = "indexGone"
    /\ UNCHANGED <<data, dataTmp, indexTmp, dates, buffer, history>>

RenameIndex ==
    /\ step = "indexGone"
    /\ present' = (present \cup {"index"}) \ {"indexTmp"}
    /\ index' = indexTmp /\ indexTmp' = <<>>
    /\ step' = "indexSwapped"
    /\ UNCHANGED <<data, dataTmp, dates, buffer, history>>

FaultEndCleanup ==
    /\ step = "indexSwapped"
    /\ step' = "loop"
    /\ UNCHANGED <<files, dates, buffer, history>>

EndCleanup ==
    /\ step = "indexSwapped"
    /\ present' = present \ {"datalogTmp", "indexTmp"}
    /\ dataTmp' = <<>> /\ indexTmp' = <<>>
    /\ UNCHANGED <<data, index>>
    /\ ReadDates
    /\ step' = "loop"
    /\ UNCHANGED <<buffer, history>>

-----------------------------------------------------------------------------
(* /D0 and /DD0, and the files a boot creates                                *)

Reset ==
    /\ step = "loop"
    /\ present' = present \ {"datalog"} /\ data' = <<>>
    /\ step' = "create"
    /\ UNCHANGED <<index, dataTmp, indexTmp, dates, buffer, history>>

\* createdatalogFileAndWriteHeader(): the file exists before its header does.
CreateData ==
    /\ step = "create"
    /\ present' = present \cup {"datalog"} /\ data' = <<>>
    /\ step' = "header"
    /\ UNCHANGED <<index, dataTmp, indexTmp, dates, buffer, history>>

\* The datalog does not open: index and dates stay as they are.
CreateFails ==
    /\ step = "create"
    /\ step' = "loop"
    /\ intact' = FALSE
    /\ unread' = (unread \/ (index # <<>> /\ previousDatalogDate = 0))
    /\ UNCHANGED <<files, dates, buffer, cycle, crashes, written>>

WriteHeader ==
    /\ step = "header"
    /\ data' = <<Header>> /\ written' = <<Header>>
    /\ step' = "unindex"
    /\ UNCHANGED <<present, index, dataTmp, indexTmp, dates, buffer,
                   cycle, crashes, intact, unread>>

\* createDatalogIndexFile()
Unindex ==
    /\ step = "unindex"
    /\ present' = present \ {"index"} /\ index' = <<>>
    /\ intact' = TRUE /\ unread' = FALSE
    /\ step' = "newIndex"
    /\ UNCHANGED <<data, dataTmp, indexTmp, dates, buffer,
                   cycle, crashes, written>>

NewIndex(opens) ==
    /\ step = "newIndex"
    /\ present' = IF opens THEN present \cup {"index"} ELSE present
    /\ index' = <<>>
    /\ firstDatalogDate' = 0 /\ previousDatalogDate' = 0
    /\ step' = "loop"
    /\ UNCHANGED <<data, dataTmp, indexTmp, buffer, history>>

-----------------------------------------------------------------------------

\* Power fails: the open cycle is lost, the files stay as they were closed.
Crash ==
    /\ step # "off" /\ crashes < MaxCrashes
    /\ crashes' = crashes + 1
    /\ step' = "off"
    /\ buffer' = <<>>
    /\ firstDatalogDate' = 0 /\ previousDatalogDate' = 0
    /\ intact' = (/\ intact
                  /\ step \in {"loop", "logging", "copied", "indexSwapped",
                               "create", "newIndex"})
    /\ UNCHANGED <<files, cycle, written, unread>>

\* setup(), with logging on.
Boot ==
    /\ step = "off"
    /\ UNCHANGED <<files, buffer, history>>
    /\ IF "datalog" \in present
       THEN ReadDates /\ step' = "loop"
       ELSE UNCHANGED dates /\ step' = "create"

Cleanup ==
    \/ \E n \in 1..Len(index) : CopyRecent(n)
    \/ RefuseCleanup
    \/ RemoveData \/ RenameData \/ RemoveIndex \/ RenameIndex
    \/ EndCleanup

Create ==
    \/ Reset \/ CreateData \/ CreateFails \/ WriteHeader \/ Unindex
    \/ \E opens \in BOOLEAN : NewIndex(opens)

Next ==
    \/ StartLog
    \/ \E day \in Days, opens \in BOOLEAN : LogLine(day, opens)
    \/ CloseLog
    \/ Cleanup
    \/ Create
    \/ Crash
    \/ Boot

Spec == Init /\ [][Next]_vars

-----------------------------------------------------------------------------
(* /D<a>,<b>: the index is read from its end until a date before a, or dates  *)
(* that run backwards.                                                       *)

FaultSeen(a) ==
    {k \in DOMAIN index : \A j \in DOMAIN index : j > k => index[j].day >= a}

Seen(a) ==
    {k \in DOMAIN index :
        /\ \A j \in DOMAIN index : j > k => index[j].day >= a
        /\ \A j \in k..(Len(index) - 1) : index[j].day <= index[j + 1].day}

\* Position of the earliest of the entries K, 0 when there is none.
Earliest(K) ==
    IF K = {} THEN 0 ELSE index[CHOOSE k \in K : \A j \in K : k <= j].pos

FaultDumped(a, b) ==
    {i \in DOMAIN data : Earliest({k \in Seen(a) : index[k].day >= a}) < i}

\* The elements of the datalog that are sent.  Without an index that is the
\* whole file; a difference below zero wraps, and the file is sent to its end.
Dumped(a, b) ==
    LET from == Earliest({k \in Seen(a) : index[k].day >= a})
        to == Earliest({k \in Seen(a) : index[k].day > b})
    IN  IF "index" \notin present THEN DOMAIN data
        ELSE IF from = 0 THEN {}
        ELSE {i \in DOMAIN data : from < i /\ (to >= from => i <= to)}

-----------------------------------------------------------------------------

TypeOK ==
    /\ present \subseteq Files
    /\ data \in Seq(Line) /\ dataTmp \in Seq(Line)
    /\ index \in Seq(Entry) /\ indexTmp \in Seq(Entry)
    /\ step \in Steps
    /\ previousDatalogDate \in 0..MaxDay /\ firstDatalogDate \in 0..MaxDay
    /\ buffer \in Seq(Line) /\ Len(buffer) <= MaxLines
    /\ cycle \in 0..MaxCycles /\ crashes \in 0..MaxCrashes
    /\ written \in Seq(Line) /\ intact \in BOOLEAN /\ unread \in BOOLEAN

\* The dates kept in memory are those of the first and the last entry of the
\* index file, whatever was cleaned up, reset or cut off by a power failure:
\* /DA and /DB show them, and no day is put in the index twice in a row.  A
\* boot that cannot create the datalog leaves the index unread, until it is
\* created anew.
DatesAgree ==
    step \in {"loop", "logging"} /\ ~unread =>
        /\ firstDatalogDate = IF index = <<>> THEN 0 ELSE index[1].day
        /\ previousDatalogDate = IF index = <<>> THEN 0 ELSE index[Len(index)].day
        /\ \A k \in 1..(Len(index) - 1) : index[k].day # index[k + 1].day

\* Where the index points: at lines of the datalog, in their order, unless a
\* power failure or a failed creation parted them (findings).
IndexPoints ==
    step \in {"loop", "logging"} /\ intact =>
        /\ \A k \in DOMAIN index : index[k].pos \in 1..Len(data)
        /\ \A j, k \in DOMAIN index : j <= k => index[j].pos <= index[k].pos

\* Cleaning up cuts off old lines only: unless they were parted, what is in the datalog is the end of
\* what was written, from the first day of the index at the latest.
NewestKept ==
    step = "loop" /\ intact =>
        \E cut \in 0..(Len(written) - 1) :
            /\ data = <<Header>> \o SubSeq(written, cut + 2, Len(written))
            /\ cut > 0 => index # <<>> /\ index[1].pos = 1

SameCycle(i, j) == data[i].cycle = data[j].cycle

\* The entry of the index that leads to line i.
Cover(i) ==
    CHOOSE k \in DOMAIN index :
        /\ index[k].pos < i
        /\ \A j \in DOMAIN index : index[j].pos < i => j <= k

\* The dates of the index do not run backwards from that entry on.
Reachable(i) ==
    \A j, k \in DOMAIN index :
        Cover(i) <= j /\ j <= k => index[j].day <= index[k].day

OneDay(i) == \A j \in DOMAIN data : SameCycle(i, j) => data[j].day = data[i].day

InRange(i, a, b) == data[i].indexed /\ a <= data[i].day /\ data[i].day <= b

\* using.md:56 "Dumps data from log file between <a> and <b>": a line of these
\* days is sent, when its logging cycle saw no change of date, the clock was
\* not set back since, and datalog and index were not parted.
RangeComplete ==
    step = "loop" /\ intact =>
        \A a, b \in Days : \A i \in DOMAIN data :
            InRange(i, a, b) /\ OneDay(i) /\ Reachable(i) => i \in Dumped(a, b)

\* ... and no line is sent but for a cycle that has a line of these days.
RangeTight ==
    step = "loop" /\ intact /\ "index" \in present =>
        \A a, b \in Days : a <= b =>
            \A i \in Dumped(a, b) :
                data[i].indexed => \E j \in DOMAIN data :
                                      SameCycle(i, j) /\ InRange(j, a, b)

=============================================================================

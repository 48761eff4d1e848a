--------------------------- MODULE Datalog_proofs ---------------------------
(***************************************************************************)
(* Proofs about Datalog, for any number of days, cycles, lines and power    *)
(* failures: types of the files; the dates in memory are those of the       *)
(* index; the index points into the datalog; lines, entries and what was    *)
(* ever written stay together, so a cleanup keeps the newest lines and a    *)
(* dump by date is complete and tight.                                      *)
(***************************************************************************)
EXTENDS Datalog, SequenceTheorems, WellFoundedInduction, TLAPS

LEMMA AppendType ==
    ASSUME NEW S, NEW s \in Seq(S), NEW e \in S
    PROVE  Append(s, e) \in Seq(S)
OBVIOUS

LEMMA ConcatType ==
    ASSUME NEW S, NEW s \in Seq(S), NEW t \in Seq(S)
    PROVE  s \o t \in Seq(S)
OBVIOUS

LEMMA SubSeqType ==
    ASSUME NEW S, NEW s \in Seq(S), NEW m \in 1..(Len(s) + 1)
    PROVE  SubSeq(s, m, Len(s)) \in Seq(S)
OBVIOUS

LEMMA EmptyType == ASSUME NEW S PROVE <<>> \in Seq(S)
OBVIOUS

LEMMA NoLines == Len(<<>>) <= MaxLines
<1>1. Len(<<>>) = 0 /\ MaxLines \in Nat
  BY DatalogAssumption
<1> QED
  BY <1>1

LEMMA HeaderType == Header \in Line
BY DatalogAssumption DEF Header, Line

LEMMA OneType == ASSUME NEW S, NEW e \in S PROVE <<e>> \in Seq(S)
OBVIOUS

LEMMA ModNat ==
    ASSUME NEW a \in Int, NEW b \in Nat \ {0} PROVE a % b \in Nat
OBVIOUS

\* The entries that are kept are the last n of the index.
LEMMA KeptEntries ==
    ASSUME index \in Seq(Entry), NEW n \in 1..Len(index)
    PROVE  /\ Kept(n) \in Seq(Entry) /\ Len(Kept(n)) = n
           /\ \A k \in 1..n : /\ Kept(n)[k] = index[Len(index) - n + k]
                              /\ Kept(n)[k] \in Entry
<1> DEFINE L == Len(index)
<1>1. L \in Nat /\ n \in 1..L /\ index \in [1..L -> Entry]
  OBVIOUS
<1>2. /\ Len(Kept(n)) = n
      /\ \A k \in 1..n : Kept(n)[k] = index[L - n + 1 + k - 1]
  BY <1>1 DEF Kept
<1>3. \A k \in 1..n : L - n + 1 + k - 1 = L - n + k /\ L - n + k \in 1..L
  BY <1>1
<1>4. \A k \in 1..n : index[L - n + k] \in Entry
  BY <1>1, <1>3
<1>5. Kept(n) \in Seq(Entry)
  BY <1>1 DEF Kept
<1> QED
  BY <1>2, <1>3, <1>4, <1>5

\* A set of positions has a first one.
LEMMA LeastElement ==
    ASSUME NEW T, T \subseteq Nat, T # {}
    PROVE  \E m \in T : \A j \in T : m <= j
<1> DEFINE R == OpToRel(<, Nat)
<1>1. \A a, b \in Nat : <<a, b>> \in R <=> a < b
  BY DEF OpToRel
<1>2. IsWellFoundedOn(R, Nat)
  BY NatLessThanWellFounded
<1> HIDE DEF R
<1>3. \E x \in T : \A y \in T : ~ (<<y, x>> \in R)
  BY <1>2, WFMin, Zenon
<1>4. PICK x \in T : \A y \in T : ~ (<<y, x>> \in R)
  BY <1>3
<1>5. \A y \in T : ~ (y < x)
  BY <1>1, <1>4
<1>6. \A y \in T : x <= y
  BY <1>5
<1> QED
  BY <1>6

LEMMA DataStartNat ==
    ASSUME index \in Seq(Entry), NEW n \in 1..Len(index)
    PROVE  DataStart(n) \in Nat
<1> DEFINE set == {k \in 1..n : Kept(n)[k].pos # 0}
<1>1. CASE set = {}
  BY <1>1 DEF DataStart
<1>2. CASE set # {}
  <2>1. set \subseteq 1..n /\ 1..n \subseteq Nat /\ set \subseteq Nat
    OBVIOUS
  <2> DEFINE least == CHOOSE k \in set : \A j \in set : k <= j
  <2>2. DataStart(n) = Kept(n)[least].pos
    BY <1>2 DEF DataStart
  <2> HIDE DEF set
  <2>3. \E m \in set : \A j \in set : m <= j
    BY <1>2, <2>1, LeastElement
  <2>4. least \in set
    BY <2>3
  <2>5. Kept(n)[least] \in Entry
    BY <2>1, <2>4, KeptEntries
  <2> QED
    BY <2>2, <2>5 DEF Entry
<1> QED
  BY <1>1, <1>2

LEMMA MovedEntry ==
    ASSUME index \in Seq(Entry), NEW n \in 1..Len(index), NEW k \in 1..n
    PROVE  /\ Moved(n, k) \in Entry /\ Moved(n, k).day = Kept(n)[k].day
           /\ Kept(n)[k].pos # 0 =>
                  Moved(n, k).pos = (Kept(n)[k].pos - DataStart(n) + 1) % Wrap
<1> DEFINE e == Kept(n)[k]
           zero == \A j \in 1..k : Kept(n)[j].pos = 0
           q == (e.pos - DataStart(n) + 1) % Wrap
           p == IF zero THEN 1 ELSE q
<1>1. e = [day |-> e.day, pos |-> e.pos] /\ e.day \in Days /\ e.pos \in Nat
  <2>1. e \in Entry
    BY KeptEntries
  <2> QED
    BY <2>1 DEF Entry
<1>2. q \in Nat
  <2>1. DataStart(n) \in Nat
    BY DataStartNat
  <2>2. e.pos - DataStart(n) + 1 \in Int
    BY <1>1, <2>1
  <2>3. Wrap \in Nat \ {0}
    BY DatalogAssumption
  <2> QED
    BY <2>2, <2>3, ModNat
<1>3. e.pos # 0 => ~zero
  <2>1. k \in 1..k
    OBVIOUS
  <2> QED
    BY <2>1
<1>4. Moved(n, k) = [day |-> e.day, pos |-> p]
  BY <1>1 DEF Moved
<1> HIDE DEF q, zero
<1>5. p \in Nat /\ (e.pos # 0 => p = q)
  BY <1>2, <1>3
<1> HIDE DEF p, e
<1>6. Moved(n, k) \in Entry /\ Moved(n, k).day = e.day /\ Moved(n, k).pos = p
  BY <1>1, <1>4, <1>5 DEF Entry
<1> QED
  BY <1>5, <1>6 DEF e, q

LEMMA ReadDatesType ==
    ASSUME index' \in Seq(Entry), ReadDates
    PROVE  previousDatalogDate' \in 0..MaxDay /\ firstDatalogDate' \in 0..MaxDay
<1>1. CASE index' = <<>>
  BY <1>1, DatalogAssumption DEF ReadDates
<1>2. CASE index' # <<>>
  <2>1. Len(index') \in Nat \ {0} /\ index' \in [1..Len(index') -> Entry]
    BY <1>2, EmptySeq, LenProperties
  <2>2. index'[1] \in Entry /\ index'[Len(index')] \in Entry
    BY <2>1
  <2>3. index'[1].day \in Days /\ index'[Len(index')].day \in Days
    BY <2>2 DEF Entry
  <2> QED
    BY <1>2, <2>3, DatalogAssumption DEF ReadDates, Days
<1> QED
  BY <1>1, <1>2

LEMMA LogLineType ==
    ASSUME TypeOK, NEW day \in Days, NEW opens \in BOOLEAN, LogLine(day, opens)
    PROVE  TypeOK'
<1>1. [day |-> day, cycle |-> cycle, indexed |-> (previousDatalogDate' = day)] \in Line
  BY DatalogAssumption DEF TypeOK, Line, Days
<1>2. buffer' \in Seq(Line) /\ Len(buffer') <= MaxLines
  <2>1. buffer' \in Seq(Line)
    BY <1>1, AppendType DEF LogLine, TypeOK
  <2>2. /\ buffer \in Seq(Line) /\ Len(buffer) \in Nat /\ Len(buffer) < MaxLines
        /\ MaxLines \in Nat
    BY DatalogAssumption DEF LogLine, TypeOK
  <2>3. Len(buffer') = Len(buffer) + 1
    BY <2>2 DEF LogLine
  <2> QED
    BY <2>1, <2>2, <2>3
<1>3. /\ index' \in Seq(Entry) /\ present' \subseteq Files
      /\ previousDatalogDate' \in 0..MaxDay /\ firstDatalogDate' \in 0..MaxDay
  <2>1. CASE previousDatalogDate # day /\ opens
    <3>1. [day |-> day, pos |-> Len(data)] \in Entry
      BY DEF Entry, TypeOK
    <3>2. index' \in Seq(Entry)
      BY <2>1, <3>1, AppendType DEF LogLine, NewDay, IndexDay, TypeOK
    <3>3. day \in 0..MaxDay
      BY DatalogAssumption DEF Days
    <3> QED
      BY <2>1, <3>2, <3>3 DEF LogLine, NewDay, TypeOK, Files
  <2>2. CASE ~(previousDatalogDate # day /\ opens)
    BY <2>2 DEF LogLine, NewDay, TypeOK, dates
  <2> QED
    BY <2>1, <2>2
<1> QED
  BY <1>2, <1>3 DEF LogLine, TypeOK, history

LEMMA CopyType ==
    ASSUME TypeOK, NEW n \in 1..Len(index), CopyRecent(n)
    PROVE  TypeOK'
<1>1. index \in Seq(Entry) /\ data \in Seq(Line)
  BY DEF TypeOK
<1>2. \A k \in 1..n : Moved(n, k) \in Entry
  BY <1>1, MovedEntry
<1>3. indexTmp' \in Seq(Entry)
  <2>1. indexTmp' \in [1..n -> Entry] /\ n \in Nat
    BY <1>2 DEF CopyRecent
  <2> QED
    BY <2>1
<1>4. DataStart(n) + 1 \in 1..(Len(data) + 1)
  BY <1>1, DataStartNat DEF CopyRecent, Cleanable
<1>5. SubSeq(data, DataStart(n) + 1, Len(data)) \in Seq(Line)
  BY <1>1, <1>4, SubSeqType
<1>6. dataTmp' \in Seq(Line)
  BY <1>5, HeaderType, OneType, ConcatType DEF CopyRecent
<1> QED
  BY <1>3, <1>6 DEF CopyRecent, TypeOK, Files, Steps, dates, history

\* Files, dates and history keep their types: positions wrap, but never leave
\* the numbers they are kept in.
THEOREM TypeCorrect == Spec => []TypeOK
<1> USE DEF files, dates, history
<1>1. Init => TypeOK
  <2> SUFFICES ASSUME Init PROVE TypeOK
    OBVIOUS
  <2>1. buffer \in Seq(Line) /\ Len(buffer) <= MaxLines
    BY EmptyType, NoLines DEF Init
  <2>2. /\ data \in Seq(Line) /\ dataTmp \in Seq(Line) /\ written \in Seq(Line)
        /\ index \in Seq(Entry) /\ indexTmp \in Seq(Entry)
    BY EmptyType DEF Init
  <2>3. 0 \in 0..MaxDay /\ 0 \in 0..MaxCycles /\ 0 \in 0..MaxCrashes
    BY DatalogAssumption
  <2>4. /\ cycle \in 0..MaxCycles /\ crashes \in 0..MaxCrashes
        /\ firstDatalogDate \in 0..MaxDay /\ previousDatalogDate \in 0..MaxDay
    BY <2>3 DEF Init
  <2> QED
    BY <2>1, <2>2, <2>3, <2>4 DEF Init, TypeOK, Steps
<1>2. TypeOK /\ [Next]_vars => TypeOK'
  <2> SUFFICES ASSUME TypeOK, [Next]_vars PROVE TypeOK'
    OBVIOUS
  <2>1. CASE StartLog
    BY <2>1, DatalogAssumption DEF StartLog, TypeOK, Steps, Files
  <2>2. ASSUME NEW day \in Days, NEW opens \in BOOLEAN, LogLine(day, opens)
        PROVE  TypeOK'
    BY <2>2, LogLineType
  <2>3. CASE CloseLog
    <3>1. data' \in Seq(Line) /\ written' \in Seq(Line) /\ buffer' \in Seq(Line)
      BY <2>3, ConcatType, EmptyType DEF CloseLog, TypeOK
    <3> QED
      BY <2>3, <3>1, NoLines DEF CloseLog, TypeOK, Steps
  <2>4. CASE Cleanup
    <3>1. ASSUME NEW n \in 1..Len(index), CopyRecent(n) PROVE TypeOK'
      BY <3>1, CopyType
    <3>2. CASE RefuseCleanup
      <4>1. index' \in Seq(Entry)
        BY <3>2 DEF RefuseCleanup, TypeOK
      <4>2. previousDatalogDate' \in 0..MaxDay /\ firstDatalogDate' \in 0..MaxDay
        BY <3>2, <4>1, ReadDatesType DEF RefuseCleanup
      <4> QED
        BY <3>2, <4>2, EmptyType DEF RefuseCleanup, TypeOK
    <3>3. CASE RemoveData
      BY <3>3, EmptyType DEF RemoveData, TypeOK, Steps
    <3>4. CASE RenameData
      BY <3>4, EmptyType DEF RenameData, TypeOK, Steps, Files
    <3>5. CASE RemoveIndex
      BY <3>5, EmptyType DEF RemoveIndex, TypeOK, Steps
    <3>6. CASE RenameIndex
      BY <3>6, EmptyType DEF RenameIndex, TypeOK, Steps, Files
    <3>7. CASE EndCleanup
      <4>1. index' \in Seq(Entry)
        BY <3>7 DEF EndCleanup, TypeOK
      <4>2. previousDatalogDate' \in 0..MaxDay /\ firstDatalogDate' \in 0..MaxDay
        BY <3>7, <4>1, ReadDatesType DEF EndCleanup
      <4> QED
        BY <3>7, <4>2, EmptyType DEF EndCleanup, TypeOK, Steps
    <3> QED
      BY <2>4, <3>1, <3>2, <3>3, <3>4, <3>5, <3>6, <3>7 DEF Cleanup
  <2>5. CASE Create
    <3>1. CASE Reset
      BY <3>1, EmptyType DEF Reset, TypeOK, Steps
    <3>2. CASE CreateData
      BY <3>2, EmptyType DEF CreateData, TypeOK, Steps, Files
    <3>3. CASE WriteHeader
      BY <3>3, HeaderType, OneType DEF WriteHeader, TypeOK, Steps
    <3>4. CASE Unindex
      BY <3>4, EmptyType DEF Unindex, TypeOK, Steps
    <3>5. ASSUME NEW opens \in BOOLEAN, NewIndex(opens) PROVE TypeOK'
      BY <3>5, EmptyType, DatalogAssumption DEF NewIndex, TypeOK, Steps, Files
    <3>6. CASE CreateFails
      BY <3>6 DEF CreateFails, TypeOK, Steps
    <3> QED
      BY <2>5, <3>1, <3>2, <3>3, <3>4, <3>5, <3>6 DEF Create
  <2>6. CASE Crash
    <3>1. crashes' \in 0..MaxCrashes
      BY <2>6, DatalogAssumption DEF Crash, TypeOK
    <3>2. intact' \in BOOLEAN
      BY <2>6 DEF Crash
    <3>3. previousDatalogDate' \in 0..MaxDay /\ firstDatalogDate' \in 0..MaxDay
      BY <2>6, DatalogAssumption DEF Crash
    <3> QED
      BY <2>6, <3>1, <3>2, <3>3, EmptyType, NoLines DEF Crash, TypeOK, Steps
  <2>7. CASE Boot
    <3>1. index' \in Seq(Entry) /\ step' \in Steps
      BY <2>7 DEF Boot, TypeOK, Steps
    <3>2. previousDatalogDate' \in 0..MaxDay /\ firstDatalogDate' \in 0..MaxDay
      BY <2>7, <3>1, ReadDatesType DEF Boot, TypeOK
    <3> QED
      BY <2>7, <3>1, <3>2 DEF Boot, TypeOK
  <2>8. CASE UNCHANGED vars
    BY <2>8 DEF vars, TypeOK
  <2> QED
    BY <2>1, <2>2, <2>3, <2>4, <2>5, <2>6, <2>7, <2>8 DEF Next
<1> QED
  BY <1>1, <1>2, PTL DEF Spec

-----------------------------------------------------------------------------

NoTwice(s) == \A k \in 1..(Len(s) - 1) : s[k].day # s[k + 1].day

MemoryAgrees ==
    /\ firstDatalogDate = IF index = <<>> THEN 0 ELSE index[1].day
    /\ previousDatalogDate = IF index = <<>> THEN 0 ELSE index[Len(index)].day

\* The dates need the same of the index that waits in the temporary file, and
\* what a creation finds: the dates of the index, or those of a boot.
DatesInv ==
    /\ step = "off" => firstDatalogDate = 0 /\ previousDatalogDate = 0
    /\ intact => ~unread
    /\ ~unread =>
        /\ step \in {"loop", "logging"} => MemoryAgrees
        /\ step = "create" =>
               MemoryAgrees \/ (firstDatalogDate = 0 /\ previousDatalogDate = 0)
        /\ NoTwice(index)
        /\ step \in {"copied", "dataGone", "dataSwapped", "indexGone"} =>
               NoTwice(indexTmp)

LEMMA NoTwiceEmpty == NoTwice(<<>>)
<1>1. Len(<<>>) = 0
  OBVIOUS
<1> QED
  BY <1>1 DEF NoTwice

\* An entry is written only for another day than the last one.
LEMMA NewDayDates ==
    ASSUME TypeOK, DatesInv, NEW day \in Days, NEW opens \in BOOLEAN,
           LogLine(day, opens)
    PROVE  DatesInv'
<1>u. CASE unread
  BY <1>u DEF LogLine, DatesInv, history
<1> SUFFICES ASSUME ~unread PROVE DatesInv'
  BY <1>u
<1>1. /\ MemoryAgrees /\ NoTwice(index) /\ index \in Seq(Entry)
      /\ step' = "logging" /\ UNCHANGED <<intact, unread>>
  BY DEF LogLine, DatesInv, TypeOK, history
<1>2. CASE previousDatalogDate # day /\ opens
  <2> DEFINE e == [day |-> day, pos |-> Len(data)]
  <2>1. index' = Append(index, e) /\ previousDatalogDate' = day
    BY <1>2 DEF LogLine, NewDay, IndexDay
  <2>2. /\ Len(index) \in Nat /\ Len(index') = Len(index) + 1
        /\ \A k \in 1..Len(index) : index'[k] = index[k]
        /\ index'[Len(index) + 1] = e /\ index' # <<>>
    BY <1>1, <2>1
  <2>3. index # <<>> => Len(index) # 0
    BY <1>1
  <2>4. Len(index) # 0 => index[Len(index)].day # day
    BY <1>1, <1>2, <2>2 DEF MemoryAgrees
  <2>5. NoTwice(index')
    <3> SUFFICES ASSUME NEW k \in 1..(Len(index') - 1)
                 PROVE  index'[k].day # index'[k + 1].day
      BY DEF NoTwice
    <3>1. k \in 1..Len(index)
      BY <2>2
    <3>2. CASE k = Len(index)
      BY <2>2, <2>4, <3>1, <3>2
    <3>3. CASE k # Len(index)
      BY <1>1, <2>2, <3>1, <3>3 DEF NoTwice
    <3> QED
      BY <3>2, <3>3
  <2>6. firstDatalogDate' = index'[1].day
    <3>1. firstDatalogDate' = IF firstDatalogDate = 0 THEN day ELSE firstDatalogDate
      BY <1>2 DEF LogLine, NewDay
    <3>2. CASE index = <<>>
      BY <1>1, <2>2, <3>1, <3>2 DEF MemoryAgrees
    <3>3. CASE index # <<>>
      <4>1. 1 \in 1..Len(index) /\ index[1] \in Entry
        BY <1>1, <2>2, <2>3, <3>3
      <4>2. index[1].day # 0
        BY <4>1 DEF Entry, Days
      <4> QED
        BY <1>1, <2>2, <3>1, <3>3, <4>1, <4>2 DEF MemoryAgrees
    <3> QED
      BY <3>2, <3>3
  <2>7. MemoryAgrees'
    BY <2>1, <2>2, <2>6 DEF MemoryAgrees
  <2> QED
    BY <1>1, <2>5, <2>7 DEF DatesInv
<1>3. CASE ~(previousDatalogDate # day /\ opens)
  <2>1. UNCHANGED <<index, previousDatalogDate, firstDatalogDate>>
    BY <1>3 DEF LogLine, NewDay, dates
  <2> QED
    BY <1>1, <2>1 DEF DatesInv, MemoryAgrees
<1> QED
  BY <1>2, <1>3

\* The entries kept by a cleanup follow each other as they did before.
LEMMA CopyDates ==
    ASSUME TypeOK, DatesInv, NEW n \in 1..Len(index), CopyRecent(n)
    PROVE  DatesInv'
<1>c. /\ step' = "copied" /\ UNCHANGED <<index, intact, unread>>
  BY DEF CopyRecent, history
<1>d. CASE unread
  BY <1>c, <1>d DEF DatesInv
<1> SUFFICES ASSUME ~unread PROVE DatesInv'
  BY <1>d
<1>u. ~unread /\ NoTwice(index)
  BY DEF DatesInv
<1>1. index \in Seq(Entry) /\ Len(index) \in Nat /\ n \in Nat
  BY DEF TypeOK
<1>2. indexTmp' = [k \in 1..n |-> Moved(n, k)]
  BY DEF CopyRecent
<1>3. Len(indexTmp') = n
  BY <1>1, <1>2
<1>4. \A k \in 1..n : indexTmp'[k].day = index[Len(index) - n + k].day
  <2> SUFFICES ASSUME NEW k \in 1..n
               PROVE  indexTmp'[k].day = index[Len(index) - n + k].day
    OBVIOUS
  <2>1. Kept(n)[k] \in Entry /\ Kept(n)[k] = index[Len(index) - n + k]
    BY <1>1, KeptEntries
  <2>2. Moved(n, k).day = Kept(n)[k].day
    BY <1>1, MovedEntry
  <2>3. indexTmp'[k] = Moved(n, k)
    BY <1>2
  <2> QED
    BY <2>1, <2>2, <2>3
<1>5. NoTwice(indexTmp')
  <2> SUFFICES ASSUME NEW k \in 1..(n - 1)
               PROVE  indexTmp'[k].day # indexTmp'[k + 1].day
    BY <1>3 DEF NoTwice
  <2> DEFINE i == Len(index) - n + k
  <2>1. /\ i \in 1..(Len(index) - 1) /\ i + 1 = Len(index) - n + (k + 1)
        /\ k \in 1..n /\ k + 1 \in 1..n
    BY <1>1
  <2>2. index[i].day # index[i + 1].day
    BY <1>u, <2>1 DEF DatesInv, NoTwice
  <2> QED
    BY <1>4, <2>1, <2>2
<1> QED
  BY <1>c, <1>5, <1>u DEF DatesInv

LEMMA DatesKept == Spec => []DatesInv
<1> USE DEF files, dates, history
<1>1. Init => DatesInv
  BY NoTwiceEmpty DEF Init, DatesInv
<1>2. TypeOK /\ DatesInv /\ [Next]_vars => DatesInv'
  <2> SUFFICES ASSUME TypeOK, DatesInv, [Next]_vars PROVE DatesInv'
    OBVIOUS
  <2>1. CASE StartLog
    BY <2>1 DEF StartLog, DatesInv, MemoryAgrees
  <2>2. ASSUME NEW day \in Days, NEW opens \in BOOLEAN, LogLine(day, opens)
        PROVE  DatesInv'
    BY <2>2, NewDayDates
  <2>3. CASE CloseLog
    BY <2>3 DEF CloseLog, DatesInv, MemoryAgrees
  <2>4. CASE Cleanup
    <3>1. ASSUME NEW n \in 1..Len(index), CopyRecent(n) PROVE DatesInv'
      BY <3>1, CopyDates
    <3>2. CASE RefuseCleanup
      BY <3>2, NoTwiceEmpty DEF RefuseCleanup, DatesInv, MemoryAgrees, ReadDates
    <3>3. CASE RemoveData
      BY <3>3 DEF RemoveData, DatesInv
    <3>4. CASE RenameData
      BY <3>4 DEF RenameData, DatesInv
    <3>5. CASE RemoveIndex
      BY <3>5, NoTwiceEmpty DEF RemoveIndex, DatesInv
    <3>6. CASE RenameIndex
      BY <3>6, NoTwiceEmpty DEF RenameIndex, DatesInv
    <3>7. CASE EndCleanup
      BY <3>7, NoTwiceEmpty DEF EndCleanup, DatesInv, MemoryAgrees, ReadDates
    <3> QED
      BY <2>4, <3>1, <3>2, <3>3, <3>4, <3>5, <3>6, <3>7 DEF Cleanup
  <2>5. CASE Create
    <3>1. CASE Reset
      BY <3>1 DEF Reset, DatesInv, MemoryAgrees
    <3>2. CASE CreateData
      BY <3>2 DEF CreateData, DatesInv
    <3>3. CASE WriteHeader
      BY <3>3 DEF WriteHeader, DatesInv
    <3>4. CASE Unindex
      BY <3>4, NoTwiceEmpty DEF Unindex, DatesInv
    <3>5. ASSUME NEW opens \in BOOLEAN, NewIndex(opens) PROVE DatesInv'
      BY <3>5, NoTwiceEmpty DEF NewIndex, DatesInv, MemoryAgrees
    <3>6. CASE CreateFails
      BY <3>6 DEF CreateFails, DatesInv, MemoryAgrees
    <3> QED
      BY <2>5, <3>1, <3>2, <3>3, <3>4, <3>5, <3>6 DEF Create
  <2>6. CASE Crash
    BY <2>6 DEF Crash, DatesInv
  <2>7. CASE Boot
    BY <2>7 DEF Boot, DatesInv, MemoryAgrees, ReadDates
  <2>8. CASE UNCHANGED vars
    BY <2>8 DEF vars, DatesInv, MemoryAgrees
  <2> QED
    BY <2>1, <2>2, <2>3, <2>4, <2>5, <2>6, <2>7, <2>8 DEF Next
<1> QED
  BY <1>1, <1>2, TypeCorrect, PTL DEF Spec

\* The dates in memory are those of the index, through cleanups, resets, power
\* failures and boots.
THEOREM DatesCorrect == Spec => []DatesAgree
<1>1. DatesInv => DatesAgree
  BY DEF DatesInv, DatesAgree, MemoryAgrees, NoTwice
<1> QED
  BY <1>1, DatesKept, PTL

-----------------------------------------------------------------------------

\* Index ix and datalog d belong together.
Good(ix, d) ==
    /\ Len(d) \in 1..(Wrap - 1)
    /\ \A k \in DOMAIN ix : ix[k].pos \in 1..Len(d)
    /\ \A j, k \in DOMAIN ix : j <= k => ix[j].pos <= ix[k].pos

\* Which index belongs to which datalog at each step of a cleanup, and what a
\* power failure leaves.
PointsInv ==
    /\ intact =>
        /\ step \in {"loop", "logging", "copied", "indexSwapped"} =>
               Good(index, data) /\ "datalog" \in present
        /\ step \in {"copied", "dataGone"} => Good(indexTmp, dataTmp)
        /\ step \in {"dataSwapped", "indexGone"} =>
               Good(indexTmp, data) /\ "datalog" \in present
        /\ step = "off" /\ "datalog" \in present => Good(index, data)
        /\ step = "logging" => Len(data) + MaxLines < Wrap
    /\ step = "create" => "datalog" \notin present
    /\ step \in {"header", "unindex", "newIndex"} => "datalog" \in present
    /\ step \in {"unindex", "newIndex"} => data = <<Header>>
    /\ step = "newIndex" => index = <<>>
    /\ Len(buffer) <= MaxLines
    /\ step # "logging" => buffer = <<>>

LEMMA GoodNew == Good(<<>>, <<Header>>)
<1>1. Len(<<Header>>) = 1 /\ 1 \in 1..(Wrap - 1) /\ DOMAIN <<>> = {}
  BY DatalogAssumption
<1> QED
  BY <1>1 DEF Good

\* Longer data serves the same index.
LEMMA GoodLonger ==
    ASSUME NEW ix \in Seq(Entry), NEW d \in Seq(Line), NEW b \in Seq(Line),
           Good(ix, d), Len(d) + Len(b) < Wrap
    PROVE  Good(ix, d \o b)
<1>1. Len(d) \in Nat /\ Len(b) \in Nat /\ Len(d \o b) = Len(d) + Len(b)
  OBVIOUS
<1>2. Len(d \o b) \in 1..(Wrap - 1) /\ 1..Len(d) \subseteq 1..Len(d \o b)
  BY <1>1, DatalogAssumption DEF Good
<1> QED
  BY <1>2 DEF Good

LEMMA LogLinePoints ==
    ASSUME TypeOK, PointsInv, NEW day \in Days, NEW opens \in BOOLEAN,
           LogLine(day, opens)
    PROVE  PointsInv'
<1>1. /\ step = "logging" /\ step' = "logging" /\ data' = data
      /\ intact' = intact /\ present \subseteq present'
  BY DEF LogLine, NewDay, history
<1>2. Len(buffer') <= MaxLines
  <2>1. buffer \in Seq(Line) /\ Len(buffer) \in Nat /\ Len(buffer) < MaxLines
    BY DEF LogLine, TypeOK
  <2>2. Len(buffer') = Len(buffer) + 1
    BY <2>1 DEF LogLine
  <2> QED
    BY <2>1, <2>2, DatalogAssumption
<1>3. ASSUME intact PROVE Good(index', data)
  <2>1. Good(index, data) /\ index \in Seq(Entry)
    BY <1>1, <1>3 DEF PointsInv, TypeOK
  <2>2. CASE previousDatalogDate # day /\ opens
    <3> DEFINE e == [day |-> day, pos |-> Len(data)]
    <3>1. index' = Append(index, e)
      BY <2>2 DEF LogLine, NewDay, IndexDay
    <3>2. /\ Len(index) \in Nat /\ DOMAIN index = 1..Len(index)
          /\ DOMAIN index' = 1..(Len(index) + 1)
          /\ \A k \in 1..Len(index) : index'[k] = index[k]
          /\ index'[Len(index) + 1] = e
      BY <2>1, <3>1
    <3>3. Len(data) \in 1..(Wrap - 1) /\ Len(data) \in 1..Len(data) /\ e.pos = Len(data)
      BY <2>1 DEF Good
    <3>4. \A k \in DOMAIN index' : index'[k].pos \in 1..Len(data)
      <4> SUFFICES ASSUME NEW k \in DOMAIN index'
                   PROVE  index'[k].pos \in 1..Len(data)
        OBVIOUS
      <4>1. CASE k \in 1..Len(index)
        BY <2>1, <3>2, <4>1 DEF Good
      <4>2. CASE k = Len(index) + 1
        BY <3>2, <3>3, <4>2
      <4> QED
        BY <3>2, <4>1, <4>2
    <3>5. \A j, k \in DOMAIN index' : j <= k => index'[j].pos <= index'[k].pos
      <4> SUFFICES ASSUME NEW j \in DOMAIN index', NEW k \in DOMAIN index', j <= k
                   PROVE  index'[j].pos <= index'[k].pos
        OBVIOUS
      <4>1. CASE k \in 1..Len(index)
        <5>1. j \in 1..Len(index)
          BY <3>2, <4>1
        <5> QED
          BY <2>1, <3>2, <4>1, <5>1 DEF Good
      <4>2. CASE k = Len(index) + 1
        BY <3>2, <3>3, <3>4, <4>2
      <4> QED
        BY <3>2, <4>1, <4>2
    <3> QED
      BY <3>3, <3>4, <3>5 DEF Good
  <2>3. CASE ~(previousDatalogDate # day /\ opens)
    BY <2>1, <2>3 DEF LogLine, NewDay
  <2> QED
    BY <2>2, <2>3
<1> QED
  BY <1>1, <1>2, <1>3 DEF PointsInv

\* A new first element before what follows position p.
LEMMA HeaderAndRest ==
    ASSUME NEW S, NEW s \in Seq(S), NEW p \in 1..Len(s), NEW h \in S,
           NEW t, t = <<h>> \o SubSeq(s, p + 1, Len(s))
    PROVE  /\ t \in Seq(S) /\ Len(t) = Len(s) - p + 1 /\ t[1] = h
           /\ \A i \in 2..Len(t) : i + p - 1 \in 2..Len(s) /\ t[i] = s[i + p - 1]
<1> DEFINE L == Len(s)
           rest == SubSeq(s, p + 1, L)
           one == <<h>>
<1>1. L \in Nat /\ p \in Int /\ p >= 1 /\ p <= L /\ p + 1 \in 1..(L + 1)
  OBVIOUS
<1>2. \A i \in (p + 1)..L : s[i] \in S
  BY <1>1
<1>3. /\ rest \in Seq(S) /\ Len(rest) = IF p + 1 <= L THEN L - (p + 1) + 1 ELSE 0
      /\ \A i \in 1..(L - (p + 1) + 1) : rest[i] = s[(p + 1) + i - 1]
  <2> HIDE DEF L
  <2> QED
    BY <1>1, <1>2, SubSeqProperties
<1>4. Len(rest) = L - p /\ \A i \in 1..(L - p) : rest[i] = s[p + i]
  <2>1. L - (p + 1) + 1 = L - p /\ (p + 1 <= L \/ L - p = 0)
    BY <1>1
  <2>2. \A i \in 1..(L - p) : (p + 1) + i - 1 = p + i
    BY <1>1
  <2> HIDE DEF L, rest
  <2> QED
    BY <1>3, <2>1, <2>2
<1>5. one \in Seq(S) /\ Len(one) = 1 /\ one[1] = h /\ t = one \o rest
  OBVIOUS
<1> HIDE DEF rest, one
<1>6. /\ t \in Seq(S) /\ Len(t) = Len(one) + Len(rest)
      /\ \A i \in 1..(Len(one) + Len(rest)) :
               t[i] = IF i <= Len(one) THEN one[i] ELSE rest[i - Len(one)]
  <2>1. rest \in Seq(S) /\ one \in Seq(S)
    BY <1>3, <1>5
  <2>2. /\ one \o rest \in Seq(S) /\ Len(one \o rest) = Len(one) + Len(rest)
        /\ \A i \in 1..(Len(one) + Len(rest)) :
               (one \o rest)[i] = IF i <= Len(one) THEN one[i] ELSE rest[i - Len(one)]
    BY <2>1, ConcatProperties, Zenon
  <2> QED
    BY <1>5, <2>2, Zenon
<1> HIDE DEF L
<1>7. Len(t) = 1 + (L - p)
  BY <1>4, <1>5, <1>6
<1>8. t[1] = h
  <2>1. 1 \in 1..(1 + (L - p))
    BY <1>1
  <2> QED
    BY <1>4, <1>5, <1>6, <2>1
<1>9. ASSUME NEW i \in 2..Len(t)
      PROVE  i + p - 1 \in 2..L /\ t[i] = s[i + p - 1]
  <2>1. /\ i \in 1..(1 + (L - p)) /\ ~(i <= 1) /\ i - 1 \in 1..(L - p)
        /\ p + (i - 1) = i + p - 1 /\ i + p - 1 \in 2..L
    BY <1>1, <1>7
  <2>2. t[i] = rest[i - 1]
    BY <1>4, <1>5, <1>6, <2>1
  <2>3. rest[i - 1] = s[p + (i - 1)]
    BY <1>4, <2>1
  <2> QED
    BY <2>1, <2>2, <2>3
<1>10. Len(t) = L - p + 1
  BY <1>1, <1>7
<1> QED
  BY <1>6, <1>8, <1>9, <1>10 DEF L

LEMMA CopiedData ==
    ASSUME data \in Seq(Line), NEW p \in 1..Len(data),
           dataTmp' = <<Header>> \o SubSeq(data, p + 1, Len(data))
    PROVE  /\ dataTmp' \in Seq(Line) /\ Len(dataTmp') = Len(data) - p + 1
           /\ dataTmp'[1] = Header
           /\ \A i \in 2..Len(dataTmp') : /\ i + p - 1 \in 2..Len(data)
                                          /\ dataTmp'[i] = data[i + p - 1]
<1> HIDE DEF Header
<1> QED
  BY HeaderType, HeaderAndRest

\* What a cleanup copies: the last n entries, moved by the data that is left out
\* before the first of them, and the lines from that one on.
CopyStart(n) == index[Len(index) - n + 1].pos

LEMMA CopyFacts ==
    ASSUME TypeOK, NEW n \in 1..Len(index), CopyRecent(n), Good(index, data)
    PROVE  /\ CopyStart(n) \in 1..Len(data)
           /\ DOMAIN indexTmp' = 1..n /\ Len(indexTmp') = n
           /\ \A k \in 1..n :
                  /\ Len(index) - n + k \in DOMAIN index
                  /\ indexTmp'[k].pos = index[Len(index) - n + k].pos - CopyStart(n) + 1
                  /\ indexTmp'[k].day = index[Len(index) - n + k].day
           /\ dataTmp' \in Seq(Line) /\ Len(dataTmp') = Len(data) - CopyStart(n) + 1
           /\ dataTmp'[1] = Header
           /\ \A i \in 2..Len(dataTmp') :
                  /\ i + CopyStart(n) - 1 \in 2..Len(data)
                  /\ dataTmp'[i] = data[i + CopyStart(n) - 1]
<1>1. /\ index \in Seq(Entry) /\ data \in Seq(Line)
      /\ Len(index) \in Nat /\ n \in Nat /\ 1 \in 1..n
      /\ DOMAIN index = 1..Len(index) /\ Len(data) \in Nat
  BY DEF TypeOK
<1>2. \A k \in 1..n : /\ Len(index) - n + k \in DOMAIN index
                      /\ Kept(n)[k] = index[Len(index) - n + k]
                      /\ Kept(n)[k] \in Entry
                      /\ Kept(n)[k].pos \in 1..Len(data)
  <2>1. \A k \in 1..n : Len(index) - n + k \in DOMAIN index
    BY <1>1
  <2> QED
    BY <1>1, <2>1, KeptEntries DEF Good
<1> DEFINE start == CopyStart(n)
<1>3. start = Kept(n)[1].pos /\ start \in 1..Len(data)
  BY <1>1, <1>2 DEF CopyStart
<1>4. \A k \in 1..n : start <= Kept(n)[k].pos
  <2> SUFFICES ASSUME NEW k \in 1..n PROVE start <= Kept(n)[k].pos
    OBVIOUS
  <2>1. /\ Len(index) - n + 1 \in DOMAIN index /\ Len(index) - n + k \in DOMAIN index
        /\ Len(index) - n + 1 <= Len(index) - n + k
    BY <1>1, <1>2
  <2> QED
    BY <1>2, <2>1 DEF Good, CopyStart
<1>5. DataStart(n) = start
  <2> DEFINE set == {k \in 1..n : Kept(n)[k].pos # 0}
  <2>1. set = 1..n
    BY <1>2
  <2>2. \A m \in 1..n : (\A j \in 1..n : m <= j) <=> m = 1
    BY <1>1
  <2>3. (CHOOSE k \in 1..n : \A j \in 1..n : k <= j) = 1
    BY <1>1, <2>2
  <2>4. DataStart(n) = Kept(n)[CHOOSE k \in 1..n : \A j \in 1..n : k <= j].pos
    BY <1>1, <2>1 DEF DataStart
  <2> QED
    BY <1>3, <2>3, <2>4
<1>6. /\ dataTmp' \in Seq(Line) /\ Len(dataTmp') = Len(data) - start + 1
      /\ dataTmp'[1] = Header
      /\ \A i \in 2..Len(dataTmp') : /\ i + start - 1 \in 2..Len(data)
                                     /\ dataTmp'[i] = data[i + start - 1]
  <2> HIDE DEF start
  <2>1. dataTmp' = <<Header>> \o SubSeq(data, start + 1, Len(data))
    BY <1>5 DEF CopyRecent
  <2>2. data \in Seq(Line) /\ start \in 1..Len(data) /\ Header \in Line
    BY <1>1, <1>3, HeaderType
  <2> QED
    BY <2>1, <2>2, CopiedData
<1>7. /\ DOMAIN indexTmp' = 1..n /\ Len(indexTmp') = n
      /\ \A k \in 1..n : /\ indexTmp'[k].pos = Kept(n)[k].pos - start + 1
                         /\ indexTmp'[k].day = Kept(n)[k].day
  <2>1. indexTmp' = [k \in 1..n |-> Moved(n, k)]
    BY DEF CopyRecent
  <2>2. ASSUME NEW k \in 1..n
        PROVE  /\ Moved(n, k).pos = Kept(n)[k].pos - start + 1
               /\ Moved(n, k).day = Kept(n)[k].day
    <3> DEFINE p == Kept(n)[k].pos
    <3>1. p \in 1..Len(data) /\ start <= p /\ start \in 1..Len(data)
      BY <1>2, <1>3, <1>4
    <3>2. Len(data) \in 1..(Wrap - 1) /\ Wrap \in Nat
      BY DatalogAssumption DEF Good
    <3>3. p - start + 1 \in 0..(Wrap - 1) /\ p # 0
      BY <3>1, <3>2
    <3>4. /\ Moved(n, k).pos = (p - start + 1) % Wrap
          /\ Moved(n, k).day = Kept(n)[k].day
      BY <1>1, <1>5, <3>3, MovedEntry
    <3> HIDE DEF p
    <3>5. (p - start + 1) % Wrap = p - start + 1
      BY <3>2, <3>3
    <3> QED
      BY <3>4, <3>5 DEF p
  <2>3. Len(indexTmp') = n
    BY <1>1, <2>1
  <2> QED
    BY <2>1, <2>2, <2>3
<1> HIDE DEF start
<1> QED
  BY <1>2, <1>3, <1>6, <1>7 DEF start

LEMMA CopyGood ==
    ASSUME TypeOK, NEW n \in 1..Len(index), CopyRecent(n), Good(index, data)
    PROVE  Good(indexTmp', dataTmp')
<1> DEFINE L == Len(data)
           start == CopyStart(n)
           old(k) == index[Len(index) - n + k].pos
<1>1. /\ start \in 1..L /\ L \in 1..(Wrap - 1) /\ Wrap \in Nat /\ n \in Nat
      /\ DOMAIN indexTmp' = 1..n /\ Len(dataTmp') = L - start + 1
      /\ \A k \in 1..n : /\ indexTmp'[k].pos = old(k) - start + 1
                         /\ old(k) \in 1..L
  <2>1. \A k \in 1..n : old(k) \in 1..L
    BY CopyFacts DEF Good
  <2>2. n \in Nat /\ L \in 1..(Wrap - 1)
    BY DEF Good, TypeOK
  <2> QED
    BY <2>1, <2>2, CopyFacts, DatalogAssumption
<1>2. \A j, k \in 1..n : j <= k => old(j) <= old(k)
  <2> SUFFICES ASSUME NEW j \in 1..n, NEW k \in 1..n, j <= k
               PROVE  old(j) <= old(k)
    OBVIOUS
  <2>1. Len(index) - n + j \in DOMAIN index /\ Len(index) - n + k \in DOMAIN index
    BY CopyFacts
  <2>2. Len(index) \in Nat /\ n \in Nat
    BY DEF TypeOK
  <2>3. Len(index) - n + j <= Len(index) - n + k
    BY <2>2
  <2> QED
    BY <2>1, <2>3 DEF Good
<1>3. \A k \in 1..n : start <= old(k)
  <2>1. start = old(1)
    BY DEF CopyStart
  <2>2. 1 \in 1..n /\ \A k \in 1..n : 1 <= k
    BY <1>1
  <2> HIDE DEF start, old
  <2> QED
    BY <1>2, <2>1, <2>2
<1> HIDE DEF L, start, old
<1>4. \A k \in 1..n : indexTmp'[k].pos \in 1..Len(dataTmp')
  <2> SUFFICES ASSUME NEW k \in 1..n PROVE indexTmp'[k].pos \in 1..Len(dataTmp')
    OBVIOUS
  <2>1. old(k) - start + 1 \in 1..(L - start + 1)
    BY <1>1, <1>3
  <2> QED
    BY <1>1, <2>1
<1>5. \A j, k \in 1..n : j <= k => indexTmp'[j].pos <= indexTmp'[k].pos
  BY <1>1, <1>2
<1>6. Len(dataTmp') \in 1..(Wrap - 1)
  BY <1>1
<1> QED
  BY <1>1, <1>4, <1>5, <1>6 DEF Good

LEMMA PointsKept == Spec => []PointsInv
<1> USE DEF files, dates, history
<1>1. Init => PointsInv
  <2>1. Len(<<>>) = 0 /\ 0 <= MaxLines
    BY DatalogAssumption
  <2> QED
    BY <2>1 DEF Init, PointsInv
<1>2. TypeOK /\ PointsInv /\ [Next]_vars => PointsInv'
  <2> SUFFICES ASSUME TypeOK, PointsInv, [Next]_vars PROVE PointsInv'
    OBVIOUS
  <2>e. Len(<<>>) = 0 /\ 0 <= MaxLines
    BY DatalogAssumption
  <2>1. CASE StartLog
    BY <2>1 DEF StartLog, PointsInv
  <2>2. ASSUME NEW day \in Days, NEW opens \in BOOLEAN, LogLine(day, opens)
        PROVE  PointsInv'
    BY <2>2, LogLinePoints
  <2>3. CASE CloseLog
    <3>1. ASSUME intact PROVE Good(index, data \o buffer)
      <4>1. Good(index, data) /\ Len(data) + MaxLines < Wrap /\ Len(buffer) <= MaxLines
        BY <2>3, <3>1 DEF CloseLog, PointsInv
      <4>2. /\ index \in Seq(Entry) /\ data \in Seq(Line) /\ buffer \in Seq(Line)
            /\ Len(data) \in Nat /\ Len(buffer) \in Nat
        BY DEF TypeOK
      <4>3. Len(data) + Len(buffer) < Wrap
        BY <4>1, <4>2, DatalogAssumption
      <4> QED
        BY <4>1, <4>2, <4>3, GoodLonger
    <3> QED
      BY <2>3, <2>e, <3>1 DEF CloseLog, PointsInv
  <2>4. CASE Cleanup
    <3>1. ASSUME NEW n \in 1..Len(index), CopyRecent(n) PROVE PointsInv'
      <4>1. intact => Good(indexTmp', dataTmp')
        BY <3>1, CopyGood DEF CopyRecent, PointsInv
      <4> QED
        BY <3>1, <4>1 DEF CopyRecent, PointsInv
    <3>2. CASE RefuseCleanup
      BY <3>2 DEF RefuseCleanup, PointsInv
    <3>3. CASE RemoveData
      BY <3>3 DEF RemoveData, PointsInv
    <3>4. CASE RenameData
      BY <3>4 DEF RenameData, PointsInv
    <3>5. CASE RemoveIndex
      BY <3>5 DEF RemoveIndex, PointsInv
    <3>6. CASE RenameIndex
      BY <3>6 DEF RenameIndex, PointsInv
    <3>7. CASE EndCleanup
      BY <3>7 DEF EndCleanup, PointsInv
    <3> QED
      BY <2>4, <3>1, <3>2, <3>3, <3>4, <3>5, <3>6, <3>7 DEF Cleanup
  <2>5. CASE Create
    <3>1. CASE Reset
      BY <3>1 DEF Reset, PointsInv
    <3>2. CASE CreateData
      BY <3>2 DEF CreateData, PointsInv
    <3>3. CASE WriteHeader
      BY <3>3 DEF WriteHeader, PointsInv
    <3>4. CASE Unindex
      BY <3>4 DEF Unindex, PointsInv
    <3>5. ASSUME NEW opens \in BOOLEAN, NewIndex(opens) PROVE PointsInv'
      <4>1. data' = <<Header>> /\ index' = <<>> /\ step' = "loop" /\ step = "newIndex"
        BY <3>5 DEF NewIndex, PointsInv
      <4>2. Good(index', data') /\ "datalog" \in present'
        BY <3>5, <4>1, GoodNew DEF NewIndex, PointsInv
      <4> QED
        BY <3>5, <4>1, <4>2 DEF NewIndex, PointsInv
    <3>6. CASE CreateFails
      BY <3>6 DEF CreateFails, PointsInv
    <3> QED
      BY <2>5, <3>1, <3>2, <3>3, <3>4, <3>5, <3>6 DEF Create
  <2>6. CASE Crash
    BY <2>6, <2>e, GoodNew DEF Crash, PointsInv
  <2>7. CASE Boot
    BY <2>7 DEF Boot, PointsInv
  <2>8. CASE UNCHANGED vars
    BY <2>8 DEF vars, PointsInv
  <2> QED
    BY <2>1, <2>2, <2>3, <2>4, <2>5, <2>6, <2>7, <2>8 DEF Next
<1> QED
  BY <1>1, <1>2, TypeCorrect, PTL DEF Spec

\* As long as no power failure has parted them, the index points at lines of
\* the datalog, in their order.
THEOREM PointsCorrect == Spec => []IndexPoints
<1>1. PointsInv => IndexPoints
  BY DEF PointsInv, IndexPoints, Good
<1> QED
  BY <1>1, PointsKept, PTL

-----------------------------------------------------------------------------
(* Lines and index                                                          *)

\* Datalog d is the end of what was written, w, without its first cut lines.
EndFrom(d, w, cut) ==
    /\ Len(d) = Len(w) - cut
    /\ d[1] = Header
    /\ \A i \in 2..Len(d) : d[i] = w[cut + i]

EndOfWritten(ix, d, w) ==
    \E cut \in 0..(Len(w) - 1) :
        /\ EndFrom(d, w, cut)
        /\ cut > 0 => ix # <<>> /\ ix[1].pos = 1

\* Entry K is the last one before line i.
Covers(ix, K, i) ==
    /\ ix[K].pos < i
    /\ \A m \in DOMAIN ix : ix[m].pos < i => m <= K

\* Lines carry the numbers of their cycles, up to c, and the index points between cycles.
Cycles(ix, d, c) ==
    /\ \A i \in DOMAIN d : d[i].cycle <= c /\ (i > 1 => d[i].cycle > 0)
    /\ \A k \in DOMAIN ix, i, j \in DOMAIN d :
           i <= ix[k].pos /\ ix[k].pos < j => d[i].cycle # d[j].cycle

\* The entry that leads to an indexed line has the day of a line of its cycle.
Tied(ix, d) ==
    \A i \in DOMAIN d : d[i].indexed =>
        \E K \in DOMAIN ix, j \in DOMAIN d :
            /\ Covers(ix, K, i)
            /\ d[j].cycle = d[i].cycle /\ d[j].indexed /\ d[j].day = ix[K].day

Linked(ix, d, w, c) == EndOfWritten(ix, d, w) /\ Cycles(ix, d, c) /\ Tied(ix, d)

\* The lines of an open cycle, and the last entry of the index.
OpenCycle ==
    /\ \A i \in DOMAIN data : data[i].cycle < cycle
    /\ \A x \in DOMAIN buffer : buffer[x].cycle = cycle
    /\ (\E x \in DOMAIN buffer : buffer[x].indexed) =>
           /\ index # <<>>
           /\ \E y \in DOMAIN buffer : /\ buffer[y].indexed
                                       /\ buffer[y].day = index[Len(index)].day

\* Index and datalog at each step of a cleanup, as in PointsInv.
LinksInv ==
    /\ intact =>
        /\ step \in {"loop", "logging", "copied", "indexSwapped"} => Linked(index, data, written, cycle)
        /\ step \in {"copied", "dataGone"} => Linked(indexTmp, dataTmp, written, cycle)
        /\ step \in {"dataSwapped", "indexGone"} => Linked(indexTmp, data, written, cycle)
        /\ step = "off" /\ "datalog" \in present => Linked(index, data, written, cycle)
        /\ step = "logging" => OpenCycle
    /\ step \in {"unindex", "newIndex"} => written = <<Header>>

LEMMA ConcatElements ==
    ASSUME NEW S, NEW s \in Seq(S), NEW r \in Seq(S), NEW t, t = s \o r
    PROVE  /\ Len(t) = Len(s) + Len(r)
           /\ \A i \in 1..Len(s) : t[i] = s[i]
           /\ \A i \in (Len(s) + 1)..Len(t) : i - Len(s) \in 1..Len(r) /\ t[i] = r[i - Len(s)]
           /\ \A x \in 1..Len(r) : t[Len(s) + x] = r[x]
<1> DEFINE m == Len(s)
           n == Len(r)
<1>1. m \in Nat /\ n \in Nat
  OBVIOUS
<1>2. /\ Len(t) = m + n
      /\ \A i \in 1..(m + n) : t[i] = IF i <= m THEN s[i] ELSE r[i - m]
  BY ConcatProperties, Zenon
<1> HIDE DEF m, n
<1>3. \A i \in 1..m : t[i] = s[i]
  BY <1>1, <1>2
<1>4. \A i \in (m + 1)..Len(t) : i - m \in 1..n /\ t[i] = r[i - m]
  BY <1>1, <1>2
<1>5. \A x \in 1..n : t[m + x] = r[x]
  <2> SUFFICES ASSUME NEW x \in 1..n PROVE t[m + x] = r[x]
    OBVIOUS
  <2>1. m + x \in (m + 1)..Len(t) /\ (m + x) - m = x
    BY <1>1, <1>2
  <2> QED
    BY <1>4, <2>1
<1> QED
  BY <1>2, <1>3, <1>4, <1>5 DEF m, n

\* A fresh datalog has its header, and no entry.
LEMMA NewLinked ==
    ASSUME NEW c \in Nat
    PROVE  Linked(<<>>, <<Header>>, <<Header>>, c)
<1> DEFINE d == <<Header>>
           ix == <<>>
<1>1. Len(d) = 1 /\ DOMAIN d = {1} /\ d[1] = Header /\ DOMAIN ix = {}
  OBVIOUS
<1>2. Header.cycle = 0 /\ Header.indexed = FALSE
  BY DEF Header
<1> HIDE DEF d, ix
<1>3. EndOfWritten(ix, d, d)
  <2>1. EndFrom(d, d, 0) /\ 0 \in 0..(Len(d) - 1)
    BY <1>1 DEF EndFrom
  <2> QED
    BY <2>1 DEF EndOfWritten
<1>4. Cycles(ix, d, c) /\ Tied(ix, d)
  BY <1>1, <1>2 DEF Cycles, Tied
<1> QED
  BY <1>3, <1>4 DEF Linked, d, ix

LEMMA LineCycles ==
    ASSUME NEW d \in Seq(Line)
    PROVE  \A i \in DOMAIN d : d[i].cycle \in Nat
<1> SUFFICES ASSUME NEW i \in DOMAIN d PROVE d[i].cycle \in Nat
  OBVIOUS
<1>1. d[i] \in Line
  OBVIOUS
<1> QED
  BY <1>1, DatalogAssumption DEF Line

\* A later cycle makes no difference.
LEMMA LaterLinked ==
    ASSUME NEW ix, NEW d \in Seq(Line), NEW w, NEW c \in Nat, NEW e \in Nat, c <= e,
           Linked(ix, d, w, c)
    PROVE  Linked(ix, d, w, e)
<1>1. \A i \in DOMAIN d : d[i].cycle \in Nat
  BY LineCycles
<1> QED
  BY <1>1 DEF Linked, Cycles

\* A new entry points behind all lines that are there.
LEMMA AppendLinked ==
    ASSUME NEW ix \in Seq(Entry), NEW d \in Seq(Line), NEW w \in Seq(Line),
           NEW c \in Nat, Linked(ix, d, w, c), NEW e, e.pos = Len(d),
           NEW ixx, ixx = Append(ix, e)
    PROVE  Linked(ixx, d, w, c)
<1>1. /\ Len(ix) \in Nat /\ DOMAIN ix = 1..Len(ix) /\ DOMAIN ixx = 1..(Len(ix) + 1)
      /\ \A k \in 1..Len(ix) : ixx[k] = ix[k]
      /\ ixx[Len(ix) + 1] = e /\ ixx # <<>> /\ Len(d) \in Nat /\ DOMAIN d = 1..Len(d)
  OBVIOUS
<1>2. ASSUME NEW i \in DOMAIN d, NEW m \in DOMAIN ixx, ixx[m].pos < i
      PROVE  m \in DOMAIN ix /\ ixx[m] = ix[m]
  BY <1>1, <1>2
<1>3. EndOfWritten(ixx, d, w)
  <2>1. PICK cut \in 0..(Len(w) - 1) : /\ EndFrom(d, w, cut)
                                       /\ cut > 0 => ix # <<>> /\ ix[1].pos = 1
    BY DEF Linked, EndOfWritten
  <2>2. ix # <<>> => 1 \in 1..Len(ix)
    BY <1>1
  <2>3. cut > 0 => ixx # <<>> /\ ixx[1].pos = 1
    BY <1>1, <2>1, <2>2
  <2> QED
    BY <2>1, <2>3 DEF EndOfWritten
<1>4. Cycles(ixx, d, c)
  BY <1>2 DEF Linked, Cycles
<1>5. Tied(ixx, d)
  <2> SUFFICES ASSUME NEW i \in DOMAIN d, d[i].indexed
               PROVE  \E K \in DOMAIN ixx, j \in DOMAIN d :
                          /\ Covers(ixx, K, i)
                          /\ d[j].cycle = d[i].cycle /\ d[j].indexed
                          /\ d[j].day = ixx[K].day
    BY DEF Tied
  <2>1. PICK K \in DOMAIN ix, j \in DOMAIN d :
            /\ Covers(ix, K, i)
            /\ d[j].cycle = d[i].cycle /\ d[j].indexed /\ d[j].day = ix[K].day
    BY DEF Linked, Tied
  <2>2. K \in DOMAIN ixx /\ ixx[K] = ix[K]
    BY <1>1
  <2>3. Covers(ixx, K, i)
    BY <1>2, <2>1, <2>2 DEF Covers
  <2> QED
    BY <2>1, <2>2, <2>3
<1> QED
  BY <1>3, <1>4, <1>5 DEF Linked

\* A cycle is closed: its lines follow, and all entries are before them.
LEMMA CloseLinked ==
    ASSUME TypeOK, OpenCycle, Good(index, data), Linked(index, data, written, cycle)
    PROVE  Linked(index, data \o buffer, written \o buffer, cycle)
<1> DEFINE d == data \o buffer
           w == written \o buffer
           N == Len(data)
           W == Len(written)
<1>1. /\ data \in Seq(Line) /\ buffer \in Seq(Line) /\ written \in Seq(Line)
      /\ index \in Seq(Entry) /\ N \in Nat /\ W \in Nat /\ N >= 1
      /\ Len(buffer) \in Nat /\ Len(index) \in Nat
      /\ DOMAIN data = 1..N /\ DOMAIN buffer = 1..Len(buffer)
      /\ DOMAIN index = 1..Len(index)
  BY DEF TypeOK, Good
<1>2. /\ Len(d) = N + Len(buffer) /\ DOMAIN d = 1..(N + Len(buffer))
      /\ \A i \in 1..N : d[i] = data[i]
      /\ \A i \in (N + 1)..Len(d) : i - N \in 1..Len(buffer) /\ d[i] = buffer[i - N]
      /\ \A x \in 1..Len(buffer) : d[N + x] = buffer[x]
  <2>1. d \in Seq(Line)
    BY <1>1, ConcatType
  <2>2. DOMAIN d = 1..Len(d)
    BY <2>1
  <2> QED
    BY <1>1, <2>2, ConcatElements
<1>3. /\ Len(w) = W + Len(buffer)
      /\ \A i \in 1..W : w[i] = written[i]
      /\ \A x \in 1..Len(buffer) : w[W + x] = buffer[x]
  BY <1>1, ConcatElements
<1>4. \A k \in DOMAIN index : index[k].pos \in 1..N
  BY DEF Good
<1> HIDE DEF d, w
<1>5. EndOfWritten(index, d, w)
  <2>1. PICK cut \in 0..(W - 1) : /\ EndFrom(data, written, cut)
                                  /\ cut > 0 => index # <<>> /\ index[1].pos = 1
    BY DEF Linked, EndOfWritten
  <2>2. N = W - cut /\ data[1] = Header /\ \A i \in 2..N : data[i] = written[cut + i]
    BY <2>1 DEF EndFrom
  <2>3. cut \in 0..(Len(w) - 1) /\ Len(d) = Len(w) - cut
    BY <1>1, <1>2, <1>3, <2>2
  <2>4. d[1] = Header
    BY <1>1, <1>2, <2>2
  <2>5. ASSUME NEW i \in 2..Len(d) PROVE d[i] = w[cut + i]
    <3>1. CASE i <= N
      <4>1. i \in 1..N /\ i \in 2..N /\ cut + i \in 1..W
        BY <1>1, <2>2, <3>1
      <4> QED
        BY <1>2, <1>3, <2>2, <4>1
    <3>2. CASE i > N
      <4>1. i \in (N + 1)..Len(d) /\ cut + i = W + (i - N)
        BY <1>1, <2>2, <3>2
      <4> QED
        BY <1>2, <1>3, <4>1
    <3> QED
      BY <1>1, <3>1, <3>2
  <2> QED
    BY <2>1, <2>3, <2>4, <2>5 DEF EndOfWritten, EndFrom
<1>6. Cycles(index, d, cycle)
  <2>1. \A i \in 1..N : data[i].cycle \in Nat /\ data[i].cycle < cycle /\ cycle \in Nat
    BY <1>1, LineCycles DEF OpenCycle, TypeOK
  <2>2. cycle \in Nat /\ cycle > 0
    <3>1. 1 \in 1..N
      BY <1>1
    <3> QED
      BY <2>1, <3>1
  <2>3. \A i \in (N + 1)..Len(d) : d[i].cycle = cycle
    BY <1>1, <1>2 DEF OpenCycle
  <2>4. ASSUME NEW i \in DOMAIN d
        PROVE  d[i].cycle <= cycle /\ (i > 1 => d[i].cycle > 0)
    <3>1. CASE i \in 1..N
      BY <1>1, <1>2, <3>1 DEF Linked, Cycles
    <3>2. CASE i \in (N + 1)..Len(d)
      BY <2>2, <2>3, <3>2
    <3> QED
      BY <1>1, <1>2, <3>1, <3>2
  <2>5. ASSUME NEW k \in DOMAIN index, NEW i \in DOMAIN d, NEW j \in DOMAIN d,
               i <= index[k].pos, index[k].pos < j
        PROVE  d[i].cycle # d[j].cycle
    <3>1. index[k].pos \in 1..N /\ i \in 1..N /\ d[i] = data[i]
      BY <1>1, <1>2, <1>4, <2>5
    <3>2. CASE j \in 1..N
      BY <1>1, <1>2, <2>5, <3>1, <3>2 DEF Linked, Cycles
    <3>3. CASE j \in (N + 1)..Len(d)
      <4>1. d[j].cycle = cycle /\ data[i].cycle < cycle /\ data[i].cycle \in Nat
        BY <2>1, <2>3, <3>1, <3>3
      <4> QED
        BY <2>2, <3>1, <4>1
    <3> QED
      BY <1>1, <1>2, <3>2, <3>3
  <2> QED
    BY <2>4, <2>5 DEF Cycles
<1>7. Tied(index, d)
  <2> SUFFICES ASSUME NEW i \in DOMAIN d, d[i].indexed
               PROVE  \E K \in DOMAIN index, j \in DOMAIN d :
                          /\ Covers(index, K, i)
                          /\ d[j].cycle = d[i].cycle /\ d[j].indexed
                          /\ d[j].day = index[K].day
    BY DEF Tied
  <2>1. CASE i \in 1..N
    <3>1. data[i] = d[i] /\ i \in DOMAIN data
      BY <1>1, <1>2, <2>1
    <3>2. PICK K \in DOMAIN index, j \in DOMAIN data :
              /\ Covers(index, K, i)
              /\ data[j].cycle = data[i].cycle /\ data[j].indexed
              /\ data[j].day = index[K].day
      BY <3>1 DEF Linked, Tied
    <3>3. j \in DOMAIN d /\ d[j] = data[j]
      BY <1>1, <1>2
    <3> QED
      BY <3>1, <3>2, <3>3
  <2>2. CASE i \in (N + 1)..Len(d)
    <3>1. i - N \in DOMAIN buffer /\ d[i] = buffer[i - N]
      BY <1>1, <1>2, <2>2
    <3>2. PICK y \in DOMAIN buffer : /\ index # <<>> /\ buffer[y].indexed
                                     /\ buffer[y].day = index[Len(index)].day
      BY <3>1 DEF OpenCycle
    <3> DEFINE K == Len(index)
    <3>3. K \in DOMAIN index
      <4>1. Len(index) # 0
        BY <1>1, <3>2
      <4> QED
        BY <1>1, <4>1
    <3>4. Covers(index, K, i)
      <4>1. index[K].pos < i
        BY <1>1, <1>4, <2>2, <3>3
      <4> QED
        BY <1>1, <4>1 DEF Covers
    <3>5. N + y \in DOMAIN d /\ d[N + y] = buffer[y]
      BY <1>1, <1>2
    <3>6. d[N + y].cycle = d[i].cycle
      BY <3>1, <3>5 DEF OpenCycle
    <3> QED
      BY <3>2, <3>3, <3>4, <3>5, <3>6
  <2> QED
    BY <1>1, <1>2, <2>1, <2>2
<1> QED
  BY <1>5, <1>6, <1>7 DEF Linked, d, w

\* A cleanup cuts between two cycles, at the first entry it keeps.
LEMMA CopyLinked ==
    ASSUME TypeOK, NEW n \in 1..Len(index), CopyRecent(n), Good(index, data),
           Linked(index, data, written, cycle)
    PROVE  Linked(indexTmp', dataTmp', written, cycle)
<1> DEFINE ix == indexTmp'
           d == dataTmp'
           L == Len(index) - n
           N == Len(data)
           start == CopyStart(n)
<1>1. /\ index \in Seq(Entry) /\ data \in Seq(Line) /\ Len(index) \in Nat
      /\ n \in Nat /\ n >= 1 /\ L \in Nat /\ L + n = Len(index) /\ N \in Nat
      /\ DOMAIN index = 1..Len(index) /\ DOMAIN data = 1..N
      /\ written \in Seq(Line) /\ Len(written) \in Nat
  BY DEF TypeOK
<1>2. /\ start \in 1..N /\ start = index[L + 1].pos
      /\ DOMAIN ix = 1..n /\ Len(ix) = n
      /\ \A k \in 1..n : /\ L + k \in DOMAIN index
                         /\ ix[k].pos = index[L + k].pos - start + 1
                         /\ ix[k].day = index[L + k].day
      /\ Len(d) = N - start + 1 /\ d[1] = Header
      /\ DOMAIN d = 1..Len(d)
      /\ \A i \in 2..Len(d) : /\ i + start - 1 \in 2..N
                              /\ d[i] = data[i + start - 1]
  <2>1. d \in Seq(Line)
    BY CopyFacts
  <2>2. DOMAIN d = 1..Len(d)
    BY <2>1
  <2> QED
    BY <2>2, CopyFacts DEF CopyStart
<1>3. \A k \in DOMAIN index : index[k].pos \in 1..N
  BY DEF Good
<1>10. /\ N \in Nat /\ start \in Nat /\ start >= 1 /\ start <= N
      /\ Len(d) = N - start + 1 /\ Len(d) \in Nat
  BY <1>1, <1>2
<1> HIDE DEF ix, d, L, N, start
<1>4. \A m \in DOMAIN index : m > L => m - L \in 1..n /\ ix[m - L].pos = index[m].pos - start + 1
  <2> SUFFICES ASSUME NEW m \in DOMAIN index, m > L
               PROVE  m - L \in 1..n /\ ix[m - L].pos = index[m].pos - start + 1
    OBVIOUS
  <2>1. m - L \in 1..n /\ L + (m - L) = m
    BY <1>1
  <2> QED
    BY <1>2, <2>1
<1>5. EndOfWritten(ix, d, written)
  <2>1. PICK cut \in 0..(Len(written) - 1) : EndFrom(data, written, cut)
    BY DEF Linked, EndOfWritten
  <2>2. /\ N = Len(written) - cut
        /\ \A i \in 2..N : data[i] = written[cut + i]
    BY <2>1 DEF EndFrom, N
  <2> DEFINE more == cut + start - 1
             W == Len(written)
  <2>3. more \in 0..(W - 1) /\ Len(d) = W - more
    <3>1. W \in Nat /\ cut \in Nat /\ N = W - cut
      BY <1>1, <2>2
    <3> HIDE DEF W
    <3> QED
      BY <1>10, <3>1
  <2>4. ASSUME NEW i \in 2..Len(d) PROVE d[i] = written[more + i]
    <3>1. i + start - 1 \in 2..N /\ d[i] = data[i + start - 1]
          /\ cut + (i + start - 1) = more + i
      <4>1. i \in Nat /\ cut \in Nat
        BY <1>10
      <4>2. i + start - 1 \in 2..N /\ d[i] = data[i + start - 1]
        BY <1>2
      <4>3. cut + (i + start - 1) = (cut + start - 1) + i
        BY <1>10, <4>1
      <4> QED
        BY <4>2, <4>3
    <3> QED
      BY <2>2, <3>1
  <2>5. ix # <<>> /\ ix[1].pos = 1
    <3>1. 1 \in 1..n
      BY <1>1
    <3>2. ix[1].pos = start - start + 1 /\ ix # <<>>
      BY <1>2, <3>1
    <3> QED
      BY <1>2, <3>2
  <2> HIDE DEF more
  <2> QED
    BY <1>2, <2>3, <2>4, <2>5 DEF EndOfWritten, EndFrom
<1>6. Cycles(ix, d, cycle)
  <2>1. Header.cycle = 0 /\ cycle \in Nat
    BY DatalogAssumption DEF Header, TypeOK
  <2>2. ASSUME NEW i \in 2..Len(d)
        PROVE  /\ d[i].cycle <= cycle /\ d[i].cycle > 0
               /\ i + start - 1 \in DOMAIN data /\ d[i] = data[i + start - 1]
    <3>1. i + start - 1 \in DOMAIN data /\ i + start - 1 > 1
          /\ d[i] = data[i + start - 1]
      <4>1. i + start - 1 \in 2..N /\ d[i] = data[i + start - 1]
        BY <1>2
      <4> QED
        BY <1>1, <1>10, <4>1
    <3> QED
      BY <3>1 DEF Linked, Cycles
  <2>3. ASSUME NEW i \in DOMAIN d
        PROVE  d[i].cycle <= cycle /\ (i > 1 => d[i].cycle > 0)
    <3>1. CASE i = 1
      BY <1>2, <2>1, <3>1
    <3>2. CASE i # 1
      <4>1. i \in 2..Len(d)
        BY <1>1, <1>2, <3>2
      <4> QED
        BY <2>2, <4>1
    <3> QED
      BY <3>1, <3>2
  <2>4. ASSUME NEW k \in DOMAIN ix, NEW i \in DOMAIN d, NEW j \in DOMAIN d,
               i <= ix[k].pos, ix[k].pos < j
        PROVE  d[i].cycle # d[j].cycle
    <3> DEFINE p == index[L + k].pos
    <3>1. L + k \in DOMAIN index /\ ix[k].pos = p - start + 1 /\ p \in 1..N
      BY <1>2, <1>3
    <3>10. p \in Nat /\ p >= 1 /\ i \in 1..Len(d) /\ j \in 1..Len(d)
      <4>1. p \in Nat /\ p >= 1
        <5> HIDE DEF p
        <5> QED
          BY <1>10, <3>1
      <4>2. DOMAIN d = 1..Len(d)
        BY <1>2
      <4> QED
        BY <4>1, <4>2
    <3> HIDE DEF p
    <3>2. j \in 2..Len(d) /\ p < j + start - 1
      <4> DEFINE q == ix[k].pos
      <4>1. i <= q /\ q < j /\ q = p - start + 1
        BY <2>4, <3>1
      <4>2. start \in Int /\ p \in Int /\ i \in Nat /\ i >= 1 /\ j \in 1..Len(d)
        BY <1>10, <3>10
      <4> HIDE DEF q, start, d
      <4>3. Len(d) \in Nat
        BY <1>10
      <4> QED
        BY <4>1, <4>2, <4>3
    <3>3. CASE i = 1
      <4>1. d[i].cycle = 0 /\ d[j].cycle > 0
        BY <1>2, <2>1, <2>2, <3>2, <3>3
      <4> QED
        BY <4>1
    <3>4. CASE i # 1
      <4>1. i \in 2..Len(d) /\ i + start - 1 <= p
        BY <1>10, <2>4, <3>1, <3>4, <3>10
      <4>2. /\ i + start - 1 \in DOMAIN data /\ d[i] = data[i + start - 1]
            /\ j + start - 1 \in DOMAIN data /\ d[j] = data[j + start - 1]
        BY <2>2, <3>2, <4>1
      <4> QED
        BY <3>1, <3>2, <4>1, <4>2 DEF Linked, Cycles, p
    <3> QED
      BY <3>3, <3>4
  <2> QED
    BY <2>3, <2>4 DEF Cycles
<1>7. Tied(ix, d)
  <2> SUFFICES ASSUME NEW i \in DOMAIN d, d[i].indexed
               PROVE  \E K \in DOMAIN ix, j \in DOMAIN d :
                          /\ Covers(ix, K, i)
                          /\ d[j].cycle = d[i].cycle /\ d[j].indexed
                          /\ d[j].day = ix[K].day
    BY DEF Tied
  <2>1. i \in 2..Len(d)
    <3>1. Header.indexed = FALSE
      BY DEF Header
    <3>2. i # 1
      BY <1>2, <3>1
    <3> QED
      BY <1>1, <1>2, <3>2
  <2> DEFINE o == i + start - 1
  <2>2. o \in DOMAIN data /\ d[i] = data[o] /\ o > start
    <3>1. o \in 2..N /\ d[i] = data[o]
      BY <1>2, <2>1
    <3>2. o \in DOMAIN data
      <4> HIDE DEF o
      <4> QED
        BY <1>1, <1>10, <3>1
    <3>3. o > start
      BY <1>10, <2>1
    <3> QED
      BY <3>1, <3>2, <3>3
  <2>3. PICK M \in DOMAIN index, q \in DOMAIN data :
            /\ Covers(index, M, o)
            /\ data[q].cycle = data[o].cycle /\ data[q].indexed
            /\ data[q].day = index[M].day
    BY <2>2 DEF Linked, Tied
  <2>4. L + 1 \in DOMAIN index /\ index[L + 1].pos < o
    BY <1>1, <1>2, <2>2
  <2>5. M > L
    BY <1>1, <2>3, <2>4 DEF Covers
  <2> DEFINE K == M - L
             j == q - start + 1
  <2>6. K \in DOMAIN ix /\ ix[K].pos = index[M].pos - start + 1 /\ ix[K].day = index[M].day
    <3>1. K \in 1..n /\ L + K = M
      BY <1>1, <2>5
    <3> QED
      BY <1>2, <3>1
  <2>7. start < q
    <3> SUFFICES ASSUME q <= start PROVE FALSE
      BY <1>1, <1>2
    <3>1. data[q].cycle # data[o].cycle
      BY <1>2, <2>2, <2>4 DEF Linked, Cycles
    <3> QED
      BY <2>3, <3>1
  <2>8. j \in 2..Len(d) /\ d[j] = data[q]
    <3>1. j \in 2..Len(d) /\ j + start - 1 = q
      <4>1. q \in 1..N
        BY <1>1
      <4> QED
        BY <1>10, <2>7, <4>1
    <3> QED
      BY <1>2, <3>1
  <2>9. Covers(ix, K, i)
    <3>1. index[M].pos \in 1..N /\ index[M].pos < o
      BY <1>3, <2>3 DEF Covers
    <3>10. i \in Nat /\ o \in Nat /\ o = i + start - 1
      BY <1>10, <2>1
    <3>2. ix[K].pos < i
      <4> DEFINE p == index[M].pos
      <4>1. p \in Nat /\ p < o /\ ix[K].pos = p - start + 1
        BY <1>10, <2>6, <3>1
      <4> HIDE DEF p, o, K
      <4> QED
        BY <1>10, <3>10, <4>1
    <3>3. ASSUME NEW m \in DOMAIN ix, ix[m].pos < i PROVE m <= K
      <4>1. /\ L + m \in DOMAIN index /\ ix[m].pos = index[L + m].pos - start + 1
            /\ index[L + m].pos \in 1..N
        BY <1>2, <1>3
      <4>2. index[L + m].pos < o
        <5> DEFINE p == index[L + m].pos
        <5>1. p \in Nat /\ p - start + 1 < i
          BY <1>10, <3>3, <4>1
        <5> HIDE DEF p, o
        <5>2. p < o
          BY <1>10, <3>10, <5>1
        <5> QED
          BY <5>2 DEF p
      <4>3. L + m <= M
        BY <2>3, <4>1, <4>2 DEF Covers
      <4> QED
        BY <1>1, <1>2, <4>3
    <3> QED
      BY <3>2, <3>3 DEF Covers
  <2>10. j \in DOMAIN d
    <3> HIDE DEF j
    <3> QED
      BY <1>2, <1>10, <2>8
  <2> QED
    BY <2>2, <2>3, <2>6, <2>8, <2>9, <2>10
<1> QED
  BY <1>5, <1>6, <1>7 DEF Linked, ix, d

\* A line that the index knows has the day of its last entry.
LEMMA LogLineLinks ==
    ASSUME TypeOK, TypeOK', DatesInv', PointsInv, LinksInv, intact,
           NEW day \in Days, NEW opens \in BOOLEAN, LogLine(day, opens)
    PROVE  Linked(index', data, written, cycle) /\ OpenCycle'
<1> DEFINE line == [day |-> day, cycle |-> cycle,
                    indexed |-> (previousDatalogDate' = day)]
           e == [day |-> day, pos |-> Len(data)]
<1>1. /\ step = "logging" /\ step' = "logging"
      /\ UNCHANGED <<data, cycle, written>>
      /\ buffer' = Append(buffer, line)
      /\ index' = index \/ index' = Append(index, e)
      /\ previousDatalogDate' # day => index' = index
  <2>1. CASE previousDatalogDate # day /\ opens
    BY <2>1 DEF LogLine, NewDay, IndexDay, history
  <2>2. CASE ~(previousDatalogDate # day /\ opens)
    BY <2>2 DEF LogLine, NewDay, history
  <2> QED
    BY <2>1, <2>2
<1>u. ~unread'
  BY DEF LogLine, history, DatesInv
<1>2. Linked(index, data, written, cycle) /\ OpenCycle
  BY <1>1 DEF LinksInv
<1>3. /\ index \in Seq(Entry) /\ data \in Seq(Line) /\ written \in Seq(Line)
      /\ cycle \in Nat /\ buffer \in Seq(Line) /\ index' \in Seq(Entry)
  BY DatalogAssumption DEF TypeOK
<1>4. Linked(index', data, written, cycle)
  <2>1. e.pos = Len(data)
    OBVIOUS
  <2> HIDE DEF e
  <2> QED
    BY <1>1, <1>2, <1>3, <2>1, AppendLinked
<1>5. /\ Len(buffer) \in Nat /\ DOMAIN buffer = 1..Len(buffer)
      /\ DOMAIN buffer' = 1..(Len(buffer) + 1)
      /\ \A x \in 1..Len(buffer) : buffer'[x] = buffer[x]
      /\ buffer'[Len(buffer) + 1] = line
  <2> HIDE DEF line
  <2> QED
    BY <1>1, <1>3
<1>6. line.cycle = cycle /\ line.day = day /\ (line.indexed <=> previousDatalogDate' = day)
  OBVIOUS
<1>7. \A x \in DOMAIN buffer' : buffer'[x].cycle = cycle
  BY <1>2, <1>5, <1>6 DEF OpenCycle
<1> DEFINE y == Len(buffer) + 1
<1>8. y \in DOMAIN buffer' /\ buffer'[y] = line
  BY <1>5
<1>9. previousDatalogDate' = IF index' = <<>> THEN 0 ELSE index'[Len(index')].day
  BY <1>1, <1>u DEF DatesInv, MemoryAgrees
<1>10. day # 0
  BY DEF Days
<1>11. CASE previousDatalogDate' = day
  <2>1. index' # <<>> /\ index'[Len(index')].day = day
    BY <1>9, <1>10, <1>11
  <2>2. buffer'[y].indexed /\ buffer'[y].day = index'[Len(index')].day
    BY <1>6, <1>8, <1>11, <2>1
  <2> HIDE DEF y, line
  <2> QED
    BY <1>1, <1>2, <1>4, <1>7, <1>8, <2>1, <2>2 DEF OpenCycle
<1>12. CASE previousDatalogDate' # day
  <2>1. index' = index
    BY <1>1, <1>12
  <2>2. \A x \in DOMAIN buffer' : buffer'[x].indexed =>
            x \in DOMAIN buffer /\ buffer'[x] = buffer[x]
    BY <1>5, <1>6, <1>12
  <2>3. \A x \in DOMAIN buffer : x \in DOMAIN buffer' /\ buffer'[x] = buffer[x]
    BY <1>5
  <2> HIDE DEF y, line
  <2>4. ASSUME \E x \in DOMAIN buffer' : buffer'[x].indexed
        PROVE  /\ index' # <<>>
               /\ \E z \in DOMAIN buffer' : /\ buffer'[z].indexed
                                            /\ buffer'[z].day = index'[Len(index')].day
    <3>1. \E x \in DOMAIN buffer : buffer[x].indexed
      BY <2>2, <2>4
    <3>2. PICK z \in DOMAIN buffer : /\ index # <<>> /\ buffer[z].indexed
                                     /\ buffer[z].day = index[Len(index)].day
      BY <1>2, <3>1 DEF OpenCycle
    <3> QED
      BY <2>1, <2>3, <3>2
  <2> QED
    BY <1>1, <1>2, <1>4, <1>7, <2>4 DEF OpenCycle
<1> QED
  BY <1>11, <1>12

\* Lines, entries and what was written stay together, through logging, cleanups,
\* resets, boots, and power failures that leave them intact.
THEOREM LinksKept == Spec => []LinksInv
<1> USE DEF files, dates, history
<1>1. Init => LinksInv
  BY DEF Init, LinksInv
<1>2. TypeOK /\ TypeOK' /\ DatesInv' /\ PointsInv /\ LinksInv /\ [Next]_vars => LinksInv'
  <2> SUFFICES ASSUME TypeOK, TypeOK', DatesInv', PointsInv, LinksInv, [Next]_vars
               PROVE  LinksInv'
    OBVIOUS
  <2>9. cycle \in Nat /\ data \in Seq(Line)
    BY DatalogAssumption DEF TypeOK
  <2>1. CASE StartLog
    <3>1. /\ cycle' = cycle + 1 /\ cycle' \in Nat /\ step = "loop" /\ buffer = <<>>
          /\ UNCHANGED <<data, index, written, buffer, intact>> /\ step' = "logging"
      BY <2>1, <2>9 DEF StartLog, PointsInv
    <3>2. ASSUME intact PROVE Linked(index', data', written', cycle') /\ OpenCycle'
      <4>1. Linked(index, data, written, cycle)
        BY <3>1, <3>2 DEF LinksInv
      <4>2. Linked(index, data, written, cycle')
        BY <2>9, <3>1, <4>1, LaterLinked
      <4>3. \A i \in DOMAIN data : data[i].cycle < cycle'
        <5>1. \A i \in DOMAIN data : data[i].cycle \in Nat /\ data[i].cycle <= cycle
          BY <2>9, <4>1, LineCycles DEF Linked, Cycles
        <5> QED
          BY <2>9, <3>1, <5>1
      <4>4. DOMAIN buffer' = {}
        BY <3>1
      <4> QED
        BY <3>1, <4>2, <4>3, <4>4 DEF OpenCycle
    <3> QED
      BY <3>1, <3>2 DEF LinksInv
  <2>2. ASSUME NEW day \in Days, NEW opens \in BOOLEAN, LogLine(day, opens)
        PROVE  LinksInv'
    <3>1. UNCHANGED <<data, written, cycle, intact, step>> /\ step = "logging"
      BY <2>2 DEF LogLine
    <3>2. intact => Linked(index', data, written, cycle) /\ OpenCycle'
      BY <2>2, LogLineLinks
    <3> QED
      BY <3>1, <3>2 DEF LinksInv
  <2>3. CASE CloseLog
    <3>1. /\ data' = data \o buffer /\ written' = written \o buffer
          /\ UNCHANGED <<index, cycle, intact>> /\ step = "logging" /\ step' = "loop"
      BY <2>3 DEF CloseLog
    <3>2. ASSUME intact PROVE Linked(index, data \o buffer, written \o buffer, cycle)
      <4>1. Linked(index, data, written, cycle) /\ OpenCycle /\ Good(index, data)
        BY <3>1, <3>2 DEF LinksInv, PointsInv
      <4> QED
        BY <4>1, CloseLinked
    <3> QED
      BY <3>1, <3>2 DEF LinksInv
  <2>4. CASE Cleanup
    <3>1. ASSUME NEW n \in 1..Len(index), CopyRecent(n) PROVE LinksInv'
      <4>1. /\ UNCHANGED <<data, index, written, cycle, intact>>
            /\ step = "loop" /\ step' = "copied"
        BY <3>1 DEF CopyRecent
      <4>2. ASSUME intact
            PROVE  /\ Linked(index, data, written, cycle)
                   /\ Linked(indexTmp', dataTmp', written, cycle)
        <5>1. Linked(index, data, written, cycle) /\ Good(index, data)
          BY <4>1, <4>2 DEF LinksInv, PointsInv
        <5> QED
          BY <3>1, <5>1, CopyLinked
      <4> QED
        BY <4>1, <4>2 DEF LinksInv
    <3>2. CASE RefuseCleanup
      BY <3>2 DEF RefuseCleanup, LinksInv
    <3>3. CASE RemoveData
      BY <3>3 DEF RemoveData, LinksInv
    <3>4. CASE RenameData
      BY <3>4 DEF RenameData, LinksInv
    <3>5. CASE RemoveIndex
      BY <3>5 DEF RemoveIndex, LinksInv
    <3>6. CASE RenameIndex
      BY <3>6 DEF RenameIndex, LinksInv
    <3>7. CASE EndCleanup
      BY <3>7 DEF EndCleanup, LinksInv
    <3> QED
      BY <2>4, <3>1, <3>2, <3>3, <3>4, <3>5, <3>6, <3>7 DEF Cleanup
  <2>5. CASE Create
    <3>1. CASE Reset
      BY <3>1 DEF Reset, LinksInv
    <3>2. CASE CreateData
      BY <3>2 DEF CreateData, LinksInv
    <3>3. CASE WriteHeader
      BY <3>3 DEF WriteHeader, LinksInv
    <3>4. CASE Unindex
      BY <3>4 DEF Unindex, LinksInv
    <3>5. ASSUME NEW opens \in BOOLEAN, NewIndex(opens) PROVE LinksInv'
      <4>1. /\ data' = <<Header>> /\ written' = <<Header>> /\ index' = <<>>
            /\ cycle' = cycle /\ step' = "loop"
        BY <3>5 DEF NewIndex, LinksInv, PointsInv
      <4> HIDE DEF Header
      <4>2. Linked(index', data', written', cycle')
        BY <2>9, <4>1, NewLinked
      <4> QED
        BY <4>1, <4>2 DEF LinksInv
    <3>6. CASE CreateFails
      BY <3>6 DEF CreateFails, LinksInv
    <3> QED
      BY <2>5, <3>1, <3>2, <3>3, <3>4, <3>5, <3>6 DEF Create
  <2>6. CASE Crash
    <3>1. /\ UNCHANGED <<present, data, index, written, cycle>> /\ step' = "off"
          /\ intact' => intact /\ step \in {"loop", "logging", "copied", "indexSwapped",
                                            "create", "newIndex"}
      BY <2>6 DEF Crash
    <3>2. ASSUME intact', "datalog" \in present
          PROVE  Linked(index, data, written, cycle)
      <4>1. CASE step = "newIndex"
        <5>1. data = <<Header>> /\ index = <<>> /\ written = <<Header>>
          BY <4>1 DEF PointsInv, LinksInv
        <5> HIDE DEF Header
        <5> QED
          BY <2>9, <5>1, NewLinked
      <4>2. CASE step # "newIndex"
        BY <3>1, <3>2, <4>2 DEF PointsInv, LinksInv
      <4> QED
        BY <4>1, <4>2
    <3> QED
      BY <3>1, <3>2 DEF LinksInv
  <2>7. CASE Boot
    BY <2>7 DEF Boot, LinksInv
  <2>8. CASE UNCHANGED vars
    BY <2>8 DEF vars, LinksInv, OpenCycle
  <2> QED
    BY <2>1, <2>2, <2>3, <2>4, <2>5, <2>6, <2>7, <2>8 DEF Next
<1> QED
  BY <1>1, <1>2, TypeCorrect, DatesKept, PointsKept, PTL DEF Spec

\* The end of what was written, under a header of its own.
LEMMA WrittenEnd ==
    ASSUME NEW w \in Seq(Line), NEW p \in 1..Len(w),
           NEW t, t = <<Header>> \o SubSeq(w, p + 1, Len(w))
    PROVE  /\ t \in Seq(Line) /\ Len(t) = Len(w) - p + 1 /\ t[1] = Header
           /\ \A i \in 2..Len(t) : t[i] = w[i + p - 1]
<1> HIDE DEF Header
<1> QED
  BY HeaderType, HeaderAndRest

\* A cleanup cuts off old lines only (cleanupDatalog(), lines 4301-4375): the
\* datalog is the end of what was written, from the first day of the index on.
THEOREM NewestLinesKept == Spec => []NewestKept
<1>1. TypeOK /\ LinksInv => NewestKept
  <2> SUFFICES ASSUME TypeOK, LinksInv, step = "loop", intact
               PROVE  \E cut \in 0..(Len(written) - 1) :
                          /\ data = <<Header>> \o SubSeq(written, cut + 2, Len(written))
                          /\ cut > 0 => index # <<>> /\ index[1].pos = 1
    BY DEF NewestKept
  <2>1. PICK cut \in 0..(Len(written) - 1) :
            /\ EndFrom(data, written, cut)
            /\ cut > 0 => index # <<>> /\ index[1].pos = 1
    BY DEF LinksInv, Linked, EndOfWritten
  <2> DEFINE p == cut + 1
             t == <<Header>> \o SubSeq(written, p + 1, Len(written))
  <2>2. /\ written \in Seq(Line) /\ data \in Seq(Line) /\ p \in 1..Len(written)
        /\ Len(written) \in Nat /\ cut \in Nat
    BY DEF TypeOK
  <2>3. /\ t \in Seq(Line) /\ Len(t) = Len(written) - p + 1 /\ t[1] = Header
        /\ \A i \in 2..Len(t) : t[i] = written[i + p - 1]
    <3> HIDE DEF t, p
    <3>1. t = <<Header>> \o SubSeq(written, p + 1, Len(written))
      BY DEF t
    <3> QED
      BY <2>2, <3>1, WrittenEnd
  <2> HIDE DEF t
  <2>4. Len(data) = Len(t) /\ Len(data) \in Nat
    BY <2>1, <2>2, <2>3 DEF EndFrom
  <2>5. ASSUME NEW i \in 1..Len(data) PROVE data[i] = t[i]
    <3>1. CASE i = 1
      BY <2>1, <2>3, <3>1 DEF EndFrom
    <3>2. CASE i # 1
      <4>1. i \in 2..Len(data) /\ i + p - 1 = cut + i
        BY <2>2, <2>4, <3>2
      <4>2. t[i] = written[i + p - 1]
        BY <2>3, <2>4, <4>1
      <4> QED
        BY <2>1, <4>1, <4>2 DEF EndFrom
    <3> QED
      BY <3>1, <3>2
  <2>6. data = t
    BY <2>2, <2>3, <2>4, <2>5, SeqEqual
  <2>7. p + 1 = cut + 2
    BY <2>2
  <2> QED
    BY <2>1, <2>6, <2>7 DEF t
<1> QED
  BY <1>1, TypeCorrect, LinksKept, PTL

-----------------------------------------------------------------------------
(* Dumps by date                                                            *)

LEMMA EarliestIs ==
    ASSUME TypeOK, NEW K, K \subseteq DOMAIN index, K # {}
    PROVE  \E k \in K : (\A j \in K : k <= j) /\ Earliest(K) = index[k].pos
<1>1. K \subseteq Nat
  BY DEF TypeOK
<1>2. \E m \in K : \A j \in K : m <= j
  BY <1>1, LeastElement
<1> DEFINE k == CHOOSE m \in K : \A j \in K : m <= j
<1>3. k \in K /\ \A j \in K : k <= j
  BY <1>2
<1>4. Earliest(K) = index[k].pos
  BY DEF Earliest
<1> HIDE DEF k
<1> QED
  BY <1>3, <1>4

\* The entries that are read are the last ones.
LEMMA SeenUp ==
    ASSUME TypeOK, NEW a \in Days, NEW k \in Seen(a), NEW m \in DOMAIN index, k <= m
    PROVE  m \in Seen(a)
<1>1. Len(index) \in Nat /\ DOMAIN index = 1..Len(index)
  BY DEF TypeOK
<1>2. \A j \in DOMAIN index : j > m => index[j].day >= a
  BY <1>1 DEF Seen
<1>3. \A j \in m..(Len(index) - 1) : index[j].day <= index[j + 1].day
  BY <1>1 DEF Seen
<1> QED
  BY <1>2, <1>3 DEF Seen

\* Their days do not run backwards.
LEMMA SeenDays ==
    ASSUME TypeOK, NEW a \in Days, NEW k \in Seen(a), NEW m \in DOMAIN index, k <= m
    PROVE  index[k].day <= index[m].day
<1>1. /\ Len(index) \in Nat /\ DOMAIN index = 1..Len(index) /\ k \in 1..Len(index)
      /\ \A j \in k..(Len(index) - 1) : index[j].day <= index[j + 1].day
  <2>1. Len(index) \in Nat /\ DOMAIN index = 1..Len(index)
    BY DEF TypeOK
  <2>2. /\ k \in DOMAIN index
        /\ \A j \in k..(Len(index) - 1) : index[j].day <= index[j + 1].day
    BY DEF Seen
  <2> QED
    BY <2>1, <2>2
<1>2. \A j \in 1..Len(index) : index[j].day \in Nat
  <2> SUFFICES ASSUME NEW j \in 1..Len(index) PROVE index[j].day \in Nat
    OBVIOUS
  <2>1. index[j] \in Entry
    BY DEF TypeOK
  <2> QED
    BY <2>1 DEF Entry, Days
<1> DEFINE less == {j \in k..m : index[j].day < index[k].day}
<1>3. SUFFICES ASSUME less # {} PROVE FALSE
  BY <1>1, <1>2
<1>4. less \subseteq Nat
  BY <1>1
<1>5. PICK q \in less : \A j \in less : q <= j
  <2> HIDE DEF less
  <2> QED
    BY <1>3, <1>4, LeastElement
<1>6. q \in k..m /\ q # k /\ index[q].day < index[k].day
  BY <1>1, <1>2, <1>5
<1>7. q - 1 \in k..(Len(index) - 1) /\ q - 1 \in k..m /\ (q - 1) + 1 = q
  BY <1>1, <1>6
<1>8. ~(index[q - 1].day < index[k].day)
  BY <1>1, <1>5, <1>6, <1>7
<1>9. index[q - 1].day <= index[q].day
  BY <1>1, <1>7
<1> QED
  BY <1>1, <1>2, <1>6, <1>7, <1>8, <1>9

LEMMA CoverIs ==
    ASSUME TypeOK, NEW K \in DOMAIN index, NEW i, Covers(index, K, i)
    PROVE  Cover(i) = K
<1> DEFINE Last(k) == /\ index[k].pos < i
                      /\ \A j \in DOMAIN index : index[j].pos < i => j <= k
<1>1. DOMAIN index \subseteq Nat
  BY DEF TypeOK
<1>2. Last(K)
  BY DEF Covers
<1>3. \A k \in DOMAIN index : Last(k) => k <= K /\ K <= k
  BY <1>2
<1>4. \A k \in DOMAIN index : Last(k) => k = K
  BY <1>1, <1>3
<1>5. Cover(i) = CHOOSE k \in DOMAIN index : Last(k)
  BY DEF Cover
<1> HIDE DEF Last
<1> QED
  BY <1>2, <1>4, <1>5

\* The two searches of a dump: the entries from day a on, and those after day b.
AtLeast(a) == {k \in Seen(a) : index[k].day >= a}
After(a, b) == {k \in Seen(a) : index[k].day > b}

LEMMA SeenTypes ==
    ASSUME TypeOK, NEW a \in Days, NEW b \in Days
    PROVE  /\ AtLeast(a) \subseteq DOMAIN index /\ After(a, b) \subseteq DOMAIN index
           /\ DOMAIN index \subseteq Nat
           /\ \A k \in DOMAIN index : index[k].day \in Nat /\ index[k].pos \in Nat
           /\ a \in Nat /\ b \in Nat
<1>1. ASSUME NEW k \in DOMAIN index PROVE index[k].day \in Nat /\ index[k].pos \in Nat
  <2>1. index[k] \in Entry
    BY DEF TypeOK
  <2> QED
    BY <2>1 DEF Entry, Days
<1> QED
  BY <1>1 DEF TypeOK, AtLeast, After, Seen, Days

LEMMA DumpedIs ==
    ASSUME "index" \in present, NEW a, NEW b
    PROVE  Dumped(a, b) =
             LET from == Earliest(AtLeast(a))
                 to == Earliest(After(a, b))
             IN  IF from = 0 THEN {}
                 ELSE {i \in DOMAIN data : from < i /\ (to >= from => i <= to)}
BY DEF Dumped, AtLeast, After

\* The order of index and datalog, as the dumps need it.
LEMMA GoodOrder ==
    ASSUME TypeOK, Good(index, data)
    PROVE  /\ \A k \in DOMAIN index : index[k].pos \in 1..Len(data)
           /\ \A j, k \in DOMAIN index : j <= k => index[j].pos <= index[k].pos
BY DEF Good

\* using.md:56 "Dumps data from log file between <a> and <b>": all lines of these
\* days are sent, of cycles that saw no change of date and as long as the clock
\* was not set back.
THEOREM DumpsComplete == Spec => []RangeComplete
<1>1. TypeOK /\ PointsInv /\ LinksInv => RangeComplete
  <2> SUFFICES ASSUME TypeOK, PointsInv, LinksInv, step = "loop", intact,
                      NEW a \in Days, NEW b \in Days, NEW i \in DOMAIN data,
                      InRange(i, a, b), Reachable(i),
                      \A j \in DOMAIN data : SameCycle(i, j) => data[j].day = data[i].day
               PROVE  i \in Dumped(a, b)
    BY DEF RangeComplete, OneDay
  <2>1. Good(index, data) /\ Linked(index, data, written, cycle)
    BY DEF PointsInv, LinksInv
  <2>2. CASE "index" \notin present
    BY <2>2 DEF Dumped
  <2>3. CASE "index" \in present
    <3>1. data[i].indexed /\ a <= data[i].day /\ data[i].day <= b
      BY DEF InRange
    <3>2. PICK K \in DOMAIN index, j \in DOMAIN data :
              /\ Covers(index, K, i)
              /\ data[j].cycle = data[i].cycle /\ data[j].day = index[K].day
      BY <2>1, <3>1 DEF Linked, Tied
    <3>3. index[K].day = data[i].day
      BY <3>2 DEF SameCycle
    <3>4. Cover(i) = K
      BY <3>2, CoverIs
    <3>5. \A m, q \in DOMAIN index : K <= m /\ m <= q => index[m].day <= index[q].day
      BY <3>4 DEF Reachable
    <3>6. /\ Len(index) \in Nat /\ DOMAIN index = 1..Len(index)
          /\ i \in Nat /\ DOMAIN data = 1..Len(data)
      BY DEF TypeOK
    <3>7. K \in AtLeast(a)
      <4>1. ASSUME NEW m \in DOMAIN index, m > K PROVE index[m].day >= a
        <5>1. index[K].day <= index[m].day
          BY <3>5, <3>6, <4>1
        <5> QED
          BY <3>1, <3>3, <5>1, SeenTypes
      <4>2. ASSUME NEW m \in K..(Len(index) - 1) PROVE index[m].day <= index[m + 1].day
        BY <3>5, <3>6
      <4>3. K \in Seen(a)
        BY <4>1, <4>2 DEF Seen
      <4> QED
        BY <3>1, <3>3, <4>3, SeenTypes DEF AtLeast
    <3>8. PICK k \in AtLeast(a) : /\ \A m \in AtLeast(a) : k <= m
                                  /\ Earliest(AtLeast(a)) = index[k].pos
      BY <3>7, SeenTypes, EarliestIs
    <3>9. index[k].pos \in 1..Len(data) /\ index[k].pos < i
      <4>1. k \in DOMAIN index /\ k <= K
        BY <3>7, <3>8, SeenTypes
      <4>2. index[k].pos \in 1..Len(data) /\ index[k].pos <= index[K].pos
            /\ index[K].pos \in 1..Len(data)
        BY <2>1, <4>1, GoodOrder
      <4>3. index[K].pos < i
        BY <3>2 DEF Covers
      <4> QED
        BY <3>6, <4>2, <4>3
    <3>10. Earliest(After(a, b)) >= index[k].pos => i <= Earliest(After(a, b))
      <4>1. CASE After(a, b) = {}
        <5>1. Earliest(After(a, b)) = 0
          BY <4>1 DEF Earliest
        <5> QED
          BY <3>9, <5>1
      <4>2. CASE After(a, b) # {}
        <5>1. PICK q \in After(a, b) : Earliest(After(a, b)) = index[q].pos
          BY <4>2, SeenTypes, EarliestIs
        <5>2. q \in DOMAIN index /\ q \in Seen(a) /\ index[q].day > b
          BY SeenTypes DEF After
        <5>3. ~(q <= K)
          <6> SUFFICES ASSUME q <= K PROVE FALSE
            OBVIOUS
          <6>1. index[q].day <= index[K].day
            BY <5>2, SeenDays
          <6> QED
            BY <3>1, <3>3, <5>2, <6>1, SeenTypes
        <5>4. ~(index[q].pos < i)
          BY <3>2, <5>2, <5>3 DEF Covers
        <5> QED
          BY <3>6, <5>1, <5>2, <5>4, SeenTypes
      <4> QED
        BY <4>1, <4>2
    <3> QED
      BY <2>3, <3>8, <3>9, <3>10, DumpedIs
  <2> QED
    BY <2>2, <2>3
<1> QED
  BY <1>1, TypeCorrect, PointsKept, LinksKept, PTL

\* A dump sends no indexed line but of a cycle that has a line of its days, also
\* when the dates of the index run backwards (lines 6312-6376).
THEOREM DumpsTight == Spec => []RangeTight
<1>1. TypeOK /\ PointsInv /\ LinksInv => RangeTight
  <2> SUFFICES ASSUME TypeOK, PointsInv, LinksInv, step = "loop", intact,
                      "index" \in present, NEW a \in Days, NEW b \in Days, a <= b,
                      NEW i \in Dumped(a, b), data[i].indexed
               PROVE  \E j \in DOMAIN data : SameCycle(i, j) /\ InRange(j, a, b)
    BY DEF RangeTight
  <2>1. Good(index, data) /\ Linked(index, data, written, cycle)
    BY DEF PointsInv, LinksInv
  <2> DEFINE from == Earliest(AtLeast(a))
             to == Earliest(After(a, b))
  <2>2. from # 0 /\ i \in DOMAIN data /\ from < i /\ (to >= from => i <= to)
    BY DumpedIs
  <2>3. AtLeast(a) # {}
    BY <2>2 DEF Earliest
  <2>4. PICK k \in AtLeast(a) : (\A m \in AtLeast(a) : k <= m) /\ from = index[k].pos
    BY <2>3, SeenTypes, EarliestIs
  <2>5. PICK K \in DOMAIN index, j \in DOMAIN data :
            /\ Covers(index, K, i)
            /\ data[j].cycle = data[i].cycle /\ data[j].indexed
            /\ data[j].day = index[K].day
    BY <2>1, <2>2 DEF Linked, Tied
  <2>6. k \in DOMAIN index /\ k \in Seen(a) /\ index[k].day >= a /\ k <= K
    BY <2>2, <2>4, <2>5, SeenTypes DEF Covers, AtLeast
  <2>7. K \in Seen(a)
    BY <2>6, SeenUp
  <2>8. index[K].day >= a
    <3>1. index[k].day <= index[K].day
      BY <2>6, SeenDays
    <3> QED
      BY <2>6, <3>1, SeenTypes
  <2>9. ~(index[K].day > b)
    <3> SUFFICES ASSUME index[K].day > b PROVE FALSE
      OBVIOUS
    <3>1. K \in After(a, b)
      BY <2>7 DEF After
    <3>2. PICK q \in After(a, b) : (\A m \in After(a, b) : q <= m) /\ to = index[q].pos
      BY <3>1, SeenTypes, EarliestIs
    <3>3. q \in DOMAIN index /\ q <= K /\ q \in AtLeast(a)
      BY <3>1, <3>2, SeenTypes DEF After, AtLeast
    <3>4. k <= q
      BY <2>4, <3>3
    <3>5. index[k].pos <= index[q].pos /\ index[q].pos <= index[K].pos
      BY <2>1, <2>6, <3>3, <3>4, GoodOrder
    <3>6. i <= index[q].pos
      BY <2>2, <2>4, <2>6, <3>2, <3>3, <3>5, SeenTypes
    <3>7. index[K].pos < i /\ i \in Nat
      BY <2>2, <2>5 DEF Covers, TypeOK
    <3> QED
      BY <2>6, <3>3, <3>5, <3>6, <3>7, SeenTypes
  <2>10. InRange(j, a, b) /\ SameCycle(i, j)
    BY <2>5, <2>8, <2>9, SeenTypes DEF InRange, SameCycle
  <2> QED
    BY <2>5, <2>10
<1> QED
  BY <1>1, TypeCorrect, PointsKept, LinksKept, PTL

=============================================================================

-------------------------- MODULE Destination_proofs --------------------------
(***************************************************************************)
(* Proofs about Destination, for every bus, table size and list length.    *)
(***************************************************************************)
EXTENDS Destination, TLAPS

USE DestinationAssumption DEF DestinationAssumption

-----------------------------------------------------------------------------
(* Type correctness *)

\* The locals outside a task are typed.
LEMMA NoTaskType == NoTask \in Task
  BY DEF NoTask, Task

\* One more parameter of a list, for destination d.
LEMMA TaskSteps ==
  ASSUME TypeOK, NEW d \in Addr, NEW known \in BOOLEAN
  PROVE  /\ [task EXCEPT !.i = @ + 1] \in Task
         /\ [task EXCEPT !.d_addr = d, !.i = @ + 1] \in Task
         /\ [task EXCEPT !.i = @ + 1, !.d_addr = d] \in Task
         /\ [task EXCEPT !.d_addr = d, !.known = known, !.i = @ + 1] \in Task
<1>1. task \in Task /\ task.i + 1 \in Nat
  BY DEF TypeOK, Task
<1> DEFINE n == task.i + 1
<1>2. n \in Nat
  BY <1>1
<1> HIDE DEF n
<1>3. /\ [task EXCEPT !.i = n] \in Task
      /\ [task EXCEPT !.d_addr = d, !.i = n] \in Task
      /\ [task EXCEPT !.i = n, !.d_addr = d] \in Task
      /\ [task EXCEPT !.d_addr = d, !.known = known, !.i = n] \in Task
  BY <1>1, <1>2 DEF Task
<1>4. QED
  BY <1>3 DEF n

\* What a task saves at its start is typed: no scan is running then.
LEMMA SavedType ==
  ASSUME TypeOK, pc = "idle"
  PROVE  Saved \in Task
  BY NoTaskType DEF TypeOK, Saved, Task, NoTask, PCs

\* What one of the moves shared by the tasks does to the typed variables.
LEMMA SetTempType ==
  ASSUME TypeOK, NEW d \in Addr, NEW k \in PCs \ {"getdevid", "scan"},
         SetTempDestination(d, k)
  PROVE  /\ pc' \in PCs /\ pc' # "scan" /\ cont' \in PCs \ {"getdevid", "scan"}
         /\ bus_dest' \in Addr /\ save_dest' \in Addr
         /\ my_dev' \in Addr \cup {Nobody}
         /\ dev_lookup' \in [1..Slots -> Addr \cup {Free}]
         /\ success' \in BOOLEAN
  BY DEF TypeOK, SetTempDestination, PCs

\* The same without a change of destination.
LEMMA KeepType ==
  ASSUME TypeOK, pc # "scan", NEW k \in PCs \ {"getdevid", "scan"},
         KeepDestination(k)
  PROVE  /\ pc' \in PCs /\ pc' # "scan" /\ cont' \in PCs \ {"getdevid", "scan"}
         /\ bus_dest' \in Addr /\ save_dest' \in Addr
         /\ my_dev' \in Addr \cup {Nobody}
         /\ dev_lookup' \in [1..Slots -> Addr \cup {Free}]
         /\ success' \in BOOLEAN
  BY DEF TypeOK, KeepDestination, PCs

\* The end of a task keeps every variable typed.
LEMMA EndTaskType ==
  ASSUME TypeOK, pc # "scan", NEW away \in BOOLEAN, EndTask(away)
  PROVE  TypeOK'
  BY NoTaskType DEF TypeOK, EndTask, Restore, Task, PCs, Stages

\* So does every step of GetDevId(), the broadcast included.
LEMMA GetDevIdType ==
  ASSUME TypeOK, GetDevId
  PROVE  TypeOK'
<1> USE DEF TypeOK, Identity, Return, Known
<1>1. CASE DevicesKnown
  BY <1>1 DEF DevicesKnown
<1>2. CASE BroadcastFails
  BY <1>2 DEF BroadcastFails
<1>3. CASE BroadcastQuery
  BY <1>3 DEF BroadcastQuery, PCs
<1>4. ASSUME NEW s \in Devices, DeviceAnswers(s)
      PROVE  TypeOK'
  BY <1>4 DEF DeviceAnswers
<1>5. CASE ScanAccepted
  BY <1>5 DEF ScanAccepted
<1>6. CASE ScanRejected
  BY <1>6 DEF ScanRejected
<1>7. QED
  BY <1>1, <1>2, <1>3, <1>4, <1>5, <1>6 DEF GetDevId

\* So does the start of every request.
LEMMA RequestsType ==
  ASSUME TypeOK, Requests
  PROVE  TypeOK'
<1>1. ASSUME NEW p \in Addr \cup {Default}, NEW checked \in BOOLEAN,
             Command(p, checked)
      PROVE  TypeOK'
  <2>1. task' \in Task
    BY <1>1, SavedType DEF Command, Task, TypeOK
  <2>2. CASE p = Default
    BY <1>1, <2>1, <2>2 DEF Command, TypeOK, PCs
  <2>3. CASE p # Default
    <3>1. SetTempDestination(p, "send")
      BY <1>1, <2>3 DEF Command
    <3>2. stage' \in Stages /\ dest_address' \in Addr
      BY <1>1 DEF Command, TypeOK
    <3>3. QED
      BY <2>1, <2>3, <3>1, <3>2, SetTempType DEF TypeOK, PCs
  <2>4. QED
    BY <2>2, <2>3
<1>2. CASE ListStart
  BY <1>2, SavedType, KeepType DEF ListStart, TypeOK, PCs
<1>3. ASSUME NEW post \in BOOLEAN, JsonStart(post)
      PROVE  TypeOK'
  BY <1>3, SavedType DEF JsonStart, TypeOK, PCs, Task
<1>4. CASE RediscoverStart
  BY <1>4, SavedType, KeepType DEF RediscoverStart, TypeOK, PCs
<1>5. CASE DumpStart
  BY <1>5, SavedType, KeepType DEF DumpStart, TypeOK, PCs
<1>6. ASSUME NEW d \in Addr, SetAddress(d)
      PROVE  TypeOK'
  BY <1>6 DEF SetAddress, TypeOK, PCs
<1>7. QED
  BY <1>1, <1>2, <1>3, <1>4, <1>5, <1>6 DEF Requests

\* So does every step of a running task.
LEMMA WorkType ==
  ASSUME TypeOK, Work
  PROVE  TypeOK'
<1>1. CASE Send
  BY <1>1, EndTaskType DEF Send
<1>2. ASSUME NEW p \in Addr \cup {Default}, ListElsewhere(p)
      PROVE  TypeOK'
  <2>1. p \in Addr /\ task' \in Task
    BY <1>2, TaskSteps DEF ListElsewhere
  <2>2. QED
    BY <1>2, <2>1, SetTempType DEF ListElsewhere, TypeOK, PCs
<1>3. ASSUME NEW p \in Addr \cup {Default}, ListStays(p)
      PROVE  TypeOK'
  <2>1. task' \in Task
    BY <1>3, TaskSteps DEF ListStays
  <2>2. QED
    BY <1>3, <2>1, KeepType DEF ListStays, TypeOK, PCs
<1>4. CASE ListReturns
  <2>1. task.destAddr \in Addr /\ task.my_dev \in Addr \cup {Nobody}
    BY DEF TypeOK, Task
  <2>2. task' \in Task
    BY <1>4, <2>1, TaskSteps DEF ListReturns
  <2>3. QED
    BY <1>4, <2>1, <2>2 DEF ListReturns, Restore, TypeOK, PCs
<1>5. CASE ListSend
  BY <1>5, KeepType DEF ListSend, TypeOK, PCs
<1>6. CASE ListEnd
  BY <1>6, EndTaskType DEF ListEnd
<1>7. ASSUME NEW p \in Addr \cup {Default}, NEW known \in BOOLEAN,
             JsonElement(p, known)
      PROVE  TypeOK'
  <2> DEFINE d == IF p # Default THEN p
                  ELSE IF task.post THEN task.destAddr ELSE task.d_addr
  <2>1. d \in Addr
    BY <1>7 DEF TypeOK, Task
  <2>2. task' \in Task
    BY <1>7, <2>1, TaskSteps DEF JsonElement
  <2>3. CASE d # task.prev
    BY <1>7, <2>1, <2>2, <2>3, SetTempType DEF JsonElement, TypeOK, PCs
  <2>4. CASE d = task.prev
    BY <1>7, <2>2, <2>4, KeepType DEF JsonElement, TypeOK, PCs
  <2>5. QED
    BY <2>3, <2>4
<1>8. CASE JsonSend
  BY <1>8, KeepType DEF JsonSend, TypeOK, PCs, Task
<1>9. CASE JsonSkip
  BY <1>9, KeepType DEF JsonSkip, TypeOK, PCs, Task
<1>10. CASE JsonRefused
  BY <1>10, KeepType DEF JsonRefused, TypeOK, PCs, Task
<1>11. CASE JsonEnd
  BY <1>11, EndTaskType DEF JsonEnd
<1>12. CASE RediscoverDevice
  <2>1. task.i + 1 \in 1..Slots
    BY <1>12 DEF RediscoverDevice, TypeOK, Task
  <2>2. CASE dev_lookup[task.i + 1] = Free
    BY <1>12, <2>2, KeepType, TaskSteps DEF RediscoverDevice, TypeOK, PCs
  <2>3. CASE dev_lookup[task.i + 1] # Free
    <3>1. dev_lookup[task.i + 1] \in Addr
      BY <2>1, <2>3 DEF TypeOK
    <3>2. QED
      BY <1>12, <2>3, <3>1, SetTempType, TaskSteps
         DEF RediscoverDevice, TypeOK, PCs
  <2>4. QED
    BY <2>2, <2>3
<1>13. CASE Announce
  BY <1>13, KeepType DEF Announce, TypeOK, PCs
<1>14. CASE RediscoverEnd
  BY <1>14, EndTaskType DEF RediscoverEnd
<1>15. CASE DumpDevice
  <2>1. task.i + 1 \in 1..Slots /\ bus_dest \in Addr
    BY <1>15 DEF DumpDevice, TypeOK, Task
  <2>2. bus_dest' \in Addr
    BY <1>15, <2>1 DEF DumpDevice, TypeOK
  <2>3. QED
    BY <1>15, <2>2, TaskSteps DEF DumpDevice, TypeOK
<1>16. CASE DumpEnd
  BY <1>16, NoTaskType DEF DumpEnd, TypeOK, Task, PCs
<1>17. QED
  BY <1>1, <1>2, <1>3, <1>4, <1>5, <1>6, <1>7, <1>8, <1>9, <1>10, <1>11,
     <1>12, <1>13, <1>14, <1>15, <1>16 DEF Work

\* So does every turn of loop().
LEMMA TurnType ==
  ASSUME TypeOK, Turn
  PROVE  TypeOK'
<1>1. CASE NextStage
  BY <1>1 DEF NextStage, TypeOK, Stages
<1>2. CASE Maintenance
  BY <1>2 DEF Maintenance, TypeOK, Stages, PCs
<1>3. CASE Repair
  BY <1>3 DEF Repair, TypeOK, Stages, PCs
<1>4. QED
  BY <1>1, <1>2, <1>3 DEF Turn

\* Every variable keeps to its type: in particular the broadcast address is
\* never the destination once GetDevId() has returned.
THEOREM TypeCorrect == Spec => []TypeOK
<1>1. Init => TypeOK
  BY NoTaskType DEF Init, TypeOK, Stages, PCs
<1>2. TypeOK /\ [Next]_vars => TypeOK'
  <2> SUFFICES ASSUME TypeOK, [Next]_vars PROVE TypeOK'
    OBVIOUS
  <2>1. CASE UNCHANGED vars
    BY <2>1 DEF TypeOK, vars
  <2>2. QED
    BY <2>1, GetDevIdType, RequestsType, WorkType, TurnType DEF Next
<1>3. QED
  BY <1>1, <1>2, PTL DEF Spec

-----------------------------------------------------------------------------
(* The identity fits the destination, for at most three device families.    *)
(* With four, a rejected scan may leave entries behind the first slot, and  *)
(* an identity can be taken from them before the table is complete.         *)

\* The occupied slots are the first ones.
Contiguous == \A i, j \in 1..Slots :
                  i < j /\ dev_lookup[i] = Free => dev_lookup[j] = Free

\* Until a table is accepted no identity is known and none was saved.
NoneBefore == dev_lookup[1] = Free \/ pc = "scan"
                 => my_dev = Nobody /\ task.my_dev = Nobody

\* What a task will put back fits as well.
SavedFits == task.destAddr \in Known => task.my_dev \in {task.destAddr, Nobody}

\* /QD leaves the identity alone.
DumpKeeps == cont # "dump" /\ (pc = "dump" => my_dev = task.my_dev)

IdentityInv == TypeOK /\ Contiguous /\ NoneBefore /\ SavedFits /\ DumpKeeps
                 /\ IdentityFits

\* Steps that change neither the table nor the identity nor what was saved.
LEMMA SameTable ==
  ASSUME IdentityInv, TypeOK', UNCHANGED <<dev_lookup, my_dev>>,
         task'.destAddr = task.destAddr /\ task'.my_dev = task.my_dev,
         pc # "scan", pc' # "scan"
  PROVE  Contiguous' /\ NoneBefore' /\ SavedFits'
  BY DEF IdentityInv, Contiguous, NoneBefore, SavedFits, Known

\* A task starts by saving a pair that fits.
LEMMA SavedPair ==
  ASSUME IdentityInv, pc = "idle", pc' # "scan",
         UNCHANGED <<dev_lookup, my_dev>>,
         task'.destAddr = bus_dest /\ task'.my_dev = my_dev
  PROVE  Contiguous' /\ NoneBefore' /\ SavedFits'
  BY DEF IdentityInv, Contiguous, NoneBefore, SavedFits, IdentityFits, Known

\* A change of destination goes through GetDevId(), so the identity still fits.
LEMMA MoveFits ==
  ASSUME IdentityInv, pc \notin {"getdevid", "scan", "dump"},
         NEW d, NEW k \in PCs \ {"getdevid", "scan", "dump"},
         SetTempDestination(d, k) \/ KeepDestination(k)
  PROVE  /\ IdentityFits' /\ DumpKeeps'
         /\ UNCHANGED <<dev_lookup, my_dev>> /\ pc' # "scan"
  BY DEF IdentityInv, IdentityFits, DumpKeeps, SetTempDestination,
         KeepDestination, Known

\* The end of a task puts a pair back that fits.
LEMMA EndFits ==
  ASSUME IdentityInv, TypeOK', pc \notin {"getdevid", "scan", "dump"},
         NEW away \in BOOLEAN, EndTask(away)
  PROVE  IdentityInv'
<1>1. UNCHANGED dev_lookup /\ pc' = "idle" /\ task' = NoTask
  BY DEF EndTask
<1>2. Contiguous' /\ SavedFits' /\ DumpKeeps'
  BY <1>1 DEF IdentityInv, Contiguous, SavedFits, DumpKeeps, NoTask, Known,
     EndTask
<1>3. NoneBefore'
  BY <1>1 DEF IdentityInv, NoneBefore, EndTask, Restore, NoTask
<1>4. IdentityFits'
  BY <1>1 DEF IdentityInv, IdentityFits, SavedFits, EndTask, Restore, Known
<1>5. QED
  BY <1>2, <1>3, <1>4 DEF IdentityInv

\* With at most three families a rejected table holds one entry, the first,
\* which is freed: nothing is left over.
LEMMA RejectedEmpties ==
  ASSUME IdentityInv, Families <= 3, ScanRejected
  PROVE  \A j \in 1..Slots : dev_lookup'[j] = Free
<1>1. PICK i \in 1..Slots : dev_lookup[i] = Free /\ i < Families
  BY DEF ScanRejected, TooFew
<1>2. i = 1 \/ i = 2
  BY <1>1
<1>3. \A j \in 1..Slots : i < j => dev_lookup[j] = Free
  BY <1>1 DEF IdentityInv, Contiguous
<1>4. dev_lookup' = [dev_lookup EXCEPT ![1] = Free]
  BY DEF ScanRejected
<1>5. \A j \in 1..Slots : j # 1 => dev_lookup'[j] = dev_lookup[j]
  BY <1>4 DEF IdentityInv, TypeOK
<1>6. dev_lookup'[1] = Free
  BY <1>4 DEF IdentityInv, TypeOK
<1>7. QED
  BY <1>1, <1>2, <1>3, <1>5, <1>6

\* The steps of GetDevId(): the look-up takes the identity of the destination,
\* and no table is looked up before it was accepted.
LEMMA GetDevIdFits ==
  ASSUME IdentityInv, TypeOK', Families <= 3, GetDevId
  PROVE  IdentityInv'
<1>1. dev_lookup[1] = Free => Known = {}
  BY DEF IdentityInv, Contiguous, Known, TypeOK
<1>2. ASSUME NEW d, Return(d), UNCHANGED <<dev_lookup, task, cont>>
      PROVE  IdentityInv'
  <2>1. pc' = cont /\ bus_dest' = d /\ my_dev' = Identity(d) /\ Known' = Known
    BY <1>2 DEF Return, Known
  <2>2. pc' \notin {"scan", "dump"} /\ cont' # "dump"
    BY <1>2, <2>1 DEF IdentityInv, TypeOK, DumpKeeps
  <2>3. Contiguous' /\ SavedFits' /\ DumpKeeps'
    BY <1>2, <2>1, <2>2 DEF IdentityInv, Contiguous, SavedFits, DumpKeeps
  <2>4. NoneBefore'
    BY <1>1, <1>2, <2>1, <2>2 DEF IdentityInv, NoneBefore, Identity
  <2>5. IdentityFits'
    <3>1. CASE d \in Known
      BY <2>1, <3>1 DEF IdentityFits, Identity
    <3>2. CASE d \notin Known
      BY <2>1, <3>2 DEF IdentityFits
    <3>3. QED
      BY <3>1, <3>2
  <2>6. QED
    BY <2>3, <2>4, <2>5 DEF IdentityInv
<1>3. CASE DevicesKnown
  BY <1>2, <1>3 DEF DevicesKnown
<1>4. CASE BroadcastFails
  BY <1>2, <1>4 DEF BroadcastFails
<1>5. CASE ScanAccepted
  BY <1>2, <1>5 DEF ScanAccepted
<1>6. CASE BroadcastQuery
  <2>1. UNCHANGED <<dev_lookup, my_dev, task, cont>> /\ pc' = "scan"
        /\ dev_lookup[1] = Free
    BY <1>6 DEF BroadcastQuery
  <2>2. Contiguous' /\ SavedFits' /\ DumpKeeps' /\ IdentityFits' /\ NoneBefore'
    BY <2>1 DEF IdentityInv, Contiguous, SavedFits, DumpKeeps, IdentityFits,
       NoneBefore, Known
  <2>3. QED
    BY <2>2 DEF IdentityInv
<1>7. ASSUME NEW s \in Devices, DeviceAnswers(s)
      PROVE  IdentityInv'
  <2>1. pc = "scan" /\ UNCHANGED <<pc, my_dev, task, cont>>
    BY <1>7 DEF DeviceAnswers
  <2>2. PICK i \in 1..Slots :
           /\ dev_lookup[i] \in {s, Free}
           /\ \A j \in 1..(i - 1) : dev_lookup[j] \notin {s, Free}
           /\ dev_lookup' = [dev_lookup EXCEPT ![i] = s]
    BY <1>7 DEF DeviceAnswers
  <2>3. Contiguous'
    <3> SUFFICES ASSUME NEW a \in 1..Slots, NEW b \in 1..Slots, a < b,
                        dev_lookup'[a] = Free
                 PROVE  dev_lookup'[b] = Free
      BY DEF Contiguous
    <3>1. a # i /\ dev_lookup[a] = Free
      BY <2>2 DEF IdentityInv, TypeOK
    <3>2. b # i
      BY <2>2, <3>1
    <3>3. dev_lookup[b] = Free
      BY <3>1 DEF IdentityInv, Contiguous
    <3>4. QED
      BY <2>2, <3>2, <3>3 DEF IdentityInv, TypeOK
  <2>4. NoneBefore' /\ SavedFits' /\ DumpKeeps' /\ IdentityFits'
    BY <2>1 DEF IdentityInv, NoneBefore, SavedFits, DumpKeeps, IdentityFits
  <2>5. QED
    BY <2>3, <2>4 DEF IdentityInv
<1>8. CASE ScanRejected
  <2>1. \A j \in 1..Slots : dev_lookup'[j] = Free
    BY <1>8, RejectedEmpties
  <2>2. Known' = {}
    BY <2>1 DEF Known
  <2>3. UNCHANGED <<my_dev, task, cont>> /\ pc = "scan" /\ pc' = cont
    BY <1>8 DEF ScanRejected
  <2>4. Contiguous' /\ SavedFits' /\ IdentityFits'
    BY <2>1, <2>2 DEF Contiguous, SavedFits, IdentityFits
  <2>5. NoneBefore' /\ DumpKeeps'
    BY <2>3 DEF IdentityInv, NoneBefore, DumpKeeps
  <2>6. QED
    BY <2>4, <2>5 DEF IdentityInv
<1>9. QED
  BY <1>3, <1>4, <1>5, <1>6, <1>7, <1>8 DEF GetDevId

\* A task that starts without moving the destination.
LEMMA StartFits ==
  ASSUME IdentityInv, TypeOK', pc = "idle",
         task'.destAddr = bus_dest /\ task'.my_dev = my_dev,
         NEW d, NEW k \in PCs \ {"getdevid", "scan", "dump"},
         SetTempDestination(d, k) \/ KeepDestination(k)
  PROVE  IdentityInv'
  BY MoveFits, SavedPair DEF IdentityInv

\* The start of a request.
LEMMA RequestsFit ==
  ASSUME IdentityInv, TypeOK', Requests
  PROVE  IdentityInv'
<1>1. /\ Saved.destAddr = bus_dest /\ Saved.my_dev = my_dev
      /\ \A d, c : /\ [Saved EXCEPT !.checked = c, !.d_addr = d].destAddr = bus_dest
                   /\ [Saved EXCEPT !.checked = c, !.d_addr = d].my_dev = my_dev
      /\ \A b : /\ [Saved EXCEPT !.post = b].destAddr = bus_dest
                /\ [Saved EXCEPT !.post = b].my_dev = my_dev
  BY DEF Saved, NoTask
<1>2. ASSUME NEW p \in Addr \cup {Default}, NEW checked \in BOOLEAN,
             Command(p, checked)
      PROVE  IdentityInv'
  <2>1. pc = "idle" /\ task'.destAddr = bus_dest /\ task'.my_dev = my_dev
    BY <1>1, <1>2 DEF Command
  <2>2. CASE p = Default
    <3>1. pc' = "send" /\ UNCHANGED <<cont, bus_dest, my_dev, dev_lookup>>
      BY <1>2, <2>2 DEF Command
    <3>2. Contiguous' /\ NoneBefore' /\ SavedFits'
      BY <2>1, <3>1, SavedPair
    <3>3. IdentityFits' /\ DumpKeeps'
      BY <2>1, <3>1 DEF IdentityInv, IdentityFits, DumpKeeps, Known
    <3>4. QED
      BY <3>2, <3>3 DEF IdentityInv
  <2>3. CASE p # Default
    BY <1>2, <2>1, <2>3, StartFits DEF Command, PCs
  <2>4. QED
    BY <2>2, <2>3
<1>3. CASE ListStart
  BY <1>1, <1>3, StartFits DEF ListStart, PCs
<1>4. ASSUME NEW post \in BOOLEAN, JsonStart(post)
      PROVE  IdentityInv'
  <2>1. /\ pc = "idle" /\ pc' = "json"
        /\ UNCHANGED <<cont, bus_dest, my_dev, dev_lookup>>
        /\ task'.destAddr = bus_dest /\ task'.my_dev = my_dev
    BY <1>1, <1>4 DEF JsonStart
  <2>2. Contiguous' /\ NoneBefore' /\ SavedFits'
    BY <2>1, SavedPair
  <2>3. IdentityFits' /\ DumpKeeps'
    BY <2>1 DEF IdentityInv, IdentityFits, DumpKeeps, Known
  <2>4. QED
    BY <2>2, <2>3 DEF IdentityInv
<1>5. CASE RediscoverStart
  BY <1>1, <1>5, StartFits DEF RediscoverStart, PCs
<1>6. CASE DumpStart
  <2>1. /\ pc = "idle" /\ pc' = "dump"
        /\ UNCHANGED <<cont, bus_dest, my_dev, dev_lookup>>
        /\ task'.destAddr = bus_dest /\ task'.my_dev = my_dev
    BY <1>1, <1>6 DEF DumpStart, KeepDestination
  <2>2. Contiguous' /\ NoneBefore' /\ SavedFits'
    BY <2>1, SavedPair
  <2>3. IdentityFits' /\ DumpKeeps'
    BY <2>1 DEF IdentityInv, IdentityFits, DumpKeeps
  <2>4. QED
    BY <2>2, <2>3 DEF IdentityInv
<1>7. ASSUME NEW d \in Addr, SetAddress(d)
      PROVE  IdentityInv'
  <2>1. /\ pc = "idle" /\ pc' = "getdevid" /\ cont' = "idle"
        /\ UNCHANGED <<my_dev, dev_lookup, task>>
    BY <1>7 DEF SetAddress
  <2>2. Contiguous' /\ NoneBefore' /\ SavedFits'
    BY <2>1, SameTable
  <2>3. IdentityFits' /\ DumpKeeps'
    BY <2>1 DEF IdentityFits, DumpKeeps
  <2>4. QED
    BY <2>2, <2>3 DEF IdentityInv
<1>8. QED
  BY <1>2, <1>3, <1>4, <1>5, <1>6, <1>7 DEF Requests

\* A step within a task: the saved pair stays, the destination may move.
LEMMA StepFits ==
  ASSUME IdentityInv, TypeOK', pc \notin {"getdevid", "scan", "dump"},
         task'.destAddr = task.destAddr /\ task'.my_dev = task.my_dev,
         NEW d, NEW k \in PCs \ {"getdevid", "scan", "dump"},
         SetTempDestination(d, k) \/ KeepDestination(k)
  PROVE  IdentityInv'
  BY MoveFits, SameTable DEF IdentityInv

\* The steps of a task.
LEMMA WorkFits ==
  ASSUME IdentityInv, TypeOK', Work
  PROVE  IdentityInv'
<1> DEFINE Kept == task'.destAddr = task.destAddr /\ task'.my_dev = task.my_dev
<1>0. task \in Task
  BY DEF IdentityInv, TypeOK
<1>1. CASE Send
  BY <1>1, EndFits DEF Send
<1>2. ASSUME NEW p \in Addr \cup {Default}, ListElsewhere(p)
      PROVE  IdentityInv'
  <2>1. Kept
    BY <1>0, <1>2 DEF ListElsewhere, Task
  <2>2. QED
    BY <1>2, <2>1, StepFits DEF ListElsewhere, PCs
<1>3. ASSUME NEW p \in Addr \cup {Default}, ListStays(p)
      PROVE  IdentityInv'
  <2>1. Kept
    BY <1>0, <1>3 DEF ListStays, Task
  <2>2. QED
    BY <1>3, <2>1, StepFits DEF ListStays, PCs
<1>4. CASE ListReturns
  <2>1. Kept
    BY <1>0, <1>4 DEF ListReturns, Task
  <2>2. /\ pc = "list" /\ pc' = "list_send" /\ UNCHANGED <<cont, dev_lookup>>
        /\ bus_dest' = task.destAddr /\ my_dev' = task.my_dev
    BY <1>4 DEF ListReturns, Restore
  <2>3. Contiguous' /\ SavedFits' /\ DumpKeeps'
    BY <2>1, <2>2 DEF IdentityInv, Contiguous, SavedFits, DumpKeeps, Known
  <2>4. NoneBefore' /\ IdentityFits'
    BY <2>1, <2>2 DEF IdentityInv, NoneBefore, SavedFits, IdentityFits, Known
  <2>5. QED
    BY <2>3, <2>4 DEF IdentityInv
<1>5. CASE ListSend
  BY <1>5, StepFits DEF ListSend, PCs
<1>6. CASE ListEnd
  BY <1>6, EndFits DEF ListEnd
<1>7. ASSUME NEW p \in Addr \cup {Default}, NEW known \in BOOLEAN,
             JsonElement(p, known)
      PROVE  IdentityInv'
  <2>1. Kept
    BY <1>0, <1>7 DEF JsonElement, Task
  <2>2. pc = "json" /\ \E d : \/ SetTempDestination(d, "json_send")
                             \/ KeepDestination("json_send")
    BY <1>7 DEF JsonElement
  <2>3. QED
    BY <2>1, <2>2, StepFits DEF PCs
<1>8. CASE JsonSend
  <2>1. Kept
    BY <1>0, <1>8 DEF JsonSend, Task
  <2>2. QED
    BY <1>8, <2>1, StepFits DEF JsonSend, PCs
<1>9. CASE JsonSkip
  <2>1. Kept
    BY <1>0, <1>9 DEF JsonSkip, Task
  <2>2. QED
    BY <1>9, <2>1, StepFits DEF JsonSkip, PCs
<1>10. CASE JsonRefused
  <2>1. Kept
    BY <1>0, <1>10 DEF JsonRefused, Task
  <2>2. QED
    BY <1>10, <2>1, StepFits DEF JsonRefused, PCs
<1>11. CASE JsonEnd
  BY <1>11, EndFits DEF JsonEnd
<1>12. CASE RediscoverDevice
  <2>1. Kept
    BY <1>0, <1>12 DEF RediscoverDevice, Task
  <2>2. pc = "rediscover" /\ \E d : \/ SetTempDestination(d, "announce")
                                   \/ KeepDestination("rediscover")
    BY <1>12 DEF RediscoverDevice
  <2>3. QED
    BY <2>1, <2>2, StepFits DEF PCs
<1>13. CASE Announce
  BY <1>13, StepFits DEF Announce, PCs
<1>14. CASE RediscoverEnd
  BY <1>14, EndFits DEF RediscoverEnd
<1>15. CASE DumpDevice
  <2>1. Kept
    BY <1>0, <1>15 DEF DumpDevice, Task
  <2>2. pc = "dump" /\ UNCHANGED <<pc, cont, my_dev, dev_lookup>>
    BY <1>15 DEF DumpDevice
  <2>3. Contiguous' /\ NoneBefore' /\ SavedFits'
    BY <2>1, <2>2, SameTable
  <2>4. IdentityFits' /\ DumpKeeps'
    BY <2>1, <2>2 DEF IdentityInv, IdentityFits, DumpKeeps
  <2>5. QED
    BY <2>3, <2>4 DEF IdentityInv
<1>16. CASE DumpEnd
  <2>1. /\ pc = "dump" /\ pc' = "idle" /\ task' = NoTask
        /\ UNCHANGED <<cont, my_dev, dev_lookup>> /\ bus_dest' = task.destAddr
        /\ my_dev = task.my_dev
    BY <1>16 DEF DumpEnd, IdentityInv, DumpKeeps
  <2>2. Contiguous' /\ SavedFits' /\ DumpKeeps'
    BY <2>1 DEF IdentityInv, Contiguous, SavedFits, DumpKeeps, NoTask, Known
  <2>3. NoneBefore' /\ IdentityFits'
    BY <2>1 DEF IdentityInv, NoneBefore, SavedFits, IdentityFits, NoTask, Known
  <2>4. QED
    BY <2>2, <2>3 DEF IdentityInv
<1>17. QED
  BY <1>1, <1>2, <1>3, <1>4, <1>5, <1>6, <1>7, <1>8, <1>9, <1>10, <1>11,
     <1>12, <1>13, <1>14, <1>15, <1>16 DEF Work

\* The turns of loop().
LEMMA TurnFits ==
  ASSUME IdentityInv, TypeOK', Turn
  PROVE  IdentityInv'
<1>1. /\ pc = "idle" /\ UNCHANGED <<my_dev, dev_lookup, task>>
      /\ \/ UNCHANGED <<pc, cont, bus_dest>>
         \/ pc' = "getdevid" /\ cont' = "idle"
  BY DEF Turn, NextStage, Maintenance, Repair
<1>2. Contiguous' /\ NoneBefore' /\ SavedFits'
  BY <1>1, SameTable
<1>3. IdentityFits' /\ DumpKeeps'
  BY <1>1 DEF IdentityInv, IdentityFits, DumpKeeps, Known
<1>4. QED
  BY <1>2, <1>3 DEF IdentityInv

\* While the destination is a device of the table, the identity is that
\* device's or none, for up to three families, whatever requests are served.
THEOREM IdentityIsRight == ASSUME Families <= 3 PROVE Spec => []IdentityFits
<1>1. Init => IdentityInv
  <2> SUFFICES ASSUME Init PROVE IdentityInv
    OBVIOUS
  <2>1. TypeOK
    BY NoTaskType DEF Init, TypeOK, Stages, PCs
  <2>2. Contiguous /\ NoneBefore /\ SavedFits /\ DumpKeeps /\ IdentityFits
    BY DEF Init, Contiguous, NoneBefore, SavedFits, DumpKeeps, IdentityFits,
       NoTask
  <2>3. QED
    BY <2>1, <2>2 DEF IdentityInv
<1>2. TypeOK' /\ IdentityInv /\ [Next]_vars => IdentityInv'
  <2> SUFFICES ASSUME TypeOK', IdentityInv, [Next]_vars PROVE IdentityInv'
    OBVIOUS
  <2>1. CASE UNCHANGED vars
    BY <2>1 DEF vars, IdentityInv, Contiguous, NoneBefore, SavedFits, DumpKeeps,
       IdentityFits, Known
  <2>2. QED
    BY <2>1, GetDevIdFits, RequestsFit, WorkFits, TurnFits DEF Next
<1>3. IdentityInv => IdentityFits
  BY DEF IdentityInv
<1>4. QED
  BY <1>1, <1>2, <1>3, TypeCorrect, PTL DEF Spec

-----------------------------------------------------------------------------
(* Telegrams go where they are directed, and tasks end at home: for requests *)
(* without skipped elements, and with detections that cannot be rejected     *)
(* wherever JSON requests are served.                                        *)

\* The requests the theorems below are about.
Straight == ~Unknown /\ (Families = 1 \/ Json = {})

\* Where the task stands, a running GetDevId() aside, and whom it talks to.
At == IF Scanning THEN cont ELSE pc

Partner == IF pc = "scan" THEN save_dest ELSE bus_dest

\* Without a task the partner is the default destination, and a task will
\* return there.
HomeKept == IF At = "idle" THEN Partner = dest_address
                           ELSE task.destAddr = dest_address

\* The local copy of the destination is the destination.
CopyRight == At \in {"send", "list", "list_send", "json", "json_send", "announce"}
                => Partner = task.d_addr

\* Between two elements of a JSON list the previous destination is the copy.
JsonRight == At \in {"json", "json_send"} =>
               /\ success
               /\ ~task.output
               /\ IF At = "json" THEN task.prev = task.d_addr ELSE task.known

\* Why no detection is rejected under a JSON list.
NeverRejected == (Families = 1 /\ success)
                   \/ (Json = {} /\ At \notin {"json", "json_send"})

\* The inductive invariant: a task knows the way home, its copy of the
\* destination is right, and JSON lists keep up with it.
DirectInv == TypeOK /\ HomeKept /\ CopyRight /\ JsonRight /\ NeverRejected

\* The invariant implies both properties.
LEMMA DirectImplies == DirectInv => AsDirected /\ AtHome
  BY DEF DirectInv, HomeKept, CopyRight, AsDirected, AtHome, Sending, Resting,
     At, Partner, Scanning

\* A task that ends has its destination put back.
LEMMA EndDirect ==
  ASSUME DirectInv, TypeOK', pc \notin {"idle", "getdevid", "scan"},
         NEW away \in BOOLEAN, EndTask(away),
         ~away => bus_dest = task.destAddr
  PROVE  DirectInv'
<1>1. pc' = "idle" /\ UNCHANGED <<dest_address, success>>
      /\ bus_dest' = task.destAddr
  BY DEF EndTask, Restore
<1>2. QED
  BY <1>1 DEF DirectInv, HomeKept, CopyRight, JsonRight, NeverRejected, At,
     Partner, Scanning

\* set_temp_destination(d), called in a task or as its first step.
LEMMA SetTempDirect ==
  ASSUME DirectInv, TypeOK', pc \notin {"getdevid", "scan"},
         NEW d, NEW k \in {"send", "list_send", "json_send", "announce"},
         SetTempDestination(d, k), UNCHANGED dest_address,
         task'.destAddr = dest_address, task'.d_addr = d,
         k = "json_send" => pc = "json" /\ ~task'.output /\ task'.known
  PROVE  DirectInv'
<1>1. At' = k /\ Partner' = d
  BY DEF SetTempDestination, At, Partner, Scanning
<1>2. HomeKept' /\ CopyRight'
  BY <1>1 DEF HomeKept, CopyRight
<1>3. success' \in {success, TRUE}
  BY DEF SetTempDestination
<1>4. JsonRight' /\ NeverRejected'
  BY <1>1, <1>3 DEF DirectInv, JsonRight, NeverRejected, At, Scanning
<1>5. QED
  BY <1>2, <1>4 DEF DirectInv

\* GetDevId() comes back with the destination it was called with.
LEMMA GetDevIdDirect ==
  ASSUME DirectInv, TypeOK', Straight, GetDevId
  PROVE  DirectInv'
<1>1. ASSUME Return(Partner), Scanning, UNCHANGED <<cont, task, dest_address>>
      PROVE  DirectInv'
  <2>1. At' = At /\ Partner' = Partner
    BY <1>1 DEF Return, At, Partner, Scanning, DirectInv, TypeOK
  <2>2. success'
    BY <1>1 DEF Return
  <2>3. QED
    BY <1>1, <2>1, <2>2 DEF DirectInv, HomeKept, CopyRight, JsonRight,
       NeverRejected
<1>2. CASE DevicesKnown
  BY <1>1, <1>2 DEF DevicesKnown, Partner, Scanning
<1>3. CASE BroadcastFails
  BY <1>1, <1>3 DEF BroadcastFails, Partner, Scanning
<1>4. CASE ScanAccepted
  BY <1>1, <1>4 DEF ScanAccepted, Partner, Scanning
<1>5. CASE BroadcastQuery
  <2>1. /\ At' = At /\ Partner' = Partner
        /\ UNCHANGED <<success, task, dest_address>>
    BY <1>5 DEF BroadcastQuery, At, Partner, Scanning
  <2>2. QED
    BY <2>1 DEF DirectInv, HomeKept, CopyRight, JsonRight, NeverRejected
<1>6. ASSUME NEW s \in Devices, DeviceAnswers(s)
      PROVE  DirectInv'
  <2>1. /\ At' = At /\ Partner' = Partner
        /\ UNCHANGED <<success, task, dest_address>>
    BY <1>6 DEF DeviceAnswers, At, Partner, Scanning
  <2>2. QED
    BY <2>1 DEF DirectInv, HomeKept, CopyRight, JsonRight, NeverRejected
<1>7. CASE ScanRejected
  <2>1. Families # 1
    BY <1>7 DEF ScanRejected, TooFew
  <2>2. At' = At /\ Partner' = Partner /\ UNCHANGED <<task, dest_address>>
    BY <1>7 DEF ScanRejected, At, Partner, Scanning, DirectInv, TypeOK
  <2>3. QED
    BY <2>1, <2>2 DEF DirectInv, HomeKept, CopyRight, JsonRight, NeverRejected
<1>8. QED
  BY <1>2, <1>3, <1>4, <1>5, <1>6, <1>7 DEF GetDevId

\* The start of a request saves the way home.
LEMMA RequestsDirect ==
  ASSUME DirectInv, TypeOK', Requests
  PROVE  DirectInv'
<1> USE DEF At, Partner, Scanning
<1>1. ASSUME NEW p \in Addr \cup {Default}, NEW checked \in BOOLEAN,
             Command(p, checked)
      PROVE  DirectInv'
  <2>1. /\ pc = "idle" /\ bus_dest = dest_address /\ UNCHANGED dest_address
        /\ task'.destAddr = bus_dest
        /\ task'.d_addr = IF p = Default THEN bus_dest ELSE p
    BY <1>1 DEF DirectInv, HomeKept, Command, Saved, NoTask
  <2>2. CASE p = Default
    BY <1>1, <2>1, <2>2 DEF Command, DirectInv, HomeKept, CopyRight, JsonRight,
       NeverRejected
  <2>3. CASE p # Default
    BY <1>1, <2>1, <2>3, SetTempDirect DEF Command
  <2>4. QED
    BY <2>2, <2>3
<1>2. ASSUME pc = "idle", pc' \in {"list", "rediscover", "dump"}, task' = Saved,
             UNCHANGED <<bus_dest, dest_address, success>>
      PROVE  DirectInv'
  BY <1>2 DEF DirectInv, HomeKept, CopyRight, JsonRight, NeverRejected, Saved,
     NoTask
<1>3. CASE ListStart
  BY <1>2, <1>3 DEF ListStart, KeepDestination
<1>4. ASSUME NEW post \in BOOLEAN, JsonStart(post)
      PROVE  DirectInv'
  BY <1>4 DEF JsonStart, DirectInv, HomeKept, CopyRight, JsonRight,
     NeverRejected, Saved, NoTask
<1>5. CASE RediscoverStart
  BY <1>2, <1>5 DEF RediscoverStart, KeepDestination
<1>6. CASE DumpStart
  BY <1>2, <1>6 DEF DumpStart, KeepDestination
<1>7. ASSUME NEW d \in Addr, SetAddress(d)
      PROVE  DirectInv'
  BY <1>7 DEF SetAddress, DirectInv, HomeKept, CopyRight, JsonRight,
     NeverRejected
<1>8. QED
  BY <1>1, <1>3, <1>4, <1>5, <1>6, <1>7 DEF Requests

\* The steps of a task keep the copy right and end it at home.
LEMMA WorkDirect ==
  ASSUME DirectInv, TypeOK', Straight, Work
  PROVE  DirectInv'
<1> USE DEF At, Partner, Scanning
<1>0. task \in Task /\ (pc \notin {"idle", "getdevid", "scan"} => task.destAddr = dest_address)
  BY DEF DirectInv, TypeOK, HomeKept
<1>1. CASE Send
  BY <1>1, EndDirect DEF Send
<1>2. ASSUME NEW p \in Addr \cup {Default}, ListElsewhere(p)
      PROVE  DirectInv'
  <2>1. /\ pc = "list" /\ UNCHANGED dest_address
        /\ task'.destAddr = dest_address /\ task'.d_addr = p
    BY <1>0, <1>2 DEF ListElsewhere, Task
  <2>2. QED
    BY <1>2, <2>1, SetTempDirect DEF ListElsewhere
<1>3. ASSUME pc \in {"list", "list_send"}, pc' \in {"list", "list_send"},
             UNCHANGED <<bus_dest, dest_address, success>>,
             task'.destAddr = task.destAddr /\ task'.d_addr = task.d_addr
      PROVE  DirectInv'
  BY <1>3 DEF DirectInv, HomeKept, CopyRight, JsonRight, NeverRejected
<1>4. ASSUME NEW p \in Addr \cup {Default}, ListStays(p)
      PROVE  DirectInv'
  <2>1. task'.destAddr = task.destAddr /\ task'.d_addr = task.d_addr
    BY <1>0, <1>4 DEF ListStays, Task
  <2>2. QED
    BY <1>3, <1>4, <2>1 DEF ListStays, KeepDestination
<1>5. CASE ListReturns
  <2>1. task'.destAddr = task.destAddr /\ task'.d_addr = task.destAddr
    BY <1>0, <1>5 DEF ListReturns, Task
  <2>2. QED
    BY <1>5, <2>1 DEF ListReturns, Restore, DirectInv, HomeKept, CopyRight,
       JsonRight, NeverRejected
<1>6. CASE ListSend
  BY <1>3, <1>6 DEF ListSend, KeepDestination
<1>7. CASE ListEnd
  BY <1>7, EndDirect DEF ListEnd, DirectInv, CopyRight
<1>8. ASSUME NEW p \in Addr \cup {Default}, NEW known \in BOOLEAN,
             JsonElement(p, known)
      PROVE  DirectInv'
  <2> DEFINE d == IF p # Default THEN p
                  ELSE IF task.post THEN task.destAddr ELSE task.d_addr
  <2>1. pc = "json" /\ ~task.output /\ task.prev = task.d_addr /\ success
        /\ Partner = task.d_addr
    BY <1>8 DEF JsonElement, DirectInv, JsonRight, CopyRight
  <2>2. known
    BY <1>8, <2>1 DEF JsonElement, Straight
  <2>3. /\ task'.destAddr = task.destAddr /\ task'.d_addr = d
        /\ task'.output = task.output /\ task'.known = known
        /\ UNCHANGED dest_address
    BY <1>0, <1>8 DEF JsonElement, Task
  <2>4. CASE d # task.prev
    <3>1. SetTempDestination(d, "json_send")
      BY <1>8, <2>4 DEF JsonElement
    <3>2. QED
      BY <1>0, <2>1, <2>2, <2>3, <3>1, SetTempDirect
  <2>5. CASE d = task.prev
    <3>1. KeepDestination("json_send")
      BY <1>8, <2>5 DEF JsonElement
    <3>2. QED
      BY <1>0, <2>1, <2>2, <2>3, <2>5, <3>1 DEF KeepDestination, DirectInv,
         HomeKept, CopyRight, JsonRight, NeverRejected
  <2>6. QED
    BY <2>4, <2>5
<1>9. CASE JsonSend
  <2>1. /\ task'.destAddr = task.destAddr /\ task'.d_addr = task.d_addr
        /\ ~task'.output /\ task'.prev = task.d_addr
    BY <1>0, <1>9 DEF JsonSend, Task
  <2>2. QED
    BY <1>9, <2>1 DEF JsonSend, KeepDestination, DirectInv, HomeKept, CopyRight,
       JsonRight, NeverRejected
<1>10. ~JsonSkip /\ ~JsonRefused
  BY DEF JsonSkip, JsonRefused, DirectInv, JsonRight
<1>11. CASE JsonEnd
  BY <1>11, EndDirect DEF JsonEnd, DirectInv, CopyRight
<1>12. CASE RediscoverDevice
  <2> DEFINE d == dev_lookup[task.i + 1]
  <2>1. CASE d = Free
    <3>1. task'.destAddr = task.destAddr /\ pc = "rediscover"
      BY <1>0, <1>12, <2>1 DEF RediscoverDevice, Task
    <3>2. QED
      BY <1>12, <2>1, <3>1 DEF RediscoverDevice, KeepDestination, DirectInv,
         HomeKept, CopyRight, JsonRight, NeverRejected
  <2>2. CASE d # Free
    <3>1. /\ pc = "rediscover" /\ UNCHANGED dest_address
          /\ task'.destAddr = dest_address /\ task'.d_addr = d
      BY <1>0, <1>12, <2>2 DEF RediscoverDevice, Task
    <3>2. SetTempDestination(d, "announce")
      BY <1>12, <2>2 DEF RediscoverDevice
    <3>3. QED
      BY <3>1, <3>2, SetTempDirect
  <2>3. QED
    BY <2>1, <2>2
<1>13. CASE Announce
  BY <1>13 DEF Announce, KeepDestination, DirectInv, HomeKept, CopyRight,
     JsonRight, NeverRejected
<1>14. CASE RediscoverEnd
  BY <1>14, EndDirect DEF RediscoverEnd
<1>15. CASE DumpDevice
  <2>1. task'.destAddr = task.destAddr
    BY <1>0, <1>15 DEF DumpDevice, Task
  <2>2. QED
    BY <1>15, <2>1 DEF DumpDevice, DirectInv, HomeKept, CopyRight, JsonRight,
       NeverRejected
<1>16. CASE DumpEnd
  BY <1>0, <1>16 DEF DumpEnd, DirectInv, HomeKept, CopyRight, JsonRight,
     NeverRejected
<1>17. QED
  BY <1>1, <1>2, <1>4, <1>5, <1>6, <1>7, <1>8, <1>9, <1>10, <1>11, <1>12,
     <1>13, <1>14, <1>15, <1>16 DEF Work

\* The turns of loop().
LEMMA TurnDirect ==
  ASSUME DirectInv, TypeOK', Turn
  PROVE  DirectInv'
<1> USE DEF At, Partner, Scanning, DirectInv, HomeKept, CopyRight, JsonRight,
        NeverRejected
<1>1. CASE NextStage
  BY <1>1 DEF NextStage
<1>2. CASE Maintenance
  BY <1>2 DEF Maintenance
<1>3. CASE Repair
  BY <1>3 DEF Repair
<1>4. QED
  BY <1>1, <1>2, <1>3 DEF Turn

\* The invariant holds in every reachable state.
LEMMA DirectInductive == Straight /\ Spec => []DirectInv
<1> SUFFICES ASSUME Straight PROVE Spec => []DirectInv
  BY DEF Straight
<1>1. Init => DirectInv
  BY NoTaskType DEF Init, TypeOK, Stages, PCs, DirectInv, HomeKept, CopyRight,
     JsonRight, NeverRejected, At, Partner, Scanning, Straight
<1>2. TypeOK' /\ DirectInv /\ [Next]_vars => DirectInv'
  <2> SUFFICES ASSUME TypeOK', DirectInv, [Next]_vars PROVE DirectInv'
    OBVIOUS
  <2>1. CASE UNCHANGED vars
    BY <2>1 DEF vars, DirectInv, HomeKept, CopyRight, JsonRight, NeverRejected,
       At, Partner, Scanning
  <2>2. QED
    BY <2>1, GetDevIdDirect, RequestsDirect, WorkDirect, TurnDirect DEF Next
<1>3. QED
  BY <1>1, <1>2, TypeCorrect, PTL DEF Spec

\* Repair never finds anything to repair then.
THEOREM NothingLeaks == ASSUME Straight PROVE Spec => []AtHome
  BY DirectImplies, DirectInductive, PTL

\* AsDirected: every telegram goes to the device its request names.
THEOREM Directed == ASSUME Straight PROVE Spec => []AsDirected
  BY DirectImplies, DirectInductive, PTL

-----------------------------------------------------------------------------
(* Destination implements Conversation. *)

\* The default destination changes only with the start of a detection for it.
LEMMA HomeMoves ==
  ASSUME TypeOK, Next
  PROVE  \/ UNCHANGED dest_address
         \/ Resting /\ ~Resting' /\ Partner' = dest_address'
  BY DEF Next, GetDevId, DevicesKnown, BroadcastFails, BroadcastQuery,
     DeviceAnswers, ScanAccepted, ScanRejected, Requests, Command, ListStart,
     JsonStart, RediscoverStart, DumpStart, SetAddress, Work, Send, EndTask,
     ListElsewhere, ListStays, ListReturns, ListSend, ListEnd, JsonElement,
     JsonSend, JsonSkip, JsonRefused, JsonEnd, RediscoverDevice, Announce,
     RediscoverEnd, DumpDevice, DumpEnd, Turn, NextStage, Maintenance, Repair,
     Resting, Partner

\* From rest to rest the destination does not move.
LEMMA RestsStill ==
  ASSUME TypeOK, Next, Resting, Resting'
  PROVE  UNCHANGED <<bus_dest, dest_address>>
<1>1. Requests \/ Turn
  BY DEF Next, Resting, GetDevId, DevicesKnown, BroadcastFails, BroadcastQuery,
     DeviceAnswers, ScanAccepted, ScanRejected, Work, Send, EndTask,
     ListElsewhere, ListStays, ListReturns, ListSend, ListEnd, JsonElement,
     JsonSend, JsonSkip, JsonRefused, JsonEnd, RediscoverDevice, Announce,
     RediscoverEnd, DumpDevice, DumpEnd
<1>2. ~Requests
  BY DEF Requests, Command, SetTempDestination, ListStart, JsonStart,
     RediscoverStart, DumpStart, SetAddress, KeepDestination, Resting
<1>3. QED
  BY <1>1, <1>2 DEF Turn, NextStage, Maintenance, Repair, Resting

\* The handling of destinations keeps the promise of Conversation.
THEOREM Implementation == ASSUME Straight PROVE Spec => ImplementsConversation
<1>1. Init => Promise!Init
  BY DEF Init, Promise!Init, Resting
<1>2. TypeOK /\ TypeOK' /\ DirectInv' /\ [Next]_vars
        => [Promise!Next]_<<Partner, dest_address, ~Resting>>
  <2> SUFFICES ASSUME TypeOK, TypeOK', DirectInv', [Next]_vars
               PROVE  [Promise!Next]_<<Partner, dest_address, ~Resting>>
    OBVIOUS
  <2>1. CASE UNCHANGED vars
    BY <2>1 DEF vars, Partner, Resting
  <2>2. CASE Next
    <3>1. Partner' \in Addr /\ dest_address' \in Addr
      BY DEF TypeOK, Partner
    <3>2. CASE Resting /\ Resting'
      BY <2>2, <3>2, RestsStill DEF Resting, Partner
    <3>3. CASE Resting /\ ~Resting'
      <4>1. CASE UNCHANGED dest_address
        <5>1. Promise!Begin(Partner')
          BY <3>3, <4>1 DEF Promise!Begin, Partner
        <5>2. QED
          BY <3>1, <5>1 DEF Promise!Next
      <4>2. CASE Partner' = dest_address'
        <5>1. Promise!Move(dest_address')
          BY <3>3, <4>2 DEF Promise!Move, Partner
        <5>2. QED
          BY <3>1, <5>1 DEF Promise!Next
      <4>3. QED
        BY <2>2, <4>1, <4>2, HomeMoves
    <3>4. CASE ~Resting /\ ~Resting'
      <4>1. Promise!Address(Partner')
        BY <2>2, <3>4, HomeMoves DEF Promise!Address, Partner
      <4>2. QED
        BY <3>1, <4>1 DEF Promise!Next
    <3>5. CASE ~Resting /\ Resting'
      <4>1. Partner' = dest_address'
        BY <3>5 DEF DirectInv, HomeKept, Resting, At, Scanning
      <4>2. Promise!Finish
        BY <2>2, <3>5, <4>1, HomeMoves DEF Promise!Finish, Partner
      <4>3. QED
        BY <4>2 DEF Promise!Next
    <3>6. QED
      BY <3>2, <3>3, <3>4, <3>5
  <2>3. QED
    BY <2>1, <2>2
<1>3. QED
  BY <1>1, <1>2, TypeCorrect, DirectInductive, PTL
     DEF Spec, ImplementsConversation, Promise!Spec, Partner

=============================================================================

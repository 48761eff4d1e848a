----------------------------- MODULE Destination -----------------------------
(***************************************************************************)
(* The destination of the next telegram and the device identity that goes  *)
(* with it (BSB_LAN.ino, mqtt_handler.h, print_ipwe.h).                     *)
(*                                                                         *)
(* The bus object holds one destination address (here bus_dest); the       *)
(* globals my_dev_fam, my_dev_var and my_dev_serial, which select the rows  *)
(* of the command table, should describe that same device.  GetDevId()      *)
(* fills the table dev_lookup by a broadcast and looks the current          *)
(* destination up in it.  Every user of another destination saves both,     *)
(* calls set_temp_destination(), talks, and puts both back.                 *)
(*                                                                         *)
(* The my_dev_* globals are abstracted to the address of the device whose   *)
(* data they hold (or Nobody: my_dev_fam = 0, nothing detected yet).        *)
(* my_dev_oc, which only names the file of a dump, is left out.             *)
(* loop() is single-threaded: what interleaves is the order of requests    *)
(* with the answers, silences and foreign telegrams of the bus.            *)
(***************************************************************************)
EXTENDS Naturals

CONSTANTS
    Addr,        \* bus addresses a request may name
    Devices,     \* the addresses at which a device answers
    Nobody,      \* my_dev_fam = 0: no device identified
    Free,        \* 0xFF: free slot of dev_lookup
    Everyone,    \* broadcast address, 0x7F (BSB) or 0xFF (LPB)
    Default,     \* -1: a request that names no destination
    Configured,  \* dest_address at start-up
    Slots,       \* length of dev_lookup (10 in the code)
    Families,    \* anz_dev: device families in the category list, at least 1
    MaxList,     \* bound on the parameters of one list
    Json,        \* JSON requests served: subset of {"url", "post"}
    Unknown,     \* may a JSON request hold an element that is skipped?
    Readdress    \* may the user change dest_address at run time?

ASSUME DestinationAssumption ==
    /\ Devices \subseteq Addr
    /\ Configured \in Addr
    /\ Nobody \notin Addr /\ Free \notin Addr
    /\ Everyone \notin Addr /\ Default \notin Addr
    /\ Slots \in Nat \ {0} /\ Families \in Nat \ {0} /\ MaxList \in Nat
    /\ Json \subseteq {"url", "post"}
    /\ Unknown \in BOOLEAN /\ Readdress \in BOOLEAN

VARIABLES
    stage,         \* the part of loop() that runs
    pc,            \* "idle", or where a task or GetDevId() stands
    cont,          \* where GetDevId() returns to
    bus_dest,      \* bus->getBusDest()
    save_dest,     \* save_destAddr of a running device scan
    dest_address,  \* the configured default destination
    my_dev,        \* my_dev_fam/var/serial
    dev_lookup,    \* the device table
    success,       \* change_dest_success, the result of the last GetDevId()
    task           \* locals of the running task

vars == <<stage, pc, cont, bus_dest, save_dest, dest_address, my_dev,
          dev_lookup, success, task>>

Stages == {"http", "mqtt", "log", "maintenance", "repair"}

Known == {dev_lookup[i] : i \in 1..Slots} \ {Free}

NoTask == [destAddr |-> Configured, my_dev |-> Nobody, d_addr |-> Configured,
           prev |-> Configured, i |-> 0, checked |-> FALSE, post |-> FALSE,
           output |-> FALSE, known |-> TRUE]

\* The locals every task starts with: the destination and identity to return to.
Saved == [NoTask EXCEPT !.destAddr = bus_dest, !.my_dev = my_dev,
                        !.d_addr = bus_dest, !.prev = bus_dest]

Init ==
    /\ stage = "http"
    /\ pc = "getdevid" /\ cont = "idle"      \* setup() calls GetDevId()
    /\ bus_dest = Configured /\ save_dest = Configured
    /\ dest_address = Configured
    /\ my_dev = Nobody
    /\ dev_lookup = [i \in 1..Slots |-> Free]
    /\ success = TRUE
    /\ task = NoTask

-----------------------------------------------------------------------------
(* GetDevId() *)

\* Faults (FaultX ==) are mutated forms of a definition X, in no specification;
\* they show that the properties below can fail.
Identity(d) == IF d \in Known THEN d ELSE my_dev

Return(d) ==
    /\ bus_dest' = d
    /\ my_dev' = Identity(d)
    /\ success' = TRUE
    /\ pc' = cont

\* The table has a first entry: no scan, only the look-up.
DevicesKnown ==
    /\ pc = "getdevid" /\ dev_lookup[1] # Free
    /\ Return(bus_dest)
    /\ UNCHANGED <<stage, cont, save_dest, dest_address, dev_lookup, task>>

\* The broadcast cannot be sent (bus->Send() # BUS_OK): the count check is
\* inside that branch too, so only the look-up remains.
BroadcastFails ==
    /\ pc = "getdevid" /\ dev_lookup[1] = Free
    /\ Return(bus_dest)
    /\ UNCHANGED <<stage, cont, save_dest, dest_address, dev_lookup, task>>

BroadcastQuery ==
    /\ pc = "getdevid" /\ dev_lookup[1] = Free
    /\ save_dest' = bus_dest
    /\ bus_dest' = Everyone
    /\ pc' = "scan"
    /\ UNCHANGED <<stage, cont, dest_address, my_dev, dev_lookup, success, task>>

\* A TYPE_INF answer addressed to us goes to the first slot that holds its
\* sender or is free; with neither it is dropped.
DeviceAnswers(s) ==
    /\ pc = "scan"
    /\ \E i \in 1..Slots :
          /\ dev_lookup[i] \in {s, Free}
          /\ \A j \in 1..(i - 1) : dev_lookup[j] \notin {s, Free}
          /\ dev_lookup' = [dev_lookup EXCEPT ![i] = s]
    /\ UNCHANGED <<stage, pc, cont, bus_dest, save_dest, dest_address, my_dev,
                   success, task>>

\* The scan ends after 10 s, or at the first telegram that is no answer to us
\* (break).  Slot i is the first free one: i - 1 devices against anz_dev - 1.
TooFew == \E i \in 1..Slots :
             /\ dev_lookup[i] = Free
             /\ \A j \in 1..(i - 1) : dev_lookup[j] # Free
             /\ i < Families

FaultScanAccepted ==
    /\ pc = "scan" /\ ~TooFew
    /\ Return(bus_dest)
    /\ UNCHANGED <<stage, cont, save_dest, dest_address, dev_lookup, task>>

ScanAccepted ==
    /\ pc = "scan" /\ ~TooFew
    /\ Return(save_dest)
    /\ UNCHANGED <<stage, cont, save_dest, dest_address, dev_lookup, task>>

ScanRejected ==
    /\ pc = "scan" /\ TooFew
    /\ dev_lookup' = [dev_lookup EXCEPT ![1] = Free]
    /\ bus_dest' = save_dest
    /\ success' = FALSE
    /\ pc' = cont
    /\ UNCHANGED <<stage, cont, save_dest, dest_address, my_dev, task>>

GetDevId ==
    \/ DevicesKnown \/ BroadcastFails \/ BroadcastQuery
    \/ \E s \in Devices : DeviceAnswers(s)
    \/ ScanAccepted \/ ScanRejected

\* Talk to d from now on, then go on at k.
SetTempDestination(d, k) ==
    /\ UNCHANGED <<save_dest, my_dev, dev_lookup>>
    /\ \/ /\ d = bus_dest
          /\ success' = TRUE /\ pc' = k
          /\ UNCHANGED <<bus_dest, cont>>
       \/ /\ d # bus_dest
          /\ bus_dest' = d /\ pc' = "getdevid" /\ cont' = k
          /\ UNCHANGED success

\* No change of destination: go on at k.
KeepDestination(k) ==
    /\ pc' = k
    /\ UNCHANGED <<cont, bus_dest, save_dest, my_dev, dev_lookup, success>>

FaultRestore(away) ==
    /\ bus_dest' = IF away THEN task.destAddr ELSE bus_dest
    /\ UNCHANGED my_dev

\* return_to_default_destination() and the saved identity, when they differ.
Restore(away) ==
    /\ bus_dest' = IF away THEN task.destAddr ELSE bus_dest
    /\ my_dev' = IF away THEN task.my_dev ELSE my_dev

EndTask(away) ==
    /\ Restore(away)
    /\ pc' = "idle" /\ task' = NoTask
    /\ UNCHANGED <<stage, cont, save_dest, dest_address, dev_lookup, success>>

-----------------------------------------------------------------------------
(* One request: /S /I /Y /JY /JB /M (checked: given up when detection fails) *)
(* /R /K, plain queries and MQTT messages (unchecked).                       *)

Command(p, checked) ==
    /\ pc = "idle"
    /\ stage = "http" \/ (stage = "mqtt" /\ ~checked)
    /\ task' = [Saved EXCEPT !.checked = checked,
                             !.d_addr = IF p = Default THEN bus_dest ELSE p]
    /\ IF p = Default
       THEN /\ pc' = "send" /\ success' = TRUE
            /\ UNCHANGED <<cont, bus_dest, save_dest, my_dev, dev_lookup>>
       ELSE SetTempDestination(p, "send")
    /\ UNCHANGED <<stage, dest_address>>

FaultSend == pc = "send" /\ EndTask(my_dev # task.my_dev)

\* The telegram goes out (unless checked and refused), then all is put back.
Send == pc = "send" /\ EndTask(bus_dest # task.destAddr)

-----------------------------------------------------------------------------
(* Lists of parameters: the MQTT, SD/UDP and averages sections of loop() and *)
(* the HTTP handler Ipwe(), all of the same shape.                           *)

ListStart ==
    /\ pc = "idle" /\ stage \in {"http", "log"}
    /\ task' = Saved
    /\ KeepDestination("list")
    /\ UNCHANGED <<stage, dest_address>>

\* {number, p}: another destination than the previous parameter's.
ListElsewhere(p) ==
    /\ pc = "list" /\ task.i < MaxList
    /\ p # Default /\ p # task.d_addr
    /\ task' = [task EXCEPT !.d_addr = p, !.i = @ + 1]
    /\ SetTempDestination(p, "list_send")
    /\ UNCHANGED <<stage, dest_address>>

FaultListReturns ==
    /\ pc = "list" /\ task.i < MaxList
    /\ task.destAddr # task.d_addr
    /\ task' = [task EXCEPT !.d_addr = task.destAddr, !.i = @ + 1]
    /\ KeepDestination("list_send")
    /\ UNCHANGED <<stage, dest_address>>

\* {number, -1} after a parameter of another device.
ListReturns ==
    /\ pc = "list" /\ task.i < MaxList
    /\ task.destAddr # task.d_addr
    /\ task' = [task EXCEPT !.d_addr = task.destAddr, !.i = @ + 1]
    /\ Restore(TRUE)
    /\ pc' = "list_send"
    /\ UNCHANGED <<stage, cont, save_dest, dest_address, dev_lookup, success>>

\* A parameter of the device already spoken to.
ListStays(p) ==
    /\ pc = "list" /\ task.i < MaxList
    /\ p = task.d_addr \/ (p = Default /\ task.destAddr = task.d_addr)
    /\ task' = [task EXCEPT !.i = @ + 1]
    /\ KeepDestination("list_send")
    /\ UNCHANGED <<stage, dest_address>>

ListSend ==
    /\ pc = "list_send"
    /\ KeepDestination("list")
    /\ UNCHANGED <<stage, dest_address, task>>

ListEnd == pc = "list" /\ EndTask(task.destAddr # task.d_addr)

-----------------------------------------------------------------------------
(* JSON requests: /JQ=, /JC=, /JR= with a list (url), /JS with a body (post). *)

JsonStart(post) ==
    /\ pc = "idle" /\ stage = "http"
    /\ (IF post THEN "post" ELSE "url") \in Json
    /\ task' = [Saved EXCEPT !.post = post]
    /\ success' = TRUE
    /\ pc' = "json"
    /\ UNCHANGED <<stage, cont, bus_dest, save_dest, dest_address, my_dev,
                   dev_lookup>>

\* The next element names p and a parameter (known), or something the handler
\* skips.  A flag output left over from a refused or unknown element makes the
\* next character of the body an element of its own, that names nothing new.
JsonElement(p, known) ==
    LET residue == task.output
        d == IF p # Default THEN p
             ELSE IF task.post THEN task.destAddr ELSE task.d_addr
    IN  /\ pc = "json"
        /\ task.i < MaxList
        /\ IF residue THEN p = Default /\ ~known ELSE known \/ Unknown
        /\ task' = [task EXCEPT !.d_addr = d, !.known = known, !.i = @ + 1]
        /\ IF d # task.prev THEN SetTempDestination(d, "json_send")
                            ELSE KeepDestination("json_send")
        /\ UNCHANGED <<stage, dest_address>>

\* The element is queried or set.
JsonSend ==
    /\ pc = "json_send" /\ success /\ task.known
    /\ task' = [task EXCEPT !.prev = task.d_addr, !.output = FALSE]
    /\ KeepDestination("json")
    /\ UNCHANGED <<stage, dest_address>>

\* "continue" before tempDestAddrOnPrevIteration is brought up to date: an
\* unknown parameter of a body leaves the flag output set, a missing one does
\* not.
JsonSkip ==
    /\ pc = "json_send" /\ success /\ ~task.known
    /\ \E output \in {FALSE, task.post} : task' = [task EXCEPT !.output = output]
    /\ KeepDestination("json")
    /\ UNCHANGED <<stage, dest_address>>

\* Detection failed.  In a body the flag output stays set; in the url form the
\* token is not advanced either, so the same element comes again.
JsonRefused ==
    /\ pc = "json_send" /\ ~success
    /\ task' = [task EXCEPT !.prev = task.d_addr, !.output = task.post]
    /\ KeepDestination(IF task.post THEN "json" ELSE "json_send")
    /\ UNCHANGED <<stage, dest_address>>

JsonEnd == pc = "json" /\ EndTask(task.d_addr # task.destAddr)

-----------------------------------------------------------------------------
(* Walks over dev_lookup.                                                    *)

\* mqtt_connect() after the broker lost its session: announce every device.
RediscoverStart ==
    /\ pc = "idle" /\ stage = "mqtt"
    /\ task' = Saved
    /\ KeepDestination("rediscover")
    /\ UNCHANGED <<stage, dest_address>>


RediscoverDevice ==
    /\ pc = "rediscover" /\ task.i < Slots
    /\ LET d == dev_lookup[task.i + 1]
       IN  IF d = Free
           THEN /\ task' = [task EXCEPT !.i = @ + 1]
                /\ KeepDestination("rediscover")
           ELSE /\ task' = [task EXCEPT !.i = @ + 1, !.d_addr = d]
                /\ SetTempDestination(d, "announce")
    /\ UNCHANGED <<stage, dest_address>>

Announce ==
    /\ pc = "announce"
    /\ KeepDestination("rediscover")
    /\ UNCHANGED <<stage, dest_address, task>>

RediscoverEnd ==
    pc = "rediscover" /\ task.i = Slots /\ EndTask(bus_dest # task.destAddr)

\* /QD: raw dumps of every known device.  Only the destination is changed and
\* restored: the identity of parameters 6224 to 6227, asked for first, is still
\* that of the default device.  The client may go away at any time.
DumpStart ==
    /\ pc = "idle" /\ stage = "http"
    /\ task' = Saved
    /\ KeepDestination("dump")
    /\ UNCHANGED <<stage, dest_address>>

DumpDevice ==
    /\ pc = "dump" /\ task.i < Slots
    /\ task' = [task EXCEPT !.i = @ + 1]
    /\ bus_dest' = IF dev_lookup[task.i + 1] = Free THEN bus_dest
                   ELSE dev_lookup[task.i + 1]
    /\ UNCHANGED <<stage, pc, cont, save_dest, dest_address, my_dev,
                   dev_lookup, success>>

FaultDumpEnd ==
    /\ pc = "dump" /\ pc' = "idle" /\ task' = NoTask
    /\ UNCHANGED <<stage, cont, bus_dest, save_dest, dest_address, my_dev,
                   dev_lookup, success>>

DumpEnd ==
    /\ pc = "dump"
    /\ bus_dest' = task.destAddr
    /\ pc' = "idle" /\ task' = NoTask
    /\ UNCHANGED <<stage, cont, save_dest, dest_address, my_dev, dev_lookup,
                   success>>

-----------------------------------------------------------------------------
(* The turns of loop().                                                      *)

\* /P<bus>,<own>,<dest> and a saved configuration with another destination.
SetAddress(d) ==
    /\ Readdress /\ pc = "idle" /\ stage = "http"
    /\ dest_address' = d /\ bus_dest' = d
    /\ pc' = "getdevid" /\ cont' = "idle"
    /\ UNCHANGED <<stage, save_dest, my_dev, dev_lookup, success, task>>

NextStage ==
    /\ pc = "idle" /\ stage # "repair"
    /\ stage' = CASE stage = "http" -> "mqtt"
                  [] stage = "mqtt" -> "log"
                  [] stage = "log" -> "maintenance"
                  [] stage = "maintenance" -> "repair"
    /\ UNCHANGED <<pc, cont, bus_dest, save_dest, dest_address, my_dev,
                   dev_lookup, success, task>>


\* Once a minute: detect again while no device family is known.
Maintenance ==
    /\ pc = "idle" /\ stage = "maintenance" /\ my_dev = Nobody
    /\ stage' = "repair" /\ pc' = "getdevid" /\ cont' = "idle"
    /\ UNCHANGED <<bus_dest, save_dest, dest_address, my_dev, dev_lookup,
                   success, task>>


\* The end of loop(): "just in case" the destination was not put back.
Repair ==
    /\ pc = "idle" /\ stage = "repair"
    /\ stage' = "http"
    /\ IF bus_dest # dest_address
       THEN bus_dest' = dest_address /\ pc' = "getdevid" /\ cont' = "idle"
       ELSE UNCHANGED <<bus_dest, pc, cont>>
    /\ UNCHANGED <<save_dest, dest_address, my_dev, dev_lookup, success, task>>

-----------------------------------------------------------------------------
Requests ==
    \/ \E p \in Addr \cup {Default}, checked \in BOOLEAN : Command(p, checked)
    \/ ListStart
    \/ \E post \in BOOLEAN : JsonStart(post)
    \/ RediscoverStart \/ DumpStart
    \/ \E d \in Addr : SetAddress(d)

Work ==
    \/ Send
    \/ \E p \in Addr \cup {Default} : ListElsewhere(p) \/ ListStays(p)
    \/ ListReturns \/ ListSend \/ ListEnd
    \/ \E p \in Addr \cup {Default}, known \in BOOLEAN : JsonElement(p, known)
    \/ JsonSend \/ JsonSkip \/ JsonRefused \/ JsonEnd
    \/ RediscoverDevice \/ Announce \/ RediscoverEnd
    \/ DumpDevice \/ DumpEnd

Turn == NextStage \/ Maintenance \/ Repair

Next == GetDevId \/ Requests \/ Work \/ Turn

Spec == Init /\ [][Next]_vars

(***************************************************************************)
(* loop() is called for ever and no request is endless, so the tasks it    *)
(* runs and its turns make progress; the minute of the maintenance timer   *)
(* passes; a scan lasts 10 s at most.                                      *)
(***************************************************************************)
Fairness ==
    /\ WF_vars(Work)
    /\ WF_vars(DevicesKnown \/ BroadcastFails \/ BroadcastQuery)
    /\ SF_vars(ScanAccepted \/ ScanRejected)
    /\ SF_vars(NextStage \/ Repair)
    /\ SF_vars(Maintenance)

FairSpec == Spec /\ Fairness

-----------------------------------------------------------------------------
Resting == pc = "idle"

Scanning == pc \in {"getdevid", "scan"}

\* Where a telegram with a parameter lookup is about to leave.
Sending ==
    \/ pc = "send" /\ (task.checked => success)
    \/ pc = "list_send"
    \/ pc = "json_send" /\ success /\ task.known
    \/ pc = "announce" /\ success

PCs == {"idle", "getdevid", "scan", "send", "list", "list_send", "json",
        "json_send", "rediscover", "announce", "dump"}

Task == [destAddr : Addr, my_dev : Addr \cup {Nobody}, d_addr : Addr,
         prev : Addr, i : Nat, checked : BOOLEAN, post : BOOLEAN,
         output : BOOLEAN, known : BOOLEAN]

\* Every variable holds a value the code can give it; while a scan is not
\* running the destination is an address, never the broadcast.
TypeOK ==
    /\ stage \in Stages /\ pc \in PCs
    /\ cont \in PCs \ {"getdevid", "scan"}
    /\ bus_dest \in Addr \cup {Everyone}
    /\ (pc # "scan" => bus_dest \in Addr)
    /\ save_dest \in Addr /\ dest_address \in Addr
    /\ my_dev \in Addr \cup {Nobody}
    /\ dev_lookup \in [1..Slots -> Addr \cup {Free}]
    /\ success \in BOOLEAN
    /\ task \in Task

-----------------------------------------------------------------------------
(* Properties *)

\* Every telegram goes to the device its request names, however destinations
\* alternate within lists and requests and whatever scans do in between: the
\* locals d_addr and tempDestAddr never part from the destination of the bus.
AsDirected == Sending => bus_dest = task.d_addr

\* While the destination is a device of the table, the identity that selects
\* the rows of the command table is that device's, or none is known yet: no
\* device of the table is ever addressed with the parameters of another.
\* (Not so during /QD, which looks parameters 6224 to 6227 up with the identity
\* of the default device.)
IdentityFits ==
    pc \notin {"getdevid", "scan", "dump"} /\ bus_dest \in Known
        => my_dev \in {bus_dest, Nobody}

\* Nothing leaks out of a task: whenever loop() is between two tasks, the
\* destination is the default one, so Repair never has anything to do.
AtHome == Resting => bus_dest = dest_address

\* An element of the URL form that was refused comes again for ever (finding).
RefusedAgain == pc = "json_send" /\ ~success /\ ~task.post




-----------------------------------------------------------------------------
(* The abstract specification.  During a scan the partner is the one the    *)
(* scan will return to: the broadcast itself is no conversation.            *)

Promise == INSTANCE Conversation WITH
    partner <- IF pc = "scan" THEN save_dest ELSE bus_dest,
    default <- dest_address,
    busy <- ~Resting

\* Destination implements Conversation.
ImplementsConversation == Promise!Spec

=============================================================================

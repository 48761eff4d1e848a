------------------------------- MODULE BusLink -------------------------------
(***************************************************************************)
(* One parameter of a controller is queried or set over BSB or LPB:         *)
(* BSB::_send(), BSB::Send() and GetMessage() (bsb.cpp) and their callers    *)
(* query() and set() (BSB_LAN.ino).                                         *)
(*                                                                         *)
(* The bus is a wire that everybody hears: a telegram may be lost or        *)
(* disturbed, the program repeats it, and an answer is recognized by its     *)
(* receiver and its command only.  Controllers, and the rest of the bus,    *)
(* are modelled from how the program uses them.                             *)
(*                                                                         *)
(* The payload of a parameter is split into the field that a user sets and  *)
(* the rest, which stays as it is when only the field is set (enumerations   *)
(* inside longer payloads, switching a parameter off).                      *)
(*                                                                         *)
(* FaultX are mutated forms of X, used by no specification: they show that  *)
(* the properties can fail.                                                *)
(***************************************************************************)
EXTENDS Integers, Sequences, FiniteSets

CONSTANTS
    Params,          \* parameters in use: pairs of controller and command
    Field, Rest,     \* contents of the two parts of a payload
    None,            \* no telegram, no data
    Us, Other,       \* our bus address, and that of another listener
    QUERY_RETRIES,   \* 3
    Soonest,         \* retry of _send() at which a second may be over: 3
    Latest,          \* ... and at which it is over for certain: 7
    Messages,        \* telegrams that Send() looks at: 15
    Buffer,          \* telegrams that the UART holds
    MaxLate,         \* bound on the telegrams worked on when a job begins
    MaxChanges       \* bound on the values a parameter has during a job

Controllers == {p[1] : p \in Params}
Commands == {p[2] : p \in Params}
Payload == [field : Field, rest : Rest]

\* type: QUR stands for TYPE_QUR and TYPE_QINF, ANS for their answers.
Telegrams == [src : Controllers \cup {Us}, dst : Controllers \cup {Us, Other},
              type : {"QUR", "SET", "INF", "ANS", "ACK", "ERR"},
              cmd : Commands, data : Payload \cup {None}]

ASSUME BusAssumption ==
    /\ Params \subseteq Controllers \X Commands
    /\ Us \notin Controllers /\ Other \notin Controllers /\ Us # Other
    /\ None \notin Controllers \cup Payload \cup Telegrams
    /\ QUERY_RETRIES \in Nat \ {0} /\ Messages \in Nat \ {0}
    /\ Soonest \in Nat \ {0} /\ Latest \in Nat /\ Soonest <= Latest
    /\ Buffer \in Nat \ {0} /\ MaxLate \in Nat /\ MaxChanges \in Nat

VARIABLES
    prompt,     \* controllers answer before Send() gives up, or never
    value,      \* what the controllers hold
    todo,       \* the telegram each controller is working on
    rx,         \* whole telegrams in the receive buffer of the UART
    pc,         \* "idle", "wait" (for a free bus), "await" (an answer),
                \* "returned" (from Send()), "done"
    job,        \* arguments of query() or set()
    tries,      \* retry of query()
    tx,         \* tx_msg
    attempts,   \* goto retry, in this _send()
    left,       \* i in Send()
    got,        \* what Send() has returned: a telegram, or None
    result,     \* what query() or set() has returned
    known,      \* history: the rest of the payload is from an answer
    seen,       \* history: what the parameter has held since the job began
    mishap      \* history: something went wrong on the bus in this Send()

caller == <<job, tries, result, known>>
sending == <<tx, attempts, left>>
vars == <<prompt, value, todo, rx, pc, caller, sending, got, seen, mishap>>

Telegram(src, dst, type, cmd, data) ==
    [src |-> src, dst |-> dst, type |-> type, cmd |-> cmd, data |-> data]

Job(kind, p, data, setcmd, enum) ==
    [kind |-> kind, par |-> p, data |-> data, setcmd |-> setcmd, enum |-> enum]

NoJob == Job("none", None, None, TRUE, FALSE)

Jobs == [kind : {"query", "set", "patch"}, par : Params,
         data : Payload \cup {None}, setcmd : BOOLEAN, enum : BOOLEAN]

Init ==
    /\ prompt \in BOOLEAN
    /\ value \in [Params -> Payload]
    /\ todo = [d \in Controllers |-> None]
    /\ rx = <<>> /\ pc = "idle"
    /\ job = NoJob /\ tries = 1
    /\ tx = None /\ attempts = 0 /\ left = 0
    /\ got = None /\ result = "none" /\ known = FALSE
    /\ seen = {} /\ mishap = FALSE

-----------------------------------------------------------------------------
(* Send() and _send()                                                        *)

FaultStartSend(t) ==
    /\ pc' = "wait" /\ tx' = t /\ attempts' = 0
    /\ got' = None /\ mishap' = FALSE
    /\ UNCHANGED <<rx, left>>

\* What is in the receive buffer is thrown away.
StartSend(t) ==
    /\ rx' = <<>>
    /\ pc' = "wait" /\ tx' = t /\ attempts' = 0
    /\ got' = None /\ mishap' = FALSE
    /\ UNCHANGED left

\* Controllers that will still answer.
Pending(work) == {d \in Controllers : work[d] # None /\ work[d].type # "INF"}

\* Nothing is outstanding any more, if controllers are prompt.
Settled(work) == prompt => Pending(work) = {}

FaultRetry ==
    /\ rx' = <<>> /\ mishap' = TRUE
    /\ attempts' = attempts /\ UNCHANGED <<pc, got>>

FaultLongRetry ==
    /\ rx' = <<>> /\ mishap' = TRUE
    /\ \/ /\ attempts < Latest
          /\ attempts' = attempts + 1
          /\ UNCHANGED <<pc, got>>
       \/ /\ attempts + 1 >= Soonest /\ Settled(todo')
          /\ pc' = "returned" /\ got' = None
          /\ attempts' = 0

\* 146 ms pause, the receive buffer is emptied; goto retry, for one second.
Retry ==
    /\ rx' = <<>> /\ mishap' = TRUE
    /\ \/ /\ attempts + 1 < Latest
          /\ attempts' = attempts + 1
          /\ UNCHANGED <<pc, got>>
       \/ /\ attempts + 1 >= Soonest /\ Settled(todo')
          /\ pc' = "returned" /\ got' = None          \* BUS_NOTFREE
          /\ attempts' = 0

\* Others are talking while we wait for a free bus.
BusBusy ==
    /\ pc = "wait"
    /\ UNCHANGED todo
    /\ Retry
    /\ UNCHANGED <<prompt, value, caller, tx, left, seen>>

Deliver(t) == todo' = [todo EXCEPT ![t.dst] = t]

\* The telegram is on the bus and does not come back as it was sent; the
\* controller may have heard it well.
Collision ==
    /\ pc = "wait" /\ Settled(todo)
    /\ Deliver(tx) \/ UNCHANGED todo
    /\ Retry
    /\ UNCHANGED <<prompt, value, caller, tx, left, seen>>

\* It comes back unchanged, or not at all: BUS_OK.  It may be lost even so.
Transmit ==
    /\ pc = "wait" /\ Settled(todo)
    /\ \/ Deliver(tx) /\ UNCHANGED mishap
       \/ mishap' = TRUE /\ UNCHANGED todo
    /\ IF tx.type = "INF"
       THEN pc' = "returned" /\ got' = tx /\ UNCHANGED left
       ELSE pc' = "await" /\ left' = Messages /\ UNCHANGED got
    /\ attempts' = 0
    /\ UNCHANGED <<prompt, value, rx, caller, tx, seen>>

FaultMatches(t) == t.cmd = tx.cmd

\* Nothing but the receiver and the command is compared.
Matches(t) == t.dst = Us /\ t.cmd = tx.cmd

FaultReceive ==
    /\ pc = "await" /\ rx # <<>>
    /\ rx' = Tail(rx)
    /\ got' = IF Matches(Head(rx)) THEN Head(rx) ELSE None
    /\ pc' = "returned" /\ left' = 0
    /\ UNCHANGED <<prompt, value, todo, caller, tx, attempts, seen, mishap>>

Receive ==
    /\ pc = "await" /\ rx # <<>>
    /\ rx' = Tail(rx)
    /\ IF Matches(Head(rx))
       THEN pc' = "returned" /\ got' = Head(rx) /\ left' = 0
       ELSE /\ pc' = IF left = 1 THEN "returned" ELSE "await"
            /\ left' = left - 1
            /\ UNCHANGED got
    /\ UNCHANGED <<prompt, value, todo, caller, tx, attempts, seen, mishap>>

\* BUS_NOMATCH after 3 s, or less when millis() + 3000 wraps.
TimedOut ==
    /\ pc = "await"
    /\ Settled(todo) /\ (prompt => rx = <<>>)
    /\ pc' = "returned" /\ left' = 0
    /\ UNCHANGED <<prompt, value, todo, rx, caller, tx, attempts, got, seen, mishap>>

-----------------------------------------------------------------------------
(* query() and set()                                                         *)

Ask(p) == Telegram(Us, p[1], "QUR", p[2], None)

Order(j) ==
    Telegram(Us, j.par[1], IF j.setcmd THEN "SET" ELSE "INF", j.par[2], j.data)

Begin(j, n) ==
    /\ pc = "idle"
    /\ job' = j /\ tries' = n
    /\ seen' = {value[j.par]} /\ known' = FALSE
    /\ UNCHANGED <<prompt, value, todo, result>>

\* query() with its retries; SetDateTime() and queryDefaultValue() with none.
Query(p, n) ==
    /\ Begin(Job("query", p, None, TRUE, FALSE), n)
    /\ StartSend(Ask(p))

\* set() of a parameter whose payload is made from the user's input alone.
Set(p, v, setcmd) ==
    LET j == Job("set", p, v, setcmd, FALSE)
    IN  Begin(j, 1) /\ StartSend(Order(j))

\* set() of a field: a VT_CUSTOM_ENUM is preceded by one TYPE_QINF, switching
\* a parameter off by query().
Patch(p, f, setcmd, n) ==
    /\ Begin(Job("patch", p, [value[p] EXCEPT !.field = f], setcmd, n = 1), n)
    /\ StartSend(Ask(p))

Asking == pc = "returned" /\ tx.type = "QUR"
Answered == got # None
LastTry == Answered \/ tries = 1

NextTry ==
    /\ Asking /\ ~LastTry
    /\ tries' = tries - 1
    /\ StartSend(tx)
    /\ UNCHANGED <<prompt, value, todo, job, result, known, seen>>

Finish(r) ==
    /\ pc' = "done" /\ result' = r
    /\ tries' = 1 /\ tx' = None /\ mishap' = FALSE
    /\ UNCHANGED <<prompt, value, todo, rx, job, known, attempts, left, got, seen>>

\* error 261, an error of the controller, a value, or nothing (from an ACK).
Meaning ==
    IF ~Answered THEN "failed"
    ELSE CASE got.type = "ANS" -> "value"
           [] got.type = "ERR" -> "error"
           [] OTHER -> "empty"

QueryEnds == Asking /\ LastTry /\ job.kind = "query" /\ Finish(Meaning)

FaultPatchGoesOn ==
    /\ Asking /\ LastTry /\ job.kind = "patch"
    /\ known' = (Meaning = "value")
    /\ \E r \in Rest : job' = [job EXCEPT !.data = [@ EXCEPT !.rest = r]]
    /\ tries' = 1
    /\ StartSend(Order(job'))
    /\ UNCHANGED <<prompt, value, todo, result, seen>>

\* The field is put into the rest that was received.  Failure is not looked
\* at: then the rest is what the buffers happen to hold.
PatchGoesOn ==
    /\ Asking /\ LastTry /\ job.kind = "patch"
    /\ known' = (Meaning = "value")
    /\ \E r \in IF known' THEN {got.data.rest} ELSE Rest :
          job' = [job EXCEPT !.data = [@ EXCEPT !.rest = r]]
    /\ tries' = 1
    /\ StartSend(Order(job'))
    /\ UNCHANGED <<prompt, value, todo, result, seen>>

\* ... except when the telegram of a VT_CUSTOM_ENUM is, or after a failure
\* seems to be, longer than 18 bytes.
PatchRefused ==
    /\ Asking /\ LastTry /\ job.kind = "patch" /\ job.enum
    /\ Finish("refused")

FaultSetEnds ==
    /\ pc = "returned" /\ tx.type # "QUR"
    /\ Finish(IF ~Answered THEN "failed"
              ELSE CASE got.type = "INF" -> "sent"
                     [] OTHER -> "ok")

\* An order is acknowledged, or has failed; TYPE_INF has no answer.
SetEnds ==
    /\ pc = "returned" /\ tx.type # "QUR"
    /\ Finish(IF ~Answered THEN "failed"
              ELSE CASE got.type = "ACK" -> "ok"
                     [] got.type = "INF" -> "sent"
                     [] OTHER -> "nack")

Return ==
    /\ pc = "done" /\ pc' = "idle"
    /\ job' = NoJob /\ result' = "none" /\ known' = FALSE /\ got' = None
    /\ seen' = {}
    /\ UNCHANGED <<prompt, value, todo, rx, tries, sending, mishap>>

\* loop() between two jobs: telegrams are looked at and dropped.
LoopReads ==
    /\ pc = "idle" /\ rx # <<>>
    /\ rx' = Tail(rx)
    /\ UNCHANGED <<prompt, value, todo, pc, caller, sending, got, seen, mishap>>

-----------------------------------------------------------------------------
(* The rest of the bus                                                       *)

\* The parameter of the job may have another value now.
Watch(v) == seen' = IF pc = "idle" THEN {} ELSE seen \cup {v[job.par]}

\* A telegram arrives: activity for those who wait for a free bus, and lost
\* if the buffer is full.
Arrives(t) ==
    IF pc = "wait" THEN Retry
    ELSE /\ IF Len(rx) < Buffer
            THEN rx' = Append(rx, t) /\ UNCHANGED mishap
            ELSE UNCHANGED rx /\ mishap' = (pc \notin {"idle", "done"})
         /\ UNCHANGED <<pc, attempts, got>>

Lost ==
    IF pc = "wait" THEN Retry
    ELSE mishap' = (pc \notin {"idle", "done"}) /\ UNCHANGED <<rx, pc, attempts, got>>

\* The controller takes or refuses the order, and answers all but TYPE_INF.
Handle(d) ==
    /\ todo[d] # None
    /\ todo' = [todo EXCEPT ![d] = None]
    /\ \E takes \in BOOLEAN :
          LET t == todo[d]
              answer == CASE ~takes -> "ERR"
                          [] t.type = "QUR" -> "ANS"
                          [] OTHER -> "ACK"
              data == IF answer = "ANS" THEN value[<<d, t.cmd>>] ELSE None
          IN  /\ value' = IF takes /\ t.type # "QUR"
                          THEN [value EXCEPT ![<<d, t.cmd>>] = t.data] ELSE value
              /\ IF t.type = "INF" THEN UNCHANGED <<rx, mishap, pc, attempts, got>>
                 ELSE Arrives(Telegram(d, Us, answer, t.cmd, data)) \/ Lost
    /\ Watch(value')
    /\ UNCHANGED <<prompt, caller, tx, left>>

\* The controller, or another user, changes a value.
Changes(p, v) ==
    /\ v # value[p] /\ Cardinality(seen) < MaxChanges
    /\ value' = [value EXCEPT ![p] = v]
    /\ Watch(value')
    /\ UNCHANGED <<prompt, todo, rx, pc, caller, sending, got, mishap>>

\* A controller talks to another listener about the same parameters.  With
\* prompt controllers our answer is among the telegrams that Send() looks at.
Foreign(p) ==
    /\ pc # "wait" /\ Len(rx) < Buffer
    /\ (pc = "await" /\ prompt) => left > Len(rx) + 1
    /\ rx' = Append(rx, Telegram(p[1], Other, "ACK", p[2], None))
    /\ UNCHANGED <<prompt, value, todo, pc, caller, sending, got, seen, mishap>>

Sender == BusBusy \/ Collision \/ Transmit \/ Receive \/ TimedOut

Caller ==
    \/ NextTry \/ QueryEnds \/ PatchGoesOn \/ PatchRefused \/ SetEnds \/ Return

User ==
  /\ Cardinality({d \in Controllers : todo[d] # None}) <= MaxLate
  /\ \E p \in Params :
        \/ \E n \in {1, QUERY_RETRIES} : Query(p, n)
        \/ \E setcmd \in BOOLEAN :
              \/ \E v \in Payload : Set(p, v, setcmd)
              \/ \E f \in Field, n \in {1, QUERY_RETRIES} : Patch(p, f, setcmd, n)

Bus ==
    \/ \E d \in Controllers : Handle(d)
    \/ \E p \in Params : Foreign(p) \/ \E v \in Payload : Changes(p, v)

Next == Sender \/ Caller \/ User \/ LoopReads \/ Bus

Spec == Init /\ [][Next]_vars

-----------------------------------------------------------------------------

TypeOK ==
    /\ prompt \in BOOLEAN
    /\ value \in [Params -> Payload]
    /\ todo \in [Controllers -> Telegrams \cup {None}]
    /\ rx \in Seq(Telegrams) /\ Len(rx) <= Buffer
    /\ pc \in {"idle", "wait", "await", "returned", "done"}
    /\ job \in IF pc = "idle" THEN {NoJob} ELSE Jobs
    /\ tries \in 1..QUERY_RETRIES
    /\ attempts \in 0..(Latest - 1) /\ left \in 0..Messages
    /\ tx \in Telegrams \cup {None} /\ got \in Telegrams \cup {None}
    /\ result \in {"none", "failed", "error", "value", "empty", "ok", "sent",
                   "nack", "refused"}
    /\ known \in BOOLEAN /\ mishap \in BOOLEAN
    /\ seen \subseteq Payload

\* A value that query() gets from the controller it has asked is one that the
\* parameter has had since query() began: never one from before, whatever was
\* lost, repeated, late, or left in the receive buffer (bsb.cpp:601).
Truthful ==
    pc = "done" /\ result = "value" /\ got.src = job.par[1] => got.data \in seen

\* If controllers are prompt, the answer is that of the controller addressed,
\* although Send() does not compare the sender.
RightSender ==
    prompt /\ pc = "done" /\ result \in {"value", "ok", "error"} =>
        got.src = job.par[1]

\* If controllers are prompt, an order that set() calls successful has been
\* carried out ("Expect an acknowledgement to our SET telegram").
AckMeansSet ==
    prompt /\ pc = "done" /\ result = "ok" => job.data \in seen

\* If controllers are prompt, an order for a field that was made from an answer
\* leaves the rest as it was.
PatchKeepsRest ==
    prompt /\ pc # "idle" /\ job.kind = "patch" /\ known =>
        \E v \in seen : job.data.rest = v.rest

\* If controllers are prompt, Send() fails only if something went wrong on the
\* bus: no answer is missed or thrown away.
FailureHasReason ==
    prompt /\ pc = "returned" /\ got = None => mishap

\* query() and set() come to an end, however busy and disturbed the bus is: each
\* step of theirs brings it nearer, and no step of the bus puts it off.
InSend ==
    CASE pc = "wait" -> Latest - attempts + Messages + 1
      [] pc = "await" -> left + 1
      [] pc = "returned" -> 1
      [] OTHER -> 0

SendsToCome ==
    IF pc # "done" /\ tx.type = "QUR"
    THEN (tries - 1) + (IF job.kind = "patch" THEN 1 ELSE 0)
    ELSE 0

Distance == SendsToCome * (Latest + Messages + 1) + InSend

JobsEnd ==
    [][pc # "idle" /\ pc' # "idle" =>
          IF Bus THEN Distance' <= Distance ELSE Distance' < Distance]_vars

=============================================================================

---------------------------- MODULE BusLink_proofs ----------------------------
(***************************************************************************)
(* Proofs about BusLink, for every set of parameters and payloads and all   *)
(* limits of Send(): types; the truth of what query() reports; under prompt *)
(* controllers that failures have reasons, answers are those of the         *)
(* controller asked, an accepted set is in force and a patch keeps the      *)
(* rest; and that every job comes to an end.                                *)
(***************************************************************************)
EXTENDS BusLink, SequenceTheorems, TLAPS

\* What we send: to a controller about a parameter of its own.
Own == {t \in Telegrams : /\ t.dst \in Controllers /\ <<t.dst, t.cmd>> \in Params
                          /\ t.type \in {"QUR", "SET", "INF"}
                          /\ t.type # "QUR" => t.data \in Payload}

\* What can arrive: an answer to us holds a payload.
Heard == {t \in Telegrams : t.dst = Us /\ t.type = "ANS" => t.data \in Payload}

Busy == pc \in {"wait", "await", "returned"}

PlainInv ==
    /\ prompt \in BOOLEAN /\ known \in BOOLEAN /\ mishap \in BOOLEAN
    /\ pc \in {"idle", "wait", "await", "returned", "done"}
    /\ result \in {"none", "failed", "error", "value", "empty", "ok", "sent",
                   "nack", "refused"}
    /\ tries \in 1..QUERY_RETRIES

CountInv ==
    /\ attempts \in 0..(Latest - 1) /\ left \in 0..Messages
    /\ pc = "await" => left # 0

MemoryInv == value \in [Params -> Payload] /\ seen \subseteq Payload

JobInv ==
    /\ pc = "idle" => job = NoJob
    /\ pc # "idle" => /\ job \in Jobs
                      /\ job.kind # "query" => job.data \in Payload

WireInv == rx \in Seq(Heard) /\ Len(rx) <= Buffer

WorkInv ==
    /\ todo \in [Controllers -> Own \cup {None}]
    /\ \A d \in Controllers : todo[d] # None => todo[d].dst = d

SendInv ==
    /\ tx \in Own \cup {None}
    /\ Busy => tx \in Own /\ <<tx.dst, tx.cmd>> = job.par
    /\ Busy /\ tx.type # "QUR" => job.kind # "query"

GotInv ==
    /\ got \in Heard \cup {None}
    /\ pc \in {"wait", "await"} => got = None
    /\ pc = "returned" /\ tx.type = "QUR" /\ got # None =>
          got.dst = Us /\ got.cmd = tx.cmd

Link == /\ PlainInv /\ CountInv /\ MemoryInv /\ JobInv
        /\ WireInv /\ WorkInv /\ SendInv /\ GotInv

USE BusAssumption

-----------------------------------------------------------------------------
(* Facts about telegrams                                                     *)

LEMMA PairOfParam ==
    ASSUME NEW p \in Params
    PROVE  p[1] \in Controllers /\ p[2] \in Commands /\ <<p[1], p[2]>> = p
<1>1. p \in Controllers \X Commands
  BY DEF BusAssumption
<1> QED
  BY <1>1

LEMMA AskIsOwn ==
    ASSUME NEW p \in Params
    PROVE  /\ Ask(p) \in Own /\ Ask(p).type = "QUR"
           /\ Ask(p).dst = p[1] /\ Ask(p).cmd = p[2]
BY PairOfParam DEF Ask, Own, Telegram, Telegrams

LEMMA OrderIsOwn ==
    ASSUME NEW j \in Jobs, j.data \in Payload
    PROVE  /\ Order(j) \in Own /\ Order(j).type \in {"SET", "INF"}
           /\ Order(j).dst = j.par[1] /\ Order(j).cmd = j.par[2]
<1>1. j.par \in Params
  BY DEF Jobs
<1> QED
  BY <1>1, PairOfParam DEF Order, Own, Telegram, Telegrams

LEMMA OwnIsHeard == Own \subseteq Heard
BY DEF Own, Heard

\* The answers of a controller, and what it says to others, can be heard.
LEMMA AnswerIsHeard ==
    ASSUME NEW d \in Controllers, NEW c \in Commands,
           NEW type \in {"ANS", "ACK", "ERR"}, NEW data \in Payload \cup {None},
           NEW dst \in {Us, Other},
           type = "ANS" => data \in Payload
    PROVE  Telegram(d, dst, type, c, data) \in Heard
BY DEF Telegram, Telegrams, Heard

LEMMA InitLink == Init => Link
<1> SUFFICES ASSUME Init PROVE Link
  OBVIOUS
<1>1. PlainInv
  <2>1. 1 \in 1..QUERY_RETRIES
    BY DEF BusAssumption
  <2> QED
    BY <2>1 DEF Init, PlainInv
<1>6. CountInv
  BY DEF Init, CountInv
<1>2. MemoryInv /\ JobInv
  BY DEF Init, MemoryInv, JobInv
<1>3. WireInv
  <2>1. <<>> \in Seq(Heard) /\ Len(<<>>) = 0
    OBVIOUS
  <2> QED
    BY <2>1 DEF Init, WireInv
<1>4. WorkInv
  BY DEF Init, WorkInv
<1>5. SendInv /\ GotInv
  BY DEF Init, SendInv, GotInv, Busy
<1> QED
  BY <1>1, <1>2, <1>3, <1>4, <1>5, <1>6 DEF Link

-----------------------------------------------------------------------------
(* The pieces that the actions share                                         *)

\* One more telegram in the receive buffer, if there is room.
LEMMA AppendHeard ==
    ASSUME NEW S, NEW q \in Seq(S), NEW t \in S
    PROVE  Append(q, t) \in Seq(S) /\ Len(Append(q, t)) = Len(q) + 1
OBVIOUS

LEMMA TailHeard ==
    ASSUME NEW S, NEW q \in Seq(S), q # <<>>
    PROVE  /\ Head(q) \in S /\ Tail(q) \in Seq(S)
           /\ Len(Tail(q)) = Len(q) - 1 /\ Len(q) \in Nat
BY HeadTailProperties

LEMMA NothingHeard ==
    ASSUME NEW S PROVE <<>> \in Seq(S) /\ Len(<<>>) = 0
OBVIOUS

\* Another attempt, or the end of Send() with nothing.
LEMMA RetryEffect ==
    ASSUME Link, pc = "wait", Retry
    PROVE  /\ rx' = <<>> /\ mishap' = TRUE
           /\ attempts' \in 0..(Latest - 1)
           /\ \/ pc' = "wait" /\ got' = got
              \/ pc' = "returned" /\ got' = None
<1>1. CASE attempts + 1 < Latest /\ attempts' = attempts + 1 /\ UNCHANGED <<pc, got>>
  BY <1>1 DEF Retry, Link, CountInv
<1>2. CASE attempts' = 0 /\ pc' = "returned" /\ got' = None
  BY <1>2 DEF Retry, Link, CountInv
<1> QED
  BY <1>1, <1>2 DEF Retry

\* A step of the bus that leaves pc, the buffer or both as they are.
LEMMA QuietLink ==
    ASSUME Link, UNCHANGED <<prompt, tx, left, job, tries, result, known>>,
           MemoryInv', WorkInv', WireInv', attempts' \in 0..(Latest - 1),
           mishap' \in BOOLEAN,
           \/ pc' = pc /\ got' = got
           \/ pc = "wait" /\ pc' = "returned" /\ got' = None
    PROVE  Link'
<1>1. PlainInv'
  BY DEF Link, PlainInv
<1>2. CountInv'
  BY DEF Link, CountInv
<1>3. JobInv'
  BY DEF Link, JobInv
<1>4. SendInv'
  BY DEF Link, SendInv, Busy
<1>5. GotInv'
  BY DEF Link, GotInv
<1> QED
  BY <1>1, <1>2, <1>3, <1>4, <1>5 DEF Link

LEMMA RetryLink ==
    ASSUME Link, pc = "wait", Retry, MemoryInv', WorkInv',
           UNCHANGED <<prompt, tx, left, job, tries, result, known>>
    PROVE  Link'
<1>1. WireInv'
  BY RetryEffect, NothingHeard DEF WireInv, BusAssumption
<1>2. mishap' \in BOOLEAN
  BY RetryEffect
<1>3. \/ pc' = pc /\ got' = got
      \/ pc = "wait" /\ pc' = "returned" /\ got' = None
  BY RetryEffect
<1>4. attempts' \in 0..(Latest - 1)
  BY RetryEffect
<1> QED
  BY <1>1, <1>2, <1>3, <1>4, QuietLink

LEMMA LostLink ==
    ASSUME Link, Lost, MemoryInv', WorkInv',
           UNCHANGED <<prompt, tx, left, job, tries, result, known>>
    PROVE  Link'
<1>1. CASE pc = "wait"
  BY <1>1, RetryLink DEF Lost
<1>2. CASE pc # "wait"
  <2>1. UNCHANGED <<rx, pc, attempts, got>>
    BY <1>2 DEF Lost
  <2>2. mishap' \in BOOLEAN
    BY <1>2 DEF Lost
  <2>3. WireInv'
    BY <2>1 DEF Link, WireInv
  <2>4. attempts' \in 0..(Latest - 1)
    BY <2>1 DEF Link, CountInv
  <2> QED
    BY <2>1, <2>2, <2>3, <2>4, QuietLink
<1> QED
  BY <1>1, <1>2

LEMMA ArrivesLink ==
    ASSUME Link, NEW t \in Heard, Arrives(t), MemoryInv', WorkInv',
           UNCHANGED <<prompt, tx, left, job, tries, result, known>>
    PROVE  Link'
<1>1. CASE pc = "wait"
  BY <1>1, RetryLink DEF Arrives
<1>2. CASE pc # "wait" /\ Len(rx) < Buffer
  <2>1. rx' = Append(rx, t) /\ UNCHANGED <<mishap, pc, attempts, got>>
    BY <1>2 DEF Arrives
  <2>2. WireInv'
    <3>1. rx \in Seq(Heard) /\ Len(rx) \in Nat
      BY DEF Link, WireInv
    <3>2. rx' \in Seq(Heard) /\ Len(rx') = Len(rx) + 1
      BY <2>1, <3>1, AppendHeard
    <3>3. Len(rx') <= Buffer
      BY <1>2, <3>1, <3>2 DEF BusAssumption
    <3> QED
      BY <3>2, <3>3 DEF WireInv
  <2>3. attempts' \in 0..(Latest - 1)
    BY <2>1 DEF Link, CountInv
  <2>4. mishap' \in BOOLEAN
    BY <2>1 DEF Link, PlainInv
  <2> QED
    BY <2>1, <2>2, <2>3, <2>4, QuietLink
<1>3. CASE pc # "wait" /\ ~(Len(rx) < Buffer)
  <2>1. UNCHANGED <<rx, pc, attempts, got>>
    BY <1>3 DEF Arrives
  <2>2. mishap' \in BOOLEAN
    BY <1>3 DEF Arrives
  <2>3. WireInv'
    BY <2>1 DEF Link, WireInv
  <2>4. attempts' \in 0..(Latest - 1)
    BY <2>1 DEF Link, CountInv
  <2> QED
    BY <2>1, <2>2, <2>3, <2>4, QuietLink
<1> QED
  BY <1>1, <1>2, <1>3

\* A new Send().
LEMMA StartSendLink ==
    ASSUME Link, NEW t \in Own, StartSend(t),
           UNCHANGED <<prompt, value, todo, result>>,
           job' \in Jobs, job'.kind # "query" => job'.data \in Payload,
           <<t.dst, t.cmd>> = job'.par, t.type # "QUR" => job'.kind # "query",
           tries' \in 1..QUERY_RETRIES, known' \in BOOLEAN, seen' \subseteq Payload
    PROVE  Link'
<1>1. rx' = <<>> /\ pc' = "wait" /\ tx' = t /\ attempts' = 0 /\ left' = left
      /\ got' = None /\ mishap' = FALSE
  BY DEF StartSend
<1>2. PlainInv'
  BY <1>1 DEF Link, PlainInv
<1>3. CountInv'
  BY <1>1 DEF Link, CountInv, BusAssumption
<1>4. MemoryInv' /\ WorkInv'
  BY DEF Link, MemoryInv, WorkInv
<1>5. JobInv'
  BY <1>1 DEF JobInv
<1>6. WireInv'
  BY <1>1, NothingHeard DEF WireInv, BusAssumption
<1>7. SendInv' /\ GotInv'
  BY <1>1 DEF SendInv, GotInv, Busy
<1> QED
  BY <1>2, <1>3, <1>4, <1>5, <1>6, <1>7 DEF Link

LEMMA FinishLink ==
    ASSUME Link, pc = "returned", NEW r, Finish(r),
           r \in {"failed", "error", "value", "empty", "ok", "sent", "nack",
                  "refused"}
    PROVE  Link'
<1>1. pc' = "done" /\ result' = r /\ tries' = 1 /\ tx' = None /\ mishap' = FALSE
      /\ UNCHANGED <<prompt, value, todo, rx, job, known, attempts, left, got, seen>>
  BY DEF Finish
<1>2. PlainInv'
  <2>1. 1 \in 1..QUERY_RETRIES
    BY DEF BusAssumption
  <2> QED
    BY <1>1, <2>1 DEF Link, PlainInv
<1>3. CountInv'
  BY <1>1 DEF Link, CountInv
<1>4. MemoryInv' /\ WorkInv' /\ WireInv'
  BY <1>1 DEF Link, MemoryInv, WorkInv, WireInv
<1>5. JobInv'
  BY <1>1 DEF Link, JobInv
<1>6. SendInv' /\ GotInv'
  BY <1>1 DEF Link, SendInv, GotInv, Busy
<1> QED
  BY <1>2, <1>3, <1>4, <1>5, <1>6 DEF Link

-----------------------------------------------------------------------------
(* One lemma per action                                                      *)

LEMMA BusBusyLink == Link /\ BusBusy => Link'
<1> SUFFICES ASSUME Link, BusBusy PROVE Link'
  OBVIOUS
<1>1. pc = "wait" /\ Retry
      /\ UNCHANGED <<prompt, value, todo, tx, left, seen>>
      /\ UNCHANGED <<job, tries, result, known>>
  BY DEF BusBusy, caller
<1>2. MemoryInv' /\ WorkInv'
  BY <1>1 DEF Link, MemoryInv, WorkInv
<1> QED
  BY <1>1, <1>2, RetryLink

\* The telegram of a busy program is put to its receiver.
LEMMA DeliverWork ==
    ASSUME Link, Busy, Deliver(tx) PROVE WorkInv'
<1>1. tx \in Own /\ tx.dst \in Controllers
  BY DEF Link, SendInv, Own
<1>2. todo' = [todo EXCEPT ![tx.dst] = tx]
  BY DEF Deliver
<1> QED
  BY <1>1, <1>2 DEF Link, WorkInv

LEMMA CollisionLink == Link /\ Collision => Link'
<1> SUFFICES ASSUME Link, Collision PROVE Link'
  OBVIOUS
<1>1. pc = "wait" /\ Retry
      /\ UNCHANGED <<prompt, value, tx, left, seen>>
      /\ UNCHANGED <<job, tries, result, known>>
  BY DEF Collision, caller
<1>2. WorkInv'
  <2>1. CASE Deliver(tx)
    BY <1>1, <2>1, DeliverWork DEF Busy
  <2>2. CASE UNCHANGED todo
    BY <2>2 DEF Link, WorkInv
  <2> QED
    BY <2>1, <2>2 DEF Collision
<1>3. MemoryInv'
  BY <1>1 DEF Link, MemoryInv
<1> QED
  BY <1>1, <1>2, <1>3, RetryLink

LEMMA TransmitLink == Link /\ Transmit => Link'
<1> SUFFICES ASSUME Link, Transmit PROVE Link'
  OBVIOUS
<1>1. pc = "wait" /\ attempts' = 0
      /\ UNCHANGED <<prompt, value, rx, tx, seen>>
      /\ UNCHANGED <<job, tries, result, known>>
  BY DEF Transmit, caller
<1>2. \/ tx.type = "INF" /\ pc' = "returned" /\ got' = tx /\ UNCHANGED left
      \/ tx.type # "INF" /\ pc' = "await" /\ left' = Messages /\ UNCHANGED got
  BY DEF Transmit
<1>3. mishap' \in BOOLEAN
  BY DEF Transmit, Link, PlainInv
<1>4. WorkInv'
  <2>1. CASE Deliver(tx)
    BY <1>1, <2>1, DeliverWork DEF Busy
  <2>2. CASE UNCHANGED todo
    BY <2>2 DEF Link, WorkInv
  <2> QED
    BY <2>1, <2>2 DEF Transmit
<1>5. PlainInv'
  BY <1>1, <1>2, <1>3 DEF Link, PlainInv
<1>6. CountInv'
  BY <1>1, <1>2 DEF Link, CountInv, BusAssumption
<1>7. MemoryInv' /\ WireInv'
  BY <1>1 DEF Link, MemoryInv, WireInv
<1>8. JobInv'
  BY <1>1, <1>2 DEF Link, JobInv
<1>9. SendInv'
  BY <1>1, <1>2 DEF Link, SendInv, Busy
<1>10. GotInv'
  <2>1. tx \in Heard
    BY <1>1, OwnIsHeard DEF Link, SendInv, Busy
  <2> QED
    BY <1>1, <1>2, <2>1 DEF Link, GotInv
<1> QED
  BY <1>4, <1>5, <1>6, <1>7, <1>8, <1>9, <1>10 DEF Link

LEMMA ReceiveLink == Link /\ Receive => Link'
<1> SUFFICES ASSUME Link, Receive PROVE Link'
  OBVIOUS
<1>1. pc = "await" /\ rx # <<>> /\ rx' = Tail(rx)
      /\ UNCHANGED <<prompt, value, todo, tx, attempts, seen, mishap>>
      /\ UNCHANGED <<job, tries, result, known>>
  BY DEF Receive, caller
<1>2. \/ Matches(Head(rx)) /\ pc' = "returned" /\ got' = Head(rx) /\ left' = 0
      \/ ~Matches(Head(rx))
         /\ pc' = (IF left = 1 THEN "returned" ELSE "await")
         /\ left' = left - 1 /\ UNCHANGED got
  BY DEF Receive
<1>3. Head(rx) \in Heard
  BY <1>1, TailHeard DEF Link, WireInv
<1>4. PlainInv'
  BY <1>1, <1>2 DEF Link, PlainInv
<1>5. CountInv'
  <2>1. left \in 1..Messages
    BY <1>1 DEF Link, CountInv, BusAssumption
  <2>2. \/ left' = 0 /\ pc' = "returned"
        \/ left' = left - 1 /\ left = 1 /\ pc' = "returned"
        \/ left' = left - 1 /\ left # 1
    BY <1>2
  <2>3. left' \in 0..Messages /\ (pc' = "await" => left' # 0)
    BY <2>1, <2>2 DEF BusAssumption
  <2> QED
    BY <1>1, <2>3 DEF Link, CountInv
<1>6. MemoryInv' /\ WorkInv'
  BY <1>1 DEF Link, MemoryInv, WorkInv
<1>7. WireInv'
  <2>1. rx \in Seq(Heard) /\ Len(rx) <= Buffer
    BY DEF Link, WireInv
  <2>2. rx' \in Seq(Heard) /\ Len(rx') = Len(rx) - 1 /\ Len(rx) \in Nat
    BY <1>1, <2>1, TailHeard
  <2>3. Len(rx') <= Buffer
    BY <2>1, <2>2 DEF BusAssumption
  <2> QED
    BY <2>2, <2>3 DEF WireInv
<1>8. JobInv'
  BY <1>1, <1>2 DEF Link, JobInv
<1>9. SendInv'
  BY <1>1, <1>2 DEF Link, SendInv, Busy
<1>10. GotInv'
  <2>1. CASE got' = Head(rx) /\ Matches(Head(rx))
    <3>1. pc' = "returned" /\ tx' = tx /\ Head(rx).dst = Us /\ Head(rx).cmd = tx.cmd
      <4>1. pc' = "returned"
        BY <1>2, <2>1
      <4> QED
        BY <1>1, <2>1, <4>1 DEF Matches
    <3> QED
      BY <1>3, <2>1, <3>1 DEF GotInv
  <2>2. CASE UNCHANGED got
    BY <1>1, <1>2, <2>2 DEF Link, GotInv
  <2> QED
    BY <1>2, <2>1, <2>2
<1> QED
  BY <1>4, <1>5, <1>6, <1>7, <1>8, <1>9, <1>10 DEF Link

LEMMA TimedOutLink == Link /\ TimedOut => Link'
<1> SUFFICES ASSUME Link, TimedOut PROVE Link'
  OBVIOUS
<1>1. pc = "await" /\ pc' = "returned" /\ left' = 0
      /\ UNCHANGED <<prompt, value, todo, rx, tx, attempts, got, seen, mishap>>
      /\ UNCHANGED <<job, tries, result, known>>
  BY DEF TimedOut, caller
<1>2. PlainInv'
  BY <1>1 DEF Link, PlainInv
<1>3. CountInv'
  BY <1>1 DEF Link, CountInv, BusAssumption
<1>4. MemoryInv' /\ WorkInv' /\ WireInv'
  BY <1>1 DEF Link, MemoryInv, WorkInv, WireInv
<1>5. JobInv'
  BY <1>1 DEF Link, JobInv
<1>6. SendInv'
  BY <1>1 DEF Link, SendInv, Busy
<1>7. GotInv'
  BY <1>1 DEF Link, GotInv
<1> QED
  BY <1>2, <1>3, <1>4, <1>5, <1>6, <1>7 DEF Link

\* What a user can order, and the telegrams this makes.
LEMMA BeginLink ==
    ASSUME Link, NEW j \in Jobs, NEW n \in {1, QUERY_RETRIES}, Begin(j, n),
           j.kind # "query" => j.data \in Payload,
           NEW t \in Own, StartSend(t), <<t.dst, t.cmd>> = j.par,
           t.type # "QUR" => j.kind # "query"
    PROVE  Link'
<1>1. job' = j /\ tries' = n /\ seen' = {value[j.par]} /\ known' = FALSE
      /\ UNCHANGED <<prompt, value, todo, result>>
  BY DEF Begin
<1>2. n \in 1..QUERY_RETRIES
  BY DEF BusAssumption
<1>3. value[j.par] \in Payload
  BY DEF Jobs, Link, MemoryInv
<1> QED
  BY <1>1, <1>2, <1>3, StartSendLink

LEMMA QueryLink ==
    ASSUME Link, NEW p \in Params, NEW n \in {1, QUERY_RETRIES}, Query(p, n)
    PROVE  Link'
<1> DEFINE j == Job("query", p, None, TRUE, FALSE)
<1>2. j \in Jobs /\ j.kind = "query" /\ j.par = p
  BY DEF Jobs, Job
<1>3. Begin(j, n) /\ StartSend(Ask(p))
  BY DEF Query
<1>4. Ask(p) \in Own /\ Ask(p).type = "QUR" /\ <<Ask(p).dst, Ask(p).cmd>> = p
  BY AskIsOwn, PairOfParam
<1> HIDE DEF j
<1> QED
  BY <1>2, <1>3, <1>4, BeginLink

LEMMA SetLink ==
    ASSUME Link, NEW p \in Params, NEW v \in Payload, NEW s \in BOOLEAN,
           Set(p, v, s)
    PROVE  Link'
<1> DEFINE j == Job("set", p, v, s, FALSE)
<1>2. j \in Jobs /\ j.kind = "set" /\ j.par = p /\ j.data \in Payload
  BY DEF Jobs, Job
<1>3. Begin(j, 1) /\ StartSend(Order(j))
  BY DEF Set
<1> HIDE DEF j
<1>4. Order(j) \in Own /\ <<Order(j).dst, Order(j).cmd>> = j.par
  BY <1>2, OrderIsOwn, PairOfParam
<1> QED
  BY <1>2, <1>3, <1>4, BeginLink

LEMMA PatchLink ==
    ASSUME Link, NEW p \in Params, NEW f \in Field, NEW s \in BOOLEAN,
           NEW n \in {1, QUERY_RETRIES}, Patch(p, f, s, n)
    PROVE  Link'
<1> DEFINE v == [value[p] EXCEPT !.field = f]
           j == Job("patch", p, v, s, n = 1)
<1>1. v \in Payload
  <2>1. value[p] \in Payload
    BY DEF Link, MemoryInv
  <2> QED
    BY <2>1 DEF Payload
<1>2. Begin(j, n) /\ StartSend(Ask(p))
  BY DEF Patch
<1> HIDE DEF v
<1>3. (n = 1) \in BOOLEAN
  OBVIOUS
<1>4. j \in Jobs /\ j.kind = "patch" /\ j.par = p /\ j.data \in Payload
  <2> DEFINE e == (n = 1)
  <2> HIDE DEF e
  <2>1. e \in BOOLEAN
    BY <1>3 DEF e
  <2>2. /\ Job("patch", p, v, s, e) \in Jobs
        /\ Job("patch", p, v, s, e).kind = "patch"
        /\ Job("patch", p, v, s, e).par = p
        /\ Job("patch", p, v, s, e).data \in Payload
    BY <1>1, <2>1 DEF Jobs, Job
  <2> QED
    BY <2>2 DEF e
<1>5. Ask(p) \in Own /\ Ask(p).type = "QUR" /\ <<Ask(p).dst, Ask(p).cmd>> = p
  BY AskIsOwn, PairOfParam
<1> HIDE DEF j
<1> QED
  BY <1>2, <1>4, <1>5, BeginLink

LEMMA NextTryLink == Link /\ NextTry => Link'
<1> SUFFICES ASSUME Link, NextTry PROVE Link'
  OBVIOUS
<1>1. pc = "returned" /\ tries # 1 /\ tries' = tries - 1 /\ StartSend(tx)
      /\ UNCHANGED <<prompt, value, todo, job, result, known, seen>>
  BY DEF NextTry, Asking, LastTry
<1>2. tries' \in 1..QUERY_RETRIES
  <2>1. tries \in 1..QUERY_RETRIES
    BY DEF Link, PlainInv
  <2> QED
    BY <1>1, <2>1 DEF BusAssumption
<1>3. tx \in Own /\ <<tx.dst, tx.cmd>> = job.par
      /\ (tx.type # "QUR" => job.kind # "query")
  BY <1>1 DEF Link, SendInv, Busy
<1>4. job \in Jobs /\ (job.kind # "query" => job.data \in Payload)
  BY <1>1 DEF Link, JobInv
<1>5. known' \in BOOLEAN /\ seen' \subseteq Payload
  BY <1>1 DEF Link, PlainInv, MemoryInv
<1> QED
  BY <1>1, <1>2, <1>3, <1>4, <1>5, StartSendLink

LEMMA QueryEndsLink == Link /\ QueryEnds => Link'
<1> SUFFICES ASSUME Link, QueryEnds PROVE Link'
  OBVIOUS
<1>1. pc = "returned" /\ Finish(Meaning)
  BY DEF QueryEnds, Asking
<1>2. Meaning \in {"failed", "value", "error", "empty"}
  BY DEF Meaning
<1> QED
  BY <1>1, <1>2, FinishLink

LEMMA PatchRefusedLink == Link /\ PatchRefused => Link'
BY FinishLink DEF PatchRefused, Asking

LEMMA SetEndsLink == Link /\ SetEnds => Link'
<1> SUFFICES ASSUME Link, SetEnds PROVE Link'
  OBVIOUS
<1> DEFINE r == IF ~Answered THEN "failed"
                ELSE CASE got.type = "ACK" -> "ok"
                       [] got.type = "INF" -> "sent"
                       [] OTHER -> "nack"
<1>1. pc = "returned" /\ Finish(r)
  BY DEF SetEnds
<1>2. r \in {"failed", "ok", "sent", "nack"}
  OBVIOUS
<1> HIDE DEF r
<1> QED
  BY <1>1, <1>2, FinishLink

LEMMA PatchGoesOnLink == Link /\ PatchGoesOn => Link'
<1> SUFFICES ASSUME Link, PatchGoesOn PROVE Link'
  OBVIOUS
<1>1. pc = "returned" /\ tx.type = "QUR" /\ job.kind = "patch"
      /\ known' = (Meaning = "value") /\ tries' = 1 /\ StartSend(Order(job'))
      /\ UNCHANGED <<prompt, value, todo, result, seen>>
  BY DEF PatchGoesOn, Asking
<1>2. PICK r \in IF known' THEN {got.data.rest} ELSE Rest :
         job' = [job EXCEPT !.data = [@ EXCEPT !.rest = r]]
  BY DEF PatchGoesOn
<1>3. r \in Rest
  <2>1. CASE known'
    <3>1. got # None /\ got.type = "ANS"
      BY <1>1, <2>1 DEF Meaning, Answered
    <3>2. got \in Heard /\ got.dst = Us
      BY <1>1, <3>1 DEF Link, GotInv
    <3>3. got.data \in Payload
      BY <3>1, <3>2 DEF Heard
    <3> QED
      BY <1>2, <2>1, <3>3 DEF Payload
  <2> QED
    BY <1>2, <2>1
<1>4. job \in Jobs /\ job.data \in Payload
  BY <1>1 DEF Link, JobInv
<1>5. [job.data EXCEPT !.rest = r] \in Payload
  BY <1>3, <1>4 DEF Payload
<1>6. job' = [job EXCEPT !.data = [job.data EXCEPT !.rest = r]]
  BY <1>2, <1>4 DEF Jobs
<1>7. job' \in Jobs /\ job'.data \in Payload /\ job'.par = job.par
      /\ job'.kind = "patch"
  BY <1>1, <1>4, <1>5, <1>6 DEF Jobs
<1>8. Order(job') \in Own /\ <<Order(job').dst, Order(job').cmd>> = job'.par
  <2>1. job'.par \in Params
    BY <1>7 DEF Jobs
  <2> QED
    BY <1>7, <2>1, OrderIsOwn, PairOfParam
<1>9. known' \in BOOLEAN /\ seen' \subseteq Payload /\ 1 \in 1..QUERY_RETRIES
  BY <1>1 DEF Link, PlainInv, MemoryInv, BusAssumption
<1> QED
  BY <1>1, <1>7, <1>8, <1>9, StartSendLink

LEMMA ReturnLink == Link /\ Return => Link'
<1> SUFFICES ASSUME Link, Return PROVE Link'
  OBVIOUS
<1>1. pc' = "idle" /\ job' = NoJob /\ result' = "none" /\ known' = FALSE
      /\ got' = None /\ seen' = {}
      /\ UNCHANGED <<prompt, value, todo, rx, tries, tx, attempts, left, mishap>>
  BY DEF Return, sending
<1>2. PlainInv'
  BY <1>1 DEF Link, PlainInv
<1>3. CountInv'
  BY <1>1 DEF Link, CountInv
<1>4. MemoryInv' /\ WorkInv' /\ WireInv'
  BY <1>1 DEF Link, MemoryInv, WorkInv, WireInv
<1>5. JobInv'
  BY <1>1 DEF JobInv
<1>6. SendInv' /\ GotInv'
  BY <1>1 DEF Link, SendInv, GotInv, Busy
<1> QED
  BY <1>2, <1>3, <1>4, <1>5, <1>6 DEF Link

LEMMA LoopReadsLink == Link /\ LoopReads => Link'
<1> SUFFICES ASSUME Link, LoopReads PROVE Link'
  OBVIOUS
<1>1. rx # <<>> /\ rx' = Tail(rx)
      /\ UNCHANGED <<prompt, value, todo, pc, job, tries, result, known, tx,
                     attempts, left, got, seen, mishap>>
  BY DEF LoopReads, caller, sending
<1>2. WireInv'
  <2>1. rx \in Seq(Heard) /\ Len(rx) <= Buffer
    BY DEF Link, WireInv
  <2>2. rx' \in Seq(Heard) /\ Len(rx') = Len(rx) - 1 /\ Len(rx) \in Nat
    BY <1>1, <2>1, TailHeard
  <2>3. Len(rx') <= Buffer
    BY <2>1, <2>2 DEF BusAssumption
  <2> QED
    BY <2>2, <2>3 DEF WireInv
<1>3. MemoryInv' /\ WorkInv'
  BY <1>1 DEF Link, MemoryInv, WorkInv
<1>4. attempts' \in 0..(Latest - 1)
  BY <1>1 DEF Link, CountInv
<1>5. mishap' \in BOOLEAN
  BY <1>1 DEF Link, PlainInv
<1> QED
  BY <1>1, <1>2, <1>3, <1>4, <1>5, QuietLink

\* What the parameter of the job holds is remembered.
LEMMA WatchMemory ==
    ASSUME Link, value' \in [Params -> Payload], Watch(value')
    PROVE  MemoryInv'
<1>1. CASE pc = "idle"
  BY <1>1 DEF Watch, MemoryInv
<1>2. CASE pc # "idle"
  <2>1. job.par \in Params
    BY <1>2 DEF Link, JobInv, Jobs
  <2> QED
    BY <1>2, <2>1 DEF Watch, Link, MemoryInv
<1> QED
  BY <1>1, <1>2

LEMMA ChangesLink ==
    ASSUME Link, NEW p \in Params, NEW v \in Payload, Changes(p, v)
    PROVE  Link'
<1>1. value' = [value EXCEPT ![p] = v] /\ Watch(value')
      /\ UNCHANGED <<prompt, todo, rx, pc, job, tries, result, known, tx,
                     attempts, left, got, mishap>>
  BY DEF Changes, caller, sending
<1>2. value' \in [Params -> Payload]
  BY <1>1 DEF Link, MemoryInv
<1>3. MemoryInv'
  BY <1>1, <1>2, WatchMemory
<1>4. WorkInv' /\ WireInv'
  BY <1>1 DEF Link, WorkInv, WireInv
<1>5. attempts' \in 0..(Latest - 1)
  BY <1>1 DEF Link, CountInv
<1>6. mishap' \in BOOLEAN
  BY <1>1 DEF Link, PlainInv
<1> QED
  BY <1>1, <1>3, <1>4, <1>5, <1>6, QuietLink

LEMMA ForeignLink ==
    ASSUME Link, NEW p \in Params, Foreign(p)
    PROVE  Link'
<1> DEFINE t == Telegram(p[1], Other, "ACK", p[2], None)
<1>1. Len(rx) < Buffer /\ rx' = Append(rx, t)
      /\ UNCHANGED <<prompt, value, todo, pc, job, tries, result, known, tx,
                     attempts, left, got, seen, mishap>>
  BY DEF Foreign, caller, sending
<1>2. t \in Heard
  BY PairOfParam, AnswerIsHeard
<1> HIDE DEF t
<1>3. WireInv'
  <2>1. rx \in Seq(Heard) /\ Len(rx) \in Nat
    BY DEF Link, WireInv
  <2>2. rx' \in Seq(Heard) /\ Len(rx') = Len(rx) + 1
    BY <1>1, <1>2, <2>1, AppendHeard
  <2>3. Len(rx') <= Buffer
    BY <1>1, <2>1, <2>2 DEF BusAssumption
  <2> QED
    BY <2>2, <2>3 DEF WireInv
<1>4. MemoryInv' /\ WorkInv'
  BY <1>1 DEF Link, MemoryInv, WorkInv
<1>5. attempts' \in 0..(Latest - 1)
  BY <1>1 DEF Link, CountInv
<1>6. mishap' \in BOOLEAN
  BY <1>1 DEF Link, PlainInv
<1> QED
  BY <1>1, <1>3, <1>4, <1>5, <1>6, QuietLink

\* The controller works on a telegram of ours.
LEMMA WorkIsOwn ==
    ASSUME Link, NEW d \in Controllers, todo[d] # None
    PROVE  /\ todo[d] \in Own /\ todo[d].dst = d /\ <<d, todo[d].cmd>> \in Params
           /\ todo[d].cmd \in Commands
           /\ todo[d].type # "QUR" => todo[d].data \in Payload
BY DEF Link, WorkInv, Own, Telegrams

\* What it answers to a query is what it holds, and what it acknowledges it has
\* done.
LEMMA HandleEffect ==
    ASSUME Link, NEW d \in Controllers, Handle(d)
    PROVE  /\ todo' = [todo EXCEPT ![d] = None] /\ Watch(value')
           /\ UNCHANGED <<prompt, tx, left, job, tries, result, known>>
           /\ value' \in [Params -> Payload]
           /\ todo[d] # None
           /\ \/ todo[d].type = "INF" /\ UNCHANGED <<rx, mishap, pc, attempts, got>>
              \/ todo[d].type # "INF" /\ Lost
              \/ /\ todo[d].type # "INF"
                 /\ \E a \in Heard :
                       /\ Arrives(a) /\ a.src = d /\ a.dst = Us
                       /\ a.cmd = todo[d].cmd
                       /\ a.type = "ANS" => a.data = value[<<d, a.cmd>>]
                       /\ a.type = "ACK" =>
                             /\ todo[d].type # "QUR"
                             /\ value'[<<d, a.cmd>>] = todo[d].data
<1> DEFINE t == todo[d]
<1>1. t # None /\ todo' = [todo EXCEPT ![d] = None] /\ Watch(value')
      /\ UNCHANGED <<prompt, tx, left, job, tries, result, known>>
  BY DEF Handle, caller
<1>2. <<d, t.cmd>> \in Params /\ t.cmd \in Commands
      /\ (t.type # "QUR" => t.data \in Payload)
  BY <1>1, WorkIsOwn
<1>3. PICK takes \in BOOLEAN :
         LET answer == CASE ~takes -> "ERR"
                         [] t.type = "QUR" -> "ANS"
                         [] OTHER -> "ACK"
             data == IF answer = "ANS" THEN value[<<d, t.cmd>>] ELSE None
         IN  /\ value' = IF takes /\ t.type # "QUR"
                         THEN [value EXCEPT ![<<d, t.cmd>>] = t.data] ELSE value
             /\ IF t.type = "INF" THEN UNCHANGED <<rx, mishap, pc, attempts, got>>
                ELSE Arrives(Telegram(d, Us, answer, t.cmd, data)) \/ Lost
  BY DEF Handle
<1> DEFINE answer == CASE ~takes -> "ERR"
                       [] t.type = "QUR" -> "ANS"
                       [] OTHER -> "ACK"
           data == IF answer = "ANS" THEN value[<<d, t.cmd>>] ELSE None
           a == Telegram(d, Us, answer, t.cmd, data)
<1>4. value' \in [Params -> Payload]
  BY <1>2, <1>3 DEF Link, MemoryInv
<1>5. answer \in {"ANS", "ACK", "ERR"}
  OBVIOUS
<1>6. /\ data \in Payload \cup {None}
      /\ answer = "ANS" => data \in Payload /\ data = value[<<d, t.cmd>>]
  <2>1. value[<<d, t.cmd>>] \in Payload
    BY <1>2 DEF Link, MemoryInv
  <2> HIDE DEF answer
  <2> QED
    BY <2>1
<1>7. \/ t.type = "INF" /\ UNCHANGED <<rx, mishap, pc, attempts, got>>
      \/ t.type # "INF" /\ (Arrives(a) \/ Lost)
  BY <1>3
<1>10. answer = "ACK" => t.type # "QUR" /\ value'[<<d, t.cmd>>] = t.data
  <2>1. answer = "ACK" => takes /\ t.type # "QUR"
    OBVIOUS
  <2> HIDE DEF answer, data, a
  <2> QED
    BY <1>2, <1>3, <2>1 DEF Link, MemoryInv
<1> HIDE DEF answer, data, t
<1>8. a \in Heard
  BY <1>2, <1>5, <1>6, AnswerIsHeard
<1>9. /\ a.src = d /\ a.dst = Us /\ a.cmd = t.cmd
      /\ a.type = "ANS" => a.data = value[<<d, a.cmd>>]
      /\ a.type = "ACK" => t.type # "QUR" /\ value'[<<d, a.cmd>>] = t.data
  BY <1>6, <1>10 DEF Telegram
<1> HIDE DEF a
<1> QED
  BY <1>1, <1>4, <1>7, <1>8, <1>9 DEF t

LEMMA HandleLink ==
    ASSUME Link, NEW d \in Controllers, Handle(d)
    PROVE  Link'
<1>1. /\ todo' = [todo EXCEPT ![d] = None] /\ Watch(value')
      /\ UNCHANGED <<prompt, tx, left, job, tries, result, known>>
      /\ value' \in [Params -> Payload]
  BY HandleEffect
<1>2. MemoryInv'
  BY <1>1, WatchMemory
<1>3. WorkInv'
  BY <1>1 DEF Link, WorkInv
<1>4. CASE UNCHANGED <<rx, mishap, pc, attempts, got>>
  <2>1. WireInv'
    BY <1>4 DEF Link, WireInv
  <2>2. attempts' \in 0..(Latest - 1)
    BY <1>4 DEF Link, CountInv
  <2>3. mishap' \in BOOLEAN
    BY <1>4 DEF Link, PlainInv
  <2> QED
    BY <1>1, <1>2, <1>3, <1>4, <2>1, <2>2, <2>3, QuietLink
<1>5. CASE \E a \in Heard : Arrives(a)
  BY <1>1, <1>2, <1>3, <1>5, ArrivesLink
<1>6. CASE Lost
  BY <1>1, <1>2, <1>3, <1>6, LostLink
<1> QED
  BY <1>4, <1>5, <1>6, HandleEffect

-----------------------------------------------------------------------------

LEMMA NextLink == Link /\ [Next]_vars => Link'
<1> SUFFICES ASSUME Link, [Next]_vars PROVE Link'
  OBVIOUS
<1>1. ASSUME Sender PROVE Link'
  BY <1>1, BusBusyLink, CollisionLink, TransmitLink, ReceiveLink, TimedOutLink
     DEF Sender
<1>2. ASSUME Caller PROVE Link'
  BY <1>2, NextTryLink, QueryEndsLink, PatchGoesOnLink, PatchRefusedLink,
     SetEndsLink, ReturnLink DEF Caller
<1>3. ASSUME User PROVE Link'
  <2>1. PICK p \in Params :
           \/ \E n \in {1, QUERY_RETRIES} : Query(p, n)
           \/ \E setcmd \in BOOLEAN :
                 \/ \E v \in Payload : Set(p, v, setcmd)
                 \/ \E f \in Field, n \in {1, QUERY_RETRIES} : Patch(p, f, setcmd, n)
    BY <1>3 DEF User
  <2>2. CASE \E n \in {1, QUERY_RETRIES} : Query(p, n)
    BY <2>2, QueryLink
  <2>3. CASE \E setcmd \in BOOLEAN, v \in Payload : Set(p, v, setcmd)
    BY <2>3, SetLink
  <2>4. CASE \E setcmd \in BOOLEAN, f \in Field, n \in {1, QUERY_RETRIES} :
                Patch(p, f, setcmd, n)
    BY <2>4, PatchLink
  <2> QED
    BY <2>1, <2>2, <2>3, <2>4
<1>4. ASSUME LoopReads PROVE Link'
  BY <1>4, LoopReadsLink
<1>5. ASSUME Bus PROVE Link'
  BY <1>5, HandleLink, ForeignLink, ChangesLink DEF Bus
<1>6. ASSUME UNCHANGED vars PROVE Link'
  BY <1>6 DEF vars, caller, sending, Link, PlainInv, CountInv, MemoryInv, JobInv,
     WireInv, WorkInv, SendInv, GotInv, Busy
<1> QED
  BY <1>1, <1>2, <1>3, <1>4, <1>5, <1>6 DEF Next

LEMMA LinkAlways == Spec => []Link
BY InitLink, NextLink, PTL DEF Spec

LEMMA LinkTypes == Link => TypeOK
<1> SUFFICES ASSUME Link PROVE TypeOK
  OBVIOUS
<1>1. Own \subseteq Telegrams /\ Heard \subseteq Telegrams
  BY DEF Own, Heard
<1>2. todo \in [Controllers -> Telegrams \cup {None}]
  BY <1>1 DEF Link, WorkInv
<1>3. rx \in Seq(Telegrams) /\ Len(rx) <= Buffer
  BY <1>1 DEF Link, WireInv
<1>4. job \in IF pc = "idle" THEN {NoJob} ELSE Jobs
  BY DEF Link, JobInv
<1>5. tx \in Telegrams \cup {None} /\ got \in Telegrams \cup {None}
  BY <1>1 DEF Link, SendInv, GotInv
<1>6. attempts \in 0..(Latest - 1) /\ left \in 0..Messages
      /\ value \in [Params -> Payload] /\ seen \subseteq Payload
  BY DEF Link, CountInv, MemoryInv
<1> QED
  BY <1>2, <1>3, <1>4, <1>5, <1>6 DEF TypeOK, Link, PlainInv

\* Every variable keeps its type; among others Send() ends its loops within
\* their limits (bsb.cpp:364, 612).
THEOREM TypeCorrect == Spec => []TypeOK
BY LinkAlways, LinkTypes, PTL

-----------------------------------------------------------------------------
(* What query() reports is true                                              *)

\* Telegrams that tell the truth about parameter p, which has held s.
Sound(s, p) ==
    {t \in Heard : (/\ t.dst = Us /\ t.type = "ANS"
                    /\ t.src = p[1] /\ t.cmd = p[2]) => t.data \in s}

FreshInv == pc # "idle" => value[job.par] \in seen

\* StartSend empties the receive buffer: what comes afterwards is sound.
BufferInv ==
    /\ pc = "wait" => rx = <<>>
    /\ pc = "await" => rx \in Seq(Sound(seen, job.par))

AnswerInv ==
    pc = "returned" /\ tx.type = "QUR" /\ got # None =>
        got \in Sound(seen, job.par)

ReportInv ==
    pc = "done" /\ result = "value" =>
        /\ got \in Sound(seen, job.par)
        /\ got.dst = Us /\ got.type = "ANS" /\ got.cmd = job.par[2]

Truth == FreshInv /\ BufferInv /\ AnswerInv /\ ReportInv

LEMMA SoundGrows ==
    ASSUME NEW s, NEW r, s \subseteq r, NEW p
    PROVE  Sound(s, p) \subseteq Sound(r, p)
BY DEF Sound

LEMMA SeqGrows ==
    ASSUME NEW S, NEW T, S \subseteq T, NEW q \in Seq(S)
    PROVE  q \in Seq(T)
OBVIOUS

\* A step that only adds to what is remembered.
LEMMA QuietTruth ==
    ASSUME Truth, UNCHANGED <<job, result, tx>>,
           pc # "idle" => seen \subseteq seen' /\ value'[job.par] \in seen',
           \/ pc' = pc /\ got' = got
           \/ pc = "wait" /\ pc' = "returned" /\ got' = None,
           pc' = "wait" => rx' = <<>>,
           pc' = "await" => rx' \in Seq(Sound(seen', job.par))
    PROVE  Truth'
<1>1. FreshInv'
  BY DEF FreshInv
<1>2. BufferInv'
  BY DEF BufferInv
<1>3. AnswerInv'
  BY SoundGrows DEF Truth, AnswerInv
<1>4. ReportInv'
  BY SoundGrows DEF Truth, ReportInv
<1> QED
  BY <1>1, <1>2, <1>3, <1>4 DEF Truth

LEMMA RetryTruth ==
    ASSUME Link, Truth, pc = "wait", Retry, UNCHANGED <<job, result, tx>>,
           seen \subseteq seen', value'[job.par] \in seen'
    PROVE  Truth'
<1>1. \/ pc' = pc /\ got' = got
      \/ pc = "wait" /\ pc' = "returned" /\ got' = None
  BY RetryEffect
<1>2. rx' = <<>> /\ pc' # "await"
  BY RetryEffect
<1> QED
  BY <1>1, <1>2, QuietTruth

LEMMA StartTruth ==
    ASSUME NEW t, StartSend(t), value'[job'.par] \in seen'
    PROVE  Truth'
<1>1. pc' = "wait" /\ rx' = <<>>
  BY DEF StartSend
<1> QED
  BY <1>1 DEF Truth, FreshInv, BufferInv, AnswerInv, ReportInv

\* A sound telegram arrives, or one that we do not await.
LEMMA ArrivesTruth ==
    ASSUME Link, Truth, NEW t, Arrives(t),
           UNCHANGED <<job, result, tx>>,
           pc # "idle" => /\ seen \subseteq seen' /\ value'[job.par] \in seen'
                          /\ t \in Sound(seen', job.par)
    PROVE  Truth'
<1>1. CASE pc = "wait"
  BY <1>1, RetryTruth DEF Arrives
<1>2. CASE pc # "wait"
  <2>1. UNCHANGED <<pc, got>> /\ (rx' = rx \/ rx' = Append(rx, t))
    BY <1>2 DEF Arrives
  <2>2. ASSUME pc = "await" PROVE rx' \in Seq(Sound(seen', job.par))
    <3>1. seen \subseteq seen' /\ t \in Sound(seen', job.par)
      BY <2>2
    <3>2. rx \in Seq(Sound(seen', job.par))
      BY <2>2, <3>1, SoundGrows, SeqGrows DEF Truth, BufferInv
    <3> QED
      BY <2>1, <3>1, <3>2, AppendHeard
  <2> QED
    BY <1>2, <2>1, <2>2, QuietTruth
<1> QED
  BY <1>1, <1>2

LEMMA LostTruth ==
    ASSUME Link, Truth, Lost, UNCHANGED <<job, result, tx>>,
           pc # "idle" => seen \subseteq seen' /\ value'[job.par] \in seen'
    PROVE  Truth'
<1>1. CASE pc = "wait"
  BY <1>1, RetryTruth DEF Lost
<1>2. CASE pc # "wait"
  <2>1. UNCHANGED <<rx, pc, got>>
    BY <1>2 DEF Lost
  <2>2. ASSUME pc = "await" PROVE rx' \in Seq(Sound(seen', job.par))
    BY <2>1, <2>2, SoundGrows, SeqGrows DEF Truth, BufferInv
  <2> QED
    BY <1>2, <2>1, <2>2, QuietTruth
<1> QED
  BY <1>1, <1>2

\* Watch() remembers the value of the parameter of the job.
LEMMA WatchRemembers ==
    ASSUME Watch(value'), job' = job, pc # "idle"
    PROVE  seen \subseteq seen' /\ value'[job.par] \in seen'
BY DEF Watch

LEMMA HandleTruth ==
    ASSUME Link, Truth, NEW d \in Controllers, Handle(d)
    PROVE  Truth'
<1>1. Watch(value') /\ UNCHANGED <<prompt, tx, left, job, tries, result, known>>
  BY HandleEffect
<1>2. pc # "idle" => seen \subseteq seen' /\ value'[job.par] \in seen'
  BY <1>1, WatchRemembers
<1>3. CASE UNCHANGED <<rx, mishap, pc, attempts, got>>
  <2>1. ASSUME pc' = "await" PROVE rx' \in Seq(Sound(seen', job.par))
    BY <1>2, <1>3, <2>1, SoundGrows, SeqGrows DEF Truth, BufferInv
  <2>2. pc' = "wait" => rx' = <<>>
    BY <1>3 DEF Truth, BufferInv
  <2> QED
    BY <1>1, <1>2, <1>3, <2>1, <2>2, QuietTruth
<1>4. CASE Lost
  BY <1>1, <1>2, <1>4, LostTruth
<1>5. ASSUME NEW a \in Heard, Arrives(a), a.src = d,
             a.type = "ANS" => a.data = value[<<d, a.cmd>>]
      PROVE  Truth'
  <2>1. ASSUME pc # "idle" PROVE a \in Sound(seen', job.par)
    <3>1. job.par \in Params
      BY <2>1 DEF Link, JobInv, Jobs
    <3>2. value[job.par] \in seen'
      BY <1>2, <2>1 DEF Truth, FreshInv
    <3>3. ASSUME a.type = "ANS", a.src = job.par[1], a.cmd = job.par[2]
          PROVE  a.data \in seen'
      <4>1. <<d, a.cmd>> = job.par
        BY <1>5, <3>1, <3>3, PairOfParam
      <4> QED
        BY <1>5, <3>2, <3>3, <4>1
    <3> QED
      BY <3>3 DEF Sound
  <2> QED
    BY <1>1, <1>2, <1>5, <2>1, ArrivesTruth
<1> QED
  BY <1>3, <1>4, <1>5, HandleEffect

LEMMA ChangesTruth ==
    ASSUME Link, Truth, NEW p \in Params, NEW v \in Payload, Changes(p, v)
    PROVE  Truth'
<1>1. Watch(value') /\ UNCHANGED <<rx, pc, got, job, result, tx>>
  BY DEF Changes, caller, sending
<1>2. pc # "idle" => seen \subseteq seen' /\ value'[job.par] \in seen'
  BY <1>1, WatchRemembers
<1>3. ASSUME pc' = "await" PROVE rx' \in Seq(Sound(seen', job.par))
  BY <1>1, <1>2, <1>3, SoundGrows, SeqGrows DEF Truth, BufferInv
<1>4. pc' = "wait" => rx' = <<>>
  BY <1>1 DEF Truth, BufferInv
<1> QED
  BY <1>1, <1>2, <1>3, <1>4, QuietTruth

\* What others are told is not for us.
LEMMA ForeignTruth ==
    ASSUME Link, Truth, NEW p \in Params, Foreign(p)
    PROVE  Truth'
<1> DEFINE t == Telegram(p[1], Other, "ACK", p[2], None)
<1>1. pc # "wait" /\ rx' = Append(rx, t)
      /\ UNCHANGED <<value, pc, got, job, result, tx, seen>>
  BY DEF Foreign, caller, sending
<1>2. t \in Sound(seen, job.par)
  <2>1. t \in Heard
    BY PairOfParam, AnswerIsHeard
  <2>2. t.dst = Other
    BY DEF Telegram
  <2> HIDE DEF t
  <2> QED
    BY <2>1, <2>2 DEF Sound, BusAssumption
<1> HIDE DEF t
<1>3. pc # "idle" => seen \subseteq seen' /\ value'[job.par] \in seen'
  BY <1>1 DEF Truth, FreshInv
<1>4. ASSUME pc' = "await" PROVE rx' \in Seq(Sound(seen', job.par))
  <2>1. rx \in Seq(Sound(seen, job.par))
    BY <1>1, <1>4 DEF Truth, BufferInv
  <2>2. rx' \in Seq(Sound(seen, job.par))
    BY <1>1, <1>2, <2>1, AppendHeard
  <2> QED
    BY <1>1, <2>2
<1> QED
  BY <1>1, <1>3, <1>4, QuietTruth

LEMMA SenderTruth ==
    ASSUME Link, Truth, Sender
    PROVE  Truth'
<1>1. UNCHANGED <<value, job, result, tx, seen>> /\ pc # "idle"
  BY DEF Sender, BusBusy, Collision, Transmit, Receive, TimedOut, caller
<1>2. pc # "idle" => seen \subseteq seen' /\ value'[job.par] \in seen'
  BY <1>1 DEF Truth, FreshInv
<1>3. CASE BusBusy \/ Collision
  BY <1>1, <1>2, <1>3, RetryTruth DEF BusBusy, Collision
<1>4. CASE Transmit
  <2>1. pc = "wait" /\ rx' = rx
        /\ (pc' = "await" \/ (pc' = "returned" /\ tx'.type # "QUR"))
    <3>1. pc = "wait" /\ rx' = rx
      BY <1>4 DEF Transmit
    <3>2. \/ tx.type = "INF" /\ pc' = "returned"
          \/ tx.type # "INF" /\ pc' = "await"
      BY <1>4 DEF Transmit
    <3> QED
      BY <1>1, <3>1, <3>2
  <2>2. rx' = <<>> /\ <<>> \in Seq(Sound(seen', job'.par))
    BY <2>1, NothingHeard DEF Truth, BufferInv
  <2>3. FreshInv' /\ BufferInv' /\ ReportInv'
    BY <1>1, <1>2, <2>1, <2>2 DEF FreshInv, BufferInv, ReportInv
  <2>4. AnswerInv'
    BY <2>1 DEF AnswerInv
  <2> QED
    BY <2>3, <2>4 DEF Truth
<1>5. CASE Receive
  <2>1. /\ pc = "await" /\ rx # <<>> /\ rx' = Tail(rx)
        /\ \/ pc' \in {"await", "returned"} /\ got' = got
           \/ pc' = "returned" /\ got' = Head(rx)
    BY <1>5 DEF Receive
  <2>2. rx \in Seq(Sound(seen, job.par))
    BY <2>1 DEF Truth, BufferInv
  <2>3. Head(rx) \in Sound(seen, job.par) /\ Tail(rx) \in Seq(Sound(seen, job.par))
    BY <2>1, <2>2, TailHeard
  <2>4. got = None
    BY <2>1 DEF Link, GotInv
  <2>5. FreshInv' /\ BufferInv' /\ ReportInv'
    BY <1>1, <1>2, <2>1, <2>3 DEF FreshInv, BufferInv, ReportInv
  <2>6. AnswerInv'
    BY <1>1, <2>1, <2>3, <2>4 DEF AnswerInv
  <2> QED
    BY <2>5, <2>6 DEF Truth
<1>6. CASE TimedOut
  <2>1. pc = "await" /\ pc' = "returned" /\ got' = got
    BY <1>6 DEF TimedOut
  <2>2. got' = None
    BY <2>1 DEF Link, GotInv
  <2> QED
    BY <1>1, <1>2, <2>1, <2>2
       DEF Truth, FreshInv, BufferInv, AnswerInv, ReportInv
<1> QED
  BY <1>3, <1>4, <1>5, <1>6 DEF Sender

LEMMA FinishTruth ==
    ASSUME Truth, pc = "returned", NEW r, Finish(r),
           r = "value" => /\ got \in Sound(seen, job.par) /\ got.dst = Us
                          /\ got.type = "ANS" /\ got.cmd = job.par[2]
    PROVE  Truth'
<1>1. pc' = "done" /\ result' = r /\ UNCHANGED <<value, job, got, seen>>
  BY DEF Finish
<1> QED
  BY <1>1 DEF Truth, FreshInv, BufferInv, AnswerInv, ReportInv

LEMMA CallerTruth ==
    ASSUME Link, Truth, Caller
    PROVE  Truth'
<1>1. CASE NextTry
  <2>1. StartSend(tx) /\ UNCHANGED <<value, job, seen>> /\ pc # "idle"
    BY <1>1 DEF NextTry, Asking
  <2>2. value'[job'.par] \in seen'
    BY <2>1 DEF Truth, FreshInv
  <2> QED
    BY <2>1, <2>2, StartTruth
<1>2. CASE QueryEnds
  <2>1. pc = "returned" /\ tx.type = "QUR" /\ Finish(Meaning)
    BY <1>2 DEF QueryEnds, Asking
  <2>2. ASSUME Meaning = "value"
        PROVE  /\ got \in Sound(seen, job.par) /\ got.dst = Us
               /\ got.type = "ANS" /\ got.cmd = job.par[2]
    <3>1. got # None /\ got.type = "ANS"
      BY <2>2 DEF Meaning, Answered
    <3>2. got.dst = Us /\ got.cmd = tx.cmd
      BY <2>1, <3>1 DEF Link, GotInv
    <3>3. tx.cmd = job.par[2]
      BY <2>1 DEF Link, SendInv, Busy
    <3>4. got \in Sound(seen, job.par)
      BY <2>1, <3>1 DEF Truth, AnswerInv
    <3> QED
      BY <3>1, <3>2, <3>3, <3>4
  <2> QED
    BY <2>1, <2>2, FinishTruth
<1>3. CASE PatchGoesOn
  <2>1. /\ pc = "returned" /\ job.kind = "patch" /\ StartSend(Order(job'))
        /\ UNCHANGED <<value, seen>>
    BY <1>3 DEF PatchGoesOn, Asking
  <2>2. job'.par = job.par
    <3>1. job \in Jobs
      BY <2>1 DEF Link, JobInv
    <3>2. PICK r : job' = [job EXCEPT !.data = [@ EXCEPT !.rest = r]]
      BY <1>3 DEF PatchGoesOn
    <3> QED
      BY <3>1, <3>2 DEF Jobs
  <2>3. value'[job'.par] \in seen'
    BY <2>1, <2>2 DEF Truth, FreshInv
  <2> QED
    BY <2>1, <2>3, StartTruth
<1>4. CASE PatchRefused
  BY <1>4, FinishTruth DEF PatchRefused, Asking
<1>5. CASE SetEnds
  <2> DEFINE r == IF ~Answered THEN "failed"
                  ELSE CASE got.type = "ACK" -> "ok"
                         [] got.type = "INF" -> "sent"
                         [] OTHER -> "nack"
  <2>1. pc = "returned" /\ Finish(r)
    BY <1>5 DEF SetEnds
  <2>2. r # "value"
    OBVIOUS
  <2> HIDE DEF r
  <2> QED
    BY <2>1, <2>2, FinishTruth
<1>6. CASE Return
  BY <1>6 DEF Return, Truth, FreshInv, BufferInv, AnswerInv, ReportInv
<1> QED
  BY <1>1, <1>2, <1>3, <1>4, <1>5, <1>6 DEF Caller

\* A new job remembers what its parameter holds.
LEMMA BeginTruth ==
    ASSUME NEW j, NEW n, Begin(j, n), NEW t, StartSend(t)
    PROVE  Truth'
<1>1. value'[job'.par] \in seen'
  BY DEF Begin
<1> QED
  BY <1>1, StartTruth

LEMMA UserTruth ==
    ASSUME User PROVE Truth'
<1>1. ASSUME NEW p, NEW n, Query(p, n) PROVE Truth'
  BY <1>1, BeginTruth DEF Query
<1>2. ASSUME NEW p, NEW v, NEW s, Set(p, v, s) PROVE Truth'
  BY <1>2, BeginTruth DEF Set
<1>3. ASSUME NEW p, NEW f, NEW s, NEW n, Patch(p, f, s, n) PROVE Truth'
  BY <1>3, BeginTruth DEF Patch
<1> QED
  BY <1>1, <1>2, <1>3 DEF User

LEMMA NextTruth == Link /\ Truth /\ [Next]_vars => Truth'
<1> SUFFICES ASSUME Link, Truth, [Next]_vars PROVE Truth'
  OBVIOUS
<1>1. ASSUME LoopReads PROVE Truth'
  BY <1>1 DEF LoopReads, caller, sending, Truth, FreshInv, BufferInv, AnswerInv,
              ReportInv
<1>2. ASSUME Bus PROVE Truth'
  BY <1>2, HandleTruth, ForeignTruth, ChangesTruth DEF Bus
<1>3. ASSUME UNCHANGED vars PROVE Truth'
  BY <1>3 DEF vars, caller, sending, Truth, FreshInv, BufferInv, AnswerInv,
              ReportInv
<1> QED
  BY <1>1, <1>2, <1>3, SenderTruth, CallerTruth, UserTruth DEF Next

LEMMA TruthReports == Truth => Truthful
BY DEF Truth, ReportInv, Truthful, Sound

\* query() never reports a value of the controller asked from before query()
\* began, for all parameters, payloads, limits and faults of the bus: Send()
\* throws away what is in the receive buffer before it asks (bsb.cpp:601).
THEOREM QueryIsTruthful == Spec => []Truthful
<1>1. Init => Truth
  BY DEF Init, Truth, FreshInv, BufferInv, AnswerInv, ReportInv
<1> QED
  BY <1>1, LinkAlways, NextTruth, TruthReports, PTL DEF Spec

-----------------------------------------------------------------------------
(* Prompt controllers                                                        *)

\* Telegrams that, if they are for us, answer the telegram w; s is what the
\* parameter has held, and what is acknowledged is in it.
Proper(s, w) ==
    {t \in Heard : t.dst = Us =>
        /\ t.src = w.dst /\ t.cmd = w.cmd
        /\ t.type = "ACK" => w.type # "QUR" /\ w.data \in s}

OrderInv == Busy /\ tx.type # "QUR" => tx.data = job.data

\* Nothing is outstanding outside of Send().
QuietInv == pc \notin {"wait", "await"} => Pending(todo) = {}

ForUs(q) == \E i \in DOMAIN q : q[i].dst = Us

\* There is at most one answer under way, in the controller or in the buffer;
\* it will be looked at; and there is none only after a mishap.
AwaitInv ==
    pc = "await" =>
        /\ tx.type # "INF"
        /\ \A d \in Pending(todo) : todo[d] = tx
        /\ rx \in Seq(Proper(seen, tx)) /\ Len(rx) <= left
        /\ Pending(todo) # {} => Len(rx) < left /\ ~ForUs(rx)
        /\ mishap \/ Pending(todo) # {} \/ ForUs(rx)

ReturnInv ==
    pc = "returned" =>
        /\ got = None => mishap
        /\ got # None /\ tx.type = "INF" => got = tx
        /\ got # None /\ tx.type # "INF" => got \in Proper(seen, tx) /\ got.dst = Us

PromptInv == OrderInv /\ (prompt => QuietInv /\ AwaitInv /\ ReturnInv)

LEMMA ProperGrows ==
    ASSUME NEW s, NEW r, s \subseteq r, NEW w
    PROVE  Proper(s, w) \subseteq Proper(r, w)
BY DEF Proper

LEMMA RetryPrompt ==
    ASSUME Link, PromptInv, pc = "wait", Retry, UNCHANGED <<prompt, tx, job>>
    PROVE  PromptInv'
<1>1. mishap' = TRUE
      /\ (pc' = "wait" \/ (pc' = "returned" /\ got' = None /\ Settled(todo')))
  BY DEF Retry
<1>2. OrderInv'
  BY <1>1 DEF PromptInv, OrderInv, Busy
<1>3. prompt => QuietInv' /\ AwaitInv' /\ ReturnInv'
  BY <1>1 DEF QuietInv, AwaitInv, ReturnInv, Settled
<1> QED
  BY <1>2, <1>3 DEF PromptInv

LEMMA StartPrompt ==
    ASSUME NEW t, StartSend(t), t.type # "QUR" => t.data = job'.data
    PROVE  PromptInv'
BY DEF StartSend, PromptInv, OrderInv, QuietInv, AwaitInv, ReturnInv

\* What is in the buffer stays an answer when more is remembered.
LEMMA BufferKept ==
    ASSUME NEW s, NEW r, s \subseteq r, NEW w, NEW q \in Seq(Proper(s, w))
    PROVE  q \in Seq(Proper(r, w))
BY ProperGrows, SeqGrows

LEMMA ForUsAppend ==
    ASSUME NEW S, NEW q \in Seq(S), NEW t \in S
    PROVE  ForUs(Append(q, t)) <=> ForUs(q) \/ t.dst = Us
<1>1. DOMAIN Append(q, t) = 1..(Len(q) + 1) /\ DOMAIN q = 1..Len(q) /\ Len(q) \in Nat
  OBVIOUS
<1>2. /\ \A i \in 1..Len(q) : Append(q, t)[i] = q[i]
      /\ Append(q, t)[Len(q) + 1] = t
  OBVIOUS
<1> QED
  BY <1>1, <1>2 DEF ForUs

LEMMA ForUsTail ==
    ASSUME NEW S, NEW q \in Seq(S), q # <<>>
    PROVE  ForUs(q) <=> Head(q).dst = Us \/ ForUs(Tail(q))
<1>1. /\ DOMAIN Tail(q) = 1..(Len(q) - 1) /\ DOMAIN q = 1..Len(q)
      /\ Len(q) \in Nat \ {0}
  OBVIOUS
<1>2. /\ \A i \in 1..(Len(q) - 1) : Tail(q)[i] = q[i + 1]
      /\ Head(q) = q[1]
  OBVIOUS
<1>3. ASSUME ForUs(q) PROVE Head(q).dst = Us \/ ForUs(Tail(q))
  <2>1. PICK i \in 1..Len(q) : q[i].dst = Us
    BY <1>1, <1>3 DEF ForUs
  <2>2. CASE i = 1
    BY <1>2, <2>1, <2>2
  <2>3. CASE i # 1
    <3>1. i - 1 \in 1..(Len(q) - 1) /\ (i - 1) + 1 = i
      BY <1>1, <2>3
    <3>2. Tail(q)[i - 1].dst = Us
      BY <1>2, <2>1, <3>1
    <3> QED
      BY <1>1, <3>1, <3>2 DEF ForUs
  <2> QED
    BY <2>2, <2>3
<1>4. ASSUME ForUs(Tail(q)) PROVE ForUs(q)
  <2>1. PICK i \in 1..(Len(q) - 1) : Tail(q)[i].dst = Us
    BY <1>1, <1>4 DEF ForUs
  <2>2. i + 1 \in 1..Len(q) /\ q[i + 1].dst = Us
    BY <1>1, <1>2, <2>1
  <2> QED
    BY <1>1, <2>2 DEF ForUs
<1>5. ASSUME Head(q).dst = Us PROVE ForUs(q)
  BY <1>1, <1>2, <1>5 DEF ForUs
<1> QED
  BY <1>3, <1>4, <1>5

\* A step outside of Send() and of the answers: more is remembered, at most.
LEMMA QuietPrompt ==
    ASSUME PromptInv, UNCHANGED <<prompt, rx, pc, tx, job, got, mishap, left>>,
           pc # "idle" => seen \subseteq seen',
           Pending(todo') \subseteq Pending(todo), Pending(todo') = Pending(todo)
               \/ pc \notin {"wait", "await"},
           \A d \in Pending(todo') : todo'[d] = todo[d]
    PROVE  PromptInv'
<1>1. OrderInv'
  BY DEF PromptInv, OrderInv, Busy
<1>2. ASSUME prompt PROVE QuietInv'
  BY <1>2 DEF PromptInv, QuietInv
<1>3. ASSUME prompt PROVE AwaitInv'
  <2> SUFFICES ASSUME pc = "await" PROVE AwaitInv'
    BY DEF AwaitInv
  <2>1. seen \subseteq seen' /\ Pending(todo') = Pending(todo)
    OBVIOUS
  <2>2. rx \in Seq(Proper(seen', tx))
    BY <1>3, <2>1, BufferKept DEF PromptInv, AwaitInv
  <2> QED
    BY <1>3, <2>1, <2>2 DEF PromptInv, AwaitInv
<1>4. ASSUME prompt PROVE ReturnInv'
  BY <1>4, ProperGrows DEF PromptInv, ReturnInv
<1> QED
  BY <1>1, <1>2, <1>3, <1>4 DEF PromptInv

LEMMA ChangesPrompt ==
    ASSUME Link, PromptInv, NEW p \in Params, NEW v \in Payload, Changes(p, v)
    PROVE  PromptInv'
<1>1. Watch(value') /\ UNCHANGED <<prompt, todo, rx, pc, tx, job, got, mishap, left>>
  BY DEF Changes, caller, sending
<1>2. pc # "idle" => seen \subseteq seen'
  BY <1>1, WatchRemembers
<1> QED
  BY <1>1, <1>2, QuietPrompt

\* What others are told leaves room for the answer.
LEMMA ForeignPrompt ==
    ASSUME Link, PromptInv, NEW p \in Params, Foreign(p)
    PROVE  PromptInv'
<1> DEFINE t == Telegram(p[1], Other, "ACK", p[2], None)
<1>1. /\ pc # "wait" /\ rx' = Append(rx, t)
      /\ (pc = "await" /\ prompt) => left > Len(rx) + 1
      /\ UNCHANGED <<prompt, todo, pc, tx, job, got, seen, mishap, left>>
  BY DEF Foreign, caller, sending
<1>2. t \in Heard /\ t.dst # Us
  <2>1. t \in Heard
    BY PairOfParam, AnswerIsHeard
  <2>2. t.dst = Other
    BY DEF Telegram
  <2> QED
    BY <2>1, <2>2 DEF BusAssumption
<1> HIDE DEF t
<1>3. OrderInv'
  BY <1>1 DEF PromptInv, OrderInv, Busy
<1>4. ASSUME prompt PROVE QuietInv' /\ ReturnInv'
  BY <1>1, <1>4 DEF PromptInv, QuietInv, ReturnInv
<1>5. ASSUME prompt PROVE AwaitInv'
  <2> SUFFICES ASSUME pc = "await" PROVE AwaitInv'
    BY <1>1 DEF AwaitInv
  <2>1. rx \in Seq(Proper(seen, tx)) /\ t \in Proper(seen, tx)
    BY <1>2, <1>5 DEF PromptInv, AwaitInv, Proper
  <2>2. /\ rx' \in Seq(Proper(seen, tx)) /\ Len(rx') = Len(rx) + 1
        /\ Len(rx) \in Nat /\ (ForUs(rx') <=> ForUs(rx))
    BY <1>1, <1>2, <2>1, AppendHeard, ForUsAppend
  <2>3. Len(rx') <= left /\ Len(rx') < left
    BY <1>1, <1>5, <2>2 DEF Link, CountInv
  <2> QED
    BY <1>1, <1>5, <2>2, <2>3 DEF PromptInv, AwaitInv
<1> QED
  BY <1>1, <1>3, <1>4, <1>5 DEF PromptInv

\* An answer is to the telegram that is awaited, and the only one.
LEMMA HandlePrompt ==
    ASSUME Link, Truth, PromptInv, NEW d \in Controllers, Handle(d)
    PROVE  PromptInv'
<1>1. /\ todo' = [todo EXCEPT ![d] = None] /\ todo[d] # None /\ Watch(value')
      /\ UNCHANGED <<prompt, tx, left, job, tries, result, known>>
  BY HandleEffect
<1>2. pc # "idle" => seen \subseteq seen' /\ value'[job.par] \in seen'
  BY <1>1, WatchRemembers
<1>3. Pending(todo') = Pending(todo) \ {d} /\ \A e \in Pending(todo') : todo'[e] = todo[e]
  BY <1>1 DEF Link, WorkInv, Pending
<1>4. CASE todo[d].type = "INF" /\ UNCHANGED <<rx, mishap, pc, attempts, got>>
  <2>1. Pending(todo') = Pending(todo)
    BY <1>3, <1>4 DEF Pending
  <2> QED
    BY <1>1, <1>2, <1>3, <1>4, <2>1, QuietPrompt
<1>5. CASE pc = "wait" /\ Retry
  BY <1>1, <1>5, RetryPrompt
<1>6. ASSUME pc # "wait", todo[d].type # "INF",
             \/ Lost
             \/ \E a \in Heard :
                   /\ Arrives(a) /\ a.src = d /\ a.dst = Us
                   /\ a.cmd = todo[d].cmd
                   /\ a.type = "ACK" =>
                         /\ todo[d].type # "QUR"
                         /\ value'[<<d, a.cmd>>] = todo[d].data
      PROVE  PromptInv'
  <2>1. UNCHANGED <<pc, got>>
    BY <1>6 DEF Lost, Arrives
  <2>2. OrderInv'
    BY <1>1, <2>1 DEF PromptInv, OrderInv, Busy
  <2>3. d \in Pending(todo)
    BY <1>1, <1>6 DEF Pending
  <2>4. ASSUME prompt PROVE QuietInv' /\ AwaitInv' /\ ReturnInv'
    <3>1. pc = "await"
      BY <1>6, <2>3, <2>4 DEF PromptInv, QuietInv
    <3>2. todo[d] = tx /\ d = tx.dst /\ Pending(todo') = {}
      <4>1. \A e \in Pending(todo) : todo[e] = tx /\ e = tx.dst
        BY <1>1, <2>4, <3>1 DEF PromptInv, AwaitInv, Link, WorkInv, Pending
      <4> QED
        BY <1>3, <2>3, <4>1
    <3>3. QuietInv' /\ ReturnInv'
      BY <2>1, <3>1, <3>2 DEF QuietInv, ReturnInv
    <3>4. /\ rx \in Seq(Proper(seen', tx)) /\ Len(rx) \in Nat /\ Len(rx) < left
      <4>1. rx \in Seq(Proper(seen, tx)) /\ Len(rx) < left
        BY <2>3, <2>4, <3>1 DEF PromptInv, AwaitInv
      <4> QED
        BY <1>2, <3>1, <4>1, BufferKept
    <3>5. ASSUME UNCHANGED rx, mishap' PROVE AwaitInv'
      BY <1>1, <2>1, <2>4, <3>1, <3>2, <3>4, <3>5 DEF PromptInv, AwaitInv, Link, CountInv
    <3>6. ASSUME NEW a \in Heard, rx' = Append(rx, a), a.src = d, a.dst = Us,
                 a.cmd = todo[d].cmd,
                 a.type = "ACK" =>
                     todo[d].type # "QUR" /\ value'[<<d, a.cmd>>] = todo[d].data
          PROVE  AwaitInv'
      <4>1. <<d, a.cmd>> = job.par
        BY <3>1, <3>2, <3>6 DEF Link, SendInv, Busy
      <4>2. a \in Proper(seen', tx)
        BY <1>2, <3>1, <3>2, <3>6, <4>1 DEF Proper
      <4>3. /\ rx' \in Seq(Proper(seen', tx)) /\ Len(rx') = Len(rx) + 1
            /\ ForUs(rx')
        BY <3>4, <3>6, <4>2, AppendHeard, ForUsAppend
      <4>4. Len(rx') <= left
        BY <3>4, <4>3 DEF Link, CountInv
      <4> QED
        BY <1>1, <2>1, <2>4, <3>1, <3>2, <4>3, <4>4 DEF PromptInv, AwaitInv
    <3>7. CASE Lost
      <4>1. UNCHANGED rx /\ mishap'
        BY <3>1, <3>7 DEF Lost
      <4> QED
        BY <3>3, <3>5, <4>1
    <3>8. ASSUME NEW a \in Heard, Arrives(a), a.src = d, a.dst = Us,
                 a.cmd = todo[d].cmd,
                 a.type = "ACK" =>
                     todo[d].type # "QUR" /\ value'[<<d, a.cmd>>] = todo[d].data
          PROVE  AwaitInv'
      <4>1. CASE rx' = Append(rx, a)
        BY <3>6, <3>8, <4>1
      <4>2. CASE UNCHANGED rx /\ mishap'
        BY <3>5, <4>2
      <4> QED
        BY <3>1, <3>8, <4>1, <4>2 DEF Arrives
    <3> QED
      BY <1>6, <3>3, <3>7, <3>8
  <2> QED
    BY <1>1, <2>2, <2>4 DEF PromptInv
<1>7. pc = "wait" /\ (Lost \/ \E a : Arrives(a)) => Retry
  BY DEF Lost, Arrives
<1> QED
  BY <1>4, <1>5, <1>6, <1>7, HandleEffect

LEMMA TransmitPrompt ==
    ASSUME Link, Truth, PromptInv, Transmit
    PROVE  PromptInv'
<1>1. pc = "wait" /\ Settled(todo) /\ UNCHANGED <<prompt, rx, tx, job, seen>>
  BY DEF Transmit, caller
<1>2. \/ tx.type = "INF" /\ pc' = "returned" /\ got' = tx
      \/ tx.type # "INF" /\ pc' = "await" /\ left' = Messages
  BY DEF Transmit
<1>3. \/ todo' = [todo EXCEPT ![tx.dst] = tx]
      \/ mishap' = TRUE /\ todo' = todo
  BY DEF Transmit, Deliver
<1>4. tx \in Own /\ tx # None
  BY <1>1 DEF Link, SendInv, Busy, Own, BusAssumption
<1>5. OrderInv'
  BY <1>1, <1>2 DEF PromptInv, OrderInv, Busy
<1>6. ASSUME prompt PROVE QuietInv' /\ AwaitInv' /\ ReturnInv'
  <2>1. Pending(todo) = {}
    BY <1>1, <1>6 DEF Settled
  <2>2. \/ Pending(todo') = {} /\ (tx.type = "INF" \/ mishap')
        \/ Pending(todo') = {tx.dst} /\ todo'[tx.dst] = tx
    BY <1>3, <1>4, <2>1 DEF Link, WorkInv, Pending, Own
  <2>3. CASE tx.type = "INF"
    <3>1. Pending(todo') = {}
      BY <1>3, <1>4, <2>1, <2>3 DEF Link, WorkInv, Pending, Own
    <3> QED
      BY <1>1, <1>2, <1>4, <2>3, <3>1 DEF QuietInv, AwaitInv, ReturnInv
  <2>4. CASE tx.type # "INF"
    <3>1. rx' = <<>> /\ ~ForUs(<<>>)
      BY <1>1 DEF Truth, BufferInv, ForUs
    <3>2. rx' \in Seq(Proper(seen', tx')) /\ Len(rx') = 0
      BY <3>1, NothingHeard
    <3>3. left' = Messages /\ Messages > 0
      BY <1>2, <2>4 DEF BusAssumption
    <3>4. AwaitInv'
      BY <1>1, <2>2, <2>4, <3>1, <3>2, <3>3 DEF AwaitInv
    <3> QED
      BY <1>2, <2>4, <3>4 DEF QuietInv, ReturnInv
  <2> QED
    BY <2>3, <2>4
<1> QED
  BY <1>1, <1>5, <1>6 DEF PromptInv

LEMMA ReceivePrompt ==
    ASSUME Link, PromptInv, Receive
    PROVE  PromptInv'
<1>1. pc = "await" /\ rx # <<>> /\ rx' = Tail(rx)
      /\ UNCHANGED <<prompt, todo, tx, job, seen, mishap>>
  BY DEF Receive, caller
<1>2. \/ Matches(Head(rx)) /\ pc' = "returned" /\ got' = Head(rx) /\ left' = 0
      \/ ~Matches(Head(rx))
         /\ pc' = (IF left = 1 THEN "returned" ELSE "await")
         /\ left' = left - 1 /\ UNCHANGED got
  BY DEF Receive
<1>3. OrderInv'
  BY <1>1, <1>2 DEF PromptInv, OrderInv, Busy
<1>4. ASSUME prompt PROVE QuietInv' /\ AwaitInv' /\ ReturnInv'
  <2>1. /\ tx.type # "INF" /\ rx \in Seq(Proper(seen, tx)) /\ Len(rx) <= left
        /\ Pending(todo) # {} => Len(rx) < left /\ ~ForUs(rx)
        /\ mishap \/ Pending(todo) # {} \/ ForUs(rx)
        /\ \A d \in Pending(todo) : todo[d] = tx
    BY <1>1, <1>4 DEF PromptInv, AwaitInv
  <2>2. /\ Head(rx) \in Proper(seen, tx) /\ Tail(rx) \in Seq(Proper(seen, tx))
        /\ Len(Tail(rx)) = Len(rx) - 1 /\ Len(rx) \in Nat
    BY <1>1, <2>1, TailHeard
  <2>3. ForUs(rx) <=> Head(rx).dst = Us \/ ForUs(rx')
    BY <1>1, <2>1, ForUsTail
  <2>4. Matches(Head(rx)) <=> Head(rx).dst = Us
    BY <2>2 DEF Matches, Proper
  <2>5. CASE Matches(Head(rx))
    <3>1. Pending(todo) = {} /\ pc' = "returned" /\ got' = Head(rx)
      BY <1>2, <2>1, <2>3, <2>4, <2>5
    <3>2. Head(rx) # None
      BY <2>2 DEF Proper, Heard, BusAssumption
    <3> QED
      BY <1>1, <2>1, <2>2, <2>4, <2>5, <3>1, <3>2 DEF QuietInv, AwaitInv, ReturnInv
  <2>6. CASE ~Matches(Head(rx)) /\ left = 1
    <3>1. pc' = "returned" /\ got' = got /\ got = None
      BY <1>1, <1>2, <2>6 DEF Link, GotInv
    <3>2. Len(rx) = 1 /\ Pending(todo) = {}
      <4>1. Len(rx) # 0
        BY <1>1, <2>1
      <4> QED
        BY <2>1, <2>2, <2>6, <4>1
    <3>3. ~ForUs(rx')
      <4>1. Len(rx') = 0
        BY <1>1, <2>2, <3>2
      <4>2. DOMAIN rx' = 1..Len(rx')
        BY <1>1, <2>2
      <4> QED
        BY <4>1, <4>2 DEF ForUs
    <3>4. mishap'
      BY <1>1, <2>1, <2>3, <2>4, <2>6, <3>2, <3>3
    <3> QED
      BY <1>1, <3>1, <3>2, <3>4 DEF QuietInv, AwaitInv, ReturnInv
  <2>7. CASE ~Matches(Head(rx)) /\ left # 1
    <3>1. pc' = "await" /\ left' = left - 1 /\ left \in Nat
      BY <1>1, <1>2, <2>7 DEF Link, CountInv
    <3>2. Len(rx') <= left' /\ (Len(rx) < left => Len(rx') < left')
      BY <1>1, <2>1, <2>2, <3>1
    <3>3. AwaitInv'
      BY <1>1, <2>1, <2>2, <2>3, <2>4, <2>7, <3>2 DEF AwaitInv
    <3> QED
      BY <3>1, <3>3 DEF QuietInv, ReturnInv
  <2> QED
    BY <2>5, <2>6, <2>7
<1> QED
  BY <1>1, <1>3, <1>4 DEF PromptInv

LEMMA TimedOutPrompt ==
    ASSUME Link, PromptInv, TimedOut
    PROVE  PromptInv'
<1>1. /\ pc = "await" /\ pc' = "returned" /\ Settled(todo) /\ (prompt => rx = <<>>)
      /\ UNCHANGED <<prompt, todo, tx, job, got, seen, mishap>>
  BY DEF TimedOut, caller
<1>2. OrderInv'
  BY <1>1 DEF PromptInv, OrderInv, Busy
<1>3. ASSUME prompt PROVE QuietInv' /\ AwaitInv' /\ ReturnInv'
  <2>1. Pending(todo) = {} /\ ~ForUs(rx) /\ got = None
    BY <1>1, <1>3 DEF Settled, ForUs, Link, GotInv
  <2>2. mishap
    BY <1>1, <1>3, <2>1 DEF PromptInv, AwaitInv
  <2> QED
    BY <1>1, <2>1, <2>2 DEF QuietInv, AwaitInv, ReturnInv
<1> QED
  BY <1>1, <1>2, <1>3 DEF PromptInv

LEMMA CallerPrompt ==
    ASSUME Link, PromptInv, Caller
    PROVE  PromptInv'
<1>1. CASE NextTry
  <2>1. StartSend(tx) /\ UNCHANGED job /\ tx.type = "QUR"
    BY <1>1 DEF NextTry, Asking
  <2> QED
    BY <2>1, StartPrompt
<1>2. CASE PatchGoesOn
  <2>1. StartSend(Order(job')) /\ Order(job').data = job'.data
    BY <1>2 DEF PatchGoesOn, Order, Telegram
  <2> QED
    BY <2>1, StartPrompt
<1>3. ASSUME pc = "returned", NEW r, Finish(r) PROVE PromptInv'
  <2>1. pc' = "done" /\ UNCHANGED <<prompt, todo>>
    BY <1>3 DEF Finish
  <2> QED
    BY <1>3, <2>1 DEF PromptInv, OrderInv, QuietInv, AwaitInv, ReturnInv, Busy
<1>4. CASE Return
  <2>1. pc = "done" /\ pc' = "idle" /\ UNCHANGED <<prompt, todo>>
    BY <1>4 DEF Return
  <2> QED
    BY <2>1 DEF PromptInv, OrderInv, QuietInv, AwaitInv, ReturnInv, Busy
<1> QED
  BY <1>1, <1>2, <1>3, <1>4 DEF Caller, QueryEnds, PatchRefused, SetEnds, Asking

LEMMA UserPrompt ==
    ASSUME User PROVE PromptInv'
<1>1. ASSUME NEW p, NEW n, Query(p, n) PROVE PromptInv'
  <2>1. StartSend(Ask(p)) /\ Ask(p).type = "QUR"
    BY <1>1 DEF Query, Ask, Telegram
  <2> QED
    BY <2>1, StartPrompt
<1>2. ASSUME NEW p, NEW v, NEW s, Set(p, v, s) PROVE PromptInv'
  <2>1. StartSend(Order(job')) /\ Order(job').data = job'.data
    BY <1>2 DEF Set, Begin, Order, Telegram
  <2> QED
    BY <2>1, StartPrompt
<1>3. ASSUME NEW p, NEW f, NEW s, NEW n, Patch(p, f, s, n) PROVE PromptInv'
  <2>1. StartSend(Ask(p)) /\ Ask(p).type = "QUR"
    BY <1>3 DEF Patch, Ask, Telegram
  <2> QED
    BY <2>1, StartPrompt
<1> QED
  BY <1>1, <1>2, <1>3 DEF User

LEMMA NextPrompt == Link /\ Truth /\ PromptInv /\ [Next]_vars => PromptInv'
<1> SUFFICES ASSUME Link, Truth, PromptInv, [Next]_vars PROVE PromptInv'
  OBVIOUS
<1>1. ASSUME BusBusy \/ Collision PROVE PromptInv'
  BY <1>1, RetryPrompt DEF BusBusy, Collision, caller
<1>2. ASSUME LoopReads PROVE PromptInv'
  BY <1>2 DEF LoopReads, caller, sending, PromptInv, OrderInv, QuietInv, AwaitInv,
              ReturnInv, Busy
<1>3. ASSUME UNCHANGED vars PROVE PromptInv'
  BY <1>3 DEF vars, caller, sending, PromptInv, OrderInv, QuietInv, AwaitInv,
              ReturnInv, Busy
<1> QED
  BY <1>1, <1>2, <1>3, TransmitPrompt, ReceivePrompt, TimedOutPrompt, CallerPrompt,
     UserPrompt, HandlePrompt, ForeignPrompt, ChangesPrompt DEF Next, Sender, Bus

LEMMA PromptAlways == Spec => [](Link /\ Truth /\ PromptInv)
<1>1. Init => Truth
  BY DEF Init, Truth, FreshInv, BufferInv, AnswerInv, ReportInv
<1>2. Init => PromptInv
  BY DEF Init, PromptInv, OrderInv, QuietInv, AwaitInv, ReturnInv, Pending, Busy
<1> QED
  BY <1>1, <1>2, LinkAlways, NextTruth, NextPrompt, PTL DEF Spec

\* Send() of a controller that answers in time fails only after a mishap: an
\* answer is never missed among 15 telegrams, nor thrown away with what is in the
\* receive buffer (bsb.cpp:601, 612).
THEOREM FailuresHaveReasons == Spec => []FailureHasReason
<1>1. PromptInv => FailureHasReason
  BY DEF PromptInv, ReturnInv, FailureHasReason
<1> QED
  BY <1>1, PromptAlways, PTL

\* What Send() was given and what it returned, in terms of the job.
LEMMA AnswerToOrder ==
    ASSUME Link, Truth, PromptInv, prompt, pc = "returned", got # None,
           got.type \in {"ANS", "ACK", "ERR"}
    PROVE  /\ got.src = job.par[1]
           /\ tx.type # "QUR" /\ got.type = "ACK" => job.data \in seen
<1>1. tx.type # "INF"
  BY DEF PromptInv, ReturnInv, Link, SendInv, Busy, Own
<1>2. got \in Proper(seen, tx) /\ got.dst = Us
  BY <1>1 DEF PromptInv, ReturnInv
<1>3. tx.dst = job.par[1] /\ (tx.type # "QUR" => tx.data = job.data)
  BY DEF PromptInv, OrderInv, Link, SendInv, Busy
<1> QED
  BY <1>2, <1>3 DEF Proper

\* A step that leaves a finished job alone.
LEMMA DoneKept ==
    ASSUME Link, pc = "done", pc' = "done", [Next]_vars
    PROVE  /\ UNCHANGED <<prompt, job, result, got>> /\ seen \subseteq seen'
<1>1. CASE Sender
  BY <1>1 DEF Sender, BusBusy, Collision, Transmit, Receive, TimedOut
<1>2. CASE Caller
  BY <1>2 DEF Caller, NextTry, QueryEnds, PatchGoesOn, PatchRefused, SetEnds, Asking,
              Return
<1>3. CASE User
  BY <1>3 DEF User, Query, Set, Patch, Begin
<1>4. CASE LoopReads
  BY <1>4 DEF LoopReads
<1>5. ASSUME NEW d \in Controllers, Handle(d)
      PROVE  UNCHANGED <<prompt, job, result, got>> /\ seen \subseteq seen'
  <2>1. UNCHANGED <<prompt, job, result>> /\ seen \subseteq seen'
    BY <1>5, HandleEffect, WatchRemembers
  <2>2. UNCHANGED got
    BY <1>5, HandleEffect DEF Arrives, Lost
  <2> QED
    BY <2>1, <2>2
<1>6. ASSUME NEW p, Foreign(p)
      PROVE  UNCHANGED <<prompt, job, result, got>> /\ seen \subseteq seen'
  BY <1>6 DEF Foreign, caller
<1>7. ASSUME NEW p, NEW v, Changes(p, v)
      PROVE  UNCHANGED <<prompt, job, result, got>> /\ seen \subseteq seen'
  BY <1>7, WatchRemembers DEF Changes, caller
<1>8. CASE UNCHANGED vars
  BY <1>8 DEF vars, caller
<1> QED
  BY <1>1, <1>2, <1>3, <1>4, <1>5, <1>6, <1>7, <1>8 DEF Next, Bus

\* A job is finished by query() or by set(), with what has been returned.
LEMMA BecomesDone ==
    ASSUME Link, pc # "done", pc' = "done", [Next]_vars
    PROVE  /\ pc = "returned" /\ UNCHANGED <<prompt, job, got, seen>>
           /\ result' \in {"value", "ok", "error"} =>
                 got # None /\ got.type \in {"ANS", "ACK", "ERR"}
           /\ result' = "ok" => tx.type # "QUR" /\ got.type = "ACK"
<1>1. CASE Sender
  BY <1>1 DEF Sender, BusBusy, Collision, Transmit, Receive, TimedOut, Retry
<1>2. CASE Caller
  <2>1. CASE NextTry \/ PatchGoesOn \/ Return
    BY <2>1 DEF NextTry, PatchGoesOn, Return, StartSend
  <2>2. CASE QueryEnds
    BY <2>2 DEF QueryEnds, Asking, Finish, Meaning, Answered
  <2>3. CASE PatchRefused
    BY <2>3 DEF PatchRefused, Asking, Finish
  <2>4. CASE SetEnds
    BY <2>4 DEF SetEnds, Finish, Answered
  <2> QED
    BY <1>2, <2>1, <2>2, <2>3, <2>4 DEF Caller
<1>3. CASE User
  BY <1>3 DEF User, Query, Set, Patch, StartSend
<1>4. ASSUME NEW d \in Controllers, Handle(d) PROVE FALSE
  BY <1>4, HandleEffect DEF Arrives, Lost, Retry
<1>5. CASE LoopReads \/ UNCHANGED vars
  BY <1>5 DEF LoopReads, vars
<1>6. ASSUME NEW p, NEW v, Foreign(p) \/ Changes(p, v) PROVE FALSE
  BY <1>6 DEF Foreign, Changes
<1> QED
  BY <1>1, <1>2, <1>3, <1>4, <1>5, <1>6 DEF Next, Bus

\* An answer that prompt controllers give is that of the controller addressed,
\* although Send() compares the receiver and the command only (bsb.cpp:630).
THEOREM SenderIsRight == Spec => []RightSender
<1>1. Init => RightSender
  BY DEF Init, RightSender
<1>2. ASSUME Link, Truth, PromptInv, RightSender, [Next]_vars PROVE RightSender'
  <2>1. CASE pc' # "done"
    BY <2>1 DEF RightSender
  <2>2. CASE pc = "done" /\ pc' = "done"
    BY <1>2, <2>2, DoneKept DEF RightSender
  <2>3. CASE pc # "done" /\ pc' = "done"
    BY <1>2, <2>3, BecomesDone, AnswerToOrder DEF RightSender
  <2> QED
    BY <2>1, <2>2, <2>3
<1> QED
  BY <1>1, <1>2, PromptAlways, PTL DEF Spec

\* An order that set() reports as carried out has been, by the parameter it was
\* meant for, when controllers are prompt.
THEOREM AckIsSet == Spec => []AckMeansSet
<1>1. Init => AckMeansSet
  BY DEF Init, AckMeansSet
<1>2. ASSUME Link, Truth, PromptInv, AckMeansSet, [Next]_vars PROVE AckMeansSet'
  <2>1. CASE pc' # "done"
    BY <2>1 DEF AckMeansSet
  <2>2. CASE pc = "done" /\ pc' = "done"
    BY <1>2, <2>2, DoneKept DEF AckMeansSet
  <2>3. CASE pc # "done" /\ pc' = "done"
    BY <1>2, <2>3, BecomesDone, AnswerToOrder DEF AckMeansSet
  <2> QED
    BY <2>1, <2>2, <2>3
<1> QED
  BY <1>1, <1>2, PromptAlways, PTL DEF Spec

\* While a job lasts its order is as it was, until a field is put into a payload.
LEMMA JobKept ==
    ASSUME Link, pc # "idle", pc' # "idle", [Next]_vars, ~PatchGoesOn
    PROVE  UNCHANGED <<prompt, job, known>> /\ seen \subseteq seen'
<1>1. CASE Sender
  BY <1>1 DEF Sender, BusBusy, Collision, Transmit, Receive, TimedOut, caller
<1>2. CASE Caller
  BY <1>2 DEF Caller, NextTry, QueryEnds, PatchRefused, SetEnds, Finish, Return
<1>3. CASE User
  BY <1>3 DEF User, Query, Set, Patch, Begin
<1>4. CASE LoopReads \/ UNCHANGED vars
  BY <1>4 DEF LoopReads, vars, caller
<1>5. ASSUME NEW d \in Controllers, Handle(d)
      PROVE  UNCHANGED <<prompt, job, known>> /\ seen \subseteq seen'
  BY <1>5, HandleEffect, WatchRemembers
<1>6. ASSUME NEW p, Foreign(p)
      PROVE  UNCHANGED <<prompt, job, known>> /\ seen \subseteq seen'
  BY <1>6 DEF Foreign, caller
<1>7. ASSUME NEW p, NEW v, Changes(p, v)
      PROVE  UNCHANGED <<prompt, job, known>> /\ seen \subseteq seen'
  BY <1>7, WatchRemembers DEF Changes, caller
<1> QED
  BY <1>1, <1>2, <1>3, <1>4, <1>5, <1>6, <1>7 DEF Next, Bus

\* The field goes into a payload that the parameter has held.
LEMMA PatchedInAnswer ==
    ASSUME Link, Truth, PromptInv, prompt, PatchGoesOn, known'
    PROVE  \E v \in seen' : job'.data.rest = v.rest
<1>1. /\ pc = "returned" /\ tx.type = "QUR" /\ job.kind = "patch"
      /\ known' = (Meaning = "value") /\ UNCHANGED seen
  BY DEF PatchGoesOn, Asking
<1>2. job' = [job EXCEPT !.data = [@ EXCEPT !.rest = got.data.rest]]
  BY DEF PatchGoesOn
<1>3. got # None /\ got.type = "ANS"
  BY <1>1 DEF Meaning, Answered
<1>4. got.data \in seen
  <2>1. got.src = job.par[1]
    BY <1>1, <1>3, AnswerToOrder
  <2>2. got.dst = Us /\ got.cmd = job.par[2]
    BY <1>1, <1>3 DEF Link, GotInv, SendInv, Busy
  <2> QED
    BY <1>1, <1>3, <2>1, <2>2 DEF Truth, AnswerInv, Sound
<1>5. job \in Jobs /\ job.data \in Payload
  BY <1>1 DEF Link, JobInv
<1>6. job'.data.rest = got.data.rest
  BY <1>2, <1>5 DEF Jobs, Payload
<1> QED
  BY <1>1, <1>4, <1>6

\* What set() makes of an answer leaves all but the field as the parameter had it,
\* when controllers are prompt: an answer to an earlier or a foreign query is never
\* taken for the payload to be changed (BSB_LAN.ino:3311-3356).
THEOREM RestIsKept == Spec => []PatchKeepsRest
<1>1. Init => PatchKeepsRest
  BY DEF Init, PatchKeepsRest
<1>2. ASSUME Link, Truth, PromptInv, PatchKeepsRest, [Next]_vars
      PROVE  PatchKeepsRest'
  <2>1. CASE pc = "idle"
    <3>1. pc' = "idle" \/ ~known'
      <4>1. CASE User
        BY <4>1 DEF User, Query, Set, Patch, Begin
      <4>2. CASE Sender \/ Caller \/ LoopReads \/ UNCHANGED vars
        BY <2>1, <4>2 DEF Sender, BusBusy, Collision, Transmit, Receive, TimedOut,
           Caller, NextTry, QueryEnds, PatchGoesOn, PatchRefused, SetEnds, Asking,
           Return, LoopReads, vars
      <4>3. ASSUME NEW d \in Controllers, Handle(d) PROVE pc' = "idle"
        BY <1>2, <2>1, <4>3, HandleEffect DEF Arrives, Lost
      <4>4. ASSUME NEW p, NEW v, Foreign(p) \/ Changes(p, v) PROVE pc' = "idle"
        BY <2>1, <4>4 DEF Foreign, Changes
      <4> QED
        BY <1>2, <4>1, <4>2, <4>3, <4>4 DEF Next, Bus
    <3> QED
      BY <3>1 DEF PatchKeepsRest
  <2>2. CASE pc # "idle" /\ ~PatchGoesOn
    BY <1>2, <2>2, JobKept DEF PatchKeepsRest
  <2>3. CASE PatchGoesOn
    <3>1. prompt' = prompt
      BY <2>3 DEF PatchGoesOn
    <3> QED
      BY <1>2, <2>3, <3>1, PatchedInAnswer DEF PatchKeepsRest
  <2> QED
    BY <2>1, <2>2, <2>3
<1> QED
  BY <1>1, <1>2, PromptAlways, PTL DEF Spec

-----------------------------------------------------------------------------
(* query() and set() come to an end                                          *)

\* The most that a Send() takes.
Whole == Latest + Messages + 1

Measured ==
    pc # "idle" =>
        /\ Whole \in Nat /\ SendsToCome \in Nat /\ InSend \in Nat
        /\ pc = "wait" => InSend = Whole - attempts /\ InSend > Messages + 1
        /\ pc = "await" => InSend = left + 1 /\ InSend > 1
        /\ pc = "returned" => InSend = 1
        /\ pc = "done" => InSend = 0 /\ SendsToCome = 0
        /\ Distance = SendsToCome * Whole + InSend

Near == Link /\ Measured

LEMMA LinkMeasured == Link => Measured
<1> SUFFICES ASSUME Link, pc # "idle" PROVE Measured
  BY DEF Measured
<1>1. Latest \in Nat /\ Messages \in Nat \ {0}
  BY DEF BusAssumption
<1>2. attempts \in 0..(Latest - 1) /\ left \in 0..Messages /\ (pc = "await" => left # 0)
  BY DEF Link, CountInv
<1>3. tries \in 1..QUERY_RETRIES
  BY DEF Link, PlainInv
<1>4. SendsToCome \in Nat /\ (pc = "done" => SendsToCome = 0)
  BY <1>3 DEF SendsToCome, BusAssumption
<1>5. /\ pc = "wait" => InSend = Whole - attempts /\ InSend > Messages + 1
      /\ pc = "await" => InSend = left + 1 /\ InSend > 1
      /\ pc = "returned" => InSend = 1
      /\ pc = "done" => InSend = 0
  BY <1>1, <1>2 DEF InSend, Whole
<1>6. InSend \in Nat /\ Whole \in Nat
  BY <1>1, <1>2, <1>5 DEF Link, PlainInv, Whole
<1> QED
  BY <1>4, <1>5, <1>6 DEF Distance, Whole, Measured

\* A step within one Send() changes what this Send() still takes.
LEMMA SameSend ==
    ASSUME Near, Near', pc # "idle", pc' # "idle", pc # "done", pc' # "done",
           UNCHANGED <<tx, job, tries>>
    PROVE  /\ InSend' < InSend => Distance' < Distance
           /\ InSend' = InSend => Distance' = Distance
<1>1. SendsToCome' = SendsToCome
  BY DEF SendsToCome
<1>2. /\ Distance = SendsToCome * Whole + InSend
      /\ Distance' = SendsToCome * Whole + InSend'
      /\ InSend \in Nat /\ InSend' \in Nat
  <2>1. Whole' = Whole
    BY DEF Whole
  <2> QED
    BY <1>1, <2>1 DEF Near, Measured
<1>3. SendsToCome * Whole \in Nat
  BY DEF Near, Measured
<1> QED
  BY <1>2, <1>3

LEMMA RetryNearer ==
    ASSUME Near, Near', pc = "wait", Retry, UNCHANGED <<tx, job, tries>>
    PROVE  Distance' < Distance
<1>1. \/ pc' = "wait" /\ attempts' = attempts + 1
      \/ pc' = "returned"
  BY DEF Retry
<1>2. InSend' < InSend
  <2>1. CASE pc' = "wait" /\ attempts' = attempts + 1
    <3>1. InSend = Latest - attempts + Messages + 1
          /\ InSend' = Latest - (attempts + 1) + Messages + 1
      BY <2>1 DEF InSend
    <3> QED
      BY <3>1 DEF Link, CountInv, BusAssumption, Near
  <2>2. CASE pc' = "returned"
    <3>1. InSend' = 1
      BY <2>2 DEF InSend
    <3> QED
      BY <3>1 DEF BusAssumption, Near, Measured
  <2> QED
    BY <1>1, <2>1, <2>2
<1> QED
  BY <1>1, <1>2, SameSend

LEMMA SenderNearer ==
    ASSUME Near, Near', Sender
    PROVE  Distance' < Distance
<1>1. UNCHANGED <<tx, job, tries>>
  BY DEF Sender, BusBusy, Collision, Transmit, Receive, TimedOut, caller
<1>2. CASE BusBusy \/ Collision
  BY <1>1, <1>2, RetryNearer DEF BusBusy, Collision
<1>3. CASE Transmit
  <2>1. pc = "wait" /\ (pc' = "returned" \/ (pc' = "await" /\ left' = Messages))
    BY <1>3 DEF Transmit
  <2>2. InSend' <= Messages + 1 /\ InSend' \in Nat
    BY <2>1 DEF InSend, BusAssumption, Near, Measured
  <2>3. InSend' < InSend
    BY <2>1, <2>2 DEF BusAssumption, Near, Measured
  <2> QED
    BY <1>1, <2>1, <2>3, SameSend
<1>4. CASE Receive
  <2>1. pc = "await" /\ (pc' = "returned" \/ (pc' = "await" /\ left' = left - 1))
    BY <1>4 DEF Receive
  <2>2. InSend = left + 1 /\ InSend > 1 /\ left \in Nat
    BY <2>1 DEF Link, CountInv, Near, Measured
  <2>3. InSend' < InSend
    BY <2>1, <2>2 DEF InSend
  <2> QED
    BY <1>1, <2>1, <2>3, SameSend
<1>5. CASE TimedOut
  <2>1. pc = "await" /\ pc' = "returned"
    BY <1>5 DEF TimedOut
  <2>2. InSend' < InSend
    BY <2>1 DEF InSend, Near, Measured
  <2> QED
    BY <1>1, <2>1, <2>2, SameSend
<1> QED
  BY <1>2, <1>3, <1>4, <1>5 DEF Sender

LEMMA CallerNearer ==
    ASSUME Near, Near', Caller, pc' # "idle"
    PROVE  Distance' < Distance
<1>1. CASE NextTry
  <2>1. /\ pc = "returned" /\ tx.type = "QUR" /\ pc' = "wait" /\ tx' = tx
        /\ attempts' = 0 /\ tries' = tries - 1 /\ job' = job
    BY <1>1 DEF NextTry, Asking, StartSend
  <2>2. SendsToCome' = SendsToCome - 1
    BY <2>1 DEF SendsToCome, Link, PlainInv, Near
  <2>3. Distance = SendsToCome * Whole + 1 /\ Distance' = SendsToCome' * Whole + InSend'
        /\ SendsToCome \in Nat /\ Whole \in Nat
    <3>1. Whole' = Whole
      BY DEF Whole
    <3> QED
      BY <2>1, <3>1 DEF Near, Measured
  <2>4. InSend' = Whole
    BY <2>1 DEF Whole, Near, Measured
  <2>5. (SendsToCome - 1) * Whole = SendsToCome * Whole - Whole
    BY <2>3
  <2>6. SendsToCome * Whole \in Nat
    BY <2>3
  <2> QED
    BY <2>2, <2>3, <2>4, <2>5, <2>6
<1>2. CASE PatchGoesOn
  <2>1. /\ pc = "returned" /\ tx.type = "QUR" /\ job.kind = "patch" /\ pc' = "wait"
        /\ attempts' = 0 /\ tx' = Order(job')
    BY <1>2 DEF PatchGoesOn, Asking, StartSend
  <2>2. SendsToCome' = 0
    <3>1. tx'.type # "QUR"
      BY <2>1 DEF Order, Telegram
    <3> QED
      BY <3>1 DEF SendsToCome
  <2>3. SendsToCome = tries /\ tries \in Nat \ {0}
    BY <2>1 DEF SendsToCome, Link, PlainInv, Near
  <2>4. Distance = tries * Whole + 1 /\ Distance' = InSend' /\ Whole \in Nat
    <3>1. Whole' = Whole
      BY DEF Whole
    <3>2. 0 * Whole = 0
      BY <2>1 DEF Near, Measured
    <3> QED
      BY <2>1, <2>2, <2>3, <3>1, <3>2 DEF Near, Measured
  <2>5. InSend' = Whole
    BY <2>1 DEF Whole, Near, Measured
  <2>6. tries * Whole \in Nat /\ tries * Whole >= Whole
    <3>1. tries - 1 \in Nat
      BY <2>3
    <3>2. (tries - 1) * Whole \in Nat
      BY <2>4, <3>1
    <3>3. tries * Whole = (tries - 1) * Whole + Whole
      BY <2>3, <2>4
    <3> QED
      BY <2>4, <3>2, <3>3
  <2> QED
    BY <2>4, <2>5, <2>6
<1>3. ASSUME pc = "returned", NEW r, Finish(r) PROVE Distance' < Distance
  <2>1. pc' = "done"
    BY <1>3 DEF Finish
  <2>2. Distance' = 0
    BY <2>1 DEF Distance, SendsToCome, InSend, BusAssumption
  <2>3. SendsToCome * Whole \in Nat
    BY <1>3 DEF Near, Measured
  <2>4. Distance = SendsToCome * Whole + 1
    BY <1>3 DEF Near, Measured
  <2> QED
    BY <2>2, <2>3, <2>4
<1>4. ~Return
  BY DEF Return
<1> QED
  BY <1>1, <1>2, <1>3, <1>4 DEF Caller, QueryEnds, PatchRefused, SetEnds, Asking

LEMMA BusNoFarther ==
    ASSUME Near, Near', Bus, pc # "idle", pc' # "idle"
    PROVE  Distance' <= Distance
<1>1. UNCHANGED <<tx, job, tries, left>>
  BY HandleEffect DEF Bus, Foreign, Changes, caller, sending, Near
<1>2. CASE pc = "wait" /\ Retry
  <2>1. Distance' < Distance
    BY <1>1, <1>2, RetryNearer
  <2>2. Distance \in Int /\ Distance' \in Int
    <3>1. SendsToCome * Whole \in Int /\ (SendsToCome * Whole)' \in Int
      BY DEF Near, Measured
    <3> QED
      BY <3>1 DEF Near, Measured
  <2> QED
    BY <2>1, <2>2
<1>3. CASE UNCHANGED <<pc, attempts>>
  <2>1. Distance' = Distance
    BY <1>1, <1>3 DEF Distance, SendsToCome, InSend
  <2>2. Distance \in Int
    <3>1. SendsToCome * Whole \in Int
      BY DEF Near, Measured
    <3> QED
      BY <3>1 DEF Near, Measured
  <2> QED
    BY <2>1, <2>2
<1>4. (pc = "wait" /\ Retry) \/ UNCHANGED <<pc, attempts>>
  <2>1. ASSUME NEW d \in Controllers, Handle(d)
        PROVE  (pc = "wait" /\ Retry) \/ UNCHANGED <<pc, attempts>>
    BY <2>1, HandleEffect DEF Arrives, Lost, Near
  <2>2. ASSUME NEW p, NEW v, Foreign(p) \/ Changes(p, v)
        PROVE  UNCHANGED <<pc, attempts>>
    BY <2>2 DEF Foreign, Changes, sending
  <2> QED
    BY <2>1, <2>2 DEF Bus
<1> QED
  BY <1>2, <1>3, <1>4

\* query() and set() take a bounded number of steps, whatever is on the bus, for all
\* values of the limits: each step of theirs brings the end nearer, and no step of
\* the bus puts it off (the retries of query(), goto retry in bsb.cpp, and the 15
\* telegrams of Send()).
THEOREM JobsComeToAnEnd == Spec => JobsEnd
<1>1. ASSUME Near, Near', [Next]_vars
      PROVE  [pc # "idle" /\ pc' # "idle" =>
                 IF Bus THEN Distance' <= Distance ELSE Distance' < Distance]_vars
  <2> SUFFICES ASSUME Next, pc # "idle", pc' # "idle", ~Bus
               PROVE  Distance' < Distance
    BY <1>1, BusNoFarther
  <2>1. ~User /\ ~LoopReads
    BY DEF User, Query, Set, Patch, Begin, LoopReads
  <2> QED
    BY <1>1, <2>1, SenderNearer, CallerNearer DEF Next
<1> QED
  BY <1>1, LinkAlways, LinkMeasured, PTL DEF Spec, JobsEnd, Near

=============================================================================

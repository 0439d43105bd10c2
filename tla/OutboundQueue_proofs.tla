------------------------- MODULE OutboundQueue_proofs -------------------------
(***************************************************************************)
(* Proofs about OutboundQueue: the types, the spacing of the slots, that   *)
(* no message is typed before its slot, that none disappears, and that     *)
(* only a mishap sends one again, for any number of messages and jobs, any *)
(* delays, any clock and any number of faults and crashes; from which the  *)
(* queue implements DeliveryContract.                                      *)
(***************************************************************************)
EXTENDS OutboundQueue, FiniteSets, SequenceTheorems, FiniteSetTheorems, TLAPS

-----------------------------------------------------------------------------
(* The strengthened invariants *)

\* The last slot booked under the current life of the key leaves room before next.
SlotsBehindNext ==
    \A i \in DOMAIN booked :
        /\ booked[i].life <= life
        /\ booked[i].life = life => booked[i].at + MinDelay <= next

SlotsInv == SlotsBehindNext /\ SlotsApart

\* A handler that is not idle has its job, which the queue shows as active.
Handling ==
    IF phase = "idle" THEN active = NULL ELSE active \in Job /\ job[active].st = "active"

\* Every job carries a message.
HasMessage == \A j \in Job : job[j].st # "none" => job[j].msg \in Msg

TypeInv == TypeOK /\ HasMessage /\ Handling

\* Nobody asked for a slot in the future, and only for a job that has none yet.
AskedBefore ==
    /\ asked <= now
    /\ phase = "booking" => ~job[active].skip

\* A wait of the handler ends no earlier than the slot.
WaitReachesSlot ==
    phase \in {"rescheduling", "waiting"} => job[active].slot <= wake

\* A rescheduled job comes back no earlier than its slot.
SkipReachesSlot ==
    \A j \in Job : job[j].skip =>
        \/ job[j].slot <= now
        \/ job[j].st = "delayed" /\ job[j].slot <= job[j].due

KeepInv ==
    /\ AskedBefore
    /\ WaitReachesSlot
    /\ SkipReachesSlot
    /\ SlotIsKept

\* The message of a handler that is about to complete its job was sent, or is somewhere else.
Elsewhere ==
    phase = "finishing" =>
        LET m == job[active].msg IN
        \/ times[m] > 0 \/ m \in refused \/ m \in dropped
        \/ \E j \in Job \ {active} : job[j].st # "none" /\ job[j].msg = m

AccountInv == Accounted /\ Elsewhere

\* The jobs that would send the message unless they are stopped or given up.
Sendable(m) ==
    {j \in Job : /\ job[j].st # "none" /\ job[j].msg = m
                 /\ ~(j = active /\ phase = "finishing")}

\* Nothing is queued or sent before it was handed over.
HandedFirst ==
    /\ \A j \in Job : job[j].st # "none" => job[j].msg \in handed
    /\ \A m \in Msg \ handed : times[m] = 0

\* What was sent and what could be sent, up to one more for each mishap.
OnceEach ==
    \A m \in Msg : /\ IsFiniteSet(Sendable(m))
                  /\ times[m] + Cardinality(Sendable(m)) <= 1 + mishaps

OnceInv == HandedFirst /\ OnceEach

IInv == TypeInv /\ SlotsInv /\ KeepInv /\ AccountInv /\ OnceInv

-----------------------------------------------------------------------------
(* Types *)

\* The record of an unused job is a job record, and asks for nothing.
LEMMA NoJobType == NoJob \in JobRecord /\ NoJob.st = "none" /\ NoJob.skip = FALSE
  BY BoundAssumption DEF NoJob, NewJob, JobRecord

\* A slot is a moment, and not before the one at which it was asked for.
LEMMA SlotType ==
    ASSUME TypeOK
    PROVE  Slot \in Nat /\ asked <= Slot /\ Wait \in Nat /\ (now < expires => next <= Slot)
  BY DEF TypeOK, Slot, Found, Wait

\* The variables have their types at the start.
LEMMA TypeInit == Init => TypeInv
  <1> SUFFICES ASSUME Init PROVE TypeInv
    OBVIOUS
  <1>1. job \in [Job -> JobRecord] /\ HasMessage
    BY NoJobType DEF Init, HasMessage
  <1>2. booked \in Seq([at : Nat, life : Nat])
    BY DEF Init
  <1>3. {now, next, expires, life, asked, wake, last, faults, mishaps} \subseteq Nat
    BY DEF Init
  <1>4. times \in [Msg -> Nat] /\ phase \in Phase /\ Handling
    BY DEF Init, Phase, Handling
  <1> QED
    BY <1>1, <1>2, <1>3, <1>4 DEF Init, TypeOK, TypeInv

\* What a job of the queue is made of.
LEMMA RecordFields ==
    ASSUME NEW r \in JobRecord
    PROVE  /\ r = [st |-> r.st, msg |-> r.msg, due |-> r.due, tries |-> r.tries,
                   skip |-> r.skip, stalled |-> r.stalled, slot |-> r.slot]
           /\ r.st \in {"none", "ready", "delayed", "active"}
           /\ r.msg \in Msg \cup {NULL}
           /\ r.due \in Nat
           /\ r.tries \in 0..MaxAttempts
           /\ r.skip \in BOOLEAN
           /\ r.stalled \in BOOLEAN
           /\ r.slot \in Nat
  BY DEF JobRecord

\* Replacing one job by one that has a message, or by none, keeps the queue in order.
LEMMA ReplaceJob ==
    ASSUME job \in [Job -> JobRecord], HasMessage, NEW j \in Job, NEW r \in JobRecord,
           r.st # "none" => r.msg \in Msg, job' = [job EXCEPT ![j] = r]
    PROVE  job' \in [Job -> JobRecord] /\ HasMessage'
  BY DEF HasMessage

\* Adding a job changes an unused record only.
LEMMA AddJobType ==
    ASSUME TypeOK, HasMessage, NEW rec \in JobRecord, rec.msg \in Msg, AddJob(rec)
    PROVE  /\ job' \in [Job -> JobRecord]
           /\ HasMessage'
           /\ \A k \in Job : job'[k] = job[k] \/ (job[k].st = "none" /\ job'[k] = rec)
           /\ refused' \subseteq Msg
           /\ faults' \in Nat
  <1>1. faults \in Nat /\ refused \subseteq Msg /\ job \in [Job -> JobRecord]
    BY DEF TypeOK
  <1>2. CASE /\ \E j \in Job : job[j].st = "none" /\ job' = [job EXCEPT ![j] = rec]
             /\ UNCHANGED <<refused, faults>>
    <2>1. PICK j \in Job : job[j].st = "none" /\ job' = [job EXCEPT ![j] = rec]
      BY <1>2
    <2>2. job' \in [Job -> JobRecord] /\ HasMessage'
      BY <1>1, <2>1, ReplaceJob
    <2> QED
      BY <1>1, <1>2, <2>1, <2>2
  <1>3. CASE Fault /\ refused' = refused \cup {rec.msg} /\ UNCHANGED job
    <2>1. faults' \in Nat
      BY <1>1, <1>3 DEF Fault
    <2> QED
      BY <1>1, <1>3, <2>1 DEF HasMessage
  <1> QED
    BY <1>2, <1>3 DEF AddJob

\* A failed attempt removes the job, or delays it and keeps what it carries.
LEMMA RetryType ==
    ASSUME TypeOK, HasMessage, NEW j \in Job, job[j].msg \in Msg, Retry(j)
    PROVE  /\ job' \in [Job -> JobRecord]
           /\ HasMessage'
           /\ \A k \in Job : k # j => job'[k] = job[k]
           /\ \/ job'[j] = NoJob
              \/ job'[j].skip = job[j].skip /\ job'[j].slot = job[j].slot
           /\ dropped' \subseteq Msg
           /\ active' = NULL /\ phase' = "idle" /\ asked' = 0 /\ wake' = 0
  <1>1. job \in [Job -> JobRecord] /\ job[j] \in JobRecord /\ now \in Nat /\ dropped \subseteq Msg
    BY DEF TypeOK
  <1>2. active' = NULL /\ phase' = "idle" /\ asked' = 0 /\ wake' = 0
    BY DEF Retry, Leave
  <1>3. CASE job[j].tries + 1 >= MaxAttempts
    <2>1. job' = [job EXCEPT ![j] = NoJob] /\ dropped' = dropped \cup {job[j].msg}
      BY <1>3 DEF Retry
    <2>2. NoJob.st = "none"
      BY NoJobType
    <2>3. job' \in [Job -> JobRecord] /\ HasMessage'
      BY <1>1, <2>1, <2>2, NoJobType, ReplaceJob
    <2> QED
      BY <1>1, <1>2, <2>1, <2>3
  <1>4. CASE ~(job[j].tries + 1 >= MaxAttempts)
    <2>1. MaxAttempts \in Nat /\ Backoff \in [1..MaxAttempts -> Nat]
      BY BoundAssumption
    <2>2. job[j].tries + 1 \in 1..MaxAttempts /\ job[j].tries + 1 \in 0..MaxAttempts
      BY <1>1, <1>4, <2>1 DEF JobRecord
    <2>3. Backoff[job[j].tries + 1] \in Nat
      BY <2>1, <2>2
    <2> DEFINE again == [st |-> "delayed", msg |-> job[j].msg,
                         due |-> now + Backoff[job[j].tries + 1],
                         tries |-> job[j].tries + 1, skip |-> job[j].skip,
                         stalled |-> job[j].stalled, slot |-> job[j].slot]
    <2>4. again \in JobRecord
      <3>1. now + Backoff[job[j].tries + 1] \in Nat
        BY <1>1, <2>3
      <3>2. /\ job[j].msg \in Msg \cup {NULL} /\ job[j].skip \in BOOLEAN
            /\ job[j].stalled \in BOOLEAN /\ job[j].slot \in Nat
        BY <1>1, RecordFields
      <3> QED
        BY <2>2, <3>1, <3>2 DEF JobRecord
    <2>5. job' = [job EXCEPT ![j] = again] /\ dropped' = dropped
      BY <1>1, <1>4 DEF Retry, JobRecord
    <2>6. again.msg = job[j].msg /\ again.skip = job[j].skip /\ again.slot = job[j].slot
      OBVIOUS
    <2> HIDE DEF again
    <2>7. job' \in [Job -> JobRecord] /\ HasMessage'
      BY <1>1, <2>4, <2>5, <2>6, ReplaceJob
    <2> QED
      BY <1>1, <1>2, <2>5, <2>6, <2>7
  <1> QED
    BY <1>3, <1>4

\* A busy handler has a job, with a message.
LEMMA ActiveJob ==
    ASSUME TypeInv, phase # "idle"
    PROVE  /\ active \in Job
           /\ job[active] \in JobRecord
           /\ job[active].st = "active"
           /\ job[active].msg \in Msg
  BY DEF TypeInv, TypeOK, HasMessage, Handling

\* Changing a job, but not its message, keeps the queue in order.
LEMMA UpdateJob ==
    ASSUME HasMessage, NEW j \in Job, job[j].st # "none",
           job'[j].msg = job[j].msg, \A k \in Job : k # j => job'[k] = job[k]
    PROVE  HasMessage'
  BY DEF HasMessage

\* Every step keeps the types, the messages of the jobs and the job of the handler.
LEMMA TypeNext == TypeInv /\ [Next]_vars => TypeInv'
  <1> SUFFICES ASSUME TypeInv, [Next]_vars PROVE TypeInv'
    OBVIOUS
  <1> USE DEF TypeInv
  <1>t. /\ now \in Nat /\ next \in Nat /\ expires \in Nat /\ life \in Nat /\ asked \in Nat
        /\ wake \in Nat /\ last \in Nat /\ faults \in Nat /\ mishaps \in Nat
        /\ booked \in Seq([at : Nat, life : Nat])
        /\ job \in [Job -> JobRecord]
        /\ active \in Job \cup {NULL}
        /\ phase \in Phase
        /\ handed \subseteq Msg /\ refused \subseteq Msg /\ dropped \subseteq Msg
        /\ times \in [Msg -> Nat]
    BY DEF TypeOK
  <1>1. CASE UNCHANGED vars
    BY <1>1 DEF vars, keyVars, handlerVars, sentVars, boundVars, TypeOK, HasMessage, Handling
  <1>2. CASE Tick
    <2>1. now' \in Nat
      BY <1>2, <1>t DEF Tick
    <2> QED
      BY <1>2, <2>1 DEF Tick, keyVars, handlerVars, sentVars, boundVars, TypeOK, HasMessage,
                        Handling
  <1>3. ASSUME NEW m \in Msg, SendMessage(m) PROVE TypeInv'
    <2> DEFINE rec == NewJob("ready", m, 0, FALSE, 0)
    <2>1. rec \in JobRecord /\ rec.msg \in Msg
      BY BoundAssumption DEF NewJob, JobRecord
    <2>2. AddJob(rec)
      BY <1>3 DEF SendMessage
    <2> HIDE DEF rec
    <2>3. /\ job' \in [Job -> JobRecord] /\ HasMessage'
          /\ \A k \in Job : job'[k] = job[k] \/ job[k].st = "none"
          /\ refused' \subseteq Msg /\ faults' \in Nat
      BY <2>1, <2>2, AddJobType
    <2>4. Handling'
      BY <1>3, <2>3 DEF SendMessage, handlerVars, Handling
    <2>5. handed' \subseteq Msg
      BY <1>3, <1>t DEF SendMessage
    <2> QED
      BY <1>3, <1>t, <2>3, <2>4, <2>5 DEF SendMessage, keyVars, handlerVars, sentVars, TypeOK
  <1>4. ASSUME NEW j \in Job, Promote(j) PROVE TypeInv'
    <2>1. job' = [job EXCEPT ![j].st = "ready", ![j].due = 0] /\ job[j].st = "delayed"
      BY <1>4 DEF Promote
    <2>2. job' \in [Job -> JobRecord] /\ job'[j].msg = job[j].msg
      <3>1. job \in [Job -> JobRecord] /\ job[j] \in JobRecord
        BY <1>t
      <3> QED
        BY <2>1, <3>1 DEF JobRecord
    <2>3. HasMessage' /\ \A k \in Job : k # j => job'[k] = job[k]
      BY <1>t, <2>1, <2>2, UpdateJob
    <2>4. Handling'
      BY <1>4, <1>t, <2>1, <2>3 DEF Promote, handlerVars, Handling
    <2> QED
      BY <1>4, <1>t, <2>2, <2>3, <2>4 DEF Promote, keyVars, handlerVars, sentVars, boundVars, TypeOK
  <1>5. CASE Purge
    <2>1. PICK gone \in SUBSET Purgeable :
              /\ faults' = faults \/ Fault
              /\ job' = [j \in Job |-> IF j \in gone THEN NoJob ELSE job[j]]
              /\ dropped' = dropped \cup {job[j].msg : j \in gone}
              /\ UNCHANGED <<now, keyVars, handlerVars, handed, refused, sentVars, mishaps>>
      BY <1>5 DEF Purge
    <2>2. \A j \in gone : j \in Job /\ job[j].msg \in Msg /\ job[j].st # "active"
      BY DEF Purgeable, HasMessage
    <2>3. job' \in [Job -> JobRecord] /\ HasMessage'
      BY <1>t, <2>1, NoJobType DEF HasMessage
    <2>4. Handling'
      BY <2>1, <2>2 DEF handlerVars, Handling
    <2>5. dropped' \subseteq Msg
      BY <1>t, <2>1, <2>2
    <2>6. faults' \in Nat
      BY <1>t, <2>1 DEF Fault
    <2> QED
      BY <1>t, <2>1, <2>3, <2>4, <2>5, <2>6 DEF keyVars, handlerVars, sentVars, TypeOK
  <1>6. ASSUME NEW j \in Job, Take(j) PROVE TypeInv'
    <2>1. job' = [job EXCEPT ![j].st = "active"] /\ job[j].st = "ready"
      BY <1>6 DEF Take
    <2>2. /\ job' \in [Job -> JobRecord]
          /\ job'[j].msg = job[j].msg /\ job'[j].st = "active"
      <3>1. job \in [Job -> JobRecord] /\ job[j] \in JobRecord
        BY <1>t
      <3> QED
        BY <2>1, <3>1 DEF JobRecord
    <2>3. HasMessage'
      BY <1>t, <2>1, <2>2, UpdateJob
    <2>4. Handling'
      BY <1>6, <2>2 DEF Take, StartTyping, Handling
    <2>5. phase' \in Phase /\ asked' \in Nat /\ wake' \in Nat /\ active' \in Job
      <3>1. MinTyping \in Nat /\ MaxTyping \in Nat
        BY BoundAssumption
      <3>2. CASE job[j].skip
        BY <1>6, <1>t, <3>1, <3>2 DEF Take, StartTyping, Phase
      <3>3. CASE ~job[j].skip
        BY <1>6, <1>t, <3>3 DEF Take, Phase
      <3> QED
        BY <3>2, <3>3
    <2> QED
      BY <1>6, <1>t, <2>2, <2>3, <2>4, <2>5 DEF Take, keyVars, sentVars, boundVars, TypeOK
  <1>7. ASSUME NEW j \in Job, AdapterMissing(j) PROVE TypeInv'
    <2>1. job[j].msg \in Msg
      BY <1>7 DEF AdapterMissing, HasMessage
    <2>2. Retry(j) /\ Fault
      BY <1>7 DEF AdapterMissing
    <2>3. /\ job' \in [Job -> JobRecord] /\ HasMessage' /\ dropped' \subseteq Msg
          /\ active' = NULL /\ phase' = "idle" /\ asked' = 0 /\ wake' = 0
      BY <2>1, <2>2, RetryType
    <2>4. faults' \in Nat
      BY <1>t, <2>2 DEF Fault
    <2> QED
      BY <1>7, <1>t, <2>3, <2>4 DEF AdapterMissing, keyVars, sentVars, TypeOK, Handling, Phase
  <1>8. CASE Reserve
    <2>1. PICK delay \in MinDelay..MaxDelay : Book(delay)
      BY <1>8 DEF Reserve
    <2>2. Slot \in Nat /\ Wait \in Nat /\ delay \in Nat
      BY SlotType, BoundAssumption
    <2>3. phase # "idle"
      BY <1>8 DEF Reserve
    <2>4. /\ active \in Job /\ job[active] \in JobRecord /\ job[active].st = "active"
      BY <2>3, ActiveJob
    <2>5. job' = [job EXCEPT ![active].slot = Slot]
      BY <1>8 DEF Reserve
    <2>6. /\ job' \in [Job -> JobRecord]
          /\ job'[active].msg = job[active].msg /\ job'[active].st = "active"
      <3>1. job \in [Job -> JobRecord]
        BY <1>t
      <3> QED
        BY <2>2, <2>4, <2>5, <3>1 DEF JobRecord
    <2>7. HasMessage'
      BY <1>t, <2>4, <2>5, <2>6, UpdateJob
    <2>8. Handling'
      BY <1>8, <2>4, <2>6 DEF Reserve, Handling
    <2>9. next' \in Nat /\ expires' \in Nat /\ life' \in Nat
      BY <1>t, <2>1, <2>2, BoundAssumption DEF Book
    <2>10. booked' \in Seq([at : Nat, life : Nat])
      BY <1>t, <2>1, <2>2, <2>9 DEF Book
    <2>11. wake' \in Nat /\ phase' \in Phase /\ asked' = 0
      BY <1>8, <1>t, <2>2 DEF Reserve, Phase
    <2> QED
      BY <1>8, <1>t, <2>6, <2>7, <2>8, <2>9, <2>10, <2>11 DEF Reserve, sentVars, boundVars, TypeOK
  <1>9. CASE ReserveFails
    <2>1. phase # "idle"
      BY <1>9 DEF ReserveFails
    <2>2. active \in Job /\ job[active] \in JobRecord /\ job[active].st = "active"
      BY <2>1, ActiveJob
    <2>3. job' = [job EXCEPT ![active].slot = 0]
      BY <1>9 DEF ReserveFails
    <2>4. /\ job' \in [Job -> JobRecord]
          /\ job'[active].msg = job[active].msg /\ job'[active].st = "active"
      <3>1. job \in [Job -> JobRecord]
        BY <1>t
      <3> QED
        BY <2>2, <2>3, <3>1 DEF JobRecord
    <2>5. HasMessage'
      BY <1>t, <2>2, <2>3, <2>4, UpdateJob
    <2>6. Handling'
      BY <1>9, <2>2, <2>4 DEF ReserveFails, Handling
    <2>7. faults' \in Nat /\ phase' \in Phase
      BY <1>9, <1>t DEF ReserveFails, Fault, Phase
    <2> QED
      BY <1>9, <1>t, <2>4, <2>5, <2>6, <2>7 DEF ReserveFails, keyVars, sentVars, TypeOK
  <1>10. CASE Reschedule
    <2>1. phase # "idle"
      BY <1>10 DEF Reschedule
    <2>2. /\ active \in Job /\ job[active] \in JobRecord /\ job[active].st = "active"
          /\ job[active].msg \in Msg
      BY <2>1, ActiveJob
    <2> DEFINE rec == NewJob("delayed", job[active].msg, wake, TRUE, job[active].slot)
    <2>3. rec \in JobRecord /\ rec.msg \in Msg
      <3>1. job[active].slot \in Nat
        BY <2>2, RecordFields
      <3> QED
        BY <1>t, <2>2, <3>1, BoundAssumption DEF NewJob, JobRecord
    <2>4. AddJob(rec)
      BY <1>10 DEF Reschedule
    <2> HIDE DEF rec
    <2>5. /\ job' \in [Job -> JobRecord] /\ HasMessage'
          /\ \A k \in Job : job'[k] = job[k] \/ job[k].st = "none"
          /\ refused' \subseteq Msg /\ faults' \in Nat
      BY <2>3, <2>4, AddJobType
    <2>6. Handling'
      BY <1>10, <2>2, <2>5 DEF Reschedule, Handling
    <2> QED
      BY <1>10, <1>t, <2>5, <2>6 DEF Reschedule, keyVars, sentVars, TypeOK, Phase
  <1>11. CASE WaitEnds
    <2>1. wake' \in Nat /\ phase' \in Phase /\ phase # "idle"
      BY <1>11, <1>t, BoundAssumption DEF WaitEnds, StartTyping, Phase
    <2> QED
      BY <1>11, <1>t, <2>1 DEF WaitEnds, StartTyping, keyVars, sentVars, boundVars, TypeOK, HasMessage,
                               Handling
  <1>12. CASE Dispatch
    <2>1. phase # "idle" /\ phase' \in Phase
      BY <1>12 DEF Dispatch, Phase
    <2>2. times' \in [Msg -> Nat] /\ last' \in Nat
      BY <1>12, <1>t, <2>1, ActiveJob DEF Dispatch, Sent
    <2> QED
      BY <1>12, <1>t, <2>1, <2>2 DEF Dispatch, keyVars, boundVars, TypeOK, HasMessage, Handling
  <1>13. CASE DispatchFails
    <2>1. phase # "idle" /\ Retry(active)
      BY <1>13 DEF DispatchFails
    <2>2. active \in Job /\ job[active].msg \in Msg
      BY <2>1, ActiveJob
    <2>3. /\ job' \in [Job -> JobRecord] /\ HasMessage' /\ dropped' \subseteq Msg
          /\ active' = NULL /\ phase' = "idle" /\ asked' = 0 /\ wake' = 0
      BY <2>1, <2>2, RetryType
    <2>4. /\ times' \in [Msg -> Nat] /\ last' \in Nat
          /\ faults' \in Nat /\ mishaps' \in Nat
      BY <1>13, <1>t, <2>2 DEF DispatchFails, Sent, Fault, Mishap, sentVars
    <2> QED
      BY <1>13, <1>t, <2>3, <2>4 DEF DispatchFails, keyVars, TypeOK, Handling, Phase
  <1>14. CASE Finish
    <2>1. phase # "idle" /\ job' = [job EXCEPT ![active] = NoJob] /\ NoJob.st = "none"
      BY <1>14, NoJobType DEF Finish
    <2>2. job' \in [Job -> JobRecord] /\ HasMessage'
      BY <1>t, <2>1, ActiveJob, NoJobType, ReplaceJob
    <2> QED
      BY <1>14, <1>t, <2>2 DEF Finish, Leave, keyVars, sentVars, boundVars, TypeOK, Handling,
                               Phase
  <1>15. CASE Crash
    <2>1. /\ active \in Job /\ mishaps' \in Nat
          /\ active' = NULL /\ phase' = "idle" /\ asked' = 0 /\ wake' = 0
      BY <1>15, <1>t DEF Crash, Leave, Mishap
    <2>2. phase # "idle"
      BY <1>15 DEF Crash, Handling
    <2>3. /\ job[active] \in JobRecord /\ job[active].st = "active"
          /\ job[active].msg \in Msg
      BY <2>2, ActiveJob
    <2>4. job' \in [Job -> JobRecord] /\ HasMessage' /\ dropped' \subseteq Msg
      <3>1. CASE job[active].stalled
        <4>1. /\ job' = [job EXCEPT ![active] = NoJob]
              /\ dropped' = dropped \cup {job[active].msg}
          BY <1>15, <3>1 DEF Crash
        <4>2. NoJob.st = "none"
          BY NoJobType
        <4> QED
          BY <1>t, <2>1, <2>3, <4>1, <4>2, NoJobType, ReplaceJob
      <3>2. CASE ~job[active].stalled
        <4>1. job' = [job EXCEPT ![active].st = "ready", ![active].stalled = TRUE]
              /\ dropped' = dropped
          BY <1>15, <3>2 DEF Crash
        <4>2. job' \in [Job -> JobRecord] /\ job'[active].msg = job[active].msg
          <5>1. job \in [Job -> JobRecord]
            BY <1>t
          <5> QED
            BY <2>1, <2>3, <4>1, <5>1 DEF JobRecord
        <4> QED
          BY <1>t, <2>1, <2>3, <4>1, <4>2, UpdateJob
      <3> QED
        BY <3>1, <3>2
    <2> QED
      BY <1>15, <1>t, <2>1, <2>4 DEF Crash, keyVars, sentVars, TypeOK, Handling, Phase
  <1> QED
    BY <1>1, <1>2, <1>3, <1>4, <1>5, <1>6, <1>7, <1>8, <1>9, <1>10, <1>11, <1>12, <1>13,
       <1>14, <1>15 DEF Next

\* In every reachable state the variables have their types.
THEOREM TypeCorrect == Spec => []TypeOK
  <1>1. TypeInv => TypeOK
    BY DEF TypeInv
  <1> QED
    BY <1>1, TypeInit, TypeNext, PTL DEF Spec

-----------------------------------------------------------------------------
(* The spacing of the slots *)

\* Only Book touches the key and the slots, and only in Reserve.
LEMMA KeyUntouched ==
    ASSUME [Next]_vars, ~Reserve
    PROVE  UNCHANGED <<next, life, booked>>
  BY DEF Next, vars, keyVars, Tick, SendMessage, Promote, Purge, Take, AdapterMissing,
         ReserveFails, Reschedule, WaitEnds, Dispatch, DispatchFails, Finish, Crash

\* A new slot lies behind all those of the same life of the key.
LEMMA BookApart ==
    ASSUME TypeOK, SlotsInv, NEW delay \in MinDelay..MaxDelay, Book(delay)
    PROVE  SlotsInv'
  <1>1. /\ now \in Nat /\ next \in Nat /\ expires \in Nat /\ life \in Nat
        /\ booked \in Seq([at : Nat, life : Nat])
    BY DEF TypeOK
  <1>2. Slot \in Nat /\ (now < expires => next <= Slot)
    BY SlotType
  <1>3. MinDelay \in Nat /\ MaxDelay \in Nat /\ delay \in Nat /\ MinDelay <= delay
    BY BoundAssumption
  <1>4. /\ next' = Slot + delay
        /\ life' = IF now < expires THEN life ELSE life + 1
        /\ booked' = Append(booked, [at |-> Slot, life |-> life'])
    BY DEF Book
  <1> DEFINE n == Len(booked)
  <1>5. n \in Nat /\ life' \in Nat /\ life <= life' /\ next' \in Nat
    BY <1>1, <1>2, <1>3, <1>4
  <1>6. /\ DOMAIN booked = 1..n /\ DOMAIN booked' = 1..(n + 1)
        /\ booked'[n + 1] = [at |-> Slot, life |-> life']
        /\ \A i \in 1..n : booked'[i] = booked[i] /\ booked[i] \in [at : Nat, life : Nat]
    <2> DEFINE slot == [at |-> Slot, life |-> life']
    <2>1. slot \in [at : Nat, life : Nat]
      BY <1>2, <1>5
    <2>2. booked' = Append(booked, slot)
      BY <1>4
    <2> HIDE DEF slot
    <2>3. /\ DOMAIN booked = 1..n /\ DOMAIN booked' = 1..(n + 1)
          /\ booked'[n + 1] = slot
          /\ \A i \in 1..n : booked'[i] = booked[i] /\ booked[i] \in [at : Nat, life : Nat]
      <3>1. Len(booked') = n + 1
        BY <1>1, <2>1, <2>2, AppendProperties
      <3>2. /\ booked'[n + 1] = slot
            /\ \A i \in 1..n : booked'[i] = booked[i]
        BY <1>1, <2>1, <2>2, AppendProperties
      <3>3. booked' \in Seq([at : Nat, life : Nat])
        BY <1>1, <2>1, <2>2, AppendProperties
      <3>4. /\ DOMAIN booked = 1..n /\ DOMAIN booked' = 1..(n + 1)
            /\ \A i \in 1..n : booked[i] \in [at : Nat, life : Nat]
        BY <1>1, <3>1, <3>3, LenProperties, ElementOfSeq
      <3> QED
        BY <3>2, <3>4
    <2> QED
      BY <2>3 DEF slot
  <1> HIDE DEF n
  <1>7. \A i \in 1..n : /\ booked[i].at \in Nat /\ booked[i].life \in Nat
                        /\ booked[i].life <= life
                        /\ booked[i].life = life => booked[i].at + MinDelay <= next
    BY <1>6 DEF SlotsInv, SlotsBehindNext
  <1>8. \A i \in 1..n : booked[i].life = life' => /\ now < expires
                                                  /\ booked[i].at + MinDelay <= Slot
    <2> SUFFICES ASSUME NEW i \in 1..n, booked[i].life = life'
                 PROVE  now < expires /\ booked[i].at + MinDelay <= Slot
      OBVIOUS
    <2>1. CASE now < expires
      BY <1>1, <1>2, <1>3, <1>4, <1>7, <2>1
    <2>2. CASE ~(now < expires)
      <3>1. booked[i].life \in Nat /\ booked[i].life <= life
        BY <1>7
      <3>2. life' = life + 1
        BY <1>4, <2>2
      <3> QED
        BY <1>1, <3>1, <3>2
    <2> QED
      BY <2>1, <2>2
  <1>9. SlotsBehindNext'
    <2> SUFFICES ASSUME NEW i \in 1..(n + 1)
                 PROVE  /\ booked'[i].life <= life'
                        /\ booked'[i].life = life' => booked'[i].at + MinDelay <= next'
      BY <1>6 DEF SlotsBehindNext
    <2>1. CASE i = n + 1
      BY <1>2, <1>3, <1>4, <1>5, <1>6, <2>1
    <2>2. CASE i # n + 1
      <3>1. i \in 1..n
        BY <1>5, <2>2
      <3> QED
        BY <1>1, <1>2, <1>3, <1>4, <1>5, <1>6, <1>7, <1>8, <3>1
    <2> QED
      BY <2>1, <2>2
  <1>10. SlotsApart'
    <2> SUFFICES ASSUME NEW i \in 1..(n + 1), NEW k \in 1..(n + 1), i < k,
                        booked'[i].life = booked'[k].life
                 PROVE  booked'[i].at + MinDelay <= booked'[k].at
      BY <1>6 DEF SlotsApart
    <2>1. i \in 1..n
      BY <1>5
    <2>2. CASE k = n + 1
      BY <1>6, <1>8, <2>1, <2>2
    <2>3. CASE k # n + 1
      <3>1. k \in 1..n
        BY <1>5, <2>3
      <3> QED
        BY <1>6, <2>1, <3>1 DEF SlotsInv, SlotsApart
    <2> QED
      BY <2>2, <2>3
  <1> QED
    BY <1>9, <1>10 DEF SlotsInv

\* Slots booked under one life of the key stay MinDelay apart in every reachable state.
THEOREM SlotsApartCorrect == Spec => []SlotsApart
  <1>1. Init => SlotsInv
    BY DEF Init, SlotsInv, SlotsBehindNext, SlotsApart
  <1>2. TypeInv /\ SlotsInv /\ [Next]_vars => SlotsInv'
    <2> SUFFICES ASSUME TypeInv, SlotsInv, [Next]_vars PROVE SlotsInv'
      OBVIOUS
    <2>1. CASE Reserve
      BY <2>1, BookApart DEF Reserve, TypeInv
    <2>2. CASE ~Reserve
      BY <2>2, KeyUntouched DEF SlotsInv, SlotsBehindNext, SlotsApart
    <2> QED
      BY <2>1, <2>2
  <1>3. SlotsInv => SlotsApart
    BY DEF SlotsInv
  <1> QED
    BY <1>1, <1>2, <1>3, TypeInit, TypeNext, PTL DEF Spec

-----------------------------------------------------------------------------
(* No message before its slot *)

\* Jobs that are unchanged, or new without a slot, keep their slots reachable.
LEMMA SkipKept ==
    ASSUME SkipReachesSlot, now \in Nat, now' = now,
           \A k \in Job : \/ job'[k] = job[k]
                          \/ job'[k].skip = FALSE
                          \/ job'[k].slot <= now
                          \/ job'[k].st = "delayed" /\ job'[k].slot <= job'[k].due
    PROVE  SkipReachesSlot'
  BY DEF SkipReachesSlot

\* A handler that has left, and one that just got its job, promises nothing yet.
LEMMA IdleKeeps ==
    ASSUME phase' = "idle", asked' = 0, now' \in Nat
    PROVE  AskedBefore' /\ WaitReachesSlot' /\ SlotIsKept'
  BY DEF AskedBefore, WaitReachesSlot, SlotIsKept

\* Every step keeps the slot of every job ahead of its message.
LEMMA KeepNext == TypeInv /\ KeepInv /\ [Next]_vars => KeepInv'
  <1> SUFFICES ASSUME TypeInv, KeepInv, [Next]_vars PROVE KeepInv'
    OBVIOUS
  <1>t. /\ now \in Nat /\ next \in Nat /\ asked \in Nat /\ wake \in Nat
        /\ job \in [Job -> JobRecord] /\ \A j \in Job : job[j] \in JobRecord
        /\ TypeOK /\ HasMessage /\ Handling
    BY DEF TypeInv, TypeOK
  <1>f. \A j \in Job : /\ job[j].slot \in Nat /\ job[j].due \in Nat
                       /\ job[j].skip \in BOOLEAN
    BY <1>t, RecordFields
  <1>k. AskedBefore /\ WaitReachesSlot /\ SkipReachesSlot /\ SlotIsKept
    BY DEF KeepInv
  <1>a. phase # "idle" => active \in Job /\ job[active].st = "active"
    BY <1>t DEF Handling
  <1>1. CASE UNCHANGED vars
    BY <1>1, <1>k DEF vars, keyVars, handlerVars, sentVars, boundVars, KeepInv, AskedBefore,
                      WaitReachesSlot, SkipReachesSlot, SlotIsKept
  <1>2. CASE Tick
    <2>1. now' = now + 1 /\ UNCHANGED <<job, active, phase, asked, wake>>
      BY <1>2 DEF Tick, handlerVars
    <2>2. SkipReachesSlot'
      BY <1>t, <1>f, <1>k, <2>1 DEF SkipReachesSlot
    <2>3. AskedBefore' /\ WaitReachesSlot'
      BY <1>t, <1>k, <2>1 DEF AskedBefore, WaitReachesSlot
    <2>4. SlotIsKept'
      BY <1>t, <1>f, <1>k, <1>a, <2>1 DEF SlotIsKept
    <2> QED
      BY <2>2, <2>3, <2>4 DEF KeepInv
  <1>3. ASSUME NEW m \in Msg, SendMessage(m) PROVE KeepInv'
    <2> DEFINE rec == NewJob("ready", m, 0, FALSE, 0)
    <2>1. rec \in JobRecord /\ rec.msg \in Msg /\ rec.skip = FALSE
      BY BoundAssumption DEF NewJob, JobRecord
    <2>2. AddJob(rec) /\ UNCHANGED <<now, active, phase, asked, wake>>
      BY <1>3 DEF SendMessage, handlerVars
    <2> HIDE DEF rec
    <2>3. \A k \in Job : job'[k] = job[k] \/ (job[k].st = "none" /\ job'[k] = rec)
      BY <1>t, <2>1, <2>2, AddJobType
    <2>4. SkipReachesSlot'
      BY <1>t, <1>k, <2>1, <2>2, <2>3, SkipKept
    <2>5. phase # "idle" => job'[active] = job[active]
      BY <1>a, <2>3
    <2> QED
      BY <1>k, <2>2, <2>4, <2>5 DEF KeepInv, AskedBefore, WaitReachesSlot, SlotIsKept
  <1>4. ASSUME NEW j \in Job, Promote(j) PROVE KeepInv'
    <2>1. /\ job[j].st = "delayed" /\ job[j].due <= now
          /\ job' = [job EXCEPT ![j].st = "ready", ![j].due = 0]
          /\ UNCHANGED <<now, active, phase, asked, wake>>
      BY <1>4 DEF Promote, handlerVars
    <2>2. job'[j].slot = job[j].slot /\ job'[j].skip = job[j].skip
      BY <1>t, <2>1 DEF JobRecord
    <2>3. \A k \in Job : k # j => job'[k] = job[k]
      BY <1>t, <2>1
    <2>4. job[j].skip => job[j].slot <= now
      BY <1>t, <1>f, <1>k, <2>1 DEF SkipReachesSlot
    <2>5. SkipReachesSlot'
      BY <1>f, <1>t, <1>k, <2>1, <2>2, <2>3, <2>4, SkipKept
    <2>6. phase # "idle" => job'[active] = job[active]
      BY <1>a, <2>1, <2>3
    <2> QED
      BY <1>k, <2>1, <2>5, <2>6 DEF KeepInv, AskedBefore, WaitReachesSlot, SlotIsKept
  <1>5. CASE Purge
    <2>1. PICK gone \in SUBSET Purgeable :
              /\ job' = [j \in Job |-> IF j \in gone THEN NoJob ELSE job[j]]
              /\ UNCHANGED <<now, active, phase, asked, wake>>
      BY <1>5 DEF Purge, handlerVars
    <2>2. \A j \in gone : j \in Job /\ job[j].st # "active"
      BY DEF Purgeable
    <2>3. SkipReachesSlot'
      BY <1>t, <1>k, <2>1, NoJobType, SkipKept
    <2>4. phase # "idle" => job'[active] = job[active]
      BY <1>a, <2>1, <2>2
    <2> QED
      BY <1>k, <2>1, <2>3, <2>4 DEF KeepInv, AskedBefore, WaitReachesSlot, SlotIsKept
  <1>6. ASSUME NEW j \in Job, Take(j) PROVE KeepInv'
    <2>1. /\ job[j].st = "ready" /\ job' = [job EXCEPT ![j].st = "active"]
          /\ active' = j /\ now' = now
      BY <1>6 DEF Take
    <2>2. job'[j].slot = job[j].slot /\ job'[j].skip = job[j].skip
      BY <1>t, <2>1 DEF JobRecord
    <2>3. \A k \in Job : k # j => job'[k] = job[k]
      BY <1>t, <2>1
    <2>4. job[j].skip => job[j].slot <= now
      BY <1>k, <2>1 DEF SkipReachesSlot
    <2>5. SkipReachesSlot'
      BY <1>f, <1>t, <1>k, <2>1, <2>2, <2>3, <2>4, SkipKept
    <2>6. CASE job[j].skip
      <3>1. phase' = "typing" /\ asked' = asked
        BY <1>6, <2>6 DEF Take, StartTyping
      <3> QED
        BY <1>k, <2>1, <2>2, <2>4, <2>5, <2>6, <3>1
           DEF KeepInv, AskedBefore, WaitReachesSlot, SlotIsKept
    <2>7. CASE ~job[j].skip
      <3>1. phase' = "booking" /\ asked' = now
        BY <1>6, <2>7 DEF Take
      <3> QED
        BY <1>t, <2>1, <2>2, <2>5, <2>7, <3>1
           DEF KeepInv, AskedBefore, WaitReachesSlot, SlotIsKept
    <2> QED
      BY <2>6, <2>7
  <1>7. ASSUME NEW j \in Job, AdapterMissing(j) PROVE KeepInv'
    <2>1. Retry(j) /\ now' = now /\ job[j].st = "ready"
      BY <1>7 DEF AdapterMissing
    <2>2. job[j].msg \in Msg
      BY <1>t, <2>1 DEF HasMessage
    <2>3. /\ \A k \in Job : k # j => job'[k] = job[k]
          /\ job'[j] = NoJob \/ (job'[j].skip = job[j].skip /\ job'[j].slot = job[j].slot)
          /\ phase' = "idle" /\ asked' = 0
      BY <1>t, <2>1, <2>2, RetryType
    <2>4. job[j].skip => job[j].slot <= now
      BY <1>k, <2>1 DEF SkipReachesSlot
    <2>5. SkipReachesSlot'
      BY <1>f, <1>t, <1>k, <2>1, <2>3, <2>4, NoJobType, SkipKept
    <2> QED
      BY <1>t, <2>1, <2>3, <2>5, IdleKeeps DEF KeepInv
  <1>8. CASE Reserve
    <2>1. /\ phase = "booking" /\ job' = [job EXCEPT ![active].slot = Slot]
          /\ wake' = now + Wait /\ asked' = 0 /\ active' = active /\ now' = now
          /\ phase' \in {"rescheduling", "waiting"}
      BY <1>8 DEF Reserve
    <2>2. active \in Job
      BY <1>a, <2>1
    <2>3. /\ Slot \in Nat /\ Wait \in Nat /\ Wait = Slot - asked /\ asked <= now
          /\ job[active].skip = FALSE
      BY <1>t, <1>f, <1>k, <2>1, <2>2, SlotType DEF AskedBefore, Wait
    <2>4. Slot <= now + Wait
      BY <1>t, <2>3
    <2>5. job'[active].slot = Slot /\ job'[active].skip = FALSE
      BY <1>t, <2>1, <2>2, <2>3 DEF JobRecord
    <2>6. \A k \in Job : k # active => job'[k] = job[k]
      BY <1>t, <2>1
    <2>7. SkipReachesSlot'
      BY <1>t, <1>k, <2>1, <2>5, <2>6, SkipKept
    <2> QED
      BY <1>t, <2>1, <2>4, <2>5, <2>7 DEF KeepInv, AskedBefore, WaitReachesSlot, SlotIsKept
  <1>9. CASE ReserveFails
    <2>1. /\ phase = "booking" /\ job' = [job EXCEPT ![active].slot = 0]
          /\ wake' = now /\ asked' = 0 /\ active' = active /\ now' = now
          /\ phase' = "waiting"
      BY <1>9 DEF ReserveFails
    <2>2. active \in Job
      BY <1>a, <2>1
    <2>3. job[active].skip = FALSE
      BY <1>f, <1>k, <2>1, <2>2 DEF AskedBefore
    <2>4. job'[active].slot = 0 /\ job'[active].skip = FALSE
      BY <1>t, <2>1, <2>2, <2>3 DEF JobRecord
    <2>5. \A k \in Job : k # active => job'[k] = job[k]
      BY <1>t, <2>1
    <2>6. SkipReachesSlot'
      BY <1>t, <1>k, <2>1, <2>4, <2>5, SkipKept
    <2> QED
      BY <1>t, <2>1, <2>4, <2>6 DEF KeepInv, AskedBefore, WaitReachesSlot, SlotIsKept
  <1>10. CASE Reschedule
    <2>1. /\ phase = "rescheduling" /\ phase' = "finishing"
          /\ UNCHANGED <<now, active, asked, wake>>
      BY <1>10 DEF Reschedule
    <2>2. /\ active \in Job /\ job[active].msg \in Msg /\ job[active].slot \in Nat
          /\ job[active].slot <= wake
      BY <1>t, <1>f, <1>k, <1>a, <2>1 DEF HasMessage, WaitReachesSlot
    <2> DEFINE rec == NewJob("delayed", job[active].msg, wake, TRUE, job[active].slot)
    <2>3. /\ rec \in JobRecord /\ rec.msg \in Msg
          /\ rec.st = "delayed" /\ rec.slot <= rec.due
      BY <1>t, <2>2, BoundAssumption DEF NewJob, JobRecord
    <2>4. AddJob(rec)
      BY <1>10 DEF Reschedule
    <2> HIDE DEF rec
    <2>5. \A k \in Job : job'[k] = job[k] \/ job'[k] = rec
      BY <1>t, <2>3, <2>4, AddJobType
    <2>6. SkipReachesSlot'
      BY <1>t, <1>k, <2>1, <2>3, <2>5, SkipKept
    <2> QED
      BY <1>k, <2>1, <2>6 DEF KeepInv, AskedBefore, WaitReachesSlot, SlotIsKept
  <1>11. CASE WaitEnds
    <2>1. /\ phase = "waiting" /\ wake <= now /\ phase' = "typing"
          /\ UNCHANGED <<now, job, active, asked>>
      BY <1>11 DEF WaitEnds, StartTyping
    <2>2. active \in Job /\ job[active].slot <= wake
      BY <1>k, <1>a, <2>1 DEF WaitReachesSlot
    <2>3. job[active].slot <= now
      BY <1>t, <1>f, <2>1, <2>2
    <2> QED
      BY <1>k, <2>1, <2>3 DEF KeepInv, AskedBefore, WaitReachesSlot, SkipReachesSlot,
                              SlotIsKept
  <1>12. CASE Dispatch
    <2>1. phase' = "finishing" /\ UNCHANGED <<now, job, active, asked, wake>>
      BY <1>12 DEF Dispatch
    <2> QED
      BY <1>k, <2>1 DEF KeepInv, AskedBefore, WaitReachesSlot, SkipReachesSlot, SlotIsKept
  <1>13. CASE DispatchFails
    <2>1. phase = "typing" /\ Retry(active) /\ now' = now
      BY <1>13 DEF DispatchFails
    <2>2. active \in Job /\ job[active].msg \in Msg /\ job[active].slot <= now
      BY <1>t, <1>k, <1>a, <2>1 DEF HasMessage, SlotIsKept
    <2>3. /\ \A k \in Job : k # active => job'[k] = job[k]
          /\ job'[active] = NoJob \/ job'[active].slot = job[active].slot
          /\ phase' = "idle" /\ asked' = 0
      BY <1>t, <2>1, <2>2, RetryType
    <2>4. SkipReachesSlot'
      BY <1>t, <1>k, <2>1, <2>2, <2>3, NoJobType, SkipKept
    <2> QED
      BY <1>t, <2>1, <2>3, <2>4, IdleKeeps DEF KeepInv
  <1>14. CASE Finish
    <2>1. /\ job' = [job EXCEPT ![active] = NoJob] /\ now' = now
          /\ phase' = "idle" /\ asked' = 0
      BY <1>14 DEF Finish, Leave
    <2>2. \A k \in Job : job'[k] = job[k] \/ job'[k] = NoJob
      BY <1>t, <2>1
    <2>3. SkipReachesSlot'
      BY <1>t, <1>k, <2>1, <2>2, NoJobType, SkipKept
    <2> QED
      BY <1>t, <2>1, <2>3, IdleKeeps DEF KeepInv
  <1>15. CASE Crash
    <2>1. active # NULL /\ now' = now /\ phase' = "idle" /\ asked' = 0
      BY <1>15 DEF Crash, Leave
    <2>2. active \in Job /\ job[active].st = "active"
      BY <1>t, <2>1 DEF Handling
    <2>3. job[active].skip => job[active].slot <= now
      BY <1>k, <2>2 DEF SkipReachesSlot
    <2>4. /\ \A k \in Job : k # active => job'[k] = job[k]
          /\ \/ job'[active] = NoJob
             \/ job'[active].skip = job[active].skip /\ job'[active].slot = job[active].slot
      <3>1. CASE job[active].stalled
        BY <1>15, <1>t, <2>2, <3>1 DEF Crash
      <3>2. CASE ~job[active].stalled
        <4>1. job' = [job EXCEPT ![active].st = "ready", ![active].stalled = TRUE]
          BY <1>15, <3>2 DEF Crash
        <4> QED
          BY <1>t, <2>2, <4>1 DEF JobRecord
      <3> QED
        BY <3>1, <3>2
    <2>5. SkipReachesSlot'
      BY <1>t, <1>f, <1>k, <2>1, <2>2, <2>3, <2>4, NoJobType, SkipKept
    <2> QED
      BY <1>t, <2>1, <2>5, IdleKeeps DEF KeepInv
  <1> QED
    BY <1>1, <1>2, <1>3, <1>4, <1>5, <1>6, <1>7, <1>8, <1>9, <1>10, <1>11, <1>12, <1>13,
       <1>14, <1>15 DEF Next

\* In every reachable state a message that is being typed has reached its slot.
THEOREM SlotIsKeptCorrect == Spec => []SlotIsKept
  <1>1. Init => KeepInv
    BY NoJobType DEF Init, KeepInv, AskedBefore, WaitReachesSlot, SkipReachesSlot, SlotIsKept
  <1>2. KeepInv => SlotIsKept
    BY DEF KeepInv
  <1> QED
    BY <1>1, <1>2, TypeInit, TypeNext, KeepNext, PTL DEF Spec

-----------------------------------------------------------------------------
(* Every message is accounted for, and sent once *)

\* Job k is still there, with its message.
Stays(k) == job'[k].st # "none" /\ job'[k].msg = job[k].msg

\* What most steps do to the queue: no job appears, and the message of one that
\* disappears was dropped; a handler begins to finish only by what it did itself.
Quiet ==
    /\ \A k \in Job : job'[k].st = "none" \/ (job[k].st # "none" /\ Stays(k))
    /\ \A k \in Job : job[k].st # "none" => Stays(k) \/ job[k].msg \in dropped'
    /\ UNCHANGED <<handed, refused>> /\ dropped \subseteq dropped'
    /\ phase' = "finishing" => phase = "finishing" /\ active' = active /\ Stays(active)

\* A handler that finishes goes on finishing.
StaysFinishing == phase = "finishing" => phase' = "finishing" /\ active' = active

\* A failed attempt keeps the job and its message, or drops both.
LEMMA RetryKeeps ==
    ASSUME TypeOK, NEW j \in Job, job[j].st # "none", Retry(j)
    PROVE  /\ \/ Stays(j)
              \/ job'[j].st = "none" /\ job[j].msg \in dropped'
           /\ \A k \in Job : k # j => job'[k] = job[k]
           /\ dropped \subseteq dropped' /\ phase' = "idle"
  <1>1. job \in [Job -> JobRecord] /\ job[j] \in JobRecord
    BY DEF TypeOK
  <1>2. phase' = "idle"
    BY DEF Retry, Leave
  <1>3. CASE job[j].tries + 1 >= MaxAttempts
    BY <1>1, <1>2, <1>3, NoJobType DEF Retry
  <1>4. CASE ~(job[j].tries + 1 >= MaxAttempts)
    <2>1. job' = [job EXCEPT ![j].st = "delayed", ![j].tries = @ + 1,
                            ![j].due = now + Backoff[job[j].tries + 1]]
          /\ dropped' = dropped
      BY <1>4 DEF Retry
    <2>2. job'[j].st = "delayed" /\ job'[j].msg = job[j].msg
      BY <1>1, <2>1 DEF JobRecord
    <2> QED
      BY <1>1, <1>2, <2>1, <2>2 DEF Stays
  <1> QED
    BY <1>3, <1>4

\* One job that stays, or disappears with its message dropped, makes a quiet step.
LEMMA QuietStep ==
    ASSUME NEW j \in Job, job[j].st # "none",
           Stays(j) \/ (job'[j].st = "none" /\ job[j].msg \in dropped'),
           \A k \in Job : k # j => job'[k] = job[k],
           UNCHANGED <<handed, refused>>, dropped \subseteq dropped', phase' # "finishing"
    PROVE  Quiet
  <1>1. \A k \in Job : job[k].st # "none" => Stays(k) \/ job[k].msg \in dropped'
    BY DEF Stays
  <1>2. \A k \in Job : job'[k].st = "none" \/ (job[k].st # "none" /\ Stays(k))
    BY DEF Stays
  <1> QED
    BY <1>1, <1>2 DEF Quiet

\* A step that leaves the jobs alone is quiet.
LEMMA QuietJobs ==
    ASSUME UNCHANGED <<job, handed, refused, dropped>>,
           phase' = "finishing" => phase = "finishing" /\ active' = active /\ active \in Job
                                   /\ job[active].st # "none"
    PROVE  Quiet
  BY DEF Quiet, Stays

\* The quiet steps, and those of them that do not send.
LEMMA QuietSteps ==
    ASSUME TypeInv, [Next]_vars, ~Reschedule, ~Dispatch, ~Finish,
           \A m \in Msg : ~SendMessage(m)
    PROVE  /\ Quiet
           /\ ~Crash => StaysFinishing
           /\ ~DispatchFails => times' = times
           /\ ~Crash /\ ~DispatchFails => mishaps' = mishaps
  <1>t. /\ TypeOK /\ job \in [Job -> JobRecord] /\ \A j \in Job : job[j] \in JobRecord
        /\ phase # "idle" => active \in Job /\ job[active].st = "active"
        /\ phase = "idle" => active = NULL
    BY DEF TypeInv, TypeOK, Handling
  <1>1. CASE UNCHANGED vars \/ Tick
    <2>1. UNCHANGED <<job, handed, refused, dropped, active, phase, times, mishaps>>
      BY <1>1 DEF vars, Tick, handlerVars, sentVars, boundVars
    <2> QED
      BY <1>t, <2>1, QuietJobs DEF StaysFinishing
  <1>2. ASSUME NEW j \in Job, Promote(j)
        PROVE  Quiet /\ StaysFinishing /\ times' = times /\ mishaps' = mishaps
    <2>1. /\ job[j].st = "delayed" /\ job' = [job EXCEPT ![j].st = "ready", ![j].due = 0]
          /\ UNCHANGED <<handed, refused, dropped, active, phase, times, mishaps>>
      BY <1>2 DEF Promote, handlerVars, sentVars, boundVars
    <2>2. \A k \in Job : job[k].st # "none" => Stays(k)
      BY <1>t, <2>1 DEF Stays, JobRecord
    <2>3. \A k \in Job : job[k].st = "none" => job'[k].st = "none"
      BY <1>t, <2>1
    <2> QED
      BY <1>t, <2>1, <2>2, <2>3 DEF Quiet, StaysFinishing
  <1>3. CASE Purge
    <2>1. PICK gone \in SUBSET Purgeable :
              /\ job' = [j \in Job |-> IF j \in gone THEN NoJob ELSE job[j]]
              /\ dropped' = dropped \cup {job[j].msg : j \in gone}
              /\ UNCHANGED <<handed, refused, active, phase, times, mishaps>>
      BY <1>3 DEF Purge, handlerVars, sentVars
    <2>2. \A k \in Job : \/ k \in gone /\ job'[k].st = "none" /\ job[k].msg \in dropped'
                         \/ k \notin gone /\ job'[k] = job[k]
      BY <2>1, NoJobType
    <2>3. phase # "idle" => active \in Job /\ Stays(active)
      BY <1>t, <2>1 DEF Purgeable, Stays
    <2> QED
      BY <2>1, <2>2, <2>3 DEF Quiet, Stays, StaysFinishing
  <1>4. ASSUME NEW j \in Job, Take(j)
        PROVE  Quiet /\ StaysFinishing /\ times' = times /\ mishaps' = mishaps
    <2>1. /\ phase = "idle" /\ job[j].st = "ready" /\ job' = [job EXCEPT ![j].st = "active"]
          /\ UNCHANGED <<handed, refused, dropped, times, mishaps>>
          /\ phase' \in {"typing", "booking"}
      BY <1>4 DEF Take, StartTyping, sentVars, boundVars
    <2>2. Stays(j) /\ \A k \in Job : k # j => job'[k] = job[k]
      BY <1>t, <2>1 DEF Stays, JobRecord
    <2> QED
      BY <2>1, <2>2, QuietStep DEF StaysFinishing
  <1>5. ASSUME NEW j \in Job, AdapterMissing(j)
        PROVE  Quiet /\ StaysFinishing /\ times' = times /\ mishaps' = mishaps
    <2>1. /\ phase = "idle" /\ job[j].st = "ready" /\ Retry(j)
          /\ UNCHANGED <<handed, refused, times, mishaps>>
      BY <1>5 DEF AdapterMissing, sentVars
    <2> QED
      BY <1>t, <2>1, RetryKeeps, QuietStep DEF StaysFinishing
  <1>6. CASE Reserve \/ ReserveFails
    <2>1. /\ phase = "booking" /\ phase' \in {"rescheduling", "waiting"}
          /\ UNCHANGED <<handed, refused, dropped, times, mishaps>>
          /\ \E v : job' = [job EXCEPT ![active].slot = v]
      BY <1>6 DEF Reserve, ReserveFails, sentVars, boundVars
    <2>2. active \in Job /\ job[active].st = "active"
      BY <1>t, <2>1
    <2>3. Stays(active) /\ \A k \in Job : k # active => job'[k] = job[k]
      BY <1>t, <2>1, <2>2 DEF Stays, JobRecord
    <2> QED
      BY <2>1, <2>2, <2>3, QuietStep DEF StaysFinishing
  <1>7. CASE WaitEnds
    <2>1. /\ phase = "waiting" /\ phase' = "typing"
          /\ UNCHANGED <<job, handed, refused, dropped, times, mishaps>>
      BY <1>7 DEF WaitEnds, StartTyping, sentVars, boundVars
    <2> QED
      BY <2>1, QuietJobs DEF StaysFinishing
  <1>8. CASE DispatchFails
    <2>1. phase = "typing" /\ Retry(active) /\ UNCHANGED <<handed, refused>>
      BY <1>8 DEF DispatchFails
    <2>2. active \in Job /\ job[active].st = "active"
      BY <1>t, <2>1
    <2>3. Quiet
      BY <1>t, <2>1, <2>2, RetryKeeps, QuietStep
    <2> QED
      BY <1>8, <2>1, <2>3 DEF StaysFinishing
  <1>9. CASE Crash
    <2>1. /\ active \in Job /\ job[active].st = "active" /\ phase' = "idle"
          /\ UNCHANGED <<handed, refused, times>>
      BY <1>9, <1>t DEF Crash, Leave, sentVars
    <2>2. /\ Stays(active) \/ (job'[active].st = "none" /\ job[active].msg \in dropped')
          /\ \A k \in Job : k # active => job'[k] = job[k]
          /\ dropped \subseteq dropped'
      <3>1. CASE job[active].stalled
        BY <1>9, <1>t, <2>1, <3>1, NoJobType DEF Crash
      <3>2. CASE ~job[active].stalled
        <4>1. /\ job' = [job EXCEPT ![active].st = "ready", ![active].stalled = TRUE]
              /\ dropped' = dropped
          BY <1>9, <3>2 DEF Crash
        <4> QED
          BY <1>t, <2>1, <4>1 DEF Stays, JobRecord
      <3> QED
        BY <3>1, <3>2
    <2>3. Quiet
      BY <2>1, <2>2, QuietStep
    <2> QED
      BY <1>9, <2>1, <2>3
  <1> QED
    BY <1>1, <1>2, <1>3, <1>4, <1>5, <1>6, <1>7, <1>8, <1>9 DEF Next

\* addJob puts the job where none was, or notes the message as refused.
LEMMA AddJobAdds ==
    ASSUME TypeOK, NEW rec, AddJob(rec)
    PROVE  /\ \/ /\ \E j \in Job : job[j].st = "none" /\ job'[j] = rec
                                   /\ \A k \in Job \ {j} : job'[k] = job[k]
                 /\ refused' = refused
              \/ job' = job /\ rec.msg \in refused'
           /\ refused \subseteq refused'
  BY DEF AddJob, TypeOK

\* A quiet step forgets no message.
LEMMA QuietAccounts ==
    ASSUME TypeInv, AccountInv, Quiet, \A m \in Msg : times[m] > 0 => times'[m] > 0
    PROVE  AccountInv'
  <1>1. Accounted'
    <2> SUFFICES ASSUME NEW m \in handed \ refused
                 PROVE  times'[m] > 0 \/ Queued(m)' \/ m \in dropped'
      BY DEF Quiet, Accounted
    <2>1. m \in Msg /\ (times[m] > 0 \/ Queued(m) \/ m \in dropped)
      BY DEF AccountInv, Accounted, TypeInv, TypeOK
    <2>2. Queued(m) => Queued(m)' \/ m \in dropped'
      BY DEF Queued, Quiet, Stays
    <2> QED
      BY <2>1, <2>2 DEF Quiet
  <1>2. Elsewhere'
    <2> SUFFICES ASSUME phase' = "finishing"
                 PROVE  \/ times'[job'[active'].msg] > 0
                        \/ job'[active'].msg \in refused' \/ job'[active'].msg \in dropped'
                        \/ \E j \in Job \ {active'} :
                              job'[j].st # "none" /\ job'[j].msg = job'[active'].msg
      BY DEF Elsewhere
    <2>1. phase = "finishing" /\ active' = active /\ job'[active].msg = job[active].msg
      BY DEF Quiet, Stays
    <2>2. job[active].msg \in Msg
      BY <2>1, ActiveJob
    <2>3. \/ times[job[active].msg] > 0
          \/ job[active].msg \in refused \/ job[active].msg \in dropped
          \/ \E j \in Job \ {active} : job[j].st # "none" /\ job[j].msg = job[active].msg
      BY <2>1 DEF AccountInv, Elsewhere
    <2>4. CASE \E j \in Job \ {active} : job[j].st # "none" /\ job[j].msg = job[active].msg
      BY <2>1, <2>4 DEF Quiet, Stays
    <2> QED
      BY <2>1, <2>2, <2>3, <2>4 DEF Quiet
  <1> QED
    BY <1>1, <1>2 DEF AccountInv

\* Sending a message again does not forget that it was sent.
LEMMA SentCounts ==
    ASSUME TypeInv, NEW m \in Msg, Sent(m)
    PROVE  /\ times'[m] = times[m] + 1 /\ times'[m] > 0
           /\ \A o \in Msg : o # m => times'[o] = times[o]
           /\ \A o \in Msg : times[o] > 0 => times'[o] > 0
  BY DEF TypeInv, TypeOK, Sent

\* A failed dispatch may have sent the message, which is a mishap.
LEMMA FailedCounts ==
    ASSUME TypeInv, DispatchFails
    PROVE  \/ times' = times /\ mishaps' = mishaps
           \/ /\ mishaps' = mishaps + 1
              /\ Sent(job[active].msg) /\ active \in Job /\ job[active].msg \in Msg
  BY ActiveJob DEF DispatchFails, Mishap, sentVars

\* Every step keeps the messages accounted for.
LEMMA AccountNext == TypeInv /\ AccountInv /\ [Next]_vars => AccountInv'
  <1> SUFFICES ASSUME TypeInv, AccountInv, [Next]_vars PROVE AccountInv'
    OBVIOUS
  <1>t. TypeOK /\ job \in [Job -> JobRecord] /\ handed \subseteq Msg
    BY DEF TypeInv, TypeOK
  <1>1. ASSUME NEW m \in Msg, SendMessage(m) PROVE AccountInv'
    <2> DEFINE rec == NewJob("ready", m, 0, FALSE, 0)
    <2>1. /\ AddJob(rec) /\ rec.msg = m /\ rec.st = "ready" /\ handed' = handed \cup {m}
          /\ UNCHANGED <<times, dropped, phase, active>>
      BY <1>1 DEF SendMessage, NewJob, handlerVars, sentVars
    <2> HIDE DEF rec
    <2>2. refused \subseteq refused'
      BY <1>t, <2>1, AddJobAdds
    <2>3. \A k \in Job : job[k].st # "none" => job'[k] = job[k]
      BY <1>t, <2>1, AddJobAdds
    <2>4. m \in refused' \/ Queued(m)'
      BY <1>t, <2>1, AddJobAdds DEF Queued
    <2>5. Accounted'
      <3> SUFFICES ASSUME NEW o \in handed' \ refused'
                   PROVE  times'[o] > 0 \/ Queued(o)' \/ o \in dropped'
        BY DEF Accounted
      <3>1. CASE o = m
        BY <2>4, <3>1
      <3>2. CASE o # m
        BY <2>1, <2>2, <2>3, <3>2 DEF AccountInv, Accounted, Queued
      <3> QED
        BY <3>1, <3>2
    <2>6. phase = "finishing" => active \in Job /\ job[active].st = "active"
      BY ActiveJob
    <2>7. Elsewhere'
      BY <2>1, <2>2, <2>3, <2>6 DEF AccountInv, Elsewhere
    <2> QED
      BY <2>5, <2>7 DEF AccountInv
  <1>2. CASE Reschedule
    <2> DEFINE m == job[active].msg
               rec == NewJob("delayed", job[active].msg, wake, TRUE, job[active].slot)
    <2>1. /\ AddJob(rec) /\ rec.msg = m /\ rec.st = "delayed"
          /\ UNCHANGED <<handed, times, dropped, active>> /\ phase = "rescheduling"
      BY <1>2 DEF Reschedule, NewJob, sentVars
    <2>2. active \in Job /\ job[active].st = "active"
      BY <2>1, ActiveJob
    <2> HIDE DEF rec
    <2>3. refused \subseteq refused' /\ \A k \in Job : job[k].st # "none" => job'[k] = job[k]
      BY <1>t, <2>1, AddJobAdds
    <2>4. \/ m \in refused'
          \/ \E j \in Job \ {active} : job'[j].st # "none" /\ job'[j].msg = m
      BY <1>t, <2>1, <2>2, AddJobAdds
    <2>5. job'[active] = job[active]
      BY <2>2, <2>3
    <2>6. Elsewhere'
      BY <2>1, <2>4, <2>5 DEF Elsewhere
    <2>7. Accounted'
      BY <2>1, <2>3 DEF AccountInv, Accounted, Queued
    <2> QED
      BY <2>6, <2>7 DEF AccountInv
  <1>3. CASE Dispatch
    <2>1. /\ Sent(job[active].msg) /\ phase = "typing"
          /\ UNCHANGED <<job, active, handed, refused, dropped>>
      BY <1>3 DEF Dispatch
    <2>2. job[active].msg \in Msg
      BY <2>1, ActiveJob
    <2>3. times'[job[active].msg] > 0 /\ \A o \in Msg : times[o] > 0 => times'[o] > 0
      BY <2>1, <2>2, SentCounts
    <2> QED
      BY <1>t, <2>1, <2>3 DEF AccountInv, Accounted, Elsewhere, Queued
  <1>4. CASE Finish
    <2>1. /\ phase = "finishing" /\ phase' = "idle" /\ job' = [job EXCEPT ![active] = NoJob]
          /\ UNCHANGED <<handed, refused, dropped, times>>
      BY <1>4 DEF Finish, Leave, sentVars
    <2>2. \A k \in Job : k # active => job'[k] = job[k]
      BY <1>t, <2>1
    <2>3. Accounted'
      <3> SUFFICES ASSUME NEW m \in handed \ refused
                   PROVE  times[m] > 0 \/ Queued(m)' \/ m \in dropped
        BY <2>1 DEF Accounted
      <3>1. CASE m = job[active].msg
        BY <2>1, <2>2, <3>1 DEF AccountInv, Elsewhere, Queued
      <3>2. CASE m # job[active].msg
        BY <2>2, <3>2 DEF AccountInv, Accounted, Queued
      <3> QED
        BY <3>1, <3>2
    <2> QED
      BY <2>1, <2>3 DEF AccountInv, Elsewhere
  <1>5. CASE ~Reschedule /\ ~Dispatch /\ ~Finish /\ \A m \in Msg : ~SendMessage(m)
    <2>1. Quiet /\ (~DispatchFails => times' = times)
      BY <1>5, QuietSteps
    <2>2. \A m \in Msg : times[m] > 0 => times'[m] > 0
      BY <2>1, FailedCounts, SentCounts
    <2> QED
      BY <2>1, <2>2, QuietAccounts
  <1> QED
    BY <1>1, <1>2, <1>3, <1>4, <1>5

\* No message is forgotten between sendMessage and WhatsApp.
THEOREM AccountedCorrect == Spec => []Accounted
  <1>1. Init => AccountInv
    BY DEF Init, AccountInv, Accounted, Elsewhere
  <1>2. AccountInv => Accounted
    BY DEF AccountInv
  <1> QED
    BY <1>1, <1>2, TypeInit, TypeNext, AccountNext, PTL DEF Spec

\* A smaller set has no more elements, one with an element added at most one more, and
\* one that lost an element at most one less.
LEMMA Sizes ==
    ASSUME NEW S, IsFiniteSet(S), NEW T, NEW x
    PROVE  /\ Cardinality(S) \in Nat
           /\ T \subseteq S => IsFiniteSet(T) /\ Cardinality(T) <= Cardinality(S)
           /\ T \subseteq S \cup {x} => IsFiniteSet(T) /\ Cardinality(T) <= Cardinality(S) + 1
           /\ x \in S /\ T \subseteq S \ {x} =>
                 IsFiniteSet(T) /\ Cardinality(T) + 1 <= Cardinality(S)
  <1>1. Cardinality(S) \in Nat
    BY FS_CardinalityType
  <1>2. ASSUME T \subseteq S PROVE IsFiniteSet(T) /\ Cardinality(T) <= Cardinality(S)
    BY <1>2, FS_Subset
  <1>3. ASSUME T \subseteq S \cup {x}
        PROVE  IsFiniteSet(T) /\ Cardinality(T) <= Cardinality(S) + 1
    <2>1. /\ IsFiniteSet(S \cup {x})
          /\ Cardinality(S \cup {x}) = Cardinality(S) \/ Cardinality(S \cup {x}) = Cardinality(S) + 1
      BY FS_AddElement
    <2>2. IsFiniteSet(T) /\ Cardinality(T) <= Cardinality(S \cup {x})
      BY <1>3, <2>1, FS_Subset
    <2>3. Cardinality(T) \in Nat
      BY <2>2, FS_CardinalityType
    <2> QED
      BY <1>1, <2>1, <2>2, <2>3
  <1>4. ASSUME x \in S, T \subseteq S \ {x}
        PROVE  IsFiniteSet(T) /\ Cardinality(T) + 1 <= Cardinality(S)
    <2>1. IsFiniteSet(S \ {x}) /\ Cardinality(S \ {x}) = Cardinality(S) - 1
      BY <1>4, FS_RemoveElement
    <2>2. IsFiniteSet(T) /\ Cardinality(T) <= Cardinality(S \ {x})
      BY <1>4, <2>1, FS_Subset
    <2>3. Cardinality(T) \in Nat
      BY <2>2, FS_CardinalityType
    <2> QED
      BY <1>1, <2>1, <2>2, <2>3
  <1> QED
    BY <1>1, <1>2, <1>3, <1>4

\* How the sum for one message may change: nothing is added, or one with a mishap.
LEMMA OnceKept ==
    ASSUME TypeOK, OnceEach, NEW m \in Msg, mishaps' \in Nat, times'[m] \in Nat,
           \/ /\ Sendable(m)' \subseteq Sendable(m)
              /\ times'[m] + mishaps <= times[m] + mishaps'
           \/ /\ \E j : Sendable(m)' \subseteq Sendable(m) \cup {j}
              /\ times'[m] = times[m] /\ mishaps' = mishaps + 1
           \/ /\ \E j \in Sendable(m) : Sendable(m)' \subseteq Sendable(m) \ {j}
              /\ times'[m] = times[m] + 1 /\ mishaps' = mishaps
           \/ /\ \E j, k : /\ j \in Sendable(m)
                           /\ Sendable(m)' \subseteq (Sendable(m) \ {j}) \cup {k}
              /\ times'[m] = times[m] /\ mishaps' = mishaps
    PROVE  IsFiniteSet(Sendable(m)') /\ times'[m] + Cardinality(Sendable(m)') <= 1 + mishaps'
  <1>1. /\ IsFiniteSet(Sendable(m)) /\ times[m] + Cardinality(Sendable(m)) <= 1 + mishaps
        /\ times[m] \in Nat /\ mishaps \in Nat
    BY DEF OnceEach, TypeOK
  <1> DEFINE S == Sendable(m)
             T == Sendable(m)'
  <1>2. Cardinality(S) \in Nat /\ (IsFiniteSet(T) => Cardinality(T) \in Nat)
    BY <1>1, FS_CardinalityType
  <1> HIDE DEF S, T
  <1>s. IsFiniteSet(S) /\ times[m] + Cardinality(S) <= 1 + mishaps
    BY <1>1 DEF S
  <1>3. SUFFICES IsFiniteSet(T) /\ times'[m] + Cardinality(T) <= 1 + mishaps'
    BY DEF T
  <1>4. CASE T \subseteq S /\ times'[m] + mishaps <= times[m] + mishaps'
    <2>1. IsFiniteSet(T) /\ Cardinality(T) <= Cardinality(S)
      BY <1>s, <1>4, Sizes
    <2> QED
      BY <1>1, <1>2, <1>s, <1>4, <2>1
  <1>5. CASE (\E j : T \subseteq S \cup {j}) /\ times'[m] = times[m] /\ mishaps' = mishaps + 1
    <2>1. IsFiniteSet(T) /\ Cardinality(T) <= Cardinality(S) + 1
      BY <1>s, <1>5, Sizes
    <2> QED
      BY <1>1, <1>2, <1>s, <1>5, <2>1
  <1>6. CASE (\E j \in S : T \subseteq S \ {j}) /\ times'[m] = times[m] + 1 /\ mishaps' = mishaps
    <2>1. IsFiniteSet(T) /\ Cardinality(T) + 1 <= Cardinality(S)
      BY <1>s, <1>6, Sizes
    <2> QED
      BY <1>1, <1>2, <1>s, <1>6, <2>1
  <1>7. CASE /\ \E j, k : j \in S /\ T \subseteq (S \ {j}) \cup {k}
             /\ times'[m] = times[m] /\ mishaps' = mishaps
    <2>1. PICK j, k : j \in S /\ T \subseteq (S \ {j}) \cup {k}
      BY <1>7
    <2>2. IsFiniteSet(S \ {j}) /\ Cardinality(S \ {j}) + 1 <= Cardinality(S)
      BY <1>s, <2>1, Sizes
    <2>3. Cardinality(S \ {j}) \in Nat
      BY <2>2, FS_CardinalityType
    <2>4. IsFiniteSet(T) /\ Cardinality(T) <= Cardinality(S \ {j}) + 1
      BY <2>1, <2>2, Sizes
    <2> QED
      BY <1>1, <1>2, <1>s, <1>7, <2>2, <2>3, <2>4
  <1> QED
    BY <1>4, <1>5, <1>6, <1>7 DEF S, T

\* Every step keeps the sum.
LEMMA OnceNext == TypeInv /\ TypeInv' /\ OnceInv /\ [Next]_vars => OnceInv'
  <1> SUFFICES ASSUME TypeInv, TypeInv', OnceInv, [Next]_vars PROVE OnceInv'
    OBVIOUS
  <1>t. /\ TypeOK /\ job \in [Job -> JobRecord] /\ handed \subseteq Msg
        /\ mishaps \in Nat /\ mishaps' \in Nat
        /\ \A m \in Msg : times[m] \in Nat /\ times'[m] \in Nat
        /\ phase # "idle" => active \in Job /\ job[active].st = "active"
    BY DEF TypeInv, TypeOK, Handling
  <1>o. HandedFirst /\ OnceEach
    BY DEF OnceInv
  <1>1. ASSUME NEW m \in Msg, SendMessage(m) PROVE OnceInv'
    <2> DEFINE rec == NewJob("ready", m, 0, FALSE, 0)
    <2>1. /\ AddJob(rec) /\ rec.msg = m /\ rec.st = "ready"
          /\ m \notin handed /\ handed' = handed \cup {m}
          /\ UNCHANGED <<times, mishaps, phase, active>>
      BY <1>1 DEF SendMessage, NewJob, handlerVars, sentVars
    <2> HIDE DEF rec
    <2>2. \/ \E j \in Job : /\ job[j].st = "none" /\ job'[j] = rec
                            /\ \A k \in Job \ {j} : job'[k] = job[k]
          \/ job' = job
      BY <1>t, <2>1, AddJobAdds
    <2>3. HandedFirst'
      BY <1>o, <2>1, <2>2 DEF HandedFirst
    <2>4. Sendable(m) = {} /\ times[m] = 0
      BY <1>o, <2>1 DEF HandedFirst, Sendable
    <2>5. \E j : Sendable(m)' \subseteq {j}
      BY <2>1, <2>2, <2>4 DEF Sendable
    <2>6. IsFiniteSet(Sendable(m)') /\ Cardinality(Sendable(m)') <= 1
      <3>1. PICK j : Sendable(m)' \subseteq {} \cup {j}
        BY <2>5
      <3>2. IsFiniteSet({}) /\ Cardinality({}) = 0
        BY FS_EmptySet
      <3> HIDE DEF Sendable
      <3> QED
        BY <3>1, <3>2, Sizes
    <2>7. Cardinality(Sendable(m)') \in Nat
      BY <2>6, FS_CardinalityType
    <2>8. \A o \in Msg : o # m => Sendable(o)' \subseteq Sendable(o)
      BY <2>1, <2>2 DEF Sendable
    <2>9. OnceEach'
      <3> SUFFICES ASSUME NEW o \in Msg
                   PROVE  /\ IsFiniteSet(Sendable(o)')
                          /\ times'[o] + Cardinality(Sendable(o)') <= 1 + mishaps'
        BY DEF OnceEach
      <3>1. CASE o = m
        BY <1>t, <2>1, <2>4, <2>6, <2>7, <3>1
      <3>2. CASE o # m
        <4>1. times'[o] + mishaps <= times[o] + mishaps'
          BY <1>t, <2>1
        <4> QED
          BY <1>t, <1>o, <2>8, <3>2, <4>1, OnceKept
      <3> QED
        BY <3>1, <3>2
    <2> QED
      BY <2>3, <2>9 DEF OnceInv
  <1>2. CASE Reschedule
    <2> DEFINE rec == NewJob("delayed", job[active].msg, wake, TRUE, job[active].slot)
    <2>0. PICK m : m = job[active].msg
      OBVIOUS
    <2>1. /\ AddJob(rec) /\ rec.msg = m /\ rec.st = "delayed"
          /\ phase = "rescheduling" /\ phase' = "finishing"
          /\ UNCHANGED <<handed, times, mishaps, active>>
      BY <1>2, <2>0 DEF Reschedule, NewJob, sentVars
    <2>2. active \in Job /\ job[active].st = "active" /\ job[active].msg = m
      BY <1>t, <2>0, <2>1
    <2>m. m \in Msg
      BY <2>0, <2>1, ActiveJob
    <2> HIDE DEF rec
    <2>3. \/ \E j \in Job : /\ job[j].st = "none" /\ job'[j] = rec
                            /\ \A k \in Job \ {j} : job'[k] = job[k]
          \/ job' = job
      BY <1>t, <2>1, AddJobAdds
    <2>4. HandedFirst'
      BY <1>o, <2>1, <2>2, <2>3 DEF HandedFirst
    <2>5. active \in Sendable(m)
      BY <2>1, <2>2 DEF Sendable
    <2>6. \E j : Sendable(m)' \subseteq (Sendable(m) \ {active}) \cup {j}
      BY <2>1, <2>2, <2>3 DEF Sendable
    <2>7. \A o \in Msg : o # m => Sendable(o)' \subseteq Sendable(o)
      BY <2>1, <2>3 DEF Sendable
    <2>8. OnceEach'
      <3> SUFFICES ASSUME NEW o \in Msg
                   PROVE  /\ IsFiniteSet(Sendable(o)')
                          /\ times'[o] + Cardinality(Sendable(o)') <= 1 + mishaps'
        BY DEF OnceEach
      <3>1. times'[o] + mishaps <= times[o] + mishaps' /\ times'[o] = times[o] /\ mishaps' = mishaps
        BY <1>t, <2>1
      <3>2. CASE o = m
        BY <1>t, <1>o, <2>5, <2>6, <3>1, <3>2, OnceKept
      <3>3. CASE o # m
        BY <1>t, <1>o, <2>7, <3>1, <3>3, OnceKept
      <3> QED
        BY <3>2, <3>3
    <2> QED
      BY <2>4, <2>8 DEF OnceInv
  <1>3. CASE Dispatch
    <2> DEFINE m == job[active].msg
    <2>1. /\ Sent(m) /\ phase = "typing" /\ phase' = "finishing"
          /\ UNCHANGED <<job, active, handed, mishaps>>
      BY <1>3 DEF Dispatch, boundVars
    <2>2. active \in Job /\ job[active].st = "active" /\ m \in Msg /\ m \in handed
      BY <1>t, <1>o, <2>1, ActiveJob DEF HandedFirst
    <2>3. times'[m] = times[m] + 1 /\ \A o \in Msg : o # m => times'[o] = times[o]
      BY <2>1, <2>2, SentCounts
    <2>4. HandedFirst'
      BY <1>o, <2>1, <2>2, <2>3 DEF HandedFirst
    <2>5. active \in Sendable(m) /\ Sendable(m)' \subseteq Sendable(m) \ {active}
      BY <2>1, <2>2 DEF Sendable
    <2>6. \A o \in Msg : Sendable(o)' \subseteq Sendable(o)
      BY <2>1 DEF Sendable
    <2>7. OnceEach'
      <3> SUFFICES ASSUME NEW o \in Msg
                   PROVE  /\ IsFiniteSet(Sendable(o)')
                          /\ times'[o] + Cardinality(Sendable(o)') <= 1 + mishaps'
        BY DEF OnceEach
      <3>1. CASE o = m
        BY <1>t, <1>o, <2>1, <2>3, <2>5, <3>1, OnceKept
      <3>2. CASE o # m
        <4>1. times'[o] + mishaps <= times[o] + mishaps'
          BY <1>t, <2>1, <2>3, <3>2
        <4> QED
          BY <1>t, <1>o, <2>6, <4>1, OnceKept
      <3> QED
        BY <3>1, <3>2
    <2> QED
      BY <2>4, <2>7 DEF OnceInv
  <1>4. CASE Finish
    <2>1. /\ phase = "finishing" /\ job' = [job EXCEPT ![active] = NoJob]
          /\ UNCHANGED <<handed, times, mishaps>>
      BY <1>4 DEF Finish, sentVars, boundVars
    <2>2. \A k \in Job : IF k = active THEN job'[k].st = "none" ELSE job'[k] = job[k]
      BY <1>t, <2>1, NoJobType
    <2>3. HandedFirst'
      BY <1>o, <2>1, <2>2 DEF HandedFirst
    <2>4. \A o \in Msg : Sendable(o)' \subseteq Sendable(o)
      BY <2>2 DEF Sendable
    <2>5. \A o \in Msg : times'[o] + mishaps <= times[o] + mishaps'
      BY <1>t, <2>1
    <2> QED
      BY <1>t, <1>o, <2>3, <2>4, <2>5, OnceKept DEF OnceInv, OnceEach
  <1>5. CASE ~Reschedule /\ ~Dispatch /\ ~Finish /\ \A m \in Msg : ~SendMessage(m)
    <2>1. /\ Quiet /\ (~Crash => StaysFinishing)
          /\ ~DispatchFails => times' = times
          /\ ~Crash /\ ~DispatchFails => mishaps' = mishaps
      BY <1>5, QuietSteps
    <2>2. CASE Crash
      <3>1. /\ mishaps' = mishaps + 1 /\ times' = times
        BY <2>2 DEF Crash, Mishap, sentVars
      <3>2. HandedFirst'
        BY <1>o, <2>1, <3>1 DEF HandedFirst, Quiet, Stays
      <3>3. \A o \in Msg : Sendable(o)' \subseteq Sendable(o) \cup {active}
        BY <2>1 DEF Sendable, Quiet, Stays
      <3>4. \A o \in Msg : times'[o] = times[o]
        BY <3>1
      <3> QED
        BY <1>t, <1>o, <3>1, <3>2, <3>3, <3>4, OnceKept DEF OnceInv, OnceEach
    <2>3. CASE ~Crash
      <3>1. \/ times' = times /\ mishaps' = mishaps
            \/ /\ mishaps' = mishaps + 1 /\ DispatchFails
               /\ Sent(job[active].msg) /\ active \in Job /\ job[active].msg \in Msg
        BY <2>1, <2>3, FailedCounts
      <3>2. \A o \in Msg : times'[o] + mishaps <= times[o] + mishaps'
        BY <1>t, <3>1, SentCounts
      <3>3. \A o \in Msg \ handed : times'[o] = 0
        <4>1. DispatchFails => phase = "typing"
          BY DEF DispatchFails
        <4>2. DispatchFails => job[active].msg \in handed
          BY <1>t, <1>o, <4>1 DEF HandedFirst
        <4> QED
          BY <1>o, <3>1, <4>2, SentCounts DEF HandedFirst
      <3>4. HandedFirst'
        BY <1>o, <2>1, <3>3 DEF HandedFirst, Quiet, Stays
      <3>5. \A o \in Msg : Sendable(o)' \subseteq Sendable(o)
        BY <2>1, <2>3 DEF Sendable, Quiet, Stays, StaysFinishing
      <3> QED
        BY <1>t, <1>o, <3>2, <3>4, <3>5, OnceKept DEF OnceInv, OnceEach
    <2> QED
      BY <2>2, <2>3
  <1> QED
    BY <1>1, <1>2, <1>3, <1>4, <1>5

\* Nothing was handed over or sent yet.
LEMMA OnceInit == Init => OnceInv
  <1> SUFFICES ASSUME Init PROVE OnceInv
    OBVIOUS
  <1>1. \A m \in Msg : Sendable(m) = {} /\ times[m] = 0 /\ mishaps = 0
    BY NoJobType DEF Init, Sendable
  <1>2. \A m \in Msg : /\ IsFiniteSet(Sendable(m))
                       /\ times[m] + Cardinality(Sendable(m)) <= 1 + mishaps
    <2> SUFFICES ASSUME NEW m \in Msg
                 PROVE  /\ IsFiniteSet(Sendable(m))
                        /\ times[m] + Cardinality(Sendable(m)) <= 1 + mishaps
      OBVIOUS
    <2>1. IsFiniteSet({}) /\ Cardinality({}) = 0
      BY FS_EmptySet
    <2>2. IsFiniteSet(Sendable(m)) /\ Cardinality(Sendable(m)) = 0
      BY <1>1, <2>1
    <2> QED
      BY <1>1, <2>2
  <1>3. HandedFirst
    BY <1>1, NoJobType DEF Init, HandedFirst
  <1> QED
    BY <1>2, <1>3 DEF OnceInv, OnceEach

\* Only a mishap sends a message again.
THEOREM SentOnceCorrect == Spec => []SentOnce
  <1>2. TypeInv /\ OnceInv => SentOnce
    <2> SUFFICES ASSUME TypeInv, OnceInv, NEW m \in Msg PROVE times[m] <= 1 + mishaps
      BY DEF SentOnce
    <2>1. /\ IsFiniteSet(Sendable(m)) /\ times[m] \in Nat /\ mishaps \in Nat
          /\ times[m] + Cardinality(Sendable(m)) <= 1 + mishaps
      BY DEF OnceInv, OnceEach, TypeInv, TypeOK
    <2>2. Cardinality(Sendable(m)) \in Nat
      BY <2>1, FS_CardinalityType
    <2> QED
      BY <2>1, <2>2
  <1> QED
    BY <1>2, TypeInit, TypeNext, OnceInit, OnceNext, PTL DEF Spec

-----------------------------------------------------------------------------
(* The implementation of DeliveryContract *)

ContractStep == [Delivery!ContractNext]_(Delivery!contractVars)

\* Only what waits is given up or purged.
LEMMA DroppedWaits ==
    ASSUME TypeInv, [Next]_vars
    PROVE  dropped' \subseteq dropped \cup Waiting
  <1>t. \A j \in Job : job[j].st # "none" => job[j].msg \in Waiting
    BY DEF TypeInv, HasMessage, Waiting, Queued
  <1>a. phase # "idle" => active \in Job /\ job[active].st # "none"
    BY DEF TypeInv, Handling
  <1>1. ASSUME NEW j \in Job, job[j].st # "none", Retry(j)
        PROVE  dropped' \subseteq dropped \cup Waiting
    BY <1>t, <1>1 DEF Retry
  <1>2. CASE DispatchFails
    BY <1>a, <1>1, <1>2 DEF DispatchFails
  <1>3. ASSUME NEW j \in Job, AdapterMissing(j) PROVE dropped' \subseteq dropped \cup Waiting
    BY <1>1, <1>3 DEF AdapterMissing
  <1>4. CASE Purge
    BY <1>t, <1>4 DEF Purge, Purgeable
  <1>5. CASE Crash
    <2>1. active \in Job /\ job[active].st # "none"
      BY <1>5 DEF Crash, TypeInv, TypeOK, Handling
    <2> QED BY <1>t, <1>5, <2>1 DEF Crash
  <1>6. CASE UNCHANGED dropped
    BY <1>6
  <1> QED
    BY <1>2, <1>3, <1>4, <1>5, <1>6
    DEF Next, Tick, SendMessage, Promote, Take, Reserve, ReserveFails, Reschedule, WaitEnds,
        Dispatch, Finish, vars

\* A quiet step settles the messages whose jobs it drops.
LEMMA QuietSettles ==
    ASSUME TypeInv, Quiet, dropped' \subseteq dropped \cup Waiting,
           mishaps' \in {mishaps, mishaps + 1}
    PROVE  Delivery!Settle
  <1>1. Waiting' \subseteq Waiting
    BY DEF Quiet, Stays, Waiting, Queued
  <1>2. \A m \in Waiting \ Waiting' : m \in Lost'
    BY DEF Quiet, Stays, Waiting, Queued, Lost
  <1>3. Lost \subseteq Lost' /\ Lost' \subseteq Lost \cup Waiting /\ handed' = handed
    BY DEF Quiet, Lost
  <1> QED
    BY <1>1, <1>2, <1>3 DEF Delivery!Settle

\* What the handler is about to send waits, and was sent no more often than mishaps excuse.
LEMMA SendIsExcused ==
    ASSUME TypeInv, OnceInv, phase = "typing"
    PROVE  job[active].msg \in Waiting /\ times[job[active].msg] <= mishaps
  <1> DEFINE m == job[active].msg
  <1>1. active \in Job /\ job[active].st = "active" /\ m \in Msg
    BY ActiveJob
  <1>2. active \in Sendable(m)
    BY <1>1 DEF Sendable
  <1>3. /\ IsFiniteSet(Sendable(m)) /\ times[m] + Cardinality(Sendable(m)) <= 1 + mishaps
        /\ times[m] \in Nat /\ mishaps \in Nat
    BY <1>1 DEF OnceInv, OnceEach, TypeInv, TypeOK
  <1>4. Cardinality(Sendable(m)) \in Nat /\ Cardinality(Sendable(m)) # 0
    BY <1>2, <1>3, FS_CardinalityType, FS_EmptySet
  <1> HIDE DEF m
  <1>5. times[m] <= mishaps
    BY <1>3, <1>4
  <1>6. m \in Waiting
    BY <1>1 DEF Waiting, Queued, m
  <1> QED
    BY <1>5, <1>6 DEF m

\* Every step of the queue is a step of the contract, or changes nothing it speaks of.
LEMMA StepIsContractStep ==
    ASSUME TypeInv, AccountInv, OnceInv, [Next]_vars
    PROVE  ContractStep
  <1> USE DEF ContractStep, Delivery!ContractNext, Delivery!contractVars
  <1>t. TypeOK /\ job \in [Job -> JobRecord]
    BY DEF TypeInv, TypeOK
  <1>d. dropped' \subseteq dropped \cup Waiting
    BY DroppedWaits
  <1>1. ASSUME NEW m \in Msg, SendMessage(m) PROVE ContractStep
    <2> DEFINE rec == NewJob("ready", m, 0, FALSE, 0)
    <2>1. /\ AddJob(rec) /\ rec.msg = m /\ rec.st = "ready"
          /\ m \notin handed /\ handed' = handed \cup {m}
          /\ UNCHANGED <<times, mishaps, dropped>>
      BY <1>1 DEF SendMessage, NewJob, sentVars
    <2> HIDE DEF rec
    <2>2. CASE /\ \E j \in Job : job[j].st = "none" /\ job' = [job EXCEPT ![j] = rec]
               /\ UNCHANGED refused
      <3>1. Waiting' = Waiting \cup {m}
        BY <1>t, <2>1, <2>2 DEF Waiting, Queued
      <3>2. Lost' = Lost
        BY <2>1, <2>2 DEF Lost
      <3> QED BY <2>1, <3>1, <3>2 DEF Delivery!Hand
    <2>3. CASE refused' = refused \cup {m} /\ UNCHANGED job
      <3>1. Waiting' = Waiting
        BY <2>3 DEF Waiting, Queued
      <3>2. Lost' = Lost \cup {m}
        BY <2>1, <2>3 DEF Lost
      <3> QED BY <2>1, <3>1, <3>2 DEF Delivery!Hand
    <2> QED BY <2>1, <2>2, <2>3 DEF AddJob
  <1>2. CASE Reschedule
    <2> DEFINE rec == NewJob("delayed", job[active].msg, wake, TRUE, job[active].slot)
    <2>0. PICK m : m = job[active].msg
      OBVIOUS
    <2>1. /\ AddJob(rec) /\ rec.msg = m /\ phase = "rescheduling"
          /\ UNCHANGED <<handed, times, mishaps, dropped>>
      BY <1>2, <2>0 DEF Reschedule, NewJob, sentVars
    <2>2. active \in Job /\ job[active].st = "active" /\ m \in Msg
      BY <2>0, <2>1, ActiveJob
    <2> HIDE DEF rec
    <2>3. m \in Waiting
      BY <2>0, <2>2 DEF Waiting, Queued
    <2>4. Waiting' = Waiting
      <3>1. CASE \E j \in Job : job[j].st = "none" /\ job' = [job EXCEPT ![j] = rec]
        BY <1>t, <2>0, <2>1, <2>2, <3>1 DEF Waiting, Queued
      <3>2. CASE job' = job
        BY <3>2 DEF Waiting, Queued
      <3> QED BY <2>1, <3>1, <3>2 DEF AddJob
    <2>5. refused' = refused \/ refused' = refused \cup {m}
      BY <2>1 DEF AddJob
    <2>6. Lost' = Lost \/ Lost' = Lost \cup {m}
      BY <2>1, <2>5 DEF Lost
    <2> QED
      BY <2>1, <2>3, <2>4, <2>6 DEF Delivery!Retire, Delivery!Settle
  <1>3. CASE Dispatch
    <2>1. /\ Sent(job[active].msg) /\ phase = "typing"
          /\ UNCHANGED <<job, handed, refused, dropped, mishaps>>
      BY <1>3 DEF Dispatch, boundVars
    <2>2. Waiting' = Waiting /\ Lost' = Lost
      BY <2>1 DEF Waiting, Queued, Lost
    <2>3. Delivery!Settle
      BY <2>1, <2>2 DEF Delivery!Settle
    <2>4. job[active].msg \in Msg
      BY <2>1, ActiveJob
    <2>5. Delivery!Deliver(job[active].msg)
      BY <2>1, <2>3, SendIsExcused DEF Delivery!Deliver, Sent
    <2> QED BY <2>4, <2>5
  <1>4. CASE Finish
    <2>0. PICK m : m = job[active].msg
      OBVIOUS
    <2>1. /\ phase = "finishing" /\ job' = [job EXCEPT ![active] = NoJob]
          /\ UNCHANGED <<handed, refused, dropped, times, mishaps>>
      BY <1>4 DEF Finish, sentVars, boundVars
    <2>2. \A k \in Job : IF k = active THEN job'[k].st = "none" ELSE job'[k] = job[k]
      BY <1>t, <2>1, NoJobType
    <2>3. Waiting' \subseteq Waiting
      BY <2>2 DEF Waiting, Queued
    <2>4. \A o \in Waiting \ Waiting' : o = m /\ ~\E j \in Job \ {active} :
                                                job[j].st # "none" /\ job[j].msg = m
      BY <2>0, <2>2 DEF Waiting, Queued
    <2>5. \A o \in Waiting \ Waiting' : times[o] > 0 \/ o \in Lost
      BY <2>0, <2>1, <2>4 DEF AccountInv, Elsewhere, Lost
    <2>6. Lost' = Lost
      BY <2>1 DEF Lost
    <2> QED
      BY <2>1, <2>3, <2>5, <2>6 DEF Delivery!Retire, Delivery!Settle
  <1>5. CASE ~Reschedule /\ ~Dispatch /\ ~Finish /\ \A m \in Msg : ~SendMessage(m)
    <2>1. /\ Quiet
          /\ ~DispatchFails => times' = times
          /\ ~Crash /\ ~DispatchFails => mishaps' = mishaps
      BY <1>5, QuietSteps
    <2>2. CASE DispatchFails /\ times' # times
      <3>1. mishaps' = mishaps + 1 /\ Sent(job[active].msg) /\ job[active].msg \in Msg
        BY <2>2, FailedCounts
      <3>2. phase = "typing"
        BY <2>2 DEF DispatchFails
      <3>3. Delivery!Settle
        BY <1>d, <2>1, <3>1, QuietSettles
      <3>4. Delivery!Deliver(job[active].msg)
        BY <3>1, <3>2, <3>3, SendIsExcused DEF Delivery!Deliver, Sent
      <3> QED BY <3>1, <3>4
    <2>3. CASE times' = times
      <3>1. mishaps' \in {mishaps, mishaps + 1}
        BY <2>1, FailedCounts DEF Crash, Mishap
      <3>2. Delivery!Settle
        BY <1>d, <2>1, <3>1, QuietSettles
      <3> QED BY <2>3, <3>2 DEF Delivery!Retire
    <2> QED BY <2>1, <2>2, <2>3
  <1> QED
    BY <1>1, <1>2, <1>3, <1>4, <1>5

\* The queue implements its contract: no message stops waiting unless it was delivered or
\* is known to be lost, none that stopped waiting comes back, and only a mishap excuses
\* another delivery.
THEOREM KeepsDeliveryCorrect == Spec => KeepsDelivery
  <1>1. Init => Delivery!ContractInit
    BY NoJobType DEF Init, Delivery!ContractInit, Waiting, Queued, Lost
  <1>2. Init => AccountInv
    BY DEF Init, AccountInv, Accounted, Elsewhere
  <1>3. TypeInv /\ AccountInv /\ OnceInv /\ [Next]_vars => ContractStep
    BY StepIsContractStep
  <1> QED
    BY <1>1, <1>2, <1>3, TypeInit, TypeNext, AccountNext, OnceInit, OnceNext, PTL
    DEF Spec, KeepsDelivery, Delivery!ContractSpec, ContractStep

\* What is neither lost nor delivered again: the contract lets nothing wait twice.
THEOREM SettledStaysCorrect == Spec => SettledStays
  <1>1. Init => AccountInv
    BY DEF Init, AccountInv, Accounted, Elsewhere
  <1>2. TypeInv /\ AccountInv /\ OnceInv /\ [Next]_vars =>
           [\A m \in handed \ Waiting : m \notin Waiting' /\ times'[m] = times[m]]_vars
    <2> SUFFICES ASSUME TypeInv, AccountInv, OnceInv, [Next]_vars,
                        NEW m \in handed \ Waiting
                 PROVE  m \notin Waiting' /\ times'[m] = times[m]
      OBVIOUS
    <2>1. ContractStep /\ m \in Msg /\ times \in [Msg -> Nat]
      BY StepIsContractStep DEF TypeInv, TypeOK
    <2>2. CASE UNCHANGED Delivery!contractVars
      BY <2>2 DEF Delivery!contractVars
    <2>3. CASE Delivery!Retire
      BY <2>3 DEF Delivery!Retire, Delivery!Settle
    <2>4. ASSUME NEW n \in Msg, Delivery!Hand(n) PROVE m \notin Waiting' /\ times'[m] = times[m]
      BY <2>4 DEF Delivery!Hand
    <2>5. ASSUME NEW n \in Msg, Delivery!Deliver(n)
          PROVE  m \notin Waiting' /\ times'[m] = times[m]
      BY <2>1, <2>5 DEF Delivery!Deliver, Delivery!Settle
    <2> QED
      BY <2>1, <2>2, <2>3, <2>4, <2>5 DEF ContractStep, Delivery!ContractNext
  <1> QED
    BY <1>1, <1>2, TypeInit, TypeNext, AccountNext, OnceInit, OnceNext, PTL
    DEF Spec, SettledStays
=============================================================================

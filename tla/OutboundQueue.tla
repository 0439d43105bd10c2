----------------------------- MODULE OutboundQueue -----------------------------
(***************************************************************************)
(* Outbound WhatsApp messages of one channel: WhatsappAdapter.sendMessage  *)
(* queues a job; the single whatsapp-outbound worker books a time slot     *)
(* with AntiBanService, waits or reschedules, types and dispatches.        *)
(*                                                                         *)
(* BullMQ keeps the jobs and Redis the slot key; both are external and can *)
(* refuse a call.  Timers only give lower bounds: what is due may be late. *)
(***************************************************************************)
EXTENDS Naturals, Sequences

CONSTANTS
    Msg,                   \* messages handed to sendMessage
    Job,                   \* identities of BullMQ jobs; a removed one is reused
    NULL,                  \* no job, no message
    MinDelay, MaxDelay,    \* DEFAULT_MIN_DELAY_SEC and DEFAULT_MAX_DELAY_SEC
    MaxWait,               \* a longer wait is rescheduled (25 s)
    KeyLife,               \* expiry of the slot key (600 s)
    MinTyping, MaxTyping,  \* bounds of the typing simulation
    Backoff,               \* BullMQ's delay after each failed attempt (5 s, 10 s)
    MaxAttempts,           \* attempts of a job (3)
    PurgeSeesReady,        \* does getJobs('waiting') list jobs with a priority?
    MaxTime,               \* bound: the clock
    MaxFaults,             \* bound: refused calls and failed attempts
    MaxMishaps             \* bound: crashes, and dispatches that throw after sending

ASSUME NullAssumption == NULL \notin Job /\ NULL \notin Msg
ASSUME BoundAssumption ==
    /\ {MinDelay, MaxDelay, MaxWait, KeyLife, MinTyping, MaxTyping, MaxAttempts, MaxTime,
        MaxFaults, MaxMishaps} \subseteq Nat
    /\ Backoff \in [1..MaxAttempts -> Nat]
    /\ PurgeSeesReady \in BOOLEAN

VARIABLES
    now,
    \* AntiBanService's key in Redis
    next,             \* next_slot
    expires,          \* when the key is gone
    life,             \* history: how often the key was created
    booked,           \* history: the slots handed out, with the life of their key
    \* BullMQ and its worker
    job,              \* the queue
    active,           \* the job in progress, or NULL
    phase,            \* how far the handler is
    asked,            \* the clock when it asked for a slot
    wake,             \* when its wait is over
    \* messages
    handed,           \* messages given to sendMessage
    refused,          \* history: messages of which addJob returned a failure
    dropped,          \* history: messages given up after MaxAttempts, or purged
    times,            \* history: how often WhatsApp got each message
    last,             \* history: when it got the last one
    faults, mishaps

keyVars     == <<next, expires, life, booked>>
handlerVars == <<active, phase, asked, wake>>
sentVars    == <<times, last>>
boundVars   == <<faults, mishaps>>
vars == <<now, keyVars, job, handlerVars, handed, refused, dropped, sentVars, boundVars>>

Phase == {"idle", "booking", "rescheduling", "waiting", "typing", "finishing"}
JobRecord ==
    [st : {"none", "ready", "delayed", "active"},
     msg : Msg \cup {NULL},
     due : Nat,              \* when a delayed job is due
     tries : 0..MaxAttempts, \* failed attempts
     skip : BOOLEAN,         \* skipVelocityReserve
     stalled : BOOLEAN,      \* was active in a crash
     slot : Nat]             \* history: the slot booked for it, 0 if there is none

NewJob(st, msg, due, skip, slot) ==
    [st |-> st, msg |-> msg, due |-> due, tries |-> 0, skip |-> skip, stalled |-> FALSE,
     slot |-> slot]
NoJob == NewJob("none", NULL, 0, FALSE, 0)

TypeOK ==
    /\ {now, next, expires, life, asked, wake, last, faults, mishaps} \subseteq Nat
    /\ booked \in Seq([at : Nat, life : Nat])
    /\ job \in [Job -> JobRecord]
    /\ active \in Job \cup {NULL}
    /\ phase \in Phase
    /\ handed \subseteq Msg
    /\ refused \subseteq Msg
    /\ dropped \subseteq Msg
    /\ times \in [Msg -> Nat]

Init ==
    /\ now = 0
    /\ next = 0
    /\ expires = 0
    /\ life = 0
    /\ booked = <<>>
    /\ job = [j \in Job |-> NoJob]
    /\ active = NULL
    /\ phase = "idle"
    /\ asked = 0
    /\ wake = 0
    /\ handed = {}
    /\ refused = {}
    /\ dropped = {}
    /\ times = [m \in Msg |-> 0]
    /\ last = 0
    /\ faults = 0
    /\ mishaps = 0

Fault  == faults < MaxFaults /\ faults' = faults + 1
Mishap == mishaps < MaxMishaps /\ mishaps' = mishaps + 1

Tick ==
    /\ now < MaxTime
    /\ now' = now + 1
    /\ UNCHANGED <<keyVars, job, handlerVars, handed, refused, dropped, sentVars, boundVars>>

-----------------------------------------------------------------------------
(* The queue *)

\* jobQueue.addJob puts a record into the queue, or Redis refuses it.
AddJob(rec) ==
    \/ /\ \E j \in Job : job[j].st = "none" /\ job' = [job EXCEPT ![j] = rec]
       /\ UNCHANGED <<refused, faults>>
    \/ /\ Fault
       /\ refused' = refused \cup {rec.msg}
       /\ UNCHANGED job

\* WhatsappAdapter.sendMessage; nobody looks at what addJob returns.
SendMessage(m) ==
    /\ m \notin handed
    /\ handed' = handed \cup {m}
    /\ AddJob(NewJob("ready", m, 0, FALSE, 0))
    /\ UNCHANGED <<now, keyVars, handlerVars, dropped, sentVars, mishaps>>

\* A delayed job is due.
Promote(j) ==
    /\ job[j].st = "delayed" /\ job[j].due <= now
    /\ job' = [job EXCEPT ![j].st = "ready", ![j].due = 0]
    /\ UNCHANGED <<now, keyVars, handlerVars, handed, refused, dropped, sentVars, boundVars>>

\* What removeJobsByChannelId finds.  Every job of this queue has a priority, and
\* BullMQ 5 does not list those that are ready as 'waiting'.
Purgeable ==
    {j \in Job : job[j].st = "delayed" \/ (PurgeSeesReady /\ job[j].st = "ready")}

\* The channel is stopped and its jobs are removed, one by one up to the first that
\* cannot be; a job in progress is spared.
Purge ==
    \E gone \in SUBSET Purgeable :
        /\ gone # {}
        /\ IF gone = Purgeable THEN UNCHANGED faults ELSE Fault
        /\ job' = [j \in Job |-> IF j \in gone THEN NoJob ELSE job[j]]
        /\ dropped' = dropped \cup {job[j].msg : j \in gone}
        /\ UNCHANGED <<now, keyVars, handlerVars, handed, refused, sentVars, mishaps>>

-----------------------------------------------------------------------------
(* The worker: one job at a time *)

\* Simulate typing for a random time.
StartTyping ==
    /\ phase' = "typing"
    /\ \E t \in MinTyping..MaxTyping : wake' = now + t

\* The adapter is there; a job that was rescheduled has its slot already.
Take(j) ==
    /\ phase = "idle" /\ job[j].st = "ready"
    /\ job' = [job EXCEPT ![j].st = "active"]
    /\ active' = j
    /\ IF job[j].skip THEN StartTyping /\ UNCHANGED asked
       ELSE phase' = "booking" /\ asked' = now /\ UNCHANGED wake
    /\ UNCHANGED <<now, keyVars, handed, refused, dropped, sentVars, boundVars>>

\* The handler is left: its locals are gone.
Leave ==
    /\ active' = NULL
    /\ phase' = "idle"
    /\ asked' = 0
    /\ wake' = 0

\* Mutant: the error is caught and not thrown again.
RetryMutant(j) ==
    /\ job' = [job EXCEPT ![j] = NoJob]
    /\ UNCHANGED dropped
    /\ Leave

\* The attempt throws: BullMQ retries it later, or gives up.
Retry(j) ==
    /\ IF job[j].tries + 1 >= MaxAttempts
       THEN /\ job' = [job EXCEPT ![j] = NoJob]
            /\ dropped' = dropped \cup {job[j].msg}
       ELSE /\ job' = [job EXCEPT ![j].st = "delayed", ![j].tries = @ + 1,
                                  ![j].due = now + Backoff[job[j].tries + 1]]
            /\ UNCHANGED dropped
    /\ Leave

\* No adapter is registered for the channel.
AdapterMissing(j) ==
    /\ phase = "idle" /\ job[j].st = "ready"
    /\ Fault
    /\ Retry(j)
    /\ UNCHANGED <<now, keyVars, handed, refused, sentVars, mishaps>>

\* RESERVE_SLOT_SCRIPT, run by Redis some time after the worker asked: the slot is
\* the next free one, or the moment of asking when that has passed.
Found == IF now < expires THEN next ELSE 0
Slot  == IF Found < asked THEN asked ELSE Found

\* Mutant: the delay counts from the moment of asking.
BookMutant(delay) ==
    /\ next' = asked + delay
    /\ expires' = now + KeyLife
    /\ life' = IF now < expires THEN life ELSE life + 1
    /\ booked' = Append(booked, [at |-> Slot, life |-> life'])

Book(delay) ==
    /\ next' = Slot + delay
    /\ expires' = now + KeyLife
    /\ life' = IF now < expires THEN life ELSE life + 1
    /\ booked' = Append(booked, [at |-> Slot, life |-> life'])

\* Mutant: the wait is negated.
WaitMutant == asked - Slot

\* The wait, counted from the moment of asking.
Wait == Slot - asked

\* Redis answers: a short wait is spent here, a long one in the queue.
Reserve ==
    /\ phase = "booking"
    /\ \E delay \in MinDelay..MaxDelay : Book(delay)
    /\ job' = [job EXCEPT ![active].slot = Slot]
    /\ wake' = now + Wait
    /\ phase' = IF Wait > MaxWait THEN "rescheduling" ELSE "waiting"
    /\ asked' = 0
    /\ UNCHANGED <<now, active, handed, refused, dropped, sentVars, boundVars>>

\* Without Redis the message is sent without a slot.
ReserveFails ==
    /\ phase = "booking"
    /\ Fault
    /\ job' = [job EXCEPT ![active].slot = 0]
    /\ wake' = now
    /\ phase' = "waiting"
    /\ asked' = 0
    /\ UNCHANGED <<now, keyVars, active, handed, refused, dropped, sentVars, mishaps>>

\* Mutant: the rescheduled job is not delayed.
RescheduleEarlyMutant ==
    /\ phase = "rescheduling"
    /\ phase' = "finishing"
    /\ AddJob(NewJob("ready", job[active].msg, 0, TRUE, job[active].slot))
    /\ UNCHANGED <<now, keyVars, active, asked, wake, handed, dropped, sentVars, mishaps>>

\* Mutant: the handler goes on after it has rescheduled the message.
RescheduleAndSendMutant ==
    /\ phase = "rescheduling"
    /\ phase' = "waiting"
    /\ AddJob(NewJob("delayed", job[active].msg, wake, TRUE, job[active].slot))
    /\ UNCHANGED <<now, keyVars, active, asked, wake, handed, dropped, sentVars, mishaps>>

\* A long wait is spent in the queue, as a new job that has its slot.
Reschedule ==
    /\ phase = "rescheduling"
    /\ phase' = "finishing"
    /\ AddJob(NewJob("delayed", job[active].msg, wake, TRUE, job[active].slot))
    /\ UNCHANGED <<now, keyVars, active, asked, wake, handed, dropped, sentVars, mishaps>>

\* A short wait is over.
WaitEnds ==
    /\ phase = "waiting" /\ wake <= now
    /\ StartTyping
    /\ UNCHANGED <<now, keyVars, job, active, asked, handed, refused, dropped, sentVars,
                   boundVars>>

Sent(m) == times' = [times EXCEPT ![m] = @ + 1] /\ last' = now

Dispatch ==
    /\ phase = "typing" /\ wake <= now
    /\ Sent(job[active].msg)
    /\ phase' = "finishing"
    /\ UNCHANGED <<now, keyVars, job, active, asked, wake, handed, refused, dropped, boundVars>>

\* Typing cannot be shown or the socket is gone, or the connection breaks only after
\* WhatsApp got the message.
DispatchFails ==
    /\ phase = "typing"
    /\ \/ /\ Fault
          /\ UNCHANGED <<sentVars, mishaps>>
       \/ /\ wake <= now
          /\ Mishap
          /\ Sent(job[active].msg)
          /\ UNCHANGED faults
    /\ Retry(active)
    /\ UNCHANGED <<now, keyVars, handed, refused>>

\* The handler returns and BullMQ completes the job.
Finish ==
    /\ phase = "finishing"
    /\ job' = [job EXCEPT ![active] = NoJob]
    /\ Leave
    /\ UNCHANGED <<now, keyVars, handed, refused, dropped, sentVars, boundVars>>

\* The process dies with a job in progress; BullMQ runs a stalled job again, once.
Crash ==
    /\ active # NULL
    /\ Mishap
    /\ IF job[active].stalled
       THEN /\ job' = [job EXCEPT ![active] = NoJob]
            /\ dropped' = dropped \cup {job[active].msg}
       ELSE /\ job' = [job EXCEPT ![active].st = "ready", ![active].stalled = TRUE]
            /\ UNCHANGED dropped
    /\ Leave
    /\ UNCHANGED <<now, keyVars, handed, refused, sentVars, faults>>

-----------------------------------------------------------------------------
Next ==
    \/ Tick
    \/ \E m \in Msg : SendMessage(m)
    \/ \E j \in Job : Promote(j) \/ Take(j) \/ AdapterMissing(j)
    \/ Purge
    \/ Reserve \/ ReserveFails \/ Reschedule \/ WaitEnds
    \/ Dispatch \/ DispatchFails \/ Finish \/ Crash

Spec == Init /\ [][Next]_vars

-----------------------------------------------------------------------------
(* Properties *)

\* Slots booked under one life of the key are at least MinDelay apart, in the order
\* they were booked, however late Redis runs the script.
\* (antiBanService.ts:69, "strictly serialized per number with NO overlaps")
SlotsApart ==
    \A i, k \in DOMAIN booked :
        i < k /\ booked[i].life = booked[k].life => booked[i].at + MinDelay <= booked[k].at

\* No message is typed or sent before its slot, also when it was rescheduled, retried
\* or run again after a crash.  (whatsappQueueWorker.ts:36)
SlotIsKept == phase = "typing" => job[active].slot <= now

Queued(m) == \E j \in Job : job[j].st # "none" /\ job[j].msg = m

\* A message whose addJob calls succeeded is in the queue, or was sent, given up
\* after all its attempts or purged with its channel: never forgotten in between.
Accounted ==
    \A m \in handed \ refused : times[m] > 0 \/ Queued(m) \/ m \in dropped

\* A contact gets a message twice only if a crash, or a dispatch that threw after
\* sending, made a job run again: rescheduling alone never duplicates.
SentOnce == \A m \in Msg : times[m] <= 1 + mishaps

Waiting == {m \in Msg : Queued(m)}
Lost    == refused \cup dropped

Delivery ==
    INSTANCE DeliveryContract WITH waiting <- Waiting, lost <- Lost, out <- times

\* The outbound queue keeps DeliveryContract: a message waits while any job carries it,
\* and is lost when addJob refused it or when it was purged or given up.
\* (jobQueue.ts:92, whatsappQueueWorker.ts:20)
KeepsDelivery == Delivery!ContractSpec

\* A message that stopped waiting, delivered or lost, never comes back: no retry, stalled
\* job or reschedule queues it again, and WhatsApp does not get it once more.
\* (whatsappQueueWorker.ts:57, jobQueue.ts:92)
SettledStays ==
    [][\A m \in handed \ Waiting : m \notin Waiting' /\ times'[m] = times[m]]_vars

-----------------------------------------------------------------------------
(* What the repository says and the code does not do *)

\* Two messages of one channel are never sent within MinDelay.
\* (whatsappQueueWorker.ts:31: "Enforce minimum 5-7s gap between messages")
GapIsKept ==
    [][times' # times /\ (\E m \in Msg : times[m] > 0) => now >= last + MinDelay]_vars

\* A new slot does not come before, or too close to, one that is still ahead.
\* (antiBanService.ts:108: everybody gets "a unique, non-overlapping time slot")
BacklogIsKept ==
    [][Reserve => \A i \in DOMAIN booked :
          booked[i].at > now => booked[i].at + MinDelay <= Slot]_vars

\* A message is not lost when Redis refuses a job.
\* (jobQueue.ts:109: "Falling back to immediate processing")
NothingLost == \A m \in handed : times[m] > 0 \/ Queued(m) \/ m \in dropped

\* Stopping a channel leaves no job of it waiting.
\* (jobQueue.ts:119: "Remove all pending/waiting jobs for a specific channelId")
PurgeIsComplete == [][Purge => \A j \in Job : job'[j].st \notin {"ready", "delayed"}]_vars

=============================================================================

# Formal models of DeXMart (WhatsDeX)

DeXMart is a multi-tenant platform for WhatsApp and other chat channels, written in
TypeScript (`backend/`, `frontend/`, `shared/`, and the vendored `openclaw/`).  The
protocol logic lives in `backend/src`; this directory holds TLA+ models of it, TLC
configurations and TLAPS proofs.  Paths below are relative to `backend/src/` unless they
begin with another directory.

- [Inventory](#inventory) and [plan](#plan)
- [Modules](#modules): how state and actions correspond to the code
- [Runs](#runs), bounds and fairness
- [Proofs](#proofs)
- [Where the code and the repository's own words differ](#disagreements)
- [What the models leave out](#left-out)

To repeat the work: `tlc -workers 2 -config X.cfg M` for a row of the run tables,
`tlapm X_proofs.tla` for a proof module.

## Inventory

| component | state | operations | what is hard | what makes it correct |
|---|---|---|---|---|
| **WhatsApp connection**: `services/channels/whatsapp/WhatsappAdapter.ts`, `services/authSystem.ts`, `lib/baileysFirestoreAuth.ts` | per adapter: AuthSystem's state, client, timers, retry counter; the adapter's status, QR state and flags; credentials in Firestore | connect, disconnect, reconnect timer, handshake timer, scan timeout, socket events, saving and clearing credentials | suspended dials, late timers, events of an old socket, stops at any moment | one attempt at a time; final means final; status tells the truth; retries end; credentials saved are those paired |
| **Channel lifecycle**: `services/ChannelService.ts`, `services/channels/ChannelManager.ts`, `ChannelWatchdog.ts`, `routes/multiTenant.ts`, `server/multiTenantApp.ts` | the channel's document, the registry of adapters, the starts in progress, the watchdog's backoff | create, start, stop, delete, archive, move, heal, resume at boot, status writes | calls of users, watchdog and boot interleaved at every await; status writes nobody awaits; crashes | one dial; what is left of a stopped adapter; a stop, a deletion and a restart do what they say; calls end |
| **Outbound queue**: `services/jobQueue.ts`, `workers/whatsappQueueWorker.ts`, `services/antiBanService.ts` (velocity rule) | BullMQ's jobs, Redis' slot key, the worker's handler | queue, book a slot, wait or reschedule, type, dispatch, retry, purge | late answers, expiry of the key, retries, crashes with a job in progress, a stop in between | slots apart and kept; nothing lost; nothing sent twice without a reason |
| **Campaigns**: `jobs/campaignWorker.ts`, `services/campaignService.ts`, `services/queueService.ts`, `workers/antiBanResumeWorker.ts`, `services/antiBanService.ts` (content rule, cooldown) | the campaign's document, its jobs, a segment in progress, cooldown keys | create, start, pause, resume, delete; run a segment; cool down and resume | a pause while a segment runs, progress saved every fifth message, retries of a segment, job ids that are deduplicated | a pause stops the sending; nobody gets the message twice; a resume resumes; a campaign ends |
| **Outgoing webhooks**: `services/webhookService.ts` | per URL: failures, time of the last one, probes; deliveries nobody awaits | dispatch, attempt, back off, trip, probe, close | deliveries admitted before the circuit tripped report later; a probe slot that is not given back | one probe per cooldown; a slot belongs to a probe; the circuit closes when the endpoint is back |
| **Stripe webhook**: `controllers/stripeWebhookController.ts` | marks of events; the subscription in three documents | check, mark, handle four kinds of event, complete or fail | redelivery, concurrency and disorder; refused calls and crashes between writes | an event is handled once; completed means written; the copies agree |
| **Quota and agents**: `services/SystemAuthorityService.ts`, `services/AgentService.ts`, creation, move and deletion in `ChannelService.ts`, answers in `services/geminiAI.ts` | counters of channels, agents and messages; the documents they count | check, record; create, move, archive, delete; cascade | check and record far apart, errors that allow, cascades, moves in two writes | counters are true; a limit is passed by no more than what is in progress; nothing is lost |
| **Ingress**: `services/IngressService.ts`, `services/deduplicationService.ts`, `services/flowEngine.ts`, `services/cache.ts` | seen message ids; where each sender's dialog waits, in Redis and in memory | receive, deduplicate, resolve, resume or start a flow, wait, answer | redelivery, clock skew, concurrent handlers, Redis going away, restarts | a message is handled once; an answer goes to one question |
| group sync, other caches, rate limits, sockets, AI services, tenants, billing, other adapters, HTTP API, scheduled jobs, frontend, OpenClaw | mostly documents, or none | CRUD, requests, notifications | little of their own | not modelled, see `PROJECT.json` for the reason of each |

How they interact.  A **route** calls `ChannelService.startChannel`, `stopChannel` or
`deleteChannel`.  A start constructs a `WhatsappAdapter`, puts it into the
`ChannelManager`'s registry and calls its `connect()`; the adapter owns an `AuthSystem`,
which owns a Baileys socket and its credentials, and reports statuses to the adapter by
events; the adapter writes them to the channel's document through `ChannelService`,
without anybody waiting.  The **watchdog** and the **boot** read that document and call
`startChannel` in their turn.  `WhatsappAdapter.sendMessage` does not send: it queues a job,
and the one **worker** of the queue looks up the adapter in the registry when it is the
job's turn.  Campaigns, AI replies and the API all send that way.

## Plan

1. *(done)* **WhatsappConnection**: the protocol of one adapter, with **ReconnectContract** as
   its abstract specification.
2. *(done)* **ChannelLifecycle**: starts, stops, watchdog, boot and crashes around adapters
   that move by the rules of **AdapterLink**, which 1. is shown to keep.
3. *(done)* **OutboundQueue**: booking, rescheduling and dispatching messages of one channel.
4. *(done)* **Campaign**: segments, pause and resume, the job's deduplication, retries and
   stalls, the cooldown after repeated content.
5. **Campaign**, continued: a campaign that is left alone ends (liveness under the fairness of
   BullMQ's retries); the stored cooldown and `antiBanResumeWorker`; an audience that changes
   between two segments.
6. Composition: the registry of ChannelLifecycle with two instances of the connection, so
   that a stale adapter's `disconnect()` meets its successor (web listener, purge of the
   jobs); an abstract channel ("stopped, starting, running") for ChannelLifecycle to implement.
7. *(done)* **WebhookCircuit** with **CircuitContract**, **Quota** (check then count, moves and
   cascades), **StripeEvents** (idempotency), **Ingress** (deduplication and dialogs).
8. In ChannelLifecycle: overlapping watchdog passes, channels whose adapter reports no status
   (`syncMemoryStatus`, "Sync UP").  In Quota: messages sent by other ways than
   `processOmnichannelMessage`, `UsageGuard`.  In StripeEvents: updates that look their tenant up,
   and liveness under Stripe's redelivery.
9. Proofs: the invariants of 5. to 7. *(done for every safety invariant so far)*; what the refuted
   properties need to hold *(done for PlanIsKept, CancelIsApplied, NewIsProcessed)*; the
   queue as a delivery contract *(done)*; the rules of AdapterLink *(done)*.

Abstract specifications worth stating: the contract of one connection (done); a channel
as a lifecycle that only its user ends; a campaign as a position that only grows, with a
known lag behind what was sent; a webhook circuit (done); the delivery of a message (done).

Conventions.  A module has its constants with named assumptions, one action per piece of
code between two awaits, invariants as conjunctions of named parts, no recursive
operators; its proofs are in `<module>_proofs.tla`, its instances in `MC<module>.tla`.
Operators named `...Mutant` change one definition the way a plausible bug would; they are used by
no specification and serve to show that each property can fail.  Every `V*.cfg`
checks one property the repository claims and TLC refutes.

## Modules

### WhatsappConnection

One `WhatsappAdapter` with its `AuthSystem`.  JavaScript runs to completion between two
awaits, so an action is the code from one await, event or timer to the next; a suspended call is
*counted* (`dials`, `opening`, `closing`), because every suspended call of one kind resumes the
same way.

| variables | code |
|---|---|
| `authState`, `client`, `attempts`, `connectTimeout`, `heartbeat` | the fields of AuthSystem (`authSystem.ts:34-43`) |
| `timers` | pending `reconnectTimer`s: the field keeps only the last handle, so they are counted |
| `dials` | `AuthSystem.connect` suspended in its awaits, by caller: the adapter or a timer |
| `sock`, `hooked` | the Baileys sockets and whether `connection.update` still has a handler |
| `mem`, `target`, `forced`, `unsaved`, `stored`, `clearing` | credentials: those of the socket, the object `saveCreds` writes, writes in flight, the Firestore document |
| `opening`, `closing`, `isDisconnecting`, `held`, `forwarding`, `status`, `qrCount`, `qrRender`, `qrTimer` | WhatsappAdapter's calls and fields |

Actions follow the code: `AdapterConnect`, `ListenerLoaded`, `AdapterDialSucceeds` are
`WhatsappAdapter.connect` cut at its awaits, and `AttachReturns` its tail, whose awaits between the
attachments to the socket are one (what matters is whether the socket was let go meanwhile); `BeginDial`, `NewSocket`, `DialFails` are
`AuthSystem.connect`; `QrShown`, `Opened`, `Closed` the handler of `connection.update`, with
`CloseFinal` and `CloseRetry` its two endings; `HandshakeTimeout`, `ReconnectTimerFires`,
`QrTimeout` the timers; `BeginDisconnect`, `FinishDisconnect` the halves of `disconnect()`.
`Paired`, the reason of a close and when things happen belong to WhatsApp and Baileys.

`EndReportsClose` says whether `end()` still delivers a close event to an attached handler; Baileys
does so for a socket that is not closed yet, the passing runs use TRUE, some counterexamples
are shown with FALSE because they do not depend on it.

**ReconnectContract** is what the connection promises to its channel: one attempt (`phase`) that
starts once, retries at most `MaxReconnect` times between two successes and does not come back once
it is over.  WhatsappConnection implements it under `Phase`, which reads the phase off
the flags, timers and sockets.

### AdapterLink

What an adapter is doing, as its owner can tell it, in seven states: `built`, `loading` the listener
module, `dialing` (a dial that its `connect()` awaits), `held` (the socket of that dial lives),
`redialing` and `redialed` (AuthSystem reconnects; the adapter never holds such a socket), `over`.
`Loads`, `DialReturns`, `OwnMoves` and `StopMoves` say how it can change: by `connect()`, by itself, and
by the second half of a `disconnect()`.  The point is what a stop leaves: an interrupted dial ends its
socket while AuthSystem's handler is attached, which answers with a reconnect (`authSystem.ts:198`),
and so does the end of a socket that a reconnect dialled, or a reconnect dial that is suspended
during the stop.  Only the socket of the adapter's own dial, once held, is unhooked before it is ended.

ChannelLifecycle moves its adapters by these rules.  WhatsappConnection reads the state off its own
variables (`LinkState`), and its property `KeepsLink` says that every step of the protocol is one the
rules allow; it is checked and proved, so the abstraction is not taken on trust.

### ChannelLifecycle

One channel: its document (`doc`), the registry (`registry`), the one start in progress
(`starting`, `built`), the position of every caller (`pc`: users, the watchdog, the boot), the
adapter a suspended `shutdownAdapter` waits for (`victim`), the watchdog's backoff (`attempts`,
`cooldown`), and the adapters: what each is doing (`link`, a state of AdapterLink), whether it was told to
stop (`told`: `isDisconnecting`), whether its status events are listened to (`heard`), and whether its
scan timeout is inside `disconnect()` (`expiring`).

`BeginStart` and `EndStart` are `startChannel`; `StartReads` to `StartFails` are `_doStartChannel`, one
action per await: `StartLoads`, `StartDials` and `StartAttaches` are the awaits of the adapter's
`connect()`.  An adapter that was stopped while it dialled returns without an error
(`WhatsappAdapter.ts:209`), so that the start counts as done, and its reconnect is its own.
`TellToStop` and `Deregister` are the two halves of `shutdownAdapter`: the first marks the adapter and
unhooks its events, the second follows its `disconnect()`.  `UserStops`, `StopDeregisters`, `StopStores`
are `stopChannel` and `deleteChannel` (which differ in what they store).  `AdapterMoves` is what an
adapter does by itself, also when nobody knows of it any more; `AdapterReports` a status event,
`ExpireScan` and `ExpiryEnds` the scan timeout.  `Report` and `WriteLands` are a status write that nobody
awaits, which can be overtaken and can fail; `Lists`, `WatchdogDecides`, `WatchdogMarks` one pass
of `checkChannels`; `BootResumes`, `Lists`, `BootDecides` are `resumeActiveChannels`; `Crash` loses
everything but the document.

### OutboundQueue

One channel's messages through `whatsapp-outbound`.  `job` is the queue; `active`, `phase`,
`asked`, `wake` the one handler (the queue's concurrency is 1); `next`, `expires` the
slot key in Redis.  `booked`, `life`, `refused`, `dropped`, `times`, `last` and a job's `slot` are
history.  The clock `now` counts in units of about 2.5 s; timers are lower bounds only.

`SendMessage` is `WhatsappAdapter.sendMessage` with `AddJob`; `Take`, `Reserve`, `Reschedule`,
`WaitEnds`, `Dispatch`, `Finish` are the handler cut at its awaits; `Book`, `Slot`, `Wait` are
`RESERVE_SLOT_SCRIPT`, run with the clock reading `asked` the worker sent, some time later; `Retry` is
what BullMQ does with a handler that throws; `Purge` is `removeJobsByChannelId`; `Crash` is
a stalled job, which BullMQ runs again once.

`PurgeSeesReady` says whether `getJobs(['waiting', ...])` lists jobs that have a priority.
All jobs of this queue have priority 10 (`jobQueue.ts:41,78`), and BullMQ 5
keeps those in a set of its own, so the runs use FALSE.

**DeliveryContract** is what the queue promises about a message, without slots, jobs, attempts and
the clock: once accepted it waits until it is delivered or known to be lost, each crash (or send that
throws after the delivery) excuses one more delivery, and a message that stopped waiting never comes
back.  OutboundQueue implements it under `Waiting`, the messages some job carries, and `Lost`, those
that were refused, purged or given up.  A message may be lost and still wait: BullMQ gives up a job
whose rescheduled copy is in the queue.

### Campaign

One campaign: its document (`doc`: whether it exists, its status, and `count`, the sum of sent
and failed), its one job in BullMQ (`job`), the handlers of the worker (`run`: the await each is
suspended in, the position in the audience, the end of the segment, the count it carries) and
the calls of `startCampaign` and `resumeCampaign` (`user`).  `handled`, `late`, `miscounted` and
`lost` are history.

`StartReads`, `ResumeReads`, `UserWrites`, `AddJob` are the service's calls cut at their awaits;
`Pause` and `Delete` are one write each.  `Take` to `Marks` are `processCampaign` up to the loop,
`Checks` to `PartingFails` the loop (a contact is *checking*, *sending*, *saving*, or in the
*cooling* and *parting* of the content rule), `Requeues` to `Reports` what follows it.  `Completes`
and `Fails` are BullMQ's part: a completed job is removed, a failed one is retried or stays under
its id.  `Stall` takes the job from a handler that died, or from one that lost its lock and goes on
working; two handlers can work at once only after the latter.

### WebhookCircuit

One URL: `failures`, `cooled` (is `COOLDOWN_MS` over since `lastFailureAt`?) and `probes` are the three
maps of the breaker, `call` the deliveries of `sendWebhook`, each posting or waiting in its backoff.
`Send` and `SendProbe` are `isOpen` with the two ways it lets a delivery through; `PostSucceeds`,
`PostFails` and `BackoffEnds` the loop of attempts; `Cool` is time, `Restart` loses everything.
`overrun` is history: deliveries still at work when a cooldown ended.

**CircuitContract** is a circuit with four states, *closed, open, cooled, half-open*: no probe before a
whole cooldown since the last failure, and one per cooldown.  WebhookCircuit implements it under
`CircuitState`.

### Quota

One tenant: the channel documents (`docs`, under an agent), `agents`, the three counters the limits
are compared with (`counter`), and the requests (`call`).  A request checks first, writes, and
counts last; each await between is a step: `CreateChannel`, `StoreChannel`, `CountChannel` are
`createChannel`, and likewise `DeleteChannel` to `ArchiveChannel`, `MoveChannel` to `RemoveSource`,
`CreateAgent` to `CountAgent`, `DeleteAgent` to `UncountAgent` with its cascade through
`deleteChannel`, `Answer` and `CountAnswer`.  `Refused` is a call Firestore refuses, `Crash` ends all
requests where they are; a fault may hit any call, also the check (which then allows) and the count
(which is then skipped).  `MergeChannel` is a write that needs no request: a status
(`updateChannel`) or a statistic (`incrementChannelStat`) of an adapter, merged under the agent the adapter
was started with, without a look-up.  Where the document is there it changes nothing the module knows of; where
it is not (the channel was deleted or moved, or never was under that agent) it is brought about, and nobody counts it.

`fate`, `revived`, `haunted` and `mismatch` are history: `revived` counts the documents so brought about,
`haunted` are the channels they are of, and `mismatch` says that a
write met a document that should not be there (also one that was brought about), or a deletion none.

### StripeEvents

One tenant and one subscription.  `events` and `acked` are Stripe's; `mark` is the collection
`stripe_events`; `run` the requests at work; `root`, `sub`, `user` the documents that copy the subscription,
each with the version it holds.  `Check`, `Mark`, `Close`, `Fail` are `handleStripeWebhook` cut at its
awaits, `Duplicate` its early answer, `Query` to `ResetUsage` the awaits of the four handlers, shared
where they do the same.  `Unanswered` is a refused call outside the try block.  `SessionNamesTenant`
says whether the checkout session carries a tenantId: the handlers expect it (TRUE, in the passing run),
`billingService.ts` does not send it (FALSE, in the run that ends in a violation).

### Ingress

`seen` is the cache of the DeduplicationService, `run` the calls of `handleCommonMessage`, `redis` and
`memory` the two places of `CacheService` that hold where a sender's dialog waits.  `Receive` is
`shouldProcess`; `Resolve` the look-ups before the flows; `Ask`, `Clear`, `Wait`, `Finish` are `executeFlow`
for the flow the loop has reached, `Fail` its catch block, which loses the dialog and lets the loop go on,
`NextFlow` the loop, `Answer` what follows it.  A position in a dialog is the
path of messages that led there, so that two properties can speak of it: who answered which question.
`passed`, `answered`, `orderly`, `restarted` are history.

## Runs

Passing runs (each checks what it names under *properties*):

| run | configuration | bounds | properties |
|---|---|---|---|
| connection | `MCWhatsappConnection.cfg` | 2 sockets, 2 retries, 1 disconnect suspended at a time, 1 QR code rendering | TypeOK, OneAttempt, FinalIsFinal, SessionIsReal, KeepsLink, ImplementsContract, RetriesRunOut, HandshakeEnds |
| channel_safety | `MCChannelLifecycle.cfg` | 2 users, 2 adapters, 2 heals, 1 write in flight, 1 failure, 1 crash; adapters report "connecting" and "connected" | TypeOK, RegisterIsFresh, OneDial, StoppedIsTakenDown |
| channel_liveness | `MCChannelLiveness.cfg` | 1 user, 2 adapters, 1 heal, 1 write in flight, 1 crash; adapters report "qr_pending" | CallsEnd, DeadIsHealed |
| outbound_safety | `MCOutboundQueue.cfg` | 2 messages, 3 jobs, clock up to 6, 2 attempts, 1 failure, 1 crash or duplicate receipt; the delays are scaled so that short waits, long waits and expiry of the key all occur | TypeOK, SlotsApart, SlotIsKept, SentOnce, KeepsDelivery |
| campaign | `MCCampaign.cfg` | 2 handlers, 2 calls of the service at a time, 4 contacts in segments of 3, a look every 2nd contact, 2 attempts, 1 stall, 1 fault | TypeOK, NoneSkipped, OneRun, PauseIsSeen |
| webhooks | `MCWebhookCircuit.cfg` | 3 deliveries, threshold 3, 1 probe, 3 attempts (the code's own, but for the threshold of 5) | TypeOK, SlotIsOwned, ProbeIsAlone, KeepsContract, Recovers |
| quota | `MCQuota.cfg` | 2 requests, the default agent and 2 others, 2 channels, limits of 1, 1 fault, 1 document brought about by a merging write | TypeOK, CountersAreTrue, OvershootIsBounded, NeverLost, OneHome |
| stripe | `MCStripeEvents.cfg` | 2 deliveries at work, 3 events, 1 fault | TypeOK, HandledOnce, CompletedIsWritten, CopiesAgree |
| ingress | `MCIngress.cfg` | 2 handlers, 4 messages of 2 senders, 2 flows of at most 2 questions, skew 1 and lifetime 2, clock up to 4 | TypeOK, HandledOnce, OneStepEach |

What they show.  *connection*: whatever WhatsApp, the timers and the owner do, one adapter never
runs two attempts, never comes back after a final status, believes in a session only while there is one,
keeps the rules of AdapterLink and stops retrying.  *channel*: however users, watchdog and boot interleave, two starts
never dial at a time, and no adapter is replaced in the registry while it is still there; of an adapter that was told
to stop nothing is left but a reconnect of AuthSystem, once those who told it are done (that this may be left, and
bring the adapter back, is among the [disagreements](#disagreements)); no caller hangs.  *outbound*:
slots are apart while the key lives, a message waits for its slot through every retry and
rescheduling, and the queue is a DeliveryContract: nothing it accepted disappears without a delivery or a
reported loss.  *campaign*: progress that was saved never
covers a contact that was not handled, except after a save that failed; resuming a paused
campaign never puts a second handler on it; a pause takes effect after at most `CheckEvery` messages.
*webhooks*: every taken probe slot has its probe, the breaker is a CircuitContract, and it closes for good
once the endpoint stays up; only the probe can report to a half-open circuit, as long as timeouts are kept.
*quota*: without faults the counters are what exists, up to requests that have written and not yet
counted and to the documents that merging writes have brought about, one each; a limit is passed by no more than the
other requests in progress, and the channel limit by one more for each such document; apart from the channels so
haunted each is under one agent; a crash in a move leaves a channel twice, never not at all.  *stripe*: neither a redelivery nor a crash handles an event again, only two
deliveries between check and mark do; an update that is *completed* has written its documents; the copies agree as long as
handlers do not overlap and no call fails.  *ingress*: the ten minutes an id is kept cover exactly the
five minutes of skew on either side, so that no redelivery passes twice; a message answers one question as long as the process lives, however many
messages of its sender are handled at once; a question gets one answer as long as, in addition, Redis stays and a
sender's messages come one at a time.

Why these bounds.  A new socket takes the identity of one that is closed, that the adapter does not hold and whose
credentials are not being saved.  `OneAttempt` says that when a dial comes back no socket is alive, so of two one is
free, unless the adapter holds one and a write of the other's credentials is still in flight: only
then does a redial wait for that write, which TLC therefore does not see overtaken; the proofs, which fix no number of sockets,
do.  Two retries separate "first", "again" and "exhausted".  One QR code rendering is enough for the properties of
the run, none of which counts codes.  A channel needs two overlapping requests and the watchdog, and
the adapter being replaced next to its successor; a third start takes over the identity of an adapter that is over or, when
there is none, of one that nobody knows of any more, which is then no longer followed (the proofs need no such bound).  Of the statuses
that adapters report (`Says`), a run has those its properties depend on; by hand the safety run was also checked
with two failures and one heal, and the liveness run with one failure and no crash.  The queue needs a
message that overtakes or is overtaken by one other, and a third job identity so that a
rescheduled message can be in the queue while the job that rescheduled it is finishing.
The campaign has two segments, the second of which does not begin at a
multiple of `CheckEvery`, and a segment longer than `CheckEvery`, so that looks, saves and ends of segments
fall on different contacts; a start and a resume can overlap; a second handler exists only after a lost lock, which is the one fault then.
Three deliveries can trip the circuit one after the other while another one is left over to report late.  Two
requests and limits of 1 let both pass a check before either counts, or meet in the middle of a move or a cascade, and two channels
keep a cascade from being one deletion; one document brought about by a merging write shows in every counter.  A checkout, an update and the end of a subscription are three events, and two deliveries overlap
in every pair of awaits.  One sender starts a dialog, answers and answers again, with a keyword of the other flow among the
answers; the other sender's message shares an id; the clock reaches beyond the time an id is kept.
The bounded counters (`MaxClosing`, `MaxRender`, `MaxWrites`, `MaxFaults`, `MaxCrashes`, `MaxTime`,
`MaxMishaps`, `MaxEvents`, `MaxRevived`, `Horizon`) and Quota's `Free` (after a mismatch no request starts, since
every property is about the time before it) are guards named in the modules; `MaxReconnect`, `MaxHeal`, `MaxAttempts` are the
code's own limits made small.  Deadlock is not checked: a channel may come to rest, and bounds
are reached.

**Fairness.**  *Connection*: pending timers fire, awaited calls return (with or without success), an
ended socket reports its end.  Nothing is assumed of WhatsApp, the user who scans, or the
owner who stops.  *Channel*: awaited calls return, the interval ticks, a cooldown passes, a
restarted process boots, writes land or fail.  Nothing is assumed of requests and of how
long a session lives.  *Webhooks*: posts end (they have a timeout of 5 s), backoffs fire, a cooldown passes, and
events keep coming for the hook.  The other modules are checked for safety only.  Node's event loop and the timeouts of the client libraries justify it.

Runs that end in a violation are listed [below](#disagreements).

## Proofs

For every value of the constants that satisfies the modules' assumptions:

| theorem | statement | argument |
|---|---|---|
| `WhatsappConnection_proofs`: TypeCorrect, OneAttemptCorrect, FinalIsFinalCorrect, SessionIsRealCorrect | the safety invariants of the run `connection` | one inductive invariant, proved action by action: it adds to the properties which of dial, timer and socket stands for the attempt, what a socket that is still hooked implies for `authState` and `client`, and that a final status leaves nothing suspended |
| KeepsLinkCorrect | `Spec => KeepsLink`: every step of the protocol is one that AdapterLink allows | under the invariant `LinkState` is read off one attempt at a time; a stopped adapter does not listen to the socket it holds, a socket that it does not hold is a reconnect's, and each action is compared with the rule it falls under |
| ContractImplemented | `Spec => Contract!ContractSpec` | initial states map to initial states; under the invariant each action is a contract step or a stutter |
| `ChannelLifecycle_proofs`: TypeCorrect, RegisterIsFreshCorrect, OneDialCorrect, StoppedIsTakenDownCorrect | the properties of channel_safety | RegisterIsFresh rests on `starting` not being "no" whenever an adapter is built and on `startChannel` being the only caller of registerAdapter; OneDial on `built` being the only adapter that loads or dials, and on being in the state that `starting` says; taken down: whoever was told to stop is held by a shutdown or by its scan timeout, or the start still awaits its dial, and the second half of a `disconnect()` ends the socket that the adapter holds.  The moves of the adapters are the rules of AdapterLink, so the proofs stand on KeepsLink |
| `OutboundQueue_proofs`: TypeCorrect, SlotsApartCorrect, SlotIsKeptCorrect, AccountedCorrect, SentOnceCorrect | the invariants of outbound_safety, and `Accounted`: a message handed over is in the queue, sent, refused or dropped | *types*: an active job has a message and the handler has an active job; *apart*: as long as the key lives, all slots of that life are at least MinDelay behind `next`; *kept*: a wait reaches at least to the slot booked before it, and a job that skips the booking is due no earlier than its slot; *accounted*: while a handler is about to finish, its message was sent, refused or dropped, or is in another job; *once*: how often a message was sent, plus the jobs that could still send it, never exceeds one and the number of mishaps |
| `OutboundQueue_proofs`: KeepsDeliveryCorrect, SettledStaysCorrect | `Spec => Delivery!ContractSpec`; and a message that has stopped waiting is never queued or sent again | step by step from the invariant: a step that is no hand-over only takes messages out of the queue, each of them sent or dropped, and a send is excused by the count of *once*; the second is read off the same steps |
| `Campaign_proofs`: TypeCorrect, OneRunCorrect, NoneSkippedCorrect, PauseIsSeenCorrect | all properties of the run `campaign` | *types*: in the loop the position is inside the segment, and a job that will run again has an attempt left; *one run*: inductive as it stands; *none skipped*: the count each handler carries is itself gapless, and equals its position (or the next one, while saving); *pause*: a handler is at most as late as its position is from the last multiple of `CheckEvery`, and not at all unless the document says paused; the arithmetic of remainders is proved first |
| `WebhookCircuit_proofs`: TypeCorrect, SlotIsOwnedCorrect, ProbeIsAloneCorrect, KeepsContractCorrect | the safety properties of webhooks, and the refinement | *owned*: taking a slot adds a probe, and every end of a probe resets the slots; *alone*: when a cooldown ends, whoever is at work is recorded as late, and nobody enters a tripped circuit but as a probe; *contract*: each action is a step of the contract or a stutter |
| `Quota_proofs`: TypeCorrect, CountersAreTrueCorrect, OvershootIsBoundedCorrect, NeverLostCorrect, OneHomeCorrect | all properties of quota | cardinalities of the documents and of the sets of requests in each await, with lemmas on what adding or moving one element does to them, and one unit for each document that a merging write brought about; *lost* and *home* rest on where the document of a channel is in each await of a request that moves or deletes it |
| `StripeEvents_proofs`: TypeCorrect, HandledOnceCorrect, CompletedIsWrittenCorrect, CopiesAgreeCorrect, SubIsLinkedCorrect | all properties of stripe, and: a subscription document never exists without a tenant that points to it | *once*: an event that is not marked has started no handler, and at most one delivery of an event that never overlapped is about to mark it; *written*: what the position of a handler says about what it has written; *agree*: a handler alone carries, between its writes, a version that is at least as new as every change marked so far, which holds because events come in order and an event is acknowledged only once it is marked |
| `Ingress_proofs`: TypeCorrect, HandledOnceCorrect, OneStepEachCorrect | all properties of ingress | *once*: a message that passed is remembered until it is too old to pass; *one step*: a message at work is in no stored path, and while everything is in order a question is stored at most where it waits and answered once it is gone |

What goes beyond the runs.  These properties are stated in the modules, hold of every instance TLC was
given (by hand, on the MC modules) and are proved, but are no run's:

| theorem | statement | argument |
|---|---|---|
| `WhatsappConnection_proofs`: HandshakeIsWatchedCorrect | while `authState` is "connecting", the 30 s timer is armed, a QR code was shown, or a disconnect is under way | whoever closes has set `isDisconnecting`; a socket that shows a QR code without being listened to is one that is being closed |
| DisconnectIsFinalCorrect | a `disconnect()` that meets no suspended `connect()` or dial, and no socket whose close it would still hear, leaves nothing that can bring the adapter back | OneAttempt leaves at most one timer for it to clear, ClientIsLive at most one socket; a socket is left ending only if its end reports, and then nobody listens; this `NothingLeft` is stable.  The hypotheses are needed: `VStopIsFinal` is the suspended dial, and TLC shows the `connect()` that is still loading its module |
| ConnectedIsReportedCorrect | while the adapter listens, an authenticated session is shown as connected | no later status event belongs to the same session; of the time between the scan and the session it says nothing (PairedIsLeftAlone is refuted) |
| SavedAsPairedCorrect | without `forceNewSession`, `saveCreds` writes what the socket paired | only a forced session parts the two objects, so `VPairingIsSaved` needs one |
| `ChannelLifecycle_proofs`: AwaitedIsRunningCorrect | whoever awaits a start awaits one in progress, and a shutdown holds what it takes down | the place of each caller determines `starting` and `victim`; `CallsEnd` rests on it |
| `Campaign_proofs`: ProgressGrowsCorrect, SavedIsDoneCorrect | while a handler keeps its lock, saved progress does not go back (but by deletion, or completion over an empty audience), and no contact whose turn was saved is messaged again | the count and the position a handler carries are never behind the document |
| `Quota_proofs`: PlanIsKeptWhenSerial | if requests come one after the other and no call fails, the message limit is not passed | the answer in progress was checked against the counter as it still is |
| `StripeEvents_proofs`: CancelIsAppliedWithTenant | `SessionNamesTenant => (Spec => []CancelIsApplied)` | events in order end with the cancellation; the checkout before it links the tenant, and the cancellation finds it and writes both documents |
| `Ingress_proofs`: NewIsProcessedByUniqueId | if no two messages have the same id, a message in time that is refused was let through before | an id is remembered only by the message that passed with it |

Those with a hypothesis say what the code needs for a claim that its `V*.cfg` refutes; the hypothesis is one the deployment
can meet (one request at a time, a tenantId in the session, ids that are unique across chats) and today does not.

The assumptions are those named in the modules: the sentinel is not a member of the set it marks,
sizes are positive, bounds are natural numbers, and, for the deduplication, an id is kept for at least twice the tolerated
skew (`TtlAssumption`: 10 and 5 minutes in the code).  Each property alone is too weak to be inductive (an
attempt can be a dial, a timer or a socket; a slot can be in a job that is not yet in the queue;
a count can be in a handler that has not saved it), which is what the invariants add.

Every safety property of a passing run is proved, from no other assumptions.  Only model-checked: liveness (beyond the
prover) and the refuted properties, which have counterexamples.

## Disagreements

Each row is one thing a comment or a document of the repository says; TLC refutes it on the
MC module of its component, under the cfg named or, where the module is named, under its MC cfg with this property as the only one.  Three of them are runs of `PROJECT.json` (marked with a run's name),
with the quotation and the explanation under "findings"; the others are checked by hand in the same way, and
the comment above the property in the module quotes what it states.

| configuration | run | what is refuted | why |
|---|---|---|---|
| `VNeverStranded` | | a closed connection is retried until it opens, is given up or is stopped | a failed redial, or a handshake timeout, schedules nothing |
| `VPairingIsSaved` | | saved credentials are those paired | `forceNewSession` replaces the object `saveCreds` holds on to |
| `VNoZombie` | | a live session belongs to the registered adapter | deregistering is by key, after an await; and a stopped adapter that reconnects is registered nowhere |
| `VConnectedIsRestored` | | the boot restarts connected channels | they are listed as disconnected while memory is empty |
| `VBacklogIsKept` | | slots do not overlap | the key expires before a long backlog is sent |
| `VNobodyTwice` | | nobody gets a campaign's message twice | a pause returns without saving what was sent since the last save |
| `VBatchesGoOn` | v_batches_go_on | a campaign pauses between segments and goes on | queueing the next segment throws, and the attempts run out |
| `VCancelIsApplied` | v_cancel_is_applied | a cancelled subscription ends the user's access | the session carries no tenantId, so no tenant is linked to the subscription (CancelIsAppliedWithTenant: with it, it does) |
| `VNewIsProcessed` | v_new_is_processed | a new message is processed | its id is compared with those of all chats, channels and tenants (NewIsProcessedByUniqueId) |
| `VStopIsFinal` | | no session after `disconnect()` | a reconnect dial that is suspended is not aborted, and an interrupted dial is answered by a reconnect |
| StoppedNeverLives (ChannelLifecycle) | | a stopped adapter has no session again | the same, seen from its channel: the socket of the interrupted dial is ended with its handler attached |
| `VPairedIsLeftAlone` | | the scan timeout stops only a channel whose code was not scanned | between the scan and the session the status is still "qr_pending" |
| `VQrWaitIsTimed` | | a QR code waits with its timeout running | it is armed for the first code of a `connect()` only |
| ShownIsConnected (WhatsappConnection) | | "connected" is shown while connected | a close emits no status |
| `VDeletedStaysDeleted` | | a deleted channel has no document | a status write merges into it afterwards |
| `VStoppedIsLeftAlone` | | the watchdog leaves stopped channels alone | it acts on what it listed earlier |
| RunningIsAlive (ChannelLifecycle) | | what is "already running" is alive | after the scan timeout the adapter stays registered |
| `VGapIsKept` | | messages of a channel are MinDelay apart | typing, retries and rescheduled jobs come after the slot |
| NothingLost (OutboundQueue) | | a refused job is processed otherwise | it is only logged |
| `VPurgeIsComplete` | | a stopped channel has no jobs left | ready jobs are not listed as waiting |
| `VResumeIsQueued` | | resuming adds the job | the id of a failed job is known and the addition ignored |
| `VPauseHolds` | | a paused campaign stays paused until a user changes it | the worker writes 'sending' over it |
| `VOpenIsQuiet` | | an open circuit posts nothing but its probe | deliveries in their backoff post again without asking |
| `VLimitHoldsInTurn` | | requests in turn, without faults, do not pass the channel limit | a late status or statistics write creates a document that nobody counts: a deleted channel is back, or a moved one has a second home whose deletion gives a slot back |
| `VPlanIsKept` | | concurrent messages do not pass the plan's limit | it is checked long before it is counted (PlanIsKeptWhenSerial) |

Three more disagreements were met while modelling, and are part of the models without a configuration of their own: two
opposite moves of a channel at the same time can delete both of its documents (Quota's `mismatch`); deleting an agent
that does not exist counts it down; a failed Stripe event is marked, so that its redelivery counts as processed
(StripeEvents' `Duplicate`).

## Left out

*Everywhere*: logging, statistics, notifications to the dashboard, wording.  Firestore and
Redis calls are steps that may be late and may fail; their clients retry within
that step.

*WhatsappConnection*: `client.end()` does not throw; `connect()` of an adapter is called once
(`ChannelService.ts:349`, each start constructs a new one); messages, presence, always-online,
group sync, the discovered phone number, pairing codes and `updatePath` are left out; whether the
"open" event carries `me` is a free choice; credentials are fresh, from an earlier pairing, or from
this one; the keys of the signal store are not modelled; status writes belong to
ChannelLifecycle.

*ChannelLifecycle*: one tenant, one agent, one WhatsApp channel (channels of other types, whose
status `startChannel` writes itself, are planned; the documents `moveChannel` writes are in Quota); one watchdog pass at a time;
an adapter that nobody knows of is followed only as long as there is an identity for it; the statuses that nothing tells apart are
one, *dormant* (disconnected, archived, logged_out, banned, reconnect_exhausted) and *unready* (initializing, error);
a QR picture that is still being rendered when a `disconnect()` begins can arm the scan timeout again, whose expiry disconnects
the same adapter a second time and writes "disconnected" once more, which is left out; writes in flight are a set; an adapter that is over is reused as a new one.  The watchdog's
`shutdownAdapter` before a heal finds nothing to shut down, since it has just looked.

*OutboundQueue*: one channel and one process; Redis' clock is the worker's; the removal of jobs
by a purge is one step; the identity of a removed job is reused; `removeOnComplete` keeps completed
jobs, which nothing reads; BullMQ (promotion, retries with backoff, one re-run of a stalled job) is
external.

*Campaign*: one campaign and its audience, which does not change (the code reads it again for every
segment); sent and failed are one number; the total is stored but not read, pending is not
modelled; template, working hours, channels, the failure of a send and the
content rule's counter are free choices; the cooldown's metadata and `antiBanResumeWorker` are
left out, since without a campaign id in that metadata the worker reaches no document; the limiter, the
delays between messages and BullMQ's backoff are only time; a message counts as handled when it is handed to the
outbound queue; `duplicateCampaign` creates another campaign.

*WebhookCircuit*: one URL; the hooks' own creation and deletion, signatures and payloads are left out;
that a delivery keeps its timeouts is not assumed, but recorded in `overrun`.

*Quota*: one tenant and its plan; Firestore's increments are atomic; the adapters a deletion shuts down belong to
ChannelLifecycle; a new channel's id is random and so never used before, and nobody patches or counts for an id that never was one (the route
that patches takes any id); reads of a document that only
decide whether a request exists are part of the step that begins it.

*StripeEvents*: one subscription of one tenant; an update carries its tenantId (`subscription_data.metadata` does);
signatures, other kinds of events and the portal are left out; nothing is assumed of when Stripe delivers, so nothing
is said about an event being handled in the end.

*Ingress*: `handleMessage`, WhatsApp's own entry, has the same skeleton, except that an automation does not end it;
branches and nodes of a flow are a choice between waiting, ending and throwing; a branch that throws after another
one has stored its wait is left out; senders of different channels or tenants that share a jid share a dialog, as in the code (`flow:state:<jid>`).

*The rest of the repository.*  Most of its lines are `openclaw/` (a vendored upstream project), the Next.js
frontend, documents and data.  The models cover the backend's own stateful protocols; what the backend holds besides is listed in
`PROJECT.json` with the reason it is not modelled.

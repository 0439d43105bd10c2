---------------------------- MODULE ChannelLifecycle ----------------------------
(***************************************************************************)
(* The life of one WhatsApp channel: ChannelService's start, stop, delete, *)
(* the ChannelManager registry of adapters, the ChannelWatchdog, the boot- *)
(* time resume and the channel's Firestore document.                       *)
(*                                                                         *)
(* Calls overlap: each is cut at its awaits.  What an adapter is doing is  *)
(* a Link, which moves by the rules of AdapterLink (WhatsappConnection has *)
(* the whole protocol and keeps them); Firestore is one document whose     *)
(* writes can be slow, overtake each other and fail.                       *)
(***************************************************************************)
EXTENDS AdapterLink, Naturals, FiniteSets

CONSTANTS
    User,         \* API requests that can be served at one time
    Adapter,      \* bound: adapters followed at one time
    NULL,         \* no adapter
    Says,         \* bound: statuses that adapters report, of those that matter
    MaxHeal,      \* failed heals after which the watchdog gives up (7 in the code)
    MaxWrites,    \* bound: status writes of adapters in flight
    MaxFaults,    \* bound: failing awaits
    MaxCrashes    \* bound: process restarts

ASSUME NullAssumption ==
    /\ NULL \notin Adapter
    /\ User \cap {"watchdog", "boot", "start"} = {}
ASSUME BoundAssumption ==
    /\ MaxHeal \in Nat /\ MaxWrites \in Nat /\ MaxFaults \in Nat /\ MaxCrashes \in Nat

\* Statuses that nothing here tells apart: disconnected, archived, logged_out, banned
\* and reconnect_exhausted; initializing and error.
Dormant  == "dormant"
Unready  == "unready"
Dialling == {Unready, "connecting"}              \* reported while a dial goes on
Reported == Dialling \cup {"qr_pending", "connected"}
Status   == Reported \cup {Dormant}

ASSUME SaysAssumption == Says \subseteq Reported

VARIABLES
    doc,              \* the status in the channel's document, or "absent"
    writes,           \* statuses of adapters on their way to the document
    registry,         \* ChannelManager's adapter for this channel, or NULL
    link,             \* what each adapter is doing
    told,             \* adapters that were told to stop: isDisconnecting
    heard,            \* adapters whose status events are listened to
    expiring,         \* adapters whose scan timeout is inside its disconnect()
    starting,         \* where the one _doStartChannel is, "no" if there is none
    built,            \* the adapter it constructed
    pc,               \* where each caller is
    victim,           \* the adapter a suspended shutdownAdapter shuts down
    attempts,         \* the watchdog's failed heals of this channel
    cooldown,         \* its next heal has to wait
    booted,           \* resumeActiveChannels was called in this process
    faults, crashes

linkVars  == <<link, told, heard, expiring>>
memVars   == <<registry, linkVars>>
startVars == <<starting, built>>
dogVars   == <<attempts, cooldown>>
envVars   == <<booted, faults, crashes>>
vars == <<doc, writes, memVars, startVars, pc, victim, dogVars, envVars>>

Call     == User \cup {"watchdog", "boot"}
Stopper  == User \cup {"start"}      \* who calls shutdownAdapter on something alive

DataOK ==
    /\ doc \in Status \cup {"absent"}
    /\ writes \subseteq Status
    /\ registry \in Adapter \cup {NULL}
    /\ link \in [Adapter -> Link]
    /\ told \subseteq Adapter /\ heard \subseteq Adapter /\ expiring \subseteq Adapter
    /\ starting \in {"no", "reading", "initializing", "loading", "dialing", "attaching",
                     "cleaning", "failing"}
    /\ built \in Adapter \cup {NULL}
    /\ pc \in [Call -> {"idle", "awaiting", "stopping", "storing", "listing", "deciding",
                        "marking"}]
    /\ victim \in [Stopper -> Adapter \cup {NULL}]
    /\ attempts \in Nat
    /\ faults \in Nat
    /\ crashes \in Nat

BoolOK == cooldown \in BOOLEAN /\ booted \in BOOLEAN

TypeOK == DataOK /\ BoolOK

\* The channel has just been created and the process is running.
Init ==
    /\ doc = Dormant
    /\ writes = {}
    /\ registry = NULL
    /\ link = [a \in Adapter |-> "over"]
    /\ told = {} /\ heard = {} /\ expiring = {}
    /\ starting = "no"
    /\ built = NULL
    /\ pc = [c \in Call |-> "idle"]
    /\ victim = [s \in Stopper |-> NULL]
    /\ attempts = 0
    /\ cooldown = FALSE
    /\ booted = TRUE
    /\ faults = 0
    /\ crashes = 0

Fault == faults < MaxFaults /\ faults' = faults + 1

\* Requests are accepted, and the watchdog ticks, once the boot has resumed channels.
Serving == booted /\ pc["boot"] = "idle"

\* Somebody is inside the adapter's disconnect().
Holds(a) == a \in expiring \/ \E s \in Stopper : victim[s] = a

-----------------------------------------------------------------------------
(* startChannel *)

\* Mutant: only a start in progress is looked for, not a registered adapter.
BeginStartMutant(c) ==
    /\ pc' = [pc EXCEPT ![c] = IF c = "boot" THEN "idle" ELSE "awaiting"]
    /\ starting' = IF starting = "no" THEN "reading" ELSE starting

\* Return at once when an adapter is registered, join a start in progress, or
\* begin one.  The boot does not wait for the answer.
BeginStart(c) ==
    IF registry # NULL
    THEN pc' = [pc EXCEPT ![c] = "idle"] /\ UNCHANGED starting
    ELSE /\ pc' = [pc EXCEPT ![c] = IF c = "boot" THEN "idle" ELSE "awaiting"]
         /\ starting' = IF starting = "no" THEN "reading" ELSE starting

\* The promise settles: everybody who awaits it goes on with the same result, and
\* the watchdog counts it.
EndStart(ok) ==
    /\ starting' = "no"
    /\ built' = NULL
    /\ IF pc["watchdog"] = "awaiting"
       THEN /\ attempts' = IF ok THEN 0 ELSE attempts + 1
            /\ cooldown' = ~ok
       ELSE UNCHANGED dogVars
    /\ pc' = [c \in Call |->
                 IF pc[c] # "awaiting" THEN pc[c]
                 ELSE IF c = "watchdog" /\ ~ok /\ attempts + 1 >= MaxHeal THEN "marking"
                 ELSE "idle"]

\* getChannel finds no document, or cannot read it.
StartReadFails ==
    /\ starting = "reading"
    /\ IF doc = "absent" THEN UNCHANGED faults ELSE Fault
    /\ EndStart(FALSE)
    /\ UNCHANGED <<doc, writes, memVars, victim, booted, crashes>>

\* A new adapter takes the identity of one that is over.  When there is none, an
\* adapter that nobody knows of any more is no longer followed.
Free   == {a \in Adapter : registry # a /\ ~Holds(a)}
Unused == LET over == {a \in Free : link[a] = "over"} IN IF over = {} THEN Free ELSE over

StartReads ==
    \E a \in Unused :
        /\ starting = "reading" /\ doc # "absent"
        /\ starting' = "initializing"
        /\ built' = a
        /\ link' = [link EXCEPT ![a] = "built"]
        /\ told' = told \ {a}
        /\ heard' = heard \ {a}
        /\ UNCHANGED <<doc, writes, registry, expiring, pc, victim, dogVars, envVars>>

\* What disconnect() does to the registered adapter at once.
Tell ==
    /\ told' = told \cup ({registry} \cap Adapter)
    /\ heard' = heard \ {registry}

\* registerAdapter shuts down the adapter it replaces, if there is one; connect()
\* begins before anything else can run.
StartRegisters ==
    /\ starting = "initializing"
    /\ starting' = "loading"
    /\ registry' = built
    /\ link' = [link EXCEPT ![built] = "loading"]
    /\ Tell
    /\ UNCHANGED <<doc, writes, expiring, built, pc, victim, dogVars, envVars>>

\* connect() begins to listen after its first await, whatever happened meanwhile.
StartLoads ==
    \E out \in Loads :
        /\ starting = "loading" /\ out[1] # "unloaded"
        /\ starting' = out[1]
        /\ link' = [link EXCEPT ![built] = out[2]]
        /\ heard' = heard \cup {built}
        /\ UNCHANGED <<doc, writes, registry, told, expiring, built, pc, victim, dogVars,
                       envVars>>

\* Mutant: the dial of a stopped adapter never settles.
StartDialsMutant ==
    /\ starting = "dialing" /\ built \notin told
    /\ starting' = "attaching"
    /\ link' = [link EXCEPT ![built] = "held"]
    /\ UNCHANGED <<doc, writes, registry, told, heard, expiring, built, pc, victim, dogVars,
                   envVars>>

\* The dial comes back.  The one of an adapter that was stopped meanwhile ends the
\* start, which counts as done; the status is left to the adapter.
StartDials ==
    \E out \in DialReturns(built \in told) :
        /\ starting = "dialing"
        /\ link' = [link EXCEPT ![built] = out[2]]
        /\ \/ /\ out[1] = "attaching"
              /\ starting' = "attaching"
              /\ UNCHANGED <<built, pc, dogVars>>
           \/ out[1] = "returned" /\ EndStart(TRUE)
        /\ UNCHANGED <<doc, writes, registry, told, heard, expiring, victim, envVars>>

\* The rest of connect(); once disconnect() is through, there is no socket to attach
\* the last listener to.
StartAttaches ==
    /\ starting = "attaching"
    /\ built \in told => Holds(built)
    /\ EndStart(TRUE)
    /\ UNCHANGED <<doc, writes, memVars, victim, envVars>>

\* The synchronous part of shutdownAdapter.
TellToStop(s) ==
    /\ victim' = [victim EXCEPT ![s] = registry]
    /\ Tell

\* Its rest: the adapter's disconnect() is through, and whatever is registered by
\* now is deregistered.
Deregister(s) ==
    /\ victim' = [victim EXCEPT ![s] = NULL]
    /\ registry' = NULL
    /\ \E l \in StopMoves(link[victim[s]]) :
          link' = [link EXCEPT ![victim[s]] = l]
    /\ UNCHANGED <<told, heard, expiring>>

\* An await of _doStartChannel throws, and the catch block takes down what is
\* registered.  A stop that is through makes the rest of connect() throw.
StartThrows ==
    /\ \/ /\ starting \in {"initializing", "loading"}
          /\ link' = [link EXCEPT ![built] = "over"]
          /\ Fault
       \/ /\ starting = "dialing" /\ <<"failed", "over">> \in DialReturns(built \in told)
          /\ link' = [link EXCEPT ![built] = "over"]
          /\ Fault
       \/ /\ starting = "attaching"
          /\ IF built \in told THEN UNCHANGED faults ELSE Fault
          /\ UNCHANGED link
    /\ TellToStop("start")
    /\ starting' = IF registry = NULL THEN "failing" ELSE "cleaning"
    /\ UNCHANGED <<doc, writes, registry, expiring, built, pc, dogVars, booted, crashes>>

StartCleansUp ==
    /\ starting = "cleaning"
    /\ Deregister("start")
    /\ starting' = "failing"
    /\ UNCHANGED <<doc, writes, built, pc, dogVars, envVars>>

\* updateStatus(.., 'error') merges into the document, or throws in its turn.
StartFails ==
    /\ starting = "failing"
    /\ \/ doc' = Unready /\ UNCHANGED faults
       \/ Fault /\ UNCHANGED doc
    /\ EndStart(FALSE)
    /\ UNCHANGED <<writes, memVars, victim, booted, crashes>>

-----------------------------------------------------------------------------
(* Requests of the user *)

UserConnects(u) ==
    /\ Serving /\ pc[u] = "idle"
    /\ BeginStart(u)
    /\ UNCHANGED <<doc, writes, memVars, built, victim, dogVars, envVars>>

\* stopChannel, or deleteChannel with or without archiving: the ownership check and the
\* first half of shutdownAdapter.  Without a document it is answered with an error.
UserStops(u) ==
    /\ Serving /\ pc[u] = "idle"
    /\ doc # "absent"
    /\ TellToStop(u)
    /\ pc' = [pc EXCEPT ![u] = IF registry = NULL THEN "storing" ELSE "stopping"]
    /\ UNCHANGED <<doc, writes, registry, link, expiring, startVars, dogVars, envVars>>

\* Mutant: a stop also forgets the start in progress.
StopDeregistersMutant(u) ==
    /\ pc[u] = "stopping"
    /\ Deregister(u)
    /\ pc' = [pc EXCEPT ![u] = "storing"]
    /\ starting' = "no"
    /\ UNCHANGED <<doc, writes, built, dogVars, envVars>>

StopDeregisters(u) ==
    /\ pc[u] = "stopping"
    /\ Deregister(u)
    /\ pc' = [pc EXCEPT ![u] = "storing"]
    /\ UNCHANGED <<doc, writes, startVars, dogVars, envVars>>

\* Mutant: a status the rest of the code does not know.
StopStoresMutant(u) ==
    /\ pc[u] = "storing"
    /\ doc' \in {"stopped", "absent"}
    /\ pc' = [pc EXCEPT ![u] = "idle"]
    /\ UNCHANGED <<writes, memVars, startVars, victim, dogVars, envVars>>

\* Stopped, archived or deleted, as the request wanted it; or the await fails.
StopStores(u) ==
    /\ pc[u] = "storing"
    /\ \/ doc' \in {Dormant, "absent"} /\ UNCHANGED faults
       \/ Fault /\ UNCHANGED doc
    /\ pc' = [pc EXCEPT ![u] = "idle"]
    /\ UNCHANGED <<writes, memVars, startVars, victim, dogVars, booted, crashes>>

-----------------------------------------------------------------------------
(* Adapters *)

\* A status event: the write to the document is not awaited by anybody.
Report(st) == writes' = writes \cup {st}

AdapterReports(a, st) ==
    /\ a \in heard
    /\ link[a] \in (IF st \in Dialling THEN {"dialing", "redialing"} ELSE {"held", "redialed"})
    /\ Cardinality(writes) < MaxWrites
    /\ Report(st)
    /\ UNCHANGED <<doc, memVars, startVars, pc, victim, dogVars, envVars>>

\* Its sockets close and it reconnects.  Logged out, banned or out of retries, it is
\* over, says so, and stays registered; a reconnect that fails is over in silence.
AdapterMoves(a) ==
    \E l \in OwnMoves(link[a], a \in told) :
        /\ link' = [link EXCEPT ![a] = l]
        /\ \/ l = "over" /\ a \in heard /\ Report(Dormant)
           \/ (l = "over" /\ a \in heard => link[a] = "redialing") /\ UNCHANGED writes
        /\ UNCHANGED <<doc, registry, told, heard, expiring, startVars, pc, victim, dogVars,
                       envVars>>

\* The QR code was not scanned in time: the adapter disconnects itself and stays
\* registered ...
ExpireScan(a) ==
    /\ a \in heard
    /\ link[a] \in {"held", "redialing", "redialed"}
    /\ told' = told \cup {a}
    /\ heard' = heard \ {a}
    /\ expiring' = expiring \cup {a}
    /\ UNCHANGED <<doc, writes, registry, link, startVars, pc, victim, dogVars, envVars>>

\* ... and, when that is done, says so.
ExpiryEnds(a) ==
    /\ a \in expiring
    /\ expiring' = expiring \ {a}
    /\ \E l \in StopMoves(link[a]) : link' = [link EXCEPT ![a] = l]
    /\ Report(Dormant)
    /\ UNCHANGED <<doc, registry, told, heard, startVars, pc, victim, dogVars, envVars>>

\* updateStatus merges, whether the document exists or not.
WriteLands(st) ==
    /\ st \in writes
    /\ writes' = writes \ {st}
    /\ \/ doc' = st /\ UNCHANGED faults
       \/ Fault /\ UNCHANGED doc
    /\ UNCHANGED <<memVars, startVars, pc, victim, dogVars, booted, crashes>>

-----------------------------------------------------------------------------
(* The watchdog, the boot and crashes *)

BootResumes ==
    /\ ~booted
    /\ booted' = TRUE
    /\ pc' = [pc EXCEPT !["boot"] = "listing"]
    /\ UNCHANGED <<doc, writes, memVars, startVars, victim, dogVars, faults, crashes>>

\* The status the lister sees: syncMemoryStatus.
Synced ==
    IF registry = NULL /\ doc = "connected" THEN Dormant ELSE doc

\* Mutant: the watchdog leaves a channel alone that waits for its QR code.
WantedMutant(l) == IF l = "boot" THEN {"connected", "connecting", Unready}
                   ELSE {"connected", "connecting"}

\* The statuses the lister does something about.
Wanted(l) == IF l = "boot" THEN {"connected", "connecting", Unready}
             ELSE {"connected", "connecting", "qr_pending"}

\* getAllChannelsAcrossAgents, of a tick of the watchdog or of the boot; the lister gets
\* to this channel only after the other channels, with the status it was listed with.
Lists(l) ==
    /\ IF l = "boot" THEN pc[l] = "listing" ELSE Serving /\ pc[l] = "idle"
    /\ \/ /\ doc # "absent"
          /\ pc' = [pc EXCEPT ![l] = IF Synced \in Wanted(l) THEN "deciding" ELSE "idle"]
          /\ UNCHANGED faults
       \/ /\ IF doc = "absent" THEN UNCHANGED faults ELSE Fault
          /\ pc' = [pc EXCEPT ![l] = "idle"]
    /\ UNCHANGED <<doc, writes, memVars, startVars, victim, dogVars, booted, crashes>>

\* An adapter means the channel is healthy.  Its shutdownAdapter finds nothing.
WatchdogDecides ==
    /\ pc["watchdog"] = "deciding"
    /\ IF registry # NULL
       THEN attempts' = 0 /\ cooldown' = FALSE
       ELSE UNCHANGED dogVars
    /\ IF registry = NULL /\ ~cooldown
       THEN BeginStart("watchdog")
       ELSE pc' = [pc EXCEPT !["watchdog"] = "idle"] /\ UNCHANGED starting
    /\ UNCHANGED <<doc, writes, memVars, built, victim, envVars>>

BootDecides ==
    /\ pc["boot"] = "deciding"
    /\ BeginStart("boot")
    /\ UNCHANGED <<doc, writes, memVars, built, victim, dogVars, envVars>>

\* The last failed heal: the channel is marked and forgotten.
WatchdogMarks ==
    /\ pc["watchdog"] = "marking"
    /\ \/ doc' = Unready /\ UNCHANGED faults
       \/ Fault /\ UNCHANGED doc
    /\ attempts' = 0
    /\ cooldown' = FALSE
    /\ pc' = [pc EXCEPT !["watchdog"] = "idle"]
    /\ UNCHANGED <<writes, memVars, startVars, victim, booted, crashes>>

CooldownEnds ==
    /\ cooldown
    /\ cooldown' = FALSE
    /\ UNCHANGED <<doc, writes, memVars, startVars, pc, victim, attempts, envVars>>

\* The process dies and is restarted: only the document survives.
Crash ==
    /\ crashes < MaxCrashes
    /\ crashes' = crashes + 1
    /\ writes' = {}
    /\ registry' = NULL
    /\ link' = [a \in Adapter |-> "over"]
    /\ told' = {} /\ heard' = {} /\ expiring' = {}
    /\ starting' = "no"
    /\ built' = NULL
    /\ pc' = [c \in Call |-> "idle"]
    /\ victim' = [s \in Stopper |-> NULL]
    /\ attempts' = 0
    /\ cooldown' = FALSE
    /\ booted' = FALSE
    /\ UNCHANGED <<doc, faults>>

-----------------------------------------------------------------------------
StartNext ==
    \/ StartReads \/ StartReadFails \/ StartRegisters \/ StartLoads
    \/ StartDials \/ StartAttaches \/ StartThrows \/ StartCleansUp \/ StartFails

StopNext(u) == StopDeregisters(u) \/ StopStores(u)

Next ==
    \/ StartNext
    \/ \E u \in User : UserConnects(u) \/ UserStops(u) \/ StopNext(u)
    \/ \E a \in Adapter :
          \/ AdapterMoves(a) \/ ExpireScan(a) \/ ExpiryEnds(a)
          \/ \E st \in Says : AdapterReports(a, st)
    \/ \E st \in Status : WriteLands(st)
    \/ WatchdogDecides \/ WatchdogMarks \/ CooldownEnds
    \/ BootResumes \/ BootDecides
    \/ \E l \in {"watchdog", "boot"} : Lists(l)
    \/ Crash

Spec == Init /\ [][Next]_vars

\* Awaited calls return, the interval timer ticks, a cooldown passes and a
\* restarted process boots.  Nothing is assumed of users and of sessions.
Fairness ==
    /\ WF_vars(StartNext)
    /\ \A u \in User : WF_vars(StopNext(u))
    /\ \A a \in Adapter : WF_vars(ExpiryEnds(a))
    /\ WF_vars(Lists("watchdog"))
    /\ WF_vars(Lists("boot"))
    /\ WF_vars(WatchdogDecides)
    /\ WF_vars(WatchdogMarks)
    /\ WF_vars(CooldownEnds)
    /\ WF_vars(BootResumes)
    /\ WF_vars(BootDecides)
    /\ \A st \in Status : WF_vars(WriteLands(st))

FairSpec == Spec /\ Fairness

-----------------------------------------------------------------------------
(* Properties *)

\* However starts, stops, heals and boots overlap, a start never replaces a
\* registered adapter: the branch of registerAdapter that would is dead code.
\* (ChannelManager.ts:24, ChannelService.ts:273)
RegisterIsFresh == starting = "initializing" => registry = NULL

\* Two starts never dial for one channel, also when a stop deregistered the adapter
\* of the first while it dialled.  It is about the dials that a start awaits: what an
\* adapter reconnects by itself afterwards is StoppedIsTakenDown's subject.
\* (ChannelService.ts:278, startingChannels)
OneDial ==
    \A a \in Adapter :
        link[a] \in {"loading", "dialing"} => starting = link[a] /\ built = a

\* Every request is answered and every watchdog pass ends: nobody waits for ever
\* on a start that somebody else began.
CallsEnd == \A c \in Call : pc[c] # "idle" ~> pc[c] = "idle"

\* A channel stored as connecting or waiting for its QR code, but without an
\* adapter, is started again or leaves that status.  (ChannelWatchdog.ts:70)
DeadIsHealed ==
    doc \in {"connecting", "qr_pending"} /\ registry = NULL ~>
        registry # NULL \/ doc \notin {"connecting", "qr_pending"}

\* No lost wake-up: whoever awaits a start awaits one in progress, which will settle
\* it, and a shutdown under way holds the adapter it has to take down.  It is what
\* CallsEnd rests on.  (ChannelService.ts:279, startingChannels; ChannelManager.ts:54)
AwaitedIsRunning ==
    /\ \A c \in Call : pc[c] = "awaiting" => starting # "no"
    /\ \A u \in User : pc[u] = "stopping" <=> victim[u] # NULL
    /\ starting = "cleaning" <=> victim["start"] # NULL

\* What is left of an adapter that was told to stop, once those who told it are done:
\* a dial that the start still awaits, or nothing but AuthSystem's reconnect.  The
\* socket of the adapter's own dial is never forgotten alive, however late it is
\* there.  (WhatsappAdapter.ts:208, ChannelManager.ts:54)
StoppedIsTakenDown ==
    \A a \in told :
        \/ Holds(a)
        \/ link[a] \in {"redialing", "redialed", "over"}
        \/ link[a] \in {"loading", "dialing"} /\ starting = link[a] /\ built = a

-----------------------------------------------------------------------------
(* What the repository says and the code does not do *)

\* Only the registered adapter can have a session.
\* (ChannelManager.ts:63: deregistering is meant "to prevent zombie adapters")
NoZombie ==
    \A a \in Adapter : link[a] \in {"held", "redialed"} => registry = a

\* An adapter that was told to stop has no session again, however late its dial comes
\* back.  (WhatsappAdapter.ts:210: "Connection aborted", and its socket is ended)
StoppedNeverLives ==
    [][\A a \in told : link'[a] \in {"held", "redialed"} => link[a] = link'[a]]_vars

\* A deleted channel has no document again.
\* (ChannelService.ts:387: the connection is shut down BEFORE deleting the record)
DeletedStaysDeleted == [][doc = "absent" => doc' = "absent"]_doc

\* The watchdog does not restart a channel that its user disconnected.
\* (ChannelWatchdog.ts:71: "we leave it alone")
StoppedIsLeftAlone ==
    [][pc["watchdog"] = "deciding" /\ pc'["watchdog"] = "awaiting"
          => doc # Dormant]_vars

\* What startChannel calls "already running" is not over, so a user whose QR code
\* timed out can connect again without disconnecting first.
\* (WhatsappAdapter.ts:166: "dormant until the user manually reconnects")
RunningIsAlive ==
    registry # NULL /\ link[registry] = "over" => Holds(registry)

\* A channel that was connected when the process died is started by the boot.
\* (ChannelService.ts:446)
ConnectedIsRestored ==
    doc = "connected" /\ ~booted ~> registry # NULL \/ doc # "connected"

=============================================================================

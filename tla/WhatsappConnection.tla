--------------------------- MODULE WhatsappConnection ---------------------------
(***************************************************************************)
(* One WhatsApp connection: a WhatsappAdapter, the AuthSystem it owns, the *)
(* Firestore copy of its credentials and the Baileys sockets it creates.   *)
(*                                                                         *)
(* JavaScript runs to completion between two awaits, so each action is the *)
(* code from one await, timer or event to the next.  A suspended call is   *)
(* counted in dials (AuthSystem.connect), opening (WhatsappAdapter.connect)*)
(* or closing (WhatsappAdapter.disconnect).  WhatsApp, Firestore and the   *)
(* Baileys library are the environment.                                    *)
(***************************************************************************)
EXTENDS Naturals, FiniteSets, AdapterLink

CONSTANTS
    Sock,              \* identities of Baileys sockets; a closed one is reused, unless the
                       \* adapter still holds it or its credentials are being saved
    NULL,              \* no socket
    MaxReconnect,      \* maxReconnectAttempts (10 in the code)
    MaxClosing,        \* bound: disconnect() calls suspended at one time
    MaxRender,         \* bound: QR codes being rendered at one time
    EndReportsClose    \* does end() still deliver 'close' to an attached handler?

ASSUME SockAssumption == NULL \notin Sock
ASSUME BoundAssumption ==
    /\ MaxReconnect \in Nat
    /\ MaxClosing \in Nat
    /\ MaxRender \in Nat
    /\ EndReportsClose \in BOOLEAN

VARIABLES
    \* AuthSystem
    authState,        \* "disconnected", "connecting" or "connected"
    client,           \* the socket AuthSystem holds, or NULL
    dials,            \* connect() calls suspended in their awaits, per caller
    timers,           \* reconnect timers that have yet to fire
    connectTimeout,   \* the 30 s handshake timer is armed
    heartbeat,        \* the presence interval is running
    attempts,         \* reconnectAttempts
    \* the sockets and their credentials
    sock,             \* what each socket is doing
    hooked,           \* sockets AuthSystem's connection.update handler listens to
    mem,              \* the credentials a socket signs in with and updates
    target,           \* the credentials object its saveCreds writes
    forced,           \* sockets whose credentials were replaced by new ones
    unsaved,          \* sockets with a creds.update write in flight
    stored,           \* the credentials document in Firestore
    clearing,         \* a clearAuthState is in flight
    \* WhatsappAdapter
    opening,          \* how far the adapter's one connect() call got
    force,            \* its forceNewSession argument
    isDisconnecting,
    closing,          \* disconnect() calls suspended before authSystem.disconnect
    held,             \* adapter.socket
    forwarding,       \* the adapter listens to AuthSystem's status and qr events
    status,           \* adapter.status, the last status forwarded to the channel
    qrCount,          \* qrGenerationCount, cut off at 2
    qrRender,         \* QR codes being rendered
    qrTimer           \* the five minute scan timeout is armed

authVars    == <<authState, client, dials, timers, connectTimeout, heartbeat, attempts>>
sockVars    == <<sock, hooked>>
credVars    == <<mem, target, forced, unsaved, stored, clearing>>
adapterVars == <<opening, force, isDisconnecting, closing, held, forwarding, status,
                 qrCount, qrRender, qrTimer>>
qrVars      == <<qrCount, qrRender, qrTimer>>
vars        == <<authVars, sockVars, credVars, adapterVars>>

Caller    == {"adapter", "timer"}
Creds     == {"fresh", "earlier", "paired"}  \* unpaired, paired before, paired by this adapter
SockState == {"closed", "opening", "pairing", "open", "ending"}
Final     == {"logged_out", "banned", "reconnect_exhausted"}
Status    == {"disconnected", "connecting", "qr_pending", "connected"} \cup Final

AuthOK ==
    /\ authState \in {"disconnected", "connecting", "connected"}
    /\ client \in Sock \cup {NULL}
    /\ dials \in [Caller -> Nat]
    /\ timers \in Nat
    /\ attempts \in Nat

SocketsOK ==
    /\ sock \in [Sock -> SockState]
    /\ hooked \subseteq Sock
    /\ mem \in [Sock -> Creds]
    /\ target \in [Sock -> Creds]
    /\ forced \subseteq Sock
    /\ unsaved \subseteq Sock
    /\ stored \in {"none"} \cup Creds

AdapterOK ==
    /\ opening \in {"idle", "loading", "unloaded", "dialing", "attaching", "returned",
                    "failed"}
    /\ closing \in Nat
    /\ held \in Sock \cup {NULL}
    /\ status \in Status
    /\ qrCount \in 0..2
    /\ qrRender \in Nat

FlagsOK ==
    {connectTimeout, heartbeat, clearing, force, isDisconnecting, forwarding, qrTimer}
        \subseteq BOOLEAN

TypeOK == AuthOK /\ SocketsOK /\ AdapterOK /\ FlagsOK

Init ==
    /\ authState = "disconnected"
    /\ client = NULL
    /\ dials = [c \in Caller |-> 0]
    /\ timers = 0
    /\ connectTimeout = FALSE
    /\ heartbeat = FALSE
    /\ attempts = 0
    /\ sock = [s \in Sock |-> "closed"]
    /\ hooked = {}
    /\ mem = [s \in Sock |-> "fresh"]
    /\ target = [s \in Sock |-> "fresh"]
    /\ forced = {}
    /\ unsaved = {}
    /\ stored \in {"none", "earlier"}
    /\ clearing = FALSE
    /\ opening = "idle"
    /\ force \in BOOLEAN
    /\ isDisconnecting = FALSE
    /\ closing = 0
    /\ held = NULL
    /\ forwarding = FALSE
    /\ status = "disconnected"
    /\ qrCount = 0
    /\ qrRender = 0
    /\ qrTimer = FALSE

-----------------------------------------------------------------------------
(* Helpers *)

\* emit('status', st): the adapter records and forwards it while it listens.
Emit(st) == status' = IF forwarding THEN st ELSE status

\* Mutant: the handle is not tested before it is cleared.
TimersClearedMutant == timers - 1

\* The reconnectTimer handle is one of the pending timers; clearing it cancels that one.
TimersCleared == IF timers = 0 THEN 0 ELSE timers - 1

\* What becomes of a socket on which end() is called: whoever still listens is told.
EndedState(s) == IF EndReportsClose /\ s \in hooked /\ sock[s] # "closed"
                 THEN "ending" ELSE "closed"

Live(s) == sock[s] # "closed"

\* Mutant: every dial starts the backoff afresh.
BeginDialResetMutant(caller, pending) ==
    /\ timers' = pending
    /\ connectTimeout' = TRUE
    /\ authState' = "connecting"
    /\ dials' = [dials EXCEPT ![caller] = @ + 1]
    /\ attempts' = 0
    /\ UNCHANGED <<client, heartbeat>>

\* Mutant: the handshake timer is not armed.
BeginDialUntimedMutant(caller, pending) ==
    /\ timers' = pending
    /\ authState' = "connecting"
    /\ dials' = [dials EXCEPT ![caller] = @ + 1]
    /\ UNCHANGED <<client, connectTimeout, heartbeat, attempts>>

\* The synchronous part of AuthSystem.connect, up to its first await.
BeginDial(caller, pending) ==
    /\ timers' = pending
    /\ connectTimeout' = TRUE
    /\ authState' = "connecting"
    /\ dials' = [dials EXCEPT ![caller] = @ + 1]
    /\ UNCHANGED <<client, heartbeat, attempts>>

-----------------------------------------------------------------------------
(* WhatsappAdapter.connect and the dial it makes *)

AdapterConnect ==
    /\ opening = "idle"
    /\ opening' = "loading"
    /\ isDisconnecting' = FALSE
    /\ qrCount' = 0
    /\ forwarding' = FALSE
    /\ UNCHANGED <<authVars, sockVars, credVars, force, closing, held, status, qrRender, qrTimer>>

\* The OpenClaw listener module is loaded: attach the listeners and dial.
ListenerLoaded ==
    /\ opening = "loading"
    /\ opening' = "dialing"
    /\ forwarding' = TRUE
    /\ status' = "connecting"
    /\ BeginDial("adapter", TimersCleared)
    /\ UNCHANGED <<sockVars, credVars, force, isDisconnecting, closing, held, qrVars>>

ListenerFails ==
    /\ opening = "loading"
    /\ opening' = "unloaded"
    /\ UNCHANGED <<authVars, sockVars, credVars, force, isDisconnecting, closing, held,
                   forwarding, status, qrVars>>

\* readData swallows a read error, so a dial can start from new credentials.
LoadedCreds == {"fresh"} \cup ({stored} \ {"none"})

\* makeWASocket with its handlers.  saveCreds keeps writing the object that was
\* loaded, also when forceNewSession put another one into state.creds.
NewSocket(s, renewed, loaded) ==
    /\ sock[s] = "closed" /\ s # held /\ s \notin unsaved
    /\ client' = s
    /\ mem' = [mem EXCEPT ![s] = IF renewed THEN "fresh" ELSE loaded]
    /\ target' = [target EXCEPT ![s] = loaded]
    /\ forced' = IF renewed THEN forced \cup {s} ELSE forced \ {s}
    /\ hooked' = hooked \cup {s}

\* The adapter's dial returns a socket: kept, or ended when disconnect() came first.
AdapterDialSucceeds ==
    \E s \in Sock, loaded \in LoadedCreds :
        /\ dials["adapter"] > 0
        /\ dials' = [dials EXCEPT !["adapter"] = @ - 1]
        /\ NewSocket(s, force, loaded)
        /\ IF isDisconnecting
           THEN /\ opening' = "returned"
                /\ sock' = [sock EXCEPT ![s] = IF EndReportsClose THEN "ending" ELSE "closed"]
                /\ UNCHANGED held
           ELSE /\ opening' = "attaching"
                /\ sock' = [sock EXCEPT ![s] = "opening"]
                /\ held' = s
        /\ UNCHANGED <<authState, timers, connectTimeout, heartbeat, attempts,
                       unsaved, stored, clearing, force, isDisconnecting, closing,
                       forwarding, status, qrVars>>

\* The rest of connect(), which awaits the QR code and the listener module between
\* its attachments to the socket: it throws if the socket was let go meanwhile.
AttachReturns ==
    /\ opening = "attaching"
    /\ opening' \in IF held = NULL THEN {"failed"} ELSE {"returned", "failed"}
    /\ UNCHANGED <<authVars, sockVars, credVars, force, isDisconnecting, closing, held,
                   forwarding, status, qrVars>>

\* A reconnect dial returns a socket nobody else takes hold of.
TimerDialSucceeds ==
    \E s \in Sock, loaded \in LoadedCreds :
        /\ dials["timer"] > 0
        /\ dials' = [dials EXCEPT !["timer"] = @ - 1]
        /\ NewSocket(s, FALSE, loaded)
        /\ sock' = [sock EXCEPT ![s] = "opening"]
        /\ UNCHANGED <<authState, timers, connectTimeout, heartbeat, attempts,
                       unsaved, stored, clearing, adapterVars>>

\* connect() fails in an await; only the adapter's call has somebody to tell.
DialFails(caller) ==
    /\ dials[caller] > 0
    /\ dials' = [dials EXCEPT ![caller] = @ - 1]
    /\ authState' = "disconnected"
    /\ opening' = IF caller = "timer" THEN opening
                  ELSE IF isDisconnecting THEN "returned" ELSE "failed"
    /\ UNCHANGED <<client, timers, connectTimeout, heartbeat, attempts, sockVars, credVars,
                   force, isDisconnecting, closing, held, forwarding, status, qrVars>>

-----------------------------------------------------------------------------
(* Events of a socket; AuthSystem reacts while its handler is attached *)

QrShown(s) ==
    /\ sock[s] = "opening" /\ mem[s] = "fresh"
    /\ s \in hooked
    /\ qrRender < MaxRender
    /\ connectTimeout' = FALSE
    /\ Emit("qr_pending")
    /\ IF forwarding
       THEN /\ qrCount' = IF qrCount < 2 THEN qrCount + 1 ELSE qrCount
            /\ qrRender' = qrRender + 1
       ELSE UNCHANGED <<qrCount, qrRender>>
    /\ UNCHANGED <<authState, client, dials, timers, heartbeat, attempts, sockVars, credVars,
                   opening, force, isDisconnecting, closing, held, forwarding, qrTimer>>

\* The picture is ready: the first code of this adapter starts the scan timeout.
QrRendered ==
    /\ qrRender > 0
    /\ qrRender' = qrRender - 1
    /\ qrTimer' = (qrTimer \/ qrCount = 1)
    /\ UNCHANGED <<authVars, sockVars, credVars, opening, force, isDisconnecting, closing, held,
                   forwarding, status, qrCount>>

\* The user scanned the code: Baileys updates its credentials and asks for a save;
\* WhatsApp will then close the socket and expect a new one.
Paired(s) ==
    /\ sock[s] = "opening" /\ mem[s] = "fresh"
    /\ sock' = [sock EXCEPT ![s] = "pairing"]
    /\ mem' = [mem EXCEPT ![s] = "paired"]
    /\ target' = IF s \in forced THEN target ELSE [target EXCEPT ![s] = "paired"]
    /\ unsaved' = unsaved \cup {s}
    /\ UNCHANGED <<authVars, hooked, forced, stored, clearing, adapterVars>>

SaveCreds(s) ==
    /\ s \in unsaved
    /\ unsaved' = unsaved \ {s}
    /\ stored' = target[s]
    /\ UNCHANGED <<authVars, sockVars, mem, target, forced, clearing, adapterVars>>

SaveCredsFails(s) ==
    /\ s \in unsaved
    /\ unsaved' = unsaved \ {s}
    /\ UNCHANGED <<authVars, sockVars, mem, target, forced, stored, clearing, adapterVars>>

\* The adapter's own handler, on the socket it holds, ends the QR cycle.
Opened(s) ==
    /\ sock[s] = "opening" /\ mem[s] # "fresh"
    /\ sock' = [sock EXCEPT ![s] = "open"]
    /\ IF s \in hooked
       THEN /\ connectTimeout' = FALSE
            /\ authState' = "connected"
            /\ attempts' = 0
            /\ heartbeat' = TRUE
            /\ Emit("connected")
            /\ \/ UNCHANGED qrVars
               \/ s = held /\ qrCount' = 0 /\ qrTimer' = FALSE /\ UNCHANGED qrRender
       ELSE UNCHANGED <<connectTimeout, authState, attempts, heartbeat, status, qrVars>>
    /\ UNCHANGED <<client, dials, timers, hooked, credVars,
                   opening, force, isDisconnecting, closing, held, forwarding>>

\* Mutant: the heartbeat outlives the session.
SessionDownMutant == authState' = "disconnected" /\ UNCHANGED heartbeat

SessionDown == authState' = "disconnected" /\ heartbeat' = FALSE

\* Mutant: a banned number is redialled.
CloseFinalMutant(st) ==
    /\ Emit(st)
    /\ clearing' = TRUE
    /\ timers' = IF st = "banned" THEN timers + 1 ELSE timers
    /\ UNCHANGED attempts

\* The close handler: a logout or a ban is final, anything else is retried.
CloseFinal(st) ==
    /\ Emit(st)
    /\ clearing' = TRUE
    /\ UNCHANGED <<attempts, timers>>

\* Mutant: one retry too many.
CloseRetryMutant ==
    /\ attempts' = attempts + 1
    /\ IF attempts' > MaxReconnect + 1
       THEN /\ Emit("reconnect_exhausted")
            /\ UNCHANGED timers
       ELSE /\ timers' = timers + 1
            /\ UNCHANGED status
    /\ UNCHANGED clearing

CloseRetry ==
    /\ attempts' = attempts + 1
    /\ IF attempts' > MaxReconnect
       THEN /\ Emit("reconnect_exhausted")
            /\ UNCHANGED timers
       ELSE /\ timers' = timers + 1
            /\ UNCHANGED status
    /\ UNCHANGED clearing

\* The reasons WhatsApp can give; a socket ended by this side gives none.
CloseCodes(s) ==
    IF sock[s] \in {"pairing", "ending"} THEN {"other"} ELSE {"logged_out", "banned", "other"}

Closed(s) ==
    /\ Live(s)
    /\ sock' = [sock EXCEPT ![s] = "closed"]
    /\ hooked' = hooked \ {s}
    /\ IF s \in hooked
       THEN /\ SessionDown
            /\ \E code \in CloseCodes(s) :
                  IF code = "other" THEN CloseRetry ELSE CloseFinal(code)
       ELSE UNCHANGED <<heartbeat, authState, status, clearing, attempts, timers>>
    /\ UNCHANGED <<client, dials, connectTimeout, mem, target, forced, unsaved, stored,
                   opening, force, isDisconnecting, closing, held, forwarding, qrVars>>

ClearCreds ==
    /\ clearing
    /\ clearing' = FALSE
    /\ stored' \in {stored, "none"}      \* a failed delete is only logged
    /\ UNCHANGED <<authVars, sockVars, mem, target, forced, unsaved, adapterVars>>

-----------------------------------------------------------------------------
(* Timers of AuthSystem *)

\* Mutant: the reconnect timer repeats.
ReconnectTimerFiresMutant ==
    /\ timers > 0
    /\ BeginDial("timer", timers)
    /\ Emit("connecting")
    /\ UNCHANGED <<sockVars, credVars, opening, force, isDisconnecting, closing, held,
                   forwarding, qrVars>>

\* connect() clears the handle too, which may be another pending timer.
ReconnectTimerFires ==
    /\ timers > 0
    /\ \E rest \in (timers - 2)..(timers - 1) : rest \in Nat /\ BeginDial("timer", rest)
    /\ Emit("connecting")
    /\ UNCHANGED <<sockVars, credVars, opening, force, isDisconnecting, closing, held,
                   forwarding, qrVars>>

EndClient ==
    IF client = NULL THEN UNCHANGED sockVars
    ELSE /\ sock' = [sock EXCEPT ![client] = EndedState(client)]
         /\ hooked' = IF EndedState(client) = "closed" THEN hooked \ {client} ELSE hooked

HandshakeTimeout ==
    /\ connectTimeout
    /\ connectTimeout' = FALSE
    /\ IF authState = "connecting"
       THEN /\ EndClient
            /\ client' = NULL
            /\ authState' = "disconnected"
       ELSE UNCHANGED <<sockVars, client, authState>>
    /\ UNCHANGED <<dials, timers, heartbeat, attempts, credVars, adapterVars>>

-----------------------------------------------------------------------------
(* WhatsappAdapter.disconnect, called by its owner or by the scan timeout *)

\* Mutant: the socket keeps its listeners.
BeginDisconnectMutant ==
    /\ closing < MaxClosing
    /\ closing' = closing + 1
    /\ isDisconnecting' = TRUE
    /\ qrTimer' = FALSE
    /\ forwarding' = FALSE
    /\ UNCHANGED <<authVars, sockVars, credVars, opening, force, held, status, qrCount, qrRender>>

\* The part before the listener module is loaded.
BeginDisconnect ==
    /\ closing < MaxClosing
    /\ closing' = closing + 1
    /\ isDisconnecting' = TRUE
    /\ qrTimer' = FALSE
    /\ hooked' = hooked \ {held}
    /\ forwarding' = FALSE
    /\ UNCHANGED <<authVars, sock, credVars, opening, force, held, status, qrCount, qrRender>>

OwnerDisconnects == opening # "idle" /\ BeginDisconnect

QrTimeout ==
    /\ qrTimer
    /\ IF status = "qr_pending"
       THEN BeginDisconnect
       ELSE /\ qrTimer' = FALSE
            /\ UNCHANGED <<authVars, sockVars, credVars, opening, force, isDisconnecting, closing,
                           held, forwarding, status, qrCount, qrRender>>

\* AuthSystem.disconnect, then the adapter lets go of its socket.
FinishDisconnect ==
    /\ closing > 0
    /\ closing' = closing - 1
    /\ timers' = TimersCleared
    /\ connectTimeout' = FALSE
    /\ heartbeat' = FALSE
    /\ EndClient
    /\ client' = NULL
    /\ authState' = IF client = NULL THEN authState ELSE "disconnected"
    /\ held' = NULL
    /\ UNCHANGED <<dials, attempts, credVars, opening, force, isDisconnecting, forwarding,
                   status, qrVars>>

\* The listener module fails to load: the rest of disconnect() never runs.  Once
\* loaded it is cached, so this cannot happen after ListenerLoaded.
DisconnectFails ==
    /\ opening \in {"loading", "unloaded"}
    /\ closing > 0
    /\ closing' = closing - 1
    /\ UNCHANGED <<authVars, sockVars, credVars, opening, force, isDisconnecting, held,
                   forwarding, status, qrVars>>

-----------------------------------------------------------------------------
Next ==
    \/ AdapterConnect \/ ListenerLoaded \/ ListenerFails
    \/ AdapterDialSucceeds \/ AttachReturns \/ TimerDialSucceeds
    \/ \E c \in Caller : DialFails(c)
    \/ \E s \in Sock :
          \/ QrShown(s) \/ Paired(s) \/ Opened(s) \/ Closed(s)
          \/ SaveCreds(s) \/ SaveCredsFails(s)
    \/ QrRendered \/ ClearCreds
    \/ ReconnectTimerFires \/ HandshakeTimeout
    \/ OwnerDisconnects \/ QrTimeout \/ FinishDisconnect \/ DisconnectFails

Spec == Init /\ [][Next]_vars

\* Timers fire, awaited calls return and an ended socket reports it.  Nothing is
\* assumed of WhatsApp, of the user or of the owner.
Fairness ==
    /\ WF_vars(ListenerLoaded \/ ListenerFails)
    /\ WF_vars(AdapterDialSucceeds \/ DialFails("adapter"))
    /\ WF_vars(AttachReturns)
    /\ WF_vars(TimerDialSucceeds \/ DialFails("timer"))
    /\ WF_vars(ReconnectTimerFires)
    /\ WF_vars(HandshakeTimeout)
    /\ WF_vars(QrRendered)
    /\ WF_vars(QrTimeout)
    /\ WF_vars(FinishDisconnect \/ DisconnectFails)
    /\ WF_vars(ClearCreds)
    /\ \A s \in Sock :
          /\ WF_vars(SaveCreds(s) \/ SaveCredsFails(s))
          /\ WF_vars(sock[s] = "ending" /\ Closed(s))

FairSpec == Spec /\ Fairness

-----------------------------------------------------------------------------
(* Properties *)

\* Nothing is dialling, waiting to redial or connected.
Quiet ==
    /\ \A c \in Caller : dials[c] = 0
    /\ timers = 0
    /\ \A s \in Sock : ~Live(s)

\* At most one connection attempt exists at any time, as a suspended dial, a
\* pending reconnect timer or a socket: the flags of AuthSystem never let two
\* sockets of one adapter share the number.  (authSystem.ts, connect)
OneAttempt ==
    /\ dials["adapter"] + dials["timer"] + timers <= 1
    /\ dials["adapter"] + dials["timer"] + timers = 1 => \A s \in Sock : ~Live(s)
    /\ \A s, t \in Sock : Live(s) /\ Live(t) => s = t

\* After a logout, a ban or the last retry this adapter never dials again by
\* itself; such a channel needs its user.  (ChannelService.ts:446)
FinalIsFinal == status \in Final => Quiet

\* authState says "connected", and the heartbeat runs, only over an open socket
\* (or one the adapter has just stopped listening to).
SessionIsReal ==
    /\ authState = "connected" =>
          client # NULL /\ (client \in hooked => sock[client] = "open")
    /\ heartbeat => authState = "connected"

\* While the adapter listens, an authenticated session is shown as connected: no later
\* status event of the same session takes it away.  It says nothing of the time between
\* the scan and the session (PairedIsLeftAlone) nor of a session that is gone
\* (ShownIsConnected).
ConnectedIsReported == authState = "connected" /\ forwarding => status = "connected"

\* Retrying for ever requires succeeding for ever: an unreachable WhatsApp is
\* given up after maxReconnectAttempts.  (authSystem.ts:199)
RetriesRunOut == []<>(timers > 0) => []<>(authState = "connected")

\* A handshake does not hang: it ends, shows a QR code or is stopped.
\* (Scenario 7 of the resilience registry; authSystem.ts:85)
HandshakeEnds ==
    authState = "connecting" ~>
        authState # "connecting" \/ status = "qr_pending" \/ isDisconnecting

\* A handshake is watched as long as it lasts: its 30 s timer is armed, unless the user has
\* been shown a QR code or a disconnect() that ends it is under way.  No overlap of dials,
\* timers and disconnects takes the timer away from a handshake that goes on.
\* (authSystem.ts:85)
HandshakeIsWatched ==
    authState = "connecting" => connectTimeout \/ status = "qr_pending" \/ isDisconnecting

\* What saveCreds writes is the session its socket has paired, as long as the adapter was not
\* asked for a new session.  (authSystem.ts:111)
SavedAsPaired == [][\A s \in Sock : SaveCreds(s) /\ ~force => stored' = mem[s]]_vars

\* Nothing of the adapter can come back: its connect() does not wait for its module, no dial is
\* suspended, no timer is pending, and a socket that is still ending has nobody listening.
NothingLeft ==
    /\ isDisconnecting /\ opening \notin {"idle", "loading"}
    /\ \A c \in Caller : dials[c] = 0
    /\ timers = 0
    /\ \A s \in Sock : sock[s] = "closed" \/ (sock[s] = "ending" /\ s \notin hooked)

\* A disconnect() is final unless it meets a connect() or a dial that is suspended, or a socket
\* whose close would still be heard: it leaves nothing, and from nothing the adapter never
\* comes back, whatever QR codes, saves and further disconnects are still under way.
\* (WhatsappAdapter.ts:411, authSystem.ts:250)
DisconnectIsFinal ==
    [][/\ /\ FinishDisconnect
          /\ opening # "loading" /\ \A c \in Caller : dials[c] = 0
          /\ EndReportsClose => \A s \in hooked : ~Live(s)
          => NothingLeft'
       /\ NothingLeft => NothingLeft']_vars

\* What the adapter is doing, for ChannelLifecycle.
LinkState ==
    IF opening = "idle" THEN "built"
    ELSE IF opening = "loading" THEN "loading"
    ELSE IF dials["adapter"] > 0 THEN "dialing"
    ELSE IF \E s \in Sock : s = held /\ Live(s) THEN "held"
    ELSE IF dials["timer"] + timers > 0 \/ \E s \in hooked : s # held /\ sock[s] = "ending"
         THEN "redialing"
    ELSE IF \E s \in Sock : s # held /\ sock[s] \in {"opening", "pairing", "open"}
         THEN "redialed"
    ELSE "over"

\* Each step changes it the way AdapterLink lets it.
LinkStep ==
    /\ opening = "loading" /\ opening' # "loading" => <<opening', LinkState'>> \in Loads
    /\ opening = "dialing" /\ opening' # "dialing" =>
          <<opening', LinkState'>> \in DialReturns(isDisconnecting)
    /\ FinishDisconnect => LinkState' \in StopMoves(LinkState)
    /\ isDisconnecting' # isDisconnecting /\ opening # "idle" => LinkState' = LinkState
    /\ opening \notin {"idle", "loading", "dialing"} /\ ~FinishDisconnect =>
          LinkState' \in {LinkState} \cup OwnMoves(LinkState, isDisconnecting)

\* ChannelLifecycle's adapters do what this one does: connect() gets on as AdapterLink says,
\* the first half of a disconnect() changes nothing yet, its second half leaves what StopMoves
\* leaves, and in between the adapter only makes moves of its own.  So an interrupted dial and
\* a redialled session outlive a disconnect(), and nothing else does.
\* (WhatsappAdapter.ts:209, authSystem.ts:198, 250)
KeepsLink == [][LinkStep]_vars

\* The connection as one attempt, for the contract it implements.
Phase ==
    IF opening \in {"idle", "loading", "unloaded"} THEN "idle"
    ELSE IF \E c \in Caller : dials[c] > 0 THEN "dialing"
    ELSE IF timers > 0 THEN "waiting"
    ELSE IF \E s \in Sock : Live(s) THEN "up"
    ELSE "over"

Contract == INSTANCE ReconnectContract WITH phase <- Phase, failures <- attempts

\* Every step of the adapter, AuthSystem and the sockets is a step of one attempt
\* that starts once, retries within its budget and ends for good.
ImplementsContract == Contract!ContractSpec

-----------------------------------------------------------------------------
(* What the repository says and the code does not do *)

\* A closed connection is retried until it opens, is given up or is stopped.
\* (Scenario 1: "System retries with exponential backoff")
NeverStranded ==
    opening = "returned" /\ ~isDisconnecting /\ Quiet => status \in Final

\* Once disconnect() is through, no session of this adapter is open.
\* (ChannelService.ts:386: the live connection is shut down before deletion)
StopIsFinal ==
    isDisconnecting /\ closing = 0 => \A s \in Sock : sock[s] # "open"

\* The scan timeout leaves a channel alone whose code was scanned.
\* (WhatsappAdapter.ts:165: "If the user never scans within QR_TIMEOUT_MS, disconnect")
PairedIsLeftAlone ==
    [][QrTimeout /\ closing' > closing => \A s \in Sock : Live(s) => mem[s] # "paired"]_vars

\* What saveCreds writes is the session its socket has paired.
\* (docs/Baileys-7xx/Connecting.md:53)
PairingIsSaved == [][\A s \in Sock : SaveCreds(s) => stored' = mem[s]]_vars

\* A QR code that waits to be scanned has its timeout running.
\* (WhatsappAdapter.ts:164)
QrWaitIsTimed ==
    status = "qr_pending" /\ authState = "connecting" /\ ~isDisconnecting
        => qrTimer \/ qrRender > 0

\* The channel is shown as connected only while it is.
\* (conductor/archive/fix_connection_flaws_20260310/spec.md)
ShownIsConnected == status = "connected" /\ forwarding => authState = "connected"

=============================================================================

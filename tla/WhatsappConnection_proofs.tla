------------------------ MODULE WhatsappConnection_proofs ------------------------
(***************************************************************************)
(* Proofs that the safety properties of WhatsappConnection hold for every  *)
(* number of sockets, retries, suspended disconnects and rendered codes,   *)
(* that a disconnect which meets nothing suspended is final, that the      *)
(* adapter keeps the rules of AdapterLink, and that the connection         *)
(* implements ReconnectContract.                                           *)
(***************************************************************************)
EXTENDS WhatsappConnection, TLAPS

-----------------------------------------------------------------------------
(* The inductive invariant *)

\* Nothing has started before the adapter's first dial.
NotStarted ==
    opening \in {"idle", "loading", "unloaded"} => Quiet /\ authState = "disconnected"

\* A socket that was not ended is the one AuthSystem holds.
ClientIsLive ==
    \A s \in Sock : sock[s] \in {"opening", "pairing", "open"} => client = s

\* A dial, or the wait for one, means there is no session.
DialMeansDown ==
    dials["adapter"] + dials["timer"] + timers > 0 => authState # "connected"

Safety ==
    /\ NotStarted
    /\ ClientIsLive
    /\ DialMeansDown
    /\ OneAttempt
    /\ FinalIsFinal
    /\ SessionIsReal
    /\ ConnectedIsReported

IInv == TypeOK /\ Safety

-----------------------------------------------------------------------------
(* Type correctness *)

\* The initial state is in range.
LEMMA TypeInit == Init => TypeOK
<1>1. ASSUME Init PROVE AuthOK /\ SocketsOK /\ AdapterOK
  BY <1>1 DEF Init, AuthOK, SocketsOK, AdapterOK, Caller, Creds, SockState, Status, Final
<1>2. ASSUME Init PROVE FlagsOK
  BY <1>2, Zenon DEF Init, FlagsOK
<1> QED BY <1>1, <1>2 DEF TypeOK

\* Every action keeps every variable in its range.
LEMMA TypeNext ==
    ASSUME TypeOK, [Next]_vars
    PROVE  TypeOK'
<1> USE DEF authVars, sockVars, credVars, adapterVars, qrVars, vars, TypeOK, AuthOK,
        SocketsOK, AdapterOK, Caller, Creds, SockState, Status, Final
<1>1. ASSUME AdapterConnect PROVE TypeOK'
  <2>1. AuthOK' /\ SocketsOK' /\ AdapterOK'
    BY <1>1 DEF AdapterConnect
  <2>2. FlagsOK'
    BY <1>1, Zenon DEF AdapterConnect, FlagsOK
  <2> QED BY <2>1, <2>2
<1>2. ASSUME ListenerLoaded PROVE TypeOK'
  <2>1. AuthOK' /\ SocketsOK' /\ AdapterOK'
    BY <1>2 DEF ListenerLoaded, BeginDial, TimersCleared
  <2>2. FlagsOK'
    BY <1>2, Zenon DEF ListenerLoaded, BeginDial, TimersCleared, FlagsOK
  <2> QED BY <2>1, <2>2
<1>3. ASSUME ListenerFails PROVE TypeOK'
  <2>1. AuthOK' /\ SocketsOK' /\ AdapterOK'
    BY <1>3 DEF ListenerFails
  <2>2. FlagsOK'
    BY <1>3, Zenon DEF ListenerFails, FlagsOK
  <2> QED BY <2>1, <2>2
<1>4. ASSUME AdapterDialSucceeds PROVE TypeOK'
  <2>1. AuthOK' /\ SocketsOK' /\ AdapterOK'
    BY <1>4 DEF AdapterDialSucceeds, NewSocket, LoadedCreds
  <2>2. FlagsOK'
    BY <1>4, Zenon DEF AdapterDialSucceeds, NewSocket, LoadedCreds, FlagsOK
  <2> QED BY <2>1, <2>2
<1>5. ASSUME TimerDialSucceeds PROVE TypeOK'
  <2>1. AuthOK' /\ SocketsOK' /\ AdapterOK'
    BY <1>5 DEF TimerDialSucceeds, NewSocket, LoadedCreds
  <2>2. FlagsOK'
    BY <1>5, Zenon DEF TimerDialSucceeds, NewSocket, LoadedCreds, FlagsOK
  <2> QED BY <2>1, <2>2
<1>6. ASSUME NEW c \in Caller, DialFails(c) PROVE TypeOK'
  <2>1. AuthOK' /\ SocketsOK' /\ AdapterOK'
    BY <1>6 DEF DialFails
  <2>2. FlagsOK'
    BY <1>6, Zenon DEF DialFails, FlagsOK
  <2> QED BY <2>1, <2>2
<1>7. ASSUME NEW s \in Sock, QrShown(s) PROVE TypeOK'
  <2>1. AuthOK' /\ SocketsOK' /\ AdapterOK'
    BY <1>7 DEF QrShown, Emit
  <2>2. FlagsOK'
    BY <1>7, Zenon DEF QrShown, Emit, FlagsOK
  <2> QED BY <2>1, <2>2
<1>8. ASSUME QrRendered PROVE TypeOK'
  <2>1. AuthOK' /\ SocketsOK' /\ AdapterOK'
    BY <1>8 DEF QrRendered
  <2>2. FlagsOK'
    BY <1>8, Zenon DEF QrRendered, FlagsOK
  <2> QED BY <2>1, <2>2
<1>9. ASSUME NEW s \in Sock, Paired(s) PROVE TypeOK'
  <2>1. AuthOK' /\ SocketsOK' /\ AdapterOK'
    BY <1>9 DEF Paired
  <2>2. FlagsOK'
    BY <1>9, Zenon DEF Paired, FlagsOK
  <2> QED BY <2>1, <2>2
<1>10. ASSUME NEW s \in Sock, SaveCreds(s) PROVE TypeOK'
  <2>1. AuthOK' /\ SocketsOK' /\ AdapterOK'
    BY <1>10 DEF SaveCreds
  <2>2. FlagsOK'
    BY <1>10, Zenon DEF SaveCreds, FlagsOK
  <2> QED BY <2>1, <2>2
<1>11. ASSUME NEW s \in Sock, SaveCredsFails(s) PROVE TypeOK'
  <2>1. AuthOK' /\ SocketsOK' /\ AdapterOK'
    BY <1>11 DEF SaveCredsFails
  <2>2. FlagsOK'
    BY <1>11, Zenon DEF SaveCredsFails, FlagsOK
  <2> QED BY <2>1, <2>2
<1>12. ASSUME NEW s \in Sock, Opened(s) PROVE TypeOK'
  <2>1. AuthOK' /\ SocketsOK' /\ AdapterOK'
    BY <1>12 DEF Opened, Emit
  <2>2. FlagsOK'
    BY <1>12, Zenon DEF Opened, Emit, FlagsOK
  <2> QED BY <2>1, <2>2
<1>13. ASSUME NEW s \in Sock, Closed(s) PROVE TypeOK'
  <2>1. AuthOK' /\ SocketsOK' /\ AdapterOK'
    BY <1>13 DEF Closed, SessionDown, CloseCodes, CloseFinal, CloseRetry, Emit
  <2>2. FlagsOK'
    BY <1>13, Zenon DEF Closed, SessionDown, CloseCodes, CloseFinal, CloseRetry, Emit, FlagsOK
  <2> QED BY <2>1, <2>2
<1>14. ASSUME ClearCreds PROVE TypeOK'
  <2>1. AuthOK' /\ SocketsOK' /\ AdapterOK'
    BY <1>14 DEF ClearCreds
  <2>2. FlagsOK'
    BY <1>14, Zenon DEF ClearCreds, FlagsOK
  <2> QED BY <2>1, <2>2
<1>15. ASSUME ReconnectTimerFires PROVE TypeOK'
  <2>1. AuthOK' /\ SocketsOK' /\ AdapterOK'
    BY <1>15 DEF ReconnectTimerFires, BeginDial, Emit
  <2>2. FlagsOK'
    BY <1>15, Zenon DEF ReconnectTimerFires, BeginDial, Emit, FlagsOK
  <2> QED BY <2>1, <2>2
<1>16. ASSUME HandshakeTimeout PROVE TypeOK'
  <2>1. AuthOK' /\ SocketsOK' /\ AdapterOK'
    BY <1>16 DEF HandshakeTimeout, EndClient, EndedState
  <2>2. FlagsOK'
    BY <1>16, Zenon DEF HandshakeTimeout, EndClient, EndedState, FlagsOK
  <2> QED BY <2>1, <2>2
<1>17. ASSUME OwnerDisconnects PROVE TypeOK'
  <2>1. AuthOK' /\ SocketsOK' /\ AdapterOK'
    BY <1>17 DEF OwnerDisconnects, BeginDisconnect
  <2>2. FlagsOK'
    BY <1>17, Zenon DEF OwnerDisconnects, BeginDisconnect, FlagsOK
  <2> QED BY <2>1, <2>2
<1>18. ASSUME QrTimeout PROVE TypeOK'
  <2>1. AuthOK' /\ SocketsOK' /\ AdapterOK'
    BY <1>18 DEF QrTimeout, BeginDisconnect
  <2>2. FlagsOK'
    BY <1>18, Zenon DEF QrTimeout, BeginDisconnect, FlagsOK
  <2> QED BY <2>1, <2>2
<1>19. ASSUME FinishDisconnect PROVE TypeOK'
  <2>1. AuthOK' /\ SocketsOK' /\ AdapterOK'
    BY <1>19 DEF FinishDisconnect, EndClient, EndedState, TimersCleared
  <2>2. FlagsOK'
    BY <1>19, Zenon DEF FinishDisconnect, EndClient, EndedState, TimersCleared, FlagsOK
  <2> QED BY <2>1, <2>2
<1>20. ASSUME DisconnectFails PROVE TypeOK'
  <2>1. AuthOK' /\ SocketsOK' /\ AdapterOK'
    BY <1>20 DEF DisconnectFails
  <2>2. FlagsOK'
    BY <1>20, Zenon DEF DisconnectFails, FlagsOK
  <2> QED BY <2>1, <2>2
<1>21. ASSUME AttachReturns PROVE TypeOK'
  <2>1. AuthOK' /\ SocketsOK' /\ AdapterOK'
    BY <1>21 DEF AttachReturns
  <2>2. FlagsOK'
    BY <1>21, Zenon DEF AttachReturns, FlagsOK
  <2> QED BY <2>1, <2>2
<1>22. CASE UNCHANGED vars
  BY <1>22 DEF FlagsOK
<1> QED
  BY <1>1, <1>2, <1>3, <1>4, <1>5, <1>6, <1>7, <1>8, <1>9, <1>10, <1>11, <1>12, <1>13,
      <1>14, <1>15, <1>16, <1>17, <1>18, <1>19, <1>20, <1>21, <1>22 DEF Next

-----------------------------------------------------------------------------
(* The safety invariant *)

\* What concerns only credentials, QR pictures and the owner's flags cannot break it.
LEMMA Undisturbed ==
    ASSUME Safety,
           UNCHANGED <<authState, client, dials, timers, heartbeat, sock, hooked, opening,
                       forwarding, status>>
    PROVE  Safety'
  BY DEF Safety, NotStarted, ClientIsLive, DialMeansDown, OneAttempt, FinalIsFinal,
         SessionIsReal, ConnectedIsReported, Quiet, Live

\* Nothing is dialled, live or reported in the initial state.
LEMMA SafetyInit == Init => Safety
  BY DEF Init, Safety, NotStarted, ClientIsLive, DialMeansDown, OneAttempt, FinalIsFinal,
         SessionIsReal, ConnectedIsReported, Quiet, Live, Caller, Final

\* No listener is attached and nothing is dialled yet.
LEMMA AdapterConnectSafe ==
    ASSUME IInv, AdapterConnect
    PROVE  Safety'
  BY DEF IInv, Safety, AdapterConnect, authVars, sockVars, adapterVars, qrVars, NotStarted,
         ClientIsLive, DialMeansDown, OneAttempt, FinalIsFinal, SessionIsReal,
         ConnectedIsReported, Quiet, Live

\* The first dial starts from a quiet adapter.
LEMMA ListenerLoadedSafe ==
    ASSUME IInv, ListenerLoaded
    PROVE  Safety'
<1> USE DEF IInv, Safety, ListenerLoaded, BeginDial, TimersCleared, authVars, sockVars,
    adapterVars, qrVars
<1>1. NotStarted' /\ ClientIsLive' /\ DialMeansDown' /\ ConnectedIsReported'
  BY DEF NotStarted, Quiet, Live, ClientIsLive, DialMeansDown, ConnectedIsReported
<1>2. OneAttempt'
  BY DEF OneAttempt, Live, NotStarted, Quiet, Caller
<1>3. FinalIsFinal'
  BY DEF FinalIsFinal, Quiet, Live, Final
<1>4. SessionIsReal'
  BY DEF SessionIsReal, NotStarted
<1> QED BY <1>1, <1>2, <1>3, <1>4

\* A connect() that stopped before its dial leaves nothing behind.
LEMMA ListenerFailsSafe ==
    ASSUME IInv, ListenerFails
    PROVE  Safety'
  BY DEF IInv, Safety, ListenerFails, authVars, sockVars, adapterVars, qrVars, NotStarted,
         ClientIsLive, DialMeansDown, OneAttempt, FinalIsFinal, SessionIsReal,
         ConnectedIsReported, Quiet, Live

\* The one dial becomes the one socket.
LEMMA AdapterDialSucceedsSafe ==
    ASSUME IInv, AdapterDialSucceeds
    PROVE  Safety'
<1> USE DEF IInv, Safety, AdapterDialSucceeds, NewSocket, LoadedCreds, authVars, sockVars,
    adapterVars, qrVars
<1>1. NotStarted' /\ ConnectedIsReported'
  BY DEF NotStarted, Quiet, Live, ConnectedIsReported
<1>2. ClientIsLive'
  BY DEF ClientIsLive, TypeOK, AuthOK, SocketsOK, Caller, OneAttempt, Live, DialMeansDown
<1>3. DialMeansDown'
  BY DEF DialMeansDown, TypeOK, AuthOK, SocketsOK, Caller
<1>4. OneAttempt'
  BY DEF OneAttempt, Live, TypeOK, AuthOK, SocketsOK, Caller
<1>5. FinalIsFinal'
  BY DEF FinalIsFinal, Quiet, Live, TypeOK, AuthOK, SocketsOK, Caller
<1>6. SessionIsReal'
  BY DEF SessionIsReal, TypeOK, AuthOK, SocketsOK, Caller, OneAttempt, Live, DialMeansDown
<1> QED BY <1>1, <1>2, <1>3, <1>4, <1>5, <1>6

\* The rest of connect() leaves AuthSystem and its sockets alone.
LEMMA AttachReturnsSafe ==
    ASSUME IInv, AttachReturns
    PROVE  Safety'
  BY DEF IInv, Safety, AttachReturns, authVars, sockVars, adapterVars, qrVars, NotStarted,
         ClientIsLive, DialMeansDown, OneAttempt, FinalIsFinal, SessionIsReal,
         ConnectedIsReported, Quiet, Live

\* The same for a retry.
LEMMA TimerDialSucceedsSafe ==
    ASSUME IInv, TimerDialSucceeds
    PROVE  Safety'
<1> USE DEF IInv, Safety, TimerDialSucceeds, NewSocket, LoadedCreds, authVars, sockVars,
    adapterVars, qrVars
<1>1. ConnectedIsReported'
  BY DEF ConnectedIsReported
<1>2. NotStarted'
  BY DEF NotStarted, Quiet, Live, TypeOK, AuthOK, SocketsOK, Caller
<1>3. ClientIsLive'
  BY DEF ClientIsLive, TypeOK, AuthOK, SocketsOK, Caller, OneAttempt, Live, DialMeansDown
<1>4. DialMeansDown'
  BY DEF DialMeansDown, TypeOK, AuthOK, SocketsOK, Caller
<1>5. OneAttempt'
  BY DEF OneAttempt, Live, TypeOK, AuthOK, SocketsOK, Caller
<1>6. FinalIsFinal'
  BY DEF FinalIsFinal, Quiet, Live, TypeOK, AuthOK, SocketsOK, Caller
<1>7. SessionIsReal'
  BY DEF SessionIsReal, TypeOK, AuthOK, SocketsOK, Caller, OneAttempt, Live, DialMeansDown
<1> QED BY <1>1, <1>2, <1>3, <1>4, <1>5, <1>6, <1>7

\* A dial that fails leaves nothing dialling.
LEMMA DialFailsSafe ==
    ASSUME IInv, NEW c \in Caller, DialFails(c)
    PROVE  Safety'
<1> USE DEF IInv, Safety, DialFails, authVars, sockVars, adapterVars, qrVars
<1>1. NotStarted' /\ ClientIsLive' /\ DialMeansDown' /\ FinalIsFinal' /\ ConnectedIsReported'
  BY DEF NotStarted, Quiet, Live, ClientIsLive, DialMeansDown, FinalIsFinal,
      ConnectedIsReported
<1>2. OneAttempt'
  BY DEF OneAttempt, Live, TypeOK, AuthOK, SocketsOK, Caller
<1>3. SessionIsReal'
  BY DEF SessionIsReal, TypeOK, AuthOK, SocketsOK, Caller, OneAttempt, Live, DialMeansDown
<1> QED BY <1>1, <1>2, <1>3

\* A socket that shows a QR code has no session.
LEMMA QrShownSafe ==
    ASSUME IInv, NEW s \in Sock, QrShown(s)
    PROVE  Safety'
<1> USE DEF IInv, Safety, QrShown, Emit, authVars, sockVars, adapterVars, qrVars
<1>1. NotStarted' /\ ClientIsLive' /\ DialMeansDown' /\ OneAttempt' /\ SessionIsReal'
  BY DEF NotStarted, Quiet, Live, ClientIsLive, DialMeansDown, OneAttempt, SessionIsReal
<1>2. FinalIsFinal'
  BY DEF FinalIsFinal, Quiet, Live, Final
<1>3. ConnectedIsReported'
  BY DEF ConnectedIsReported, ClientIsLive, SessionIsReal
<1> QED BY <1>1, <1>2, <1>3

\* Pairing changes the state of the one socket.
LEMMA PairedSafe ==
    ASSUME IInv, NEW s \in Sock, Paired(s)
    PROVE  Safety'
  BY DEF IInv, Safety, Paired, authVars, sockVars, adapterVars, qrVars, NotStarted,
         ClientIsLive, DialMeansDown, OneAttempt, FinalIsFinal, SessionIsReal,
         ConnectedIsReported, Quiet, Live

\* Only the socket AuthSystem holds can open a session.
LEMMA OpenedSafe ==
    ASSUME IInv, NEW s \in Sock, Opened(s)
    PROVE  Safety'
<1> USE DEF IInv, Safety, Opened, Emit, authVars, sockVars, adapterVars, qrVars
<1>1. NotStarted' /\ ClientIsLive' /\ OneAttempt' /\ ConnectedIsReported'
  BY DEF NotStarted, Quiet, Live, ClientIsLive, OneAttempt, ConnectedIsReported
<1>2. DialMeansDown'
  BY DEF DialMeansDown, TypeOK, AuthOK, SocketsOK, Caller, OneAttempt, Live
<1>3. FinalIsFinal'
  BY DEF FinalIsFinal, Quiet, Live, Final
<1>4. SessionIsReal'
  <2>1. CASE s \in hooked
    <3>1. client = s /\ s # NULL
      BY SockAssumption DEF ClientIsLive
    <3>2. sock'[s] = "open" /\ client' = s /\ authState' = "connected"
      BY <2>1, <3>1 DEF TypeOK, SocketsOK
    <3> QED BY <3>1, <3>2 DEF SessionIsReal
  <2>2. CASE s \notin hooked
    BY <2>2 DEF SessionIsReal
  <2> QED BY <2>1, <2>2
<1> QED BY <1>1, <1>2, <1>3, <1>4

\* The only socket is replaced by at most one timer.
LEMMA ClosedSafe ==
    ASSUME IInv, NEW s \in Sock, Closed(s)
    PROVE  Safety'
<1> USE DEF IInv, Safety, Closed, SessionDown, CloseCodes, CloseFinal, CloseRetry, Emit,
    authVars, sockVars, adapterVars, qrVars
<1>1. NotStarted' /\ ClientIsLive' /\ DialMeansDown' /\ SessionIsReal' /\ ConnectedIsReported'
  BY DEF NotStarted, Quiet, Live, ClientIsLive, DialMeansDown, SessionIsReal,
         ConnectedIsReported
<1>2. OneAttempt'
  BY DEF OneAttempt, Live, TypeOK, AuthOK, SocketsOK, Caller
<1>3. FinalIsFinal'
  BY DEF FinalIsFinal, Quiet, Live, TypeOK, AuthOK, SocketsOK, Caller, OneAttempt,
      DialMeansDown
<1> QED BY <1>1, <1>2, <1>3

\* The one timer becomes the one dial.
LEMMA ReconnectTimerFiresSafe ==
    ASSUME IInv, ReconnectTimerFires
    PROVE  Safety'
<1> USE DEF IInv, Safety, ReconnectTimerFires, BeginDial, Emit, authVars, sockVars,
    adapterVars, qrVars
<1>1. NotStarted' /\ ClientIsLive' /\ DialMeansDown' /\ ConnectedIsReported'
  BY DEF NotStarted, Quiet, Live, ClientIsLive, DialMeansDown, ConnectedIsReported
<1>2. OneAttempt'
  BY DEF OneAttempt, Live, TypeOK, AuthOK, SocketsOK, Caller
<1>3. FinalIsFinal'
  BY DEF FinalIsFinal, Quiet, Live, Final
<1>4. SessionIsReal'
  BY DEF SessionIsReal, TypeOK, AuthOK, SocketsOK, Caller, OneAttempt, Live, DialMeansDown
<1> QED BY <1>1, <1>2, <1>3, <1>4

\* Ending the socket that AuthSystem holds leaves none that is not ended.
LEMMA HandshakeTimeoutSafe ==
    ASSUME IInv, HandshakeTimeout
    PROVE  Safety'
<1> USE DEF IInv, Safety, HandshakeTimeout, EndClient, EndedState, authVars, sockVars,
    adapterVars, qrVars
<1>1. NotStarted' /\ DialMeansDown' /\ SessionIsReal' /\ ConnectedIsReported'
  BY DEF NotStarted, Quiet, Live, DialMeansDown, SessionIsReal, ConnectedIsReported
<1>2. ClientIsLive'
  BY DEF ClientIsLive, TypeOK, AuthOK, SocketsOK, Caller
<1>3. OneAttempt'
  BY DEF OneAttempt, Live, TypeOK, AuthOK, SocketsOK, Caller
<1>4. FinalIsFinal'
  BY DEF FinalIsFinal, Quiet, Live, TypeOK, AuthOK, SocketsOK, Caller
<1> QED BY <1>1, <1>2, <1>3, <1>4

\* The first half of disconnect() only takes listeners away.
LEMMA OwnerDisconnectsSafe ==
    ASSUME IInv, OwnerDisconnects
    PROVE  Safety'
  BY DEF IInv, Safety, OwnerDisconnects, BeginDisconnect, authVars, sockVars, adapterVars,
         qrVars, NotStarted, ClientIsLive, DialMeansDown, OneAttempt, FinalIsFinal,
         SessionIsReal, ConnectedIsReported, Quiet, Live

\* The scan timeout does the same.
LEMMA QrTimeoutSafe ==
    ASSUME IInv, QrTimeout
    PROVE  Safety'
  BY DEF IInv, Safety, QrTimeout, BeginDisconnect, authVars, sockVars, adapterVars, qrVars,
         NotStarted, ClientIsLive, DialMeansDown, OneAttempt, FinalIsFinal, SessionIsReal,
         ConnectedIsReported, Quiet, Live

\* Its second half takes timers and the socket away.
LEMMA FinishDisconnectSafe ==
    ASSUME IInv, FinishDisconnect
    PROVE  Safety'
<1> USE DEF IInv, Safety, FinishDisconnect, EndClient, EndedState, TimersCleared,
    authVars, sockVars, adapterVars, qrVars
<1>1. SessionIsReal' /\ ConnectedIsReported'
  BY DEF SessionIsReal, ConnectedIsReported
<1>2. NotStarted'
  BY DEF NotStarted, Quiet, Live, TypeOK, AuthOK, SocketsOK, Caller
<1>3. ClientIsLive'
  BY DEF ClientIsLive, TypeOK, AuthOK, SocketsOK, Caller
<1>4. DialMeansDown'
  BY DEF DialMeansDown, TypeOK, AuthOK, SocketsOK, Caller
<1>5. OneAttempt'
  BY DEF OneAttempt, Live, TypeOK, AuthOK, SocketsOK, Caller
<1>6. FinalIsFinal'
  BY DEF FinalIsFinal, Quiet, Live, TypeOK, AuthOK, SocketsOK, Caller
<1> QED BY <1>1, <1>2, <1>3, <1>4, <1>5, <1>6

\* A disconnect() that fails did not change the connection.
LEMMA DisconnectFailsSafe ==
    ASSUME IInv, DisconnectFails
    PROVE  Safety'
  BY DEF IInv, Safety, DisconnectFails, authVars, sockVars, adapterVars, qrVars, NotStarted,
         ClientIsLive, DialMeansDown, OneAttempt, FinalIsFinal, SessionIsReal,
         ConnectedIsReported, Quiet, Live

-----------------------------------------------------------------------------
(* The invariant holds in every reachable state *)

\* Every action preserves the safety part of the invariant.
LEMMA SafetyNext ==
    ASSUME IInv, [Next]_vars
    PROVE  Safety'
<1>1. CASE Next
  <2>1. ASSUME AdapterConnect PROVE Safety'
    BY <2>1, AdapterConnectSafe
  <2>2. ASSUME ListenerLoaded PROVE Safety'
    BY <2>2, ListenerLoadedSafe
  <2>3. ASSUME ListenerFails PROVE Safety'
    BY <2>3, ListenerFailsSafe
  <2>4. ASSUME AdapterDialSucceeds PROVE Safety'
    BY <2>4, AdapterDialSucceedsSafe
  <2>5. ASSUME TimerDialSucceeds PROVE Safety'
    BY <2>5, TimerDialSucceedsSafe
  <2>6. ASSUME NEW c \in Caller, DialFails(c) PROVE Safety'
    BY <2>6, DialFailsSafe
  <2>7. ASSUME NEW s \in Sock, QrShown(s) PROVE Safety'
    BY <2>7, QrShownSafe
  <2>8. ASSUME QrRendered PROVE Safety'
    BY <2>8, Undisturbed DEF IInv, QrRendered, authVars, sockVars, adapterVars
  <2>9. ASSUME NEW s \in Sock, Paired(s) PROVE Safety'
    BY <2>9, PairedSafe
  <2>10. ASSUME NEW s \in Sock, SaveCreds(s) PROVE Safety'
    BY <2>10, Undisturbed DEF IInv, SaveCreds, authVars, sockVars, adapterVars
  <2>11. ASSUME NEW s \in Sock, SaveCredsFails(s) PROVE Safety'
    BY <2>11, Undisturbed DEF IInv, SaveCredsFails, authVars, sockVars, adapterVars
  <2>12. ASSUME NEW s \in Sock, Opened(s) PROVE Safety'
    BY <2>12, OpenedSafe
  <2>13. ASSUME NEW s \in Sock, Closed(s) PROVE Safety'
    BY <2>13, ClosedSafe
  <2>14. ASSUME ClearCreds PROVE Safety'
    BY <2>14, Undisturbed DEF IInv, ClearCreds, authVars, sockVars, adapterVars
  <2>15. ASSUME ReconnectTimerFires PROVE Safety'
    BY <2>15, ReconnectTimerFiresSafe
  <2>16. ASSUME HandshakeTimeout PROVE Safety'
    BY <2>16, HandshakeTimeoutSafe
  <2>17. ASSUME OwnerDisconnects PROVE Safety'
    BY <2>17, OwnerDisconnectsSafe
  <2>18. ASSUME QrTimeout PROVE Safety'
    BY <2>18, QrTimeoutSafe
  <2>19. ASSUME FinishDisconnect PROVE Safety'
    BY <2>19, FinishDisconnectSafe
  <2>20. ASSUME DisconnectFails PROVE Safety'
    BY <2>20, DisconnectFailsSafe
  <2>21. ASSUME AttachReturns PROVE Safety'
    BY <2>21, AttachReturnsSafe
  <2> QED BY <1>1, <2>1, <2>2, <2>3, <2>4, <2>5, <2>6, <2>7, <2>8, <2>9, <2>10, <2>11,
      <2>12, <2>13, <2>14, <2>15, <2>16, <2>17, <2>18, <2>19, <2>20, <2>21 DEF Next
<1>2. CASE UNCHANGED vars
  BY <1>2, Undisturbed DEF IInv, vars, authVars, sockVars, adapterVars
<1> QED BY <1>1, <1>2

\* Every variable stays in its range.  It is inductive by itself.
THEOREM TypeCorrect == Spec => []TypeOK
<1> QED BY TypeInit, TypeNext, PTL DEF Spec

\* The inductive invariant holds in every reachable state.
THEOREM InvCorrect == Spec => []IInv
<1>1. Init => IInv
  BY TypeInit, SafetyInit DEF IInv
<1>2. IInv /\ [Next]_vars => IInv'
  BY TypeNext, SafetyNext DEF IInv
<1> QED BY <1>1, <1>2, PTL DEF Spec

\* At most one dial, retry timer or socket exists, for any number of sockets.
THEOREM OneAttemptCorrect == Spec => []OneAttempt
<1>1. IInv => OneAttempt
  BY DEF IInv, Safety
<1> QED BY <1>1, InvCorrect, PTL

\* An adapter that was refused or has given up is quiet for good.
THEOREM FinalIsFinalCorrect == Spec => []FinalIsFinal
<1>1. IInv => FinalIsFinal
  BY DEF IInv, Safety
<1> QED BY <1>1, InvCorrect, PTL

\* AuthSystem believes in a session only over an open socket.
THEOREM SessionIsRealCorrect == Spec => []SessionIsReal
<1>1. IInv => SessionIsReal
  BY DEF IInv, Safety
<1> QED BY <1>1, InvCorrect, PTL

\* While the adapter listens, a session is shown as connected.
THEOREM ConnectedIsReportedCorrect == Spec => []ConnectedIsReported
<1>1. IInv => ConnectedIsReported
  BY DEF IInv, Safety
<1> QED BY <1>1, InvCorrect, PTL

-----------------------------------------------------------------------------
(* A handshake is watched.  Who closes has said so, and only who closes, or *)
(* has not begun, does not listen to AuthSystem.                            *)

Stops ==
    /\ opening = "idle" => closing = 0 /\ qrRender = 0 /\ ~qrTimer
    /\ closing > 0 => isDisconnecting
    /\ forwarding \/ isDisconnecting \/ opening \in {"idle", "loading", "unloaded"}

WatchInv == Stops /\ HandshakeIsWatched

\* The first half of a disconnect().
LEMMA BeginDisconnectWatched ==
    ASSUME TypeOK, WatchInv, opening # "idle", BeginDisconnect
    PROVE  WatchInv'
<1>1. Stops'
  BY DEF WatchInv, Stops, BeginDisconnect
<1>2. HandshakeIsWatched'
  BY DEF HandshakeIsWatched, BeginDisconnect
<1> QED BY <1>1, <1>2 DEF WatchInv

LEMMA WatchNext == IInv /\ WatchInv /\ [Next]_vars => WatchInv'
<1> SUFFICES ASSUME IInv, WatchInv, [Next]_vars PROVE WatchInv'
  OBVIOUS
<1> USE DEF authVars, sockVars, credVars, adapterVars, qrVars, vars
<1>t. TypeOK /\ Stops /\ HandshakeIsWatched
  BY DEF IInv, WatchInv
\* Steps that leave the adapter's own flags alone.
<1>k. ASSUME UNCHANGED <<opening, closing, qrRender, qrTimer, isDisconnecting, forwarding>>,
             HandshakeIsWatched'
      PROVE  WatchInv'
  BY <1>t, <1>k DEF WatchInv, Stops
<1>1. CASE AdapterConnect
  <2>1. authState = "disconnected"
    BY <1>1 DEF AdapterConnect, IInv, Safety, NotStarted
  <2> QED BY <1>1, <1>t, <2>1 DEF AdapterConnect, WatchInv, Stops, HandshakeIsWatched
<1>2. CASE ListenerLoaded \/ ListenerFails
  BY <1>2, <1>t DEF ListenerLoaded, ListenerFails, BeginDial, WatchInv, Stops, HandshakeIsWatched
<1>3. CASE AdapterDialSucceeds \/ TimerDialSucceeds
  <2>1. /\ UNCHANGED <<authState, connectTimeout, status, closing, qrRender, qrTimer,
                       isDisconnecting, forwarding>>
        /\ opening' \in {opening, "returned", "attaching"}
    BY <1>3 DEF AdapterDialSucceeds, TimerDialSucceeds
  <2>2. opening' # opening => dials["adapter"] > 0
    BY <1>3 DEF AdapterDialSucceeds, TimerDialSucceeds
  <2>3. dials["adapter"] > 0 => opening \notin {"idle", "loading", "unloaded"}
    BY DEF IInv, Safety, NotStarted, Quiet, Caller
  <2> QED BY <1>t, <2>1, <2>2, <2>3 DEF WatchInv, Stops, HandshakeIsWatched
<1>4. ASSUME NEW c \in Caller, DialFails(c) PROVE WatchInv'
  <2>1. opening \notin {"idle", "loading", "unloaded"}
    BY <1>4 DEF DialFails, IInv, Safety, NotStarted, Quiet
  <2> QED BY <1>4, <1>t, <2>1 DEF DialFails, WatchInv, Stops, HandshakeIsWatched
<1>5. ASSUME NEW s \in Sock, QrShown(s) PROVE WatchInv'
  <2>1. opening \notin {"idle", "loading", "unloaded"}
    BY <1>5 DEF QrShown, IInv, Safety, NotStarted, Quiet, Live
  <2>2. IF forwarding THEN status' = "qr_pending" ELSE isDisconnecting'
    BY <1>5, <1>t, <2>1 DEF QrShown, Emit, Stops
  <2>3. HandshakeIsWatched'
    BY <2>2, <1>5 DEF QrShown, HandshakeIsWatched
  <2>4. Stops'
    BY <1>5, <1>t, <2>1 DEF QrShown, Stops
  <2> QED BY <2>3, <2>4 DEF WatchInv
<1>6. CASE QrRendered
  <2>1. opening # "idle"
    BY <1>6, <1>t DEF QrRendered, Stops
  <2> QED BY <1>6, <1>t, <2>1 DEF QrRendered, WatchInv, Stops, HandshakeIsWatched
<1>7. ASSUME NEW s \in Sock, Paired(s) \/ SaveCreds(s) \/ SaveCredsFails(s) PROVE WatchInv'
  <2>1. HandshakeIsWatched'
    BY <1>7, <1>t DEF Paired, SaveCreds, SaveCredsFails, HandshakeIsWatched
  <2> QED BY <1>7, <1>k, <2>1 DEF Paired, SaveCreds, SaveCredsFails
<1>8. ASSUME NEW s \in Sock, Opened(s) PROVE WatchInv'
  <2>1. CASE s \in hooked
    <3>1. HandshakeIsWatched'
      BY <1>8, <2>1 DEF Opened, HandshakeIsWatched
    <3>2. Stops'
      BY <1>8, <2>1, <1>t DEF Opened, Stops
    <3> QED BY <3>1, <3>2 DEF WatchInv
  <2>2. CASE s \notin hooked
    <3>1. HandshakeIsWatched'
      BY <1>8, <2>2, <1>t DEF Opened, HandshakeIsWatched
    <3> QED BY <1>8, <1>k, <2>2, <3>1 DEF Opened
  <2> QED BY <2>1, <2>2
<1>9. ASSUME NEW s \in Sock, Closed(s) PROVE WatchInv'
  <2>1. HandshakeIsWatched'
    BY <1>9, <1>t DEF Closed, SessionDown, HandshakeIsWatched
  <2> QED BY <1>9, <1>k, <2>1 DEF Closed
<1>10. CASE ClearCreds
  <2>1. HandshakeIsWatched'
    BY <1>10, <1>t DEF ClearCreds, HandshakeIsWatched
  <2> QED BY <1>10, <1>k, <2>1 DEF ClearCreds
<1>11. CASE ReconnectTimerFires
  <2>1. HandshakeIsWatched'
    BY <1>11 DEF ReconnectTimerFires, BeginDial, HandshakeIsWatched
  <2> QED BY <1>11, <1>k, <2>1 DEF ReconnectTimerFires
<1>12. CASE HandshakeTimeout
  <2>1. HandshakeIsWatched'
    BY <1>12 DEF HandshakeTimeout, HandshakeIsWatched
  <2> QED BY <1>12, <1>k, <2>1 DEF HandshakeTimeout
<1>13. CASE OwnerDisconnects
  BY <1>13, <1>t, BeginDisconnectWatched DEF OwnerDisconnects, WatchInv
<1>14. CASE QrTimeout
  <2>1. opening # "idle"
    BY <1>14, <1>t DEF QrTimeout, Stops
  <2>2. CASE status = "qr_pending"
    BY <1>14, <1>t, <2>1, <2>2, BeginDisconnectWatched DEF QrTimeout, WatchInv
  <2>3. CASE status # "qr_pending"
    BY <1>14, <1>t, <2>1, <2>3 DEF QrTimeout, WatchInv, Stops, HandshakeIsWatched
  <2> QED BY <2>2, <2>3
<1>15. CASE FinishDisconnect \/ DisconnectFails
  <2>1. closing > 0 /\ closing \in Nat /\ isDisconnecting
    BY <1>15, <1>t DEF FinishDisconnect, DisconnectFails, Stops, TypeOK, AdapterOK
  <2>2. /\ UNCHANGED <<opening, qrRender, qrTimer, isDisconnecting, forwarding>>
        /\ closing' = closing - 1
    BY <1>15 DEF FinishDisconnect, DisconnectFails
  <2> QED BY <1>t, <2>1, <2>2 DEF WatchInv, Stops, HandshakeIsWatched
<1>16. CASE AttachReturns \/ UNCHANGED vars
  BY <1>16, <1>t DEF AttachReturns, WatchInv, Stops, HandshakeIsWatched
<1> QED
  BY <1>1, <1>2, <1>3, <1>4, <1>5, <1>6, <1>7, <1>8, <1>9, <1>10, <1>11, <1>12, <1>13,
     <1>14, <1>15, <1>16 DEF Next

\* AuthSystem never dials without a timer on the handshake: whatever overlaps, a handshake
\* without one has shown a QR code or is being ended by disconnect().
THEOREM HandshakeIsWatchedCorrect == Spec => []HandshakeIsWatched
<1>1. Init => WatchInv
  BY DEF Init, WatchInv, Stops, HandshakeIsWatched
<1>2. WatchInv => HandshakeIsWatched
  BY DEF WatchInv
<1> QED BY <1>1, <1>2, WatchNext, InvCorrect, PTL DEF Spec

-----------------------------------------------------------------------------
(* What is saved.  Only forceNewSession parts the credentials a socket uses *)
(* from the object that saveCreds writes.                                   *)

CredsAgree ==
    /\ ~force => forced = {}
    /\ \A s \in Sock : s \in unsaved /\ s \notin forced => target[s] = mem[s]

LEMMA CredsNext == TypeOK /\ CredsAgree /\ [Next]_vars => CredsAgree'
<1> SUFFICES ASSUME TypeOK, CredsAgree, [Next]_vars PROVE CredsAgree'
  OBVIOUS
<1> USE DEF authVars, sockVars, credVars, adapterVars, qrVars, vars
<1>k. ASSUME UNCHANGED <<force, forced, mem, target>>, unsaved' \subseteq unsaved
      PROVE  CredsAgree'
  BY <1>k DEF CredsAgree
<1>1. CASE AdapterDialSucceeds \/ TimerDialSucceeds
  <2>1. PICK s \in Sock, loaded \in LoadedCreds, renewed \in BOOLEAN :
           /\ NewSocket(s, renewed, loaded) /\ (renewed => force)
           /\ UNCHANGED <<force, unsaved>>
    <3>1. CASE AdapterDialSucceeds
      BY <1>1, <3>1 DEF AdapterDialSucceeds, TypeOK, FlagsOK
    <3>2. CASE TimerDialSucceeds
      BY <3>2 DEF TimerDialSucceeds
    <3> QED BY <1>1, <3>1, <3>2
  <2>2. s \notin unsaved /\ (~force => forced' = {})
    BY <2>1 DEF NewSocket, CredsAgree
  <2>3. \A t \in Sock : t # s => mem'[t] = mem[t] /\ target'[t] = target[t]
                                 /\ (t \in forced <=> t \in forced')
    BY <2>1 DEF NewSocket, TypeOK, SocketsOK
  <2> QED BY <2>1, <2>2, <2>3 DEF CredsAgree
<1>2. ASSUME NEW s \in Sock, Paired(s) PROVE CredsAgree'
  <2>1. mem'[s] = "paired" /\ (s \notin forced => target'[s] = "paired")
    BY <1>2 DEF Paired, TypeOK, SocketsOK
  <2>2. \A t \in Sock : t # s => mem'[t] = mem[t] /\ target'[t] = target[t]
    BY <1>2 DEF Paired, TypeOK, SocketsOK
  <2>3. UNCHANGED <<force, forced>> /\ unsaved' = unsaved \cup {s}
    BY <1>2 DEF Paired
  <2> QED BY <2>1, <2>2, <2>3 DEF CredsAgree
<1>3. ASSUME NEW s \in Sock,
             QrShown(s) \/ Opened(s) \/ Closed(s) \/ SaveCreds(s) \/ SaveCredsFails(s)
      PROVE  CredsAgree'
  BY <1>3, <1>k DEF QrShown, Opened, Closed, SaveCreds, SaveCredsFails
<1>4. ASSUME NEW c \in Caller, DialFails(c) PROVE CredsAgree'
  BY <1>4, <1>k DEF DialFails
<1>5. CASE AdapterConnect \/ ListenerLoaded \/ ListenerFails \/ QrRendered \/ ClearCreds
             \/ ReconnectTimerFires \/ HandshakeTimeout \/ OwnerDisconnects \/ QrTimeout
             \/ FinishDisconnect \/ DisconnectFails \/ AttachReturns \/ UNCHANGED vars
  BY <1>5, <1>k DEF AttachReturns, AdapterConnect, ListenerLoaded, ListenerFails, QrRendered, ClearCreds,
     ReconnectTimerFires, HandshakeTimeout, OwnerDisconnects, QrTimeout, BeginDisconnect,
     FinishDisconnect, DisconnectFails
<1> QED BY <1>1, <1>2, <1>3, <1>4, <1>5 DEF Next

\* A pairing is saved as it is, unless the adapter was asked for a new session.
THEOREM SavedAsPairedCorrect == Spec => SavedAsPaired
<1>1. Init => CredsAgree
  BY DEF Init, CredsAgree
<1>2. CredsAgree /\ [Next]_vars =>
         [\A s \in Sock : SaveCreds(s) /\ ~force => stored' = mem[s]]_vars
  BY DEF CredsAgree, SaveCreds
<1> QED BY <1>1, <1>2, CredsNext, TypeCorrect, PTL DEF Spec, SavedAsPaired

-----------------------------------------------------------------------------
(* A disconnect is final.  A socket is left ending only when its end reports. *)

EndingReports == \A s \in Sock : sock[s] = "ending" => EndReportsClose

LEMMA EndingNext == TypeOK /\ EndingReports /\ [Next]_vars => EndingReports'
<1> SUFFICES ASSUME TypeOK, EndingReports, [Next]_vars PROVE EndingReports'
  OBVIOUS
<1> USE DEF authVars, sockVars, credVars, adapterVars, qrVars, vars
<1>u. ASSUME UNCHANGED sock PROVE EndingReports'
  BY <1>u DEF EndingReports
<1>1. ASSUME NEW s \in Sock, NEW st \in SockState, sock' = [sock EXCEPT ![s] = st],
             st = "ending" => EndReportsClose
      PROVE  EndingReports'
  BY <1>1 DEF EndingReports, TypeOK, SocketsOK
<1>2. ASSUME EndClient PROVE EndingReports'
  <2>1. CASE client = NULL
    BY <1>2, <2>1, <1>u DEF EndClient
  <2>2. CASE client # NULL
    <3>1. client \in Sock /\ sock' = [sock EXCEPT ![client] = EndedState(client)]
      BY <1>2, <2>2 DEF EndClient, TypeOK, AuthOK
    <3> QED BY <3>1, <1>1 DEF EndedState, SockState
  <2> QED BY <2>1, <2>2
<1>3. CASE AdapterDialSucceeds
  <2>1. PICK s \in Sock :
           sock' = [sock EXCEPT ![s] =
                      IF ~isDisconnecting THEN "opening"
                      ELSE IF EndReportsClose THEN "ending" ELSE "closed"]
    <3>1. CASE isDisconnecting
      BY <1>3, <3>1 DEF AdapterDialSucceeds
    <3>2. CASE ~isDisconnecting
      BY <1>3, <3>2 DEF AdapterDialSucceeds
    <3> QED BY <3>1, <3>2
  <2> QED BY <2>1, <1>1 DEF SockState
<1>4. CASE TimerDialSucceeds
  BY <1>4, <1>1 DEF TimerDialSucceeds, SockState
<1>5. ASSUME NEW s \in Sock, Paired(s) \/ Opened(s) \/ Closed(s) PROVE EndingReports'
  BY <1>5, <1>1 DEF Paired, Opened, Closed, SockState
<1>6. ASSUME NEW s \in Sock, QrShown(s) \/ SaveCreds(s) \/ SaveCredsFails(s)
      PROVE  EndingReports'
  BY <1>6, <1>u DEF QrShown, SaveCreds, SaveCredsFails
<1>7. ASSUME NEW c \in Caller, DialFails(c) PROVE EndingReports'
  BY <1>7, <1>u DEF DialFails
<1>8. CASE HandshakeTimeout
  BY <1>8, <1>2, <1>u DEF HandshakeTimeout
<1>9. CASE FinishDisconnect
  BY <1>9, <1>2 DEF FinishDisconnect
<1>10. CASE AdapterConnect \/ ListenerLoaded \/ ListenerFails \/ QrRendered \/ ClearCreds
              \/ ReconnectTimerFires \/ OwnerDisconnects \/ QrTimeout \/ DisconnectFails
              \/ AttachReturns \/ UNCHANGED vars
  BY <1>10, <1>u DEF AttachReturns, AdapterConnect, ListenerLoaded, ListenerFails, QrRendered, ClearCreds,
     ReconnectTimerFires, OwnerDisconnects, QrTimeout, BeginDisconnect, DisconnectFails
<1> QED BY <1>3, <1>4, <1>5, <1>6, <1>7, <1>8, <1>9, <1>10 DEF Next

\* What disconnect() leaves of the sockets once the client's is ended.
LEMMA FinishLeavesNothing ==
    ASSUME IInv, Stops, EndingReports, FinishDisconnect, opening # "loading",
           \A c \in Caller : dials[c] = 0,
           EndReportsClose => \A s \in hooked : ~Live(s)
    PROVE  NothingLeft'
<1> USE DEF authVars, sockVars, credVars, adapterVars, qrVars
<1>t. TypeOK /\ OneAttempt /\ ClientIsLive
  BY DEF IInv, Safety
<1>1. isDisconnecting' /\ opening' \notin {"idle", "loading"} /\ dials' = dials
  BY <1>t DEF FinishDisconnect, Stops, TypeOK, AdapterOK
<1>2. timers' = 0
  BY <1>t DEF FinishDisconnect, TimersCleared, OneAttempt, TypeOK, AuthOK, Caller
<1>3. ASSUME NEW s \in Sock
      PROVE  sock'[s] = "closed" \/ (sock'[s] = "ending" /\ s \notin hooked')
  <2>1. sock[s] \in SockState /\ hooked' \subseteq hooked
    BY <1>t DEF FinishDisconnect, EndClient, TypeOK, SocketsOK
  <2>2. CASE client = s
    <3>1. s # NULL => sock'[s] = EndedState(s)
      BY <2>2, <1>t DEF FinishDisconnect, EndClient, TypeOK, SocketsOK
    <3>2. CASE s = NULL
      BY <2>2, <3>2, SockAssumption
    <3>3. EndReportsClose /\ s \in hooked => sock[s] = "closed"
      BY DEF Live
    <3> QED BY <3>1, <3>2, <3>3 DEF EndedState
  <2>3. CASE client # s
    <3>1. sock[s] \in {"closed", "ending"}
      BY <2>1, <2>3, <1>t DEF ClientIsLive, SockState
    <3>2. sock'[s] = sock[s]
      BY <2>3, <1>t DEF FinishDisconnect, EndClient, TypeOK, SocketsOK
    <3>3. sock[s] = "ending" => s \notin hooked
      BY DEF EndingReports, Live
    <3> QED BY <3>1, <3>2, <3>3, <2>1
  <2> QED BY <2>2, <2>3
<1> QED BY <1>1, <1>2, <1>3 DEF NothingLeft

\* Whatever is left of the adapter cannot bring it back.
LEMMA NothingStaysLeft == TypeOK /\ NothingLeft /\ [Next]_vars => NothingLeft'
<1> SUFFICES ASSUME TypeOK, NothingLeft, [Next]_vars PROVE NothingLeft'
  OBVIOUS
<1> USE DEF authVars, sockVars, credVars, adapterVars, qrVars, vars
<1>u. ASSUME UNCHANGED <<isDisconnecting, opening, dials, timers, sock>>, hooked' \subseteq hooked
      PROVE  NothingLeft'
  BY <1>u DEF NothingLeft
<1>c. ASSUME EndClient, UNCHANGED <<isDisconnecting, opening, dials>>, timers' = 0
      PROVE  NothingLeft'
  <2>1. CASE client = NULL
    BY <1>c, <2>1 DEF EndClient, NothingLeft
  <2>2. CASE client # NULL
    <3>1. client \in Sock /\ hooked' \subseteq hooked
      BY <1>c, <2>2 DEF EndClient, TypeOK, AuthOK
    <3>2. EndedState(client) = "closed"
      BY <3>1 DEF NothingLeft, EndedState
    <3>3. sock' = [sock EXCEPT ![client] = "closed"]
      BY <1>c, <2>2, <3>2 DEF EndClient
    <3> QED BY <1>c, <3>1, <3>3 DEF NothingLeft, TypeOK, SocketsOK
  <2> QED BY <2>1, <2>2
<1>1. CASE AdapterDialSucceeds \/ TimerDialSucceeds \/ (\E c \in Caller : DialFails(c))
  <2>1. PICK c \in Caller : dials[c] > 0
    BY <1>1 DEF AdapterDialSucceeds, TimerDialSucceeds, DialFails, Caller
  <2> QED BY <2>1 DEF NothingLeft
<1>2. ASSUME NEW s \in Sock, QrShown(s) \/ Paired(s) \/ Opened(s) PROVE NothingLeft'
  BY <1>2 DEF QrShown, Paired, Opened, NothingLeft
<1>3. ASSUME NEW s \in Sock, Closed(s) PROVE NothingLeft'
  <2>1. s \notin hooked /\ sock' = [sock EXCEPT ![s] = "closed"] /\ hooked' = hooked \ {s}
    BY <1>3 DEF Closed, Live, NothingLeft
  <2>2. UNCHANGED <<isDisconnecting, opening, dials, timers>>
    BY <1>3, <2>1 DEF Closed
  <2> QED BY <2>1, <2>2 DEF NothingLeft, TypeOK, SocketsOK
<1>4. CASE HandshakeTimeout
  <2>1. UNCHANGED <<isDisconnecting, opening, dials>> /\ timers' = 0
    BY <1>4 DEF HandshakeTimeout, NothingLeft
  <2>2. EndClient \/ UNCHANGED sockVars
    BY <1>4 DEF HandshakeTimeout
  <2> QED BY <2>1, <2>2, <1>c DEF NothingLeft
<1>5. CASE FinishDisconnect
  <2>1. UNCHANGED <<isDisconnecting, opening, dials>> /\ timers' = 0 /\ EndClient
    BY <1>5 DEF FinishDisconnect, TimersCleared, NothingLeft
  <2> QED BY <2>1, <1>c
<1>6. CASE OwnerDisconnects \/ QrTimeout
  BY <1>6 DEF OwnerDisconnects, QrTimeout, BeginDisconnect, NothingLeft
<1>7. CASE AdapterConnect \/ ListenerLoaded \/ ListenerFails \/ ReconnectTimerFires
  <2>1. opening \in {"idle", "loading"} \/ timers > 0
    BY <1>7 DEF AdapterConnect, ListenerLoaded, ListenerFails, ReconnectTimerFires
  <2> QED BY <2>1 DEF NothingLeft
<1>8. ASSUME NEW s \in Sock, SaveCreds(s) \/ SaveCredsFails(s) PROVE NothingLeft'
  BY <1>8, <1>u DEF SaveCreds, SaveCredsFails
<1>9. CASE QrRendered \/ ClearCreds \/ DisconnectFails \/ UNCHANGED vars
  BY <1>9, <1>u DEF QrRendered, ClearCreds, DisconnectFails
<1>10. CASE AttachReturns
  BY <1>10 DEF AttachReturns, NothingLeft
<1> QED BY <1>1, <1>2, <1>3, <1>4, <1>5, <1>6, <1>7, <1>8, <1>9, <1>10 DEF Next

\* A disconnect() that meets no suspended dial and no close it would still hear takes the
\* adapter down for good.
THEOREM DisconnectIsFinalCorrect == Spec => DisconnectIsFinal
<1>1. Init => WatchInv /\ EndingReports
  BY DEF Init, WatchInv, Stops, HandshakeIsWatched, EndingReports
<1>2. IInv /\ WatchInv /\ EndingReports /\ [Next]_vars =>
         [/\ /\ FinishDisconnect
             /\ opening # "loading" /\ \A c \in Caller : dials[c] = 0
             /\ EndReportsClose => \A s \in hooked : ~Live(s)
             => NothingLeft'
          /\ NothingLeft => NothingLeft']_vars
  BY FinishLeavesNothing, NothingStaysLeft DEF IInv, WatchInv
<1>3. IInv => TypeOK
  BY DEF IInv
<1> QED
  BY <1>1, <1>2, <1>3, WatchNext, EndingNext, InvCorrect, PTL DEF Spec, DisconnectIsFinal

-----------------------------------------------------------------------------
(* The rules of AdapterLink.  A dial of the adapter's own is awaited by its *)
(* connect(), and a stopped adapter does not listen to the socket it holds. *)

HeldInv ==
    /\ dials["adapter"] > 0 => opening = "dialing"
    /\ isDisconnecting => held \notin hooked

LEMMA HeldNext == IInv /\ HeldInv /\ [Next]_vars => HeldInv'
<1> SUFFICES ASSUME IInv, HeldInv, [Next]_vars PROVE HeldInv'
  OBVIOUS
<1> USE DEF authVars, sockVars, credVars, adapterVars, qrVars, vars
<1>t. TypeOK /\ NotStarted /\ OneAttempt
  BY DEF IInv, Safety
<1>u. ASSUME UNCHANGED <<dials, opening, isDisconnecting, held>>, hooked' \subseteq hooked
      PROVE  HeldInv'
  BY <1>u DEF HeldInv
<1>1. CASE AdapterConnect
  <2>1. dials'["adapter"] = 0 /\ ~isDisconnecting'
    BY <1>1, <1>t DEF AdapterConnect, NotStarted, Quiet, Caller
  <2> QED BY <2>1 DEF HeldInv
<1>2. CASE ListenerLoaded
  BY <1>2 DEF ListenerLoaded, BeginDial, HeldInv
<1>3. CASE ListenerFails
  <2>1. dials'["adapter"] = 0
    BY <1>3, <1>t DEF ListenerFails, NotStarted, Quiet, Caller
  <2> QED BY <1>3, <2>1 DEF ListenerFails, HeldInv
<1>4. CASE AdapterDialSucceeds
  <2>1. dials'["adapter"] = 0
    BY <1>4, <1>t DEF AdapterDialSucceeds, OneAttempt, TypeOK, AuthOK, Caller
  <2>2. isDisconnecting' => held' \notin hooked'
    BY <1>4 DEF AdapterDialSucceeds, NewSocket, HeldInv
  <2> QED BY <2>1, <2>2 DEF HeldInv
<1>5. CASE TimerDialSucceeds
  <2>1. dials'["adapter"] = dials["adapter"]
    BY <1>5, <1>t DEF TimerDialSucceeds, TypeOK, AuthOK, Caller
  <2> QED BY <1>5, <2>1 DEF TimerDialSucceeds, NewSocket, HeldInv
<1>6. ASSUME NEW c \in Caller, DialFails(c) PROVE HeldInv'
  <2>1. dials'["adapter"] > 0 => opening' = "dialing"
    <3>1. CASE c = "adapter"
      BY <1>6, <3>1, <1>t DEF DialFails, OneAttempt, TypeOK, AuthOK, Caller
    <3>2. CASE c = "timer"
      BY <1>6, <3>2, <1>t DEF DialFails, HeldInv, TypeOK, AuthOK, Caller
    <3> QED BY <3>1, <3>2 DEF Caller
  <2>2. UNCHANGED <<isDisconnecting, held, hooked>>
    BY <1>6 DEF DialFails
  <2> QED BY <2>1, <2>2 DEF HeldInv
<1>7. CASE AttachReturns
  BY <1>7 DEF AttachReturns, HeldInv
<1>8. ASSUME NEW s \in Sock,
             \/ QrShown(s) \/ Paired(s) \/ Opened(s) \/ Closed(s)
             \/ SaveCreds(s) \/ SaveCredsFails(s)
      PROVE  HeldInv'
  BY <1>8, <1>u DEF QrShown, Paired, Opened, Closed, SaveCreds, SaveCredsFails
<1>9. CASE ReconnectTimerFires
  <2>1. dials'["adapter"] = dials["adapter"]
    BY <1>9, <1>t DEF ReconnectTimerFires, BeginDial, TypeOK, AuthOK, Caller
  <2> QED BY <1>9, <2>1 DEF ReconnectTimerFires, HeldInv
<1>10. CASE HandshakeTimeout
  BY <1>10, <1>u DEF HandshakeTimeout, EndClient
<1>11. CASE OwnerDisconnects \/ QrTimeout
  BY <1>11 DEF OwnerDisconnects, QrTimeout, BeginDisconnect, HeldInv
<1>12. CASE FinishDisconnect
  <2>1. NULL \notin hooked'
    BY <1>12, <1>t, SockAssumption DEF FinishDisconnect, EndClient, TypeOK, SocketsOK
  <2> QED BY <1>12, <2>1 DEF FinishDisconnect, HeldInv
<1>13. CASE QrRendered \/ ClearCreds \/ DisconnectFails \/ UNCHANGED vars
  BY <1>13, <1>u DEF QrRendered, ClearCreds, DisconnectFails
<1> QED
  BY <1>1, <1>2, <1>3, <1>4, <1>5, <1>6, <1>7, <1>8, <1>9, <1>10, <1>11, <1>12, <1>13 DEF Next

\* When a socket lives, nothing else does.
LEMMA OneLives ==
    ASSUME IInv, NEW s \in Sock, Live(s)
    PROVE  /\ dials["adapter"] = 0 /\ dials["timer"] = 0 /\ timers = 0
           /\ \A t \in Sock : t # s => sock[t] = "closed"
           /\ opening \notin {"idle", "loading", "unloaded"}
  BY DEF IInv, Safety, NotStarted, Quiet, OneAttempt, Live, TypeOK, AuthOK, Caller

\* When something dials or waits to, no socket lives.
LEMMA OneDials ==
    ASSUME IInv, dials["adapter"] + dials["timer"] + timers > 0
    PROVE  /\ dials["adapter"] + dials["timer"] + timers = 1
           /\ \A t \in Sock : sock[t] = "closed"
           /\ opening \notin {"idle", "loading", "unloaded"}
  BY DEF IInv, Safety, NotStarted, Quiet, OneAttempt, Live, TypeOK, AuthOK, Caller

\* What a step that takes nobody's closing away and leaves connect() alone has to show.
LEMMA LinkStepBy ==
    ASSUME TypeOK, opening' = opening, closing' >= closing, closing' \in Nat,
           isDisconnecting' # isDisconnecting => LinkState' = LinkState,
           LinkState' \in {LinkState} \cup OwnMoves(LinkState, isDisconnecting)
    PROVE  LinkStep
<1>1. ~FinishDisconnect
  BY DEF FinishDisconnect, TypeOK, AdapterOK
<1> QED BY <1>1 DEF LinkStep

\* Most steps change nothing the link depends on.
LEMMA LinkSame ==
    ASSUME TypeOK, UNCHANGED <<opening, dials, timers, held, sock>>,
           \A s \in Sock : s # held /\ Live(s) => (s \in hooked' <=> s \in hooked),
           hooked' \subseteq Sock, closing' >= closing, closing' \in Nat
    PROVE  LinkStep
<1>1. LinkState' = LinkState
  BY DEF LinkState, Live, TypeOK, SocketsOK
<1> QED BY <1>1, LinkStepBy

\* Its own dial comes back.
LEMMA LinkOfOwnDial ==
    ASSUME IInv, HeldInv, AdapterDialSucceeds
    PROVE  LinkStep
<1> USE DEF authVars, sockVars, credVars, adapterVars, qrVars
<1>t. TypeOK
  BY DEF IInv
<1>1. opening = "dialing" /\ ~FinishDisconnect
  BY <1>t DEF AdapterDialSucceeds, HeldInv, FinishDisconnect, TypeOK, AdapterOK
<1>2. dials["adapter"] + dials["timer"] + timers > 0 /\ dials["adapter"] > 0
  BY <1>t DEF AdapterDialSucceeds, TypeOK, AuthOK, Caller
<1>3. dials["adapter"] = 1 /\ dials["timer"] = 0 /\ timers = 0 /\ \A t \in Sock : sock[t] = "closed"
  BY <1>2, <1>t, OneDials DEF TypeOK, AuthOK, Caller
<1>4. dials'["adapter"] = 0 /\ dials'["timer"] = 0 /\ timers' = 0
  BY <1>3, <1>t DEF AdapterDialSucceeds, TypeOK, AuthOK, Caller
<1>5. PICK s \in Sock :
         /\ hooked' = hooked \cup {s} /\ s # held
         /\ IF isDisconnecting
            THEN /\ opening' = "returned" /\ held' = held
                 /\ sock' = [sock EXCEPT ![s] = IF EndReportsClose THEN "ending" ELSE "closed"]
            ELSE /\ opening' = "attaching" /\ held' = s
                 /\ sock' = [sock EXCEPT ![s] = "opening"]
  BY DEF AdapterDialSucceeds, NewSocket
<1>6. isDisconnecting' = isDisconnecting
  BY DEF AdapterDialSucceeds
<1>7. \A t \in Sock : t # s => sock'[t] = "closed"
  BY <1>3, <1>5, <1>t DEF TypeOK, SocketsOK
<1>8. opening' \notin {"idle", "loading"}
  BY <1>5
<1>9. LinkState' = IF \E t \in Sock : t = held' /\ sock'[t] # "closed" THEN "held"
                   ELSE IF \E t \in hooked' : t # held' /\ sock'[t] = "ending"
                   THEN "redialing"
                   ELSE IF \E t \in Sock : t # held' /\ sock'[t] \in {"opening", "pairing", "open"}
                   THEN "redialed" ELSE "over"
  BY <1>4, <1>8 DEF LinkState, Live
<1>h. hooked' \subseteq Sock
  BY <1>5, <1>t DEF TypeOK, SocketsOK
<1>10. CASE isDisconnecting
  <2>1. sock'[s] \in {"ending", "closed"} /\ held' = held /\ opening' = "returned"
    BY <1>5, <1>10, <1>t DEF TypeOK, SocketsOK
  <2>2. LinkState' \in {"redialing", "over"}
    BY <2>1, <1>5, <1>7, <1>9
  <2> QED BY <2>1, <2>2, <1>1, <1>6, <1>10 DEF LinkStep, DialReturns
<1>11. CASE ~isDisconnecting
  <2>1. sock'[s] = "opening" /\ held' = s /\ opening' = "attaching"
    BY <1>5, <1>11, <1>t DEF TypeOK, SocketsOK
  <2>2. LinkState' = "held"
    BY <2>1, <1>9
  <2> QED BY <2>1, <2>2, <1>1, <1>6, <1>11 DEF LinkStep, DialReturns
<1> QED BY <1>10, <1>11

\* A dial fails.
LEMMA LinkOfFailure ==
    ASSUME IInv, HeldInv, NEW c \in Caller, DialFails(c)
    PROVE  LinkStep
<1> USE DEF authVars, sockVars, credVars, adapterVars, qrVars
<1>t. TypeOK
  BY DEF IInv
<1>1. dials["adapter"] + dials["timer"] + timers > 0 /\ dials[c] > 0
  BY <1>t DEF DialFails, TypeOK, AuthOK, Caller
<1>2. /\ dials["adapter"] + dials["timer"] + timers = 1
      /\ opening \notin {"idle", "loading"} /\ \A t \in Sock : sock[t] = "closed"
  BY <1>1, OneDials
<1>3. dials'["adapter"] = 0 /\ dials'["timer"] = 0 /\ timers' = 0
  BY <1>1, <1>2, <1>t DEF DialFails, TypeOK, AuthOK, Caller
<1>4. /\ opening' \notin {"idle", "loading"} /\ hooked' \subseteq Sock
      /\ UNCHANGED <<sock, isDisconnecting, closing>>
  BY <1>2, <1>t DEF DialFails, TypeOK, SocketsOK
<1>5. LinkState' = "over"
  BY <1>2, <1>3, <1>4 DEF LinkState, Live
<1>6. ~FinishDisconnect
  BY <1>4, <1>t DEF FinishDisconnect, TypeOK, AdapterOK
<1>7. CASE c = "adapter"
  <2>1. opening = "dialing" /\ opening' = (IF isDisconnecting THEN "returned" ELSE "failed")
    BY <1>1, <1>7 DEF DialFails, HeldInv
  <2> QED BY <2>1, <1>4, <1>5, <1>6 DEF LinkStep, DialReturns
<1>8. CASE c = "timer"
  <2>1. opening' = opening
    BY <1>8 DEF DialFails
  <2>2. dials["adapter"] = 0 /\ dials["timer"] + timers > 0
    BY <1>1, <1>2, <1>8, <1>t DEF TypeOK, AuthOK, Caller
  <2>3. LinkState = "redialing"
    BY <1>2, <2>2 DEF LinkState, Live
  <2> QED BY <2>1, <2>3, <1>4, <1>5, <1>6 DEF LinkStep, OwnMoves
<1> QED BY <1>7, <1>8 DEF Caller

\* A reconnect dials.
LEMMA LinkOfRedial ==
    ASSUME IInv, HeldInv, ReconnectTimerFires \/ TimerDialSucceeds
    PROVE  LinkStep
<1> USE DEF authVars, sockVars, credVars, adapterVars, qrVars
<1>t. TypeOK
  BY DEF IInv
<1>1. dials["adapter"] + dials["timer"] + timers > 0 /\ dials["timer"] + timers > 0
  <2>1. timers > 0 \/ dials["timer"] > 0
    BY DEF ReconnectTimerFires, TimerDialSucceeds
  <2> QED BY <2>1, <1>t DEF TypeOK, AuthOK, Caller
<1>2. /\ dials["adapter"] = 0 /\ dials["timer"] + timers = 1
      /\ opening \notin {"idle", "loading"} /\ \A t \in Sock : sock[t] = "closed"
  BY <1>1, <1>t, OneDials DEF TypeOK, AuthOK, Caller
<1>3. LinkState = "redialing"
  BY <1>2 DEF LinkState, Live
<1>4. /\ UNCHANGED <<opening, isDisconnecting, closing, held>> /\ closing \in Nat
      /\ dials'["adapter"] = 0
  BY <1>2, <1>t DEF ReconnectTimerFires, BeginDial, TimerDialSucceeds, TypeOK, AuthOK,
     AdapterOK, Caller
<1>5. CASE ReconnectTimerFires
  <2>1. dials'["timer"] + timers' > 0 /\ UNCHANGED sock
    BY <1>5, <1>t DEF ReconnectTimerFires, BeginDial, TypeOK, AuthOK, Caller
  <2>2. LinkState' = "redialing"
    BY <1>2, <1>4, <2>1 DEF LinkState, Live
  <2> QED BY <1>3, <1>4, <2>2, <1>t, LinkStepBy
<1>6. CASE TimerDialSucceeds
  <2>1. dials'["timer"] = 0 /\ timers' = 0
    BY <1>2, <1>6, <1>t DEF TimerDialSucceeds, TypeOK, AuthOK, Caller
  <2>2. PICK s \in Sock : s # held /\ sock' = [sock EXCEPT ![s] = "opening"] /\ hooked' = hooked \cup {s}
    BY <1>6 DEF TimerDialSucceeds, NewSocket
  <2>3. sock'[s] = "opening" /\ \A t \in Sock : t # s => sock'[t] = "closed"
    BY <1>2, <2>2, <1>t DEF TypeOK, SocketsOK
  <2>4. hooked' \subseteq Sock
    BY <2>2, <1>t DEF TypeOK, SocketsOK
  <2>5. LinkState' = "redialed"
    BY <1>2, <1>4, <2>1, <2>2, <2>3, <2>4 DEF LinkState, Live
  <2> QED BY <1>3, <1>4, <2>5, <1>t, LinkStepBy DEF OwnMoves
<1> QED BY <1>5, <1>6

\* Pairing and opening keep a socket alive.
LEMMA LinkOfProgress ==
    ASSUME IInv, NEW s \in Sock, Paired(s) \/ Opened(s)
    PROVE  LinkStep
<1> USE DEF authVars, sockVars, credVars, adapterVars, qrVars
<1>t. TypeOK
  BY DEF IInv
<1>1. sock[s] = "opening" /\ sock'[s] \in {"pairing", "open"}
  BY <1>t DEF Paired, Opened, TypeOK, SocketsOK
<1>2. \A t \in Sock : t # s => sock'[t] = sock[t]
  BY <1>t DEF Paired, Opened, TypeOK, SocketsOK
<1>3. UNCHANGED <<opening, dials, timers, held, hooked, isDisconnecting, closing>>
      /\ closing \in Nat /\ hooked \subseteq Sock
  BY <1>t DEF Paired, Opened, TypeOK, SocketsOK, AdapterOK
<1>4. LinkState' = LinkState
  BY <1>1, <1>2, <1>3 DEF LinkState, Live
<1> QED BY <1>3, <1>4, <1>t, LinkStepBy

\* A socket closes.
LEMMA LinkOfClose ==
    ASSUME IInv, HeldInv, NEW s \in Sock, Closed(s)
    PROVE  LinkStep
<1> USE DEF authVars, sockVars, credVars, adapterVars, qrVars
<1>t. TypeOK
  BY DEF IInv
<1>l. Live(s)
  BY DEF Closed
<1>1. /\ dials["adapter"] = 0 /\ dials["timer"] = 0 /\ timers = 0
      /\ \A t \in Sock : t # s => sock[t] = "closed"
      /\ opening \notin {"idle", "loading"}
  BY <1>l, OneLives
<1>2. /\ UNCHANGED <<opening, dials, isDisconnecting, closing, held>> /\ closing \in Nat
      /\ hooked' \subseteq Sock
  BY <1>t DEF Closed, TypeOK, AdapterOK, SocketsOK
<1>3. \A t \in Sock : sock'[t] = "closed"
  BY <1>1, <1>t DEF Closed, TypeOK, SocketsOK
<1>4. timers' = 0 \/ (timers' = 1 /\ s \in hooked)
  BY <1>1 DEF Closed, CloseRetry, CloseFinal
<1>5. LinkState' = IF timers' > 0 THEN "redialing" ELSE "over"
  BY <1>1, <1>2, <1>3, <1>4 DEF LinkState, Live
<1>6. CASE s = held
  <2>1. LinkState = "held" /\ (isDisconnecting => timers' = 0)
    BY <1>1, <1>4, <1>6, <1>l DEF LinkState, HeldInv
  <2> QED BY <1>2, <1>4, <1>5, <2>1, <1>t, LinkStepBy DEF OwnMoves
<1>7. CASE s # held
  <2>1. ~\E t \in Sock : t = held /\ Live(t)
    BY <1>1, <1>7 DEF Live
  <2>2. sock[s] \in SockState \ {"closed"} /\ hooked \subseteq Sock
    BY <1>l, <1>t DEF Live, TypeOK, SocketsOK
  <2>3. CASE sock[s] = "ending" /\ s \notin hooked
    <3>1. LinkState = "over"
      BY <1>1, <2>1, <2>2, <2>3 DEF LinkState
    <3> QED BY <1>2, <1>4, <1>5, <2>3, <3>1, <1>t, LinkStepBy
  <2>4. CASE sock[s] = "ending" /\ s \in hooked
    <3>1. LinkState = "redialing"
      BY <1>1, <1>7, <2>1, <2>4 DEF LinkState
    <3> QED BY <1>2, <1>4, <1>5, <3>1, <1>t, LinkStepBy DEF OwnMoves
  <2>5. CASE sock[s] # "ending"
    <3>1. LinkState = "redialed"
      BY <1>1, <1>7, <2>1, <2>2, <2>5 DEF LinkState, SockState
    <3> QED BY <1>2, <1>4, <1>5, <3>1, <1>t, LinkStepBy DEF OwnMoves
  <2> QED BY <2>3, <2>4, <2>5
<1> QED BY <1>6, <1>7

\* What EndClient does to the one socket it is called on.
LEMMA EndsClient ==
    ASSUME TypeOK, EndClient
    PROVE  /\ hooked' \subseteq hooked
           /\ \A t \in Sock : t # client => sock'[t] = sock[t] /\ (t \in hooked' <=> t \in hooked)
           /\ \A t \in Sock : t = client =>
                 /\ sock'[t] \in {"ending", "closed"}
                 /\ sock'[t] = "ending" => t \in hooked' /\ t \in hooked /\ sock[t] # "closed"
<1>0. \A t \in Sock : /\ EndedState(t) \in {"ending", "closed"}
                     /\ EndedState(t) = "ending" => t \in hooked /\ sock[t] # "closed"
  BY Zenon DEF EndedState
<1>1. CASE client = NULL
  BY <1>1, SockAssumption DEF EndClient, sockVars
<1>2. CASE client # NULL
  <2>1. client \in Sock
    BY <1>2 DEF TypeOK, AuthOK
  <2>2. /\ sock' = [sock EXCEPT ![client] = EndedState(client)]
        /\ hooked' = IF EndedState(client) = "closed" THEN hooked \ {client} ELSE hooked
    BY <1>2 DEF EndClient
  <2>3. sock'[client] = EndedState(client) /\ \A t \in Sock : t # client => sock'[t] = sock[t]
    BY <2>1, <2>2 DEF TypeOK, SocketsOK
  <2>4. hooked' \subseteq hooked /\ \A t \in Sock : t # client => (t \in hooked' <=> t \in hooked)
    <3>1. hooked' = hooked \ {client} \/ hooked' = hooked
      BY <2>2
    <3> QED BY <3>1
  <2>5. /\ sock'[client] \in {"ending", "closed"}
        /\ sock'[client] = "ending" =>
              client \in hooked' /\ client \in hooked /\ sock[client] # "closed"
    <3>1. CASE EndedState(client) = "closed"
      BY <2>3, <3>1
    <3>2. CASE EndedState(client) = "ending"
      <4>1. hooked' = hooked
        BY <2>2, <3>2
      <4>2. client \in hooked /\ sock[client] # "closed"
        BY <1>0, <2>1, <3>2, Zenon
      <4>3. sock'[client] = "ending"
        BY <2>3, <3>2
      <4> QED BY <4>1, <4>2, <4>3
    <3>3. EndedState(client) = "ending" \/ EndedState(client) = "closed"
      BY Zenon DEF EndedState
    <3> QED BY <3>1, <3>2, <3>3
  <2> QED BY <2>3, <2>4, <2>5
<1> QED BY <1>1, <1>2

\* The handshake timer kills the client's socket.
LEMMA LinkOfTimeout ==
    ASSUME IInv, HandshakeTimeout
    PROVE  LinkStep
<1> USE DEF authVars, credVars, adapterVars, qrVars
<1>t. TypeOK
  BY DEF IInv
<1>1. UNCHANGED <<opening, dials, timers, held, isDisconnecting, closing>> /\ closing \in Nat
  BY <1>t DEF HandshakeTimeout, TypeOK, AdapterOK
<1>2. CASE UNCHANGED sockVars
  BY <1>1, <1>2, <1>t, LinkSame DEF sockVars, TypeOK, SocketsOK
<1>3. CASE EndClient
  <2>1. /\ hooked' \subseteq hooked /\ hooked' \subseteq Sock
        /\ \A t \in Sock : t # client => sock'[t] = sock[t] /\ (t \in hooked' <=> t \in hooked)
        /\ \A t \in Sock : t = client =>
              /\ sock'[t] \in {"ending", "closed"}
              /\ sock'[t] = "ending" => t \in hooked' /\ t \in hooked /\ sock[t] # "closed"
    BY <1>3, <1>t, EndsClient DEF TypeOK, SocketsOK
  <2>2. CASE \A t \in Sock : t = client => ~Live(t)
    <3>1. \A t \in Sock : sock'[t] = sock[t]
      BY <2>1, <2>2 DEF Live
    <3>2. \A t \in Sock : Live(t) => (t \in hooked' <=> t \in hooked)
      BY <2>1, <2>2
    <3>3. LinkState' = LinkState
      BY <1>1, <2>1, <3>1, <3>2, <1>t DEF LinkState, Live, TypeOK, SocketsOK
    <3> QED BY <1>1, <3>3, <1>t, LinkStepBy
  <2>3. CASE \E t \in Sock : t = client /\ Live(t)
    <3>1. PICK s \in Sock : s = client /\ Live(s)
      BY <2>3
    <3>2. /\ dials["adapter"] = 0 /\ dials["timer"] = 0 /\ timers = 0
          /\ \A t \in Sock : t # s => sock[t] = "closed" /\ sock'[t] = "closed"
          /\ opening \notin {"idle", "loading"}
      BY <2>1, <3>1, OneLives
    <3>3. sock'[s] \in {"ending", "closed"} /\ (sock'[s] = "ending" => s \in hooked /\ s \in hooked')
      BY <2>1, <3>1
    <3>4. CASE s = held
      <4>1. LinkState = "held"
        BY <3>1, <3>2, <3>4 DEF LinkState
      <4>2. LinkState' \in {"held", "over"}
        BY <1>1, <2>1, <3>2, <3>3, <3>4 DEF LinkState, Live
      <4> QED BY <1>1, <4>1, <4>2, <1>t, LinkStepBy DEF OwnMoves
    <3>5. CASE s # held
      <4>1. LinkState' = IF sock'[s] = "ending" THEN "redialing" ELSE "over"
        BY <1>1, <2>1, <3>2, <3>3, <3>5 DEF LinkState, Live
      <4>2. ~\E t \in Sock : t = held /\ Live(t)
        BY <3>2, <3>5 DEF Live
      <4>3. sock[s] \in SockState \ {"closed"} /\ hooked \subseteq Sock
        BY <3>1, <1>t DEF Live, TypeOK, SocketsOK
      <4>4. CASE sock[s] = "ending" /\ s \in hooked
        <5>1. LinkState = "redialing"
          BY <3>2, <3>5, <4>2, <4>4 DEF LinkState
        <5> QED BY <1>1, <4>1, <5>1, <1>t, LinkStepBy DEF OwnMoves
      <4>5. CASE sock[s] = "ending" /\ s \notin hooked
        <5>1. LinkState = "over"
          BY <3>2, <4>2, <4>3, <4>5 DEF LinkState
        <5> QED BY <1>1, <3>3, <4>1, <4>5, <5>1, <1>t, LinkStepBy
      <4>6. CASE sock[s] # "ending"
        <5>1. LinkState = "redialed"
          BY <3>2, <3>5, <4>2, <4>3, <4>6 DEF LinkState, SockState
        <5> QED BY <1>1, <4>1, <5>1, <1>t, LinkStepBy DEF OwnMoves
      <4> QED BY <4>4, <4>5, <4>6
    <3> QED BY <3>4, <3>5
  <2> QED BY <2>2, <2>3
<1> QED BY <1>2, <1>3 DEF HandshakeTimeout

\* The second half of disconnect().
LEMMA LinkOfFinish ==
    ASSUME IInv, Stops, HeldInv, FinishDisconnect
    PROVE  LinkStep
<1> USE DEF authVars, credVars, adapterVars, qrVars
<1>t. TypeOK /\ ClientIsLive
  BY DEF IInv, Safety
<1>1. /\ UNCHANGED <<opening, dials, isDisconnecting>> /\ held' = NULL
      /\ timers' = TimersCleared /\ isDisconnecting /\ opening # "idle" /\ EndClient
  BY <1>t DEF FinishDisconnect, Stops, TypeOK, AdapterOK
<1>2. SUFFICES LinkState' \in StopMoves(LinkState)
  BY <1>1 DEF LinkStep
<1>3. /\ hooked' \subseteq hooked /\ hooked' \subseteq Sock /\ hooked \subseteq Sock
      /\ \A t \in Sock : t # client => sock'[t] = sock[t] /\ (t \in hooked' <=> t \in hooked)
      /\ \A t \in Sock : t = client =>
              /\ sock'[t] \in {"ending", "closed"}
              /\ sock'[t] = "ending" => t \in hooked' /\ t \in hooked /\ sock[t] # "closed"
  BY <1>1, <1>t, EndsClient DEF TypeOK, SocketsOK
<1>4. CASE opening = "loading"
  BY <1>1, <1>4 DEF LinkState, StopMoves
<1>5. CASE opening # "loading" /\ dials["adapter"] > 0
  BY <1>1, <1>5 DEF LinkState, StopMoves
<1>6. CASE opening # "loading" /\ ~(dials["adapter"] > 0) /\ \A t \in Sock : ~Live(t)
  <2>1. \A t \in Sock : sock[t] = "closed" /\ sock'[t] = "closed"
    BY <1>3, <1>6 DEF Live
  <2>2. LinkState = IF dials["timer"] + timers > 0 THEN "redialing" ELSE "over"
    BY <1>1, <1>3, <1>6, <2>1 DEF LinkState, Live
  <2>3. LinkState' = IF dials["timer"] + timers' > 0 THEN "redialing" ELSE "over"
    BY <1>1, <1>3, <1>6, <2>1 DEF LinkState, Live
  <2>4. timers' \in Nat /\ timers' <= timers /\ timers \in Nat /\ dials["timer"] \in Nat
    BY <1>1, <1>t DEF TimersCleared, TypeOK, AuthOK, Caller
  <2> QED BY <2>2, <2>3, <2>4 DEF StopMoves
<1>7. CASE opening # "loading" /\ \E t \in Sock : Live(t)
  <2>1. PICK s \in Sock : Live(s)
    BY <1>7
  <2>2. /\ dials["adapter"] = 0 /\ dials["timer"] = 0 /\ timers = 0
        /\ \A t \in Sock : t # s => sock[t] = "closed"
    BY <2>1, OneLives
  <2>3. timers' = 0 /\ NULL \notin Sock
    BY <1>1, <2>2, SockAssumption DEF TimersCleared
  <2>4. \A t \in Sock : t # s => sock'[t] = "closed"
    BY <1>3, <2>2
  <2>5. sock'[s] \in {"ending", "closed"}
    BY <1>3, <2>1, <1>t DEF ClientIsLive, Live, SockState, TypeOK, SocketsOK
  <2>6. LinkState' = IF sock'[s] = "ending" /\ s \in hooked' THEN "redialing" ELSE "over"
    BY <1>1, <1>3, <1>7, <2>2, <2>3, <2>4, <2>5 DEF LinkState, Live
  <2>7. CASE s = held
    <3>1. LinkState = "held" /\ s \notin hooked
      BY <1>1, <1>7, <2>1, <2>2, <2>7 DEF LinkState, HeldInv
    <3> QED BY <1>3, <2>6, <3>1 DEF StopMoves
  <2>8. CASE s # held
    <3>1. ~\E t \in Sock : t = held /\ Live(t)
      BY <2>2, <2>8 DEF Live
    <3>2. sock[s] \in SockState \ {"closed"}
      BY <2>1, <1>t DEF Live, TypeOK, SocketsOK
    <3>3. CASE sock[s] = "ending" /\ s \notin hooked
      <4>1. LinkState = "over"
        BY <1>1, <1>3, <1>7, <2>2, <3>1, <3>2, <3>3 DEF LinkState
      <4> QED BY <1>3, <2>6, <3>3, <4>1 DEF StopMoves
    <3>4. CASE sock[s] = "ending" /\ s \in hooked
      <4>1. LinkState = "redialing"
        BY <1>1, <1>7, <2>2, <2>8, <3>1, <3>4 DEF LinkState
      <4> QED BY <2>6, <4>1 DEF StopMoves
    <3>5. CASE sock[s] # "ending"
      <4>1. LinkState = "redialed"
        <5>1. sock[s] \in {"opening", "pairing", "open"}
          BY <3>2, <3>5 DEF SockState
        <5>2. ~\E t \in hooked : t # held /\ sock[t] = "ending"
          BY <1>3, <2>2, <3>5
        <5> QED BY <1>1, <1>7, <2>2, <2>8, <3>1, <5>1, <5>2 DEF LinkState
      <4> QED BY <2>6, <4>1 DEF StopMoves
    <3> QED BY <3>3, <3>4, <3>5
  <2> QED BY <2>7, <2>8
<1> QED BY <1>4, <1>5, <1>6, <1>7 DEF Live

LEMMA LinkKept == IInv /\ Stops /\ HeldInv /\ Next => LinkStep
<1> SUFFICES ASSUME IInv, Stops, HeldInv, Next PROVE LinkStep
  OBVIOUS
<1> USE DEF authVars, sockVars, credVars, adapterVars, qrVars
<1>t. TypeOK /\ NotStarted
  BY DEF IInv, Safety
<1>1. CASE AdapterConnect
  <2>1. ~FinishDisconnect
    BY <1>1, <1>t DEF AdapterConnect, FinishDisconnect, TypeOK, AdapterOK
  <2> QED BY <1>1, <2>1 DEF AdapterConnect, LinkStep
<1>2. CASE ListenerLoaded
  <2>1. ~FinishDisconnect
    BY <1>2, <1>t DEF ListenerLoaded, FinishDisconnect, TypeOK, AdapterOK
  <2>2. dials'["adapter"] > 0 /\ opening' = "dialing"
    BY <1>2, <1>t DEF ListenerLoaded, BeginDial, TypeOK, AuthOK, Caller
  <2>3. LinkState' = "dialing"
    BY <2>2 DEF LinkState
  <2> QED BY <1>2, <2>1, <2>2, <2>3 DEF ListenerLoaded, LinkStep, Loads
<1>3. CASE ListenerFails
  <2>1. ~FinishDisconnect
    BY <1>3, <1>t DEF ListenerFails, FinishDisconnect, TypeOK, AdapterOK
  <2>2. opening' = "unloaded" /\ LinkState' = "over"
    BY <1>3, <1>t DEF ListenerFails, NotStarted, Quiet, Live, LinkState, Caller, TypeOK, SocketsOK
  <2> QED BY <1>3, <2>1, <2>2 DEF ListenerFails, LinkStep, Loads
<1>4. CASE AdapterDialSucceeds
  BY <1>4, LinkOfOwnDial
<1>5. CASE ReconnectTimerFires \/ TimerDialSucceeds
  BY <1>5, LinkOfRedial
<1>6. ASSUME NEW c \in Caller, DialFails(c) PROVE LinkStep
  BY <1>6, LinkOfFailure
<1>7. CASE AttachReturns
  <2>1. ~FinishDisconnect /\ opening = "attaching" /\ opening' \notin {"idle", "loading"}
    BY <1>7, <1>t DEF AttachReturns, FinishDisconnect, TypeOK, AdapterOK
  <2>2. LinkState' = LinkState
    BY <1>7, <2>1 DEF AttachReturns, LinkState, Live
  <2> QED BY <2>1, <2>2 DEF LinkStep
<1>8. ASSUME NEW s \in Sock, QrShown(s) \/ SaveCreds(s) \/ SaveCredsFails(s) PROVE LinkStep
  BY <1>8, <1>t, LinkSame DEF QrShown, SaveCreds, SaveCredsFails, TypeOK, AdapterOK, SocketsOK
<1>9. ASSUME NEW s \in Sock, Paired(s) \/ Opened(s) PROVE LinkStep
  BY <1>9, LinkOfProgress
<1>10. ASSUME NEW s \in Sock, Closed(s) PROVE LinkStep
  BY <1>10, LinkOfClose
<1>11. CASE QrRendered \/ ClearCreds
  BY <1>11, <1>t, LinkSame DEF QrRendered, ClearCreds, TypeOK, AdapterOK, SocketsOK
<1>12. CASE HandshakeTimeout
  BY <1>12, LinkOfTimeout
<1>13. CASE OwnerDisconnects \/ QrTimeout
  <2>1. /\ UNCHANGED <<opening, dials, timers, held, sock>> /\ hooked' \subseteq hooked
        /\ hooked \ {held} \subseteq hooked'
        /\ closing' \in {closing, closing + 1} /\ closing \in Nat
    BY <1>13, <1>t DEF OwnerDisconnects, QrTimeout, BeginDisconnect, TypeOK, AdapterOK
  <2> QED BY <2>1, <1>t, LinkSame DEF TypeOK, SocketsOK
<1>14. CASE FinishDisconnect
  BY <1>14, LinkOfFinish
<1>15. CASE DisconnectFails
  <2>1. UNCHANGED <<opening, dials, timers, held, sock, hooked, isDisconnecting>>
        /\ opening \in {"loading", "unloaded"}
    BY <1>15 DEF DisconnectFails
  <2>2. LinkState' = LinkState
    BY <2>1 DEF LinkState, Live
  <2>3. LinkState \in {"loading", "over"}
    BY <2>1, <1>t DEF NotStarted, Quiet, Live, LinkState, Caller, TypeOK, SocketsOK
  <2> QED BY <2>1, <2>2, <2>3 DEF LinkStep, StopMoves
<1> QED
  BY <1>1, <1>2, <1>3, <1>4, <1>5, <1>6, <1>7, <1>8, <1>9, <1>10, <1>11, <1>12, <1>13,
     <1>14, <1>15 DEF Next

\* Every step of the connection is one ChannelLifecycle's adapters know.
THEOREM KeepsLinkCorrect == Spec => KeepsLink
<1>1. Init => WatchInv /\ HeldInv
  BY DEF Init, WatchInv, Stops, HandshakeIsWatched, HeldInv, Caller
<1>2. IInv /\ WatchInv /\ HeldInv /\ [Next]_vars => [LinkStep]_vars
  BY LinkKept DEF WatchInv
<1> QED BY <1>1, <1>2, WatchNext, HeldNext, InvCorrect, PTL DEF Spec, KeepsLink

-----------------------------------------------------------------------------
(* The implementation of ReconnectContract *)

ContractStep == [Contract!ContractNext]_(Contract!contractVars)

\* Each action is the step of the contract that its effect on Phase and attempts says.
LEMMA StepIsContractStep ==
    ASSUME IInv, IInv', [Next]_vars
    PROVE  ContractStep
<1> USE DEF ContractStep, Contract!ContractNext, Contract!contractVars, Contract!Dial,
           Contract!Attach, Contract!Succeed, Contract!Retry, Contract!GiveUp

<1>1. ASSUME AdapterConnect PROVE ContractStep
  BY <1>1 DEF AdapterConnect, Phase, IInv, Safety, NotStarted, OneAttempt, Quiet, Live,
      TypeOK, AuthOK, SocketsOK, Caller, authVars, sockVars, credVars, adapterVars, qrVars
<1>2. ASSUME ListenerLoaded PROVE ContractStep
  BY <1>2 DEF ListenerLoaded, BeginDial, Phase, IInv, Safety, NotStarted, OneAttempt,
      Quiet, Live, TypeOK, AuthOK, SocketsOK, Caller, authVars, sockVars, credVars,
      adapterVars, qrVars
<1>3. ASSUME ListenerFails PROVE ContractStep
  BY <1>3 DEF ListenerFails, Phase, IInv, Safety, NotStarted, OneAttempt, Quiet, Live,
      TypeOK, AuthOK, SocketsOK, Caller, authVars, sockVars, credVars, adapterVars, qrVars
<1>4. ASSUME AdapterDialSucceeds PROVE ContractStep
  <2> USE <1>4 DEF AdapterDialSucceeds, IInv, Safety, TypeOK, AuthOK, SocketsOK, Caller
  <2>1. /\ opening \notin {"idle", "loading", "unloaded"} /\ dials["adapter"] > 0
        /\ opening' \in {"returned", "attaching"} /\ attempts' = attempts
        /\ timers' = timers
        /\ dials' = [dials EXCEPT !["adapter"] = @ - 1]
    BY DEF NotStarted, Quiet
  <2>2. dials["adapter"] = 1 /\ dials["timer"] = 0 /\ timers = 0
    BY <2>1 DEF OneAttempt
  <2>3. Phase = "dialing"
    BY <2>1 DEF Phase
  <2>4. Phase' \in {"up", "over"}
    BY <2>1, <2>2 DEF Phase
  <2> QED BY <2>1, <2>3, <2>4
<1>5. ASSUME TimerDialSucceeds PROVE ContractStep
  BY <1>5 DEF TimerDialSucceeds, Phase, IInv, Safety, NotStarted, OneAttempt, Quiet, Live,
      TypeOK, AuthOK, SocketsOK, Caller, authVars, sockVars, credVars, adapterVars, qrVars
<1>6. ASSUME NEW c \in Caller, DialFails(c) PROVE ContractStep
  BY <1>6 DEF DialFails, Phase, IInv, Safety, NotStarted, OneAttempt, Quiet, Live, TypeOK,
      AuthOK, SocketsOK, Caller, authVars, sockVars, credVars, adapterVars, qrVars
<1>7. ASSUME NEW s \in Sock, QrShown(s) PROVE ContractStep
  BY <1>7 DEF QrShown, Phase, IInv, Safety, NotStarted, OneAttempt, Quiet, Live, TypeOK,
      AuthOK, SocketsOK, Caller, authVars, sockVars, credVars, adapterVars, qrVars
<1>8. ASSUME QrRendered PROVE ContractStep
  BY <1>8 DEF QrRendered, Phase, IInv, Safety, NotStarted, OneAttempt, Quiet, Live,
      TypeOK, AuthOK, SocketsOK, Caller, authVars, sockVars, credVars, adapterVars, qrVars
<1>9. ASSUME NEW s \in Sock, Paired(s) PROVE ContractStep
  BY <1>9 DEF Paired, Phase, IInv, Safety, NotStarted, OneAttempt, Quiet, Live, TypeOK,
      AuthOK, SocketsOK, Caller, authVars, sockVars, credVars, adapterVars, qrVars
<1>10. ASSUME NEW s \in Sock, SaveCreds(s) PROVE ContractStep
  BY <1>10 DEF SaveCreds, Phase, IInv, Safety, NotStarted, OneAttempt, Quiet, Live,
      TypeOK, AuthOK, SocketsOK, Caller, authVars, sockVars, credVars, adapterVars, qrVars
<1>11. ASSUME NEW s \in Sock, SaveCredsFails(s) PROVE ContractStep
  BY <1>11 DEF SaveCredsFails, Phase, IInv, Safety, NotStarted, OneAttempt, Quiet, Live,
      TypeOK, AuthOK, SocketsOK, Caller, authVars, sockVars, credVars, adapterVars, qrVars
<1>12. ASSUME NEW s \in Sock, Opened(s) PROVE ContractStep
  BY <1>12 DEF Opened, Phase, IInv, Safety, NotStarted, OneAttempt, Quiet, Live, TypeOK,
      AuthOK, SocketsOK, Caller, authVars, sockVars, credVars, adapterVars, qrVars
<1>13. ASSUME NEW s \in Sock, Closed(s) PROVE ContractStep
  <2> USE <1>13 DEF Closed, IInv, Safety, TypeOK, AuthOK, SocketsOK, Caller
  <2>1. /\ opening \notin {"idle", "loading", "unloaded"} /\ opening' = opening
        /\ dials["adapter"] = 0 /\ dials["timer"] = 0 /\ timers = 0 /\ dials' = dials
        /\ \A t \in Sock : ~Live(t)'
    BY DEF NotStarted, Quiet, OneAttempt, Live
  <2>2. Phase = "up"
    BY <2>1 DEF Phase, Live
  <2>3. CASE s \in hooked
    <3>1. CASE timers' = 1
      <4>1. Phase' = "waiting"
        BY <2>1, <3>1 DEF Phase
      <4>2. attempts' = attempts + 1 /\ attempts + 1 <= MaxReconnect
        BY <2>1, <2>3, <3>1, BoundAssumption DEF CloseRetry, CloseFinal, Emit
      <4> QED BY <2>2, <4>1, <4>2, BoundAssumption
    <3>2. CASE timers' = 0
      <4>1. Phase' = "over"
        BY <2>1, <3>2 DEF Phase
      <4>2. attempts' \in {attempts, attempts + 1}
        BY <2>3 DEF CloseRetry, CloseFinal
      <4> QED BY <2>2, <4>1, <4>2
    <3> QED BY <2>1, <2>3, <3>1, <3>2 DEF CloseRetry, CloseFinal
  <2>4. CASE s \notin hooked
    <3>1. Phase' = "over"
      BY <2>1, <2>4 DEF Phase
    <3> QED BY <2>2, <2>4, <3>1
  <2> QED BY <2>3, <2>4
<1>14. ASSUME ClearCreds PROVE ContractStep
  BY <1>14 DEF ClearCreds, Phase, IInv, Safety, NotStarted, OneAttempt, Quiet, Live,
      TypeOK, AuthOK, SocketsOK, Caller, authVars, sockVars, credVars, adapterVars, qrVars
<1>15. ASSUME ReconnectTimerFires PROVE ContractStep
  BY <1>15 DEF ReconnectTimerFires, BeginDial, Phase, IInv, Safety, NotStarted,
      OneAttempt, Quiet, Live, TypeOK, AuthOK, SocketsOK, Caller, authVars, sockVars,
      credVars, adapterVars, qrVars
<1>16. ASSUME HandshakeTimeout PROVE ContractStep
  BY <1>16 DEF HandshakeTimeout, EndClient, EndedState, Phase, IInv, Safety, NotStarted,
      OneAttempt, Quiet, Live, TypeOK, AuthOK, SocketsOK, Caller, authVars, sockVars,
      credVars, adapterVars, qrVars
<1>17. ASSUME OwnerDisconnects PROVE ContractStep
  BY <1>17 DEF OwnerDisconnects, BeginDisconnect, Phase, IInv, Safety, NotStarted,
      OneAttempt, Quiet, Live, TypeOK, AuthOK, SocketsOK, Caller, authVars, sockVars,
      credVars, adapterVars, qrVars
<1>18. ASSUME QrTimeout PROVE ContractStep
  BY <1>18 DEF QrTimeout, BeginDisconnect, Phase, IInv, Safety, NotStarted, OneAttempt,
      Quiet, Live, TypeOK, AuthOK, SocketsOK, Caller, authVars, sockVars, credVars,
      adapterVars, qrVars
<1>19. ASSUME FinishDisconnect PROVE ContractStep
  BY <1>19 DEF FinishDisconnect, EndClient, EndedState, TimersCleared, Phase, IInv,
      Safety, NotStarted, OneAttempt, Quiet, Live, TypeOK, AuthOK, SocketsOK, Caller,
      authVars, sockVars, credVars, adapterVars, qrVars
<1>20. ASSUME DisconnectFails PROVE ContractStep
  BY <1>20 DEF DisconnectFails, Phase, IInv, Safety, NotStarted, OneAttempt, Quiet, Live,
      TypeOK, AuthOK, SocketsOK, Caller, authVars, sockVars, credVars, adapterVars, qrVars
<1>21. ASSUME AttachReturns PROVE ContractStep
  BY <1>21 DEF AttachReturns, Phase, Live, authVars, sockVars, adapterVars
<1>22. CASE UNCHANGED vars
  BY <1>22 DEF Phase, Live, vars, authVars, sockVars, adapterVars
<1> QED BY <1>1, <1>2, <1>3, <1>4, <1>5, <1>6, <1>7, <1>8, <1>9, <1>10, <1>11, <1>12,
    <1>13, <1>14, <1>15, <1>16, <1>17, <1>18, <1>19, <1>20, <1>21, <1>22 DEF Next

\* The connection is one attempt that starts once, is retried within its budget and
\* ends for good.
THEOREM ContractImplemented == Spec => ImplementsContract
<1>1. Init => Contract!ContractInit
  BY DEF Init, Contract!ContractInit, Phase
<1>2. IInv /\ IInv' /\ [Next]_vars => [Contract!ContractNext]_(Contract!contractVars)
  BY StepIsContractStep DEF ContractStep
<1> QED BY <1>1, <1>2, InvCorrect, PTL DEF Spec, ImplementsContract, Contract!ContractSpec

=============================================================================

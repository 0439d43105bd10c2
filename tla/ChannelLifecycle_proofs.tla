------------------------- MODULE ChannelLifecycle_proofs -------------------------
(***************************************************************************)
(* Proofs that the safety properties of ChannelLifecycle hold for every    *)
(* number of concurrent requests, followed adapters, status writes, faults *)
(* and crashes: starts do not overlap, nobody waits for nothing, and an    *)
(* adapter that was told to stop is forgotten only on AuthSystem's         *)
(* reconnect, never with the socket of its own dial.                       *)
(***************************************************************************)
EXTENDS ChannelLifecycle, TLAPS

-----------------------------------------------------------------------------
(* The inductive invariant *)

\* A start that has yet to register finds the registry empty: it began because
\* nothing was registered, and nobody else registers.
StartIsFresh == starting \in {"reading", "initializing"} => registry = NULL

\* The adapter about to be registered is new, and nobody is inside its disconnect().
BuiltIsNew ==
    starting = "initializing" =>
        /\ built \in Adapter
        /\ link[built] = "built"
        /\ ~Holds(built)

\* No other adapter is as new.
OneBuilt == \A a \in Adapter : link[a] = "built" => starting = "initializing" /\ built = a

Safety == StartIsFresh /\ BuiltIsNew /\ OneBuilt /\ OneDial

IInv == TypeOK /\ Safety

-----------------------------------------------------------------------------
(* Initial states *)

\* The initial state is in range.
LEMMA TypeInit == Init => TypeOK
<1>1. ASSUME Init PROVE DataOK
  BY <1>1 DEF Init, DataOK, Link, Status, Reported, Dialling, Dormant, Unready, Call, Stopper
<1>2. ASSUME Init PROVE BoolOK
  BY <1>2, Zenon DEF Init, BoolOK
<1> QED BY <1>1, <1>2 DEF TypeOK

\* Nothing has been started yet.
LEMMA SafetyInit == Init => Safety
BY DEF Init, Safety, StartIsFresh, BuiltIsNew, OneBuilt, OneDial

-----------------------------------------------------------------------------
(* Type correctness *)

\* Whatever an adapter does of itself, or is made to do, leads to a Link.
LEMMA MovesAreLinks ==
    /\ \A k \in Link : \A a, S : OwnMoves(k, a \in S) \subseteq Link
    /\ \A k \in Link : StopMoves(k) \subseteq Link
    /\ \A a, S : \A out \in DialReturns(a \in S) : out[2] \in Link
    /\ \A out \in Loads : out[2] \in Link
<1>1. \A k \in Link : \A a, S : OwnMoves(k, a \in S) \subseteq Link
  BY DEF OwnMoves, Link
<1>2. \A k \in Link : StopMoves(k) \subseteq Link
  BY DEF StopMoves, Link
<1>3. \A a, S : \A out \in DialReturns(a \in S) : out[2] \in Link
  BY DEF DialReturns, Link
<1>4. \A out \in Loads : out[2] \in Link
  BY DEF Loads, Link
<1> QED BY <1>1, <1>2, <1>3, <1>4

\* The rest of a shutdown leaves a Link, whomever it holds.
LEMMA DeregisterLink ==
    ASSUME TypeOK, NEW s \in Stopper, Deregister(s)
    PROVE  link' \in [Adapter -> Link]
<1>1. PICK l \in StopMoves(link[victim[s]]) : link' = [link EXCEPT ![victim[s]] = l]
  BY DEF Deregister
<1>2. CASE victim[s] \in Adapter
  <2>1. l \in Link
    BY <1>1, <1>2, MovesAreLinks DEF TypeOK, DataOK
  <2> QED BY <1>1, <2>1 DEF TypeOK, DataOK
<1>3. CASE victim[s] \notin Adapter
  BY <1>1, <1>3 DEF TypeOK, DataOK
<1> QED BY <1>2, <1>3

\* Every action keeps every variable in its range.
LEMMA TypeNext ==
    ASSUME TypeOK, [Next]_vars
    PROVE  TypeOK'
<1> USE DEF linkVars, memVars, startVars, dogVars, envVars, vars, TypeOK, DataOK,
        Status, Reported, Dialling, Dormant, Unready, Call, Stopper
<1>1. ASSUME StartReads PROVE TypeOK'
  <2>1. DataOK'
    BY <1>1 DEF StartReads, Unused, Free, Link
  <2>2. BoolOK'
    BY <1>1, Zenon DEF StartReads, Unused, Free, BoolOK
  <2> QED BY <2>1, <2>2
<1>2. ASSUME StartReadFails PROVE TypeOK'
  <2>1. DataOK'
    BY <1>2 DEF StartReadFails, EndStart, Fault
  <2>2. BoolOK'
    BY <1>2, Zenon DEF StartReadFails, EndStart, Fault, BoolOK
  <2> QED BY <2>1, <2>2
<1>3. ASSUME StartRegisters PROVE TypeOK'
  <2>1. DataOK'
    BY <1>3 DEF StartRegisters, Tell, Link
  <2>2. BoolOK'
    BY <1>3, Zenon DEF StartRegisters, Tell, BoolOK
  <2> QED BY <2>1, <2>2
<1>4. ASSUME StartLoads PROVE TypeOK'
  <2>0. link' \in [Adapter -> Link]
    BY <1>4, MovesAreLinks DEF StartLoads
  <2>1. DataOK'
    BY <1>4, <2>0 DEF StartLoads, Loads
  <2>2. BoolOK'
    BY <1>4, Zenon DEF StartLoads, BoolOK
  <2> QED BY <2>1, <2>2
<1>5. ASSUME StartDials PROVE TypeOK'
  <2>a. PICK out \in DialReturns(built \in told) : link' = [link EXCEPT ![built] = out[2]]
    BY <1>5 DEF StartDials
  <2>b. out[2] \in Link
    BY <2>a, MovesAreLinks
  <2>0. link' \in [Adapter -> Link]
    BY <2>a, <2>b
  <2>1. DataOK'
    BY <1>5, <2>0 DEF StartDials, EndStart
  <2>2. BoolOK'
    BY <1>5, Zenon DEF StartDials, EndStart, BoolOK
  <2> QED BY <2>1, <2>2
<1>6. ASSUME StartAttaches PROVE TypeOK'
  <2>1. DataOK'
    BY <1>6 DEF StartAttaches, EndStart
  <2>2. BoolOK'
    BY <1>6, Zenon DEF StartAttaches, EndStart, BoolOK
  <2> QED BY <2>1, <2>2
<1>7. ASSUME StartThrows PROVE TypeOK'
  <2>1. DataOK'
    BY <1>7 DEF StartThrows, Fault, TellToStop, Tell, Link
  <2>2. BoolOK'
    BY <1>7, Zenon DEF StartThrows, Fault, TellToStop, Tell, BoolOK
  <2> QED BY <2>1, <2>2
<1>8. ASSUME StartCleansUp PROVE TypeOK'
  <2>0. link' \in [Adapter -> Link]
    BY <1>8, DeregisterLink DEF StartCleansUp
  <2>1. DataOK'
    BY <1>8, <2>0 DEF StartCleansUp, Deregister
  <2>2. BoolOK'
    BY <1>8, Zenon DEF StartCleansUp, Deregister, BoolOK
  <2> QED BY <2>1, <2>2
<1>9. ASSUME StartFails PROVE TypeOK'
  <2>1. DataOK'
    BY <1>9 DEF StartFails, EndStart, Fault
  <2>2. BoolOK'
    BY <1>9, Zenon DEF StartFails, EndStart, Fault, BoolOK
  <2> QED BY <2>1, <2>2
<1>10. ASSUME NEW u \in User, UserConnects(u) PROVE TypeOK'
  <2>1. DataOK'
    BY <1>10 DEF UserConnects, BeginStart
  <2>2. BoolOK'
    BY <1>10, Zenon DEF UserConnects, BeginStart, BoolOK
  <2> QED BY <2>1, <2>2
<1>11. ASSUME NEW u \in User, UserStops(u) PROVE TypeOK'
  <2>1. DataOK'
    BY <1>11 DEF UserStops, TellToStop, Tell
  <2>2. BoolOK'
    BY <1>11, Zenon DEF UserStops, TellToStop, Tell, BoolOK
  <2> QED BY <2>1, <2>2
<1>12. ASSUME NEW u \in User, StopDeregisters(u) PROVE TypeOK'
  <2>0. link' \in [Adapter -> Link]
    BY <1>12, DeregisterLink DEF StopDeregisters
  <2>1. DataOK'
    BY <1>12, <2>0 DEF StopDeregisters, Deregister
  <2>2. BoolOK'
    BY <1>12, Zenon DEF StopDeregisters, Deregister, BoolOK
  <2> QED BY <2>1, <2>2
<1>13. ASSUME NEW u \in User, StopStores(u) PROVE TypeOK'
  <2>1. DataOK'
    BY <1>13 DEF StopStores, Fault
  <2>2. BoolOK'
    BY <1>13, Zenon DEF StopStores, Fault, BoolOK
  <2> QED BY <2>1, <2>2
<1>14. ASSUME NEW a \in Adapter, AdapterMoves(a) PROVE TypeOK'
  <2>0. link' \in [Adapter -> Link]
    BY <1>14, MovesAreLinks DEF AdapterMoves
  <2>1. DataOK'
    BY <1>14, <2>0 DEF AdapterMoves, Report
  <2>2. BoolOK'
    BY <1>14, Zenon DEF AdapterMoves, Report, BoolOK
  <2> QED BY <2>1, <2>2
<1>15. ASSUME NEW a \in Adapter, ExpireScan(a) PROVE TypeOK'
  <2>1. DataOK'
    BY <1>15 DEF ExpireScan
  <2>2. BoolOK'
    BY <1>15, Zenon DEF ExpireScan, BoolOK
  <2> QED BY <2>1, <2>2
<1>16. ASSUME NEW a \in Adapter, ExpiryEnds(a) PROVE TypeOK'
  <2>0. link' \in [Adapter -> Link]
    BY <1>16, MovesAreLinks DEF ExpiryEnds
  <2>1. DataOK'
    BY <1>16, <2>0 DEF ExpiryEnds, Report
  <2>2. BoolOK'
    BY <1>16, Zenon DEF ExpiryEnds, Report, BoolOK
  <2> QED BY <2>1, <2>2
<1>17. ASSUME NEW a \in Adapter, NEW st \in Says, AdapterReports(a, st) PROVE TypeOK'
  <2>1. DataOK'
    BY <1>17, SaysAssumption DEF AdapterReports, Report
  <2>2. BoolOK'
    BY <1>17, Zenon DEF AdapterReports, Report, BoolOK
  <2> QED BY <2>1, <2>2
<1>18. ASSUME NEW st \in Status, WriteLands(st) PROVE TypeOK'
  <2>1. DataOK'
    BY <1>18 DEF WriteLands, Fault
  <2>2. BoolOK'
    BY <1>18, Zenon DEF WriteLands, Fault, BoolOK
  <2> QED BY <2>1, <2>2
<1>19. ASSUME WatchdogDecides PROVE TypeOK'
  <2>1. DataOK'
    BY <1>19 DEF WatchdogDecides, BeginStart
  <2>2. BoolOK'
    BY <1>19, Zenon DEF WatchdogDecides, BeginStart, BoolOK
  <2> QED BY <2>1, <2>2
<1>20. ASSUME WatchdogMarks PROVE TypeOK'
  <2>1. DataOK'
    BY <1>20 DEF WatchdogMarks, Fault
  <2>2. BoolOK'
    BY <1>20, Zenon DEF WatchdogMarks, Fault, BoolOK
  <2> QED BY <2>1, <2>2
<1>21. ASSUME CooldownEnds PROVE TypeOK'
  <2>1. DataOK'
    BY <1>21 DEF CooldownEnds
  <2>2. BoolOK'
    BY <1>21, Zenon DEF CooldownEnds, BoolOK
  <2> QED BY <2>1, <2>2
<1>22. ASSUME BootResumes PROVE TypeOK'
  <2>1. DataOK'
    BY <1>22 DEF BootResumes
  <2>2. BoolOK'
    BY <1>22, Zenon DEF BootResumes, BoolOK
  <2> QED BY <2>1, <2>2
<1>23. ASSUME BootDecides PROVE TypeOK'
  <2>1. DataOK'
    BY <1>23 DEF BootDecides, BeginStart
  <2>2. BoolOK'
    BY <1>23, Zenon DEF BootDecides, BeginStart, BoolOK
  <2> QED BY <2>1, <2>2
<1>24. ASSUME NEW l \in {"watchdog", "boot"}, Lists(l) PROVE TypeOK'
  <2>1. DataOK'
    BY <1>24 DEF Lists, Fault
  <2>2. BoolOK'
    BY <1>24, Zenon DEF Lists, Fault, BoolOK
  <2> QED BY <2>1, <2>2
<1>25. ASSUME Crash PROVE TypeOK'
  <2>1. DataOK'
    BY <1>25 DEF Crash, Link
  <2>2. BoolOK'
    BY <1>25, Zenon DEF Crash, BoolOK
  <2> QED BY <2>1, <2>2
<1>26. ASSUME UNCHANGED vars PROVE TypeOK'
  <2>1. DataOK'
    BY <1>26
  <2>2. BoolOK'
    BY <1>26, Zenon DEF BoolOK
  <2> QED BY <2>1, <2>2
<1> QED
  BY <1>1, <1>2, <1>3, <1>4, <1>5, <1>6, <1>7, <1>8, <1>9, <1>10, <1>11, <1>12, <1>13, <1>14, <1>15,
     <1>16, <1>17, <1>18, <1>19, <1>20, <1>21, <1>22, <1>23, <1>24, <1>25, <1>26
  DEF Next, StartNext, StopNext

-----------------------------------------------------------------------------
(* Safety *)

\* Whatever leaves the start, the registry, the links and the shutdowns alone
\* cannot disturb the invariant.
LEMMA Undisturbed ==
    ASSUME Safety, UNCHANGED <<registry, link, expiring, starting, built, victim>>
    PROVE  Safety'
BY DEF Safety, StartIsFresh, BuiltIsNew, OneBuilt, OneDial, Holds

\* startChannel can only begin the read, and only over an empty registry.
LEMMA BeginStartSafe ==
    ASSUME IInv, NEW c \in Call, BeginStart(c),
           UNCHANGED <<registry, link, expiring, built, victim>>
    PROVE  Safety'
BY DEF IInv, Safety, StartIsFresh, BuiltIsNew, OneBuilt, OneDial, BeginStart, Holds

\* The promise settles once no dial is left.
LEMMA EndStartSafe ==
    ASSUME NEW ok, EndStart(ok),
           \A a \in Adapter : link'[a] \notin {"built", "loading", "dialing"}
    PROVE  Safety'
BY DEF Safety, StartIsFresh, BuiltIsNew, OneBuilt, OneDial, EndStart

\* Somebody inside an adapter's disconnect() makes nothing of a new adapter, and no new
\* one of another.
LEMMA StopMovesApart ==
    \A k \in Link : \A l \in StopMoves(k) :
        l \in {"built", "loading", "dialing"} => l = k
BY DEF StopMoves, Link

\* The rest of a shutdown empties the registry and leaves what the start builds alone.
LEMMA DeregisterSafe ==
    ASSUME IInv, NEW s \in Stopper, Deregister(s),
           starting' = starting \/ (starting = "cleaning" /\ starting' = "failing"),
           built' = built
    PROVE  Safety'
<1> USE DEF IInv, TypeOK, DataOK
<1>1. PICK l \in StopMoves(link[victim[s]]) : link' = [link EXCEPT ![victim[s]] = l]
  BY DEF Deregister
<1>2. \A a \in Adapter :
          /\ link'[a] = link[a] \/ a = victim[s]
          /\ link'[a] \in {"built", "loading", "dialing"} => link'[a] = link[a]
  BY <1>1, StopMovesApart
<1>3. \A a \in Adapter : Holds(a)' => Holds(a)
  BY NullAssumption DEF Deregister, Holds
<1>4. StartIsFresh' /\ OneBuilt' /\ OneDial'
  BY <1>2 DEF Deregister, Safety, StartIsFresh, OneBuilt, OneDial
<1>5. BuiltIsNew'
  BY <1>2, <1>3 DEF Safety, BuiltIsNew, Holds
<1> QED BY <1>4, <1>5 DEF Safety

\* The start itself: each of its steps hands the invariant to the next.
LEMMA StartSafe ==
    ASSUME IInv, StartNext
    PROVE  Safety'
<1> USE DEF IInv, TypeOK, DataOK, Safety, StartIsFresh, BuiltIsNew, OneBuilt, OneDial
<1>1. ASSUME StartReads PROVE Safety'
  <2>1. PICK a \in Free : built' = a /\ link' = [link EXCEPT ![a] = "built"]
    BY <1>1 DEF StartReads, Unused
  <2>2. ~Holds(a)'
    BY <1>1, <2>1 DEF StartReads, Free, Holds
  <2> QED BY <1>1, <2>1, <2>2 DEF StartReads, Free, Holds
<1>2. ASSUME StartReadFails PROVE Safety'
  <2>1. \A a \in Adapter : link'[a] \notin {"built", "loading", "dialing"}
    BY <1>2 DEF StartReadFails, memVars, linkVars
  <2> QED BY <1>2, <2>1, EndStartSafe DEF StartReadFails
<1>3. ASSUME StartRegisters PROVE Safety'
  BY <1>3 DEF StartRegisters
<1>4. ASSUME StartLoads PROVE Safety'
  BY <1>4 DEF StartLoads, Loads
<1>5. ASSUME StartDials PROVE Safety'
  <2>1. PICK out \in DialReturns(built \in told) :
            /\ link' = [link EXCEPT ![built] = out[2]]
            /\ starting' = "attaching" \/ EndStart(TRUE)
    BY <1>5 DEF StartDials
  <2>2. out[2] \notin {"built", "loading", "dialing"}
    BY <2>1 DEF DialReturns
  <2>3. \A a \in Adapter : link'[a] \notin {"built", "loading", "dialing"}
    BY <1>5, <2>1, <2>2 DEF StartDials
  <2> QED BY <2>1, <2>3, EndStartSafe
<1>6. ASSUME StartAttaches PROVE Safety'
  <2>1. \A a \in Adapter : link'[a] \notin {"built", "loading", "dialing"}
    BY <1>6 DEF StartAttaches, memVars, linkVars
  <2> QED BY <1>6, <2>1, EndStartSafe DEF StartAttaches
<1>7. ASSUME StartThrows PROVE Safety'
  <2>1. /\ starting' \in {"failing", "cleaning"}
        /\ \A a \in Adapter : link'[a] \notin {"built", "loading", "dialing"}
    BY <1>7 DEF StartThrows
  <2> QED BY <2>1
<1>8. ASSUME StartCleansUp PROVE Safety'
  BY <1>8, DeregisterSafe DEF StartCleansUp, Stopper
<1>9. ASSUME StartFails PROVE Safety'
  <2>1. \A a \in Adapter : link'[a] \notin {"built", "loading", "dialing"}
    BY <1>9 DEF StartFails, memVars, linkVars
  <2> QED BY <1>9, <2>1, EndStartSafe DEF StartFails
<1> QED BY <1>1, <1>2, <1>3, <1>4, <1>5, <1>6, <1>7, <1>8, <1>9 DEF StartNext

\* An adapter that moves of itself is neither new nor dialling for a start.
LEMMA AdapterSafe ==
    ASSUME IInv, NEW a \in Adapter, AdapterMoves(a) \/ ExpireScan(a) \/ ExpiryEnds(a)
    PROVE  Safety'
<1> USE DEF IInv, TypeOK, DataOK, startVars
<1>1. UNCHANGED <<registry, starting, built, victim>>
  BY DEF AdapterMoves, ExpireScan, ExpiryEnds
<1>2. /\ \A b \in Adapter \ {a} : link'[b] = link[b]
      /\ link'[a] \in {"built", "loading", "dialing"} => link'[a] = link[a]
      /\ link[a] = "built" => link'[a] = "built"
  <2>1. CASE AdapterMoves(a)
    BY <2>1 DEF AdapterMoves, OwnMoves
  <2>2. CASE ExpireScan(a)
    BY <2>2 DEF ExpireScan
  <2>3. CASE ExpiryEnds(a)
    BY <2>3 DEF ExpiryEnds, StopMoves
  <2> QED BY <2>1, <2>2, <2>3
<1>3. \A b \in Adapter : link[b] = "built" /\ Holds(b)' => Holds(b)
  BY <1>1 DEF AdapterMoves, ExpireScan, ExpiryEnds, Holds
<1>4. StartIsFresh' /\ OneBuilt' /\ OneDial'
  BY <1>1, <1>2 DEF Safety, StartIsFresh, OneBuilt, OneDial
<1>5. BuiltIsNew'
  BY <1>1, <1>2, <1>3 DEF Safety, BuiltIsNew, Holds
<1> QED BY <1>4, <1>5 DEF Safety

\* A request to stop takes hold of what is registered, never of the adapter being built.
LEMMA UserStopsSafe ==
    ASSUME IInv, NEW u \in User, UserStops(u)
    PROVE  Safety'
<1>1. \A s \in Stopper : victim'[s] = victim[s] \/ victim'[s] = registry
  BY DEF UserStops, TellToStop, IInv, TypeOK, DataOK
<1> QED
  BY <1>1, NullAssumption
  DEF UserStops, startVars, IInv, Safety, StartIsFresh, BuiltIsNew, OneBuilt, OneDial, Holds

\* Every step keeps the invariant.
LEMMA SafetyNext ==
    ASSUME IInv, [Next]_vars
    PROVE  Safety'
<1> USE DEF linkVars, memVars, startVars, dogVars, envVars, vars
<1>s. Safety
  BY DEF IInv
<1>1. ASSUME StartNext PROVE Safety'
  BY <1>1, StartSafe
<1>2. ASSUME NEW u \in User, UserConnects(u) PROVE Safety'
  BY <1>2, BeginStartSafe DEF UserConnects, Call
<1>3. ASSUME NEW u \in User, StopStores(u) PROVE Safety'
  BY <1>s, <1>3, Undisturbed DEF StopStores
<1>4. ASSUME NEW u \in User, UserStops(u) \/ StopDeregisters(u) PROVE Safety'
  BY <1>4, UserStopsSafe, DeregisterSafe DEF StopDeregisters, Stopper
<1>5. ASSUME NEW a \in Adapter, AdapterMoves(a) \/ ExpireScan(a) \/ ExpiryEnds(a)
      PROVE  Safety'
  BY <1>5, AdapterSafe
<1>6. ASSUME NEW a \in Adapter, NEW st \in Says, AdapterReports(a, st) PROVE Safety'
  BY <1>s, <1>6, Undisturbed DEF AdapterReports
<1>7. ASSUME NEW st \in Status, WriteLands(st) PROVE Safety'
  BY <1>s, <1>7, Undisturbed DEF WriteLands
<1>8. ASSUME WatchdogMarks \/ CooldownEnds \/ BootResumes PROVE Safety'
  BY <1>s, <1>8, Undisturbed DEF WatchdogMarks, CooldownEnds, BootResumes
<1>9. ASSUME WatchdogDecides PROVE Safety'
  <2>1. CASE registry = NULL /\ ~cooldown
    BY <1>9, <2>1, BeginStartSafe DEF WatchdogDecides, Call
  <2>2. CASE ~(registry = NULL /\ ~cooldown)
    BY <1>s, <1>9, <2>2, Undisturbed DEF WatchdogDecides
  <2> QED BY <2>1, <2>2
<1>10. ASSUME BootDecides PROVE Safety'
  BY <1>10, BeginStartSafe DEF BootDecides, Call
<1>11. ASSUME NEW l \in {"watchdog", "boot"}, Lists(l) PROVE Safety'
  BY <1>s, <1>11, Undisturbed DEF Lists
<1>12. ASSUME Crash PROVE Safety'
  BY <1>12 DEF Crash, Safety, StartIsFresh, BuiltIsNew, OneBuilt, OneDial
<1>13. ASSUME UNCHANGED vars PROVE Safety'
  BY <1>s, <1>13, Undisturbed
<1> QED
  BY <1>1, <1>2, <1>3, <1>4, <1>5, <1>6, <1>7, <1>8, <1>9, <1>10, <1>11, <1>12, <1>13
  DEF Next, StopNext

-----------------------------------------------------------------------------
(* Nobody is forgotten *)

Kept == AwaitedIsRunning /\ StoppedIsTakenDown

\* Whoever joins or begins a start awaits one in progress.
LEMMA BeginStartKept ==
    ASSUME IInv, Kept, NEW c \in Call, pc[c] # "stopping", BeginStart(c),
           UNCHANGED <<link, told, expiring, built, victim>>
    PROVE  Kept'
<1> USE DEF IInv, TypeOK, DataOK
<1>1. \A d \in Call : pc'[d] = "awaiting" => starting' # "no"
  BY DEF BeginStart, Kept, AwaitedIsRunning
<1>2. \A u \in User : pc'[u] = "stopping" <=> victim'[u] # NULL
  BY DEF BeginStart, Kept, AwaitedIsRunning, Call
<1>3. starting' = "cleaning" <=> victim'["start"] # NULL
  BY DEF BeginStart, Kept, AwaitedIsRunning
<1>4. StoppedIsTakenDown'
  BY DEF BeginStart, Kept, StoppedIsTakenDown, Holds
<1> QED BY <1>1, <1>2, <1>3, <1>4 DEF Kept, AwaitedIsRunning

\* What StoppedIsTakenDown allows an adapter that nobody holds, where the start is left
\* out: OneDial has it.
Left == {"loading", "dialing", "redialing", "redialed", "over"}

\* It says no less.
LEMMA LeftFollows ==
    ASSUME Kept, NEW a \in told
    PROVE  Holds(a) \/ link[a] \in Left
BY DEF Kept, StoppedIsTakenDown, Left

\* The promise wakes up everybody who awaits it.
LEMMA EndStartAwaited ==
    ASSUME IInv, Kept, NEW ok \in BOOLEAN, EndStart(ok), UNCHANGED victim,
           starting # "cleaning"
    PROVE  AwaitedIsRunning'
<1> USE DEF IInv, TypeOK, DataOK
<1>1. \A c \in Call : pc'[c] # "awaiting" /\ (pc'[c] = "stopping" <=> pc[c] = "stopping")
  BY DEF EndStart
<1> QED BY <1>1 DEF EndStart, Kept, AwaitedIsRunning, Call

\* A shutdown begins: it takes hold of the adapter that it tells to stop.
LEMMA TellTakesHold ==
    ASSUME IInv, NEW s \in Stopper, victim[s] = NULL, TellToStop(s), UNCHANGED expiring,
           NEW a \in told'
    PROVE  Holds(a)' \/ (a \in told /\ ~Holds(a))
<1> USE DEF IInv, TypeOK, DataOK, TellToStop, Tell, Holds
<1>1. CASE a = registry
  BY <1>1
<1>2. CASE a # registry
  <2>1. a \in told
    BY <1>2
  <2>2. ASSUME NEW r \in Stopper, victim[r] = a PROVE victim'[r] = a
    BY <2>2, NullAssumption
  <2> QED BY <2>1, <2>2
<1> QED BY <1>1, <1>2

\* A shutdown ends: the adapter it held is on the reconnect or over, unless its dial is
\* awaited.
LEMMA DeregisterTaken ==
    ASSUME IInv, Safety', Kept, NEW s \in Stopper, Deregister(s)
    PROVE  StoppedIsTakenDown'
<1> USE DEF IInv, TypeOK, DataOK
<1>1. PICK l \in StopMoves(link[victim[s]]) : link' = [link EXCEPT ![victim[s]] = l]
  BY DEF Deregister
<1>2. ASSUME NEW a \in told' PROVE a \in Adapter /\ (Holds(a)' \/ link'[a] \in Left)
  <2>1. a \in told /\ a \in Adapter
    BY <1>2 DEF Deregister
  <2>2. CASE a = victim[s]
    <3>1. link[a] # "built"
      BY <2>1, <2>2 DEF Safety, OneBuilt, BuiltIsNew, Holds
    <3>2. link'[a] \in Left
      BY <1>1, <2>1, <2>2, <3>1 DEF StopMoves, Link, Left
    <3> QED BY <2>1, <3>2
  <2>3. CASE a # victim[s]
    <3>1. link'[a] = link[a]
      BY <1>1, <2>1, <2>3
    <3>2. Holds(a) => Holds(a)'
      BY <2>3 DEF Deregister, Holds
    <3> QED BY <2>1, <3>1, <3>2, LeftFollows
  <2> QED BY <2>2, <2>3
<1>3. OneDial'
  BY DEF Safety
<1>4. \A a \in told' : a \in Adapter /\ (Holds(a)' \/ link'[a] \in Left)
  BY <1>2
<1> QED BY <1>3, <1>4 DEF OneDial, StoppedIsTakenDown, Left

\* The start settles what it made others wait for, and takes down what it registered.
LEMMA StartKept ==
    ASSUME IInv, Safety', Kept, StartNext
    PROVE  Kept'
<1> USE DEF IInv, TypeOK, DataOK, memVars, linkVars
<1>d. OneDial' /\ OneDial /\ OneBuilt
  BY DEF Safety
<1>s. "start" \in Stopper
  BY DEF Stopper
<1>t. ASSUME \A a \in told' : a \in Adapter /\ (Holds(a)' \/ link'[a] \in Left)
      PROVE  StoppedIsTakenDown'
  BY <1>t, <1>d DEF OneDial, StoppedIsTakenDown, Left
<1>1. ASSUME StartReads PROVE Kept'
  <2>1. AwaitedIsRunning'
    BY <1>1 DEF StartReads, Kept, AwaitedIsRunning
  <2>2. ASSUME NEW a \in told' PROVE a \in Adapter /\ (Holds(a)' \/ link'[a] \in Left)
    <3>1. a \in told /\ link'[a] = link[a] /\ (Holds(a) => Holds(a)')
      BY <1>1, <2>2 DEF StartReads, Holds
    <3> QED BY <3>1, LeftFollows
  <2> QED BY <2>1, <2>2, <1>t DEF Kept
<1>2. ASSUME StartReadFails PROVE Kept'
  <2>1. AwaitedIsRunning'
    BY <1>2, EndStartAwaited DEF StartReadFails
  <2>2. ASSUME NEW a \in told' PROVE a \in Adapter /\ (Holds(a)' \/ link'[a] \in Left)
    BY <1>2, <2>2, LeftFollows DEF StartReadFails, Holds
  <2> QED BY <2>1, <2>2, <1>t DEF Kept
<1>3. ASSUME StartRegisters PROVE Kept'
  <2>1. AwaitedIsRunning'
    BY <1>3 DEF StartRegisters, Kept, AwaitedIsRunning
  <2>2. told' = told
    BY <1>3, NullAssumption DEF StartRegisters, Tell, Safety, StartIsFresh
  <2>3. ASSUME NEW a \in told' PROVE a \in Adapter /\ (Holds(a)' \/ link'[a] \in Left)
    <3>1. a \in told /\ (Holds(a) => Holds(a)')
      BY <1>3, <2>2, <2>3 DEF StartRegisters, Holds
    <3>2. link'[a] = link[a] \/ link'[a] = "loading"
      BY <1>3, <3>1 DEF StartRegisters
    <3> QED BY <3>1, <3>2, LeftFollows DEF Left
  <2> QED BY <2>1, <2>3, <1>t DEF Kept
<1>4. ASSUME StartLoads PROVE Kept'
  <2>1. AwaitedIsRunning'
    BY <1>4 DEF StartLoads, Loads, Kept, AwaitedIsRunning
  <2>2. ASSUME NEW a \in told' PROVE a \in Adapter /\ (Holds(a)' \/ link'[a] \in Left)
    <3>1. a \in told /\ (Holds(a) => Holds(a)')
      BY <1>4, <2>2 DEF StartLoads, Holds
    <3>2. link'[a] = link[a] \/ link'[a] \in {"dialing", "over"}
      BY <1>4, <3>1 DEF StartLoads, Loads
    <3> QED BY <3>1, <3>2, LeftFollows DEF Left
  <2> QED BY <2>1, <2>2, <1>t DEF Kept
<1>5. ASSUME StartDials PROVE Kept'
  <2>1. AwaitedIsRunning'
    <3>1. CASE EndStart(TRUE)
      BY <1>5, <3>1, EndStartAwaited DEF StartDials
    <3>2. CASE starting' = "attaching" /\ UNCHANGED pc
      BY <1>5, <3>2 DEF StartDials, Kept, AwaitedIsRunning
    <3> QED BY <1>5, <3>1, <3>2 DEF StartDials
  <2>2. ASSUME NEW a \in told' PROVE a \in Adapter /\ (Holds(a)' \/ link'[a] \in Left)
    <3>1. a \in told /\ (Holds(a) => Holds(a)')
      BY <1>5, <2>2 DEF StartDials, Holds
    <3>2. link'[a] = link[a] \/ link'[a] \in {"redialing", "over"}
      <4>1. CASE a = built
        BY <1>5, <3>1, <4>1 DEF StartDials, DialReturns
      <4>2. CASE a # built
        BY <1>5, <3>1, <4>2 DEF StartDials
      <4> QED BY <4>1, <4>2
    <3> QED BY <3>1, <3>2, LeftFollows DEF Left
  <2> QED BY <2>1, <2>2, <1>t DEF Kept
<1>6. ASSUME StartAttaches PROVE Kept'
  <2>1. AwaitedIsRunning'
    BY <1>6, EndStartAwaited DEF StartAttaches
  <2>2. ASSUME NEW a \in told' PROVE a \in Adapter /\ (Holds(a)' \/ link'[a] \in Left)
    BY <1>6, <2>2, LeftFollows DEF StartAttaches, Holds
  <2> QED BY <2>1, <2>2, <1>t DEF Kept
<1>7. ASSUME StartThrows PROVE Kept'
  <2>1. starting' = "cleaning" <=> registry # NULL
    BY <1>7 DEF StartThrows
  <2>2. /\ victim' = [victim EXCEPT !["start"] = registry]
        /\ pc' = pc
        /\ starting \notin {"cleaning", "no"} /\ starting' # "no"
    BY <1>7 DEF StartThrows, TellToStop
  <2>3. AwaitedIsRunning'
    BY <2>1, <2>2, NullAssumption DEF Kept, AwaitedIsRunning, Call, Stopper
  <2>4. victim["start"] = NULL
    BY <2>2 DEF Kept, AwaitedIsRunning
  <2>5. \A a \in Adapter : link'[a] = link[a] \/ link'[a] = "over"
    BY <1>7 DEF StartThrows
  <2>6. ASSUME NEW a \in told' PROVE a \in Adapter /\ (Holds(a)' \/ link'[a] \in Left)
    <3>1. a \in Adapter
      BY <1>7, <2>6 DEF StartThrows, TellToStop, Tell
    <3>2. Holds(a)' \/ (a \in told /\ ~Holds(a))
      BY <1>7, <1>s, <2>4, <2>6, TellTakesHold DEF StartThrows
    <3> QED BY <2>5, <3>1, <3>2, LeftFollows DEF Left
  <2> QED BY <2>3, <2>6, <1>t DEF Kept
<1>8. ASSUME StartCleansUp PROVE Kept'
  <2>1. StoppedIsTakenDown'
    BY <1>8, <1>s, DeregisterTaken DEF StartCleansUp
  <2>2. AwaitedIsRunning'
    BY <1>8, NullAssumption
    DEF StartCleansUp, Deregister, Kept, AwaitedIsRunning, Call, Stopper
  <2> QED BY <2>1, <2>2 DEF Kept
<1>9. ASSUME StartFails PROVE Kept'
  <2>1. AwaitedIsRunning'
    BY <1>9, EndStartAwaited DEF StartFails
  <2>2. ASSUME NEW a \in told' PROVE a \in Adapter /\ (Holds(a)' \/ link'[a] \in Left)
    BY <1>9, <2>2, LeftFollows DEF StartFails, Holds
  <2> QED BY <2>1, <2>2, <1>t DEF Kept
<1> QED BY <1>1, <1>2, <1>3, <1>4, <1>5, <1>6, <1>7, <1>8, <1>9 DEF StartNext

\* A request to stop takes hold of the adapter it tells.
LEMMA UserStopsKept ==
    ASSUME IInv, Safety', Kept, NEW u \in User, UserStops(u)
    PROVE  Kept'
<1> USE DEF IInv, TypeOK, DataOK
<1>1. /\ pc[u] = "idle"
      /\ pc' = [pc EXCEPT ![u] = IF registry = NULL THEN "storing" ELSE "stopping"]
      /\ victim' = [victim EXCEPT ![u] = registry]
      /\ starting' = starting /\ built' = built /\ link' = link
  BY DEF UserStops, TellToStop, startVars
<1>2. u # "start" /\ u \in Stopper
  BY NullAssumption DEF Stopper
<1>3. victim[u] = NULL
  BY <1>1 DEF Kept, AwaitedIsRunning
<1>4. \A v \in User : pc'[v] = "stopping" <=> victim'[v] # NULL
  BY <1>1 DEF Kept, AwaitedIsRunning, Call, Stopper
<1>5. AwaitedIsRunning'
  BY <1>1, <1>2, <1>4 DEF Kept, AwaitedIsRunning, Call, Stopper
<1>6. ASSUME NEW a \in told' PROVE a \in Adapter /\ (Holds(a)' \/ link'[a] \in Left)
  <2>1. a \in Adapter
    BY <1>6 DEF UserStops, TellToStop, Tell
  <2>2. Holds(a)' \/ (a \in told /\ ~Holds(a))
    BY <1>2, <1>3, <1>6, TellTakesHold DEF UserStops
  <2> QED BY <1>1, <2>1, <2>2, LeftFollows
<1>7. StoppedIsTakenDown'
  BY <1>6 DEF Safety, OneDial, StoppedIsTakenDown, Left
<1> QED BY <1>5, <1>7 DEF Kept

\* Its second half lets go of the adapter once its disconnect() is through.
LEMMA StopDeregistersKept ==
    ASSUME IInv, Safety', Kept, NEW u \in User, StopDeregisters(u)
    PROVE  Kept'
<1> USE DEF IInv, TypeOK, DataOK
<1>1. /\ pc[u] = "stopping"
      /\ pc' = [pc EXCEPT ![u] = "storing"]
      /\ victim' = [victim EXCEPT ![u] = NULL]
      /\ starting' = starting
  BY DEF StopDeregisters, Deregister, startVars
<1>2. \A v \in User : pc'[v] = "stopping" <=> victim'[v] # NULL
  BY <1>1 DEF Kept, AwaitedIsRunning, Call, Stopper
<1>3. StoppedIsTakenDown'
  BY DeregisterTaken DEF StopDeregisters, Stopper
<1>4. AwaitedIsRunning'
  BY <1>1, <1>2, NullAssumption DEF Kept, AwaitedIsRunning, Call, Stopper
<1> QED BY <1>3, <1>4 DEF Kept

\* An adapter that was stopped, or stops itself, ends up on the reconnect or over.
LEMMA AdapterKept ==
    ASSUME IInv, Safety', Kept, NEW b \in Adapter,
           AdapterMoves(b) \/ ExpireScan(b) \/ ExpiryEnds(b)
    PROVE  Kept'
<1> USE DEF IInv, TypeOK, DataOK, startVars
<1>1. UNCHANGED <<pc, starting, built, victim>>
  BY DEF AdapterMoves, ExpireScan, ExpiryEnds
<1>2. ASSUME NEW a \in told' PROVE a \in Adapter /\ (Holds(a)' \/ link'[a] \in Left)
  <2>1. CASE AdapterMoves(b)
    <3>1. a \in told /\ (Holds(a) => Holds(a)')
      BY <1>1, <1>2, <2>1 DEF AdapterMoves, Holds
    <3>2. link'[a] = link[a] \/ link'[a] \in Left
      BY <2>1, <3>1 DEF AdapterMoves, OwnMoves, Left
    <3> QED BY <3>1, <3>2, LeftFollows
  <2>2. CASE ExpireScan(b)
    <3>1. (a \in told \/ a = b) /\ (Holds(a) => Holds(a)') /\ link'[a] = link[a] /\ Holds(b)'
      BY <1>1, <1>2, <2>2 DEF ExpireScan, Holds
    <3> QED BY <3>1, LeftFollows
  <2>3. CASE ExpiryEnds(b)
    <3>1. a \in told /\ a \in Adapter
      BY <1>2, <2>3 DEF ExpiryEnds
    <3>2. CASE a = b
      <4>1. link[a] # "built"
        BY <2>3, <3>1, <3>2 DEF ExpiryEnds, Safety, OneBuilt, BuiltIsNew, Holds
      <4>2. link'[a] \in Left
        BY <2>3, <3>1, <3>2, <4>1 DEF ExpiryEnds, StopMoves, Link, Left
      <4> QED BY <3>1, <4>2
    <3>3. CASE a # b
      <4>1. (Holds(a) => Holds(a)') /\ link'[a] = link[a]
        BY <1>1, <2>3, <3>1, <3>3 DEF ExpiryEnds, Holds
      <4> QED BY <3>1, <4>1, LeftFollows
    <3> QED BY <3>2, <3>3
  <2> QED BY <2>1, <2>2, <2>3
<1>3. StoppedIsTakenDown'
  BY <1>2 DEF Safety, OneDial, StoppedIsTakenDown, Left
<1>4. AwaitedIsRunning'
  BY <1>1 DEF Kept, AwaitedIsRunning
<1> QED BY <1>3, <1>4 DEF Kept

\* A call that only moves on, and neither awaits a start nor holds an adapter before or
\* after, forgets nobody.
LEMMA MovesOnKept ==
    ASSUME IInv, Kept, NEW c \in Call, pc[c] # "stopping",
           NEW p \in {"idle", "storing", "listing", "deciding", "marking"},
           pc' = [pc EXCEPT ![c] = p],
           UNCHANGED <<link, told, expiring, starting, built, victim>>
    PROVE  Kept'
<1> USE DEF IInv, TypeOK, DataOK
<1>1. AwaitedIsRunning'
  BY DEF Kept, AwaitedIsRunning, Call
<1>2. StoppedIsTakenDown'
  BY DEF Kept, StoppedIsTakenDown, Holds
<1> QED BY <1>1, <1>2 DEF Kept

\* No step forgets anybody.
LEMMA KeptNext ==
    ASSUME IInv, Safety', Kept, [Next]_vars
    PROVE  Kept'
<1> USE DEF linkVars, memVars, startVars, dogVars, envVars, vars
<1>u. User \subseteq Call /\ "watchdog" \in Call /\ "boot" \in Call
  BY DEF Call
<1>1. ASSUME StartNext PROVE Kept'
  BY <1>1, StartKept
<1>2. ASSUME NEW u \in User, UserConnects(u) PROVE Kept'
  BY <1>2, <1>u, BeginStartKept DEF UserConnects
<1>3. ASSUME NEW u \in User, StopStores(u) PROVE Kept'
  BY <1>3, <1>u, MovesOnKept DEF StopStores
<1>4. ASSUME NEW u \in User, UserStops(u) \/ StopDeregisters(u) PROVE Kept'
  BY <1>4, UserStopsKept, StopDeregistersKept
<1>5. ASSUME NEW a \in Adapter, AdapterMoves(a) \/ ExpireScan(a) \/ ExpiryEnds(a)
      PROVE  Kept'
  BY <1>5, AdapterKept
<1>6. ASSUME WatchdogMarks PROVE Kept'
  BY <1>6, <1>u, MovesOnKept DEF WatchdogMarks
<1>7. ASSUME WatchdogDecides PROVE Kept'
  <2>1. CASE registry = NULL /\ ~cooldown
    BY <1>7, <1>u, <2>1, BeginStartKept DEF WatchdogDecides
  <2>2. CASE ~(registry = NULL /\ ~cooldown)
    BY <1>7, <1>u, <2>2, MovesOnKept DEF WatchdogDecides
  <2> QED BY <2>1, <2>2
<1>8. ASSUME BootResumes PROVE Kept'
  BY <1>8, NullAssumption
  DEF BootResumes, IInv, TypeOK, DataOK, Kept, AwaitedIsRunning, StoppedIsTakenDown, Holds, Call
<1>9. ASSUME BootDecides PROVE Kept'
  BY <1>9, <1>u, BeginStartKept DEF BootDecides
<1>10. ASSUME NEW l \in {"watchdog", "boot"}, Lists(l) PROVE Kept'
  <2>1. PICK p \in {"idle", "deciding"} : pc' = [pc EXCEPT ![l] = p]
    BY <1>10 DEF Lists
  <2>2. pc[l] # "stopping"
    BY <1>10 DEF Lists
  <2> QED BY <1>10, <1>u, <2>1, <2>2, MovesOnKept DEF Lists
<1>11. ASSUME Crash PROVE Kept'
  BY <1>11, NullAssumption
  DEF Crash, Kept, AwaitedIsRunning, StoppedIsTakenDown, Call, Stopper
<1>12. CASE UNCHANGED <<pc, link, told, expiring, starting, built, victim>>
  BY <1>12 DEF Kept, AwaitedIsRunning, StoppedIsTakenDown, Holds
<1> QED
  BY <1>1, <1>2, <1>3, <1>4, <1>5, <1>6, <1>7, <1>8, <1>9, <1>10, <1>11, <1>12
  DEF Next, StopNext, AdapterReports, WriteLands, CooldownEnds

-----------------------------------------------------------------------------
(* Theorems *)

\* The variables stay in their ranges, whatever requests, heals, failures and
\* restarts do to the channel.
THEOREM TypeCorrect == Spec => []TypeOK
<1>1. TypeOK /\ [Next]_vars => TypeOK'
  BY TypeNext
<1> QED BY TypeInit, <1>1, PTL DEF Spec

\* The strengthened invariant holds in every reachable state.
THEOREM InvCorrect == Spec => []IInv
<1>1. Init => IInv
  BY TypeInit, SafetyInit DEF IInv
<1>2. IInv /\ [Next]_vars => IInv'
  BY TypeNext, SafetyNext DEF IInv
<1> QED BY <1>1, <1>2, PTL DEF Spec

\* registerAdapter never finds an adapter to replace.
THEOREM RegisterIsFreshCorrect == Spec => []RegisterIsFresh
<1>1. IInv => RegisterIsFresh
  BY DEF IInv, Safety, StartIsFresh, RegisterIsFresh
<1> QED BY InvCorrect, <1>1, PTL

\* Two starts of one channel never dial at the same time.
THEOREM OneDialCorrect == Spec => []OneDial
<1>1. IInv => OneDial
  BY DEF IInv, Safety
<1> QED BY InvCorrect, <1>1, PTL

\* What the two theorems below share.
LEMMA KeptInv == Spec => []Kept
<1>1. Init => Kept
  BY NullAssumption DEF Init, Kept, AwaitedIsRunning, StoppedIsTakenDown, Call, Stopper
<1>2. IInv /\ Kept /\ [Next]_vars => Kept'
  BY KeptNext, SafetyNext
<1> QED BY InvCorrect, <1>1, <1>2, PTL DEF Spec

\* Nobody waits for a start that is over, and no shutdown loses its adapter.
THEOREM AwaitedIsRunningCorrect == Spec => []AwaitedIsRunning
<1>1. Kept => AwaitedIsRunning
  BY DEF Kept
<1> QED BY KeptInv, <1>1, PTL

\* Of an adapter that was told to stop, and that nobody shuts down any more, nothing is
\* left but a dial the start awaits or AuthSystem's reconnect.
THEOREM StoppedIsTakenDownCorrect == Spec => []StoppedIsTakenDown
<1>1. Kept => StoppedIsTakenDown
  BY DEF Kept
<1> QED BY KeptInv, <1>1, PTL

=============================================================================

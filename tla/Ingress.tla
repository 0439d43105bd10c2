-------------------------------- MODULE Ingress --------------------------------
(***************************************************************************)
(* IngressService.handleCommonMessage with what it stands on: the          *)
(* DeduplicationService, the FlowEngine with its wait_for_input nodes and  *)
(* the CacheService that keeps, per sender, where a dialog waits.          *)
(*                                                                         *)
(* A platform delivers a message at any time and any number of times, and  *)
(* adapters do not wait for one handler before they start the next.  A     *)
(* dialog is at the position [flow, path]: path holds the messages that    *)
(* led there, the one with the keyword first.                              *)
(***************************************************************************)
EXTENDS Integers, Sequences, FiniteSets

CONSTANTS
    Letter,    \* the messages: records [id, sender, stamp, word]
    Handler,   \* calls of handleCommonMessage at work at once
    Flows,     \* number of active flows; a word w \in 1..Flows is the keyword of flow w
    Waits,     \* most wait_for_input nodes in a row
    Skew,      \* MAX_CLOCK_SKEW_MS (5 minutes)
    Ttl,       \* stdTTL (10 minutes)
    Horizon,   \* bound: the clock
    NULL

ASSUME LetterAssumption ==
    \A l \in Letter : {"id", "sender", "stamp", "word"} \subseteq DOMAIN l /\ l.stamp \in Int
ASSUME NumberAssumption ==
    /\ Flows \in Nat /\ Flows > 0
    /\ Waits \in Nat /\ Skew \in Nat /\ Ttl \in Nat /\ Horizon \in Nat
ASSUME NullAssumption == NULL \notin Int /\ NULL \notin Letter
ASSUME TtlAssumption == Ttl >= 2 * Skew

VARIABLES
    now,        \* Date.now() of the backend
    seen,       \* DeduplicationService.cache: until when an id is kept
    run,        \* the handlers at work
    redis,      \* external: the dialog state in Redis, per sender
    memory,     \* CacheService.memoryCache: its copy
    connected,  \* CacheService.isConnected
    passed,     \* history: how often a message passed shouldProcess in this process
    answered,   \* history: the answered questions with their answers, while orderly
    orderly,    \* history: Redis has stayed, and a sender's messages came one at a time
    restarted   \* history: has the process been restarted?

caches == <<redis, memory>>
history == <<passed, answered, orderly, restarted>>
vars == <<now, seen, run, caches, connected, history>>

Id == {l.id : l \in Letter}
Sender == {l.sender : l \in Letter}
Position == [flow : 1..Flows, path : Seq(Letter)]

\* The await a handler is suspended in.
Step == {"idle", "resolving", "asking", "clearing", "walking", "answering"}
RunRecord ==
    [pc : Step, letter : Letter \cup {NULL}, flow : 1..Flows, path : Seq(Letter)]
NoRun == [pc |-> "idle", letter |-> NULL, flow |-> 1, path |-> <<>>]

TypeOK ==
    /\ now \in Nat
    /\ seen \in [Id -> Int \cup {NULL}]
    /\ run \in [Handler -> RunRecord]
    /\ \A h \in Handler :
          /\ run[h].pc # "idle" => run[h].letter \in Letter
          /\ Len(run[h].path) <= Waits
    /\ redis \in [Sender -> Position \cup {NULL}]
    /\ memory \in [Sender -> Position \cup {NULL}]
    /\ \A s \in Sender :
          /\ redis[s] # NULL => Len(redis[s].path) \in 1..Waits
          /\ memory[s] # NULL => Len(memory[s].path) \in 1..Waits
    /\ connected \in BOOLEAN
    /\ passed \in [Letter -> Nat]
    /\ answered \subseteq [question : Position, answer : Letter]
    /\ orderly \in BOOLEAN /\ restarted \in BOOLEAN

Init ==
    /\ now = 0
    /\ seen = [i \in Id |-> NULL]
    /\ run = [h \in Handler |-> NoRun]
    /\ redis = [s \in Sender |-> NULL]
    /\ memory = [s \in Sender |-> NULL]
    /\ connected = TRUE
    /\ passed = [l \in Letter |-> 0]
    /\ answered = {}
    /\ orderly = TRUE /\ restarted = FALSE

Disorder == orderly' = FALSE /\ answered' = {}

Goto(h, pc) == run' = [run EXCEPT ![h].pc = pc]
Done(h) == run' = [run EXCEPT ![h] = NoRun]
SenderOf(h) == run[h].letter.sender

-----------------------------------------------------------------------------
(* DeduplicationService *)

\* Mutant: a message may be ten minutes old.
InTimeMutant(l) == now - l.stamp <= 2 * Skew /\ l.stamp - now <= Skew

InTime(l) == now - l.stamp <= Skew /\ l.stamp - now <= Skew

\* An entry expires once its time is past.
Remembers(i) == seen[i] # NULL /\ now <= seen[i]

\* A message that shouldProcess refuses changes nothing.
Receive(h, l) ==
    /\ run[h].pc = "idle"
    /\ InTime(l)
    /\ ~Remembers(l.id)
    /\ seen' = [seen EXCEPT ![l.id] = now + Ttl]
    /\ run' = [run EXCEPT ![h] = [NoRun EXCEPT !.pc = "resolving", !.letter = l]]
    /\ passed' = [passed EXCEPT ![l] = @ + 1]
    /\ IF \E o \in Handler : run[o].pc # "idle" /\ SenderOf(o) = l.sender
       THEN Disorder ELSE UNCHANGED <<orderly, answered>>
    /\ UNCHANGED <<now, caches, connected, restarted>>

-----------------------------------------------------------------------------
(* handleCommonMessage *)

\* The agent, the channel, the context, the automations and the flows are looked up: an
\* error or an automation ends the call; without an active flow the agent answers.
Resolve(h) ==
    /\ run[h].pc = "resolving"
    /\ \/ Goto(h, "asking")
       \/ Goto(h, "answering")
       \/ Done(h)
    /\ UNCHANGED <<now, seen, caches, connected, history>>

\* Mutant: the loop runs one flow too far.
NextFlowMutant(h) ==
    LET r == [run[h] EXCEPT !.path = <<>>] IN
    run' = [run EXCEPT ![h] = IF r.flow <= Flows
                              THEN [r EXCEPT !.pc = "asking", !.flow = r.flow + 1]
                              ELSE [r EXCEPT !.pc = "answering"]]

\* executeFlow returned false.
NextFlow(h) ==
    LET r == [run[h] EXCEPT !.path = <<>>] IN
    run' = [run EXCEPT ![h] = IF r.flow < Flows
                              THEN [r EXCEPT !.pc = "asking", !.flow = r.flow + 1]
                              ELSE [r EXCEPT !.pc = "answering"]]

\* The agent, or the webhook.
Answer(h) ==
    /\ run[h].pc = "answering"
    /\ Done(h)
    /\ UNCHANGED <<now, seen, caches, connected, history>>

-----------------------------------------------------------------------------
(* FlowEngine.executeFlow on the flow run[h].flow, with CacheService *)

\* What cacheService.get returns; an error counts as no state.
Cached(s) == IF connected THEN redis[s] ELSE memory[s]

\* Resumes the dialog of this flow, or starts it at the keyword, or declines.
Follow(h, pos) ==
    IF pos # NULL /\ pos.flow = run[h].flow
    THEN run' = [run EXCEPT ![h].pc = "clearing", ![h].path = pos.path]
    ELSE IF run[h].letter.word = run[h].flow
    THEN Goto(h, "walking")
    ELSE NextFlow(h)

Ask(h) ==
    /\ run[h].pc = "asking"
    /\ \/ Follow(h, Cached(SenderOf(h))) /\ UNCHANGED <<orderly, answered>>
       \/ connected /\ Follow(h, NULL) /\ Disorder
    /\ UNCHANGED <<now, seen, caches, connected, passed, restarted>>

At(h) == [flow |-> run[h].flow, path |-> run[h].path]

Answered(h) ==
    answered' = IF orderly
                THEN answered \cup {[question |-> At(h), answer |-> run[h].letter]}
                ELSE answered

\* Mutant: the state is not cleared before the dialog goes on.
ClearMutant(h) ==
    /\ run[h].pc = "clearing"
    /\ Goto(h, "walking")
    /\ Answered(h) /\ UNCHANGED orderly
    /\ UNCHANGED <<now, seen, caches, connected, passed, restarted>>

\* The copy in memory goes first; Redis can be away or refuse, and nobody looks at the result.
Clear(h) ==
    /\ run[h].pc = "clearing"
    /\ Goto(h, "walking")
    /\ memory' = [memory EXCEPT ![SenderOf(h)] = NULL]
    /\ \/ /\ connected
          /\ redis' = [redis EXCEPT ![SenderOf(h)] = NULL]
          /\ Answered(h) /\ UNCHANGED orderly
       \/ UNCHANGED redis /\ Disorder
    /\ UNCHANGED <<now, seen, connected, passed, restarted>>

\* The position this message leads to.
Here(h) == [flow |-> run[h].flow, path |-> Append(run[h].path, run[h].letter)]

\* The nodes up to a wait_for_input node have run; the dialog waits there.
Wait(h) ==
    /\ run[h].pc = "walking"
    /\ Len(run[h].path) < Waits
    /\ memory' = [memory EXCEPT ![SenderOf(h)] = Here(h)]
    /\ \/ /\ connected
          /\ redis' = [redis EXCEPT ![SenderOf(h)] = Here(h)]
          /\ UNCHANGED <<orderly, answered>>
       \/ UNCHANGED redis /\ Disorder
    /\ Done(h)
    /\ UNCHANGED <<now, seen, connected, passed, restarted>>

\* Or they have run to the end of the flow.
Finish(h) ==
    /\ run[h].pc = "walking"
    /\ Done(h)
    /\ UNCHANGED <<now, seen, caches, connected, history>>

\* Or a node has thrown: the dialog is lost, and the next flow is tried with the same message.
Fail(h) ==
    /\ run[h].pc = "walking"
    /\ NextFlow(h)
    /\ UNCHANGED <<now, seen, caches, connected, history>>

-----------------------------------------------------------------------------
(* Time and the environment *)

Tick ==
    /\ now < Horizon
    /\ now' = now + 1
    /\ UNCHANGED <<seen, run, caches, connected, history>>

\* A wait lasts 15 minutes, in Redis and in memory.
Expire(s) ==
    /\ \/ redis' = [redis EXCEPT ![s] = NULL] /\ UNCHANGED memory
       \/ memory' = [memory EXCEPT ![s] = NULL] /\ UNCHANGED redis
    /\ UNCHANGED <<now, seen, run, connected, history>>

\* While Redis is away the copy in memory is used, and the one in Redis gets stale.
ConnectionChanges ==
    /\ connected' = ~connected
    /\ Disorder
    /\ UNCHANGED <<now, seen, run, caches, passed, restarted>>

\* Only Redis outlives the process; what it has processed is forgotten.
Restart ==
    /\ seen' = [i \in Id |-> NULL]
    /\ run' = [h \in Handler |-> NoRun]
    /\ memory' = [s \in Sender |-> NULL]
    /\ passed' = [l \in Letter |-> 0]
    /\ Disorder
    /\ restarted' = TRUE
    /\ UNCHANGED <<now, redis, connected>>

Handles(h) ==
    \/ \E l \in Letter : Receive(h, l)
    \/ Resolve(h) \/ Ask(h) \/ Clear(h) \/ Wait(h) \/ Finish(h) \/ Fail(h) \/ Answer(h)

Next ==
    \/ \E h \in Handler : Handles(h)
    \/ Tick
    \/ \E s \in Sender : Expire(s)
    \/ ConnectionChanges
    \/ Restart

Spec == Init /\ [][Next]_vars

-----------------------------------------------------------------------------
(* Properties *)

\* However late and often the platform delivers a message, one process works on it once: an
\* id is forgotten only when its message is too old to pass.
HandledOnce == \A l \in Letter : passed[l] <= 1

Stored == {pos \in UNION {{redis[s], memory[s]} : s \in Sender} : pos # NULL}

Distinct(path) == \A i, k \in DOMAIN path : path[i] = path[k] => i = k

\* In the life of a process no message answers two questions of a dialog, however many of one
\* sender are handled at once; and while Redis stays and a sender's messages come one at a
\* time, no question is answered by two messages, nor open again after its answer.
OneStepEach ==
    /\ ~restarted => \A pos \in Stored : Distinct(pos.path)
    /\ orderly =>
          \A a \in answered :
              /\ a.question \notin Stored
              /\ \A b \in answered : a.question = b.question => a = b

\* shouldProcess "returns true if it's a new message and within valid time bounds": what it
\* takes for a duplicate was processed.
NewIsProcessed == \A l \in Letter : InTime(l) /\ Remembers(l.id) => passed[l] > 0
================================================================================

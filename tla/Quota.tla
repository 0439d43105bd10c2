--------------------------------- MODULE Quota ---------------------------------
(***************************************************************************)
(* The plan limits of one tenant and the calls that use them up:           *)
(* ChannelService (create, delete, archive, move), AgentService (create,   *)
(* delete with its cascade) and the answers of geminiAI.  Each asks        *)
(* checkAuthority first and calls recordUsage last, with Firestore calls   *)
(* in between; other calls run during every one of them.                   *)
(*                                                                         *)
(* Firestore's increments are atomic.  The adapters that a deletion shuts  *)
(* down are in ChannelLifecycle.                                           *)
(***************************************************************************)
EXTENDS Integers, FiniteSets

CONSTANTS
    Call,       \* requests in progress
    Agent,      \* agent ids; the caller of createAgent may choose one
    System,     \* system_default
    Channel,    \* channel ids: random, so never used twice
    NULL,       \* no channel
    Limit,      \* the plan's maxChannelSlots, maxAgents and maxMessages
    MaxFaults,  \* bound: refused Firestore calls and crashes
    MaxRevived  \* bound: documents that a merging write brings about

Metric == {"channels", "agents", "messages"}

ASSUME SetAssumption ==
    /\ IsFiniteSet(Call) /\ Call # {}
    /\ IsFiniteSet(Agent) /\ System \in Agent
    /\ IsFiniteSet(Channel) /\ NULL \notin Channel
ASSUME LimitAssumption == Limit \in [Metric -> Nat \ {0}] /\ {MaxFaults, MaxRevived} \subseteq Nat

VARIABLES
    docs,      \* channel documents: the agent they are under, and their id
    agents,    \* agent documents
    counter,   \* stats.activeChannels, counters.agentCount, stats.totalMessagesSent
    call,      \* the requests
    fate,      \* history: was the channel created, was it deleted
    revived,   \* history: how many documents a merging write has brought about
    haunted,   \* history: the channels they are of
    mismatch,  \* history: a write met a document, or a deletion none, against its assumption
    faults

past == <<revived, haunted>>
vars == <<docs, agents, counter, call, fate, past, mismatch, faults>>

\* The await a request is suspended in.
Step == {"idle", "storing", "counting", "removing", "uncounting", "archiving", "copying", "copied",
         "cascading", "storingAgent", "countingAgent", "uncountingAgent", "answering"}
\* todo: what deleteAgent has left of the channels it listed, with the one it is deleting.
CallRecord ==
    [pc : Step, agent : Agent, ch : Channel \cup {NULL}, to : Agent, todo : SUBSET Channel]
Idle == [pc |-> "idle", agent |-> System, ch |-> NULL, to |-> System, todo |-> {}]

TypeOK ==
    /\ docs \subseteq Agent \X Channel
    /\ agents \subseteq Agent
    /\ counter \in [Metric -> Int]
    /\ call \in [Call -> CallRecord]
    /\ fate \in [Channel -> {"new", "live", "deleted"}]
    /\ revived \in 0..MaxRevived
    /\ haunted \subseteq Channel
    /\ mismatch \in BOOLEAN
    /\ faults \in 0..MaxFaults

Init ==
    /\ docs = {}
    /\ agents = {System}
    /\ counter = [m \in Metric |-> 0]
    /\ call = [c \in Call |-> Idle]
    /\ fate = [ch \in Channel |-> "new"]
    /\ revived = 0
    /\ haunted = {}
    /\ mismatch = FALSE
    /\ faults = 0

Fault == faults < MaxFaults /\ faults' = faults + 1

At(pc) == {c \in Call : call[c].pc = pc}
\* Bound: after a mismatch no request starts (every property is about the time before).
Free(c) == call[c].pc = "idle" /\ ~mismatch
Doc(c) == <<call[c].agent, call[c].ch>>
Goto(c, pc) == call' = [call EXCEPT ![c].pc = pc]

\* A deletion inside the cascade goes back to it, whether it succeeded or not.
Back(r) ==
    IF r.todo = {} THEN Idle
    ELSE [r EXCEPT !.pc = "cascading", !.ch = NULL, !.todo = r.todo \ {r.ch}]
Return(c) == call' = [call EXCEPT ![c] = Back(call[c])]

-----------------------------------------------------------------------------
(* SystemAuthorityService *)

\* Mutant: the limit itself still passes.
checkAuthorityMutant(m) ==
    \/ counter[m] <= Limit[m] /\ UNCHANGED faults
    \/ Fault

\* An error while reading the tenant allows the action.
checkAuthority(m) ==
    \/ counter[m] < Limit[m] /\ UNCHANGED faults
    \/ Fault

\* An error while counting is logged.
recordUsage(m, n) ==
    \/ counter' = [counter EXCEPT ![m] = @ + n] /\ UNCHANGED faults
    \/ Fault /\ UNCHANGED counter

-----------------------------------------------------------------------------
(* Firestore: setDoc merges, and deleting a missing document succeeds. *)

Put(d) ==
    /\ docs' = docs \cup {d}
    /\ mismatch' = (mismatch \/ d \in docs)

Drop(d) ==
    /\ docs' = docs \ {d}
    /\ mismatch' = (mismatch \/ d \notin docs)

-----------------------------------------------------------------------------
(* ChannelService.createChannel *)

CreateChannel(c) ==
    /\ Free(c)
    /\ checkAuthority("channels")
    /\ \E a \in Agent, ch \in Channel :
          /\ fate[ch] = "new" /\ \A o \in Call : call[o].ch # ch
          /\ call' = [call EXCEPT ![c] = [Idle EXCEPT !.pc = "storing", !.agent = a, !.ch = ch]]
    /\ UNCHANGED <<docs, agents, counter, fate, past, mismatch>>

StoreChannel(c) ==
    /\ call[c].pc = "storing"
    /\ Put(Doc(c))
    /\ fate' = [fate EXCEPT ![call[c].ch] = "live"]
    /\ Goto(c, "counting")
    /\ UNCHANGED <<agents, counter, past, faults>>

CountChannel(c) ==
    /\ call[c].pc = "counting"
    /\ recordUsage("channels", 1)
    /\ call' = [call EXCEPT ![c] = Idle]
    /\ UNCHANGED <<docs, agents, fate, past, mismatch>>

-----------------------------------------------------------------------------
(* ChannelService.deleteChannel, and its archive option *)

DeleteChannel(c) ==
    /\ Free(c)
    /\ \E d \in docs, pc \in {"removing", "archiving"} :
          call' = [call EXCEPT ![c] = [Idle EXCEPT !.pc = pc, !.agent = d[1], !.ch = d[2]]]
    /\ UNCHANGED <<docs, agents, counter, fate, past, mismatch, faults>>

RemoveChannel(c) ==
    /\ call[c].pc = "removing"
    /\ Drop(Doc(c))
    /\ fate' = [fate EXCEPT ![call[c].ch] = "deleted"]
    /\ Goto(c, "uncounting")
    /\ UNCHANGED <<agents, counter, past, faults>>

\* Mutant: a deleted channel keeps its slot.
UncountChannelMutant(c) ==
    /\ call[c].pc = "uncounting"
    /\ Return(c)
    /\ UNCHANGED <<docs, agents, counter, fate, past, mismatch, faults>>

UncountChannel(c) ==
    /\ call[c].pc = "uncounting"
    /\ recordUsage("channels", -1)
    /\ Return(c)
    /\ UNCHANGED <<docs, agents, fate, past, mismatch>>

\* An archived channel keeps its document and its slot.
ArchiveChannel(c) ==
    /\ call[c].pc = "archiving"
    /\ docs' = docs \cup {Doc(c)}
    /\ mismatch' = (mismatch \/ Doc(c) \notin docs)
    /\ call' = [call EXCEPT ![c] = Idle]
    /\ UNCHANGED <<agents, counter, fate, past, faults>>

-----------------------------------------------------------------------------
(* ChannelService.moveChannel *)

\* Mutant: the old document is deleted before the new one is written.
MoveChannelMutant(c) ==
    /\ Free(c)
    /\ \E d \in docs, to \in Agent :
          /\ to # d[1]
          /\ Drop(d)
          /\ call' = [call EXCEPT ![c] =
                [Idle EXCEPT !.pc = "copying", !.agent = d[1], !.ch = d[2], !.to = to]]
    /\ UNCHANGED <<agents, counter, fate, past, faults>>

\* Mutant: a request that names no target agent is not refused.
MoveChannelMutant2(c) ==
    /\ Free(c)
    /\ \E d \in docs :
          call' = [call EXCEPT ![c] =
             [Idle EXCEPT !.pc = "copying", !.agent = d[1], !.ch = d[2], !.to = NULL]]
    /\ UNCHANGED <<docs, agents, counter, fate, past, mismatch, faults>>

MoveChannel(c) ==
    /\ Free(c)
    /\ \E d \in docs, to \in Agent :
          /\ to # d[1]
          /\ call' = [call EXCEPT ![c] =
                [Idle EXCEPT !.pc = "copying", !.agent = d[1], !.ch = d[2], !.to = to]]
    /\ UNCHANGED <<docs, agents, counter, fate, past, mismatch, faults>>

CopyChannel(c) ==
    /\ call[c].pc = "copying"
    /\ Put(<<call[c].to, call[c].ch>>)
    /\ Goto(c, "copied")
    /\ UNCHANGED <<agents, counter, fate, past, faults>>

\* Mutant: the old document is left where it was.
RemoveSourceMutant(c) ==
    /\ call[c].pc = "copied"
    /\ call' = [call EXCEPT ![c] = Idle]
    /\ UNCHANGED <<docs, agents, counter, fate, past, mismatch, faults>>

RemoveSource(c) ==
    /\ call[c].pc = "copied"
    /\ Drop(Doc(c))
    /\ call' = [call EXCEPT ![c] = Idle]
    /\ UNCHANGED <<agents, counter, fate, past, faults>>

-----------------------------------------------------------------------------
(* updateChannel and incrementChannelStat: no lookup before the write *)

\* A status, a statistic or a patch for a channel, under the agent the writer holds it to be
\* under: the adapter keeps the one it was started with, and Telegram's and Discord's statistics
\* go to system_default.  A document that is not there is created, and nobody counts it.
MergeChannel ==
    /\ ~mismatch /\ revived < MaxRevived
    /\ \E d \in (Agent \X Channel) \ docs :
          /\ fate[d[2]] # "new"
          /\ docs' = docs \cup {d}
          /\ haunted' = haunted \cup {d[2]}
    /\ revived' = revived + 1
    /\ UNCHANGED <<agents, counter, call, fate, mismatch, faults>>

-----------------------------------------------------------------------------
(* AgentService *)

CreateAgent(c) ==
    /\ Free(c)
    /\ checkAuthority("agents")
    /\ \E a \in Agent : call' = [call EXCEPT ![c] = [Idle EXCEPT !.pc = "storingAgent", !.agent = a]]
    /\ UNCHANGED <<docs, agents, counter, fate, past, mismatch>>

StoreAgent(c) ==
    /\ call[c].pc = "storingAgent"
    /\ agents' = agents \cup {call[c].agent}
    /\ mismatch' = (mismatch \/ call[c].agent \in agents)
    /\ Goto(c, "countingAgent")
    /\ UNCHANGED <<docs, counter, fate, past, faults>>

CountAgent(c) ==
    /\ call[c].pc = "countingAgent"
    /\ recordUsage("agents", 1)
    /\ call' = [call EXCEPT ![c] = Idle]
    /\ UNCHANGED <<docs, agents, fate, past, mismatch>>

\* The agent is not looked up; when its channels cannot be listed, none are deleted.
DeleteAgent(c) ==
    /\ Free(c)
    /\ \E a \in Agent \ {System}, todo \in SUBSET Channel :
          /\ \/ todo = {ch \in Channel : <<a, ch>> \in docs} /\ UNCHANGED faults
             \/ todo = {} /\ Fault
          /\ call' = [call EXCEPT ![c] =
                [Idle EXCEPT !.pc = "cascading", !.agent = a, !.todo = todo]]
    /\ UNCHANGED <<docs, agents, counter, fate, past, mismatch>>

\* deleteChannel looks the document up first; its failures are ignored.
Cascade(c) ==
    /\ call[c].pc = "cascading"
    /\ \E ch \in call[c].todo :
          \/ /\ <<call[c].agent, ch>> \in docs
             /\ call' = [call EXCEPT ![c].pc = "removing", ![c].ch = ch]
             /\ UNCHANGED faults
          \/ /\ \/ <<call[c].agent, ch>> \notin docs /\ UNCHANGED faults
                \/ Fault
             /\ call' = [call EXCEPT ![c].todo = @ \ {ch}]
    /\ UNCHANGED <<docs, agents, counter, fate, past, mismatch>>

EraseAgent(c) ==
    /\ call[c].pc = "cascading" /\ call[c].todo = {}
    /\ agents' = agents \ {call[c].agent}
    /\ mismatch' = (mismatch \/ call[c].agent \notin agents)
    /\ Goto(c, "uncountingAgent")
    /\ UNCHANGED <<docs, counter, fate, past, faults>>

UncountAgent(c) ==
    /\ call[c].pc = "uncountingAgent"
    /\ recordUsage("agents", -1)
    /\ call' = [call EXCEPT ![c] = Idle]
    /\ UNCHANGED <<docs, agents, fate, past, mismatch>>

-----------------------------------------------------------------------------
(* geminiAI.processOmnichannelMessage, and the reset by invoice.paid *)

Answer(c) ==
    /\ Free(c)
    /\ checkAuthority("messages")
    /\ Goto(c, "answering")
    /\ UNCHANGED <<docs, agents, counter, fate, past, mismatch>>

CountAnswer(c) ==
    /\ call[c].pc = "answering"
    /\ recordUsage("messages", 1)
    /\ call' = [call EXCEPT ![c] = Idle]
    /\ UNCHANGED <<docs, agents, fate, past, mismatch>>

InvoicePaid ==
    /\ counter' = [counter EXCEPT !["messages"] = 0]
    /\ UNCHANGED <<docs, agents, call, fate, past, mismatch, faults>>

-----------------------------------------------------------------------------
(* Faults *)

\* A refused call ends the request; a deletion in a cascade goes back to it.
Refused(c) ==
    /\ \/ call[c].pc \in {"storing", "removing", "archiving", "copying", "copied", "storingAgent",
                          "answering"}
       \/ call[c].pc = "cascading" /\ call[c].todo = {}
    /\ Return(c)
    /\ Fault
    /\ UNCHANGED <<docs, agents, counter, fate, past, mismatch>>

Crash ==
    /\ \E c \in Call : call[c].pc # "idle"
    /\ call' = [c \in Call |-> Idle]
    /\ Fault
    /\ UNCHANGED <<docs, agents, counter, fate, past, mismatch>>

Next ==
    \/ \E c \in Call :
          \/ CreateChannel(c) \/ StoreChannel(c) \/ CountChannel(c)
          \/ DeleteChannel(c) \/ RemoveChannel(c) \/ UncountChannel(c) \/ ArchiveChannel(c)
          \/ MoveChannel(c) \/ CopyChannel(c) \/ RemoveSource(c)
          \/ CreateAgent(c) \/ StoreAgent(c) \/ CountAgent(c)
          \/ DeleteAgent(c) \/ Cascade(c) \/ EraseAgent(c) \/ UncountAgent(c)
          \/ Answer(c) \/ CountAnswer(c)
          \/ Refused(c)
    \/ MergeChannel
    \/ InvoicePaid
    \/ Crash

Spec == Init /\ [][Next]_vars

-----------------------------------------------------------------------------
(* Properties *)

Clean == faults = 0 /\ ~mismatch
Num(pc) == Cardinality(At(pc))
Homes(ch) == {a \in Agent : <<a, ch>> \in docs}

\* stats.activeChannels is the number of channel documents, up to the requests that have
\* written or deleted one and are about to count it, or are halfway through a move, and up to
\* the documents that merging writes have brought about.
ChannelsAreCounted ==
    Clean => Cardinality(docs) + Num("uncounting")
                 = counter["channels"] + Num("counting") + Num("copied") + revived

\* agentCount is the number of agents besides system_default, up to requests about to count.
AgentsAreCounted ==
    Clean => Cardinality(agents \ {System}) + Num("uncountingAgent")
                 = counter["agents"] + Num("countingAgent")

\* The counters that the limits are compared with are true, up to the requests in progress and
\* one for every document that a merging write brought about: no other call miscounts.
CountersAreTrue == ChannelsAreCounted /\ AgentsAreCounted

\* Check and record are far apart, so a limit can be passed, but by no more than the other
\* requests in progress; the channel limit also by one for every document that a merging write
\* brought about, since its deletion gives back a slot that nobody took.
OvershootIsBounded ==
    Clean =>
        LET most(m) == Limit[m] + Cardinality(Call) - 1 IN
        /\ Cardinality(docs) + Num("storing") - Num("copied") <= most("channels") + revived
        /\ Cardinality(agents \ {System}) + Num("storingAgent") <= most("agents")
        /\ counter["messages"] + Num("answering") <= most("messages")

\* Whatever fails or crashes, a channel nobody deleted still has a document.
NeverLost == ~mismatch => \A ch \in Channel : fate[ch] = "live" => Homes(ch) # {}

\* When all requests are done, a channel is under one agent, and a deleted one under none, but
\* for the channels of which a merging write brought a document about.
OneHome ==
    Clean /\ At("idle") = Call =>
        \A ch \in Channel \ haunted : Cardinality(Homes(ch)) = (IF fate[ch] = "live" THEN 1 ELSE 0)

\* "Ensure a tenant cannot exceed their plan limit even with concurrent message bursts."
PlanIsKept == faults = 0 => counter["messages"] <= Limit["messages"]

\* Refuted, even for requests in turn: a deleted channel that a late write brings back takes no
\* slot, and the document that the adapter of a moved channel writes under the old agent gives
\* a slot back when that agent is deleted.
LimitHoldsInTurn == Clean => Cardinality({ch \in Channel : Homes(ch) # {}}) <= Limit["channels"]
================================================================================

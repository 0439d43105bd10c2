------------------------------ MODULE StripeEvents -----------------------------
(***************************************************************************)
(* handleStripeWebhook: Stripe delivers an event until it is answered with *)
(* 2xx, in no particular order, and may deliver it again while a first     *)
(* delivery is still at work.  The document stripe_events/{id} marks it;   *)
(* the handlers copy the subscription into the tenant, its subscription    *)
(* document and its user, one write after the other.                       *)
(*                                                                         *)
(* One tenant, one subscription.  What a document holds is the version of  *)
(* the subscription: the event that changed it last, 0 when it was made.   *)
(***************************************************************************)
EXTENDS Naturals, Sequences, FiniteSets

CONSTANTS
    Delivery,            \* requests that can be at work at once
    MaxEvents,           \* bound: events of the subscription
    MaxFaults,           \* bound: refused calls, lost answers and crashes
    SessionNamesTenant,  \* does session.metadata hold the tenantId?
    NULL                 \* no subscription document

ASSUME BoundAssumption == MaxEvents \in Nat /\ MaxFaults \in Nat
ASSUME MetadataAssumption == SessionNamesTenant \in BOOLEAN
ASSUME NullAssumption == NULL \notin Nat

VARIABLES
    events,      \* external: the events Stripe has made, oldest first
    acked,       \* external: the events Stripe has had a 2xx for
    mark,        \* stripe_events
    run,         \* the deliveries at work
    root, sub, user,   \* the copies: tenant, subscription document, user document
    resets,      \* how often the usage was reset
    runs,        \* history: handlers started for an event
    wrote,       \* history: documents written for an event
    overlapped,  \* history: events checked while another delivery was about to mark them
    disorder,    \* history: has a handler started beside another one, or out of order?
    faults

stripe == <<events, acked>>
copies == <<root, sub, user, resets, wrote>>
history == <<runs, overlapped, disorder>>
vars == <<stripe, mark, run, copies, history, faults>>

Kind == {"checkout", "updated", "deleted", "paid"}
Event == 1..MaxEvents
Version == 0..MaxEvents

\* The await a delivery is suspended in.
Step == {"idle", "marking", "querying", "retrieving", "root", "sub", "user", "usage",
         "closing", "failing"}
RunRecord == [pc : Step, event : Version, version : Version]
NoRun == [pc |-> "idle", event |-> 0, version |-> 0]

TypeOK ==
    /\ events \in Seq(Kind) /\ Len(events) <= MaxEvents
    /\ acked \subseteq Event
    /\ mark \in [Event -> {"none", "processing", "completed", "failed"}]
    /\ run \in [Delivery -> RunRecord]
    /\ \A d \in Delivery : run[d].pc # "idle" => run[d].event \in DOMAIN events
    /\ root \in [linked : BOOLEAN, version : Version]
    /\ sub \in Version \cup {NULL}
    /\ user \in Version
    /\ resets \in Nat
    /\ runs \in [Event -> Nat]
    /\ wrote \subseteq Event \X {"root", "sub"}
    /\ overlapped \subseteq Event
    /\ disorder \subseteq {"beside", "order"}
    /\ faults \in 0..MaxFaults

Init ==
    /\ events = <<>>
    /\ acked = {}
    /\ mark = [e \in Event |-> "none"]
    /\ run = [d \in Delivery |-> NoRun]
    /\ root = [linked |-> FALSE, version |-> 0]
    /\ sub = NULL
    /\ user = 0
    /\ resets = 0
    /\ runs = [e \in Event |-> 0]
    /\ wrote = {}
    /\ overlapped = {}
    /\ disorder = {}
    /\ faults = 0

Made == DOMAIN events
Idle == {d \in Delivery : run[d].pc = "idle"}
Fault == faults < MaxFaults /\ faults' = faults + 1
Of(d) == events[run[d].event]
Goto(d, pc) == run' = [run EXCEPT ![d].pc = pc]
Done(d) == run' = [run EXCEPT ![d] = NoRun]

-----------------------------------------------------------------------------
(* Stripe *)

Changes == {e \in Made : events[e] \in {"updated", "deleted"}}
Current(v) == v \in {0} \cup Changes /\ \A e \in Changes : e <= v

\* A subscription comes from one checkout and ends once, later.
Emit ==
    /\ Len(events) < MaxEvents
    /\ \E k \in Kind :
          /\ k \in {"checkout", "deleted"} => \A e \in Made : events[e] # k
          /\ k = "deleted" => \E e \in Made : events[e] = "checkout"
          /\ k = "updated" => \A e \in Made : events[e] # "deleted"
          /\ events' = Append(events, k)
    /\ UNCHANGED <<acked, mark, run, copies, history, faults>>

\* The answer 2xx, which can get lost.
Answered(e) ==
    \/ acked' = acked \cup {e} /\ UNCHANGED faults
    \/ Fault /\ UNCHANGED acked

-----------------------------------------------------------------------------
(* handleStripeWebhook *)

\* An event that is marked, whatever its status, counts as processed.
Duplicate(e) ==
    /\ e \in Made \ acked
    /\ mark[e] # "none"
    /\ Answered(e)
    /\ UNCHANGED <<events, mark, run, copies, history>>

\* Mutant: an event counts as processed when its handler has completed.
CheckMutant(d, e) ==
    /\ run[d].pc = "idle"
    /\ e \in Made \ acked
    /\ mark[e] # "completed"
    /\ run' = [run EXCEPT ![d] = [pc |-> "marking", event |-> e, version |-> e]]
    /\ overlapped' = IF \E o \in Delivery : run[o].pc = "marking" /\ run[o].event = e
                     THEN overlapped \cup {e} ELSE overlapped
    /\ disorder' = disorder \cup (IF Idle = Delivery THEN {} ELSE {"beside"})
                            \cup (IF 1..(e - 1) \subseteq acked THEN {} ELSE {"order"})
    /\ UNCHANGED <<stripe, mark, copies, runs, faults>>

Check(d, e) ==
    /\ run[d].pc = "idle"
    /\ e \in Made \ acked
    /\ mark[e] = "none"
    /\ run' = [run EXCEPT ![d] = [pc |-> "marking", event |-> e, version |-> e]]
    /\ overlapped' = IF \E o \in Delivery : run[o].pc = "marking" /\ run[o].event = e
                     THEN overlapped \cup {e} ELSE overlapped
    /\ disorder' = disorder \cup (IF Idle = Delivery THEN {} ELSE {"beside"})
                            \cup (IF 1..(e - 1) \subseteq acked THEN {} ELSE {"order"})
    /\ UNCHANGED <<stripe, mark, copies, runs, faults>>

\* The await a handler begins with: the tenant of an update is in the subscription's metadata,
\* a checkout without a tenant is only logged.
First(k) ==
    CASE k = "checkout" -> IF SessionNamesTenant THEN "retrieving" ELSE "closing"
      [] k = "updated" -> "root"
      [] OTHER -> "querying"

Mark(d) ==
    /\ run[d].pc = "marking"
    /\ mark' = [mark EXCEPT ![run[d].event] = "processing"]
    /\ runs' = [runs EXCEPT ![run[d].event] = @ + 1]
    /\ Goto(d, First(Of(d)))
    /\ UNCHANGED <<stripe, copies, overlapped, disorder, faults>>

\* Mutant: the answer is sent before the work is done.
CloseMutant(d) ==
    /\ run[d].pc \in {"root", "sub", "closing"}
    /\ mark' = [mark EXCEPT ![run[d].event] = "completed"]
    /\ Answered(run[d].event)
    /\ Done(d)
    /\ UNCHANGED <<events, copies, history>>

Close(d) ==
    /\ run[d].pc = "closing"
    /\ mark' = [mark EXCEPT ![run[d].event] = "completed"]
    /\ Answered(run[d].event)
    /\ Done(d)
    /\ UNCHANGED <<events, copies, history>>

\* Inside the try block a refused call leads to the mark 'failed' and a 500.
HandlerFails(d) ==
    /\ run[d].pc \in {"querying", "retrieving", "root", "sub", "usage", "closing"}
    /\ Goto(d, "failing")
    /\ Fault
    /\ UNCHANGED <<stripe, mark, copies, history>>

Fail(d) ==
    /\ run[d].pc = "failing"
    /\ mark' = [mark EXCEPT ![run[d].event] = "failed"]
    /\ Done(d)
    /\ UNCHANGED <<stripe, copies, history, faults>>

\* Outside it the request goes unanswered.
Unanswered(d) ==
    /\ run[d].pc \in {"marking", "failing"}
    /\ Done(d)
    /\ Fault
    /\ UNCHANGED <<stripe, mark, copies, history>>

-----------------------------------------------------------------------------
(* The handlers *)

\* The tenant with this stripeSubscriptionId; without one the event is only logged.
Query(d) ==
    /\ run[d].pc = "querying"
    /\ Goto(d, IF ~root.linked THEN "closing" ELSE IF Of(d) = "paid" THEN "usage" ELSE "root")
    /\ UNCHANGED <<stripe, mark, copies, history, faults>>

\* Mutant: versions are counted from one.
RetrieveMutant(d) ==
    /\ run[d].pc = "retrieving"
    /\ run' = [run EXCEPT ![d].pc = "root", ![d].version = Len(events) + 1]
    /\ UNCHANGED <<stripe, mark, copies, history, faults>>

\* A checkout copies the subscription as it is now.
Retrieve(d) ==
    /\ run[d].pc = "retrieving"
    /\ \E v \in Version :
          Current(v) /\ run' = [run EXCEPT ![d].pc = "root", ![d].version = v]
    /\ UNCHANGED <<stripe, mark, copies, history, faults>>

WriteRoot(d) ==
    /\ run[d].pc = "root"
    /\ root' = [linked |-> root.linked \/ Of(d) = "checkout", version |-> run[d].version]
    /\ wrote' = wrote \cup {<<run[d].event, "root">>}
    /\ Goto(d, "sub")
    /\ UNCHANGED <<stripe, mark, sub, user, resets, history, faults>>

\* Mutant: the end of the subscription is written to the tenant only.
WriteSubMutant(d) ==
    /\ run[d].pc = "sub"
    /\ Of(d) = "checkout" \/ sub # NULL
    /\ sub' = IF Of(d) = "deleted" THEN sub ELSE run[d].version
    /\ wrote' = wrote \cup {<<run[d].event, "sub">>}
    /\ Goto(d, IF Of(d) = "checkout" THEN "user" ELSE "closing")
    /\ UNCHANGED <<stripe, mark, root, user, resets, history, faults>>

\* Only a checkout creates the document; update() fails on a missing one.
WriteSub(d) ==
    /\ run[d].pc = "sub"
    /\ Of(d) = "checkout" \/ sub # NULL
    /\ sub' = run[d].version
    /\ wrote' = wrote \cup {<<run[d].event, "sub">>}
    /\ Goto(d, IF Of(d) = "checkout" THEN "user" ELSE "closing")
    /\ UNCHANGED <<stripe, mark, root, user, resets, history, faults>>

SubIsMissing(d) ==
    /\ run[d].pc = "sub"
    /\ Of(d) # "checkout" /\ sub = NULL
    /\ Goto(d, "failing")
    /\ UNCHANGED <<stripe, mark, copies, history, faults>>

\* A failure of this write is logged only.
WriteUser(d) ==
    /\ run[d].pc = "user"
    /\ \/ user' = run[d].version /\ UNCHANGED faults
       \/ Fault /\ UNCHANGED user
    /\ Goto(d, "closing")
    /\ UNCHANGED <<stripe, mark, root, sub, resets, wrote, history>>

ResetUsage(d) ==
    /\ run[d].pc = "usage"
    /\ resets' = resets + 1
    /\ Goto(d, "closing")
    /\ UNCHANGED <<stripe, mark, root, sub, user, wrote, history, faults>>

Crash ==
    /\ Idle # Delivery
    /\ run' = [d \in Delivery |-> NoRun]
    /\ Fault
    /\ UNCHANGED <<stripe, mark, copies, history>>

Works(d) ==
    \/ Mark(d) \/ Close(d) \/ HandlerFails(d) \/ Fail(d) \/ Unanswered(d)
    \/ Query(d) \/ Retrieve(d) \/ WriteRoot(d) \/ WriteSub(d) \/ SubIsMissing(d)
    \/ WriteUser(d) \/ ResetUsage(d)

Next ==
    \/ Emit
    \/ \E e \in Event : Duplicate(e)
    \/ \E d \in Delivery, e \in Event : Check(d, e)
    \/ \E d \in Delivery : Works(d)
    \/ Crash

Spec == Init /\ [][Next]_vars

-----------------------------------------------------------------------------
(* Properties *)

\* An event is handled twice only if two deliveries of it were between the check and the
\* mark at the same time: neither a redelivery nor a crash does it.
HandledOnce == \A e \in Event \ overlapped : runs[e] <= 1

\* An update of the subscription is marked completed only after both of its documents were
\* written.  (Of the other kinds it says nothing: without a tenant they are completed without
\* a write, which CancelIsApplied is about.)
CompletedIsWritten ==
    \A e \in Made :
        mark[e] = "completed" /\ events[e] = "updated" => {e} \X {"root", "sub"} \subseteq wrote

\* The subscription document is never there without the tenant that points to it, which the
\* end of the subscription and its invoices look for.
SubIsLinked == sub # NULL => root.linked

\* As long as handlers run one at a time and no call fails, the two copies of the subscription
\* agree whenever none is at work; if the events come in order too, both hold what Stripe holds
\* once all are answered.
CopiesAgree ==
    faults = 0 /\ "beside" \notin disorder /\ Idle = Delivery /\ sub # NULL =>
        /\ sub = root.version
        /\ disorder = {} /\ acked = Made => Current(sub)

\* "Canceling a subscription in the Stripe Portal updates the user's access": here even when
\* nothing fails and the events are handled one by one and in order.
CancelIsApplied ==
    faults = 0 /\ disorder = {} /\ Idle = Delivery =>
        \A e \in acked : events[e] = "deleted" => <<e, "root">> \in wrote
================================================================================

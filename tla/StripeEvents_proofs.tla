-------------------------- MODULE StripeEvents_proofs --------------------------
(***************************************************************************)
(* The mark of an event does what it can, for any number of events,        *)
(* deliveries and faults: one handler per event unless two deliveries were *)
(* between check and mark at once, documents written before the event is   *)
(* marked completed, and no subscription without a tenant pointing to it.  *)
(*                                                                         *)
(* None of these is inductive.  OneMark counts the deliveries about to     *)
(* mark an event together with the handlers it has had; Path says what a   *)
(* handler has done by the await it is suspended in.                       *)
(*                                                                         *)
(* The second part is about handlers that run one at a time (Alone) and in *)
(* order: the two copies of the subscription agree and become as new as    *)
(* what Stripe has been answered for.  AgreeInv adds which version a       *)
(* handler carries between its writes, and that it Covers every change     *)
(* marked so far.                                                          *)
(*                                                                         *)
(* The third part takes the one sentence the code does not keep, that the  *)
(* end of a subscription reaches the tenant, and shows that it would with  *)
(* a tenantId in the session's metadata: the tenant is linked before the   *)
(* end looks for it (LinkInv).                                             *)
(***************************************************************************)
EXTENDS StripeEvents, TLAPS

Marking(d, e) == run[d].pc = "marking" /\ run[d].event = e

\* Only an event that Stripe has made is marked.
MarkedIsMade == \A e \in Event : mark[e] # "none" => e \in Made

OneMark ==
    \A e \in Event \ overlapped :
        /\ runs[e] <= 1
        /\ mark[e] = "none" => runs[e] = 0
        /\ \A d, o \in Delivery :
              Marking(d, e) => mark[e] = "none" /\ (Marking(o, e) => o = d)

PathOf(d) ==
    /\ run[d].pc \notin {"idle", "marking"} => mark[run[d].event] # "none"
    /\ run[d].pc \in {"retrieving", "user"} => Of(d) = "checkout"
    /\ run[d].pc \in {"querying", "usage"} => Of(d) # "updated"
    /\ run[d].pc = "sub" => <<run[d].event, "root">> \in wrote
    /\ run[d].pc = "sub" /\ Of(d) = "checkout" => root.linked
    /\ run[d].pc = "closing" /\ Of(d) = "updated" =>
          {run[d].event} \X {"root", "sub"} \subseteq wrote

Path == \A d \in Delivery : PathOf(d)

IInv == TypeOK /\ MarkedIsMade /\ OneMark /\ Path /\ CompletedIsWritten /\ SubIsLinked

-----------------------------------------------------------------------------
(* Facts about the state *)

\* The events are numbered from one, and their numbers are Events.
LEMMA MadeIsEvents ==
    ASSUME TypeOK
    PROVE  /\ Made = 1..Len(events) /\ Len(events) \in Nat
           /\ Made \subseteq Event /\ Event \subseteq Version
           /\ \A e \in Made : events[e] \in Kind
<1>1. events \in Seq(Kind) /\ Len(events) <= MaxEvents
  BY DEF TypeOK
<1>2. Made = 1..Len(events) /\ Len(events) \in Nat /\ \A e \in Made : events[e] \in Kind
  BY <1>1 DEF Made
<1> QED
  BY <1>1, <1>2, BoundAssumption DEF Event, Version

\* A delivery that goes on leaves its event and the other deliveries alone.
LEMMA GotoStep ==
    ASSUME TypeOK, NEW d \in Delivery, run[d].pc # "idle", NEW pc \in Step, pc # "idle",
           Goto(d, pc), events' = events
    PROVE  /\ run' \in [Delivery -> RunRecord]
           /\ \A o \in Delivery : run'[o].pc # "idle" => run'[o].event \in DOMAIN events'
           /\ run'[d].pc = pc /\ run'[d].event = run[d].event
           /\ \A o \in Delivery : o # d => run'[o] = run[o]
<1>1. run \in [Delivery -> RunRecord] /\ run' = [run EXCEPT ![d].pc = pc]
  BY DEF TypeOK, Goto
<1>2. run' \in [Delivery -> RunRecord]
  BY <1>1 DEF RunRecord
<1>3. run'[d].pc = pc /\ run'[d].event = run[d].event
  BY <1>1 DEF RunRecord
<1>4. \A o \in Delivery : o # d => run'[o] = run[o]
  BY <1>1
<1> QED
  BY <1>2, <1>3, <1>4 DEF TypeOK

\* A delivery that ends leaves the other deliveries alone.
LEMMA DoneStep ==
    ASSUME TypeOK, NEW d \in Delivery, Done(d), events' = events
    PROVE  /\ run' \in [Delivery -> RunRecord]
           /\ \A o \in Delivery : run'[o].pc # "idle" => run'[o].event \in DOMAIN events'
           /\ run'[d].pc = "idle"
           /\ \A o \in Delivery : o # d => run'[o] = run[o]
<1>1. run \in [Delivery -> RunRecord] /\ run' = [run EXCEPT ![d] = NoRun]
  BY DEF TypeOK, Done
<1>2. NoRun \in RunRecord /\ NoRun.pc = "idle"
  BY BoundAssumption DEF NoRun, RunRecord, Step, Version
<1>3. run' \in [Delivery -> RunRecord]
  BY <1>1, <1>2
<1>4. run'[d].pc = "idle" /\ \A o \in Delivery : o # d => run'[o] = run[o]
  BY <1>1, <1>2
<1> QED
  BY <1>3, <1>4 DEF TypeOK

\* The event of a delivery at work is one Stripe has made, of a known kind.
LEMMA AtWork ==
    ASSUME TypeOK, NEW d \in Delivery, run[d].pc # "idle"
    PROVE  /\ run[d].event \in Made /\ run[d].event \in Event
           /\ Of(d) \in Kind
           /\ run[d].version \in Version
<1>1. run[d] \in RunRecord /\ run[d].event \in Made
  BY DEF TypeOK, Made
<1> QED
  BY <1>1, MadeIsEvents DEF Of, RunRecord

\* Faults stay within their bound.
LEMMA FaultType == ASSUME TypeOK, Fault PROVE faults' \in 0..MaxFaults
  BY BoundAssumption DEF TypeOK, Fault

\* The initial state: no events, no documents, nobody at work.
LEMMA InitInv == Init => IInv
<1> SUFFICES ASSUME Init PROVE IInv
  OBVIOUS
<1>1. NoRun \in RunRecord /\ NoRun.pc = "idle"
  BY BoundAssumption DEF NoRun, RunRecord, Step, Version
<1>2. run \in [Delivery -> RunRecord] /\ \A d \in Delivery : run[d].pc = "idle"
  BY <1>1 DEF Init
<1>3. events \in Seq(Kind) /\ Len(events) <= MaxEvents /\ acked \subseteq Event
  BY BoundAssumption DEF Init
<1>4. /\ mark \in [Event -> {"none", "processing", "completed", "failed"}]
      /\ runs \in [Event -> Nat] /\ \A e \in Event : mark[e] = "none" /\ runs[e] = 0
  BY DEF Init
<1>5. /\ root \in [linked : BOOLEAN, version : Version]
      /\ sub \in Version \cup {NULL} /\ user \in Version /\ resets \in Nat
      /\ wrote \subseteq Event \X {"root", "sub"} /\ overlapped \subseteq Event
      /\ disorder \subseteq {"beside", "order"} /\ faults \in 0..MaxFaults
  BY BoundAssumption DEF Init, Version
<1>6. TypeOK
  BY <1>2, <1>3, <1>4, <1>5, Zenon DEF TypeOK
<1>7. MarkedIsMade /\ OneMark
  BY <1>2, <1>4 DEF MarkedIsMade, OneMark, Marking
<1>8. Path
  BY <1>2 DEF Path, PathOf
<1>9. CompletedIsWritten
  BY <1>6, <1>4, MadeIsEvents DEF CompletedIsWritten
<1>10. SubIsLinked
  BY DEF Init, SubIsLinked
<1> QED
  BY <1>6, <1>7, <1>8, <1>9, <1>10 DEF IInv

-----------------------------------------------------------------------------
(* What a step of one delivery leaves in place *)

\* The state without the requests and the faults is typed.
RestType ==
    /\ acked \subseteq Event
    /\ mark \in [Event -> {"none", "processing", "completed", "failed"}]
    /\ root \in [linked : BOOLEAN, version : Version]
    /\ sub \in Version \cup {NULL} /\ user \in Version /\ resets \in Nat
    /\ wrote \subseteq Event \X {"root", "sub"}
    /\ runs \in [Event -> Nat] /\ overlapped \subseteq Event
    /\ disorder \subseteq {"beside", "order"}

RunType ==
    /\ run \in [Delivery -> RunRecord]
    /\ \A o \in Delivery : run[o].pc # "idle" => run[o].event \in DOMAIN events

\* The type invariant from its parts.
LEMMA TypeKept ==
    ASSUME TypeOK, events' = events, RunType', RestType', faults' \in 0..MaxFaults
    PROVE  TypeOK'
  BY Zenon DEF TypeOK, RunType, RestType

\* What did not change keeps its type.
LEMMA RestKept == ASSUME TypeOK, UNCHANGED <<acked, mark, copies, history>> PROVE RestType'
  BY DEF TypeOK, RestType, copies, history

\* The other deliveries stay where they were.
LEMMA PathKept ==
    ASSUME TypeOK, Path, events' = events, NEW d \in Delivery,
           \A o \in Delivery : o # d => run'[o] = run[o],
           \A e \in Event : mark[e] # "none" => mark'[e] # "none",
           root.linked => root'.linked, wrote \subseteq wrote',
           PathOf(d)'
    PROVE  Path'
<1> SUFFICES ASSUME NEW o \in Delivery, o # d PROVE PathOf(o)'
  BY DEF Path
<1>1. run'[o] = run[o] /\ PathOf(o) /\ Of(o)' = Of(o)
  BY DEF Path, Of
<1>2. run[o].pc # "idle" => run[o].event \in Event
  BY AtWork
<1> QED
  BY <1>1, <1>2 DEF PathOf

\* A step that marks nothing new.
LEMMA OneMarkKept ==
    ASSUME TypeOK, OneMark, NEW d \in Delivery,
           \A o \in Delivery : o # d => run'[o] = run[o],
           run'[d].pc # "marking",
           \A e \in Event : mark[e] = "none" <=> mark'[e] = "none",
           runs' = runs, overlapped' = overlapped
    PROVE  OneMark'
<1>1. \A o \in Delivery, e \in Event : Marking(o, e)' => Marking(o, e)
  BY DEF Marking
<1> QED
  BY <1>1 DEF OneMark

\* A step inside a handler, up to what it writes.
LEMMA HandlerStep ==
    ASSUME IInv, NEW d \in Delivery, run[d].pc # "idle", run[d].pc # "marking",
           NEW pc \in Step, pc # "idle", pc # "marking",
           Goto(d, pc), UNCHANGED <<stripe, mark, history>>,
           RestType', faults' \in 0..MaxFaults,
           root.linked => root'.linked, wrote \subseteq wrote',
           PathOf(d)', SubIsLinked'
    PROVE  IInv'
<1>1. events' = events /\ mark' = mark /\ runs' = runs /\ overlapped' = overlapped
  BY DEF stripe, history
<1>2. TypeOK /\ MarkedIsMade /\ OneMark /\ Path /\ CompletedIsWritten
  BY DEF IInv
<1>3. /\ RunType'
      /\ run'[d].pc = pc /\ run'[d].event = run[d].event
      /\ \A o \in Delivery : o # d => run'[o] = run[o]
  BY <1>1, <1>2, GotoStep DEF RunType
<1>4. TypeOK'
  BY <1>1, <1>2, <1>3, TypeKept
<1>5. MarkedIsMade'
  BY <1>1, <1>2 DEF MarkedIsMade, Made
<1>6. OneMark'
  BY <1>1, <1>2, <1>3, OneMarkKept
<1>7. Path'
  BY <1>1, <1>2, <1>3, PathKept
<1>8. CompletedIsWritten'
  BY <1>1, <1>2 DEF CompletedIsWritten, Made
<1> QED
  BY <1>4, <1>5, <1>6, <1>7, <1>8 DEF IInv

\* A request that ends, with or without a last mark.
LEMMA EndStep ==
    ASSUME IInv, NEW d \in Delivery, run[d].pc # "idle", Done(d),
           events' = events, UNCHANGED <<copies, history>>,
           acked' \subseteq Event, faults' \in 0..MaxFaults,
           \/ mark' = mark
           \/ /\ run[d].pc = "failing"
              /\ mark' = [mark EXCEPT ![run[d].event] = "failed"]
           \/ /\ run[d].pc = "closing"
              /\ mark' = [mark EXCEPT ![run[d].event] = "completed"]
    PROVE  IInv'
<1>1. TypeOK /\ MarkedIsMade /\ OneMark /\ Path /\ CompletedIsWritten /\ SubIsLinked
  BY DEF IInv
<1>2. /\ root' = root /\ sub' = sub /\ wrote' = wrote
      /\ runs' = runs /\ overlapped' = overlapped
  BY DEF copies, history
<1>3. RunType' /\ run'[d].pc = "idle" /\ \A o \in Delivery : o # d => run'[o] = run[o]
  BY <1>1, DoneStep DEF RunType
<1>4. run[d].event \in Made /\ run[d].event \in Event /\ mark \in [Event -> {"none", "processing", "completed", "failed"}]
  BY <1>1, AtWork DEF TypeOK
<1>5. mark' \in [Event -> {"none", "processing", "completed", "failed"}]
  BY <1>4
<1>6. RestType'
  BY <1>1, <1>5 DEF RestType, TypeOK, copies, history
<1>7. TypeOK'
  BY <1>1, <1>3, <1>6, TypeKept
<1>8. \A e \in Event : mark[e] = "none" <=> mark'[e] = "none"
  BY <1>1, <1>4 DEF Path, PathOf
<1>9. MarkedIsMade'
  BY <1>1, <1>8 DEF MarkedIsMade, Made
<1>10. OneMark'
  BY <1>1, <1>2, <1>3, <1>8, OneMarkKept
<1>11. PathOf(d)'
  BY <1>3 DEF PathOf
<1>12. Path'
  BY <1>1, <1>2, <1>3, <1>8, <1>11, PathKept
<1>13. CompletedIsWritten'
  <2> SUFFICES ASSUME NEW e \in Made, mark'[e] = "completed", events[e] = "updated"
               PROVE  {e} \X {"root", "sub"} \subseteq wrote
    BY <1>2 DEF CompletedIsWritten, Made
  <2>1. e \in Event
    BY <1>1, MadeIsEvents
  <2>2. CASE mark[e] = "completed"
    BY <1>1, <2>2 DEF CompletedIsWritten
  <2>3. CASE mark[e] # "completed"
    <3>1. e = run[d].event /\ run[d].pc = "closing"
      BY <1>4, <2>1, <2>3
    <3> QED
      BY <1>1, <3>1 DEF Path, PathOf, Of
  <2> QED
    BY <2>2, <2>3
<1>14. SubIsLinked'
  BY <1>1, <1>2 DEF SubIsLinked
<1> QED
  BY <1>7, <1>9, <1>10, <1>12, <1>13, <1>14 DEF IInv

-----------------------------------------------------------------------------
(* The actions *)

LEMMA EmitInv == ASSUME IInv, Emit PROVE IInv'
<1>1. TypeOK /\ MarkedIsMade /\ OneMark /\ Path /\ CompletedIsWritten /\ SubIsLinked
  BY DEF IInv
<1>2. /\ UNCHANGED <<acked, mark, run, root, sub, user, resets, wrote>>
      /\ UNCHANGED <<runs, overlapped, disorder, faults>>
  BY DEF Emit, copies, history
<1>3. PICK k \in Kind : events' = Append(events, k) /\ Len(events) < MaxEvents
  BY DEF Emit
<1>4. /\ events' \in Seq(Kind) /\ Len(events') <= MaxEvents
      /\ DOMAIN events \subseteq DOMAIN events'
      /\ \A e \in Made : events'[e] = events[e]
      /\ \A e \in Made' : e \in Made \/ e = Len(events) + 1
      /\ Len(events) + 1 \notin Made
  <2>1. events \in Seq(Kind) /\ Len(events) \in Nat /\ Made = 1..Len(events)
    BY <1>1, MadeIsEvents DEF TypeOK
  <2>2. Len(events') = Len(events) + 1 /\ events' \in Seq(Kind)
    BY <1>3, <2>1
  <2> QED
    BY <1>3, <2>1, <2>2, BoundAssumption DEF Made
<1>5. TypeOK'
  <2>1. RunType'
    BY <1>1, <1>2, <1>4 DEF TypeOK, RunType
  <2>2. RestType' /\ faults' \in 0..MaxFaults
    BY <1>1, <1>2 DEF TypeOK, RestType
  <2> QED
    BY <1>4, <2>1, <2>2, Zenon DEF TypeOK, RunType, RestType
<1>6. MarkedIsMade'
  BY <1>1, <1>2, <1>4 DEF MarkedIsMade, Made
<1>7. OneMark'
  BY <1>1, <1>2 DEF OneMark, Marking
<1>8. Path'
  <2> SUFFICES ASSUME NEW d \in Delivery, run[d].pc # "idle" PROVE PathOf(d)'
    BY <1>2 DEF Path, PathOf
  <2>1. Of(d)' = Of(d)
    BY <1>1, <1>2, <1>4, AtWork DEF Of
  <2> QED
    BY <1>1, <1>2, <2>1 DEF Path, PathOf
<1>9. CompletedIsWritten'
  <2> SUFFICES ASSUME NEW e \in Made', mark'[e] = "completed", events'[e] = "updated"
               PROVE  {e} \X {"root", "sub"} \subseteq wrote
    BY <1>2 DEF CompletedIsWritten
  <2>1. e \in Event
    BY <1>5, MadeIsEvents, BoundAssumption, <1>4 DEF Event, Made, TypeOK
  <2>2. e \in Made
    BY <1>1, <1>2, <2>1 DEF MarkedIsMade
  <2> QED
    BY <1>1, <1>2, <1>4, <2>2 DEF CompletedIsWritten
<1>10. SubIsLinked'
  BY <1>1, <1>2 DEF SubIsLinked
<1> QED
  BY <1>5, <1>6, <1>7, <1>8, <1>9, <1>10 DEF IInv

\* A delivery that only gets an answer.
LEMMA DuplicateInv == ASSUME IInv, NEW e \in Event, Duplicate(e) PROVE IInv'
<1>1. TypeOK /\ MarkedIsMade /\ OneMark /\ Path /\ CompletedIsWritten /\ SubIsLinked
  BY DEF IInv
<1>2. UNCHANGED <<events, mark, run, root, sub, user, resets, wrote, runs, overlapped, disorder>>
  BY DEF Duplicate, copies, history
<1>3. acked' \subseteq Event /\ faults' \in 0..MaxFaults
  BY <1>1, FaultType DEF Duplicate, Answered, TypeOK
<1>4. TypeOK'
  <2>1. RunType' /\ RestType'
    BY <1>1, <1>2, <1>3 DEF TypeOK, RunType, RestType
  <2> QED
    BY <1>1, <1>2, <1>3, <2>1, TypeKept
<1>5. MarkedIsMade' /\ CompletedIsWritten' /\ SubIsLinked'
  BY <1>1, <1>2 DEF MarkedIsMade, CompletedIsWritten, SubIsLinked, Made
<1>6. OneMark' /\ Path'
  BY <1>1, <1>2 DEF OneMark, Marking, Path, PathOf, Of
<1> QED
  BY <1>4, <1>5, <1>6 DEF IInv

\* Two deliveries of one event are now between check and mark only if the event is listed.
LEMMA CheckInv == ASSUME IInv, NEW d \in Delivery, NEW e \in Event, Check(d, e) PROVE IInv'
<1>1. TypeOK /\ MarkedIsMade /\ OneMark /\ Path /\ CompletedIsWritten /\ SubIsLinked
  BY DEF IInv
<1>2. /\ UNCHANGED <<events, acked, mark, root, sub, user, resets, wrote, runs, faults>>
      /\ e \in Made /\ mark[e] = "none"
  BY DEF Check, copies, stripe
<1>3. /\ run' \in [Delivery -> RunRecord]
      /\ run'[d].pc = "marking" /\ run'[d].event = e
      /\ \A o \in Delivery : o # d => run'[o] = run[o]
  <2>1. run' = [run EXCEPT ![d] = [pc |-> "marking", event |-> e, version |-> e]]
    BY DEF Check
  <2>2. [pc |-> "marking", event |-> e, version |-> e] \in RunRecord
    BY <1>1, MadeIsEvents DEF RunRecord, Step
  <2> QED
    BY <1>1, <2>1, <2>2 DEF TypeOK
<1>4. TypeOK'
  <2>1. RunType'
    BY <1>1, <1>2, <1>3 DEF TypeOK, RunType, Made
  <2>2. overlapped' \subseteq Event /\ disorder' \subseteq {"beside", "order"}
    BY <1>1 DEF Check, TypeOK
  <2>3. RestType' /\ faults' \in 0..MaxFaults
    BY <1>1, <1>2, <2>2 DEF TypeOK, RestType
  <2> QED
    BY <1>1, <1>2, <2>1, <2>3, TypeKept
<1>5. OneMark'
  <2> SUFFICES ASSUME NEW f \in Event, f \notin overlapped'
               PROVE  /\ runs[f] <= 1
                      /\ mark[f] = "none" => runs[f] = 0
                      /\ \A a, b \in Delivery :
                            Marking(a, f)' => mark[f] = "none" /\ (Marking(b, f)' => b = a)
    BY <1>2 DEF OneMark
  <2>1. f \notin overlapped /\ (f = e => \A o \in Delivery : ~Marking(o, e))
    BY DEF Check, Marking
  <2>2. \A o \in Delivery : Marking(o, f)' <=> (o = d /\ f = e) \/ (o # d /\ Marking(o, f))
    BY <1>3 DEF Marking
  <2> QED
    BY <1>1, <1>2, <2>1, <2>2 DEF OneMark
<1>6. PathOf(d)'
  BY <1>3 DEF PathOf
<1>7. Path'
  BY <1>1, <1>2, <1>3, <1>6, PathKept
<1>8. MarkedIsMade' /\ CompletedIsWritten' /\ SubIsLinked'
  BY <1>1, <1>2 DEF MarkedIsMade, CompletedIsWritten, SubIsLinked, Made
<1> QED
  BY <1>4, <1>5, <1>7, <1>8 DEF IInv

\* The mark of an event that is not listed is its first, and nobody else is about to set it.
LEMMA MarkInv == ASSUME IInv, NEW d \in Delivery, Mark(d) PROVE IInv'
<1> DEFINE e == run[d].event
<1>1. TypeOK /\ MarkedIsMade /\ OneMark /\ Path /\ CompletedIsWritten /\ SubIsLinked
  BY DEF IInv
<1>2. /\ UNCHANGED <<events, acked, root, sub, user, resets, wrote, overlapped, disorder, faults>>
      /\ run[d].pc = "marking"
      /\ mark' = [mark EXCEPT ![e] = "processing"]
      /\ runs' = [runs EXCEPT ![e] = @ + 1]
  BY DEF Mark, copies, stripe
<1>3. e \in Made /\ e \in Event /\ Of(d) \in Kind
  BY <1>1, <1>2, AtWork
<1>4. First(Of(d)) \in {"retrieving", "closing", "root", "querying"}
  BY DEF First
<1>5. /\ RunType'
      /\ run'[d].pc = First(Of(d)) /\ run'[d].event = e
      /\ \A o \in Delivery : o # d => run'[o] = run[o]
  <2>1. Goto(d, First(Of(d))) /\ First(Of(d)) \in Step /\ First(Of(d)) # "idle"
    BY <1>4 DEF Mark, Step
  <2> QED
    BY <1>1, <1>2, <2>1, GotoStep DEF RunType
<1>6. TypeOK'
  <2>1. mark' \in [Event -> {"none", "processing", "completed", "failed"}] /\ runs' \in [Event -> Nat]
    BY <1>1, <1>2, <1>3 DEF TypeOK
  <2>2. RestType' /\ faults' \in 0..MaxFaults
    BY <1>1, <1>2, <2>1 DEF TypeOK, RestType
  <2> QED
    BY <1>1, <1>2, <1>5, <2>2, TypeKept
<1>7. \A f \in Event : mark'[f] = IF f = e THEN "processing" ELSE mark[f]
  BY <1>1, <1>2, <1>3 DEF TypeOK
<1>8. OneMark'
  <2> SUFFICES ASSUME NEW f \in Event, f \notin overlapped
               PROVE  /\ runs'[f] <= 1
                      /\ mark'[f] = "none" => runs'[f] = 0
                      /\ \A a, b \in Delivery :
                            Marking(a, f)' => mark'[f] = "none" /\ (Marking(b, f)' => b = a)
    BY <1>2 DEF OneMark
  <2>1. \A o \in Delivery : Marking(o, f)' => Marking(o, f) /\ o # d
    BY <1>4, <1>5 DEF Marking
  <2>2. CASE f = e
    <3>1. mark[e] = "none" /\ runs[e] = 0 /\ \A o \in Delivery : Marking(o, e) => o = d
      BY <1>1, <1>2, <2>2 DEF OneMark, Marking
    <3>2. runs'[e] = 1
      BY <1>1, <1>2, <1>3, <3>1 DEF TypeOK
    <3> QED
      BY <1>3, <1>7, <2>1, <2>2, <3>1, <3>2
  <2>3. CASE f # e
    <3>1. runs'[f] = runs[f] /\ mark'[f] = mark[f]
      BY <1>1, <1>2, <1>7, <2>3 DEF TypeOK
    <3> QED
      BY <1>1, <2>1, <3>1 DEF OneMark
  <2> QED
    BY <2>2, <2>3
<1>9. PathOf(d)'
  <2>1. Of(d)' = Of(d) /\ mark'[e] # "none"
    BY <1>2, <1>3, <1>5, <1>7 DEF Of
  <2> QED
    BY <1>3, <1>4, <1>5, <2>1 DEF PathOf, First, Kind
<1>10. Path'
  BY <1>1, <1>2, <1>5, <1>7, <1>9, PathKept
<1>11. MarkedIsMade' /\ SubIsLinked'
  BY <1>1, <1>2, <1>3, <1>7 DEF MarkedIsMade, SubIsLinked, Made
<1>12. CompletedIsWritten'
  BY <1>1, <1>2, <1>7, MadeIsEvents DEF CompletedIsWritten, Made
<1> QED
  BY <1>6, <1>8, <1>10, <1>11, <1>12 DEF IInv

LEMMA EndInv ==
    ASSUME IInv, NEW d \in Delivery, Close(d) \/ Fail(d) \/ Unanswered(d)
    PROVE  IInv'
<1>1. TypeOK
  BY DEF IInv
<1>2. CASE Close(d)
  <2>1. acked' \subseteq Event /\ faults' \in 0..MaxFaults
    BY <1>1, <1>2, FaultType, AtWork DEF Close, Answered, TypeOK
  <2> QED
    BY <1>2, <2>1, EndStep DEF Close
<1>3. CASE Fail(d)
  <2>1. acked' \subseteq Event /\ faults' \in 0..MaxFaults
    BY <1>1, <1>3 DEF Fail, TypeOK, stripe
  <2> QED
    BY <1>3, <2>1, EndStep DEF Fail, stripe
<1>4. CASE Unanswered(d)
  <2>1. acked' \subseteq Event /\ faults' \in 0..MaxFaults
    BY <1>1, <1>4, FaultType DEF Unanswered, TypeOK, stripe
  <2> QED
    BY <1>4, <2>1, EndStep DEF Unanswered, stripe
<1> QED
  BY <1>2, <1>3, <1>4

\* Steps of a handler that write nothing.
LEMMA QuietInv ==
    ASSUME IInv, NEW d \in Delivery,
           HandlerFails(d) \/ Query(d) \/ Retrieve(d) \/ SubIsMissing(d)
    PROVE  IInv'
<1>1. TypeOK /\ Path /\ SubIsLinked
  BY DEF IInv
<1>2. UNCHANGED <<stripe, mark, copies, history>>
  BY DEF HandlerFails, Query, Retrieve, SubIsMissing
<1>3. RestType' /\ root' = root /\ wrote' = wrote /\ SubIsLinked'
  BY <1>1, <1>2, RestKept DEF stripe, copies, SubIsLinked
<1>4. run[d].pc # "idle" /\ run[d].pc # "marking"
  BY DEF HandlerFails, Query, Retrieve, SubIsMissing
<1>5. mark'[run[d].event] # "none"
  BY <1>1, <1>2, <1>4 DEF Path, PathOf
<1>6. CASE HandlerFails(d) \/ SubIsMissing(d)
  <2>1. Goto(d, "failing") /\ "failing" \in Step /\ faults' \in 0..MaxFaults
    BY <1>1, <1>6, FaultType DEF HandlerFails, SubIsMissing, Step, TypeOK
  <2>2. PathOf(d)'
    BY <1>1, <1>2, <1>4, <1>5, <2>1, GotoStep DEF PathOf, stripe
  <2> QED
    BY <1>2, <1>3, <1>4, <2>1, <2>2, HandlerStep
<1>7. CASE Query(d)
  <2> DEFINE pc == IF ~root.linked THEN "closing" ELSE IF Of(d) = "paid" THEN "usage" ELSE "root"
  <2>1. Goto(d, pc) /\ pc \in Step /\ pc # "idle" /\ pc # "marking" /\ faults' \in 0..MaxFaults
    BY <1>1, <1>7 DEF Query, Step, TypeOK
  <2>2. run'[d].pc = pc /\ run'[d].event = run[d].event /\ Of(d)' = Of(d)
    BY <1>1, <1>2, <1>4, <2>1, GotoStep DEF stripe, Of
  <2>3. Of(d) # "updated"
    BY <1>1, <1>7 DEF Query, Path, PathOf
  <2>4. PathOf(d)'
    BY <1>5, <2>2, <2>3 DEF PathOf
  <2> QED
    BY <1>2, <1>3, <1>4, <2>1, <2>4, HandlerStep
<1>8. CASE Retrieve(d)
  <2>1. PICK v \in Version : run' = [run EXCEPT ![d].pc = "root", ![d].version = v]
    BY <1>8 DEF Retrieve
  <2>2. /\ run' \in [Delivery -> RunRecord]
        /\ run'[d].pc = "root" /\ run'[d].event = run[d].event
        /\ \A o \in Delivery : o # d => run'[o] = run[o]
    BY <1>1, <2>1 DEF TypeOK, RunRecord, Step
  <2>3. RunType' /\ faults' = faults /\ events' = events
    BY <1>1, <1>2, <1>4, <1>8, <2>2 DEF TypeOK, RunType, Retrieve, stripe
  <2>4. PathOf(d)'
    BY <1>5, <2>2 DEF PathOf
  <2>5. MarkedIsMade /\ OneMark /\ CompletedIsWritten
    BY DEF IInv
  <2>6. mark' = mark /\ runs' = runs /\ overlapped' = overlapped
    BY <1>2 DEF history
  <2>7. TypeOK'
    BY <1>1, <1>3, <2>3, TypeKept DEF TypeOK
  <2>8. OneMark' /\ Path'
    BY <1>1, <1>3, <2>2, <2>3, <2>4, <2>5, <2>6, OneMarkKept, PathKept
  <2>9. MarkedIsMade' /\ CompletedIsWritten'
    BY <1>3, <2>3, <2>5, <2>6 DEF MarkedIsMade, CompletedIsWritten, Made
  <2> QED
    BY <1>3, <2>7, <2>8, <2>9 DEF IInv
<1> QED
  BY <1>6, <1>7, <1>8

\* The writes of a handler: the tenant comes first, and with it the link.
LEMMA WriteInv ==
    ASSUME IInv, NEW d \in Delivery,
           WriteRoot(d) \/ WriteSub(d) \/ WriteUser(d) \/ ResetUsage(d)
    PROVE  IInv'
<1>1. TypeOK /\ Path /\ SubIsLinked
  BY DEF IInv
<1>2. UNCHANGED <<stripe, mark, history>>
  BY DEF WriteRoot, WriteSub, WriteUser, ResetUsage
<1>3. run[d].pc # "idle" /\ run[d].pc # "marking"
  BY DEF WriteRoot, WriteSub, WriteUser, ResetUsage
<1>4. mark'[run[d].event] # "none" /\ run[d].event \in Event /\ run[d].version \in Version
  BY <1>1, <1>2, <1>3, AtWork DEF Path, PathOf
<1>5. events' = events /\ acked' = acked /\ Of(d) = events'[run[d].event]
  BY <1>2 DEF stripe, Of
<1>6. CASE WriteRoot(d)
  <2>1. /\ Goto(d, "sub") /\ "sub" \in Step /\ faults' \in 0..MaxFaults
        /\ root' = [linked |-> root.linked \/ Of(d) = "checkout", version |-> run[d].version]
        /\ wrote' = wrote \cup {<<run[d].event, "root">>}
        /\ sub' = sub /\ user' = user /\ resets' = resets
    BY <1>1, <1>6 DEF WriteRoot, Step, TypeOK
  <2>2. root'.linked <=> root.linked \/ Of(d) = "checkout"
    BY <1>1, <2>1 DEF TypeOK
  <2>3. RestType'
    BY <1>1, <1>2, <1>4, <2>1 DEF TypeOK, RestType, stripe, history
  <2>4. run'[d].pc = "sub" /\ run'[d].event = run[d].event
    BY <1>1, <1>3, <1>5, <2>1, GotoStep
  <2>5. PathOf(d)'
    BY <1>4, <1>5, <2>1, <2>2, <2>4 DEF PathOf, Of
  <2>6. SubIsLinked'
    BY <1>1, <2>1, <2>2 DEF SubIsLinked
  <2>7. wrote \subseteq wrote' /\ (root.linked => root'.linked)
    BY <2>1, <2>2
  <2> QED
    BY <1>2, <1>3, <2>1, <2>3, <2>5, <2>6, <2>7, HandlerStep
<1>7. CASE WriteSub(d)
  <2> DEFINE pc == IF Of(d) = "checkout" THEN "user" ELSE "closing"
  <2>1. /\ Goto(d, pc) /\ pc \in Step /\ pc # "idle" /\ pc # "marking"
        /\ faults' \in 0..MaxFaults
        /\ run[d].pc = "sub" /\ (Of(d) = "checkout" \/ sub # NULL)
        /\ sub' = run[d].version
        /\ wrote' = wrote \cup {<<run[d].event, "sub">>}
        /\ root' = root /\ user' = user /\ resets' = resets
    BY <1>1, <1>7 DEF WriteSub, Step, TypeOK
  <2>2. RestType'
    BY <1>1, <1>2, <1>4, <2>1 DEF TypeOK, RestType, stripe, history
  <2>3. run'[d].pc = pc /\ run'[d].event = run[d].event
    BY <1>1, <1>3, <1>5, <2>1, GotoStep
  <2>4. <<run[d].event, "root">> \in wrote /\ (Of(d) = "checkout" => root.linked)
    BY <1>1, <2>1 DEF Path, PathOf
  <2>5. PathOf(d)'
    BY <1>4, <1>5, <2>1, <2>3, <2>4 DEF PathOf, Of
  <2>6. SubIsLinked'
    BY <1>1, <2>1, <2>4 DEF SubIsLinked
  <2> QED
    BY <1>2, <1>3, <2>1, <2>2, <2>5, <2>6, HandlerStep
<1>8. CASE WriteUser(d) \/ ResetUsage(d)
  <2>1. /\ Goto(d, "closing") /\ "closing" \in Step /\ faults' \in 0..MaxFaults
        /\ root' = root /\ sub' = sub /\ wrote' = wrote
        /\ user' \in Version /\ resets' \in Nat
    BY <1>1, <1>4, <1>8, FaultType DEF WriteUser, ResetUsage, Step, TypeOK
  <2>2. RestType'
    BY <1>1, <1>2, <2>1 DEF TypeOK, RestType, stripe, history
  <2>3. run'[d].pc = "closing" /\ run'[d].event = run[d].event
    BY <1>1, <1>3, <1>5, <2>1, GotoStep
  <2>4. Of(d) # "updated"
    BY <1>1, <1>8 DEF WriteUser, ResetUsage, Path, PathOf
  <2>5. PathOf(d)'
    BY <1>4, <1>5, <2>3, <2>4 DEF PathOf, Of
  <2>6. SubIsLinked'
    BY <1>1, <2>1 DEF SubIsLinked
  <2> QED
    BY <1>2, <1>3, <2>1, <2>2, <2>5, <2>6, HandlerStep
<1> QED
  BY <1>6, <1>7, <1>8

\* A crash ends every delivery and keeps every document.
LEMMA CrashInv == ASSUME IInv, Crash PROVE IInv'
<1>1. TypeOK /\ MarkedIsMade /\ OneMark /\ Path /\ CompletedIsWritten /\ SubIsLinked
  BY DEF IInv
<1>2. UNCHANGED <<events, acked, mark, root, sub, user, resets, wrote, runs, overlapped, disorder>>
  BY DEF Crash, stripe, copies, history
<1>3. NoRun \in RunRecord /\ NoRun.pc = "idle"
  BY BoundAssumption DEF NoRun, RunRecord, Step, Version
<1>4. run' \in [Delivery -> RunRecord] /\ \A d \in Delivery : run'[d].pc = "idle"
  BY <1>3 DEF Crash
<1>5. TypeOK'
  <2>1. RunType' /\ RestType' /\ faults' \in 0..MaxFaults
    BY <1>1, <1>2, <1>4, FaultType DEF TypeOK, RunType, RestType, Crash
  <2> QED
    BY <1>1, <1>2, <2>1, TypeKept
<1>6. OneMark' /\ Path'
  BY <1>1, <1>2, <1>4 DEF OneMark, Marking, Path, PathOf
<1>7. MarkedIsMade' /\ CompletedIsWritten' /\ SubIsLinked'
  BY <1>1, <1>2 DEF MarkedIsMade, CompletedIsWritten, SubIsLinked, Made
<1> QED
  BY <1>5, <1>6, <1>7 DEF IInv

LEMMA NextInv == IInv /\ [Next]_vars => IInv'
<1> SUFFICES ASSUME IInv, [Next]_vars PROVE IInv'
  OBVIOUS
<1>1. CASE Emit
  BY <1>1, EmitInv
<1>2. CASE \E e \in Event : Duplicate(e)
  BY <1>2, DuplicateInv
<1>3. CASE \E d \in Delivery, e \in Event : Check(d, e)
  BY <1>3, CheckInv
<1>4. ASSUME NEW d \in Delivery, Works(d) PROVE IInv'
  BY <1>4, MarkInv, EndInv, QuietInv, WriteInv DEF Works
<1>5. CASE Crash
  BY <1>5, CrashInv
<1>6. CASE UNCHANGED vars
  <2>1. UNCHANGED <<events, acked, mark, run, root, sub, user, resets, wrote>>
        /\ UNCHANGED <<runs, overlapped, disorder, faults>>
    BY <1>6 DEF vars, stripe, copies, history
  <2>2. TypeOK'
    BY <2>1 DEF IInv, TypeOK
  <2>3. MarkedIsMade' /\ CompletedIsWritten' /\ SubIsLinked'
    BY <2>1 DEF IInv, MarkedIsMade, CompletedIsWritten, SubIsLinked, Made
  <2>4. OneMark' /\ Path'
    BY <2>1 DEF IInv, OneMark, Marking, Path, PathOf, Of
  <2> QED
    BY <2>2, <2>3, <2>4 DEF IInv
<1> QED
  BY <1>1, <1>2, <1>3, <1>4, <1>5, <1>6 DEF Next

LEMMA Invariant == Spec => []IInv
  BY InitInv, NextInv, PTL DEF Spec

-----------------------------------------------------------------------------
(* The theorems *)

\* The state keeps its types, and no delivery works on an event Stripe has not made.
THEOREM TypeCorrect == Spec => []TypeOK
<1>1. IInv => TypeOK
  BY DEF IInv
<1> QED
  BY <1>1, Invariant, PTL

\* handleStripeWebhook handles an event once, unless two deliveries of it passed the check
\* before either had set the mark.
THEOREM HandledOnceCorrect == Spec => []HandledOnce
<1>1. IInv => HandledOnce
  BY DEF IInv, OneMark, HandledOnce
<1> QED
  BY <1>1, Invariant, PTL

\* An update that is marked completed was written to both copies.
THEOREM CompletedIsWrittenCorrect == Spec => []CompletedIsWritten
<1>1. IInv => CompletedIsWritten
  BY DEF IInv
<1> QED
  BY <1>1, Invariant, PTL

\* The subscription document has a tenant that points to it, whatever runs beside or crashes.
THEOREM SubIsLinkedCorrect == Spec => []SubIsLinked
<1>1. IInv => SubIsLinked
  BY DEF IInv
<1> QED
  BY <1>1, Invariant, PTL

-----------------------------------------------------------------------------
(* Where the copies of the subscription agree *)

\* Stripe is told of an event only once it is marked.
AckedIsMarked == \A e \in acked : mark[e] # "none"

Alone == faults = 0 /\ "beside" \notin disorder

OneAtWork == \A d, o \in Delivery : run[d].pc # "idle" /\ run[o].pc # "idle" => d = o

\* A handler between its two writes holds what it wrote to the tenant.
HoldsRoot ==
    \A d \in Delivery :
        /\ run[d].pc = "marking" => mark[run[d].event] = "none" /\ run[d].version = run[d].event
        /\ run[d].pc = "sub" => run[d].version = root.version

SubIsRoot == sub # NULL /\ (\A d \in Delivery : run[d].pc # "sub") => sub = root.version

\* v is at least as new as every change that was marked.
Covers(v) == v \in {0} \cup Changes /\ \A e \in Changes : mark[e] # "none" => e <= v

\* The handler has a version that it is going to write, or is going to get one.
Carries(d) == run[d].pc \in {"root", "sub"} \/ (run[d].pc = "querying" /\ Of(d) # "paid")
Due(d) == Carries(d) \/ run[d].pc = "retrieving"

InOrder ==
    /\ \A e \in Event : mark[e] # "none" => 1..(e - 1) \subseteq acked
    /\ \A d \in Delivery : run[d].pc # "idle" => 1..(run[d].event - 1) \subseteq acked

IsCarried == \A d \in Delivery : Carries(d) => Covers(run[d].version)
IsCovered == sub # NULL /\ (\A d \in Delivery : ~Due(d)) => Covers(sub)

AgreeInv ==
    /\ AckedIsMarked
    /\ Alone => OneAtWork /\ HoldsRoot /\ SubIsRoot
    /\ Alone /\ disorder = {} => InOrder /\ IsCarried /\ IsCovered

\* A fault in a step ends what is said about a time without faults.
LEMMA FaultEnds == ASSUME TypeOK, Fault PROVE ~Alone'
  BY BoundAssumption DEF TypeOK, Fault, Alone

\* The changes are events of Stripe.
LEMMA ChangesAreMade ==
    ASSUME TypeOK PROVE Changes \subseteq Made /\ Changes \subseteq Event /\ Event \subseteq Nat
<1>1. Changes \subseteq Made /\ Event \subseteq Nat
  BY DEF Changes, Event
<1> QED
  BY <1>1, MadeIsEvents

\* One delivery makes a step, the others are idle: what is left to show is about this one.
LEMMA OneStepAgrees ==
    ASSUME AgreeInv, NEW d \in Delivery, run[d].pc # "idle", run'[d].pc # "marking",
           \A o \in Delivery : o # d => run'[o] = run[o],
           run'[d].pc = "idle" \/ run'[d].event = run[d].event,
           UNCHANGED <<events, disorder, faults>>, acked \subseteq acked', AckedIsMarked',
           Alone =>
              /\ run'[d].pc = "sub" => run'[d].version = root'.version
              /\ run'[d].pc # "sub" /\ sub' # NULL => sub' = root'.version,
           Alone /\ disorder = {} =>
              /\ \A e \in Event : mark'[e] # "none" => 1..(e - 1) \subseteq acked'
              /\ Carries(d)' => Covers(run[d].version)'
              /\ ~Due(d)' /\ sub' # NULL => Covers(sub)'
    PROVE  AgreeInv'
<1>1. Alone' = Alone
  BY DEF Alone
<1>2. ASSUME Alone
      PROVE  /\ \A o \in Delivery : o # d => run[o].pc = "idle" /\ run'[o].pc = "idle"
             /\ OneAtWork' /\ HoldsRoot' /\ SubIsRoot'
  <2>1. \A o \in Delivery : o # d => run[o].pc = "idle" /\ run'[o].pc = "idle"
    BY <1>2 DEF AgreeInv, OneAtWork
  <2> QED
    BY <1>2, <2>1 DEF OneAtWork, HoldsRoot, SubIsRoot
<1>3. ASSUME Alone, disorder = {} PROVE InOrder' /\ IsCarried' /\ IsCovered'
  <2>1. \A o \in Delivery : o # d => ~Carries(o)'
    BY <1>2, <1>3 DEF Carries
  <2>2. InOrder'
    BY <1>2, <1>3 DEF AgreeInv, InOrder
  <2>3. IsCarried'
    BY <1>3, <2>1 DEF IsCarried
  <2>4. IsCovered'
    BY <1>3 DEF IsCovered
  <2> QED
    BY <2>2, <2>3, <2>4
<1> QED
  BY <1>1, <1>2, <1>3 DEF AgreeInv

\* A new event is not marked, so that nothing falls behind.
LEMMA EmitAgrees == ASSUME IInv, IInv', AgreeInv, Emit PROVE AgreeInv'
<1>1. TypeOK /\ TypeOK' /\ MarkedIsMade
  BY DEF IInv
<1>2. UNCHANGED <<acked, mark, run, root, sub, disorder, faults>>
  BY DEF Emit, copies, history
<1>3. PICK k \in Kind : events' = Append(events, k)
  BY DEF Emit
<1>4. Made \subseteq Made' /\ \A e \in Made : events'[e] = events[e]
  <2>1. events \in Seq(Kind) /\ Len(events) \in Nat /\ Made = 1..Len(events)
    BY <1>1, MadeIsEvents DEF TypeOK
  <2> QED
    BY <1>3, <2>1 DEF Made
<1>5. Changes \subseteq Changes' /\ \A e \in Changes' : mark[e] # "none" => e \in Changes
  <2>1. Changes' \subseteq Event
    BY <1>1, BoundAssumption DEF Changes, Made, Event, TypeOK
  <2> QED
    BY <1>1, <1>2, <1>4, <2>1 DEF Changes, MarkedIsMade
<1>6. \A d \in Delivery : (Carries(d)' <=> Carries(d)) /\ (Due(d)' <=> Due(d))
  <2> SUFFICES ASSUME NEW d \in Delivery, run[d].pc # "idle" PROVE Of(d)' = Of(d)
    BY <1>2 DEF Carries, Due
  <2> QED
    BY <1>1, <1>2, <1>4, AtWork DEF Of
<1>7. AckedIsMarked' /\ (Alone' => OneAtWork' /\ HoldsRoot' /\ SubIsRoot')
  BY <1>2 DEF AgreeInv, AckedIsMarked, Alone, OneAtWork, HoldsRoot, SubIsRoot
<1>8. ASSUME Alone', disorder' = {} PROVE InOrder' /\ IsCarried' /\ IsCovered'
  <2>1. InOrder /\ IsCarried /\ IsCovered
    BY <1>2, <1>8 DEF AgreeInv, Alone
  <2>2. InOrder'
    BY <1>2, <2>1 DEF InOrder
  <2>3. IsCarried'
    BY <1>2, <1>5, <1>6, <2>1 DEF IsCarried, Covers
  <2>4. IsCovered'
    BY <1>2, <1>5, <1>6, <2>1 DEF IsCovered, Covers
  <2> QED
    BY <2>2, <2>3, <2>4
<1> QED
  BY <1>7, <1>8 DEF AgreeInv

\* A delivery of a marked event only acknowledges it.
LEMMA DuplicateAgrees == ASSUME IInv, AgreeInv, NEW e \in Event, Duplicate(e) PROVE AgreeInv'
<1>1. /\ TypeOK /\ mark[e] # "none"
      /\ UNCHANGED <<events, mark, run, root, sub, disorder>>
  BY DEF IInv, Duplicate, copies, history
<1>2. \/ acked' = acked \cup {e} /\ faults' = faults
      \/ acked' = acked /\ ~Alone'
  BY <1>1, FaultEnds DEF Duplicate, Answered
<1>3. AckedIsMarked' /\ (Alone' => Alone)
  BY <1>1, <1>2 DEF AgreeInv, AckedIsMarked, Alone
<1>4. \A d \in Delivery : (Carries(d)' <=> Carries(d)) /\ (Due(d)' <=> Due(d))
  BY <1>1 DEF Carries, Due, Of
<1>5. Changes' = Changes
  BY <1>1 DEF Changes, Made
<1>6. Alone' => OneAtWork' /\ HoldsRoot' /\ SubIsRoot'
  BY <1>1, <1>3 DEF AgreeInv, OneAtWork, HoldsRoot, SubIsRoot
<1>7. ASSUME Alone', disorder' = {} PROVE InOrder' /\ IsCarried' /\ IsCovered'
  <2>1. InOrder /\ IsCarried /\ IsCovered
    BY <1>1, <1>3, <1>7 DEF AgreeInv
  <2>2. InOrder'
    BY <1>1, <1>2, <2>1 DEF InOrder
  <2>3. IsCarried' /\ IsCovered'
    BY <1>1, <1>4, <1>5, <2>1 DEF IsCarried, IsCovered, Covers
  <2> QED
    BY <2>2, <2>3
<1> QED
  BY <1>3, <1>6, <1>7 DEF AgreeInv

\* A delivery that comes while nobody is at work, and in order, comes after all it follows.
LEMMA CheckAgrees ==
    ASSUME IInv, AgreeInv, NEW d \in Delivery, NEW e \in Event, Check(d, e)
    PROVE  AgreeInv'
<1>1. /\ TypeOK /\ run[d].pc = "idle" /\ mark[e] = "none"
      /\ UNCHANGED <<events, acked, mark, root, sub, faults>>
  BY DEF IInv, Check, stripe, copies
<1>2. /\ run'[d] = [pc |-> "marking", event |-> e, version |-> e]
      /\ \A o \in Delivery : o # d => run'[o] = run[o]
  BY <1>1 DEF Check, TypeOK
<1>3. /\ disorder \subseteq disorder'
      /\ "beside" \notin disorder' => Idle = Delivery
      /\ disorder' = {} => 1..(e - 1) \subseteq acked
  BY DEF Check
<1>4. AckedIsMarked' /\ (Alone' => Alone /\ Idle = Delivery)
  BY <1>1, <1>3 DEF AgreeInv, AckedIsMarked, Alone
<1>5. ASSUME Alone'
      PROVE  /\ \A o \in Delivery : run[o].pc = "idle" /\ (o # d => run'[o].pc = "idle")
             /\ OneAtWork' /\ HoldsRoot' /\ SubIsRoot'
  <2>1. \A o \in Delivery : run[o].pc = "idle" /\ (o # d => run'[o].pc = "idle")
    BY <1>2, <1>4, <1>5 DEF Idle
  <2>2. SubIsRoot
    BY <1>4, <1>5 DEF AgreeInv
  <2> QED
    BY <1>1, <1>2, <2>1, <2>2 DEF OneAtWork, HoldsRoot, SubIsRoot
<1>6. ASSUME Alone', disorder' = {} PROVE InOrder' /\ IsCarried' /\ IsCovered'
  <2>1. InOrder /\ IsCarried /\ IsCovered
    BY <1>3, <1>4, <1>6 DEF AgreeInv
  <2>2. InOrder'
    BY <1>1, <1>2, <1>3, <1>6, <2>1 DEF InOrder
  <2>3. IsCarried'
    BY <1>2, <1>5, <1>6 DEF IsCarried, Carries
  <2>4. \A o \in Delivery : ~Due(o)
    BY <1>5, <1>6 DEF Due, Carries
  <2>5. Changes' = Changes
    BY <1>1 DEF Changes, Made
  <2>6. IsCovered'
    BY <1>1, <2>1, <2>4, <2>5 DEF IsCovered, Covers
  <2> QED
    BY <2>2, <2>3, <2>6
<1> QED
  BY <1>4, <1>5, <1>6 DEF AgreeInv

\* The event that is marked is newer than all marked before, since Stripe was told of those
\* before it; if it is a change, its handler now carries it.
LEMMA MarkAgrees == ASSUME IInv, AgreeInv, NEW d \in Delivery, Mark(d) PROVE AgreeInv'
<1> DEFINE e == run[d].event
<1>1. /\ TypeOK /\ run[d].pc = "marking" /\ e \in Event
      /\ mark' = [mark EXCEPT ![e] = "processing"]
      /\ UNCHANGED <<events, acked, root, sub, disorder, faults>>
      /\ Of(d) \in Kind
  BY AtWork DEF IInv, Mark, stripe, copies
<1>2. First(Of(d)) \in {"retrieving", "closing", "root", "querying"}
  BY DEF First
<1>3. /\ run'[d].pc = First(Of(d)) /\ run'[d].event = e /\ run'[d].version = run[d].version
      /\ \A o \in Delivery : o # d => run'[o] = run[o]
  <2>1. run \in [Delivery -> RunRecord] /\ run' = [run EXCEPT ![d].pc = First(Of(d))]
    BY <1>1 DEF TypeOK, Mark, Goto
  <2> QED
    BY <2>1 DEF RunRecord
<1>4. mark'[e] = "processing" /\ \A o \in Event : o # e => mark'[o] = mark[o]
  BY <1>1 DEF TypeOK
<1>5. AckedIsMarked'
  BY <1>1, <1>4 DEF AgreeInv, AckedIsMarked, TypeOK
<1>6. ASSUME Alone PROVE sub # NULL => sub = root.version
  BY <1>1, <1>6 DEF AgreeInv, OneAtWork, SubIsRoot
<1>7. ASSUME Alone, disorder = {}
      PROVE  /\ \A o \in Event : mark'[o] # "none" => 1..(o - 1) \subseteq acked
             /\ Carries(d)' => Covers(run[d].version)'
             /\ ~Due(d)' /\ sub' # NULL => Covers(sub)'
  <2>1. InOrder /\ IsCovered /\ OneAtWork /\ HoldsRoot /\ AckedIsMarked
    BY <1>7 DEF AgreeInv
  <2>2. \A o \in Event : mark'[o] # "none" => 1..(o - 1) \subseteq acked
    BY <1>1, <1>4, <2>1 DEF InOrder
  <2>3. e \notin acked /\ run[d].version = e
    BY <1>1, <2>1 DEF HoldsRoot, AckedIsMarked
  <2>4. \A o \in Event : mark'[o] # "none" => o <= e
    BY <1>1, <2>2, <2>3 DEF Event
  <2>5. Changes' = Changes /\ Changes \subseteq Event /\ Of(d)' = Of(d)
    BY <1>1, <1>3, ChangesAreMade DEF Changes, Made, Of
  <2>6. e \in Changes <=> Of(d) \in {"updated", "deleted"}
    BY <1>1, AtWork DEF Changes, Of
  <2>7. Carries(d)' => Covers(run[d].version)'
    <3>1. Carries(d)' => Of(d) \in {"updated", "deleted"}
      BY <1>1, <1>3, <2>5 DEF Carries, First, Kind
    <3> QED
      BY <1>3, <2>3, <2>4, <2>5, <2>6, <3>1 DEF Covers
  <2>8. ~Due(d)' => Of(d) \in {"checkout", "paid"}
    BY <1>1, <1>3, <2>5 DEF Due, Carries, First, Kind
  <2>9. \A o \in Delivery : ~Due(o)
    BY <1>1, <2>1 DEF OneAtWork, Due, Carries
  <2>10. ~Due(d)' /\ sub' # NULL => Covers(sub)'
    <3>1. sub # NULL => Covers(sub)
      BY <2>1, <2>9 DEF IsCovered
    <3>2. ~Due(d)' => e \notin Changes
      BY <2>6, <2>8
    <3> QED
      BY <1>1, <1>4, <2>5, <3>1, <3>2 DEF Covers
  <2> QED
    BY <2>2, <2>7, <2>10
<1> QED
  BY <1>1, <1>2, <1>3, <1>5, <1>6, <1>7, OneStepAgrees

\* The last mark of a request leaves the copies alone.
LEMMA EndAgrees ==
    ASSUME IInv, AgreeInv, NEW d \in Delivery, Close(d) \/ Fail(d) \/ Unanswered(d)
    PROVE  AgreeInv'
<1>1. /\ TypeOK /\ run[d].pc \in {"closing", "failing", "marking"} /\ Done(d)
      /\ UNCHANGED <<events, root, sub, disorder>>
  BY DEF IInv, Close, Fail, Unanswered, stripe, copies, history
<1>2. /\ run[d].event \in Event
      /\ run[d].pc # "marking" => mark[run[d].event] # "none"
  BY <1>1, AtWork DEF IInv, Path, PathOf
<1>3. /\ run'[d].pc = "idle" /\ \A o \in Delivery : o # d => run'[o] = run[o]
      /\ ~Due(d)' /\ ~Carries(d)'
  BY <1>1, DoneStep DEF Due, Carries
<1>4. \A e \in Event : mark'[e] = "none" <=> mark[e] = "none"
  BY <1>1, <1>2 DEF Close, Fail, Unanswered, TypeOK
<1>5. \/ faults' = faults /\ (acked' = acked \/ (Close(d) /\ acked' = acked \cup {run[d].event}))
      \/ acked' = acked /\ ~Alone'
  <2>1. CASE Close(d)
    BY <1>1, <2>1, FaultEnds DEF Close, Answered
  <2>2. CASE Fail(d)
    BY <2>2 DEF Fail, stripe
  <2>3. CASE Unanswered(d)
    BY <1>1, <2>3, FaultEnds DEF Unanswered, stripe
  <2> QED
    BY <2>1, <2>2, <2>3
<1>6. AckedIsMarked'
  BY <1>1, <1>2, <1>4, <1>5 DEF AgreeInv, AckedIsMarked, TypeOK, Close
<1>7. CASE ~Alone'
  BY <1>6, <1>7 DEF AgreeInv
<1>8. CASE Alone'
  <2>1. faults' = faults /\ acked \subseteq acked' /\ Alone
    BY <1>1, <1>5, <1>8 DEF Alone
  <2>2. \A o \in Delivery : ~Due(o) /\ run[o].pc # "sub"
    BY <1>1, <2>1 DEF AgreeInv, OneAtWork, Due, Carries
  <2>3. sub' # NULL => sub' = root'.version
    BY <1>1, <2>1, <2>2 DEF AgreeInv, SubIsRoot
  <2>4. ASSUME disorder = {}
        PROVE  /\ \A e \in Event : mark'[e] # "none" => 1..(e - 1) \subseteq acked'
               /\ sub' # NULL => Covers(sub)'
    <3>1. InOrder /\ (sub # NULL => Covers(sub))
      BY <2>1, <2>2, <2>4 DEF AgreeInv, IsCovered
    <3>2. Changes' = Changes /\ Changes \subseteq Event
      BY <1>1, ChangesAreMade DEF Changes, Made
    <3> QED
      BY <1>1, <1>4, <2>1, <3>1, <3>2 DEF InOrder, Covers
  <2> QED
    BY <1>1, <1>3, <1>6, <2>1, <2>3, <2>4, OneStepAgrees
<1> QED
  BY <1>7, <1>8

\* Inside a handler nothing is marked: it is left to show what the step does to the copies.
LEMMA HandlerAgrees ==
    ASSUME IInv, AgreeInv, NEW d \in Delivery, run[d].pc \notin {"idle", "marking"},
           run'[d].pc # "marking", run'[d].event = run[d].event,
           \A o \in Delivery : o # d => run'[o] = run[o],
           UNCHANGED <<events, acked, mark, disorder, faults>>,
           Alone =>
              /\ run'[d].pc = "sub" => run'[d].version = root'.version
              /\ run'[d].pc # "sub" /\ sub' # NULL => sub' = root'.version,
           Alone /\ disorder = {} =>
              /\ Carries(d)' => Covers(run[d].version)'
              /\ ~Due(d)' /\ sub' # NULL => Covers(sub)'
    PROVE  AgreeInv'
<1>1. AckedIsMarked'
  BY DEF AgreeInv, AckedIsMarked
<1>2. Alone /\ disorder = {} => \A e \in Event : mark'[e] # "none" => 1..(e - 1) \subseteq acked'
  BY DEF AgreeInv, InOrder
<1> QED
  BY <1>1, <1>2, OneStepAgrees

\* What a handler knows of itself while it is alone.
LEMMA HandlerKnows ==
    ASSUME IInv, AgreeInv, NEW d \in Delivery, run[d].pc # "idle", Alone
    PROVE  /\ run[d].pc = "sub" => run[d].version = root.version
           /\ run[d].pc # "sub" /\ sub # NULL => sub = root.version
           /\ disorder = {} =>
                 /\ Carries(d) => Covers(run[d].version)
                 /\ ~Due(d) /\ sub # NULL => Covers(sub)
<1>1. \A o \in Delivery : o # d => run[o].pc = "idle"
  BY DEF AgreeInv, OneAtWork
<1>2. \A o \in Delivery : o # d => ~Due(o) /\ run[o].pc # "sub"
  BY <1>1 DEF Due, Carries
<1> QED
  BY <1>2 DEF AgreeInv, HoldsRoot, SubIsRoot, IsCarried, IsCovered

\* Steps that write neither copy.
LEMMA QuietAgrees ==
    ASSUME IInv, AgreeInv, NEW d \in Delivery,
           HandlerFails(d) \/ Query(d) \/ Retrieve(d) \/ SubIsMissing(d) \/ WriteUser(d)
              \/ ResetUsage(d)
    PROVE  AgreeInv'
<1>1. /\ TypeOK /\ SubIsLinked /\ UNCHANGED <<events, acked, mark, root, sub, disorder>>
      /\ run[d].pc \notin {"idle", "marking"} /\ Changes' = Changes
  BY DEF IInv, HandlerFails, Query, Retrieve, SubIsMissing, WriteUser, ResetUsage,
         stripe, copies, history, Changes, Made
<1>2. run \in [Delivery -> RunRecord]
  BY <1>1 DEF TypeOK
<1>3. \A o \in Delivery : o # d => run'[o] = run[o]
  BY <1>2 DEF HandlerFails, Query, Retrieve, SubIsMissing, WriteUser, ResetUsage, Goto
<1>4. run'[d].event = run[d].event /\ run'[d].pc # "marking" /\ Of(d)' = Of(d)
  BY <1>1, <1>2 DEF HandlerFails, Query, Retrieve, SubIsMissing, WriteUser, ResetUsage, Goto,
                    RunRecord, Of
<1>5. CASE Retrieve(d)
  <2>1. PICK v \in Version : /\ Current(v) /\ faults' = faults /\ run[d].pc = "retrieving"
                             /\ run' = [run EXCEPT ![d].pc = "root", ![d].version = v]
    BY <1>5 DEF Retrieve
  <2>2. run'[d].pc = "root" /\ run'[d].version = v
    BY <1>2, <2>1 DEF RunRecord
  <2>3. Alone => (sub # NULL => sub = root.version)
    BY <1>1, <2>1, HandlerKnows
  <2>4. Carries(d)' /\ Due(d)'
    BY <2>2 DEF Carries, Due
  <2>5. Alone /\ disorder = {} => Covers(run[d].version)'
    BY <1>1, <2>1, <2>2 DEF Covers, Current
  <2> QED
    BY <1>1, <1>3, <1>4, <2>1, <2>2, <2>3, <2>4, <2>5, HandlerAgrees
<1>6. CASE SubIsMissing(d)
  <2>1. sub = NULL /\ run'[d].pc = "failing" /\ faults' = faults
    BY <1>2, <1>6 DEF SubIsMissing, Goto, RunRecord
  <2>2. ~Carries(d)'
    BY <2>1 DEF Carries
  <2> QED
    BY <1>1, <1>3, <1>4, <2>1, <2>2, HandlerAgrees
<1>7. CASE Query(d)
  <2>1. /\ run[d].pc = "querying" /\ faults' = faults /\ run'[d].version = run[d].version
        /\ run'[d].pc = IF ~root.linked THEN "closing"
                        ELSE IF Of(d) = "paid" THEN "usage" ELSE "root"
    BY <1>2, <1>7 DEF Query, Goto, RunRecord
  <2>2. /\ Carries(d)' => Carries(d)
        /\ ~Due(d)' /\ sub # NULL => ~Due(d)
    BY <1>1, <1>4, <2>1 DEF Carries, Due, SubIsLinked
  <2>3. Alone => (sub # NULL => sub = root.version)
    BY <1>1, <2>1, HandlerKnows
  <2>4. Alone /\ disorder = {} => /\ Carries(d)' => Covers(run[d].version)'
                                  /\ ~Due(d)' /\ sub' # NULL => Covers(sub)'
    BY <1>1, <2>1, <2>2, HandlerKnows DEF Covers
  <2> QED
    BY <1>1, <1>3, <1>4, <2>1, <2>3, <2>4, HandlerAgrees
<1>8. CASE WriteUser(d) \/ ResetUsage(d)
  <2>1. /\ run[d].pc \in {"user", "usage"} /\ run'[d].pc = "closing"
        /\ faults' = faults \/ ~Alone'
    BY <1>1, <1>2, <1>8, FaultEnds DEF WriteUser, ResetUsage, Goto, RunRecord
  <2>2. ~Due(d) /\ ~Due(d)' /\ ~Carries(d)'
    BY <2>1 DEF Carries, Due
  <2>3. Alone => (sub # NULL => sub = root.version)
    BY <1>1, <2>1, HandlerKnows
  <2>4. Alone /\ disorder = {} => (sub' # NULL => Covers(sub)')
    BY <1>1, <2>1, <2>2, HandlerKnows DEF Covers
  <2>5. CASE faults' = faults
    BY <1>1, <1>3, <1>4, <2>1, <2>2, <2>3, <2>4, <2>5, HandlerAgrees
  <2>6. CASE ~Alone'
    BY <1>1, <2>6 DEF AgreeInv, AckedIsMarked
  <2> QED
    BY <2>1, <2>5, <2>6
<1>9. CASE HandlerFails(d)
  <2>1. ~Alone'
    BY <1>1, <1>9, FaultEnds DEF HandlerFails
  <2> QED
    BY <1>1, <2>1 DEF AgreeInv, AckedIsMarked
<1> QED
  BY <1>5, <1>6, <1>7, <1>8, <1>9

\* The two writes: the tenant gets ahead, and the subscription document catches up.
LEMMA WriteAgrees ==
    ASSUME IInv, AgreeInv, NEW d \in Delivery, WriteRoot(d) \/ WriteSub(d)
    PROVE  AgreeInv'
<1>1. /\ TypeOK /\ UNCHANGED <<events, acked, mark, disorder, faults>>
      /\ run[d].pc \in {"root", "sub"} /\ Changes' = Changes
  BY DEF IInv, WriteRoot, WriteSub, stripe, history, Changes, Made
<1>2. run \in [Delivery -> RunRecord] /\ root \in [linked : BOOLEAN, version : Version]
  BY <1>1 DEF TypeOK
<1>3. /\ \A o \in Delivery : o # d => run'[o] = run[o]
      /\ run'[d].event = run[d].event /\ run'[d].version = run[d].version
      /\ run'[d].pc # "marking"
  BY <1>2 DEF WriteRoot, WriteSub, Goto, RunRecord
<1>4. Carries(d)
  BY <1>1 DEF Carries
<1>5. Alone /\ disorder = {} => Covers(run[d].version)
  BY <1>1, <1>4, HandlerKnows
<1>6. CASE WriteRoot(d)
  <2>1. run'[d].pc = "sub" /\ root'.version = run[d].version
    BY <1>2, <1>6 DEF WriteRoot, Goto, RunRecord
  <2>2. Due(d)'
    BY <2>1 DEF Due, Carries
  <2>3. Alone /\ disorder = {} => Covers(run[d].version)'
    BY <1>1, <1>3, <1>5 DEF Covers
  <2> QED
    BY <1>1, <1>3, <2>1, <2>2, <2>3, HandlerAgrees
<1>7. CASE WriteSub(d)
  <2>1. /\ run[d].pc = "sub" /\ run'[d].pc \in {"user", "closing"}
        /\ root' = root /\ sub' = run[d].version
    BY <1>2, <1>7 DEF WriteSub, Goto, RunRecord
  <2>2. ~Carries(d)'
    BY <2>1 DEF Carries
  <2>3. Alone => sub' = root'.version
    BY <1>1, <2>1, HandlerKnows
  <2>4. Alone /\ disorder = {} => Covers(sub)'
    BY <1>1, <1>5, <2>1 DEF Covers
  <2> QED
    BY <1>1, <1>3, <2>1, <2>2, <2>3, <2>4, HandlerAgrees
<1> QED
  BY <1>6, <1>7

LEMMA AgreeInit == Init => AgreeInv
<1> SUFFICES ASSUME Init PROVE AgreeInv
  OBVIOUS
<1>1. \A d \in Delivery : run[d].pc = "idle"
  BY DEF Init, NoRun
<1>2. acked = {} /\ sub = NULL /\ \A e \in Event : mark[e] = "none"
  BY DEF Init
<1>3. AckedIsMarked /\ OneAtWork /\ HoldsRoot /\ SubIsRoot
  BY <1>1, <1>2 DEF AckedIsMarked, OneAtWork, HoldsRoot, SubIsRoot
<1>4. InOrder /\ IsCarried /\ IsCovered
  BY <1>1, <1>2 DEF InOrder, IsCarried, Carries, IsCovered
<1> QED
  BY <1>3, <1>4 DEF AgreeInv

LEMMA AgreeNext == IInv /\ IInv' /\ AgreeInv /\ [Next]_vars => AgreeInv'
<1> SUFFICES ASSUME IInv, IInv', AgreeInv, [Next]_vars PROVE AgreeInv'
  OBVIOUS
<1>1. CASE Emit
  BY <1>1, EmitAgrees
<1>2. CASE \E e \in Event : Duplicate(e)
  BY <1>2, DuplicateAgrees
<1>3. CASE \E d \in Delivery, e \in Event : Check(d, e)
  BY <1>3, CheckAgrees
<1>4. ASSUME NEW d \in Delivery, Works(d) PROVE AgreeInv'
  BY <1>4, MarkAgrees, EndAgrees, QuietAgrees, WriteAgrees DEF Works
<1>5. CASE Crash
  <2>1. ~Alone'
    BY <1>5, FaultEnds DEF Crash, IInv
  <2> QED
    BY <1>5, <2>1 DEF AgreeInv, AckedIsMarked, Crash, stripe
<1>6. CASE UNCHANGED vars
  <2>1. UNCHANGED <<events, acked, mark, run, root, sub, disorder, faults>>
    BY <1>6 DEF vars, stripe, copies, history
  <2>2. Changes' = Changes /\ \A d \in Delivery : Of(d)' = Of(d)
    BY <2>1 DEF Changes, Made, Of
  <2>3. AckedIsMarked' /\ OneAtWork' = OneAtWork /\ HoldsRoot' = HoldsRoot
        /\ SubIsRoot' = SubIsRoot /\ Alone' = Alone /\ InOrder' = InOrder
    BY <2>1 DEF AgreeInv, AckedIsMarked, OneAtWork, HoldsRoot, SubIsRoot, Alone, InOrder
  <2>4. IsCarried => IsCarried'
    BY <2>1, <2>2 DEF IsCarried, Carries, Covers
  <2>5. IsCovered => IsCovered'
    BY <2>1, <2>2 DEF IsCovered, Due, Carries, Covers
  <2> QED
    BY <2>1, <2>3, <2>4, <2>5 DEF AgreeInv
<1> QED
  BY <1>1, <1>2, <1>3, <1>4, <1>5, <1>6 DEF Next

\* The copies of the subscription agree as long as handlers run one at a time and no call
\* fails, and both hold what Stripe holds once all events were answered in order.
THEOREM CopiesAgreeCorrect == Spec => []CopiesAgree
<1>1. IInv /\ AgreeInv => CopiesAgree
  <2> SUFFICES ASSUME IInv, AgreeInv, faults = 0, "beside" \notin disorder,
                      Idle = Delivery, sub # NULL
               PROVE  /\ sub = root.version
                      /\ disorder = {} /\ acked = Made => Current(sub)
    BY DEF CopiesAgree
  <2>1. Alone /\ \A d \in Delivery : run[d].pc # "sub" /\ ~Due(d)
    BY DEF Alone, Idle, Due, Carries
  <2>2. sub = root.version
    BY <2>1 DEF AgreeInv, SubIsRoot
  <2>3. ASSUME disorder = {}, acked = Made PROVE Current(sub)
    <3>1. Covers(sub) /\ AckedIsMarked
      BY <2>1, <2>3 DEF AgreeInv, IsCovered
    <3> QED
      BY <2>3, <3>1 DEF Covers, Current, AckedIsMarked, Changes
  <2> QED
    BY <2>2, <2>3
<1> QED
  BY <1>1, Invariant, AgreeInit, AgreeNext, PTL DEF Spec

-----------------------------------------------------------------------------
(* Where a cancellation is applied *)

Handles(d, e, steps) == run[d].event = e /\ run[d].pc \in steps

\* A subscription does not end before its checkout.
EndIsLater ==
    \A e \in Made : events[e] = "deleted" => \E c \in 1..(e - 1) : events[c] = "checkout"

\* A checkout that is marked has linked the tenant, or its handler is about to.
CheckoutLinks ==
    faults = 0 =>
        \A e \in Made : events[e] = "checkout" /\ mark[e] # "none" =>
            root.linked \/ \E d \in Delivery : Handles(d, e, {"retrieving", "root"})

\* The end that is marked is written to the tenant, or its handler is about to.
EndIsWritten ==
    faults = 0 /\ disorder = {} =>
        \A e \in Made : events[e] = "deleted" /\ mark[e] # "none" =>
            <<e, "root">> \in wrote \/ \E d \in Delivery : Handles(d, e, {"querying", "root"})

LinkInv == EndIsLater /\ CheckoutLinks /\ EndIsWritten

\* One delivery makes a step: what is left to show is about its event, and about an event
\* that gets its mark.
LEMMA OneStepLinks ==
    ASSUME TypeOK, LinkInv, NEW d \in Delivery, events' = events,
           \A o \in Delivery : o # d => run'[o] = run[o],
           faults' = 0 => faults = 0, disorder' = {} => disorder = {},
           root.linked => root'.linked, wrote \subseteq wrote',
           \A e \in Made : mark'[e] # "none" =>
              \/ mark[e] # "none"
              \/ /\ events[e] = "checkout" => Handles(d, e, {"retrieving", "root"})'
                 /\ events[e] = "deleted" => Handles(d, e, {"querying", "root"})',
           NEW e \in Made, run[d].event = e \/ run[d].pc = "idle",
           faults' = 0 /\ events[e] = "checkout" /\ run[d].pc \in {"retrieving", "root"} =>
              root'.linked \/ Handles(d, e, {"retrieving", "root"})',
           faults' = 0 /\ disorder' = {} /\ events[e] = "deleted"
                 /\ run[d].pc \in {"querying", "root"} =>
              <<e, "root">> \in wrote' \/ Handles(d, e, {"querying", "root"})'
    PROVE  LinkInv'
<1>1. EndIsLater'
  BY DEF LinkInv, EndIsLater, Made
<1>2. CheckoutLinks'
  <2> SUFFICES ASSUME faults' = 0, NEW f \in Made, events[f] = "checkout", mark'[f] # "none",
                      ~root'.linked
               PROVE  \E o \in Delivery : Handles(o, f, {"retrieving", "root"})'
    BY DEF CheckoutLinks, Made
  <2>1. CASE mark[f] = "none"
    BY <2>1
  <2>2. CASE mark[f] # "none"
    <3>1. PICK o \in Delivery : Handles(o, f, {"retrieving", "root"})
      BY <2>2 DEF LinkInv, CheckoutLinks
    <3>2. CASE o = d
      BY <3>1, <3>2 DEF Handles
    <3>3. CASE o # d
      BY <3>1, <3>3 DEF Handles
    <3> QED
      BY <3>2, <3>3
  <2> QED
    BY <2>1, <2>2
<1>3. EndIsWritten'
  <2> SUFFICES ASSUME faults' = 0, disorder' = {}, NEW f \in Made, events[f] = "deleted",
                      mark'[f] # "none", <<f, "root">> \notin wrote'
               PROVE  \E o \in Delivery : Handles(o, f, {"querying", "root"})'
    BY DEF EndIsWritten, Made
  <2>1. CASE mark[f] = "none"
    BY <2>1
  <2>2. CASE mark[f] # "none"
    <3>1. PICK o \in Delivery : Handles(o, f, {"querying", "root"})
      BY <2>2 DEF LinkInv, EndIsWritten
    <3>2. CASE o = d
      BY <3>1, <3>2 DEF Handles
    <3>3. CASE o # d
      BY <3>1, <3>3 DEF Handles
    <3> QED
      BY <3>2, <3>3
  <2> QED
    BY <2>1, <2>2
<1> QED
  BY <1>1, <1>2, <1>3 DEF LinkInv

\* A faulty step leaves nothing to show but the order of Stripe's events.
LEMMA FaultLinks == ASSUME TypeOK, LinkInv, Fault, events' = events PROVE LinkInv'
<1>1. faults' # 0
  BY BoundAssumption DEF TypeOK, Fault
<1> QED
  BY <1>1 DEF LinkInv, EndIsLater, CheckoutLinks, EndIsWritten, Made

\* A handler that looks for the tenant while it is alone and events come in order finds it.
LEMMA TenantIsFound ==
    ASSUME IInv, AgreeInv, LinkInv, NEW d \in Delivery, run[d].pc = "querying",
           Of(d) = "deleted", faults = 0, disorder = {}
    PROVE  root.linked
<1> DEFINE e == run[d].event
<1>1. TypeOK /\ Path /\ Alone
  BY DEF IInv, Alone
<1>2. e \in Made /\ e \in Event /\ mark[e] # "none"
  BY <1>1, AtWork DEF Path, PathOf
<1>3. PICK c \in 1..(e - 1) : events[c] = "checkout"
  BY <1>2 DEF LinkInv, EndIsLater, Of
<1>4. c \in Made /\ c # e /\ mark[c] # "none"
  <2>1. c \in acked
    BY <1>1, <1>2, <1>3 DEF AgreeInv, InOrder
  <2>2. c \in Made /\ c # e
    BY <1>1, <1>2, <1>3, MadeIsEvents
  <2> QED
    BY <2>1, <2>2 DEF AgreeInv, AckedIsMarked
<1>5. \A o \in Delivery : run[o].pc # "idle" => o = d
  BY <1>1 DEF AgreeInv, OneAtWork
<1>6. \A o \in Delivery : ~Handles(o, c, {"retrieving", "root"})
  BY <1>4, <1>5 DEF Handles
<1> QED
  BY <1>3, <1>4, <1>6 DEF LinkInv, CheckoutLinks

LEMMA EmitLinks == ASSUME IInv, LinkInv, Emit PROVE LinkInv'
<1>1. TypeOK /\ MarkedIsMade /\ UNCHANGED <<mark, run, root, wrote, disorder, faults>>
  BY DEF IInv, Emit, copies, history
<1>2. PICK k \in Kind : /\ events' = Append(events, k) /\ Len(events) < MaxEvents
                        /\ k = "deleted" => \E e \in Made : events[e] = "checkout"
  BY DEF Emit
<1> DEFINE n == Len(events) + 1
<1>3. /\ Made = 1..Len(events) /\ Len(events) \in Nat /\ n \notin Made /\ n \in Event
      /\ events'[n] = k /\ Made' = Made \cup {n} /\ \A e \in Made : events'[e] = events[e]
  <2>1. events \in Seq(Kind) /\ Len(events) \in Nat /\ Made = 1..Len(events)
    BY <1>1, MadeIsEvents DEF TypeOK
  <2>2. Len(events') = n /\ DOMAIN events' = 1..n
    BY <1>2, <2>1
  <2> QED
    BY <1>2, <2>1, <2>2, BoundAssumption DEF Made, Event
<1>4. mark[n] = "none"
  BY <1>1, <1>3 DEF MarkedIsMade
<1>5. EndIsLater'
  <2> SUFFICES ASSUME NEW e \in Made', events'[e] = "deleted"
               PROVE  \E c \in 1..(e - 1) : events'[c] = "checkout"
    BY DEF EndIsLater
  <2>1. CASE e \in Made
    <3>1. PICK c \in 1..(e - 1) : events[c] = "checkout"
      BY <1>3, <2>1 DEF LinkInv, EndIsLater
    <3>2. c \in Made
      BY <1>3, <2>1
    <3> QED
      BY <1>3, <3>1, <3>2
  <2>2. CASE e = n
    <3>1. PICK c \in Made : events[c] = "checkout"
      BY <1>2, <1>3, <2>2
    <3> QED
      BY <1>3, <2>2, <3>1
  <2> QED
    BY <1>3, <2>1, <2>2
<1>6. CheckoutLinks' /\ EndIsWritten'
  BY <1>1, <1>3, <1>4 DEF LinkInv, CheckoutLinks, EndIsWritten, Handles
<1> QED
  BY <1>5, <1>6 DEF LinkInv

\* The first await of a handler is the one that leads to the tenant.
LEMMA MarkLinks ==
    ASSUME SessionNamesTenant, IInv, LinkInv, NEW d \in Delivery, Mark(d) PROVE LinkInv'
<1> DEFINE e == run[d].event
<1>1. /\ TypeOK /\ run[d].pc = "marking" /\ mark' = [mark EXCEPT ![e] = "processing"]
      /\ Goto(d, First(Of(d))) /\ UNCHANGED <<events, root, wrote, disorder, faults>>
      /\ Of(d) = events[e]
  BY DEF IInv, Mark, stripe, copies, Of
<1>2. e \in Made /\ e \in Event /\ First(Of(d)) \in Step \ {"idle"}
  BY <1>1, AtWork DEF First, Step
<1>3. run'[d].pc = First(Of(d)) /\ run'[d].event = e /\ \A o \in Delivery : o # d => run'[o] = run[o]
  BY <1>1, <1>2, GotoStep
<1>4. \A f \in Made : f # e => mark'[f] = mark[f]
  BY <1>1, MadeIsEvents DEF TypeOK
<1>5. /\ events[e] = "checkout" => Handles(d, e, {"retrieving", "root"})'
      /\ events[e] = "deleted" => Handles(d, e, {"querying", "root"})'
  BY <1>1, <1>3 DEF Handles, First
<1> QED
  BY <1>1, <1>2, <1>3, <1>4, <1>5, OneStepLinks

\* A delivery that answers has its document written already, or never had one to write.
LEMMA EndLinks ==
    ASSUME IInv, LinkInv, NEW d \in Delivery, Close(d) \/ Fail(d) \/ Unanswered(d)
    PROVE  LinkInv'
<1>1. /\ TypeOK /\ run[d].pc \in {"closing", "failing", "marking"} /\ Done(d)
      /\ UNCHANGED <<events, root, wrote, disorder>>
  BY DEF IInv, Close, Fail, Unanswered, stripe, copies, history
<1>2. /\ run[d].event \in Made /\ run[d].event \in Event
      /\ run[d].pc # "marking" => mark[run[d].event] # "none"
  BY <1>1, AtWork DEF IInv, Path, PathOf
<1>3. \A o \in Delivery : o # d => run'[o] = run[o]
  BY <1>1, DoneStep
<1>4. \A e \in Made : mark'[e] # "none" => mark[e] # "none"
  BY <1>1, <1>2, MadeIsEvents DEF Close, Fail, Unanswered, TypeOK
<1>5. faults' = faults \/ Fault
  BY DEF Close, Fail, Unanswered, Answered
<1> QED
  BY <1>1, <1>2, <1>3, <1>4, <1>5, OneStepLinks, FaultLinks

\* Inside a handler.
LEMMA HandlerLinks ==
    ASSUME IInv, AgreeInv, LinkInv, NEW d \in Delivery,
           HandlerFails(d) \/ Query(d) \/ Retrieve(d) \/ SubIsMissing(d)
              \/ WriteRoot(d) \/ WriteSub(d) \/ WriteUser(d) \/ ResetUsage(d)
    PROVE  LinkInv'
<1> DEFINE e == run[d].event
<1>1. /\ TypeOK /\ UNCHANGED <<events, mark, disorder>> /\ run[d].pc \notin {"idle", "marking"}
      /\ faults' = faults \/ Fault
  BY DEF IInv, HandlerFails, Query, Retrieve, SubIsMissing, WriteRoot, WriteSub, WriteUser,
         ResetUsage, stripe, copies, history
<1>2. run \in [Delivery -> RunRecord] /\ root \in [linked : BOOLEAN, version : Version]
  BY <1>1 DEF TypeOK
<1>3. run'[d].event = e /\ \A o \in Delivery : o # d => run'[o] = run[o]
  BY <1>1, <1>2 DEF HandlerFails, Query, Retrieve, SubIsMissing, WriteRoot, WriteSub, WriteUser,
                    ResetUsage, Goto, RunRecord
<1>4. (root.linked => root'.linked) /\ wrote \subseteq wrote'
  BY <1>2 DEF HandlerFails, Query, Retrieve, SubIsMissing, WriteRoot, WriteSub, WriteUser,
              ResetUsage, copies
<1>5. e \in Made /\ Of(d) = events[e]
  BY <1>1, AtWork DEF Of
<1>6. CASE Fault
  BY <1>1, <1>6, FaultLinks
<1>7. CASE faults' = faults
  <2>1. events[e] = "checkout" /\ run[d].pc \in {"retrieving", "root"} /\ ~HandlerFails(d) =>
           root'.linked \/ Handles(d, e, {"retrieving", "root"})'
    <3>1. ASSUME Retrieve(d) PROVE run'[d].pc = "root"
      <4>1. PICK v \in Version : run' = [run EXCEPT ![d].pc = "root", ![d].version = v]
        BY <3>1 DEF Retrieve
      <4> QED
        BY <1>2, <4>1 DEF RunRecord
    <3>2. ASSUME WriteRoot(d), Of(d) = "checkout" PROVE root'.linked
      <4>1. root'.linked = (root.linked \/ Of(d) = "checkout")
        BY <3>2, Zenon DEF WriteRoot
      <4> QED
        BY <3>2, <4>1, Zenon
    <3> QED
      BY <1>3, <1>5, <3>1, <3>2 DEF Handles, Query, SubIsMissing, WriteSub, WriteUser, ResetUsage
  <2>2. faults = 0 /\ disorder = {} /\ events[e] = "deleted"
           /\ run[d].pc \in {"querying", "root"} /\ ~HandlerFails(d) =>
           <<e, "root">> \in wrote' \/ Handles(d, e, {"querying", "root"})'
    <3>1. ASSUME Query(d), events[e] = "deleted", faults = 0, disorder = {}
          PROVE  run'[d].pc = "root"
      <4>1. run[d].pc = "querying" /\ Of(d) = "deleted"
        BY <1>5, <3>1 DEF Query
      <4>2. root.linked
        BY <3>1, <4>1, TenantIsFound
      <4> QED
        BY <1>2, <3>1, <4>1, <4>2 DEF Query, Goto, RunRecord
    <3>2. WriteRoot(d) => <<e, "root">> \in wrote'
      BY DEF WriteRoot
    <3> QED
      BY <1>3, <3>1, <3>2 DEF Handles, Retrieve, SubIsMissing, WriteSub, WriteUser, ResetUsage
  <2>3. ~HandlerFails(d)
    BY <1>1, <1>7 DEF HandlerFails, Fault, TypeOK
  <2> QED
    BY <1>1, <1>3, <1>4, <1>5, <1>7, <2>1, <2>2, <2>3, OneStepLinks
<1> QED
  BY <1>1, <1>6, <1>7

LEMMA LinkInit == Init => LinkInv
  BY DEF Init, LinkInv, EndIsLater, CheckoutLinks, EndIsWritten, Made

LEMMA LinkNext ==
    ASSUME SessionNamesTenant PROVE IInv /\ AgreeInv /\ LinkInv /\ [Next]_vars => LinkInv'
<1> SUFFICES ASSUME IInv, AgreeInv, LinkInv, [Next]_vars PROVE LinkInv'
  OBVIOUS
<1>1. CASE Emit
  BY <1>1, EmitLinks
<1>2. CASE (\E e \in Event : Duplicate(e)) \/ UNCHANGED vars
  <2>1. /\ TypeOK /\ UNCHANGED <<events, mark, run, root, wrote, disorder>>
        /\ faults' = faults \/ Fault
    BY <1>2 DEF IInv, Duplicate, Answered, vars, stripe, copies, history
  <2>2. faults' = faults => LinkInv'
    BY <2>1 DEF LinkInv, EndIsLater, CheckoutLinks, EndIsWritten, Made, Handles
  <2> QED
    BY <2>1, <2>2, FaultLinks
<1>3. ASSUME NEW d \in Delivery, NEW e \in Event, Check(d, e) PROVE LinkInv'
  <2>1. /\ TypeOK /\ UNCHANGED <<events, mark, root, wrote, faults>>
        /\ e \in Made /\ run[d].pc = "idle" /\ (disorder' = {} => disorder = {})
        /\ \A o \in Delivery : o # d => run'[o] = run[o]
    BY <1>3 DEF IInv, Check, stripe, copies, TypeOK
  <2> QED
    BY <2>1, OneStepLinks
<1>4. ASSUME NEW d \in Delivery, Works(d) PROVE LinkInv'
  BY <1>4, MarkLinks, EndLinks, HandlerLinks DEF Works
<1>5. CASE Crash
  BY <1>5, FaultLinks DEF Crash, IInv, stripe
<1> QED
  BY <1>1, <1>2, <1>3, <1>4, <1>5 DEF Next

\* README: "Canceling a subscription in the Stripe Portal updates the user's access".  If the
\* checkout session carried the tenant's id the handler looks for, that would hold for any
\* events, deliveries and updates that come in order: the missing metadata is its only obstacle.
THEOREM CancelIsAppliedWithTenant == SessionNamesTenant => (Spec => []CancelIsApplied)
<1> SUFFICES ASSUME SessionNamesTenant PROVE Spec => []CancelIsApplied
  OBVIOUS
<1>1. IInv /\ AgreeInv /\ LinkInv => CancelIsApplied
  <2> SUFFICES ASSUME IInv, AgreeInv, LinkInv, faults = 0, disorder = {}, Idle = Delivery,
                      NEW e \in acked, events[e] = "deleted"
               PROVE  <<e, "root">> \in wrote
    BY DEF CancelIsApplied
  <2>1. mark[e] # "none" /\ e \in Made
    BY DEF AgreeInv, AckedIsMarked, IInv, MarkedIsMade, TypeOK
  <2>2. \A d \in Delivery : ~Handles(d, e, {"querying", "root"})
    BY DEF Idle, Handles
  <2> QED
    BY <2>1, <2>2 DEF LinkInv, EndIsWritten
<1>2. IInv /\ AgreeInv /\ LinkInv /\ [Next]_vars => LinkInv'
  BY LinkNext
<1> QED
  BY <1>1, <1>2, LinkInit, Invariant, AgreeInit, AgreeNext, PTL DEF Spec
================================================================================

------------------------------- MODULE Campaign -------------------------------
(***************************************************************************)
(* A bulk campaign: CampaignService starts, pauses, resumes and deletes    *)
(* it, queueService keeps its one job, CampaignWorker runs the job in      *)
(* segments and saves how far it is.                                       *)
(*                                                                         *)
(* The documents are in Firestore and the job in BullMQ; both are external *)
(* and can refuse a call.  sent and failed are one number, `count`: the    *)
(* worker only ever looks at their sum.                                    *)
(***************************************************************************)
EXTENDS Naturals

CONSTANTS
    Worker,        \* handlers that can run at once (the queue's concurrency is 2)
    User,          \* calls of startCampaign and resumeCampaign in progress
    NULL,          \* no handler
    Total,         \* contacts of the audience
    Segment,       \* batchSize, or 50
    CheckEvery,    \* contacts between two looks at the document (5)
    MaxAttempts,   \* attempts of a job (3)
    MaxStalls,     \* BullMQ: how often a stalled job is run again (1)
    MaxFaults      \* bound: refused calls, crashes and lost locks

ASSUME NullAssumption == NULL \notin Worker
ASSUME SizeAssumption ==
    {Total, Segment, CheckEvery, MaxAttempts} \subseteq Nat \ {0} /\ {MaxStalls, MaxFaults} \subseteq Nat

VARIABLES
    doc,        \* the campaign's document
    job,        \* the job camp_<id>
    run,        \* the handlers: processCampaign
    user,       \* the calls of CampaignService
    handled,    \* history: contacts that were messaged or counted as failed
    late,       \* history: messages each handler sent while the document said paused
    miscounted, \* history: progress could not be saved, and that counted as a failure
    lost,       \* history: a handler lost the lock of its job and went on
    faults

vars == <<doc, job, run, user, handled, late, miscounted, lost, faults>>
history == <<handled, miscounted>>

Contact == 0..(Total - 1)

\* Merges create a deleted document anew, without its other fields: "part".
Document ==
    [kind : {"none", "whole", "part"},
     status : {"unset", "draft", "pending", "sending", "paused", "completed"},
     count : Nat]
NoDocument == [kind |-> "none", status |-> "unset", count |-> 0]

JobRecord ==
    [st : {"none", "waiting", "active", "failed"},
     holder : Worker \cup {NULL},
     tries : Nat,
     stalls : Nat]
NoJob == [st |-> "none", holder |-> NULL, tries |-> 0, stalls |-> 0]

\* The await a handler is suspended in.
Step == {"idle", "reading", "deciding", "pausing", "marking", "checking", "sending", "saving",
         "cooling", "parting", "requeueing", "finalizing", "reporting"}
RunRecord == [pc : Step, i : Nat, end : Nat, count : Nat]
NoRun == [pc |-> "idle", i |-> 0, end |-> 0, count |-> 0]

TypeOK ==
    /\ doc \in Document
    /\ job \in JobRecord
    /\ job.tries <= MaxAttempts
    /\ job.stalls <= MaxStalls
    /\ run \in [Worker -> RunRecord]
    /\ \A w \in Worker : run[w].end <= Total
    /\ user \in [User -> {"idle", "writing", "writingPart", "adding"}]
    /\ handled \subseteq Contact
    /\ late \in [Worker -> Nat]
    /\ miscounted \in BOOLEAN
    /\ lost \in BOOLEAN
    /\ faults \in 0..MaxFaults

Init ==
    /\ doc = [kind |-> "whole", status |-> "draft", count |-> 0]
    /\ job = NoJob
    /\ run = [w \in Worker |-> NoRun]
    /\ user = [u \in User |-> "idle"]
    /\ handled = {}
    /\ late = [w \in Worker |-> 0]
    /\ miscounted = FALSE
    /\ lost = FALSE
    /\ faults = 0

Fault == faults < MaxFaults /\ faults' = faults + 1

-----------------------------------------------------------------------------
(* Firestore: setDoc merges. *)

Merged == [doc EXCEPT !.kind = IF @ = "none" THEN "part" ELSE @]
WithStatus(s) == [Merged EXCEPT !.status = s]
WithCount(n) == [Merged EXCEPT !.count = n]

\* A handler is no longer late once the document says something else than paused.
Write(d) ==
    /\ doc' = d
    /\ late' = IF d.status = "paused" THEN late ELSE [w \in Worker |-> 0]

-----------------------------------------------------------------------------
(* CampaignService: calls from the dashboard. *)

StartReads(u) ==
    /\ user[u] = "idle"
    /\ doc.kind # "none"
    /\ doc.status \notin {"sending", "completed"}
    /\ user' = [user EXCEPT ![u] = IF doc.kind = "whole" THEN "writing" ELSE "writingPart"]
    /\ UNCHANGED <<doc, job, run, history, late, lost, faults>>

ResumeReads(u) ==
    /\ user[u] = "idle"
    /\ doc.status = "paused"
    /\ user' = [user EXCEPT ![u] = "writing"]
    /\ UNCHANGED <<doc, job, run, history, late, lost, faults>>

\* Without a schedule in the document startCampaign throws after this write.
UserWrites(u) ==
    /\ user[u] \in {"writing", "writingPart"}
    /\ Write(WithStatus("pending"))
    /\ user' = [user EXCEPT ![u] = IF @ = "writingPart" THEN "idle" ELSE "adding"]
    /\ UNCHANGED <<job, run, history, lost, faults>>

\* Mutant: a job without an id of its own is added whatever the queue holds.
AddJobMutant(u) ==
    /\ user[u] = "adding"
    /\ job' = [NoJob EXCEPT !.st = "waiting"]
    /\ user' = [user EXCEPT ![u] = "idle"]
    /\ UNCHANGED <<doc, run, history, late, lost, faults>>

\* queueService.addCampaignJob: BullMQ ignores an id it knows, whatever became of that job.
AddJob(u) ==
    /\ user[u] = "adding"
    /\ job' = IF job.st = "none" THEN [NoJob EXCEPT !.st = "waiting"] ELSE job
    /\ user' = [user EXCEPT ![u] = "idle"]
    /\ UNCHANGED <<doc, run, history, late, lost, faults>>

UserFails(u) ==
    /\ user[u] # "idle"
    /\ user' = [user EXCEPT ![u] = "idle"]
    /\ Fault
    /\ UNCHANGED <<doc, job, run, history, late, lost>>

Pause ==
    /\ doc.status # "paused"
    /\ Write(WithStatus("paused"))
    /\ UNCHANGED <<job, run, user, history, lost, faults>>

Delete ==
    /\ doc.kind # "none"
    /\ Write(NoDocument)
    /\ UNCHANGED <<job, run, user, history, lost, faults>>

-----------------------------------------------------------------------------
(* How a handler ends.  BullMQ listens only to the handler that holds the lock. *)

Completes(w) ==
    /\ run' = [run EXCEPT ![w] = NoRun]
    /\ job' = IF job.holder = w THEN NoJob ELSE job

Fails(w) ==
    /\ run' = [run EXCEPT ![w] = NoRun]
    /\ job' = IF job.holder # w THEN job
              ELSE [job EXCEPT !.st = IF job.tries + 1 < MaxAttempts THEN "waiting" ELSE "failed",
                               !.holder = NULL,
                               !.tries = @ + 1]

Goes(w, pc) == run' = [run EXCEPT ![w].pc = pc] /\ UNCHANGED job

-----------------------------------------------------------------------------
(* processCampaign, up to the loop. *)

Take(w) ==
    /\ job.st = "waiting"
    /\ run[w].pc = "idle"
    /\ job' = [job EXCEPT !.st = "active", !.holder = w]
    /\ run' = [run EXCEPT ![w] = [NoRun EXCEPT !.pc = "reading"]]
    /\ late' = [late EXCEPT ![w] = 0]
    /\ UNCHANGED <<doc, user, history, lost, faults>>

Reads(w) ==
    /\ run[w].pc = "reading"
    /\ \/ /\ doc.kind # "none"
          /\ doc.status \in {"completed", "paused"}
          /\ Completes(w)
       \/ /\ doc.kind = "none" \/ (doc.kind = "part" /\ doc.status \notin {"completed", "paused"})
          /\ Fails(w)                      \* no campaign, or no template in it
       \/ /\ doc.kind = "whole"
          /\ doc.status \notin {"completed", "paused"}
          /\ run' = [run EXCEPT ![w] = [NoRun EXCEPT !.pc = "deciding", !.count = doc.count]]
          /\ UNCHANGED job
    /\ UNCHANGED <<doc, user, history, late, lost, faults>>

\* Template, audience, total, working hours and channels, in this order.  Storing the total
\* brings a deleted document back.
Decides(w) ==
    /\ run[w].pc = "deciding"
    /\ \/ /\ \/ Fails(w)                  \* no template
             \/ /\ run' = [run EXCEPT ![w].pc = "finalizing", ![w].count = 0]
                /\ UNCHANGED job          \* the audience is gone
          /\ UNCHANGED <<doc, late>>
       \/ /\ Write(Merged) \/ UNCHANGED <<doc, late>>
          /\ \/ Goes(w, "pausing")        \* outside working hours
             \/ Fails(w)                  \* no active channel
             \/ Goes(w, IF run[w].count >= Total THEN "finalizing" ELSE "marking")
    /\ UNCHANGED <<user, history, lost, faults>>

PausesItself(w) ==
    /\ run[w].pc = "pausing"
    /\ Write(WithStatus("paused"))
    /\ Completes(w)
    /\ UNCHANGED <<user, history, lost, faults>>

\* Mutant: the last segment is not cut.
SegmentEndMutant(n) == n + Segment

SegmentEnd(n) == IF n + Segment < Total THEN n + Segment ELSE Total

\* Mutant: goes on after the contact that comes next.
MarksMutant(w) ==
    /\ run[w].pc = "marking"
    /\ Write(WithStatus("sending"))
    /\ run' = [run EXCEPT ![w].pc = "checking",
                          ![w].i = IF run[w].count = 0 THEN 0 ELSE run[w].count + 1,
                          ![w].end = SegmentEnd(run[w].count)]
    /\ UNCHANGED <<job, user, history, lost, faults>>

\* Marks the campaign as sending, whatever was stored since it was read.
Marks(w) ==
    /\ run[w].pc = "marking"
    /\ Write(WithStatus("sending"))
    /\ run' = [run EXCEPT ![w].pc = "checking",
                          ![w].i = run[w].count,
                          ![w].end = SegmentEnd(run[w].count)]
    /\ UNCHANGED <<job, user, history, lost, faults>>

-----------------------------------------------------------------------------
(* The loop over the contacts of a segment. *)

\* The next contact, with n counted so far; or the end of the segment.
Advanced(w, n) ==
    IF run[w].i + 1 < run[w].end
    THEN [run[w] EXCEPT !.pc = "checking", !.i = @ + 1, !.count = n]
    ELSE [NoRun EXCEPT !.pc = IF n < Total THEN "requeueing" ELSE "finalizing", !.count = n]
Advance(w, n) == run' = [run EXCEPT ![w] = Advanced(w, n)] /\ UNCHANGED job

\* Mutant: looks at the document before the first contact only.
ChecksMutant(w) ==
    /\ run[w].pc = "checking"
    /\ IF run[w].i = 0 /\ doc.status = "paused"
       THEN Completes(w)
       ELSE Goes(w, "sending")
    /\ UNCHANGED <<doc, user, history, late, lost, faults>>

Checks(w) ==
    /\ run[w].pc = "checking"
    /\ IF run[w].i % CheckEvery = 0 /\ doc.status = "paused"
       THEN Completes(w)
       ELSE Goes(w, "sending")
    /\ UNCHANGED <<doc, user, history, late, lost, faults>>

SavesAt(w) == run[w].i % CheckEvery = 0 \/ run[w].i = run[w].end - 1

Sends(w) ==
    /\ run[w].pc = "sending"
    /\ handled' = handled \cup {run[w].i}
    /\ late' = IF doc.status = "paused" THEN [late EXCEPT ![w] = @ + 1] ELSE late
    /\ IF SavesAt(w)
       THEN /\ run' = [run EXCEPT ![w].pc = "saving", ![w].count = @ + 1]
            /\ UNCHANGED job
       ELSE Advance(w, run[w].count + 1)
    /\ UNCHANGED <<doc, user, miscounted, lost, faults>>

\* The adapter is gone, or the outbound queue refuses the message.
SendFails(w) ==
    /\ run[w].pc = "sending"
    /\ handled' = handled \cup {run[w].i}
    /\ Advance(w, run[w].count + 1)
    /\ UNCHANGED <<doc, user, late, miscounted, lost, faults>>

Saves(w) ==
    /\ run[w].pc = "saving"
    /\ Write(WithCount(run[w].count))
    /\ Advance(w, run[w].count)
    /\ UNCHANGED <<user, history, lost, faults>>

\* The catch block counts the contact, who got the message, as failed too.
SaveFails(w) ==
    /\ run[w].pc = "saving"
    /\ Advance(w, run[w].count + 1)
    /\ miscounted' = TRUE
    /\ Fault
    /\ UNCHANGED <<doc, user, handled, late, lost>>

\* checkContentHash: too many identical messages.
ContentRepeats(w) ==
    /\ run[w].pc = "sending"
    /\ Goes(w, "cooling")
    /\ UNCHANGED <<doc, user, history, late, lost, faults>>

\* triggerCooldown swallows a failure of its write.  The cooldown it stores beside it is left
\* out: the campaign never looks at it.
CoolsDown(w) ==
    /\ run[w].pc = "cooling"
    /\ \/ Write(WithStatus("paused"))
       \/ UNCHANGED <<doc, late>>
    /\ Goes(w, "parting")
    /\ UNCHANGED <<user, history, lost, faults>>

Parts(w) ==
    /\ run[w].pc = "parting"
    /\ Write(WithCount(run[w].count))
    /\ Completes(w)
    /\ UNCHANGED <<user, history, lost, faults>>

\* The loop goes on: the return is inside its try block.
PartingFails(w) ==
    /\ run[w].pc = "parting"
    /\ handled' = handled \cup {run[w].i}
    /\ Advance(w, run[w].count + 1)
    /\ Fault
    /\ UNCHANGED <<doc, user, late, miscounted, lost>>

-----------------------------------------------------------------------------
(* processCampaign, after the loop. *)

\* A BullMQ Worker has no queue to add to, so this throws and the job is retried.
Requeues(w) ==
    /\ run[w].pc = "requeueing"
    /\ Fails(w)
    /\ UNCHANGED <<doc, user, history, late, lost, faults>>

Finalizes(w) ==
    /\ run[w].pc = "finalizing"
    /\ Write([WithStatus("completed") EXCEPT !.count = run[w].count])
    /\ Goes(w, "reporting")
    /\ UNCHANGED <<user, history, lost, faults>>

\* The webhook of the completion, which may throw.
Reports(w) ==
    /\ run[w].pc = "reporting"
    /\ Completes(w) \/ Fails(w)
    /\ UNCHANGED <<doc, user, history, late, lost, faults>>

\* A read or write outside the loop's try block rejects.
FirestoreFails(w) ==
    /\ \/ run[w].pc \in {"reading", "pausing", "marking", "finalizing"}
       \/ run[w].pc = "checking" /\ run[w].i % CheckEvery = 0
    /\ Fails(w)
    /\ Fault
    /\ UNCHANGED <<doc, user, history, late, lost>>

-----------------------------------------------------------------------------
(* What happens to the process. *)

Crash ==
    /\ \E w \in Worker : run[w].pc # "idle"
    /\ run' = [w \in Worker |-> NoRun]
    /\ user' = [u \in User |-> "idle"]
    /\ job' = [job EXCEPT !.holder = NULL]
    /\ Fault
    /\ UNCHANGED <<doc, history, late, lost>>

\* BullMQ finds an active job without a lock: its handler died, or renewed the lock too late.
Stall ==
    /\ job.st = "active"
    /\ job' = IF job.stalls < MaxStalls
              THEN [job EXCEPT !.st = "waiting", !.holder = NULL, !.stalls = @ + 1]
              ELSE [job EXCEPT !.st = "failed", !.holder = NULL]
    /\ IF job.holder = NULL THEN UNCHANGED <<lost, faults>> ELSE Fault /\ lost' = TRUE
    /\ UNCHANGED <<doc, run, user, history, late>>

-----------------------------------------------------------------------------
Handles(w) ==
    \/ Reads(w) \/ Decides(w) \/ PausesItself(w) \/ Marks(w)
    \/ Checks(w) \/ Sends(w) \/ SendFails(w) \/ Saves(w) \/ SaveFails(w)
    \/ ContentRepeats(w) \/ CoolsDown(w) \/ Parts(w) \/ PartingFails(w)
    \/ Requeues(w) \/ Finalizes(w) \/ Reports(w) \/ FirestoreFails(w)

Calls(u) ==
    StartReads(u) \/ ResumeReads(u) \/ UserWrites(u) \/ AddJob(u) \/ UserFails(u)

Next ==
    \/ \E u \in User : Calls(u)
    \/ Pause \/ Delete
    \/ \E w \in Worker : Take(w) \/ Handles(w)
    \/ Crash \/ Stall

Spec == Init /\ [][Next]_vars

-----------------------------------------------------------------------------
(* What holds. *)

\* The saved progress never runs ahead: who is below it was messaged, or failed and was counted,
\* through pauses, retries, stalls, crashes and cooldowns.  Only a failed save breaks this,
\* because the loop then counts a contact twice.
NoneSkipped == ~miscounted => \A t \in Contact : t < doc.count => t \in handled

\* Unless a lock is lost, one handler at most works on the campaign, and it is the one whose
\* result BullMQ takes: resuming while the paused handler still runs does not add a second.
OneRun == ~lost => \A w \in Worker : run[w].pc # "idle" => job.st = "active" /\ job.holder = w

\* A handler sends at most CheckEvery messages while the document says that it is paused.
PauseIsSeen == \A w \in Worker : late[w] <= CheckEvery

\* While the handler keeps its lock, the saved progress goes back only if the campaign is
\* deleted, or completed with nothing because its audience is gone: a retry, a resume or a
\* restart goes on from what was saved and never overwrites it with less.
ProgressGrows ==
    [][~lost /\ doc'.count < doc.count
       => doc'.kind = "none" \/ (doc'.status = "completed" /\ doc'.count = 0)]_vars

\* Nor does it message a contact whose turn was saved, unless a failed save was counted as a
\* failed contact: who gets a message twice is always one whose turn was not saved yet.
SavedIsDone ==
    [][\A w \in Worker : Sends(w) /\ ~lost /\ ~miscounted => run[w].i >= doc.count]_vars

-----------------------------------------------------------------------------
(* What the repository says and the code does not do: each is refuted. *)

\* The worker "is idempotent or handles processed items" (campaignService.ts:124).
NobodyTwice == [][\A w \in Worker : Sends(w) => run[w].i \notin handled]_vars

\* The pause between batches is "Active"
\* (docs/implementation_plan_for_something_evolutionary.md:27): a segment that ends with
\* contacts left does not end the campaign's job for good.
BatchesGoOn ==
    [][\A w \in Worker : Requeues(w) /\ job.holder = w => job'.st # "failed"]_vars

\* Resuming re-adds the job (campaignService.ts:122-126).
ResumeIsQueued == [][\A u \in User : AddJob(u) => job'.st # "failed"]_vars

\* "Pause a campaign execution" (campaignService.ts:137): a paused campaign is paused until
\* somebody starts or resumes it, or deletes it.
PauseHolds ==
    [][doc.status = "paused" /\ doc'.status # "paused"
       => doc'.kind = "none" \/ \E u \in User : UserWrites(u)]_vars
=============================================================================

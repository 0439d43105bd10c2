---------------------------- MODULE Campaign_proofs ----------------------------
(***************************************************************************)
(* Proofs that the safety properties of Campaign hold for every number of  *)
(* contacts, handlers, calls, attempts and faults, and for every length of *)
(* a segment and distance between two looks at the document.               *)
(***************************************************************************)
EXTENDS Campaign, Integers, TLAPS

-----------------------------------------------------------------------------
(* Types.  Inside the loop the next contact is one of the segment; what is  *)
(* held is active; a job that will run again has an attempt left.           *)

Loop == {"checking", "sending", "saving", "cooling", "parting"}

RunFine(r) ==
    /\ r \in RunRecord
    /\ r.end <= Total
    /\ r.pc \in Loop => r.i < r.end
    /\ r.pc = "marking" => r.count < Total

RunInv == run \in [Worker -> RunRecord] /\ \A w \in Worker : RunFine(run[w])

JobFine(j) ==
    /\ j \in JobRecord
    /\ j.tries <= MaxAttempts
    /\ j.stalls <= MaxStalls
    /\ j.holder # NULL => j.st = "active"
    /\ j.st \in {"waiting", "active"} => j.tries < MaxAttempts

DocInv == doc \in Document /\ late \in [Worker -> Nat]

RestInv ==
    /\ user \in [User -> {"idle", "writing", "writingPart", "adding"}]
    /\ handled \subseteq Contact
    /\ faults \in 0..MaxFaults

FlagInv == miscounted \in BOOLEAN /\ lost \in BOOLEAN

TypeInv == RunInv /\ JobFine(job) /\ DocInv /\ RestInv /\ FlagInv

\* The sizes, one by one.
LEMMA Sizes ==
    /\ Total \in Nat /\ Total > 0
    /\ Segment \in Nat /\ Segment > 0
    /\ CheckEvery \in Nat \ {0}
    /\ MaxAttempts \in Nat /\ MaxAttempts > 0
    /\ MaxStalls \in Nat
    /\ MaxFaults \in Nat
  BY SizeAssumption

\* A handler that does nothing, and no job, have their types.
LEMMA NothingFine == RunFine(NoRun) /\ JobFine(NoJob)
  BY Sizes DEF RunFine, NoRun, RunRecord, Step, Loop, JobFine, NoJob, JobRecord

\* The variables have their types at the start.
LEMMA TypeInit == Init => TypeInv
  <1> SUFFICES ASSUME Init PROVE TypeInv
    OBVIOUS
  <1>1. RunInv /\ JobFine(job)
    BY NothingFine DEF Init, RunInv, RunFine
  <1>2. DocInv /\ RestInv
    BY Sizes DEF Init, DocInv, Document, RestInv
  <1>3. FlagInv
    BY Zenon DEF Init, FlagInv
  <1> QED
    BY <1>1, <1>2, <1>3 DEF TypeInv

\* A merge yields a document.
LEMMA MergeType ==
    ASSUME doc \in Document
    PROVE  /\ \A s \in {"pending", "sending", "paused", "completed"} :
                 WithStatus(s) \in Document /\ WithStatus(s).status = s
           /\ \A n \in Nat : WithCount(n) \in Document /\ WithCount(n).count = n
           /\ \A n \in Nat : [WithStatus("completed") EXCEPT !.count = n] \in Document
           /\ Merged \in Document /\ NoDocument \in Document
  BY DEF Document, Merged, WithStatus, WithCount, NoDocument

\* Writing a document keeps it a document.
LEMMA WriteType ==
    ASSUME DocInv, NEW d \in Document, Write(d)
    PROVE  DocInv'
  BY DEF DocInv, Write

\* Replacing one handler's position by another good one.
LEMMA ReplaceRun ==
    ASSUME RunInv, NEW w \in Worker, NEW r, RunFine(r), run' = [run EXCEPT ![w] = r]
    PROVE  RunInv'
  BY DEF RunInv, RunFine

\* A handler that ends, well or not, leaves the job in order.
LEMMA EndType ==
    ASSUME RunInv, JobFine(job), NEW w \in Worker, Completes(w) \/ Fails(w)
    PROVE  RunInv' /\ JobFine(job)'
  <1>1. RunInv'
    BY NothingFine, ReplaceRun DEF Completes, Fails
  <1>2. CASE job' = job
    BY <1>1, <1>2 DEF JobFine
  <1>3. CASE job' = NoJob
    BY <1>1, <1>3, NothingFine DEF JobFine
  <1>4. CASE /\ job.holder = w
             /\ job' = [job EXCEPT
                          !.st = IF job.tries + 1 < MaxAttempts THEN "waiting" ELSE "failed",
                          !.holder = NULL,
                          !.tries = @ + 1]
    <2>1. job.tries < MaxAttempts
      BY <1>4, NullAssumption DEF JobFine
    <2>2. job.tries \in Nat /\ job.tries + 1 \in Nat /\ job.tries + 1 <= MaxAttempts
      BY <2>1, Sizes DEF JobFine, JobRecord
    <2>3. job' \in JobRecord
      BY <1>4, <2>2 DEF JobFine, JobRecord
    <2>4. /\ job'.tries = job.tries + 1 /\ job'.stalls = job.stalls /\ job'.holder = NULL
          /\ job'.st = IF job.tries + 1 < MaxAttempts THEN "waiting" ELSE "failed"
      BY <1>4 DEF JobFine, JobRecord
    <2> QED
      BY <1>1, <2>2, <2>3, <2>4 DEF JobFine
  <1> QED
    BY <1>1, <1>2, <1>3, <1>4 DEF Completes, Fails

\* Going on to another await, inside or outside the loop.
LEMMA GoType ==
    ASSUME RunInv, JobFine(job), NEW w \in Worker, NEW pc \in Step, Goes(w, pc),
           pc \in Loop => run[w].pc \in Loop,
           pc = "marking" => run[w].count < Total
    PROVE  RunInv' /\ JobFine(job)'
  <1> DEFINE r == [run[w] EXCEPT !.pc = pc]
  <1>1. run' = [run EXCEPT ![w] = r]
    BY DEF Goes, RunInv
  <1>2. RunFine(r)
    BY DEF RunInv, RunFine, RunRecord
  <1> HIDE DEF r
  <1> QED
    BY <1>1, <1>2, ReplaceRun DEF Goes, JobFine

\* Going on to the next contact, or leaving the loop.
LEMMA AdvanceType ==
    ASSUME RunInv, JobFine(job), NEW w \in Worker, run[w].pc \in Loop, NEW n \in Nat,
           Advance(w, n)
    PROVE  RunInv' /\ JobFine(job)'
  <1>0. /\ run[w] \in RunRecord
        /\ run[w].i \in Nat /\ run[w].end \in Nat /\ run[w].end <= Total
    BY DEF RunInv, RunFine, RunRecord
  <1>1. RunFine(Advanced(w, n))
    <2>1. CASE run[w].i + 1 < run[w].end
      <3> DEFINE r == [run[w] EXCEPT !.pc = "checking", !.i = @ + 1, !.count = n]
      <3>1. run[w].i + 1 \in Nat
        BY <1>0
      <3>2. r \in RunRecord
        BY <1>0, <3>1 DEF RunRecord, Step
      <3>3. r.pc = "checking" /\ r.i = run[w].i + 1 /\ r.end = run[w].end
        BY <1>0 DEF RunRecord
      <3>4. RunFine(r)
        BY <1>0, <2>1, <3>2, <3>3 DEF RunFine
      <3> QED
        BY <2>1, <3>4 DEF Advanced
    <2>2. CASE ~(run[w].i + 1 < run[w].end)
      <3> DEFINE pc == IF n < Total THEN "requeueing" ELSE "finalizing"
      <3>1. pc \in Step \ Loop /\ pc # "marking"
        BY DEF Step, Loop
      <3> DEFINE r == [NoRun EXCEPT !.pc = pc, !.count = n]
      <3>2. Advanced(w, n) = r
        BY <2>2 DEF Advanced
      <3> HIDE DEF pc
      <3>3. r \in RunRecord
        BY <3>1 DEF NoRun, RunRecord
      <3>4. r.pc = pc /\ r.end = 0
        BY DEF NoRun
      <3>5. RunFine(r)
        BY <3>1, <3>3, <3>4, Sizes DEF RunFine
      <3> QED
        BY <3>2, <3>5
    <2> QED
      BY <2>1, <2>2
  <1> QED
    BY <1>1, ReplaceRun DEF Advance, JobFine

\* Every step keeps the types.
LEMMA TypeNext == TypeInv /\ [Next]_vars => TypeInv'
  <1> SUFFICES ASSUME TypeInv, [Next]_vars PROVE TypeInv'
    OBVIOUS
  <1> USE DEF TypeInv
  <1>h. /\ \A w \in Worker : run[w].count \in Nat /\ run[w].pc \in Step
        /\ \A w \in Worker : run[w].pc \in Loop => run[w].i \in Contact
    BY Sizes DEF RunInv, RunFine, RunRecord, Contact
  <1>m. DocInv => doc \in Document
    BY DEF DocInv
  <1>1. CASE UNCHANGED vars
    BY <1>1 DEF vars, RunInv, JobFine, DocInv, RestInv, FlagInv
  <1>2. ASSUME NEW u \in User, Calls(u) PROVE TypeInv'
    <2>1. RestInv' /\ RunInv'
      BY <1>2, Sizes DEF Calls, StartReads, ResumeReads, UserWrites, AddJob, UserFails,
                         history, RestInv, RunInv, RunFine, Fault
    <2>4. FlagInv'
      BY <1>2 DEF Calls, StartReads, ResumeReads, UserWrites, AddJob, UserFails, history,
                  FlagInv
    <2>2. JobFine(job)'
      BY <1>2, NothingFine, Sizes
         DEF Calls, StartReads, ResumeReads, UserWrites, AddJob, UserFails, JobFine, NoJob,
             JobRecord
    <2>3. DocInv'
      <3>1. CASE UserWrites(u)
        BY <3>1, <1>m, MergeType, WriteType DEF UserWrites
      <3> QED
        BY <1>2, <3>1 DEF Calls, StartReads, ResumeReads, AddJob, UserFails, DocInv
    <2> QED
      BY <2>1, <2>2, <2>3, <2>4
  <1>3. CASE Pause \/ Delete
    <2>1. DocInv'
      BY <1>3, <1>m, MergeType, WriteType DEF Pause, Delete
    <2> QED
      BY <1>3, <2>1 DEF Pause, Delete, history, RestInv, FlagInv, RunInv, JobFine
  <1>4. ASSUME NEW w \in Worker, Take(w) PROVE TypeInv'
    <2>1. RunFine([NoRun EXCEPT !.pc = "reading"])
      BY Sizes DEF RunFine, NoRun, RunRecord, Step, Loop
    <2>2. RunInv'
      BY <1>4, <2>1, ReplaceRun DEF Take
    <2>3. JobFine(job)'
      BY <1>4 DEF Take, JobFine, JobRecord
    <2>4. DocInv' /\ RestInv' /\ FlagInv'
      BY <1>4 DEF Take, DocInv, RestInv, FlagInv, history
    <2> QED
      BY <2>2, <2>3, <2>4
  <1>5. ASSUME NEW w \in Worker, Reads(w) PROVE TypeInv'
    <2>1. RunInv' /\ JobFine(job)'
      <3>1. RunFine([NoRun EXCEPT !.pc = "deciding", !.count = doc.count])
        <4>1. doc.count \in Nat
          BY DEF DocInv, Document
        <4> DEFINE r == [NoRun EXCEPT !.pc = "deciding", !.count = doc.count]
        <4>2. r \in RunRecord
          BY <4>1 DEF NoRun, RunRecord, Step
        <4>3. r.pc = "deciding" /\ r.end = 0
          BY DEF NoRun
        <4> QED
          BY <4>2, <4>3, Sizes DEF RunFine, Loop
      <3>2. CASE /\ run' = [run EXCEPT ![w] = [NoRun EXCEPT !.pc = "deciding",
                                                            !.count = doc.count]]
                 /\ UNCHANGED job
        BY <3>1, <3>2, ReplaceRun DEF JobFine
      <3> QED
        BY <1>5, <3>2, EndType DEF Reads
    <2> QED
      BY <1>5, <2>1 DEF Reads, DocInv, RestInv, FlagInv, history
  <1>6. ASSUME NEW w \in Worker, Decides(w) PROVE TypeInv'
    <2>1. RunInv' /\ JobFine(job)'
      <3>1. RunFine([run[w] EXCEPT !.pc = "finalizing", !.count = 0])
        BY DEF RunInv, RunFine, RunRecord, Step, Loop
      <3>2. CASE /\ run' = [run EXCEPT ![w].pc = "finalizing", ![w].count = 0]
                 /\ UNCHANGED job
        <4>1. run' = [run EXCEPT ![w] = [run[w] EXCEPT !.pc = "finalizing", !.count = 0]]
          BY <3>2 DEF RunInv
        <4> QED
          BY <3>1, <3>2, <4>1, ReplaceRun DEF JobFine
      <3>3. CASE Goes(w, "pausing")
        BY <3>3, GoType DEF Step, Loop
      <3>4. CASE Goes(w, IF run[w].count >= Total THEN "finalizing" ELSE "marking")
        BY <1>h, <3>4, GoType, Sizes DEF Step, Loop
      <3> QED
        BY <1>6, <3>2, <3>3, <3>4, EndType DEF Decides
    <2>2. DocInv'
      <3>1. CASE Write(Merged)
        BY <3>1, <1>m, MergeType, WriteType
      <3>2. CASE UNCHANGED <<doc, late>>
        BY <3>2 DEF DocInv
      <3> QED
        BY <1>6, <3>1, <3>2 DEF Decides
    <2> QED
      BY <1>6, <2>1, <2>2 DEF Decides, RestInv, FlagInv, history
  <1>7. ASSUME NEW w \in Worker, PausesItself(w) PROVE TypeInv'
    <2>1. RunInv' /\ JobFine(job)'
      BY <1>7, EndType DEF PausesItself
    <2>2. DocInv'
      BY <1>7, <1>m, MergeType, WriteType DEF PausesItself
    <2> QED
      BY <1>7, <2>1, <2>2 DEF PausesItself, RestInv, FlagInv, history
  <1>8. ASSUME NEW w \in Worker, Marks(w) PROVE TypeInv'
    <2> DEFINE r == [run[w] EXCEPT !.pc = "checking", !.i = run[w].count,
                                   !.end = SegmentEnd(run[w].count)]
    <2>1. run' = [run EXCEPT ![w] = r]
      BY <1>8 DEF Marks, RunInv
    <2>2. RunFine(r)
      <3>1. run[w] \in RunRecord /\ run[w].count \in Nat /\ run[w].count < Total
        BY <1>8 DEF Marks, RunInv, RunFine, RunRecord
      <3>2. /\ SegmentEnd(run[w].count) \in Nat
            /\ SegmentEnd(run[w].count) <= Total
            /\ run[w].count < SegmentEnd(run[w].count)
        BY <3>1, Sizes DEF SegmentEnd
      <3>3. r \in RunRecord
        BY <3>1, <3>2 DEF RunRecord, Step
      <3>4. /\ r.pc = "checking" /\ r.i = run[w].count
            /\ r.end = SegmentEnd(run[w].count)
        BY <3>1 DEF RunRecord
      <3> QED
        BY <3>2, <3>3, <3>4 DEF RunFine
    <2>3. RunInv'
      BY <2>1, <2>2, ReplaceRun
    <2>4. DocInv'
      BY <1>8, <1>m, MergeType, WriteType DEF Marks
    <2> QED
      BY <1>8, <2>3, <2>4 DEF Marks, JobFine, RestInv, FlagInv, history
  <1>9. ASSUME NEW w \in Worker, Checks(w) PROVE TypeInv'
    <2>1. RunInv' /\ JobFine(job)'
      BY <1>9, GoType, EndType DEF Checks, Step, Loop
    <2> QED
      BY <1>9, <2>1 DEF Checks, DocInv, RestInv, FlagInv, history
  <1>10. ASSUME NEW w \in Worker, Sends(w) PROVE TypeInv'
    <2>1. CASE Advance(w, run[w].count + 1)
      <3>1. run[w].count + 1 \in Nat
        BY <1>h
      <3>2. RunInv' /\ JobFine(job)'
        BY <1>10, <2>1, <3>1, AdvanceType DEF Sends, Loop
      <3> QED
        BY <1>10, <1>h, <3>2 DEF Sends, DocInv, RestInv, FlagInv, Loop
    <2>2. CASE run' = [run EXCEPT ![w].pc = "saving", ![w].count = @ + 1] /\ UNCHANGED job
      <3> DEFINE r == [run[w] EXCEPT !.pc = "saving", !.count = @ + 1]
      <3>1. run' = [run EXCEPT ![w] = r]
        BY <2>2 DEF RunInv
      <3>2. RunFine(r)
        <4>1. /\ run[w] \in RunRecord /\ run[w].i \in Nat /\ run[w].end \in Nat
              /\ run[w].count + 1 \in Nat /\ run[w].end <= Total /\ run[w].i < run[w].end
          BY <1>10 DEF Sends, RunInv, RunFine, RunRecord, Loop
        <4>2. r \in RunRecord
          BY <4>1 DEF RunRecord, Step
        <4>3. r.pc = "saving" /\ r.i = run[w].i /\ r.end = run[w].end
          BY <4>1 DEF RunRecord
        <4> QED
          BY <4>1, <4>2, <4>3 DEF RunFine
      <3>3. RunInv' /\ JobFine(job)'
        BY <2>2, <3>1, <3>2, ReplaceRun DEF JobFine
      <3> QED
        BY <1>10, <1>h, <3>3 DEF Sends, DocInv, RestInv, FlagInv, Loop
    <2> QED
      BY <1>10, <2>1, <2>2 DEF Sends
  <1>11. ASSUME NEW w \in Worker, SendFails(w) \/ SaveFails(w) \/ PartingFails(w)
         PROVE  TypeInv'
    <2>1. run[w].count + 1 \in Nat
      BY <1>h
    <2>2. RunInv' /\ JobFine(job)'
      BY <1>11, <2>1, AdvanceType DEF SendFails, SaveFails, PartingFails, Loop
    <2>3. DocInv'
      BY <1>11 DEF SendFails, SaveFails, PartingFails, DocInv
    <2>5. faults' \in 0..MaxFaults
      BY <1>11, Sizes DEF SendFails, SaveFails, PartingFails, RestInv, Fault
    <2>6. handled' \subseteq Contact
      <3>1. CASE SendFails(w) \/ PartingFails(w)
        BY <1>h, <3>1 DEF SendFails, PartingFails, Loop, RestInv
      <3>2. CASE SaveFails(w)
        BY <3>2 DEF SaveFails, RestInv
      <3> QED
        BY <1>11, <3>1, <3>2
    <2>7. RestInv'
      BY <1>11, <2>5, <2>6 DEF SendFails, SaveFails, PartingFails, RestInv
    <2>4. FlagInv'
      BY <1>11 DEF SendFails, SaveFails, PartingFails, FlagInv
    <2> QED
      BY <2>2, <2>3, <2>4, <2>7
  <1>12. ASSUME NEW w \in Worker, Saves(w) PROVE TypeInv'
    <2>1. RunInv' /\ JobFine(job)'
      BY <1>12, <1>h, AdvanceType DEF Saves, Loop
    <2>2. DocInv'
      BY <1>12, <1>h, <1>m, MergeType, WriteType DEF Saves
    <2> QED
      BY <1>12, <2>1, <2>2 DEF Saves, RestInv, FlagInv, history
  <1>13. ASSUME NEW w \in Worker, ContentRepeats(w) \/ CoolsDown(w) PROVE TypeInv'
    <2>1. RunInv' /\ JobFine(job)'
      BY <1>13, GoType DEF ContentRepeats, CoolsDown, Step, Loop
    <2>2. DocInv'
      <3>1. CASE Write(WithStatus("paused"))
        BY <3>1, <1>m, MergeType, WriteType
      <3>2. CASE UNCHANGED <<doc, late>>
        BY <3>2 DEF DocInv
      <3> QED
        BY <1>13, <3>1, <3>2 DEF ContentRepeats, CoolsDown
    <2> QED
      BY <1>13, <2>1, <2>2 DEF ContentRepeats, CoolsDown, RestInv, FlagInv, history
  <1>14. ASSUME NEW w \in Worker, Parts(w) PROVE TypeInv'
    <2>1. RunInv' /\ JobFine(job)'
      BY <1>14, EndType DEF Parts
    <2>2. DocInv'
      BY <1>14, <1>h, <1>m, MergeType, WriteType DEF Parts
    <2> QED
      BY <1>14, <2>1, <2>2 DEF Parts, RestInv, FlagInv, history
  <1>15. ASSUME NEW w \in Worker, Finalizes(w) PROVE TypeInv'
    <2>1. RunInv' /\ JobFine(job)'
      BY <1>15, GoType DEF Finalizes, Step, Loop
    <2>2. DocInv'
      BY <1>15, <1>h, <1>m, MergeType, WriteType DEF Finalizes
    <2> QED
      BY <1>15, <2>1, <2>2 DEF Finalizes, RestInv, FlagInv, history
  <1>16. ASSUME NEW w \in Worker, Requeues(w) \/ Reports(w) \/ FirestoreFails(w)
         PROVE  TypeInv'
    <2>1. RunInv' /\ JobFine(job)'
      BY <1>16, EndType DEF Requeues, Reports, FirestoreFails
    <2>2. DocInv' /\ RestInv'
      BY <1>16, Sizes DEF Requeues, Reports, FirestoreFails, DocInv, RestInv, history, Fault
    <2>3. FlagInv'
      BY <1>16 DEF Requeues, Reports, FirestoreFails, FlagInv, history
    <2> QED
      BY <2>1, <2>2, <2>3
  <1>17. CASE Crash
    <2>1. RunInv'
      BY <1>17, NothingFine DEF Crash, RunInv, RunFine
    <2>2. JobFine(job)'
      BY <1>17 DEF Crash, JobFine, JobRecord
    <2>3. DocInv' /\ RestInv'
      BY <1>17, Sizes DEF Crash, DocInv, RestInv, history, Fault
    <2>4. FlagInv'
      BY <1>17 DEF Crash, FlagInv, history
    <2> QED
      BY <2>1, <2>2, <2>3, <2>4
  <1>18. CASE Stall
    <2>1. JobFine(job)'
      <3>1. job.tries < MaxAttempts
        BY <1>18 DEF Stall, JobFine
      <3>2. CASE job.stalls < MaxStalls
        <4>1. job.stalls + 1 \in Nat /\ job.stalls + 1 <= MaxStalls
          BY <3>2, Sizes DEF JobFine, JobRecord
        <4>2. job' \in JobRecord
          BY <1>18, <3>2, <4>1 DEF Stall, JobFine, JobRecord
        <4>3. /\ job'.tries = job.tries /\ job'.stalls = job.stalls + 1 /\ job'.holder = NULL
          BY <1>18, <3>2 DEF Stall, JobFine, JobRecord
        <4> QED
          BY <3>1, <4>1, <4>2, <4>3 DEF JobFine
      <3>3. CASE ~(job.stalls < MaxStalls)
        <4>1. job' \in JobRecord
          BY <1>18, <3>3 DEF Stall, JobFine, JobRecord
        <4>2. job'.tries = job.tries /\ job'.stalls = job.stalls /\ job'.holder = NULL
          BY <1>18, <3>3 DEF Stall, JobFine, JobRecord
        <4> QED
          BY <3>1, <4>1, <4>2 DEF JobFine
      <3> QED
        BY <3>2, <3>3
    <2>2. RunInv' /\ DocInv' /\ RestInv'
      BY <1>18, Sizes DEF Stall, RunInv, RunFine, DocInv, RestInv, history, Fault
    <2>3. FlagInv'
      BY <1>18 DEF Stall, FlagInv, history
    <2> QED
      BY <2>1, <2>2, <2>3
  <1> QED
    BY <1>1, <1>2, <1>3, <1>4, <1>5, <1>6, <1>7, <1>8, <1>9, <1>10, <1>11, <1>12, <1>13,
       <1>14, <1>15, <1>16, <1>17, <1>18 DEF Next, Handles

\* In every reachable state the variables have their types, segments end within the audience
\* and the attempts and stalls of the job stay within BullMQ's limits.
THEOREM TypeCorrect == Spec => []TypeOK
  <1>1. TypeInv => TypeOK
    BY DEF TypeInv, RunInv, RunFine, JobFine, DocInv, RestInv, FlagInv, TypeOK
  <1> QED
    BY <1>1, TypeInit, TypeNext, PTL DEF Spec

-----------------------------------------------------------------------------
(* One handler works on the campaign.  The invariant is inductive as it     *)
(* stands: a busy handler keeps the queue from giving the job to another,   *)
(* and it is the holder who ends.                                           *)

LEMMA OneNext == TypeInv /\ OneRun /\ [Next]_vars => OneRun'
  <1> SUFFICES ASSUME TypeInv, OneRun, [Next]_vars PROVE OneRun'
    OBVIOUS
  <1> USE DEF OneRun
  <1>r. run \in [Worker -> RunRecord] /\ job \in JobRecord
    BY DEF TypeInv, RunInv, JobFine
  \* Nothing that matters here changes.
  <1>k. ASSUME UNCHANGED <<run, job, lost>> PROVE OneRun'
    BY <1>k
  \* The handler ends.
  <1>e. ASSUME NEW w \in Worker, run[w].pc # "idle", Completes(w) \/ Fails(w), UNCHANGED lost
        PROVE  OneRun'
    <2>1. /\ run'[w].pc = "idle"
          /\ \A v \in Worker : v # w => run'[v] = run[v]
          /\ job.holder # w => job' = job
      BY <1>e, <1>r DEF Completes, Fails, NoRun
    <2> QED
      BY <1>e, <2>1
  \* The handler goes on.
  <1>g. ASSUME NEW w \in Worker, NEW r, run[w].pc # "idle", run' = [run EXCEPT ![w] = r],
               UNCHANGED <<job, lost>>
        PROVE  OneRun'
    <2>1. \A v \in Worker : v # w => run'[v] = run[v]
      BY <1>g, <1>r
    <2> QED
      BY <1>g, <2>1
  <1>1. CASE UNCHANGED vars
    BY <1>1, <1>k DEF vars
  <1>2. ASSUME NEW u \in User, Calls(u) PROVE OneRun'
    <2>1. CASE AddJob(u)
      BY <2>1 DEF AddJob
    <2> QED
      BY <1>2, <1>k, <2>1 DEF Calls, StartReads, ResumeReads, UserWrites, UserFails
  <1>3. CASE Pause \/ Delete
    BY <1>3, <1>k DEF Pause, Delete
  <1>4. ASSUME NEW w \in Worker, Take(w) PROVE OneRun'
    <2>1. job'.st = "active" /\ job'.holder = w
      BY <1>4, <1>r DEF Take, JobRecord
    <2>2. \A v \in Worker : v # w => run'[v] = run[v]
      BY <1>4, <1>r DEF Take
    <2>3. lost' = lost /\ job.st = "waiting"
      BY <1>4 DEF Take
    <2> QED
      BY <2>1, <2>2, <2>3
  <1>5. ASSUME NEW w \in Worker, Handles(w) PROVE OneRun'
    <2>1. run[w].pc # "idle" /\ lost' = lost
      BY <1>5 DEF Handles, Reads, Decides, PausesItself, Marks, Checks, Sends, SendFails, Saves,
                  SaveFails, ContentRepeats, CoolsDown, Parts, PartingFails, Requeues, Finalizes,
                  Reports, FirestoreFails
    <2>2. \/ Completes(w) \/ Fails(w)
          \/ UNCHANGED job /\ \E r : run' = [run EXCEPT ![w] = r]
      <3>1. ASSUME NEW pc, Goes(w, pc) PROVE UNCHANGED job /\ \E r : run' = [run EXCEPT ![w] = r]
        BY <3>1, Zenon DEF Goes
      <3>2. ASSUME NEW n, Advance(w, n)
            PROVE  UNCHANGED job /\ \E r : run' = [run EXCEPT ![w] = r]
        BY <3>2, Zenon DEF Advance
      <3>3. CASE Reads(w)
        BY <3>3, Zenon DEF Reads
      <3>4. CASE Decides(w)
        <4>1. CASE run' = [run EXCEPT ![w].pc = "finalizing", ![w].count = 0] /\ UNCHANGED job
          <5>1. run' = [run EXCEPT ![w] = [run[w] EXCEPT !.pc = "finalizing", !.count = 0]]
            BY <4>1, <1>r
          <5> QED
            BY <4>1, <5>1, Zenon
        <4> QED
          BY <3>1, <3>4, <4>1, Zenon DEF Decides
      <3>5. CASE PausesItself(w) \/ Parts(w) \/ Requeues(w) \/ Reports(w) \/ FirestoreFails(w)
        BY <3>5 DEF PausesItself, Parts, Requeues, Reports, FirestoreFails
      <3>6. CASE Marks(w)
        <4>1. run' = [run EXCEPT ![w] = [run[w] EXCEPT !.pc = "checking", !.i = run[w].count,
                                                       !.end = SegmentEnd(run[w].count)]]
          BY <3>6, <1>r DEF Marks
        <4> QED
          BY <3>6, <4>1, Zenon DEF Marks
      <3>7. CASE Checks(w)
        BY <3>1, <3>7, Zenon DEF Checks
      <3>8. CASE Sends(w)
        <4>1. CASE run' = [run EXCEPT ![w].pc = "saving", ![w].count = @ + 1] /\ UNCHANGED job
          <5>1. run' = [run EXCEPT ![w] = [run[w] EXCEPT !.pc = "saving", !.count = @ + 1]]
            BY <4>1, <1>r
          <5> QED
            BY <4>1, <5>1, Zenon
        <4> QED
          BY <3>2, <3>8, <4>1, Zenon DEF Sends
      <3>9. CASE SendFails(w) \/ Saves(w) \/ SaveFails(w) \/ PartingFails(w)
        BY <3>2, <3>9, Zenon DEF SendFails, Saves, SaveFails, PartingFails
      <3>10. CASE ContentRepeats(w) \/ CoolsDown(w) \/ Finalizes(w)
        BY <3>1, <3>10, Zenon DEF ContentRepeats, CoolsDown, Finalizes
      <3> QED
        BY <1>5, <3>3, <3>4, <3>5, <3>6, <3>7, <3>8, <3>9, <3>10, Zenon DEF Handles
    <2> QED
      BY <2>1, <2>2, <1>e, <1>g
  <1>6. CASE Crash
    BY <1>6 DEF Crash, NoRun
  <1>7. CASE Stall
    <2>1. CASE job.holder = NULL
      BY <1>7, <2>1, NullAssumption DEF Stall
    <2>2. CASE job.holder # NULL
      BY <1>7, <2>2 DEF Stall
    <2> QED
      BY <2>1, <2>2
  <1> QED
    BY <1>1, <1>2, <1>3, <1>4, <1>5, <1>6, <1>7 DEF Next

\* Unless a handler loses its lock, at most one works on the campaign, and it holds the job.
THEOREM OneRunCorrect == Spec => []OneRun
  <1>1. Init => OneRun
    BY DEF Init, OneRun, NoRun
  <1> QED
    BY <1>1, OneNext, TypeInit, TypeNext, PTL DEF Spec

-----------------------------------------------------------------------------
(* Nobody is skipped.  The count a handler carries is itself a number of    *)
(* contacts handled without a gap, and in the loop it is the position of    *)
(* the contact that is next, or just before it is saved the one after it.   *)

Prefix(n, h) == \A t \in Contact : t < n => t \in h

Counted(r, h) ==
    /\ Prefix(r.count, h)
    /\ r.pc \in {"checking", "sending", "cooling", "parting"} => r.count = r.i
    /\ r.pc = "saving" => r.count = r.i + 1

ProgressInv ==
    ~miscounted => Prefix(doc.count, handled) /\ \A w \in Worker : Counted(run[w], handled)

\* Nothing counted, nothing to show.
LEMMA NothingCounted == \A h : Prefix(0, h) /\ Counted(NoRun, h)
  <1>1. \A h : Prefix(0, h)
    BY Sizes DEF Prefix, Contact
  <1>2. NoRun.pc = "idle" /\ NoRun.count = 0
    BY DEF NoRun
  <1> QED
    BY <1>1, <1>2 DEF Counted

\* What is handled stays handled.
LEMMA HandledGrows ==
    ASSUME NEW h, NEW g, h \subseteq g
    PROVE  /\ \A n : Prefix(n, h) => Prefix(n, g)
           /\ \A r : Counted(r, h) => Counted(r, g)
  BY DEF Prefix, Counted

\* One more contact without a gap.
LEMMA PrefixGrows ==
    ASSUME NEW n \in Nat, NEW h, Prefix(n, h)
    PROVE  Prefix(n + 1, h \cup {n})
  <1>1. ASSUME NEW t \in Contact, t < n + 1 PROVE t < n \/ t = n
    BY <1>1, Sizes DEF Contact
  <1> QED
    BY <1>1 DEF Prefix

\* A merge changes the count only if it writes it.
LEMMA MergeCount ==
    ASSUME doc \in Document
    PROVE  /\ Merged.count = doc.count
           /\ \A s : WithStatus(s).count = doc.count
           /\ \A n : WithCount(n).count = n
           /\ \A n : [WithStatus("completed") EXCEPT !.count = n].count = n
           /\ NoDocument.count = 0
  BY DEF Document, Merged, WithStatus, WithCount, NoDocument

\* A step of one handler keeps the invariant if its new position is in order.
LEMMA ReplaceCounted ==
    ASSUME TypeInv, ProgressInv, UNCHANGED miscounted, handled \subseteq handled',
           NEW w \in Worker, NEW r, run' = [run EXCEPT ![w] = r],
           ~miscounted => Counted(r, handled') /\ Prefix(doc'.count, handled')
    PROVE  ProgressInv'
  <1>1. \A v \in Worker : run'[v] = IF v = w THEN r ELSE run[v]
    BY DEF TypeInv, RunInv
  <1>2. ASSUME ~miscounted, NEW v \in Worker PROVE Counted(run'[v], handled')
    BY <1>1, <1>2, HandledGrows DEF ProgressInv
  <1> QED
    BY <1>2 DEF ProgressInv

\* The position after a contact that was handled.
LEMMA AdvanceCounted ==
    ASSUME TypeInv, NEW w \in Worker, run[w].pc \in Loop, NEW h,
           Prefix(run[w].i + 1, h)
    PROVE  Counted(Advanced(w, run[w].i + 1), h)
  <1> DEFINE n == run[w].i + 1
  <1>1. run[w] \in RunRecord
    BY DEF TypeInv, RunInv
  <1>2. CASE run[w].i + 1 < run[w].end
    <2>1. Advanced(w, n) = [run[w] EXCEPT !.pc = "checking", !.i = @ + 1, !.count = n]
      BY <1>2 DEF Advanced
    <2>2. /\ Advanced(w, n).pc = "checking" /\ Advanced(w, n).i = n
          /\ Advanced(w, n).count = n
      BY <1>1, <2>1 DEF RunRecord
    <2> QED
      BY <2>2 DEF Counted
  <1>3. CASE ~(run[w].i + 1 < run[w].end)
    <2>1. Advanced(w, n).count = n /\ Advanced(w, n).pc \in {"requeueing", "finalizing"}
      BY <1>3 DEF Advanced, NoRun
    <2> QED
      BY <2>1 DEF Counted
  <1> QED
    BY <1>2, <1>3

LEMMA ProgressNext == TypeInv /\ ProgressInv /\ [Next]_vars => ProgressInv'
  <1> SUFFICES ASSUME TypeInv, ProgressInv, [Next]_vars PROVE ProgressInv'
    OBVIOUS
  <1>d. doc \in Document
    BY DEF TypeInv, DocInv
  <1>r. \A w \in Worker : run[w] \in RunRecord /\ run[w].i \in Nat /\ run[w].count \in Nat
    BY DEF TypeInv, RunInv, RunRecord
  <1>p. ~miscounted => /\ Prefix(doc.count, handled)
                       /\ \A w \in Worker : Counted(run[w], handled)
    BY DEF ProgressInv
  \* Only the document changes, or nothing of this.
  <1>k. ASSUME UNCHANGED <<run, handled, miscounted>>, doc'.count \in {0, doc.count}
        PROVE  ProgressInv'
    BY <1>k, <1>p, NothingCounted DEF ProgressInv
  \* The handler ends, or starts anew.
  <1>e. ASSUME NEW w \in Worker, Completes(w) \/ Fails(w), UNCHANGED history,
               doc'.count = doc.count \/ doc'.count = run[w].count
        PROVE  ProgressInv'
    <2>1. run' = [run EXCEPT ![w] = NoRun]
      BY <1>e DEF Completes, Fails
    <2>2. ~miscounted => Prefix(doc'.count, handled)
      BY <1>e, <1>p DEF Counted
    <2> QED
      BY <1>e, <2>1, <2>2, NothingCounted, ReplaceCounted DEF history
  \* The handler goes to another await without a new count.
  <1>g. ASSUME NEW w \in Worker, NEW pc, Goes(w, pc), UNCHANGED history,
               doc'.count = doc.count \/ doc'.count = run[w].count,
               \/ pc \notin Loop
               \/ /\ pc \in {"sending", "cooling", "parting"}
                  /\ run[w].pc \in {"checking", "sending", "cooling"}
        PROVE  ProgressInv'
    <2> DEFINE r == [run[w] EXCEPT !.pc = pc]
    <2>1. run' = [run EXCEPT ![w] = r]
      BY <1>g DEF Goes
    <2>2. r.pc = pc /\ r.i = run[w].i /\ r.count = run[w].count
      BY <1>r DEF RunRecord
    <2>3. ~miscounted => Counted(r, handled)
      BY <1>g, <1>p, <2>2 DEF Counted, Loop
    <2>4. ~miscounted => Prefix(doc'.count, handled)
      BY <1>g, <1>p DEF Counted
    <2> QED
      BY <1>g, <2>1, <2>3, <2>4, ReplaceCounted DEF history
  \* The next contact is handled, or was just before its count was saved.
  <1>a. ASSUME NEW w \in Worker, run[w].pc \in Loop, NEW n,
               ~miscounted => n = run[w].i + 1 /\ Prefix(run[w].i + 1, handled'),
               Advance(w, n), UNCHANGED miscounted, handled \subseteq handled',
               doc'.count = doc.count \/ doc'.count = n
        PROVE  ProgressInv'
    <2>1. run' = [run EXCEPT ![w] = Advanced(w, n)]
      BY <1>a DEF Advance
    <2>2. ~miscounted => Counted(Advanced(w, n), handled')
      BY <1>a, AdvanceCounted
    <2>3. ~miscounted => Prefix(doc'.count, handled')
      BY <1>a, <1>p, HandledGrows
    <2> QED
      BY <1>a, <2>1, <2>2, <2>3, ReplaceCounted
  \* Handling the contact whose position is the count.
  <1>n. ASSUME NEW w \in Worker, run[w].pc \in {"sending", "parting"},
               handled' = handled \cup {run[w].i}
        PROVE  ~miscounted => /\ run[w].count + 1 = run[w].i + 1
                              /\ Prefix(run[w].i + 1, handled')
    BY <1>n, <1>r, <1>p, PrefixGrows DEF Counted
  <1>1. CASE UNCHANGED vars
    BY <1>1, <1>k DEF vars
  <1>2. ASSUME NEW u \in User, Calls(u) PROVE ProgressInv'
    <2>1. CASE UserWrites(u)
      <3>1. doc' = WithStatus("pending") /\ UNCHANGED <<run, handled, miscounted>>
        BY <2>1 DEF UserWrites, Write, history
      <3> QED
        BY <3>1, <1>d, <1>k, MergeCount
    <2>2. CASE StartReads(u) \/ ResumeReads(u) \/ AddJob(u) \/ UserFails(u)
      <3>1. UNCHANGED <<doc, run, handled, miscounted>>
        BY <2>2 DEF StartReads, ResumeReads, AddJob, UserFails, history
      <3> QED
        BY <3>1, <1>k
    <2> QED
      BY <1>2, <2>1, <2>2 DEF Calls
  <1>3. CASE Pause \/ Delete
    <2>1. doc' \in {WithStatus("paused"), NoDocument} /\ UNCHANGED <<run, handled, miscounted>>
      BY <1>3 DEF Pause, Delete, Write, history
    <2> QED
      BY <2>1, <1>d, <1>k, MergeCount
  <1>4. ASSUME NEW w \in Worker, Take(w) PROVE ProgressInv'
    <2> DEFINE r == [NoRun EXCEPT !.pc = "reading"]
    <2>1. r.pc = "reading" /\ r.count = 0
      BY DEF NoRun
    <2>2. \A h : Counted(r, h)
      BY <2>1, NothingCounted DEF Counted
    <2>3. run' = [run EXCEPT ![w] = r] /\ UNCHANGED <<doc, handled, miscounted>>
      BY <1>4 DEF Take, history
    <2> QED
      BY <1>p, <2>2, <2>3, ReplaceCounted
  <1>5. ASSUME NEW w \in Worker, Reads(w) PROVE ProgressInv'
    <2>1. UNCHANGED <<doc, handled, miscounted>> /\ UNCHANGED history
      BY <1>5 DEF Reads, history
    <2> DEFINE r == [NoRun EXCEPT !.pc = "deciding", !.count = doc.count]
    <2>2. CASE run' = [run EXCEPT ![w] = r]
      <3>1. r.pc = "deciding" /\ r.count = doc.count
        BY DEF NoRun
      <3>2. ~miscounted => Counted(r, handled)
        BY <1>p, <3>1 DEF Counted
      <3> QED
        BY <1>p, <2>1, <2>2, <3>2, ReplaceCounted
    <2> QED
      BY <1>5, <1>e, <2>1, <2>2 DEF Reads
  <1>6. ASSUME NEW w \in Worker, Decides(w) PROVE ProgressInv'
    <2>1. doc'.count = doc.count /\ UNCHANGED <<handled, miscounted>> /\ UNCHANGED history
      BY <1>6, <1>d, MergeCount DEF Decides, Write, history
    <2> DEFINE r == [run[w] EXCEPT !.pc = "finalizing", !.count = 0]
    <2>2. CASE run' = [run EXCEPT ![w].pc = "finalizing", ![w].count = 0]
      <3>1. run' = [run EXCEPT ![w] = r]
        BY <2>2 DEF TypeInv, RunInv
      <3>2. r.pc = "finalizing" /\ r.count = 0
        BY <1>r DEF RunRecord
      <3>3. Counted(r, handled)
        BY <3>2, NothingCounted DEF Counted
      <3> QED
        BY <1>p, <2>1, <3>1, <3>3, ReplaceCounted
    <2>3. CASE \E pc \in {"pausing", "finalizing", "marking"} : Goes(w, pc)
      BY <1>g, <2>1, <2>3 DEF Loop
    <2> QED
      BY <1>6, <1>e, <2>1, <2>2, <2>3 DEF Decides
  <1>7. ASSUME NEW w \in Worker, PausesItself(w) PROVE ProgressInv'
    <2>1. doc'.count = doc.count
      BY <1>7, <1>d, MergeCount DEF PausesItself, Write
    <2> QED
      BY <1>7, <1>e, <2>1 DEF PausesItself
  <1>8. ASSUME NEW w \in Worker, Marks(w) PROVE ProgressInv'
    <2> DEFINE r == [run[w] EXCEPT !.pc = "checking", !.i = run[w].count,
                                   !.end = SegmentEnd(run[w].count)]
    <2>1. run' = [run EXCEPT ![w] = r] /\ UNCHANGED <<handled, miscounted>>
      BY <1>8 DEF Marks, TypeInv, RunInv, history
    <2>2. r.pc = "checking" /\ r.i = run[w].count /\ r.count = run[w].count
      BY <1>r DEF RunRecord
    <2>3. ~miscounted => Counted(r, handled)
      BY <1>p, <2>2 DEF Counted
    <2>4. doc'.count = doc.count
      BY <1>8, <1>d, MergeCount DEF Marks, Write
    <2> QED
      BY <1>p, <2>1, <2>3, <2>4, ReplaceCounted
  <1>9. ASSUME NEW w \in Worker, Checks(w) PROVE ProgressInv'
    BY <1>9, <1>e, <1>g DEF Checks
  <1>10. ASSUME NEW w \in Worker, Sends(w) PROVE ProgressInv'
    <2>1. /\ ~miscounted => /\ run[w].count + 1 = run[w].i + 1
                            /\ Prefix(run[w].i + 1, handled')
          /\ handled \subseteq handled' /\ UNCHANGED <<doc, miscounted>>
      BY <1>10, <1>n DEF Sends
    <2>2. CASE Advance(w, run[w].count + 1)
      BY <1>10, <1>a, <2>1, <2>2 DEF Sends, Loop
    <2>3. CASE run' = [run EXCEPT ![w].pc = "saving", ![w].count = @ + 1]
      <3> DEFINE r == [run[w] EXCEPT !.pc = "saving", !.count = @ + 1]
      <3>1. run' = [run EXCEPT ![w] = r]
        BY <2>3 DEF TypeInv, RunInv
      <3>2. r.pc = "saving" /\ r.i = run[w].i /\ r.count = run[w].count + 1
        BY <1>r DEF RunRecord
      <3>3. ~miscounted => Counted(r, handled')
        BY <2>1, <3>2 DEF Counted
      <3>4. ~miscounted => Prefix(doc'.count, handled')
        BY <1>p, <2>1, HandledGrows
      <3> QED
        BY <2>1, <3>1, <3>3, <3>4, ReplaceCounted
    <2> QED
      BY <1>10, <2>2, <2>3 DEF Sends
  <1>11. ASSUME NEW w \in Worker, SendFails(w) \/ PartingFails(w) PROVE ProgressInv'
    <2>1. /\ run[w].pc \in {"sending", "parting"} /\ handled' = handled \cup {run[w].i}
          /\ Advance(w, run[w].count + 1) /\ UNCHANGED <<doc, miscounted>>
      BY <1>11 DEF SendFails, PartingFails
    <2> QED
      BY <2>1, <1>n, <1>a DEF Loop
  <1>12. ASSUME NEW w \in Worker, Saves(w) PROVE ProgressInv'
    <2>1. ~miscounted => run[w].count = run[w].i + 1 /\ Prefix(run[w].i + 1, handled)
      BY <1>12, <1>p DEF Saves, Counted
    <2>2. doc'.count = run[w].count /\ UNCHANGED <<handled, miscounted>>
      BY <1>12, <1>d, MergeCount DEF Saves, Write, history
    <2> QED
      BY <1>12, <1>a, <2>1, <2>2 DEF Saves, Loop
  <1>13. ASSUME NEW w \in Worker, SaveFails(w) PROVE ProgressInv'
    BY <1>13 DEF SaveFails, ProgressInv
  <1>14. ASSUME NEW w \in Worker, ContentRepeats(w) \/ CoolsDown(w) PROVE ProgressInv'
    <2>1. doc'.count = doc.count
      BY <1>14, <1>d, MergeCount DEF ContentRepeats, CoolsDown, Write
    <2> QED
      BY <1>14, <1>g, <2>1 DEF ContentRepeats, CoolsDown
  <1>15. ASSUME NEW w \in Worker, Parts(w) PROVE ProgressInv'
    <2>1. doc'.count = run[w].count
      BY <1>15, <1>d, MergeCount DEF Parts, Write
    <2> QED
      BY <1>15, <1>e, <2>1 DEF Parts
  <1>16. ASSUME NEW w \in Worker, Finalizes(w) PROVE ProgressInv'
    <2>1. doc'.count = run[w].count
      BY <1>16, <1>d, MergeCount DEF Finalizes, Write
    <2> QED
      BY <1>16, <1>g, <2>1 DEF Finalizes, Loop
  <1>17. ASSUME NEW w \in Worker, Requeues(w) \/ Reports(w) \/ FirestoreFails(w)
         PROVE  ProgressInv'
    BY <1>17, <1>e DEF Requeues, Reports, FirestoreFails
  <1>18. CASE Crash
    <2>1. UNCHANGED <<doc, handled, miscounted>> /\ \A w \in Worker : run'[w] = NoRun
      BY <1>18 DEF Crash, history
    <2> QED
      BY <1>p, <2>1, NothingCounted DEF ProgressInv
  <1>19. CASE Stall
    <2>1. UNCHANGED <<doc, run, handled, miscounted>>
      BY <1>19 DEF Stall, history
    <2> QED
      BY <2>1, <1>k
  <1> QED
    BY <1>1, <1>2, <1>3, <1>4, <1>5, <1>6, <1>7, <1>8, <1>9, <1>10, <1>11, <1>12, <1>13,
       <1>14, <1>15, <1>16, <1>17, <1>18, <1>19 DEF Next, Handles

\* Unless a failed save was counted as a failed contact, everybody below the saved progress was
\* messaged or counted as failed.
THEOREM NoneSkippedCorrect == Spec => []NoneSkipped
  <1>1. Init => ProgressInv
    BY NothingCounted DEF Init, ProgressInv
  <1>2. ProgressInv => NoneSkipped
    BY DEF ProgressInv, Prefix, NoneSkipped
  <1> QED
    BY <1>1, <1>2, ProgressNext, TypeInit, TypeNext, PTL DEF Spec

-----------------------------------------------------------------------------
(* The saved progress does not go back.  One handler writes it, and what it *)
(* carries since it has read the document is at least what is stored there. *)

Ahead(r, n) ==
    /\ r.pc \notin {"idle", "reading", "finalizing", "reporting"} => r.count >= n
    /\ r.pc = "finalizing" => r.count = 0 \/ r.count >= n

AheadInv == ~lost => \A w \in Worker : Ahead(run[w], doc.count)

\* The one handler that works makes a step: the others are idle.
LEMMA OneAhead ==
    ASSUME TypeInv, OneRun, UNCHANGED lost,
           NEW w \in Worker, run[w].pc # "idle", NEW r, run' = [run EXCEPT ![w] = r],
           ~lost => Ahead(r, doc'.count)
    PROVE  AheadInv'
  <1>1. ASSUME ~lost, NEW v \in Worker PROVE Ahead(run'[v], doc'.count)
    <2>1. CASE v = w
      BY <1>1, <2>1 DEF TypeInv, RunInv
    <2>2. CASE v # w
      <3>1. run'[v] = run[v]
        BY <2>2 DEF TypeInv, RunInv
      <3>2. run[v].pc = "idle"
        BY <1>1, <2>2 DEF OneRun
      <3> QED
        BY <3>1, <3>2 DEF Ahead
    <2> QED
      BY <2>1, <2>2
  <1> QED
    BY <1>1 DEF AheadInv

\* The position after a contact keeps the count.
LEMMA AdvancedCount ==
    ASSUME TypeInv, NEW w \in Worker, run[w].pc \in Loop, NEW n \in Nat
    PROVE  /\ Advanced(w, n).count = n
           /\ Advanced(w, n).pc \in {"checking", "requeueing", "finalizing"}
  <1>1. run[w] \in RunRecord
    BY DEF TypeInv, RunInv
  <1>2. CASE run[w].i + 1 < run[w].end
    BY <1>1, <1>2 DEF Advanced, RunRecord
  <1>3. CASE ~(run[w].i + 1 < run[w].end)
    BY <1>3 DEF Advanced, NoRun
  <1> QED
    BY <1>2, <1>3

LEMMA AheadNext == TypeInv /\ OneRun /\ AheadInv /\ [Next]_vars => AheadInv'
  <1> SUFFICES ASSUME TypeInv, OneRun, AheadInv, [Next]_vars PROVE AheadInv'
    OBVIOUS
  <1>d. doc \in Document /\ doc.count \in Nat
    BY DEF TypeInv, DocInv, Document
  <1>r. \A w \in Worker : run[w] \in RunRecord /\ run[w].i \in Nat /\ run[w].count \in Nat
    BY DEF TypeInv, RunInv, RunRecord
  <1>a. ~lost => \A w \in Worker : Ahead(run[w], doc.count)
    BY DEF AheadInv
  \* Only the document changes, or nothing of this.
  <1>k. ASSUME UNCHANGED <<run, lost>>, doc'.count \in {0, doc.count} PROVE AheadInv'
    BY <1>k, <1>a, <1>r DEF AheadInv, Ahead
  \* The handler ends.
  <1>e. ASSUME NEW w \in Worker, run[w].pc # "idle", Completes(w) \/ Fails(w), UNCHANGED lost
        PROVE  AheadInv'
    <2>1. run' = [run EXCEPT ![w] = NoRun] /\ Ahead(NoRun, doc'.count)
      BY <1>e DEF Completes, Fails, NoRun, Ahead
    <2> QED
      BY <1>e, <2>1, OneAhead
  \* The handler goes to another await with what it has counted.
  <1>g. ASSUME NEW w \in Worker, run[w].pc # "idle", NEW pc, Goes(w, pc), UNCHANGED lost,
               \/ pc = "reporting"
               \/ /\ run[w].pc \notin {"reading", "finalizing", "reporting"}
                  /\ pc # "idle" /\ doc'.count = doc.count
        PROVE  AheadInv'
    <2> DEFINE r == [run[w] EXCEPT !.pc = pc]
    <2>1. run' = [run EXCEPT ![w] = r]
      BY <1>g DEF Goes
    <2>2. r.pc = pc /\ r.count = run[w].count
      BY <1>r DEF RunRecord
    <2>3. ~lost => Ahead(r, doc'.count)
      BY <1>g, <1>a, <2>2 DEF Ahead
    <2> QED
      BY <1>g, <2>1, <2>3, OneAhead
  \* The next contact.
  <1>n. ASSUME NEW w \in Worker, run[w].pc \in Loop, NEW n \in Nat, n >= run[w].count,
               Advance(w, n), UNCHANGED lost, doc'.count \in {doc.count, n}
        PROVE  AheadInv'
    <2>1. run' = [run EXCEPT ![w] = Advanced(w, n)]
      BY <1>n DEF Advance
    <2>2. ~lost => doc'.count <= n
      BY <1>n, <1>a, <1>d, <1>r DEF Ahead, Loop
    <2>3. ~lost => Ahead(Advanced(w, n), doc'.count)
      BY <1>n, <2>2, AdvancedCount DEF Ahead
    <2> QED
      BY <1>n, <2>1, <2>3, OneAhead DEF Loop
  <1>1. CASE UNCHANGED vars
    BY <1>1, <1>k DEF vars
  <1>2. ASSUME NEW u \in User, Calls(u) PROVE AheadInv'
    <2>1. UNCHANGED <<run, lost>> /\ (doc' = doc \/ doc' = WithStatus("pending"))
      BY <1>2 DEF Calls, StartReads, ResumeReads, UserWrites, AddJob, UserFails, Write
    <2> QED
      BY <2>1, <1>d, <1>k, MergeCount
  <1>3. CASE Pause \/ Delete
    <2>1. doc' \in {WithStatus("paused"), NoDocument} /\ UNCHANGED <<run, lost>>
      BY <1>3 DEF Pause, Delete, Write
    <2> QED
      BY <2>1, <1>d, <1>k, MergeCount
  <1>4. ASSUME NEW w \in Worker, Take(w) PROVE AheadInv'
    <2> DEFINE r == [NoRun EXCEPT !.pc = "reading"]
    <2>1. run' = [run EXCEPT ![w] = r] /\ UNCHANGED <<doc, lost>>
      BY <1>4 DEF Take
    <2>2. Ahead(r, doc.count)
      BY DEF NoRun, Ahead
    <2>3. \A v \in Worker : run'[v] = IF v = w THEN r ELSE run[v]
      BY <2>1 DEF TypeInv, RunInv
    <2> QED
      BY <1>a, <2>1, <2>2, <2>3 DEF AheadInv
  <1>5. ASSUME NEW w \in Worker, Reads(w) PROVE AheadInv'
    <2>1. UNCHANGED <<doc, lost>> /\ run[w].pc # "idle"
      BY <1>5 DEF Reads
    <2> DEFINE r == [NoRun EXCEPT !.pc = "deciding", !.count = doc.count]
    <2>2. CASE run' = [run EXCEPT ![w] = r]
      <3>1. Ahead(r, doc.count)
        BY <1>d DEF NoRun, Ahead
      <3> QED
        BY <2>1, <2>2, <3>1, OneAhead
    <2> QED
      BY <1>5, <1>e, <2>1, <2>2 DEF Reads
  <1>6. ASSUME NEW w \in Worker, Decides(w) PROVE AheadInv'
    <2>1. doc'.count = doc.count /\ UNCHANGED lost /\ run[w].pc = "deciding"
      BY <1>6, <1>d, MergeCount DEF Decides, Write
    <2> DEFINE r == [run[w] EXCEPT !.pc = "finalizing", !.count = 0]
    <2>2. CASE run' = [run EXCEPT ![w].pc = "finalizing", ![w].count = 0]
      <3>1. run' = [run EXCEPT ![w] = r]
        BY <2>2 DEF TypeInv, RunInv
      <3>2. r.pc = "finalizing" /\ r.count = 0
        BY <1>r DEF RunRecord
      <3> QED
        BY <2>1, <3>1, <3>2, OneAhead DEF Ahead
    <2>3. CASE \E pc \in {"pausing", "finalizing", "marking"} : Goes(w, pc)
      BY <1>g, <2>1, <2>3
    <2> QED
      BY <1>6, <1>e, <2>1, <2>2, <2>3 DEF Decides
  <1>7. ASSUME NEW w \in Worker, Marks(w) PROVE AheadInv'
    <2> DEFINE r == [run[w] EXCEPT !.pc = "checking", !.i = run[w].count,
                                   !.end = SegmentEnd(run[w].count)]
    <2>1. run' = [run EXCEPT ![w] = r] /\ UNCHANGED lost /\ run[w].pc = "marking"
      BY <1>7 DEF Marks, TypeInv, RunInv
    <2>2. r.pc = "checking" /\ r.count = run[w].count
      BY <1>r DEF RunRecord
    <2>3. doc'.count = doc.count
      BY <1>7, <1>d, MergeCount DEF Marks, Write
    <2>4. ~lost => Ahead(r, doc'.count)
      BY <1>a, <2>1, <2>2, <2>3 DEF Ahead
    <2> QED
      BY <2>1, <2>4, OneAhead
  <1>8. ASSUME NEW w \in Worker, Checks(w) PROVE AheadInv'
    BY <1>8, <1>e, <1>g DEF Checks
  <1>9. ASSUME NEW w \in Worker, Sends(w) PROVE AheadInv'
    <2>1. run[w].pc = "sending" /\ UNCHANGED <<doc, lost>> /\ run[w].count + 1 \in Nat
      BY <1>9, <1>r DEF Sends
    <2>2. CASE Advance(w, run[w].count + 1)
      BY <1>n, <1>r, <2>1, <2>2 DEF Loop
    <2>3. CASE run' = [run EXCEPT ![w].pc = "saving", ![w].count = @ + 1]
      <3> DEFINE r == [run[w] EXCEPT !.pc = "saving", !.count = @ + 1]
      <3>1. run' = [run EXCEPT ![w] = r]
        BY <2>3 DEF TypeInv, RunInv
      <3>2. r.pc = "saving" /\ r.count = run[w].count + 1
        BY <1>r DEF RunRecord
      <3>3. ~lost => Ahead(r, doc'.count)
        BY <1>a, <1>d, <1>r, <2>1, <3>2 DEF Ahead
      <3> QED
        BY <2>1, <3>1, <3>3, OneAhead
    <2> QED
      BY <1>9, <2>2, <2>3 DEF Sends
  <1>10. ASSUME NEW w \in Worker, SendFails(w) \/ SaveFails(w) \/ PartingFails(w)
         PROVE  AheadInv'
    <2>1. /\ run[w].pc \in Loop /\ Advance(w, run[w].count + 1) /\ UNCHANGED <<doc, lost>>
          /\ run[w].count + 1 \in Nat /\ run[w].count + 1 >= run[w].count
      BY <1>10, <1>r DEF SendFails, SaveFails, PartingFails, Loop
    <2> QED
      BY <1>n, <2>1
  <1>11. ASSUME NEW w \in Worker, Saves(w) PROVE AheadInv'
    <2>1. /\ run[w].pc \in Loop /\ Advance(w, run[w].count) /\ UNCHANGED lost
          /\ doc'.count = run[w].count
      BY <1>11, <1>d, MergeCount DEF Saves, Write, Loop
    <2> QED
      BY <1>n, <1>r, <2>1
  <1>12. ASSUME NEW w \in Worker, ContentRepeats(w) \/ CoolsDown(w) PROVE AheadInv'
    <2>1. doc'.count = doc.count
      BY <1>12, <1>d, MergeCount DEF ContentRepeats, CoolsDown, Write
    <2> QED
      BY <1>12, <1>g, <2>1 DEF ContentRepeats, CoolsDown
  <1>13. ASSUME NEW w \in Worker, Finalizes(w) PROVE AheadInv'
    BY <1>13, <1>g DEF Finalizes
  <1>14. ASSUME NEW w \in Worker, PausesItself(w) \/ Parts(w) \/ Requeues(w) \/ Reports(w)
                                     \/ FirestoreFails(w)
         PROVE  AheadInv'
    BY <1>14, <1>e DEF PausesItself, Parts, Requeues, Reports, FirestoreFails
  <1>15. CASE Crash
    BY <1>15 DEF Crash, AheadInv, Ahead, NoRun
  <1>16. CASE Stall
    <2>1. UNCHANGED <<doc, run>> /\ (lost' = lost \/ lost')
      BY <1>16 DEF Stall
    <2> QED
      BY <1>a, <2>1 DEF AheadInv
  <1> QED
    BY <1>1, <1>2, <1>3, <1>4, <1>5, <1>6, <1>7, <1>8, <1>9, <1>10, <1>11, <1>12, <1>13,
       <1>14, <1>15, <1>16 DEF Next, Handles

LEMMA AheadInvariance == Spec => [](TypeInv /\ OneRun /\ AheadInv)
  <1>1. Init => OneRun /\ AheadInv
    BY DEF Init, OneRun, AheadInv, Ahead, NoRun
  <1> QED
    BY <1>1, OneNext, AheadNext, TypeInit, TypeNext, PTL DEF Spec

\* While the handler keeps its lock, no step overwrites the saved progress with less, but for
\* the deletion of the campaign and its completion without an audience.
THEOREM ProgressGrowsCorrect == Spec => ProgressGrows
  <1> DEFINE Grows == ~lost /\ doc'.count < doc.count
                      => doc'.kind = "none" \/ (doc'.status = "completed" /\ doc'.count = 0)
  <1>1. ASSUME TypeInv, OneRun, AheadInv, Next, ~lost, doc'.count < doc.count
        PROVE  doc'.kind = "none" \/ (doc'.status = "completed" /\ doc'.count = 0)
    <2>d. doc \in Document /\ doc.count \in Nat
      BY <1>1 DEF TypeInv, DocInv, Document
    <2>r. \A w \in Worker : run[w].count \in Nat
      BY <1>1 DEF TypeInv, RunInv, RunRecord
    <2>c. doc'.count # doc.count
      BY <1>1, <2>d
    <2>m. \A s : WithStatus(s).count = doc.count /\ Merged.count = doc.count
      BY <2>d, MergeCount
    <2>1. ASSUME NEW w \in Worker, Saves(w) \/ Parts(w) PROVE FALSE
      <3>1. doc'.count = run[w].count /\ run[w].pc \in {"saving", "parting"}
        BY <2>1, <2>d, MergeCount DEF Saves, Parts, Write
      <3>2. run[w].count >= doc.count
        BY <1>1, <3>1 DEF AheadInv, Ahead
      <3> QED
        BY <1>1, <2>d, <2>r, <3>1, <3>2
    <2>2. ASSUME NEW w \in Worker, Finalizes(w)
          PROVE  doc'.status = "completed" /\ doc'.count = 0
      <3>1. doc'.count = run[w].count /\ run[w].pc = "finalizing"
        BY <2>2, <2>d, MergeCount DEF Finalizes, Write
      <3>2. run[w].count = 0 \/ run[w].count >= doc.count
        BY <1>1, <3>1 DEF AheadInv, Ahead
      <3>3. doc'.status = "completed"
        BY <2>2, <2>d DEF Finalizes, Write, WithStatus, Merged, Document
      <3> QED
        BY <1>1, <2>d, <2>r, <3>1, <3>2, <3>3
    <2>3. ASSUME Delete PROVE doc'.kind = "none"
      BY <2>3 DEF Delete, Write, NoDocument
    <2>4. ASSUME NEW w \in Worker, Handles(w), ~Saves(w), ~Parts(w), ~Finalizes(w) PROVE FALSE
      BY <2>4, <2>c, <2>m DEF Handles, Reads, Decides, PausesItself, Marks, Checks, Sends,
         SendFails, SaveFails, ContentRepeats, CoolsDown, PartingFails, Requeues, Reports,
         FirestoreFails, Write
    <2>5. ASSUME NEW u \in User, Calls(u) PROVE FALSE
      BY <2>5, <2>c, <2>m DEF Calls, StartReads, ResumeReads, UserWrites, AddJob, UserFails, Write
    <2>6. ASSUME Pause \/ Crash \/ Stall \/ \E w \in Worker : Take(w) PROVE FALSE
      BY <2>6, <2>c, <2>m DEF Pause, Crash, Stall, Take, Write
    <2> QED
      BY <1>1, <2>1, <2>2, <2>3, <2>4, <2>5, <2>6 DEF Next
  <1>2. TypeInv /\ OneRun /\ AheadInv /\ [Next]_vars => [Grows]_vars
    BY <1>1
  <1> QED
    BY <1>2, AheadInvariance, PTL DEF Spec, ProgressGrows

\* A contact below the saved progress is not messaged again while the handler keeps its lock
\* and no failed save was counted as a failed contact.
THEOREM SavedIsDoneCorrect == Spec => SavedIsDone
  <1> DEFINE Done == \A w \in Worker : Sends(w) /\ ~lost /\ ~miscounted => run[w].i >= doc.count
  <1>1. TypeInv /\ OneRun /\ AheadInv /\ ProgressInv /\ [Next]_vars => [Done]_vars
    <2> SUFFICES ASSUME AheadInv, ProgressInv, NEW w \in Worker, Sends(w), ~lost, ~miscounted
                 PROVE  run[w].i >= doc.count
      OBVIOUS
    <2>1. run[w].count = run[w].i /\ run[w].count >= doc.count
      BY DEF Sends, AheadInv, Ahead, ProgressInv, Counted
    <2> QED
      BY <2>1
  <1>2. Init => ProgressInv
    BY NothingCounted DEF Init, ProgressInv
  <1> QED
    BY <1>1, <1>2, ProgressNext, AheadInvariance, PTL DEF Spec, SavedIsDone

-----------------------------------------------------------------------------
(* Division by a positive number, which the solver does not know enough of. *)

LEMMA Division ==
    ASSUME NEW c \in Nat \ {0}, NEW i \in Nat
    PROVE  i = c * (i \div c) + (i % c) /\ (i \div c) \in Nat /\ (i % c) \in 0..(c - 1)
  BY SMTT(30)

LEMMA Multiples ==
    ASSUME NEW c \in Nat \ {0}, NEW p \in Nat, NEW q \in Nat, p < q
    PROVE  c * p + c <= c * q
  <1>1. PICK d \in Nat : q = p + 1 + d
    <2>1. q - p - 1 \in Nat /\ q = p + 1 + (q - p - 1)
      OBVIOUS
    <2> QED
      BY <2>1
  <1>2. c * q = c * p + c + c * d
    BY <1>1, SMTT(30)
  <1>3. c * d \in Nat /\ c * p \in Nat
    BY SMTT(30)
  <1> QED
    BY <1>2, <1>3

LEMMA OneRemainder ==
    ASSUME NEW c \in Nat \ {0}, NEW p \in Nat, NEW q \in Nat,
           NEW r \in 0..(c - 1), NEW s \in 0..(c - 1), c * p + r = c * q + s
    PROVE  r = s
  <1>1. c * p \in Nat /\ c * q \in Nat
    BY SMTT(30)
  <1>2. CASE p < q
    BY <1>1, <1>2, Multiples
  <1>3. CASE q < p
    BY <1>1, <1>3, Multiples
  <1>4. CASE p = q
    BY <1>1, <1>4
  <1> QED
    BY <1>2, <1>3, <1>4

\* The remainder of the next number.
LEMMA NextRemainder ==
    ASSUME NEW c \in Nat \ {0}, NEW i \in Nat
    PROVE  ((i + 1) % c) = IF (i % c) + 1 = c THEN 0 ELSE (i % c) + 1
  <1> DEFINE q == i \div c
             r == i % c
             p == (i + 1) \div c
             s == (i + 1) % c
  <1>1. i = c * q + r /\ q \in Nat /\ r \in 0..(c - 1)
    BY Division
  <1>2. i + 1 = c * p + s /\ p \in Nat /\ s \in 0..(c - 1)
    <2>1. i + 1 \in Nat
      OBVIOUS
    <2> QED
      BY <2>1, Division, Zenon
  <1> HIDE DEF q, r, p, s
  <1>3. c * q \in Nat /\ c * (q + 1) \in Nat /\ c * p \in Nat /\ c * (q + 1) = c * q + c
    <2>1. \A x, y \in Nat : x * y \in Nat
      BY SMTT(30)
    <2>2. \A x, y \in Nat : x * (y + 1) = x * y + x
      BY SMTT(30)
    <2>3. q + 1 \in Nat /\ c \in Nat
      BY <1>1
    <2> QED
      BY <1>1, <1>2, <2>1, <2>2, <2>3, Zenon
  <1>4. CASE r + 1 = c
    <2>1. c * (q + 1) + 0 = c * p + s
      BY <1>1, <1>2, <1>3, <1>4
    <2>2. s = 0
      BY <1>1, <1>2, <2>1, OneRemainder
    <2> QED
      BY <2>2, <1>4 DEF r, s
  <1>5. CASE r + 1 # c
    <2>1. c * q + (r + 1) = c * p + s /\ r + 1 \in 0..(c - 1)
      BY <1>1, <1>2, <1>3, <1>5
    <2>2. s = r + 1
      BY <1>1, <1>2, <2>1, OneRemainder
    <2> QED
      BY <2>2, <1>5 DEF r, s
  <1> QED
    BY <1>4, <1>5

-----------------------------------------------------------------------------
(* A pause is seen.  A handler that is late sends at most one message per   *)
(* contact since the last look, so what bounds it is how far its position   *)
(* is from the next multiple of CheckEvery; and it is not late at all       *)
(* unless the document says paused.                                         *)

LateFine(r, n) ==
    /\ n \in 0..CheckEvery
    /\ r.pc = "checking" => (r.i % CheckEvery) = 0 \/ n <= (r.i % CheckEvery)
    /\ r.pc \in {"sending", "cooling", "parting"} => n <= (r.i % CheckEvery)
    /\ r.pc = "saving" => n <= (r.i % CheckEvery) + 1

LateInv ==
    \A w \in Worker : /\ LateFine(run[w], late[w])
                      /\ doc.status # "paused" => late[w] = 0

LEMMA Remainder ==
    ASSUME NEW i \in Nat
    PROVE  /\ (i % CheckEvery) \in Nat
           /\ (i % CheckEvery) + 1 \in 0..CheckEvery
           /\ ((i + 1) % CheckEvery) = 0 \/ ((i + 1) % CheckEvery) = (i % CheckEvery) + 1
  <1>1. (i % CheckEvery) \in 0..(CheckEvery - 1)
    BY Sizes, Division
  <1>2. ((i + 1) % CheckEvery)
          = IF (i % CheckEvery) + 1 = CheckEvery THEN 0 ELSE (i % CheckEvery) + 1
    BY Sizes, NextRemainder
  <1> QED
    BY Sizes, <1>1, <1>2

\* Who is not late is fine anywhere.
LEMMA NotLate == \A r : r.i \in Nat => LateFine(r, 0)
  <1> SUFFICES ASSUME NEW r, r.i \in Nat PROVE LateFine(r, 0)
    OBVIOUS
  <1>1. (r.i % CheckEvery) \in Nat
    BY Remainder
  <1> QED
    BY <1>1, Sizes DEF LateFine

\* A write leaves nobody late, or leaves the paused document paused.
LEMMA WriteLate ==
    ASSUME DocInv, LateInv, NEW d, Write(d)
    PROVE  \A w \in Worker :
             /\ late'[w] \in {0, late[w]}
             /\ doc'.status # "paused" => late'[w] = 0
  BY DEF DocInv, Write

\* A step of one handler keeps the invariant if its new position is in order.
LEMMA ReplaceLate ==
    ASSUME TypeInv, LateInv, NEW w \in Worker, NEW r, run' = [run EXCEPT ![w] = r],
           \A v \in Worker : /\ v # w => late'[v] \in {0, late[v]}
                             /\ doc'.status # "paused" => late'[v] = 0,
           LateFine(r, late'[w])
    PROVE  LateInv'
  <1>1. \A v \in Worker : run'[v] = IF v = w THEN r ELSE run[v]
    BY DEF TypeInv, RunInv
  <1>2. \A v \in Worker : run[v].i \in Nat
    BY DEF TypeInv, RunInv, RunRecord
  <1>3. ASSUME NEW v \in Worker PROVE LateFine(run'[v], late'[v])
    BY <1>1, <1>2, NotLate DEF LateInv
  <1> QED
    BY <1>3 DEF LateInv

\* The position after the contact just handled.
LEMMA AdvanceLate ==
    ASSUME TypeInv, NEW w \in Worker, run[w].pc \in Loop, NEW c, NEW n \in Nat,
           n <= (run[w].i % CheckEvery) + 1
    PROVE  LateFine(Advanced(w, c), n)
  <1>1. run[w] \in RunRecord /\ run[w].i \in Nat
    BY DEF TypeInv, RunInv, RunRecord
  <1>2. n \in 0..CheckEvery
    BY <1>1, Remainder, Sizes
  <1>3. CASE run[w].i + 1 < run[w].end
    <2>1. Advanced(w, c) = [run[w] EXCEPT !.pc = "checking", !.i = @ + 1, !.count = c]
      BY <1>3 DEF Advanced
    <2>2. Advanced(w, c).pc = "checking" /\ Advanced(w, c).i = run[w].i + 1
      BY <1>1, <2>1 DEF RunRecord
    <2> QED
      BY <1>1, <1>2, <2>2, Remainder DEF LateFine
  <1>4. CASE ~(run[w].i + 1 < run[w].end)
    <2>1. Advanced(w, c).pc \in {"requeueing", "finalizing"}
      BY <1>4 DEF Advanced, NoRun
    <2> QED
      BY <1>2, <2>1 DEF LateFine
  <1> QED
    BY <1>3, <1>4

LEMMA LateNext == TypeInv /\ LateInv /\ [Next]_vars => LateInv'
  <1> SUFFICES ASSUME TypeInv, LateInv, [Next]_vars PROVE LateInv'
    OBVIOUS
  <1>r. \A w \in Worker : run[w] \in RunRecord /\ run[w].i \in Nat /\ late[w] \in Nat
    BY DEF TypeInv, RunInv, RunRecord, DocInv
  <1>t. run \in [Worker -> RunRecord] /\ late \in [Worker -> Nat] /\ DocInv
    BY DEF TypeInv, RunInv, DocInv
  <1>l. \A w \in Worker : LateFine(run[w], late[w]) /\ (doc.status # "paused" => late[w] = 0)
    BY DEF LateInv
  \* The document and the messages sent after it was paused stay, or a write.
  <1> DEFINE Written == \/ UNCHANGED <<doc, late>>
                        \/ \E d : Write(d)
  <1>w. ASSUME Written
        PROVE  \A w \in Worker : /\ late'[w] \in {0, late[w]}
                                 /\ doc'.status # "paused" => late'[w] = 0
    BY <1>w, <1>l, <1>t, WriteLate
  <1> HIDE DEF Written
  \* No handler moves.
  <1>k. ASSUME UNCHANGED run, Written PROVE LateInv'
    BY <1>k, <1>w, <1>l, <1>r, NotLate DEF LateInv
  \* The handler ends, or goes to an await outside the loop.
  <1>o. ASSUME NEW w \in Worker, NEW r, run' = [run EXCEPT ![w] = r], r.pc \notin Loop, Written
        PROVE  LateInv'
    <2>1. LateFine(r, late'[w])
      BY <1>o, <1>w, <1>l, Sizes DEF LateFine, Loop
    <2> QED
      BY <1>o, <1>w, <2>1, ReplaceLate
  <1>e. ASSUME NEW w \in Worker, Completes(w) \/ Fails(w), Written PROVE LateInv'
    <2>1. run' = [run EXCEPT ![w] = NoRun] /\ NoRun.pc \notin Loop
      BY <1>e DEF Completes, Fails, NoRun, Loop
    <2> QED
      BY <1>e, <1>o, <2>1
  \* The handler goes on to another await of the same contact.
  <1>g. ASSUME NEW w \in Worker, NEW pc, Goes(w, pc), Written,
               \/ pc \notin Loop
               \/ /\ pc \in {"sending", "cooling", "parting"}
                  /\ \/ run[w].pc \in {"sending", "cooling"}
                     \/ run[w].pc = "checking"
                        /\ ((run[w].i % CheckEvery) = 0 => late'[w] = 0)
        PROVE  LateInv'
    <2> DEFINE r == [run[w] EXCEPT !.pc = pc]
    <2>1. run' = [run EXCEPT ![w] = r] /\ r.pc = pc /\ r.i = run[w].i
      BY <1>g, <1>r DEF Goes, RunRecord
    <2> HIDE DEF r
    <2>2. CASE pc \notin Loop
      BY <1>g, <1>o, <2>1, <2>2
    <2>3. CASE pc \in {"sending", "cooling", "parting"}
      <3>1. late'[w] \in {0, late[w]} /\ (run[w].i % CheckEvery) \in Nat
        BY <1>g, <1>w, <1>r, Remainder
      <3>2. late'[w] \in 0..CheckEvery
        BY <1>l, <3>1, Sizes DEF LateFine
      <3>3. late'[w] <= (run[w].i % CheckEvery)
        BY <1>g, <1>l, <2>3, <3>1 DEF LateFine, Loop
      <3>4. LateFine(r, late'[w])
        BY <2>1, <2>3, <3>2, <3>3 DEF LateFine
      <3> QED
        BY <1>g, <1>w, <2>1, <3>4, ReplaceLate
    <2> QED
      BY <1>g, <2>2, <2>3
  \* The handler goes on to the next contact.
  <1>a. ASSUME NEW w \in Worker, NEW c, Advance(w, c), Written, run[w].pc \in Loop \ {"checking"}
        PROVE  LateInv'
    <2>1. run' = [run EXCEPT ![w] = Advanced(w, c)]
      BY <1>a DEF Advance
    <2>2. late'[w] \in Nat /\ late'[w] <= (run[w].i % CheckEvery) + 1
      BY <1>a, <1>w, <1>l, <1>r, Remainder DEF LateFine, Loop
    <2>3. LateFine(Advanced(w, c), late'[w])
      BY <1>a, <2>2, AdvanceLate
    <2> QED
      BY <1>a, <1>w, <2>1, <2>3, ReplaceLate
  <1>1. CASE UNCHANGED vars
    BY <1>1, <1>k DEF vars, Written
  <1>2. ASSUME NEW u \in User, Calls(u) PROVE LateInv'
    <2>1. UNCHANGED run /\ Written
      BY <1>2, Zenon DEF Calls, StartReads, ResumeReads, UserWrites, AddJob, UserFails, Written
    <2> QED
      BY <2>1, <1>k
  <1>3. CASE Pause \/ Delete
    <2>1. UNCHANGED run /\ Written
      BY <1>3, Zenon DEF Pause, Delete, Written
    <2> QED
      BY <2>1, <1>k
  <1>4. ASSUME NEW w \in Worker, Take(w) PROVE LateInv'
    <2> DEFINE r == [NoRun EXCEPT !.pc = "reading"]
    <2>1. run' = [run EXCEPT ![w] = r] /\ late' = [late EXCEPT ![w] = 0] /\ UNCHANGED doc
      BY <1>4 DEF Take
    <2>2. r.i \in Nat
      BY DEF NoRun
    <2>3. LateFine(r, late'[w])
      BY <1>t, <2>1, <2>2, NotLate
    <2>4. \A v \in Worker : /\ v # w => late'[v] \in {0, late[v]}
                            /\ doc'.status # "paused" => late'[v] = 0
      BY <1>t, <1>l, <2>1
    <2> QED
      BY <2>1, <2>3, <2>4, ReplaceLate
  <1>5. ASSUME NEW w \in Worker, Reads(w) PROVE LateInv'
    <2>1. Written
      BY <1>5 DEF Reads, Written
    <2> DEFINE r == [NoRun EXCEPT !.pc = "deciding", !.count = doc.count]
    <2>2. CASE run' = [run EXCEPT ![w] = r]
      <3>1. r.pc \notin Loop
        BY DEF NoRun, Loop
      <3> QED
        BY <2>1, <2>2, <3>1, <1>o
    <2> QED
      BY <1>5, <1>e, <2>1, <2>2 DEF Reads
  <1>6. ASSUME NEW w \in Worker, Decides(w) PROVE LateInv'
    <2>1. Written
      BY <1>6 DEF Decides, Written
    <2> DEFINE r == [run[w] EXCEPT !.pc = "finalizing", !.count = 0]
    <2>2. CASE run' = [run EXCEPT ![w].pc = "finalizing", ![w].count = 0]
      <3>1. run' = [run EXCEPT ![w] = r]
        BY <2>2, <1>t
      <3>2. r.pc \notin Loop
        BY <1>r DEF RunRecord, Loop
      <3> QED
        BY <2>1, <3>1, <3>2, <1>o
    <2>3. CASE \E pc \in {"pausing", "finalizing", "marking"} : Goes(w, pc)
      BY <1>g, <2>1, <2>3 DEF Loop
    <2> QED
      BY <1>6, <1>e, <2>1, <2>2, <2>3 DEF Decides
  <1>7. ASSUME NEW w \in Worker, PausesItself(w) \/ Parts(w) PROVE LateInv'
    <2>1. Written
      BY <1>7, Zenon DEF PausesItself, Parts, Written
    <2> QED
      BY <1>7, <1>e, <2>1 DEF PausesItself, Parts
  <1>8. ASSUME NEW w \in Worker, Marks(w) PROVE LateInv'
    <2> DEFINE r == [run[w] EXCEPT !.pc = "checking", !.i = run[w].count,
                                   !.end = SegmentEnd(run[w].count)]
    <2>1. run' = [run EXCEPT ![w] = r]
      BY <1>8, <1>t DEF Marks
    <2>2. r.i \in Nat
      BY <1>r DEF RunRecord
    <2>3. late' = [v \in Worker |-> 0]
      <3>1. WithStatus("sending").status = "sending"
        BY <1>t, MergeType DEF DocInv
      <3> QED
        BY <1>8, <3>1 DEF Marks, Write
    <2>4. LateFine(r, late'[w])
      BY <2>2, <2>3, NotLate
    <2> QED
      BY <2>1, <2>3, <2>4, ReplaceLate
  <1>9. ASSUME NEW w \in Worker, Checks(w) PROVE LateInv'
    <2>1. Written /\ UNCHANGED late
      BY <1>9 DEF Checks, Written
    <2>2. CASE Goes(w, "sending") /\ ~((run[w].i % CheckEvery) = 0 /\ doc.status = "paused")
      <3>1. (run[w].i % CheckEvery) = 0 => late'[w] = 0
        BY <2>1, <2>2, <1>l
      <3>2. run[w].pc = "checking"
        BY <1>9 DEF Checks
      <3> QED
        BY <2>1, <2>2, <3>1, <3>2, <1>g
    <2> QED
      BY <1>9, <1>e, <2>1, <2>2 DEF Checks
  <1>10. ASSUME NEW w \in Worker, Sends(w) PROVE LateInv'
    <2>1. /\ run[w].pc = "sending" /\ UNCHANGED doc
          /\ late' = IF doc.status = "paused" THEN [late EXCEPT ![w] = @ + 1] ELSE late
      BY <1>10 DEF Sends
    <2>2. /\ late'[w] \in Nat /\ late'[w] <= (run[w].i % CheckEvery) + 1
          /\ late'[w] \in 0..CheckEvery
      <3>1. late[w] <= (run[w].i % CheckEvery)
        BY <1>l, <2>1 DEF LateFine
      <3>2. late'[w] \in {late[w], late[w] + 1}
        BY <2>1, <1>t
      <3>3. (run[w].i % CheckEvery) \in Nat /\ (run[w].i % CheckEvery) + 1 \in 0..CheckEvery
        BY <1>r, Remainder
      <3> QED
        BY <1>r, <3>1, <3>2, <3>3, Sizes
    <2>3. \A v \in Worker : /\ v # w => late'[v] \in {0, late[v]}
                            /\ doc'.status # "paused" => late'[v] = 0
      BY <1>l, <1>t, <2>1
    <2>4. CASE Advance(w, run[w].count + 1)
      <3>1. run' = [run EXCEPT ![w] = Advanced(w, run[w].count + 1)]
        BY <2>4 DEF Advance
      <3>2. LateFine(Advanced(w, run[w].count + 1), late'[w])
        BY <2>1, <2>2, AdvanceLate DEF Loop
      <3> QED
        BY <2>3, <3>1, <3>2, ReplaceLate
    <2>5. CASE run' = [run EXCEPT ![w].pc = "saving", ![w].count = @ + 1]
      <3> DEFINE r == [run[w] EXCEPT !.pc = "saving", !.count = @ + 1]
      <3>1. run' = [run EXCEPT ![w] = r]
        BY <2>5, <1>t
      <3>2. r.pc = "saving" /\ r.i = run[w].i
        BY <1>r DEF RunRecord
      <3>3. LateFine(r, late'[w])
        BY <2>2, <3>2 DEF LateFine
      <3> QED
        BY <2>3, <3>1, <3>3, ReplaceLate
    <2> QED
      BY <1>10, <2>4, <2>5 DEF Sends
  <1>11. ASSUME NEW w \in Worker, SendFails(w) \/ SaveFails(w) \/ Saves(w) \/ PartingFails(w)
         PROVE  LateInv'
    <2>1. Written /\ run[w].pc \in Loop \ {"checking"}
      BY <1>11, Zenon DEF SendFails, SaveFails, Saves, PartingFails, Loop, Written
    <2> QED
      BY <1>11, <1>a, <2>1 DEF SendFails, SaveFails, Saves, PartingFails
  <1>12. ASSUME NEW w \in Worker, ContentRepeats(w) \/ CoolsDown(w) \/ Finalizes(w)
         PROVE  LateInv'
    <2>1. Written
      BY <1>12, Zenon DEF ContentRepeats, CoolsDown, Finalizes, Written
    <2> QED
      BY <1>12, <1>g, <2>1 DEF ContentRepeats, CoolsDown, Finalizes, Loop
  <1>13. ASSUME NEW w \in Worker, Requeues(w) \/ Reports(w) \/ FirestoreFails(w)
         PROVE  LateInv'
    BY <1>13, <1>e DEF Requeues, Reports, FirestoreFails, Written
  <1>14. CASE Crash
    <2>1. UNCHANGED <<doc, late>> /\ \A w \in Worker : run'[w] = NoRun
      BY <1>14 DEF Crash
    <2>2. \A w \in Worker : LateFine(NoRun, late[w])
      BY <1>l DEF LateFine, NoRun
    <2> QED
      BY <1>l, <2>1, <2>2 DEF LateInv
  <1>15. CASE Stall
    BY <1>15, <1>k DEF Stall, Written
  <1> QED
    BY <1>1, <1>2, <1>3, <1>4, <1>5, <1>6, <1>7, <1>8, <1>9, <1>10, <1>11, <1>12, <1>13,
       <1>14, <1>15 DEF Next, Handles

\* A handler sends at most CheckEvery messages after the campaign was paused under it.
THEOREM PauseIsSeenCorrect == Spec => []PauseIsSeen
  <1>1. Init => LateInv
    <2> SUFFICES ASSUME Init PROVE LateInv
      OBVIOUS
    <2>1. NoRun.i \in Nat
      BY DEF NoRun
    <2> QED
      <3>1. \A w \in Worker : run[w] = NoRun /\ late[w] = 0
        BY DEF Init
      <3>2. LateFine(NoRun, 0)
        BY <2>1, NotLate
      <3> QED
        BY <3>1, <3>2 DEF LateInv
  <1>2. LateInv => PauseIsSeen
    <2>1. \A n \in 0..CheckEvery : n <= CheckEvery
      BY Sizes
    <2>2. LateInv => \A w \in Worker : late[w] \in 0..CheckEvery
      BY Zenon DEF LateInv, LateFine
    <2> QED
      BY <2>1, <2>2, Zenon DEF PauseIsSeen
  <1> QED
    BY <1>1, <1>2, LateNext, TypeInit, TypeNext, PTL DEF Spec
=============================================================================

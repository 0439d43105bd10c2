----------------------------- MODULE Ingress_proofs -----------------------------
(***************************************************************************)
(* For any messages, handlers, flows and times: one process works on a     *)
(* message once, as long as ids are kept twice as long as messages may be  *)
(* early or late, and a dialog takes one message for each step.            *)
(*                                                                         *)
(* Covered is the argument for the first: the entry of an id outlives the  *)
(* last moment its message can pass.  The second rests on it: a message    *)
(* at work is in no path yet (Fresh), and while all is orderly the paths   *)
(* of two senders, and what two handlers answer, are apart (Linear).       *)
(***************************************************************************)
EXTENDS Ingress, TLAPS

Busy(h) == run[h].pc # "idle"

\* The entry of a message that has passed lasts until the message is too old.
Covered ==
    \A l \in Letter :
        passed[l] > 0 => seen[l.id] # NULL /\ seen[l.id] >= l.stamp + Skew

InHand ==
    \A h \in Handler : Busy(h) =>
        /\ passed[run[h].letter] > 0
        /\ \A o \in Handler : Busy(o) /\ run[o].letter = run[h].letter => o = h

\* The messages of a path have passed and are no longer in hand.
Spent(path) ==
    \A i \in DOMAIN path :
        /\ passed[path[i]] > 0
        /\ \A h \in Handler : Busy(h) => run[h].letter # path[i]

Clean(path) == Distinct(path) /\ Spent(path)

Fresh ==
    /\ \A s \in Sender :
          /\ redis[s] # NULL => Clean(redis[s].path)
          /\ memory[s] # NULL => Clean(memory[s].path)
    /\ \A h \in Handler : Clean(run[h].path)

Of(path, s) == \A i \in DOMAIN path : path[i].sender = s

\* Who a path belongs to.
Own ==
    /\ \A s \in Sender :
          /\ redis[s] # NULL => Of(redis[s].path, s)
          /\ memory[s] # NULL => Of(memory[s].path, s)
    /\ \A h \in Handler : Busy(h) =>
          /\ Of(run[h].path, SenderOf(h))
          /\ \A o \in Handler : Busy(o) /\ SenderOf(o) = SenderOf(h) => o = h

\* An answered question is nowhere asked.
Closed(a) ==
    /\ Spent(a.question.path)
    /\ \A s \in Sender :
          /\ redis[s] # NULL => redis[s] # a.question
          /\ memory[s] # NULL => memory[s] # a.question
    /\ \A h \in Handler : run[h].pc = "clearing" => At(h) # a.question

Linear ==
    /\ ~restarted /\ Own
    /\ \A a \in answered :
          Closed(a) /\ \A b \in answered : a.question = b.question => a = b

\* A dialog that is resumed has begun.
Begun == \A h \in Handler : run[h].pc = "clearing" => Len(run[h].path) > 0

IInv ==
    /\ TypeOK /\ Begun /\ HandledOnce /\ Covered /\ InHand
    /\ ~restarted => Fresh
    /\ orderly => Linear

-----------------------------------------------------------------------------
(* Types *)

LEMMA LetterParts ==
    ASSUME NEW l \in Letter
    PROVE  l.id \in Id /\ l.sender \in Sender /\ l.stamp \in Int
BY LetterAssumption DEF Id, Sender

LEMMA NoRunType == NoRun \in RunRecord /\ NoRun.pc = "idle" /\ NoRun.path = <<>>
BY NumberAssumption DEF NoRun, RunRecord, Step

\* What a handler is, and its sender.
LEMMA HandlerParts ==
    ASSUME TypeOK, NEW h \in Handler, Busy(h)
    PROVE  /\ run[h] \in RunRecord /\ run[h].letter \in Letter
           /\ SenderOf(h) \in Sender /\ run[h].path \in Seq(Letter)
           /\ run[h].flow \in 1..Flows /\ At(h) \in Position
BY LetterParts DEF TypeOK, Busy, RunRecord, SenderOf, At, Position

\* A step of one handler that keeps its message or drops it keeps the type of run.
LEMMA RunType ==
    ASSUME TypeOK, NEW h \in Handler, NEW r \in RunRecord,
           run' = [run EXCEPT ![h] = r],
           r.pc # "idle" => r.letter \in Letter, Len(r.path) <= Waits
    PROVE  /\ run' \in [Handler -> RunRecord]
           /\ \A o \in Handler :
                 /\ run'[o].pc # "idle" => run'[o].letter \in Letter
                 /\ Len(run'[o].path) <= Waits
BY DEF TypeOK

LEMMA GotoRecord ==
    ASSUME TypeOK, NEW h \in Handler, NEW pc \in Step, Busy(h), Goto(h, pc)
    PROVE  \E r \in RunRecord :
              /\ run' = [run EXCEPT ![h] = r]
              /\ r.pc = pc /\ r.letter = run[h].letter /\ r.path = run[h].path
              /\ r.flow = run[h].flow
<1>1. run[h] \in RunRecord
  BY DEF TypeOK
<1>2. [run[h] EXCEPT !.pc = pc] \in RunRecord
  BY <1>1 DEF RunRecord
<1> WITNESS [run[h] EXCEPT !.pc = pc] \in RunRecord
<1> QED
  BY <1>1, <1>2 DEF Goto, RunRecord, TypeOK

LEMMA DoneRecord ==
    ASSUME TypeOK, NEW h \in Handler, Done(h)
    PROVE  /\ run' = [run EXCEPT ![h] = NoRun]
           /\ run' \in [Handler -> RunRecord]
           /\ \A o \in Handler :
                 /\ run'[o].pc # "idle" => run'[o].letter \in Letter
                 /\ Len(run'[o].path) <= Waits
<1>1. NoRun \in RunRecord /\ NoRun.pc = "idle" /\ Len(NoRun.path) <= Waits
  BY NoRunType, NumberAssumption DEF NoRun
<1> QED
  BY <1>1, RunType DEF Done

-----------------------------------------------------------------------------
(* Steps that take no message and store no position *)

Kept(h) == run'[h] = run[h]
Dropped(h) == run'[h] = NoRun

Goes(h) ==
    /\ Busy(h)
    /\ run'[h].letter = run[h].letter /\ run'[h].path \in {run[h].path, <<>>}
    /\ run'[h].pc \notin {"idle", "clearing"}

\* The handler resumes a stored dialog of its sender.
Resumes(h) ==
    /\ Busy(h)
    /\ run'[h].letter = run[h].letter /\ run'[h].pc = "clearing"
    /\ LET s == SenderOf(h) IN
          \/ redis[s] # NULL /\ At(h)' = redis[s] /\ run'[h].path = redis[s].path
          \/ memory[s] # NULL /\ At(h)' = memory[s] /\ run'[h].path = memory[s].path

Narrows ==
    /\ UNCHANGED <<passed, seen, restarted>>
    /\ \A s \in Sender :
          /\ redis'[s] # NULL => redis'[s] = redis[s]
          /\ memory'[s] # NULL => memory'[s] = memory[s]
    /\ orderly' => orderly
    /\ \A h \in Handler : Kept(h) \/ Dropped(h) \/ Goes(h) \/ Resumes(h)

Shrinks == Narrows /\ (orderly' => answered' = answered)

LEMMA StillBusy ==
    ASSUME Narrows, NEW h \in Handler, Busy(h)'
    PROVE  Busy(h) /\ run'[h].letter = run[h].letter /\ SenderOf(h)' = SenderOf(h)
BY NoRunType DEF Narrows, Kept, Dropped, Goes, Resumes, Busy, SenderOf

LEMMA NarrowsSpent ==
    ASSUME Narrows, NEW path, Spent(path)
    PROVE  Spent(path)'
BY StillBusy DEF Spent, Narrows

LEMMA NarrowsFresh ==
    ASSUME IInv, Narrows, ~restarted'
    PROVE  Fresh'
<1>1. Fresh
  BY DEF IInv, Narrows
<1>2. ASSUME NEW path, Clean(path) PROVE Clean(path)'
  BY <1>2, NarrowsSpent DEF Clean, Distinct
<1>3. ASSUME NEW s \in Sender
      PROVE  /\ (redis[s] # NULL => Clean(redis[s].path))'
             /\ (memory[s] # NULL => Clean(memory[s].path))'
  <2>1. ASSUME redis'[s] # NULL PROVE Clean(redis[s].path)'
    <3>1. PICK p : p = redis[s].path
      OBVIOUS
    <3>2. Clean(p) /\ redis'[s].path = p
      BY <1>1, <2>1, <3>1 DEF Narrows, Fresh
    <3>3. Clean(p)'
      BY <1>2, <3>2
    <3> QED
      BY <3>2, <3>3 DEF Clean, Distinct, Spent
  <2>2. ASSUME memory'[s] # NULL PROVE Clean(memory[s].path)'
    <3>1. PICK p : p = memory[s].path
      OBVIOUS
    <3>2. Clean(p) /\ memory'[s].path = p
      BY <1>1, <2>2, <3>1 DEF Narrows, Fresh
    <3>3. Clean(p)'
      BY <1>2, <3>2
    <3> QED
      BY <3>2, <3>3 DEF Clean, Distinct, Spent
  <2> QED
    BY <2>1, <2>2
<1>4. ASSUME NEW h \in Handler PROVE Clean(run[h].path)'
  <2>1. CASE Dropped(h)
    BY <2>1, NoRunType DEF Dropped, Clean, Distinct, Spent
  <2>2. ASSUME ~Dropped(h) PROVE \E p : Clean(p) /\ run'[h].path = p
    <3>1. CASE Kept(h) \/ Goes(h)
      <4>1. Clean(run[h].path) /\ Clean(<<>>)
        BY <1>1 DEF Fresh, Clean, Distinct, Spent
      <4> QED
        BY <3>1, <4>1 DEF Kept, Goes
    <3>2. CASE Resumes(h)
      <4>1. SenderOf(h) \in Sender
        BY <3>2, HandlerParts DEF IInv, Resumes
      <4> QED
        BY <1>1, <3>2, <4>1 DEF Resumes, Fresh
    <3> QED
      BY <2>2, <3>1, <3>2 DEF Narrows
  <2>3. CASE ~Dropped(h)
    <3>1. PICK p : Clean(p) /\ run'[h].path = p
      BY <2>2, <2>3
    <3>2. Clean(p)'
      BY <1>2, <3>1
    <3> QED
      BY <3>1, <3>2 DEF Clean, Distinct, Spent
  <2> QED
    BY <2>1, <2>3
<1> QED
  BY <1>3, <1>4 DEF Fresh

LEMMA NarrowsOwn ==
    ASSUME IInv, Narrows, orderly'
    PROVE  Own'
<1>1. Own
  BY DEF IInv, Narrows, Linear
<1>2. ASSUME NEW s \in Sender
      PROVE  /\ redis'[s] # NULL => Of(redis'[s].path, s)
             /\ memory'[s] # NULL => Of(memory'[s].path, s)
  BY <1>1 DEF Narrows, Own
<1>3. ASSUME NEW h \in Handler, Busy(h)'
      PROVE  /\ Of(run'[h].path, SenderOf(h)')
             /\ \A o \in Handler : Busy(o)' /\ SenderOf(o)' = SenderOf(h)' => o = h
  <2>1. Busy(h) /\ SenderOf(h)' = SenderOf(h)
    BY <1>3, StillBusy
  <2>2. Of(run'[h].path, SenderOf(h))
    <3>1. SenderOf(h) \in Sender
      BY <2>1, HandlerParts DEF IInv
    <3> QED
      BY <1>1, <1>3, <2>1, <3>1, NoRunType
      DEF Narrows, Kept, Dropped, Goes, Resumes, Own, Busy, Of
  <2>3. ASSUME NEW o \in Handler, Busy(o)', SenderOf(o)' = SenderOf(h)' PROVE o = h
    <3>1. Busy(o) /\ SenderOf(o)' = SenderOf(o)
      BY <2>3, StillBusy
    <3> QED
      BY <1>1, <2>1, <2>3, <3>1 DEF Own
  <2> QED
    BY <2>1, <2>2, <2>3
<1> QED
  BY <1>2, <1>3 DEF Own, Of

LEMMA NarrowsClosed ==
    ASSUME IInv, Narrows, NEW a, Closed(a)
    PROVE  Closed(a)'
<1>1. Spent(a.question.path)'
  BY NarrowsSpent DEF Closed
<1>2. ASSUME NEW s \in Sender
      PROVE  /\ redis'[s] # NULL => redis'[s] # a.question
             /\ memory'[s] # NULL => memory'[s] # a.question
  BY DEF Narrows, Closed
<1>3. ASSUME NEW h \in Handler, run'[h].pc = "clearing" PROVE At(h)' # a.question
  <2>1. CASE Kept(h)
    BY <1>3, <2>1 DEF Kept, Closed, At
  <2>2. CASE Resumes(h)
    <3>1. SenderOf(h) \in Sender
      BY <2>2, HandlerParts DEF IInv, Resumes
    <3> QED
      BY <2>2, <3>1 DEF Resumes, Closed
  <2> QED
    BY <1>3, <2>1, <2>2, NoRunType DEF Narrows, Dropped, Goes
<1> QED
  BY <1>1, <1>2, <1>3 DEF Closed

LEMMA NarrowsIInv ==
    ASSUME IInv, Narrows, TypeOK', orderly' => Linear'
    PROVE  IInv'
<1>1. HandledOnce' /\ Covered'
  BY DEF IInv, Narrows, HandledOnce, Covered
<1>2. InHand'
  BY StillBusy DEF IInv, InHand, Narrows
<1>3. Begun'
  <2>1. ASSUME NEW h \in Handler, run'[h].pc = "clearing" PROVE Len(run'[h].path) > 0
    <3>1. CASE Kept(h)
      BY <2>1, <3>1 DEF Kept, IInv, Begun
    <3>2. CASE Resumes(h)
      <4>1. SenderOf(h) \in Sender
        BY <3>2, HandlerParts DEF IInv, Resumes
      <4> QED
        BY <3>2, <4>1, NumberAssumption DEF Resumes, IInv, TypeOK
    <3> QED
      BY <2>1, <3>1, <3>2, NoRunType DEF Narrows, Dropped, Goes
  <2> QED
    BY <2>1 DEF Begun
<1> QED
  BY <1>1, <1>2, <1>3, NarrowsFresh DEF IInv

LEMMA ShrinksIInv ==
    ASSUME IInv, Shrinks, TypeOK'
    PROVE  IInv'
<1>1. Narrows
  BY DEF Shrinks
<1>2. ASSUME orderly' PROVE Linear'
  <2>1. Linear /\ answered' = answered /\ ~restarted'
    BY <1>2 DEF IInv, Shrinks, Narrows, Linear
  <2>2. Own'
    BY <1>1, <1>2, NarrowsOwn
  <2>3. \A a \in answered : Closed(a)'
    BY <1>1, <2>1, NarrowsClosed DEF Linear
  <2> QED
    BY <2>1, <2>2, <2>3 DEF Linear
<1> QED
  BY <1>1, <1>2, NarrowsIInv

\* A handler that goes on to an await with its message and its path.
LEMMA GotoGoes ==
    ASSUME TypeOK, NEW h \in Handler, NEW pc \in Step, Busy(h), Goto(h, pc), pc # "idle"
    PROVE  /\ run' \in [Handler -> RunRecord]
           /\ \A o \in Handler :
                 /\ run'[o].pc # "idle" => run'[o].letter \in Letter
                 /\ Len(run'[o].path) <= Waits
           /\ pc # "clearing" => Goes(h)
           /\ \A o \in Handler : o # h => Kept(o)
<1>1. PICK r \in RunRecord :
         /\ run' = [run EXCEPT ![h] = r]
         /\ r.pc = pc /\ r.letter = run[h].letter /\ r.path = run[h].path
         /\ r.flow = run[h].flow
  BY GotoRecord
<1>2. r.letter \in Letter /\ Len(r.path) <= Waits
  BY <1>1 DEF TypeOK, Busy
<1>3. run'[h] = r /\ \A o \in Handler : o # h => run'[o] = run[o]
  BY <1>1 DEF TypeOK
<1>4. /\ run' \in [Handler -> RunRecord]
      /\ \A o \in Handler :
            /\ run'[o].pc # "idle" => run'[o].letter \in Letter
            /\ Len(run'[o].path) <= Waits
  BY <1>1, <1>2, RunType
<1> QED
  BY <1>1, <1>3, <1>4 DEF Goes, Kept

\* A handler that goes on to the next flow, or to the agent, forgets its path.
LEMMA NextFlowGoes ==
    ASSUME TypeOK, NEW h \in Handler, Busy(h), NextFlow(h)
    PROVE  /\ run' \in [Handler -> RunRecord]
           /\ \A o \in Handler :
                 /\ run'[o].pc # "idle" => run'[o].letter \in Letter
                 /\ Len(run'[o].path) <= Waits
           /\ Goes(h)
           /\ \A o \in Handler : o # h => Kept(o)
<1>1. run[h] \in RunRecord /\ run[h].letter \in Letter /\ run[h].flow \in 1..Flows
  BY DEF TypeOK, Busy, RunRecord
<1>2. PICK q : q = [run[h] EXCEPT !.path = <<>>]
  OBVIOUS
<1>n. <<>> \in Seq(Letter)
  OBVIOUS
<1>e. PICK e \in Seq(Letter) : e = <<>>
  BY <1>n, Zenon
<1>p. /\ q \in RunRecord /\ q.letter = run[h].letter /\ q.path = e
      /\ q.flow \in 1..Flows
  <2>1. q = [run[h] EXCEPT !.path = e]
    BY <1>2, <1>e
  <2> QED
    BY <1>1, <2>1 DEF RunRecord
<1>r. PICK r : r = IF q.flow < Flows THEN [q EXCEPT !.pc = "asking", !.flow = q.flow + 1]
                                     ELSE [q EXCEPT !.pc = "answering"]
  OBVIOUS
<1>3. /\ r \in RunRecord /\ r.pc \in {"asking", "answering"}
      /\ r.letter = run[h].letter /\ r.path = e
  <2>1. CASE q.flow < Flows
    <3>1. r = [q EXCEPT !.pc = "asking", !.flow = q.flow + 1] /\ q.flow + 1 \in 1..Flows
      BY <1>p, <1>r, <2>1, NumberAssumption
    <3> QED
      BY <1>p, <3>1 DEF RunRecord, Step
  <2>2. CASE ~(q.flow < Flows)
    <3>1. r = [q EXCEPT !.pc = "answering"]
      BY <1>r, <2>2
    <3> QED
      BY <1>p, <3>1 DEF RunRecord, Step
  <2> QED
    BY <2>1, <2>2
<1>4. run' = [run EXCEPT ![h] = r]
  BY <1>2, <1>r, Zenon DEF NextFlow
<1>5. run'[h] = r /\ \A o \in Handler : o # h => Kept(o)
  BY <1>4 DEF TypeOK, Kept
<1>6. Goes(h)
  BY <1>e, <1>3, <1>5 DEF Goes
<1>7. r.letter \in Letter /\ Len(r.path) <= Waits
  BY <1>1, <1>e, <1>3, NumberAssumption
<1> QED
  BY <1>3, <1>4, <1>5, <1>6, <1>7, RunType

LEMMA DoneShrinks ==
    ASSUME TypeOK, NEW h \in Handler, Done(h)
    PROVE  \A o \in Handler : Kept(o) \/ Dropped(o)
BY DEF TypeOK, Done, Kept, Dropped

LEMMA ResolveStep ==
    ASSUME IInv, NEW h \in Handler, Resolve(h)
    PROVE  IInv'
<1>1. TypeOK /\ Busy(h)
  BY DEF IInv, Resolve, Busy
<1>2. CASE Goto(h, "asking") \/ Goto(h, "answering")
  <2>1. /\ run' \in [Handler -> RunRecord]
        /\ \A o \in Handler :
              /\ run'[o].pc # "idle" => run'[o].letter \in Letter
              /\ Len(run'[o].path) <= Waits
        /\ Goes(h) /\ \A o \in Handler : o # h => Kept(o)
    BY <1>1, <1>2, GotoGoes DEF Step
  <2>2. TypeOK'
    BY <1>1, <2>1 DEF TypeOK, Resolve, caches, history
  <2>3. Shrinks
    BY <2>1 DEF Shrinks, Narrows, Resolve, caches, history
  <2> QED
    BY <2>2, <2>3, ShrinksIInv
<1>3. CASE Done(h)
  <2>1. TypeOK'
    BY <1>1, <1>3, DoneRecord DEF TypeOK, Resolve, caches, history
  <2>2. Shrinks
    BY <1>1, <1>3, DoneShrinks DEF Shrinks, Narrows, Resolve, caches, history
  <2> QED
    BY <2>1, <2>2, ShrinksIInv
<1> QED
  BY <1>2, <1>3 DEF Resolve

LEMMA EndStep ==
    ASSUME IInv, NEW h \in Handler, Finish(h) \/ Answer(h)
    PROVE  IInv'
<1>1. TypeOK /\ Done(h)
  BY DEF IInv, Finish, Answer
<1>2. TypeOK'
  BY <1>1, DoneRecord DEF TypeOK, Finish, Answer, caches, history
<1>3. Shrinks
  BY <1>1, DoneShrinks DEF Shrinks, Narrows, Finish, Answer, caches, history
<1> QED
  BY <1>2, <1>3, ShrinksIInv

LEMMA FailStep ==
    ASSUME IInv, NEW h \in Handler, Fail(h)
    PROVE  IInv'
<1>1. TypeOK /\ Busy(h) /\ NextFlow(h)
  BY DEF IInv, Fail, Busy
<1>2. /\ run' \in [Handler -> RunRecord]
      /\ \A o \in Handler :
            /\ run'[o].pc # "idle" => run'[o].letter \in Letter
            /\ Len(run'[o].path) <= Waits
      /\ Goes(h) /\ \A o \in Handler : o # h => Kept(o)
  BY <1>1, NextFlowGoes
<1>3. TypeOK'
  BY <1>1, <1>2 DEF TypeOK, Fail, caches, history
<1>4. Shrinks
  BY <1>2 DEF Shrinks, Narrows, Fail, caches, history
<1> QED
  BY <1>3, <1>4, ShrinksIInv

LEMMA EnvironmentStep ==
    ASSUME IInv, Tick \/ (\E s \in Sender : Expire(s)) \/ ConnectionChanges \/ UNCHANGED vars
    PROVE  IInv'
<1>1. CASE Tick
  <2>1. TypeOK'
    BY <1>1 DEF IInv, TypeOK, Tick, caches, history
  <2>2. Shrinks
    BY <1>1 DEF Shrinks, Narrows, Kept, Tick, caches, history
  <2> QED
    BY <2>1, <2>2, ShrinksIInv
<1>2. ASSUME NEW s \in Sender, Expire(s) PROVE IInv'
  <2>1. TypeOK'
    BY <1>2 DEF IInv, TypeOK, Expire, caches, history
  <2>2. Shrinks
    BY <1>2 DEF IInv, TypeOK, Shrinks, Narrows, Kept, Expire, caches, history
  <2> QED
    BY <2>1, <2>2, ShrinksIInv
<1>3. CASE ConnectionChanges
  <2>1. TypeOK'
    BY <1>3 DEF IInv, TypeOK, ConnectionChanges, Disorder, caches, history
  <2>2. Shrinks
    BY <1>3 DEF Shrinks, Narrows, Kept, ConnectionChanges, Disorder, caches, history
  <2> QED
    BY <2>1, <2>2, ShrinksIInv
<1>4. CASE UNCHANGED vars
  <2>1. TypeOK'
    BY <1>4 DEF IInv, TypeOK, vars, caches, history
  <2>2. Shrinks
    BY <1>4 DEF Shrinks, Narrows, Kept, vars, caches, history
  <2> QED
    BY <2>1, <2>2, ShrinksIInv
<1> QED
  BY <1>1, <1>2, <1>3, <1>4

\* A position is its flow and its path.
LEMMA PositionIs ==
    ASSUME NEW p \in Position, NEW f, NEW q, p.flow = f, p.path = q
    PROVE  p = [flow |-> f, path |-> q]
BY DEF Position

\* A handler that finds a position, and what becomes of it.
LEMMA FollowStep ==
    ASSUME TypeOK, NEW h \in Handler, run[h].pc = "asking", NEW pos \in Position \cup {NULL},
           Follow(h, pos),
           pos # NULL => /\ pos = redis[SenderOf(h)] \/ pos = memory[SenderOf(h)]
                         /\ Len(pos.path) <= Waits
    PROVE  /\ run' \in [Handler -> RunRecord]
           /\ \A o \in Handler :
                 /\ run'[o].pc # "idle" => run'[o].letter \in Letter
                 /\ Len(run'[o].path) <= Waits
           /\ Goes(h) \/ Resumes(h)
           /\ \A o \in Handler : o # h => Kept(o)
<1>1. Busy(h) /\ run[h] \in RunRecord /\ run[h].letter \in Letter /\ Len(run[h].path) <= Waits
  BY DEF Busy, TypeOK
<1>2. CASE pos # NULL /\ pos.flow = run[h].flow
  <2>1. PICK r : r = [run[h] EXCEPT !.pc = "clearing", !.path = pos.path]
    OBVIOUS
  <2>2. pos \in Position
    BY <1>2
  <2>3. /\ r \in RunRecord /\ r.pc = "clearing" /\ r.path = pos.path
        /\ r.letter = run[h].letter /\ r.flow = run[h].flow
    BY <1>1, <2>1, <2>2 DEF RunRecord, Step, Position
  <2>4. run' = [run EXCEPT ![h] = r]
    BY <1>2, <2>1 DEF Follow, TypeOK
  <2>5. run'[h] = r /\ \A o \in Handler : o # h => Kept(o)
    BY <2>4 DEF TypeOK, Kept
  <2>6. At(h)' = pos
    BY <1>2, <2>2, <2>3, <2>5, PositionIs DEF At
  <2>7. Resumes(h)
    BY <1>1, <1>2, <2>3, <2>5, <2>6 DEF Resumes
  <2>8. r.letter \in Letter /\ Len(r.path) <= Waits
    BY <1>1, <1>2, <2>3
  <2> HIDE DEF Resumes
  <2> QED
    BY <2>3, <2>4, <2>5, <2>7, <2>8, RunType
<1>3. CASE Goto(h, "walking")
  BY <1>1, <1>3, GotoGoes DEF Step
<1>4. CASE NextFlow(h)
  BY <1>1, <1>4, NextFlowGoes
<1> QED
  BY <1>2, <1>3, <1>4 DEF Follow

LEMMA AskStep ==
    ASSUME IInv, NEW h \in Handler, Ask(h)
    PROVE  IInv'
<1>1. TypeOK /\ Busy(h) /\ SenderOf(h) \in Sender /\ run[h].pc = "asking"
  BY HandlerParts DEF IInv, Ask, Busy
<1>2. PICK pos \in Position \cup {NULL} :
         /\ Follow(h, pos)
         /\ pos # NULL => /\ pos = redis[SenderOf(h)] \/ pos = memory[SenderOf(h)]
                          /\ Len(pos.path) <= Waits
  <2>1. /\ redis[SenderOf(h)] \in Position \cup {NULL}
        /\ memory[SenderOf(h)] \in Position \cup {NULL}
        /\ redis[SenderOf(h)] # NULL => Len(redis[SenderOf(h)].path) <= Waits
        /\ memory[SenderOf(h)] # NULL => Len(memory[SenderOf(h)].path) <= Waits
    BY <1>1, NumberAssumption DEF TypeOK
  <2>2. CASE Follow(h, NULL)
    BY <2>2
  <2>3. CASE Follow(h, Cached(SenderOf(h)))
    <3>1. Cached(SenderOf(h)) \in {redis[SenderOf(h)], memory[SenderOf(h)]}
      BY DEF Cached
    <3> QED
      BY <2>1, <2>3, <3>1
  <2> QED
    BY <2>2, <2>3 DEF Ask
<1>3. /\ run' \in [Handler -> RunRecord]
      /\ \A o \in Handler :
            /\ run'[o].pc # "idle" => run'[o].letter \in Letter
            /\ Len(run'[o].path) <= Waits
      /\ Goes(h) \/ Resumes(h)
      /\ \A o \in Handler : o # h => Kept(o)
  BY <1>1, <1>2, FollowStep
<1>4. TypeOK'
  BY <1>1, <1>3 DEF TypeOK, Ask, Disorder, caches
<1>5. Shrinks
  BY <1>3 DEF Shrinks, Narrows, Ask, Disorder, caches
<1> QED
  BY <1>4, <1>5, ShrinksIInv

LEMMA ClearStep ==
    ASSUME IInv, NEW h \in Handler, Clear(h)
    PROVE  IInv'
<1>1. /\ TypeOK /\ Busy(h) /\ SenderOf(h) \in Sender /\ run[h].pc = "clearing"
      /\ run[h].letter \in Letter /\ At(h) \in Position
  BY HandlerParts DEF IInv, Clear, Busy
<1>2. /\ run' \in [Handler -> RunRecord]
      /\ \A o \in Handler :
            /\ run'[o].pc # "idle" => run'[o].letter \in Letter
            /\ Len(run'[o].path) <= Waits
      /\ Goes(h) /\ \A o \in Handler : o # h => Kept(o)
  BY <1>1, GotoGoes DEF Clear, Step
<1>3. PICK new : new = [question |-> At(h), answer |-> run[h].letter]
  OBVIOUS
<1>4. /\ new \in [question : Position, answer : Letter]
      /\ new.question = At(h)
  BY <1>1, <1>3
<1>5. orderly' => orderly /\ answered' = answered \cup {new}
  BY <1>3 DEF Clear, Answered, Disorder
<1>6. TypeOK'
  <2>1. answered' \subseteq [question : Position, answer : Letter]
    BY <1>1, <1>3, <1>4 DEF Clear, Answered, Disorder, TypeOK
  <2>2. orderly' \in BOOLEAN
    BY <1>1 DEF Clear, Disorder, TypeOK
  <2>3. /\ redis' \in [Sender -> Position \cup {NULL}]
        /\ memory' \in [Sender -> Position \cup {NULL}]
        /\ \A s \in Sender :
              /\ redis'[s] # NULL => Len(redis'[s].path) \in 1..Waits
              /\ memory'[s] # NULL => Len(memory'[s].path) \in 1..Waits
    BY <1>1 DEF Clear, TypeOK
  <2> QED
    BY <1>1, <1>2, <2>1, <2>2, <2>3 DEF Clear, TypeOK
<1>7. Narrows
  <2>1. \A s \in Sender :
          /\ redis'[s] # NULL => redis'[s] = redis[s]
          /\ memory'[s] # NULL => memory'[s] = memory[s]
    BY <1>1 DEF Clear, TypeOK
  <2> QED
    BY <1>2, <1>5, <2>1 DEF Clear, Narrows
<1>8. ASSUME orderly' PROVE Linear'
  <2>1. Linear /\ Fresh /\ answered' = answered \cup {new} /\ ~restarted'
    BY <1>5, <1>7, <1>8 DEF IInv, Linear, Narrows
  <2>2. Own'
    BY <1>7, <1>8, NarrowsOwn
  <2>3. ASSUME NEW a \in answered PROVE Closed(a)' /\ a.question # At(h)
    <3>1. Closed(a)
      BY <2>1 DEF Linear
    <3> QED
      BY <1>1, <1>7, <3>1, NarrowsClosed DEF Closed
  <2>4. Spent(new.question.path)'
    BY <1>4, <1>7, <2>1, NarrowsSpent DEF Fresh, Clean, At
  <2>5. /\ Len(run[h].path) > 0 /\ run[h].path \in Seq(Letter)
        /\ Of(run[h].path, SenderOf(h))
    BY <1>1, <2>1, HandlerParts DEF IInv, Begun, Linear, Own
  <2>6. new.question.path[1].sender = SenderOf(h) /\ 1 \in DOMAIN new.question.path
    BY <1>4, <2>5 DEF Of, At
  <2>7. ASSUME NEW s \in Sender
        PROVE  /\ redis'[s] # NULL => redis'[s] # new.question
               /\ memory'[s] # NULL => memory'[s] # new.question
    <3>1. redis'[SenderOf(h)] = NULL /\ memory'[SenderOf(h)] = NULL
      BY <1>1, <1>8 DEF Clear, TypeOK, Disorder
    <3>2. CASE s # SenderOf(h)
      <4>1. Of(redis'[s].path, s) \/ redis'[s] = NULL
        BY <2>2 DEF Own, Of
      <4>2. Of(memory'[s].path, s) \/ memory'[s] = NULL
        BY <2>2 DEF Own, Of
      <4> QED
        BY <2>6, <3>2, <4>1, <4>2 DEF Of
    <3> QED
      BY <3>1, <3>2
  <2>8. ASSUME NEW o \in Handler, run'[o].pc = "clearing" PROVE At(o)' # new.question
    <3>1. o # h /\ run'[o] = run[o]
      BY <1>2, <2>8 DEF Goes, Kept
    <3>2. Of(run[o].path, SenderOf(o)) /\ SenderOf(o) # SenderOf(h)
      BY <1>1, <2>1, <2>8, <3>1 DEF Linear, Own, Busy
    <3>3. At(o)'.path = run[o].path
      BY <3>1 DEF At
    <3> QED
      BY <2>6, <3>2, <3>3 DEF Of
  <2>9. Closed(new)'
    BY <2>4, <2>7, <2>8 DEF Closed
  <2> QED
    BY <1>4, <2>1, <2>2, <2>3, <2>9 DEF Linear
<1> QED
  BY <1>6, <1>7, <1>8, NarrowsIInv

-----------------------------------------------------------------------------
(* A message comes in *)

LEMMA ReceiveStep ==
    ASSUME IInv, NEW h \in Handler, NEW l \in Letter, Receive(h, l)
    PROVE  IInv'
<1>1. TypeOK /\ ~Busy(h) /\ l.id \in Id /\ l.sender \in Sender /\ l.stamp \in Int
  BY LetterParts DEF IInv, Receive, Busy
<1>2. /\ seen' = [seen EXCEPT ![l.id] = now + Ttl]
      /\ passed' = [passed EXCEPT ![l] = @ + 1]
      /\ redis' = redis /\ memory' = memory /\ now' = now
      /\ UNCHANGED <<connected, restarted>>
  BY DEF Receive, caches
<1>3. PICK r : r = [NoRun EXCEPT !.pc = "resolving", !.letter = l]
  OBVIOUS
<1>4. /\ r \in RunRecord /\ r.pc = "resolving" /\ r.letter = l /\ r.path = <<>>
  BY <1>3, NoRunType DEF RunRecord, Step
<1>5. run' = [run EXCEPT ![h] = r]
  BY <1>3 DEF Receive
<1>6. run'[h] = r /\ \A o \in Handler : o # h => run'[o] = run[o]
  BY <1>1, <1>5 DEF TypeOK
<1>7. passed[l] = 0
  <2>1. passed[l] \in Nat /\ seen[l.id] \in Int \cup {NULL} /\ now \in Nat
    BY <1>1 DEF TypeOK
  <2>2. now <= l.stamp + Skew
    BY <1>1, <2>1, NumberAssumption DEF Receive, InTime
  <2>3. passed[l] > 0 => seen[l.id] # NULL /\ seen[l.id] >= l.stamp + Skew
    BY DEF IInv, Covered
  <2>4. seen[l.id] = NULL \/ ~(now <= seen[l.id])
    BY DEF Receive, Remembers
  <2> QED
    BY <1>1, <2>1, <2>2, <2>3, <2>4, NumberAssumption
<1>8. passed'[l] = 1 /\ \A k \in Letter : k # l => passed'[k] = passed[k]
  BY <1>1, <1>2, <1>7 DEF TypeOK
<1>9. \A k \in Letter : passed[k] \in Nat
  BY <1>1 DEF TypeOK
<1>10. TypeOK'
  <2>1. run' \in [Handler -> RunRecord]
        /\ \A o \in Handler :
              /\ run'[o].pc # "idle" => run'[o].letter \in Letter
              /\ Len(run'[o].path) <= Waits
    <3>1. Len(r.path) <= Waits
      BY <1>4, NumberAssumption
    <3> QED
      BY <1>1, <1>4, <1>5, <3>1, RunType
  <2>2. seen' \in [Id -> Int \cup {NULL}] /\ passed' \in [Letter -> Nat]
    BY <1>1, <1>2, NumberAssumption DEF TypeOK
  <2>3. answered' \subseteq [question : Position, answer : Letter] /\ orderly' \in BOOLEAN
    BY <1>1 DEF Receive, Disorder, TypeOK
  <2> QED
    BY <1>1, <1>2, <2>1, <2>2, <2>3 DEF TypeOK
<1>11. HandledOnce'
  BY <1>8 DEF IInv, HandledOnce
<1>12. Covered'
  <2>1. ASSUME NEW k \in Letter, passed'[k] > 0
        PROVE  seen'[k.id] # NULL /\ seen'[k.id] >= k.stamp + Skew
    <3>1. k.id \in Id /\ k.stamp \in Int /\ now \in Nat /\ seen[k.id] \in Int \cup {NULL}
      BY <1>1, LetterParts DEF TypeOK
    <3>2. CASE k = l
      <4>1. seen'[k.id] = now + Ttl
        BY <1>1, <1>2, <3>2 DEF TypeOK
      <4>2. l.stamp - now <= Skew
        BY DEF Receive, InTime
      <4> QED
        BY <1>1, <3>1, <3>2, <4>1, <4>2, NumberAssumption, NullAssumption, TtlAssumption
    <3>3. CASE k # l
      <4>1. seen[k.id] # NULL /\ seen[k.id] >= k.stamp + Skew
        BY <1>8, <2>1, <3>3 DEF IInv, Covered
      <4>2. k.id # l.id => seen'[k.id] = seen[k.id]
        BY <1>1, <1>2, <3>1 DEF TypeOK
      <4>3. k.id = l.id => seen'[k.id] = now + Ttl /\ ~(now <= seen[k.id])
        BY <1>1, <1>2, <4>1 DEF TypeOK, Receive, Remembers
      <4> QED
        BY <3>1, <4>1, <4>2, <4>3, NumberAssumption, NullAssumption
    <3> QED
      BY <3>2, <3>3
  <2> QED
    BY <2>1 DEF Covered
<1>13. ASSUME NEW o \in Handler, Busy(o)
       PROVE  run[o].letter # l /\ run[o].letter \in Letter /\ o # h
  <2>1. passed[run[o].letter] > 0
    BY <1>13 DEF IInv, InHand
  <2> QED
    BY <1>1, <1>7, <1>13, <2>1, HandlerParts
<1>14. InHand'
  <2>1. ASSUME NEW g \in Handler, Busy(g)' PROVE g = h \/ Busy(g)
    BY <1>6, <2>1 DEF Busy
  <2>2. ASSUME NEW g \in Handler, Busy(g)'
        PROVE  /\ passed'[run'[g].letter] > 0
               /\ \A o \in Handler : Busy(o)' /\ run'[o].letter = run'[g].letter => o = g
    <3>1. passed'[run'[g].letter] > 0
      BY <1>4, <1>6, <1>8, <1>13, <2>1, <2>2 DEF IInv, InHand
    <3>2. ASSUME NEW o \in Handler, Busy(o)', run'[o].letter = run'[g].letter PROVE o = g
      BY <1>4, <1>6, <1>13, <2>1, <2>2, <3>2 DEF IInv, InHand
    <3> QED
      BY <3>1, <3>2
  <2> QED
    BY <2>2 DEF InHand, Busy
<1>15. Begun'
  BY <1>4, <1>6 DEF IInv, Begun
<1>16. ASSUME NEW path \in Seq(Letter), Spent(path) PROVE Spent(path)'
  <2>1. ASSUME NEW i \in DOMAIN path
        PROVE  /\ passed'[path[i]] > 0
               /\ \A g \in Handler : Busy(g)' => run'[g].letter # path[i]
    <3>1. path[i] \in Letter /\ passed[path[i]] > 0
      BY <1>16, <2>1 DEF Spent
    <3>2. path[i] # l
      BY <1>7, <3>1
    <3>3. ASSUME NEW g \in Handler, Busy(g)' PROVE run'[g].letter # path[i]
      BY <1>4, <1>6, <1>16, <3>2, <3>3 DEF Spent, Busy
    <3> QED
      BY <1>8, <3>1, <3>2, <3>3
  <2> QED
    BY <2>1 DEF Spent
<1>17. ASSUME ~restarted' PROVE Fresh'
  <2>1. Fresh
    BY <1>2, <1>17 DEF IInv
  <2>2. ASSUME NEW path \in Seq(Letter), Clean(path) PROVE Clean(path)'
    BY <1>16, <2>2 DEF Clean, Distinct
  <2>3. ASSUME NEW s \in Sender
        PROVE  /\ (redis[s] # NULL => Clean(redis[s].path))'
               /\ (memory[s] # NULL => Clean(memory[s].path))'
    <3>1. /\ redis[s] # NULL => redis[s].path \in Seq(Letter)
          /\ memory[s] # NULL => memory[s].path \in Seq(Letter)
      BY <1>1 DEF TypeOK, Position
    <3>2. ASSUME redis[s] # NULL PROVE Clean(redis[s].path)'
      <4>1. PICK p : p = redis[s].path
        OBVIOUS
      <4>2. Clean(p)'
        BY <2>1, <2>2, <3>1, <3>2, <4>1 DEF Fresh
      <4> QED
        BY <1>2, <4>1, <4>2 DEF Clean, Distinct, Spent
    <3>3. ASSUME memory[s] # NULL PROVE Clean(memory[s].path)'
      <4>1. PICK p : p = memory[s].path
        OBVIOUS
      <4>2. Clean(p)'
        BY <2>1, <2>2, <3>1, <3>3, <4>1 DEF Fresh
      <4> QED
        BY <1>2, <4>1, <4>2 DEF Clean, Distinct, Spent
    <3> QED
      BY <1>2, <3>2, <3>3
  <2>4. ASSUME NEW o \in Handler PROVE Clean(run[o].path)'
    <3>1. CASE o = h
      BY <1>4, <1>6, <3>1 DEF Clean, Distinct, Spent
    <3>2. CASE o # h
      <4>1. PICK p : p = run[o].path
        OBVIOUS
      <4>2. p \in Seq(Letter) /\ Clean(p)
        BY <1>1, <2>1, <4>1 DEF Fresh, TypeOK, RunRecord
      <4>3. Clean(p)' /\ run'[o].path = p
        BY <1>6, <2>2, <3>2, <4>1, <4>2
      <4> QED
        BY <4>3 DEF Clean, Distinct, Spent
    <3> QED
      BY <3>1, <3>2
  <2> QED
    BY <2>3, <2>4 DEF Fresh
<1>18. ASSUME orderly' PROVE Linear'
  <2>1. /\ Linear /\ answered' = answered
        /\ \A o \in Handler : Busy(o) => SenderOf(o) # l.sender
    BY <1>18 DEF IInv, Receive, Disorder, Busy
  <2>2. Own'
    <3>1. \A s \in Sender :
            /\ redis'[s] # NULL => Of(redis'[s].path, s)
            /\ memory'[s] # NULL => Of(memory'[s].path, s)
      BY <1>2, <2>1 DEF Linear, Own
    <3>2. ASSUME NEW g \in Handler, Busy(g)'
          PROVE  /\ Of(run'[g].path, SenderOf(g)')
                 /\ \A o \in Handler : Busy(o)' /\ SenderOf(o)' = SenderOf(g)' => o = g
      <4>1. \A o \in Handler :
              Busy(o)' /\ o # h => Busy(o) /\ SenderOf(o)' = SenderOf(o)
        BY <1>6 DEF Busy, SenderOf
      <4>2. SenderOf(h)' = l.sender /\ Of(run'[h].path, SenderOf(h)')
        BY <1>4, <1>6 DEF SenderOf, Of
      <4>3. Of(run'[g].path, SenderOf(g)')
        BY <1>6, <2>1, <3>2, <4>1, <4>2 DEF Linear, Own
      <4> QED
        BY <2>1, <3>2, <4>1, <4>2, <4>3 DEF Linear, Own
    <3> QED
      BY <3>1, <3>2 DEF Own, Of
  <2>3. ASSUME NEW a \in answered PROVE Closed(a)'
    <3>1. Closed(a) /\ a.question.path \in Seq(Letter)
      BY <1>1, <2>1 DEF Linear, TypeOK, Position
    <3>2. Spent(a.question.path)'
      BY <1>16, <3>1 DEF Closed
    <3>3. \A o \in Handler : run'[o].pc = "clearing" => At(o)' # a.question
      BY <1>4, <1>6, <3>1 DEF Closed, At
    <3> QED
      BY <1>2, <3>1, <3>2, <3>3 DEF Closed
  <2> QED
    BY <1>2, <2>1, <2>2, <2>3 DEF Linear
<1> QED
  BY <1>10, <1>11, <1>12, <1>14, <1>15, <1>17, <1>18 DEF IInv

-----------------------------------------------------------------------------
(* A dialog waits *)

LEMMA WaitStep ==
    ASSUME IInv, NEW h \in Handler, Wait(h)
    PROVE  IInv'
<1>1. /\ TypeOK /\ Busy(h) /\ SenderOf(h) \in Sender /\ run[h].pc = "walking"
      /\ run[h].letter \in Letter /\ run[h].path \in Seq(Letter) /\ run[h].flow \in 1..Flows
  BY HandlerParts DEF IInv, Wait, Busy
<1>2. PICK p : p = Append(run[h].path, run[h].letter)
  OBVIOUS
<1>3. PICK new : new = Here(h)
  OBVIOUS
<1>4. /\ p \in Seq(Letter) /\ Len(p) = Len(run[h].path) + 1 /\ Len(p) \in 1..Waits
      /\ \A i \in DOMAIN run[h].path : p[i] = run[h].path[i]
      /\ p[Len(p)] = run[h].letter
  BY <1>1, <1>2, NumberAssumption DEF Wait
<1>5. \A i \in DOMAIN p : i = Len(p) \/ i \in DOMAIN run[h].path
  BY <1>1, <1>4
<1>6. new \in Position /\ new.path = p
  BY <1>1, <1>2, <1>3, <1>4 DEF Here, Position
<1>7. /\ memory' = [memory EXCEPT ![SenderOf(h)] = new]
      /\ redis' = [redis EXCEPT ![SenderOf(h)] = new] \/ redis' = redis
      /\ UNCHANGED <<now, seen, connected, passed, restarted>>
      /\ orderly' => orderly /\ answered' = answered
      /\ Done(h)
  BY <1>3 DEF Wait, Disorder
<1>8. \A s \in Sender :
        /\ redis'[s] = redis[s] \/ (s = SenderOf(h) /\ redis'[s] = new)
        /\ memory'[s] = memory[s] \/ (s = SenderOf(h) /\ memory'[s] = new)
  BY <1>1, <1>7 DEF TypeOK
<1>9. run'[h] = NoRun /\ \A o \in Handler : o # h => run'[o] = run[o]
  BY <1>1, <1>7 DEF TypeOK, Done
<1>10. \A o \in Handler :
         Busy(o)' => /\ o # h /\ Busy(o) /\ run'[o] = run[o]
                     /\ SenderOf(o)' = SenderOf(o) /\ run[o].letter # run[h].letter
  <2>1. ASSUME NEW o \in Handler, Busy(o)'
        PROVE  o # h /\ Busy(o) /\ run'[o] = run[o] /\ SenderOf(o)' = SenderOf(o)
    BY <1>9, <2>1, NoRunType DEF Busy, SenderOf
  <2>2. \A o \in Handler : Busy(o) /\ run[o].letter = run[h].letter => o = h
    BY <1>1 DEF IInv, InHand
  <2> QED
    BY <2>1, <2>2
<1>11. TypeOK'
  <2>1. /\ run' \in [Handler -> RunRecord]
        /\ \A o \in Handler :
              /\ run'[o].pc # "idle" => run'[o].letter \in Letter
              /\ Len(run'[o].path) <= Waits
    BY <1>1, <1>7, DoneRecord
  <2>2. /\ redis' \in [Sender -> Position \cup {NULL}]
        /\ memory' \in [Sender -> Position \cup {NULL}]
    BY <1>1, <1>6, <1>7 DEF TypeOK
  <2>3. \A s \in Sender :
          /\ redis'[s] # NULL => Len(redis'[s].path) \in 1..Waits
          /\ memory'[s] # NULL => Len(memory'[s].path) \in 1..Waits
    BY <1>1, <1>4, <1>6, <1>8 DEF TypeOK
  <2>4. answered' \subseteq [question : Position, answer : Letter] /\ orderly' \in BOOLEAN
    BY <1>1 DEF Wait, Disorder, TypeOK
  <2> QED
    BY <1>1, <1>7, <2>1, <2>2, <2>3, <2>4 DEF TypeOK
<1>12. HandledOnce' /\ Covered'
  BY <1>7 DEF IInv, HandledOnce, Covered
<1>13. InHand'
  BY <1>7, <1>10 DEF IInv, InHand
<1>14. Begun'
  BY <1>9, NoRunType DEF IInv, Begun
<1>15. ASSUME NEW path, Spent(path) PROVE Spent(path)'
  BY <1>7, <1>10, <1>15 DEF Spent
<1>16. ASSUME NEW path, Clean(path) PROVE Clean(path)'
  BY <1>15, <1>16 DEF Clean, Distinct
<1>17. ASSUME ~restarted' PROVE Clean(p)'
  <2>1. Clean(run[h].path) /\ passed[run[h].letter] > 0
    BY <1>1, <1>7, <1>17 DEF IInv, Fresh, InHand
  <2>2. \A i \in DOMAIN run[h].path : run[h].path[i] # run[h].letter
    BY <1>1, <2>1 DEF Clean, Spent
  <2>3. Distinct(p)
    BY <1>4, <1>5, <2>1, <2>2 DEF Clean, Distinct
  <2>5. ASSUME NEW i \in DOMAIN p
        PROVE  /\ passed'[p[i]] > 0
               /\ \A g \in Handler : Busy(g)' => run'[g].letter # p[i]
    <3>1. CASE i = Len(p)
      BY <1>4, <1>7, <1>10, <2>1, <3>1
    <3>2. CASE i \in DOMAIN run[h].path
      BY <1>4, <1>7, <1>10, <2>1, <3>2 DEF Clean, Spent
    <3> QED
      BY <1>5, <3>1, <3>2
  <2> QED
    BY <2>3, <2>5 DEF Clean, Distinct, Spent
<1>18. ASSUME ~restarted' PROVE Fresh'
  <2>1. Fresh
    BY <1>7, <1>18 DEF IInv
  <2>2. ASSUME NEW s \in Sender, redis'[s] # NULL PROVE Clean(redis[s].path)'
    <3>1. PICK q : q = redis'[s].path
      OBVIOUS
    <3>2. Clean(q) \/ q = p
      BY <1>6, <1>8, <2>1, <2>2, <3>1 DEF Fresh
    <3>3. Clean(q)'
      BY <1>16, <1>17, <1>18, <3>2
    <3> QED
      BY <3>1, <3>3 DEF Clean, Distinct, Spent
  <2>3. ASSUME NEW s \in Sender, memory'[s] # NULL PROVE Clean(memory[s].path)'
    <3>1. PICK q : q = memory'[s].path
      OBVIOUS
    <3>2. Clean(q) \/ q = p
      BY <1>6, <1>8, <2>1, <2>3, <3>1 DEF Fresh
    <3>3. Clean(q)'
      BY <1>16, <1>17, <1>18, <3>2
    <3> QED
      BY <3>1, <3>3 DEF Clean, Distinct, Spent
  <2>4. ASSUME NEW o \in Handler PROVE Clean(run[o].path)'
    <3>1. CASE o = h
      BY <1>9, <3>1, NoRunType DEF Clean, Distinct, Spent
    <3>2. CASE o # h
      <4>1. PICK q : q = run[o].path
        OBVIOUS
      <4>2. Clean(q) /\ run'[o].path = q
        BY <1>9, <2>1, <3>2, <4>1 DEF Fresh
      <4>3. Clean(q)'
        BY <1>16, <4>2
      <4> QED
        BY <4>2, <4>3 DEF Clean, Distinct, Spent
    <3> QED
      BY <3>1, <3>2
  <2> QED
    BY <2>2, <2>3, <2>4 DEF Fresh
<1>19. ASSUME orderly' PROVE Linear'
  <2>1. Linear /\ answered' = answered /\ ~restarted'
    BY <1>7, <1>19 DEF IInv, Linear
  <2>2. Own'
    <3>1. Of(p, SenderOf(h))
      <4>1. Of(run[h].path, SenderOf(h))
        BY <1>1, <2>1 DEF Linear, Own
      <4> QED
        BY <1>4, <1>5, <4>1 DEF Of, SenderOf
    <3>2. \A s \in Sender :
            /\ redis'[s] # NULL => Of(redis'[s].path, s)
            /\ memory'[s] # NULL => Of(memory'[s].path, s)
      BY <1>6, <1>8, <2>1, <3>1 DEF Linear, Own
    <3>3. ASSUME NEW g \in Handler, Busy(g)'
          PROVE  /\ Of(run'[g].path, SenderOf(g)')
                 /\ \A o \in Handler : Busy(o)' /\ SenderOf(o)' = SenderOf(g)' => o = g
      BY <1>10, <2>1, <3>3 DEF Linear, Own
    <3> QED
      BY <3>2, <3>3 DEF Own, Of
  <2>3. ASSUME NEW a \in answered PROVE Closed(a)'
    <3>1. Closed(a)
      BY <2>1 DEF Linear
    <3>2. Spent(a.question.path)'
      BY <1>15, <3>1 DEF Closed
    <3>3. new # a.question
      <4>1. Len(p) \in DOMAIN p
        BY <1>4
      <4>2. \A i \in DOMAIN a.question.path : a.question.path[i] # run[h].letter
        BY <1>1, <3>1 DEF Closed, Spent
      <4> QED
        BY <1>4, <1>6, <4>1, <4>2
    <3>4. \A o \in Handler : run'[o].pc = "clearing" => At(o)' # a.question
      BY <1>9, <3>1, NoRunType DEF Closed, At
    <3> QED
      BY <1>8, <3>1, <3>2, <3>3, <3>4 DEF Closed
  <2> QED
    BY <2>1, <2>2, <2>3 DEF Linear
<1> QED
  BY <1>11, <1>12, <1>13, <1>14, <1>18, <1>19 DEF IInv

-----------------------------------------------------------------------------
(* The theorems *)

LEMMA RestartStep ==
    ASSUME IInv, Restart
    PROVE  IInv'
<1>1. \A h \in Handler : run'[h] = NoRun
  BY DEF Restart
<1>2. TypeOK'
  <2>1. run' \in [Handler -> RunRecord]
    BY NoRunType DEF Restart
  <2>2. \A h \in Handler :
          /\ run'[h].pc # "idle" => run'[h].letter \in Letter
          /\ Len(run'[h].path) <= Waits
    BY <1>1, NoRunType, NumberAssumption
  <2> QED
    BY <2>1, <2>2 DEF IInv, TypeOK, Restart, Disorder
<1>3. HandledOnce' /\ Covered'
  BY DEF Restart, HandledOnce, Covered
<1>4. InHand' /\ Begun'
  BY <1>1, NoRunType DEF InHand, Begun, Busy
<1> QED
  BY <1>2, <1>3, <1>4 DEF IInv, Restart, Disorder

LEMMA InitIInv == Init => IInv
<1> SUFFICES ASSUME Init PROVE IInv
  OBVIOUS
<1>1. \A h \in Handler : run[h] = NoRun
  BY DEF Init
<1>2. TypeOK
  <2>1. run \in [Handler -> RunRecord]
    BY NoRunType DEF Init
  <2>2. \A h \in Handler :
          /\ run[h].pc # "idle" => run[h].letter \in Letter
          /\ Len(run[h].path) <= Waits
    BY <1>1, NoRunType, NumberAssumption
  <2> QED
    BY <2>1, <2>2 DEF TypeOK, Init
<1>3. HandledOnce /\ Covered
  BY DEF Init, HandledOnce, Covered
<1>4. InHand /\ Begun
  BY <1>1, NoRunType DEF InHand, Begun, Busy
<1>5. Fresh
  BY <1>1, NoRunType DEF Init, Fresh, Clean, Distinct, Spent
<1>6. Linear
  BY <1>1, NoRunType DEF Init, Linear, Own, Busy
<1> QED
  BY <1>2, <1>3, <1>4, <1>5, <1>6 DEF IInv

LEMMA NextIInv == IInv /\ [Next]_vars => IInv'
<1> SUFFICES ASSUME IInv, [Next]_vars PROVE IInv'
  OBVIOUS
<1>1. ASSUME NEW h \in Handler, Handles(h) PROVE IInv'
  BY <1>1, ReceiveStep, ResolveStep, AskStep, ClearStep, WaitStep, EndStep, FailStep
  DEF Handles
<1>2. CASE Tick \/ (\E s \in Sender : Expire(s)) \/ ConnectionChanges \/ UNCHANGED vars
  BY <1>2, EnvironmentStep
<1>3. CASE Restart
  BY <1>3, RestartStep
<1> QED
  BY <1>1, <1>2, <1>3 DEF Next

LEMMA Invariance == Spec => []IInv
BY InitIInv, NextIInv, PTL DEF Spec

\* The state keeps its types, and no path is longer than a flow has waits.
THEOREM TypeCorrect == Spec => []TypeOK
<1>1. IInv => TypeOK
  BY DEF IInv
<1> QED
  BY <1>1, Invariance, PTL

\* One process works on a message once, however late it is delivered again: an entry that
\* is kept twice the skew outlives its message.
THEOREM HandledOnceCorrect == Spec => []HandledOnce
<1>1. IInv => HandledOnce
  BY DEF IInv
<1> QED
  BY <1>1, Invariance, PTL

\* A dialog takes one message for each step; while orderly, each question has one answer.
THEOREM OneStepEachCorrect == Spec => []OneStepEach
<1>1. IInv => OneStepEach
  <2> SUFFICES ASSUME IInv PROVE OneStepEach
    OBVIOUS
  <2>1. ~restarted => \A pos \in Stored : Distinct(pos.path)
    BY DEF IInv, Fresh, Clean, Stored
  <2>2. ASSUME orderly, NEW a \in answered
        PROVE  /\ a.question \notin Stored
               /\ \A b \in answered : a.question = b.question => a = b
    BY <2>2 DEF IInv, Linear, Closed, Stored
  <2> QED
    BY <2>1, <2>2 DEF OneStepEach
<1> QED
  BY <1>1, Invariance, PTL

-----------------------------------------------------------------------------
(* What is taken for a duplicate *)

\* An id is in the cache because a message that bears it has passed in this process.
SeenHasPassed == \A i \in Id : seen[i] # NULL => \E k \in Letter : k.id = i /\ passed[k] > 0

LEMMA SeenInit == Init => SeenHasPassed
BY DEF Init, SeenHasPassed

LEMMA SeenNext == TypeOK /\ SeenHasPassed /\ [Next]_vars => SeenHasPassed'
<1> SUFFICES ASSUME TypeOK, SeenHasPassed, [Next]_vars PROVE SeenHasPassed'
  OBVIOUS
<1>1. ASSUME NEW h \in Handler, NEW l \in Letter, Receive(h, l) PROVE SeenHasPassed'
  <2>1. /\ seen' = [seen EXCEPT ![l.id] = now + Ttl] /\ passed' = [passed EXCEPT ![l] = @ + 1]
        /\ seen \in [Id -> Int \cup {NULL}] /\ passed \in [Letter -> Nat]
    BY <1>1 DEF Receive, TypeOK
  <2>2. passed'[l] > 0 /\ \A k \in Letter : passed[k] > 0 => passed'[k] > 0
    BY <2>1
  <2>3. ASSUME NEW i \in Id, seen'[i] # NULL PROVE \E k \in Letter : k.id = i /\ passed'[k] > 0
    <3>1. CASE i = l.id
      BY <2>2, <3>1
    <3>2. CASE i # l.id
      <4>1. PICK k \in Letter : k.id = i /\ passed[k] > 0
        BY <2>1, <2>3, <3>2 DEF SeenHasPassed
      <4> QED
        BY <2>2, <4>1
    <3> QED
      BY <3>1, <3>2
  <2> QED
    BY <2>3 DEF SeenHasPassed
<1>2. CASE Restart
  BY <1>2 DEF Restart, SeenHasPassed
<1>3. ASSUME ~Restart, \A h \in Handler, l \in Letter : ~Receive(h, l)
      PROVE  UNCHANGED <<seen, passed>>
  BY <1>3 DEF Next, Handles, Resolve, Ask, Clear, Wait, Finish, Fail, NextFlow, Answer, Tick, Expire,
              ConnectionChanges, vars, history
<1> QED
  BY <1>1, <1>2, <1>3 DEF SeenHasPassed

\* shouldProcess "returns true if it's a new message": it does, for any messages, handlers and
\* times, restarts included, as long as no two messages bear one id.  That ids of different
\* chats collide is the only way a new message is dropped.
THEOREM NewIsProcessedByUniqueId ==
    (\A l, k \in Letter : l.id = k.id => l = k) => (Spec => []NewIsProcessed)
<1> SUFFICES ASSUME \A l, k \in Letter : l.id = k.id => l = k PROVE Spec => []NewIsProcessed
  OBVIOUS
<1>1. SeenHasPassed => NewIsProcessed
  <2> SUFFICES ASSUME SeenHasPassed, NEW l \in Letter, Remembers(l.id) PROVE passed[l] > 0
    BY DEF NewIsProcessed
  <2>1. PICK k \in Letter : k.id = l.id /\ passed[k] > 0
    BY LetterParts DEF SeenHasPassed, Remembers
  <2> QED
    BY <2>1
<1> QED
  BY <1>1, SeenInit, SeenNext, TypeCorrect, PTL DEF Spec
=============================================================================

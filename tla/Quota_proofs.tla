------------------------------ MODULE Quota_proofs -----------------------------
(***************************************************************************)
(* The counters of a tenant's plan, for any number of requests, agents and *)
(* channels: what they count, how far a limit is passed, and where a       *)
(* channel's document is while it moves.                                   *)
(*                                                                         *)
(* Every step takes one request from one await to another (NumMoves), so   *)
(* the equations are kept by adding and removing one.  A move is safe      *)
(* because a channel has one document more than it has moves that have     *)
(* copied it (AtLeast, AtMost), whichever requests these are.  At the end, *)
(* that one request at a time keeps the plan's limit.                      *)
(***************************************************************************)
EXTENDS Quota, FiniteSetTheorems, TLAPS

USE DEF past

\* Steps of a request about a channel.
ChannelSteps == {"storing", "counting", "removing", "uncounting", "archiving", "copying", "copied"}

ShapeOf(c) ==
    /\ call[c].pc \in ChannelSteps => call[c].ch \in Channel
    /\ call[c].pc \in ChannelSteps \ {"storing"} => fate[call[c].ch] # "new"
    /\ call[c].pc = "storing" =>
          fate[call[c].ch] = "new" /\ \A o \in Call \ {c} : call[o].ch # call[c].ch
    /\ call[c].pc = "cascading" \/ call[c].todo # {} => call[c].agent # System

Shape == \A c \in Call : ShapeOf(c)

NewIsNowhere == \A a \in Agent, ch \in Channel : <<a, ch>> \in docs => fate[ch] # "new"

Copies(ch) == {c \in Call : call[c].pc = "copied" /\ call[c].ch = ch}

AtLeast ==
    ~mismatch => \A ch \in Channel :
        fate[ch] = "live" => Cardinality(Homes(ch)) >= 1 + Cardinality(Copies(ch))

AtMost ==
    Clean => \A ch \in Channel \ haunted :
        Cardinality(Homes(ch)) <= (IF fate[ch] = "live" THEN 1 ELSE 0) + Cardinality(Copies(ch))

Books == ChannelsAreCounted /\ AgentsAreCounted /\ OvershootIsBounded
Places == Shape /\ NewIsNowhere /\ AtLeast /\ AtMost
SystemStays == System \in agents

IInv == TypeOK /\ Books /\ Places /\ SystemStays

-----------------------------------------------------------------------------
(* Counting *)

\* Request c goes to await q; the others stay where they are.
Moves(c, q) ==
    /\ call' \in [Call -> CallRecord]
    /\ call'[c].pc = q
    /\ \A o \in Call : o # c => call'[o] = call[o]

\* The sets that are counted are finite.
LEMMA Finite ==
    ASSUME TypeOK
    PROVE  /\ \A pc : IsFiniteSet(At(pc)) /\ Num(pc) \in Nat
           /\ Cardinality(Call) \in Nat
           /\ IsFiniteSet(docs) /\ Cardinality(docs) \in Nat
           /\ IsFiniteSet(agents \ {System}) /\ Cardinality(agents \ {System}) \in Nat
           /\ \A ch \in Channel : IsFiniteSet(Homes(ch)) /\ Cardinality(Homes(ch)) \in Nat
           /\ \A ch \in Channel : IsFiniteSet(Copies(ch)) /\ Cardinality(Copies(ch)) \in Nat
<1>1. \A pc : At(pc) \subseteq Call
  BY DEF At
<1>2. \A ch \in Channel : Homes(ch) \subseteq Agent /\ Copies(ch) \subseteq Call
  BY DEF Homes, Copies
<1>3. docs \subseteq Agent \X Channel /\ agents \ {System} \subseteq Agent
  BY DEF TypeOK
<1>4. IsFiniteSet(Call) /\ IsFiniteSet(Agent) /\ IsFiniteSet(Channel)
  BY SetAssumption
<1>5. IsFiniteSet(Agent \X Channel)
  BY <1>4, FS_Product
<1>6. IsFiniteSet(docs) /\ IsFiniteSet(agents \ {System})
  BY <1>3, <1>4, <1>5, FS_Subset
<1>7. \A pc : IsFiniteSet(At(pc))
  BY <1>1, <1>4, FS_Subset
<1>8. \A ch \in Channel : IsFiniteSet(Homes(ch)) /\ IsFiniteSet(Copies(ch))
  BY <1>2, <1>4, FS_Subset
<1> QED
  BY <1>4, <1>6, <1>7, <1>8, FS_CardinalityType DEF Num

\* One element more, one element less.
LEMMA PlusMinus ==
    ASSUME NEW S, IsFiniteSet(S), NEW x
    PROVE  /\ x \notin S => Cardinality(S \cup {x}) = Cardinality(S) + 1
           /\ x \in S => Cardinality(S \ {x}) = Cardinality(S) - 1
           /\ Cardinality(S \cup {x}) \in Nat /\ Cardinality(S \ {x}) \in Nat
<1>1. Cardinality(S) \in Nat
  BY FS_CardinalityType
<1> QED
  BY <1>1, FS_AddElement, FS_RemoveElement, FS_CardinalityType

\* The number of requests in an await, after request c went to q.
LEMMA NumMoves ==
    ASSUME TypeOK, NEW c \in Call, NEW q, Moves(c, q), NEW pc
    PROVE  Num(pc)' = IF call[c].pc = pc /\ q # pc THEN Num(pc) - 1
                      ELSE IF call[c].pc # pc /\ q = pc THEN Num(pc) + 1
                      ELSE Num(pc)
<1>1. IsFiniteSet(At(pc)) /\ Num(pc) = Cardinality(At(pc)) /\ Num(pc)' = Cardinality(At(pc)')
  BY Finite DEF Num
<1>2. CASE call[c].pc = pc /\ q # pc
  <2>1. c \in At(pc) /\ At(pc)' = At(pc) \ {c}
    BY <1>2 DEF At, Moves
  <2> QED
    BY <1>1, <1>2, <2>1, PlusMinus
<1>3. CASE call[c].pc # pc /\ q = pc
  <2>1. c \notin At(pc) /\ At(pc)' = At(pc) \cup {c}
    BY <1>3 DEF At, Moves
  <2> QED
    BY <1>1, <1>3, <2>1, PlusMinus
<1>4. CASE (call[c].pc = pc) <=> (q = pc)
  <2>1. At(pc)' = At(pc)
    BY <1>4 DEF At, Moves
  <2> QED
    BY <1>1, <1>4, <2>1
<1> QED
  BY <1>2, <1>3, <1>4

\* The moves that have copied a channel, likewise.
LEMMA CopiesMove ==
    ASSUME TypeOK, NEW c \in Call, NEW q, Moves(c, q), NEW ch \in Channel
    PROVE  /\ c \notin Copies(ch) /\ ~(q = "copied" /\ call'[c].ch = ch)
                 => Copies(ch)' = Copies(ch)
           /\ c \notin Copies(ch) /\ q = "copied" /\ call'[c].ch = ch
                 => Cardinality(Copies(ch))' = Cardinality(Copies(ch)) + 1
           /\ c \in Copies(ch) /\ q # "copied"
                 => Cardinality(Copies(ch))' = Cardinality(Copies(ch)) - 1
<1>1. IsFiniteSet(Copies(ch)) /\ Cardinality(Copies(ch))' = Cardinality(Copies(ch)')
  BY Finite
<1>2. ASSUME c \notin Copies(ch), ~(q = "copied" /\ call'[c].ch = ch)
      PROVE  Copies(ch)' = Copies(ch)
  BY <1>2 DEF Copies, Moves
<1>3. ASSUME c \notin Copies(ch), q = "copied", call'[c].ch = ch
      PROVE  Cardinality(Copies(ch))' = Cardinality(Copies(ch)) + 1
  <2>1. Copies(ch)' = Copies(ch) \cup {c}
    BY <1>3 DEF Copies, Moves
  <2> QED
    BY <1>1, <1>3, <2>1, PlusMinus
<1>4. ASSUME c \in Copies(ch), q # "copied"
      PROVE  Cardinality(Copies(ch))' = Cardinality(Copies(ch)) - 1
  <2>1. Copies(ch)' = Copies(ch) \ {c}
    BY <1>4 DEF Copies, Moves
  <2> QED
    BY <1>1, <1>4, <2>1, PlusMinus
<1> QED
  BY <1>2, <1>3, <1>4

\* An idle request is in none of the awaits that are counted.
LEMMA Room ==
    ASSUME TypeOK, NEW c \in Call, call[c].pc = "idle", NEW p, NEW q, p # q, p # "idle", q # "idle"
    PROVE  Num(p) + Num(q) + 1 <= Cardinality(Call)
<1>1. IsFiniteSet(At(p)) /\ IsFiniteSet(At(q)) /\ Num(p) \in Nat /\ Num(q) \in Nat
  BY Finite
<1>2. At(p) \cap At(q) = {} /\ c \notin At(p) \cup At(q)
  BY DEF At
<1>3. IsFiniteSet(At(p) \cup At(q))
      /\ Cardinality(At(p) \cup At(q)) = Num(p) + Num(q) - Cardinality(At(p) \cap At(q))
  BY <1>1, FS_Union DEF Num
<1>4. Cardinality(At(p) \cup At(q)) = Num(p) + Num(q)
  <2>1. Cardinality(At(p) \cap At(q)) = 0
    BY <1>2, FS_EmptySet, Zenon
  <2> QED
    BY <1>1, <1>3, <2>1
<1>5. Cardinality((At(p) \cup At(q)) \cup {c}) = Num(p) + Num(q) + 1
  BY <1>2, <1>3, <1>4, PlusMinus
<1>6. (At(p) \cup At(q)) \cup {c} \subseteq Call
  BY DEF At
<1>7. Cardinality((At(p) \cup At(q)) \cup {c}) <= Cardinality(Call)
  BY <1>6, SetAssumption, FS_Subset
<1> QED
  BY <1>5, <1>7

\* All requests together bound each await.
LEMMA NumBound == ASSUME TypeOK, NEW pc PROVE Num(pc) <= Cardinality(Call)
<1>1. At(pc) \subseteq Call
  BY DEF At
<1> QED
  BY <1>1, SetAssumption, FS_Subset DEF Num

\* The counts are numbers.
LEMMA Numbers ==
    ASSUME TypeOK
    PROVE  /\ Num("storing") \in Nat /\ Num("counting") \in Nat /\ Num("copied") \in Nat
           /\ Num("uncounting") \in Nat /\ Num("storingAgent") \in Nat
           /\ Num("countingAgent") \in Nat /\ Num("uncountingAgent") \in Nat
           /\ Num("answering") \in Nat
           /\ Cardinality(docs) \in Nat /\ Cardinality(agents \ {System}) \in Nat
           /\ Cardinality(Call) \in Nat /\ revived \in Nat
           /\ counter["channels"] \in Int /\ counter["agents"] \in Int /\ counter["messages"] \in Int
           /\ Limit["channels"] \in Nat /\ Limit["agents"] \in Nat /\ Limit["messages"] \in Nat
           /\ Limit["channels"] > 0 /\ Limit["agents"] > 0 /\ Limit["messages"] > 0
<1>1. /\ counter["channels"] \in Int /\ counter["agents"] \in Int /\ counter["messages"] \in Int
      /\ Limit["channels"] \in Nat /\ Limit["agents"] \in Nat /\ Limit["messages"] \in Nat
      /\ Limit["channels"] > 0 /\ Limit["agents"] > 0 /\ Limit["messages"] > 0 /\ revived \in Nat
  BY LimitAssumption DEF TypeOK, Metric
<1> QED
  BY <1>1, Finite

\* What a step from await p to q does to the number of documents (dd), of agents (da) and to
\* counter m (by n).  First the steps of a request that was admitted, then those that start
\* one, then those that only wait.
Entry(p, q, dd, da, m, n) ==
    \/ p = "storing" /\ q = "counting" /\ dd = 1 /\ da = 0 /\ n = 0
    \/ p = "removing" /\ q = "uncounting" /\ dd = 0 - 1 /\ da = 0 /\ n = 0
    \/ p = "copying" /\ q = "copied" /\ dd = 1 /\ da = 0 /\ n = 0
    \/ p = "copied" /\ q = "idle" /\ dd = 0 - 1 /\ da = 0 /\ n = 0
    \/ p = "counting" /\ q = "idle" /\ dd = 0 /\ da = 0 /\ n = 1 /\ m = "channels"
    \/ p = "uncounting" /\ q \in {"idle", "cascading"} /\ dd = 0 /\ da = 0 /\ n = 0 - 1 /\ m = "channels"
    \/ p = "storingAgent" /\ q = "countingAgent" /\ dd = 0 /\ da = 1 /\ n = 0
    \/ p = "cascading" /\ q = "uncountingAgent" /\ dd = 0 /\ da = 0 - 1 /\ n = 0
    \/ p = "countingAgent" /\ q = "idle" /\ dd = 0 /\ da = 0 /\ n = 1 /\ m = "agents"
    \/ p = "uncountingAgent" /\ q = "idle" /\ dd = 0 /\ da = 0 /\ n = 0 - 1 /\ m = "agents"
    \/ p = "answering" /\ q = "idle" /\ dd = 0 /\ da = 0 /\ n = 1 /\ m = "messages"
    \/ p = "idle" /\ q = "storing" /\ m = "channels" /\ dd = 0 /\ da = 0 /\ n = 0
    \/ p = "idle" /\ q = "storingAgent" /\ m = "agents" /\ dd = 0 /\ da = 0 /\ n = 0
    \/ p = "idle" /\ q = "answering" /\ m = "messages" /\ dd = 0 /\ da = 0 /\ n = 0
    \/ /\ p \in {"idle", "archiving", "cascading"}
       /\ q \in {"idle", "removing", "archiving", "copying", "cascading"}
       /\ dd = 0 /\ da = 0 /\ n = 0

\* The equations and bounds, on numbers: s, c, k, u requests storing, counting, copied and
\* uncounting a channel, sa, ca, ua likewise for agents, w answering.
LEMMA BooksKept ==
    ASSUME TypeOK, Books, NEW c \in Call, NEW q, Moves(c, q),
           Clean' => Clean,
           NEW dd \in Int, NEW da \in Int, NEW m \in Metric, NEW n \in Int,
           Entry(call[c].pc, q, dd, da, m, n),
           Clean' => /\ Cardinality(docs') = Cardinality(docs) + dd
                     /\ Cardinality(agents' \ {System}) = Cardinality(agents \ {System}) + da
                     /\ counter' = [counter EXCEPT ![m] = @ + n],
           Clean' /\ q \in {"storing", "storingAgent", "answering"} => counter[m] < Limit[m],
           UNCHANGED past
    PROVE  Books'
<1> SUFFICES ASSUME Clean' PROVE Books'
  BY DEF Books, ChannelsAreCounted, AgentsAreCounted, OvershootIsBounded
<1>1. /\ Cardinality(docs)' = Cardinality(docs) + dd
      /\ Cardinality(agents \ {System})' = Cardinality(agents \ {System}) + da
  OBVIOUS
<1>c. \A k \in Metric : counter'[k] = IF k = m THEN counter[k] + n ELSE counter[k]
  BY DEF TypeOK
<1>2. /\ counter'["channels"] = IF m = "channels" THEN counter["channels"] + n ELSE counter["channels"]
      /\ counter'["agents"] = IF m = "agents" THEN counter["agents"] + n ELSE counter["agents"]
      /\ counter'["messages"] = IF m = "messages" THEN counter["messages"] + n ELSE counter["messages"]
  BY <1>c DEF Metric
<1>3. /\ Cardinality(docs) + Num("uncounting") = counter["channels"] + Num("counting") + Num("copied") + revived
      /\ Cardinality(agents \ {System}) + Num("uncountingAgent")
            = counter["agents"] + Num("countingAgent")
      /\ Cardinality(docs) + Num("storing") - Num("copied") <= Limit["channels"] + Cardinality(Call) - 1 + revived
      /\ Cardinality(agents \ {System}) + Num("storingAgent") <= Limit["agents"] + Cardinality(Call) - 1
      /\ counter["messages"] + Num("answering") <= Limit["messages"] + Cardinality(Call) - 1
  BY DEF Books, ChannelsAreCounted, AgentsAreCounted, OvershootIsBounded
<1>4. call[c].pc = "idle" =>
          /\ Num("storing") + Num("counting") + 1 <= Cardinality(Call)
          /\ Num("storingAgent") + Num("countingAgent") + 1 <= Cardinality(Call)
          /\ Num("answering") + Num("storing") + 1 <= Cardinality(Call)
  BY Room
<1> DEFINE now(pc, k) == IF call[c].pc = pc /\ q # pc THEN k - 1
                         ELSE IF call[c].pc # pc /\ q = pc THEN k + 1 ELSE k
<1>n. /\ Cardinality(agents \ {System}) \in Int /\ Num("uncountingAgent") \in Int
      /\ Num("countingAgent") \in Int /\ Num("storingAgent") \in Int
      /\ counter["agents"] \in Int /\ Limit["agents"] \in Int /\ Cardinality(Call) \in Int
  BY Numbers
<1>m. /\ Cardinality(docs) \in Int /\ Num("storing") \in Int /\ Num("counting") \in Int
      /\ Num("copied") \in Int /\ Num("uncounting") \in Int /\ counter["channels"] \in Int
      /\ Limit["channels"] \in Int /\ Cardinality(Call) \in Int
      /\ revived \in Int /\ revived' = revived
  BY Numbers
<1>t. /\ Num("storing")' = now("storing", Num("storing"))
      /\ Num("counting")' = now("counting", Num("counting"))
      /\ Num("copied")' = now("copied", Num("copied"))
      /\ Num("uncounting")' = now("uncounting", Num("uncounting"))
      /\ Num("storingAgent")' = now("storingAgent", Num("storingAgent"))
      /\ Num("countingAgent")' = now("countingAgent", Num("countingAgent"))
      /\ Num("uncountingAgent")' = now("uncountingAgent", Num("uncountingAgent"))
      /\ Num("answering")' = now("answering", Num("answering"))
  BY NumMoves
<1> DEFINE Channels ==
      /\ Cardinality(docs)' + Num("uncounting")'
            = counter'["channels"] + Num("counting")' + Num("copied")' + revived'
      /\ Cardinality(docs)' + Num("storing")' - Num("copied")'
            <= Limit["channels"] + Cardinality(Call) - 1 + revived'
<1> DEFINE Agents ==
      /\ Cardinality(agents \ {System})' + Num("uncountingAgent")'
            = counter'["agents"] + Num("countingAgent")'
      /\ Cardinality(agents \ {System})' + Num("storingAgent")'
            <= Limit["agents"] + Cardinality(Call) - 1
<1> DEFINE Messages ==
      counter'["messages"] + Num("answering")' <= Limit["messages"] + Cardinality(Call) - 1
<1> DEFINE Goal == Channels /\ Agents /\ Messages
<1>5. ASSUME call[c].pc = "storing" /\ q = "counting" /\ dd = 1 /\ da = 0 /\ n = 0
      PROVE  Goal
  <2>1. /\ Num("storing")' = Num("storing") - 1 /\ Num("counting")' = Num("counting") + 1
        /\ Num("copied")' = Num("copied") /\ Num("uncounting")' = Num("uncounting")
        /\ Num("storingAgent")' = Num("storingAgent") /\ Num("countingAgent")' = Num("countingAgent")
        /\ Num("uncountingAgent")' = Num("uncountingAgent") /\ Num("answering")' = Num("answering")
    BY <1>t, <1>5, Zenon
  <2>2. /\ counter'["channels"] = counter["channels"] /\ counter'["agents"] = counter["agents"]
        /\ counter'["messages"] = counter["messages"]
    BY <1>2, <1>5, Numbers
  <2>3. Channels
    BY <1>1, <1>3, <1>5, <2>1, <2>2, Numbers
  <2>4. Agents
    BY <1>1, <1>3, <1>5, <2>1, <2>2, Numbers
  <2>5. Messages
    BY <1>1, <1>3, <1>5, <2>1, <2>2, Numbers
  <2> QED
    BY <2>3, <2>4, <2>5
<1>6. ASSUME call[c].pc = "removing" /\ q = "uncounting" /\ dd = 0 - 1 /\ da = 0 /\ n = 0
      PROVE  Goal
  <2>1. /\ Num("storing")' = Num("storing") /\ Num("counting")' = Num("counting")
        /\ Num("copied")' = Num("copied") /\ Num("uncounting")' = Num("uncounting") + 1
        /\ Num("storingAgent")' = Num("storingAgent") /\ Num("countingAgent")' = Num("countingAgent")
        /\ Num("uncountingAgent")' = Num("uncountingAgent") /\ Num("answering")' = Num("answering")
    BY <1>t, <1>6, Zenon
  <2>2. /\ counter'["channels"] = counter["channels"] /\ counter'["agents"] = counter["agents"]
        /\ counter'["messages"] = counter["messages"]
    BY <1>2, <1>6, Numbers
  <2>3. Channels
    BY <1>1, <1>3, <1>6, <2>1, <2>2, Numbers
  <2>4. Agents
    BY <1>1, <1>3, <1>6, <2>1, <2>2, Numbers
  <2>5. Messages
    BY <1>1, <1>3, <1>6, <2>1, <2>2, Numbers
  <2> QED
    BY <2>3, <2>4, <2>5
<1>7. ASSUME call[c].pc = "copying" /\ q = "copied" /\ dd = 1 /\ da = 0 /\ n = 0
      PROVE  Goal
  <2>1. /\ Num("storing")' = Num("storing") /\ Num("counting")' = Num("counting")
        /\ Num("copied")' = Num("copied") + 1 /\ Num("uncounting")' = Num("uncounting")
        /\ Num("storingAgent")' = Num("storingAgent") /\ Num("countingAgent")' = Num("countingAgent")
        /\ Num("uncountingAgent")' = Num("uncountingAgent") /\ Num("answering")' = Num("answering")
    BY <1>t, <1>7, Zenon
  <2>2. /\ counter'["channels"] = counter["channels"] /\ counter'["agents"] = counter["agents"]
        /\ counter'["messages"] = counter["messages"]
    BY <1>2, <1>7, Numbers
  <2>3. Channels
    BY <1>1, <1>3, <1>7, <2>1, <2>2, Numbers
  <2>4. Agents
    BY <1>1, <1>3, <1>7, <2>1, <2>2, Numbers
  <2>5. Messages
    BY <1>1, <1>3, <1>7, <2>1, <2>2, Numbers
  <2> QED
    BY <2>3, <2>4, <2>5
<1>8. ASSUME call[c].pc = "copied" /\ q = "idle" /\ dd = 0 - 1 /\ da = 0 /\ n = 0
      PROVE  Goal
  <2>1. /\ Num("storing")' = Num("storing") /\ Num("counting")' = Num("counting")
        /\ Num("copied")' = Num("copied") - 1 /\ Num("uncounting")' = Num("uncounting")
        /\ Num("storingAgent")' = Num("storingAgent") /\ Num("countingAgent")' = Num("countingAgent")
        /\ Num("uncountingAgent")' = Num("uncountingAgent") /\ Num("answering")' = Num("answering")
    BY <1>t, <1>8, Zenon
  <2>2. /\ counter'["channels"] = counter["channels"] /\ counter'["agents"] = counter["agents"]
        /\ counter'["messages"] = counter["messages"]
    BY <1>2, <1>8, Numbers
  <2>3. Channels
    <3>0. Cardinality(docs)' = Cardinality(docs) - 1
      BY <1>1, <1>m, <1>8
    <3>1. Cardinality(docs)' + Num("uncounting")'
             = counter'["channels"] + Num("counting")' + Num("copied")' + revived'
      BY <1>3, <1>m, <2>1, <2>2, <3>0
    <3>2. Cardinality(docs)' + Num("storing")' - Num("copied")'
             = Cardinality(docs) + Num("storing") - Num("copied")
      BY <1>m, <2>1, <3>0
    <3>3. Cardinality(docs)' + Num("storing")' - Num("copied")'
             <= Limit["channels"] + Cardinality(Call) - 1 + revived'
      BY <1>3, <1>m, <3>2
    <3> QED
      BY <3>1, <3>3
  <2>4. Agents
    BY <1>1, <1>3, <1>8, <2>1, <2>2, Numbers
  <2>5. Messages
    BY <1>1, <1>3, <1>8, <2>1, <2>2, Numbers
  <2> QED
    BY <2>3, <2>4, <2>5
<1>9. ASSUME call[c].pc = "counting" /\ q = "idle" /\ dd = 0 /\ da = 0 /\ n = 1 /\ m = "channels"
      PROVE  Goal
  <2>1. /\ Num("storing")' = Num("storing") /\ Num("counting")' = Num("counting") - 1
        /\ Num("copied")' = Num("copied") /\ Num("uncounting")' = Num("uncounting")
        /\ Num("storingAgent")' = Num("storingAgent") /\ Num("countingAgent")' = Num("countingAgent")
        /\ Num("uncountingAgent")' = Num("uncountingAgent") /\ Num("answering")' = Num("answering")
    BY <1>t, <1>9, Zenon
  <2>2. /\ counter'["channels"] = counter["channels"] + 1 /\ counter'["agents"] = counter["agents"]
        /\ counter'["messages"] = counter["messages"]
    BY <1>2, <1>9, Numbers
  <2>3. Channels
    BY <1>1, <1>3, <1>9, <2>1, <2>2, Numbers
  <2>4. Agents
    BY <1>1, <1>3, <1>9, <2>1, <2>2, Numbers
  <2>5. Messages
    BY <1>1, <1>3, <1>9, <2>1, <2>2, Numbers
  <2> QED
    BY <2>3, <2>4, <2>5
<1>10. ASSUME call[c].pc = "uncounting" /\ q \in {"idle", "cascading"} /\ dd = 0 /\ da = 0 /\ n = 0 - 1 /\ m = "channels"
      PROVE  Goal
  <2>1. /\ Num("storing")' = Num("storing") /\ Num("counting")' = Num("counting")
        /\ Num("copied")' = Num("copied") /\ Num("uncounting")' = Num("uncounting") - 1
        /\ Num("storingAgent")' = Num("storingAgent") /\ Num("countingAgent")' = Num("countingAgent")
        /\ Num("uncountingAgent")' = Num("uncountingAgent") /\ Num("answering")' = Num("answering")
    BY <1>t, <1>10, Zenon
  <2>2. /\ counter'["channels"] = counter["channels"] - 1 /\ counter'["agents"] = counter["agents"]
        /\ counter'["messages"] = counter["messages"]
    BY <1>2, <1>10, Numbers
  <2>3. Channels
    <3>1. Cardinality(docs)' + Num("uncounting")'
             = counter'["channels"] + Num("counting")' + Num("copied")' + revived'
      BY <1>1, <1>3, <1>m, <1>10, <2>1, <2>2
    <3>2. Cardinality(docs)' + Num("storing")' - Num("copied")'
             <= Limit["channels"] + Cardinality(Call) - 1 + revived'
      BY <1>1, <1>3, <1>m, <1>10, <2>1, <2>2
    <3> QED
      BY <3>1, <3>2
  <2>4. Agents
    BY <1>1, <1>3, <1>10, <2>1, <2>2, Numbers
  <2>5. Messages
    BY <1>1, <1>3, <1>10, <2>1, <2>2, Numbers
  <2> QED
    BY <2>3, <2>4, <2>5
<1>11. ASSUME call[c].pc = "storingAgent" /\ q = "countingAgent" /\ dd = 0 /\ da = 1 /\ n = 0
      PROVE  Goal
  <2>1. /\ Num("storing")' = Num("storing") /\ Num("counting")' = Num("counting")
        /\ Num("copied")' = Num("copied") /\ Num("uncounting")' = Num("uncounting")
        /\ Num("storingAgent")' = Num("storingAgent") - 1 /\ Num("countingAgent")' = Num("countingAgent") + 1
        /\ Num("uncountingAgent")' = Num("uncountingAgent") /\ Num("answering")' = Num("answering")
    BY <1>t, <1>11, Zenon
  <2>2. /\ counter'["channels"] = counter["channels"] /\ counter'["agents"] = counter["agents"]
        /\ counter'["messages"] = counter["messages"]
    BY <1>2, <1>11, Numbers
  <2>3. Channels
    BY <1>1, <1>3, <1>11, <2>1, <2>2, Numbers
  <2>4. Agents
    <3>1. Cardinality(agents \ {System})' + Num("uncountingAgent")'
             = counter'["agents"] + Num("countingAgent")'
      BY <1>1, <1>3, <1>n, <1>11, <2>1, <2>2
    <3>2. Cardinality(agents \ {System})' + Num("storingAgent")'
             <= Limit["agents"] + Cardinality(Call) - 1
      BY <1>1, <1>3, <1>n, <1>11, <2>1, <2>2
    <3> QED
      BY <3>1, <3>2
  <2>5. Messages
    BY <1>1, <1>3, <1>11, <2>1, <2>2, Numbers
  <2> QED
    BY <2>3, <2>4, <2>5
<1>12. ASSUME call[c].pc = "cascading" /\ q = "uncountingAgent" /\ dd = 0 /\ da = 0 - 1 /\ n = 0
      PROVE  Goal
  <2>1. /\ Num("storing")' = Num("storing") /\ Num("counting")' = Num("counting")
        /\ Num("copied")' = Num("copied") /\ Num("uncounting")' = Num("uncounting")
        /\ Num("storingAgent")' = Num("storingAgent") /\ Num("countingAgent")' = Num("countingAgent")
        /\ Num("uncountingAgent")' = Num("uncountingAgent") + 1 /\ Num("answering")' = Num("answering")
    BY <1>t, <1>12, Zenon
  <2>2. /\ counter'["channels"] = counter["channels"] /\ counter'["agents"] = counter["agents"]
        /\ counter'["messages"] = counter["messages"]
    BY <1>2, <1>12, Numbers
  <2>3. Channels
    BY <1>1, <1>3, <1>12, <2>1, <2>2, Numbers
  <2>4. Agents
    <3>1. Cardinality(agents \ {System})' + Num("uncountingAgent")'
             = counter'["agents"] + Num("countingAgent")'
      BY <1>1, <1>3, <1>n, <1>12, <2>1, <2>2
    <3>2. Cardinality(agents \ {System})' + Num("storingAgent")'
             <= Limit["agents"] + Cardinality(Call) - 1
      BY <1>1, <1>3, <1>n, <1>12, <2>1, <2>2
    <3> QED
      BY <3>1, <3>2
  <2>5. Messages
    BY <1>1, <1>3, <1>12, <2>1, <2>2, Numbers
  <2> QED
    BY <2>3, <2>4, <2>5
<1>13. ASSUME call[c].pc = "countingAgent" /\ q = "idle" /\ dd = 0 /\ da = 0 /\ n = 1 /\ m = "agents"
      PROVE  Goal
  <2>1. /\ Num("storing")' = Num("storing") /\ Num("counting")' = Num("counting")
        /\ Num("copied")' = Num("copied") /\ Num("uncounting")' = Num("uncounting")
        /\ Num("storingAgent")' = Num("storingAgent") /\ Num("countingAgent")' = Num("countingAgent") - 1
        /\ Num("uncountingAgent")' = Num("uncountingAgent") /\ Num("answering")' = Num("answering")
    BY <1>t, <1>13, Zenon
  <2>2. /\ counter'["channels"] = counter["channels"] /\ counter'["agents"] = counter["agents"] + 1
        /\ counter'["messages"] = counter["messages"]
    BY <1>2, <1>13, Numbers
  <2>3. Channels
    BY <1>1, <1>3, <1>13, <2>1, <2>2, Numbers
  <2>4. Agents
    BY <1>1, <1>3, <1>13, <2>1, <2>2, Numbers
  <2>5. Messages
    BY <1>1, <1>3, <1>13, <2>1, <2>2, Numbers
  <2> QED
    BY <2>3, <2>4, <2>5
<1>14. ASSUME call[c].pc = "uncountingAgent" /\ q = "idle" /\ dd = 0 /\ da = 0 /\ n = 0 - 1 /\ m = "agents"
      PROVE  Goal
  <2>1. /\ Num("storing")' = Num("storing") /\ Num("counting")' = Num("counting")
        /\ Num("copied")' = Num("copied") /\ Num("uncounting")' = Num("uncounting")
        /\ Num("storingAgent")' = Num("storingAgent") /\ Num("countingAgent")' = Num("countingAgent")
        /\ Num("uncountingAgent")' = Num("uncountingAgent") - 1 /\ Num("answering")' = Num("answering")
    BY <1>t, <1>14, Zenon
  <2>2. /\ counter'["channels"] = counter["channels"] /\ counter'["agents"] = counter["agents"] - 1
        /\ counter'["messages"] = counter["messages"]
    BY <1>2, <1>14, Numbers
  <2>3. Channels
    BY <1>1, <1>3, <1>14, <2>1, <2>2, Numbers
  <2>4. Agents
    <3>1. Cardinality(agents \ {System})' + Num("uncountingAgent")'
             = counter'["agents"] + Num("countingAgent")'
      BY <1>1, <1>3, <1>n, <1>14, <2>1, <2>2
    <3>2. Cardinality(agents \ {System})' + Num("storingAgent")'
             <= Limit["agents"] + Cardinality(Call) - 1
      BY <1>1, <1>3, <1>n, <1>14, <2>1, <2>2
    <3> QED
      BY <3>1, <3>2
  <2>5. Messages
    BY <1>1, <1>3, <1>14, <2>1, <2>2, Numbers
  <2> QED
    BY <2>3, <2>4, <2>5
<1>15. ASSUME call[c].pc = "answering" /\ q = "idle" /\ dd = 0 /\ da = 0 /\ n = 1 /\ m = "messages"
      PROVE  Goal
  <2>1. /\ Num("storing")' = Num("storing") /\ Num("counting")' = Num("counting")
        /\ Num("copied")' = Num("copied") /\ Num("uncounting")' = Num("uncounting")
        /\ Num("storingAgent")' = Num("storingAgent") /\ Num("countingAgent")' = Num("countingAgent")
        /\ Num("uncountingAgent")' = Num("uncountingAgent") /\ Num("answering")' = Num("answering") - 1
    BY <1>t, <1>15, Zenon
  <2>2. /\ counter'["channels"] = counter["channels"] /\ counter'["agents"] = counter["agents"]
        /\ counter'["messages"] = counter["messages"] + 1
    BY <1>2, <1>15, Numbers
  <2>3. Channels
    BY <1>1, <1>3, <1>15, <2>1, <2>2, Numbers
  <2>4. Agents
    BY <1>1, <1>3, <1>15, <2>1, <2>2, Numbers
  <2>5. Messages
    BY <1>1, <1>3, <1>15, <2>1, <2>2, Numbers
  <2> QED
    BY <2>3, <2>4, <2>5
<1>16. ASSUME call[c].pc = "idle" /\ q = "storing" /\ m = "channels" /\ dd = 0 /\ da = 0 /\ n = 0
      PROVE  Goal
  <2>1. /\ Num("storing")' = Num("storing") + 1 /\ Num("counting")' = Num("counting")
        /\ Num("copied")' = Num("copied") /\ Num("uncounting")' = Num("uncounting")
        /\ Num("storingAgent")' = Num("storingAgent") /\ Num("countingAgent")' = Num("countingAgent")
        /\ Num("uncountingAgent")' = Num("uncountingAgent") /\ Num("answering")' = Num("answering")
    BY <1>t, <1>16, Zenon
  <2>2. /\ counter'["channels"] = counter["channels"] /\ counter'["agents"] = counter["agents"]
        /\ counter'["messages"] = counter["messages"]
    BY <1>2, <1>16, Numbers
  <2>3. Channels
    BY <1>1, <1>3, <1>4, <1>16, <2>1, <2>2, Numbers
  <2>4. Agents
    BY <1>1, <1>3, <1>4, <1>16, <2>1, <2>2, Numbers
  <2>5. Messages
    BY <1>1, <1>3, <1>4, <1>16, <2>1, <2>2, Numbers
  <2> QED
    BY <2>3, <2>4, <2>5
<1>17. ASSUME call[c].pc = "idle" /\ q = "storingAgent" /\ m = "agents" /\ dd = 0 /\ da = 0 /\ n = 0
      PROVE  Goal
  <2>1. /\ Num("storing")' = Num("storing") /\ Num("counting")' = Num("counting")
        /\ Num("copied")' = Num("copied") /\ Num("uncounting")' = Num("uncounting")
        /\ Num("storingAgent")' = Num("storingAgent") + 1 /\ Num("countingAgent")' = Num("countingAgent")
        /\ Num("uncountingAgent")' = Num("uncountingAgent") /\ Num("answering")' = Num("answering")
    BY <1>t, <1>17, Zenon
  <2>2. /\ counter'["channels"] = counter["channels"] /\ counter'["agents"] = counter["agents"]
        /\ counter'["messages"] = counter["messages"]
    BY <1>2, <1>17, Numbers
  <2>3. Channels
    BY <1>1, <1>3, <1>4, <1>17, <2>1, <2>2, Numbers
  <2>4. Agents
    BY <1>1, <1>3, <1>4, <1>17, <2>1, <2>2, Numbers
  <2>5. Messages
    BY <1>1, <1>3, <1>4, <1>17, <2>1, <2>2, Numbers
  <2> QED
    BY <2>3, <2>4, <2>5
<1>18. ASSUME call[c].pc = "idle" /\ q = "answering" /\ m = "messages" /\ dd = 0 /\ da = 0 /\ n = 0
      PROVE  Goal
  <2>1. /\ Num("storing")' = Num("storing") /\ Num("counting")' = Num("counting")
        /\ Num("copied")' = Num("copied") /\ Num("uncounting")' = Num("uncounting")
        /\ Num("storingAgent")' = Num("storingAgent") /\ Num("countingAgent")' = Num("countingAgent")
        /\ Num("uncountingAgent")' = Num("uncountingAgent") /\ Num("answering")' = Num("answering") + 1
    BY <1>t, <1>18, Zenon
  <2>2. /\ counter'["channels"] = counter["channels"] /\ counter'["agents"] = counter["agents"]
        /\ counter'["messages"] = counter["messages"]
    BY <1>2, <1>18, Numbers
  <2>3. Channels
    BY <1>1, <1>3, <1>4, <1>18, <2>1, <2>2, Numbers
  <2>4. Agents
    BY <1>1, <1>3, <1>4, <1>18, <2>1, <2>2, Numbers
  <2>5. Messages
    BY <1>1, <1>3, <1>4, <1>18, <2>1, <2>2, Numbers
  <2> QED
    BY <2>3, <2>4, <2>5
<1>19. ASSUME /\ call[c].pc \in {"idle", "archiving", "cascading"}
            /\ q \in {"idle", "removing", "archiving", "copying", "cascading"}
            /\ dd = 0 /\ da = 0 /\ n = 0
      PROVE  Goal
  <2>1. /\ Num("storing")' = Num("storing") /\ Num("counting")' = Num("counting")
        /\ Num("copied")' = Num("copied") /\ Num("uncounting")' = Num("uncounting")
        /\ Num("storingAgent")' = Num("storingAgent") /\ Num("countingAgent")' = Num("countingAgent")
        /\ Num("uncountingAgent")' = Num("uncountingAgent") /\ Num("answering")' = Num("answering")
    BY <1>t, <1>19, Zenon
  <2>2. /\ counter'["channels"] = counter["channels"] /\ counter'["agents"] = counter["agents"]
        /\ counter'["messages"] = counter["messages"]
    BY <1>2, <1>19, Numbers
  <2>3. Channels
    BY <1>1, <1>3, <1>19, <2>1, <2>2, Numbers
  <2>4. Agents
    BY <1>1, <1>3, <1>19, <2>1, <2>2, Numbers
  <2>5. Messages
    BY <1>1, <1>3, <1>19, <2>1, <2>2, Numbers
  <2> QED
    BY <2>3, <2>4, <2>5
<1>20. Goal
  BY <1>5, <1>6, <1>7, <1>8, <1>9, <1>10, <1>11, <1>12, <1>13, <1>14, <1>15, <1>16, <1>17, <1>18, <1>19 DEF Entry
<1> QED
  BY <1>20 DEF Books, ChannelsAreCounted, AgentsAreCounted, OvershootIsBounded

-----------------------------------------------------------------------------
(* Types *)

\* The records a request is replaced by.
LEMMA Records ==
    /\ Idle \in CallRecord
    /\ \A pc \in Step, a \in Agent, ch \in Channel, to \in Agent, todo \in SUBSET Channel :
          /\ [Idle EXCEPT !.pc = pc, !.agent = a, !.ch = ch] \in CallRecord
          /\ [Idle EXCEPT !.pc = pc, !.agent = a, !.ch = ch, !.to = to] \in CallRecord
          /\ [Idle EXCEPT !.pc = pc, !.agent = a] \in CallRecord
          /\ [Idle EXCEPT !.pc = pc, !.agent = a, !.todo = todo] \in CallRecord
    /\ \A r \in CallRecord, pc \in Step : [r EXCEPT !.pc = pc] \in CallRecord
    /\ \A r \in CallRecord, ch \in Channel :
          /\ [r EXCEPT !.pc = "removing", !.ch = ch] \in CallRecord
          /\ [r EXCEPT !.todo = @ \ {ch}] \in CallRecord
<1>1. System \in Agent
  BY SetAssumption
<1>2. Idle \in CallRecord
  BY <1>1 DEF Idle, CallRecord, Step
<1>3. ASSUME NEW pc \in Step, NEW a \in Agent, NEW ch \in Channel, NEW to \in Agent,
             NEW todo \in SUBSET Channel
      PROVE  /\ [Idle EXCEPT !.pc = pc, !.agent = a, !.ch = ch] \in CallRecord
             /\ [Idle EXCEPT !.pc = pc, !.agent = a, !.ch = ch, !.to = to] \in CallRecord
             /\ [Idle EXCEPT !.pc = pc, !.agent = a] \in CallRecord
             /\ [Idle EXCEPT !.pc = pc, !.agent = a, !.todo = todo] \in CallRecord
  BY <1>1 DEF Idle, CallRecord
<1>4. ASSUME NEW r \in CallRecord, NEW pc \in Step
      PROVE  [r EXCEPT !.pc = pc] \in CallRecord
  BY DEF CallRecord
<1>5. ASSUME NEW r \in CallRecord, NEW ch \in Channel
      PROVE  /\ [r EXCEPT !.pc = "removing", !.ch = ch] \in CallRecord
             /\ [r EXCEPT !.todo = @ \ {ch}] \in CallRecord
  BY DEF CallRecord, Step
<1> QED
  BY <1>2, <1>3, <1>4, <1>5, Zenon

\* Request c is replaced by record r.
LEMMA Replaces ==
    ASSUME TypeOK, NEW c \in Call, NEW r \in CallRecord, call' = [call EXCEPT ![c] = r]
    PROVE  Moves(c, r.pc) /\ call'[c] = r
BY DEF TypeOK, Moves

\* A request moves on and keeps the rest.
LEMMA GoesTo ==
    ASSUME TypeOK, NEW c \in Call, NEW pc \in Step, Goto(c, pc)
    PROVE  /\ Moves(c, pc)
           /\ call'[c].agent = call[c].agent /\ call'[c].ch = call[c].ch
           /\ call'[c].to = call[c].to /\ call'[c].todo = call[c].todo
<1>1. call[c] \in CallRecord /\ call' = [call EXCEPT ![c] = [call[c] EXCEPT !.pc = pc]]
  BY DEF TypeOK, Goto
<1>2. [call[c] EXCEPT !.pc = pc] \in CallRecord
  BY <1>1, Records
<1>3. call'[c] = [call[c] EXCEPT !.pc = pc] /\ Moves(c, [call[c] EXCEPT !.pc = pc].pc)
  BY <1>1, <1>2, Replaces
<1> QED
  BY <1>1, <1>3 DEF CallRecord

\* A request is done.
LEMMA GoesIdle ==
    ASSUME TypeOK, NEW c \in Call, call' = [call EXCEPT ![c] = Idle]
    PROVE  Moves(c, "idle") /\ call'[c] = Idle /\ call'[c].ch = NULL /\ call'[c].todo = {}
<1>1. Idle \in CallRecord /\ Idle.pc = "idle" /\ Idle.ch = NULL /\ Idle.todo = {}
  BY Records DEF Idle
<1>2. Moves(c, Idle.pc) /\ call'[c] = Idle
  BY <1>1, Replaces
<1> QED
  BY <1>1, <1>2

\* A deletion ends, or goes back to its cascade without a channel.
LEMMA Returns ==
    ASSUME TypeOK, NEW c \in Call, Return(c)
    PROVE  \/ Moves(c, "idle") /\ call'[c] = Idle
           \/ /\ Moves(c, "cascading") /\ call'[c].ch = NULL /\ call[c].todo # {}
              /\ call'[c].agent = call[c].agent
<1>1. CASE call[c].todo = {}
  <2>1. Back(call[c]) = Idle
    BY <1>1 DEF Back
  <2> QED
    BY <2>1, GoesIdle DEF Return
<1>2. CASE call[c].todo # {}
  <2>1. call[c] \in CallRecord
    BY DEF TypeOK
  <2>2. Back(call[c]) = [call[c] EXCEPT !.pc = "cascading", !.ch = NULL,
                                        !.todo = call[c].todo \ {call[c].ch}]
    BY <1>2 DEF Back
  <2>3. /\ Back(call[c]) \in CallRecord
        /\ Back(call[c]).pc = "cascading" /\ Back(call[c]).ch = NULL
        /\ Back(call[c]).agent = call[c].agent
    BY <2>1, <2>2 DEF CallRecord, Step
  <2>4. Moves(c, Back(call[c]).pc) /\ call'[c] = Back(call[c])
    BY <2>3, Replaces DEF Return
  <2> QED
    BY <1>2, <2>3, <2>4
<1> QED
  BY <1>1, <1>2

-----------------------------------------------------------------------------
(* What a step keeps *)

Keeps == Books' /\ Places'

\* A step that counts a fault, or meets a mismatch, leaves no clean state.
LEMMA StaysClean ==
    ASSUME TypeOK, faults' = faults \/ Fault, mismatch => mismatch'
    PROVE  Clean' => Clean /\ faults' = faults
BY DEF TypeOK, Clean, Fault

\* The quota check, when nothing failed, saw a counter below the limit.
LEMMA Admitted ==
    ASSUME TypeOK, NEW m \in Metric, checkAuthority(m), UNCHANGED mismatch
    PROVE  /\ Clean' => Clean
           /\ Clean' => counter[m] < Limit[m]
BY DEF TypeOK, checkAuthority, Fault, Clean

\* The requests keep their shape when the one that moved does, no channel becomes new, and
\* those about to store one still have it for themselves.
LEMMA ShapeKept ==
    ASSUME Shape, NEW c \in Call, NEW q, Moves(c, q), ShapeOf(c)',
           \A ch \in Channel : fate[ch] # "new" => fate'[ch] # "new",
           \A o \in Call \ {c} :
              call[o].pc = "storing" => fate'[call[o].ch] = "new" /\ call'[c].ch # call[o].ch
    PROVE  Shape'
<1> SUFFICES ASSUME NEW o \in Call PROVE ShapeOf(o)'
  BY DEF Shape
<1>1. CASE o = c
  BY <1>1
<1>2. CASE o # c
  <2>1. ShapeOf(o) /\ call'[o] = call[o]
    BY <1>2 DEF Shape, Moves
  <2>0. call[o].pc \in ChannelSteps => call[o].ch \in Channel
    BY <2>1 DEF ShapeOf
  <2>2. call[o].pc = "storing" =>
            fate'[call[o].ch] = "new" /\ \A p \in Call \ {o} : call'[p].ch # call[o].ch
    <3> SUFFICES ASSUME call[o].pc = "storing", NEW p \in Call \ {o}
                 PROVE  call'[p].ch # call[o].ch
      BY <1>2
    <3>1. CASE p = c
      BY <1>2, <3>1
    <3>2. CASE p # c
      BY <2>1, <3>2 DEF ShapeOf, Moves
    <3> QED
      BY <3>1, <3>2
  <2>3. call[o].pc \in ChannelSteps \ {"storing"} => fate'[call[o].ch] # "new"
    BY <2>0, <2>1 DEF ShapeOf, ChannelSteps
  <2>4. call[o].pc = "cascading" \/ call[o].todo # {} => call[o].agent # System
    BY <2>1 DEF ShapeOf
  <2> QED
    BY <2>0, <2>1, <2>2, <2>3, <2>4 DEF ShapeOf
<1> QED
  BY <1>1, <1>2

\* A step that touches no channel document, and neither ends nor makes a copy, leaves the
\* places alone.
LEMMA PlacesKept ==
    ASSUME TypeOK, Places, NEW c \in Call, NEW q, Moves(c, q),
           call[c].pc # "copied", q # "copied",
           UNCHANGED <<docs, fate, past>>, mismatch => mismatch', Clean' => Clean, Shape'
    PROVE  Places'
<1>1. \A ch \in Channel : Homes(ch)' = Homes(ch)
  BY DEF Homes
<1>2. \A ch \in Channel : Copies(ch)' = Copies(ch)
  BY DEF Copies, Moves
<1>3. NewIsNowhere'
  BY DEF Places, NewIsNowhere
<1>4. AtLeast'
  <2> SUFFICES ASSUME ~mismatch', NEW ch \in Channel, fate[ch] = "live"
               PROVE  Cardinality(Homes(ch)') >= 1 + Cardinality(Copies(ch)')
    BY DEF AtLeast
  <2> QED
    BY <1>1, <1>2 DEF Places, AtLeast
<1>5. AtMost'
  <2> SUFFICES ASSUME Clean', NEW ch \in Channel \ haunted
               PROVE  Cardinality(Homes(ch)')
                         <= (IF fate[ch] = "live" THEN 1 ELSE 0) + Cardinality(Copies(ch)')
    BY <1>1 DEF AtMost
  <2> QED
    BY <1>1, <1>2 DEF Places, AtMost
<1> QED
  BY <1>3, <1>4, <1>5 DEF Places

\* A request that waits for the quota, or works for it, without touching a document: its
\* shape holds when its channel, if it has one, is not about to be created.
LEMMA QuietKeeps ==
    ASSUME IInv, NEW c \in Call, NEW q, Moves(c, q),
           call[c].pc # "copied", q \notin ChannelSteps,
           q = "cascading" \/ call'[c].todo # {} => call'[c].agent # System,
           call'[c].ch \in {call[c].ch, NULL},
           UNCHANGED <<docs, fate, past, mismatch>>, Clean' => Clean
    PROVE  Places'
<1>1. ShapeOf(c)'
  BY DEF ShapeOf, Moves, ChannelSteps
<1>2. \A o \in Call \ {c} :
         call[o].pc = "storing" => fate'[call[o].ch] = "new" /\ call'[c].ch # call[o].ch
  BY SetAssumption DEF IInv, Places, Shape, ShapeOf, ChannelSteps
<1>3. Shape'
  BY <1>1, <1>2, ShapeKept DEF IInv, Places
<1>4. q # "copied"
  BY DEF ChannelSteps
<1> QED
  BY <1>3, <1>4, PlacesKept DEF IInv

\* A request that takes a channel which exists, to delete, archive or move it.
LEMMA TakesChannel ==
    ASSUME IInv, NEW c \in Call, NEW q \in {"removing", "archiving", "copying"}, Moves(c, q),
           call[c].pc # "copied", call'[c].ch \in Channel, fate[call'[c].ch] # "new",
           call'[c].todo # {} => call'[c].agent # System,
           UNCHANGED <<docs, fate, past, mismatch>>, Clean' => Clean
    PROVE  Places'
<1>1. ShapeOf(c)'
  BY DEF ShapeOf, Moves, ChannelSteps
<1>2. \A o \in Call \ {c} :
         call[o].pc = "storing" => fate'[call[o].ch] = "new" /\ call'[c].ch # call[o].ch
  BY DEF IInv, Places, Shape, ShapeOf, ChannelSteps
<1>3. Shape'
  BY <1>1, <1>2, ShapeKept DEF IInv, Places
<1> QED
  BY <1>3, PlacesKept DEF IInv

\* A step that counts nothing keeps the books.
LEMMA BooksWait ==
    ASSUME IInv, NEW c \in Call, NEW q, Moves(c, q), NEW m \in Metric,
           Entry(call[c].pc, q, 0, 0, m, 0), UNCHANGED <<docs, agents, counter, past>>,
           Clean' => Clean,
           Clean' /\ q \in {"storing", "storingAgent", "answering"} => counter[m] < Limit[m]
    PROVE  Books'
<1>1. TypeOK /\ Books
  BY DEF IInv
<1>2. counter' = [counter EXCEPT ![m] = @ + 0]
  BY <1>1 DEF TypeOK
<1>3. /\ Cardinality(docs') = Cardinality(docs) + 0
      /\ Cardinality(agents' \ {System}) = Cardinality(agents \ {System}) + 0
  BY <1>1, Numbers
<1>4. 0 \in Int
  OBVIOUS
<1> QED
  BY <1>1, <1>2, <1>3, <1>4, BooksKept, Zenon

-----------------------------------------------------------------------------
(* The requests that start *)

LEMMA CreateChannelKeeps == ASSUME IInv, NEW c \in Call, CreateChannel(c) PROVE Keeps
<1>1. TypeOK /\ call[c].pc = "idle" /\ UNCHANGED <<docs, agents, counter, fate, past, mismatch>>
  BY DEF IInv, CreateChannel, Free
<1>2. PICK a \in Agent, ch \in Channel :
         /\ fate[ch] = "new" /\ \A o \in Call : call[o].ch # ch
         /\ call' = [call EXCEPT ![c] = [Idle EXCEPT !.pc = "storing", !.agent = a, !.ch = ch]]
  BY DEF CreateChannel
<1> DEFINE r == [Idle EXCEPT !.pc = "storing", !.agent = a, !.ch = ch]
<1>3. r \in CallRecord /\ r.pc = "storing" /\ r.ch = ch /\ r.todo = {}
  BY Records DEF Idle, Step
<1>4. Moves(c, "storing") /\ call'[c].ch = ch /\ call'[c].todo = {}
  BY <1>1, <1>2, <1>3, Replaces
<1>5. (Clean' => Clean) /\ (Clean' => counter["channels"] < Limit["channels"])
  BY <1>1, Admitted DEF CreateChannel, Metric
<1>6. Books'
  <2>1. Entry(call[c].pc, "storing", 0, 0, "channels", 0)
    BY <1>1 DEF Entry
  <2> QED
    BY <1>1, <1>4, <1>5, <2>1, BooksWait DEF Metric
<1>7. Places'
  <2>1. ShapeOf(c)'
    BY <1>1, <1>2, <1>4 DEF ShapeOf, Moves, ChannelSteps
  <2>2. \A o \in Call \ {c} :
           call[o].pc = "storing" => fate'[call[o].ch] = "new" /\ call'[c].ch # call[o].ch
    BY <1>1, <1>2, <1>4 DEF IInv, Places, Shape, ShapeOf
  <2>3. Shape'
    BY <1>1, <1>4, <2>1, <2>2, ShapeKept DEF IInv, Places
  <2> QED
    BY <1>1, <1>4, <1>5, <2>3, PlacesKept DEF IInv
<1> QED
  BY <1>6, <1>7 DEF Keeps

LEMMA DeleteChannelKeeps == ASSUME IInv, NEW c \in Call, DeleteChannel(c) PROVE Keeps
<1>1. TypeOK /\ call[c].pc = "idle" /\ UNCHANGED <<docs, agents, counter, fate, past, mismatch, faults>>
  BY DEF IInv, DeleteChannel, Free
<1>2. PICK d \in docs, pc \in {"removing", "archiving"} :
         call' = [call EXCEPT ![c] = [Idle EXCEPT !.pc = pc, !.agent = d[1], !.ch = d[2]]]
  BY DEF DeleteChannel
<1> DEFINE r == [Idle EXCEPT !.pc = pc, !.agent = d[1], !.ch = d[2]]
<1>3. d[1] \in Agent /\ d[2] \in Channel /\ d = <<d[1], d[2]>> /\ fate[d[2]] # "new"
  BY <1>1 DEF TypeOK, IInv, Places, NewIsNowhere
<1>4. r \in CallRecord /\ r.pc = pc /\ r.ch = d[2] /\ r.todo = {}
  BY <1>3, Records DEF Idle, Step
<1>r. call' = [call EXCEPT ![c] = r]
  BY <1>2
<1> HIDE DEF r
<1>5. Moves(c, pc) /\ call'[c].ch = d[2] /\ call'[c].todo = {}
  BY <1>1, <1>r, <1>4, Replaces
<1>6. Clean' => Clean
  BY <1>1 DEF Clean
<1>7. Books'
  <2>1. Entry(call[c].pc, pc, 0, 0, "channels", 0)
    BY <1>1 DEF Entry
  <2> QED
    BY <1>1, <1>5, <1>6, <2>1, BooksWait DEF Metric
<1>8. Places'
  BY <1>1, <1>3, <1>5, <1>6, TakesChannel
<1> QED
  BY <1>7, <1>8 DEF Keeps

LEMMA MoveChannelKeeps == ASSUME IInv, NEW c \in Call, MoveChannel(c) PROVE Keeps
<1>1. TypeOK /\ call[c].pc = "idle" /\ UNCHANGED <<docs, agents, counter, fate, past, mismatch, faults>>
  BY DEF IInv, MoveChannel, Free
<1>2. PICK d \in docs, to \in Agent :
         call' = [call EXCEPT ![c] =
            [Idle EXCEPT !.pc = "copying", !.agent = d[1], !.ch = d[2], !.to = to]]
  BY DEF MoveChannel
<1> DEFINE r == [Idle EXCEPT !.pc = "copying", !.agent = d[1], !.ch = d[2], !.to = to]
<1>3. d[1] \in Agent /\ d[2] \in Channel /\ d = <<d[1], d[2]>> /\ fate[d[2]] # "new"
  BY <1>1 DEF TypeOK, IInv, Places, NewIsNowhere
<1>4. r \in CallRecord /\ r.pc = "copying" /\ r.ch = d[2] /\ r.todo = {}
  BY <1>3, Records DEF Idle, Step
<1>r. call' = [call EXCEPT ![c] = r]
  BY <1>2
<1> HIDE DEF r
<1>5. Moves(c, "copying") /\ call'[c].ch = d[2] /\ call'[c].todo = {}
  BY <1>1, <1>r, <1>4, Replaces
<1>6. Clean' => Clean
  BY <1>1 DEF Clean
<1>7. Books'
  <2>1. Entry(call[c].pc, "copying", 0, 0, "channels", 0)
    BY <1>1 DEF Entry
  <2> QED
    BY <1>1, <1>5, <1>6, <2>1, BooksWait DEF Metric
<1>8. Places'
  BY <1>1, <1>3, <1>5, <1>6, TakesChannel
<1> QED
  BY <1>7, <1>8 DEF Keeps

LEMMA CreateAgentKeeps == ASSUME IInv, NEW c \in Call, CreateAgent(c) PROVE Keeps
<1>1. TypeOK /\ call[c].pc = "idle" /\ UNCHANGED <<docs, agents, counter, fate, past, mismatch>>
  BY DEF IInv, CreateAgent, Free
<1>2. PICK a \in Agent :
         call' = [call EXCEPT ![c] = [Idle EXCEPT !.pc = "storingAgent", !.agent = a]]
  BY DEF CreateAgent
<1> DEFINE r == [Idle EXCEPT !.pc = "storingAgent", !.agent = a]
<1>3. r \in CallRecord /\ r.pc = "storingAgent" /\ r.ch = NULL /\ r.todo = {}
  BY SetAssumption DEF CallRecord, Idle, Step
<1>r. call' = [call EXCEPT ![c] = r]
  BY <1>2
<1> HIDE DEF r
<1>4. Moves(c, "storingAgent") /\ call'[c].ch = NULL /\ call'[c].todo = {}
  BY <1>1, <1>r, <1>3, Replaces
<1>5. (Clean' => Clean) /\ (Clean' => counter["agents"] < Limit["agents"])
  BY <1>1, Admitted DEF CreateAgent, Metric
<1>6. Books'
  <2>1. Entry(call[c].pc, "storingAgent", 0, 0, "agents", 0)
    BY <1>1 DEF Entry
  <2> QED
    BY <1>1, <1>4, <1>5, <2>1, BooksWait DEF Metric
<1>7. Places'
  BY <1>1, <1>4, <1>5, QuietKeeps DEF ChannelSteps
<1> QED
  BY <1>6, <1>7 DEF Keeps

LEMMA DeleteAgentKeeps == ASSUME IInv, NEW c \in Call, DeleteAgent(c) PROVE Keeps
<1>1. TypeOK /\ call[c].pc = "idle" /\ UNCHANGED <<docs, agents, counter, fate, past, mismatch>>
  BY DEF IInv, DeleteAgent, Free
<1>2. PICK a \in Agent \ {System}, todo \in SUBSET Channel :
         /\ UNCHANGED faults \/ Fault
         /\ call' = [call EXCEPT ![c] =
               [Idle EXCEPT !.pc = "cascading", !.agent = a, !.todo = todo]]
  BY DEF DeleteAgent
<1> DEFINE r == [Idle EXCEPT !.pc = "cascading", !.agent = a, !.todo = todo]
<1>3. r \in CallRecord /\ r.pc = "cascading" /\ r.ch = NULL /\ r.agent = a
  BY SetAssumption DEF CallRecord, Idle, Step
<1>r. call' = [call EXCEPT ![c] = r]
  BY <1>2
<1> HIDE DEF r
<1>4. Moves(c, "cascading") /\ call'[c].ch = NULL /\ call'[c].agent # System
  BY <1>1, <1>r, <1>3, Replaces
<1>5. Clean' => Clean
  BY <1>1, <1>2, StaysClean
<1>6. Books'
  <2>1. Entry(call[c].pc, "cascading", 0, 0, "agents", 0)
    BY <1>1 DEF Entry
  <2> QED
    BY <1>1, <1>4, <1>5, <2>1, BooksWait DEF Metric
<1>7. Places'
  BY <1>1, <1>4, <1>5, QuietKeeps DEF ChannelSteps
<1> QED
  BY <1>6, <1>7 DEF Keeps

LEMMA CascadeKeeps == ASSUME IInv, NEW c \in Call, Cascade(c) PROVE Keeps
<1>1. /\ TypeOK /\ call[c] \in CallRecord /\ call[c].pc = "cascading" /\ call[c].agent # System
      /\ UNCHANGED <<docs, agents, counter, fate, past, mismatch>>
  BY DEF IInv, TypeOK, Places, Shape, ShapeOf, Cascade
<1>2. PICK ch \in call[c].todo :
         \/ /\ <<call[c].agent, ch>> \in docs /\ UNCHANGED faults
            /\ call' = [call EXCEPT ![c].pc = "removing", ![c].ch = ch]
         \/ /\ UNCHANGED faults \/ Fault
            /\ call' = [call EXCEPT ![c].todo = @ \ {ch}]
  BY DEF Cascade
<1>3. Clean' => Clean
  BY <1>1, <1>2, StaysClean
<1>4. call[c].agent \in Agent /\ ch \in Channel
  BY <1>1 DEF CallRecord
<1>5. CASE /\ <<call[c].agent, ch>> \in docs
           /\ call' = [call EXCEPT ![c].pc = "removing", ![c].ch = ch]
  <2> DEFINE r == [call[c] EXCEPT !.pc = "removing", !.ch = ch]
  <2>1. call' = [call EXCEPT ![c] = r]
    BY <1>1, <1>5 DEF TypeOK
  <2>2. r \in CallRecord /\ r.pc = "removing" /\ r.ch = ch /\ r.agent = call[c].agent
    BY <1>1, <1>4, Records DEF CallRecord
  <2>3. Moves(c, "removing") /\ call'[c].ch = ch /\ call'[c].agent = call[c].agent
    BY <1>1, <2>1, <2>2, Replaces
  <2>4. Entry(call[c].pc, "removing", 0, 0, "agents", 0)
    BY <1>1 DEF Entry
  <2>5. Books'
    BY <1>1, <1>3, <2>3, <2>4, BooksWait DEF Metric
  <2>6. fate[ch] # "new"
    BY <1>4, <1>5 DEF IInv, Places, NewIsNowhere
  <2>7. Places'
    BY <1>1, <1>3, <1>4, <2>3, <2>6, TakesChannel
  <2> QED
    BY <2>5, <2>7 DEF Keeps
<1>6. CASE call' = [call EXCEPT ![c].todo = @ \ {ch}]
  <2> DEFINE r == [call[c] EXCEPT !.todo = @ \ {ch}]
  <2>1. call' = [call EXCEPT ![c] = r]
    BY <1>1, <1>6 DEF TypeOK
  <2>2. r \in CallRecord /\ r.pc = "cascading" /\ r.ch = call[c].ch /\ r.agent = call[c].agent
    BY <1>1, <1>4, Records DEF CallRecord
  <2> HIDE DEF r
  <2>3. /\ Moves(c, "cascading") /\ call'[c].ch = call[c].ch /\ call'[c].agent = call[c].agent
    <3>1. Moves(c, r.pc) /\ call'[c] = r
      BY <1>1, <2>1, <2>2, Replaces
    <3> QED
      BY <2>2, <3>1
  <2>4. Entry(call[c].pc, "cascading", 0, 0, "agents", 0)
    BY <1>1 DEF Entry
  <2>5. Books'
    BY <1>1, <1>3, <2>3, <2>4, BooksWait DEF Metric
  <2>6. Places'
    BY <1>1, <1>3, <2>3, QuietKeeps DEF ChannelSteps
  <2> QED
    BY <2>5, <2>6 DEF Keeps
<1> QED
  BY <1>2, <1>5, <1>6

LEMMA AnswerKeeps == ASSUME IInv, NEW c \in Call, Answer(c) PROVE Keeps
<1>1. TypeOK /\ call[c].pc = "idle" /\ UNCHANGED <<docs, agents, counter, fate, past, mismatch>>
  BY DEF IInv, Answer, Free
<1>2. /\ Moves(c, "answering") /\ call'[c].ch = call[c].ch /\ call'[c].todo = call[c].todo
      /\ call'[c].agent = call[c].agent
  BY <1>1, GoesTo DEF Answer, Step
<1>3. (Clean' => Clean) /\ (Clean' => counter["messages"] < Limit["messages"])
  BY <1>1, Admitted DEF Answer, Metric
<1>4. Books'
  <2>1. Entry(call[c].pc, "answering", 0, 0, "messages", 0)
    BY <1>1 DEF Entry
  <2> QED
    BY <1>1, <1>2, <1>3, <2>1, BooksWait DEF Metric
<1>5. call[c].todo # {} => call[c].agent # System
  BY DEF IInv, Places, Shape, ShapeOf
<1>6. Places'
  BY <1>1, <1>2, <1>3, <1>5, QuietKeeps DEF ChannelSteps
<1> QED
  BY <1>4, <1>6 DEF Keeps

-----------------------------------------------------------------------------
(* The counters *)

\* A count that did not fail is exact; one that failed ends the clean states.
LEMMA Counted ==
    ASSUME TypeOK, NEW m \in Metric, NEW n \in Int, recordUsage(m, n), UNCHANGED mismatch
    PROVE  /\ Clean' => Clean
           /\ Clean' => counter' = [counter EXCEPT ![m] = @ + n]
BY DEF TypeOK, recordUsage, Fault, Clean

\* A request that counts keeps the books and the places.
LEMMA CountKeeps ==
    ASSUME IInv, NEW c \in Call, NEW m \in Metric, NEW n \in Int, recordUsage(m, n),
           NEW q \in {"idle", "cascading"}, Moves(c, q), call[c].pc # "copied",
           Entry(call[c].pc, q, 0, 0, m, n), UNCHANGED <<docs, agents, fate, past, mismatch>>,
           q = "cascading" \/ call'[c].todo # {} => call'[c].agent # System, call'[c].ch = NULL
    PROVE  Keeps
<1>1. TypeOK /\ Books
  BY DEF IInv
<1>2. /\ Clean' => Clean
      /\ Clean' => counter' = [counter EXCEPT ![m] = @ + n]
  BY <1>1, Counted
<1>3. Books'
  <2>1. /\ Cardinality(docs') = Cardinality(docs) + 0
        /\ Cardinality(agents' \ {System}) = Cardinality(agents \ {System}) + 0
    BY <1>1, Numbers
  <2>2. 0 \in Int /\ q \notin {"storing", "storingAgent", "answering"}
    OBVIOUS
  <2> QED
    BY <1>1, <1>2, <2>1, <2>2, BooksKept, Zenon
<1>4. Places'
  BY <1>2, QuietKeeps DEF ChannelSteps
<1> QED
  BY <1>3, <1>4 DEF Keeps

LEMMA CountChannelKeeps == ASSUME IInv, NEW c \in Call, CountChannel(c) PROVE Keeps
<1>1. call[c].pc = "counting" /\ recordUsage("channels", 1) /\ UNCHANGED <<docs, agents, fate, past, mismatch>>
  BY DEF CountChannel
<1>2. Moves(c, "idle") /\ call'[c].ch = NULL /\ call'[c].todo = {}
  BY GoesIdle DEF IInv, CountChannel
<1>3. Entry(call[c].pc, "idle", 0, 0, "channels", 1)
  BY <1>1 DEF Entry
<1> QED
  BY <1>1, <1>2, <1>3, CountKeeps DEF Metric

LEMMA CountAgentKeeps == ASSUME IInv, NEW c \in Call, CountAgent(c) PROVE Keeps
<1>1. call[c].pc = "countingAgent" /\ recordUsage("agents", 1) /\ UNCHANGED <<docs, agents, fate, past, mismatch>>
  BY DEF CountAgent
<1>2. Moves(c, "idle") /\ call'[c].ch = NULL /\ call'[c].todo = {}
  BY GoesIdle DEF IInv, CountAgent
<1>3. Entry(call[c].pc, "idle", 0, 0, "agents", 1)
  BY <1>1 DEF Entry
<1> QED
  BY <1>1, <1>2, <1>3, CountKeeps DEF Metric

LEMMA UncountAgentKeeps == ASSUME IInv, NEW c \in Call, UncountAgent(c) PROVE Keeps
<1>1. /\ call[c].pc = "uncountingAgent" /\ recordUsage("agents", 0 - 1)
      /\ UNCHANGED <<docs, agents, fate, past, mismatch>>
  <2>1. -1 = 0 - 1
    OBVIOUS
  <2> QED
    BY <2>1 DEF UncountAgent
<1>2. Moves(c, "idle") /\ call'[c].ch = NULL /\ call'[c].todo = {}
  BY GoesIdle DEF IInv, UncountAgent
<1>3. Entry(call[c].pc, "idle", 0, 0, "agents", 0 - 1)
  BY <1>1 DEF Entry
<1> QED
  BY <1>1, <1>2, <1>3, CountKeeps DEF Metric

LEMMA CountAnswerKeeps == ASSUME IInv, NEW c \in Call, CountAnswer(c) PROVE Keeps
<1>1. call[c].pc = "answering" /\ recordUsage("messages", 1) /\ UNCHANGED <<docs, agents, fate, past, mismatch>>
  BY DEF CountAnswer
<1>2. Moves(c, "idle") /\ call'[c].ch = NULL /\ call'[c].todo = {}
  BY GoesIdle DEF IInv, CountAnswer
<1>3. Entry(call[c].pc, "idle", 0, 0, "messages", 1)
  BY <1>1 DEF Entry
<1> QED
  BY <1>1, <1>2, <1>3, CountKeeps DEF Metric

LEMMA UncountChannelKeeps == ASSUME IInv, NEW c \in Call, UncountChannel(c) PROVE Keeps
<1>1. /\ call[c].pc = "uncounting" /\ recordUsage("channels", 0 - 1) /\ Return(c)
      /\ UNCHANGED <<docs, agents, fate, past, mismatch>>
  <2>1. -1 = 0 - 1
    OBVIOUS
  <2> QED
    BY <2>1 DEF UncountChannel
<1>2. call[c].todo # {} => call[c].agent # System
  BY DEF IInv, Places, Shape, ShapeOf
<1>3. CASE Moves(c, "idle") /\ call'[c] = Idle
  <2>1. Entry(call[c].pc, "idle", 0, 0, "channels", 0 - 1)
    BY <1>1 DEF Entry
  <2>2. call'[c].ch = NULL /\ call'[c].todo = {}
    BY <1>3 DEF Idle
  <2> QED
    BY <1>1, <1>3, <2>1, <2>2, CountKeeps DEF Metric
<1>4. CASE /\ Moves(c, "cascading") /\ call'[c].ch = NULL /\ call[c].todo # {}
           /\ call'[c].agent = call[c].agent
  <2>1. Entry(call[c].pc, "cascading", 0, 0, "channels", 0 - 1)
    BY <1>1 DEF Entry
  <2> QED
    BY <1>1, <1>2, <1>4, <2>1, CountKeeps DEF Metric
<1> QED
  BY <1>1, <1>3, <1>4, Returns DEF IInv

\* The reset of the messages leaves room for every request that is answering.
LEMMA InvoicePaidKeeps == ASSUME IInv, InvoicePaid PROVE Keeps
<1>1. TypeOK /\ UNCHANGED <<docs, agents, call, fate, past, mismatch, faults>>
  BY DEF IInv, InvoicePaid
<1>2. /\ counter'["channels"] = counter["channels"] /\ counter'["agents"] = counter["agents"]
      /\ counter'["messages"] = 0
  BY <1>1 DEF TypeOK, InvoicePaid, Metric
<1>3. Num("answering") <= Limit["messages"] + Cardinality(Call) - 1
  BY <1>1, NumBound, Numbers
<1>4. Books'
  BY <1>1, <1>2, <1>3, Numbers
  DEF IInv, Books, ChannelsAreCounted, AgentsAreCounted, OvershootIsBounded, Clean, Num, At
<1>5. Places'
  BY <1>1 DEF IInv, Places, Shape, ShapeOf, NewIsNowhere, AtLeast, AtMost, Homes, Copies, Clean
<1> QED
  BY <1>4, <1>5 DEF Keeps

-----------------------------------------------------------------------------
(* The documents *)

\* A document is written where there was none.
LEMMA PutsHome ==
    ASSUME TypeOK, NEW a \in Agent, NEW h \in Channel, <<a, h>> \notin docs,
           docs' = docs \cup {<<a, h>>}
    PROVE  /\ Cardinality(docs') = Cardinality(docs) + 1
           /\ Cardinality(Homes(h))' = Cardinality(Homes(h)) + 1
           /\ \A ch \in Channel \ {h} : Homes(ch)' = Homes(ch)
<1>1. IsFiniteSet(docs) /\ IsFiniteSet(Homes(h))
  BY Finite
<1>2. a \notin Homes(h) /\ Homes(h)' = Homes(h) \cup {a}
  BY DEF Homes
<1>3. \A ch \in Channel \ {h} : Homes(ch)' = Homes(ch)
  BY DEF Homes
<1>4. Cardinality(docs') = Cardinality(docs) + 1
  BY <1>1, PlusMinus
<1>5. Cardinality(Homes(h) \cup {a}) = Cardinality(Homes(h)) + 1
  BY <1>1, <1>2, PlusMinus
<1> QED
  BY <1>2, <1>3, <1>4, <1>5

\* A document is deleted that was there.
LEMMA DropsHome ==
    ASSUME TypeOK, NEW a \in Agent, NEW h \in Channel, <<a, h>> \in docs,
           docs' = docs \ {<<a, h>>}
    PROVE  /\ Cardinality(docs') = Cardinality(docs) - 1
           /\ Cardinality(Homes(h))' = Cardinality(Homes(h)) - 1
           /\ \A ch \in Channel \ {h} : Homes(ch)' = Homes(ch)
<1>1. IsFiniteSet(docs) /\ IsFiniteSet(Homes(h))
  BY Finite
<1>2. a \in Homes(h) /\ Homes(h)' = Homes(h) \ {a}
  BY DEF Homes
<1>3. \A ch \in Channel \ {h} : Homes(ch)' = Homes(ch)
  BY DEF Homes
<1>4. Cardinality(docs') = Cardinality(docs) - 1
  BY <1>1, PlusMinus
<1>5. Cardinality(Homes(h) \ {a}) = Cardinality(Homes(h)) - 1
  BY <1>1, <1>2, PlusMinus
<1> QED
  BY <1>2, <1>3, <1>4, <1>5

\* A step that changes the documents by dd and no counter keeps the books.
LEMMA BooksDocs ==
    ASSUME IInv, NEW c \in Call, NEW q, Moves(c, q), NEW dd \in Int, NEW da \in Int,
           Entry(call[c].pc, q, dd, da, "channels", 0),
           q \notin {"storing", "storingAgent", "answering"}, Clean' => Clean,
           Clean' => /\ Cardinality(docs') = Cardinality(docs) + dd
                     /\ Cardinality(agents' \ {System}) = Cardinality(agents \ {System}) + da,
           UNCHANGED <<counter, past>>
    PROVE  Books'
<1>1. TypeOK /\ Books
  BY DEF IInv
<1>2. counter' = [counter EXCEPT !["channels"] = @ + 0]
  BY <1>1 DEF TypeOK, Metric
<1>3. 0 \in Int /\ "channels" \in Metric
  BY DEF Metric
<1> QED
  BY <1>1, <1>2, <1>3, BooksKept, Zenon

\* The agent and the channel a request is about.
LEMMA Subject ==
    ASSUME IInv, NEW c \in Call, call[c].pc \in ChannelSteps
    PROVE  call[c].agent \in Agent /\ call[c].ch \in Channel /\ call[c].to \in Agent
BY DEF IInv, TypeOK, CallRecord, Places, Shape, ShapeOf

LEMMA StoreChannelKeeps == ASSUME IInv, NEW c \in Call, StoreChannel(c) PROVE Keeps
<1>1. TypeOK /\ call[c].pc = "storing" /\ UNCHANGED <<agents, counter, past, faults>>
  BY DEF IInv, StoreChannel
<1>p. PICK a \in Agent, h \in Channel : a = call[c].agent /\ h = call[c].ch
  BY <1>1, Subject DEF ChannelSteps
<1>2. /\ docs' = docs \cup {<<a, h>>} /\ mismatch' = (mismatch \/ <<a, h>> \in docs)
      /\ fate' = [fate EXCEPT ![h] = "live"]
  BY <1>p DEF StoreChannel, Put, Doc
<1>3. /\ fate[h] = "new" /\ \A o \in Call \ {c} : call[o].ch # h
      /\ call[c].todo # {} => a # System
  BY <1>1, <1>p DEF IInv, Places, Shape, ShapeOf
<1>4. <<a, h>> \notin docs /\ Homes(h) = {} /\ mismatch' = mismatch
  BY <1>1, <1>2, <1>3 DEF IInv, Places, NewIsNowhere, Homes, TypeOK
<1>5. Moves(c, "counting") /\ call'[c].ch = h /\ call'[c].todo = call[c].todo /\ call'[c].agent = a
  BY <1>1, <1>p, GoesTo DEF StoreChannel, Step
<1>6. Clean' => Clean
  BY <1>1, <1>4 DEF Clean
<1>7. /\ Cardinality(docs') = Cardinality(docs) + 1
      /\ Cardinality(Homes(h))' = Cardinality(Homes(h)) + 1
      /\ \A ch \in Channel \ {h} : Homes(ch)' = Homes(ch)
  BY <1>1, <1>2, <1>4, PutsHome
<1>8. \A ch \in Channel : fate'[ch] = IF ch = h THEN "live" ELSE fate[ch]
  BY <1>1, <1>2 DEF TypeOK
<1>9. Books'
  <2>1. Entry(call[c].pc, "counting", 1, 0, "channels", 0)
    BY <1>1 DEF Entry
  <2>2. Cardinality(agents' \ {System}) = Cardinality(agents \ {System}) + 0
    BY <1>1, Numbers
  <2>3. 1 \in Int /\ 0 \in Int
    OBVIOUS
  <2> QED
    BY <1>1, <1>5, <1>6, <1>7, <2>1, <2>2, <2>3, BooksDocs
<1>10. Shape'
  <2>1. ShapeOf(c)'
    BY <1>1, <1>3, <1>p, <1>5, <1>8 DEF ShapeOf, Moves, ChannelSteps
  <2>2. \A o \in Call \ {c} :
           call[o].pc = "storing" => fate'[call[o].ch] = "new" /\ call'[c].ch # call[o].ch
    BY <1>3, <1>5, <1>8 DEF IInv, Places, Shape, ShapeOf, ChannelSteps
  <2>3. \A ch \in Channel : fate[ch] # "new" => fate'[ch] # "new"
    BY <1>8
  <2> QED
    BY <1>5, <2>1, <2>2, <2>3, ShapeKept DEF IInv, Places
<1>11. NewIsNowhere'
  BY <1>1, <1>2, <1>8 DEF IInv, Places, NewIsNowhere
<1>12. \A ch \in Channel : Copies(ch)' = Copies(ch)
  BY <1>1, <1>5 DEF Copies, Moves
<1>13. Copies(h) = {} /\ Cardinality(Homes(h)) = 0 /\ Cardinality(Copies(h)) = 0
  <2>1. Copies(h) = {}
    BY <1>1, <1>3, <1>p DEF Copies, IInv, Places, Shape, ShapeOf, ChannelSteps
  <2>2. Cardinality({}) = 0
    BY FS_EmptySet
  <2>3. Homes(h) = {}
    BY <1>4
  <2> QED
    BY <2>1, <2>2, <2>3, Zenon
<1>14. AtLeast'
  <2> SUFFICES ASSUME ~mismatch, NEW ch \in Channel, fate'[ch] = "live"
               PROVE  Cardinality(Homes(ch))' >= 1 + Cardinality(Copies(ch))'
    BY <1>4 DEF AtLeast
  <2>1. CASE ch = h
    BY <1>7, <1>12, <1>13, <2>1
  <2>2. CASE ch # h
    <3>1. Cardinality(Homes(ch)) >= 1 + Cardinality(Copies(ch))
      BY <1>8, <2>2 DEF IInv, Places, AtLeast
    <3> QED
      BY <1>7, <1>12, <2>2, <3>1
  <2> QED
    BY <2>1, <2>2
<1>15. AtMost'
  <2> SUFFICES ASSUME Clean', NEW ch \in Channel \ haunted
               PROVE  Cardinality(Homes(ch))'
                         <= (IF fate'[ch] = "live" THEN 1 ELSE 0) + Cardinality(Copies(ch))'
    BY <1>1 DEF AtMost
  <2>1. CASE ch = h
    BY <1>7, <1>8, <1>12, <1>13, <2>1
  <2>2. CASE ch # h
    <3>1. Cardinality(Homes(ch)) <= (IF fate[ch] = "live" THEN 1 ELSE 0) + Cardinality(Copies(ch))
      BY <1>6 DEF IInv, Places, AtMost
    <3> QED
      BY <1>7, <1>8, <1>12, <2>2, <3>1
  <2> QED
    BY <2>1, <2>2
<1> QED
  BY <1>9, <1>10, <1>11, <1>14, <1>15 DEF Keeps, Places

LEMMA RemoveChannelKeeps == ASSUME IInv, NEW c \in Call, RemoveChannel(c) PROVE Keeps
<1>1. TypeOK /\ call[c].pc = "removing" /\ UNCHANGED <<agents, counter, past, faults>>
  BY DEF IInv, RemoveChannel
<1>p. PICK a \in Agent, h \in Channel : a = call[c].agent /\ h = call[c].ch
  BY <1>1, Subject DEF ChannelSteps
<1>2. /\ docs' = docs \ {<<a, h>>} /\ mismatch' = (mismatch \/ <<a, h>> \notin docs)
      /\ fate' = [fate EXCEPT ![h] = "deleted"]
  BY <1>p DEF RemoveChannel, Drop, Doc
<1>3. fate[h] # "new" /\ (call[c].todo # {} => a # System)
  BY <1>1, <1>p DEF IInv, Places, Shape, ShapeOf, ChannelSteps
<1>5. Moves(c, "uncounting") /\ call'[c].ch = h /\ call'[c].todo = call[c].todo /\ call'[c].agent = a
  BY <1>1, <1>p, GoesTo DEF RemoveChannel, Step
<1>6. (~mismatch' => ~mismatch /\ <<a, h>> \in docs) /\ (Clean' => Clean /\ ~mismatch')
  BY <1>1, <1>2 DEF Clean, TypeOK
<1>7. ASSUME ~mismatch'
      PROVE  /\ Cardinality(docs') = Cardinality(docs) - 1
             /\ Cardinality(Homes(h))' = Cardinality(Homes(h)) - 1
             /\ \A ch \in Channel \ {h} : Homes(ch)' = Homes(ch)
  BY <1>1, <1>2, <1>6, <1>7, DropsHome
<1>8. \A ch \in Channel : fate'[ch] = IF ch = h THEN "deleted" ELSE fate[ch]
  BY <1>1, <1>2 DEF TypeOK
<1>9. Books'
  <2>1. Entry(call[c].pc, "uncounting", 0 - 1, 0, "channels", 0)
    BY <1>1 DEF Entry
  <2>2. Cardinality(agents' \ {System}) = Cardinality(agents \ {System}) + 0
    BY <1>1, Numbers
  <2>3. Clean' => Cardinality(docs') = Cardinality(docs) + (0 - 1)
    BY <1>1, <1>6, <1>7, Numbers
  <2>4. Clean' => /\ Cardinality(docs') = Cardinality(docs) + (0 - 1)
                  /\ Cardinality(agents' \ {System}) = Cardinality(agents \ {System}) + 0
    BY <2>2, <2>3
  <2>5. (0 - 1) \in Int /\ 0 \in Int /\ "uncounting" \notin {"storing", "storingAgent", "answering"}
    OBVIOUS
  <2>6. Clean' => Clean
    BY <1>5, <1>6
  <2> QED
    BY <1>1, <1>5, <2>1, <2>4, <2>5, <2>6, BooksDocs, Zenon
<1>10. Shape'
  <2>1. ShapeOf(c)'
    BY <1>1, <1>3, <1>p, <1>5, <1>8 DEF ShapeOf, Moves, ChannelSteps
  <2>2. \A o \in Call \ {c} :
           call[o].pc = "storing" => fate'[call[o].ch] = "new" /\ call'[c].ch # call[o].ch
    BY <1>3, <1>5, <1>8 DEF IInv, Places, Shape, ShapeOf, ChannelSteps
  <2>3. \A ch \in Channel : fate[ch] # "new" => fate'[ch] # "new"
    BY <1>8
  <2> QED
    BY <1>5, <2>1, <2>2, <2>3, ShapeKept DEF IInv, Places
<1>11. NewIsNowhere'
  BY <1>1, <1>2, <1>8 DEF IInv, Places, NewIsNowhere
<1>12. \A ch \in Channel : Copies(ch)' = Copies(ch)
  BY <1>1, <1>5 DEF Copies, Moves
<1>13. AtLeast'
  <2> SUFFICES ASSUME ~mismatch', NEW ch \in Channel, fate'[ch] = "live"
               PROVE  Cardinality(Homes(ch))' >= 1 + Cardinality(Copies(ch))'
    BY DEF AtLeast
  <2>1. ch # h /\ fate[ch] = "live"
    BY <1>8
  <2>2. Cardinality(Homes(ch)) >= 1 + Cardinality(Copies(ch))
    BY <1>6, <2>1 DEF IInv, Places, AtLeast
  <2> QED
    BY <1>7, <1>12, <2>1, <2>2
<1>14. AtMost'
  <2> SUFFICES ASSUME Clean', NEW ch \in Channel \ haunted
               PROVE  Cardinality(Homes(ch))'
                         <= (IF fate'[ch] = "live" THEN 1 ELSE 0) + Cardinality(Copies(ch))'
    BY <1>1 DEF AtMost
  <2>0. Cardinality(Homes(ch)) \in Nat /\ Cardinality(Copies(ch)) \in Nat
    BY <1>1, Finite
  <2>1. Cardinality(Homes(ch)) <= (IF fate[ch] = "live" THEN 1 ELSE 0) + Cardinality(Copies(ch))
    BY <1>6 DEF IInv, Places, AtMost
  <2>2. CASE ch = h
    <3>1. Cardinality(Homes(ch))' = Cardinality(Homes(ch)) - 1 /\ fate'[ch] = "deleted"
      BY <1>6, <1>7, <1>8, <2>2
    <3> QED
      BY <1>12, <2>0, <2>1, <3>1
  <2>3. CASE ch # h
    BY <1>6, <1>7, <1>8, <1>12, <2>1, <2>3
  <2> QED
    BY <2>2, <2>3
<1> QED
  BY <1>9, <1>10, <1>11, <1>13, <1>14 DEF Keeps, Places

LEMMA ArchiveChannelKeeps == ASSUME IInv, NEW c \in Call, ArchiveChannel(c) PROVE Keeps
<1>1. TypeOK /\ call[c].pc = "archiving" /\ UNCHANGED <<agents, counter, fate, past, faults>>
  BY DEF IInv, ArchiveChannel
<1>p. PICK a \in Agent, h \in Channel : a = call[c].agent /\ h = call[c].ch
  BY <1>1, Subject DEF ChannelSteps
<1>2. docs' = docs \cup {<<a, h>>} /\ mismatch' = (mismatch \/ <<a, h>> \notin docs)
  BY <1>p DEF ArchiveChannel, Doc
<1>3. fate[h] # "new"
  BY <1>1, <1>p DEF IInv, Places, Shape, ShapeOf, ChannelSteps
<1>4. Moves(c, "idle") /\ call'[c].ch = NULL /\ call'[c].todo = {}
  BY <1>1, GoesIdle DEF ArchiveChannel
<1>5. (~mismatch' => ~mismatch /\ docs' = docs) /\ (Clean' => Clean /\ ~mismatch')
  BY <1>1, <1>2 DEF Clean, TypeOK
<1>6. Books'
  <2>1. Entry(call[c].pc, "idle", 0, 0, "channels", 0)
    BY <1>1 DEF Entry
  <2>2. Cardinality(agents' \ {System}) = Cardinality(agents \ {System}) + 0
    BY <1>1, Numbers
  <2>3. Clean' => Cardinality(docs') = Cardinality(docs) + 0
    BY <1>1, <1>5, Numbers
  <2>4. Clean' => /\ Cardinality(docs') = Cardinality(docs) + 0
                  /\ Cardinality(agents' \ {System}) = Cardinality(agents \ {System}) + 0
    BY <2>2, <2>3
  <2>5. 0 \in Int /\ 0 \in Int /\ "idle" \notin {"storing", "storingAgent", "answering"}
    OBVIOUS
  <2>6. Clean' => Clean
    BY <1>4, <1>5
  <2> QED
    BY <1>1, <1>4, <2>1, <2>4, <2>5, <2>6, BooksDocs, Zenon
<1>7. Shape'
  <2>1. ShapeOf(c)'
    BY <1>4 DEF ShapeOf, Moves, ChannelSteps
  <2>2. \A o \in Call \ {c} :
           call[o].pc = "storing" => fate'[call[o].ch] = "new" /\ call'[c].ch # call[o].ch
    BY <1>1, <1>4, SetAssumption DEF IInv, Places, Shape, ShapeOf, ChannelSteps
  <2> QED
    BY <1>1, <1>4, <2>1, <2>2, ShapeKept DEF IInv, Places
<1>8. NewIsNowhere'
  BY <1>1, <1>2, <1>3 DEF IInv, Places, NewIsNowhere
<1>9. \A ch \in Channel : Copies(ch)' = Copies(ch)
  BY <1>1, <1>4 DEF Copies, Moves
<1>10. ~mismatch' => \A ch \in Channel : Homes(ch)' = Homes(ch)
  BY <1>5 DEF Homes
<1>11. AtLeast'
  <2> SUFFICES ASSUME ~mismatch', NEW ch \in Channel, fate'[ch] = "live"
               PROVE  Cardinality(Homes(ch))' >= 1 + Cardinality(Copies(ch))'
    BY DEF AtLeast
  <2>1. Cardinality(Homes(ch)) >= 1 + Cardinality(Copies(ch))
    BY <1>1, <1>5 DEF IInv, Places, AtLeast
  <2> QED
    BY <1>9, <1>10, <2>1
<1>12. AtMost'
  <2> SUFFICES ASSUME Clean', NEW ch \in Channel \ haunted
               PROVE  Cardinality(Homes(ch))'
                         <= (IF fate'[ch] = "live" THEN 1 ELSE 0) + Cardinality(Copies(ch))'
    BY <1>1 DEF AtMost
  <2>1. Cardinality(Homes(ch)) <= (IF fate[ch] = "live" THEN 1 ELSE 0) + Cardinality(Copies(ch))
    BY <1>5 DEF IInv, Places, AtMost
  <2> QED
    BY <1>1, <1>5, <1>9, <1>10, <2>1
<1> QED
  BY <1>6, <1>7, <1>8, <1>11, <1>12 DEF Keeps, Places

LEMMA CopyChannelKeeps == ASSUME IInv, NEW c \in Call, CopyChannel(c) PROVE Keeps
<1>1. TypeOK /\ call[c].pc = "copying" /\ UNCHANGED <<agents, counter, fate, past, faults>>
  BY DEF IInv, CopyChannel
<1>p. PICK a \in Agent, t \in Agent, h \in Channel :
         a = call[c].agent /\ t = call[c].to /\ h = call[c].ch
  BY <1>1, Subject DEF ChannelSteps
<1>2. docs' = docs \cup {<<t, h>>} /\ mismatch' = (mismatch \/ <<t, h>> \in docs)
  BY <1>p DEF CopyChannel, Put
<1>3. fate[h] # "new" /\ (call[c].todo # {} => a # System)
  BY <1>1, <1>p DEF IInv, Places, Shape, ShapeOf, ChannelSteps
<1>4. Moves(c, "copied") /\ call'[c].ch = h /\ call'[c].todo = call[c].todo /\ call'[c].agent = a
  BY <1>1, <1>p, GoesTo DEF CopyChannel, Step
<1>5. (~mismatch' => ~mismatch /\ <<t, h>> \notin docs) /\ (Clean' => Clean /\ ~mismatch')
  BY <1>1, <1>2 DEF Clean, TypeOK
<1>6. ASSUME ~mismatch'
      PROVE  /\ Cardinality(docs') = Cardinality(docs) + 1
             /\ Cardinality(Homes(h))' = Cardinality(Homes(h)) + 1
             /\ \A ch \in Channel \ {h} : Homes(ch)' = Homes(ch)
  BY <1>1, <1>2, <1>5, <1>6, PutsHome
<1>7. Books'
  <2>1. Entry(call[c].pc, "copied", 1, 0, "channels", 0)
    BY <1>1 DEF Entry
  <2>2. Cardinality(agents' \ {System}) = Cardinality(agents \ {System}) + 0
    BY <1>1, Numbers
  <2>3. Clean' => Cardinality(docs') = Cardinality(docs) + 1
    BY <1>1, <1>5, <1>6, Numbers
  <2>4. Clean' => /\ Cardinality(docs') = Cardinality(docs) + 1
                  /\ Cardinality(agents' \ {System}) = Cardinality(agents \ {System}) + 0
    BY <2>2, <2>3
  <2>5. 1 \in Int /\ 0 \in Int /\ "copied" \notin {"storing", "storingAgent", "answering"}
    OBVIOUS
  <2>6. Clean' => Clean
    BY <1>5
  <2> QED
    BY <1>1, <1>4, <2>1, <2>4, <2>5, <2>6, BooksDocs, Zenon
<1>8. Shape' /\ NewIsNowhere'
  <2>1. ShapeOf(c)'
    BY <1>1, <1>3, <1>p, <1>4 DEF ShapeOf, Moves, ChannelSteps
  <2>2. \A o \in Call \ {c} :
           call[o].pc = "storing" => fate'[call[o].ch] = "new" /\ call'[c].ch # call[o].ch
    BY <1>1, <1>3, <1>4 DEF IInv, Places, Shape, ShapeOf, ChannelSteps
  <2>3. Shape'
    BY <1>1, <1>4, <2>1, <2>2, ShapeKept DEF IInv, Places
  <2>4. NewIsNowhere'
    BY <1>1, <1>2, <1>3 DEF IInv, Places, NewIsNowhere
  <2> QED
    BY <2>3, <2>4
<1>9. /\ Cardinality(Copies(h))' = Cardinality(Copies(h)) + 1
      /\ \A ch \in Channel \ {h} : Copies(ch)' = Copies(ch)
  <2>1. c \notin Copies(h) /\ \A ch \in Channel \ {h} : c \notin Copies(ch)
    BY <1>1, <1>p DEF Copies
  <2>2. /\ Cardinality(Copies(h))' = Cardinality(Copies(h)) + 1
        /\ \A ch \in Channel \ {h} : Copies(ch)' = Copies(ch)
    BY <1>1, <1>4, <2>1, CopiesMove
  <2> QED
    BY <2>2
<1>10. AtLeast'
  <2> SUFFICES ASSUME ~mismatch', NEW ch \in Channel, fate'[ch] = "live"
               PROVE  Cardinality(Homes(ch))' >= 1 + Cardinality(Copies(ch))'
    BY DEF AtLeast
  <2>0. Cardinality(Homes(ch)) \in Nat /\ Cardinality(Copies(ch)) \in Nat
    BY <1>1, Finite
  <2>1. Cardinality(Homes(ch)) >= 1 + Cardinality(Copies(ch))
    BY <1>1, <1>5 DEF IInv, Places, AtLeast
  <2>2. CASE ch = h
    BY <1>6, <1>9, <2>0, <2>1, <2>2
  <2>3. CASE ch # h
    BY <1>6, <1>9, <2>1, <2>3
  <2> QED
    BY <2>2, <2>3
<1>11. AtMost'
  <2> SUFFICES ASSUME Clean', NEW ch \in Channel \ haunted
               PROVE  Cardinality(Homes(ch))'
                         <= (IF fate'[ch] = "live" THEN 1 ELSE 0) + Cardinality(Copies(ch))'
    BY <1>1 DEF AtMost
  <2>0. Cardinality(Homes(ch)) \in Nat /\ Cardinality(Copies(ch)) \in Nat
    BY <1>1, Finite
  <2>1. Cardinality(Homes(ch)) <= (IF fate[ch] = "live" THEN 1 ELSE 0) + Cardinality(Copies(ch))
    BY <1>5 DEF IInv, Places, AtMost
  <2>2. CASE ch = h
    BY <1>1, <1>5, <1>6, <1>9, <2>0, <2>1, <2>2
  <2>3. CASE ch # h
    BY <1>1, <1>5, <1>6, <1>9, <2>1, <2>3
  <2> QED
    BY <2>2, <2>3
<1> QED
  BY <1>7, <1>8, <1>10, <1>11 DEF Keeps, Places

LEMMA RemoveSourceKeeps == ASSUME IInv, NEW c \in Call, RemoveSource(c) PROVE Keeps
<1>1. TypeOK /\ call[c].pc = "copied" /\ UNCHANGED <<agents, counter, fate, past, faults>>
  BY DEF IInv, RemoveSource
<1>p. PICK a \in Agent, t \in Agent, h \in Channel :
         a = call[c].agent /\ t = call[c].to /\ h = call[c].ch
  BY <1>1, Subject DEF ChannelSteps
<1>2. docs' = docs \ {<<a, h>>} /\ mismatch' = (mismatch \/ <<a, h>> \notin docs)
  BY <1>p DEF RemoveSource, Drop, Doc
<1>3. fate[h] # "new" /\ (call[c].todo # {} => a # System)
  BY <1>1, <1>p DEF IInv, Places, Shape, ShapeOf, ChannelSteps
<1>4. Moves(c, "idle") /\ call'[c].ch = NULL /\ call'[c].todo = {}
  BY <1>1, GoesIdle DEF RemoveSource
<1>5. (~mismatch' => ~mismatch /\ <<a, h>> \in docs) /\ (Clean' => Clean /\ ~mismatch')
  BY <1>1, <1>2 DEF Clean, TypeOK
<1>6. ASSUME ~mismatch'
      PROVE  /\ Cardinality(docs') = Cardinality(docs) - 1
             /\ Cardinality(Homes(h))' = Cardinality(Homes(h)) - 1
             /\ \A ch \in Channel \ {h} : Homes(ch)' = Homes(ch)
  BY <1>1, <1>2, <1>5, <1>6, DropsHome
<1>7. Books'
  <2>1. Entry(call[c].pc, "idle", (0 - 1), 0, "channels", 0)
    BY <1>1 DEF Entry
  <2>2. Cardinality(agents' \ {System}) = Cardinality(agents \ {System}) + 0
    BY <1>1, Numbers
  <2>3. Clean' => Cardinality(docs') = Cardinality(docs) + (0 - 1)
    BY <1>1, <1>5, <1>6, Numbers
  <2>4. Clean' => /\ Cardinality(docs') = Cardinality(docs) + (0 - 1)
                  /\ Cardinality(agents' \ {System}) = Cardinality(agents \ {System}) + 0
    BY <2>2, <2>3
  <2>5. (0 - 1) \in Int /\ 0 \in Int /\ "idle" \notin {"storing", "storingAgent", "answering"}
    OBVIOUS
  <2>6. Clean' => Clean
    BY <1>5
  <2> QED
    BY <1>1, <1>4, <2>1, <2>4, <2>5, <2>6, BooksDocs, Zenon
<1>8. Shape' /\ NewIsNowhere'
  <2>1. ShapeOf(c)'
    BY <1>1, <1>3, <1>p, <1>4 DEF ShapeOf, Moves, ChannelSteps
  <2>2. \A o \in Call \ {c} :
           call[o].pc = "storing" => fate'[call[o].ch] = "new" /\ call'[c].ch # call[o].ch
    BY <1>1, <1>4, SetAssumption DEF IInv, Places, Shape, ShapeOf, ChannelSteps
  <2>3. Shape'
    BY <1>1, <1>4, <2>1, <2>2, ShapeKept DEF IInv, Places
  <2>4. NewIsNowhere'
    BY <1>1, <1>2, <1>3 DEF IInv, Places, NewIsNowhere
  <2> QED
    BY <2>3, <2>4
<1>9. /\ Cardinality(Copies(h))' = Cardinality(Copies(h)) - 1
      /\ \A ch \in Channel \ {h} : Copies(ch)' = Copies(ch)
  <2>1. c \in Copies(h) /\ \A ch \in Channel \ {h} : c \notin Copies(ch)
    BY <1>1, <1>p DEF Copies
  <2>2. /\ Cardinality(Copies(h))' = Cardinality(Copies(h)) - 1
        /\ \A ch \in Channel \ {h} : Copies(ch)' = Copies(ch)
    BY <1>1, <1>4, <2>1, CopiesMove
  <2> QED
    BY <2>2
<1>10. AtLeast'
  <2> SUFFICES ASSUME ~mismatch', NEW ch \in Channel, fate'[ch] = "live"
               PROVE  Cardinality(Homes(ch))' >= 1 + Cardinality(Copies(ch))'
    BY DEF AtLeast
  <2>0. Cardinality(Homes(ch)) \in Nat /\ Cardinality(Copies(ch)) \in Nat
    BY <1>1, Finite
  <2>1. Cardinality(Homes(ch)) >= 1 + Cardinality(Copies(ch))
    BY <1>1, <1>5 DEF IInv, Places, AtLeast
  <2>2. CASE ch = h
    BY <1>6, <1>9, <2>0, <2>1, <2>2
  <2>3. CASE ch # h
    BY <1>6, <1>9, <2>1, <2>3
  <2> QED
    BY <2>2, <2>3
<1>11. AtMost'
  <2> SUFFICES ASSUME Clean', NEW ch \in Channel \ haunted
               PROVE  Cardinality(Homes(ch))'
                         <= (IF fate'[ch] = "live" THEN 1 ELSE 0) + Cardinality(Copies(ch))'
    BY <1>1 DEF AtMost
  <2>0. Cardinality(Homes(ch)) \in Nat /\ Cardinality(Copies(ch)) \in Nat
    BY <1>1, Finite
  <2>1. Cardinality(Homes(ch)) <= (IF fate[ch] = "live" THEN 1 ELSE 0) + Cardinality(Copies(ch))
    BY <1>5 DEF IInv, Places, AtMost
  <2>2. CASE ch = h
    BY <1>1, <1>5, <1>6, <1>9, <2>0, <2>1, <2>2
  <2>3. CASE ch # h
    BY <1>1, <1>5, <1>6, <1>9, <2>1, <2>3
  <2> QED
    BY <2>2, <2>3
<1> QED
  BY <1>7, <1>8, <1>10, <1>11 DEF Keeps, Places

\* A merging write adds a document that nobody counts, of a channel that AtMost says nothing of.
LEMMA MergeChannelKeeps == ASSUME IInv, MergeChannel PROVE Keeps
<1>1. TypeOK /\ UNCHANGED <<agents, counter, call, fate, mismatch, faults>> /\ revived' = revived + 1
  BY DEF IInv, MergeChannel
<1>2. PICK a \in Agent, h \in Channel :
         /\ <<a, h>> \notin docs /\ fate[h] # "new"
         /\ docs' = docs \cup {<<a, h>>} /\ haunted' = haunted \cup {h}
  BY DEF MergeChannel
<1>3. /\ Cardinality(docs') = Cardinality(docs) + 1
      /\ Cardinality(Homes(h))' = Cardinality(Homes(h)) + 1
      /\ \A ch \in Channel \ {h} : Homes(ch)' = Homes(ch)
  BY <1>1, <1>2, PutsHome
<1>4. \A ch \in Channel : Copies(ch)' = Copies(ch)
  BY <1>1 DEF Copies
<1>5. \A pc : Num(pc)' = Num(pc)
  BY <1>1 DEF Num, At
<1>6. Books'
  <2> SUFFICES ASSUME Clean' PROVE Books'
    BY DEF Books, ChannelsAreCounted, AgentsAreCounted, OvershootIsBounded
  <2>1. Clean /\ Books
    BY <1>1 DEF IInv, Clean
  <2>2. ChannelsAreCounted'
    BY <1>1, <1>3, <1>5, <2>1, Numbers DEF Books, ChannelsAreCounted
  <2>3. AgentsAreCounted'
    BY <1>1, <1>5, <2>1 DEF Books, AgentsAreCounted
  <2>4. OvershootIsBounded'
    BY <1>1, <1>3, <1>5, <2>1, Numbers DEF Books, OvershootIsBounded
  <2> QED
    BY <2>2, <2>3, <2>4 DEF Books
<1>7. Shape' /\ NewIsNowhere'
  BY <1>1, <1>2 DEF IInv, Places, Shape, ShapeOf, NewIsNowhere
<1>8. AtLeast'
  <2> SUFFICES ASSUME ~mismatch, NEW ch \in Channel, fate[ch] = "live"
               PROVE  Cardinality(Homes(ch))' >= 1 + Cardinality(Copies(ch))'
    BY <1>1 DEF AtLeast
  <2>1. Cardinality(Homes(ch)) >= 1 + Cardinality(Copies(ch))
    BY DEF IInv, Places, AtLeast
  <2>2. Cardinality(Homes(ch)) \in Nat /\ Cardinality(Copies(ch)) \in Nat
    BY <1>1, Finite
  <2> QED
    BY <1>3, <1>4, <2>1, <2>2
<1>9. AtMost'
  <2> SUFFICES ASSUME Clean', NEW ch \in Channel \ haunted'
               PROVE  Cardinality(Homes(ch))'
                         <= (IF fate'[ch] = "live" THEN 1 ELSE 0) + Cardinality(Copies(ch))'
    BY DEF AtMost
  <2>1. ch # h /\ ch \notin haunted /\ Clean
    BY <1>1, <1>2 DEF Clean
  <2>2. Cardinality(Homes(ch)) <= (IF fate[ch] = "live" THEN 1 ELSE 0) + Cardinality(Copies(ch))
    BY <2>1 DEF IInv, Places, AtMost
  <2> QED
    BY <1>1, <1>3, <1>4, <2>1, <2>2
<1> QED
  BY <1>6, <1>7, <1>8, <1>9 DEF Keeps, Places

-----------------------------------------------------------------------------
(* The agents *)

LEMMA StoreAgentKeeps == ASSUME IInv, NEW c \in Call, StoreAgent(c) PROVE Keeps
<1>1. TypeOK /\ call[c].pc = "storingAgent" /\ UNCHANGED <<docs, counter, fate, past, faults>>
  BY DEF IInv, StoreAgent
<1>p. PICK a \in Agent : a = call[c].agent
  BY <1>1 DEF TypeOK, CallRecord
<1>2. agents' = agents \cup {a} /\ mismatch' = (mismatch \/ a \in agents)
  BY <1>p DEF StoreAgent
<1>3. /\ Moves(c, "countingAgent") /\ call'[c].ch = call[c].ch /\ call'[c].todo = call[c].todo
      /\ call'[c].agent = a
  BY <1>1, <1>p, GoesTo DEF StoreAgent, Step
<1>4. (~mismatch' => ~mismatch /\ a \notin agents) /\ (Clean' => Clean /\ ~mismatch')
  BY <1>1, <1>2 DEF Clean, TypeOK
<1>5. Books'
  <2>1. Entry(call[c].pc, "countingAgent", 0, 1, "channels", 0)
    BY <1>1 DEF Entry
  <2>2. ASSUME Clean'
        PROVE  Cardinality(agents' \ {System}) = Cardinality(agents \ {System}) + 1
    <3>1. System \in agents
      BY DEF IInv, SystemStays
    <3>2. a \notin agents \ {System} /\ agents' \ {System} = (agents \ {System}) \cup {a}
      BY <1>2, <1>4, <2>2, <3>1
    <3> QED
      BY <1>1, <3>2, Finite, PlusMinus
  <2>3. Clean' => /\ Cardinality(docs') = Cardinality(docs) + 0
                  /\ Cardinality(agents' \ {System}) = Cardinality(agents \ {System}) + 1
    BY <1>1, <2>2, Numbers
  <2>4. 0 \in Int /\ 1 \in Int /\ "countingAgent" \notin {"storing", "storingAgent", "answering"}
    OBVIOUS
  <2>5. Clean' => Clean
    BY <1>4
  <2> QED
    BY <1>1, <1>3, <2>1, <2>3, <2>4, <2>5, BooksDocs, Zenon
<1>6. call[c].todo # {} => call[c].agent # System
  BY DEF IInv, Places, Shape, ShapeOf
<1>7. Places'
  <2>1. Shape'
    <3>1. ShapeOf(c)'
      BY <1>1, <1>3, <1>p, <1>6 DEF ShapeOf, Moves, ChannelSteps
    <3>2. \A o \in Call \ {c} :
             call[o].pc = "storing" => fate'[call[o].ch] = "new" /\ call'[c].ch # call[o].ch
      BY <1>1, <1>3 DEF IInv, Places, Shape, ShapeOf, ChannelSteps
    <3> QED
      BY <1>1, <1>3, <3>1, <3>2, ShapeKept DEF IInv, Places
  <2> QED
    BY <1>1, <1>3, <1>4, <2>1, PlacesKept DEF IInv, Places
<1> QED
  BY <1>5, <1>7 DEF Keeps

LEMMA EraseAgentKeeps == ASSUME IInv, NEW c \in Call, EraseAgent(c) PROVE Keeps
<1>1. TypeOK /\ call[c].pc = "cascading" /\ UNCHANGED <<docs, counter, fate, past, faults>>
  BY DEF IInv, EraseAgent
<1>p. PICK a \in Agent : a = call[c].agent
  BY <1>1 DEF TypeOK, CallRecord
<1>2. agents' = agents \ {a} /\ mismatch' = (mismatch \/ a \notin agents)
  BY <1>p DEF EraseAgent
<1>3. /\ Moves(c, "uncountingAgent") /\ call'[c].ch = call[c].ch /\ call'[c].todo = call[c].todo
      /\ call'[c].agent = a
  BY <1>1, <1>p, GoesTo DEF EraseAgent, Step
<1>4. (~mismatch' => ~mismatch /\ a \in agents) /\ (Clean' => Clean /\ ~mismatch')
  BY <1>1, <1>2 DEF Clean, TypeOK
<1>5. a # System
  BY <1>1, <1>p DEF IInv, Places, Shape, ShapeOf
<1>6. Books'
  <2>1. Entry(call[c].pc, "uncountingAgent", 0, 0 - 1, "channels", 0)
    BY <1>1 DEF Entry
  <2>2. ASSUME Clean'
        PROVE  Cardinality(agents' \ {System}) = Cardinality(agents \ {System}) - 1
    <3>1. a \in agents \ {System} /\ agents' \ {System} = (agents \ {System}) \ {a}
      BY <1>2, <1>4, <1>5, <2>2
    <3> QED
      BY <1>1, <3>1, Finite, PlusMinus
  <2>3. Clean' => /\ Cardinality(docs') = Cardinality(docs) + 0
                  /\ Cardinality(agents' \ {System}) = Cardinality(agents \ {System}) + (0 - 1)
    BY <1>1, <2>2, Numbers
  <2>4. 0 \in Int /\ 0 - 1 \in Int /\ "uncountingAgent" \notin {"storing", "storingAgent", "answering"}
    OBVIOUS
  <2>5. Clean' => Clean
    BY <1>4
  <2> QED
    BY <1>1, <1>3, <2>1, <2>3, <2>4, <2>5, BooksDocs, Zenon
<1>7. Places'
  <2>1. Shape'
    <3>1. ShapeOf(c)'
      BY <1>1, <1>3, <1>5 DEF ShapeOf, Moves, ChannelSteps
    <3>2. \A o \in Call \ {c} :
             call[o].pc = "storing" => fate'[call[o].ch] = "new" /\ call'[c].ch # call[o].ch
      BY <1>1, <1>3 DEF IInv, Places, Shape, ShapeOf, ChannelSteps
    <3> QED
      BY <1>1, <1>3, <3>1, <3>2, ShapeKept DEF IInv, Places
  <2> QED
    BY <1>1, <1>3, <1>4, <2>1, PlacesKept DEF IInv, Places
<1> QED
  BY <1>6, <1>7 DEF Keeps

-----------------------------------------------------------------------------
(* Faults: no state is clean any more, and there are fewer copies than before *)

LEMMA FaultKeeps ==
    ASSUME IInv, Fault, Shape', UNCHANGED <<docs, fate, past, mismatch>>,
           \A ch \in Channel : Copies(ch)' \subseteq Copies(ch)
    PROVE  Keeps
<1>1. TypeOK /\ ~Clean'
  BY DEF IInv, TypeOK, Fault, Clean
<1>2. Books'
  BY <1>1 DEF Books, ChannelsAreCounted, AgentsAreCounted, OvershootIsBounded
<1>3. NewIsNowhere' /\ AtMost'
  BY <1>1 DEF IInv, Places, NewIsNowhere, AtMost
<1>4. AtLeast'
  <2> SUFFICES ASSUME ~mismatch, NEW ch \in Channel, fate[ch] = "live"
               PROVE  Cardinality(Homes(ch))' >= 1 + Cardinality(Copies(ch))'
    BY DEF AtLeast
  <2>1. Homes(ch)' = Homes(ch)
    BY DEF Homes
  <2>2. /\ IsFiniteSet(Copies(ch)) /\ Cardinality(Copies(ch)) \in Nat
        /\ Cardinality(Homes(ch)) \in Nat
    BY <1>1, Finite
  <2>3. Cardinality(Copies(ch)') \in Nat /\ Cardinality(Copies(ch)') <= Cardinality(Copies(ch))
    BY <2>2, FS_Subset, FS_CardinalityType
  <2>4. Cardinality(Homes(ch)) >= 1 + Cardinality(Copies(ch))
    BY DEF IInv, Places, AtLeast
  <2> QED
    BY <2>1, <2>2, <2>3, <2>4
<1> QED
  BY <1>2, <1>3, <1>4 DEF Keeps, Places

LEMMA RefusedKeeps == ASSUME IInv, NEW c \in Call, Refused(c) PROVE Keeps
<1>1. TypeOK /\ Return(c) /\ Fault /\ UNCHANGED <<docs, agents, counter, fate, past, mismatch>>
  BY DEF IInv, Refused
<1>2. call[c].todo # {} => call[c].agent # System
  BY DEF IInv, Places, Shape, ShapeOf
<1>3. PICK q \in {"idle", "cascading"} :
         /\ Moves(c, q) /\ call'[c].ch = NULL
         /\ q = "cascading" \/ call'[c].todo # {} => call'[c].agent # System
  <2>1. Idle.ch = NULL /\ Idle.todo = {}
    BY DEF Idle
  <2> QED
    BY <1>1, <1>2, <2>1, Returns
<1>4. ShapeOf(c)'
  BY <1>3 DEF ShapeOf, Moves, ChannelSteps
<1>5. \A o \in Call \ {c} :
         call[o].pc = "storing" => fate'[call[o].ch] = "new" /\ call'[c].ch # call[o].ch
  BY <1>1, <1>3, SetAssumption DEF IInv, Places, Shape, ShapeOf, ChannelSteps
<1>6. Shape'
  BY <1>1, <1>3, <1>4, <1>5, ShapeKept DEF IInv, Places
<1>7. \A ch \in Channel : Copies(ch)' \subseteq Copies(ch)
  BY <1>3 DEF Copies, Moves
<1> QED
  BY <1>1, <1>6, <1>7, FaultKeeps

LEMMA CrashKeeps == ASSUME IInv, Crash PROVE Keeps
<1>1. Fault /\ UNCHANGED <<docs, agents, counter, fate, past, mismatch>>
  BY DEF Crash
<1>2. \A c \in Call : call'[c].pc = "idle" /\ call'[c].todo = {}
  BY DEF Crash, Idle
<1>3. Shape'
  BY <1>2 DEF Shape, ShapeOf, ChannelSteps
<1>4. \A ch \in Channel : Copies(ch)' \subseteq Copies(ch)
  BY <1>2 DEF Copies
<1> QED
  BY <1>1, <1>3, <1>4, FaultKeeps

-----------------------------------------------------------------------------
(* The invariant *)

LEMMA InitInv == Init => IInv
<1> SUFFICES ASSUME Init PROVE IInv
  OBVIOUS
<1>1. TypeOK
  <2>1. counter \in [Metric -> Int] /\ fate \in [Channel -> {"new", "live", "deleted"}]
    BY DEF Init
  <2>2. call \in [Call -> CallRecord]
    BY Records DEF Init
  <2>3. docs \subseteq Agent \X Channel /\ agents \subseteq Agent /\ mismatch \in BOOLEAN
    BY SetAssumption, Zenon DEF Init
  <2>4. faults \in 0..MaxFaults /\ revived \in 0..MaxRevived /\ haunted \subseteq Channel
    BY LimitAssumption DEF Init
  <2> QED
    BY <2>1, <2>2, <2>3, <2>4 DEF TypeOK
<1>2. /\ Num("storing") = 0 /\ Num("counting") = 0 /\ Num("copied") = 0 /\ Num("uncounting") = 0
      /\ Num("storingAgent") = 0 /\ Num("countingAgent") = 0 /\ Num("uncountingAgent") = 0
      /\ Num("answering") = 0
  <2>1. ASSUME NEW pc \in Step, pc # "idle" PROVE Num(pc) = 0
    <3>1. At(pc) = {}
      BY <2>1 DEF At, Init, Idle
    <3> QED
      BY <3>1, FS_EmptySet, Zenon DEF Num
  <2> QED
    BY <2>1 DEF Step
<1>3. Cardinality(docs) = 0 /\ Cardinality(agents \ {System}) = 0
  <2>1. docs = {} /\ agents \ {System} = {}
    BY DEF Init
  <2> QED
    BY <2>1, FS_EmptySet, Zenon
<1>4. Cardinality(Call) \in Nat /\ Cardinality(Call) >= 1
  <2>1. PICK c \in Call : TRUE
    BY SetAssumption
  <2>2. IsFiniteSet({c}) /\ Cardinality({c}) = 1
    BY FS_Singleton
  <2>3. {c} \subseteq Call /\ IsFiniteSet(Call)
    BY SetAssumption
  <2>4. Cardinality({c}) <= Cardinality(Call) /\ Cardinality(Call) \in Nat
    BY <2>3, FS_Subset, FS_CardinalityType
  <2> QED
    BY <2>2, <2>4
<1>5. Books
  BY <1>1, <1>2, <1>3, <1>4, Numbers
  DEF Init, Books, ChannelsAreCounted, AgentsAreCounted, OvershootIsBounded, Metric
<1>6. Shape /\ NewIsNowhere /\ SystemStays
  BY DEF Init, Shape, ShapeOf, Idle, ChannelSteps, NewIsNowhere, SystemStays
<1>7. AtLeast
  BY DEF Init, AtLeast
<1>8. AtMost
  <2> SUFFICES ASSUME NEW ch \in Channel \ haunted
               PROVE  Cardinality(Homes(ch)) <= (IF fate[ch] = "live" THEN 1 ELSE 0)
                                                   + Cardinality(Copies(ch))
    BY DEF AtMost
  <2>1. Homes(ch) = {} /\ Copies(ch) = {} /\ fate[ch] = "new"
    BY DEF Homes, Copies, Init, Idle
  <2>2. Cardinality(Homes(ch)) = 0 /\ Cardinality(Copies(ch)) = 0
    BY <2>1, FS_EmptySet, Zenon
  <2> QED
    BY <2>1, <2>2
<1> QED
  BY <1>1, <1>5, <1>6, <1>7, <1>8 DEF IInv, Places

\* Every step keeps the types, and system_default is never deleted.
LEMMA TypeStep == ASSUME IInv, Next PROVE TypeOK' /\ SystemStays'
<1>1. /\ TypeOK /\ SystemStays /\ System \in Agent
      /\ \A c \in Call : call[c] \in CallRecord
      /\ \A c \in Call : call[c].pc \in ChannelSteps => call[c].ch \in Channel
      /\ \A c \in Call : call[c].pc = "cascading" => call[c].agent # System
  BY SetAssumption DEF IInv, TypeOK, Places, Shape, ShapeOf
<1>2. Fault => faults' \in 0..MaxFaults
  BY <1>1, LimitAssumption DEF TypeOK, Fault
<1>3. \A m \in Metric : checkAuthority(m) => faults' \in 0..MaxFaults
  BY <1>1, <1>2 DEF TypeOK, checkAuthority
<1>4. ASSUME NEW m \in Metric, NEW n \in Int, recordUsage(m, n)
      PROVE  counter' \in [Metric -> Int] /\ faults' \in 0..MaxFaults
  BY <1>1, <1>2, <1>4 DEF TypeOK, recordUsage
<1>5. "channels" \in Metric /\ "agents" \in Metric /\ "messages" \in Metric /\ -1 \in Int /\ 1 \in Int
  BY DEF Metric
<1>6. ASSUME NEW c \in Call, call' = [call EXCEPT ![c] = Idle]
      PROVE  call' \in [Call -> CallRecord]
  BY <1>1, <1>6, GoesIdle DEF Moves
<1>7. ASSUME NEW c \in Call, NEW pc \in Step, Goto(c, pc)
      PROVE  call' \in [Call -> CallRecord]
  BY <1>1, <1>7, GoesTo DEF Moves
<1>8. ASSUME NEW c \in Call, Return(c)
      PROVE  call' \in [Call -> CallRecord]
  BY <1>1, <1>8, Returns DEF Moves
<1>9. ASSUME NEW c \in Call, NEW r \in CallRecord, call' = [call EXCEPT ![c] = r]
      PROVE  call' \in [Call -> CallRecord]
  BY <1>1, <1>9, Replaces DEF Moves
<1> USE DEF SystemStays
<1>10. ASSUME NEW c \in Call, CreateChannel(c) PROVE TypeOK' /\ SystemStays'
  <2>1. call' \in [Call -> CallRecord]
    <3>1. PICK a \in Agent, ch \in Channel :
             call' = [call EXCEPT ![c] = [Idle EXCEPT !.pc = "storing", !.agent = a, !.ch = ch]]
      BY <1>10 DEF CreateChannel
    <3>2. [Idle EXCEPT !.pc = "storing", !.agent = a, !.ch = ch] \in CallRecord
      BY Records DEF Step
    <3> QED
      BY <1>9, <3>1, <3>2
  <2> QED
    BY <1>1, <1>3, <1>5, <1>10, <2>1 DEF CreateChannel, TypeOK
<1>11. ASSUME NEW c \in Call, DeleteChannel(c) \/ MoveChannel(c) PROVE TypeOK' /\ SystemStays'
  <2>1. \A d \in docs : d[1] \in Agent /\ d[2] \in Channel
    BY <1>1 DEF TypeOK
  <2>2. call' \in [Call -> CallRecord]
    <3>1. CASE DeleteChannel(c)
      <4>1. PICK d \in docs, pc \in {"removing", "archiving"} :
               call' = [call EXCEPT ![c] = [Idle EXCEPT !.pc = pc, !.agent = d[1], !.ch = d[2]]]
        BY <3>1 DEF DeleteChannel
      <4>2. [Idle EXCEPT !.pc = pc, !.agent = d[1], !.ch = d[2]] \in CallRecord
        BY <2>1, Records DEF Step
      <4> QED
        BY <1>9, <4>1, <4>2
    <3>2. CASE MoveChannel(c)
      <4>1. PICK d \in docs, to \in Agent :
               call' = [call EXCEPT ![c] =
                  [Idle EXCEPT !.pc = "copying", !.agent = d[1], !.ch = d[2], !.to = to]]
        BY <3>2 DEF MoveChannel
      <4>2. [Idle EXCEPT !.pc = "copying", !.agent = d[1], !.ch = d[2], !.to = to] \in CallRecord
        BY <2>1, Records DEF Step
      <4> QED
        BY <1>9, <4>1, <4>2
    <3> QED
      BY <1>11, <3>1, <3>2
  <2> QED
    BY <1>1, <1>11, <2>2 DEF DeleteChannel, MoveChannel, TypeOK
<1>12. ASSUME NEW c \in Call, CreateAgent(c) PROVE TypeOK' /\ SystemStays'
  <2>1. call' \in [Call -> CallRecord]
    <3>1. PICK a \in Agent : call' = [call EXCEPT ![c] = [Idle EXCEPT !.pc = "storingAgent", !.agent = a]]
      BY <1>12 DEF CreateAgent
    <3>2. [Idle EXCEPT !.pc = "storingAgent", !.agent = a] \in CallRecord
      BY <1>1 DEF CallRecord, Idle, Step
    <3> QED
      BY <1>9, <3>1, <3>2
  <2> QED
    BY <1>1, <1>3, <1>5, <1>12, <2>1 DEF CreateAgent, TypeOK
<1>13. ASSUME NEW c \in Call, DeleteAgent(c) PROVE TypeOK' /\ SystemStays'
  <2>1. PICK a \in Agent \ {System}, todo \in SUBSET Channel :
           /\ UNCHANGED faults \/ Fault
           /\ call' = [call EXCEPT ![c] =
                 [Idle EXCEPT !.pc = "cascading", !.agent = a, !.todo = todo]]
    BY <1>13 DEF DeleteAgent
  <2>2. [Idle EXCEPT !.pc = "cascading", !.agent = a, !.todo = todo] \in CallRecord
    BY <1>1 DEF CallRecord, Idle, Step
  <2>3. call' \in [Call -> CallRecord]
    BY <1>9, <2>1, <2>2
  <2> QED
    BY <1>1, <1>2, <1>13, <2>1, <2>3 DEF DeleteAgent, TypeOK
<1>14. ASSUME NEW c \in Call, Cascade(c) PROVE TypeOK' /\ SystemStays'
  <2>1. PICK ch \in call[c].todo :
           /\ UNCHANGED faults \/ Fault
           /\ \/ call' = [call EXCEPT ![c].pc = "removing", ![c].ch = ch]
              \/ call' = [call EXCEPT ![c].todo = @ \ {ch}]
    BY <1>14 DEF Cascade
  <2>2. call[c] \in CallRecord /\ ch \in Channel
    BY <1>1, <2>1 DEF CallRecord
  <2>3. [call[c] EXCEPT !.pc = "removing", !.ch = ch] \in CallRecord
        /\ [call[c] EXCEPT !.todo = @ \ {ch}] \in CallRecord
    BY <2>2, Records
  <2>4. \/ call' = [call EXCEPT ![c] = [call[c] EXCEPT !.pc = "removing", !.ch = ch]]
        \/ call' = [call EXCEPT ![c] = [call[c] EXCEPT !.todo = @ \ {ch}]]
    BY <1>1, <2>1 DEF TypeOK
  <2>5. call' \in [Call -> CallRecord]
    BY <1>9, <2>3, <2>4
  <2> QED
    BY <1>1, <1>2, <1>14, <2>1, <2>5 DEF Cascade, TypeOK
<1>15. ASSUME NEW c \in Call, Answer(c) PROVE TypeOK' /\ SystemStays'
  BY <1>1, <1>3, <1>5, <1>7, <1>15 DEF Answer, Step, TypeOK
<1>16. ASSUME NEW c \in Call, CountChannel(c) \/ CountAgent(c) \/ CountAnswer(c) \/ UncountAgent(c)
       PROVE  TypeOK' /\ SystemStays'
  <2>1. /\ call' = [call EXCEPT ![c] = Idle] /\ UNCHANGED <<docs, agents, fate, past, mismatch>>
        /\ \E m \in Metric, n \in Int : recordUsage(m, n)
    BY <1>5, <1>16 DEF CountChannel, CountAgent, CountAnswer, UncountAgent
  <2> QED
    BY <1>1, <1>4, <1>6, <2>1 DEF TypeOK
<1>17. ASSUME NEW c \in Call, UncountChannel(c) PROVE TypeOK' /\ SystemStays'
  <2>1. /\ Return(c) /\ UNCHANGED <<docs, agents, fate, past, mismatch>>
        /\ \E m \in Metric, n \in Int : recordUsage(m, n)
    BY <1>5, <1>17 DEF UncountChannel
  <2> QED
    BY <1>1, <1>4, <1>8, <2>1 DEF TypeOK
<1>18. ASSUME NEW c \in Call,
              StoreChannel(c) \/ RemoveChannel(c) \/ ArchiveChannel(c) \/ CopyChannel(c) \/ RemoveSource(c)
       PROVE  TypeOK' /\ SystemStays'
  <2>1. call[c].agent \in Agent /\ call[c].ch \in Channel /\ call[c].to \in Agent
    BY <1>1, <1>18 DEF CallRecord, ChannelSteps, StoreChannel, RemoveChannel, ArchiveChannel,
                       CopyChannel, RemoveSource
  <2>2. call' \in [Call -> CallRecord]
    <3>1. "counting" \in Step /\ "uncounting" \in Step /\ "copied" \in Step
      BY DEF Step
    <3>2. \/ call' = [call EXCEPT ![c] = Idle]
          \/ Goto(c, "counting") \/ Goto(c, "uncounting") \/ Goto(c, "copied")
      BY <1>18 DEF StoreChannel, RemoveChannel, ArchiveChannel, CopyChannel, RemoveSource
    <3> QED
      BY <1>6, <1>7, <3>1, <3>2
  <2>3. docs' \subseteq Agent \X Channel
    <3>1. docs' \subseteq docs \cup {<<call[c].agent, call[c].ch>>, <<call[c].to, call[c].ch>>}
      BY <1>18 DEF StoreChannel, RemoveChannel, ArchiveChannel, CopyChannel, RemoveSource, Put, Drop, Doc
    <3>2. docs \subseteq Agent \X Channel
      BY <1>1 DEF TypeOK
    <3> QED
      BY <2>1, <3>1, <3>2
  <2>5. mismatch' \in BOOLEAN
    BY <1>18 DEF StoreChannel, RemoveChannel, ArchiveChannel, CopyChannel, RemoveSource, Put, Drop
  <2>4. /\ fate' \in [Channel -> {"new", "live", "deleted"}]
        /\ UNCHANGED <<agents, counter, past, faults>>
    BY <1>1, <1>18, <2>1
    DEF TypeOK, StoreChannel, RemoveChannel, ArchiveChannel, CopyChannel, RemoveSource
  <2> QED
    BY <1>1, <2>2, <2>3, <2>4, <2>5 DEF TypeOK
<1>19. ASSUME NEW c \in Call, StoreAgent(c) \/ EraseAgent(c) PROVE TypeOK' /\ SystemStays'
  <2>1. call' \in [Call -> CallRecord]
    BY <1>7, <1>19 DEF Step, StoreAgent, EraseAgent
  <2>2. agents' \subseteq Agent /\ System \in agents' /\ mismatch' \in BOOLEAN
    BY <1>1, <1>19 DEF TypeOK, CallRecord, StoreAgent, EraseAgent
  <2> QED
    BY <1>1, <1>19, <2>1, <2>2 DEF TypeOK, StoreAgent, EraseAgent
<1>20. ASSUME NEW c \in Call, Refused(c) PROVE TypeOK' /\ SystemStays'
  BY <1>1, <1>2, <1>8, <1>20 DEF Refused, TypeOK
<1>21. ASSUME InvoicePaid PROVE TypeOK' /\ SystemStays'
  <2>1. counter' \in [Metric -> Int]
    <3>1. counter \in [Metric -> Int]
      BY <1>1 DEF TypeOK
    <3>2. counter' = [counter EXCEPT !["messages"] = 0]
      BY <1>21 DEF InvoicePaid
    <3>3. \A m \in Metric : counter'[m] \in Int
      BY <3>1, <3>2, <1>5
    <3>4. counter' = [m \in Metric |-> counter'[m]]
      BY <3>1, <3>2, Zenon
    <3> QED
      BY <3>3, <3>4, Zenon
  <2>2. UNCHANGED <<docs, agents, call, fate, past, mismatch, faults>>
    BY <1>21 DEF InvoicePaid
  <2> QED
    BY <1>1, <2>1, <2>2 DEF TypeOK
<1>22. ASSUME Crash PROVE TypeOK' /\ SystemStays'
  BY <1>1, <1>2, <1>22, Records DEF Crash, TypeOK
<1>23. ASSUME MergeChannel PROVE TypeOK' /\ SystemStays'
  BY <1>1, <1>23, LimitAssumption DEF MergeChannel, TypeOK
<1> QED
  BY <1>10, <1>11, <1>12, <1>13, <1>14, <1>15, <1>16, <1>17, <1>18, <1>19, <1>20, <1>21, <1>22,
     <1>23 DEF Next

LEMMA NextInv == IInv /\ [Next]_vars => IInv'
<1> SUFFICES ASSUME IInv, [Next]_vars PROVE IInv'
  OBVIOUS
<1>1. CASE Next
  <2>1. Keeps
    BY <1>1, CreateChannelKeeps, StoreChannelKeeps, CountChannelKeeps, DeleteChannelKeeps,
       RemoveChannelKeeps, UncountChannelKeeps, ArchiveChannelKeeps, MoveChannelKeeps,
       CopyChannelKeeps, RemoveSourceKeeps, CreateAgentKeeps, StoreAgentKeeps, CountAgentKeeps,
       DeleteAgentKeeps, CascadeKeeps, EraseAgentKeeps, UncountAgentKeeps, AnswerKeeps,
       CountAnswerKeeps, RefusedKeeps, MergeChannelKeeps, InvoicePaidKeeps, CrashKeeps
    DEF Next
  <2> QED
    BY <1>1, <2>1, TypeStep DEF Keeps, IInv
<1>2. CASE UNCHANGED vars
  BY <1>2 DEF vars, IInv, TypeOK, SystemStays, Books, ChannelsAreCounted, AgentsAreCounted,
              OvershootIsBounded, Places, Shape, ShapeOf, NewIsNowhere, AtLeast, AtMost,
              Clean, Num, At, Homes, Copies
<1> QED
  BY <1>1, <1>2

\* The invariant holds in every reachable state.
LEMMA Invariance == Spec => []IInv
BY InitInv, NextInv, PTL DEF Spec

-----------------------------------------------------------------------------
(* One request at a time *)

\* Requests come one after the other.
OneRequest == \A c, d \in Call : c = d

\* The answer in progress was checked against the counter as it still is.
AnswerFits ==
    faults = 0 =>
        /\ counter["messages"] <= Limit["messages"]
        /\ \A c \in Call : call[c].pc = "answering" => counter["messages"] < Limit["messages"]

\* Only an answer counts messages, and nothing comes between its check and its count.
LEMMA AnswerFitsNext ==
    ASSUME OneRequest, TypeOK, AnswerFits, [Next]_vars
    PROVE  AnswerFits'
<1>t. /\ Limit["messages"] \in Nat /\ counter \in [Metric -> Int]
      /\ "messages" \in Metric /\ "channels" \in Metric /\ "agents" \in Metric
      /\ faults \in Nat
  BY LimitAssumption DEF TypeOK, Metric
<1>f. ASSUME Fault PROVE faults' # 0
  BY <1>t, <1>f DEF Fault
<1> DEFINE Other(c, q) ==
        q # "answering" /\ call'[c].pc = q /\ counter'["messages"] = counter["messages"]
<1>o. ASSUME NEW c \in Call, NEW q, Other(c, q), faults' = 0 => faults = 0 PROVE AnswerFits'
  BY <1>o DEF OneRequest, AnswerFits
<1>g. faults' = 0 => faults = 0
  <2>1. CASE UNCHANGED faults
    BY <2>1
  <2>2. CASE Fault
    BY <1>f, <2>2
  <2> QED
    BY <2>1, <2>2
    DEF Next, CreateChannel, StoreChannel, CountChannel, DeleteChannel, RemoveChannel,
        UncountChannel, ArchiveChannel, MoveChannel, CopyChannel, RemoveSource, CreateAgent,
        StoreAgent, CountAgent, DeleteAgent, Cascade, EraseAgent, UncountAgent, Answer,
        CountAnswer, Refused, MergeChannel, InvoicePaid, Crash, checkAuthority, recordUsage, vars
<1>1. ASSUME NEW c \in Call, CreateChannel(c) PROVE AnswerFits'
  <2>1. PICK a \in Agent, ch \in Channel :
            call' = [call EXCEPT ![c] = [Idle EXCEPT !.pc = "storing", !.agent = a, !.ch = ch]]
    BY <1>1 DEF CreateChannel
  <2>2. call'[c].pc = "storing"
    BY <2>1, Records, Replaces DEF Idle, Moves, Step
  <2> QED BY <1>1, <1>g, <1>o, <2>2 DEF CreateChannel
<1>2. ASSUME NEW c \in Call, NEW q \in Step \ {"answering"}, Goto(c, q),
             counter'["messages"] = counter["messages"]
      PROVE  AnswerFits'
  BY <1>2, <1>g, <1>o, GoesTo DEF Moves
<1>3. ASSUME NEW c \in Call, call' = [call EXCEPT ![c] = Idle],
             counter'["messages"] = counter["messages"]
      PROVE  AnswerFits'
  BY <1>3, <1>g, <1>o, GoesIdle DEF Moves
<1>4. ASSUME NEW c \in Call, Return(c), counter'["messages"] = counter["messages"]
      PROVE  AnswerFits'
  BY <1>4, <1>g, <1>o, Returns DEF Moves
<1>5. ASSUME NEW m \in {"channels", "agents"}, NEW n \in Int, recordUsage(m, n)
      PROVE  counter'["messages"] = counter["messages"]
  BY <1>5, <1>t DEF recordUsage
<1>6. ASSUME NEW c \in Call, StoreChannel(c) \/ RemoveChannel(c) \/ CopyChannel(c) \/ StoreAgent(c)
                             \/ EraseAgent(c)
      PROVE  AnswerFits'
  BY <1>2, <1>6 DEF StoreChannel, RemoveChannel, CopyChannel, StoreAgent, EraseAgent, Step
<1>7. ASSUME NEW c \in Call, CountChannel(c) \/ CountAgent(c) \/ UncountAgent(c)
      PROVE  AnswerFits'
  BY <1>3, <1>5, <1>7 DEF CountChannel, CountAgent, UncountAgent
<1>8. ASSUME NEW c \in Call, ArchiveChannel(c) \/ RemoveSource(c) PROVE AnswerFits'
  BY <1>3, <1>8 DEF ArchiveChannel, RemoveSource
<1>9. ASSUME NEW c \in Call, UncountChannel(c) \/ Refused(c) PROVE AnswerFits'
  BY <1>4, <1>5, <1>9 DEF UncountChannel, Refused
<1>10. ASSUME NEW c \in Call, DeleteChannel(c) \/ MoveChannel(c) PROVE AnswerFits'
  <2>1. CASE DeleteChannel(c)
    <3>1. PICK d \in docs, pc \in {"removing", "archiving"} :
             call' = [call EXCEPT ![c] = [Idle EXCEPT !.pc = pc, !.agent = d[1], !.ch = d[2]]]
      BY <2>1 DEF DeleteChannel
    <3>2. call'[c].pc = pc
      BY <3>1 DEF TypeOK, Idle
    <3> QED BY <1>g, <1>o, <2>1, <3>2 DEF DeleteChannel
  <2>2. CASE MoveChannel(c)
    <3>1. PICK d \in docs, to \in Agent :
             call' = [call EXCEPT ![c] =
                [Idle EXCEPT !.pc = "copying", !.agent = d[1], !.ch = d[2], !.to = to]]
      BY <2>2 DEF MoveChannel
    <3>2. call'[c].pc = "copying"
      BY <3>1 DEF TypeOK, Idle
    <3> QED BY <1>g, <1>o, <2>2, <3>2 DEF MoveChannel
  <2> QED BY <1>10, <2>1, <2>2
<1>11. ASSUME NEW c \in Call, CreateAgent(c) \/ DeleteAgent(c) PROVE AnswerFits'
  <2>1. PICK q \in {"storingAgent", "cascading"} : call'[c].pc = q
    <3>1. CASE CreateAgent(c)
      BY <3>1 DEF CreateAgent, TypeOK, Idle
    <3>2. CASE DeleteAgent(c)
      BY <3>2 DEF DeleteAgent, TypeOK, Idle
    <3> QED BY <1>11, <3>1, <3>2
  <2> QED BY <1>11, <1>g, <1>o, <2>1 DEF CreateAgent, DeleteAgent
<1>12. ASSUME NEW c \in Call, Cascade(c) PROVE AnswerFits'
  <2>1. PICK ch \in call[c].todo :
           \/ call' = [call EXCEPT ![c].pc = "removing", ![c].ch = ch]
           \/ call[c].pc = "cascading" /\ call' = [call EXCEPT ![c].todo = @ \ {ch}]
    BY <1>12 DEF Cascade
  <2>2. call'[c].pc \in {"removing", "cascading"}
    BY <2>1 DEF TypeOK, CallRecord
  <2> QED BY <1>12, <1>g, <1>o, <2>2 DEF Cascade
<1>13. ASSUME NEW c \in Call, Answer(c) PROVE AnswerFits'
  BY <1>13, <1>t, <1>f, <1>g DEF Answer, checkAuthority, AnswerFits
<1>14. ASSUME NEW c \in Call, CountAnswer(c) PROVE AnswerFits'
  <2>1. call'[c].pc = "idle"
    BY <1>14, GoesIdle DEF CountAnswer, Moves
  <2>2. \A d \in Call : call'[d].pc # "answering"
    BY <2>1 DEF OneRequest
  <2>3. faults' = 0 => counter'["messages"] = counter["messages"] + 1
    BY <1>14, <1>t, <1>f DEF CountAnswer, recordUsage
  <2>4. faults' = 0 => counter["messages"] < Limit["messages"]
    BY <1>14, <1>g DEF CountAnswer, AnswerFits
  <2>5. counter["messages"] \in Int
    BY <1>t
  <2> QED BY <1>t, <2>2, <2>3, <2>4, <2>5 DEF AnswerFits
<1>15. CASE InvoicePaid
  BY <1>15, <1>t, LimitAssumption DEF InvoicePaid, AnswerFits, Metric
<1>16. CASE Crash
  BY <1>16, <1>f DEF Crash, AnswerFits
<1>17. CASE UNCHANGED vars
  BY <1>17 DEF vars, AnswerFits
<1>18. CASE MergeChannel
  BY <1>18 DEF MergeChannel, AnswerFits
<1> QED
  BY <1>1, <1>6, <1>7, <1>8, <1>9, <1>10, <1>11, <1>12, <1>13, <1>14, <1>15, <1>16, <1>17, <1>18
  DEF Next

-----------------------------------------------------------------------------
(* Theorems *)

\* The requests, documents, counters and histories have the types the module gives them.
THEOREM TypeCorrect == Spec => []TypeOK
<1>1. IInv => TypeOK
  BY DEF IInv
<1> QED
  BY <1>1, Invariance, PTL

\* stats.activeChannels counts the channel documents and agentCount the agents besides
\* system_default, however many requests are between a document and its count, and but for the
\* documents that status and statistics writes have brought about.
THEOREM CountersAreTrueCorrect == Spec => []CountersAreTrue
<1>1. IInv => CountersAreTrue
  BY DEF IInv, Books, CountersAreTrue
<1> QED
  BY <1>1, Invariance, PTL

\* n requests pass a limit by at most n - 1, though the check and the count are far apart; the
\* channel limit by one more for every document that a status or statistics write brought about.
THEOREM OvershootIsBoundedCorrect == Spec => []OvershootIsBounded
<1>1. IInv => OvershootIsBounded
  BY DEF IInv, Books
<1> QED
  BY <1>1, Invariance, PTL

\* A move, a crash or a refused call never leaves a channel without a document.
THEOREM NeverLostCorrect == Spec => []NeverLost
<1>1. IInv => NeverLost
  <2> SUFFICES ASSUME IInv, ~mismatch, NEW ch \in Channel, fate[ch] = "live" PROVE Homes(ch) # {}
    BY DEF NeverLost
  <2>1. Cardinality(Homes(ch)) >= 1 + Cardinality(Copies(ch)) /\ Cardinality(Copies(ch)) \in Nat
    BY Finite DEF IInv, Places, AtLeast
  <2>2. Cardinality({}) = 0
    BY FS_EmptySet
  <2>3. Homes(ch) = {} => Cardinality(Homes(ch)) = 0
    BY <2>2, Zenon
  <2>4. Cardinality(Homes(ch)) # 0
    BY <2>1
  <2> QED
    BY <2>3, <2>4
<1> QED
  BY <1>1, Invariance, PTL

\* When nothing failed and all requests are done, every live channel has one document, unless a
\* status or statistics write made it another.
THEOREM OneHomeCorrect == Spec => []OneHome
<1>1. IInv => OneHome
  <2> SUFFICES ASSUME IInv, Clean, At("idle") = Call, NEW ch \in Channel \ haunted
               PROVE  Cardinality(Homes(ch)) = (IF fate[ch] = "live" THEN 1 ELSE 0)
    BY DEF OneHome
  <2>1. Copies(ch) = {}
    BY DEF At, Copies
  <2>2. Cardinality(Copies(ch)) = 0
    BY <2>1, FS_EmptySet, Zenon
  <2>3. Cardinality(Homes(ch)) <= (IF fate[ch] = "live" THEN 1 ELSE 0) + Cardinality(Copies(ch))
    BY DEF IInv, Places, AtMost
  <2>4. fate[ch] = "live" => Cardinality(Homes(ch)) >= 1 + Cardinality(Copies(ch))
    BY DEF IInv, Places, AtLeast, Clean
  <2>5. Cardinality(Homes(ch)) \in Nat
    BY Finite DEF IInv
  <2> QED
    BY <2>2, <2>3, <2>4, <2>5
<1> QED
  BY <1>1, Invariance, PTL

\* A tenant "cannot exceed their plan limit" (conductor/tracks/whatsapp_resilience_20260310/
\* spec.md:14) as long as no two requests overlap: one at a time, no answer passes the plan.
THEOREM PlanIsKeptWhenSerial == OneRequest => (Spec => []PlanIsKept)
<1> SUFFICES ASSUME OneRequest PROVE Spec => []PlanIsKept
  OBVIOUS
<1>1. Init => AnswerFits
  BY LimitAssumption DEF Init, AnswerFits, Idle, Metric
<1>2. IInv /\ AnswerFits /\ [Next]_vars => AnswerFits'
  BY AnswerFitsNext DEF IInv
<1>3. AnswerFits => PlanIsKept
  BY DEF AnswerFits, PlanIsKept
<1> QED
  BY Invariance, <1>1, <1>2, <1>3, PTL DEF Spec
================================================================================

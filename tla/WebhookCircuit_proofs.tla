------------------------- MODULE WebhookCircuit_proofs -------------------------
(***************************************************************************)
(* The breaker of WebhookService keeps its contract for any number of      *)
(* deliveries, any threshold, probe limit and number of attempts.          *)
(*                                                                         *)
(* The inductive invariant adds to the checked ones that a slot is only    *)
(* taken on a tripped circuit whose cooldown is over (SlotsAreForProbes):  *)
(* that is what makes the end of a cooldown start with all slots free.     *)
(***************************************************************************)
EXTENDS WebhookCircuit, FiniteSetTheorems, TLAPS

SlotsAreForProbes == ~Tripped \/ ~cooled => probes = 0

IInv == TypeOK /\ SlotsAreForProbes /\ SlotIsOwned /\ ProbeIsAlone

\* The bounds, one by one.
LEMMA Sizes ==
    /\ Threshold \in Nat /\ Threshold > 0
    /\ ProbeLimit \in Nat /\ ProbeLimit > 0 /\ 0 \in 0..ProbeLimit
    /\ MaxAttempts \in Nat /\ MaxAttempts > 0
  BY SizeAssumption

\* The sets the invariants count are finite.
LEMMA FiniteCalls ==
    /\ IsFiniteSet(UnderWay) /\ IsFiniteSet(Probing)
    /\ Cardinality(Probing) \in Nat
    /\ Probing \subseteq UnderWay
<1>1. UnderWay \subseteq Delivery /\ Probing \subseteq Delivery /\ Probing \subseteq UnderWay
  BY DEF UnderWay, Probing
<1>2. IsFiniteSet(UnderWay) /\ IsFiniteSet(Probing)
  BY <1>1, DeliveryAssumption, FS_Subset
<1> QED
  BY <1>1, <1>2, FS_CardinalityType

\* The initial state: a closed circuit and nobody calling.
LEMMA InitInv == Init => IInv
<1> SUFFICES ASSUME Init PROVE IInv
  OBVIOUS
<1>1. TypeOK
  <2>1. NoCall \in CallRecord
    BY DEF NoCall, CallRecord
  <2>2. call = [d \in Delivery |-> NoCall]
    BY DEF Init
  <2>3. call \in [Delivery -> CallRecord]
    BY <2>1, <2>2
  <2>4. \A d \in Delivery : call[d].tries < MaxAttempts
    BY <2>2, Sizes DEF NoCall
  <2>5. failures \in 0..Threshold /\ probes \in 0..ProbeLimit
    BY Sizes DEF Init
  <2>6. cooled \in BOOLEAN /\ overrun \subseteq Delivery /\ endpoint \in {"up", "down"}
    BY DEF Init
  <2> QED
    BY <2>3, <2>4, <2>5, <2>6, Zenon DEF TypeOK
<1>2. UnderWay = {} /\ Probing = {}
  BY DEF Init, UnderWay, Probing, NoCall
<1>3. ~Tripped /\ probes = 0
  BY Sizes DEF Init, Tripped
<1>4. SlotIsOwned
  BY <1>2, <1>3, FS_EmptySet DEF SlotIsOwned
<1> QED
  BY <1>1, <1>3, <1>4 DEF IInv, SlotsAreForProbes, ProbeIsAlone

\* A new delivery joins those under way, and the probing ones if it is a probe.
LEMMA AdmitJoins ==
    ASSUME TypeOK, NEW d \in Delivery, call[d].pc = "idle", NEW p \in BOOLEAN, Admit(d, p)
    PROVE  /\ UnderWay' = UnderWay \cup {d}
           /\ Probing' = IF p THEN Probing \cup {d} ELSE Probing
           /\ d \notin UnderWay
           /\ call' \in [Delivery -> CallRecord]
           /\ \A e \in Delivery : call'[e].tries < MaxAttempts
<1>1. call' = [call EXCEPT ![d] = [pc |-> "posting", tries |-> 0, probe |-> p]]
  BY DEF Admit
<1>2. call \in [Delivery -> CallRecord]
  BY DEF TypeOK
<1>3. call'[d] = [pc |-> "posting", tries |-> 0, probe |-> p]
      /\ \A e \in Delivery \ {d} : call'[e] = call[e]
  BY <1>1, <1>2
<1>4. call' \in [Delivery -> CallRecord]
  BY <1>1, <1>2 DEF CallRecord
<1>5. \A e \in Delivery : call'[e].tries < MaxAttempts
  BY <1>3, Sizes DEF TypeOK
<1>6. UnderWay' = UnderWay \cup {d} /\ d \notin UnderWay
  BY <1>3 DEF UnderWay
<1>7. Probing' = IF p THEN Probing \cup {d} ELSE Probing
  BY <1>3, <1>6 DEF Probing, UnderWay
<1> QED
  BY <1>4, <1>5, <1>6, <1>7

\* A delivery that ends leaves the others as they are.
LEMMA EndsType ==
    ASSUME TypeOK, NEW d \in Delivery, Ends(d)
    PROVE  /\ call' \in [Delivery -> CallRecord]
           /\ \A e \in Delivery : call'[e].tries < MaxAttempts
           /\ overrun' \subseteq Delivery
<1>1. call' = [call EXCEPT ![d] = NoCall] /\ overrun' = overrun \ {d}
  BY DEF Ends
<1>2. call' \in [Delivery -> CallRecord]
  BY <1>1 DEF TypeOK, CallRecord, NoCall
<1>3. \A e \in Delivery : call'[e].tries < MaxAttempts
  BY <1>1, Sizes DEF TypeOK, NoCall
<1> QED
  BY <1>1, <1>2, <1>3 DEF TypeOK

\* What a report leaves of the breaker: no slot taken, and nothing cooled.
LEMMA ReportResets ==
    ASSUME TypeOK, recordSuccess \/ recordFailure
    PROVE  /\ failures' \in 0..Threshold
           /\ cooled' = FALSE
           /\ probes' = 0
           /\ recordSuccess => ~Tripped'
           /\ SlotsAreForProbes' /\ SlotIsOwned' /\ ProbeIsAlone'
<1>1. failures' \in 0..Threshold
  BY Sizes DEF TypeOK, recordSuccess, recordFailure, Tripped
<1>2. cooled' = FALSE /\ probes' = 0
  BY DEF recordSuccess, recordFailure
<1>3. recordSuccess => ~Tripped'
  BY Sizes DEF recordSuccess, Tripped
<1>4. SlotsAreForProbes' /\ ProbeIsAlone'
  BY <1>2 DEF SlotsAreForProbes, ProbeIsAlone
<1>5. Cardinality(Probing)' \in Nat
  <2>1. Probing' \subseteq Delivery
    BY DEF Probing, UnderWay
  <2>2. IsFiniteSet(Probing')
    BY <2>1, DeliveryAssumption, FS_Subset
  <2> QED
    BY <2>2, FS_CardinalityType
<1>6. SlotIsOwned'
  BY <1>2, <1>5 DEF SlotIsOwned
<1> QED
  BY <1>1, <1>2, <1>3, <1>4, <1>6

\* Every step keeps the invariant.
LEMMA NextInv == IInv /\ [Next]_vars => IInv'
<1> SUFFICES ASSUME IInv, [Next]_vars PROVE IInv'
  OBVIOUS
<1> USE DEF IInv
<1>f. Cardinality(Probing) \in Nat /\ IsFiniteSet(Probing) /\ Probing \subseteq UnderWay
  BY FiniteCalls
<1>1. ASSUME NEW d \in Delivery, Send(d) PROVE IInv'
  <2>1. Admit(d, FALSE) /\ call[d].pc = "idle" /\ ~Tripped /\ UNCHANGED <<breaker, overrun, endpoint>>
    BY <1>1 DEF Send
  <2>2. /\ Probing' = Probing
        /\ call' \in [Delivery -> CallRecord]
        /\ \A e \in Delivery : call'[e].tries < MaxAttempts
    BY <2>1, AdmitJoins
  <2>3. TypeOK'
    BY <2>1, <2>2 DEF TypeOK, breaker
  <2>4. ~Tripped' /\ probes' = probes
    BY <2>1 DEF Tripped, breaker
  <2>5. SlotsAreForProbes' /\ ProbeIsAlone'
    BY <2>1, <2>4 DEF SlotsAreForProbes, ProbeIsAlone
  <2>6. SlotIsOwned'
    BY <2>2, <2>4 DEF SlotIsOwned
  <2> QED
    BY <2>3, <2>5, <2>6
<1>2. ASSUME NEW d \in Delivery, SendProbe(d) PROVE IInv'
  <2>1. /\ Admit(d, TRUE) /\ call[d].pc = "idle" /\ Tripped /\ cooled /\ probes < ProbeLimit
        /\ probes' = probes + 1
        /\ UNCHANGED <<failures, cooled, overrun, endpoint>>
    BY <1>2 DEF SendProbe
  <2>2. /\ UnderWay' = UnderWay \cup {d} /\ d \notin UnderWay
        /\ Probing' = Probing \cup {d}
        /\ call' \in [Delivery -> CallRecord]
        /\ \A e \in Delivery : call'[e].tries < MaxAttempts
    BY <2>1, AdmitJoins
  <2>3. TypeOK'
    BY <2>1, <2>2, Sizes DEF TypeOK
  <2>4. Cardinality(Probing') = Cardinality(Probing) + 1
    BY <2>2, <1>f, FS_AddElement
  <2>5. SlotIsOwned'
    BY <2>1, <2>4, <1>f DEF SlotIsOwned, TypeOK
  <2>6. Tripped' /\ cooled' /\ overrun' = overrun
    BY <2>1 DEF Tripped
  <2>7. SlotsAreForProbes'
    BY <2>6 DEF SlotsAreForProbes
  <2>8. ProbeIsAlone'
    <3> SUFFICES ASSUME overrun' = {} PROVE UnderWay' = Probing' /\ Cardinality(Probing') = probes'
      BY DEF ProbeIsAlone
    <3>1. UnderWay = Probing /\ Cardinality(Probing) = probes
      BY <2>1, <2>6 DEF ProbeIsAlone
    <3> QED
      BY <3>1, <2>1, <2>2, <2>4
  <2> QED
    BY <2>3, <2>5, <2>7, <2>8
<1>3. ASSUME NEW d \in Delivery, PostSucceeds(d) PROVE IInv'
  <2>1. recordSuccess /\ Ends(d) /\ endpoint' = endpoint
    BY <1>3 DEF PostSucceeds
  <2>2. TypeOK'
    BY <2>1, EndsType, ReportResets, Sizes DEF TypeOK
  <2> QED
    BY <2>1, <2>2, ReportResets
<1>4. ASSUME NEW d \in Delivery, PostFails(d) PROVE IInv'
  <2>1. CASE recordFailure /\ Ends(d)
    <3>1. TypeOK'
      BY <2>1, <1>4, EndsType, ReportResets, Sizes DEF TypeOK, PostFails
    <3> QED
      BY <2>1, <3>1, ReportResets
  <2>2. CASE /\ call[d].tries + 1 < MaxAttempts
             /\ call' = [call EXCEPT ![d].pc = "waiting", ![d].tries = @ + 1]
             /\ UNCHANGED <<breaker, overrun>>
    <3>1. /\ call'[d].pc = "waiting" /\ call'[d].tries = call[d].tries + 1
          /\ call'[d].probe = call[d].probe
          /\ \A e \in Delivery \ {d} : call'[e] = call[e]
      BY <2>2 DEF TypeOK, CallRecord
    <3>2. call' \in [Delivery -> CallRecord]
      BY <2>2 DEF TypeOK, CallRecord
    <3>3. TypeOK'
      BY <2>2, <3>1, <3>2, <1>4 DEF TypeOK, breaker, PostFails
    <3>4. call[d].pc = "posting"
      BY <1>4 DEF PostFails
    <3>5. UnderWay' = UnderWay /\ Probing' = Probing
      BY <3>1, <3>4 DEF UnderWay, Probing
    <3> QED
      BY <2>2, <3>3, <3>5 DEF SlotsAreForProbes, SlotIsOwned, ProbeIsAlone, Tripped, breaker
  <2> QED
    BY <2>1, <2>2, <1>4 DEF PostFails
<1>5. ASSUME NEW d \in Delivery, BackoffEnds(d) PROVE IInv'
  <2>1. /\ call[d].pc = "waiting" /\ call' = [call EXCEPT ![d].pc = "posting"]
        /\ UNCHANGED <<breaker, overrun, endpoint>>
    BY <1>5 DEF BackoffEnds
  <2>2. /\ call'[d].pc = "posting" /\ call'[d].tries = call[d].tries
        /\ call'[d].probe = call[d].probe
        /\ \A e \in Delivery \ {d} : call'[e] = call[e]
    BY <2>1 DEF TypeOK, CallRecord
  <2>3. call' \in [Delivery -> CallRecord]
    BY <2>1 DEF TypeOK, CallRecord
  <2>4. TypeOK'
    BY <2>1, <2>2, <2>3 DEF TypeOK, breaker
  <2>5. UnderWay' = UnderWay /\ Probing' = Probing
    BY <2>1, <2>2 DEF UnderWay, Probing
  <2> QED
    BY <2>1, <2>4, <2>5 DEF SlotsAreForProbes, SlotIsOwned, ProbeIsAlone, Tripped, breaker
<1>6. CASE Cool
  <2>1. /\ Tripped /\ ~cooled /\ cooled' = TRUE /\ overrun' = UnderWay
        /\ UNCHANGED <<failures, probes, call, endpoint>>
    BY <1>6 DEF Cool
  <2>2. UnderWay' = UnderWay /\ Probing' = Probing /\ Tripped' = Tripped
    BY <2>1 DEF UnderWay, Probing, Tripped
  <2>3. probes = 0 /\ probes' = 0
    BY <2>1 DEF SlotsAreForProbes
  <2>4. TypeOK'
    BY <2>1 DEF TypeOK, UnderWay
  <2>5. SlotIsOwned' /\ SlotsAreForProbes'
    BY <2>2, <2>3, <1>f DEF SlotIsOwned, SlotsAreForProbes
  <2>6. ProbeIsAlone'
    <3> SUFFICES ASSUME overrun' = {} PROVE UnderWay' = Probing' /\ Cardinality(Probing') = probes'
      BY DEF ProbeIsAlone
    <3>1. UnderWay = {} /\ Probing = {}
      BY <2>1, <1>f
    <3> QED
      BY <3>1, <2>2, <2>3, FS_EmptySet
  <2> QED
    BY <2>4, <2>5, <2>6
<1>7. CASE Restart
  <2>1. recordSuccess /\ call' = [d \in Delivery |-> NoCall] /\ overrun' = {} /\ endpoint' = endpoint
    BY <1>7 DEF Restart
  <2>2. call' \in [Delivery -> CallRecord] /\ \A e \in Delivery : call'[e].tries < MaxAttempts
    BY <2>1, Sizes DEF NoCall, CallRecord
  <2>3. TypeOK'
    BY <2>1, <2>2, ReportResets, Sizes DEF TypeOK
  <2> QED
    BY <2>1, <2>3, ReportResets
<1>8. CASE EndpointChanges
  <2>1. UNCHANGED <<breaker, call, overrun>> /\ endpoint' \in {"up", "down"}
    BY <1>8 DEF EndpointChanges
  <2>2. TypeOK'
    BY <2>1 DEF TypeOK, breaker
  <2> QED
    BY <2>1, <2>2 DEF SlotsAreForProbes, SlotIsOwned, ProbeIsAlone, Tripped, breaker, UnderWay, Probing
<1>9. CASE UNCHANGED vars
  BY <1>9 DEF vars, TypeOK, SlotsAreForProbes, SlotIsOwned, ProbeIsAlone, Tripped, UnderWay, Probing
<1> QED
  BY <1>1, <1>2, <1>3, <1>4, <1>5, <1>6, <1>7, <1>8, <1>9 DEF Next

LEMMA Invariant == Spec => []IInv
<1> QED
  BY InitInv, NextInv, PTL DEF Spec

\* Types are kept.
THEOREM TypeCorrect == Spec => []TypeOK
<1>1. IInv => TypeOK
  BY DEF IInv
<1> QED
  BY Invariant, <1>1, PTL

\* No probe slot is taken without a probe under way, so the circuit cannot be stuck open.
THEOREM SlotIsOwnedCorrect == Spec => []SlotIsOwned
<1>1. IInv => SlotIsOwned
  BY DEF IInv
<1> QED
  BY Invariant, <1>1, PTL

\* As long as timeouts are kept, only probes are under way once the cooldown is over.
THEOREM ProbeIsAloneCorrect == Spec => []ProbeIsAlone
<1>1. IInv => ProbeIsAlone
  BY DEF IInv
<1> QED
  BY Invariant, <1>1, PTL

\* Initially the circuit is closed.
LEMMA InitContract == Init => Contract!Init
  BY Sizes DEF Init, Contract!Init, CircuitState, Tripped

\* Every step of the service is a step of the contract, or none.
LEMMA StepContract == IInv /\ [Next]_vars => [Contract!Next]_CircuitState
<1> SUFFICES ASSUME IInv, [Next]_vars PROVE [Contract!Next]_CircuitState
  OBVIOUS
<1> USE DEF IInv
<1>1. ASSUME UNCHANGED <<failures, cooled, probes>> PROVE CircuitState' = CircuitState
  BY <1>1 DEF CircuitState, Tripped
<1>2. ASSUME recordSuccess PROVE [Contract!Next]_CircuitState
  <2>1. CircuitState' = "closed"
    BY <1>2, ReportResets DEF CircuitState
  <2> QED
    BY <2>1 DEF Contract!Next, Contract!Close
<1>3. ASSUME recordFailure PROVE [Contract!Next]_CircuitState
  <2>1. CASE Tripped'
    <3>1. CircuitState' = "open"
      BY <1>3, <2>1, ReportResets DEF CircuitState
    <3> QED
      BY <3>1 DEF Contract!Next, Contract!Trip
  <2>2. CASE ~Tripped'
    <3>1. CircuitState' = "closed"
      BY <2>2 DEF CircuitState
    <3> QED
      BY <3>1 DEF Contract!Next, Contract!Close
  <2> QED
    BY <2>1, <2>2
<1>4. ASSUME NEW d \in Delivery, SendProbe(d) PROVE [Contract!Next]_CircuitState
  <2>1. Tripped /\ cooled /\ probes < ProbeLimit /\ UNCHANGED <<failures, cooled>>
    BY <1>4 DEF SendProbe
  <2>2. CircuitState = "cooled" /\ CircuitState' \in {"cooled", "halfOpen"}
    BY <2>1 DEF CircuitState, Tripped
  <2> QED
    BY <2>2 DEF Contract!Next, Contract!Probe
<1>5. CASE Cool
  <2>1. Tripped /\ ~cooled /\ cooled' = TRUE /\ UNCHANGED <<failures, probes>>
    BY <1>5 DEF Cool
  <2>2. probes = 0 /\ probes < ProbeLimit
    BY <2>1, Sizes DEF SlotsAreForProbes
  <2>3. CircuitState = "open" /\ CircuitState' = "cooled"
    BY <2>1, <2>2 DEF CircuitState, Tripped
  <2> QED
    BY <2>3 DEF Contract!Next, Contract!Cool
<1>6. ASSUME NEW d \in Delivery, PostFails(d) PROVE [Contract!Next]_CircuitState
  BY <1>1, <1>3, <1>6 DEF PostFails, breaker
<1>7. ASSUME NEW d \in Delivery, Send(d) \/ BackoffEnds(d) PROVE CircuitState' = CircuitState
  BY <1>1, <1>7 DEF Send, BackoffEnds, breaker
<1>8. CASE EndpointChanges \/ UNCHANGED vars
  BY <1>1, <1>8 DEF EndpointChanges, breaker, vars
<1>9. CASE Restart
  BY <1>2, <1>9 DEF Restart
<1>10. ASSUME NEW d \in Delivery, PostSucceeds(d) PROVE [Contract!Next]_CircuitState
  BY <1>2, <1>10 DEF PostSucceeds
<1> QED
  BY <1>4, <1>5, <1>6, <1>7, <1>8, <1>9, <1>10 DEF Next

\* The breaker's maps implement the circuit its comment describes.
THEOREM KeepsContractCorrect == Spec => KeepsContract
<1> QED
  BY Invariant, InitContract, StepContract, PTL DEF Spec, KeepsContract, Contract!Spec
================================================================================

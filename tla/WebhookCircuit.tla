----------------------------- MODULE WebhookCircuit ----------------------------
(***************************************************************************)
(* WebhookService.sendWebhook and its WebhookCircuitBreaker, for one URL:  *)
(* every hook with that URL, of any tenant, shares the breaker.  dispatch  *)
(* does not await its deliveries, so any number of them is under way; each *)
(* asks isOpen once, posts up to maxAttempts times and then reports.       *)
(*                                                                         *)
(* failures saturates at Threshold: isOpen only compares it.  The clock is *)
(* `cooled`, COOLDOWN_MS since lastFailureAt.  A delivery whose timeouts   *)
(* are kept ends within 21 s (3 posts of 5 s, backoffs of 2 s and 4 s), a  *)
(* cooldown lasts 60 s: `overrun` holds the deliveries that were late.     *)
(***************************************************************************)
EXTENDS Naturals, FiniteSets

CONSTANTS
    Delivery,     \* calls of sendWebhook that can be under way at once
    Threshold,    \* FAILURE_THRESHOLD (5)
    ProbeLimit,   \* HALF_OPEN_PROBE_LIMIT (1)
    MaxAttempts   \* maxAttempts (3)

ASSUME DeliveryAssumption == IsFiniteSet(Delivery)
ASSUME SizeAssumption == {Threshold, ProbeLimit, MaxAttempts} \subseteq Nat \ {0}

VARIABLES
    failures,   \* failed deliveries since the last success
    cooled,     \* the cooldown since the last failure is over
    probes,     \* halfOpenProbes
    call,       \* the deliveries
    overrun,    \* history: deliveries still under way when the cooldown ended
    endpoint    \* external: does the URL answer?

vars == <<failures, cooled, probes, call, overrun, endpoint>>
breaker == <<failures, cooled, probes>>

CallRecord ==
    [pc : {"idle", "posting", "waiting"}, tries : Nat, probe : BOOLEAN]
NoCall == [pc |-> "idle", tries |-> 0, probe |-> FALSE]

UnderWay == {d \in Delivery : call[d].pc # "idle"}
Probing == {d \in UnderWay : call[d].probe}
Tripped == failures >= Threshold

TypeOK ==
    /\ failures \in 0..Threshold
    /\ cooled \in BOOLEAN
    /\ probes \in 0..ProbeLimit
    /\ call \in [Delivery -> CallRecord]
    /\ \A d \in Delivery : call[d].tries < MaxAttempts
    /\ overrun \subseteq Delivery
    /\ endpoint \in {"up", "down"}

Init ==
    /\ failures = 0
    /\ cooled = FALSE
    /\ probes = 0
    /\ call = [d \in Delivery |-> NoCall]
    /\ overrun = {}
    /\ endpoint \in {"up", "down"}

-----------------------------------------------------------------------------
(* WebhookCircuitBreaker *)

\* Mutant: a success frees the slot and keeps the count of failures.
recordSuccessMutant ==
    /\ cooled' = FALSE
    /\ probes' = 0
    /\ UNCHANGED failures

recordSuccess ==
    /\ failures' = 0
    /\ cooled' = FALSE
    /\ probes' = 0

\* Mutant: a failed probe keeps its slot.
recordFailureMutant ==
    /\ failures' = IF Tripped THEN failures ELSE failures + 1
    /\ cooled' = FALSE
    /\ UNCHANGED probes

\* Mutant: lastFailureAt keeps the time of the first failure.
recordFailureMutant2 ==
    /\ failures' = IF Tripped THEN failures ELSE failures + 1
    /\ probes' = 0
    /\ UNCHANGED cooled

recordFailure ==
    /\ failures' = IF Tripped THEN failures ELSE failures + 1
    /\ cooled' = FALSE
    /\ probes' = 0

-----------------------------------------------------------------------------
(* sendWebhook *)

Ends(d) ==
    /\ call' = [call EXCEPT ![d] = NoCall]
    /\ overrun' = overrun \ {d}

Admit(d, isProbe) ==
    call' = [call EXCEPT ![d] = [pc |-> "posting", tries |-> 0, probe |-> isProbe]]

\* isOpen is false on a circuit that has not tripped.
Send(d) ==
    /\ call[d].pc = "idle"
    /\ ~Tripped
    /\ Admit(d, FALSE)
    /\ UNCHANGED <<breaker, overrun, endpoint>>

\* Mutant: the probe does not take a slot.
SendProbeMutant(d) ==
    /\ call[d].pc = "idle"
    /\ Tripped /\ cooled /\ probes < ProbeLimit
    /\ Admit(d, TRUE)
    /\ UNCHANGED <<breaker, overrun, endpoint>>

\* After the cooldown isOpen is false for ProbeLimit callers; the others' events are dropped.
SendProbe(d) ==
    /\ call[d].pc = "idle"
    /\ Tripped /\ cooled /\ probes < ProbeLimit
    /\ probes' = probes + 1
    /\ Admit(d, TRUE)
    /\ UNCHANGED <<failures, cooled, overrun, endpoint>>

PostSucceeds(d) ==
    /\ call[d].pc = "posting"
    /\ endpoint = "up"
    /\ recordSuccess
    /\ Ends(d)
    /\ UNCHANGED endpoint

\* Mutant: the last attempt backs off, too.
PostFailsMutant(d) ==
    /\ call[d].pc = "posting"
    /\ endpoint = "down"
    /\ \/ /\ call[d].tries + 1 <= MaxAttempts
          /\ call' = [call EXCEPT ![d].pc = "waiting", ![d].tries = @ + 1]
          /\ UNCHANGED <<breaker, overrun>>
       \/ /\ call[d].tries + 1 > MaxAttempts
          /\ recordFailure
          /\ Ends(d)
    /\ UNCHANGED endpoint

\* The first attempts back off, the last one counts.
PostFails(d) ==
    /\ call[d].pc = "posting"
    /\ endpoint = "down"
    /\ \/ /\ call[d].tries + 1 < MaxAttempts
          /\ call' = [call EXCEPT ![d].pc = "waiting", ![d].tries = @ + 1]
          /\ UNCHANGED <<breaker, overrun>>
       \/ /\ call[d].tries + 1 >= MaxAttempts
          /\ recordFailure
          /\ Ends(d)
    /\ UNCHANGED endpoint

BackoffEnds(d) ==
    /\ call[d].pc = "waiting"
    /\ call' = [call EXCEPT ![d].pc = "posting"]
    /\ UNCHANGED <<breaker, overrun, endpoint>>

-----------------------------------------------------------------------------
(* Time and the environment *)

Cool ==
    /\ Tripped /\ ~cooled
    /\ cooled' = TRUE
    /\ overrun' = UnderWay
    /\ UNCHANGED <<failures, probes, call, endpoint>>

\* The breaker is kept in memory, and so are the deliveries.
Restart ==
    /\ recordSuccess
    /\ call' = [d \in Delivery |-> NoCall]
    /\ overrun' = {}
    /\ UNCHANGED endpoint

EndpointChanges ==
    /\ endpoint' = IF endpoint = "up" THEN "down" ELSE "up"
    /\ UNCHANGED <<breaker, call, overrun>>

Next ==
    \/ \E d \in Delivery :
          \/ Send(d) \/ SendProbe(d)
          \/ PostSucceeds(d) \/ PostFails(d) \/ BackoffEnds(d)
    \/ Cool
    \/ Restart
    \/ EndpointChanges

\* Posts end (they have a timeout), timers fire, and events keep coming for the hook.
Fairness ==
    /\ \A d \in Delivery :
          /\ WF_vars(PostSucceeds(d) \/ PostFails(d))
          /\ WF_vars(BackoffEnds(d))
    /\ WF_vars(\E d \in Delivery : Send(d) \/ SendProbe(d))
    /\ WF_vars(Cool)

Spec == Init /\ [][Next]_vars
FairSpec == Spec /\ Fairness

-----------------------------------------------------------------------------
(* Properties *)

\* Every taken probe slot has its probe under way: a slot nobody gives back would keep the
\* circuit open for ever, since only recordSuccess and recordFailure free it.
SlotIsOwned == probes <= Cardinality(Probing)

\* While timeouts are kept, the probe is alone: a tripped circuit whose cooldown is over
\* has no other delivery under way that could report in its place.
ProbeIsAlone ==
    Tripped /\ cooled /\ overrun = {} => UnderWay = Probing /\ Cardinality(Probing) = probes

\* The breaker's three maps, read as the states its comment names.
CircuitState ==
    IF ~Tripped THEN "closed"
    ELSE IF ~cooled THEN "open"
    ELSE IF probes < ProbeLimit THEN "cooled"
    ELSE "halfOpen"

Contract == INSTANCE CircuitContract WITH state <- CircuitState

\* The breaker does what a circuit breaker promises, whatever order deliveries report in:
\* no probe before a whole cooldown since the last failure, and one per cooldown.
KeepsContract == Contract!Spec

\* Once the endpoint answers for good, the circuit closes for good.
Recovers == <>[](endpoint = "up") => <>[]~Tripped

\* The breaker is there "to prevent concurrent webhook delivery failures from hammering a
\* dead endpoint": once tripped, only probes post.
OpenIsQuiet ==
    [][\A d \in Delivery :
          Tripped /\ call[d].pc # "posting" /\ call'[d].pc = "posting" => call'[d].probe]_vars
================================================================================

---------------------------- MODULE CircuitContract ----------------------------
(***************************************************************************)
(* What a circuit breaker promises about one URL: once tripped it stays    *)
(* open for a whole cooldown, then lets one probe through, and every       *)
(* failure asks for a whole cooldown again.                                *)
(***************************************************************************)
VARIABLE state

States == {"closed", "open", "cooled", "halfOpen"}

TypeOK == state \in States

Init == state = "closed"

Trip == state # "open" /\ state' = "open"
Cool == state = "open" /\ state' = "cooled"
Probe == state = "cooled" /\ state' = "halfOpen"
Close == state # "closed" /\ state' = "closed"

Next == Trip \/ Cool \/ Probe \/ Close

Spec == Init /\ [][Next]_state
================================================================================

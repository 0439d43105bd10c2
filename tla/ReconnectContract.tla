---------------------------- MODULE ReconnectContract ----------------------------
(***************************************************************************)
(* What one WhatsApp connection promises, whatever flags and timers        *)
(* implement it: there is one attempt at a time, a connection that is over *)
(* never comes back by itself, and between two successful openings it is   *)
(* retried at most MaxReconnect times.  WhatsappConnection implements it.  *)
(***************************************************************************)
EXTENDS Naturals

CONSTANT MaxReconnect   \* retries without a successful opening in between

VARIABLES
    phase,      \* where the only attempt stands
    failures    \* closings since the last successful opening

contractVars == <<phase, failures>>

Phase == {"idle", "dialing", "up", "waiting", "over"}

ContractInit ==
    /\ phase = "idle"
    /\ failures = 0

\* Credentials are being loaded, for the first time or for a retry.
Dial ==
    /\ phase \in {"idle", "waiting"}
    /\ phase' = "dialing"
    /\ UNCHANGED failures

\* A socket exists.
Attach ==
    /\ phase = "dialing"
    /\ phase' = "up"
    /\ UNCHANGED failures

\* WhatsApp accepted the session.
Succeed ==
    /\ phase = "up"
    /\ failures' = 0
    /\ UNCHANGED phase

\* The socket closed and a retry is scheduled.
Retry ==
    /\ phase = "up"
    /\ failures < MaxReconnect
    /\ phase' = "waiting"
    /\ failures' = failures + 1

\* The connection ends: stopped, refused, failed or out of retries.
GiveUp ==
    /\ phase # "over"
    /\ phase' = "over"
    /\ failures' \in {failures, failures + 1}

ContractNext == Dial \/ Attach \/ Succeed \/ Retry \/ GiveUp

ContractSpec == ContractInit /\ [][ContractNext]_contractVars

=============================================================================

---------------------------- MODULE DeliveryContract ----------------------------
(***************************************************************************)
(* What the outbound queue promises about a message, whatever slots, jobs, *)
(* retries and crashes carry it: once accepted it waits until it was       *)
(* delivered or is known to be lost, a mishap excuses one more delivery,   *)
(* and a message that stopped waiting never comes back.  OutboundQueue     *)
(* implements it.                                                          *)
(***************************************************************************)
EXTENDS Naturals

CONSTANT Msg

VARIABLES
    handed,     \* messages given to sendMessage
    waiting,    \* messages that may still be delivered
    lost,       \* messages somebody refused, purged or gave up
    out,        \* how often each was delivered
    mishaps     \* crashes, and failures after a delivery

contractVars == <<handed, waiting, lost, out, mishaps>>

ContractInit ==
    /\ handed = {}
    /\ waiting = {}
    /\ lost = {}
    /\ out = [m \in Msg |-> 0]
    /\ mishaps = 0

\* A message is accepted, or refused at once; it is handed over once.
Hand(m) ==
    /\ m \notin handed
    /\ handed' = handed \cup {m}
    /\ \/ waiting' = waiting \cup {m} /\ UNCHANGED lost
       \/ lost' = lost \cup {m} /\ UNCHANGED waiting
    /\ UNCHANGED <<out, mishaps>>

\* Some messages stop waiting, each delivered or known to be lost; any of those that
\* waited may be lost, even if another attempt is still to come.
Settle ==
    /\ waiting' \subseteq waiting
    /\ lost \subseteq lost' /\ lost' \subseteq lost \cup waiting
    /\ \A m \in waiting \ waiting' : out'[m] > 0 \/ m \in lost'
    /\ mishaps' \in {mishaps, mishaps + 1}
    /\ UNCHANGED handed

\* A waiting message is delivered: the first time, or again because of a mishap.
Deliver(m) ==
    /\ m \in waiting
    /\ out[m] <= mishaps
    /\ out' = [out EXCEPT ![m] = @ + 1]
    /\ Settle

Retire == Settle /\ UNCHANGED out

ContractNext == Retire \/ \E m \in Msg : Hand(m) \/ Deliver(m)

ContractSpec == ContractInit /\ [][ContractNext]_contractVars

=============================================================================

---------------------------- MODULE MCOutboundQueue ----------------------------
(* OutboundQueue on a small instance: the unit of time is about 2.5 seconds. *)
EXTENDS OutboundQueue, TLC

\* Failed attempts wait longer and longer.
MCBackoff == [n \in 1..MaxAttempts |-> n]

Symmetry == Permutations(Msg) \cup Permutations(Job)
=============================================================================

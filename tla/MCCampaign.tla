------------------------------ MODULE MCCampaign ------------------------------
(* Campaign on a small instance: two handlers, two callers and two segments. *)
EXTENDS Campaign, TLC

Symmetry == Permutations(Worker) \cup Permutations(User)
=============================================================================

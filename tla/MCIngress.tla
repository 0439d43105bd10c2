------------------------------- MODULE MCIngress -------------------------------
(* Ingress on a small instance: a sender who starts a dialog and answers twice,  *)
(* and another one whose chat numbers its messages alike.                        *)
EXTENDS Ingress, TLC

Mail ==
    {[id |-> 1, sender |-> "ann", stamp |-> 1, word |-> 1],
     [id |-> 2, sender |-> "ann", stamp |-> 2, word |-> 2],
     [id |-> 3, sender |-> "ann", stamp |-> 2, word |-> 0],
     [id |-> 1, sender |-> "bob", stamp |-> 3, word |-> 0]}

Symmetry == Permutations(Handler)
================================================================================

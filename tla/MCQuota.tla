---- MODULE MCQuota ----
EXTENDS Quota, TLC
OneEach == [m \in Metric |-> 1]
Symmetric == Permutations(Call) \cup Permutations(Channel) \cup Permutations(Agent \ {System})
====

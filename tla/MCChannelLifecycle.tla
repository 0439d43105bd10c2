--------------------------- MODULE MCChannelLifecycle ---------------------------
(* ChannelLifecycle with few requests and adapters. *)
EXTENDS ChannelLifecycle, TLC

Symmetry == Permutations(User) \cup Permutations(Adapter)

=============================================================================

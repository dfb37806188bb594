---------------------------- MODULE MCNetNSDialer ----------------------------
(* Instances of NetNSDialer for TLC. *)
EXTENDS NetNSDialer, TLC

Symmetry == Permutations(Dial) \cup Permutations(NetNS) \cup Permutations(Thread \ {First})
=============================================================================

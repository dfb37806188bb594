----------------------------- MODULE MCResolver -----------------------------
(* Instances of Resolver for TLC. *)
EXTENDS Resolver, TLC

\* the ids share their first eight characters, which is also a name tags may use
MCShortID(v) == 10

Symmetry == Permutations(Request)
=============================================================================

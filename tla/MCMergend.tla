----------------------------- MODULE MCMergend -----------------------------
(***************************************************************************)
(* Constants of the model of the mergend process for TLC.                  *)
(***************************************************************************)
EXTENDS Mergend

MCCreatedAt == [v \in VM |-> v]

=============================================================================

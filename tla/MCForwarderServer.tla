-------------------------- MODULE MCForwarderServer --------------------------
(* Instances of ForwarderServer for TLC. *)
EXTENDS ForwarderServer

CONSTANT Busy   \* the connections over which data is sent

MCChunks(c) == IF c \in Busy THEN 1 ELSE 0
=============================================================================

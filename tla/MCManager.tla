------------------------------ MODULE MCManager ------------------------------
(***************************************************************************)
(* Constants of the manager's model for TLC.                               *)
(***************************************************************************)
EXTENDS Manager, TLC

Port(host) == [guest |-> 1, host |-> host, protocol |-> "tcp"]

\* No port, any port, and one port asked for by number.
MCPayloads == {<< >>, <<Port(0)>>, <<Port(3)>>}

NoPorts == {<< >>}

\* One port, any that is free.
OnePort == {<<Port(0)>>}

Symmetry == Permutations(VM) \cup Permutations(Handler)

=============================================================================

-------------------------- MODULE MCPortAllocation --------------------------
(***************************************************************************)
(* Payloads of up to three requests over a publish range of two ports, one *)
(* port outside of it, every set of ports already in use, and guest        *)
(* networks down to a single address.                                      *)
(***************************************************************************)
EXTENDS PortAllocation

MCRequest == {[guest |-> 1, host |-> h, protocol |-> ""] : h \in 0..4}
                \cup {[guest |-> 2, host |-> 0, protocol |-> "UDP"],
                      [guest |-> 2, host |-> 3, protocol |-> "udp"],
                      [guest |-> 1, host |-> 0, protocol |-> "sctp"],
                      [guest |-> 0, host |-> 0, protocol |-> "tcp"],
                      [guest |-> 1, host |-> 5, protocol |-> "TCP "]}

MCRequests == UNION {[1..n -> MCRequest] : n \in 0..3}

\* Every set of used ports in a network that is half full; and networks of one
\* to eight addresses, with no host in use, some or all.
MCExisting ==
    [bits : {3}, addresses : {{2, 3, 5}}, ports : SUBSET (1..4)]
        \cup [bits : 0..3, addresses : {{}, {2}, {2, 4}, 2..6}, ports : {{}}]

=============================================================================

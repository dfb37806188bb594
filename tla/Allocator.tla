------------------------------ MODULE Allocator ------------------------------
(***************************************************************************)
(* internal/network/allocator.go: the guest address and the host ports of  *)
(* a new VM, chosen from the metadata of the VMs found on disk.            *)
(*                                                                         *)
(* A guest address is its host number in the guest CIDR.  A port request   *)
(* is a record [guest, host, protocol]; host 0 asks for any free port.     *)
(* The bindings of a VM have distinct host ports, so the slice sorted by   *)
(* host port is represented by the set of its elements.                    *)
(***************************************************************************)
EXTENDS Integers, Sequences, FiniteSetsExt

CONSTANTS PortStart,  \* first port of the configured publish range
          PortEnd,    \* last port of the configured publish range
          MaxPort,    \* largest port number, 65535 in the code
          HostBits    \* 32 minus the prefix length of the guest CIDR

ASSUME PortAssumption == /\ PortStart \in Nat \ {0}
                         /\ PortEnd \in Nat
                         /\ MaxPort \in Nat
                         /\ PortEnd <= MaxPort

ASSUME HostBitsAssumption == HostBits \in 0..32

-----------------------------------------------------------------------------
(* Host ports *)

\* 0 is the code's "no port left"; it is not a port number.
nextFreePort(used, reserved) ==
    LET free == (PortStart..PortEnd) \ (used \cup reserved)
    IN  IF free = {} THEN 0 ELSE Min(free)

\* strings.TrimSpace(strings.ToLower(..)) and the default: the spellings
\* that the requests of a run use, and what the code makes of them.
normalProtocol(protocol) ==
    CASE protocol \in {"", "tcp", "TCP "} -> "tcp"
      [] protocol \in {"udp", "UDP"}      -> "udp"
      [] OTHER                            -> protocol

acceptable(req) == /\ req.guest \in 1..MaxPort
                   /\ req.host \in 0..MaxPort
                   /\ normalProtocol(req.protocol) \in {"tcp", "udp"}

\* The host port the loop settles on for each request, in request order.
hostPorts(used, requests) ==
    LET host[i \in 1..Len(requests)] ==
          IF requests[i].host # 0
          THEN requests[i].host
          ELSE nextFreePort(used, {host[j] : j \in 1..(i - 1)})
    IN  host

allocatePorts(used, requests) ==
    LET host == hostPorts(used, requests)
    IN  [ok |-> \A i \in 1..Len(requests) :
                   /\ acceptable(requests[i])
                   /\ host[i] \in Nat \ {0}
                   /\ host[i] \notin used
                   /\ host[i] \notin {host[j] : j \in 1..(i - 1)},
         bindings |-> {[guest    |-> requests[i].guest,
                        host     |-> host[i],
                        protocol |-> normalProtocol(requests[i].protocol)]
                          : i \in 1..Len(requests)}]

-----------------------------------------------------------------------------
(* Guest address *)

\* Host 1 is the gateway; the loop runs from 2 and stops before 2^bits - 1.
guestHosts(bits) == 2..(2^bits - 2)

allocateGuestIP(bits, used) ==
    LET free == guestHosts(bits) \ used
    IN  IF bits <= 1 \/ free = {}
        THEN [ok |-> FALSE, ip |-> 0]
        ELSE [ok |-> TRUE, ip |-> Min(free)]

-----------------------------------------------------------------------------
(* Allocate: first the address, then the ports; either may fail.  What a   *)
(* VM's metadata keeps of it here is its address and its host ports.       *)

\* Mutant: the addresses of the existing VMs are not consulted.
usedIPs_Mutant(metas) == {}

usedIPs(metas) == {m.ip : m \in metas}

usedPorts(metas) == UNION {m.ports : m \in metas}

Allocate(metas, requests) ==
    LET guest == allocateGuestIP(HostBits, usedIPs(metas))
        ports == allocatePorts(usedPorts(metas), requests)
    IN  [ok   |-> guest.ok /\ ports.ok,
         meta |-> [ip |-> guest.ip,
                   ports |-> {b.host : b \in ports.bindings}]]

=============================================================================

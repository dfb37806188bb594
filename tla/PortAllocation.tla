--------------------------- MODULE PortAllocation ---------------------------
(***************************************************************************)
(* The loops of Allocate in internal/network/allocator.go: allocateGuestIP *)
(* looks at one host of the guest network per step; then allocatePorts     *)
(* takes one request after the other, with nextFreePort looking at one     *)
(* port per step, rejects or binds it, and sorts the bindings at the end.  *)
(* Allocator has the closed forms that the manager's model uses; the       *)
(* properties below say that the two agree and what a caller may rely on.  *)
(***************************************************************************)
EXTENDS Allocator, SequencesExt

CONSTANTS Requests,   \* the port lists a create payload may carry
          Existing    \* what a call may find: the guest network (its host
                      \* bits), and the addresses and host ports of other VMs

\* A payload is a list of numbers and strings, whatever they are.
ASSUME RequestsAssumption ==
    Requests \subseteq Seq([guest : Int, host : Int, protocol : STRING])

ASSUME ExistingAssumption == \A e \in Existing : e.bits \in 0..32

VARIABLES existing,   \* what this call finds
          candidate,  \* allocateGuestIP: the host at hand, in the end the answer
          requests,   \* the payload
          next,       \* index of the request at hand
          probe,      \* nextFreePort: the port at hand
          reserved,   \* host ports bound so far by this call
          bindings,   \* the result under construction
          result      \* "address", then "pending", then "ok" or the error

loopVars == <<existing, candidate, requests, next, probe, reserved, bindings, result>>

AddressErrors == {"noRange", "noAddress"}

PortErrors == {"invalid", "exhausted", "allocated", "duplicate"}

PortBinding == [guest : 1..MaxPort, host : 1..MaxPort, protocol : {"tcp", "udp"}]

LoopTypeOK == /\ existing \in Existing
              /\ candidate \in Nat
              /\ requests \in Requests
              /\ next \in 1..(Len(requests) + 1)
              /\ probe \in Nat
              /\ reserved \subseteq 1..MaxPort
              /\ bindings \in Seq(PortBinding)
              /\ result \in {"address", "pending", "ok"} \cup AddressErrors \cup PortErrors

LoopInit == /\ existing \in Existing
            /\ candidate = 2
            /\ requests \in Requests
            /\ next = 1
            /\ probe = PortStart
            /\ reserved = {}
            /\ bindings = << >>
            /\ result = "address"

Fail(error) == /\ result' = error
               /\ UNCHANGED <<existing, candidate, requests, next, probe, reserved, bindings>>

-----------------------------------------------------------------------------
(* allocateGuestIP; every host below 2^bits is in the prefix *)

maxHost == 2^existing.bits - 1

RejectPrefix == /\ result = "address"
                /\ existing.bits <= 1
                /\ Fail("noRange")

\* The condition of the loop.
Scanning == /\ result = "address"
            /\ existing.bits > 1
            /\ candidate < maxHost

SkipHost == /\ Scanning
            /\ candidate \in existing.addresses
            /\ candidate' = candidate + 1
            /\ UNCHANGED <<existing, requests, next, probe, reserved, bindings, result>>

TakeHost == /\ Scanning
            /\ candidate \notin existing.addresses
            /\ result' = "pending"
            /\ UNCHANGED <<existing, candidate, requests, next, probe, reserved, bindings>>

RejectNetwork == /\ result = "address"
                 /\ existing.bits > 1
                 /\ ~(candidate < maxHost)
                 /\ Fail("noAddress")

-----------------------------------------------------------------------------
(* allocatePorts *)

used == existing.ports

req == requests[next]

Looping == result = "pending" /\ next <= Len(requests)

RejectInvalid == /\ Looping
                 /\ ~acceptable(req)
                 /\ Fail("invalid")

\* Mutant: the loop of nextFreePort loses its equality, port < portEnd.
ranOut_Mutant == probe >= PortEnd

\* nextFreePort has looked at the whole range.
ranOut == probe > PortEnd

\* nextFreePort: the port at hand is taken.
SkipPort == /\ Looping
            /\ acceptable(req)
            /\ req.host = 0
            /\ ~ranOut
            /\ probe \in used \cup reserved
            /\ probe' = probe + 1
            /\ UNCHANGED <<existing, candidate, requests, next, reserved, bindings, result>>

\* The host port is known: it was asked for, or nextFreePort has returned.
Settled == /\ Looping
           /\ acceptable(req)
           /\ req.host # 0 \/ ranOut \/ probe \notin used \cup reserved

hostPort == IF req.host # 0 THEN req.host
            ELSE IF ranOut THEN 0 ELSE probe

RejectExhausted == /\ Settled
                   /\ hostPort = 0
                   /\ Fail("exhausted")

RejectAllocated == /\ Settled
                   /\ hostPort \in used
                   /\ hostPort # 0
                   /\ Fail("allocated")

RejectDuplicate == /\ Settled
                   /\ hostPort \in reserved \ used
                   /\ hostPort # 0
                   /\ Fail("duplicate")

Bound == /\ reserved' = reserved \cup {hostPort}
         /\ bindings' = Append(bindings,
                               [guest    |-> req.guest,
                                host     |-> hostPort,
                                protocol |-> normalProtocol(req.protocol)])
         /\ next' = next + 1
         /\ probe' = PortStart
         /\ UNCHANGED <<existing, candidate, requests, result>>

\* Mutant: a port of an existing VM is accepted.
Bind_IgnoresUsed == /\ Settled
                    /\ hostPort # 0
                    /\ hostPort \notin reserved
                    /\ Bound

Bind == /\ Settled
        /\ hostPort # 0
        /\ hostPort \notin used \cup reserved
        /\ Bound

\* sort.Slice with the host port as the key, which is not stable.
SortSlice(s) ==
    {t \in {[i \in DOMAIN s |-> s[f[i]]] : f \in Bijection(DOMAIN s, DOMAIN s)} :
        \A i, j \in DOMAIN s : i < j => t[i].host <= t[j].host}

\* Mutant: the bindings are returned in request order.
Finish_Unsorted == /\ result = "pending"
                   /\ next > Len(requests)
                   /\ result' = "ok"
                   /\ UNCHANGED <<existing, candidate, requests, next, probe, reserved, bindings>>

Finish == /\ result = "pending"
          /\ next > Len(requests)
          /\ bindings' \in SortSlice(bindings)
          /\ result' = "ok"
          /\ UNCHANGED <<existing, candidate, requests, next, probe, reserved>>

LoopNext == \/ RejectPrefix
            \/ SkipHost
            \/ TakeHost
            \/ RejectNetwork
            \/ RejectInvalid
            \/ SkipPort
            \/ RejectExhausted
            \/ RejectAllocated
            \/ RejectDuplicate
            \/ Bind
            \/ Finish

LoopSpec == LoopInit /\ [][LoopNext]_loopVars

-----------------------------------------------------------------------------
(* Properties *)

\* The loops of Allocate and the closed forms the manager's model calls return
\* the same verdict and, on success, the same address and bindings.
AgreesWithClosedForm ==
    result \notin {"address", "pending"} =>
        LET guest == allocateGuestIP(existing.bits, existing.addresses)
            ports == allocatePorts(used, requests)
        IN  /\ (result = "ok") = (guest.ok /\ ports.ok)
            /\ result = "ok" => candidate = guest.ip /\ Range(bindings) = ports.bindings

\* What a caller of Allocate relies on.  The address belongs to no other VM and
\* is neither the network's, the gateway's (host 1) nor the broadcast address.
\* The bindings answer the payload one for one, keep every explicit host port,
\* put every other one in the publish range, collide neither with each other
\* nor with an existing VM, and come sorted by host port.
Honours(binding, request) ==
    /\ binding.guest = request.guest
    /\ IF request.host = 0 THEN binding.host \in PortStart..PortEnd
                           ELSE binding.host = request.host

AllocationIsSound ==
    result = "ok" =>
        /\ candidate \in 2..(2^existing.bits - 2) \ existing.addresses
        /\ \E answers \in Injection(1..Len(requests), 1..Len(bindings)) :
              \A i \in 1..Len(requests) : Honours(bindings[answers[i]], requests[i])
        /\ Len(bindings) = Len(requests)
        /\ \A i \in 1..Len(bindings) : bindings[i].host \notin used
        /\ IsSorted(bindings, LAMBDA a, b : a.host < b.host)

\* "no available host port in configured range" is returned only when every
\* port of the range belongs to an existing VM or to this payload, and an
\* address is refused only when every host between the gateway and the
\* broadcast address, if there is one, belongs to an existing VM.
ExhaustedOnlyWhenFull ==
    /\ result = "exhausted" =>
          PortStart..PortEnd \subseteq
              used \cup {requests[i].host : i \in 1..(next - 1)}
                   \cup {bindings[i].host : i \in 1..Len(bindings)}
    /\ result \in AddressErrors => 2..(2^existing.bits - 2) \subseteq existing.addresses

=============================================================================

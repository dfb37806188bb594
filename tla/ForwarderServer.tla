-------------------------- MODULE ForwarderServer --------------------------
(***************************************************************************)
(* The forwarder's server (internal/forwarder/server.go): the accept loop, *)
(* one goroutine per connection, two copying goroutines per routed         *)
(* connection, and the shutdown that waits for all of them.                *)
(*                                                                         *)
(* A connection has a client and, once dialed, a backend (the service in   *)
(* the VM).  Each peer sends at most Chunks(c) pieces and is "open",       *)
(* "fin" (it has closed its sending side and still reads) or "gone" (it    *)
(* reset the connection; what it had in flight may be lost).  The pieces   *)
(* fit into the sockets' buffers: no Write waits for a peer that does not  *)
(* read.  How a name is resolved and a backend dialed is in Resolver and   *)
(* NetNSDialer; here either may succeed or fail.                           *)
(***************************************************************************)
EXTENDS Naturals, FiniteSets

CONSTANTS Conn,      \* connections
          Chunks(_)  \* bound, per connection: pieces of data a peer sends

ASSUME ConnAssumption == IsFiniteSet(Conn)
ASSUME ChunksAssumption == \A c \in Conn : Chunks(c) \in Nat

VARIABLES
    ctx,               \* "live", or "done" after SIGINT or SIGTERM
    run,               \* where Run is
    conns, wg,         \* s.conns and the counter of s.connWG
    pc,                \* per connection: where handleTLSConn is
    closed,            \* connections whose client socket the forwarder closed
    up, down,          \* per connection: the goroutines of proxyStreams
    client, backend,   \* per connection: the peers
    half,              \* connections whose backend was sent CloseWrite
    said, heard        \* per connection and direction: data sent, delivered

peers == <<client, backend, said>>
streams == <<up, down, half, heard>>
server == <<ctx, run, conns, wg>>
vars == <<server, pc, closed, streams, peers>>

Live == {"accepted", "named", "dialing", "proxying"}

TypeOK ==
    /\ ctx \in {"live", "done"}
    /\ run \in {"accepting", "sleeping", "waiting", "draining", "returned", "failed"}
    /\ conns \subseteq Conn
    /\ wg \in 0..Cardinality(Conn)
    /\ pc \in [Conn -> {"none", "done"} \cup Live]
    /\ closed \subseteq Conn
    /\ up \in [Conn -> {"off", "copy", "end"}]
    /\ down \in [Conn -> {"off", "copy", "end"}]
    /\ client \in [Conn -> {"open", "fin", "gone"}]
    /\ backend \in [Conn -> {"open", "fin", "gone"}]
    /\ half \subseteq Conn
    /\ DOMAIN said = Conn /\ DOMAIN heard = Conn
    /\ \A c \in Conn : {said[c], heard[c]} \subseteq [{"up", "down"} -> 0..Chunks(c)]

Init ==
    /\ ctx = "live" /\ run = "accepting"
    /\ conns = {} /\ wg = 0
    /\ pc = [c \in Conn |-> "none"]
    /\ closed = {}
    /\ up = [c \in Conn |-> "off"] /\ down = [c \in Conn |-> "off"]
    /\ client = [c \in Conn |-> "open"] /\ backend = [c \in Conn |-> "open"]
    /\ half = {}
    /\ said = [c \in Conn |-> [d \in {"up", "down"} |-> 0]]
    /\ heard = [c \in Conn |-> [d \in {"up", "down"} |-> 0]]

-----------------------------------------------------------------------------
(* runTLSListener *)

\* the signal; a goroutine closes the listener, so that Accept fails from then
\* on, after the connections the kernel had already completed
Signal ==
    /\ ctx = "live"
    /\ ctx' = "done"
    /\ UNCHANGED <<run, conns, wg, pc, closed, streams, peers>>

\* Mutant: the connection is not tracked.
Accept_Untracked(c) ==
    /\ run = "accepting"
    /\ pc[c] = "none"
    /\ wg' = wg + 1
    /\ pc' = [pc EXCEPT ![c] = "accepted"]
    /\ UNCHANGED <<ctx, run, conns, closed, streams, peers>>

Accept(c) ==
    /\ run = "accepting"
    /\ pc[c] = "none"
    /\ conns' = conns \cup {c}
    /\ wg' = wg + 1
    /\ pc' = [pc EXCEPT ![c] = "accepted"]
    /\ UNCHANGED <<ctx, run, closed, streams, peers>>

AcceptTemporaryError ==
    /\ run = "accepting" /\ ctx = "live"
    /\ run' = "sleeping"
    /\ UNCHANGED <<ctx, conns, wg, pc, closed, streams, peers>>

Awake ==
    /\ run = "sleeping"
    /\ run' = "accepting"
    /\ UNCHANGED <<ctx, conns, wg, pc, closed, streams, peers>>

\* any other error ends Run, and main with it, without waiting for anyone
AcceptFails ==
    /\ run = "accepting" /\ ctx = "live"
    /\ run' = "failed"
    /\ UNCHANGED <<ctx, conns, wg, pc, closed, streams, peers>>

ListenerClosed ==
    /\ run = "accepting" /\ ctx = "done"
    /\ run' = "waiting"
    /\ UNCHANGED <<ctx, conns, wg, pc, closed, streams, peers>>

-----------------------------------------------------------------------------
(* waitForConnections *)

\* the WaitGroup is done before the timeout
GracefulShutdown ==
    /\ run = "waiting" /\ wg = 0
    /\ run' = "returned"
    /\ UNCHANGED <<ctx, conns, wg, pc, closed, streams, peers>>

\* Mutant: the timeout is logged and nothing is closed.
ShutdownTimeout_Mutant ==
    /\ run = "waiting"
    /\ run' = "draining"
    /\ UNCHANGED <<ctx, conns, wg, pc, closed, streams, peers>>

\* the timeout: closeAllConnections closes the client side of what is tracked
ShutdownTimeout ==
    /\ run = "waiting"
    /\ closed' = closed \cup conns
    /\ run' = "draining"
    /\ UNCHANGED <<ctx, conns, wg, pc, streams, peers>>

\* Mutant: no second wait after the connections were closed.
Drained_Mutant ==
    /\ run = "draining"
    /\ run' = "returned"
    /\ UNCHANGED <<ctx, conns, wg, pc, closed, streams, peers>>

Drained ==
    /\ run = "draining" /\ wg = 0
    /\ run' = "returned"
    /\ UNCHANGED <<ctx, conns, wg, pc, closed, streams, peers>>

RunStep ==
    \/ Awake \/ ListenerClosed \/ GracefulShutdown \/ ShutdownTimeout \/ Drained

-----------------------------------------------------------------------------
(* handleTLSConn; the process is there until Run returns *)

Running == run \notin {"returned", "failed"}

\* the client's socket is of no use any more
clientLost(c) == c \in closed \/ client[c] = "gone"

\* the deferred calls: close the sockets, untrack, Done
Unwind(c) ==
    /\ closed' = closed \cup {c}
    /\ conns' = conns \ {c}
    /\ wg' = wg - 1
    /\ pc' = [pc EXCEPT ![c] = "done"]
    /\ UNCHANGED <<ctx, run>>

\* the handshake ends well; it has no deadline of its own.  The client may have
\* closed its side after its last message.
Handshake(c) ==
    /\ Running /\ pc[c] = "accepted"
    /\ ~clientLost(c)
    /\ pc' = [pc EXCEPT ![c] = "named"]
    /\ UNCHANGED <<server, closed, streams, peers>>

\* a bad handshake, a client that left, or a socket closed by the shutdown
HandshakeFails(c) ==
    /\ Running /\ pc[c] = "accepted"
    /\ Unwind(c)
    /\ UNCHANGED <<streams, peers>>

\* Resolve and targetHTTPPort find the address
Routed(c) ==
    /\ Running /\ pc[c] = "named"
    /\ pc' = [pc EXCEPT ![c] = "dialing"]
    /\ UNCHANGED <<server, closed, streams, peers>>

\* no SNI (421), no such VM (404), no usable httpPort (502)
NotRouted(c) ==
    /\ Running /\ pc[c] = "named"
    /\ Unwind(c)
    /\ UNCHANGED <<streams, peers>>

\* the dial succeeds, whatever the client did meanwhile
Dialed(c) ==
    /\ Running /\ pc[c] = "dialing"
    /\ pc' = [pc EXCEPT ![c] = "proxying"]
    /\ up' = [up EXCEPT ![c] = "copy"]
    /\ down' = [down EXCEPT ![c] = "copy"]
    /\ UNCHANGED <<server, closed, half, heard, peers>>

\* the dial fails or DialTimeout is over (502)
DialFails(c) ==
    /\ Running /\ pc[c] = "dialing"
    /\ Unwind(c)
    /\ UNCHANGED <<streams, peers>>

-----------------------------------------------------------------------------
(* proxyStreams *)

\* io.Copy(backend, client) moves a piece
UpCopies(c) ==
    /\ Running /\ up[c] = "copy"
    /\ ~clientLost(c) /\ backend[c] # "gone"
    /\ heard[c]["up"] < said[c]["up"]
    /\ heard' = [heard EXCEPT ![c]["up"] = @ + 1]
    /\ UNCHANGED <<server, pc, closed, up, down, half, peers>>

upEnds(c) ==
    \/ clientLost(c)
    \/ client[c] = "fin" /\ heard[c]["up"] = said[c]["up"]
    \/ backend[c] = "gone" /\ heard[c]["up"] < said[c]["up"]

\* Mutant: the backend is not told that the client has finished.
UpEnds_Mutant(c) ==
    /\ Running /\ up[c] = "copy" /\ upEnds(c)
    /\ up' = [up EXCEPT ![c] = "end"]
    /\ UNCHANGED <<server, pc, closed, down, half, heard, peers>>

\* it ends: end of file or an error of either socket, then backend.CloseWrite
UpEnds(c) ==
    /\ Running /\ up[c] = "copy" /\ upEnds(c)
    /\ up' = [up EXCEPT ![c] = "end"]
    /\ half' = half \cup {c}
    /\ UNCHANGED <<server, pc, closed, down, heard, peers>>

\* io.Copy(client, backend) moves a piece
DownCopies(c) ==
    /\ Running /\ down[c] = "copy"
    /\ ~clientLost(c) /\ backend[c] # "gone"
    /\ heard[c]["down"] < said[c]["down"]
    /\ heard' = [heard EXCEPT ![c]["down"] = @ + 1]
    /\ UNCHANGED <<server, pc, closed, up, down, half, peers>>

\* it ends: a lost client is noticed only when there is something to write.
\* The client.CloseWrite that follows tells the client, which may ignore it.
DownEnds(c) ==
    /\ Running /\ down[c] = "copy"
    /\ \/ backend[c] = "gone"
       \/ backend[c] = "fin" /\ heard[c]["down"] = said[c]["down"]
       \/ clientLost(c) /\ heard[c]["down"] < said[c]["down"]
    /\ down' = [down EXCEPT ![c] = "end"]
    /\ UNCHANGED <<server, pc, closed, up, half, heard, peers>>

\* Mutant: the connection ends with the first of the two streams.
ProxyEnds_Mutant(c) ==
    /\ Running /\ pc[c] = "proxying"
    /\ up[c] = "end" \/ down[c] = "end"
    /\ Unwind(c)
    /\ UNCHANGED <<streams, peers>>

\* wg.Wait of proxyStreams, and the end of the handler
ProxyEnds(c) ==
    /\ Running /\ pc[c] = "proxying"
    /\ up[c] = "end" /\ down[c] = "end"
    /\ Unwind(c)
    /\ UNCHANGED <<streams, peers>>

HandlerStep(c) ==
    \/ Routed(c) \/ NotRouted(c) \/ Dialed(c) \/ DialFails(c)
    \/ Handshake(c) \/ HandshakeFails(c) \/ ProxyEnds(c)

UpStep(c) == UpCopies(c) \/ UpEnds(c)
DownStep(c) == DownCopies(c) \/ DownEnds(c)

-----------------------------------------------------------------------------
(* The peers *)

Say(c, d) ==
    /\ said[c][d] < Chunks(c)
    /\ said' = [said EXCEPT ![c][d] = @ + 1]

ClientSends(c) ==
    /\ pc[c] \in Live /\ pc[c] # "accepted" /\ client[c] = "open"
    /\ Say(c, "up")
    /\ UNCHANGED <<server, pc, closed, streams, client, backend>>

ClientFinishes(c) ==
    /\ pc[c] \in Live /\ client[c] = "open"
    /\ client' = [client EXCEPT ![c] = "fin"]
    /\ UNCHANGED <<server, pc, closed, streams, backend, said>>

ClientLeaves(c) ==
    /\ pc[c] \in Live /\ client[c] # "gone"
    /\ client' = [client EXCEPT ![c] = "gone"]
    /\ UNCHANGED <<server, pc, closed, streams, backend, said>>

BackendSends(c) ==
    /\ pc[c] = "proxying" /\ backend[c] = "open"
    /\ Say(c, "down")
    /\ UNCHANGED <<server, pc, closed, streams, client, backend>>

BackendFinishes(c) ==
    /\ pc[c] = "proxying" /\ backend[c] = "open"
    /\ backend' = [backend EXCEPT ![c] = "fin"]
    /\ UNCHANGED <<server, pc, closed, streams, client, said>>

BackendLeaves(c) ==
    /\ pc[c] = "proxying" /\ backend[c] # "gone"
    /\ backend' = [backend EXCEPT ![c] = "gone"]
    /\ UNCHANGED <<server, pc, closed, streams, client, said>>

PeerStep(c) ==
    \/ ClientSends(c) \/ ClientFinishes(c) \/ ClientLeaves(c)
    \/ BackendSends(c) \/ BackendFinishes(c) \/ BackendLeaves(c)

-----------------------------------------------------------------------------

Next ==
    \/ Signal \/ AcceptTemporaryError \/ AcceptFails \/ RunStep
    \/ \E c \in Conn : \/ Accept(c) \/ HandlerStep(c) \/ UpStep(c) \/ DownStep(c)
                       \/ PeerStep(c)

Spec == Init /\ [][Next]_vars

\* The goroutines go on; a timeout fires, a dial ends.  Nothing is assumed of
\* the peers: a client may stay in the handshake, or connected, for ever, and a
\* backend need not close because its client did.  A handshake whose client has
\* closed or whose socket is closed does end, in one way or the other.
Fairness ==
    /\ WF_vars(RunStep)
    /\ \A c \in Conn :
           /\ WF_vars(Routed(c) \/ NotRouted(c))
           /\ WF_vars(Dialed(c) \/ DialFails(c))
           /\ WF_vars(/\ clientLost(c) \/ client[c] # "open"
                      /\ Handshake(c) \/ HandshakeFails(c))
           /\ WF_vars(ProxyEnds(c))
           /\ WF_vars(UpStep(c)) /\ WF_vars(DownStep(c))

FairSpec == Spec /\ Fairness

-----------------------------------------------------------------------------
(* Properties *)

\* Run returns nil only when no handler is left and every client was closed: no
\* connection is cut off by the end of the process.
ReturnedIsDrained ==
    run = "returned" =>
        \A c \in Conn : pc[c] \in {"none", "done"} /\ (pc[c] = "done" => c \in closed)

\* After the shutdown timeout no connection is left that was not told: the
\* client socket of every handler still at work is closed.
ForcedCloseReachesAll ==
    run = "draining" => \A c \in Conn : pc[c] \in Live => c \in closed

\* What one side sent before it closed reaches the other, also when the other
\* had closed its own sending side long before: unless a peer left or the
\* shutdown closed the client, a routed connection ends with nothing lost.
NothingIsCutOff ==
    [][\A c \in Conn :
          /\ pc[c] = "proxying" /\ pc'[c] = "done"
          /\ c \notin closed /\ client[c] # "gone" /\ backend[c] # "gone"
          => heard[c] = said[c]]_vars

\* All that is left of a routed connection is a Read from its backend, which
\* has had everything the client sent and the end of it, and is still open.
waitsForBackend(c) ==
    /\ pc[c] = "proxying"
    /\ up[c] = "end" /\ c \in half
    /\ down[c] = "copy" /\ backend[c] = "open" /\ heard[c]["down"] = said[c]["down"]

\* A client that has closed its connection is not held on to, as long as the
\* forwarder runs: its handler ends, unless it has passed the end on to the
\* backend (CloseWrite) and waits only for the backend to close as well.
\* Nothing in proxyStreams bounds that wait.
ClosedClientIsReleased ==
    \A c \in Conn : pc[c] \in Live /\ client[c] # "open"
                        ~> pc[c] = "done" \/ ~Running \/ waitsForBackend(c)

\* After SIGTERM Run comes to its end, or to its second wait, with every client
\* socket closed and no handler left but those whose backend, told of the end,
\* stays open: no handshake, lookup, dial or client holds up the shutdown.
ShutdownWaitsOnlyForBackends ==
    ctx = "done" ~> \/ run \in {"returned", "failed"}
                    \/ /\ run = "draining"
                       /\ \A c \in Conn : pc[c] \in Live => c \in closed /\ waitsForBackend(c)

\* waitForConnections: "forwarder shutdown timeout reached, forcing connection
\* close".  After SIGTERM the forwarder comes to an end, whatever its peers do:
\* not true of the code, since the second wait has no bound (see the README).
ShutdownCompletes == ctx = "done" ~> run \in {"returned", "failed"}

=============================================================================

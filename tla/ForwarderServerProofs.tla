----------------------- MODULE ForwarderServerProofs -----------------------
(***************************************************************************)
(* Theorems about the forwarder's server, for every number of connections  *)
(* and every amount of data: the WaitGroup counts the handlers at work, so *)
(* Run returns with none left, and a stream ends with nothing lost.        *)
(***************************************************************************)
EXTENDS ForwarderServer, FiniteSetTheorems, TLAPS

-----------------------------------------------------------------------------
(* Type correctness *)

\* The types, but for the counter of the WaitGroup: that it stays between 0 and
\* the number of connections follows from what it counts.
TypeInv ==
    /\ ctx \in {"live", "done"}
    /\ run \in {"accepting", "sleeping", "waiting", "draining", "returned", "failed"}
    /\ conns \subseteq Conn
    /\ pc \in [Conn -> {"none", "done"} \cup Live]
    /\ closed \subseteq Conn
    /\ up \in [Conn -> {"off", "copy", "end"}]
    /\ down \in [Conn -> {"off", "copy", "end"}]
    /\ client \in [Conn -> {"open", "fin", "gone"}]
    /\ backend \in [Conn -> {"open", "fin", "gone"}]
    /\ half \subseteq Conn
    /\ DOMAIN said = Conn /\ DOMAIN heard = Conn
    /\ \A c \in Conn : {said[c], heard[c]} \subseteq [{"up", "down"} -> 0..Chunks(c)]

\* s.conns holds the connections whose handler is at work, and s.connWG counts
\* them.
Tracked ==
    /\ conns = {c \in Conn : pc[c] \in Live}
    /\ wg = Cardinality(conns)

\* A handler that is over has closed its client.
DoneIsClosed == \A c \in Conn : pc[c] = "done" => c \in closed

\* Nobody has left and the forwarder has not closed the client.
Unbroken(c) == c \notin closed /\ client[c] # "gone" /\ backend[c] # "gone"

\* The copiers of an unbroken connection end only after everything their side
\* had to send was delivered, and that side has closed: it sends no more.
EndedIsDelivered(c) ==
    pc[c] = "proxying" /\ Unbroken(c) =>
        /\ up[c] = "end" => client[c] = "fin" /\ heard[c]["up"] = said[c]["up"]
        /\ down[c] = "end" => backend[c] = "fin" /\ heard[c]["down"] = said[c]["down"]

ServerInv ==
    /\ TypeInv
    /\ Tracked
    /\ DoneIsClosed
    /\ ReturnedIsDrained
    /\ ForcedCloseReachesAll
    /\ \A c \in Conn : EndedIsDelivered(c)

\* What the counter counts bounds it.
LEMMA CounterBounded == ServerInv => TypeOK
<1> SUFFICES ASSUME ServerInv PROVE TypeOK
  OBVIOUS
<1>1. IsFiniteSet(conns) /\ Cardinality(conns) \leq Cardinality(Conn)
  BY FS_Subset, ConnAssumption DEF ServerInv, TypeInv
<1>2. Cardinality(conns) \in Nat /\ Cardinality(Conn) \in Nat
  BY <1>1, FS_CardinalityType, ConnAssumption
<1> QED
  BY <1>1, <1>2 DEF ServerInv, TypeInv, TypeOK, Tracked

\* A forwarder that has just started has no connections.
LEMMA ServerInit == Init => ServerInv
<1> SUFFICES ASSUME Init PROVE ServerInv
  OBVIOUS
<1>1. TypeInv
  BY ChunksAssumption DEF Init, TypeInv, Live
<1>2. Tracked
  BY FS_EmptySet DEF Init, Tracked, Live
<1> QED
  BY <1>1, <1>2 DEF Init, ServerInv, DoneIsClosed, ReturnedIsDrained, ForcedCloseReachesAll,
     EndedIsDelivered

-----------------------------------------------------------------------------
(* The steps *)

\* Run goes from state to state; it returns only when the counter is 0, which is
\* when no handler is left.
LEMMA RunKeeps ==
    ServerInv /\ (Signal \/ AcceptTemporaryError \/ AcceptFails \/ RunStep) => ServerInv'
<1> SUFFICES ASSUME ServerInv, Signal \/ AcceptTemporaryError \/ AcceptFails \/ RunStep
             PROVE  ServerInv'
  OBVIOUS
<1>1. /\ UNCHANGED <<conns, wg, pc, streams, peers>>
      /\ \/ run' = run /\ closed' = closed
         \/ run' \in {"accepting", "sleeping", "waiting", "failed"} /\ closed' = closed
         \/ run' = "returned" /\ wg = 0 /\ closed' = closed
         \/ run' = "draining" /\ closed' = closed \cup conns
  BY DEF Signal, AcceptTemporaryError, AcceptFails, RunStep, Awake, ListenerClosed,
     GracefulShutdown, ShutdownTimeout, Drained
<1>2. ctx' \in {"live", "done"}
  BY DEF Signal, AcceptTemporaryError, AcceptFails, RunStep, Awake, ListenerClosed,
     GracefulShutdown, ShutdownTimeout, Drained, ServerInv, TypeInv
<1>3. TypeInv'
  BY <1>1, <1>2 DEF ServerInv, TypeInv, streams, peers
<1>4. Tracked' /\ DoneIsClosed'
  BY <1>1 DEF ServerInv, Tracked, DoneIsClosed
<1>5. ReturnedIsDrained'
  <2>1. IsFiniteSet(conns)
    BY FS_Subset, ConnAssumption DEF ServerInv, TypeInv
  <2>2. wg = 0 => conns = {}
    BY <2>1, FS_EmptySet DEF ServerInv, Tracked
  <2>3. wg = 0 => \A c \in Conn : pc[c] \in {"none", "done"}
    BY <2>2 DEF ServerInv, Tracked, TypeInv
  <2> QED
    BY <1>1, <2>3 DEF ServerInv, ReturnedIsDrained, DoneIsClosed
<1>6. ForcedCloseReachesAll'
  BY <1>1 DEF ServerInv, ForcedCloseReachesAll, Tracked
<1>7. ASSUME NEW c \in Conn PROVE EndedIsDelivered(c)'
  <2>1. EndedIsDelivered(c)
    BY DEF ServerInv
  <2> QED
    BY <1>1, <2>1 DEF EndedIsDelivered, Unbroken, streams, peers
<1> QED
  BY <1>3, <1>4, <1>5, <1>6, <1>7 DEF ServerInv

\* A new connection is tracked and counted before anything else happens.
LEMMA AcceptKeeps ==
    ASSUME ServerInv, NEW c \in Conn, Accept(c)
    PROVE  ServerInv'
<1>1. /\ run = "accepting" /\ pc[c] = "none"
      /\ conns' = conns \cup {c} /\ wg' = wg + 1
      /\ pc' = [pc EXCEPT ![c] = "accepted"]
      /\ UNCHANGED <<ctx, run, closed, up, down, half, heard, client, backend, said>>
  BY DEF Accept, streams, peers
<1>2. TypeInv'
  BY <1>1 DEF ServerInv, TypeInv, Live
<1>3. Tracked'
  <2>1. IsFiniteSet(conns) /\ c \notin conns
    BY <1>1, FS_Subset, ConnAssumption DEF ServerInv, TypeInv, Tracked, Live
  <2>2. Cardinality(conns') = Cardinality(conns) + 1
    BY <1>1, <2>1, FS_AddElement
  <2>3. conns' = {d \in Conn : pc'[d] \in Live}
    BY <1>1 DEF ServerInv, TypeInv, Tracked, Live
  <2> QED
    BY <1>1, <2>2, <2>3 DEF ServerInv, Tracked
<1> QED
  BY <1>1, <1>2, <1>3 DEF ServerInv, TypeInv, DoneIsClosed, ReturnedIsDrained,
     ForcedCloseReachesAll, EndedIsDelivered, Unbroken

\* The deferred calls of a handler close, untrack and count down together.
LEMMA UnwindKeeps ==
    ASSUME ServerInv, NEW c \in Conn, Running, pc[c] \in Live, Unwind(c),
           UNCHANGED <<streams, peers>>
    PROVE  ServerInv'
<1>1. /\ closed' = closed \cup {c}
      /\ conns' = conns \ {c} /\ wg' = wg - 1
      /\ pc' = [pc EXCEPT ![c] = "done"]
      /\ UNCHANGED <<ctx, run, up, down, half, heard, client, backend, said>>
  BY DEF Unwind, streams, peers
<1>2. TypeInv'
  BY <1>1 DEF ServerInv, TypeInv
<1>3. Tracked'
  <2>1. IsFiniteSet(conns) /\ c \in conns
    BY FS_Subset, ConnAssumption DEF ServerInv, TypeInv, Tracked
  <2>2. Cardinality(conns') = Cardinality(conns) - 1
    BY <1>1, <2>1, FS_RemoveElement
  <2>3. conns' = {d \in Conn : pc'[d] \in Live}
    BY <1>1 DEF ServerInv, TypeInv, Tracked, Live
  <2> QED
    BY <1>1, <2>2, <2>3 DEF ServerInv, Tracked
<1>4. DoneIsClosed'
  BY <1>1 DEF ServerInv, TypeInv, DoneIsClosed
<1>5. ReturnedIsDrained' /\ ForcedCloseReachesAll'
  BY <1>1 DEF ServerInv, TypeInv, Running, ReturnedIsDrained, ForcedCloseReachesAll, Live
<1>6. ASSUME NEW d \in Conn PROVE EndedIsDelivered(d)'
  <2>1. EndedIsDelivered(d)
    BY DEF ServerInv
  <2> QED
    BY <1>1, <2>1 DEF ServerInv, TypeInv, EndedIsDelivered, Unbroken
<1> QED
  BY <1>2, <1>3, <1>4, <1>5, <1>6 DEF ServerInv

\* A handler that goes on stays tracked.
LEMMA AdvanceKeeps ==
    ASSUME ServerInv, NEW c \in Conn, Handshake(c) \/ Routed(c) \/ Dialed(c)
    PROVE  ServerInv'
<1>1. PICK at \in Live :
          /\ Running /\ pc[c] \in Live
          /\ pc' = [pc EXCEPT ![c] = at]
          /\ UNCHANGED <<ctx, run, conns, wg, closed, half, heard, client, backend, said>>
          /\ \/ at # "proxying" /\ up' = up /\ down' = down
             \/ up' = [up EXCEPT ![c] = "copy"] /\ down' = [down EXCEPT ![c] = "copy"]
  BY DEF Handshake, Routed, Dialed, server, streams, peers, Live
<1>2. TypeInv'
  <2>1. /\ pc' \in [Conn -> {"none", "done"} \cup Live]
        /\ up' \in [Conn -> {"off", "copy", "end"}]
        /\ down' \in [Conn -> {"off", "copy", "end"}]
    <3>1. pc' \in [Conn -> {"none", "done"} \cup Live]
      BY <1>1 DEF ServerInv, TypeInv
    <3>2. /\ up' = up \/ up' = [up EXCEPT ![c] = "copy"]
          /\ down' = down \/ down' = [down EXCEPT ![c] = "copy"]
      BY <1>1
    <3>3. /\ up \in [Conn -> {"off", "copy", "end"}]
          /\ down \in [Conn -> {"off", "copy", "end"}]
      BY DEF ServerInv, TypeInv
    <3>4. up' \in [Conn -> {"off", "copy", "end"}]
      BY <3>2, <3>3
    <3>5. down' \in [Conn -> {"off", "copy", "end"}]
      BY <3>2, <3>3
    <3> QED
      BY <3>1, <3>4, <3>5
  <2> QED
    BY <1>1, <2>1 DEF ServerInv, TypeInv
<1>3. Tracked'
  BY <1>1 DEF ServerInv, TypeInv, Tracked
<1>4. DoneIsClosed'
  BY <1>1 DEF ServerInv, TypeInv, DoneIsClosed, Live
<1>5. ReturnedIsDrained' /\ ForcedCloseReachesAll'
  BY <1>1 DEF ServerInv, TypeInv, Running, ReturnedIsDrained, ForcedCloseReachesAll
<1>6. ASSUME NEW d \in Conn PROVE EndedIsDelivered(d)'
  <2>1. EndedIsDelivered(d)
    BY DEF ServerInv
  <2> QED
    BY <1>1, <2>1 DEF ServerInv, TypeInv, EndedIsDelivered, Unbroken
<1> QED
  BY <1>2, <1>3, <1>4, <1>5, <1>6 DEF ServerInv

LEMMA HandlerKeeps ==
    ASSUME ServerInv, NEW c \in Conn, HandlerStep(c)
    PROVE  ServerInv'
<1>1. CASE HandshakeFails(c) \/ NotRouted(c) \/ DialFails(c) \/ ProxyEnds(c)
  <2>1. /\ Running /\ pc[c] \in Live
        /\ Unwind(c) /\ UNCHANGED <<streams, peers>>
    BY <1>1 DEF HandshakeFails, NotRouted, DialFails, ProxyEnds, Live
  <2> QED
    BY <2>1, UnwindKeeps
<1>2. CASE Handshake(c) \/ Routed(c) \/ Dialed(c)
  BY <1>2, AdvanceKeeps
<1> QED
  BY <1>1, <1>2 DEF HandlerStep
\* A copier that moves a piece has not ended; one that ends has delivered
\* everything, unless a peer left or the shutdown closed the client.
LEMMA CopierKeeps ==
    ASSUME ServerInv, NEW c \in Conn, UpStep(c) \/ DownStep(c)
    PROVE  ServerInv'
<1>1. UNCHANGED <<ctx, run, conns, wg, pc, closed, client, backend, said>>
  BY DEF UpStep, DownStep, UpCopies, UpEnds, DownCopies, DownEnds, server, peers
<1>2. ASSUME NEW d \in Conn
      PROVE  /\ said[d] \in [{"up", "down"} -> 0..Chunks(d)]
             /\ heard[d] \in [{"up", "down"} -> 0..Chunks(d)]
             /\ Chunks(d) \in Nat
  BY ChunksAssumption DEF ServerInv, TypeInv
<1>3. /\ DOMAIN heard' = Conn
      /\ \A d \in Conn : heard'[d] \in [{"up", "down"} -> 0..Chunks(d)]
      /\ up' \in [Conn -> {"off", "copy", "end"}]
      /\ down' \in [Conn -> {"off", "copy", "end"}]
      /\ half' \subseteq Conn
  <2>1. CASE UpCopies(c)
    BY <1>2, <2>1 DEF UpCopies, ServerInv, TypeInv
  <2>2. CASE DownCopies(c)
    BY <1>2, <2>2 DEF DownCopies, ServerInv, TypeInv
  <2>3. CASE UpEnds(c) \/ DownEnds(c)
    BY <1>2, <2>3 DEF UpEnds, DownEnds, ServerInv, TypeInv
  <2> QED
    BY <2>1, <2>2, <2>3 DEF UpStep, DownStep
<1>4. TypeInv'
  BY <1>1, <1>2, <1>3 DEF ServerInv, TypeInv
<1>5. Tracked' /\ DoneIsClosed' /\ ReturnedIsDrained' /\ ForcedCloseReachesAll'
  BY <1>1 DEF ServerInv, Tracked, DoneIsClosed, ReturnedIsDrained, ForcedCloseReachesAll
<1>6. ASSUME NEW d \in Conn PROVE EndedIsDelivered(d)'
  <2>1. EndedIsDelivered(d)
    BY DEF ServerInv
  <2>2. CASE UpCopies(c)
    BY <1>1, <1>2, <2>1, <2>2 DEF UpCopies, ServerInv, TypeInv, EndedIsDelivered, Unbroken
  <2>3. CASE DownCopies(c)
    BY <1>1, <1>2, <2>1, <2>3 DEF DownCopies, ServerInv, TypeInv, EndedIsDelivered, Unbroken
  <2>4. CASE UpEnds(c)
    BY <1>1, <2>1, <2>4 DEF UpEnds, upEnds, clientLost, ServerInv, TypeInv, EndedIsDelivered,
       Unbroken
  <2>5. CASE DownEnds(c)
    BY <1>1, <2>1, <2>5 DEF DownEnds, clientLost, ServerInv, TypeInv, EndedIsDelivered, Unbroken
  <2> QED
    BY <2>2, <2>3, <2>4, <2>5 DEF UpStep, DownStep
<1> QED
  BY <1>4, <1>5, <1>6 DEF ServerInv

\* A peer sends only while its side is open, that is, before the copier that
\* reads from it has ended.
LEMMA PeerKeeps ==
    ASSUME ServerInv, NEW c \in Conn, PeerStep(c)
    PROVE  ServerInv'
<1>1. UNCHANGED <<ctx, run, conns, wg, pc, closed, up, down, half, heard>>
  BY DEF PeerStep, ClientSends, ClientFinishes, ClientLeaves, BackendSends, BackendFinishes,
     BackendLeaves, server, streams
<1>2. ASSUME NEW d \in Conn
      PROVE  /\ said[d] \in [{"up", "down"} -> 0..Chunks(d)]
             /\ heard[d] \in [{"up", "down"} -> 0..Chunks(d)]
             /\ Chunks(d) \in Nat
  BY ChunksAssumption DEF ServerInv, TypeInv
<1>3. /\ client \in [Conn -> {"open", "fin", "gone"}]
      /\ backend \in [Conn -> {"open", "fin", "gone"}]
      /\ DOMAIN said = Conn
  BY DEF ServerInv, TypeInv
<1>4. /\ client' \in [Conn -> {"open", "fin", "gone"}]
      /\ backend' \in [Conn -> {"open", "fin", "gone"}]
      /\ DOMAIN said' = Conn
      /\ \A d \in Conn : said'[d] \in [{"up", "down"} -> 0..Chunks(d)]
  <2>1. CASE ClientSends(c) \/ BackendSends(c)
    BY <1>2, <1>3, <2>1 DEF ClientSends, BackendSends, Say
  <2>2. CASE ClientFinishes(c) \/ ClientLeaves(c) \/ BackendFinishes(c) \/ BackendLeaves(c)
    BY <1>2, <1>3, <2>2 DEF ClientFinishes, ClientLeaves, BackendFinishes, BackendLeaves
  <2> QED
    BY <2>1, <2>2 DEF PeerStep
<1>5. TypeInv'
  BY <1>1, <1>2, <1>4 DEF ServerInv, TypeInv
<1>6. Tracked' /\ DoneIsClosed' /\ ReturnedIsDrained' /\ ForcedCloseReachesAll'
  BY <1>1 DEF ServerInv, Tracked, DoneIsClosed, ReturnedIsDrained, ForcedCloseReachesAll
<1>7. ASSUME NEW d \in Conn PROVE EndedIsDelivered(d)'
  <2>1. EndedIsDelivered(d)
    BY DEF ServerInv
  <2>2. CASE ClientSends(c) \/ BackendSends(c)
    BY <1>1, <1>2, <1>3, <2>1, <2>2 DEF ClientSends, BackendSends, Say, EndedIsDelivered,
       Unbroken
  <2>3. CASE ClientFinishes(c) \/ ClientLeaves(c)
    BY <1>1, <1>3, <2>1, <2>3 DEF ClientFinishes, ClientLeaves, EndedIsDelivered, Unbroken
  <2>4. CASE BackendFinishes(c) \/ BackendLeaves(c)
    BY <1>1, <1>3, <2>1, <2>4 DEF BackendFinishes, BackendLeaves, EndedIsDelivered, Unbroken
  <2> QED
    BY <2>2, <2>3, <2>4 DEF PeerStep
<1> QED
  BY <1>5, <1>6, <1>7 DEF ServerInv

LEMMA ServerNext == ServerInv /\ [Next]_vars => ServerInv'
<1> SUFFICES ASSUME ServerInv, [Next]_vars PROVE ServerInv'
  OBVIOUS
<1>1. CASE UNCHANGED vars
  BY <1>1 DEF vars, server, streams, peers, ServerInv, TypeInv, Tracked, DoneIsClosed,
     ReturnedIsDrained, ForcedCloseReachesAll, EndedIsDelivered, Unbroken
<1>2. CASE Signal \/ AcceptTemporaryError \/ AcceptFails \/ RunStep
  BY <1>2, RunKeeps
<1>3. CASE \E c \in Conn : \/ Accept(c) \/ HandlerStep(c) \/ UpStep(c) \/ DownStep(c)
                           \/ PeerStep(c)
  BY <1>3, AcceptKeeps, HandlerKeeps, CopierKeeps, PeerKeeps
<1> QED
  BY <1>1, <1>2, <1>3 DEF Next

-----------------------------------------------------------------------------
(* The theorems *)

LEMMA ServerAlways == Spec => []ServerInv
BY ServerInit, ServerNext, PTL DEF Spec

\* The state of the server has its type; in particular connWG.Done is never
\* called once too often, which would panic.
THEOREM TypeCorrect == Spec => []TypeOK
BY ServerAlways, CounterBounded, PTL

\* Run returns nil only when no handler is left and every client was closed,
\* whether the wait was graceful or came after the forced close.
THEOREM ReturnedIsDrainedHolds == Spec => []ReturnedIsDrained
<1>1. ServerInv => ReturnedIsDrained
  BY DEF ServerInv
<1> QED
  BY <1>1, ServerAlways, PTL

\* closeAllConnections misses no handler: whoever is still at work after the
\* shutdown timeout has its client socket closed.
THEOREM ForcedCloseReachesAllHolds == Spec => []ForcedCloseReachesAll
<1>1. ServerInv => ForcedCloseReachesAll
  BY DEF ServerInv
<1> QED
  BY <1>1, ServerAlways, PTL

\* proxyStreams waits for both directions: a routed connection that nobody broke
\* ends with everything delivered.
THEOREM NothingIsCutOffHolds == Spec => NothingIsCutOff
<1> DEFINE Delivers ==
        \A c \in Conn :
            /\ pc[c] = "proxying" /\ pc'[c] = "done"
            /\ c \notin closed /\ client[c] # "gone" /\ backend[c] # "gone"
            => heard[c] = said[c]
<1>1. ASSUME ServerInv, [Next]_vars PROVE [Delivers]_vars
  <2> SUFFICES ASSUME NEW c \in Conn, pc[c] = "proxying", pc'[c] = "done", Unbroken(c)
               PROVE  heard[c] = said[c]
    BY DEF Unbroken
  <2>1. up[c] = "end" /\ down[c] = "end"
    <3>1. pc \in [Conn -> {"none", "done"} \cup Live]
      BY <1>1 DEF ServerInv, TypeInv
    <3>2. pc' # pc
      BY <3>1
    <3>3. PICK d \in Conn : Accept(d) \/ HandlerStep(d)
      BY <1>1, <3>2 DEF Next, vars, server, Signal, AcceptTemporaryError, AcceptFails, RunStep,
         Awake, ListenerClosed, GracefulShutdown, ShutdownTimeout, Drained, UpStep, DownStep,
         UpCopies, UpEnds, DownCopies, DownEnds, PeerStep, ClientSends, ClientFinishes,
         ClientLeaves, BackendSends, BackendFinishes, BackendLeaves
    <3>4. ProxyEnds(c)
      BY <3>1, <3>3 DEF Accept, HandlerStep, Routed, NotRouted, Dialed, DialFails, Handshake,
         HandshakeFails, ProxyEnds, Unwind, Live
    <3> QED
      BY <3>4 DEF ProxyEnds
  <2>2. heard[c]["up"] = said[c]["up"] /\ heard[c]["down"] = said[c]["down"]
    BY <1>1, <2>1 DEF ServerInv, EndedIsDelivered
  <2>3. /\ said[c] \in [{"up", "down"} -> 0..Chunks(c)]
        /\ heard[c] \in [{"up", "down"} -> 0..Chunks(c)]
    BY <1>1 DEF ServerInv, TypeInv
  <2> QED
    BY <2>2, <2>3
<1> QED
  BY <1>1, ServerAlways, PTL DEF Spec, NothingIsCutOff
=============================================================================

----------------------------- MODULE NetNSDialer -----------------------------
(***************************************************************************)
(* NetNSDialer.DialContext (internal/forwarder/netns_dialer_linux.go): a   *)
(* goroutine pins its OS thread, moves the thread into the VM's network    *)
(* namespace, dials there and moves the thread back.                       *)
(*                                                                         *)
(* The network namespace belongs to a thread.  The way back is read from   *)
(* /proc/self/ns/net, which is the namespace of the process's first        *)
(* thread, not of the calling one (that is /proc/thread-self).  The Go     *)
(* runtime puts a goroutine on any thread no other goroutine has locked,   *)
(* and starts new threads, which begin in the namespace of the one that    *)
(* started them.                                                           *)
(***************************************************************************)
EXTENDS Naturals

CONSTANTS Dial,     \* goroutines in DialContext
          Thread,   \* the OS threads the process may have
          First,    \* the first of them
          NetNS,    \* the VMs' network namespaces
          Host,     \* the namespace the forwarder was started in
          None      \* no thread, no namespace

ASSUME NetNSAssumption ==
    /\ First \in Thread /\ Host \notin NetNS
    /\ None \notin Thread \cup NetNS \cup {Host}

VARIABLES
    ns,         \* per thread: its namespace, None while it does not exist
    pc,         \* per dial
    thread,     \* per dial: the thread it is locked to, or None
    origin,     \* per dial: the namespace it will return to
    target,     \* per dial: the VM's namespace
    socket,     \* per dial: the namespace its socket was made in
    stranded    \* history: whether a way back has failed

vars == <<ns, pc, thread, origin, target, socket, stranded>>

Space == NetNS \cup {Host}

TypeOK ==
    /\ ns \in [Thread -> Space \cup {None}]
    /\ pc \in [Dial -> {"idle", "origin", "target", "enter", "dial", "return"}]
    /\ thread \in [Dial -> Thread \cup {None}]
    /\ origin \in [Dial -> Space \cup {None}]
    /\ target \in [Dial -> NetNS \cup {None}]
    /\ socket \in [Dial -> Space \cup {None}]
    /\ stranded \in BOOLEAN
    /\ \A g \in Dial : pc[g] = "idle" <=> thread[g] = None

Init ==
    /\ ns = [t \in Thread |-> IF t = First THEN Host ELSE None]
    /\ pc = [g \in Dial |-> "idle"]
    /\ thread = [g \in Dial |-> None]
    /\ origin = [g \in Dial |-> None]
    /\ target = [g \in Dial |-> None]
    /\ socket = [g \in Dial |-> None]
    /\ stranded = FALSE

-----------------------------------------------------------------------------
(* The runtime *)

locked(t) == \E g \in Dial : thread[g] = t

\* a new thread, started by one that is not locked: for a locked one the
\* runtime has another do it
NewThread(t) ==
    /\ ns[t] = None
    /\ \E s \in Thread : /\ ns[s] # None /\ ~locked(s)
                         /\ ns' = [ns EXCEPT ![t] = ns[s]]
    /\ UNCHANGED <<pc, thread, origin, target, socket, stranded>>

-----------------------------------------------------------------------------
(* DialContext *)

Goto(g, step) == pc' = [pc EXCEPT ![g] = step]

\* the deferred calls that remain once the thread need not be moved back
UnlockOSThread(g) ==
    /\ Goto(g, "idle")
    /\ thread' = [thread EXCEPT ![g] = None]
    /\ origin' = [origin EXCEPT ![g] = None]
    /\ target' = [target EXCEPT ![g] = None]
    /\ socket' = [socket EXCEPT ![g] = None]

\* Mutant: the goroutine is not locked to a thread of its own.
LockOSThread_Mutant(g) ==
    /\ pc[g] = "idle"
    /\ \E t \in Thread : ns[t] # None /\ thread' = [thread EXCEPT ![g] = t]
    /\ \E n \in NetNS : target' = [target EXCEPT ![g] = n]
    /\ Goto(g, "origin")
    /\ UNCHANGED <<ns, origin, socket, stranded>>

\* called with a netns name (an empty one is refused before anything is done)
LockOSThread(g) ==
    /\ pc[g] = "idle"
    /\ \E t \in Thread : /\ ns[t] # None /\ ~locked(t)
                         /\ thread' = [thread EXCEPT ![g] = t]
    /\ \E n \in NetNS : target' = [target EXCEPT ![g] = n]
    /\ Goto(g, "origin")
    /\ UNCHANGED <<ns, origin, socket, stranded>>

\* os.Open("/proc/self/ns/net")
OpenOrigin(g) ==
    /\ pc[g] = "origin"
    /\ origin' = [origin EXCEPT ![g] = ns[First]]
    /\ Goto(g, "target")
    /\ UNCHANGED <<ns, thread, target, socket, stranded>>

\* openTargetNS finds the name under one of the roots
OpenTarget(g) ==
    /\ pc[g] = "target"
    /\ Goto(g, "enter")
    /\ UNCHANGED <<ns, thread, origin, target, socket, stranded>>

\* one of the two files, or the move, fails; the thread was not moved
Refused(g) ==
    /\ pc[g] \in {"origin", "target", "enter"}
    /\ UnlockOSThread(g)
    /\ UNCHANGED <<ns, stranded>>

EnterTarget(g) ==
    /\ pc[g] = "enter"
    /\ ns' = [ns EXCEPT ![thread[g]] = target[g]]
    /\ Goto(g, "dial")
    /\ UNCHANGED <<thread, origin, target, socket, stranded>>

\* dialer.DialContext; the address is an IP literal, so that the socket is
\* made by this goroutine.  It connects, fails or times out.
DialContext(g) ==
    /\ pc[g] = "dial"
    /\ socket' = [socket EXCEPT ![g] = ns[thread[g]]]
    /\ Goto(g, "return")
    /\ UNCHANGED <<ns, thread, origin, target, stranded>>

\* Mutant: no way back.
Return_Mutant(g) ==
    /\ pc[g] = "return"
    /\ UnlockOSThread(g)
    /\ UNCHANGED <<ns, stranded>>

\* the deferred setns to the origin
Return(g) ==
    /\ pc[g] = "return"
    /\ ns' = [ns EXCEPT ![thread[g]] = origin[g]]
    /\ UnlockOSThread(g)
    /\ UNCHANGED stranded

\* it fails, which is ignored
ReturnFails(g) ==
    /\ pc[g] = "return"
    /\ stranded' = TRUE
    /\ UnlockOSThread(g)
    /\ UNCHANGED ns

Next ==
    \/ \E t \in Thread : NewThread(t)
    \/ \E g \in Dial : \/ LockOSThread(g) \/ OpenOrigin(g) \/ OpenTarget(g)
                       \/ Refused(g) \/ EnterTarget(g) \/ DialContext(g)
                       \/ Return(g) \/ ReturnFails(g)

Spec == Init /\ [][Next]_vars

-----------------------------------------------------------------------------
(* Properties *)

\* A backend connection is made in the namespace of the VM it is for, however
\* many dials share the threads and wherever those were left by others: no
\* request reaches the guest address of another VM.
DialsInTarget == \A g \in Dial : socket[g] \in {None, target[g]}

\* The first thread, whose namespace is every dial's way back, is in the host's
\* namespace whenever it is not itself in the middle of a dial, as long as no
\* way back has failed.  The other threads are not so lucky: one whose dial read
\* its way back while the first thread was in a VM's namespace ends up there.
FirstThreadReturns == ~stranded /\ ~locked(First) => ns[First] = Host

=============================================================================

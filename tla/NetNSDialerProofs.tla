-------------------------- MODULE NetNSDialerProofs --------------------------
(***************************************************************************)
(* Proofs about the namespace dialer, for any number of dials, threads and *)
(* namespaces.                                                             *)
(***************************************************************************)
EXTENDS NetNSDialer, TLAPS

\* LockOSThread: a thread has at most one dial locked to it
OwnThread ==
    \A g, h \in Dial : thread[g] # None /\ thread[g] = thread[h] => g = h

\* a dial's thread exists and, from setns to the way back, is in the target
Entered ==
    \A g \in Dial :
        /\ pc[g] # "idle" => target[g] \in NetNS /\ ns[thread[g]] # None
        /\ pc[g] \in {"dial", "return"} => ns[thread[g]] = target[g]
        /\ pc[g] \in {"target", "enter", "dial", "return"} => origin[g] \in Space
        /\ pc[g] # "return" => socket[g] = None

\* the inductive invariant behind DialsInTarget
DialInv ==
    /\ TypeOK
    /\ ns[First] # None
    /\ OwnThread
    /\ Entered
    /\ DialsInTarget

\* DialContext's invariant holds when the forwarder starts.
LEMMA DialInit == Init => DialInv
BY NetNSAssumption DEF Init, DialInv, TypeOK, OwnThread, Entered, DialsInTarget, Space

\* No step of a dial or of the runtime disturbs it: setns moves the caller's own
\* thread only, and no other dial is locked to that thread.
LEMMA DialNext == DialInv /\ [Next]_vars => DialInv'
<1> SUFFICES ASSUME DialInv, [Next]_vars PROVE DialInv'
  OBVIOUS
<1> USE NetNSAssumption DEF DialInv, TypeOK, OwnThread, Entered, DialsInTarget, Space
<1>1. ASSUME NEW t \in Thread, NewThread(t) PROVE DialInv'
  BY <1>1 DEF NewThread
<1>2. ASSUME NEW g \in Dial, LockOSThread(g) PROVE DialInv'
  BY <1>2 DEF LockOSThread, locked, Goto
<1>3. ASSUME NEW g \in Dial, OpenOrigin(g) PROVE DialInv'
  BY <1>3 DEF OpenOrigin, Goto
<1>4. ASSUME NEW g \in Dial, OpenTarget(g) PROVE DialInv'
  BY <1>4 DEF OpenTarget, Goto
<1>5. ASSUME NEW g \in Dial, Refused(g) PROVE DialInv'
  BY <1>5 DEF Refused, UnlockOSThread, Goto
<1>6. ASSUME NEW g \in Dial, EnterTarget(g) PROVE DialInv'
  BY <1>6 DEF EnterTarget, Goto
<1>7. ASSUME NEW g \in Dial, DialContext(g) PROVE DialInv'
  BY <1>7 DEF DialContext, Goto
<1>8. ASSUME NEW g \in Dial, Return(g) PROVE DialInv'
  BY <1>8 DEF Return, UnlockOSThread, Goto
<1>9. ASSUME NEW g \in Dial, ReturnFails(g) PROVE DialInv'
  BY <1>9 DEF ReturnFails, UnlockOSThread, Goto
<1>10. CASE UNCHANGED vars
  BY <1>10 DEF vars
<1> QED
  BY <1>1, <1>2, <1>3, <1>4, <1>5, <1>6, <1>7, <1>8, <1>9, <1>10 DEF Next

\* DialContext makes every socket in the namespace of the VM it was asked for,
\* whichever threads the runtime uses and wherever other dials left them, and
\* even when a way back has failed.
THEOREM DialsInTargetHolds == Spec => []DialsInTarget
<1>1. DialInv => DialsInTarget
  BY DEF DialInv
<1> QED
  BY DialInit, DialNext, <1>1, PTL DEF Spec

\* what the way back of a dial on the first thread leads to, and where that
\* thread is before such a dial has moved it
FirstInv ==
    ~stranded =>
        /\ \A g \in Dial : thread[g] = First =>
               /\ pc[g] \in {"target", "enter", "dial", "return"} => origin[g] = Host
               /\ pc[g] \in {"origin", "target", "enter"} => ns[First] = Host
        /\ FirstThreadReturns

\* The way back of a dial on the first thread is read from that thread itself,
\* so that it leads to the host's namespace.
LEMMA FirstNext == DialInv /\ FirstInv /\ [Next]_vars => FirstInv'
<1> SUFFICES ASSUME DialInv, FirstInv, [Next]_vars, ~stranded' PROVE FirstInv'
  BY DEF FirstInv
<1> USE NetNSAssumption DEF DialInv, TypeOK, OwnThread, Entered, FirstInv,
        FirstThreadReturns, locked
<1>1. ASSUME NEW t \in Thread, NewThread(t) PROVE FirstInv'
  BY <1>1 DEF NewThread
<1>2. ASSUME NEW g \in Dial, LockOSThread(g) PROVE FirstInv'
  BY <1>2 DEF LockOSThread, Goto
<1>3. ASSUME NEW g \in Dial, OpenOrigin(g) PROVE FirstInv'
  BY <1>3 DEF OpenOrigin, Goto
<1>4. ASSUME NEW g \in Dial, OpenTarget(g) PROVE FirstInv'
  BY <1>4 DEF OpenTarget, Goto
<1>5. ASSUME NEW g \in Dial, Refused(g) PROVE FirstInv'
  BY <1>5 DEF Refused, UnlockOSThread, Goto
<1>6. ASSUME NEW g \in Dial, EnterTarget(g) PROVE FirstInv'
  BY <1>6 DEF EnterTarget, Goto
<1>7. ASSUME NEW g \in Dial, DialContext(g) PROVE FirstInv'
  BY <1>7 DEF DialContext, Goto
<1>8. ASSUME NEW g \in Dial, Return(g) PROVE FirstInv'
  BY <1>8 DEF Return, UnlockOSThread, Goto
<1>9. CASE UNCHANGED vars
  BY <1>9 DEF vars
<1> QED
  BY <1>1, <1>2, <1>3, <1>4, <1>5, <1>6, <1>7, <1>8, <1>9 DEF Next, ReturnFails

\* The first thread of the forwarder, whose namespace DialContext takes for its
\* own, is in the host's namespace whenever no dial is locked to it.
THEOREM FirstThreadReturnsHolds == Spec => []FirstThreadReturns
<1>1. Init => FirstInv
  BY NetNSAssumption DEF Init, FirstInv, FirstThreadReturns
<1>2. FirstInv => FirstThreadReturns
  BY DEF FirstInv, FirstThreadReturns
<1> QED
  BY DialInit, DialNext, FirstNext, <1>1, <1>2, PTL DEF Spec
=============================================================================

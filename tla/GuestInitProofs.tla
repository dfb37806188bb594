--------------------------- MODULE GuestInitProofs ---------------------------
(***************************************************************************)
(* Theorems about the guest's init, for every number of children and exit  *)
(* statuses and every capacity of the signal channel.                      *)
(***************************************************************************)
EXTENDS GuestInit, TLAPS

Booting == {"mounts", "load", "setup", "user", "start"}

\* The service exists from startMainProcess on, and runs or waits to be reaped
\* as long as init has not exited.
MainFollowsPC ==
    /\ pc \in Booting => main = "none"
    /\ pc \in {"notify", "reap", "select"} => main \in {"running", "zombie"}

PCTyped == pc \in Booting \cup {"notify", "reap", "select", "done"}

InitInv == /\ PCTyped
           /\ MainFollowsPC
           /\ ExitTellsTheService

\* A guest that is switched on satisfies the invariant.
LEMMA InitInvInit == Init => InitInv
BY DEF Init, InitInv, PCTyped, Booting, MainFollowsPC,
   ExitTellsTheService

\* The boot keeps it: every way out before the service runs exits with 1.
LEMMA InitInvBoot == InitInv /\ Boot => InitInv'
<1> SUFFICES ASSUME InitInv, Boot PROVE InitInv'
  OBVIOUS
<1> USE DEF InitInv, PCTyped, Booting, MainFollowsPC,
            ExitTellsTheService, Exit, bootVars, childVars
<1>1. CASE MountsFail \/ LoadFails \/ SetupFails
  BY <1>1 DEF MountsFail, LoadFails, SetupFails
<1>2. CASE setupBaseMounts
  BY <1>2 DEF setupBaseMounts
<1>3. CASE loadStartSpec
  BY <1>3 DEF loadStartSpec
<1>4. CASE SetupDone
  BY <1>4 DEF SetupDone
<1>5. CASE resolveUser
  BY <1>5 DEF resolveUser
<1>6. CASE startMainProcess
  BY <1>6 DEF startMainProcess
<1>7. CASE StartFails
  BY <1>7 DEF StartFails
<1>8. CASE Notify
  BY <1>8 DEF Notify
<1> QED
  BY <1>1, <1>2, <1>3, <1>4, <1>5, <1>6, <1>7, <1>8 DEF Boot

\* So does the loop: main is reaped only in the step that exits.
LEMMA InitInvSupervise == InitInv /\ Supervise => InitInv'
<1> SUFFICES ASSUME InitInv, Supervise PROVE InitInv'
  OBVIOUS
<1> USE DEF InitInv, PCTyped, Booting, MainFollowsPC,
            ExitTellsTheService, Exit, bootVars, childVars
<1>1. CASE ReapMain
  BY <1>1 DEF ReapMain
<1>2. CASE \E c \in Child : ReapChild(c)
  BY <1>2 DEF ReapChild
<1>3. CASE NothingToReap \/ ReceiveChild \/ forwardSignal \/ Tick
  BY <1>3 DEF NothingToReap, ReceiveChild, forwardSignal, Tick
<1>4. CASE ReapFails
  BY <1>4 DEF ReapFails
<1> QED
  BY <1>1, <1>2, <1>3, <1>4 DEF Supervise

\* And what the kernel, the runtime and the processes do.
LEMMA InitInvOthers == InitInv /\ (Signals \/ Processes) => InitInv'
<1> SUFFICES ASSUME InitInv, Signals \/ Processes PROVE InitInv'
  OBVIOUS
<1> USE DEF InitInv, PCTyped, Booting, MainFollowsPC,
            ExitTellsTheService, Exit, bootVars, childVars, alive, notified
<1>1. CASE \E s \in {"CHLD", "TERM"} : Unnotified(s)
  BY <1>1 DEF Unnotified
<1>2. CASE \E s \in {"CHLD", "TERM"} : Enqueue(s) \/ Drop(s)
  BY <1>2 DEF Enqueue, Drop
<1>3. CASE MainEnds
  BY <1>3 DEF MainEnds
<1>4. CASE SendTerm \/ \E c \in Child : Adopt(c) \/ ChildEnds(c)
  BY <1>4 DEF SendTerm, Adopt, ChildEnds
<1> QED
  BY <1>1, <1>2, <1>3, <1>4 DEF Signals, Processes

\* The invariant holds at all times.
LEMMA InitInvHolds == Spec => []InitInv
<1>1. InitInv /\ [Next]_vars => InitInv'
  <2>1. InitInv /\ UNCHANGED vars => InitInv'
    BY DEF InitInv, PCTyped, MainFollowsPC, ExitTellsTheService,
       vars, bootVars, childVars
  <2> QED
    BY <2>1, InitInvBoot, InitInvSupervise, InitInvOthers DEF Next
<1> QED
  BY <1>1, InitInvInit, PTL DEF Spec

\* Process 1 exits with the status of the service it has reaped, or with a
\* failure, whatever fails during the boot and whenever signals arrive.
THEOREM ExitTellsTheServiceHolds == Spec => []ExitTellsTheService
<1>1. InitInv => ExitTellsTheService
  BY DEF InitInv
<1> QED
  BY <1>1, InitInvHolds, PTL

\* A signal is forwarded only while the service's pid is its own.
THEOREM PIDIsOursHolds == Spec => []PIDIsOurs
<1>1. InitInv => PIDIsOurs
  BY DEF InitInv, MainFollowsPC, PIDIsOurs, notified
<1> QED
  BY <1>1, InitInvHolds, PTL

=============================================================================

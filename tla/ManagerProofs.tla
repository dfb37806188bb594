---------------------------- MODULE ManagerProofs ----------------------------
(***************************************************************************)
(* Theorems about mergend's operations, for every number of VMs, requests, *)
(* ports and addresses and for every set of faults: what the allocator     *)
(* promises CreateVM, that the state has its type, that the lock excludes, *)
(* that a start which succeeds has started the VM; and, of Allocate, that  *)
(* its loops compute the closed forms the manager's model calls.           *)
(***************************************************************************)
EXTENDS Manager, PortAllocation, WellFoundedInduction, TLAPS

-----------------------------------------------------------------------------
(* The allocator *)

\* The least element of a non-empty set of naturals is one of its elements.
LEMMA MinOfNaturals ==
    ASSUME NEW S, S \subseteq Nat, S # {}
    PROVE  /\ Min(S) \in S
           /\ \A n \in S : Min(S) <= n
<1> DEFINE less == {ss \in Nat \X Nat : ss[1] < ss[2]}
<1>1. IsWellFoundedOn(less, Nat)
  BY NatLessThanWellFounded DEF OpToRel
<1> HIDE DEF less
<1>2. PICK x \in S : \A y \in S : <<y, x>> \notin less
  BY <1>1, WFMin
<1>3. \A m, n \in Nat : m < n => <<m, n>> \in less
  BY Zenon DEF less
<1>4. \A y \in S : ~(y < x)
  BY <1>2, <1>3
<1>5. \A y \in S : x <= y
  BY <1>4
<1> QED
  BY <1>5 DEF Min

\* nextFreePort returns 0 only when the publish range is full; any other
\* result lies in the range, is free, and no free port lies below it.
LEMMA NextFreePortIsFree ==
    ASSUME NEW taken, NEW held
    PROVE  LET port == nextFreePort(taken, held)
               free == (PortStart..PortEnd) \ (taken \cup held)
           IN  /\ port \in Nat
               /\ port = 0 <=> free = {}
               /\ port # 0 => /\ port \in free
                              /\ \A q \in free : port <= q
<1> DEFINE free == (PortStart..PortEnd) \ (taken \cup held)
<1>1. free \subseteq Nat \ {0}
  BY PortAssumption
<1>2. CASE free = {}
  BY <1>2 DEF nextFreePort
<1>3. CASE free # {}
  <2>1. nextFreePort(taken, held) = Min(free)
    BY <1>3 DEF nextFreePort
  <2>2. Min(free) \in free /\ \A q \in free : Min(free) <= q
    BY <1>1, <1>3, MinOfNaturals
  <2> QED
    BY <1>1, <1>3, <2>1, <2>2
<1> QED
  BY <1>2, <1>3

\* allocateGuestIP hands out the lowest address that no VM it was shown
\* has, never the network's first two hosts.
LEMMA GuestIPIsFree ==
    ASSUME NEW bits, NEW taken, allocateGuestIP(bits, taken).ok
    PROVE  /\ allocateGuestIP(bits, taken).ip \in Nat
           /\ allocateGuestIP(bits, taken).ip \in guestHosts(bits) \ taken
           /\ \A n \in guestHosts(bits) \ taken : allocateGuestIP(bits, taken).ip <= n
<1> DEFINE free == guestHosts(bits) \ taken
<1>1. free \subseteq Nat
  BY DEF guestHosts
<1>2. free # {} /\ allocateGuestIP(bits, taken).ip = Min(free)
  BY DEF allocateGuestIP
<1>3. Min(free) \in free /\ \A n \in free : Min(free) <= n
  BY <1>1, <1>2, MinOfNaturals
<1> QED
  BY <1>1, <1>2, <1>3

\* When Allocate succeeds, the metadata it plans shares neither the guest
\* address nor a host port with any metadata it was shown.
THEOREM AllocateAvoidsExisting ==
    ASSUME NEW found, NEW asked, Allocate(found, asked).ok
    PROVE  LET new == Allocate(found, asked).meta
           IN  /\ new \in [ip : Nat, ports : SUBSET Nat]
               /\ \A m \in found : m.ip # new.ip /\ m.ports \cap new.ports = {}
<1> DEFINE guest == allocateGuestIP(HostBits, usedIPs(found))
           ports == allocatePorts(usedPorts(found), asked)
           hosts == {b.host : b \in ports.bindings}
<1>1. guest.ok /\ ports.ok
  BY DEF Allocate
<1>2. Allocate(found, asked).meta = [ip |-> guest.ip, ports |-> hosts]
  BY DEF Allocate
<1>3. guest.ip \in Nat /\ guest.ip \notin usedIPs(found)
  BY <1>1, GuestIPIsFree
<1>4. \A h \in hosts : h \in Nat /\ h \notin usedPorts(found)
  <2> DEFINE host == hostPorts(usedPorts(found), asked)
  <2> HIDE DEF host
  <2>1. \A i \in 1..Len(asked) : host[i] \in Nat /\ host[i] \notin usedPorts(found)
    BY <1>1 DEF allocatePorts, host
  <2>2. ports.bindings = {[guest    |-> asked[i].guest,
                           host     |-> host[i],
                           protocol |-> normalProtocol(asked[i].protocol)]
                             : i \in 1..Len(asked)}
    BY DEF allocatePorts, host
  <2>3. \A b \in ports.bindings : \E i \in 1..Len(asked) : b.host = host[i]
    BY <2>2
  <2> QED
    BY <2>1, <2>3
<1>5. \A m \in found : m.ip # guest.ip /\ m.ports \cap hosts = {}
  <2> TAKE m \in found
  <2>1. m.ip \in usedIPs(found)
    BY DEF usedIPs
  <2>2. m.ports \subseteq usedPorts(found)
    BY DEF usedPorts
  <2> HIDE DEF guest, hosts
  <2> QED
    BY <1>3, <1>4, <2>1, <2>2
<1> HIDE DEF guest, hosts
<1>6. [ip |-> guest.ip, ports |-> hosts] \in [ip : Nat, ports : SUBSET Nat]
  BY <1>3, <1>4
<1> QED
  BY <1>2, <1>5, <1>6

-----------------------------------------------------------------------------
(* Type correctness *)

\* A handler that serves a request has a VM id.
Busy == \A p \in Handler : pc[p] # "idle" => vm[p] \in VM

TypeInv == TypeOK /\ Busy

\* A freshly installed mergend satisfies the type invariant.
LEMMA TypeInit == Init => TypeInv
BY NoneAssumption DEF Init, StoreInit, LockInit, UnitInit, TypeInv, TypeOK, Busy, Status,
   UnitState, JobState

\* The reply of a handler keeps the types.
LEMMA AnswerType ==
    ASSUME TypeInv, NEW p \in Handler, pc[p] # "idle", NEW status \in Status,
           Answer(p, status), UNCHANGED storeVars,
           lock' \in [VM -> Handler \cup {None}]
    PROVE  TypeInv'
BY DEF TypeInv, TypeOK, Busy, Answer, Goto, storeVars, unitVars, Status

\* A handler that returns, with or without a lock to release, leaves every
\* variable in its type.
LEMMA ReturnType ==
    ASSUME TypeInv, NEW p \in Handler, pc[p] # "idle", NEW status \in Status,
           Return(p, status), UNCHANGED <<unitVars, history>>,
           meta' \in [VM -> Meta \cup {NoMeta}],
           entries' \in [VM -> SUBSET Entry]
    PROVE  TypeInv'
BY DEF TypeInv, TypeOK, Busy, Return, Goto, storeVars, unitVars, request, planning,
       history, Critical

\* So does what follows a systemctl command.
LEMMA AfterSystemctlType ==
    ASSUME TypeInv, NEW p \in Handler, pc[p] # "idle", NEW status \in Status,
           AfterSystemctl(p, status), UNCHANGED <<storeVars, history>>,
           unit' \in [VM -> UnitState],
           job' \in [VM -> JobState]
    PROVE  TypeInv'
BY DEF TypeInv, TypeOK, Busy, AfterSystemctl, Return, Goto, storeVars, request, planning,
       history, Critical

\* The handlers answer success with a status the API knows.
LEMMA SucceededStatus == ASSUME NEW p PROVE Succeeded(p) \in Status
BY DEF Succeeded, Status

\* The steps of StartVM and StopVM around systemctl keep the types.
LEMMA TypeSystemctl ==
    ASSUME TypeInv, NEW p \in Handler, SystemctlStep(p)
    PROVE  TypeInv'
<1>1. unit \in [VM -> UnitState] /\ job \in [VM -> JobState]
  BY DEF TypeInv, TypeOK
<1>2. CASE IsActiveSkips(p)
  BY <1>1, <1>2, SucceededStatus, AfterSystemctlType DEF IsActiveSkips, unitVars
<1>3. CASE IsActiveActs(p)
  BY <1>3 DEF IsActiveActs, TypeInv, TypeOK, Busy, Goto, storeVars, unitVars, request,
     planning, history, Critical
<1>4. CASE IsActiveKilled(p)
  <2>1. CASE AfterSystemctl(p, Succeeded(p))
    BY <1>1, <1>4, <2>1, SucceededStatus, AfterSystemctlType DEF IsActiveKilled, unitVars
  <2>2. CASE ~AfterSystemctl(p, Succeeded(p))
    BY <1>4, <2>2 DEF IsActiveKilled, TypeInv, TypeOK, Busy, Goto, storeVars, unitVars,
       request, planning, history, Critical
  <2> QED
    BY <2>1, <2>2
<1>5. CASE SystemctlUnavailable(p)
  BY <1>1, <1>5, AfterSystemctlType DEF SystemctlUnavailable, unitVars, Status
<1>6. CASE SendJob(p)
  BY <1>6 DEF SendJob, startJob, stopJob, TypeInv, TypeOK, Busy, Goto, storeVars,
     request, planning, Critical, UnitState, JobState
<1>7. CASE JobEnds(p)
  <2>1. unit' \in [VM -> UnitState] /\ job' \in [VM -> JobState]
    BY <1>1, <1>7 DEF JobEnds, collectJob, JobState
  <2>2. PICK status \in Status : AfterSystemctl(p, status)
    BY <1>7, SucceededStatus DEF JobEnds, Status
  <2> QED
    BY <1>7, <2>1, <2>2, AfterSystemctlType DEF JobEnds
<1>8. CASE SystemctlKilled(p)
  BY <1>1, <1>8, AfterSystemctlType DEF SystemctlKilled, unitVars, Status
<1> QED
  BY <1>2, <1>3, <1>4, <1>5, <1>6, <1>7, <1>8 DEF SystemctlStep

\* The steps of the store's DeleteVM keep the types.
LEMMA TypeDelete ==
    ASSUME TypeInv, NEW p \in Handler, DeleteStep(p)
    PROVE  TypeInv'
<1>1. meta \in [VM -> Meta \cup {NoMeta}] /\ entries \in [VM -> SUBSET Entry]
  BY DEF TypeInv, TypeOK
<1>2. CASE ReadMeta(p)
  <2>1. CASE Return(p, 404)
    BY <1>1, <1>2, <2>1, ReturnType DEF ReadMeta, storeVars, Status
  <2>2. CASE ~Return(p, 404)
    BY <1>2, <2>2 DEF ReadMeta, TypeInv, TypeOK, Busy, Goto, storeVars, unitVars,
       request, planning, history, Critical
  <2> QED
    BY <2>1, <2>2
<1>3. CASE StatAndList(p)
  <2>1. CASE Exists(vm[p])
    <3>1. configFiles(vm[p]) \subseteq ConfigFile /\ vm[p] \in VM
      BY <1>3 DEF StatAndList, configFiles, ConfigFile, TypeInv, Busy
    <3>2. listed' = [listed EXCEPT ![p] = configFiles(vm[p])]
      BY <1>3, <2>1 DEF StatAndList
    <3>3. listed' \in [Handler -> SUBSET ConfigFile]
      BY <3>1, <3>2 DEF TypeInv, TypeOK
    <3>4. doomed' \subseteq VM
      BY <1>3, <2>1, <3>1 DEF StatAndList, TypeInv, TypeOK
    <3> QED
      BY <1>3, <2>1, <3>3, <3>4 DEF StatAndList, TypeInv, TypeOK, Busy, Goto, storeVars,
         unitVars, request, planning, Critical
  <2>2. CASE ~Exists(vm[p])
    BY <1>1, <1>3, <2>2, ReturnType DEF StatAndList, storeVars, Status, history
  <2> QED
    BY <2>1, <2>2
<1>4. CASE UnlinkNext(p)
  BY <1>4 DEF UnlinkNext, unlink, TypeInv, TypeOK, Busy, storeVars, unitVars, request,
     planning, history
<1>5. CASE RemoveConfigDir(p)
  <2>1. CASE Return(p, 500)
    BY <1>1, <1>5, <2>1, ReturnType DEF RemoveConfigDir, rmdir, storeVars, Status
  <2>2. CASE ~Return(p, 500)
    BY <1>5, <2>2 DEF RemoveConfigDir, rmdir, TypeInv, TypeOK, Busy, Goto, unitVars,
       request, planning, history, Critical
  <2> QED
    BY <2>1, <2>2
<1>6. CASE RemoveRunDir(p)
  BY <1>6 DEF RemoveRunDir, rmdir, TypeInv, TypeOK, Busy, Goto, unitVars,
     request, planning, history, Critical
<1>7. CASE RemoveDataDir(p)
  BY <1>1, <1>7, ReturnType DEF RemoveDataDir, rmdir, storeVars, Status
<1> QED
  BY <1>2, <1>3, <1>4, <1>5, <1>6, <1>7 DEF DeleteStep

\* One step of a handler keeps the types.
LEMMA TypeHandler ==
    ASSUME TypeInv, NEW p \in Handler,
           RequestCreate(p) \/ RequestOn(p) \/ HandlerStep(p)
    PROVE  TypeInv'
<1> USE DEF TypeInv
<1>1. CASE RequestCreate(p)
  BY <1>1 DEF RequestCreate, TypeOK, Busy, Goto, storeVars, unitVars, planning, history,
     Unlocked
<1>2. CASE RequestOn(p)
  BY <1>2 DEF RequestOn, TypeOK, Busy, Goto, storeVars, unitVars, planning, history,
     Unlocked
<1>3. CASE ValidateFails(p)
  BY <1>3, AnswerType DEF ValidateFails, Reply, TypeOK, Status
<1>4. CASE ListIDs(p)
  BY <1>4 DEF ListIDs, ListVMIDs, TypeOK, Busy, Goto, storeVars, unitVars, request,
     history, Unlocked, Window
<1>5. CASE ReadNextMeta(p)
  BY <1>5 DEF ReadNextMeta, Exists, TypeOK, Busy, storeVars, unitVars, request, history
<1>6. CASE AllocateFor(p)
  <2>1. PICK asked \in Payloads :
          \/ /\ Allocate(metas[p], asked).ok
             /\ plan' = [plan EXCEPT ![p] = Allocate(metas[p], asked).meta]
             /\ Goto(p, "configDir")
             /\ UNCHANGED <<storeVars, lock, unitVars, request, todo, metas,
                            missed, listed, out, issued, history>>
          \/ /\ ~Allocate(metas[p], asked).ok
             /\ Reply(p, 400)
    BY <1>6 DEF AllocateFor
  <2>2. Allocate(metas[p], asked).ok => Allocate(metas[p], asked).meta \in Meta
    BY AllocateAvoidsExisting DEF Meta
  <2> HIDE DEF TypeInv
  <2>3. CASE Reply(p, 400)
    BY <2>3, <1>6, AnswerType DEF Reply, TypeInv, TypeOK, Status, AllocateFor
  <2>4. CASE Allocate(metas[p], asked).ok /\ ~Reply(p, 400)
    BY <2>1, <2>2, <2>4, <1>6 DEF AllocateFor, TypeInv, TypeOK, Busy, Goto, storeVars,
       unitVars, request, history, Unlocked, Window
  <2> QED
    BY <2>1, <2>3, <2>4
<1>7. CASE SaveDir(p)
  BY <1>7 DEF SaveDir, AfterSaving, MkdirAll, TypeOK, Busy, Goto, unitVars, request,
     planning, history, Unlocked, Window, Directory, Entry
<1>8. CASE SaveVMConfig(p)
  BY <1>8 DEF SaveVMConfig, writeFile, TypeOK, Busy, Goto, unitVars, request,
     planning, history, Unlocked, Window, Directory, Entry, ConfigFile
<1>9. CASE SaveMeta(p)
  BY <1>9 DEF SaveMeta, writeMeta, TypeOK, Busy, Goto, unitVars, request,
     Unlocked, Directory, Entry
<1>10. CASE SaveHooks(p)
  BY <1>10 DEF SaveHooks, writeFile, TypeOK, Busy, Goto, storeVars, unitVars, request,
     planning, history, Unlocked, Directory, Entry, ConfigFile
<1>11. CASE SaveEnv(p)
  BY <1>11 DEF SaveEnv, writeFile, TypeOK, Busy, Goto, unitVars, request,
     planning, history, Unlocked, Directory, Entry, ConfigFile
<1>12. CASE Created(p)
  <2>1. CASE Reply(p, 201)
    BY <1>12, <2>1, AnswerType DEF Created, Reply, TypeOK, Status
  <2>2. CASE ~Reply(p, 201)
    BY <1>12, <2>2 DEF Created, TypeOK, Busy, Goto, storeVars, unitVars, request,
       planning, history, Unlocked
  <2> QED
    BY <2>1, <2>2
<1>13. CASE CheckExists(p)
  <2>1. CASE Reply(p, 404)
    BY <1>13, <2>1, AnswerType DEF CheckExists, Reply, TypeOK, Status
  <2>2. CASE ~Reply(p, 404)
    BY <1>13, <2>2 DEF CheckExists, TypeOK, Busy, Goto, storeVars, unitVars, request,
       planning, history, Unlocked
  <2> QED
    BY <2>1, <2>2
<1>14. CASE lockVM(p)
  <2>1. CASE AlreadyLocked(vm[p]) /\ Answer(p, 409) /\ UNCHANGED storeVars
    BY <1>14, <2>1, AnswerType DEF lockVM, AlreadyLocked, TypeOK, Status
  <2>2. CASE ~(AlreadyLocked(vm[p]) /\ Answer(p, 409) /\ UNCHANGED storeVars)
    BY <1>14, <2>2 DEF lockVM, Acquire, TypeOK, Busy, Goto, storeVars, unitVars,
       request, planning, history, Critical
  <2> QED
    BY <2>1, <2>2
<1>15. CASE SystemctlStep(p)
  BY <1>15, TypeSystemctl
<1>16. CASE DeleteStep(p)
  BY <1>16, TypeDelete
<1>17. CASE ReleaseAndReply(p)
  BY <1>17, AnswerType DEF ReleaseAndReply, Release, TypeOK, Busy
<1>18. CASE FailUnlocked(p)
  BY <1>18, AnswerType DEF FailUnlocked, Reply, TypeOK, Unlocked, Window, Status
<1>19. CASE FailLocked(p)
  <2>1. CASE Return(p, 500)
    BY <1>19, <2>1, ReturnType DEF FailLocked, TypeOK, storeVars, Status
  <2>2. CASE AfterSystemctl(p, 500)
    BY <1>19, <2>2, AfterSystemctlType DEF FailLocked, TypeOK, unitVars, Status
  <2> QED
    BY <1>19, <2>1, <2>2 DEF FailLocked
<1> QED
  BY <1>1, <1>2, <1>3, <1>4, <1>5, <1>6, <1>7, <1>8, <1>9, <1>10, <1>11, <1>12, <1>13,
     <1>14, <1>15, <1>16, <1>17, <1>18, <1>19 DEF HandlerStep, CreateStep

\* One step of a unit keeps the types.
LEMMA TypeUnit ==
    ASSUME TypeInv, NEW v \in VM, UnitStep(v)
    PROVE  TypeInv'
<1>1. /\ unit \in [VM -> UnitState]
      /\ job \in [VM -> JobState]
      /\ entries \in [VM -> SUBSET Entry]
  BY DEF TypeInv, TypeOK
<1>2. /\ unit' \in [VM -> UnitState]
      /\ job' \in [VM -> JobState]
      /\ entries' \in [VM -> SUBSET Entry]
      /\ meta' = meta
  BY <1>1 DEF UnitStep, UnitNext, BeginStart, ExecStartPre, ExecStartPreFails,
     ExecStartPost, ExecStartPostFails, StartFails, MainExits, StartLimitHit, StopEnds,
     endJob, MkdirAll, UnitState, JobState, Entry, Directory, storeVars
<1> QED
  BY <1>2 DEF UnitStep, managerVars, request, planning, TypeInv, TypeOK, Busy

\* A crash of mergend drops the handlers' state and keeps the types.
LEMMA TypeCrash ==
    ASSUME TypeInv, Crash
    PROVE  TypeInv'
BY DEF Crash, DropAll, storeVars, unitVars, history, TypeInv, TypeOK, Busy, Status

\* No step of mergend or of systemd leaves the types.
LEMMA TypeNext == TypeInv /\ [Next]_vars => TypeInv'
<1> SUFFICES ASSUME TypeInv, [Next]_vars
             PROVE  TypeInv'
  OBVIOUS
<1>1. CASE UNCHANGED vars
  BY <1>1 DEF vars, storeVars, unitVars, request, planning, history, TypeInv, TypeOK, Busy
<1> QED
  BY <1>1, TypeHandler, TypeUnit, TypeCrash DEF Next

\* The state of mergend, of the files and of the units keeps its type.
THEOREM TypeCorrect == Spec => []TypeOK
<1>1. TypeInv => TypeOK
  BY DEF TypeInv
<1> QED
  BY <1>1, TypeInit, TypeNext, PTL DEF Spec

-----------------------------------------------------------------------------
(* Lock discipline *)

LockInv == TypeInv /\ LockDiscipline

\* A step of p that leaves the locks alone and neither enters nor leaves
\* the critical section keeps the discipline.
LEMMA LockFrame ==
    ASSUME LockInv, NEW p \in Handler, lock' = lock,
           NEW label, pc' = [pc EXCEPT ![p] = label],
           label \in Critical <=> pc[p] \in Critical,
           NEW id, vm' = [vm EXCEPT ![p] = id],
           pc[p] \in Critical => id = vm[p]
    PROVE  LockDiscipline'
<1>1. TypeOK /\ LockDiscipline
  BY DEF LockInv, TypeInv
<1>2. /\ pc \in [Handler -> {"idle"} \cup Unlocked \cup Critical]
      /\ vm \in [Handler -> VM \cup {None}]
      /\ lock \in [VM -> Handler \cup {None}]
  BY <1>1 DEF TypeOK
<1>3. \A q \in Handler : pc'[q] \in Critical => lock'[vm'[q]] = q
  BY <1>1, <1>2 DEF LockDiscipline
<1>4. \A v \in VM : lock'[v] # None => pc'[lock'[v]] \in Critical /\ vm'[lock'[v]] = v
  BY <1>1, <1>2 DEF LockDiscipline
<1> QED
  BY <1>3, <1>4 DEF LockDiscipline

\* The steps of a handler that keep it on its side of the lock.
LEMMA LockCreate ==
    ASSUME LockInv, NEW p \in Handler,
           \/ RequestCreate(p) \/ RequestOn(p) \/ CreateStep(p)
           \/ CheckExists(p) \/ FailUnlocked(p)
    PROVE  LockDiscipline'
<1>1. TypeOK
  BY DEF LockInv, TypeInv
<1>2. PICK label, id : /\ pc' = [pc EXCEPT ![p] = label]
                       /\ vm' = [vm EXCEPT ![p] = id]
                       /\ label \notin Critical
  BY <1>1 DEF RequestCreate, RequestOn, CreateStep, ValidateFails, ListIDs, ReadNextMeta,
     AllocateFor, SaveDir, AfterSaving, Directory, SaveVMConfig, SaveMeta, SaveHooks,
     SaveEnv, Created, CheckExists, FailUnlocked, Reply, Answer, Goto, request, TypeOK,
     Critical
<1>3. pc[p] \notin Critical
  BY DEF RequestCreate, RequestOn, CreateStep, ValidateFails, ListIDs, ReadNextMeta,
     AllocateFor, SaveDir, Directory, SaveVMConfig, SaveMeta, SaveHooks, SaveEnv,
     Created, CheckExists, FailUnlocked, Unlocked, Window, Critical
<1>4. lock' = lock
  BY DEF RequestCreate, RequestOn, CreateStep, ValidateFails, ListIDs, ReadNextMeta,
     AllocateFor, SaveDir, SaveVMConfig, SaveMeta, SaveHooks, SaveEnv, Created,
     CheckExists, FailUnlocked, Reply
<1> QED
  BY <1>2, <1>3, <1>4, LockFrame

\* The steps taken under the lock of a VM are taken by its holder.
LEMMA LockCritical ==
    ASSUME LockInv, NEW p \in Handler,
           SystemctlStep(p) \/ DeleteStep(p) \/ FailLocked(p)
    PROVE  LockDiscipline'
<1>1. TypeOK
  BY DEF LockInv, TypeInv
<1>2. PICK label : pc' = [pc EXCEPT ![p] = label] /\ label \in Critical
  BY <1>1 DEF SystemctlStep, IsActiveSkips, IsActiveActs, IsActiveKilled,
     SystemctlUnavailable, SendJob, JobEnds, SystemctlKilled, AfterSystemctl, DeleteStep,
     ReadMeta, StatAndList, UnlinkNext, RemoveConfigDir, RemoveRunDir, RemoveDataDir,
     FailLocked, Return, Goto, Critical, TypeOK
<1>3. pc[p] \in Critical
  BY DEF SystemctlStep, IsActiveSkips, IsActiveActs, IsActiveKilled,
     SystemctlUnavailable, SendJob, JobEnds, SystemctlKilled, DeleteStep,
     ReadMeta, StatAndList, UnlinkNext, RemoveConfigDir, RemoveRunDir, RemoveDataDir,
     FailLocked, Critical
<1>4. lock' = lock /\ vm' = vm
  BY DEF SystemctlStep, IsActiveSkips, IsActiveActs, IsActiveKilled,
     SystemctlUnavailable, SendJob, JobEnds, SystemctlKilled, AfterSystemctl, DeleteStep,
     ReadMeta, StatAndList, UnlinkNext, RemoveConfigDir, RemoveRunDir, RemoveDataDir,
     FailLocked, Return, request
<1>5. vm' = [vm EXCEPT ![p] = vm[p]]
  BY <1>1, <1>4 DEF TypeOK
<1> QED
  BY <1>2, <1>3, <1>4, <1>5, LockFrame

\* lockVM enters the critical section with the lock, or answers 409.
LEMMA LockAcquire ==
    ASSUME LockInv, NEW p \in Handler, lockVM(p)
    PROVE  LockDiscipline'
<1>1. TypeOK /\ Busy /\ LockDiscipline
  BY DEF LockInv, TypeInv
<1>2. CASE AlreadyLocked(vm[p]) /\ Answer(p, 409)
  <2>1. pc[p] \notin Critical /\ "idle" \notin Critical
    BY DEF lockVM, Critical
  <2>2. /\ lock' = lock
        /\ pc' = [pc EXCEPT ![p] = "idle"]
        /\ vm' = [vm EXCEPT ![p] = None]
    BY <1>2 DEF AlreadyLocked, Answer, Goto
  <2> QED
    BY <2>1, <2>2, LockFrame
<1>3. CASE /\ Acquire(p, vm[p])
           /\ Goto(p, IF op[p] = "delete" THEN "readmeta" ELSE "isactive")
           /\ UNCHANGED request
  <2>1. PICK label \in Critical : pc' = [pc EXCEPT ![p] = label]
    BY <1>3 DEF Goto, Critical
  <2>2. /\ pc[p] = "lock"
        /\ vm[p] \in VM
        /\ vm' = vm
        /\ lock[vm[p]] = None
        /\ lock' = [lock EXCEPT ![vm[p]] = p]
    BY <1>1, <1>3 DEF lockVM, Acquire, Busy, request
  <2>3. /\ pc \in [Handler -> {"idle"} \cup Unlocked \cup Critical]
        /\ vm \in [Handler -> VM \cup {None}]
        /\ lock \in [VM -> Handler \cup {None}]
    BY <1>1 DEF TypeOK
  <2>4. \A q \in Handler : pc'[q] \in Critical => lock'[vm'[q]] = q
    BY <1>1, <2>1, <2>2, <2>3, NoneAssumption DEF LockDiscipline
  <2>5. \A v \in VM : lock'[v] # None => pc'[lock'[v]] \in Critical /\ vm'[lock'[v]] = v
    BY <1>1, <2>1, <2>2, <2>3, NoneAssumption DEF LockDiscipline
  <2> QED
    BY <2>4, <2>5 DEF LockDiscipline
<1> QED
  BY <1>2, <1>3 DEF lockVM

\* The deferred release leaves the critical section and frees the lock.
LEMMA LockRelease ==
    ASSUME LockInv, NEW p \in Handler, ReleaseAndReply(p)
    PROVE  LockDiscipline'
<1>1. TypeOK /\ Busy /\ LockDiscipline
  BY DEF LockInv, TypeInv
<1>2. /\ pc \in [Handler -> {"idle"} \cup Unlocked \cup Critical]
      /\ vm \in [Handler -> VM \cup {None}]
      /\ lock \in [VM -> Handler \cup {None}]
  BY <1>1 DEF TypeOK
<1>3. /\ pc' = [pc EXCEPT ![p] = "idle"]
      /\ vm' = [vm EXCEPT ![p] = None]
      /\ lock' = [lock EXCEPT ![vm[p]] = None]
      /\ vm[p] \in VM
      /\ pc[p] \in Critical
      /\ "idle" \notin Critical
  BY <1>1 DEF ReleaseAndReply, Release, Answer, Goto, Busy, Critical
<1>4. \A q \in Handler : pc'[q] \in Critical => lock'[vm'[q]] = q
  BY <1>1, <1>2, <1>3 DEF LockDiscipline
<1>5. \A v \in VM : lock'[v] # None => pc'[lock'[v]] \in Critical /\ vm'[lock'[v]] = v
  BY <1>1, <1>2, <1>3 DEF LockDiscipline
<1> QED
  BY <1>4, <1>5 DEF LockDiscipline

\* No step of mergend or of systemd breaks the discipline of the lock files.
LEMMA LockNext == LockInv /\ [Next]_vars => LockInv'
<1> SUFFICES ASSUME LockInv, [Next]_vars
             PROVE  LockDiscipline'
  BY TypeNext DEF LockInv
<1>1. CASE UNCHANGED vars
  BY <1>1 DEF vars, request, LockInv, LockDiscipline
<1>2. ASSUME NEW p \in Handler, RequestCreate(p) \/ RequestOn(p) \/ HandlerStep(p)
      PROVE  LockDiscipline'
  BY <1>2, LockCreate, LockCritical, LockAcquire, LockRelease DEF HandlerStep
<1>3. ASSUME NEW v \in VM, UnitStep(v)
      PROVE  LockDiscipline'
  BY <1>3 DEF UnitStep, managerVars, request, LockInv, LockDiscipline
<1>4. CASE Crash
  BY <1>4 DEF Crash, DropAll, LockDiscipline, Critical
<1> QED
  BY <1>1, <1>2, <1>3, <1>4 DEF Next

\* The per-VM lock of internal/lock excludes: whatever fails, times out or
\* crashes, one handler at a time is past lockVM for a VM, and every handler
\* that leaves has given the lock back.
THEOREM LockDisciplineHolds == Spec => []LockDiscipline
<1>1. Init => LockInv
  BY TypeInit, NoneAssumption DEF Init, LockInit, LockInv, LockDiscipline, Critical
<1>2. LockInv => LockDiscipline
  BY DEF LockInv
<1> QED
  BY <1>1, <1>2, LockNext, PTL DEF Spec

-----------------------------------------------------------------------------
(* A start that is answered with success *)

\* The other handlers are where they were.
OthersWait(p) ==
    \A q \in Handler \ {p} :
        pc'[q] = pc[q] /\ op'[q] = op[q] /\ vm'[q] = vm[q] /\ out'[q] = out[q]

\* A handler's step changes the state of no other handler.
LEMMA OthersWaitFor ==
    ASSUME TypeInv, NEW p \in Handler, RequestCreate(p) \/ RequestOn(p) \/ HandlerStep(p)
    PROVE  OthersWait(p)
<1>1. /\ pc \in [Handler -> {"idle"} \cup Unlocked \cup Critical]
      /\ op \in [Handler -> {"none", "create", "start", "stop", "delete"}]
      /\ vm \in [Handler -> VM \cup {None}]
      /\ out \in [Handler -> Status]
  BY DEF TypeInv, TypeOK
<1>2. \A q \in Handler \ {p} : pc'[q] = pc[q]
  BY <1>1 DEF RequestCreate, RequestOn, HandlerStep, CreateStep, ValidateFails, ListIDs,
     ReadNextMeta, AllocateFor, SaveDir, SaveVMConfig, SaveMeta, SaveHooks, SaveEnv,
     Created, CheckExists, lockVM, SystemctlStep, IsActiveSkips, IsActiveActs,
     IsActiveKilled, SystemctlUnavailable, SendJob, JobEnds, SystemctlKilled,
     AfterSystemctl, DeleteStep, ReadMeta, StatAndList, UnlinkNext, RemoveConfigDir,
     RemoveRunDir, RemoveDataDir, ReleaseAndReply, FailUnlocked, FailLocked, Reply,
     Answer, Return, Goto
<1>3. \A q \in Handler \ {p} : op'[q] = op[q] /\ vm'[q] = vm[q]
  BY <1>1 DEF RequestCreate, RequestOn, HandlerStep, CreateStep, ValidateFails, ListIDs,
     ReadNextMeta, AllocateFor, SaveDir, SaveVMConfig, SaveMeta, SaveHooks, SaveEnv,
     Created, CheckExists, lockVM, SystemctlStep, IsActiveSkips, IsActiveActs,
     IsActiveKilled, SystemctlUnavailable, SendJob, JobEnds, SystemctlKilled,
     AfterSystemctl, DeleteStep, ReadMeta, StatAndList, UnlinkNext, RemoveConfigDir,
     RemoveRunDir, RemoveDataDir, ReleaseAndReply, FailUnlocked, FailLocked, Reply,
     Answer, Return, request
<1>4. \A q \in Handler \ {p} : out'[q] = out[q]
  BY <1>1 DEF RequestCreate, RequestOn, HandlerStep, CreateStep, ValidateFails, ListIDs,
     ReadNextMeta, AllocateFor, SaveDir, SaveVMConfig, SaveMeta, SaveHooks, SaveEnv,
     Created, CheckExists, lockVM, SystemctlStep, IsActiveSkips, IsActiveActs,
     IsActiveKilled, SystemctlUnavailable, SendJob, JobEnds, SystemctlKilled,
     AfterSystemctl, DeleteStep, ReadMeta, StatAndList, UnlinkNext, RemoveConfigDir,
     RemoveRunDir, RemoveDataDir, ReleaseAndReply, FailUnlocked, FailLocked, Reply,
     Answer, Return
<1> QED
  BY <1>2, <1>3, <1>4 DEF OthersWait

\* Two handlers past lockVM for the same VM are one.
LEMMA OneInCritical ==
    ASSUME LockInv, NEW p \in Handler, NEW q \in Handler,
           pc[p] \in Critical, pc[q] \in Critical, vm[p] = vm[q]
    PROVE  p = q
BY DEF LockInv, LockDiscipline

Starting == {"start", "create"}

Success == {<<"start", 200>>, <<"create", 201>>}

CameUp(v) == running(v) \/ v \in exited

InDelete == {"stat", "unlink", "rmrun", "rmdata"}

\* While systemctl start waits, the job is its own, and is done only when the
\* unit has become active.
Starter(p) ==
    op[p] \in Starting =>
        /\ pc[p] \notin InDelete
        /\ pc[p] = "wait" => /\ job[vm[p]] \in {"start", "done", "failed"}
                             /\ job[vm[p]] = "done" => CameUp(vm[p])
        /\ pc[p] = "release" /\ <<op[p], out[p]>> \in Success => CameUp(vm[p])

StartInv == LockInv /\ \A p \in Handler : Starter(p)

\* What a step does to units it does not touch.
UnitKept(v) == /\ job'[v] = job[v]
               /\ unit'[v] = unit[v]
               /\ v \in exited' <=> v \in exited

\* A handler in the critical section touches only the unit of its VM, the
\* others touch none.
LEMMA UnitsKept ==
    ASSUME TypeInv, NEW p \in Handler, RequestCreate(p) \/ RequestOn(p) \/ HandlerStep(p),
           NEW v \in VM, pc[p] \in Critical => v # vm[p]
    PROVE  UnitKept(v)
<1>1. unit \in [VM -> UnitState] /\ job \in [VM -> JobState]
  BY DEF TypeInv, TypeOK
<1>2. CASE SendJob(p) \/ JobEnds(p)
  <2>1. v # vm[p]
    BY <1>2 DEF SendJob, JobEnds, Critical
  <2> QED
    BY <1>1, <1>2, <2>1 DEF SendJob, JobEnds, startJob, stopJob, collectJob, history, UnitKept
<1>3. CASE ~SendJob(p) /\ ~JobEnds(p)
  <2>1. UNCHANGED <<unit, job, exited>>
    BY <1>3 DEF RequestCreate, RequestOn, HandlerStep, CreateStep, ValidateFails, ListIDs,
       ReadNextMeta, AllocateFor, SaveDir, SaveVMConfig, SaveMeta, SaveHooks, SaveEnv,
       Created, CheckExists, lockVM, SystemctlStep, IsActiveSkips, IsActiveActs,
       IsActiveKilled, SystemctlUnavailable, SystemctlKilled, DeleteStep, ReadMeta,
       StatAndList, UnlinkNext, RemoveConfigDir, RemoveRunDir, RemoveDataDir,
       ReleaseAndReply, FailUnlocked, FailLocked, Reply, Answer, unitVars, history
  <2> QED
    BY <2>1 DEF UnitKept
<1> QED
  BY <1>2, <1>3

\* The handler's own step: success is answered after is-active said so or
\* after the job it waited for was done.
LEMMA StarterSteps ==
    ASSUME StartInv, NEW p \in Handler, RequestCreate(p) \/ RequestOn(p) \/ HandlerStep(p)
    PROVE  Starter(p)'
<1>1. /\ pc \in [Handler -> {"idle"} \cup Unlocked \cup Critical]
      /\ op \in [Handler -> {"none", "create", "start", "stop", "delete"}]
      /\ out \in [Handler -> Status]
      /\ unit \in [VM -> UnitState] /\ job \in [VM -> JobState]
      /\ pc[p] # "idle" => vm[p] \in VM
      /\ Starter(p)
  BY DEF StartInv, LockInv, TypeInv, TypeOK, Busy
<1>2. CASE SendJob(p)
  <2>1. pc'[p] = "wait" /\ op' = op /\ vm' = vm /\ pc[p] = "systemctl"
    BY <1>1, <1>2 DEF SendJob, Goto, request
  <2>2. op[p] \in Starting =>
            /\ job' = [job EXCEPT ![vm[p]] = IF unit[vm[p]] = "active" THEN "done" ELSE "start"]
            /\ unit' = unit
    BY <1>2 DEF SendJob, startJob, Starting
  <2> QED
    BY <1>1, <2>1, <2>2 DEF Starter, CameUp, running, InDelete
<1>3. CASE JobEnds(p)
  <2>1. /\ op' = op /\ vm' = vm /\ unit' = unit /\ exited' = exited /\ pc[p] = "wait"
        /\ pc'[p] \in {"stat", "release"}
        /\ pc'[p] = "stat" => op[p] = "delete"
    BY <1>1, <1>3 DEF JobEnds, AfterSystemctl, Return, Goto, collectJob, request, history
  <2>2. op[p] \in Starting /\ <<op[p], out'[p]>> \in Success => job[vm[p]] = "done"
    BY <1>1, <1>3 DEF JobEnds, AfterSystemctl, Return, Starting, Success
  <2> QED
    BY <1>1, <2>1, <2>2 DEF Starter, CameUp, running, InDelete, Starting
<1>4. CASE IsActiveSkips(p)
  <2>1. /\ op' = op /\ vm' = vm /\ unit' = unit /\ exited' = exited
        /\ pc'[p] \in {"stat", "release"}
        /\ pc'[p] = "stat" => op[p] = "delete"
        /\ op[p] \in Starting => running(vm[p])
    BY <1>1, <1>4 DEF IsActiveSkips, isActive, running, AfterSystemctl, Return, Goto, request,
       history, unitVars, Starting
  <2> QED
    BY <2>1 DEF Starter, CameUp, running, InDelete, Starting
<1>5. CASE ReleaseAndReply(p) \/ FailUnlocked(p)
  <2>1. op'[p] = "none"
    BY <1>1, <1>5 DEF ReleaseAndReply, FailUnlocked, Reply, Answer
  <2> QED
    BY <2>1 DEF Starter, Starting
<1>6. CASE \/ IsActiveKilled(p) \/ SystemctlUnavailable(p) \/ SystemctlKilled(p)
           \/ FailLocked(p) \/ IsActiveActs(p)
  <2>1. /\ op' = op
        /\ op[p] \in Starting /\ pc[p] \notin InDelete =>
              /\ pc'[p] \notin InDelete \cup {"wait"}
              /\ pc'[p] = "release" => <<op[p], out'[p]>> \notin Success
    BY <1>1, <1>6 DEF IsActiveKilled, SystemctlUnavailable, SystemctlKilled, FailLocked,
       IsActiveActs, AfterSystemctl, Return, Goto, request, Starting, Success, InDelete
  <2> QED
    BY <1>1, <2>1 DEF Starter
<1>7. CASE DeleteStep(p)
  <2>1. /\ op' = op
        /\ pc[p] \in InDelete \/ pc[p] = "readmeta"
        /\ pc[p] = "readmeta" => /\ pc'[p] \in {"isactive", "release"}
                                 /\ pc'[p] = "release" => <<op[p], out'[p]>> \notin Success
    BY <1>1, <1>7 DEF DeleteStep, ReadMeta, StatAndList, UnlinkNext, RemoveConfigDir,
       RemoveRunDir, RemoveDataDir, Return, Goto, request, InDelete, Success
  <2> QED
    BY <1>1, <2>1 DEF Starter, InDelete
<1>8. CASE \/ RequestCreate(p) \/ RequestOn(p) \/ CreateStep(p) \/ CheckExists(p) \/ lockVM(p)
  <2>1. pc'[p] \notin InDelete \cup {"wait", "release"}
    BY <1>1, <1>8 DEF RequestCreate, RequestOn, CreateStep, ValidateFails, ListIDs,
       ReadNextMeta, AllocateFor, SaveDir, AfterSaving, Directory, SaveVMConfig, SaveMeta,
       SaveHooks, SaveEnv, Created, CheckExists, lockVM, Reply, Answer, Goto, InDelete
  <2> QED
    BY <2>1 DEF Starter
<1> QED
  BY <1>2, <1>3, <1>4, <1>5, <1>6, <1>7, <1>8 DEF HandlerStep, SystemctlStep

\* Whatever the others do, and whatever the unit does by itself, a job is done
\* and a success is recorded only if the VM came up.
LEMMA StartNext == StartInv /\ [Next]_vars => StartInv'
<1> SUFFICES ASSUME StartInv, [Next]_vars, NEW q \in Handler
             PROVE  Starter(q)'
  BY LockNext DEF StartInv
<1>1. /\ TypeInv /\ LockInv /\ Starter(q)
      /\ unit \in [VM -> UnitState] /\ job \in [VM -> JobState]
      /\ pc[q] # "idle" => vm[q] \in VM
  BY DEF StartInv, LockInv, TypeInv, TypeOK, Busy
<1>2. ASSUME pc'[q] = pc[q], op'[q] = op[q], vm'[q] = vm[q], out'[q] = out[q],
             vm[q] \in VM /\ pc[q] \in Critical => UnitKept(vm[q])
      PROVE  Starter(q)'
  BY <1>1, <1>2 DEF Starter, UnitKept, CameUp, running, Critical
<1>3. ASSUME NEW p \in Handler, RequestCreate(p) \/ RequestOn(p) \/ HandlerStep(p)
      PROVE  Starter(q)'
  <2>1. CASE p = q
    BY <1>3, <2>1, StarterSteps
  <2>2. CASE p # q
    <3>1. pc[q] \in Critical /\ vm[q] \in VM => UnitKept(vm[q])
      BY <1>1, <1>3, <2>2, OneInCritical, UnitsKept
    <3> QED
      BY <1>1, <1>2, <1>3, <2>2, <3>1, OthersWaitFor DEF OthersWait
  <2> QED
    BY <2>1, <2>2
<1>4. ASSUME NEW v \in VM, UnitStep(v)
      PROVE  Starter(q)'
  <2>1. UNCHANGED <<pc, op, vm, out>>
    BY <1>4 DEF UnitStep, managerVars, request
  <2>2. /\ \A w \in VM \ {v} : unit'[w] = unit[w] /\ job'[w] = job[w]
        /\ exited' = IF isActive(v) THEN exited \cup {v} ELSE exited
    BY <1>1, <1>4 DEF UnitStep, UnitNext, BeginStart, ExecStartPre, ExecStartPreFails,
       ExecStartPost, ExecStartPostFails, StartFails, MainExits, StartLimitHit, StopEnds,
       endJob
  <2>3. /\ job[v] = "start" => \/ job'[v] \in {"start", "failed"}
                               \/ job'[v] = "done" /\ unit'[v] = "active"
        /\ job[v] \in {"done", "failed"} => job'[v] = job[v]
    BY <1>1, <1>4 DEF UnitStep, UnitNext, BeginStart, ExecStartPre, ExecStartPreFails,
       ExecStartPost, ExecStartPostFails, StartFails, MainExits, StartLimitHit, StopEnds,
       endJob
  <2>4. \A w \in VM : CameUp(w) => unit'[w] = "active" \/ w \in exited'
    BY <2>2 DEF CameUp, running, isActive
  <2>5. CASE vm[q] = v
    BY <1>1, <1>4, <2>1, <2>3, <2>4, <2>5 DEF Starter, CameUp, running
  <2>6. CASE vm[q] # v
    BY <1>1, <2>1, <2>2, <2>4, <2>6 DEF Starter, CameUp, running
  <2> QED
    BY <2>5, <2>6
<1>5. CASE Crash
  BY <1>5 DEF Crash, Starter, Starting
<1>6. CASE UNCHANGED vars
  BY <1>2, <1>6 DEF vars, unitVars, request, history, UnitKept
<1> QED
  BY <1>3, <1>4, <1>5, <1>6 DEF Next

\* A start answered with 200, or a create with autoStart answered with 201,
\* means that the unit became active, whatever jobs were left behind by
\* timeouts, crashes and errors: success is never reported for a job of
\* somebody else, and a VM that is not active now has ended by itself.
THEOREM StartedIsActiveHolds == Spec => []StartedIsActive
<1>1. Init => StartInv
  BY TypeInit, NoneAssumption DEF Init, LockInit, LockInv, LockDiscipline, Critical,
     StartInv, Starter, Starting
<1>2. StartInv => StartedIsActive
  BY DEF StartInv, Starter, StartedIsActive, Success, Starting, CameUp
<1> QED
  BY <1>1, <1>2, StartNext, PTL DEF Spec

-----------------------------------------------------------------------------
(* The loop of allocatePorts *)

\* f gives each request the port the loop settles on, given the ports that f
\* gives to the requests before it.
settles(f, taken, asked) ==
    \A i \in 1..Len(asked) :
        f[i] = IF asked[i].host # 0 THEN asked[i].host
               ELSE nextFreePort(taken, {f[j] : j \in 1..(i - 1)})

\* hostPorts is such a function: the port of a request depends on the ports
\* of the requests before it only, so its equation has a solution.
LEMMA HostPortsDef ==
    ASSUME NEW taken, NEW asked, Len(asked) \in Nat
    PROVE  settles(hostPorts(taken, asked), taken, asked)
<1> DEFINE n == Len(asked)
           port(f, i) == IF asked[i].host # 0 THEN asked[i].host
                         ELSE nextFreePort(taken, {f[j] : j \in 1..(i - 1)})
           solvable(m) == \E f : f = [i \in 1..m |-> port(f, i)]
           bad == {m \in Nat : ~solvable(m)}
<1>1. bad = {}
  <2>1. SUFFICES ASSUME bad # {} PROVE FALSE
    OBVIOUS
  <2>2. PICK m \in bad : \A k \in bad : m <= k
    BY <2>1, MinOfNaturals
  <2>3. m \in Nat /\ ~solvable(m)
    BY <2>2
  <2>4. m # 0
    <3>1. SUFFICES ASSUME m = 0 PROVE solvable(m)
      BY <2>3
    <3> DEFINE f == [i \in 1..m |-> 0]
    <3>2. f = [i \in 1..m |-> port(f, i)]
      BY <3>1
    <3> QED
      BY <3>2
  <2>5. solvable(m - 1)
    <3> HIDE DEF solvable
    <3>1. m - 1 \in Nat /\ ~(m <= m - 1)
      BY <2>3, <2>4
    <3>2. m - 1 \notin bad
      <4> HIDE DEF bad
      <4> QED
        BY <2>2, <3>1
    <3> QED
      BY <3>1, <3>2
  <2>6. PICK g : g = [i \in 1..(m - 1) |-> port(g, i)]
    BY <2>5
  <2> DEFINE f == [i \in 1..m |-> IF i < m THEN g[i] ELSE port(g, m)]
  <2>7. \A i \in 1..m : \A j \in 1..(i - 1) : f[j] = g[j]
    BY <2>3
  <2>8. \A i \in 1..m : {f[j] : j \in 1..(i - 1)} = {g[j] : j \in 1..(i - 1)}
    BY <2>7
  <2>9. \A i \in 1..m : port(f, i) = port(g, i)
    BY <2>8
  <2>10. \A i \in 1..(m - 1) : g[i] = port(g, i)
    BY <2>6
  <2>11. \A i \in 1..m : f[i] = port(g, i)
    <3> HIDE DEF port
    <3>1. TAKE i \in 1..m
    <3>2. CASE i < m
      <4>1. i \in 1..(m - 1) /\ f[i] = g[i]
        BY <2>3, <3>1, <3>2
      <4> HIDE DEF f
      <4> QED
        BY <4>1, <2>10
    <3>3. CASE i = m
      BY <3>1, <3>3
    <3> QED
      BY <2>3, <3>1, <3>2, <3>3
  <2>12. f = [i \in 1..m |-> f[i]]
    OBVIOUS
  <2> HIDE DEF f, port
  <2>13. f = [i \in 1..m |-> port(f, i)]
    BY <2>9, <2>11, <2>12
  <2> QED
    BY <2>3, <2>13
<1>2. \E f : f = [i \in 1..n |-> port(f, i)]
  BY <1>1
<1>3. hostPorts(taken, asked) = [i \in 1..n |-> port(hostPorts(taken, asked), i)]
  BY <1>2, Zenon DEF hostPorts
<1> HIDE DEF n
<1>4. \A i \in 1..n : hostPorts(taken, asked)[i] = port(hostPorts(taken, asked), i)
  <2> HIDE DEF port
  <2> QED
    BY <1>3
<1> QED
  BY <1>4 DEF settles, n


\* The closed form, request by request: the host port of the i-th request,
\* whether the loop gets past it, and the binding it then appends.
portOf(i) == hostPorts(used, requests)[i]

granted(i) == /\ acceptable(requests[i])
              /\ portOf(i) \in Nat \ {0}
              /\ portOf(i) \notin used
              /\ portOf(i) \notin {portOf(j) : j \in 1..(i - 1)}

bindingOf(i) == [guest    |-> requests[i].guest,
                 host     |-> portOf(i),
                 protocol |-> normalProtocol(requests[i].protocol)]

\* What the two searches have behind them is taken; a host that was taken up is
\* usable and free, and an address is refused only when none is left to try.
AddressScan ==
    /\ candidate \in Nat /\ 2 <= candidate
    /\ \A n \in 2..(candidate - 1) : n \in existing.addresses
    /\ result = "noRange" => existing.bits <= 1
    /\ result = "noAddress" => existing.bits > 1 /\ ~(candidate < maxHost)
    /\ result \notin {"address"} \cup AddressErrors =>
          /\ existing.bits > 1 /\ candidate < maxHost
          /\ candidate \notin existing.addresses

PortScan ==
    /\ probe \in Nat /\ PortStart <= probe
    /\ \A n \in PortStart..(probe - 1) : n \in used \cup reserved

\* The inductive invariant of the loop: the requests before the one at hand
\* are granted, what they got is reserved and bound in request order, an error
\* is about the request at hand, and a success has sorted all of the bindings.
LoopInv ==
    /\ existing \in Existing
    /\ requests \in Requests
    /\ next \in 1..(Len(requests) + 1)
    /\ result \in {"address", "pending", "ok"} \cup AddressErrors \cup PortErrors
    /\ \A i \in 1..(next - 1) : granted(i)
    /\ reserved = {portOf(j) : j \in 1..(next - 1)}
    /\ result # "ok" => bindings = [i \in 1..(next - 1) |-> bindingOf(i)]
    /\ result = "ok" =>
          /\ next = Len(requests) + 1
          /\ bindings \in SortSlice([i \in 1..Len(requests) |-> bindingOf(i)])
    /\ result \in PortErrors => next <= Len(requests) /\ ~granted(next)
    /\ result = "exhausted" => requests[next].host = 0 /\ portOf(next) = 0

AllocationInv == LoopInv /\ AddressScan /\ PortScan

LEMMA RequestsAreSequences ==
    ASSUME requests \in Requests
    PROVE  /\ Len(requests) \in Nat
           /\ DOMAIN requests = 1..Len(requests)
           /\ \A i \in 1..Len(requests) :
                 requests[i] \in [guest : Int, host : Int, protocol : STRING]
<1> DEFINE Request == [guest : Int, host : Int, protocol : STRING]
<1>1. requests \in Seq(Request)
  BY RequestsAssumption
<1> HIDE DEF Request
<1>2. /\ Len(requests) \in Nat
      /\ DOMAIN requests = 1..Len(requests)
      /\ \A i \in 1..Len(requests) : requests[i] \in Request
  BY <1>1
<1> QED
  BY <1>2 DEF Request

\* The closed form at the request at hand, in terms of the loop's state.
LEMMA PortOfNext ==
    ASSUME LoopInv, next <= Len(requests)
    PROVE  /\ next \in 1..Len(requests)
           /\ portOf(next) = IF req.host # 0 THEN req.host ELSE nextFreePort(used, reserved)
<1>1. Len(requests) \in Nat
  BY RequestsAreSequences DEF LoopInv
<1>2. next \in 1..Len(requests)
  BY <1>1 DEF LoopInv
<1>3. portOf(next) = IF requests[next].host # 0 THEN requests[next].host
                     ELSE nextFreePort(used, {portOf(j) : j \in 1..(next - 1)})
  <2>1. \A i \in 1..Len(requests) :
          portOf(i) = IF requests[i].host # 0 THEN requests[i].host
                      ELSE nextFreePort(used, {portOf(j) : j \in 1..(i - 1)})
    <3>1. settles(hostPorts(used, requests), used, requests)
      BY <1>1, HostPortsDef
    <3> QED
      BY <3>1, Zenon DEF portOf, settles
  <2> QED
    BY <1>2, <2>1, Zenon
<1> QED
  BY <1>2, <1>3 DEF req, LoopInv

\* The search of nextFreePort ends where its closed form says.
LEMMA ScanFindsNextFree ==
    ASSUME PortScan, ranOut \/ probe \notin used \cup reserved
    PROVE  nextFreePort(used, reserved) = IF ranOut THEN 0 ELSE probe
<1> DEFINE free == (PortStart..PortEnd) \ (used \cup reserved)
           port == nextFreePort(used, reserved)
<1>1. /\ port \in Nat
      /\ port = 0 <=> free = {}
      /\ port # 0 => port \in free /\ \A q \in free : port <= q
  BY NextFreePortIsFree
<1> HIDE DEF port
<1>2. \A q \in free : probe <= q
  BY PortAssumption DEF PortScan
<1>3. CASE ranOut
  <2>1. free = {}
    BY <1>2, <1>3, PortAssumption DEF ranOut, PortScan
  <2> QED
    BY <1>1, <1>3, <2>1 DEF port
<1>4. CASE ~ranOut
  <2>1. probe \in free
    BY <1>4, PortAssumption DEF ranOut, PortScan
  <2>2. port \in free /\ port <= probe
    BY <1>1, <2>1
  <2>3. port = probe
    BY <1>1, <1>2, <2>2 DEF PortScan
  <2> QED
    BY <1>4, <2>3 DEF port
<1> QED
  BY <1>3, <1>4

\* The port the loop settles on at a request is the closed form's.
LEMMA HostPortIsPortOf ==
    ASSUME LoopInv, PortScan, Settled
    PROVE  /\ next \in 1..Len(requests)
           /\ hostPort = portOf(next)
           /\ hostPort \in Nat
<1>1. next <= Len(requests) /\ acceptable(req)
  BY DEF Settled, Looping
<1>2. /\ next \in 1..Len(requests)
      /\ portOf(next) = IF req.host # 0 THEN req.host ELSE nextFreePort(used, reserved)
  BY <1>1, PortOfNext
<1>3. req.host = 0 => nextFreePort(used, reserved) = hostPort
  BY ScanFindsNextFree DEF Settled, hostPort
<1>4. hostPort = portOf(next)
  BY <1>2, <1>3 DEF hostPort
<1>5. req.host \in Nat /\ probe \in Nat
  BY <1>1, PortAssumption DEF acceptable, PortScan
<1> QED
  BY <1>2, <1>4, <1>5 DEF hostPort

LEMMA FailStep ==
    ASSUME LoopInv, Looping, NEW error \in PortErrors, Fail(error),
           ~granted(next),
           error = "exhausted" => requests[next].host = 0 /\ portOf(next) = 0
    PROVE  LoopInv'
<1>1. UNCHANGED <<existing, used, requests, next, reserved, bindings>> /\ result' = error
  BY DEF Fail, used
<1>2. /\ \A i : granted(i)' = granted(i)
      /\ \A i : portOf(i)' = portOf(i)
      /\ \A i : bindingOf(i)' = bindingOf(i)
  BY <1>1 DEF granted, portOf, bindingOf
<1>3. error # "ok"
  BY DEF PortErrors
<1>4. next <= Len(requests) /\ result # "ok"
  BY DEF Looping
<1> QED
  BY <1>1, <1>2, <1>3, <1>4 DEF LoopInv


LEMMA BoundStep ==
    ASSUME LoopInv, PortScan, Bind
    PROVE  LoopInv'
<1>0. Settled /\ used' = used /\ next' = next + 1
  BY DEF Bind, Bound, used
<1> USE DEF Bind, Bound
<1>1. PICK n \in Nat : n = next - 1 /\ n + 1 = next /\ n + 1 \in 1..Len(requests)
  BY <1>0, HostPortIsPortOf, RequestsAreSequences DEF LoopInv
<1>2. /\ hostPort = portOf(n + 1) /\ hostPort \in Nat \ {0}
      /\ acceptable(requests[n + 1])
      /\ req = requests[n + 1]
  BY <1>0, <1>1, HostPortIsPortOf DEF req, Settled
<1>3. granted(n + 1)
  BY <1>1, <1>2 DEF granted, LoopInv
<1>4. next' = n + 2 /\ next' - 1 = n + 1
  <2> HIDE DEF Bind, Bound
  <2> QED
    BY <1>0, <1>1
<1>5. /\ \A i : granted(i)' = granted(i)
      /\ \A i : portOf(i)' = portOf(i)
      /\ \A i : bindingOf(i)' = bindingOf(i)
  BY <1>0 DEF granted, portOf, bindingOf
<1>6. \A i \in 1..(n + 1) : granted(i)
  <2> HIDE DEF Bind
  <2>1. \A i \in 1..(n + 1) : i \in 1..n \/ i = n + 1
    OBVIOUS
  <2> QED
    BY <1>1, <1>3, <2>1 DEF LoopInv
<1>7. reserved' = {portOf(j) : j \in 1..(n + 1)}
  <2>1. reserved' = {portOf(j) : j \in 1..n} \cup {portOf(n + 1)}
    BY <1>1, <1>2 DEF LoopInv
  <2>2. 1..(n + 1) = (1..n) \cup {n + 1}
    OBVIOUS
  <2> QED
    BY <2>1, <2>2, Zenon
<1>8. bindings' = [i \in 1..(n + 1) |-> bindingOf(i)]
  <2>1. bindings = [i \in 1..n |-> bindingOf(i)]
    BY <1>1 DEF LoopInv
  <2>2. bindings' = Append(bindings, bindingOf(n + 1))
    BY <1>2 DEF bindingOf
  <2> QED
    BY <2>1, <2>2
<1>9. UNCHANGED <<existing, used, requests, result>> /\ result = "pending"
  BY <1>0 DEF Settled, Looping
<1>10. next' \in 1..(Len(requests) + 1)
  BY <1>1, <1>4, RequestsAreSequences DEF LoopInv
<1> HIDE DEF Bind
<1> QED
  BY <1>4, <1>5, <1>6, <1>7, <1>8, <1>9, <1>10 DEF LoopInv, PortErrors

LEMMA FinishStep ==
    ASSUME LoopInv, Finish
    PROVE  LoopInv'
<1>1. /\ UNCHANGED <<existing, used, requests, next, reserved>> /\ result' = "ok"
      /\ result # "ok" /\ next > Len(requests)
      /\ bindings' \in SortSlice(bindings)
  BY DEF Finish, used
<1>2. /\ \A i : granted(i)' = granted(i)
      /\ \A i : portOf(i)' = portOf(i)
      /\ \A i : bindingOf(i)' = bindingOf(i)
  BY <1>1 DEF granted, portOf, bindingOf
<1>3. next = Len(requests) + 1 /\ next - 1 = Len(requests)
  BY <1>1, RequestsAreSequences DEF LoopInv
<1>4. bindings = [i \in 1..Len(requests) |-> bindingOf(i)]
  BY <1>1, <1>3 DEF LoopInv
<1> QED
  BY <1>1, <1>2, <1>3, <1>4 DEF LoopInv, PortErrors

\* The searches change nothing that LoopInv speaks of.
LEMMA ScanStep ==
    ASSUME LoopInv, UNCHANGED <<existing, requests, next, reserved, bindings>>,
           \/ result' = result
           \/ result = "address" /\ result' \in {"pending"} \cup AddressErrors
    PROVE  LoopInv'
<1>1. used' = used
  BY DEF used
<1>2. /\ \A i : granted(i)' = granted(i)
      /\ \A i : portOf(i)' = portOf(i)
      /\ \A i : bindingOf(i)' = bindingOf(i)
  BY <1>1 DEF granted, portOf, bindingOf
<1>3. CASE result' = result
  BY <1>1, <1>2, <1>3 DEF LoopInv
<1>4. CASE result = "address" /\ result' \in {"pending"} \cup AddressErrors
  <2>1. /\ result' \in {"pending"} \cup AddressErrors
        /\ result' # "ok" /\ result # "ok" /\ result' \notin PortErrors
        /\ result' # "exhausted"
    BY <1>4 DEF AddressErrors, PortErrors
  <2> QED
    BY <1>1, <1>2, <2>1 DEF LoopInv
<1> QED
  BY <1>3, <1>4

LEMMA LoopInvStep ==
    ASSUME LoopInv, PortScan, [LoopNext]_loopVars
    PROVE  LoopInv'
<1>1. CASE RejectInvalid
  BY <1>1, FailStep DEF RejectInvalid, granted, req, PortErrors
<1>2. CASE RejectExhausted
  <2>1. Settled /\ Looping /\ hostPort = 0
    BY <1>2 DEF RejectExhausted, Settled
  <2>2. portOf(next) = 0
    BY <2>1, HostPortIsPortOf
  <2>3. requests[next].host = 0
    BY <2>1 DEF hostPort, req
  <2> QED
    BY <1>2, <2>1, <2>2, <2>3, FailStep DEF RejectExhausted, granted, PortErrors
<1>3. CASE RejectAllocated
  <2>1. Settled /\ Looping
    BY <1>3 DEF RejectAllocated, Settled
  <2>2. ~granted(next)
    BY <1>3, <2>1, HostPortIsPortOf DEF RejectAllocated, granted
  <2> QED
    BY <1>3, <2>1, <2>2, FailStep DEF RejectAllocated, PortErrors
<1>4. CASE RejectDuplicate
  <2>1. Settled /\ Looping
    BY <1>4 DEF RejectDuplicate, Settled
  <2>2. ~granted(next)
    BY <1>4, <2>1, HostPortIsPortOf DEF RejectDuplicate, granted, LoopInv
  <2> QED
    BY <1>4, <2>1, <2>2, FailStep DEF RejectDuplicate, PortErrors
<1>5. CASE Bind
  BY <1>5, BoundStep
<1>6. CASE Finish
  BY <1>6, FinishStep
<1>7. CASE RejectPrefix \/ SkipHost \/ TakeHost \/ RejectNetwork \/ SkipPort
  BY <1>7, ScanStep
  DEF RejectPrefix, SkipHost, TakeHost, RejectNetwork, SkipPort, Fail, Scanning, AddressErrors
<1>8. CASE UNCHANGED loopVars
  BY <1>8, ScanStep DEF loopVars
<1> QED
  BY <1>1, <1>2, <1>3, <1>4, <1>5, <1>6, <1>7, <1>8 DEF LoopNext

\* allocateGuestIP gives up a host only when it is taken.
LEMMA AddressScanStep ==
    ASSUME LoopInv, AddressScan, [LoopNext]_loopVars
    PROVE  AddressScan'
<1>1. CASE SkipHost
  <2>1. /\ candidate' = candidate + 1 /\ candidate \in existing.addresses
        /\ existing' = existing /\ result' = "address"
    BY <1>1 DEF SkipHost, Scanning
  <2>2. \A n \in 2..candidate : n \in 2..(candidate - 1) \/ n = candidate
    BY DEF AddressScan
  <2>3. \A n \in 2..(candidate' - 1) : n \in existing'.addresses
    BY <2>1, <2>2 DEF AddressScan
  <2> QED
    BY <2>1, <2>3 DEF AddressScan, AddressErrors
<1>2. CASE ~SkipHost
  <2>1. existing' = existing /\ candidate' = candidate
    BY <1>2 DEF LoopNext, loopVars, RejectPrefix, TakeHost, RejectNetwork, RejectInvalid,
       SkipPort, RejectExhausted, RejectAllocated, RejectDuplicate, Bind, Bound, Finish, Fail
  <2>2. maxHost' = maxHost
    BY <2>1 DEF maxHost
  <2>3. \/ result' = result
        \/ result' = "noRange" /\ existing.bits <= 1
        \/ result' = "noAddress" /\ existing.bits > 1 /\ ~(candidate < maxHost)
        \/ /\ result' = "pending" /\ existing.bits > 1 /\ candidate < maxHost
           /\ candidate \notin existing.addresses
        \/ result = "pending" /\ result' \in {"ok"} \cup PortErrors
    BY <1>2 DEF LoopNext, loopVars, RejectPrefix, TakeHost, RejectNetwork, RejectInvalid,
       SkipPort, RejectExhausted, RejectAllocated, RejectDuplicate, Bind, Bound, Finish, Fail,
       Scanning, Settled, Looping, PortErrors
  <2> HIDE DEF maxHost
  <2> QED
    BY <2>1, <2>2, <2>3 DEF AddressScan, AddressErrors, PortErrors
<1> QED
  BY <1>1, <1>2

\* nextFreePort gives up a port only when it is taken.
LEMMA PortScanStep ==
    ASSUME PortScan, [LoopNext]_loopVars
    PROVE  PortScan'
<1>1. CASE SkipPort
  <2>1. /\ probe' = probe + 1 /\ probe \in used \cup reserved
        /\ used' = used /\ reserved' = reserved
    BY <1>1 DEF SkipPort, used
  <2>2. \A n \in PortStart..probe : n \in PortStart..(probe - 1) \/ n = probe
    BY PortAssumption DEF PortScan
  <2>3. \A n \in PortStart..(probe' - 1) : n \in used' \cup reserved'
    BY <2>1, <2>2 DEF PortScan
  <2> QED
    BY <2>1, <2>3, PortAssumption DEF PortScan
<1>2. CASE Bind
  <2>1. probe' = PortStart
    BY <1>2 DEF Bind, Bound
  <2> QED
    BY <2>1, PortAssumption DEF PortScan
<1>3. CASE ~SkipPort /\ ~Bind
  <2>1. probe' = probe /\ used' = used /\ reserved' = reserved
    BY <1>3 DEF LoopNext, loopVars, RejectPrefix, SkipHost, TakeHost, RejectNetwork,
       RejectInvalid, RejectExhausted, RejectAllocated, RejectDuplicate, Finish, Fail, used
  <2> QED
    BY <2>1 DEF PortScan
<1> QED
  BY <1>1, <1>2, <1>3

LEMMA AllocationInvHolds == LoopSpec => []AllocationInv
<1>1. LoopInit => AllocationInv
  <2>1. SUFFICES ASSUME LoopInit PROVE AllocationInv
    OBVIOUS
  <2>2. /\ existing \in Existing /\ requests \in Requests /\ next = 1 /\ reserved = {}
        /\ bindings = << >> /\ result = "address" /\ candidate = 2 /\ probe = PortStart
    BY <2>1 DEF LoopInit
  <2>3. next \in 1..(Len(requests) + 1)
    BY <2>2, RequestsAreSequences
  <2>4. 1..(next - 1) = {}
    BY <2>2
  <2>5. LoopInv
    BY <2>2, <2>3, <2>4 DEF LoopInv, PortErrors
  <2>6. AddressScan
    BY <2>2 DEF AddressScan, AddressErrors
  <2>7. PortScan
    BY <2>2, PortAssumption DEF PortScan
  <2> QED
    BY <2>5, <2>6, <2>7 DEF AllocationInv
<1>2. AllocationInv /\ [LoopNext]_loopVars => AllocationInv'
  BY LoopInvStep, AddressScanStep, PortScanStep DEF AllocationInv
<1> QED
  BY <1>1, <1>2, PTL DEF LoopSpec

\* The search of allocateGuestIP ends where its closed form says: with the host
\* at hand, or with none.
LEMMA ScanFindsGuestIP ==
    ASSUME AllocationInv, result # "address"
    PROVE  LET guest == allocateGuestIP(existing.bits, existing.addresses)
           IN  IF result \in AddressErrors
               THEN guest.ok = FALSE
               ELSE /\ guest.ok = TRUE /\ guest.ip = candidate
                    /\ candidate \in guestHosts(existing.bits) \ existing.addresses
<1> DEFINE guest == allocateGuestIP(existing.bits, existing.addresses)
           free == guestHosts(existing.bits) \ existing.addresses
<1>1. existing.bits \in 0..32
  BY ExistingAssumption DEF AllocationInv, LoopInv
<1>2. PICK top \in Int : top = 2^existing.bits /\ maxHost = top - 1
  BY <1>1 DEF maxHost
<1>3. guestHosts(existing.bits) = 2..(top - 2)
  BY <1>2 DEF guestHosts
<1>4. \A n \in free : candidate <= n
  BY <1>3 DEF AllocationInv, AddressScan
<1>5. CASE result = "noRange"
  <2>1. guest.ok = FALSE
    BY <1>5 DEF AllocationInv, AddressScan, allocateGuestIP
  <2> QED
    BY <1>5, <2>1 DEF AddressErrors
<1>6. CASE result = "noAddress"
  <2>1. free = {}
    BY <1>2, <1>3, <1>4, <1>6 DEF AllocationInv, AddressScan
  <2>2. guest.ok = FALSE
    BY <2>1 DEF allocateGuestIP
  <2> QED
    BY <1>6, <2>2 DEF AddressErrors
<1>7. CASE result \notin AddressErrors
  <2>1. existing.bits > 1 /\ candidate \in free
    BY <1>2, <1>3, <1>7 DEF AllocationInv, AddressScan
  <2>2. guest.ok = TRUE
    BY <1>1, <2>1 DEF allocateGuestIP
  <2>3. guest.ip \in Nat /\ guest.ip \in free /\ guest.ip <= candidate
    BY <2>1, <2>2, GuestIPIsFree
  <2>4. candidate <= guest.ip /\ candidate \in Nat
    BY <1>4, <2>3 DEF AllocationInv, AddressScan
  <2>5. guest.ip = candidate
    BY <2>3, <2>4
  <2> QED
    BY <1>7, <2>1, <2>2, <2>5
<1> QED
  BY <1>5, <1>6, <1>7 DEF AddressErrors

-----------------------------------------------------------------------------
(* What the sort of the bindings leaves *)

\* The sorted bindings are the bindings of the requests, each once, in strictly
\* increasing order of their host ports.
LEMMA SortedBindings ==
    ASSUME LoopInv, result = "ok"
    PROVE  \E n \in Nat : \E f \in Bijection(1..n, 1..n) :
              /\ n = Len(requests)
              /\ DOMAIN bindings = 1..n /\ Len(bindings) = n
              /\ \A i \in 1..n : f[i] \in 1..n /\ bindings[i] = bindingOf(f[i])
              /\ \A i, j \in 1..n : i < j => bindings[i].host <= bindings[j].host
<1>1. PICK n \in Nat : n = Len(requests)
  BY RequestsAreSequences DEF LoopInv
<1> DEFINE s == [i \in 1..n |-> bindingOf(i)]
<1>2. DOMAIN s = 1..n /\ \A i \in 1..n : s[i] = bindingOf(i)
  OBVIOUS
<1>3. bindings \in SortSlice(s)
  BY <1>1 DEF LoopInv
<1> HIDE DEF s
<1>4. /\ bindings \in {[i \in 1..n |-> s[f[i]]] : f \in Bijection(1..n, 1..n)}
      /\ \A i, j \in 1..n : i < j => bindings[i].host <= bindings[j].host
  BY <1>2, <1>3 DEF SortSlice
<1>5. PICK f \in Bijection(1..n, 1..n) : bindings = [i \in 1..n |-> s[f[i]]]
  BY <1>4
<1>6. f \in [1..n -> 1..n]
  BY DEF Bijection, Injection
<1>7. \A i \in 1..n : f[i] \in 1..n /\ bindings[i] = bindingOf(f[i])
  BY <1>2, <1>5, <1>6
<1>8. DOMAIN bindings = 1..n
  BY <1>5
<1>9. Len(bindings) = n
  <2>1. PICK S : bindings \in [1..n -> S]
    <3>1. bindings \in [1..n -> {bindings[i] : i \in 1..n}]
      BY <1>5, <1>8
    <3> QED
      BY <3>1
  <2>2. bindings \in Seq(S)
    BY <2>1
  <2> QED
    BY <1>8, <2>2
<1> QED
  BY <1>1, <1>4, <1>7, <1>8, <1>9

\* No two requests are granted the same port.
LEMMA PortsAreDistinct ==
    ASSUME LoopInv, NEW i \in 1..(next - 1), NEW j \in 1..(next - 1), i # j
    PROVE  portOf(i) # portOf(j)
<1>1. next - 1 \in Nat
  BY RequestsAreSequences DEF LoopInv
<1>2. granted(i) /\ granted(j)
  BY DEF LoopInv
<1>3. \/ i \in 1..(j - 1)
      \/ j \in 1..(i - 1)
  BY <1>1
<1> QED
  BY <1>2, <1>3 DEF granted

\* Whatever the payload and what is taken already, Allocate reports exhaustion
\* only when no port of the publish range, or no usable host, is left.
THEOREM ExhaustedOnlyWhenFullHolds == LoopSpec => []ExhaustedOnlyWhenFull
<1>1. ASSUME LoopInv, result = "exhausted"
      PROVE  PortStart..PortEnd \subseteq
                used \cup {bindings[i].host : i \in 1..Len(bindings)}
  <2>1. LoopInv /\ result = "exhausted" /\ result # "ok"
    BY <1>1
  <2>2. next \in 1..Len(requests) /\ portOf(next) = 0 /\ requests[next].host = 0
        /\ portOf(next) = IF req.host # 0 THEN req.host ELSE nextFreePort(used, reserved)
    BY <2>1, PortOfNext DEF LoopInv, PortErrors
  <2>3. nextFreePort(used, reserved) = 0
    BY <2>2 DEF req
  <2>4. PortStart..PortEnd \subseteq used \cup reserved
    BY <2>3, NextFreePortIsFree
  <2>5. PICK n \in Nat : n = next - 1
    BY <2>2
  <2>6. bindings = [i \in 1..n |-> bindingOf(i)]
    BY <2>1, <2>5 DEF LoopInv
  <2>7. Len(bindings) = n
    BY <2>6
  <2>8. \A i \in 1..n : bindings[i].host = portOf(i)
    BY <2>6 DEF bindingOf
  <2>9. reserved = {portOf(i) : i \in 1..n}
    BY <2>1, <2>5 DEF LoopInv
  <2> QED
    BY <2>4, <2>7, <2>8, <2>9
<1>2. ASSUME AllocationInv, result \in AddressErrors
      PROVE  2..(2^existing.bits - 2) \subseteq existing.addresses
  <2>1. existing.bits \in 0..32
    BY <1>2, ExistingAssumption DEF AllocationInv, LoopInv
  <2>2. CASE result = "noRange"
    <3>1. existing.bits = 0 \/ existing.bits = 1
      BY <1>2, <2>1, <2>2 DEF AllocationInv, AddressScan
    <3>2. 2^0 = 1 /\ 2^1 = 2
      OBVIOUS
    <3>3. 2^existing.bits = 1 \/ 2^existing.bits = 2
      BY <3>1, <3>2, Zenon
    <3> QED
      BY <3>3
  <2>3. CASE result = "noAddress"
    <3>1. PICK top \in Int : top = 2^existing.bits
      BY <2>1
    <3>2. ~(candidate < top - 1)
      BY <1>2, <2>3, <3>1 DEF AllocationInv, AddressScan, maxHost
    <3>3. \A n \in 2..(top - 2) : n \in existing.addresses
      BY <1>2, <3>2 DEF AllocationInv, AddressScan
    <3> QED
      BY <3>1, <3>3
  <2> QED
    BY <1>2, <2>2, <2>3 DEF AddressErrors
<1>3. AllocationInv => ExhaustedOnlyWhenFull
  BY <1>1, <1>2 DEF AllocationInv, ExhaustedOnlyWhenFull
<1> QED
  BY <1>3, AllocationInvHolds, PTL

\* The loops of Allocate, host by host, port by port and request by request, and
\* the closed forms the manager's model uses return the same verdict, address
\* and bindings, whatever the order sort.Slice leaves equal elements in.
THEOREM AgreesWithClosedFormHolds == LoopSpec => []AgreesWithClosedForm
<1>1. AllocationInv => AgreesWithClosedForm
  <2> SUFFICES ASSUME AllocationInv PROVE AgreesWithClosedForm
    OBVIOUS
  <2>0. LoopInv
    BY DEF AllocationInv
  <2> DEFINE whole == allocatePorts(used, requests)
             guest == allocateGuestIP(existing.bits, existing.addresses)
  <2>1. whole.ok = \A i \in 1..Len(requests) : granted(i)
    BY DEF allocatePorts, granted, portOf
  <2>2. whole.bindings = {bindingOf(i) : i \in 1..Len(requests)}
    BY DEF allocatePorts, bindingOf, portOf
  <2> HIDE DEF whole, guest
  <2>3. CASE result = "ok"
    <3>1. whole.ok
      BY <2>0, <2>1, <2>3, RequestsAreSequences DEF LoopInv
    <3>2. PICK n \in Nat : \E f \in Bijection(1..n, 1..n) :
              /\ n = Len(requests)
              /\ DOMAIN bindings = 1..n
              /\ \A i \in 1..n : f[i] \in 1..n /\ bindings[i] = bindingOf(f[i])
      BY <2>0, <2>3, SortedBindings
    <3>3. PICK f \in Bijection(1..n, 1..n) :
              /\ n = Len(requests)
              /\ DOMAIN bindings = 1..n
              /\ \A i \in 1..n : f[i] \in 1..n /\ bindings[i] = bindingOf(f[i])
      BY <3>2
    <3>4. \A k \in 1..n : \E i \in 1..n : f[i] = k
      BY DEF Bijection, Surjection
    <3>5. Range(bindings) = {bindings[i] : i \in 1..n}
      BY <3>3 DEF Range
    <3>6. ASSUME NEW k \in 1..n
          PROVE  bindingOf(k) \in Range(bindings)
      <4>1. PICK i \in 1..n : f[i] = k
        BY <3>4
      <4>2. bindings[i] = bindingOf(k)
        BY <3>3, <4>1, Zenon
      <4> QED
        BY <3>5, <4>2
    <3>7. ASSUME NEW i \in 1..n
          PROVE  bindings[i] \in whole.bindings
      BY <2>2, <3>3, Zenon
    <3>8. Range(bindings) = whole.bindings
      <4>1. Range(bindings) \subseteq whole.bindings
        BY <3>5, <3>7, Zenon
      <4>2. whole.bindings \subseteq Range(bindings)
        BY <2>2, <3>3, <3>6, Zenon
      <4> QED
        BY <4>1, <4>2
    <3>9. whole.ok = TRUE
      BY <2>1, <3>1
    <3>10. guest.ok = TRUE /\ guest.ip = candidate
      BY <2>3, ScanFindsGuestIP DEF AddressErrors, guest
    <3> QED
      BY <2>3, <3>8, <3>9, <3>10, Zenon DEF AgreesWithClosedForm, whole, guest
  <2>4. CASE result \in PortErrors
    <3>1. next \in 1..Len(requests) /\ ~granted(next)
      BY <2>0, <2>4, PortOfNext DEF LoopInv
    <3>2. whole.ok = FALSE
      BY <2>1, <3>1
    <3>3. result # "ok"
      BY <2>4 DEF PortErrors
    <3> QED
      BY <3>2, <3>3, Zenon DEF AgreesWithClosedForm, whole
  <2>5. CASE result \in AddressErrors
    <3>1. guest.ok = FALSE
      BY <2>5, ScanFindsGuestIP DEF AddressErrors, guest
    <3>2. result # "ok"
      BY <2>5 DEF AddressErrors
    <3> QED
      BY <3>1, <3>2, Zenon DEF AgreesWithClosedForm, guest
  <2>6. CASE result \in {"address", "pending"}
    BY <2>6 DEF AgreesWithClosedForm
  <2> QED
    BY <2>0, <2>3, <2>4, <2>5, <2>6 DEF LoopInv
<1> QED
  BY <1>1, AllocationInvHolds, PTL

\* The address of a successful call is usable and free; its bindings answer the
\* payload one for one, avoid the ports of the existing VMs and each other, and
\* are sorted.
THEOREM AllocationIsSoundHolds == LoopSpec => []AllocationIsSound
<1>1. AllocationInv => AllocationIsSound
  <2> SUFFICES ASSUME AllocationInv, result = "ok" PROVE AllocationIsSound
    BY Zenon DEF AllocationIsSound
  <2>0. LoopInv
    BY DEF AllocationInv
  <2>1. PICK n \in Nat : \E f \in Bijection(1..n, 1..n) :
              /\ n = Len(requests)
              /\ DOMAIN bindings = 1..n /\ Len(bindings) = n
              /\ \A i \in 1..n : f[i] \in 1..n /\ bindings[i] = bindingOf(f[i])
              /\ \A i, j \in 1..n : i < j => bindings[i].host <= bindings[j].host
    BY <2>0, SortedBindings
  <2>2. PICK f \in Bijection(1..n, 1..n) :
              /\ n = Len(requests)
              /\ DOMAIN bindings = 1..n /\ Len(bindings) = n
              /\ \A i \in 1..n : f[i] \in 1..n /\ bindings[i] = bindingOf(f[i])
              /\ \A i, j \in 1..n : i < j => bindings[i].host <= bindings[j].host
    BY <2>1
  <2>3. /\ \A i, j \in 1..n : f[i] = f[j] => i = j
        /\ \A k \in 1..n : \E i \in 1..n : f[i] = k
        /\ f \in [1..n -> 1..n]
    BY DEF Bijection, Injection, Surjection, IsInjective
  <2>4. n = next - 1 /\ \A i \in 1..n : granted(i)
    BY <2>0, <2>2 DEF LoopInv
  <2>5. \A i \in 1..n : bindings[i].host = portOf(f[i]) /\ bindings[i].guest = requests[f[i]].guest
    BY <2>2 DEF bindingOf
  <2> DEFINE answers == [k \in 1..n |-> CHOOSE i \in 1..n : f[i] = k]
  <2>6. \A k \in 1..n : answers[k] \in 1..n /\ f[answers[k]] = k
    BY <2>3, Zenon
  <2>7. answers \in Injection(1..n, 1..n)
    <3>1. answers \in [1..n -> 1..n]
      BY <2>6, Zenon
    <3> HIDE DEF answers
    <3> QED
      BY <2>6, <3>1 DEF Injection, IsInjective
  <2> HIDE DEF answers
  <2>8. ASSUME NEW k \in 1..n
        PROVE  Honours(bindings[answers[k]], requests[k])
    <3>1. /\ bindings[answers[k]].host = portOf(k)
          /\ bindings[answers[k]].guest = requests[k].guest
      BY <2>5, <2>6
    <3>2. granted(k)
      BY <2>4
    <3>3. settles(hostPorts(used, requests), used, requests)
      BY <2>0, RequestsAreSequences, HostPortsDef DEF LoopInv
    <3>4. portOf(k) = IF requests[k].host # 0 THEN requests[k].host
                      ELSE nextFreePort(used, {portOf(j) : j \in 1..(k - 1)})
      BY <2>2, <3>3, Zenon DEF settles, portOf
    <3>5. requests[k].host = 0 => portOf(k) \in PortStart..PortEnd
      <4>1. PICK reservedBefore : reservedBefore = {portOf(j) : j \in 1..(k - 1)}
        OBVIOUS
      <4>2. requests[k].host = 0 => portOf(k) = nextFreePort(used, reservedBefore)
        BY <3>4, <4>1
      <4>3. portOf(k) # 0
        BY <3>2 DEF granted
      <4> QED
        BY <4>2, <4>3, NextFreePortIsFree
    <3> QED
      BY <3>1, <3>4, <3>5 DEF Honours
  <2>9. \A i \in 1..n : bindings[i].host \notin used
    BY <2>2, <2>4, <2>5 DEF granted
  <2>10. ASSUME NEW i \in 1..n, NEW j \in 1..n, i < j
         PROVE  bindings[i].host < bindings[j].host
    <3>1. f[i] # f[j] /\ f[i] \in 1..n /\ f[j] \in 1..n
      BY <2>3, <2>10
    <3>2. portOf(f[i]) # portOf(f[j])
      BY <2>0, <2>4, <3>1, PortsAreDistinct
    <3>3. bindings[i].host <= bindings[j].host
      BY <2>2, <2>10
    <3>4. portOf(f[i]) \in Nat /\ portOf(f[j]) \in Nat
      BY <2>4, <3>1 DEF granted
    <3> QED
      BY <2>5, <3>2, <3>3, <3>4
  <2>11. candidate \in 2..(2^existing.bits - 2) \ existing.addresses
    BY ScanFindsGuestIP DEF AddressErrors, guestHosts
  <2> QED
    BY <2>2, <2>7, <2>8, <2>9, <2>10, <2>11 DEF AllocationIsSound, IsSorted
<1> QED
  BY <1>1, AllocationInvHolds, PTL

=============================================================================

--------------------------- MODULE RegistryProofs ---------------------------
(***************************************************************************)
(* Theorems about the VMs that mergend has registered.                     *)
(*                                                                         *)
(* First, two of them share a guest address or a host port only if their   *)
(* creations overlapped.  CreateVM reads the metadata of the others, plans *)
(* and saves without a lock, so the argument cannot be mutual exclusion:   *)
(* it is that while a creation is between ListVMIDs and the write of       *)
(* meta.json, every registered VM is one it has yet to read, one it has    *)
(* read and avoids, or one registered meanwhile.                           *)
(*                                                                         *)
(* Second, Manager implements Registry, and a registered VM has its files. *)
(* The creation of a VM takes no lock until it starts the VM, so it can    *)
(* run into a delete of the same VM: the argument is that a creation owns  *)
(* its id, that files go only after the VM is doomed, that a doomed id is  *)
(* never registered again and that the lock leaves one delete at a time.   *)
(* What a step does to the files and to what clients were told is one of   *)
(* six effects; the invariant and the refinement are shown by effect.      *)
(*                                                                         *)
(* Third, when every systemctl is waited for, a VM that was stopped or     *)
(* deleted does not come up again.  The argument is that systemd has a job *)
(* only while a handler holds the VM's lock and waits for it, and that a   *)
(* unit on its way up without a job has lost its files for good.           *)
(***************************************************************************)
EXTENDS ManagerProofs

-----------------------------------------------------------------------------
(* Addresses and ports *)

Planning == {"list"} \cup Window

Planned == Window \ {"read"}

\* Creations in progress have ids of their own, not yet registered.
CreatorsApart ==
    /\ \A p \in Handler : pc[p] \in Planning => vm[p] \in issued /\ ~Exists(vm[p])
    /\ \A p, q \in Handler :
          p # q /\ pc[p] \in Planning /\ pc[q] \in Planning => vm[p] # vm[q]

\* ListVMIDs finds every registered VM.
RegisteredIsListed ==
    \A v \in VM : Exists(v) => v \in issued /\ "configDir" \in entries[v]

NothingOverlooked ==
    \A p \in Handler : pc[p] \in Window =>
        \A v \in VM : Exists(v) => v \in missed[p] \/ v \in todo[p] \/ meta[v] \in metas[p]

PlanAvoidsRead ==
    \A p \in Handler : pc[p] \in Planned =>
        /\ plan[p] \in Meta
        /\ todo[p] = {}
        /\ \A m \in metas[p] : ~shareAddress(m, plan[p])

AddressInv == /\ TypeInv
              /\ CreatorsApart
              /\ RegisteredIsListed
              /\ NothingOverlooked
              /\ PlanAvoidsRead
              /\ SharedOnlyIfOverlapping

-----------------------------------------------------------------------------
\* A step that registers no VM, draws no id and advances no creation in its
\* planning keeps the invariant.
LEMMA AddressFrame ==
    ASSUME AddressInv, TypeInv', issued' = issued, rivals' = rivals,
           \A v \in VM : meta'[v] = meta[v] \/ meta'[v] = NoMeta,
           \A v \in VM : meta'[v] # NoMeta => "configDir" \in entries'[v],
           \A q \in Handler : pc'[q] \in Planning =>
               /\ pc[q] \in Planning
               /\ pc'[q] \in Window => pc[q] \in Window
               /\ pc'[q] \in Planned => pc[q] \in Planned
               /\ vm'[q] = vm[q]
               /\ todo'[q] = todo[q]
               /\ metas'[q] = metas[q]
               /\ plan'[q] = plan[q]
               /\ missed'[q] = missed[q]
    PROVE  AddressInv'
<1>1. \A q \in Handler : pc[q] \in Planning => vm[q] \in VM
  BY DEF AddressInv, TypeInv, Busy, Planning, Window
<1>2. CreatorsApart'
  BY <1>1 DEF AddressInv, CreatorsApart, Exists
<1>3. RegisteredIsListed'
  BY DEF AddressInv, RegisteredIsListed, Exists
<1>4. NothingOverlooked'
  BY DEF AddressInv, NothingOverlooked, Exists, Planning
<1>5. PlanAvoidsRead'
  BY DEF AddressInv, PlanAvoidsRead, Planning, Planned
<1>6. SharedOnlyIfOverlapping'
  BY DEF AddressInv, SharedOnlyIfOverlapping, Exists
<1> QED
  BY <1>2, <1>3, <1>4, <1>5, <1>6 DEF AddressInv

\* A new creation draws an id nobody has.
LEMMA AddressRequestCreate ==
    ASSUME AddressInv, TypeInv', NEW p \in Handler, RequestCreate(p)
    PROVE  AddressInv'
<1>1. PICK v \in VM \ issued : /\ vm' = [vm EXCEPT ![p] = v]
                               /\ issued' = issued \cup {v}
  BY DEF RequestCreate
<1>2. /\ pc' = [pc EXCEPT ![p] = "list"]
      /\ UNCHANGED <<meta, entries, todo, metas, plan, missed, rivals>>
  BY DEF RequestCreate, Goto, storeVars, planning, history
<1>3. /\ pc \in [Handler -> {"idle"} \cup Unlocked \cup Critical]
      /\ vm \in [Handler -> VM \cup {None}]
  BY DEF AddressInv, TypeInv, TypeOK
<1>4. ~Exists(v)
  BY <1>1 DEF AddressInv, RegisteredIsListed
<1>5. CreatorsApart'
  BY <1>1, <1>2, <1>3, <1>4 DEF AddressInv, CreatorsApart, Exists
<1>6. RegisteredIsListed'
  BY <1>1, <1>2 DEF AddressInv, RegisteredIsListed, Exists
<1>7. "list" \notin Window
  BY DEF Window
<1>8. NothingOverlooked'
  BY <1>2, <1>3, <1>7 DEF AddressInv, NothingOverlooked, Exists
<1>9. PlanAvoidsRead'
  BY <1>2, <1>3, <1>7 DEF AddressInv, PlanAvoidsRead, Planned
<1>10. SharedOnlyIfOverlapping'
  BY <1>2 DEF AddressInv, SharedOnlyIfOverlapping, Exists
<1> QED
  BY <1>5, <1>6, <1>8, <1>9, <1>10 DEF AddressInv

\* ListVMIDs puts every registered VM on the list of those to be read.
LEMMA AddressListIDs ==
    ASSUME AddressInv, TypeInv', NEW p \in Handler, ListIDs(p)
    PROVE  AddressInv'
<1>1. /\ pc[p] = "list"
      /\ pc' = [pc EXCEPT ![p] = "read"]
      /\ todo' = [todo EXCEPT ![p] = ListVMIDs]
      /\ UNCHANGED <<meta, entries, vm, metas, plan, missed, issued, rivals>>
  BY DEF ListIDs, Goto, storeVars, request, history
<1>2. /\ pc \in [Handler -> {"idle"} \cup Unlocked \cup Critical]
      /\ todo \in [Handler -> SUBSET VM]
  BY DEF AddressInv, TypeInv, TypeOK
<1>3. "list" \in Planning
  BY DEF Planning
<1>4. CreatorsApart'
  BY <1>1, <1>2, <1>3 DEF AddressInv, CreatorsApart, Exists
<1>5. RegisteredIsListed'
  BY <1>1 DEF AddressInv, RegisteredIsListed, Exists
<1>6. \A v \in VM : Exists(v) => v \in ListVMIDs
  BY DEF AddressInv, RegisteredIsListed, ListVMIDs
<1>7. NothingOverlooked'
  BY <1>1, <1>2, <1>6 DEF AddressInv, NothingOverlooked, Exists
<1>8. PlanAvoidsRead'
  BY <1>1, <1>2 DEF AddressInv, PlanAvoidsRead, Planned
<1>9. SharedOnlyIfOverlapping'
  BY <1>1 DEF AddressInv, SharedOnlyIfOverlapping, Exists
<1> QED
  BY <1>4, <1>5, <1>7, <1>8, <1>9 DEF AddressInv

\* A VM leaves the list of those to be read when its metadata is read or
\* when it is not registered any more.
LEMMA AddressReadNext ==
    ASSUME AddressInv, TypeInv', NEW p \in Handler, ReadNextMeta(p)
    PROVE  AddressInv'
<1>1. PICK v \in todo[p] :
          /\ todo' = [todo EXCEPT ![p] = @ \ {v}]
          /\ metas' = [metas EXCEPT ![p] = IF Exists(v) THEN @ \cup {meta[v]} ELSE @]
  BY DEF ReadNextMeta
<1>2. /\ pc[p] = "read"
      /\ UNCHANGED <<pc, meta, entries, vm, plan, missed, issued, rivals>>
  BY DEF ReadNextMeta, storeVars, request, history
<1>3. /\ todo \in [Handler -> SUBSET VM]
      /\ metas \in [Handler -> SUBSET Meta]
  BY DEF AddressInv, TypeInv, TypeOK
<1>4. CreatorsApart' /\ RegisteredIsListed' /\ SharedOnlyIfOverlapping'
  BY <1>2 DEF AddressInv, CreatorsApart, RegisteredIsListed, SharedOnlyIfOverlapping,
     Exists
<1>5. NothingOverlooked'
  BY <1>1, <1>2, <1>3 DEF AddressInv, NothingOverlooked, Exists
<1>6. PlanAvoidsRead'
  BY <1>1, <1>2, <1>3 DEF AddressInv, PlanAvoidsRead, Planned
<1> QED
  BY <1>4, <1>5, <1>6 DEF AddressInv

\* The plan avoids what was read.
LEMMA AddressAllocate ==
    ASSUME AddressInv, TypeInv', NEW p \in Handler, NEW asked,
           pc[p] = "read", todo[p] = {},
           Allocate(metas[p], asked).ok,
           plan' = [plan EXCEPT ![p] = Allocate(metas[p], asked).meta],
           Goto(p, "configDir"),
           UNCHANGED <<storeVars, lock, unitVars, request, todo, metas,
                       missed, listed, out, issued, history>>
    PROVE  AddressInv'
<1> DEFINE new == Allocate(metas[p], asked).meta
<1>1. /\ pc' = [pc EXCEPT ![p] = "configDir"]
      /\ UNCHANGED <<meta, entries, vm, todo, metas, missed, issued, rivals>>
  BY DEF Goto, storeVars, request, history
<1>2. /\ pc \in [Handler -> {"idle"} \cup Unlocked \cup Critical]
      /\ plan \in [Handler -> Meta \cup {NoMeta}]
  BY DEF AddressInv, TypeInv, TypeOK
<1>3. new \in Meta /\ \A m \in metas[p] : m.ip # new.ip /\ m.ports \cap new.ports = {}
  BY AllocateAvoidsExisting DEF Meta
<1> HIDE DEF new
<1>4. \A m \in metas[p] : ~shareAddress(m, new)
  BY <1>3 DEF shareAddress
<1>5. plan' = [plan EXCEPT ![p] = new]
  BY DEF new
<1>6. CreatorsApart'
  BY <1>1, <1>2 DEF AddressInv, CreatorsApart, Exists, Planning, Window
<1>7. RegisteredIsListed' /\ SharedOnlyIfOverlapping'
  BY <1>1 DEF AddressInv, RegisteredIsListed, SharedOnlyIfOverlapping, Exists
<1>8. NothingOverlooked'
  BY <1>1, <1>2 DEF AddressInv, NothingOverlooked, Exists, Window
<1>9. PlanAvoidsRead'
  BY <1>1, <1>2, <1>3, <1>4, <1>5 DEF AddressInv, PlanAvoidsRead
<1> QED
  BY <1>6, <1>7, <1>8, <1>9 DEF AddressInv

\* A VM is registered: whatever is registered already was avoided by its
\* plan or is among its rivals, and every other creation learns to expect it.
LEMMA AddressSaveMeta ==
    ASSUME AddressInv, TypeInv', NEW p \in Handler, SaveMeta(p)
    PROVE  AddressInv'
<1> DEFINE id == vm[p]
<1>1. /\ pc[p] = "meta.json"
      /\ pc' = [pc EXCEPT ![p] = "hooks.json"]
      /\ meta' = [meta EXCEPT ![id] = plan[p]]
      /\ entries' = [entries EXCEPT ![id] = @ \cup {"configDir"}]
      /\ metas' = [metas EXCEPT ![p] = {}]
      /\ plan' = [plan EXCEPT ![p] = NoMeta]
      /\ rivals' = [rivals EXCEPT ![id] = missed[p]]
      /\ UNCHANGED <<vm, todo, issued>>
  BY DEF SaveMeta, writeMeta, Goto, request
<1>2. \A q \in Handler : q # p /\ pc[q] \in Window => missed'[q] = missed[q] \cup {id}
  BY DEF SaveMeta
<1>3. /\ pc \in [Handler -> {"idle"} \cup Unlocked \cup Critical]
      /\ meta \in [VM -> Meta \cup {NoMeta}]
      /\ entries \in [VM -> SUBSET Entry]
      /\ metas \in [Handler -> SUBSET Meta]
      /\ plan \in [Handler -> Meta \cup {NoMeta}]
      /\ rivals \in [VM -> SUBSET VM]
      /\ id \in VM
  BY <1>1 DEF AddressInv, TypeInv, TypeOK, Busy
<1>4. pc[p] \in Window /\ pc[p] \in Planning /\ pc[p] \in Planned
  BY <1>1 DEF Window, Planning, Planned
<1>5. id \in issued /\ meta[id] = NoMeta /\ plan[p] \in Meta
  BY <1>4 DEF AddressInv, CreatorsApart, PlanAvoidsRead, Exists
<1>6. "hooks.json" \notin Planning
  BY DEF Planning, Window
<1>7. \A q \in Handler : pc'[q] \in Planning => q # p /\ pc'[q] = pc[q] /\ vm[q] # id
  BY <1>1, <1>3, <1>4, <1>6 DEF AddressInv, CreatorsApart
<1>8. CreatorsApart'
  <2>1. \A q \in Handler : pc[q] \in Planning => vm[q] \in VM
    BY DEF AddressInv, TypeInv, Busy, Planning, Window
  <2> QED
    BY <1>1, <1>3, <1>7, <2>1 DEF AddressInv, CreatorsApart, Exists
<1>9. RegisteredIsListed'
  BY <1>1, <1>3, <1>5 DEF AddressInv, RegisteredIsListed, Exists
<1>10. NothingOverlooked'
  <2> SUFFICES ASSUME NEW q \in Handler, pc'[q] \in Window, NEW v \in VM, meta'[v] # NoMeta
               PROVE  v \in missed'[q] \/ v \in todo'[q] \/ meta'[v] \in metas'[q]
    BY DEF NothingOverlooked, Exists
  <2>1. q # p /\ pc[q] \in Window /\ metas'[q] = metas[q]
    BY <1>1, <1>3, <1>7 DEF Planning
  <2>2. CASE v = id
    BY <1>2, <2>1, <2>2
  <2>3. CASE v # id
    BY <1>1, <1>2, <1>3, <2>1, <2>3 DEF AddressInv, NothingOverlooked, Exists
  <2> QED
    BY <2>2, <2>3
<1>11. PlanAvoidsRead'
  BY <1>1, <1>3, <1>7 DEF AddressInv, PlanAvoidsRead, Planned, Planning
<1>12. SharedOnlyIfOverlapping'
  <2>1. \A a \in VM : a # id /\ Exists(a) =>
            a \in missed[p] \/ ~shareAddress(meta[a], plan[p])
    BY <1>4 DEF AddressInv, NothingOverlooked, PlanAvoidsRead
  <2>2. \A a \in VM : a # id /\ Exists(a) =>
            a \in missed[p] \/ ~shareAddress(plan[p], meta[a])
    BY <2>1 DEF shareAddress
  <2>3. \A a \in VM : a # id => meta'[a] = meta[a] /\ rivals'[a] = rivals[a]
    BY <1>1, <1>3
  <2>4. meta'[id] = plan[p] /\ rivals'[id] = missed[p]
    BY <1>1, <1>3
  <2> SUFFICES ASSUME NEW a \in VM, NEW b \in VM, a # b,
                      meta'[a] # NoMeta, meta'[b] # NoMeta,
                      shareAddress(meta'[a], meta'[b])
               PROVE  a \in rivals'[b] \/ b \in rivals'[a]
    BY DEF SharedOnlyIfOverlapping, Exists, shareAddress
  <2>5. CASE a = id
    BY <2>2, <2>3, <2>4, <2>5 DEF Exists
  <2>6. CASE b = id
    BY <2>1, <2>3, <2>4, <2>6 DEF Exists
  <2>7. CASE a # id /\ b # id
    BY <2>3, <2>7 DEF AddressInv, SharedOnlyIfOverlapping, Exists
  <2> QED
    BY <2>5, <2>6, <2>7
<1> QED
  BY <1>8, <1>9, <1>10, <1>11, <1>12 DEF AddressInv

-----------------------------------------------------------------------------
(* The other steps *)

\* A handler replies, with the files as they are.
LEMMA AddressAnswer ==
    ASSUME AddressInv, TypeInv', NEW p \in Handler, NEW status,
           Answer(p, status), UNCHANGED storeVars
    PROVE  AddressInv'
<1>1. /\ pc \in [Handler -> {"idle"} \cup Unlocked \cup Critical]
      /\ vm \in [Handler -> VM \cup {None}]
      /\ todo \in [Handler -> SUBSET VM]
      /\ metas \in [Handler -> SUBSET Meta]
      /\ plan \in [Handler -> Meta \cup {NoMeta}]
      /\ missed \in [Handler -> SUBSET VM]
  BY DEF AddressInv, TypeInv, TypeOK
<1>2. "idle" \notin Planning
  BY DEF Planning, Window
<1>3. \A q \in Handler : pc'[q] \in Planning =>
          /\ q # p
          /\ pc'[q] = pc[q]
          /\ vm'[q] = vm[q]
          /\ todo'[q] = todo[q]
          /\ metas'[q] = metas[q]
          /\ plan'[q] = plan[q]
          /\ missed'[q] = missed[q]
  BY <1>1, <1>2 DEF Answer, Goto
<1>4. /\ issued' = issued
      /\ rivals' = rivals
      /\ meta' = meta
      /\ entries' = entries
  BY DEF Answer, storeVars
<1>5. \A v \in VM : meta'[v] # NoMeta => "configDir" \in entries'[v]
  BY <1>4 DEF AddressInv, RegisteredIsListed, Exists
<1> QED
  BY <1>3, <1>4, <1>5, AddressFrame

\* A handler moves on outside of the planning, or from one directory or
\* file to the next, and removes or adds files.
LEMMA AddressMove ==
    ASSUME AddressInv, TypeInv', NEW p \in Handler,
           NEW label, pc' = [pc EXCEPT ![p] = label],
           label \in Planning => label \in Planned /\ pc[p] \in Planned /\ vm' = vm,
           \A q \in Handler : q # p => vm'[q] = vm[q],
           UNCHANGED <<planning, issued, rivals>>,
           \A v \in VM : meta'[v] = meta[v] \/ meta'[v] = NoMeta,
           \A v \in VM : meta'[v] # NoMeta => "configDir" \in entries'[v]
    PROVE  AddressInv'
<1>1. pc \in [Handler -> {"idle"} \cup Unlocked \cup Critical]
  BY DEF AddressInv, TypeInv, TypeOK
<1>2. \A q \in Handler : pc'[q] \in Planning =>
          /\ pc[q] \in Planning
          /\ pc'[q] \in Window => pc[q] \in Window
          /\ pc'[q] \in Planned => pc[q] \in Planned
          /\ vm'[q] = vm[q]
  BY <1>1 DEF Planned, Planning
<1>3. UNCHANGED <<todo, metas, plan, missed>>
  BY DEF planning
<1> QED
  BY <1>2, <1>3, AddressFrame

\* The steps that leave the files as they are.
LEMMA AddressIdleSteps ==
    ASSUME AddressInv, TypeInv', NEW p \in Handler,
           \/ RequestOn(p) \/ Created(p) \/ CheckExists(p) \/ lockVM(p)
           \/ SystemctlStep(p) \/ ReadMeta(p) \/ StatAndList(p) \/ FailLocked(p)
    PROVE  AddressInv'
<1>1. CASE \E status : Answer(p, status) /\ UNCHANGED storeVars
  BY <1>1, AddressAnswer
<1>2. CASE ~\E status : Answer(p, status) /\ UNCHANGED storeVars
  <2>1. PICK label : /\ pc' = [pc EXCEPT ![p] = label]
                     /\ label \notin Planning
    BY <1>2 DEF RequestOn, Created, CheckExists, lockVM, SystemctlStep, IsActiveSkips,
       IsActiveActs, IsActiveKilled, SystemctlUnavailable, SendJob, JobEnds,
       SystemctlKilled, AfterSystemctl, ReadMeta, StatAndList, FailLocked, Reply, Return,
       Goto, Planning, Window
  <2>2. /\ \A q \in Handler : q # p => vm'[q] = vm[q]
        /\ UNCHANGED <<planning, issued, rivals>>
        /\ meta' = meta /\ entries' = entries
    BY <1>2 DEF RequestOn, Created, CheckExists, lockVM, SystemctlStep, IsActiveSkips,
       IsActiveActs, IsActiveKilled, SystemctlUnavailable, SendJob, JobEnds,
       SystemctlKilled, AfterSystemctl, ReadMeta, StatAndList, FailLocked, Reply, Return,
       storeVars, history, request, AddressInv, TypeInv, TypeOK
  <2>3. \A v \in VM : meta'[v] # NoMeta => "configDir" \in entries'[v]
    BY <2>2 DEF AddressInv, RegisteredIsListed, Exists
  <2> QED
    BY <2>1, <2>2, <2>3, AddressMove
<1> QED
  BY <1>1, <1>2

\* SaveVM before and after meta.json.
LEMMA AddressSave ==
    ASSUME AddressInv, TypeInv', NEW p \in Handler,
           SaveDir(p) \/ SaveVMConfig(p) \/ SaveHooks(p) \/ SaveEnv(p)
    PROVE  AddressInv'
<1>1. PICK label : /\ pc' = [pc EXCEPT ![p] = label]
                   /\ label \in Planning => label \in Planned /\ pc[p] \in Planned
  BY DEF SaveDir, AfterSaving, Directory, SaveVMConfig, SaveHooks, SaveEnv, Goto,
     Planning, Planned, Window
<1>2. vm' = vm /\ UNCHANGED <<planning, issued, rivals>> /\ meta' = meta
  BY DEF SaveDir, MkdirAll, SaveVMConfig, SaveHooks, SaveEnv, writeFile, request,
     history, storeVars
<1>3. \A v \in VM : entries[v] \subseteq entries'[v]
  <2>1. entries \in [VM -> SUBSET Entry]
    BY DEF AddressInv, TypeInv, TypeOK
  <2> QED
    BY <2>1 DEF SaveDir, MkdirAll, SaveVMConfig, SaveHooks, SaveEnv, writeFile, storeVars
<1>4. \A v \in VM : meta'[v] # NoMeta => "configDir" \in entries'[v]
  BY <1>2, <1>3 DEF AddressInv, RegisteredIsListed, Exists
<1> QED
  BY <1>1, <1>2, <1>4, AddressMove

\* Files are removed; the config directory goes only when it is empty.
LEMMA AddressRemove ==
    ASSUME AddressInv, TypeInv', NEW p \in Handler,
           UnlinkNext(p) \/ RemoveConfigDir(p) \/ RemoveRunDir(p) \/ RemoveDataDir(p)
    PROVE  AddressInv'
<1>1. /\ pc \in [Handler -> {"idle"} \cup Unlocked \cup Critical]
      /\ listed \in [Handler -> SUBSET ConfigFile]
      /\ meta \in [VM -> Meta \cup {NoMeta}]
      /\ entries \in [VM -> SUBSET Entry]
  BY DEF AddressInv, TypeInv, TypeOK
<1>2. PICK label : /\ pc' = [pc EXCEPT ![p] = label]
                   /\ label \notin Planning
  BY <1>1 DEF UnlinkNext, RemoveConfigDir, RemoveRunDir, RemoveDataDir, Return, Goto,
     Planning, Window
<1>3. vm' = vm /\ UNCHANGED <<planning, issued, rivals>>
  BY DEF UnlinkNext, RemoveConfigDir, RemoveRunDir, RemoveDataDir, Return, request,
     history
<1>4. \A v \in VM : meta'[v] = meta[v] \/ meta'[v] = NoMeta
  BY <1>1 DEF UnlinkNext, unlink, RemoveConfigDir, RemoveRunDir, RemoveDataDir, rmdir,
     storeVars
<1>5. \A v \in VM : meta[v] # NoMeta => "configDir" \in entries[v]
  BY DEF AddressInv, RegisteredIsListed, Exists
<1>6. \A v \in VM : meta'[v] # NoMeta => "configDir" \in entries'[v]
  <2>1. CASE UnlinkNext(p)
    BY <1>1, <1>5, <2>1 DEF UnlinkNext, unlink, ConfigFile, storeVars
  <2>2. CASE RemoveConfigDir(p)
    BY <1>1, <1>5, <2>2 DEF RemoveConfigDir, rmdir, configFiles, Exists, storeVars
  <2>3. CASE RemoveRunDir(p) \/ RemoveDataDir(p)
    BY <1>1, <1>5, <2>3 DEF RemoveRunDir, RemoveDataDir, rmdir, storeVars
  <2> QED
    BY <2>1, <2>2, <2>3
<1> QED
  BY <1>2, <1>3, <1>4, <1>6, AddressMove

\* What systemd and the VM do touches neither metadata nor plans.
LEMMA AddressUnit ==
    ASSUME AddressInv, TypeInv', NEW v \in VM, UnitStep(v)
    PROVE  AddressInv'
<1>1. UNCHANGED <<pc, vm, todo, metas, plan, missed, issued, rivals>>
  BY DEF UnitStep, managerVars, request, planning
<1>2. meta' = meta /\ \A w \in VM : entries[w] \subseteq entries'[w]
  <2>1. CASE ExecStartPre(v)
    BY <2>1 DEF ExecStartPre, MkdirAll, AddressInv, TypeInv, TypeOK
  <2>2. CASE ~ExecStartPre(v)
    BY <2>2 DEF UnitStep, UnitNext, BeginStart, ExecStartPreFails, ExecStartPost,
       ExecStartPostFails, StartFails, MainExits, StartLimitHit, StopEnds, storeVars
  <2> QED
    BY <2>1, <2>2
<1>3. \A w \in VM : meta'[w] # NoMeta => "configDir" \in entries'[w]
  BY <1>2 DEF AddressInv, RegisteredIsListed, Exists
<1> QED
  BY <1>1, <1>2, <1>3, AddressFrame

\* A crash forgets the plans and keeps the files.
LEMMA AddressCrash ==
    ASSUME AddressInv, TypeInv', Crash
    PROVE  AddressInv'
<1>1. \A q \in Handler : pc'[q] \notin Planning
  BY DEF Crash, Planning, Window
<1>2. UNCHANGED <<meta, entries, issued, rivals>>
  BY DEF Crash, storeVars, history
<1>3. \A v \in VM : meta'[v] # NoMeta => "configDir" \in entries'[v]
  BY <1>2 DEF AddressInv, RegisteredIsListed, Exists
<1> QED
  BY <1>1, <1>2, <1>3, AddressFrame

\* No step of mergend or of systemd breaks the address invariant.
LEMMA AddressNext == AddressInv /\ [Next]_vars => AddressInv'
<1> SUFFICES ASSUME AddressInv, [Next]_vars
             PROVE  AddressInv'
  OBVIOUS
<1>1. TypeInv'
  BY TypeNext DEF AddressInv
<1>2. CASE UNCHANGED vars
  BY <1>1, <1>2 DEF vars, storeVars, request, planning, history, AddressInv, CreatorsApart,
     RegisteredIsListed, NothingOverlooked, PlanAvoidsRead, SharedOnlyIfOverlapping, Exists
<1>3. ASSUME NEW p \in Handler, CreateStep(p)
      PROVE  AddressInv'
  <2>1. CASE ValidateFails(p)
    BY <1>1, <2>1, AddressAnswer DEF ValidateFails, Reply
  <2>2. CASE AllocateFor(p)
    <3>1. PICK asked \in Payloads :
            \/ /\ Allocate(metas[p], asked).ok
               /\ plan' = [plan EXCEPT ![p] = Allocate(metas[p], asked).meta]
               /\ Goto(p, "configDir")
               /\ UNCHANGED <<storeVars, lock, unitVars, request, todo, metas,
                              missed, listed, out, issued, history>>
            \/ Reply(p, 400)
      BY <2>2 DEF AllocateFor
    <3>2. CASE Reply(p, 400)
      BY <1>1, <3>2, AddressAnswer DEF Reply
    <3> QED
      BY <1>1, <2>2, <3>1, <3>2, AddressAllocate DEF AllocateFor
  <2> QED
    BY <1>1, <1>3, <2>1, <2>2, AddressListIDs, AddressReadNext, AddressSave,
       AddressSaveMeta, AddressIdleSteps DEF CreateStep
<1>4. ASSUME NEW p \in Handler, DeleteStep(p)
      PROVE  AddressInv'
  BY <1>1, <1>4, AddressIdleSteps, AddressRemove DEF DeleteStep
<1>5. ASSUME NEW p \in Handler, ReleaseAndReply(p) \/ FailUnlocked(p)
      PROVE  AddressInv'
  BY <1>1, <1>5, AddressAnswer DEF ReleaseAndReply, FailUnlocked, Reply
<1>6. ASSUME NEW p \in Handler, RequestCreate(p) \/ RequestOn(p) \/ HandlerStep(p)
      PROVE  AddressInv'
  BY <1>1, <1>3, <1>4, <1>5, <1>6, AddressRequestCreate, AddressIdleSteps DEF HandlerStep
<1>7. ASSUME NEW v \in VM, UnitStep(v)
      PROVE  AddressInv'
  BY <1>1, <1>7, AddressUnit
<1>8. CASE Crash
  BY <1>1, <1>8, AddressCrash
<1> QED
  BY <1>2, <1>6, <1>7, <1>8 DEF Next

\* Overlapping creations are the only way two registered VMs come to share
\* a guest address or a host port, for any number of VMs and handlers and
\* whatever fails or crashes.
THEOREM SharedOnlyIfOverlappingHolds == Spec => []SharedOnlyIfOverlapping
<1>1. Init => AddressInv
  BY TypeInit DEF Init, StoreInit, AddressInv, CreatorsApart, RegisteredIsListed,
     NothingOverlooked, PlanAvoidsRead, SharedOnlyIfOverlapping, Exists, Planning,
     Planned, Window
<1>2. AddressInv => SharedOnlyIfOverlapping
  BY DEF AddressInv
<1> QED
  BY <1>1, <1>2, AddressNext, PTL DEF Spec

Saving == {"hooks.json", "env", "created"}

Removing == {"unlink", "rmrun", "rmdata"}

\* DeleteVM has succeeded and has yet to release the lock and reply.
Deleted(p) == pc[p] = "release" /\ op[p] = "delete" /\ out[p] = 200

\* What SaveVM has written by now.
FilesSoFar(p) ==
    /\ pc[p] \notin {"list", "read", "configDir"} => "configDir" \in entries[vm[p]]
    /\ pc[p] \notin {"list", "read", "configDir", "runDir"} => "runDir" \in entries[vm[p]]
    /\ pc[p] \notin Planning \ {"vm.json", "meta.json"} => "dataDir" \in entries[vm[p]]
    /\ pc[p] \notin Planning \ {"meta.json"} => "vm.json" \in entries[vm[p]]
    /\ pc[p] \notin Planning \cup {"hooks.json", "env"} => "env" \in entries[vm[p]]

\* A creation keeps its id for itself, its VM is registered once meta.json is
\* written, and its files are there unless a delete has begun.
Creator(p) ==
    /\ pc[p] \in Planning \cup Saving => op[p] = "create"
    /\ pc[p] = "release" /\ out[p] = 201 => op[p] = "create"
    /\ op[p] = "create" =>
          /\ pc[p] # "idle"
          /\ vm[p] \in issued \ acked
          /\ pc[p] \in Planning => vm[p] \notin doomed
          /\ pc[p] \notin Planning => Exists(vm[p]) \/ vm[p] \in doomed
          /\ vm[p] \notin doomed => FilesSoFar(p)

\* A delete removes files only of a VM that is doomed and that no other delete
\* was told to be gone, and succeeds only without meta.json.
Deleter(p) ==
    /\ pc[p] \in Removing \/ Deleted(p) => vm[p] \in doomed \ gone
    /\ pc[p] \in {"rmrun", "rmdata"} \/ Deleted(p) => ~Exists(vm[p])

OneCreatorPerVM ==
    \A p, q \in Handler : p # q /\ op[p] = "create" /\ op[q] = "create" => vm[p] # vm[q]

\* What clients were told, and what is to be removed, is of issued ids; what
\* is gone stays gone.
ToldIsTrue ==
    /\ doomed \cup acked \subseteq issued
    /\ \A v \in gone : v \in doomed /\ ~Exists(v)

FilesInv == ToldIsTrue /\ RegisteredHasConfig /\ AckedIsComplete

RegistryInv == /\ LockInv
               /\ AddressInv
               /\ \A p \in Handler : Creator(p)
               /\ \A p \in Handler : Deleter(p)
               /\ OneCreatorPerVM
               /\ FilesInv

-----------------------------------------------------------------------------
(* What a step does to the files and to what clients were told *)

told == <<doomed, acked, gone>>

FilesKept == meta' = meta /\ \A v \in VM : entries[v] \subseteq entries'[v]

Quiet == FilesKept /\ UNCHANGED told

Registers(p) ==
    /\ pc[p] = "meta.json"
    /\ meta' = [meta EXCEPT ![vm[p]] = plan[p]]
    /\ \A v \in VM : entries[v] \subseteq entries'[v]
    /\ UNCHANGED told

Dooms(p) ==
    /\ pc[p] = "stat"
    /\ Exists(vm[p])
    /\ FilesKept
    /\ doomed' = doomed \cup {vm[p]}
    /\ UNCHANGED <<acked, gone>>

Removes(p) ==
    /\ pc[p] \in Removing
    /\ \A v \in VM \ {vm[p]} : meta'[v] = meta[v] /\ entries'[v] = entries[v]
    /\ meta'[vm[p]] \in {meta[vm[p]], NoMeta}
    /\ UNCHANGED told

AnswersCreate(p) ==
    /\ op[p] = "create"
    /\ pc[p] \notin Planning \cup {"hooks.json", "env"}
    /\ op'[p] # "create"
    /\ FilesKept
    /\ acked' = acked \cup {vm[p]}
    /\ UNCHANGED <<doomed, gone>>

AnswersDelete(p) ==
    /\ Deleted(p)
    /\ FilesKept
    /\ gone' = gone \cup {vm[p]}
    /\ UNCHANGED <<doomed, acked>>

Effect(p) == \/ Quiet
             \/ Registers(p)
             \/ Dooms(p)
             \/ Removes(p)
             \/ AnswersCreate(p)
             \/ AnswersDelete(p)

-----------------------------------------------------------------------------
(* The effects keep what is shared and the clauses of the other handlers *)

\* The VM of a creation about to write meta.json is new to everyone.
LEMMA RegistersNew ==
    ASSUME RegistryInv, NEW p \in Handler, pc[p] = "meta.json"
    PROVE  /\ vm[p] \in VM
           /\ vm[p] \notin doomed \cup acked \cup gone
           /\ ~Exists(vm[p])
           /\ plan[p] # NoMeta
           /\ {"configDir", "vm.json"} \subseteq entries[vm[p]]
<1>1. pc[p] \in Planning /\ pc[p] \in Planned
  BY DEF Planning, Planned, Window
<1>2. /\ Creator(p)
      /\ vm[p] \in VM
      /\ ~Exists(vm[p])
      /\ plan[p] \in Meta
      /\ \A v \in gone : v \in doomed
  BY <1>1 DEF RegistryInv, AddressInv, TypeInv, Busy, CreatorsApart, PlanAvoidsRead,
     FilesInv, ToldIsTrue
<1> QED
  BY <1>1, <1>2, NoMetaAssumption DEF Creator, FilesSoFar

\* What was told to clients stays true, and the files stay complete.
LEMMA SharedKept ==
    ASSUME RegistryInv, NEW p \in Handler, Effect(p), issued \subseteq issued'
    PROVE  FilesInv'
<1>1. /\ ToldIsTrue /\ RegisteredHasConfig /\ AckedIsComplete
      /\ Creator(p) /\ Deleter(p)
      /\ meta \in [VM -> Meta \cup {NoMeta}]
      /\ doomed \subseteq VM /\ acked \subseteq VM /\ gone \subseteq VM
      /\ \A v \in VM : Exists(v) => v \in issued
  BY DEF RegistryInv, FilesInv, LockInv, AddressInv, TypeInv, TypeOK, RegisteredIsListed
<1>2. pc[p] # "idle" => vm[p] \in VM
  BY DEF RegistryInv, LockInv, TypeInv, Busy
<1>3. CASE Quiet
  BY <1>1, <1>3 DEF Quiet, FilesKept, told, FilesInv, ToldIsTrue, RegisteredHasConfig,
     AckedIsComplete, Exists
<1>4. CASE Registers(p)
  <2>1. /\ \A v \in VM \ {vm[p]} : meta'[v] = meta[v]
        /\ \A v \in VM : entries[v] \subseteq entries'[v]
        /\ doomed' = doomed /\ acked' = acked /\ gone' = gone
    BY <1>1, <1>4 DEF Registers, told
  <2>2. /\ vm[p] \notin doomed \cup acked \cup gone
        /\ {"configDir", "vm.json"} \subseteq entries[vm[p]]
    BY <1>4, RegistersNew DEF Registers
  <2>3. ToldIsTrue'
    BY <1>1, <2>1, <2>2 DEF ToldIsTrue, Exists
  <2>4. RegisteredHasConfig'
    BY <1>1, <2>1, <2>2 DEF RegisteredHasConfig, Exists
  <2>5. AckedIsComplete'
    BY <1>1, <2>1, <2>2 DEF AckedIsComplete, Exists
  <2> QED
    BY <2>3, <2>4, <2>5 DEF FilesInv
<1>5. CASE Dooms(p)
  <2>1. /\ meta' = meta
        /\ \A v \in VM : entries[v] \subseteq entries'[v]
        /\ doomed' = doomed \cup {vm[p]} /\ acked' = acked /\ gone' = gone
    BY <1>5 DEF Dooms, FilesKept
  <2> QED
    BY <1>1, <1>2, <1>5, <2>1 DEF Dooms, FilesInv, ToldIsTrue, RegisteredHasConfig,
       AckedIsComplete, Exists
<1>6. CASE Removes(p)
  <2>1. vm[p] \in doomed
    BY <1>1, <1>6 DEF Removes, Deleter
  <2>2. /\ \A v \in VM \ {vm[p]} : meta'[v] = meta[v] /\ entries'[v] = entries[v]
        /\ meta'[vm[p]] \in {meta[vm[p]], NoMeta}
        /\ doomed' = doomed /\ acked' = acked /\ gone' = gone
    BY <1>6 DEF Removes, told
  <2> QED
    BY <1>1, <2>1, <2>2 DEF FilesInv, ToldIsTrue, RegisteredHasConfig, AckedIsComplete, Exists
<1>7. CASE AnswersCreate(p)
  <2>1. /\ vm[p] \in issued
        /\ vm[p] \notin doomed => Exists(vm[p]) /\ FilesSoFar(p)
    BY <1>1, <1>7 DEF AnswersCreate, Creator
  <2>2. vm[p] \notin doomed => Directory \cup {"vm.json", "env"} \subseteq entries[vm[p]]
    BY <1>7, <2>1 DEF AnswersCreate, FilesSoFar, Directory, Planning, Window
  <2> QED
    BY <1>1, <1>2, <1>7, <2>1, <2>2 DEF AnswersCreate, Creator, FilesKept, FilesInv,
       ToldIsTrue, RegisteredHasConfig, AckedIsComplete, Exists
<1>8. CASE AnswersDelete(p)
  BY <1>1, <1>2, <1>8 DEF AnswersDelete, Deleter, FilesKept, FilesInv, ToldIsTrue,
     RegisteredHasConfig, AckedIsComplete, Exists
<1> QED
  BY <1>3, <1>4, <1>5, <1>6, <1>7, <1>8 DEF Effect

\* A creation that waits keeps its id, its registration and its files,
\* whatever another handler does.
LEMMA CreatorWaits ==
    ASSUME RegistryInv, NEW p \in Handler, Effect(p), OthersWait(p), issued \subseteq issued',
           NEW q \in Handler \ {p}
    PROVE  Creator(q)'
<1>1. /\ pc'[q] = pc[q] /\ op'[q] = op[q] /\ vm'[q] = vm[q] /\ out'[q] = out[q]
  BY DEF OthersWait
<1>2. /\ Creator(q) /\ Creator(p) /\ Deleter(p)
      /\ op[p] = "create" /\ op[q] = "create" => vm[p] # vm[q]
      /\ meta \in [VM -> Meta \cup {NoMeta}]
      /\ pc[q] # "idle" => vm[q] \in VM
      /\ pc[q] \in Planning => ~Exists(vm[q])
  BY DEF RegistryInv, OneCreatorPerVM, LockInv, AddressInv, TypeInv, TypeOK, Busy,
     CreatorsApart
<1> SUFFICES ASSUME op[q] = "create"
             PROVE  /\ vm[q] \in issued' \ acked'
                    /\ pc[q] \in Planning => vm[q] \notin doomed'
                    /\ pc[q] \notin Planning => meta'[vm[q]] # NoMeta \/ vm[q] \in doomed'
                    /\ vm[q] \notin doomed' => entries[vm[q]] \subseteq entries'[vm[q]]
                    /\ doomed \subseteq doomed'
  BY <1>1, <1>2 DEF Creator, FilesSoFar, Exists
<1>3. vm[q] \in VM
  BY <1>2 DEF Creator
<1>4. CASE Quiet
  BY <1>2, <1>3, <1>4 DEF Quiet, FilesKept, told, Creator, Exists
<1>5. CASE Registers(p)
  <2>1. vm[p] \in VM /\ plan[p] # NoMeta
    BY <1>5, RegistersNew DEF Registers
  <2> QED
    BY <1>2, <1>3, <1>5, <2>1 DEF Registers, told, Creator, Exists
<1>6. CASE Dooms(p)
  BY <1>2, <1>3, <1>6 DEF Dooms, FilesKept, Creator, Exists
<1>7. CASE Removes(p)
  BY <1>2, <1>3, <1>7 DEF Removes, told, Creator, Deleter, Exists
<1>8. CASE AnswersCreate(p)
  BY <1>2, <1>3, <1>8 DEF AnswersCreate, FilesKept, Creator, Exists
<1>9. CASE AnswersDelete(p)
  BY <1>2, <1>3, <1>9 DEF AnswersDelete, FilesKept, Creator, Exists
<1> QED
  BY <1>4, <1>5, <1>6, <1>7, <1>8, <1>9 DEF Effect

\* A delete that waits keeps its VM doomed and unanswered: nobody registers a
\* doomed id and the only one to answer for its VM is the holder of the lock.
LEMMA DeleterWaits ==
    ASSUME RegistryInv, NEW p \in Handler, Effect(p), OthersWait(p),
           NEW q \in Handler \ {p}
    PROVE  Deleter(q)'
<1>1. /\ pc'[q] = pc[q] /\ op'[q] = op[q] /\ vm'[q] = vm[q] /\ out'[q] = out[q]
  BY DEF OthersWait
<1>2. /\ Deleter(q) /\ Deleter(p)
      /\ meta \in [VM -> Meta \cup {NoMeta}]
      /\ pc[q] # "idle" => vm[q] \in VM
  BY DEF RegistryInv, LockInv, TypeInv, TypeOK, Busy
<1> SUFFICES ASSUME pc[q] \in Removing \/ Deleted(q)
             PROVE  /\ vm[q] \in doomed' \ gone'
                    /\ ~Exists(vm[q]) => meta'[vm[q]] = NoMeta
  BY <1>1, <1>2 DEF Deleter, Deleted, Exists, Removing
<1>3. vm[q] \in VM /\ vm[q] \in doomed \ gone /\ pc[q] \in Critical
  BY <1>2 DEF Deleter, Deleted, Removing, Critical
<1>4. CASE Quiet
  BY <1>3, <1>4 DEF Quiet, FilesKept, told, Exists
<1>5. CASE Registers(p)
  <2>1. vm[p] \in VM /\ vm[p] \notin doomed
    BY <1>5, RegistersNew DEF Registers
  <2> QED
    BY <1>2, <1>3, <1>5, <2>1 DEF Registers, told, Exists
<1>6. CASE Dooms(p)
  BY <1>3, <1>6 DEF Dooms, FilesKept, Exists
<1>7. CASE Removes(p)
  BY <1>3, <1>7 DEF Removes, told, Exists
<1>8. CASE AnswersCreate(p)
  BY <1>3, <1>8 DEF AnswersCreate, FilesKept, Exists
<1>9. CASE AnswersDelete(p)
  <2>1. pc[p] \in Critical
    BY <1>9 DEF AnswersDelete, Deleted, Critical
  <2>2. vm[p] # vm[q]
    BY <1>3, <2>1, OneInCritical DEF RegistryInv
  <2> QED
    BY <1>3, <1>9, <2>2 DEF AnswersDelete, FilesKept, Exists
<1> QED
  BY <1>4, <1>5, <1>6, <1>7, <1>8, <1>9 DEF Effect

-----------------------------------------------------------------------------
(* The steps, one by one: their effect, and the clauses of the handler *)

\* What a step of p has to do.
StepKeeps(p) == /\ Effect(p)
                /\ OthersWait(p)
                /\ issued \subseteq issued'
                /\ Creator(p)' /\ Deleter(p)'
                /\ op'[p] = "create" =>
                      \/ op[p] = "create" /\ vm'[p] = vm[p]
                      \/ vm'[p] \notin issued

\* A reply ends the request; 201 and, for a delete, 200 are given only by
\* those who have earned it.
LEMMA AnswerKeeps ==
    ASSUME RegistryInv, NEW p \in Handler, OthersWait(p), NEW status,
           Answer(p, status), UNCHANGED storeVars,
           status = 201 => /\ op[p] = "create"
                           /\ pc[p] \notin Planning \cup {"hooks.json", "env"},
           status = 200 => pc[p] = "release" /\ out[p] = 200
    PROVE  StepKeeps(p)
<1>1. /\ pc \in [Handler -> {"idle"} \cup Unlocked \cup Critical]
      /\ op \in [Handler -> {"none", "create", "start", "stop", "delete"}]
  BY DEF RegistryInv, LockInv, TypeInv, TypeOK
<1>2. pc'[p] = "idle" /\ op'[p] = "none" /\ issued' = issued
  BY <1>1 DEF Answer, Goto
<1>3. Creator(p)' /\ Deleter(p)'
  BY <1>2 DEF Creator, Deleter, Deleted, Planning, Saving, Removing, Window
<1>4. /\ FilesKept
      /\ doomed' = doomed
      /\ acked' = IF status = 201 THEN acked \cup {vm[p]} ELSE acked
      /\ gone' = IF op[p] = "delete" /\ status = 200 THEN gone \cup {vm[p]} ELSE gone
  BY DEF Answer, storeVars, FilesKept
<1>5. Effect(p)
  BY <1>2, <1>4 DEF Effect, Quiet, told, AnswersCreate, AnswersDelete, Deleted
<1> QED
  BY <1>2, <1>3, <1>5 DEF StepKeeps

\* A creation draws an id that nobody was told about.
LEMMA RequestCreateKeeps ==
    ASSUME RegistryInv, NEW p \in Handler, OthersWait(p), RequestCreate(p)
    PROVE  StepKeeps(p)
<1>1. /\ pc \in [Handler -> {"idle"} \cup Unlocked \cup Critical]
      /\ op \in [Handler -> {"none", "create", "start", "stop", "delete"}]
      /\ vm \in [Handler -> VM \cup {None}]
      /\ doomed \cup acked \subseteq issued
  BY DEF RegistryInv, LockInv, TypeInv, TypeOK, FilesInv, ToldIsTrue
<1>2. /\ pc'[p] = "list" /\ op'[p] = "create"
      /\ vm'[p] \in issued' \ issued
      /\ issued \subseteq issued'
  BY <1>1 DEF RequestCreate, Goto
<1>3. Quiet
  BY DEF RequestCreate, storeVars, history, Quiet, FilesKept, told
<1>4. Creator(p)'
  BY <1>1, <1>2, <1>3 DEF Creator, FilesSoFar, Quiet, told, Planning
<1>5. Deleter(p)'
  BY <1>2 DEF Deleter, Deleted, Removing
<1> QED
  BY <1>2, <1>3, <1>4, <1>5 DEF StepKeeps, Effect

\* SaveVM and the steps before it: one file after the other.
LEMMA CreationKeeps ==
    ASSUME RegistryInv, NEW p \in Handler, OthersWait(p),
           NEW label, pc' = [pc EXCEPT ![p] = label],
           UNCHANGED <<op, vm, out, issued, doomed, acked, gone>>,
           pc[p] \in Planning \cup Saving,
           Registers(p) \/ FilesKept,
           label \in Planning => pc[p] \in Planning,
           label \in (Planning \cup Saving \cup {"exists"}),
           pc[p] \in Planning /\ label \notin Planning => Registers(p),
           FilesSoFar(p) => FilesSoFar(p)'
    PROVE  StepKeeps(p)
<1>1. pc \in [Handler -> {"idle"} \cup Unlocked \cup Critical]
  BY DEF RegistryInv, LockInv, TypeInv, TypeOK
<1>2. Creator(p) /\ meta \in [VM -> Meta \cup {NoMeta}]
  BY DEF RegistryInv, LockInv, TypeInv, TypeOK
<1>3. pc'[p] = label /\ op'[p] = "create" /\ op[p] = "create"
  BY <1>1, <1>2 DEF Creator
<1>4. Registers(p) => vm[p] \in VM /\ plan[p] # NoMeta
  BY RegistersNew DEF Registers
<1>5. Exists(vm[p]) => meta'[vm[p]] # NoMeta
  BY <1>2, <1>4 DEF Registers, FilesKept, Exists
<1>6. Registers(p) => meta'[vm[p]] # NoMeta
  BY <1>2, <1>4 DEF Registers
<1>7. Creator(p)'
  BY <1>2, <1>3, <1>5, <1>6 DEF Creator, Exists, Planning, Saving, Window
<1>8. Deleter(p)'
  BY <1>3 DEF Deleter, Deleted, Removing, Planning, Saving, Window
<1>9. Effect(p)
  BY DEF Effect, Quiet, told
<1> QED
  BY <1>3, <1>7, <1>8, <1>9 DEF StepKeeps

\* The steps of CreateVM.
LEMMA CreateKeeps ==
    ASSUME RegistryInv, NEW p \in Handler, OthersWait(p), CreateStep(p)
    PROVE  StepKeeps(p)
<1>1. /\ pc \in [Handler -> {"idle"} \cup Unlocked \cup Critical]
      /\ entries \in [VM -> SUBSET Entry]
      /\ pc[p] # "idle" => vm[p] \in VM
      /\ Creator(p)
  BY DEF RegistryInv, LockInv, TypeInv, TypeOK, Busy
<1>2. CASE ValidateFails(p)
  BY <1>2, AnswerKeeps DEF ValidateFails, Reply
<1>3. CASE ListIDs(p) \/ ReadNextMeta(p)
  <2>1. /\ pc[p] \in {"list", "read"}
        /\ pc' = [pc EXCEPT ![p] = "read"]
        /\ UNCHANGED <<op, vm, out, issued, doomed, acked, gone>>
        /\ meta' = meta /\ entries' = entries
    BY <1>1, <1>3 DEF ListIDs, ReadNextMeta, Goto, request, history, storeVars
  <2>2. FilesKept /\ FilesSoFar(p)'
    BY <1>1, <2>1 DEF FilesKept, FilesSoFar, Planning, Window
  <2> QED
    BY <2>1, <2>2, CreationKeeps DEF Planning, Window
<1>4. CASE AllocateFor(p)
  <2>1. PICK asked \in Payloads :
          \/ /\ Goto(p, "configDir")
             /\ UNCHANGED <<storeVars, lock, unitVars, request, todo, metas,
                            missed, listed, out, issued, history>>
          \/ Reply(p, 400)
    BY <1>4 DEF AllocateFor
  <2>2. CASE Reply(p, 400)
    BY <2>2, AnswerKeeps DEF Reply
  <2>3. CASE ~Reply(p, 400)
    <3>1. /\ pc[p] = "read"
          /\ pc' = [pc EXCEPT ![p] = "configDir"]
          /\ UNCHANGED <<op, vm, out, issued, doomed, acked, gone>>
          /\ meta' = meta /\ entries' = entries
      BY <1>4, <2>1, <2>3 DEF AllocateFor, Goto, request, history, storeVars
    <3>2. FilesKept /\ FilesSoFar(p)'
      BY <1>1, <3>1 DEF FilesKept, FilesSoFar, Planning, Window
    <3> QED
      BY <3>1, <3>2, CreationKeeps DEF Planning, Window
  <2> QED
    BY <2>2, <2>3
<1>5. CASE SaveDir(p)
  <2>1. /\ pc[p] \in Directory
        /\ pc' = [pc EXCEPT ![p] = AfterSaving[pc[p]]]
        /\ UNCHANGED <<op, vm, out, issued, doomed, acked, gone>>
        /\ meta' = meta
        /\ entries' = [entries EXCEPT ![vm[p]] = @ \cup {pc[p]}]
    BY <1>5 DEF SaveDir, MkdirAll, Goto, request, history
  <2>2. FilesKept /\ (FilesSoFar(p) => FilesSoFar(p)')
    BY <1>1, <2>1 DEF FilesKept, FilesSoFar, Directory, AfterSaving, Planning, Window
  <2>3. pc[p] \in Planning /\ AfterSaving[pc[p]] \in Planning
    BY <2>1 DEF Planning, Window, Directory, AfterSaving
  <2> QED
    BY <2>1, <2>2, <2>3, CreationKeeps
<1>6. CASE SaveVMConfig(p)
  <2>1. /\ pc[p] = "vm.json"
        /\ pc' = [pc EXCEPT ![p] = "meta.json"]
        /\ UNCHANGED <<op, vm, out, issued, doomed, acked, gone>>
        /\ meta' = meta
        /\ entries' = [entries EXCEPT ![vm[p]] = @ \cup {"configDir", "vm.json"}]
    BY <1>6 DEF SaveVMConfig, writeFile, Goto, request, history
  <2>2. FilesKept /\ (FilesSoFar(p) => FilesSoFar(p)')
    BY <1>1, <2>1 DEF FilesKept, FilesSoFar, Planning, Window
  <2> QED
    BY <2>1, <2>2, CreationKeeps DEF Planning, Window
<1>7. CASE SaveMeta(p)
  <2>1. /\ pc[p] = "meta.json"
        /\ pc' = [pc EXCEPT ![p] = "hooks.json"]
        /\ UNCHANGED <<op, vm, out, issued, doomed, acked, gone>>
        /\ meta' = [meta EXCEPT ![vm[p]] = plan[p]]
        /\ entries' = [entries EXCEPT ![vm[p]] = @ \cup {"configDir"}]
    BY <1>7 DEF SaveMeta, writeMeta, Goto, request
  <2>2. Registers(p) /\ (FilesSoFar(p) => FilesSoFar(p)')
    BY <1>1, <2>1 DEF Registers, told, FilesSoFar, Planning, Window
  <2> QED
    BY <2>1, <2>2, CreationKeeps DEF Planning, Window, Saving
<1>8. CASE SaveHooks(p) \/ SaveEnv(p)
  <2>1. /\ \/ pc[p] = "hooks.json" /\ pc' = [pc EXCEPT ![p] = "env"]
           \/ /\ pc[p] = "env" /\ pc' = [pc EXCEPT ![p] = "created"]
              /\ entries' = [entries EXCEPT ![vm[p]] = @ \cup {"configDir", "env"}]
        /\ UNCHANGED <<op, vm, out, issued, doomed, acked, gone>>
        /\ meta' = meta
    BY <1>8 DEF SaveHooks, SaveEnv, writeFile, Goto, request, history, storeVars
  <2>2. \A v \in VM : entries[v] \subseteq entries'[v]
    BY <1>1, <1>8 DEF SaveHooks, SaveEnv, writeFile, storeVars
  <2>3. FilesKept /\ (FilesSoFar(p) => FilesSoFar(p)')
    BY <1>1, <2>1, <2>2 DEF FilesKept, FilesSoFar, Planning, Window
  <2>4. /\ {"hooks.json", "env", "created"} \subseteq Saving
        /\ {"hooks.json", "env", "created"} \cap Planning = {}
    BY DEF Planning, Window, Saving
  <2> QED
    BY <2>1, <2>3, <2>4, CreationKeeps
<1>9. CASE Created(p)
  <2>1. CASE Reply(p, 201)
    BY <1>1, <1>9, <2>1, AnswerKeeps DEF Created, Reply, Creator, Saving, Planning, Window
  <2>2. CASE ~Reply(p, 201)
    <3>1. /\ pc[p] = "created"
          /\ pc' = [pc EXCEPT ![p] = "exists"]
          /\ UNCHANGED <<op, vm, out, issued, doomed, acked, gone>>
          /\ meta' = meta /\ entries' = entries
      BY <1>9, <2>2 DEF Created, Goto, request, history, storeVars
    <3>2. FilesKept /\ (FilesSoFar(p) => FilesSoFar(p)')
      BY <1>1, <3>1 DEF FilesKept, FilesSoFar, Planning, Window
    <3> QED
      BY <3>1, <3>2, CreationKeeps DEF Planning, Window, Saving
  <2> QED
    BY <2>1, <2>2
<1> QED
  BY <1>2, <1>3, <1>4, <1>5, <1>6, <1>7, <1>8, <1>9 DEF CreateStep

\* A handler that is done with saving moves on: its VM stays what it was, or
\* is doomed.
LEMMA MoveKeeps ==
    ASSUME RegistryInv, NEW p \in Handler, OthersWait(p),
           NEW label, pc' = [pc EXCEPT ![p] = label],
           UNCHANGED <<op, vm, issued>>,
           pc[p] \in {"exists", "lock"} \cup Critical,
           label \in {"lock"} \cup Critical,
           Quiet \/ Dooms(p) \/ Removes(p),
           label = "release" /\ out'[p] = 201 => op[p] = "create",
           label \in Removing \/ (label = "release" /\ op[p] = "delete" /\ out'[p] = 200)
               => vm[p] \in doomed' \ gone,
           label \in {"rmrun", "rmdata"} \/ (label = "release" /\ op[p] = "delete" /\ out'[p] = 200)
               => meta'[vm[p]] = NoMeta
    PROVE  StepKeeps(p)
<1>1. /\ pc \in [Handler -> {"idle"} \cup Unlocked \cup Critical]
      /\ Creator(p) /\ Deleter(p)
      /\ pc[p] # "idle" => vm[p] \in VM
  BY DEF RegistryInv, LockInv, TypeInv, TypeOK, Busy
<1>2. pc'[p] = label /\ op'[p] = op[p] /\ vm'[p] = vm[p]
  BY <1>1
<1>3. /\ doomed \subseteq doomed' /\ acked' = acked /\ gone' = gone
      /\ vm[p] \notin doomed => meta'[vm[p]] = meta[vm[p]]
      /\ vm[p] \notin doomed => entries[vm[p]] \subseteq entries'[vm[p]]
  BY <1>1 DEF Quiet, Dooms, Removes, FilesKept, told, Deleter, Critical
<1>4. Deleter(p)'
  BY <1>2, <1>3 DEF Deleter, Deleted, Exists, Removing
<1>5. /\ label \notin Planning \cup Saving \cup {"idle"}
      /\ pc[p] \notin Planning \cup Saving
  BY DEF Planning, Window, Saving, Critical
<1>6. vm[p] \notin doomed' /\ op[p] = "create" => FilesSoFar(p)'
  BY <1>1, <1>2, <1>3, <1>5 DEF Creator, FilesSoFar, Planning, Window, Saving
<1>7. Creator(p)'
  BY <1>1, <1>2, <1>3, <1>5, <1>6 DEF Creator, Exists, Saving
<1> QED
  BY <1>2, <1>4, <1>7 DEF StepKeeps, Effect

\* The existence check, the lock, and systemctl.
LEMMA SystemctlKeeps ==
    ASSUME RegistryInv, NEW p \in Handler, OthersWait(p),
           CheckExists(p) \/ lockVM(p) \/ SystemctlStep(p)
    PROVE  StepKeeps(p)
<1>1. CASE Answer(p, 404) /\ UNCHANGED storeVars
  BY <1>1, AnswerKeeps
<1>2. CASE Answer(p, 409) /\ UNCHANGED storeVars
  BY <1>2, AnswerKeeps
<1>3. CASE ~(Answer(p, 404) /\ UNCHANGED storeVars) /\ ~(Answer(p, 409) /\ UNCHANGED storeVars)
  <2>1. /\ out \in [Handler -> Status]
        /\ op \in [Handler -> {"none", "create", "start", "stop", "delete"}]
    BY DEF RegistryInv, LockInv, TypeInv, TypeOK
  <2>2. PICK label : /\ pc' = [pc EXCEPT ![p] = label]
                     /\ label \in {"lock"} \cup (Critical \ Removing)
                     /\ label = "release" => op[p] # "delete"
                     /\ label = "release" /\ out'[p] = 201 => op[p] = "create"
    BY <1>3, <2>1 DEF CheckExists, lockVM, SystemctlStep, IsActiveSkips, IsActiveActs,
       IsActiveKilled, SystemctlUnavailable, SendJob, JobEnds, SystemctlKilled,
       AfterSystemctl, Succeeded, Reply, Return, Goto, Critical, Removing
  <2>3. pc[p] \in {"exists", "lock"} \cup Critical
    BY DEF CheckExists, lockVM, SystemctlStep, IsActiveSkips, IsActiveActs,
       IsActiveKilled, SystemctlUnavailable, SendJob, JobEnds, SystemctlKilled, Critical
  <2>4. /\ UNCHANGED <<op, vm, issued, doomed, acked, gone>>
        /\ meta' = meta /\ entries' = entries
    BY <1>3 DEF CheckExists, lockVM, SystemctlStep, IsActiveSkips, IsActiveActs,
       IsActiveKilled, SystemctlUnavailable, SendJob, JobEnds, SystemctlKilled,
       AfterSystemctl, Reply, Return, request, history, storeVars
  <2>5. Quiet
    BY <2>4 DEF Quiet, FilesKept, told
  <2>6. label \notin Removing /\ {"rmrun", "rmdata"} \subseteq Removing
    BY <2>2 DEF Removing
  <2> QED
    BY <2>2, <2>3, <2>4, <2>5, <2>6, MoveKeeps
<1> QED
  BY <1>1, <1>2, <1>3

\* DeleteVM under the lock: it finds meta.json before it dooms the VM, and
\* the config directory empty before it reports success.
LEMMA DeleteKeeps ==
    ASSUME RegistryInv, NEW p \in Handler, OthersWait(p), DeleteStep(p) \/ FailLocked(p)
    PROVE  StepKeeps(p)
<1>1. /\ out \in [Handler -> Status]
      /\ pc \in [Handler -> {"idle"} \cup Unlocked \cup Critical]
      /\ meta \in [VM -> Meta \cup {NoMeta}]
      /\ entries \in [VM -> SUBSET Entry]
      /\ pc[p] # "idle" => vm[p] \in VM
      /\ Deleter(p) /\ ToldIsTrue
  BY DEF RegistryInv, LockInv, TypeInv, TypeOK, Busy, FilesInv
<1>2. /\ UNCHANGED <<op, vm, issued, acked, gone>>
      /\ pc[p] \in Critical
      /\ ~StatAndList(p) => doomed' = doomed
  BY DEF DeleteStep, ReadMeta, StatAndList, UnlinkNext, RemoveConfigDir, RemoveRunDir,
     RemoveDataDir, FailLocked, AfterSystemctl, Return, request, history, Critical
<1>3. CASE ReadMeta(p) \/ FailLocked(p)
  <2>1. PICK label : /\ pc' = [pc EXCEPT ![p] = label]
                     /\ label \in Critical \ Removing
                     /\ label = "release" => out'[p] # 201 /\ out'[p] # 200
    BY <1>1, <1>3 DEF ReadMeta, FailLocked, AfterSystemctl, Return, Goto, Critical, Removing
  <2>2. meta' = meta /\ entries' = entries /\ doomed' = doomed
    BY <1>3 DEF ReadMeta, FailLocked, storeVars, history
  <2>3. Quiet
    BY <1>2, <2>2 DEF Quiet, FilesKept, told
  <2>4. label \notin Removing /\ {"rmrun", "rmdata"} \subseteq Removing
    BY <2>1 DEF Removing
  <2> QED
    BY <1>2, <2>1, <2>3, <2>4, MoveKeeps
<1>4. CASE StatAndList(p)
  <2>1. CASE Exists(vm[p])
    <3>1. /\ pc' = [pc EXCEPT ![p] = "unlink"]
          /\ doomed' = doomed \cup {vm[p]}
          /\ pc[p] = "stat"
          /\ meta' = meta /\ entries' = entries
      BY <1>4, <2>1 DEF StatAndList, Goto, storeVars
    <3>2. vm[p] \notin gone
      BY <1>1, <2>1 DEF ToldIsTrue
    <3>3. Dooms(p)
      BY <1>2, <2>1, <3>1 DEF Dooms, FilesKept
    <3>4. "unlink" \in Critical
      BY DEF Critical
    <3> QED
      BY <1>2, <3>1, <3>2, <3>3, <3>4, MoveKeeps
  <2>2. CASE ~Exists(vm[p])
    <3>1. /\ pc' = [pc EXCEPT ![p] = "release"]
          /\ out'[p] # 201 /\ out'[p] # 200
          /\ doomed' = doomed
          /\ meta' = meta /\ entries' = entries
      BY <1>1, <1>4, <2>2 DEF StatAndList, Return, Goto, storeVars
    <3>2. Quiet
      BY <1>2, <3>1 DEF Quiet, FilesKept, told
    <3>3. "release" \in Critical /\ "release" \notin Removing
      BY DEF Critical, Removing
    <3> QED
      BY <1>2, <3>1, <3>2, <3>3, MoveKeeps
  <2> QED
    BY <2>1, <2>2
<1>5. CASE UnlinkNext(p) \/ RemoveConfigDir(p) \/ RemoveRunDir(p) \/ RemoveDataDir(p)
  <2>1. PICK label : /\ pc' = [pc EXCEPT ![p] = label]
                     /\ label \in Critical
                     /\ label = "release" => out'[p] # 201
                     /\ label = "release" /\ out'[p] = 200 => pc[p] = "rmdata"
                     /\ label = "rmdata" => pc[p] = "rmrun"
                     /\ label = "rmrun" => configFiles(vm[p]) = {}
    BY <1>1, <1>5 DEF UnlinkNext, RemoveConfigDir, RemoveRunDir, RemoveDataDir, Return,
       Goto, Critical
  <2>2. /\ pc[p] \in Removing /\ vm[p] \in VM
        /\ \A v \in VM \ {vm[p]} : meta'[v] = meta[v] /\ entries'[v] = entries[v]
        /\ meta'[vm[p]] \in {meta[vm[p]], NoMeta}
    BY <1>1, <1>5 DEF UnlinkNext, unlink, RemoveConfigDir, RemoveRunDir, RemoveDataDir, rmdir,
       storeVars, Removing
  <2>3. doomed' = doomed
    BY <1>5 DEF UnlinkNext, RemoveConfigDir, RemoveRunDir, RemoveDataDir, history
  <2>4. Removes(p)
    BY <1>2, <2>2, <2>3 DEF Removes, told
  <2>5. configFiles(vm[p]) = {} => ~Exists(vm[p])
    BY DEF configFiles
  <2>6. vm[p] \in doomed \ gone /\ (pc[p] \in {"rmrun", "rmdata"} => ~Exists(vm[p]))
    BY <1>1, <2>2 DEF Deleter
  <2>7. label \in {"rmrun", "rmdata"} \/ (label = "release" /\ op[p] = "delete" /\ out'[p] = 200)
            => meta[vm[p]] = NoMeta
    BY <2>1, <2>5, <2>6 DEF Exists
  <2> QED
    BY <1>2, <2>1, <2>2, <2>3, <2>4, <2>6, <2>7, MoveKeeps
<1> QED
  BY <1>3, <1>4, <1>5 DEF DeleteStep

\* Every step of a handler.
LEMMA HandlerKeeps ==
    ASSUME RegistryInv, NEW p \in Handler, RequestCreate(p) \/ RequestOn(p) \/ HandlerStep(p)
    PROVE  StepKeeps(p)
<1>1. OthersWait(p)
  BY OthersWaitFor DEF RegistryInv, LockInv
<1>2. CASE RequestOn(p)
  <2>1. /\ pc \in [Handler -> {"idle"} \cup Unlocked \cup Critical]
        /\ op \in [Handler -> {"none", "create", "start", "stop", "delete"}]
    BY DEF RegistryInv, LockInv, TypeInv, TypeOK
  <2>2. pc'[p] = "exists" /\ op'[p] \in {"start", "stop", "delete"} /\ issued' = issued
    BY <1>2, <2>1 DEF RequestOn, Goto
  <2>3. Quiet
    BY <1>2 DEF RequestOn, storeVars, history, Quiet, FilesKept, told
  <2>4. Creator(p)' /\ Deleter(p)'
    BY <2>2 DEF Creator, Deleter, Deleted, Planning, Saving, Removing, Window
  <2> QED
    BY <1>1, <2>2, <2>3, <2>4 DEF StepKeeps, Effect
<1>3. CASE ReleaseAndReply(p)
  <2>1. Creator(p)
    BY DEF RegistryInv
  <2>2. /\ Answer(p, out[p]) /\ UNCHANGED storeVars
        /\ pc[p] = "release"
        /\ out[p] = 201 => op[p] = "create"
        /\ "release" \notin Planning \cup {"hooks.json", "env"}
    BY <1>3, <2>1 DEF ReleaseAndReply, Creator, Planning, Window
  <2> QED
    BY <1>1, <2>2, AnswerKeeps
<1>4. CASE FailUnlocked(p)
  BY <1>1, <1>4, AnswerKeeps DEF FailUnlocked, Reply
<1> QED
  BY <1>1, <1>2, <1>3, <1>4, RequestCreateKeeps, CreateKeeps, SystemctlKeeps, DeleteKeeps
     DEF HandlerStep

\* What the unit's scripts write is a directory; a crash leaves the files.
LEMMA UnitIsQuiet ==
    ASSUME TypeInv, NEW v \in VM, UnitStep(v)
    PROVE  Quiet /\ UNCHANGED <<pc, op, vm, out, issued>>
<1>1. UNCHANGED <<pc, op, vm, out, issued, doomed, acked, gone>>
  BY DEF UnitStep, managerVars, request
<1>2. FilesKept
  <2>1. CASE ExecStartPre(v)
    BY <2>1 DEF ExecStartPre, MkdirAll, FilesKept, TypeInv, TypeOK
  <2>2. CASE ~ExecStartPre(v)
    BY <2>2 DEF UnitStep, UnitNext, BeginStart, ExecStartPreFails, ExecStartPost,
       ExecStartPostFails, StartFails, MainExits, StartLimitHit, StopEnds, storeVars,
       FilesKept
  <2> QED
    BY <2>1, <2>2
<1> QED
  BY <1>1, <1>2 DEF Quiet, told

\* The registry invariant holds in a freshly installed mergend.
LEMMA RegistryInvInit == Init => RegistryInv
<1> SUFFICES ASSUME Init PROVE RegistryInv
  OBVIOUS
<1>1. LockInv
  BY TypeInit, NoneAssumption DEF Init, LockInit, LockInv, LockDiscipline, Critical
<1>2. AddressInv
  BY TypeInit DEF Init, StoreInit, AddressInv, CreatorsApart, RegisteredIsListed,
     NothingOverlooked, PlanAvoidsRead, SharedOnlyIfOverlapping, Exists, Planning,
     Planned, Window
<1>3. \A p \in Handler : Creator(p) /\ Deleter(p)
  BY DEF Init, Creator, Deleter, Deleted, Planning, Saving, Removing, Window
<1>4. OneCreatorPerVM /\ FilesInv
  BY DEF Init, StoreInit, OneCreatorPerVM, FilesInv, ToldIsTrue, RegisteredHasConfig,
     AckedIsComplete, Exists
<1> QED
  BY <1>1, <1>2, <1>3, <1>4 DEF RegistryInv

\* No step of mergend or of systemd breaks the registry invariant.
LEMMA RegistryInvNext == RegistryInv /\ [Next]_vars => RegistryInv'
<1> SUFFICES ASSUME RegistryInv, [Next]_vars
             PROVE  RegistryInv'
  OBVIOUS
<1>1. LockInv' /\ AddressInv'
  BY LockNext, AddressNext DEF RegistryInv
<1>2. ASSUME NEW p \in Handler, RequestCreate(p) \/ RequestOn(p) \/ HandlerStep(p)
      PROVE  RegistryInv'
  <2>1. StepKeeps(p)
    BY <1>2, HandlerKeeps
  <2>2. FilesInv'
    BY <2>1, SharedKept DEF StepKeeps
  <2>3. \A q \in Handler : Creator(q)' /\ Deleter(q)'
    BY <2>1, CreatorWaits, DeleterWaits DEF StepKeeps
  <2>4. OneCreatorPerVM'
    <3>1. \A q \in Handler : op[q] = "create" => vm[q] \in issued
      BY DEF RegistryInv, Creator
    <3> QED
      BY <2>1, <3>1 DEF StepKeeps, OthersWait, RegistryInv, OneCreatorPerVM
  <2> QED
    BY <1>1, <2>2, <2>3, <2>4 DEF RegistryInv
<1>3. ASSUME Quiet, UNCHANGED <<pc, op, vm, out, issued>>
      PROVE  RegistryInv'
  <2>1. \A q \in Handler : pc[q] # "idle" => vm[q] \in VM
    BY DEF RegistryInv, LockInv, TypeInv, Busy
  <2>2. \A q \in Handler : Creator(q)'
    BY <1>3, <2>1 DEF RegistryInv, Creator, FilesSoFar, Quiet, FilesKept, told, Exists
  <2>3. \A q \in Handler : Deleter(q)'
    BY <1>3 DEF RegistryInv, Deleter, Deleted, Quiet, FilesKept, told, Exists
  <2>4. OneCreatorPerVM'
    BY <1>3 DEF RegistryInv, OneCreatorPerVM
  <2>5. doomed \subseteq VM /\ acked \subseteq VM /\ gone \subseteq VM
    BY DEF RegistryInv, LockInv, TypeInv, TypeOK
  <2>6. FilesInv'
    BY <1>3, <2>5 DEF RegistryInv, FilesInv, ToldIsTrue, RegisteredHasConfig,
       AckedIsComplete, Quiet, FilesKept, told, Exists
  <2> QED
    BY <1>1, <2>2, <2>3, <2>4, <2>6 DEF RegistryInv
<1>4. CASE UNCHANGED vars
  BY <1>3, <1>4 DEF vars, storeVars, request, history, Quiet, FilesKept, told
<1>5. ASSUME NEW v \in VM, UnitStep(v)
      PROVE  RegistryInv'
  BY <1>3, <1>5, UnitIsQuiet DEF RegistryInv, LockInv
<1>6. CASE Crash
  <2>1. /\ \A p \in Handler : pc'[p] = "idle" /\ op'[p] = "none"
        /\ UNCHANGED <<meta, entries, issued, doomed, acked, gone>>
    BY <1>6 DEF Crash, storeVars, history
  <2>2. \A p \in Handler : Creator(p)' /\ Deleter(p)'
    BY <2>1 DEF Creator, Deleter, Deleted, Planning, Saving, Removing, Window
  <2>3. OneCreatorPerVM'
    BY <2>1 DEF OneCreatorPerVM
  <2>4. FilesInv'
    BY <2>1 DEF RegistryInv, FilesInv, ToldIsTrue, RegisteredHasConfig, AckedIsComplete,
       Exists
  <2> QED
    BY <1>1, <2>2, <2>3, <2>4 DEF RegistryInv
<1> QED
  BY <1>2, <1>4, <1>5, <1>6 DEF Next

\* SaveVM writes vm.json before meta.json and only a delete removes files: a
\* VM that start can find has the config its unit needs, for any number of
\* VMs and handlers and whatever fails or crashes, unless a delete has begun.
THEOREM RegisteredHasConfigHolds == Spec => []RegisteredHasConfig
<1>1. RegistryInv => RegisteredHasConfig
  BY DEF RegistryInv, FilesInv
<1> QED
  BY <1>1, RegistryInvInit, RegistryInvNext, PTL DEF Spec

\* A VM whose creation was answered with 201 has its directories, vm.json,
\* meta.json and env until a delete begins to remove them.
THEOREM AckedIsCompleteHolds == Spec => []AckedIsComplete
<1>1. RegistryInv => AckedIsComplete
  BY DEF RegistryInv, FilesInv
<1> QED
  BY <1>1, RegistryInvInit, RegistryInvNext, PTL DEF Spec

-----------------------------------------------------------------------------
(* Refinement *)

\* Every effect is a step of Registry or leaves the registry as it is.
LEMMA EffectRefines ==
    ASSUME RegistryInv, NEW p \in Handler, Effect(p)
    PROVE  Abstract!RegistryNext \/ UNCHANGED <<stage, acked, gone>>
<1> DEFINE v == vm[p]
<1>1. /\ pc[p] # "idle" => v \in VM
      /\ meta \in [VM -> Meta \cup {NoMeta}]
      /\ Creator(p) /\ Deleter(p) /\ ToldIsTrue
  BY DEF RegistryInv, LockInv, TypeInv, TypeOK, Busy, FilesInv
<1>2. CASE Quiet
  BY <1>2 DEF Quiet, FilesKept, told, stage, Exists
<1>3. CASE Registers(p)
  <2>1. v \in VM /\ stage[v] = "absent" /\ plan[p] # NoMeta
    BY <1>3, RegistersNew DEF Registers, stage
  <2>2. stage' = [stage EXCEPT ![v] = "present"]
    BY <1>1, <1>3, <2>1 DEF Registers, told, stage, Exists
  <2>3. Abstract!Register(v)
    BY <1>3, <2>1, <2>2 DEF Abstract!Register, Registers, told
  <2> QED
    BY <2>1, <2>3 DEF Abstract!RegistryNext
<1>4. CASE Dooms(p)
  <2>1. /\ meta' = meta /\ Exists(v)
        /\ doomed' = doomed \cup {v} /\ acked' = acked /\ gone' = gone
    BY <1>4 DEF Dooms, FilesKept
  <2>2. stage' = stage
    BY <2>1 DEF stage, Exists
  <2> QED
    BY <2>1, <2>2
<1>5. CASE Removes(p)
  <2>1. /\ v \in VM /\ v \in doomed
        /\ \A w \in VM \ {v} : meta'[w] = meta[w]
        /\ meta'[v] \in {meta[v], NoMeta}
        /\ doomed' = doomed /\ acked' = acked /\ gone' = gone
    BY <1>1, <1>5 DEF Removes, Removing, Deleter, told
  <2>2. CASE meta'[v] = meta[v]
    BY <2>1, <2>2 DEF stage, Exists
  <2>3. CASE meta'[v] # meta[v]
    <3>1. stage[v] = "present" /\ stage' = [stage EXCEPT ![v] = "removed"]
      BY <2>1, <2>3 DEF stage, Exists
    <3>2. Abstract!Remove(v)
      BY <2>1, <3>1 DEF Abstract!Remove
    <3> QED
      BY <2>1, <3>2 DEF Abstract!RegistryNext
  <2> QED
    BY <2>2, <2>3
<1>6. CASE AnswersCreate(p)
  <2>1. v \in VM /\ v \notin acked /\ stage[v] # "absent"
    BY <1>1, <1>6 DEF AnswersCreate, Creator, stage
  <2>2. stage' = stage
    BY <1>6 DEF AnswersCreate, FilesKept, stage, Exists
  <2>3. Abstract!AckCreate(v)
    BY <1>6, <2>1, <2>2 DEF Abstract!AckCreate, AnswersCreate
  <2> QED
    BY <2>1, <2>3 DEF Abstract!RegistryNext
<1>7. CASE AnswersDelete(p)
  <2>1. v \in VM /\ v \notin gone /\ stage[v] = "removed"
    BY <1>1, <1>7 DEF AnswersDelete, Deleted, Deleter, stage
  <2>2. stage' = stage
    BY <1>7 DEF AnswersDelete, FilesKept, stage, Exists
  <2>3. Abstract!AckDelete(v)
    BY <1>7, <2>1, <2>2 DEF Abstract!AckDelete, AnswersDelete
  <2> QED
    BY <2>1, <2>3 DEF Abstract!RegistryNext
<1> QED
  BY <1>2, <1>3, <1>4, <1>5, <1>6, <1>7 DEF Effect

\* Every step of Manager is a step of Registry or leaves it as it is.
LEMMA StepRefines ==
    RegistryInv /\ [Next]_vars => [Abstract!RegistryNext]_(Abstract!registryVars)
<1> SUFFICES ASSUME RegistryInv, [Next]_vars
             PROVE  Abstract!RegistryNext \/ UNCHANGED <<stage, acked, gone>>
  BY DEF Abstract!registryVars
<1>1. ASSUME NEW p \in Handler, RequestCreate(p) \/ RequestOn(p) \/ HandlerStep(p)
      PROVE  Abstract!RegistryNext \/ UNCHANGED <<stage, acked, gone>>
  BY <1>1, HandlerKeeps, EffectRefines DEF StepKeeps
<1>2. ASSUME NEW v \in VM, UnitStep(v)
      PROVE  UNCHANGED <<stage, acked, gone>>
  BY <1>2, UnitIsQuiet DEF RegistryInv, LockInv, Quiet, FilesKept, told, stage, Exists
<1>3. CASE Crash \/ UNCHANGED vars
  BY <1>3 DEF Crash, vars, storeVars, history, stage, Exists
<1> QED
  BY <1>1, <1>2, <1>3 DEF Next

\* mergend keeps what Registry promises to its clients, for any number of VMs
\* and concurrent requests and for every set of faults: an id is registered
\* once and never comes back, 201 is answered at most once per id and only for
\* a VM that was registered, and of several deletes of one VM at most one is
\* answered with 200, and only when its metadata is gone.
THEOREM ManagerImplementsRegistry == Spec => ImplementsRegistry
<1>1. Init => Abstract!RegistryInit
  BY DEF Init, StoreInit, Abstract!RegistryInit, stage, Exists
<1> QED
  BY <1>1, RegistryInvInit, RegistryInvNext, StepRefines, PTL
     DEF Spec, ImplementsRegistry, Abstract!RegistrySpec

-----------------------------------------------------------------------------
(* A VM that was stopped, and a VM that was deleted *)

\* The VM has lost a file its scripts need, for good.
ConfigLost(v) == v \in doomed /\ "vm.json" \notin entries[v]

Lost(v) == ConfigLost(v) \/ (v \in doomed /\ ~Exists(v))

\* systemd works on a VM only while a handler waits for it, and a unit that
\* is on its way up with nobody waiting will not get there.
UnitSound(v) ==
    /\ job[v] # "none" => lock[v] # None /\ pc[lock[v]] = "wait"
    /\ unit[v] = "pre" => job[v] = "start" \/ Lost(v)
    /\ unit[v] = "post" => (job[v] = "start" /\ Exists(v)) \/ ConfigLost(v)
    /\ unit[v] = "restart" => Lost(v)
    /\ v \in halted => ~running(v) /\ job[v] # "start"

\* A handler past CheckExists has a VM that was registered; systemctl stop
\* waits for its own job, and has stopped the VM when it is done.
StopperSound(p) ==
    /\ pc[p] \in {"lock"} \cup Critical => Exists(vm[p]) \/ vm[p] \in doomed
    /\ pc[p] \in InDelete => op[p] = "delete"
    /\ pc[p] = "wait" /\ op[p] \in {"stop", "delete"} =>
          /\ job[vm[p]] \in {"stop", "done"}
          /\ job[vm[p]] = "done" => ~running(vm[p])
    /\ pc[p] = "release" /\ op[p] = "stop" /\ out[p] = 200 => ~running(vm[p])

StopInv == /\ RegistryInv
           /\ \A v \in VM : UnitSound(v)
           /\ \A p \in Handler : StopperSound(p)

\* DeleteVM removes the files of a VM that it has stopped.
DeletesStopped(p) == pc[p] \in InDelete \/ Deleted(p) => ~running(vm[p])

GoneInv == /\ StopInv
           /\ \A p \in Handler : DeletesStopped(p)
           /\ GoneIsNotRunning

-----------------------------------------------------------------------------
(* What the steps do to the state these invariants are about *)

\* systemctl is not killed, mergend does not die, and a VM that came up stays.
Mild == Faults \subseteq {"io", "bus"}

\* A VM that is doomed stays doomed.
LEMMA DoomLasts ==
    ASSUME RegistryInv, NEW p \in Handler, RequestCreate(p) \/ RequestOn(p) \/ HandlerStep(p)
    PROVE  doomed \subseteq doomed'
<1>1. Effect(p)
  BY HandlerKeeps DEF StepKeeps
<1> QED
  BY <1>1 DEF Effect, Quiet, Registers, Dooms, Removes, AnswersCreate, AnswersDelete, told

\* Nobody writes the files of a doomed VM again.
LEMMA LossLasts ==
    ASSUME RegistryInv, NEW p \in Handler, RequestCreate(p) \/ RequestOn(p) \/ HandlerStep(p),
           NEW v \in VM
    PROVE  /\ ConfigLost(v) => ConfigLost(v)'
           /\ Lost(v) => Lost(v)'
<1>1. /\ Creator(p) /\ StepKeeps(p)
      /\ entries \in [VM -> SUBSET Entry]
      /\ meta \in [VM -> Meta \cup {NoMeta}]
  BY HandlerKeeps DEF RegistryInv, LockInv, TypeInv, TypeOK
<1>2. doomed \subseteq doomed'
  BY DoomLasts
<1>3. v \in doomed /\ ~Exists(v) => ~Exists(v)'
  <2>1. Registers(p) => vm[p] \notin doomed
    BY RegistersNew DEF Registers
  <2>2. ASSUME Registers(p), v \in doomed
        PROVE  meta'[v] = meta[v]
    BY <1>1, <2>1, <2>2 DEF Registers
  <2>3. ~Registers(p) => meta'[v] = meta[v] \/ meta'[v] = NoMeta
    BY <1>1 DEF StepKeeps, Effect, Quiet, FilesKept, Dooms, Removes, AnswersCreate,
       AnswersDelete
  <2> QED
    BY <2>2, <2>3 DEF Exists
<1>4. v \in doomed /\ "vm.json" \notin entries[v] => "vm.json" \notin entries'[v]
  <2>1. CASE SaveVMConfig(p)
    <3>1. vm[p] \notin doomed
      BY <1>1, <2>1 DEF SaveVMConfig, Creator, Planning, Window
    <3> QED
      BY <1>1, <2>1, <3>1 DEF SaveVMConfig, writeFile
  <2>2. CASE ~SaveVMConfig(p)
    BY <1>1, <2>2 DEF RequestCreate, RequestOn, HandlerStep, CreateStep, ValidateFails, ListIDs,
       ReadNextMeta, AllocateFor, SaveDir, Directory, SaveMeta, SaveHooks, SaveEnv,
       Created, CheckExists, lockVM, SystemctlStep, IsActiveSkips, IsActiveActs,
       IsActiveKilled, SystemctlUnavailable, SendJob, JobEnds, SystemctlKilled, DeleteStep,
       ReadMeta, StatAndList, UnlinkNext, RemoveConfigDir, RemoveRunDir, RemoveDataDir,
       ReleaseAndReply, FailUnlocked, FailLocked, Reply, storeVars, MkdirAll, writeFile,
       writeMeta, unlink, rmdir
  <2> QED
    BY <2>1, <2>2
<1> QED
  BY <1>2, <1>3, <1>4 DEF ConfigLost, Lost

\* Metadata goes only with a delete, which holds the lock of a doomed VM.
LEMMA RegisteredLasts ==
    ASSUME RegistryInv, NEW p \in Handler, RequestCreate(p) \/ RequestOn(p) \/ HandlerStep(p),
           NEW v \in VM, Exists(v)
    PROVE  /\ ~(pc[p] \in Removing /\ v = vm[p]) => Exists(v)'
           /\ Exists(v)' \/ v \in doomed'
<1>1. /\ Deleter(p) /\ StepKeeps(p)
      /\ meta \in [VM -> Meta \cup {NoMeta}]
  BY HandlerKeeps DEF RegistryInv, LockInv, TypeInv, TypeOK
<1>2. doomed \subseteq doomed'
  BY DoomLasts
<1>3. CASE Registers(p)
  <2>1. vm[p] \in VM /\ plan[p] # NoMeta
    BY <1>3, RegistersNew DEF Registers
  <2> QED
    BY <1>1, <1>3, <2>1 DEF Registers, Exists
<1>4. CASE Removes(p)
  BY <1>1, <1>2, <1>4 DEF Removes, Deleter, Exists
<1>5. CASE ~Registers(p) /\ ~Removes(p)
  BY <1>1, <1>5 DEF StepKeeps, Effect, Quiet, FilesKept, Dooms, AnswersCreate,
     AnswersDelete, Exists
<1> QED
  BY <1>3, <1>4, <1>5

\* A stop is answered with 200 by the holder of the lock only.
LEMMA HaltedBy ==
    ASSUME TypeInv, NEW p \in Handler, RequestCreate(p) \/ RequestOn(p) \/ HandlerStep(p),
           NEW v \in VM, v \in halted'
    PROVE  \/ v \in halted
           \/ v = vm[p] /\ pc[p] = "release" /\ op[p] = "stop" /\ out[p] = 200
<1>1. CASE SendJob(p)
  BY <1>1 DEF SendJob
<1>2. CASE \E status \in {201, 400, 404, 409, 500} : Answer(p, status)
  BY <1>2 DEF Answer
<1>3. CASE ReleaseAndReply(p)
  BY <1>3 DEF ReleaseAndReply, Answer
<1>4. CASE /\ ~SendJob(p) /\ ~ReleaseAndReply(p)
           /\ ~\E status \in {201, 400, 404, 409, 500} : Answer(p, status)
  <2>1. /\ ~Answer(p, 201) /\ ~Answer(p, 400) /\ ~Answer(p, 404)
        /\ ~Answer(p, 409) /\ ~Answer(p, 500)
    BY <1>4
  <2> QED
    BY <1>4, <2>1 DEF RequestCreate, RequestOn, HandlerStep, CreateStep, ValidateFails, ListIDs,
       ReadNextMeta, AllocateFor, SaveDir, SaveVMConfig, SaveMeta, SaveHooks, SaveEnv,
       Created, CheckExists, lockVM, SystemctlStep, IsActiveSkips, IsActiveActs,
       IsActiveKilled, SystemctlUnavailable, JobEnds, SystemctlKilled, DeleteStep,
       ReadMeta, StatAndList, UnlinkNext, RemoveConfigDir, RemoveRunDir, RemoveDataDir,
       FailUnlocked, FailLocked, Reply, history
<1> QED
  BY <1>1, <1>2, <1>3, <1>4

\* A handler takes a lock that is free and gives back its own.
LEMMA LocksKept ==
    ASSUME TypeInv, NEW p \in Handler, RequestCreate(p) \/ RequestOn(p) \/ HandlerStep(p),
           NEW v \in VM
    PROVE  lock'[v] = lock[v] \/ lock[v] = None \/ (pc[p] \in Critical /\ v = vm[p])
<1>1. lock \in [VM -> Handler \cup {None}]
  BY DEF TypeInv, TypeOK
<1>2. CASE lockVM(p)
  BY <1>1, <1>2 DEF lockVM, Acquire, AlreadyLocked
<1>3. CASE ReleaseAndReply(p)
  BY <1>1, <1>3 DEF ReleaseAndReply, Release, Critical
<1>4. CASE ~lockVM(p) /\ ~ReleaseAndReply(p)
  BY <1>4 DEF RequestCreate, RequestOn, HandlerStep, CreateStep, ValidateFails, ListIDs,
     ReadNextMeta, AllocateFor, SaveDir, SaveVMConfig, SaveMeta, SaveHooks, SaveEnv,
     Created, CheckExists, SystemctlStep, IsActiveSkips, IsActiveActs,
     IsActiveKilled, SystemctlUnavailable, SendJob, JobEnds, SystemctlKilled,
     AfterSystemctl, DeleteStep, ReadMeta, StatAndList, UnlinkNext, RemoveConfigDir,
     RemoveRunDir, RemoveDataDir, FailUnlocked, FailLocked, Reply, Return
<1> QED
  BY <1>2, <1>3, <1>4

-----------------------------------------------------------------------------
(* The steps of the handlers keep UnitSound and StopperSound *)

\* A handler that is not waiting has no job, whoever holds the lock of a VM.
LEMMA NoJobLeft ==
    ASSUME StopInv, NEW p \in Handler, pc[p] \in Critical, pc[p] # "wait"
    PROVE  job[vm[p]] = "none"
BY DEF StopInv, UnitSound, RegistryInv, LockInv, LockDiscipline, TypeInv, Busy, Critical

\* The units that a handler leaves alone.
LEMMA UnitOfOthers ==
    ASSUME StopInv, NEW p \in Handler, RequestCreate(p) \/ RequestOn(p) \/ HandlerStep(p),
           NEW v \in VM, ~(pc[p] \in Critical /\ v = vm[p])
    PROVE  UnitSound(v)'
<1>1. /\ TypeInv /\ LockDiscipline /\ UnitSound(v)
      /\ lock \in [VM -> Handler \cup {None}]
  BY DEF StopInv, RegistryInv, LockInv, TypeInv, TypeOK
<1>2. UnitKept(v)
  BY <1>1, UnitsKept
<1>3. job[v] # "none" => lock[v] # None /\ lock'[v] = lock[v] /\ pc'[lock[v]] = "wait"
  <2>1. SUFFICES ASSUME job[v] # "none"
                 PROVE  lock[v] # None /\ lock'[v] = lock[v] /\ pc'[lock[v]] = "wait"
    OBVIOUS
  <2>2. lock[v] \in Handler /\ lock[v] # None /\ pc[lock[v]] = "wait"
    BY <1>1, <2>1 DEF UnitSound
  <2>3. lock'[v] = lock[v]
    BY <1>1, <2>2, LocksKept
  <2>4. lock[v] # p
    BY <1>1, <2>2 DEF LockDiscipline, Critical
  <2> QED
    BY <1>1, <2>2, <2>3, <2>4, OthersWaitFor DEF OthersWait
<1>4. /\ Exists(v) => Exists(v)'
      /\ Lost(v) => Lost(v)'
      /\ ConfigLost(v) => ConfigLost(v)'
  <2>1. RegistryInv
    BY DEF StopInv
  <2>2. Removing \subseteq Critical
    BY DEF Removing, Critical
  <2> QED
    BY <2>1, <2>2, LossLasts, RegisteredLasts
<1>5. v \in halted' => v \in halted
  <2>1. "release" \in Critical
    BY DEF Critical
  <2> QED
    BY <1>1, <2>1, HaltedBy
<1> QED
  BY <1>1, <1>2, <1>3, <1>4, <1>5 DEF UnitSound, UnitKept, running

\* The unit of the VM whose lock the handler holds.
LEMMA UnitOfOwn ==
    ASSUME Mild, StopInv, NEW p \in Handler,
           RequestCreate(p) \/ RequestOn(p) \/ HandlerStep(p),
           pc[p] \in Critical, NEW v \in VM, v = vm[p]
    PROVE  UnitSound(v)'
<1>1. /\ TypeInv /\ LockDiscipline /\ StopperSound(p) /\ RegistryInv
      /\ pc \in [Handler -> {"idle"} \cup Unlocked \cup Critical]
      /\ lock \in [VM -> Handler \cup {None}]
      /\ unit \in [VM -> UnitState] /\ job \in [VM -> JobState]
  BY DEF StopInv, RegistryInv, LockInv, TypeInv, TypeOK, Busy, Critical
<1>2. UnitSound(v) /\ lock[v] = p /\ p # None
  BY <1>1, NoneAssumption DEF StopInv, LockDiscipline
<1>3. /\ Lost(v) => Lost(v)'
      /\ ConfigLost(v) => ConfigLost(v)'
  BY <1>1, LossLasts
<1>4. CASE SendJob(p)
  <2>1. /\ pc[p] = "systemctl" /\ pc'[p] = "wait" /\ lock'[v] = p /\ vm' = vm
        /\ op[p] \in Starting \/ op[p] \in {"stop", "delete"}
    BY <1>1, <1>2, <1>4 DEF SendJob, Goto, request, Starting
  <2>2. job[v] = "none"
    BY <1>1, <2>1, NoJobLeft
  <2>3. CASE op[p] \in Starting
    <3>1. unit' = unit /\ v \notin halted'
      BY <1>4, <2>3 DEF SendJob, startJob, Starting
    <3> QED
      BY <1>2, <1>3, <2>1, <2>2, <3>1 DEF UnitSound
  <2>4. CASE op[p] \in {"stop", "delete"}
    <3>1. /\ halted' = halted
          /\ \/ unit'[v] = unit[v]
             \/ unit'[v] = "stopping"
          /\ job'[v] \in {"stop", "done"}
      BY <1>1, <1>4, <2>4 DEF SendJob, stopJob
    <3> QED
      BY <1>2, <1>3, <2>1, <2>2, <3>1 DEF UnitSound, running
  <2> QED
    BY <2>1, <2>3, <2>4
<1>5. CASE JobEnds(p)
  <2>1. /\ vm' = vm /\ unit' = unit /\ job'[v] = "none" /\ halted' = halted
        /\ job[v] \in {"done", "failed"}
    BY <1>1, <1>5 DEF JobEnds, AfterSystemctl, Return, collectJob, request, history
  <2> QED
    BY <1>2, <1>3, <2>1 DEF UnitSound, running
<1>6. CASE ~SendJob(p) /\ ~JobEnds(p)
  <2>1. UNCHANGED <<unit, job>>
    BY <1>1, <1>6 DEF RequestCreate, RequestOn, HandlerStep, CreateStep, ValidateFails, ListIDs,
       ReadNextMeta, AllocateFor, SaveDir, SaveVMConfig, SaveMeta, SaveHooks, SaveEnv,
       Created, CheckExists, lockVM, SystemctlStep, IsActiveSkips, IsActiveActs,
       IsActiveKilled, SystemctlUnavailable, SystemctlKilled, AfterSystemctl, DeleteStep,
       ReadMeta, StatAndList, UnlinkNext, RemoveConfigDir, RemoveRunDir, RemoveDataDir,
       ReleaseAndReply, FailUnlocked, FailLocked, Reply, Answer, Return, unitVars, request,
       Critical, Directory, Unlocked, Window
  <2>2. pc[p] # "wait"
    BY <1>6 DEF Mild, RequestCreate, RequestOn, HandlerStep, CreateStep, ValidateFails, ListIDs,
       ReadNextMeta, AllocateFor, SaveDir, SaveVMConfig, SaveMeta, SaveHooks, SaveEnv,
       Created, CheckExists, lockVM, SystemctlStep, IsActiveSkips, IsActiveActs,
       IsActiveKilled, SystemctlUnavailable, SystemctlKilled, DeleteStep,
       ReadMeta, StatAndList, UnlinkNext, RemoveConfigDir, RemoveRunDir, RemoveDataDir,
       ReleaseAndReply, FailUnlocked, FailLocked, Directory, Unlocked, Window
  <2>3. job[v] = "none"
    BY <2>2, NoJobLeft
  <2>4. v \in halted' => v \in halted \/ ~running(v)
    BY <1>1, HaltedBy DEF StopperSound
  <2> QED
    BY <1>1, <1>2, <1>3, <2>1, <2>3, <2>4 DEF UnitSound, running
<1> QED
  BY <1>4, <1>5, <1>6

\* A handler that waits finds the unit of its VM as it left it.
LEMMA StopperWaits ==
    ASSUME StopInv, NEW p \in Handler, RequestCreate(p) \/ RequestOn(p) \/ HandlerStep(p),
           NEW q \in Handler \ {p}
    PROVE  StopperSound(q)'
<1>1. /\ TypeInv /\ LockInv /\ RegistryInv /\ StopperSound(q)
      /\ pc[q] # "idle" => vm[q] \in VM
  BY DEF StopInv, RegistryInv, LockInv, TypeInv, Busy
<1>2. pc'[q] = pc[q] /\ op'[q] = op[q] /\ vm'[q] = vm[q] /\ out'[q] = out[q]
  BY <1>1, OthersWaitFor DEF OthersWait
<1>3. pc[q] \in Critical => UnitKept(vm[q])
  <2>1. SUFFICES ASSUME pc[q] \in Critical PROVE UnitKept(vm[q])
    OBVIOUS
  <2>2. vm[q] \in VM
    BY <1>1, <2>1 DEF Critical
  <2>3. pc[p] \in Critical => vm[p] # vm[q]
    BY <1>1, <2>1, OneInCritical
  <2> QED
    BY <1>1, <2>2, <2>3, UnitsKept
<1>4. pc[q] \in {"lock"} \cup Critical => meta'[vm[q]] # NoMeta \/ vm[q] \in doomed'
  <2>1. SUFFICES ASSUME pc[q] \in {"lock"} \cup Critical
                 PROVE  meta'[vm[q]] # NoMeta \/ vm[q] \in doomed'
    OBVIOUS
  <2>2. PICK v \in VM : v = vm[q]
    BY <1>1, <2>1 DEF Critical
  <2>3. CASE Exists(v)
    BY <1>1, <2>2, <2>3, RegisteredLasts DEF Exists
  <2>4. CASE v \in doomed
    BY <1>1, <2>2, <2>4, DoomLasts
  <2> QED
    BY <1>1, <2>1, <2>2, <2>3, <2>4 DEF StopperSound
<1> QED
  BY <1>1, <1>2, <1>3, <1>4 DEF StopperSound, UnitKept, running, Exists, Critical

\* The handler's own step: 200 is decided after is-active said that the VM
\* does not run, or after the stop job was done.
LEMMA StopperSteps ==
    ASSUME Mild, StopInv, NEW p \in Handler, RequestCreate(p) \/ RequestOn(p) \/ HandlerStep(p)
    PROVE  StopperSound(p)'
<1>1. /\ RegistryInv /\ StopperSound(p)
      /\ pc \in [Handler -> {"idle"} \cup Unlocked \cup Critical]
      /\ op \in [Handler -> {"none", "create", "start", "stop", "delete"}]
      /\ vm \in [Handler -> VM \cup {None}]
      /\ out \in [Handler -> Status]
      /\ unit \in [VM -> UnitState] /\ job \in [VM -> JobState]
      /\ pc[p] # "idle" => vm[p] \in VM
  BY DEF StopInv, RegistryInv, LockInv, TypeInv, TypeOK, Busy
<1>2. ASSUME vm'[p] = vm[p],
             pc[p] \in {"lock"} \cup Critical \/ (pc[p] = "exists" /\ Exists(vm[p]))
      PROVE  meta'[vm'[p]] # NoMeta \/ vm'[p] \in doomed'
  <2>1. PICK v \in VM : v = vm[p]
    BY <1>1, <1>2 DEF Critical
  <2>2. CASE Exists(v)
    BY <1>1, <1>2, <2>1, <2>2, RegisteredLasts DEF Exists
  <2>3. CASE v \in doomed
    BY <1>1, <1>2, <2>1, <2>3, DoomLasts
  <2> QED
    BY <1>1, <1>2, <2>1, <2>2, <2>3 DEF StopperSound
<1>3. CASE SendJob(p)
  <2>1. /\ pc[p] = "systemctl" /\ pc'[p] = "wait" /\ op' = op /\ vm' = vm
    BY <1>1, <1>3 DEF SendJob, Goto, request
  <2>2. op[p] \in {"stop", "delete"} =>
            \/ unit[vm[p]] \in {"inactive", "failed"} /\ unit' = unit /\ job'[vm[p]] = "done"
            \/ job'[vm[p]] = "stop"
    BY <1>1, <1>3, <2>1 DEF SendJob, stopJob
  <2>3. meta'[vm'[p]] # NoMeta \/ vm'[p] \in doomed'
    BY <1>2, <2>1 DEF Critical
  <2> QED
    BY <2>1, <2>2, <2>3 DEF StopperSound, running, InDelete, Exists
<1>4. CASE JobEnds(p)
  <2>1. /\ pc[p] = "wait" /\ op' = op /\ vm' = vm /\ unit' = unit
        /\ pc'[p] \in {"stat", "release"}
        /\ pc'[p] = "stat" => op[p] = "delete"
        /\ pc'[p] = "release" /\ op[p] = "stop" /\ out'[p] = 200 => job[vm[p]] = "done"
    BY <1>1, <1>4 DEF JobEnds, AfterSystemctl, Return, Goto, collectJob, request
  <2>2. meta'[vm'[p]] # NoMeta \/ vm'[p] \in doomed'
    BY <1>2, <2>1 DEF Critical
  <2> QED
    BY <1>1, <2>1, <2>2 DEF StopperSound, running, InDelete, Exists
<1>5. CASE IsActiveSkips(p)
  <2>1. /\ pc[p] = "isactive" /\ op' = op /\ vm' = vm /\ unit' = unit
        /\ pc'[p] \in {"stat", "release"}
        /\ pc'[p] = "stat" => op[p] = "delete"
        /\ op[p] = "stop" => ~running(vm[p])
    BY <1>1, <1>5 DEF IsActiveSkips, isActive, running, AfterSystemctl, Return, Goto, request,
       unitVars
  <2>2. meta'[vm'[p]] # NoMeta \/ vm'[p] \in doomed'
    BY <1>2, <2>1 DEF Critical
  <2> QED
    BY <2>1, <2>2 DEF StopperSound, running, InDelete, Exists
<1>6. CASE ReleaseAndReply(p) \/ FailUnlocked(p)
  <2>1. pc'[p] = "idle"
    BY <1>1, <1>6 DEF ReleaseAndReply, FailUnlocked, Reply, Answer, Goto
  <2> QED
    BY <2>1 DEF StopperSound, Critical, InDelete
<1>7. CASE SystemctlUnavailable(p) \/ FailLocked(p) \/ IsActiveActs(p)
  <2>1. /\ op' = op /\ vm' = vm /\ pc[p] \in Critical
        /\ pc'[p] \in {"systemctl", "stat", "release"}
        /\ pc'[p] = "stat" => op[p] = "delete"
        /\ pc'[p] = "release" => out'[p] # 200
    BY <1>1, <1>7 DEF SystemctlUnavailable, FailLocked, IsActiveActs, AfterSystemctl, Return,
       Goto, request, Critical
  <2>2. meta'[vm'[p]] # NoMeta \/ vm'[p] \in doomed'
    BY <1>2, <2>1
  <2> QED
    BY <2>1, <2>2 DEF StopperSound, InDelete, Exists
<1>8. CASE DeleteStep(p)
  <2>1. /\ op' = op /\ vm' = vm /\ pc[p] \in Critical
        /\ pc'[p] \in InDelete \cup {"isactive", "release"}
        /\ pc[p] \in InDelete \/ pc[p] = "readmeta"
        /\ pc[p] = "readmeta" => pc'[p] \notin InDelete
        /\ pc[p] = "readmeta" /\ pc'[p] = "release" => out'[p] # 200
    BY <1>1, <1>8 DEF DeleteStep, ReadMeta, StatAndList, UnlinkNext, RemoveConfigDir,
       RemoveRunDir, RemoveDataDir, Return, Goto, request, InDelete, Critical
  <2>2. meta'[vm'[p]] # NoMeta \/ vm'[p] \in doomed'
    BY <1>2, <2>1
  <2> QED
    BY <1>1, <2>1, <2>2 DEF StopperSound, InDelete, Exists
<1>9. CASE CheckExists(p) \/ lockVM(p)
  <2>1. /\ pc'[p] \in {"idle", "lock", "readmeta", "isactive"}
        /\ pc'[p] # "idle" => /\ vm'[p] = vm[p]
                              /\ pc[p] = "lock" \/ (pc[p] = "exists" /\ Exists(vm[p]))
    BY <1>1, <1>9 DEF CheckExists, lockVM, Reply, Answer, Goto, request
  <2>2. pc'[p] # "idle" => meta'[vm'[p]] # NoMeta \/ vm'[p] \in doomed'
    BY <1>2, <2>1
  <2> QED
    BY <2>1, <2>2 DEF StopperSound, InDelete, Exists, Critical
<1>10. CASE RequestCreate(p) \/ RequestOn(p) \/ CreateStep(p)
  <2>1. pc'[p] \notin {"lock"} \cup Critical
    BY <1>1, <1>10 DEF RequestCreate, RequestOn, CreateStep, ValidateFails, ListIDs,
       ReadNextMeta, AllocateFor, SaveDir, AfterSaving, Directory, SaveVMConfig, SaveMeta,
       SaveHooks, SaveEnv, Created, Reply, Answer, Goto, Critical
  <2> QED
    BY <2>1 DEF StopperSound, InDelete, Critical
<1>11. ~IsActiveKilled(p) /\ ~SystemctlKilled(p)
  BY DEF Mild, IsActiveKilled, SystemctlKilled
<1> QED
  BY <1>3, <1>4, <1>5, <1>6, <1>7, <1>8, <1>9, <1>10, <1>11 DEF HandlerStep, SystemctlStep

-----------------------------------------------------------------------------
(* The steps of the units *)

\* The scripts leave the files that this is about, and the handlers, alone.
LEMMA UnitLeaves ==
    ASSUME TypeInv, NEW v \in VM, UnitStep(v)
    PROVE  /\ UNCHANGED <<meta, lock, pc, op, vm, out, doomed, gone, halted>>
           /\ \A w \in VM : "vm.json" \in entries'[w] <=> "vm.json" \in entries[w]
           /\ \A w \in VM \ {v} : unit'[w] = unit[w] /\ job'[w] = job[w]
<1>1. /\ entries \in [VM -> SUBSET Entry]
      /\ unit \in [VM -> UnitState] /\ job \in [VM -> JobState]
  BY DEF TypeInv, TypeOK
<1>2. UNCHANGED <<lock, pc, op, vm, out, doomed, gone, halted>>
  BY DEF UnitStep, managerVars, request
<1>3. /\ meta' = meta
      /\ \A w \in VM : "vm.json" \in entries'[w] <=> "vm.json" \in entries[w]
  BY <1>1 DEF UnitStep, UnitNext, BeginStart, ExecStartPre, MkdirAll, ExecStartPreFails,
     ExecStartPost, ExecStartPostFails, StartFails, MainExits, StartLimitHit, StopEnds,
     storeVars
<1>4. \A w \in VM \ {v} : unit'[w] = unit[w] /\ job'[w] = job[w]
  BY <1>1 DEF UnitStep, UnitNext, BeginStart, ExecStartPre, ExecStartPreFails,
     ExecStartPost, ExecStartPostFails, StartFails, MainExits, StartLimitHit, StopEnds, endJob
<1> QED
  BY <1>2, <1>3, <1>4

\* A start job is waited for, so the VM is registered or doomed.
LEMMA StartedIsKnown ==
    ASSUME StopInv, NEW v \in VM, job[v] = "start"
    PROVE  /\ Exists(v) \/ Lost(v)
           /\ "vm.json" \notin entries[v] => Lost(v)
<1>1. UnitSound(v) /\ LockDiscipline /\ lock[v] \in Handler \cup {None} /\ RegisteredHasConfig
  BY DEF StopInv, RegistryInv, LockInv, TypeInv, TypeOK, FilesInv
<1>2. lock[v] \in Handler /\ pc[lock[v]] = "wait" /\ vm[lock[v]] = v
  BY <1>1 DEF UnitSound, LockDiscipline
<1>3. Exists(v) \/ v \in doomed
  BY <1>2 DEF StopInv, StopperSound, Critical
<1>4. v \notin doomed /\ Exists(v) => "vm.json" \in entries[v]
  BY <1>1 DEF RegisteredHasConfig
<1> QED
  BY <1>3, <1>4 DEF Lost, ConfigLost

\* The unit's own step.
LEMMA UnitSoundSteps ==
    ASSUME Mild, StopInv, NEW v \in VM, UnitStep(v)
    PROVE  /\ UnitSound(v)'
           /\ unit'[v] = "active" => running(v) \/ (job[v] = "start" /\ Exists(v))
           /\ job[v] = "stop" => \/ job'[v] = "stop"
                                 \/ job'[v] = "done" /\ unit'[v] # "active"
           /\ job[v] = "done" => job'[v] = "done"
<1>1. /\ TypeInv /\ UnitSound(v)
      /\ unit \in [VM -> UnitState] /\ job \in [VM -> JobState]
  BY DEF StopInv, RegistryInv, LockInv, TypeInv, TypeOK
<1>2. /\ UNCHANGED <<meta, lock, pc, doomed, halted>>
      /\ "vm.json" \in entries'[v] <=> "vm.json" \in entries[v]
  BY <1>1, UnitLeaves
<1>3. (Lost(v)' <=> Lost(v)) /\ (ConfigLost(v)' <=> ConfigLost(v)) /\ (Exists(v)' <=> Exists(v))
  BY <1>2 DEF Lost, ConfigLost, Exists
<1>4. job[v] = "start" => /\ Exists(v) \/ Lost(v)
                          /\ "vm.json" \notin entries[v] => Lost(v)
  BY StartedIsKnown
<1> HIDE DEF Lost, ConfigLost, Exists
<1>5. CASE BeginStart(v)
  <2>1. /\ unit'[v] = "pre" /\ job' = job
        /\ (unit[v] \in {"inactive", "failed"} /\ job[v] = "start") \/ unit[v] = "restart"
    BY <1>1, <1>5 DEF BeginStart
  <2> QED
    BY <1>1, <1>2, <1>3, <2>1 DEF UnitSound, running
<1>6. CASE ExecStartPre(v)
  <2>1. unit'[v] = "post" /\ job' = job /\ unit[v] = "pre" /\ Exists(v)
    BY <1>1, <1>6 DEF ExecStartPre
  <2>2. job[v] = "start" \/ ConfigLost(v)
    BY <1>1, <2>1 DEF UnitSound, Lost
  <2> QED
    BY <1>1, <1>2, <1>3, <2>1, <2>2 DEF UnitSound, running
<1>7. CASE ExecStartPreFails(v) \/ ExecStartPostFails(v)
  <2>1. /\ unit'[v] = "restart"
        /\ job'[v] = IF job[v] = "start" THEN "failed" ELSE job[v]
        /\ \/ unit[v] = "pre" /\ ~Exists(v)
           \/ unit[v] = "post" /\ "vm.json" \notin entries[v]
    BY <1>1, <1>7 DEF Mild, ExecStartPreFails, ExecStartPostFails, StartFails, endJob
  <2>2. Lost(v)
    BY <1>1, <1>4, <2>1 DEF UnitSound, Lost
  <2> QED
    BY <1>1, <1>2, <1>3, <2>1, <2>2 DEF UnitSound, running
<1>8. CASE ExecStartPost(v)
  <2>1. /\ unit'[v] = "active" /\ unit[v] = "post" /\ "vm.json" \in entries[v]
        /\ job'[v] = IF job[v] = "start" THEN "done" ELSE job[v]
    BY <1>1, <1>8 DEF ExecStartPost, endJob
  <2>2. job[v] = "start" /\ Exists(v)
    BY <1>1, <2>1 DEF UnitSound, ConfigLost
  <2> QED
    BY <1>1, <1>2, <1>3, <2>1, <2>2 DEF UnitSound, running
<1>9. CASE StartLimitHit(v)
  <2>1. /\ unit'[v] = "failed"
        /\ job'[v] = IF job[v] = "start" THEN "failed" ELSE job[v]
    BY <1>1, <1>9 DEF StartLimitHit, endJob
  <2> QED
    BY <1>1, <1>2, <1>3, <2>1 DEF UnitSound, running
<1>10. CASE StopEnds(v)
  <2>1. /\ unit'[v] = "inactive"
        /\ job'[v] = IF job[v] = "stop" THEN "done" ELSE job[v]
    BY <1>1, <1>10 DEF StopEnds, endJob
  <2> QED
    BY <1>1, <1>2, <1>3, <2>1 DEF UnitSound, running
<1>11. ~MainExits(v)
  BY DEF Mild, MainExits
<1> QED
  BY <1>5, <1>6, <1>7, <1>8, <1>9, <1>10, <1>11 DEF UnitStep, UnitNext

\* A handler finds the unit it has stopped still stopped.
LEMMA UnitStepKeepsStop ==
    ASSUME Mild, StopInv, NEW v \in VM, UnitStep(v)
    PROVE  /\ \A w \in VM : UnitSound(w)'
           /\ \A q \in Handler : StopperSound(q)'
<1>1. TypeInv /\ LockDiscipline /\ UnitSound(v)
  BY DEF StopInv, RegistryInv, LockInv
<1>2. /\ UNCHANGED <<meta, lock, pc, op, vm, out, doomed, halted>>
      /\ \A w \in VM : "vm.json" \in entries'[w] <=> "vm.json" \in entries[w]
      /\ \A w \in VM \ {v} : unit'[w] = unit[w] /\ job'[w] = job[w]
  BY <1>1, UnitLeaves
<1>3. \A w \in VM \ {v} : UnitSound(w)'
  BY <1>2 DEF StopInv, UnitSound, Lost, ConfigLost, Exists, running
<1>4. ASSUME NEW q \in Handler
      PROVE  StopperSound(q)'
  <2>1. StopperSound(q) /\ (pc[q] # "idle" => vm[q] \in VM)
    BY <1>1 DEF StopInv, TypeInv, Busy
  <2>2. CASE vm[q] # v
    BY <1>2, <2>1, <2>2 DEF StopperSound, running, Exists, Critical
  <2>3. CASE vm[q] = v
    <3>1. pc[q] = "release" => job[v] # "start"
      BY <1>1, <2>3 DEF LockDiscipline, UnitSound, Critical
    <3> QED
      BY <1>1, <1>2, <2>1, <2>3, <3>1, UnitSoundSteps DEF StopperSound, running, Exists
  <2> QED
    BY <2>2, <2>3
<1> QED
  BY <1>3, <1>4, UnitSoundSteps

-----------------------------------------------------------------------------
(* The theorems *)

\* In a freshly installed mergend nothing runs and nothing was stopped.
LEMMA StopInvInit == Init => StopInv
BY RegistryInvInit DEF Init, UnitInit, StopInv, UnitSound, StopperSound, Critical, InDelete

\* Without timeouts, crashes and failing VMs no step starts a stopped VM.
LEMMA StopInvNext == Mild /\ StopInv /\ [Next]_vars => StopInv'
<1> SUFFICES ASSUME Mild, StopInv, [Next]_vars
             PROVE  StopInv'
  OBVIOUS
<1>1. RegistryInv'
  BY RegistryInvNext DEF StopInv
<1>2. ASSUME NEW p \in Handler, RequestCreate(p) \/ RequestOn(p) \/ HandlerStep(p)
      PROVE  StopInv'
  <2>1. \A v \in VM : UnitSound(v)'
    BY <1>2, UnitOfOthers, UnitOfOwn
  <2>2. \A q \in Handler : StopperSound(q)'
    BY <1>2, StopperSteps, StopperWaits
  <2> QED
    BY <1>1, <2>1, <2>2 DEF StopInv
<1>3. ASSUME NEW v \in VM, UnitStep(v)
      PROVE  StopInv'
  BY <1>1, <1>3, UnitStepKeepsStop DEF StopInv
<1>4. CASE UNCHANGED vars
  BY <1>1, <1>4 DEF vars, storeVars, unitVars, request, history, StopInv, UnitSound,
     StopperSound, Lost, ConfigLost, Exists, running
<1>5. ~Crash
  BY DEF Mild, Crash
<1> QED
  BY <1>2, <1>3, <1>4, <1>5 DEF Next

\* Stop is answered with 200 only for a VM that does not run until it is
\* started again, for any number of VMs and concurrent requests, as long as no
\* systemctl is killed, mergend does not die and the VM's own process and
\* scripts do not fail: then every job has a handler that waits for it and
\* holds the lock, so that stop meets no start on its way.  Failing file
\* operations and an unreachable systemd do no harm.
THEOREM StoppedStaysStoppedHolds ==
    ASSUME Mild
    PROVE  Spec => []StoppedStaysStopped
<1>1. StopInv => StoppedStaysStopped
  BY DEF StopInv, UnitSound, StoppedStaysStopped, RegistryInv, LockInv, TypeInv, TypeOK
<1>2. StopInv /\ [Next]_vars => StopInv'
  BY StopInvNext
<1> QED
  BY <1>1, <1>2, StopInvInit, PTL DEF Spec

\* No handler makes a unit active: that is left to the unit.
LEMMA HandlersOnlyStop ==
    ASSUME TypeInv, NEW p \in Handler, RequestCreate(p) \/ RequestOn(p) \/ HandlerStep(p),
           NEW v \in VM, ~running(v)
    PROVE  ~running(v)'
<1>1. unit \in [VM -> UnitState]
  BY DEF TypeInv, TypeOK
<1>2. CASE SendJob(p)
  BY <1>1, <1>2 DEF SendJob, startJob, stopJob, running
<1>3. CASE ~SendJob(p)
  <2>1. unit' = unit
    BY <1>3 DEF RequestCreate, RequestOn, HandlerStep, CreateStep, ValidateFails, ListIDs,
       ReadNextMeta, AllocateFor, SaveDir, SaveVMConfig, SaveMeta, SaveHooks, SaveEnv,
       Created, CheckExists, lockVM, SystemctlStep, IsActiveSkips, IsActiveActs,
       IsActiveKilled, SystemctlUnavailable, JobEnds, collectJob, SystemctlKilled, DeleteStep,
       ReadMeta, StatAndList, UnlinkNext, RemoveConfigDir, RemoveRunDir, RemoveDataDir,
       ReleaseAndReply, FailUnlocked, FailLocked, Reply, Answer, unitVars
  <2> QED
    BY <2>1 DEF running
<1> QED
  BY <1>2, <1>3

\* DeleteVM comes to the files only after is-active said that the VM does not
\* run or after the stop job was done.
LEMMA DeleterSteps ==
    ASSUME Faults = {}, GoneInv, NEW p \in Handler,
           RequestCreate(p) \/ RequestOn(p) \/ HandlerStep(p)
    PROVE  DeletesStopped(p)'
<1>1. /\ StopperSound(p) /\ DeletesStopped(p) /\ TypeInv
      /\ pc \in [Handler -> {"idle"} \cup Unlocked \cup Critical]
      /\ op \in [Handler -> {"none", "create", "start", "stop", "delete"}]
      /\ out \in [Handler -> Status]
      /\ pc[p] # "idle" => vm[p] \in VM
  BY DEF GoneInv, StopInv, RegistryInv, LockInv, TypeInv, TypeOK, Busy
<1>2. CASE IsActiveSkips(p) \/ JobEnds(p)
  <2>1. vm' = vm /\ unit' = unit /\ op' = op
    BY <1>2 DEF IsActiveSkips, JobEnds, AfterSystemctl, Return, collectJob, unitVars, request
  <2>2. op[p] = "delete" => ~running(vm[p])
    BY <1>1, <1>2 DEF IsActiveSkips, isActive, JobEnds, StopperSound, running
  <2>3. pc'[p] \in InDelete => op[p] = "delete"
    BY <1>1, <1>2 DEF IsActiveSkips, JobEnds, AfterSystemctl, Return, Goto, InDelete
  <2> QED
    BY <2>1, <2>2, <2>3 DEF DeletesStopped, Deleted, running
<1>3. CASE DeleteStep(p)
  <2>1. /\ vm' = vm /\ unit' = unit
        /\ \/ pc[p] \in InDelete
           \/ pc[p] = "readmeta" /\ pc'[p] \notin InDelete /\ ~Deleted(p)'
    BY <1>1, <1>3 DEF DeleteStep, ReadMeta, StatAndList, UnlinkNext, RemoveConfigDir,
       RemoveRunDir, RemoveDataDir, Return, Goto, request, unitVars, InDelete, Deleted
  <2> QED
    BY <1>1, <2>1 DEF DeletesStopped, running
<1>4. CASE \/ RequestCreate(p) \/ RequestOn(p) \/ CreateStep(p) \/ CheckExists(p) \/ lockVM(p)
           \/ IsActiveActs(p) \/ SendJob(p) \/ ReleaseAndReply(p)
  <2>1. pc'[p] \notin InDelete \cup {"release"}
    BY <1>1, <1>4 DEF RequestCreate, RequestOn, CreateStep, ValidateFails, ListIDs,
       ReadNextMeta, AllocateFor, SaveDir, AfterSaving, Directory, SaveVMConfig, SaveMeta,
       SaveHooks, SaveEnv, Created, CheckExists, lockVM, IsActiveActs, SendJob,
       ReleaseAndReply, Reply, Answer, Goto, InDelete
  <2> QED
    BY <2>1 DEF DeletesStopped, Deleted
<1>5. /\ ~IsActiveKilled(p) /\ ~SystemctlKilled(p) /\ ~SystemctlUnavailable(p)
      /\ ~FailUnlocked(p) /\ ~FailLocked(p)
  BY DEF IsActiveKilled, SystemctlKilled, SystemctlUnavailable, FailUnlocked, FailLocked
<1> QED
  BY <1>2, <1>3, <1>4, <1>5 DEF HandlerStep, SystemctlStep

\* Without faults no step starts a VM that is being deleted or is gone.
LEMMA GoneInvNext == Faults = {} /\ GoneInv /\ [Next]_vars => GoneInv'
<1> SUFFICES ASSUME Faults = {}, GoneInv, [Next]_vars
             PROVE  GoneInv'
  OBVIOUS
<1>1. Mild /\ StopInv /\ RegistryInv /\ TypeInv /\ LockDiscipline
  BY DEF Mild, GoneInv, StopInv, RegistryInv, LockInv
<1>2. /\ StopInv' /\ gone \subseteq VM /\ ToldIsTrue
      /\ \A q \in Handler : pc[q] # "idle" => vm[q] \in VM
  BY <1>1, StopInvNext DEF RegistryInv, TypeInv, TypeOK, Busy, FilesInv
<1>3. ASSUME NEW p \in Handler, RequestCreate(p) \/ RequestOn(p) \/ HandlerStep(p)
      PROVE  GoneInv'
  <2>1. \A v \in VM : ~running(v) => ~running(v)'
    BY <1>1, <1>3, HandlersOnlyStop
  <2>2. ASSUME NEW q \in Handler \ {p}
        PROVE  DeletesStopped(q)'
    <3>1. pc'[q] = pc[q] /\ op'[q] = op[q] /\ vm'[q] = vm[q] /\ out'[q] = out[q]
      BY <1>1, <1>3, OthersWaitFor DEF OthersWait
    <3>2. DeletesStopped(q)
      BY DEF GoneInv
    <3> QED
      BY <1>2, <2>1, <3>1, <3>2 DEF DeletesStopped, Deleted, InDelete, running
  <2>3. GoneIsNotRunning'
    <3>1. gone' = gone \/ (Deleted(p) /\ gone' = gone \cup {vm[p]})
      BY <1>1, <1>3, HandlerKeeps DEF StepKeeps, Effect, Quiet, Registers, Dooms, Removes,
         AnswersCreate, AnswersDelete, told
    <3>2. Deleted(p) => vm[p] \in VM /\ ~running(vm[p])
      BY <1>2 DEF GoneInv, DeletesStopped, Deleted
    <3> QED
      BY <1>2, <2>1, <3>1, <3>2 DEF GoneInv, GoneIsNotRunning, running
  <2> QED
    BY <1>2, <1>3, <2>2, <2>3, DeleterSteps DEF GoneInv
<1>4. ASSUME NEW v \in VM, UnitStep(v)
      PROVE  GoneInv'
  <2>1. /\ UNCHANGED <<pc, op, vm, out, gone>>
        /\ \A w \in VM \ {v} : unit'[w] = unit[w]
    BY <1>1, <1>4, UnitLeaves
  <2>2. unit'[v] = "active" => running(v) \/ (job[v] = "start" /\ Exists(v))
    BY <1>1, <1>4, UnitSoundSteps
  <2>3. GoneIsNotRunning'
    BY <1>2, <2>1, <2>2 DEF GoneInv, GoneIsNotRunning, ToldIsTrue, running
  <2>4. ASSUME NEW q \in Handler
        PROVE  DeletesStopped(q)'
    <3>1. DeletesStopped(q) /\ UnitSound(v)
      BY <1>1 DEF GoneInv, StopInv
    <3>2. pc[q] \in InDelete \/ Deleted(q) =>
              pc[q] \in Critical /\ pc[q] # "wait" /\ vm[q] \in VM
      BY <1>2 DEF InDelete, Deleted, Critical
    <3>3. (pc[q] \in InDelete \/ Deleted(q)) /\ vm[q] = v => job[v] # "start"
      BY <1>1, <3>1, <3>2 DEF UnitSound, LockDiscipline
    <3> QED
      BY <2>1, <2>2, <3>1, <3>2, <3>3 DEF DeletesStopped, Deleted, running
  <2> QED
    BY <1>2, <2>3, <2>4 DEF GoneInv
<1>5. CASE UNCHANGED vars
  BY <1>2, <1>5 DEF vars, unitVars, request, history, GoneInv, DeletesStopped, Deleted,
     GoneIsNotRunning, running
<1>6. ~Crash
  BY DEF Crash
<1> QED
  BY <1>3, <1>4, <1>5, <1>6 DEF Next

\* A delete is answered with 200 only for a VM that does not run, and a VM
\* that is gone does not come up again, for any number of VMs and concurrent
\* requests when nothing fails.  Every kind of fault breaks this, because
\* DeleteVM goes on to the files whatever became of systemctl stop.
THEOREM GoneIsNotRunningHolds ==
    ASSUME Faults = {}
    PROVE  Spec => []GoneIsNotRunning
<1>1. Init => GoneInv
  BY StopInvInit DEF Init, UnitInit, GoneInv, DeletesStopped, Deleted, InDelete,
     GoneIsNotRunning
<1>2. GoneInv => GoneIsNotRunning
  BY DEF GoneInv
<1>3. GoneInv /\ [Next]_vars => GoneInv'
  BY GoneInvNext
<1> QED
  BY <1>1, <1>2, <1>3, PTL DEF Spec

=============================================================================

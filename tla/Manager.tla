------------------------------- MODULE Manager -------------------------------
(***************************************************************************)
(* mergend: the handlers of internal/api/handler.go running the operations *)
(* of internal/manager/service.go, over the file store, the per-VM lock,   *)
(* the allocator and systemd.                                              *)
(*                                                                         *)
(* Every request runs in a goroutine of its own.  A handler's step is one  *)
(* call that reads or changes state others share: one file written, one    *)
(* directory entry removed, one systemctl command sent or answered.        *)
(* Input that only one step uses (ports, hooks, autoStart, retainData) is  *)
(* chosen in that step.  Hooks run in goroutines that touch none of the    *)
(* state kept here, so their dispatch is part of the step before the       *)
(* reply; "systemctl disable" undoes an enablement nothing here creates,   *)
(* so it is part of the step before the files are removed.                 *)
(*                                                                         *)
(* Faults is the set of failures a run allows:                             *)
(*   "io"        a file system call, flock or the random source fails      *)
(*   "timeout"   a systemctl command is killed, by CommandTimeout or       *)
(*               because the client went away                              *)
(*   "bus"       a systemctl command finds systemd unreachable or the unit *)
(*               template unknown, or systemctl is not installed           *)
(*               (ExecClient.available = false: every command then fails)  *)
(*   "crash"     mergend dies and comes back                               *)
(*   "vm"        the VM's start scripts or its process fail                *)
(***************************************************************************)
EXTENDS Allocator, FileLock, SystemdUnit

CONSTANTS Ops,        \* what clients ask for: "create", "autoStart" (a create
                      \* that also starts), "start", "stop", "delete"
          Payloads    \* the port lists of create requests

VARIABLES
    pc,        \* where a handler is; "idle" when it serves no request
    op, vm,    \* the request: operation and VM id
    todo,      \* ListMetas: ids still to be read
    metas,     \* ListMetas: what has been read
    plan,      \* CreateVM: the metadata to be saved
    listed,    \* RemoveAll: directory entries still to be unlinked
    out,       \* the HTTP status, 0 while undecided
    issued     \* ids drawn by newUUIDv4 so far

VARIABLES      \* history, read by no step
    missed,    \* per handler: VMs registered since it listed the ids
    rivals,    \* per VM: missed at the time the VM was registered
    doomed,    \* VMs whose files a delete has begun to remove
    acked,     \* VMs whose creation was answered with 201
    gone,      \* VMs whose deletion was answered with 200
    halted,    \* VMs whose stop was answered with 200, no start sent since
    exited     \* VMs whose process ended by itself, no start sent since

request == <<op, vm>>
planning == <<todo, metas, plan, missed>>
history == <<rivals, doomed, acked, gone, halted, exited>>
vars == <<storeVars, lock, unitVars, pc, request, planning, listed, out,
          issued, history>>

-----------------------------------------------------------------------------
(* Control states, named for what the handler does next *)

\* CreateVM between ListVMIDs and the write of meta.json
Window == {"read", "configDir", "runDir", "dataDir", "vm.json", "meta.json"}

\* handlers that hold the VM's lock
Critical == {"readmeta", "isactive", "systemctl", "wait", "stat", "unlink",
             "rmrun", "rmdata", "release"}

Unlocked == {"list", "hooks.json", "env", "created", "exists", "lock"} \cup Window

Status == {0, 200, 201, 400, 404, 409, 500, 503}

Meta == [ip : Nat, ports : SUBSET Nat]

ASSUME NoMetaAssumption == NoMeta \notin Meta

TypeOK ==
    /\ meta \in [VM -> Meta \cup {NoMeta}]
    /\ entries \in [VM -> SUBSET Entry]
    /\ lock \in [VM -> Handler \cup {None}]
    /\ unit \in [VM -> UnitState]
    /\ job \in [VM -> JobState]
    /\ pc \in [Handler -> {"idle"} \cup Unlocked \cup Critical]
    /\ op \in [Handler -> {"none", "create", "start", "stop", "delete"}]
    /\ vm \in [Handler -> VM \cup {None}]
    /\ todo \in [Handler -> SUBSET VM]
    /\ metas \in [Handler -> SUBSET Meta]
    /\ plan \in [Handler -> Meta \cup {NoMeta}]
    /\ listed \in [Handler -> SUBSET ConfigFile]
    /\ out \in [Handler -> Status]
    /\ issued \subseteq VM
    /\ missed \in [Handler -> SUBSET VM]
    /\ rivals \in [VM -> SUBSET VM]
    /\ doomed \subseteq VM
    /\ acked \subseteq VM
    /\ gone \subseteq VM
    /\ halted \subseteq VM
    /\ exited \subseteq VM

Init ==
    /\ StoreInit
    /\ LockInit
    /\ UnitInit
    /\ pc = [p \in Handler |-> "idle"]
    /\ op = [p \in Handler |-> "none"]
    /\ vm = [p \in Handler |-> None]
    /\ todo = [p \in Handler |-> {}]
    /\ metas = [p \in Handler |-> {}]
    /\ plan = [p \in Handler |-> NoMeta]
    /\ listed = [p \in Handler |-> {}]
    /\ out = [p \in Handler |-> 0]
    /\ issued = {}
    /\ missed = [p \in Handler |-> {}]
    /\ rivals = [v \in VM |-> {}]
    /\ doomed = {} /\ acked = {} /\ gone = {} /\ halted = {} /\ exited = {}

-----------------------------------------------------------------------------
(* Requests and replies *)

Goto(p, label) == pc' = [pc EXCEPT ![p] = label]

\* Mutant: the id is not drawn anew for every request.
RequestCreate_Mutant(p) ==
    /\ pc[p] = "idle"
    /\ "create" \in Ops
    /\ \E v \in VM : /\ vm' = [vm EXCEPT ![p] = v]
                     /\ issued' = issued \cup {v}
    /\ op' = [op EXCEPT ![p] = "create"]
    /\ Goto(p, "list")
    /\ UNCHANGED <<storeVars, lock, unitVars, planning, listed, out, history>>

\* POST /v1/vms.  A UUID is never drawn twice; the id is fixed here and not
\* seen by anyone before SaveVM uses it.
RequestCreate(p) ==
    /\ pc[p] = "idle"
    /\ "create" \in Ops
    /\ \E v \in VM \ issued : /\ vm' = [vm EXCEPT ![p] = v]
                              /\ issued' = issued \cup {v}
    /\ op' = [op EXCEPT ![p] = "create"]
    /\ Goto(p, "list")
    /\ UNCHANGED <<storeVars, lock, unitVars, planning, listed, out, history>>

\* POST /v1/vms/:id/start, .../stop and DELETE /v1/vms/:id
RequestOn(p) ==
    /\ pc[p] = "idle"
    /\ \E o \in Ops \cap {"start", "stop", "delete"} : op' = [op EXCEPT ![p] = o]
    /\ \E v \in VM : vm' = [vm EXCEPT ![p] = v]
    /\ Goto(p, "exists")
    /\ UNCHANGED <<storeVars, lock, unitVars, planning, listed, out, issued, history>>

\* The reply; the handler's local state is dropped with it.
Answer(p, status) ==
    /\ Goto(p, "idle")
    /\ op' = [op EXCEPT ![p] = "none"]
    /\ vm' = [vm EXCEPT ![p] = None]
    /\ todo' = [todo EXCEPT ![p] = {}]
    /\ metas' = [metas EXCEPT ![p] = {}]
    /\ plan' = [plan EXCEPT ![p] = NoMeta]
    /\ missed' = [missed EXCEPT ![p] = {}]
    /\ listed' = [listed EXCEPT ![p] = {}]
    /\ out' = [out EXCEPT ![p] = 0]
    /\ acked' = IF status = 201 THEN acked \cup {vm[p]} ELSE acked
    /\ gone' = IF op[p] = "delete" /\ status = 200 THEN gone \cup {vm[p]} ELSE gone
    /\ halted' = IF op[p] = "stop" /\ status = 200 THEN halted \cup {vm[p]} ELSE halted
    /\ UNCHANGED <<unitVars, issued, rivals, doomed, exited>>

\* The reply of a handler that holds no lock.
Reply(p, status) == Answer(p, status) /\ UNCHANGED <<storeVars, lock>>

\* The operation returns while it holds the lock: the deferred release runs
\* next, then the reply is sent.
Return(p, status) == /\ out' = [out EXCEPT ![p] = status]
                     /\ Goto(p, "release")
                     /\ UNCHANGED <<lock, request, planning, listed, issued>>

ReleaseAndReply(p) == /\ pc[p] = "release"
                      /\ Release(vm[p])
                      /\ Answer(p, out[p])
                      /\ UNCHANGED storeVars

-----------------------------------------------------------------------------
(* CreateVM *)

\* validateCreate or validatePathExists refuses the payload.
ValidateFails(p) == pc[p] = "list" /\ Reply(p, 400)

\* ListMetas: the ids first, then one meta.json after the other.
ListIDs(p) ==
    /\ pc[p] = "list"
    /\ todo' = [todo EXCEPT ![p] = ListVMIDs]
    /\ Goto(p, "read")
    /\ UNCHANGED <<storeVars, lock, unitVars, request, metas, plan, missed,
                   listed, out, issued, history>>

\* An id without meta.json (ErrNotFound) is skipped.
ReadNextMeta(p) ==
    /\ pc[p] = "read"
    /\ \E v \in todo[p] :
          /\ todo' = [todo EXCEPT ![p] = @ \ {v}]
          /\ metas' = [metas EXCEPT ![p] =
                          IF Exists(v) THEN @ \cup {meta[v]} ELSE @]
    /\ UNCHANGED <<storeVars, lock, unitVars, pc, request, plan, missed,
                   listed, out, issued, history>>

AllocateFor(p) ==
    /\ pc[p] = "read"
    /\ todo[p] = {}
    /\ \E requests \in Payloads :
          LET allocation == Allocate(metas[p], requests)
          IN  \/ /\ allocation.ok
                 /\ plan' = [plan EXCEPT ![p] = allocation.meta]
                 /\ Goto(p, "configDir")
                 /\ UNCHANGED <<storeVars, lock, unitVars, request, todo, metas,
                                missed, listed, out, issued, history>>
              \/ /\ ~allocation.ok
                 /\ Reply(p, 400)

\* SaveVM: the directories, then the files, in this order.
AfterSaving == [configDir |-> "runDir", runDir |-> "dataDir", dataDir |-> "vm.json"]

SaveDir(p) ==
    /\ pc[p] \in Directory
    /\ MkdirAll(vm[p], pc[p])
    /\ Goto(p, AfterSaving[pc[p]])
    /\ UNCHANGED <<lock, unitVars, request, planning, listed, out, issued, history>>

\* Mutant: an error of the write is dropped.
SaveVMConfig_Mutant(p) ==
    /\ pc[p] = "vm.json"
    /\ writeFile(vm[p], "vm.json") \/ UNCHANGED storeVars
    /\ Goto(p, "meta.json")
    /\ UNCHANGED <<lock, unitVars, request, planning, listed, out, issued, history>>

SaveVMConfig(p) ==
    /\ pc[p] = "vm.json"
    /\ writeFile(vm[p], "vm.json")
    /\ Goto(p, "meta.json")
    /\ UNCHANGED <<lock, unitVars, request, planning, listed, out, issued, history>>

\* From here on the VM is registered.
SaveMeta(p) ==
    /\ pc[p] = "meta.json"
    /\ writeMeta(vm[p], plan[p])
    /\ Goto(p, "hooks.json")
    /\ metas' = [metas EXCEPT ![p] = {}]
    /\ plan' = [plan EXCEPT ![p] = NoMeta]
    /\ rivals' = [rivals EXCEPT ![vm[p]] = missed[p]]
    /\ missed' = [q \in Handler |->
                    IF q = p THEN {}
                    ELSE IF pc[q] \in Window THEN missed[q] \cup {vm[p]}
                    ELSE missed[q]]
    /\ UNCHANGED <<lock, unitVars, request, todo, listed, out, issued,
                   doomed, acked, gone, halted, exited>>

\* hooks.json is written only if the request has hooks.
SaveHooks(p) ==
    /\ pc[p] = "hooks.json"
    /\ \/ writeFile(vm[p], "hooks.json")
       \/ UNCHANGED storeVars
    /\ Goto(p, "env")
    /\ UNCHANGED <<lock, unitVars, request, planning, listed, out, issued, history>>

\* Mutant: an error of the write is dropped.
SaveEnv_Mutant(p) ==
    /\ pc[p] = "env"
    /\ writeFile(vm[p], "env") \/ UNCHANGED storeVars
    /\ Goto(p, "created")
    /\ UNCHANGED <<lock, unitVars, request, planning, listed, out, issued, history>>

\* baseEnv is never empty.
SaveEnv(p) ==
    /\ pc[p] = "env"
    /\ writeFile(vm[p], "env")
    /\ Goto(p, "created")
    /\ UNCHANGED <<lock, unitVars, request, planning, listed, out, issued, history>>

\* onCreate hooks; then the reply, or StartVM in the same request.
Created(p) ==
    /\ pc[p] = "created"
    /\ \/ Reply(p, 201)
       \/ /\ "autoStart" \in Ops
          /\ Goto(p, "exists")
          /\ UNCHANGED <<storeVars, lock, unitVars, request, planning, listed,
                         out, issued, history>>

-----------------------------------------------------------------------------
(* StartVM, StopVM, DeleteVM: existence check, lock, systemctl *)

CheckExists(p) ==
    /\ pc[p] = "exists"
    /\ \/ /\ Exists(vm[p])
          /\ Goto(p, "lock")
          /\ UNCHANGED <<storeVars, lock, unitVars, request, planning, listed,
                         out, issued, history>>
       \/ /\ ~Exists(vm[p])
          /\ Reply(p, 404)

lockVM(p) ==
    /\ pc[p] = "lock"
    /\ \/ /\ Acquire(p, vm[p])
          /\ Goto(p, IF op[p] = "delete" THEN "readmeta" ELSE "isactive")
          /\ UNCHANGED <<storeVars, unitVars, request, planning, listed, out,
                         issued, history>>
       \/ /\ AlreadyLocked(vm[p])
          /\ Answer(p, 409)
          /\ UNCHANGED storeVars

\* Mutant: the deferred release does not cover this return.
ReadMeta_Mutant(p) ==
    /\ pc[p] = "readmeta"
    /\ \/ /\ Exists(vm[p])
          /\ Goto(p, "isactive")
          /\ UNCHANGED <<storeVars, lock, unitVars, request, planning, listed, out,
                         issued, history>>
       \/ /\ ~Exists(vm[p])
          /\ Reply(p, 404)

\* DeleteVM reads meta.json again, now under the lock.
ReadMeta(p) ==
    /\ pc[p] = "readmeta"
    /\ \/ /\ Exists(vm[p])
          /\ Goto(p, "isactive")
          /\ UNCHANGED <<lock, request, planning, listed, out, issued>>
       \/ /\ ~Exists(vm[p])
          /\ Return(p, 404)
    /\ UNCHANGED <<storeVars, unitVars, history>>

\* systemd.Start or systemd.Stop has returned: DeleteVM only logs a failure.
AfterSystemctl(p, status) ==
    IF op[p] = "delete"
    THEN /\ Goto(p, "stat")
         /\ UNCHANGED <<lock, request, planning, listed, out, issued>>
    ELSE Return(p, status)

\* Mutant: success is answered with 204.
Succeeded_Mutant(p) == 204

Succeeded(p) == IF op[p] = "create" THEN 201 ELSE 200

\* The unit is already where the operation wants it.
IsActiveSkips(p) ==
    /\ pc[p] = "isactive"
    /\ isActive(vm[p]) = (op[p] \in {"start", "create"})
    /\ AfterSystemctl(p, Succeeded(p))
    /\ UNCHANGED <<storeVars, unitVars, history>>

\* Mutant: DeleteVM does not stop the unit.
IsActiveActs_Mutant(p) ==
    /\ pc[p] = "isactive"
    /\ isActive(vm[p]) # (op[p] \in {"start", "create"})
    /\ Goto(p, IF op[p] = "delete" THEN "stat" ELSE "systemctl")
    /\ UNCHANGED <<storeVars, unitVars, lock, request, planning, listed, out,
                   issued, history>>

IsActiveActs(p) ==
    /\ pc[p] = "isactive"
    /\ isActive(vm[p]) # (op[p] \in {"start", "create"})
    /\ Goto(p, "systemctl")
    /\ UNCHANGED <<storeVars, unitVars, lock, request, planning, listed, out,
                   issued, history>>

\* A killed is-active is an ExitError, which IsActive takes for "inactive".
IsActiveKilled(p) ==
    /\ pc[p] = "isactive"
    /\ "timeout" \in Faults
    /\ \/ /\ op[p] \in {"start", "create"}
          /\ Goto(p, "systemctl")
          /\ UNCHANGED <<lock, request, planning, listed, out, issued>>
       \/ /\ op[p] \in {"stop", "delete"}
          /\ AfterSystemctl(p, Succeeded(p))
    /\ UNCHANGED <<storeVars, unitVars, history>>

SystemctlUnavailable(p) ==
    /\ pc[p] \in {"isactive", "systemctl"}
    /\ "bus" \in Faults
    /\ AfterSystemctl(p, 503)
    /\ UNCHANGED <<storeVars, unitVars, history>>

\* systemctl start|stop hands the job to systemd and waits for it.
SendJob(p) ==
    /\ pc[p] = "systemctl"
    /\ \/ /\ op[p] \in {"start", "create"}
          /\ startJob(vm[p])
          /\ halted' = halted \ {vm[p]}
          /\ exited' = exited \ {vm[p]}
       \/ /\ op[p] \in {"stop", "delete"}
          /\ stopJob(vm[p])
          /\ UNCHANGED <<halted, exited>>
    /\ Goto(p, "wait")
    /\ UNCHANGED <<storeVars, lock, request, planning, listed, out, issued,
                   rivals, doomed, acked, gone>>

\* Mutant: the exit status of systemctl is ignored.
JobEnds_IgnoresStatus(p) ==
    /\ pc[p] = "wait"
    /\ job[vm[p]] \in {"done", "failed"}
    /\ AfterSystemctl(p, Succeeded(p))
    /\ collectJob(vm[p])
    /\ UNCHANGED <<storeVars, history>>

\* Mutant: systemctl is asked again until it succeeds.
JobEnds_Retries(p) ==
    /\ pc[p] = "wait"
    /\ job[vm[p]] = "done"
    /\ AfterSystemctl(p, Succeeded(p))
    /\ collectJob(vm[p])
    /\ UNCHANGED <<storeVars, history>>

JobEnds(p) ==
    /\ pc[p] = "wait"
    /\ \/ job[vm[p]] = "done" /\ AfterSystemctl(p, Succeeded(p))
       \/ job[vm[p]] = "failed" /\ AfterSystemctl(p, 500)
    /\ collectJob(vm[p])
    /\ UNCHANGED <<storeVars, history>>

\* systemctl is killed, or not run at all when the client has already gone; the
\* job, if it was sent, goes on.
SystemctlKilled(p) ==
    /\ pc[p] \in {"isactive", "systemctl", "wait"}
    /\ "timeout" \in Faults
    /\ AfterSystemctl(p, 500)
    /\ UNCHANGED <<storeVars, unitVars, history>>

-----------------------------------------------------------------------------
(* DeleteVM in the store: os.RemoveAll reads the directory once, unlinks   *)
(* what it found and removes the directory if nothing else came up.        *)

StatAndList(p) ==
    /\ pc[p] = "stat"
    /\ IF Exists(vm[p])
       THEN /\ listed' = [listed EXCEPT ![p] = configFiles(vm[p])]
            /\ doomed' = doomed \cup {vm[p]}
            /\ Goto(p, "unlink")
            /\ UNCHANGED <<lock, request, planning, out, issued>>
       ELSE Return(p, 404) /\ UNCHANGED doomed
    /\ UNCHANGED <<storeVars, unitVars, rivals, acked, gone, halted, exited>>

\* An entry that cannot be removed does not keep the others.
UnlinkNext(p) ==
    /\ pc[p] = "unlink"
    /\ \E file \in listed[p] :
          /\ listed' = [listed EXCEPT ![p] = @ \ {file}]
          /\ \/ unlink(vm[p], file)
             \/ "io" \in Faults /\ UNCHANGED storeVars
    /\ UNCHANGED <<lock, unitVars, pc, request, planning, out, issued, history>>

RemoveConfigDir(p) ==
    /\ pc[p] = "unlink"
    /\ listed[p] = {}
    /\ \/ /\ configFiles(vm[p]) = {}
          /\ rmdir(vm[p], "configDir")
          /\ Goto(p, "rmrun")
          /\ UNCHANGED <<lock, request, planning, listed, out, issued>>
       \/ /\ configFiles(vm[p]) # {}
          /\ Return(p, 500)
          /\ UNCHANGED storeVars
    /\ UNCHANGED <<unitVars, history>>

RemoveRunDir(p) ==
    /\ pc[p] = "rmrun"
    /\ rmdir(vm[p], "runDir")
    /\ Goto(p, "rmdata")
    /\ UNCHANGED <<lock, unitVars, request, planning, listed, out, issued, history>>

\* The data directory stays if the client asked for it; onDelete hooks.
RemoveDataDir(p) ==
    /\ pc[p] = "rmdata"
    /\ \/ rmdir(vm[p], "dataDir")
       \/ UNCHANGED storeVars
    /\ Return(p, 200)
    /\ UNCHANGED <<unitVars, history>>

-----------------------------------------------------------------------------
(* Failures *)

\* A call fails before the lock is taken: the error becomes a 500.
FailUnlocked(p) ==
    /\ "io" \in Faults
    /\ pc[p] \in Unlocked \ {"created"}
    /\ Reply(p, 500)

\* A call fails under the lock: DeleteVM only logs it when it was systemctl.
FailLocked(p) ==
    /\ "io" \in Faults
    /\ \/ pc[p] \in {"readmeta", "stat", "rmrun", "rmdata"} /\ Return(p, 500)
       \/ pc[p] = "unlink" /\ listed[p] = {} /\ Return(p, 500)
       \/ pc[p] \in {"isactive", "systemctl"} /\ AfterSystemctl(p, 500)
    /\ UNCHANGED <<storeVars, unitVars, history>>

\* mergend dies: its requests end unanswered; files, units and jobs stay.
Crash ==
    /\ "crash" \in Faults
    /\ \E p \in Handler : pc[p] # "idle"
    /\ DropAll
    /\ pc' = [p \in Handler |-> "idle"]
    /\ op' = [p \in Handler |-> "none"]
    /\ vm' = [p \in Handler |-> None]
    /\ todo' = [p \in Handler |-> {}]
    /\ metas' = [p \in Handler |-> {}]
    /\ plan' = [p \in Handler |-> NoMeta]
    /\ missed' = [p \in Handler |-> {}]
    /\ listed' = [p \in Handler |-> {}]
    /\ out' = [p \in Handler |-> 0]
    /\ UNCHANGED <<storeVars, unitVars, issued, history>>

-----------------------------------------------------------------------------
(* The specification *)

CreateStep(p) == \/ ValidateFails(p)
                 \/ ListIDs(p)
                 \/ ReadNextMeta(p)
                 \/ AllocateFor(p)
                 \/ SaveDir(p)
                 \/ SaveVMConfig(p)
                 \/ SaveMeta(p)
                 \/ SaveHooks(p)
                 \/ SaveEnv(p)
                 \/ Created(p)

SystemctlStep(p) == \/ IsActiveSkips(p)
                    \/ IsActiveActs(p)
                    \/ IsActiveKilled(p)
                    \/ SystemctlUnavailable(p)
                    \/ SendJob(p)
                    \/ JobEnds(p)
                    \/ SystemctlKilled(p)

DeleteStep(p) == \/ ReadMeta(p)
                 \/ StatAndList(p)
                 \/ UnlinkNext(p)
                 \/ RemoveConfigDir(p)
                 \/ RemoveRunDir(p)
                 \/ RemoveDataDir(p)

HandlerStep(p) == \/ CreateStep(p)
                  \/ CheckExists(p)
                  \/ lockVM(p)
                  \/ SystemctlStep(p)
                  \/ DeleteStep(p)
                  \/ ReleaseAndReply(p)
                  \/ FailUnlocked(p)
                  \/ FailLocked(p)

managerVars == <<lock, pc, request, planning, listed, out, issued, rivals,
                 doomed, acked, gone, halted>>

\* A unit leaves "active" by itself only when its process ends.
UnitStep(v) == /\ UnitNext(v)
               /\ exited' = IF isActive(v) THEN exited \cup {v} ELSE exited
               /\ UNCHANGED managerVars

Next == \/ \E p \in Handler : RequestCreate(p) \/ RequestOn(p) \/ HandlerStep(p)
        \/ \E v \in VM : UnitStep(v)
        \/ Crash

\* A goroutine that can run is run, and so are the unit's scripts; clients
\* need not send requests, VMs need not fail, mergend need not crash.
Fairness == /\ \A p \in Handler : WF_vars(HandlerStep(p))
            /\ \A v \in VM : WF_vars(UnitStep(v))

Spec == Init /\ [][Next]_vars

FairSpec == Spec /\ Fairness

-----------------------------------------------------------------------------
(* Properties *)

running(v) == unit[v] = "active"

\* A handler is between lockVM and its deferred release exactly while the
\* flock of its VM is its own, so two handlers are never there for one VM,
\* and no path, error or crash leaves a lock behind.
LockDiscipline ==
    /\ \A p \in Handler : pc[p] \in Critical => lock[vm[p]] = p
    /\ \A v \in VM : lock[v] # None => /\ pc[lock[v]] \in Critical
                                       /\ vm[lock[v]] = v

\* CreateVM holds no lock between ListMetas and SaveVM.  Two registered VMs
\* have an address or a host port in common only if one of them was
\* registered while the other was in between.
shareAddress(m, n) == m.ip = n.ip \/ m.ports \cap n.ports # {}

SharedOnlyIfOverlapping ==
    \A a, b \in VM :
        (a # b /\ Exists(a) /\ Exists(b) /\ shareAddress(meta[a], meta[b]))
            => a \in rivals[b] \/ b \in rivals[a]

\* SaveVM writes vm.json before meta.json and nothing else but a delete
\* removes files: a VM that start can find has the config its unit needs,
\* whatever failed or crashed on the way, unless a delete has begun.
RegisteredHasConfig ==
    \A v \in VM \ doomed : Exists(v) => {"configDir", "vm.json"} \subseteq entries[v]

\* A VM whose creation was answered with 201 has its directories and the files
\* every VM has, vm.json, meta.json and env, until a delete begins to remove
\* them.  hooks.json is written only for a VM with hooks.
AckedIsComplete ==
    \A v \in acked \ doomed :
        Exists(v) /\ Directory \cup {"vm.json", "env"} \subseteq entries[v]

\* The handlers implement Registry: a VM's metadata appears once and, once
\* removed, never comes back, although its creation may still be writing
\* files; 201 is answered at most once per id and only after it appeared; of
\* several deletes of one VM only one is answered with 200, and only when the
\* metadata is gone.
stage == [v \in VM |-> IF Exists(v) THEN "present"
                       ELSE IF v \in doomed THEN "removed"
                       ELSE "absent"]

Abstract == INSTANCE Registry WITH status <- stage,
                                   created <- acked,
                                   deleted <- gone

ImplementsRegistry == Abstract!RegistrySpec

\* Start answers 200, and create with autoStart 201, only with the unit
\* active or its process ended by itself since: whatever jobs earlier
\* timeouts, crashes and errors left behind, and though systemctl says only
\* how a job ended, success means that the VM came up.
StartedIsActive ==
    \A p \in Handler :
        pc[p] = "release" /\ <<op[p], out[p]>> \in {<<"start", 200>>, <<"create", 201>>}
            => running(vm[p]) \/ vm[p] \in exited

\* README: stop returns success for a VM that is stopped.  A VM whose stop
\* was answered with 200 does not run until it is started again.
StoppedStaysStopped == \A v \in halted : ~running(v)

\* DeleteVM stops the unit before it removes the files: the VM of a delete
\* answered with 200 does not run.
GoneIsNotRunning == \A v \in gone : ~running(v)

\* README: "Basic port publish + sequential IP allocation"; allocatePorts refuses
\* a host port that is "already allocated".  Two VMs whose creations were both
\* answered with 201 and that both exist share no guest address and no host port.
DistinctAddresses ==
    \A a, b \in acked :
        a # b /\ Exists(a) /\ Exists(b) => ~shareAddress(meta[a], meta[b])

\* Every request is answered or dies with mergend: no handler waits forever
\* on a lock, a job or a directory listing.
EveryRequestEnds == \A p \in Handler : pc[p] # "idle" ~> pc[p] = "idle"

=============================================================================

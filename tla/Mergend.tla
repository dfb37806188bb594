------------------------------- MODULE Mergend -------------------------------
(***************************************************************************)
(* The mergend process, cmd/mergend/main.go: what Manager leaves out.      *)
(* Handlers that list and read VMs while others create and delete them,    *)
(* the hooks that create, start, stop and delete trigger, and the end of   *)
(* the process while requests and hooks are under way.                     *)
(*                                                                         *)
(* Create, start, stop and delete are taken here in the steps that readers *)
(* and hooks can tell apart: meta.json before hooks.json, hooks read       *)
(* before the files are removed, one systemctl command.  Manager has their *)
(* files, jobs and failures one by one, HookRunner what the goroutine does *)
(* that an event starts.                                                   *)
(***************************************************************************)
EXTENDS Naturals, FileLock, FiniteSets, SequencesExt

CONSTANTS CreatedAt,   \* the creation time in the metadata of a VM
          Ops          \* what clients ask for

VARIABLES
    phase,      \* of the process: "serving", "draining", "stopped"
    pc,         \* where a handler is; "idle" when it serves no request
    op, vm,     \* the request
    todo,       \* ListVMs: ids still to be read
    items,      \* ListVMs: the summaries collected
    override,   \* DeleteVM: it has read the VM's hooks, before it removes the files
    out,        \* what the operation returned, "none" while undecided
    issued      \* ids drawn by newUUIDv4 so far

VARIABLES       \* history, read by no step
    since,      \* per query: VMs registered all the time since it began
    seen,       \* per query: VMs registered at some time since it began
    had,        \* per handler: hooks.json was there when the lock was taken and
                \* no read of a file failed since
    attached    \* per handler: the hooks of the VM were among those triggered

request == <<op, vm>>
query == <<todo, items>>
history == <<since, seen, had, attached>>
vars == <<storeVars, lock, phase, pc, request, query, override, out, issued,
          history>>

Query == {"get", "list"}

Locked == {"readhooks", "systemctl", "remove", "trigger", "release"}

Step == {"bind", "save", "hooks.json", "onCreate", "exists", "lock", "ids", "read",
         "probe", "reply"} \cup Locked

TypeOK ==
    /\ lock \in [VM -> Handler \cup {None}]
    /\ phase \in {"serving", "draining", "stopped"}
    /\ pc \in [Handler -> {"idle"} \cup Step]
    /\ op \in [Handler -> Ops \cup {"none"}]
    /\ vm \in [Handler -> VM \cup {None}]
    /\ todo \in [Handler -> SUBSET VM]
    /\ \A p \in Handler : ToSet(items[p]) \subseteq VM /\ Len(items[p]) <= Cardinality(VM)
    /\ override \in [Handler -> BOOLEAN]
    /\ out \in [Handler -> {"none", "ok", "notfound", "failed"}]
    /\ issued \subseteq VM
    /\ since \in [Handler -> SUBSET VM] /\ seen \in [Handler -> SUBSET VM]
    /\ had \in [Handler -> BOOLEAN] /\ attached \in [Handler -> BOOLEAN]

Init == /\ StoreInit
        /\ LockInit
        /\ phase = "serving"
        /\ issued = {}
        /\ pc = [p \in Handler |-> "idle"]
        /\ op = [p \in Handler |-> "none"]
        /\ vm = [p \in Handler |-> None]
        /\ todo = [p \in Handler |-> {}]
        /\ items = [p \in Handler |-> << >>]
        /\ override = [p \in Handler |-> FALSE]
        /\ out = [p \in Handler |-> "none"]
        /\ since = [p \in Handler |-> {}] /\ seen = [p \in Handler |-> {}]
        /\ had = [p \in Handler |-> FALSE] /\ attached = [p \in Handler |-> FALSE]

Goto(p, label) == pc' = [pc EXCEPT ![p] = label]

\* The operation returns: 200 or 201, 404, or any other status.  What it holds
\* is released and the reply sent in the next step.
Return(p, result) == /\ out' = [out EXCEPT ![p] = result]
                     /\ Goto(p, IF pc[p] \in Locked THEN "release" ELSE "reply")

registered == {v \in VM : Exists(v)}

-----------------------------------------------------------------------------
(* Requests and replies *)

Accept(p) ==
    /\ phase = "serving"
    /\ pc[p] = "idle"
    /\ \E o \in Ops :
          /\ op' = [op EXCEPT ![p] = o]
          /\ CASE o = "create" -> Goto(p, "bind") /\ UNCHANGED <<vm, since, seen>>
               [] o \in Query ->
                    /\ IF o = "list" THEN Goto(p, "ids") /\ UNCHANGED vm
                       ELSE Goto(p, "read") /\ \E v \in VM : vm' = [vm EXCEPT ![p] = v]
                    /\ since' = [since EXCEPT ![p] = registered]
                    /\ seen' = [seen EXCEPT ![p] = registered]
               [] OTHER -> /\ Goto(p, "exists")
                           /\ \E v \in VM : vm' = [vm EXCEPT ![p] = v]
                           /\ UNCHANGED <<since, seen>>
    /\ UNCHANGED <<storeVars, lock, phase, query, override, out, issued,
                   had, attached>>

Reply(p) ==
    /\ pc[p] \in {"reply", "release"}
    /\ IF pc[p] = "release" THEN Release(vm[p]) ELSE UNCHANGED lock
    /\ Goto(p, "idle")
    /\ op' = [op EXCEPT ![p] = "none"]
    /\ vm' = [vm EXCEPT ![p] = None]
    /\ todo' = [todo EXCEPT ![p] = {}]
    /\ items' = [items EXCEPT ![p] = << >>]
    /\ override' = [override EXCEPT ![p] = FALSE]
    /\ out' = [out EXCEPT ![p] = "none"]
    /\ since' = [since EXCEPT ![p] = {}]
    /\ seen' = [seen EXCEPT ![p] = {}]
    /\ had' = [had EXCEPT ![p] = FALSE]
    /\ attached' = [attached EXCEPT ![p] = FALSE]
    /\ UNCHANGED <<storeVars, phase, issued>>

-----------------------------------------------------------------------------
(* GetVM and ListVMs *)

ListIDs(p) ==
    /\ pc[p] = "ids"
    /\ todo' = [todo EXCEPT ![p] = ListVMIDs]
    /\ Goto(p, "read")
    /\ UNCHANGED <<storeVars, lock, phase, request, items, override, out, issued, history>>

\* GetVM reads the metadata of the VM asked for, or of the next one of a list.
ReadMetaOf(p, v) ==
    IF Exists(v)
    THEN /\ vm' = [vm EXCEPT ![p] = v]
         /\ Goto(p, "probe")
         /\ UNCHANGED out
    ELSE /\ UNCHANGED vm
         /\ IF op[p] = "get" THEN Return(p, "notfound") ELSE UNCHANGED <<pc, out>>

\* Mutant: a VM that is gone ends the list.
ReadNextMeta_Mutant(p) ==
    /\ pc[p] = "read" /\ op[p] = "list"
    /\ \E v \in todo[p] : /\ todo' = [todo EXCEPT ![p] = IF Exists(v) THEN @ \ {v} ELSE {}]
                          /\ ReadMetaOf(p, v)
    /\ UNCHANGED <<storeVars, lock, phase, op, items, override, issued, history>>

\* ListVMs skips a VM that is gone.
ReadNextMeta(p) ==
    /\ pc[p] = "read" /\ op[p] = "list"
    /\ \E v \in todo[p] : /\ todo' = [todo EXCEPT ![p] = @ \ {v}]
                          /\ ReadMetaOf(p, v)
    /\ UNCHANGED <<storeVars, lock, phase, op, items, override, issued, history>>

ReadMeta(p) ==
    /\ pc[p] = "read" /\ op[p] = "get"
    /\ ReadMetaOf(p, vm[p])
    /\ UNCHANGED <<storeVars, lock, phase, op, query, override, issued, history>>

\* systemctl show, also when systemd cannot be reached, and the API socket.
Probe(p) ==
    /\ pc[p] = "probe"
    /\ IF op[p] = "list"
       THEN /\ items' = [items EXCEPT ![p] = Append(@, vm[p])]
            /\ Goto(p, "read")
            /\ UNCHANGED out
       ELSE Return(p, "ok") /\ UNCHANGED items
    /\ UNCHANGED <<storeVars, lock, phase, request, todo, override, issued, history>>

\* slices.SortFunc, newest first; it is not stable, so VMs of the same time come
\* in any order.
SortFunc(s) ==
    {t \in {[i \in DOMAIN s |-> s[f[i]]] : f \in Bijection(DOMAIN s, DOMAIN s)} :
        \A i, j \in DOMAIN s : i < j => CreatedAt[t[i]] >= CreatedAt[t[j]]}

ListDone(p) ==
    /\ pc[p] = "read" /\ op[p] = "list"
    /\ todo[p] = {}
    /\ \E sorted \in SortFunc(items[p]) : items' = [items EXCEPT ![p] = sorted]
    /\ Return(p, "ok")
    /\ UNCHANGED <<storeVars, lock, phase, request, todo, override, issued, history>>

\* A file that cannot be read, or a command that fails, fails the query; one
\* VM fails the whole list.
QueryFails(p) ==
    /\ pc[p] \in {"ids", "read", "probe"}
    /\ Return(p, "failed")
    /\ UNCHANGED <<storeVars, lock, phase, request, query, override, issued, history>>

-----------------------------------------------------------------------------
(* CreateVM *)

\* The body arrives when the client sends it: only the header has a timeout.
Bind(p) ==
    /\ pc[p] = "bind"
    /\ \/ Goto(p, "save") /\ UNCHANGED out
       \/ Return(p, "failed")
    /\ UNCHANGED <<storeVars, lock, phase, request, query, override, issued, history>>

\* SaveVM up to meta.json, with a new id; or an error on the way.
Save(p) ==
    /\ pc[p] = "save"
    /\ \/ \E v \in VM \ issued :
             /\ vm' = [vm EXCEPT ![p] = v]
             /\ issued' = issued \cup {v}
             /\ writeMeta(v, "meta")
             /\ seen' = [q \in Handler |-> IF op[q] \in Query THEN seen[q] \cup {v} ELSE {}]
             /\ Goto(p, "hooks.json")
             /\ UNCHANGED out
       \/ Return(p, "failed") /\ UNCHANGED <<storeVars, vm, issued, seen>>
    /\ UNCHANGED <<lock, phase, op, query, override, since, had, attached>>

\* hooks.json, if the request has hooks, and env.
SaveHooks(p) ==
    /\ pc[p] = "hooks.json"
    /\ \/ writeFile(vm[p], "hooks.json") /\ Goto(p, "onCreate") /\ UNCHANGED out
       \/ UNCHANGED <<storeVars, out>> /\ Goto(p, "onCreate")
       \/ UNCHANGED storeVars /\ Return(p, "failed")
    /\ UNCHANGED <<lock, phase, request, query, override, issued, history>>

-----------------------------------------------------------------------------
(* triggerHooks *)

\* ReadHooks: no file means no hooks.
readHooks(v) == "hooks.json" \in entries[v]

\* The goroutine and the global hooks are HookRunner's; here, whether the VM's
\* own hooks are among those RunAsync is given.
triggerHooks(p, vmHooks) == attached' = [attached EXCEPT ![p] = vmHooks]

\* After onCreate comes the reply, or StartVM in the same request.
OnCreate(p) ==
    /\ pc[p] = "onCreate"
    /\ \E vmHooks \in {readHooks(vm[p]), FALSE} : triggerHooks(p, vmHooks)
    /\ \/ Goto(p, "exists") /\ UNCHANGED out
       \/ Return(p, "ok")
    /\ UNCHANGED <<storeVars, lock, phase, request, query, override, issued, since, seen, had>>

\* Mutant: DeleteVM gives no override, the hooks are read after the files.
TriggerOnDelete_Mutant(p) ==
    /\ pc[p] = "trigger" /\ op[p] = "delete"
    /\ triggerHooks(p, readHooks(vm[p]))
    /\ Return(p, "ok")
    /\ UNCHANGED <<storeVars, lock, phase, request, query, override, issued, since, seen, had>>

\* DeleteVM gives the hooks it has read.
TriggerOnDelete(p) ==
    /\ pc[p] = "trigger" /\ op[p] = "delete"
    /\ triggerHooks(p, override[p])
    /\ Return(p, "ok")
    /\ UNCHANGED <<storeVars, lock, phase, request, query, override, issued, since, seen, had>>

\* StartVM and StopVM read the metadata again, and trigger nothing when it is
\* gone or cannot be read, then hooks.json, which may not be readable either.
TriggerOnStartOrStop(p) ==
    /\ pc[p] = "trigger" /\ op[p] # "delete"
    /\ \/ Exists(vm[p]) /\ triggerHooks(p, readHooks(vm[p])) /\ UNCHANGED had
       \/ had' = [had EXCEPT ![p] = FALSE] /\ UNCHANGED attached
    /\ Return(p, "ok")
    /\ UNCHANGED <<storeVars, lock, phase, request, query, override, issued, since, seen>>

-----------------------------------------------------------------------------
(* StartVM, StopVM, DeleteVM *)

CheckExists(p) ==
    /\ pc[p] = "exists"
    /\ \/ Exists(vm[p]) /\ Goto(p, "lock") /\ UNCHANGED out
       \/ ~Exists(vm[p]) /\ Return(p, "notfound")
       \/ Return(p, "failed")
    /\ UNCHANGED <<storeVars, lock, phase, request, query, override, issued, history>>

lockVM(p) ==
    /\ pc[p] = "lock"
    /\ \/ /\ Acquire(p, vm[p])
          /\ had' = [had EXCEPT ![p] = "hooks.json" \in entries[vm[p]]]
          /\ attached' = [attached EXCEPT ![p] = FALSE]
          /\ Goto(p, IF op[p] = "delete" THEN "readhooks" ELSE "systemctl")
          /\ UNCHANGED out
       \/ AlreadyLocked(vm[p]) /\ Return(p, "failed") /\ UNCHANGED <<had, attached>>
    /\ UNCHANGED <<storeVars, phase, request, query, override, issued, since, seen>>

\* DeleteVM reads meta.json again, and the hooks, which may fail.
ReadHooks(p) ==
    /\ pc[p] = "readhooks"
    /\ \/ /\ Exists(vm[p])
          /\ Goto(p, "systemctl")
          /\ \/ override' = [override EXCEPT ![p] = readHooks(vm[p])] /\ UNCHANGED had
             \/ had' = [had EXCEPT ![p] = FALSE] /\ UNCHANGED override
          /\ UNCHANGED out
       \/ ~Exists(vm[p]) /\ Return(p, "notfound") /\ UNCHANGED <<override, had>>
    /\ UNCHANGED <<storeVars, lock, phase, request, query, issued, since, seen, attached>>

\* It ends or is killed; DeleteVM goes on whatever it said.
Systemctl(p) ==
    /\ pc[p] = "systemctl"
    /\ \/ Goto(p, IF op[p] = "delete" THEN "remove" ELSE "trigger") /\ UNCHANGED out
       \/ op[p] # "delete" /\ Return(p, "failed")
    /\ UNCHANGED <<storeVars, lock, phase, request, query, override, issued, history>>

\* The files of the VM, all of them or, when that fails, some.
RemoveFiles(p) ==
    /\ pc[p] = "remove"
    /\ \/ /\ meta' = [meta EXCEPT ![vm[p]] = NoMeta]
          /\ entries' = [entries EXCEPT ![vm[p]] = {}]
          /\ since' = [q \in Handler |-> since[q] \ {vm[p]}]
          /\ Goto(p, "trigger") /\ UNCHANGED out
       \/ /\ unlink(vm[p], "meta.json")
          /\ since' = [q \in Handler |-> since[q] \ {vm[p]}]
          /\ Return(p, "failed")
       \/ /\ Return(p, "failed")
          /\ UNCHANGED <<storeVars, since>>
    /\ UNCHANGED <<lock, phase, request, query, override, issued, seen, had, attached>>

-----------------------------------------------------------------------------
(* main *)

Signal == /\ phase = "serving"
          /\ phase' = "draining"
          /\ UNCHANGED <<storeVars, lock, pc, request, query, override, out, issued, history>>

\* The process ends: its goroutines end with it, the kernel drops its locks.
Exit == /\ phase' = "stopped"
        /\ pc' = [p \in Handler |-> "idle"]
        /\ op' = [p \in Handler |-> "none"]
        /\ vm' = [p \in Handler |-> None]
        /\ todo' = [p \in Handler |-> {}]
        /\ items' = [p \in Handler |-> << >>]
        /\ override' = [p \in Handler |-> FALSE]
        /\ out' = [p \in Handler |-> "none"]
        /\ since' = [p \in Handler |-> {}] /\ seen' = [p \in Handler |-> {}]
        /\ had' = [p \in Handler |-> FALSE] /\ attached' = [p \in Handler |-> FALSE]
        /\ DropAll
        /\ UNCHANGED <<storeVars, issued>>

\* Shutdown returns once no request is under way; it knows nothing of hooks.
Drained == /\ phase = "draining"
           /\ \A p \in Handler : pc[p] = "idle"
           /\ Exit

\* Mutant: Shutdown is given a context that never ends.
ShutdownTimesOut_Mutant == Drained

\* Exit status 1; requests under way are cut off.
ShutdownTimesOut == phase = "draining" /\ Exit

\* ListenAndServe fails: the process ends at once.
ListenFails == phase = "serving" /\ Exit

Restart == /\ phase = "stopped"
           /\ phase' = "serving"
           /\ UNCHANGED <<storeVars, lock, pc, request, query, override, out, issued, history>>

-----------------------------------------------------------------------------
(* The specification *)

HandlerStep(p) == \/ Reply(p)
                  \/ ListIDs(p)
                  \/ ReadNextMeta(p)
                  \/ ReadMeta(p)
                  \/ Probe(p)
                  \/ ListDone(p)
                  \/ QueryFails(p)
                  \/ Save(p)
                  \/ SaveHooks(p)
                  \/ OnCreate(p)
                  \/ CheckExists(p)
                  \/ lockVM(p)
                  \/ ReadHooks(p)
                  \/ Systemctl(p)
                  \/ RemoveFiles(p)
                  \/ TriggerOnDelete(p)
                  \/ TriggerOnStartOrStop(p)

Next == \/ \E p \in Handler : Accept(p) \/ Bind(p) \/ HandlerStep(p)
        \/ Signal \/ Drained \/ ShutdownTimesOut \/ ListenFails \/ Restart

\* Handlers go on and systemctl ends or is killed by CommandTimeout; clients
\* need not send requests or their bodies, and nobody need stop mergend.
Fairness == /\ \A p \in Handler : WF_vars(HandlerStep(p))
            /\ WF_vars(Drained)
            /\ WF_vars(ShutdownTimesOut)

Spec == Init /\ [][Next]_vars

FairSpec == Spec /\ Fairness

-----------------------------------------------------------------------------
(* Properties *)

\* While VMs come and go, a list that succeeds has every VM that was there
\* from its beginning to its end, none that was there at no time in between,
\* none twice, and the newest first.
listIsFaithful(p) ==
    /\ since[p] \subseteq ToSet(items[p])
    /\ ToSet(items[p]) \subseteq seen[p]
    /\ \A i, j \in 1..Len(items[p]) :
          i < j => /\ items[p][i] # items[p][j]
                   /\ CreatedAt[items[p][i]] >= CreatedAt[items[p][j]]

\* What GET /vms and GET /vms/:id answer was true at some time during the
\* request, for each VM: GET /vms/:id answers 404 only if the VM was missing
\* at some time and 200 only if it was there at some time, and a list is
\* faithful in the sense above.
QueriesAreFaithful ==
    \A p \in Handler :
        pc[p] = "reply" =>
            /\ op[p] = "list" /\ out[p] = "ok" => listIsFaithful(p)
            /\ op[p] = "get" /\ out[p] = "notfound" => vm[p] \notin since[p]
            /\ op[p] = "get" /\ out[p] = "ok" => vm[p] \in seen[p]

\* A start, stop or delete that succeeds triggers the hooks in hooks.json if
\* the file was there when the VM was locked and could be read, although delete
\* has removed it by then and creates, stops and deletes of the VM compete.
HooksAreTriggered ==
    \A p \in Handler :
        pc[p] = "release" /\ out[p] = "ok" /\ had[p] => attached[p]

\* Once a signal has come mergend ends, though a client may never send the
\* body it announced.
ShutdownEnds == phase = "draining" ~> phase = "stopped"

=============================================================================

# A TLA+ model of mergen-fire

mergen-fire is a small control plane for Firecracker microVMs: `mergend` offers an
HTTP API that registers VMs as directories of files and runs each as a systemd
unit, and `mergen-forwarder` terminates TLS and forwards each connection to the VM
its server name stands for. Neither keeps a database. The truth is in files, lock
files, units, network namespaces and a cache, touched by concurrent requests, two
processes and systemd. `mergen-converter` makes the images, and `mergen-init-snapshot` is
the first process in them. This directory models that part, checks it with TLC and
proves most of its safety properties with TLAPS.

## Inventory

| Component | State | Operations | Interacts with | Hard because |
|---|---|---|---|---|
| HTTP API, manager (`internal/api`, `internal/manager`) | none between requests | create, start, stop, delete; get, list | store, lock, allocator, systemd client, hooks | each request is a goroutine; checks before locks; several fallible steps; client may leave, process may die |
| mergend process (`cmd/mergend`) | serving, shutting down | serve, shut down within a timeout | all of the above | requests under way when the signal comes; bodies that never arrive |
| Hook runner (`internal/hooks`) | a goroutine per event | RunAsync, Run | manager, HTTP servers, commands | nobody waits for it; two kinds of timeout; commands that do not end |
| File store (`internal/store`) | config, run and data directory per VM, four files | SaveVM, DeleteVM, Exists, ReadMeta, ListMetas | file system, also read by the unit's scripts and the forwarder | not atomic over files; no lock of its own |
| File lock (`internal/lock`) | an flock per VM | Acquire (does not wait), Release | manager | must survive error paths and crashes |
| Allocator (`internal/network`) | none; works on the metadata it is given | Allocate | manager | the range runs out; explicit and automatic ports mix |
| systemd client, VM unit (`internal/systemd`, `deploy/`, `scripts/`) | unit state and job per VM | is-active, start, stop; pre/start/post/stop scripts | manager, store | jobs outlive the command that sent them; automatic restarts |
| Resolver (`internal/forwarder/resolver.go`) | alias cache with a time to live, RWMutex | Resolve | store's files, server | stale answers; files read one by one |
| Server (`internal/forwarder/server.go`) | tracked connections, WaitGroup | accept, handle, proxy, shut down | resolver, dialer, clients, guests | half-closed streams; forced shutdown |
| Namespace dialer (`internal/forwarder/netns_dialer_linux.go`) | the namespace of each OS thread | DialContext | Go runtime, kernel | thread state outlives the goroutine |
| Guest init (`cmd/mergen-init-snapshot`) | child processes, pending signals, channel | boot, reap, forward | kernel, service | signals are merged and dropped; pids are reused; some failures are fatal |
| Image converter (`internal/converter`, `cmd/mergen-converter`) | an output directory with an image cache | Run, with or without a pull | registry, file system, mkfs | outlives a run that failed; used again for other images |
| Firecracker configuration, config, logging, types, scripts for certificates and tests | - | - | | formatting and I/O only |

What makes each correct: VMs have addresses of their own; what can be found can be
started; a positive answer (created, started, stopped, deleted) is true and stays
true; locks are neither shared nor lost; every request ends; traffic reaches the VM
its name stands for and no other; data is not cut off; mergend and the forwarder can
be stopped; hooks are run for the events that happened; an image is of one container
image and whole.

## Modules

* `Allocator` - `allocator.go` as operators: `nextFreePort`, `allocatePorts`,
  `allocateGuestIP`, `Allocate`. A guest address is its host number in the CIDR.
* `PortAllocation` - the loops of `Allocate`: `allocateGuestIP` one host per step, then
  `allocatePorts` one request and `nextFreePort` one port per step, and the sort that ends
  it (`SortSlice`, any arrangement in order, since `sort.Slice` is not stable). `existing`
  is what the call finds: the host bits of the guest network and what other VMs use. The
  loops are checked and proved to give what the closed forms in `Allocator` say, which
  `Manager` then uses.
* `FSStore` - per VM the contents of `meta.json` (`meta`) and the other files and
  directories that exist (`entries`). Files are written by rename, so each is there
  or not. The logs directory goes with the data directory.
* `FileLock` - who holds the lock of a VM.
* `SystemdUnit` - the unit `mergen@<id>` and its job: "pre" and "post" are the
  phases before the unit counts as started, "restart" the wait of
  `Restart=on-failure`. systemd itself is external and modelled by what the client
  and the unit file rely on; which script fails for want of which file is from the
  scripts.
* `Manager` - composes these four. Each handler has a control state `pc` named for
  what it does next; one action is one call that reads or changes shared state: a
  file written, an entry unlinked, a systemctl command sent or answered. `Faults`
  is the set of failures a run allows (I/O errors, killed commands, systemd
  unreachable or missing, crash of mergend, failing VM). The variables `missed`,
  `rivals`, `doomed`, `acked`, `gone`, `halted` and `exited` are history: no step
  decides by them.
* `Registry` - what create and delete promise to clients: per VM absent, present or
  removed, and which creates and deletes were answered with success, one atomic step
  each. `Manager!Abstract` is the refinement mapping: `Exists` for present, the history
  variable `doomed` for removed, `acked` and `gone` for the answers.
* `Mergend` - the process around the handlers: queries, the hooks that events trigger,
  the signal, the shutdown and its timeout, a restart. Create, start, stop and delete
  have only the steps that readers and hooks can tell apart (`meta.json` before
  `hooks.json`; hooks read, command sent, files removed, hooks triggered); `Manager` has
  the others. `since`, `seen`, `had` and `attached` are history. `slices.SortFunc` is not stable, so
  `SortFunc` allows every arrangement that is newest first.
* `HookRunner` - one goroutine of `RunAsync`. Goroutines of different events share
  nothing, so one is followed; Mergend says which hooks it is given. A hook whose own
  timeout is over before it is started is passed over like one that is wrong
  (`HookRefused`).
* `ImageConverter` - one step per file, directory or network call of a run; `disk` is
  the output directory between and during runs. `Abort` ends a run at any step and may
  leave the file at hand unusable (`Junk`). A layer stands for its digest and content.
  `InjectSbinInit` puts init into the image whatever links the layers have on the way to
  `/sbin`.
* `Resolver` - the cache, its locks and the files it is read from. `since` and
  `until` say when a VM's metadata appeared and disappeared; `snap` remembers when
  the files behind the cache were read. `ReadDir` lists directories: one that gets its
  `meta.json` before its turn is read too. A VM's tags can name the id of another VM
  only after that VM was saved, because ids are random; a file made by hand has no
  `createdAt` (one with a date older than the VMs mergend made is not modelled).
* `ForwarderServer` - accept loop, one handler and two copies per connection,
  shutdown. Clients and backends send, half-close and vanish on their own. The pieces
  of data fit the buffers of the sockets, so no Write waits for a peer that does not read.
* `NetNSDialer` - threads, their namespaces and the steps of `DialContext`.
  `stranded` is history: whether a way back has failed.
* `GuestInit` - process 1 of a guest: a sequential boot that leaves only what later
  steps depend on (the mounts of volumes are part of one set-up step, which fails as a
  whole or goes on), then the loop of `runAndSupervise`, one `wait4` per step, with the
  pending bits of the kernel and the bounded channel of `signal.Notify`.
* `MC...` give constants for TLC; `...Proofs` hold theorems.

Definitions whose name contains `_Mutant`, or that a comment starting with
"Mutant:" introduces, are plausible bugs. Each property of a passing run is
violated when one of them replaces the definition that follows it.

## Runs that pass

| Run (cfg) | Instance | Shows |
|---|---|---|
| `MCPortAllocation` | networks of 0 to 3 host bits, payloads of up to 3 requests, range of 2 ports, every set of used ports | the address is free and no reserved one; bindings honour the payload, collide with nothing, come sorted; exhaustion is reported only when full; the loops equal the closed forms |
| `MCManagerRegistry` | 2 VMs, 2 requests, create and delete, I/O errors and crashes anywhere | addresses are shared only by creates that overlapped; what can be found has its `vm.json`; what was answered 201 is complete; `Registry` is implemented |
| `MCManagerLifecycle` | 1 VM, 3 requests of every kind, crashes, killed commands, systemd unreachable, failing VM | lock discipline; success of a start means the VM came up; `Registry` is implemented: a deleted VM is not found again and only one delete succeeds |
| `MCManagerQuiet` | 1 VM, 3 requests of every kind, no failure, fairness | a stopped or deleted VM does not run: the lock does what it is for; every request ends |
| `MCResolver` | 2 VMs whose ids share the first eight characters, 2 requests, TTL 2, 3 instants | a removed VM is forgotten and a saved one found within TTL plus the duration of a refresh; an empty cache is never trusted; no tag takes over another VM's id; the write lock is held exactly during a refresh |
| `MCForwarderServer` | 2 connections, one of them with a piece of data each way, fairness | a nil return of `Run` means drained; the forced close misses nobody; half-closed streams lose nothing; neither the handler of a client that closed nor the shutdown waits for anything but a backend that stays open |
| `MCNetNSDialer` | 3 dials, 3 threads, 2 namespaces, the way back failing at will | sockets are made in the right namespace; the first thread returns unless its way back fails |
| `MCGuestInit` | the service with 3 ways to end, 2 adopted children, a channel of 2, fairness | the exit status tells how the service ended; its pid is its own when it is signalled; zombies are reaped; the guest ends with its service; a queued signal is forwarded |
| `MCImageConverter` | 4 runs in one directory; 2 images of 2 and 3 layers, a tag that moves, lists nested in lists | a successful run put exactly the cached layers, in order, into the image, with init and metadata; image, tar and metadata are made from the same layers and configuration (the image *name* in the metadata is the one on the command line, also when `-skip-pull` uses what was pulled under another); what `-skip-pull` finds is of one image, and complete after a complete pull |
| `MCMergend` | 2 VMs, 2 requests, process ends and restarts, fairness | lists and reads were true at some time during the request; a successful start, stop or delete triggers the hooks of its VM; a signal ends the process |
| `MCHookRunner` | 3 global hooks in 2 files, 0 to 2 hooks of the VM, fairness | every hook has its turn in order, and one without a fault or a timeout of its own is run unless the budget is spent; the goroutine ends |

The bounds are the smallest at which the cases meet. Two creates and a later one
need two VMs; a lock race needs two requests for one VM and a third that benefits
from it; a sliding expiry needs a TTL of two ticks; a leaked namespace needs two
dials and two threads; a channel of two is full with one SIGCHLD and one SIGTERM; an
image cache needs a pull of one image, a broken pull of another, a `-skip-pull` run and
one more that meets what it left (`MaxRuns`, 4). In `MCMergend` a start happens only
within a create, since StartVM and StopVM have the same steps there.
VM ids are drawn only once, so the number of VMs bounds the creates of a behaviour.
`CHECK_DEADLOCK FALSE` appears only where the program ends: a call of
`Allocate` that returned, a forwarder, a guest or a hook goroutine that ended, the
last of `MaxRuns` conversions, and the overlap run, in which no VM is left to create.

Symmetry is used for VMs, handlers, requests, dials, namespaces and the threads other
than the first, never in a run with a liveness property.

## Fairness

`Manager`: goroutines that can run do run, and systemd goes on with units and jobs
(its start and stop timeouts see to it). Nothing is assumed of clients, and no
failure is assumed to happen. `Mergend`: handlers go on (systemctl ends or is killed by
CommandTimeout) and the shutdown's timer fires; clients need not send anything, a body
that was announced included. `HookRunner`: the loop goes on and timers fire; no hook is
assumed to end by itself. `ForwarderServer`: the
forwarder's goroutines run, a dial ends (DialTimeout), the shutdown timer fires, and
a handshake ends when its client has left or its socket was closed. A client may
keep silent for ever, and so may a backend: whether it closes after its client has
finished is up to the guest, and nothing is assumed of it. `GuestInit`: init
runs, and `select`, which chooses at random, does not prefer the ticker to a signal
for ever; each child is adopted once, so `wait4` cannot be kept busy for ever by new
ones. No process is assumed to end.

## The run that finds a disagreement

`MCManagerOverlap` (`DistinctAddresses`): two creates list, allocate and save side by side
(`service.go:88`), and both are answered 201 with the same guest address and the same
host port, which `allocatePorts` means to refuse (`allocator.go:89`).

Four more can be seen by changing the other runs:

* `ShutdownCompletes` in place of `ShutdownWaitsOnlyForBackends` in `MCForwarderServer.cfg`:
  when the shutdown timeout is over, "forcing connection close" (`server.go:203`) closes
  the client sockets only; the copy from a backend that stays open goes on waiting, and
  `waitForConnections` with it, without a bound (`server.go:208`). TLC shows a SIGTERM
  after which the forwarder never ends. What is left to wait for is never anything else:
  that is `ShutdownWaitsOnlyForBackends` of the passing run.
* `Faults = {"vm"}` in `MCManagerQuiet`: a stop of a unit between two restarts answers
  "stopped" without stopping it, and the VM comes up again (`client.go:92`);
  `StoppedStaysStopped` is violated.
* `"configDir" \notin entries[v]` for a VM `v` in `gone` does not hold in `Manager`, even
  with `Faults = {}`: a delete that runs between the last files of a create is answered
  200, and the create puts the directory back (`fs_store.go:82`, `writeAtomic`). It has
  no metadata, so nothing reports it.
* without the exception for `skipPull` in `ConvertedIsWhole`: `readCachedImage` only
  looks whether layers are there, so after a pull that broke off in its last layer, or
  found a wrong digest, `-skip-pull` unpacks what was left (`converter.go:478`), under
  whatever image name it is given.

The models show more that a reader of the code may want to know, without a run of
its own: a conversion that fails after its metadata was written leaves the new
`image-meta.json` beside the old `rootfs.ext4`, and `rootfs.tar` may lack its end though
the run succeeded (`CreateTar`); of four lists nested in each other the last is followed
in vain (`ResolveList`); a delete that fails half way has removed `meta.json` and never
runs onDelete, since the next delete answers 404 (`RemoveFiles`); a global hook file
that cannot be parsed drops all files after it (`ReadGlobalHooks`); a hook that has no
timeout of its own can use up the 20 seconds of those after it, and a command that
leaves a child with its output open holds the goroutine for ever (`HookTimesOut`); a
volume without a path or a device is skipped and one whose mount answers EBUSY counts as
mounted (`main.go:352`, `main.go:453`), so the service may run without a volume that its
specification lists (`SetupDone`); with killed or failing systemctl commands a delete goes on after a stop that
failed, and the VM runs on without files (`AfterSystemctl`, which is why
`GoneIsNotRunning` is checked and proved without failures only); delete answers 200 and not 503 where systemd is missing, because `DeleteVM`
only logs the error (`SystemctlUnavailable`); a start that checked for the VM before a
delete sends its job after it, and the unit restarts until its limit (`CheckExists`,
`ExecStartPreFails`); a payload `[auto, explicit first free port]` is refused as a
duplicate though it names no port twice (`RejectDuplicate`); and a dial that reads
`/proc/self/ns/net`, the namespace of the first thread, while that thread is itself in
a VM's namespace leaves its own thread there (`OpenOrigin`). The last does not
misroute traffic, as `DialsInTarget` shows: the forwarder makes sockets in no other
place.

## Proofs

All theorems hold for every value of the constants that satisfies the named
assumptions: ports are natural numbers, at most 32 host bits, `None`, `NoMeta` and
`Junk` are values of their own, a registry serves manifests or lists that are not empty
(`RemoteAssumption`, what the parser lets through), an exposed port is not 0
(`ExposedAssumption`, which `inferHTTPPort` sees to), connections are finitely many, the
TTL and the channel's capacity are not 0, a payload is a list of numbers and strings
(`RequestsAssumption`), a guest network has 0 to 32 host bits (`ExistingAssumption`). Three theorems have a hypothesis of their own, named below: two
on the kinds of faults, one on what registries serve. No other theorem assumes that a
fault does not happen.

* `ManagerProofs`
  * The closed form of `Allocate`: `AllocateAvoidsExisting`, an allocation that succeeds
    collides with none of the metadata it was given.
  * `TypeCorrect` (`Spec => []TypeOK`). `TypeOK` is not inductive: a handler that is not
    idle must have a VM, and `TypeInv` adds that.
  * `LockDisciplineHolds` rests on it: `LockDiscipline` ties `pc` to `lock` in both
    directions and is then inductive, with `Acquire` requiring a free lock and every step
    under the lock taken by its holder.
  * `StartedIsActiveHolds`: between the answer of systemctl and the reply nobody else can
    send the unit a job, because the lock is held, and a unit that leaves "active" by
    itself is recorded in `exited`.
  * The loops of `Allocate`: `AgreesWithClosedFormHolds`, `AllocationIsSoundHolds`,
    `ExhaustedOnlyWhenFullHolds`, for any network and payloads of any length.
    `AllocationInv` has three parts. `AddressScan` says that every host below `candidate`
    is used and `PortScan` the same of the ports below `probe`, so that a loop which stops
    has found the least free one or none (`ScanFindsGuestIP`, `ScanFindsNextFree`).
    `LoopInv` describes every state of `allocatePorts` by the closed form: the requests
    before `next` are granted, `reserved` and
    `bindings` are what they got, in request order, and an error is about the request at
    hand. That `hostPorts` satisfies its own recursive equation needs an argument
    (`HostPortsDef`): the least length without a solution would have one, made from the
    solution for the length before. What the sort leaves is a permutation
    (`SortedBindings`), strictly increasing because no port is granted twice
    (`PortsAreDistinct`).
* `RegistryProofs`
  * `SharedOnlyIfOverlappingHolds`. The inductive invariant `AddressInv`
    adds: two handlers never create the same VM (`CreatorsApart`), a registered VM has
    a directory that a listing sees (`RegisteredIsListed`), every registered VM is
    still to be read, has been read, or was registered since the listing
    (`NothingOverlooked`), and a plan collides with nothing that was read
    (`PlanAvoidsRead`, from `AllocateAvoidsExisting`). Registering a plan can then only
    collide with a VM in `missed`.
  * `RegisteredHasConfigHolds`, `AckedIsCompleteHolds` and the refinement
    `ManagerImplementsRegistry` (`Spec => ImplementsRegistry`) share `RegistryInv`. A
    creation takes no lock before it starts the VM, so a delete can run into it: the
    invariant says which files a creation has written at each `pc`, that files go only
    from a doomed VM, that a doomed id is not registered again, and, from
    `LockDiscipline`, that one delete at a time is past its check. Every action has one
    of six effects on files and answers; the invariant and the refinement are shown per
    effect.
  * `StoppedStaysStoppedHolds`, for `Faults \subseteq {"io", "bus"}`: file operations and
    the bus may fail anywhere, but no systemctl is killed, mergend does not crash and the
    VM's process does not fail. `StopInv` says that then every job of a unit has a handler
    that waits for it and holds the VM's lock, and that a unit on its way up with nobody
    waiting has lost its files to a delete and will not get there (`UnitSound`); so
    nothing starts the unit between the end of systemctl stop and the reply
    (`StopperSound`).
  * `GoneIsNotRunningHolds`, for `Faults = {}`: `GoneInv` adds that a delete which has come
    to the files has stopped the VM (`DeletesStopped`). Both hypotheses are as weak as can be in
    this vocabulary: with `MCManagerQuiet` TLC violates `StoppedStaysStopped` with each of
    "timeout", "crash" and "vm" alone, and `GoneIsNotRunning` with each of the five
    faults alone.
* `MergendProofs`
  * `QueriesAreFaithfulHolds` and `HooksAreTriggeredHolds`, from `MergendInv`: for a query,
    what is registered lies between `since` and `seen` (`Bracket`) and a list has each VM
    that was there all along among those collected, at hand or still to be read
    (`Collected`); for the others, whoever is in a locked operation holds the lock, so
    `hooks.json` is still there when it is read (`HooksClause`). What the other handlers
    can notice of a step is one lemma (`OthersKept`).
  * `EveryHookHadItsTurnHolds` is about `HookRunner`, from `RunnerInv`: while a
    hook runs, none before it was passed over but for a fault or a timeout of its own.
* `ResolverProofs`: `RemovedIsForgottenHolds`, `SavedIsFoundHolds`,
  `EmptyIsNotRememberedHolds`, `IdIsNotTakenOverHolds`, `RefreshOwnsLockHolds`. The
  inductive invariant `ResolverInv` orders the instants (`Clock`, `Ranked`), says what a
  refresh under way has read and at which instants (`ReadingInv`), that the cache is what
  some refresh made of files of the time between `snap.from` and `snap.to` (`CacheInv`), and
  that a request answers from a cache checked after it was asked (`AnswerInv`). That an
  alias map gives an id to its own VM is a lemma about `First` in the order of the
  metadata (`AliasMapIsSound`, `IdBelongs`), from the fact that tags name only older ids
  (`TagsNameOlder`).
* `ForwarderServerProofs`: `ReturnedIsDrainedHolds`, `ForcedCloseReachesAllHolds`, and the
  action property `NothingIsCutOffHolds`. `ServerInv` adds that the tracked connections
  are those of the live handlers and the WaitGroup counts them (`Tracked`), and that a
  copy which ended by itself has delivered all it read (`EndedIsDelivered`).
* `ImageConverterProofs`: `CacheIsSoundHolds`, `OutputsAgreeHolds`, `ImageIsWholeHolds` and
  `ConvertedIsWholeHolds`. `ConverterInv` says at each `pc` which files of the cache are of
  the image being pulled (`PullInv`) and what the run has made so far (`MadeInv`), whatever
  `Abort` left behind. That the manifest is for this platform is false for a registry
  whose lists label their entries wrongly, which the code does not check; the theorem is
  for registries that are `truthful`: labels are true, and where a choice is among entries
  without a label, or among the manifests a name stands for over time, these agree. The
  registry of `MCImageConverter` is one (`TruthfulRegistry`). `OursInv` follows the
  resolution through the nested lists; `SelectedIsOurs` is why `selectManifestDescriptor`
  does not leave the platform.
* `GuestInitProofs`: `ExitTellsTheServiceHolds` and `PIDIsOursHolds`, both from one
  inductive invariant that ties the state of the service to the control state
  (`MainFollowsPC`).
* `NetNSDialerProofs`: `DialsInTargetHolds`, because `LockOSThread` gives each dial a
  thread of its own (`OwnThread`) that stays in the target until the way back
  (`Entered`); `FirstThreadReturnsHolds`, because a dial on the first thread reads
  its way back from itself.

All but the smallest of these invariants were checked with TLC on the instances of the
runs before they were proved.

Every invariant and every action property that a run checks is also a theorem. Only
model-checked are the liveness properties, since fairness is out of the prover's reach:
`EveryRequestEnds`, `ClosedClientIsReleased`, `ShutdownWaitsOnlyForBackends`,
`ZombiesAreReaped`, `ServiceEndEndsGuest`, `QueuedTermIsForwarded`, `ShutdownEnds`,
`HookRunEnds`. That `DistinctAddresses` fails is shown by its run; that addresses are shared in no other
way is `SharedOnlyIfOverlappingHolds`.

The `TypeOK` of `Manager` is a property of its own; those of the other modules say what
their variables hold, and where a proof needs them they are part of its invariant.

## Not modelled, and what could be added

Not modelled: the contents of `vm.json`, `hooks.json`, `env` and of layers; parsing of
server names; rendering and HTTP calls to Firecracker; configuration, logging, JSON
types and the scripts for certificates, builds and smoke tests, which keep no state. A
file that exists but cannot be parsed is an I/O error. Two converters at once in one
directory are not modelled: nothing keeps them apart.

`Disable`, which a template unit that is never enabled does not notice, is left out too.
What could be added: the refinement of `Mergend` to `Manager`, which share the file store and the lock
but model the service at different grains; and a second converter in the same directory.

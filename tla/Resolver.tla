------------------------------ MODULE Resolver ------------------------------
(***************************************************************************)
(* The forwarder's resolver (internal/forwarder/resolver.go): a cache from *)
(* host labels to VMs, rebuilt from the meta.json files when its time to   *)
(* live is over, read by one goroutine per connection while mergend adds   *)
(* and removes VMs.                                                        *)
(*                                                                         *)
(* VM ids and the other labels are numbers: ids are compared with "<" when *)
(* two files were created at the same time.  Time advances in ticks; any   *)
(* number of steps fits into a tick and any number of ticks between two    *)
(* steps.  The critical sections of the read lock are one step each, the   *)
(* one of the write lock is a step per file it reads.                      *)
(*                                                                         *)
(* ResolveFirst, which nothing calls, is left out, and the `ordered` slice *)
(* only it reads.                                                          *)
(***************************************************************************)
EXTENDS Naturals, FiniteSets

CONSTANTS VM,         \* VM ids
          Label,      \* the labels a server name may carry, VM ids included
          ShortID(_), \* the first eight characters of an id
          Request,    \* goroutines of the server that resolve a name
          TTL,        \* cacheTTL
          MaxTime,    \* bound: the last tick
          None        \* no VM, no request

ASSUME LabelAssumption ==
    /\ VM \subseteq Label /\ Label \subseteq Nat
    /\ \A v \in VM : ShortID(v) \in Label \ VM

ASSUME TTLAssumption == TTL \in Nat \ {0} /\ MaxTime \in Nat

ASSUME NoneAssumption == None \notin Request

Never == MaxTime + 1
Time == 0..Never

VARIABLES
    now,
    createdAt,     \* per VM: its rank by CreatedAt, 0 when the file has none
    tags,          \* per VM: host, hostname, app and name of tags and metadata
    since, until,  \* per VM: when meta.json appeared and when it was removed
    drawn          \* VMs whose metadata is made up, in or not yet in the store

VARIABLES
    mu,            \* the holder of the write lock, or None
    cache,         \* label -> VM
    cacheUntil,
    pc,            \* per request
    todo, metas    \* readAllMetas, under the write lock: still to be read, read

VARIABLES          \* history, read by no step
    asked,         \* per request: when it was made
    began,         \* when the refresh under way listed the directory
    skipped,       \* VMs whose file that refresh failed to read
    snap           \* the same of the refresh that built the cache, and its end

store == <<createdAt, tags, since, until, drawn>>
cached == <<cache, cacheUntil, snap>>
reading == <<todo, metas, began, skipped>>
vars == <<now, store, mu, cached, pc, reading, asked>>

present(v) == since[v] # Never /\ until[v] = Never

TypeOK ==
    /\ now \in 0..MaxTime
    /\ createdAt \in [VM -> Nat]
    /\ tags \in [VM -> SUBSET Label]
    /\ since \in [VM -> Time] /\ until \in [VM -> Time]
    /\ drawn \subseteq VM
    /\ mu \in Request \cup {None}
    /\ DOMAIN cache \subseteq Label /\ \A l \in DOMAIN cache : cache[l] \in VM
    /\ cacheUntil \in 0..(MaxTime + TTL)
    /\ pc \in [Request -> {"idle", "check", "lock", "readdir", "read", "lookup"}]
    /\ todo \subseteq VM /\ metas \subseteq VM
    /\ asked \in [Request -> Time]
    /\ began \in Time /\ skipped \subseteq VM
    /\ snap \in [from : Time, to : Time, skipped : SUBSET VM]

Init ==
    /\ now = 0
    /\ createdAt = [v \in VM |-> 0]
    /\ tags = [v \in VM |-> {}]
    /\ since = [v \in VM |-> Never] /\ until = [v \in VM |-> Never]
    /\ drawn = {}
    /\ mu = None
    /\ cache = << >> /\ cacheUntil = 0
    /\ pc = [r \in Request |-> "idle"]
    /\ todo = {} /\ metas = {}
    /\ asked = [r \in Request |-> 0]
    /\ began = 0 /\ skipped = {}
    /\ snap = [from |-> 0, to |-> 0, skipped |-> {}]

-----------------------------------------------------------------------------
(* What happens around the resolver *)

Tick ==
    /\ now < MaxTime
    /\ now' = now + 1
    /\ UNCHANGED <<store, mu, cached, pc, reading, asked>>

\* mergend takes the time and the tags of a new VM before it saves them.  A
\* client can name the id of a VM in the tags of another only once it has
\* seen it, and any other label at any time.
Draw(v) ==
    /\ v \notin drawn
    /\ drawn' = drawn \cup {v}
    /\ createdAt' = [createdAt EXCEPT ![v] = 1 + Cardinality(drawn)]
    /\ \E l \in {w \in VM : present(w)} \cup (Label \ VM) :
           tags' = [tags EXCEPT ![v] = {l}]
    /\ UNCHANGED <<now, since, until, mu, cached, pc, reading, asked>>

\* A file put there by hand may have no createdAt (as in resolver_test.go).
DrawByHand(v) ==
    /\ v \notin drawn
    /\ drawn' = drawn \cup {v}
    /\ \E l \in Label \ {v} : tags' = [tags EXCEPT ![v] = {l}]
    /\ UNCHANGED <<now, createdAt, since, until, mu, cached, pc, reading, asked>>

\* meta.json appears, complete: it is renamed into place
Save(v) ==
    /\ v \in drawn /\ since[v] = Never
    /\ since' = [since EXCEPT ![v] = now]
    /\ UNCHANGED <<now, createdAt, tags, until, drawn, mu, cached, pc, reading, asked>>

Remove(v) ==
    /\ present(v)
    /\ until' = [until EXCEPT ![v] = now]
    /\ UNCHANGED <<now, createdAt, tags, since, drawn, mu, cached, pc, reading, asked>>

Environment == Tick \/ \E v \in VM : Draw(v) \/ DrawByHand(v) \/ Save(v) \/ Remove(v)

-----------------------------------------------------------------------------
(* Building the cache *)

\* aliasesForMeta; tags holds no empty value, which add would leave out
aliasesForMeta(v) == {v, ShortID(v)} \cup tags[v]

\* Mutant: the newest file comes first.
older_Mutant(v, w) ==
    \/ createdAt[v] # 0 /\ createdAt[w] = 0
    \/ createdAt[v] # 0 /\ createdAt[w] # 0 /\ createdAt[v] > createdAt[w]
    \/ createdAt[v] = createdAt[w] /\ v < w

\* the order of the sort: files without createdAt last, ties by id
older(v, w) ==
    \/ createdAt[v] # 0 /\ createdAt[w] = 0
    \/ createdAt[v] # 0 /\ createdAt[w] # 0 /\ createdAt[v] < createdAt[w]
    \/ createdAt[v] = createdAt[w] /\ v < w

\* the map the loop over the sorted files builds: an alias stays with the first
aliasMap(read) ==
    [l \in UNION {aliasesForMeta(v) : v \in read} |->
        CHOOSE v \in read : /\ l \in aliasesForMeta(v)
                            /\ \A w \in read \ {v} :
                                   l \in aliasesForMeta(w) => older(v, w)]

-----------------------------------------------------------------------------
(* Resolve *)

Goto(r, step) == pc' = [pc EXCEPT ![r] = step]

\* Resolve returns; what the goroutine kept is dropped
Return(r) ==
    /\ Goto(r, "idle")
    /\ asked' = [asked EXCEPT ![r] = 0]

\* Mutant: an empty cache counts as valid until its time is over.
cacheValid_TrustsEmpty == now < cacheUntil

cacheValid == now < cacheUntil /\ DOMAIN cache # {}

\* A handler resolves the name of a handshake.  A name that is not under the
\* domain, or has no single label, is refused by labelFromServerName without
\* a look at the cache; the label of any other matters only to Lookup.
Resolve(r) ==
    /\ pc[r] = "idle"
    /\ asked' = [asked EXCEPT ![r] = now]
    /\ Goto(r, "check")
    /\ UNCHANGED <<now, store, mu, cached, reading>>

\* Mutant: every hit extends the life of the cache.
CheckHit_Mutant(r) ==
    /\ pc[r] = "check" /\ mu = None /\ cacheValid
    /\ cacheUntil' = now + TTL
    /\ Goto(r, "lookup")
    /\ UNCHANGED <<now, store, mu, cache, snap, reading, asked>>

\* refreshCacheIfNeeded under the read lock
CheckHit(r) ==
    /\ pc[r] = "check" /\ mu = None /\ cacheValid
    /\ Goto(r, "lookup")
    /\ UNCHANGED <<now, store, mu, cached, reading, asked>>

CheckMiss(r) ==
    /\ pc[r] = "check" /\ mu = None /\ ~cacheValid
    /\ Goto(r, "lock")
    /\ UNCHANGED <<now, store, mu, cached, reading, asked>>

\* Mutant: no refresh while every VM of the cache is still there.
LockHit_Mutant(r) ==
    /\ pc[r] = "lock" /\ mu = None
    /\ DOMAIN cache # {} /\ \A l \in DOMAIN cache : present(cache[l])
    /\ Goto(r, "lookup")
    /\ UNCHANGED <<now, store, mu, cached, reading, asked>>

\* the write lock, and the second look: another request may have refreshed
LockHit(r) ==
    /\ pc[r] = "lock" /\ mu = None /\ cacheValid
    /\ Goto(r, "lookup")
    /\ UNCHANGED <<now, store, mu, cached, reading, asked>>

LockMiss(r) ==
    /\ pc[r] = "lock" /\ mu = None /\ ~cacheValid
    /\ mu' = r
    /\ Goto(r, "readdir")
    /\ UNCHANGED <<now, store, cached, reading, asked>>

\* readAllMetas: os.ReadDir lists the directories.  One whose meta.json is not
\* there yet may be among them: the file is read if it appears before its turn,
\* and a turn that comes before the file is the same as no directory at all.
ReadDir(r) ==
    /\ pc[r] = "readdir"
    /\ todo' = {v \in drawn : until[v] = Never}
    /\ metas' = {}
    /\ began' = now
    /\ skipped' = {}
    /\ Goto(r, "read")
    /\ UNCHANGED <<now, store, mu, cached, asked>>

\* Mutant: the write lock is kept when the directory cannot be read.
ReadDirFails_Mutant(r) ==
    /\ pc[r] = "readdir"
    /\ Return(r)
    /\ UNCHANGED <<now, store, mu, cached, reading>>

\* the error is returned, the old cache is kept and not used
ReadDirFails(r) ==
    /\ pc[r] = "readdir"
    /\ mu' = None
    /\ Return(r)
    /\ UNCHANGED <<now, store, cached, reading>>

\* the next file, skipped when it is gone
ReadFile(r) ==
    /\ pc[r] = "read"
    /\ \E v \in todo :
           /\ todo' = todo \ {v}
           /\ metas' = IF present(v) THEN metas \cup {v} ELSE metas
    /\ UNCHANGED <<now, store, mu, cached, pc, began, skipped, asked>>

\* the next file is there but cannot be read, and is skipped too
ReadFileFails(r) ==
    /\ pc[r] = "read"
    /\ \E v \in todo :
           /\ present(v)
           /\ todo' = todo \ {v}
           /\ skipped' = skipped \cup {v}
    /\ UNCHANGED <<now, store, mu, cached, pc, metas, began, asked>>

\* the rest of refreshCacheIfNeeded
Refresh(r) ==
    /\ pc[r] = "read" /\ todo = {}
    /\ cache' = aliasMap(metas)
    /\ cacheUntil' = now + TTL
    /\ snap' = [from |-> began, to |-> now, skipped |-> skipped]
    /\ mu' = None
    /\ metas' = {} /\ skipped' = {} /\ began' = 0
    /\ Goto(r, "lookup")
    /\ UNCHANGED <<now, store, todo, asked>>

\* the answer: cache[l] for the label l of the request, or ErrVMNotFound
Lookup(r) ==
    /\ pc[r] = "lookup" /\ mu = None
    /\ Return(r)
    /\ UNCHANGED <<now, store, mu, cached, reading>>

RequestStep(r) ==
    \/ CheckHit(r) \/ CheckMiss(r) \/ LockHit(r) \/ LockMiss(r)
    \/ ReadDir(r) \/ ReadDirFails(r) \/ ReadFile(r) \/ ReadFileFails(r)
    \/ Refresh(r) \/ Lookup(r)

Next == Environment \/ \E r \in Request : Resolve(r) \/ RequestStep(r)

Spec == Init /\ [][Next]_vars

-----------------------------------------------------------------------------
(* Properties *)

\* the requests whose next step answers from the cache
Answering == {r \in Request : pc[r] = "lookup" /\ mu = None}

\* how long the refresh that built the cache took
span == snap.to - snap.from

\* A VM removed more than cacheTTL, plus the time the refresh took to read the
\* files, before a request was made is never the answer to it.
RemovedIsForgotten ==
    \A r \in Answering, l \in DOMAIN cache :
        until[cache[l]] # Never => asked[r] < until[cache[l]] + TTL + span

\* A VM whose metadata was saved cacheTTL, plus the time of a refresh, before a
\* request for its id was made is found, unless its file could not be read.
SavedIsFound ==
    \A r \in Answering, v \in VM :
        /\ present(v) /\ v \notin DOMAIN cache
        /\ v \notin snap.skipped
        => asked[r] < since[v] + TTL + span

\* "Not found" from an empty cache is never a remembered answer: the files
\* were read for it after the request was made, so the first VM of a host is
\* reachable at once.
EmptyIsNotRemembered ==
    \A r \in Answering : DOMAIN cache = {} => snap.to >= asked[r]

\* No tag diverts the traffic of another VM: a name that is the id of a VM
\* created by mergend, in the store while the files were read, resolves to
\* that VM, whatever the other VMs are tagged with.
IdIsNotTakenOver ==
    \A r \in Answering, v \in VM :
        /\ createdAt[v] # 0
        /\ since[v] < snap.from
        /\ until[v] > snap.to
        /\ v \notin snap.skipped
        => v \in DOMAIN cache /\ cache[v] = v

\* The write lock is held exactly while a request reads the files: two never
\* refresh at once, and no return, of an error either, keeps the lock that every
\* other request waits for.
RefreshOwnsLock ==
    \A r \in Request : pc[r] \in {"readdir", "read"} <=> mu = r

=============================================================================

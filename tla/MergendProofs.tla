---------------------------- MODULE MergendProofs ----------------------------
(***************************************************************************)
(* Theorems about queries and hooks, for every number of VMs and requests: *)
(* what GET answers was true during the request, a list has collected the  *)
(* right VMs when it is sorted, an operation that succeeds has triggered   *)
(* the VM's hooks, and the goroutine that runs them passes over none.      *)
(***************************************************************************)
EXTENDS Mergend, HookRunner, TLAPS

-----------------------------------------------------------------------------
(* The invariant *)

Types ==
    /\ meta = [v \in VM |-> meta[v]]
    /\ entries \in [VM -> SUBSET Entry]
    /\ lock \in [VM -> Handler \cup {None}]
    /\ pc \in [Handler -> {"idle"} \cup Step]
    /\ op \in [Handler -> Ops \cup {"none"}]
    /\ vm \in [Handler -> VM \cup {None}]
    /\ todo \in [Handler -> SUBSET VM]
    /\ items = [p \in Handler |-> items[p]]
    /\ override \in [Handler -> BOOLEAN]
    /\ out \in [Handler -> {"none", "ok", "notfound", "failed"}]
    /\ issued \subseteq VM
    /\ since \in [Handler -> SUBSET VM] /\ seen \in [Handler -> SUBSET VM]
    /\ had \in [Handler -> BOOLEAN] /\ attached \in [Handler -> BOOLEAN]

\* ListVMIDs finds every registered VM, and a new id is not registered.
StoreInv == \A v \in VM : Exists(v) => v \in issued /\ "configDir" \in entries[v]

\* The two histories of a query bracket what is registered.
Bracket(p) == op[p] \in Query => since[p] \subseteq registered /\ registered \subseteq seen[p]

\* Whoever goes through a locked operation holds the lock.  hooks.json does not
\* go away under it before it has been read, by delete early, by the others
\* when they trigger.
HooksClause(p) ==
    /\ pc[p] \in {"hooks.json", "onCreate", "exists", "lock"} \cup Locked => vm[p] \in VM
    /\ pc[p] \in Locked => lock[vm[p]] = p
    /\ pc[p] \in {"readhooks", "remove"} => op[p] = "delete"
    /\ had[p] /\ pc[p] = "readhooks" => readHooks(vm[p])
    /\ had[p] /\ pc[p] \in {"systemctl", "trigger"} /\ op[p] # "delete" => readHooks(vm[p])
    /\ had[p] /\ pc[p] \in {"systemctl", "remove", "trigger"} /\ op[p] = "delete" => override[p]
    /\ had[p] /\ pc[p] = "release" /\ out[p] = "ok" => attached[p]

\* A GET has seen what it is about to answer.
GetClause(p) ==
    op[p] = "get" =>
        /\ vm[p] \in VM
        /\ pc[p] = "probe" => vm[p] \in seen[p]
        /\ pc[p] = "reply" /\ out[p] = "notfound" => vm[p] \notin since[p]
        /\ pc[p] = "reply" /\ out[p] = "ok" => vm[p] \in seen[p]

\* What a list has collected and what is still to come.
NoDuplicates(s) == \A i, j \in 1..Len(s) : i < j => s[i] # s[j]

Collected(p) ==
    /\ items[p] \in Seq(VM)
    /\ since[p] \subseteq ToSet(items[p]) \cup todo[p] \cup (IF pc[p] = "probe" THEN {vm[p]} ELSE {})
    /\ ToSet(items[p]) \subseteq seen[p]
    /\ ToSet(items[p]) \cap todo[p] = {}
    /\ NoDuplicates(items[p])
    /\ pc[p] = "probe" => /\ vm[p] \in VM /\ vm[p] \in seen[p]
                          /\ vm[p] \notin todo[p] /\ vm[p] \notin ToSet(items[p])

ListClause(p) ==
    /\ pc[p] \in {"idle", "ids"} => items[p] = << >>
    /\ op[p] = "list" /\ pc[p] \in {"read", "probe"} => Collected(p)
    /\ op[p] = "list" /\ pc[p] = "reply" /\ out[p] = "ok" => listIsFaithful(p)

\* A query goes through steps of its own.
QuerySteps(p) ==
    /\ op[p] \in Query => pc[p] \in {"ids", "read", "probe", "reply"}
    /\ pc[p] \in {"ids", "read", "probe"} => op[p] \in Query

Local(p) == HooksClause(p) /\ GetClause(p) /\ ListClause(p) /\ QuerySteps(p)

MergendInv ==
    /\ Types
    /\ StoreInv
    /\ \A p \in Handler : Local(p) /\ Bracket(p)

-----------------------------------------------------------------------------
(* What the others notice *)

\* A step of p leaves the state of the other handlers alone, takes none of
\* their locks, and hooks.json only from a VM it has locked itself.
OthersSame(p) ==
    /\ \A q \in Handler \ {p} :
          /\ pc'[q] = pc[q] /\ op'[q] = op[q] /\ vm'[q] = vm[q] /\ out'[q] = out[q]
          /\ todo'[q] = todo[q] /\ items'[q] = items[q]
          /\ override'[q] = override[q] /\ had'[q] = had[q] /\ attached'[q] = attached[q]
          /\ since'[q] \subseteq since[q]
          /\ op[q] \in Query => seen[q] \subseteq seen'[q]
    /\ \A q \in Handler \ {p}, v \in VM :
          lock[v] = q => lock'[v] = q /\ (readHooks(v) => readHooks(v)')

LEMMA OthersKept ==
    ASSUME NEW p \in Handler, OthersSame(p), NEW q \in Handler \ {p}, Local(q)
    PROVE  Local(q)'
<1>1. HooksClause(q)'
  BY DEF OthersSame, Local, HooksClause, Locked
<1>2. GetClause(q)'
  BY DEF OthersSame, Local, GetClause, Query
<1>3. ListClause(q)'
  <2>1. ToSet(items[q])' = ToSet(items[q])
    BY DEF OthersSame, ToSet
  <2>2. NoDuplicates(items[q])' <=> NoDuplicates(items[q])
    BY DEF OthersSame, NoDuplicates
  <2>3. Collected(q) /\ op[q] = "list" => Collected(q)'
    BY <2>1, <2>2 DEF OthersSame, Collected, Query
  <2>4. listIsFaithful(q) /\ op[q] = "list" => listIsFaithful(q)'
    <3>1. items'[q] = items[q] /\ since'[q] \subseteq since[q]
      BY DEF OthersSame
    <3>2. op[q] = "list" => seen[q] \subseteq seen'[q]
      BY DEF OthersSame, Query
    <3> QED  BY <2>1, <3>1, <3>2 DEF listIsFaithful
  <2> QED  BY <2>3, <2>4 DEF OthersSame, Local, ListClause
<1>4. QuerySteps(q)'
  BY DEF OthersSame, Local, QuerySteps
<1> QED  BY <1>1, <1>2, <1>3, <1>4 DEF Local

\* A step that changes neither the files nor the histories of the queries.
Quiet == UNCHANGED <<meta, entries, issued, since, seen, op>>

LEMMA QuietStep ==
    ASSUME MergendInv, NEW p \in Handler, Quiet, OthersSame(p), Types', Local(p)'
    PROVE  MergendInv'
<1>1. \A q \in Handler : Local(q)'
  BY OthersKept DEF MergendInv
<1>2. StoreInv'
  BY DEF MergendInv, StoreInv, Quiet, Exists
<1>3. \A q \in Handler : Bracket(q)'
  BY DEF MergendInv, Bracket, Quiet, registered, Exists
<1> QED  BY <1>1, <1>2, <1>3 DEF MergendInv

-----------------------------------------------------------------------------
(* GetVM and ListVMs *)

LEMMA ToSetAppend ==
    ASSUME NEW S, NEW s \in Seq(S), NEW e \in S
    PROVE  /\ ToSet(Append(s, e)) = ToSet(s) \cup {e}
           /\ e \notin ToSet(s) /\ NoDuplicates(s) => NoDuplicates(Append(s, e))
<1>1. Len(Append(s, e)) = Len(s) + 1 /\ Len(s) \in Nat
  OBVIOUS
<1>2. \A i \in 1..Len(s) + 1 : Append(s, e)[i] = IF i <= Len(s) THEN s[i] ELSE e
  OBVIOUS
<1>3. ToSet(s) = {s[i] : i \in 1..Len(s)}
  BY DEF ToSet
<1>4. ToSet(Append(s, e)) = {Append(s, e)[i] : i \in 1..Len(s) + 1}
  BY <1>1 DEF ToSet
<1>5. ToSet(Append(s, e)) = ToSet(s) \cup {e}
  BY <1>1, <1>2, <1>3, <1>4
<1>6. ASSUME e \notin ToSet(s), NoDuplicates(s)
      PROVE  NoDuplicates(Append(s, e))
  BY <1>1, <1>2, <1>3, <1>6 DEF NoDuplicates
<1> QED  BY <1>5, <1>6

LEMMA ListIDsStep ==
    ASSUME MergendInv, NEW p \in Handler, ListIDs(p)
    PROVE  MergendInv'
<1>1. /\ pc[p] = "ids" /\ pc' = [pc EXCEPT ![p] = "read"]
      /\ todo' = [todo EXCEPT ![p] = ListVMIDs]
      /\ UNCHANGED <<storeVars, lock, request, items, override, out, issued, history>>
  BY DEF ListIDs, Goto
<1>2. Types'
  BY <1>1 DEF MergendInv, Types, Step, ListVMIDs, storeVars, request, history
<1>3. Quiet /\ OthersSame(p)
  BY <1>1 DEF MergendInv, Types, Quiet, OthersSame, readHooks, storeVars, request, history
<1>4. Local(p) /\ Bracket(p)
  BY DEF MergendInv
<1>5. pc'[p] = "read" /\ todo'[p] = ListVMIDs
  BY <1>1 DEF MergendInv, Types
<1>6. HooksClause(p)' /\ GetClause(p)' /\ QuerySteps(p)'
  BY <1>1, <1>4, <1>5 DEF Local, HooksClause, GetClause, QuerySteps, Query, Locked, request, history
<1>7. op[p] \in Query /\ items[p] = << >>
  BY <1>1, <1>4 DEF Local, QuerySteps, ListClause
<1>8. since[p] \subseteq ListVMIDs
  BY <1>4, <1>7 DEF MergendInv, StoreInv, Bracket, registered, ListVMIDs
<1>9. Collected(p)'
  <2>1. items'[p] = << >> /\ ToSet(items'[p]) = {} /\ NoDuplicates(items'[p])
    BY <1>1, <1>7 DEF NoDuplicates, ToSet
  <2> QED  BY <1>1, <1>5, <1>8, <2>1 DEF Collected, history
<1>10. Local(p)'
  BY <1>5, <1>6, <1>9 DEF Local, ListClause
<1> QED  BY <1>2, <1>3, <1>10, QuietStep

LEMMA ReadNextMetaStep ==
    ASSUME MergendInv, NEW p \in Handler, ReadNextMeta(p)
    PROVE  MergendInv'
<1>1. /\ pc[p] = "read" /\ op[p] = "list"
      /\ UNCHANGED <<storeVars, lock, op, items, override, issued, history>>
  BY DEF ReadNextMeta
<1>2. PICK v \in todo[p] : todo' = [todo EXCEPT ![p] = @ \ {v}] /\ ReadMetaOf(p, v)
  BY DEF ReadNextMeta
<1>3. v \in VM
  BY <1>2 DEF MergendInv, Types
<1>4. /\ out' = out
      /\ \/ /\ Exists(v)
            /\ vm' = [vm EXCEPT ![p] = v] /\ pc' = [pc EXCEPT ![p] = "probe"]
         \/ ~Exists(v) /\ vm' = vm /\ pc' = pc
  BY <1>1, <1>2 DEF ReadMetaOf, Goto
<1>5. Types'
  BY <1>1, <1>2, <1>3, <1>4 DEF MergendInv, Types, Step, storeVars, history
<1>6. Quiet /\ OthersSame(p)
  BY <1>1, <1>2, <1>4 DEF MergendInv, Types, Quiet, OthersSame, readHooks, storeVars, history
<1>7. Local(p) /\ Bracket(p)
  BY DEF MergendInv
<1>8. /\ todo'[p] = todo[p] \ {v} /\ items'[p] = items[p]
      /\ \/ Exists(v) /\ vm'[p] = v /\ pc'[p] = "probe"
         \/ ~Exists(v) /\ vm'[p] = vm[p] /\ pc'[p] = "read"
  BY <1>1, <1>2, <1>4 DEF MergendInv, Types
<1>9. HooksClause(p)' /\ GetClause(p)' /\ QuerySteps(p)'
  BY <1>1, <1>8 DEF HooksClause, GetClause, QuerySteps, Query, Locked
<1>10. since[p] \subseteq registered /\ registered \subseteq seen[p] /\ Collected(p)
  BY <1>1, <1>7 DEF Local, ListClause, Bracket, Query
<1>11. Collected(p)'
  <2>1. ToSet(items[p])' = ToSet(items[p]) /\ NoDuplicates(items[p])' = NoDuplicates(items[p])
    BY <1>8 DEF ToSet, NoDuplicates
  <2>2. v \in todo[p] /\ (Exists(v) => v \in seen[p]) /\ (~Exists(v) => v \notin since[p])
    BY <1>2, <1>3, <1>10 DEF registered
  <2> QED  BY <1>1, <1>3, <1>8, <1>10, <2>1, <2>2 DEF Collected, history
<1>12. Local(p)'
  BY <1>1, <1>8, <1>9, <1>11 DEF Local, ListClause
<1> QED  BY <1>5, <1>6, <1>12, QuietStep

LEMMA ReadMetaStep ==
    ASSUME MergendInv, NEW p \in Handler, ReadMeta(p)
    PROVE  MergendInv'
<1>1. /\ pc[p] = "read" /\ op[p] = "get"
      /\ UNCHANGED <<storeVars, lock, op, query, override, issued, history>>
      /\ ReadMetaOf(p, vm[p])
  BY DEF ReadMeta
<1>2. Local(p) /\ Bracket(p)
  BY DEF MergendInv
<1>3. vm[p] \in VM /\ since[p] \subseteq registered /\ registered \subseteq seen[p]
  BY <1>1, <1>2 DEF Local, GetClause, Bracket, Query
<1>4. vm' = vm
  BY <1>1 DEF ReadMetaOf, MergendInv, Types
<1>5. \/ Exists(vm[p]) /\ pc' = [pc EXCEPT ![p] = "probe"] /\ out' = out
      \/ /\ ~Exists(vm[p])
         /\ pc' = [pc EXCEPT ![p] = "reply"] /\ out' = [out EXCEPT ![p] = "notfound"]
  BY <1>1 DEF ReadMetaOf, Return, Goto, Locked
<1>6. Types'
  BY <1>1, <1>4, <1>5 DEF MergendInv, Types, Step, storeVars, history, query
<1>7. Quiet /\ OthersSame(p)
  BY <1>1, <1>4, <1>5 DEF MergendInv, Types, Quiet, OthersSame, readHooks, storeVars, history, query
<1>8. \/ Exists(vm[p]) /\ pc'[p] = "probe"
      \/ ~Exists(vm[p]) /\ pc'[p] = "reply" /\ out'[p] = "notfound"
  BY <1>5 DEF MergendInv, Types
<1>9. (Exists(vm[p]) => vm[p] \in seen[p]) /\ (~Exists(vm[p]) => vm[p] \notin since[p])
  BY <1>3 DEF registered
<1>10. GetClause(p)'
  BY <1>1, <1>3, <1>4, <1>8, <1>9 DEF GetClause, history
<1>11. HooksClause(p)' /\ QuerySteps(p)' /\ ListClause(p)'
  BY <1>1, <1>8 DEF HooksClause, QuerySteps, ListClause, Query, Locked
<1> QED  BY <1>6, <1>7, <1>10, <1>11, QuietStep DEF Local

LEMMA ProbeStep ==
    ASSUME MergendInv, NEW p \in Handler, Probe(p)
    PROVE  MergendInv'
<1>1. /\ pc[p] = "probe"
      /\ UNCHANGED <<storeVars, lock, request, todo, override, issued, history>>
  BY DEF Probe
<1>2. Local(p)
  BY DEF MergendInv
<1>3. op[p] \in Query
  BY <1>1, <1>2 DEF Local, QuerySteps
<1>4. CASE op[p] = "list"
  <2>1. /\ items' = [items EXCEPT ![p] = Append(items[p], vm[p])]
        /\ pc' = [pc EXCEPT ![p] = "read"] /\ out' = out
    BY <1>4 DEF Probe, Goto
  <2>2. Types'
    BY <1>1, <2>1 DEF MergendInv, Types, Step, storeVars, history, request
  <2>3. Quiet /\ OthersSame(p)
    BY <1>1, <2>1 DEF MergendInv, Types, Quiet, OthersSame, readHooks, storeVars, history, request
  <2>4. pc'[p] = "read" /\ items'[p] = Append(items[p], vm[p])
    BY <2>1 DEF MergendInv, Types
  <2>5. HooksClause(p)' /\ GetClause(p)' /\ QuerySteps(p)'
    BY <1>1, <1>3, <1>4, <2>4 DEF HooksClause, GetClause, QuerySteps, Locked, request
  <2>6. Collected(p)
    BY <1>1, <1>2, <1>4 DEF Local, ListClause
  <2>7. /\ items[p] \in Seq(VM) /\ vm[p] \in VM
        /\ vm[p] \notin ToSet(items[p]) /\ NoDuplicates(items[p])
    BY <1>1, <2>6 DEF Collected
  <2>8. /\ ToSet(items[p])' = ToSet(items[p]) \cup {vm[p]}
        /\ NoDuplicates(items[p])' /\ items'[p] \in Seq(VM)
    BY <2>4, <2>7, ToSetAppend
  <2>9. Collected(p)'
    BY <1>1, <2>4, <2>6, <2>8 DEF Collected, history, request
  <2> QED  BY <2>2, <2>3, <2>4, <2>5, <2>9, QuietStep DEF Local, ListClause
<1>5. CASE op[p] # "list"
  <2>1. op[p] = "get"
    BY <1>3, <1>5 DEF Query
  <2>2. /\ items' = items
        /\ pc' = [pc EXCEPT ![p] = "reply"] /\ out' = [out EXCEPT ![p] = "ok"]
    BY <1>1, <1>5 DEF Probe, Return, Goto, Locked
  <2>3. Types'
    BY <1>1, <2>2 DEF MergendInv, Types, Step, storeVars, history, request
  <2>4. Quiet /\ OthersSame(p)
    BY <1>1, <2>2 DEF MergendInv, Types, Quiet, OthersSame, readHooks, storeVars, history, request
  <2>5. pc'[p] = "reply" /\ out'[p] = "ok"
    BY <2>2 DEF MergendInv, Types
  <2>6. Local(p)'
    BY <1>1, <1>2, <2>1, <2>5 DEF Local, HooksClause, GetClause, ListClause, QuerySteps, Query,
                                  Locked, history, request
  <2> QED  BY <2>3, <2>4, <2>6, QuietStep
<1> QED  BY <1>4, <1>5

LEMMA SortFuncIsFaithful ==
    ASSUME NEW s \in Seq(VM), NoDuplicates(s), NEW t \in SortFunc(s)
    PROVE  /\ ToSet(t) = ToSet(s)
           /\ NoDuplicates(t)
           /\ \A i, j \in 1..Len(t) : i < j => CreatedAt[t[i]] >= CreatedAt[t[j]]
<1>1. PICK n \in Nat : n = Len(s) /\ DOMAIN s = 1..n /\ s \in [1..n -> VM]
  OBVIOUS
<1>2. PICK f \in Bijection(1..n, 1..n) : t = [i \in 1..n |-> s[f[i]]]
  BY <1>1 DEF SortFunc
<1>3. /\ f \in [1..n -> 1..n]
      /\ \A i, j \in 1..n : f[i] = f[j] => i = j
      /\ \A k \in 1..n : \E i \in 1..n : f[i] = k
  BY DEF Bijection, Injection, Surjection, IsInjective
<1>4. DOMAIN t = 1..n /\ \A i \in 1..n : t[i] = s[f[i]] /\ f[i] \in 1..n
  BY <1>2, <1>3
<1>5. Len(t) = n
  <2>1. t \in [1..n -> VM]
    BY <1>1, <1>2, <1>4, Zenon
  <2>2. t \in Seq(VM)
    BY <2>1
  <2> QED  BY <1>4, <2>2
<1>6. ToSet(t) = ToSet(s)
  <2>1. ToSet(t) = {t[i] : i \in 1..n} /\ ToSet(s) = {s[i] : i \in 1..n}
    BY <1>1, <1>4 DEF ToSet
  <2>2. \A i \in 1..n : t[i] \in {s[k] : k \in 1..n}
    BY <1>4
  <2>3. ASSUME NEW k \in 1..n
        PROVE  s[k] \in {t[i] : i \in 1..n}
    <3>1. PICK i \in 1..n : f[i] = k
      BY <1>3
    <3>2. t[i] = s[k]
      BY <1>4, <3>1
    <3> QED  BY <3>2
  <2> QED  BY <2>1, <2>2, <2>3
<1>7. NoDuplicates(t)
  <2>1. ASSUME NEW i \in 1..n, NEW j \in 1..n, i < j
        PROVE  t[i] # t[j]
    <3>1. i # j
      BY <2>1
    <3>2. f[i] # f[j] /\ f[i] \in 1..n /\ f[j] \in 1..n
      BY <1>3, <1>4, <3>1, Zenon
    <3>3. s[f[i]] # s[f[j]]
      BY <1>1, <3>2 DEF NoDuplicates
    <3> QED  BY <1>4, <3>3
  <2> QED  BY <1>5, <2>1 DEF NoDuplicates
<1>8. \A i, j \in 1..n : i < j => CreatedAt[t[i]] >= CreatedAt[t[j]]
  BY <1>1 DEF SortFunc
<1> QED  BY <1>5, <1>6, <1>7, <1>8

LEMMA ListDoneStep ==
    ASSUME MergendInv, NEW p \in Handler, ListDone(p)
    PROVE  MergendInv'
<1>1. PICK sorted \in SortFunc(items[p]) : items' = [items EXCEPT ![p] = sorted]
  BY DEF ListDone
<1>2. /\ pc[p] = "read" /\ op[p] = "list" /\ todo[p] = {}
      /\ pc' = [pc EXCEPT ![p] = "reply"] /\ out' = [out EXCEPT ![p] = "ok"]
      /\ UNCHANGED <<storeVars, lock, request, todo, override, issued, history>>
  BY DEF ListDone, Return, Goto, Locked
<1>3. Types'
  BY <1>1, <1>2 DEF MergendInv, Types, Step, storeVars, history, request
<1>4. Quiet /\ OthersSame(p)
  BY <1>1, <1>2 DEF MergendInv, Types, Quiet, OthersSame, readHooks, storeVars, history, request
<1>5. pc'[p] = "reply" /\ items'[p] = sorted
  BY <1>1, <1>2 DEF MergendInv, Types
<1>6. /\ items[p] \in Seq(VM) /\ NoDuplicates(items[p])
      /\ since[p] \subseteq ToSet(items[p]) /\ ToSet(items[p]) \subseteq seen[p]
  BY <1>2 DEF MergendInv, Local, ListClause, Collected
<1>7. listIsFaithful(p)'
  <2>1. /\ ToSet(sorted) = ToSet(items[p]) /\ NoDuplicates(sorted)
        /\ \A i, j \in 1..Len(sorted) : i < j => CreatedAt[sorted[i]] >= CreatedAt[sorted[j]]
    BY <1>6, SortFuncIsFaithful
  <2> QED  BY <1>2, <1>5, <1>6, <2>1 DEF listIsFaithful, NoDuplicates, history
<1>8. Local(p)'
  BY <1>2, <1>5, <1>7
     DEF HooksClause, GetClause, ListClause, QuerySteps, Local, Query, Locked, request
<1> QED  BY <1>3, <1>4, <1>8, QuietStep

LEMMA QueryFailsStep ==
    ASSUME MergendInv, NEW p \in Handler, QueryFails(p)
    PROVE  MergendInv'
<1>1. /\ pc[p] \in {"ids", "read", "probe"}
      /\ pc' = [pc EXCEPT ![p] = "reply"] /\ out' = [out EXCEPT ![p] = "failed"]
      /\ UNCHANGED <<storeVars, lock, request, query, override, issued, history>>
  BY DEF QueryFails, Return, Goto, Locked
<1>2. Types'
  BY <1>1 DEF MergendInv, Types, Step, storeVars, history, request, query
<1>3. Quiet /\ OthersSame(p)
  BY <1>1 DEF MergendInv, Types, Quiet, OthersSame, readHooks, storeVars, history, request, query
<1>4. pc'[p] = "reply" /\ out'[p] = "failed"
  BY <1>1 DEF MergendInv, Types
<1>5. Local(p)
  BY DEF MergendInv
<1>6. Local(p)'
  BY <1>1, <1>4, <1>5 DEF HooksClause, GetClause, ListClause, QuerySteps, Local, Query, Locked, request
<1> QED  BY <1>2, <1>3, <1>6, QuietStep

-----------------------------------------------------------------------------
(* CreateVM, StartVM, StopVM, DeleteVM *)

\* Where a query never is.
NoQuery == {"bind", "save", "hooks.json", "onCreate", "exists", "lock"} \cup Locked

LEMMA NotAQuery ==
    ASSUME NEW p \in Handler, Local(p), pc[p] \in NoQuery, op'[p] = op[p],
           pc'[p] \in NoQuery \cup {"reply"}
    PROVE  op[p] \notin Query /\ GetClause(p)' /\ ListClause(p)' /\ QuerySteps(p)'
<1>1. op[p] \notin Query
  BY DEF Local, QuerySteps, NoQuery, Locked
<1> QED  BY <1>1 DEF GetClause, ListClause, QuerySteps, Query, NoQuery, Locked

LEMMA BindStep ==
    ASSUME MergendInv, NEW p \in Handler, Bind(p)
    PROVE  MergendInv'
<1>1. /\ pc[p] = "bind"
      /\ \/ pc' = [pc EXCEPT ![p] = "save"] /\ out' = out
         \/ pc' = [pc EXCEPT ![p] = "reply"] /\ out' = [out EXCEPT ![p] = "failed"]
      /\ UNCHANGED <<storeVars, lock, request, query, override, issued, history>>
  BY DEF Bind, Return, Goto, Locked
<1>2. Types'
  BY <1>1 DEF MergendInv, Types, Step, storeVars, history, request, query
<1>3. Quiet /\ OthersSame(p)
  BY <1>1 DEF MergendInv, Types, Quiet, OthersSame, readHooks, storeVars, history, request, query
<1>4. pc'[p] \in {"save", "reply"} /\ op'[p] = op[p]
  BY <1>1 DEF MergendInv, Types, request
<1>5. GetClause(p)' /\ ListClause(p)' /\ QuerySteps(p)'
  BY <1>1, <1>4, NotAQuery DEF MergendInv, NoQuery
<1>6. HooksClause(p)'
  BY <1>4 DEF HooksClause, Locked
<1> QED  BY <1>2, <1>3, <1>5, <1>6, QuietStep DEF Local

LEMMA OnCreateStep ==
    ASSUME MergendInv, NEW p \in Handler, OnCreate(p)
    PROVE  MergendInv'
<1>1. /\ pc[p] = "onCreate"
      /\ \/ pc' = [pc EXCEPT ![p] = "exists"] /\ out' = out
         \/ pc' = [pc EXCEPT ![p] = "reply"] /\ out' = [out EXCEPT ![p] = "ok"]
      /\ UNCHANGED <<storeVars, lock, request, query, override, issued, since, seen, had>>
  BY DEF OnCreate, Return, Goto, Locked
<1>2. PICK b \in BOOLEAN : attached' = [attached EXCEPT ![p] = b]
  <2>1. PICK b \in {readHooks(vm[p]), FALSE} : attached' = [attached EXCEPT ![p] = b]
    BY DEF OnCreate, triggerHooks
  <2>2. readHooks(vm[p]) \in BOOLEAN
    BY DEF readHooks
  <2>3. b \in BOOLEAN
    BY <2>1, <2>2
  <2> QED  BY <2>1, <2>3
<1>3. Types'
  BY <1>1, <1>2 DEF MergendInv, Types, Step, storeVars, request, query
<1>4. Quiet /\ OthersSame(p)
  BY <1>1, <1>2 DEF MergendInv, Types, Quiet, OthersSame, readHooks, storeVars, request, query
<1>5. pc'[p] \in {"exists", "reply"} /\ op'[p] = op[p] /\ vm'[p] = vm[p]
  BY <1>1 DEF MergendInv, Types, request
<1>6. GetClause(p)' /\ ListClause(p)' /\ QuerySteps(p)'
  BY <1>1, <1>5, NotAQuery DEF MergendInv, NoQuery
<1>7. HooksClause(p)
  BY DEF MergendInv, Local
<1>8. HooksClause(p)'
  BY <1>1, <1>5, <1>7 DEF HooksClause, Locked
<1> QED  BY <1>3, <1>4, <1>6, <1>8, QuietStep DEF Local

LEMMA CheckExistsStep ==
    ASSUME MergendInv, NEW p \in Handler, CheckExists(p)
    PROVE  MergendInv'
<1>1. /\ pc[p] = "exists"
      /\ \/ pc' = [pc EXCEPT ![p] = "lock"] /\ out' = out
         \/ /\ pc' = [pc EXCEPT ![p] = "reply"]
            /\ \E r \in {"notfound", "failed"} : out' = [out EXCEPT ![p] = r]
      /\ UNCHANGED <<storeVars, lock, request, query, override, issued, history>>
  BY DEF CheckExists, Return, Goto, Locked
<1>2. Types'
  BY <1>1 DEF MergendInv, Types, Step, storeVars, history, request, query
<1>3. Quiet /\ OthersSame(p)
  BY <1>1 DEF MergendInv, Types, Quiet, OthersSame, readHooks, storeVars, history, request, query
<1>4. pc'[p] \in {"lock", "reply"} /\ op'[p] = op[p] /\ vm'[p] = vm[p]
  BY <1>1 DEF MergendInv, Types, request
<1>5. GetClause(p)' /\ ListClause(p)' /\ QuerySteps(p)'
  BY <1>1, <1>4, NotAQuery DEF MergendInv, NoQuery
<1>6. HooksClause(p)
  BY DEF MergendInv, Local
<1>7. HooksClause(p)'
  BY <1>1, <1>4, <1>6 DEF HooksClause, Locked
<1> QED  BY <1>2, <1>3, <1>5, <1>7, QuietStep DEF Local

\* Taking the lock of a VM takes it from nobody; what delete reads next, and
\* start and stop when they trigger, is there.
LEMMA lockVMStep ==
    ASSUME MergendInv, NEW p \in Handler, lockVM(p)
    PROVE  MergendInv'
<1>1. /\ pc[p] = "lock"
      /\ UNCHANGED <<storeVars, request, query, override, issued, since, seen>>
  BY DEF lockVM
<1>2. HooksClause(p) /\ vm[p] \in VM
  BY <1>1 DEF MergendInv, Local, HooksClause
<1>3. CASE /\ Acquire(p, vm[p])
           /\ had' = [had EXCEPT ![p] = "hooks.json" \in entries[vm[p]]]
           /\ attached' = [attached EXCEPT ![p] = FALSE]
           /\ Goto(p, IF op[p] = "delete" THEN "readhooks" ELSE "systemctl")
           /\ UNCHANGED out
  <2>1. /\ lock[vm[p]] = None /\ lock' = [lock EXCEPT ![vm[p]] = p]
        /\ pc' = [pc EXCEPT ![p] = IF op[p] = "delete" THEN "readhooks" ELSE "systemctl"]
    BY <1>3 DEF Acquire, Goto
  <2>2. Types'
    BY <1>1, <1>2, <1>3, <2>1 DEF MergendInv, Types, Step, Locked, storeVars, request, query
  <2>3. Quiet
    BY <1>1 DEF Quiet, storeVars, request
  <2>4. OthersSame(p)
    BY <1>1, <1>2, <1>3, <2>1, NoneAssumption
       DEF MergendInv, Types, OthersSame, readHooks, storeVars, request, query
  <2>5. /\ pc'[p] = (IF op[p] = "delete" THEN "readhooks" ELSE "systemctl")
        /\ op'[p] = op[p] /\ vm'[p] = vm[p] /\ lock'[vm[p]] = p
        /\ had'[p] = readHooks(vm[p]) /\ readHooks(vm[p])' = readHooks(vm[p])
    BY <1>1, <1>2, <1>3, <2>1 DEF MergendInv, Types, request, storeVars, readHooks
  <2>6. GetClause(p)' /\ ListClause(p)' /\ QuerySteps(p)'
    BY <1>1, <2>5, NotAQuery DEF MergendInv, NoQuery, Locked
  <2>7. HooksClause(p)'
    BY <1>2, <2>5 DEF HooksClause, Locked
  <2> QED  BY <2>2, <2>3, <2>4, <2>6, <2>7, QuietStep DEF Local
<1>4. CASE AlreadyLocked(vm[p]) /\ Return(p, "failed") /\ UNCHANGED <<had, attached>>
  <2>1. /\ lock' = lock /\ had' = had /\ attached' = attached
        /\ pc' = [pc EXCEPT ![p] = "reply"] /\ out' = [out EXCEPT ![p] = "failed"]
    BY <1>1, <1>4 DEF AlreadyLocked, Return, Goto, Locked
  <2>2. Types'
    BY <1>1, <2>1 DEF MergendInv, Types, Step, storeVars, request, query
  <2>3. Quiet /\ OthersSame(p)
    BY <1>1, <2>1 DEF MergendInv, Types, Quiet, OthersSame, readHooks, storeVars, request, query
  <2>4. pc'[p] = "reply" /\ op'[p] = op[p]
    BY <1>1, <2>1 DEF MergendInv, Types, request
  <2>5. GetClause(p)' /\ ListClause(p)' /\ QuerySteps(p)'
    BY <1>1, <2>4, NotAQuery DEF MergendInv, NoQuery
  <2>6. HooksClause(p)'
    BY <2>4 DEF HooksClause, Locked
  <2> QED  BY <2>2, <2>3, <2>5, <2>6, QuietStep DEF Local
<1> QED  BY <1>3, <1>4 DEF lockVM

LEMMA ReadHooksStep ==
    ASSUME MergendInv, NEW p \in Handler, ReadHooks(p)
    PROVE  MergendInv'
<1>1. /\ pc[p] = "readhooks"
      /\ UNCHANGED <<storeVars, lock, request, query, issued, since, seen, attached>>
  BY DEF ReadHooks
<1>2. /\ \/ pc' = [pc EXCEPT ![p] = "systemctl"] /\ out' = out
         \/ pc' = [pc EXCEPT ![p] = "release"] /\ out' = [out EXCEPT ![p] = "notfound"]
      /\ \/ override' = [override EXCEPT ![p] = readHooks(vm[p])] /\ had' = had
         \/ override' = override /\ had' = [had EXCEPT ![p] = FALSE]
         \/ override' = override /\ had' = had /\ out' = [out EXCEPT ![p] = "notfound"]
               /\ pc' = [pc EXCEPT ![p] = "release"]
  BY <1>1 DEF ReadHooks, Return, Goto, Locked
<1>3. readHooks(vm[p]) \in BOOLEAN
  BY DEF readHooks
<1>4. Types'
  <2>1. override \in [Handler -> BOOLEAN] /\ had \in [Handler -> BOOLEAN]
    BY DEF MergendInv, Types
  <2>2. had' \in [Handler -> BOOLEAN]
    BY <1>2, <2>1
  <2>3. PICK b \in BOOLEAN : b = readHooks(vm[p])
    BY <1>3
  <2>4. override' = override \/ override' = [override EXCEPT ![p] = b]
    BY <1>2, <2>3
  <2>5. override' \in [Handler -> BOOLEAN]
    BY <2>1, <2>4
  <2>6. /\ pc' \in [Handler -> {"idle"} \cup Step]
        /\ out' \in [Handler -> {"none", "ok", "notfound", "failed"}]
    BY <1>2 DEF MergendInv, Types, Step, Locked
  <2> QED  BY <1>1, <2>2, <2>5, <2>6 DEF MergendInv, Types, storeVars, request, query
<1>5. Quiet /\ OthersSame(p)
  BY <1>1, <1>2 DEF MergendInv, Types, Quiet, OthersSame, readHooks, storeVars, request, query
<1>6. /\ \/ pc'[p] = "systemctl"
         \/ pc'[p] = "release" /\ out'[p] = "notfound"
      /\ \/ override'[p] = readHooks(vm[p]) /\ had'[p] = had[p]
         \/ had'[p] = FALSE
         \/ pc'[p] = "release" /\ out'[p] = "notfound"
      /\ op'[p] = op[p] /\ vm'[p] = vm[p] /\ lock' = lock
  BY <1>1, <1>2 DEF MergendInv, Types, request
<1>7. GetClause(p)' /\ ListClause(p)' /\ QuerySteps(p)'
  BY <1>1, <1>6, NotAQuery DEF MergendInv, NoQuery, Locked
<1>8. HooksClause(p)
  BY DEF MergendInv, Local
<1>9. HooksClause(p)'
  BY <1>1, <1>6, <1>8 DEF HooksClause, Locked
<1> QED  BY <1>4, <1>5, <1>7, <1>9, QuietStep DEF Local

LEMMA SystemctlStep ==
    ASSUME MergendInv, NEW p \in Handler, Systemctl(p)
    PROVE  MergendInv'
<1>1. /\ pc[p] = "systemctl"
      /\ UNCHANGED <<storeVars, lock, request, query, override, issued, history>>
      /\ \/ /\ pc' = [pc EXCEPT ![p] = IF op[p] = "delete" THEN "remove" ELSE "trigger"]
            /\ out' = out
         \/ pc' = [pc EXCEPT ![p] = "release"] /\ out' = [out EXCEPT ![p] = "failed"]
  BY DEF Systemctl, Return, Goto, Locked
<1>2. Types'
  BY <1>1 DEF MergendInv, Types, Step, Locked, storeVars, history, request, query
<1>3. Quiet /\ OthersSame(p)
  BY <1>1 DEF MergendInv, Types, Quiet, OthersSame, readHooks, storeVars, history, request, query
<1>4. /\ \/ pc'[p] = IF op[p] = "delete" THEN "remove" ELSE "trigger"
         \/ pc'[p] = "release" /\ out'[p] = "failed"
      /\ op'[p] = op[p] /\ vm'[p] = vm[p] /\ lock' = lock
      /\ had'[p] = had[p] /\ override'[p] = override[p]
      /\ readHooks(vm[p])' = readHooks(vm[p])
  BY <1>1 DEF MergendInv, Types, request, history, readHooks, storeVars
<1>5. GetClause(p)' /\ ListClause(p)' /\ QuerySteps(p)'
  BY <1>1, <1>4, NotAQuery DEF MergendInv, NoQuery, Locked
<1>6. HooksClause(p)
  BY DEF MergendInv, Local
<1>7. HooksClause(p)'
  BY <1>1, <1>4, <1>6 DEF HooksClause, Locked
<1> QED  BY <1>2, <1>3, <1>5, <1>7, QuietStep DEF Local

LEMMA TriggerOnDeleteStep ==
    ASSUME MergendInv, NEW p \in Handler, TriggerOnDelete(p)
    PROVE  MergendInv'
<1>1. /\ pc[p] = "trigger" /\ op[p] = "delete"
      /\ UNCHANGED <<storeVars, lock, request, query, override, issued, since, seen, had>>
      /\ attached' = [attached EXCEPT ![p] = override[p]]
      /\ pc' = [pc EXCEPT ![p] = "release"] /\ out' = [out EXCEPT ![p] = "ok"]
  BY DEF TriggerOnDelete, triggerHooks, Return, Goto, Locked
<1>2. Types'
  BY <1>1 DEF MergendInv, Types, Step, Locked, storeVars, request, query
<1>3. Quiet /\ OthersSame(p)
  BY <1>1 DEF MergendInv, Types, Quiet, OthersSame, readHooks, storeVars, request, query
<1>4. /\ pc'[p] = "release" /\ attached'[p] = override[p] /\ had'[p] = had[p]
      /\ op'[p] = op[p] /\ vm'[p] = vm[p] /\ lock' = lock
  BY <1>1 DEF MergendInv, Types, request
<1>5. GetClause(p)' /\ ListClause(p)' /\ QuerySteps(p)'
  BY <1>1, <1>4, NotAQuery DEF MergendInv, NoQuery, Locked
<1>6. HooksClause(p)
  BY DEF MergendInv, Local
<1>7. HooksClause(p)'
  BY <1>1, <1>4, <1>6 DEF HooksClause, Locked
<1> QED  BY <1>2, <1>3, <1>5, <1>7, QuietStep DEF Local

LEMMA TriggerOnStartOrStopStep ==
    ASSUME MergendInv, NEW p \in Handler, TriggerOnStartOrStop(p)
    PROVE  MergendInv'
<1>1. /\ pc[p] = "trigger" /\ op[p] # "delete"
      /\ UNCHANGED <<storeVars, lock, request, query, override, issued, since, seen>>
      /\ pc' = [pc EXCEPT ![p] = "release"] /\ out' = [out EXCEPT ![p] = "ok"]
      /\ \/ attached' = [attached EXCEPT ![p] = readHooks(vm[p])] /\ had' = had
         \/ attached' = attached /\ had' = [had EXCEPT ![p] = FALSE]
  BY DEF TriggerOnStartOrStop, triggerHooks, Return, Goto, Locked
<1>2. readHooks(vm[p]) \in BOOLEAN
  BY DEF readHooks
<1>3. Types'
  BY <1>1, <1>2 DEF MergendInv, Types, Step, Locked, storeVars, request, query
<1>4. Quiet /\ OthersSame(p)
  BY <1>1 DEF MergendInv, Types, Quiet, OthersSame, readHooks, storeVars, request, query
<1>5. /\ pc'[p] = "release"
      /\ \/ attached'[p] = readHooks(vm[p]) /\ had'[p] = had[p]
         \/ had'[p] = FALSE
      /\ op'[p] = op[p] /\ vm'[p] = vm[p] /\ lock' = lock
  BY <1>1 DEF MergendInv, Types, request
<1>6. GetClause(p)' /\ ListClause(p)' /\ QuerySteps(p)'
  BY <1>1, <1>5, NotAQuery DEF MergendInv, NoQuery, Locked
<1>7. HooksClause(p)
  BY DEF MergendInv, Local
<1>8. HooksClause(p)'
  BY <1>1, <1>5, <1>7 DEF HooksClause, Locked
<1> QED  BY <1>3, <1>4, <1>6, <1>8, QuietStep DEF Local

-----------------------------------------------------------------------------
(* Steps that change the files or a query's history *)

LEMMA SaveStep ==
    ASSUME MergendInv, NEW p \in Handler, Save(p)
    PROVE  MergendInv'
<1>1. /\ pc[p] = "save"
      /\ UNCHANGED <<lock, op, query, override, since, had, attached>>
  BY DEF Save
<1>2. Local(p)
  BY DEF MergendInv
<1>3. ASSUME NEW v \in VM \ issued,
             vm' = [vm EXCEPT ![p] = v], issued' = issued \cup {v}, writeMeta(v, "meta"),
             seen' = [q \in Handler |-> IF op[q] \in Query THEN seen[q] \cup {v} ELSE {}],
             Goto(p, "hooks.json"), UNCHANGED out
      PROVE  MergendInv'
  <2>1. /\ pc' = [pc EXCEPT ![p] = "hooks.json"]
        /\ entries' = [entries EXCEPT ![v] = @ \cup {"configDir"}]
        /\ meta' = [meta EXCEPT ![v] = "meta"]
    BY <1>3 DEF Goto, writeMeta
  <2>2. Types'
    <3>1. meta' = [w \in VM |-> meta'[w]]
      BY <2>1 DEF MergendInv, Types
    <3>2. entries' \in [VM -> SUBSET Entry]
      BY <2>1 DEF MergendInv, Types, Entry, Directory
    <3>3. seen' \in [Handler -> SUBSET VM]
      BY <1>3 DEF MergendInv, Types
    <3> QED  BY <1>1, <1>3, <2>1, <3>1, <3>2, <3>3 DEF MergendInv, Types, Step, query
  <2>3. /\ \A w \in VM : w # v => meta'[w] = meta[w]
        /\ \A w \in VM : entries[w] \subseteq entries'[w]
        /\ "configDir" \in entries'[v]
    BY <2>1 DEF MergendInv, Types
  <2>4. OthersSame(p)
    BY <1>1, <1>3, <2>1, <2>3 DEF MergendInv, Types, OthersSame, readHooks, query
  <2>5. StoreInv'
    BY <1>3, <2>3 DEF MergendInv, StoreInv, Exists
  <2>6. registered \subseteq registered' /\ registered' \subseteq registered \cup {v}
    BY <1>3, <2>3 DEF MergendInv, StoreInv, registered, Exists
  <2>7. \A q \in Handler : Bracket(q)'
    <3> TAKE q \in Handler
    <3>1. op[q] \in Query => seen'[q] = seen[q] \cup {v}
      BY <1>3
    <3> QED  BY <1>1, <2>6, <3>1 DEF MergendInv, Bracket
  <2>8. pc'[p] = "hooks.json" /\ vm'[p] = v /\ op'[p] = op[p]
    BY <1>1, <1>3, <2>1 DEF MergendInv, Types
  <2>9. GetClause(p)' /\ ListClause(p)' /\ QuerySteps(p)'
    BY <1>1, <1>2, <2>8, NotAQuery DEF NoQuery
  <2>10. HooksClause(p)'
    BY <2>8 DEF HooksClause, Locked
  <2>11. \A q \in Handler : Local(q)'
    BY <2>4, <2>9, <2>10, OthersKept DEF MergendInv, Local
  <2> QED  BY <2>2, <2>5, <2>7, <2>11 DEF MergendInv
<1>4. CASE Return(p, "failed") /\ UNCHANGED <<storeVars, vm, issued, seen>>
  <2>1. /\ pc' = [pc EXCEPT ![p] = "reply"] /\ out' = [out EXCEPT ![p] = "failed"]
        /\ UNCHANGED <<storeVars, vm, issued, seen>>
    BY <1>1, <1>4 DEF Return, Goto, Locked
  <2>2. Types'
    BY <1>1, <2>1 DEF MergendInv, Types, Step, storeVars, query
  <2>3. Quiet /\ OthersSame(p)
    BY <1>1, <2>1 DEF MergendInv, Types, Quiet, OthersSame, readHooks, storeVars, query
  <2>4. pc'[p] = "reply" /\ op'[p] = op[p]
    BY <1>1, <2>1 DEF MergendInv, Types
  <2>5. GetClause(p)' /\ ListClause(p)' /\ QuerySteps(p)'
    BY <1>1, <1>2, <2>4, NotAQuery DEF NoQuery
  <2>6. HooksClause(p)'
    BY <2>4 DEF HooksClause, Locked
  <2> QED  BY <2>2, <2>3, <2>5, <2>6, QuietStep DEF Local
<1> QED  BY <1>3, <1>4 DEF Save

LEMMA SaveHooksStep ==
    ASSUME MergendInv, NEW p \in Handler, SaveHooks(p)
    PROVE  MergendInv'
<1>1. /\ pc[p] = "hooks.json"
      /\ UNCHANGED <<meta, lock, request, query, override, issued, history>>
      /\ \/ entries' = entries
         \/ entries' = [entries EXCEPT ![vm[p]] = @ \cup {"configDir", "hooks.json"}]
      /\ \/ pc' = [pc EXCEPT ![p] = "onCreate"] /\ out' = out
         \/ pc' = [pc EXCEPT ![p] = "reply"] /\ out' = [out EXCEPT ![p] = "failed"]
  BY DEF SaveHooks, writeFile, storeVars, Return, Goto, Locked
<1>2. Local(p) /\ vm[p] \in VM
  BY <1>1 DEF MergendInv, Local, HooksClause
<1>3. entries' \in [VM -> SUBSET Entry]
  BY <1>1, <1>2 DEF MergendInv, Types, Entry, Directory, ConfigFile
<1>4. Types'
  BY <1>1, <1>3 DEF MergendInv, Types, Step, history, request, query
<1>5. \A w \in VM : entries[w] \subseteq entries'[w]
  BY <1>1 DEF MergendInv, Types
<1>6. OthersSame(p)
  BY <1>1, <1>5 DEF MergendInv, Types, OthersSame, readHooks, history, request, query
<1>7. StoreInv'
  BY <1>1, <1>5 DEF MergendInv, StoreInv, Exists
<1>8. \A q \in Handler : Bracket(q)'
  BY <1>1 DEF MergendInv, Bracket, registered, Exists, request, history
<1>9. pc'[p] \in {"onCreate", "reply"} /\ vm'[p] = vm[p] /\ op'[p] = op[p]
  BY <1>1 DEF MergendInv, Types, request
<1>10. GetClause(p)' /\ ListClause(p)' /\ QuerySteps(p)'
  BY <1>1, <1>2, <1>9, NotAQuery DEF NoQuery
<1>11. HooksClause(p)'
  BY <1>2, <1>9 DEF HooksClause, Locked
<1>12. \A q \in Handler : Local(q)'
  BY <1>6, <1>10, <1>11, OthersKept DEF MergendInv, Local
<1> QED  BY <1>4, <1>7, <1>8, <1>12 DEF MergendInv

\* Another handler that counts on hooks.json of the VM would hold its lock.
LEMMA RemoveFilesStep ==
    ASSUME MergendInv, NEW p \in Handler, RemoveFiles(p)
    PROVE  MergendInv'
<1>1. /\ pc[p] = "remove"
      /\ UNCHANGED <<lock, request, query, override, issued, seen, had, attached>>
  BY DEF RemoveFiles
<1>2. /\ Local(p) /\ vm[p] \in VM /\ lock[vm[p]] = p /\ op[p] = "delete"
      /\ had[p] => override[p]
  BY <1>1 DEF MergendInv, Local, HooksClause, Locked
<1>3. /\ \/ meta' = meta
         \/ meta' = [meta EXCEPT ![vm[p]] = NoMeta]
      /\ \/ entries' = entries
         \/ entries' = [entries EXCEPT ![vm[p]] = {}] /\ meta' = [meta EXCEPT ![vm[p]] = NoMeta]
      /\ \/ since' = since /\ meta' = meta
         \/ since' = [q \in Handler |-> since[q] \ {vm[p]}]
      /\ \/ pc' = [pc EXCEPT ![p] = "trigger"] /\ out' = out
         \/ pc' = [pc EXCEPT ![p] = "release"] /\ out' = [out EXCEPT ![p] = "failed"]
  BY <1>1 DEF RemoveFiles, unlink, storeVars, Return, Goto, Locked
<1>4. /\ meta' = [w \in VM |-> meta'[w]]
      /\ \A w \in VM : meta'[w] = meta[w] \/ (w = vm[p] /\ meta'[w] = NoMeta)
      /\ meta' # meta => meta'[vm[p]] = NoMeta
  BY <1>2, <1>3 DEF MergendInv, Types
<1>5. /\ entries' \in [VM -> SUBSET Entry]
      /\ \A w \in VM : w # vm[p] => entries'[w] = entries[w]
      /\ entries'[vm[p]] = entries[vm[p]] \/ meta'[vm[p]] = NoMeta
  BY <1>2, <1>3, <1>4 DEF MergendInv, Types
<1>6. /\ since' \in [Handler -> SUBSET VM]
      /\ \A q \in Handler : since'[q] \subseteq since[q]
      /\ \A q \in Handler : meta' = meta \/ since'[q] = since[q] \ {vm[p]}
  BY <1>3 DEF MergendInv, Types
<1>7. /\ pc' \in [Handler -> {"idle"} \cup Step]
      /\ out' \in [Handler -> {"none", "ok", "notfound", "failed"}]
      /\ \A q \in Handler \ {p} : pc'[q] = pc[q] /\ out'[q] = out[q]
      /\ pc'[p] = "trigger" \/ (pc'[p] = "release" /\ out'[p] = "failed")
  BY <1>3 DEF MergendInv, Types, Step, Locked
<1>8. Types'
  BY <1>1, <1>4, <1>5, <1>6, <1>7 DEF MergendInv, Types, request, query
<1>9. OthersSame(p)
  BY <1>1, <1>2, <1>5, <1>6, <1>7 DEF OthersSame, readHooks, request, query
<1>10. StoreInv'
  BY <1>1, <1>4, <1>5 DEF MergendInv, StoreInv, Exists
<1>11. \A q \in Handler : Bracket(q)'
  <2> TAKE q \in Handler
  <2>1. registered' \subseteq registered /\ registered \ {vm[p]} \subseteq registered'
    BY <1>4 DEF registered, Exists
  <2>2. meta' = meta => registered' = registered
    BY DEF registered, Exists
  <2> QED  BY <1>1, <1>6, <2>1, <2>2 DEF MergendInv, Bracket, request
<1>12. vm'[p] = vm[p] /\ op'[p] = op[p]
  BY <1>1 DEF request
<1>13. GetClause(p)' /\ ListClause(p)' /\ QuerySteps(p)'
  BY <1>1, <1>2, <1>7, <1>12, NotAQuery DEF NoQuery, Locked
<1>14. HooksClause(p)'
  BY <1>1, <1>2, <1>7, <1>12 DEF HooksClause, Locked
<1>15. \A q \in Handler : Local(q)'
  BY <1>9, <1>13, <1>14, OthersKept DEF MergendInv, Local
<1> QED  BY <1>8, <1>10, <1>11, <1>15 DEF MergendInv

-----------------------------------------------------------------------------
(* Requests, replies and the end of the process *)

LEMMA AcceptStep ==
    ASSUME MergendInv, NEW p \in Handler, Accept(p)
    PROVE  MergendInv'
<1>1. /\ pc[p] = "idle"
      /\ UNCHANGED <<storeVars, lock, query, override, out, issued, had, attached>>
  BY DEF Accept
<1>2. PICK o \in Ops :
        /\ op' = [op EXCEPT ![p] = o]
        /\ CASE o = "create" -> Goto(p, "bind") /\ UNCHANGED <<vm, since, seen>>
             [] o \in Query ->
                  /\ IF o = "list" THEN Goto(p, "ids") /\ UNCHANGED vm
                     ELSE Goto(p, "read") /\ \E v \in VM : vm' = [vm EXCEPT ![p] = v]
                  /\ since' = [since EXCEPT ![p] = registered]
                  /\ seen' = [seen EXCEPT ![p] = registered]
             [] OTHER -> /\ Goto(p, "exists")
                         /\ \E v \in VM : vm' = [vm EXCEPT ![p] = v]
                         /\ UNCHANGED <<since, seen>>
  BY DEF Accept
<1>3. \/ /\ o = "create" /\ pc' = [pc EXCEPT ![p] = "bind"]
         /\ UNCHANGED <<vm, since, seen>>
      \/ /\ o = "list" /\ pc' = [pc EXCEPT ![p] = "ids"] /\ vm' = vm
         /\ since' = [since EXCEPT ![p] = registered] /\ seen' = [seen EXCEPT ![p] = registered]
      \/ /\ o = "get" /\ pc' = [pc EXCEPT ![p] = "read"]
         /\ \E v \in VM : vm' = [vm EXCEPT ![p] = v]
         /\ since' = [since EXCEPT ![p] = registered] /\ seen' = [seen EXCEPT ![p] = registered]
      \/ /\ o \notin Query /\ pc' = [pc EXCEPT ![p] = "exists"]
         /\ \E v \in VM : vm' = [vm EXCEPT ![p] = v]
         /\ UNCHANGED <<since, seen>>
  BY <1>2 DEF Goto, Query
<1>4. registered \subseteq VM /\ registered' = registered
  BY <1>1 DEF registered, Exists, storeVars
<1>5. /\ vm' \in [Handler -> VM \cup {None}]
      /\ \A q \in Handler \ {p} : vm'[q] = vm[q]
      /\ o = "get" => vm'[p] \in VM
      /\ pc'[p] = "exists" => vm'[p] \in VM
  BY <1>3 DEF MergendInv, Types
<1>6. /\ pc' \in [Handler -> {"idle"} \cup Step]
      /\ op' \in [Handler -> Ops \cup {"none"}]
      /\ \A q \in Handler \ {p} : pc'[q] = pc[q] /\ op'[q] = op[q]
      /\ op'[p] = o
      /\ \/ o = "create" /\ pc'[p] = "bind"
         \/ o = "list" /\ pc'[p] = "ids"
         \/ o = "get" /\ pc'[p] = "read"
         \/ o \notin Query /\ pc'[p] = "exists"
  BY <1>2, <1>3 DEF MergendInv, Types, Step
<1>7. /\ since' \in [Handler -> SUBSET VM] /\ seen' \in [Handler -> SUBSET VM]
      /\ \A q \in Handler \ {p} : since'[q] = since[q] /\ seen'[q] = seen[q]
      /\ o \in Query => since'[p] = registered /\ seen'[p] = registered
  BY <1>3, <1>4 DEF MergendInv, Types, Query
<1>8. Types'
  BY <1>1, <1>5, <1>6, <1>7 DEF MergendInv, Types, storeVars, query
<1>9. OthersSame(p)
  BY <1>1, <1>5, <1>6, <1>7 DEF OthersSame, readHooks, storeVars, query
<1>10. StoreInv'
  BY <1>1 DEF MergendInv, StoreInv, Exists, storeVars
<1>11. \A q \in Handler : Bracket(q)'
  BY <1>4, <1>6, <1>7 DEF MergendInv, Bracket
<1>12. HooksClause(p)' /\ GetClause(p)' /\ QuerySteps(p)'
  BY <1>5, <1>6 DEF HooksClause, GetClause, QuerySteps, Query, Locked
<1>13. ListClause(p)'
  <2>1. items'[p] = << >>
    BY <1>1 DEF MergendInv, Local, ListClause, query
  <2> QED  BY <1>6, <2>1 DEF ListClause, Query
<1>14. \A q \in Handler : Local(q)'
  BY <1>9, <1>12, <1>13, OthersKept DEF MergendInv, Local
<1> QED  BY <1>8, <1>10, <1>11, <1>14 DEF MergendInv

LEMMA ReplyStep ==
    ASSUME MergendInv, NEW p \in Handler, Reply(p)
    PROVE  MergendInv'
<1>1. /\ pc[p] \in {"reply", "release"}
      /\ pc' = [pc EXCEPT ![p] = "idle"] /\ op' = [op EXCEPT ![p] = "none"]
      /\ vm' = [vm EXCEPT ![p] = None] /\ todo' = [todo EXCEPT ![p] = {}]
      /\ items' = [items EXCEPT ![p] = << >>] /\ override' = [override EXCEPT ![p] = FALSE]
      /\ out' = [out EXCEPT ![p] = "none"]
      /\ since' = [since EXCEPT ![p] = {}] /\ seen' = [seen EXCEPT ![p] = {}]
      /\ had' = [had EXCEPT ![p] = FALSE] /\ attached' = [attached EXCEPT ![p] = FALSE]
      /\ UNCHANGED <<storeVars, issued>>
  BY DEF Reply, Goto
<1>2. \/ lock' = lock
      \/ lock' = [lock EXCEPT ![vm[p]] = None] /\ vm[p] \in VM /\ lock[vm[p]] = p
  BY DEF Reply, Release, MergendInv, Local, HooksClause, Locked
<1>3. Types'
  BY <1>1, <1>2 DEF MergendInv, Types, Step, storeVars
<1>4. \A q \in Handler \ {p}, v \in VM : lock[v] = q => lock'[v] = q
  BY <1>2 DEF MergendInv, Types
<1>5. OthersSame(p)
  BY <1>1, <1>4 DEF MergendInv, Types, OthersSame, readHooks, storeVars
<1>6. StoreInv'
  BY <1>1 DEF MergendInv, StoreInv, Exists, storeVars
<1>7. pc'[p] = "idle" /\ op'[p] = "none" /\ items'[p] = << >>
  BY <1>1 DEF MergendInv, Types
<1>8. registered' = registered
  BY <1>1 DEF registered, Exists, storeVars
<1>9. \A q \in Handler : Bracket(q)'
  <2> TAKE q \in Handler
  <2>1. CASE q = p
    BY <1>7, <2>1 DEF Bracket, Query
  <2>2. CASE q # p
    BY <1>1, <1>8, <2>2 DEF MergendInv, Types, Bracket
  <2> QED  BY <2>1, <2>2
<1>10. Local(p)'
  BY <1>7 DEF Local, HooksClause, GetClause, ListClause, QuerySteps, Query, Locked
<1>11. \A q \in Handler : Local(q)'
  BY <1>5, <1>10, OthersKept DEF MergendInv
<1> QED  BY <1>3, <1>6, <1>9, <1>11 DEF MergendInv

LEMMA ExitStep ==
    ASSUME MergendInv, Exit
    PROVE  MergendInv'
<1>1. Types'
  BY DEF Exit, DropAll, storeVars, MergendInv, Types
<1>2. StoreInv'
  BY DEF Exit, storeVars, MergendInv, StoreInv, Exists
<1>3. ASSUME NEW p \in Handler
      PROVE  Local(p)' /\ Bracket(p)'
  <2>1. pc'[p] = "idle" /\ op'[p] = "none" /\ items'[p] = << >>
    BY DEF Exit
  <2> QED
    BY <2>1 DEF Local, HooksClause, GetClause, ListClause, QuerySteps, Bracket, Query, Locked
<1> QED  BY <1>1, <1>2, <1>3 DEF MergendInv

-----------------------------------------------------------------------------
(* The theorems *)

LEMMA MergendInvHolds == Spec => []MergendInv
<1>1. Init => MergendInv
  <2> SUFFICES ASSUME Init PROVE MergendInv
    OBVIOUS
  <2>1. Types
    BY DEF Init, Types, StoreInit, LockInit
  <2>2. StoreInv
    BY DEF Init, StoreInv, StoreInit, Exists
  <2>3. ASSUME NEW p \in Handler
        PROVE  Local(p) /\ Bracket(p)
    <3>1. pc[p] = "idle" /\ op[p] = "none" /\ items[p] = << >>
      BY DEF Init
    <3> QED
      BY <3>1 DEF Local, HooksClause, GetClause, ListClause, QuerySteps, Bracket, Query, Locked
  <2> QED  BY <2>1, <2>2, <2>3 DEF MergendInv
<1>2. MergendInv /\ [Next]_vars => MergendInv'
  <2> SUFFICES ASSUME MergendInv, [Next]_vars PROVE MergendInv'
    OBVIOUS
  <2>1. CASE UNCHANGED <<storeVars, lock, pc, request, query, override, out, issued, history>>
    <3>1. Types' /\ StoreInv' /\ \A p \in Handler : Bracket(p)'
      BY <2>1 DEF MergendInv, Types, StoreInv, Bracket, registered, Exists, storeVars, request,
                  query, history
    <3>2. \A p \in Handler : HooksClause(p)' /\ GetClause(p)' /\ QuerySteps(p)'
      BY <2>1 DEF MergendInv, Local, HooksClause, GetClause, QuerySteps, readHooks, storeVars,
                  request, history
    <3>3. ASSUME NEW p \in Handler
          PROVE  ListClause(p)'
      <4>1. Collected(p)' = Collected(p) /\ listIsFaithful(p)' = listIsFaithful(p)
        BY <2>1 DEF Collected, listIsFaithful, NoDuplicates, ToSet, request, query, history
      <4> QED  BY <2>1, <4>1 DEF MergendInv, Local, ListClause, request, query
    <3> QED  BY <3>1, <3>2, <3>3 DEF MergendInv, Local
  <2>2. ASSUME NEW p \in Handler, HandlerStep(p)
        PROVE  MergendInv'
    BY <2>2, ReplyStep, ListIDsStep, ReadNextMetaStep, ReadMetaStep, ProbeStep, ListDoneStep,
       QueryFailsStep, SaveStep, SaveHooksStep, OnCreateStep, CheckExistsStep, lockVMStep,
       ReadHooksStep, SystemctlStep, RemoveFilesStep, TriggerOnDeleteStep,
       TriggerOnStartOrStopStep DEF HandlerStep
  <2>3. ASSUME NEW p \in Handler, Accept(p) \/ Bind(p)
        PROVE  MergendInv'
    BY <2>3, AcceptStep, BindStep
  <2>4. CASE Drained \/ ShutdownTimesOut \/ ListenFails
    BY <2>4, ExitStep DEF Drained, ShutdownTimesOut, ListenFails
  <2>5. CASE Signal \/ Restart
    BY <2>1, <2>5 DEF Signal, Restart
  <2>6. CASE UNCHANGED vars
    BY <2>1, <2>6 DEF vars
  <2> QED  BY <2>2, <2>3, <2>4, <2>5, <2>6 DEF Next
<1> QED  BY <1>1, <1>2, PTL DEF Spec

\* A start, stop or delete that succeeds has triggered the hooks that were in
\* hooks.json when it locked the VM, unless a read failed, whatever the other
\* handlers did to the VM meanwhile.
THEOREM HooksAreTriggeredHolds == Spec => []HooksAreTriggered
<1>1. MergendInv => HooksAreTriggered
  BY DEF MergendInv, Local, HooksClause, HooksAreTriggered
<1> QED  BY <1>1, MergendInvHolds, PTL

\* What GET /vms/:id answers was true at some time during the request.  A list
\* has every VM that was there from its beginning to its end, none that never
\* was, none twice, and the newest first.
THEOREM QueriesAreFaithfulHolds == Spec => []QueriesAreFaithful
<1>1. MergendInv => QueriesAreFaithful
  BY DEF MergendInv, Local, GetClause, ListClause, QueriesAreFaithful
<1> QED  BY <1>1, MergendInvHolds, PTL

-----------------------------------------------------------------------------
(* The goroutine that runs the hooks of an event *)

passedOver(i) == ~ran[i] /\ ~mayFailAlone(hooks[i])

\* While a hook runs that began in time, none before it can have been passed
\* over for lack of time.
RunnerInv ==
    /\ ran \in Seq(BOOLEAN)
    /\ expired \in BOOLEAN
    /\ now = "none" => ran = << >>
    /\ now = "over" => Len(ran) = Len(hooks)
    /\ \A i \in 1..Len(ran) : passedOver(i) => expired
    /\ \A i, j \in 1..Len(ran) : i < j /\ passedOver(i) => ~ran[j]
    /\ now = "running" => \A i \in 1..Len(ran) : ~passedOver(i)

LEMMA TurnStep ==
    ASSUME RunnerInv, NEW wasRun \in BOOLEAN, HadItsTurn(wasRun),
           wasRun => now = "running",
           ~wasRun => mayFailAlone(hooks[Len(ran) + 1]) \/ expired
    PROVE  RunnerInv'
<1>1. PICK n \in Nat : n = Len(ran)
  BY DEF RunnerInv
<1>2. /\ ran' \in Seq(BOOLEAN) /\ Len(ran') = n + 1
      /\ \A i \in 1..n : ran'[i] = ran[i]
      /\ ran'[n + 1] = wasRun
  BY <1>1 DEF RunnerInv, HadItsTurn
<1>3. hooks' = hooks /\ expired' = expired /\ now' = "between"
  BY DEF HadItsTurn
<1>4. \A i \in 1..n : passedOver(i)' = passedOver(i)
  BY <1>2, <1>3 DEF passedOver
<1>5. passedOver(n + 1)' => ~wasRun /\ expired
  BY <1>1, <1>2, <1>3 DEF passedOver
<1>6. \A i \in 1..(n + 1) : i \in 1..n \/ i = n + 1
  BY <1>1
<1>7. \A i \in 1..(n + 1) : passedOver(i)' => expired
  BY <1>1, <1>4, <1>5, <1>6 DEF RunnerInv
<1>8. ASSUME NEW i \in 1..(n + 1), NEW j \in 1..(n + 1), i < j, passedOver(i)'
      PROVE  ~ran'[j]
  <2>1. i \in 1..n /\ passedOver(i)
    BY <1>4, <1>8
  <2>2. CASE j \in 1..n
    BY <1>1, <1>2, <1>8, <2>1, <2>2 DEF RunnerInv
  <2>3. CASE j = n + 1
    <3>1. now # "running"
      BY <1>1, <2>1 DEF RunnerInv
    <3> QED  BY <1>2, <2>3, <3>1
  <2> QED  BY <1>6, <2>2, <2>3
<1> QED  BY <1>2, <1>3, <1>7, <1>8 DEF RunnerInv

\* When Run returns every hook has had its turn, once and in order; one without
\* a fault or a timeout of its own was passed over only if the 20 seconds were
\* over, and from then on none was begun.
THEOREM EveryHookHadItsTurnHolds == HookSpec => []EveryHookHadItsTurn
<1>0. << >> \in Seq(BOOLEAN) /\ 1..Len(<< >>) = {}
  OBVIOUS
<1>1. HookInit => RunnerInv
  BY <1>0 DEF HookInit, RunnerInv
<1>2. RunnerInv /\ [HookNext]_hookVars => RunnerInv'
  <2> SUFFICES ASSUME RunnerInv, [HookNext]_hookVars PROVE RunnerInv'
    OBVIOUS
  <2>1. CASE RunAsync
    <3>1. ran' = << >> /\ expired' = expired /\ now' = "between"
      BY <2>1 DEF RunAsync, RunnerInv
    <3> QED  BY <3>1 DEF RunnerInv
  <2>2. CASE HookRefused
    BY <2>2, TurnStep DEF HookRefused, current, mayFailAlone
  <2>3. CASE HookBegins
    BY <2>3 DEF HookBegins, RunnerInv, passedOver
  <2>4. CASE HookEnds
    BY <2>4, TurnStep DEF HookEnds
  <2>5. CASE HookTimesOut
    BY <2>5, TurnStep DEF HookTimesOut
  <2>6. CASE BudgetExpires
    BY <2>6 DEF BudgetExpires, RunnerInv, passedOver
  <2>7. CASE RunReturns
    BY <2>7 DEF RunReturns, RunnerInv, passedOver
  <2>8. CASE Killed
    <3>1. ran' = << >> /\ now' = "none" /\ expired' = FALSE
      BY <2>8 DEF Killed
    <3> QED  BY <1>0, <3>1 DEF RunnerInv
  <2>9. CASE UNCHANGED hookVars
    BY <2>9 DEF hookVars, RunnerInv, passedOver
  <2> QED  BY <2>1, <2>2, <2>3, <2>4, <2>5, <2>6, <2>7, <2>8, <2>9 DEF HookNext
<1>3. RunnerInv => EveryHookHadItsTurn
  BY DEF RunnerInv, passedOver, EveryHookHadItsTurn
<1> QED  BY <1>1, <1>2, <1>3, PTL DEF HookSpec
=============================================================================

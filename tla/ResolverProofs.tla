--------------------------- MODULE ResolverProofs ---------------------------
(***************************************************************************)
(* Theorems about the forwarder's resolver, for every number of VMs and    *)
(* requests, every set of labels and every cacheTTL.                       *)
(***************************************************************************)
EXTENDS Resolver, FiniteSetTheorems, WellFoundedInduction, TLAPS

\* Nothing happened later than now.
Clock ==
    /\ \A v \in VM : /\ since[v] # Never => since[v] \leq now
                     /\ until[v] # Never => until[v] \leq now
    /\ \A r \in Request : asked[r] \leq now
    /\ began \leq now /\ snap.from \leq snap.to /\ snap.to \leq now

\* CreatedAt follows the order in which mergend makes up the metadata.
Ranked ==
    /\ IsFiniteSet(drawn)
    /\ \A v \in VM : /\ v \notin drawn => createdAt[v] = 0 /\ since[v] = Never
                     /\ createdAt[v] \leq Cardinality(drawn)

\* Whoever mergend tags with the id of a VM was created after it.
TagsNameOlder ==
    \A v, w \in VM : v \in tags[w] /\ createdAt[w] # 0 =>
                         v \in drawn /\ createdAt[v] < createdAt[w]

\* A refresh under way has seen every file that was there when it began, and no
\* file that had been removed before.
ReadingInv ==
    \A r \in Request : pc[r] = "read" =>
        /\ \A v \in todo \cup metas : until[v] \geq began
        /\ \A v \in metas : since[v] # Never
        /\ \A v \in VM : since[v] < began /\ until[v] = Never =>
                             v \in todo \cup metas \cup skipped

\* The same of the cache and the refresh that built it; an id of mergend's own
\* belongs to its VM.
CacheInv ==
    /\ DOMAIN cache # {} => cacheUntil = snap.to + TTL
    /\ \A l \in DOMAIN cache : since[cache[l]] # Never /\ until[cache[l]] \geq snap.from
    /\ \A v \in VM : since[v] < snap.from /\ until[v] > snap.to /\ v \notin snap.skipped =>
                         v \in DOMAIN cache /\ (createdAt[v] # 0 => cache[v] = v)

\* A request that is about to look up was made before the cache it will see ran
\* out, and before that cache was built if it is empty.
AnswerInv ==
    \A r \in Request : pc[r] = "lookup" =>
        /\ asked[r] < snap.to + TTL
        /\ DOMAIN cache = {} => asked[r] \leq snap.to

ResolverInv ==
    /\ TypeOK
    /\ RefreshOwnsLock
    /\ Clock
    /\ Ranked
    /\ TagsNameOlder
    /\ ReadingInv
    /\ CacheInv
    /\ AnswerInv

-----------------------------------------------------------------------------
(* The cache *)

LEMMA LeastNat ==
    ASSUME NEW S \in SUBSET Nat, S # {}
    PROVE  \E m \in S : \A n \in S : m \leq n
<1> DEFINE R == OpToRel(<, Nat)
<1>1. IsWellFoundedOn(R, Nat)
  BY NatLessThanWellFounded
<1>2. ASSUME NEW m \in Nat, NEW n \in Nat, n < m PROVE <<n, m>> \in R
  BY <1>2 DEF OpToRel
<1> HIDE DEF R
<1>3. PICK m \in S : \A n \in S : ~(<<n, m>> \in R)
  BY <1>1, WFMin
<1>4. ASSUME NEW n \in S PROVE m \leq n
  <2>1. m \in Nat /\ n \in Nat
    OBVIOUS
  <2>2. ~(n < m)
    BY <1>2, <1>3, <2>1
  <2> QED
    BY <2>1, <2>2
<1> QED
  BY <1>4

\* The order of the sort is strict and total.
LEMMA OlderIsStrict ==
    ASSUME TypeOK, NEW v \in VM, NEW w \in VM
    PROVE  /\ ~(older(v, w) /\ older(w, v))
           /\ v # w => older(v, w) \/ older(w, v)
<1>1. /\ createdAt[v] \in Nat /\ createdAt[w] \in Nat
      /\ v \in Nat /\ w \in Nat
  BY LabelAssumption DEF TypeOK
<1> QED
  BY <1>1 DEF older

\* Any files at all have a first one: the oldest of those with a CreatedAt if
\* there are such, and the least id among equals.
LEMMA FirstExists ==
    ASSUME TypeOK, NEW S \in SUBSET VM, S # {}
    PROVE  \E v \in S : \A w \in S \ {v} : older(v, w)
<1> DEFINE Dated == {v \in S : createdAt[v] # 0}
           Cand == IF Dated = {} THEN S ELSE Dated
<1>1. Cand # {} /\ Cand \subseteq S /\ Cand \subseteq Nat
  BY LabelAssumption
<1>2. \A v \in VM : createdAt[v] \in Nat /\ v \in Nat
  BY LabelAssumption DEF TypeOK
<1>3. PICK k \in Cand : \A w \in Cand : createdAt[k] \leq createdAt[w]
  <2> DEFINE Ranks == {createdAt[v] : v \in Cand}
  <2>1. Ranks \in SUBSET Nat /\ Ranks # {}
    BY <1>1, <1>2
  <2>2. PICK m \in Ranks : \A n \in Ranks : m \leq n
    BY <2>1, LeastNat
  <2> QED
    BY <2>2
<1> DEFINE Equal == {v \in Cand : createdAt[v] = createdAt[k]}
<1>4. PICK v \in Equal : \A w \in Equal : v \leq w
  <2>1. Equal \in SUBSET Nat /\ Equal # {}
    BY <1>1, <1>3
  <2> QED
    BY <2>1, LeastNat
<1>5. v \in S /\ v \in VM
  BY <1>1, <1>4
<1>6. ASSUME NEW w \in S \ {v} PROVE older(v, w)
  <2>1. createdAt[v] \in Nat /\ createdAt[w] \in Nat /\ v \in Nat /\ w \in Nat
    BY <1>2, <1>5
  <2>2. CASE w \in Cand
    <3>1. createdAt[v] \leq createdAt[w]
      BY <1>3, <1>4, <2>2
    <3>2. createdAt[v] = createdAt[w] => v < w
      BY <1>4, <2>1, <2>2
    <3>3. createdAt[v] < createdAt[w] => createdAt[v] # 0 /\ createdAt[w] # 0
      BY <1>4, <2>1, <2>2
    <3> QED
      BY <2>1, <3>1, <3>2, <3>3 DEF older
  <2>3. CASE w \notin Cand
    BY <1>4, <2>1, <2>3 DEF older
  <2> QED
    BY <2>2, <2>3
<1> QED
  BY <1>5, <1>6

\* The map the loop builds gives each alias to one of the files that carry it.
LEMMA AliasMapIsSound ==
    ASSUME TypeOK, NEW S \in SUBSET VM, NEW l \in DOMAIN aliasMap(S)
    PROVE  /\ l \in Label
           /\ aliasMap(S)[l] \in S
           /\ l \in aliasesForMeta(aliasMap(S)[l])
           /\ \A w \in S \ {aliasMap(S)[l]} :
                  l \in aliasesForMeta(w) => older(aliasMap(S)[l], w)
<1> DEFINE Carry == {v \in S : l \in aliasesForMeta(v)}
           First(v) == /\ l \in aliasesForMeta(v)
                       /\ \A w \in S \ {v} : l \in aliasesForMeta(w) => older(v, w)
<1>1. Carry \in SUBSET VM /\ Carry # {}
  BY DEF aliasMap
<1>2. \E v \in S : First(v)
  BY <1>1, FirstExists
<1>3. aliasMap(S)[l] = CHOOSE v \in S : First(v)
  BY DEF aliasMap
<1>4. aliasMap(S)[l] \in S /\ First(aliasMap(S)[l])
  BY <1>2, <1>3
<1>5. l \in Label
  BY <1>4, LabelAssumption DEF aliasesForMeta, TypeOK
<1> QED
  BY <1>4, <1>5

\* The id of a file that was read is in the map; if mergend created the VM it
\* stays with it, for no older file is tagged with it.
LEMMA IdBelongs ==
    ASSUME TypeOK, TagsNameOlder, NEW S \in SUBSET VM, NEW v \in S
    PROVE  /\ v \in DOMAIN aliasMap(S)
           /\ createdAt[v] # 0 => aliasMap(S)[v] = v
<1>1. v \in aliasesForMeta(v)
  BY DEF aliasesForMeta
<1>2. v \in DOMAIN aliasMap(S)
  BY <1>1 DEF aliasMap
<1>3. ASSUME createdAt[v] # 0, aliasMap(S)[v] # v PROVE FALSE
  <2> DEFINE u == aliasMap(S)[v]
  <2>1. u \in S /\ v \in aliasesForMeta(u) /\ older(u, v)
    BY <1>1, <1>2, <1>3, AliasMapIsSound
  <2>2. v \in tags[u]
    BY <1>3, <2>1, LabelAssumption DEF aliasesForMeta
  <2>3. createdAt[u] \in Nat /\ createdAt[v] \in Nat
    BY <2>1 DEF TypeOK
  <2>4. createdAt[u] = 0 \/ createdAt[v] < createdAt[u]
    BY <2>1, <2>2 DEF TagsNameOlder
  <2> HIDE DEF u
  <2> QED
    BY <1>3, <2>1, <2>3, <2>4 DEF older
<1> QED
  BY <1>2, <1>3

-----------------------------------------------------------------------------
(* The steps *)

\* A forwarder that has just started has read nothing.
LEMMA ResolverInit == Init => ResolverInv
<1> SUFFICES ASSUME Init PROVE ResolverInv
  OBVIOUS
<1> USE TTLAssumption DEF Init, Never, Time
<1>1. TypeOK
  BY DEF TypeOK
<1>2. RefreshOwnsLock /\ ReadingInv /\ AnswerInv
  BY NoneAssumption DEF RefreshOwnsLock, ReadingInv, AnswerInv
<1>3. Clock /\ TagsNameOlder /\ CacheInv
  BY DEF Clock, TagsNameOlder, CacheInv
<1>4. Ranked
  BY FS_EmptySet DEF Ranked
<1> QED
  BY <1>1, <1>2, <1>3, <1>4 DEF ResolverInv

\* The moments the state records are numbers up to Never, which has not come.
LEMMA Moments ==
    ASSUME TypeOK
    PROVE  /\ now \in Nat /\ now < Never /\ Never \in Nat /\ Time \subseteq Nat
           /\ \A v \in VM : /\ since[v] \in Nat /\ since[v] \leq Never
                            /\ until[v] \in Nat /\ until[v] \leq Never
                            /\ createdAt[v] \in Nat
           /\ \A r \in Request : asked[r] \in Nat
           /\ began \in Nat /\ snap.from \in Nat /\ snap.to \in Nat
           /\ cacheUntil \in Nat /\ TTL \in Nat /\ TTL > 0
BY TTLAssumption DEF TypeOK, Time, Never

LEMMA TickKeeps == ResolverInv /\ Tick => ResolverInv'
<1> SUFFICES ASSUME ResolverInv, Tick PROVE ResolverInv'
  OBVIOUS
<1>1. /\ now' = now + 1 /\ now < MaxTime
      /\ UNCHANGED <<createdAt, tags, since, until, drawn, mu, cache, cacheUntil, snap, pc,
                     todo, metas, began, skipped, asked>>
  BY DEF Tick, store, cached, reading
<1>2. TypeOK'
  BY <1>1, TTLAssumption DEF ResolverInv, TypeOK
<1>3. Clock'
  BY <1>1, Moments DEF ResolverInv, Clock
<1> QED
  BY <1>1, <1>2, <1>3 DEF ResolverInv, RefreshOwnsLock, Ranked, TagsNameOlder, ReadingInv,
     CacheInv, AnswerInv

\* New metadata ranks after all there is and names only VMs that can be seen; a
\* file made by hand has no rank.  Neither is in the store yet.
LEMMA DrawKeeps ==
    ASSUME ResolverInv, NEW v \in VM, Draw(v) \/ DrawByHand(v)
    PROVE  ResolverInv'
<1>1. PICK rank \in {0, 1 + Cardinality(drawn)}, l \in Label :
          /\ v \notin drawn /\ drawn' = drawn \cup {v}
          /\ createdAt' = [createdAt EXCEPT ![v] = rank]
          /\ tags' = [tags EXCEPT ![v] = {l}]
          /\ rank # 0 /\ l \in VM => present(l)
  <2>1. CASE Draw(v)
    <3>1. PICK l \in {w \in VM : present(w)} \cup (Label \ VM) :
              tags' = [tags EXCEPT ![v] = {l}]
      BY <2>1 DEF Draw
    <3> QED
      BY <2>1, <3>1, LabelAssumption DEF Draw
  <2>2. CASE DrawByHand(v)
    <3>1. PICK l \in Label \ {v} : tags' = [tags EXCEPT ![v] = {l}]
      BY <2>2 DEF DrawByHand
    <3>2. createdAt[v] = 0 /\ createdAt \in [VM -> Nat]
      BY <2>2 DEF DrawByHand, ResolverInv, Ranked, TypeOK
    <3>3. createdAt' = [createdAt EXCEPT ![v] = 0]
      BY <2>2, <3>2 DEF DrawByHand
    <3> QED
      BY <2>2, <3>1, <3>3 DEF DrawByHand
  <2> QED
    BY <2>1, <2>2
<1>2. UNCHANGED <<now, since, until, mu, cache, cacheUntil, snap, pc, todo, metas, began,
                  skipped, asked>>
  BY DEF Draw, DrawByHand, cached, reading
<1>3. /\ IsFiniteSet(drawn) /\ Cardinality(drawn) \in Nat
      /\ IsFiniteSet(drawn') /\ Cardinality(drawn') = Cardinality(drawn) + 1
  BY <1>1, FS_AddElement, FS_CardinalityType DEF ResolverInv, Ranked
<1>4. since[v] = Never /\ createdAt[v] = 0
  BY <1>1 DEF ResolverInv, Ranked
<1>5. TypeOK'
  BY <1>1, <1>2, <1>3 DEF ResolverInv, TypeOK
<1>6. Ranked'
  <2>1. \A w \in VM : createdAt[w] \in Nat /\ createdAt[w] \leq Cardinality(drawn)
    BY Moments DEF ResolverInv, Ranked
  <2>2. \A w \in VM : createdAt'[w] = IF w = v THEN rank ELSE createdAt[w]
    BY <1>1 DEF ResolverInv, TypeOK
  <2>3. \A w \in VM : createdAt'[w] \leq Cardinality(drawn')
    BY <1>1, <1>3, <2>1, <2>2
  <2>4. \A w \in VM : w \notin drawn' => createdAt'[w] = 0 /\ since'[w] = Never
    BY <1>1, <1>2, <2>2 DEF ResolverInv, Ranked
  <2> QED
    BY <1>3, <2>3, <2>4 DEF Ranked
<1>7. TagsNameOlder'
  <2> SUFFICES ASSUME NEW a \in VM, NEW b \in VM, a \in tags'[b], createdAt'[b] # 0
               PROVE  a \in drawn' /\ createdAt'[a] < createdAt'[b]
    BY DEF TagsNameOlder
  <2>1. \A w \in VM : createdAt'[w] = IF w = v THEN rank ELSE createdAt[w]
    BY <1>1 DEF ResolverInv, TypeOK
  <2>2. \A w \in VM : tags'[w] = IF w = v THEN {l} ELSE tags[w]
    BY <1>1 DEF ResolverInv, TypeOK
  <2>3. CASE b = v
    <3>1. a = l /\ rank = 1 + Cardinality(drawn) /\ present(a)
      BY <1>1, <2>1, <2>2, <2>3
    <3>2. a \in drawn
      BY <3>1 DEF present, ResolverInv, Ranked
    <3>3. createdAt[a] \in Nat /\ createdAt[a] \leq Cardinality(drawn)
      BY Moments DEF ResolverInv, Ranked
    <3> QED
      BY <1>1, <1>3, <2>1, <2>3, <3>1, <3>2, <3>3
  <2>4. CASE b # v
    <3>1. a \in drawn /\ createdAt[a] < createdAt[b]
      BY <2>1, <2>2, <2>4 DEF ResolverInv, TagsNameOlder
    <3> QED
      BY <1>1, <2>1, <2>4, <3>1
  <2> QED
    BY <2>3, <2>4
<1>8. RefreshOwnsLock' /\ Clock' /\ ReadingInv' /\ AnswerInv'
  BY <1>2 DEF ResolverInv, RefreshOwnsLock, Clock, ReadingInv, AnswerInv
<1>9. CacheInv'
  <2>1. \A w \in VM \ {v} : createdAt'[w] = createdAt[w]
    BY <1>1 DEF ResolverInv, TypeOK
  <2>2. ~(since[v] < snap.from)
    BY <1>4, Moments DEF ResolverInv, Clock
  <2> QED
    BY <1>2, <2>1, <2>2 DEF ResolverInv, CacheInv
<1> QED
  BY <1>5, <1>6, <1>7, <1>8, <1>9 DEF ResolverInv

\* A file that appears is newer than every refresh that has begun.
LEMMA SaveKeeps ==
    ASSUME ResolverInv, NEW v \in VM, Save(v)
    PROVE  ResolverInv'
<1>1. /\ v \in drawn /\ since[v] = Never /\ since' = [since EXCEPT ![v] = now]
      /\ UNCHANGED <<now, createdAt, tags, until, drawn, mu, cache, cacheUntil, snap, pc,
                     todo, metas, began, skipped, asked>>
  BY DEF Save, cached, reading
<1>2. TypeOK'
  <2>1. now \in Time
    BY Moments DEF ResolverInv, Time
  <2> QED
    BY <1>1, <2>1 DEF ResolverInv, TypeOK
<1>3. \A w \in VM : since'[w] = IF w = v THEN now ELSE since[w]
  BY <1>1 DEF ResolverInv, TypeOK
<1>4. Clock' /\ Ranked'
  BY <1>1, <1>3, Moments DEF ResolverInv, Clock, Ranked
<1>5. RefreshOwnsLock' /\ TagsNameOlder' /\ AnswerInv'
  BY <1>1 DEF ResolverInv, RefreshOwnsLock, TagsNameOlder, AnswerInv
<1>6. ~(now < began) /\ ~(now < snap.from) /\ now # Never
  BY Moments DEF ResolverInv, Clock
<1>7. ReadingInv'
  <2>1. todo \subseteq VM /\ metas \subseteq VM
    BY DEF ResolverInv, TypeOK
  <2> QED
    BY <1>1, <1>3, <1>6, <2>1 DEF ResolverInv, ReadingInv
<1>8. CacheInv'
  <2>1. \A k \in DOMAIN cache : cache[k] \in VM
    BY DEF ResolverInv, TypeOK
  <2> QED
    BY <1>1, <1>3, <1>6, <2>1 DEF ResolverInv, CacheInv
<1> QED
  BY <1>2, <1>4, <1>5, <1>7, <1>8 DEF ResolverInv

\* A file that disappears was there until now.
LEMMA RemoveKeeps ==
    ASSUME ResolverInv, NEW v \in VM, Remove(v)
    PROVE  ResolverInv'
<1>1. /\ until[v] = Never /\ until' = [until EXCEPT ![v] = now]
      /\ UNCHANGED <<now, createdAt, tags, since, drawn, mu, cache, cacheUntil, snap, pc,
                     todo, metas, began, skipped, asked>>
  BY DEF Remove, present, cached, reading
<1>2. TypeOK'
  <2>1. now \in Time
    BY Moments DEF ResolverInv, Time
  <2> QED
    BY <1>1, <2>1 DEF ResolverInv, TypeOK
<1>3. \A w \in VM : until'[w] = IF w = v THEN now ELSE until[w]
  BY <1>1 DEF ResolverInv, TypeOK
<1>4. Clock' /\ Ranked'
  BY <1>1, <1>3, Moments DEF ResolverInv, Clock, Ranked
<1>5. RefreshOwnsLock' /\ TagsNameOlder' /\ AnswerInv'
  BY <1>1 DEF ResolverInv, RefreshOwnsLock, TagsNameOlder, AnswerInv
<1>6. now \geq began /\ now \geq snap.from /\ now # Never /\ Never > snap.to
  BY Moments DEF ResolverInv, Clock
<1>7. ReadingInv'
  <2>1. todo \subseteq VM /\ metas \subseteq VM
    BY DEF ResolverInv, TypeOK
  <2> QED
    BY <1>1, <1>3, <1>6, <2>1 DEF ResolverInv, ReadingInv
<1>8. CacheInv'
  <2>1. \A k \in DOMAIN cache : cache[k] \in VM
    BY DEF ResolverInv, TypeOK
  <2> QED
    BY <1>1, <1>3, <1>6, <2>1 DEF ResolverInv, CacheInv
<1> QED
  BY <1>2, <1>4, <1>5, <1>7, <1>8 DEF ResolverInv

\* A request that takes, keeps or releases no lock: it is made, it finds the
\* cache valid or not, or it is answered.
LEMMA MoveKeeps ==
    ASSUME ResolverInv, NEW r \in Request,
           Resolve(r) \/ CheckHit(r) \/ CheckMiss(r) \/ LockHit(r) \/ Lookup(r)
    PROVE  ResolverInv'
<1>1. /\ UNCHANGED <<now, createdAt, tags, since, until, drawn, mu, cache, cacheUntil, snap,
                     todo, metas, began, skipped>>
      /\ pc[r] \in {"idle", "check", "lock", "lookup"}
  BY DEF Resolve, CheckHit, CheckMiss, LockHit, Lookup, store, cached, reading
<1>2. PICK step \in {"idle", "check", "lock", "lookup"} :
          /\ pc' = [pc EXCEPT ![r] = step]
          /\ step = "lookup" => cacheValid
  BY DEF Resolve, CheckHit, CheckMiss, LockHit, Lookup, Return, Goto
<1>3. PICK t \in {0, now, asked[r]} : asked' = [asked EXCEPT ![r] = t]
  BY DEF Resolve, CheckHit, CheckMiss, LockHit, Lookup, Return, ResolverInv, TypeOK
<1>4. step = "lookup" => asked' = asked
  BY <1>2 DEF Resolve, CheckHit, CheckMiss, LockHit, Lookup, Return, Goto, ResolverInv, TypeOK
<1>5. t \in Time /\ t \leq now
  BY <1>3, Moments, TTLAssumption DEF ResolverInv, TypeOK, Clock, Time
<1>6. TypeOK'
  BY <1>1, <1>2, <1>3, <1>5 DEF ResolverInv, TypeOK
<1>7. \A q \in Request : /\ pc'[q] = IF q = r THEN step ELSE pc[q]
                         /\ asked'[q] = IF q = r THEN t ELSE asked[q]
  BY <1>2, <1>3 DEF ResolverInv, TypeOK
<1>8. RefreshOwnsLock' /\ ReadingInv'
  BY <1>1, <1>7 DEF ResolverInv, RefreshOwnsLock, ReadingInv
<1>9. Clock' /\ Ranked' /\ TagsNameOlder' /\ CacheInv'
  BY <1>1, <1>5, <1>7 DEF ResolverInv, Clock, Ranked, TagsNameOlder, CacheInv
<1>10. AnswerInv'
  <2>1. ASSUME step = "lookup" PROVE asked'[r] < snap.to + TTL /\ DOMAIN cache # {}
    <3>1. now < cacheUntil /\ DOMAIN cache # {} /\ asked'[r] = asked[r]
      BY <1>2, <1>4, <2>1 DEF cacheValid
    <3>2. cacheUntil = snap.to + TTL /\ asked[r] \leq now
      BY <3>1 DEF ResolverInv, CacheInv, Clock
    <3> QED
      BY <3>1, <3>2, Moments DEF ResolverInv
  <2> QED
    BY <1>1, <1>7, <2>1 DEF ResolverInv, AnswerInv
<1> QED
  BY <1>6, <1>8, <1>9, <1>10 DEF ResolverInv

\* The write lock is taken when nobody has it and given back with the error.
LEMMA LockKeeps ==
    ASSUME ResolverInv, NEW r \in Request, LockMiss(r) \/ ReadDirFails(r)
    PROVE  ResolverInv'
<1>1. /\ UNCHANGED <<now, createdAt, tags, since, until, drawn, cache, cacheUntil, snap,
                     todo, metas, began, skipped>>
      /\ \/ /\ pc[r] = "lock" /\ mu = None /\ mu' = r /\ asked' = asked
            /\ pc' = [pc EXCEPT ![r] = "readdir"]
         \/ /\ pc[r] = "readdir" /\ mu' = None /\ asked' = [asked EXCEPT ![r] = 0]
            /\ pc' = [pc EXCEPT ![r] = "idle"]
  BY DEF LockMiss, ReadDirFails, Return, Goto, store, cached, reading
<1>2. 0 \in Time
  BY TTLAssumption DEF Time, Never
<1>3. TypeOK'
  <2>1. /\ asked' \in [Request -> Time] /\ mu' \in Request \cup {None}
        /\ pc' \in [Request -> {"idle", "check", "lock", "readdir", "read", "lookup"}]
    BY <1>1, <1>2 DEF ResolverInv, TypeOK
  <2> QED
    BY <1>1, <2>1 DEF ResolverInv, TypeOK
<1>4. \A q \in Request : /\ pc'[q] = pc[q] \/ (q = r /\ pc'[q] \in {"idle", "readdir"})
                         /\ asked'[q] = asked[q] \/ asked'[q] = 0
                         /\ q # r => pc'[q] = pc[q] /\ asked'[q] = asked[q]
  BY <1>1 DEF ResolverInv, TypeOK
<1>5. RefreshOwnsLock'
  BY <1>1, <1>4, NoneAssumption DEF ResolverInv, TypeOK, RefreshOwnsLock
<1>6. Clock' /\ Ranked' /\ TagsNameOlder' /\ CacheInv'
  BY <1>1, <1>4, Moments DEF ResolverInv, Clock, Ranked, TagsNameOlder, CacheInv
<1>7. ReadingInv' /\ AnswerInv'
  BY <1>1, <1>4 DEF ResolverInv, ReadingInv, AnswerInv
<1> QED
  BY <1>3, <1>5, <1>6, <1>7 DEF ResolverInv

\* Whoever reads holds the lock, so nobody else does.
LEMMA OneReads ==
    ASSUME ResolverInv, NEW r \in Request, pc[r] \in {"readdir", "read"},
           NEW q \in Request, q # r
    PROVE  pc[q] \notin {"readdir", "read"}
BY DEF ResolverInv, RefreshOwnsLock

\* The listing holds every file there is, and none that is gone.
LEMMA ReadDirKeeps ==
    ASSUME ResolverInv, NEW r \in Request, ReadDir(r)
    PROVE  ResolverInv'
<1>1. /\ UNCHANGED <<now, createdAt, tags, since, until, drawn, mu, cache, cacheUntil, snap,
                     asked>>
      /\ pc[r] = "readdir" /\ pc' = [pc EXCEPT ![r] = "read"]
      /\ todo' = {v \in drawn : until[v] = Never} /\ metas' = {} /\ began' = now /\ skipped' = {}
  BY DEF ReadDir, Goto, store, cached
<1>2. now \in Time
  BY Moments DEF ResolverInv, Time
<1>3. TypeOK'
  BY <1>1, <1>2 DEF ResolverInv, TypeOK
<1>4. \A q \in Request : pc'[q] = IF q = r THEN "read" ELSE pc[q]
  BY <1>1 DEF ResolverInv, TypeOK
<1>5. RefreshOwnsLock'
  BY <1>1, <1>4 DEF ResolverInv, RefreshOwnsLock
<1>6. Clock' /\ Ranked' /\ TagsNameOlder' /\ CacheInv' /\ AnswerInv'
  BY <1>1, <1>4, Moments DEF ResolverInv, Clock, Ranked, TagsNameOlder, CacheInv, AnswerInv
<1>7. ReadingInv'
  <2>1. \A v \in todo' : until[v] \geq now
    BY <1>1, <1>3, Moments DEF ResolverInv, TypeOK
  <2>2. \A v \in VM : since[v] < now /\ until[v] = Never => v \in todo'
    BY <1>1, Moments DEF ResolverInv, Ranked
  <2> QED
    BY <1>1, <2>1, <2>2 DEF ReadingInv
<1> QED
  BY <1>3, <1>5, <1>6, <1>7 DEF ResolverInv

\* A file leaves the list into what was read or what was skipped, unless it is
\* gone.
LEMMA ReadFileKeeps ==
    ASSUME ResolverInv, NEW r \in Request, ReadFile(r) \/ ReadFileFails(r)
    PROVE  ResolverInv'
<1>1. /\ UNCHANGED <<now, createdAt, tags, since, until, drawn, mu, cache, cacheUntil, snap,
                     pc, began, asked>>
      /\ pc[r] = "read"
  BY DEF ReadFile, ReadFileFails, store, cached
<1>2. todo \subseteq VM /\ metas \subseteq VM /\ skipped \subseteq VM
  BY DEF ResolverInv, TypeOK
<1>3. PICK v \in todo :
          /\ todo' = todo \ {v}
          /\ \/ metas' = metas \cup {v} /\ skipped' = skipped
             \/ metas' = metas /\ skipped' = skipped /\ ~present(v)
             \/ metas' = metas /\ skipped' = skipped \cup {v}
          /\ v \in metas' => v \in metas \/ present(v)
  BY DEF ReadFile, ReadFileFails
<1>4. TypeOK'
  BY <1>1, <1>2, <1>3 DEF ResolverInv, TypeOK
<1>5. RefreshOwnsLock' /\ Clock' /\ Ranked' /\ TagsNameOlder' /\ CacheInv' /\ AnswerInv'
  BY <1>1 DEF ResolverInv, RefreshOwnsLock, Clock, Ranked, TagsNameOlder, CacheInv, AnswerInv
<1>6. ReadingInv'
  <2>1. /\ \A w \in todo \cup metas : until[w] \geq began
        /\ \A w \in metas : since[w] # Never
        /\ \A w \in VM : since[w] < began /\ until[w] = Never =>
                             w \in todo \cup metas \cup skipped
    BY <1>1 DEF ResolverInv, ReadingInv
  <2>2. \A w \in todo' \cup metas' : until[w] \geq began
    BY <1>3, <2>1
  <2>3. \A w \in metas' : since[w] # Never
    BY <1>3, <2>1 DEF present
  <2>4. ASSUME NEW w \in VM, since[w] < began, until[w] = Never
        PROVE  w \in todo' \cup metas' \cup skipped'
    <3>1. since[w] # Never
      BY <2>4, Moments DEF ResolverInv, Clock
    <3> QED
      BY <1>3, <2>1, <2>4, <3>1 DEF present
  <2> QED
    BY <1>1, <2>2, <2>3, <2>4 DEF ReadingInv
<1> QED
  BY <1>4, <1>5, <1>6 DEF ResolverInv

\* The new cache is what was read, from the listing until now.
LEMMA RefreshKeeps ==
    ASSUME ResolverInv, NEW r \in Request, Refresh(r)
    PROVE  ResolverInv'
<1>1. /\ UNCHANGED <<now, createdAt, tags, since, until, drawn, todo, asked>>
      /\ pc[r] = "read" /\ pc' = [pc EXCEPT ![r] = "lookup"]
      /\ todo = {} /\ mu' = None
      /\ cache' = aliasMap(metas) /\ cacheUntil' = now + TTL
      /\ metas' = {} /\ skipped' = {} /\ began' = 0
  BY DEF Refresh, Goto, store
<1>2. /\ snap' = [from |-> began, to |-> now, skipped |-> skipped]
      /\ snap'.from = began /\ snap'.to = now /\ snap'.skipped = skipped
  BY DEF Refresh
<1>3. metas \in SUBSET VM
  BY DEF ResolverInv, TypeOK
<1>4. \A q \in Request : pc'[q] = IF q = r THEN "lookup" ELSE pc[q]
  BY <1>1 DEF ResolverInv, TypeOK
<1>5. TypeOK'
  <2>1. DOMAIN cache' \subseteq Label /\ \A l \in DOMAIN cache' : cache'[l] \in VM
    BY <1>1, <1>3, AliasMapIsSound DEF ResolverInv
  <2>2. cacheUntil' \in 0..(MaxTime + TTL)
    BY <1>1, TTLAssumption DEF ResolverInv, TypeOK
  <2>3. now \in Time /\ began \in Time /\ 0 \in Time
    BY TTLAssumption DEF ResolverInv, TypeOK, Time, Never
  <2> QED
    BY <1>1, <1>2, <2>1, <2>2, <2>3 DEF ResolverInv, TypeOK
<1>6. RefreshOwnsLock'
  BY <1>1, <1>4, OneReads, NoneAssumption DEF RefreshOwnsLock
<1>7. Clock' /\ Ranked' /\ TagsNameOlder'
  BY <1>1, <1>2, Moments DEF ResolverInv, Clock, Ranked, TagsNameOlder
<1>8. ReadingInv'
  BY <1>4, OneReads, <1>1 DEF ReadingInv
<1>9. CacheInv'
  <2>1. /\ \A w \in metas : since[w] # Never /\ until[w] \geq began
        /\ \A w \in VM : since[w] < began /\ until[w] = Never =>
                             w \in metas \cup skipped
    BY <1>1 DEF ResolverInv, ReadingInv
  <2>2. \A l \in DOMAIN cache' : since'[cache'[l]] # Never /\ until'[cache'[l]] \geq began
    BY <1>1, <1>3, <2>1, AliasMapIsSound DEF ResolverInv
  <2>3. ASSUME NEW v \in VM, since[v] < began, until[v] > now, v \notin skipped
        PROVE  v \in DOMAIN cache' /\ (createdAt[v] # 0 => cache'[v] = v)
    <3>1. until[v] = Never
      BY <2>3, Moments DEF ResolverInv, Clock
    <3>2. v \in metas
      BY <2>1, <2>3, <3>1
    <3> QED
      BY <1>1, <1>3, <3>2, IdBelongs DEF ResolverInv
  <2> QED
    BY <1>1, <1>2, <2>2, <2>3 DEF CacheInv
<1>10. AnswerInv'
  BY <1>1, <1>2, Moments DEF ResolverInv, Clock, AnswerInv
<1> QED
  BY <1>5, <1>6, <1>7, <1>8, <1>9, <1>10 DEF ResolverInv

LEMMA ResolverNext == ResolverInv /\ [Next]_vars => ResolverInv'
<1> SUFFICES ASSUME ResolverInv, [Next]_vars PROVE ResolverInv'
  OBVIOUS
<1>1. CASE UNCHANGED vars
  BY <1>1 DEF vars, store, cached, reading, ResolverInv, TypeOK, RefreshOwnsLock, Clock, Ranked,
     TagsNameOlder, ReadingInv, CacheInv, AnswerInv
<1>2. CASE Environment
  BY <1>2, TickKeeps, DrawKeeps, SaveKeeps, RemoveKeeps DEF Environment
<1>3. CASE \E r \in Request : Resolve(r) \/ RequestStep(r)
  BY <1>3, MoveKeeps, LockKeeps, ReadDirKeeps, ReadFileKeeps, RefreshKeeps DEF RequestStep
<1> QED
  BY <1>1, <1>2, <1>3 DEF Next

-----------------------------------------------------------------------------
(* The theorems *)

LEMMA ResolverAlways == Spec => []ResolverInv
BY ResolverInit, ResolverNext, PTL DEF Spec

\* The state of the resolver has its type: the map holds VMs only, under labels.
THEOREM TypeCorrect == Spec => []TypeOK
<1>1. ResolverInv => TypeOK
  BY DEF ResolverInv
<1> QED
  BY <1>1, ResolverAlways, PTL

\* The write lock is held exactly while a request reads the files, also after
\* an error.
THEOREM RefreshOwnsLockHolds == Spec => []RefreshOwnsLock
<1>1. ResolverInv => RefreshOwnsLock
  BY DEF ResolverInv
<1> QED
  BY <1>1, ResolverAlways, PTL

\* A VM removed cacheTTL and the time of a refresh before a request is never the
\* answer to it.
THEOREM RemovedIsForgottenHolds == Spec => []RemovedIsForgotten
<1>1. ResolverInv => RemovedIsForgotten
  <2> SUFFICES ASSUME ResolverInv, NEW r \in Answering, NEW l \in DOMAIN cache
               PROVE  asked[r] < until[cache[l]] + TTL + span
    BY DEF RemovedIsForgotten
  <2>1. asked[r] < snap.to + TTL /\ asked[r] \in Nat
    BY Moments DEF Answering, ResolverInv, AnswerInv
  <2>2. until[cache[l]] \geq snap.from /\ until[cache[l]] \in Nat
    BY Moments DEF ResolverInv, CacheInv, TypeOK
  <2> QED
    BY <2>1, <2>2, Moments DEF ResolverInv, span
<1> QED
  BY <1>1, ResolverAlways, PTL

\* A VM saved cacheTTL and the time of a refresh before a request for its id is
\* found, unless its file could not be read.
THEOREM SavedIsFoundHolds == Spec => []SavedIsFound
<1>1. ResolverInv => SavedIsFound
  <2> SUFFICES ASSUME ResolverInv, NEW r \in Answering, NEW v \in VM, present(v),
                      v \notin DOMAIN cache, v \notin snap.skipped
               PROVE  asked[r] < since[v] + TTL + span
    BY DEF SavedIsFound
  <2>1. asked[r] < snap.to + TTL /\ asked[r] \in Nat
    BY Moments DEF Answering, ResolverInv, AnswerInv
  <2>2. until[v] > snap.to
    BY Moments DEF present, ResolverInv, Clock
  <2>3. ~(since[v] < snap.from)
    BY <2>2 DEF ResolverInv, CacheInv
  <2> QED
    BY <2>1, <2>3, Moments DEF ResolverInv, span
<1> QED
  BY <1>1, ResolverAlways, PTL

\* An empty cache answers only a request made before it was built.
THEOREM EmptyIsNotRememberedHolds == Spec => []EmptyIsNotRemembered
<1>1. ResolverInv => EmptyIsNotRemembered
  BY Moments DEF ResolverInv, AnswerInv, EmptyIsNotRemembered, Answering
<1> QED
  BY <1>1, ResolverAlways, PTL

\* No tag diverts the traffic of a VM that mergend created.
THEOREM IdIsNotTakenOverHolds == Spec => []IdIsNotTakenOver
<1>1. ResolverInv => IdIsNotTakenOver
  BY DEF ResolverInv, CacheInv, IdIsNotTakenOver
<1> QED
  BY <1>1, ResolverAlways, PTL
=============================================================================

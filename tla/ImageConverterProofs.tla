------------------------ MODULE ImageConverterProofs ------------------------
(***************************************************************************)
(* Theorems about the converter, for every registry, every set of images   *)
(* and any number of runs in one output directory, each of which may end   *)
(* after any step.                                                         *)
(***************************************************************************)
EXTENDS ImageConverter, SequenceTheorems, WellFoundedInduction, TLAPS

Pulling == {"open", "resolve", "manifest.json", "config.json", "layer"}

Finishing == {"image-meta.json", "rootfs.tar", "truncate", "rootfs.ext4",
              "suggested-vm-request.json", "done"}

Making == {"apply", "inject", "rootmeta"} \cup Finishing

Usable == {m \in ImageManifest : usable(m)}

\* What the files of the cache may hold.
CacheTyped ==
    /\ DOMAIN disk = File
    /\ \A l \in Layer : disk[l] \in {None, Junk, l}
    /\ disk["manifest.json"] \in Usable \cup {None, Junk}
    /\ disk["config.json"] \in Config \cup {None, Junk}
    /\ cached \in Usable \cup {None}

RunTyped ==
    /\ pc \in Step \cup {"idle"}
    /\ pc # "idle" => image \in Image
    /\ pc = "read" => skipPull
    /\ pc = "resolve" => ref \in DOMAIN Remote
    /\ pc \in {"manifest.json", "config.json", "layer"} \cup Making => pulled \in Usable

\* A pull fills a cache that it has emptied, in order; the run goes on with
\* what the cache holds, which it has verified itself unless it skipped the pull.
PullInv ==
    /\ pc \in {"open", "resolve", "manifest.json"} => disk["manifest.json"] = None
    /\ pc \in {"open", "resolve", "manifest.json", "config.json"} => disk["config.json"] = None
    /\ pc \in Pulling => cached = None
    /\ pc \in {"config.json", "layer"} \cup Making => disk["manifest.json"] = pulled
    /\ pc \in {"layer"} \cup Making => disk["config.json"] = pulled.config
    /\ pc = "layer" => /\ idx \in Nat \ {0}
                       /\ \A i \in 1..Len(pulled.layers) :
                              i < idx => disk[pulled.layers[i]] = pulled.layers[i]
    /\ pc \in Making => /\ skipPull \/ cached = pulled
                        /\ \A i \in 1..Len(pulled.layers) : disk[pulled.layers[i]] # None

\* The root file system holds the first n layers of the manifest in use as the
\* cache has them.
RootfsHas(n, init, meta) ==
    LET fs == disk["rootfs"]
    IN  /\ fs = [layers |-> fs.layers, init |-> init, meta |-> meta]
        /\ fs.layers \in Seq(Layer \cup {None, Junk})
        /\ Len(fs.layers) = n
        /\ \A i \in 1..n : fs.layers[i] = disk[pulled.layers[i]]

\* Every output is made from this run's root file system and image.
MadeInv ==
    /\ pc \in {"read", "purge"} \cup Pulling => disk["rootfs"] = emptyRootfs
    /\ pc = "apply" => /\ idx \in 1..(Len(pulled.layers) + 1)
                       /\ RootfsHas(idx - 1, FALSE, None)
    /\ pc = "inject" => RootfsHas(Len(pulled.layers), FALSE, None)
    /\ pc = "rootmeta" => RootfsHas(Len(pulled.layers), TRUE, None)
    /\ pc \in Finishing => RootfsHas(Len(pulled.layers), TRUE, imageMeta)
    /\ pc \in Finishing \ {"image-meta.json"} => disk["image-meta.json"] = imageMeta
    /\ pc \in Finishing \ {"image-meta.json", "rootfs.tar"} =>
           disk["rootfs.tar"] \in {disk["rootfs"], Junk}
    /\ pc \in {"suggested-vm-request.json", "done"} => disk["rootfs.ext4"] = disk["rootfs"]
    /\ pc = "done" => disk["suggested-vm-request.json"] = suggestedVMRequest

ConverterInv == CacheTyped /\ RunTyped /\ CacheIsSound /\ PullInv /\ MadeInv

-----------------------------------------------------------------------------
(* Constants *)

LEMMA MinOfNaturals ==
    ASSUME NEW S, S \subseteq Nat, S # {}
    PROVE  Min(S) \in S /\ \A n \in S : Min(S) <= n
<1> DEFINE less == {ss \in Nat \X Nat : ss[1] < ss[2]}
<1>1. IsWellFoundedOn(less, Nat)
  BY NatLessThanWellFounded DEF OpToRel
<1> HIDE DEF less
<1>2. PICK x \in S : \A y \in S : <<y, x>> \notin less
  BY <1>1, WFMin
<1>3. \A m, n \in Nat : m < n => <<m, n>> \in less
  BY Zenon DEF less
<1>4. \A y \in S : ~(y < x)
  BY <1>2, <1>3
<1>5. \A y \in S : x <= y
  BY <1>4
<1> QED
  BY <1>5 DEF Min

\* The blobs, the other files and the steps have different names.
LEMMA Names ==
    /\ Layer \subseteq CacheFile /\ CacheFile \subseteq File
    /\ {"rootfs", "rootfs.tar", "rootfs.ext4", "image-meta.json",
        "suggested-vm-request.json"} \subseteq File \ CacheFile
    /\ \A l \in Layer : l \notin Step /\ l # "rootfs"
    /\ \A l \in Layer : l # "manifest.json" /\ l # "config.json"
    /\ None # Junk /\ None \notin Config /\ Junk \notin Config
BY NamesAssumption DEF CacheFile, File, Step

\* The entry that is chosen is one of the list's.
LEMMA SelectedIsListed ==
    ASSUME NEW m \in ManifestList
    PROVE  selectManifestDescriptor(m.entries).digest \in DOMAIN Remote
<1> DEFINE E == [platform : Platform, digest : DOMAIN Remote]
           es == m.entries
           target == {i \in DOMAIN es : es[i].platform = "target"}
           none == {i \in DOMAIN es : es[i].platform = "none"}
           among == CASE target # {} -> target
                      [] target = {} /\ none # {} -> none
                      [] OTHER -> DOMAIN es
<1>1. es \in Seq(E) /\ es # << >>
  BY DEF ManifestList
<1> HIDE DEF es, E
<1>2. DOMAIN es = 1..Len(es) /\ DOMAIN es # {}
  BY <1>1, EmptySeq, LenProperties
<1>3. among \subseteq DOMAIN es /\ among # {}
  BY <1>2
<1>4. among \subseteq Nat
  BY <1>2, <1>3
<1>5. Min(among) \in DOMAIN es
  BY <1>3, <1>4, MinOfNaturals
<1>6. selectManifestDescriptor(es) = es[Min(among)]
  BY DEF selectManifestDescriptor
<1> HIDE DEF among
<1>7. es[Min(among)] \in E
  BY <1>1, <1>5, ElementOfSeq
<1> QED
  BY <1>6, <1>7 DEF es, E

\* What the registry serves is a list or not, and names layers.
LEMMA Kinds ==
    /\ \A m \in ImageManifest : ~isList(m)
    /\ \A m \in ManifestList : isList(m)
    /\ \A m \in Usable : /\ m.config \in Config
                         /\ m.layers \in Seq(Layer)
                         /\ ToSet(m.layers) \subseteq Layer
                         /\ m # None /\ m # Junk
<1>1. \A m \in ImageManifest : ~isList(m)
  BY DEF ImageManifest, isList
<1>2. \A m \in ManifestList : isList(m)
  BY DEF ManifestList, isList
<1>3. ASSUME NEW m \in Usable
      PROVE  /\ m.config \in Config /\ m.layers \in Seq(Layer)
             /\ ToSet(m.layers) \subseteq Layer /\ m # None /\ m # Junk
  <2>1. m.config \in Config /\ m.layers \in Seq(Layer) /\ m # None /\ m # Junk
    BY DEF Usable, ImageManifest, usable
  <2>2. \A i \in DOMAIN m.layers : m.layers[i] \in Layer
    BY <2>1
  <2> QED
    BY <2>1, <2>2 DEF ToSet
<1> QED
  BY <1>1, <1>2, <1>3

-----------------------------------------------------------------------------
(* What steps have in common *)

LEMMA ConverterInit == Init => ConverterInv
<1> SUFFICES ASSUME Init PROVE ConverterInv
  OBVIOUS
<1>1. \A f \in File : disk[f] = None
  BY DEF Init
<1>2. CacheTyped
  BY <1>1, Names DEF Init, CacheTyped, CacheFile
<1>3. RunTyped /\ PullInv /\ MadeInv
  BY DEF Init, RunTyped, PullInv, MadeInv, Pulling, Making, Finishing
<1>4. CacheIsSound
  BY <1>1, Names DEF Init, CacheIsSound, cacheIsOfOneImage, pullCanBeRepeated, usable, CacheFile
<1> QED
  BY <1>2, <1>3, <1>4 DEF ConverterInv

\* A step that leaves the cache alone.
CacheKept ==
    /\ DOMAIN disk' = File
    /\ \A f \in CacheFile : disk'[f] = disk[f]
    /\ cached' = cached

LEMMA CacheKeptIsSound ==
    ASSUME ConverterInv, CacheKept
    PROVE  CacheTyped' /\ CacheIsSound'
<1>1. /\ disk'["manifest.json"] = disk["manifest.json"]
      /\ disk'["config.json"] = disk["config.json"]
      /\ \A l \in Layer : disk'[l] = disk[l]
      /\ cached' = cached /\ DOMAIN disk' = File
  BY DEF CacheKept, CacheFile
<1>2. CacheTyped'
  BY <1>1 DEF ConverterInv, CacheTyped
<1>3. cacheIsOfOneImage'
  BY <1>1 DEF ConverterInv, CacheIsSound, cacheIsOfOneImage
<1>4. pullCanBeRepeated'
  <2>1. cached # None => ToSet(cached.layers) \subseteq Layer
    BY Kinds DEF ConverterInv, CacheTyped
  <2> QED
    BY <1>1, <2>1 DEF ConverterInv, CacheIsSound, pullCanBeRepeated
<1> QED
  BY <1>2, <1>3, <1>4 DEF CacheIsSound

\* Such a step of a run that has its manifest.
LEMMA MakingKeeps ==
    ASSUME ConverterInv, CacheKept, pc \in Making, pc' \in Making,
           UNCHANGED <<image, skipPull, pulled>>
    PROVE  RunTyped' /\ PullInv'
<1>2. pulled \in Usable /\ image \in Image
  BY DEF ConverterInv, RunTyped, Making, Finishing
<1>3. pc' \in Step /\ pc' \notin {"idle", "read", "resolve", "layer"} \cup Pulling
  BY DEF Making, Finishing, Step, Pulling
<1>4. RunTyped'
  BY <1>2, <1>3 DEF RunTyped, Making, Finishing, Pulling
<1>5. /\ disk'["manifest.json"] = pulled /\ disk'["config.json"] = pulled.config
      /\ skipPull \/ cached = pulled
  BY DEF ConverterInv, PullInv, CacheKept, CacheFile
<1>6. \A i \in 1..Len(pulled.layers) : disk'[pulled.layers[i]] # None
  <2>1. \A i \in 1..Len(pulled.layers) : pulled.layers[i] \in Layer
    BY <1>2, Kinds
  <2> QED
    BY <2>1 DEF ConverterInv, PullInv, CacheKept, CacheFile
<1>7. PullInv'
  BY <1>3, <1>5, <1>6 DEF PullInv, CacheKept, Pulling
<1> QED
  BY <1>4, <1>7

\* The layers in the root file system are still those of the cache.
LEMMA RootfsKept ==
    ASSUME ConverterInv, CacheKept, pc \in Making, pulled' = pulled,
           NEW n \in 0..Len(pulled.layers), NEW i, NEW m, RootfsHas(n, i, m),
           NEW j, NEW k,
           disk'["rootfs"] = [layers |-> disk["rootfs"].layers, init |-> j, meta |-> k]
    PROVE  RootfsHas(n, j, k)'
<1>1. pulled.layers \in Seq(Layer)
  BY Kinds DEF ConverterInv, RunTyped
<1>2. \A x \in 1..n : pulled.layers[x] \in Layer
  BY <1>1
<1>3. \A x \in 1..n : disk'[pulled'.layers[x]] = disk[pulled.layers[x]]
  BY <1>2 DEF CacheKept, CacheFile
<1>4. disk'["rootfs"].layers = disk["rootfs"].layers
  OBVIOUS
<1> QED
  BY <1>3, <1>4 DEF RootfsHas

\* A run that is over leaves nothing but the directory.
LEMMA ExitKeeps ==
    ASSUME CacheTyped', CacheIsSound', Exit
    PROVE  ConverterInv'
BY DEF Exit, ConverterInv, RunTyped, PullInv, MadeInv, Pulling, Making, Finishing

\* A step that writes one of the outputs.
LEMMA WriteOutput ==
    ASSUME ConverterInv, NEW f \in File \ CacheFile, NEW content, NEW next,
           Write(f, content, next)
    PROVE  /\ CacheKept /\ disk'[f] = content
           /\ \A g \in File : g # f => disk'[g] = disk[g]
           /\ pc' = next
           /\ UNCHANGED <<image, skipPull, ref, depth, pulled, cached>>
<1>1. DOMAIN disk = File
  BY DEF ConverterInv, CacheTyped
<1>2. /\ disk' = [disk EXCEPT ![f] = content] /\ pc' = next
      /\ UNCHANGED <<image, skipPull, ref, depth, pulled, cached>>
  BY DEF Write, options, resolving, history
<1>3. DOMAIN disk' = File /\ \A g \in File : disk'[g] = IF g = f THEN content ELSE disk[g]
  BY <1>1, <1>2
<1>4. CacheKept
  BY <1>2, <1>3, Names DEF CacheKept
<1> QED
  BY <1>2, <1>3, <1>4

-----------------------------------------------------------------------------
(* The steps *)

LEMMA StartKeeps == ConverterInv /\ Start => ConverterInv'
<1> SUFFICES ASSUME ConverterInv, Start PROVE ConverterInv'
  OBVIOUS
<1>1. /\ disk' = disk /\ cached' = cached /\ pc' = "clean" /\ image' \in Image
  BY DEF Start
<1>2. CacheKept
  BY <1>1 DEF CacheKept, ConverterInv, CacheTyped
<1>3. RunTyped' /\ PullInv' /\ MadeInv'
  BY <1>1 DEF RunTyped, PullInv, MadeInv, Pulling, Making, Finishing, Step
<1> QED
  BY <1>2, <1>3, CacheKeptIsSound DEF ConverterInv

LEMMA CleanKeeps == ConverterInv /\ CleanRootfs => ConverterInv'
<1> SUFFICES ASSUME ConverterInv, CleanRootfs PROVE ConverterInv'
  OBVIOUS
<1>1. /\ CacheKept /\ disk'["rootfs"] = emptyRootfs
      /\ pc = "clean" /\ pc' = IF skipPull THEN "read" ELSE "purge"
      /\ UNCHANGED <<image, skipPull, pulled>>
  BY WriteOutput, Names DEF CleanRootfs
<1>2. image \in Image
  BY <1>1 DEF ConverterInv, RunTyped
<1>3. RunTyped' /\ PullInv' /\ MadeInv'
  BY <1>1, <1>2 DEF RunTyped, PullInv, MadeInv, Pulling, Making, Finishing, Step
<1> QED
  BY <1>1, <1>3, CacheKeptIsSound DEF ConverterInv

\* -skip-pull: manifest and configuration belong together, so what is used is
\* what the cache holds.
LEMMA ReadCachedKeeps == ConverterInv /\ ReadCachedImage => ConverterInv'
<1> SUFFICES ASSUME ConverterInv, ReadCachedImage PROVE ConverterInv'
  OBVIOUS
<1> DEFINE m == disk["manifest.json"]
<1>1. /\ pc = "read" /\ usable(m) /\ disk["config.json"] \notin {None, Junk}
      /\ \A l \in ToSet(m.layers) : disk[l] # None
      /\ pulled' = [m EXCEPT !.config = disk["config.json"]]
      /\ idx' = 1 /\ pc' = "apply"
      /\ UNCHANGED <<disk, image, skipPull, cached>>
  BY DEF ReadCachedImage, options, history
<1>2. CacheKept
  BY <1>1 DEF CacheKept, ConverterInv, CacheTyped
<1>3. m \in Usable
  BY <1>1 DEF ConverterInv, CacheTyped, usable
<1>4. disk["config.json"] = m.config
  BY <1>1 DEF ConverterInv, CacheIsSound, cacheIsOfOneImage
<1>5. pulled' = m
  BY <1>1, <1>3, <1>4 DEF Usable, ImageManifest
<1>6. m.layers \in Seq(Layer)
  BY <1>3, Kinds
<1>7. RunTyped'
  BY <1>1, <1>3, <1>5 DEF ConverterInv, RunTyped, Making, Finishing, Step
<1>8. \A i \in 1..Len(m.layers) : disk[m.layers[i]] # None
  BY <1>1, <1>6 DEF ToSet
<1>9. skipPull
  BY <1>1 DEF ConverterInv, RunTyped
<1> HIDE DEF m
<1>10. PullInv'
  <2>1. disk'["manifest.json"] = pulled' /\ disk'["config.json"] = pulled'.config
    BY <1>1, <1>4, <1>5 DEF m
  <2>2. \A i \in 1..Len(pulled'.layers) : disk'[pulled'.layers[i]] # None
    BY <1>1, <1>5, <1>8
  <2> QED
    BY <1>1, <1>9, <2>1, <2>2 DEF PullInv, Pulling
<1>11. MadeInv'
  <2>1. disk["rootfs"] = emptyRootfs
    BY <1>1 DEF ConverterInv, MadeInv
  <2>2. emptyRootfs.layers \in Seq(Layer \cup {None, Junk}) /\ Len(emptyRootfs.layers) = 0
    BY EmptySeq DEF emptyRootfs
  <2>3. Len(m.layers) \in Nat
    BY <1>6
  <2>4. RootfsHas(0, FALSE, None)'
    BY <1>1, <2>1, <2>2 DEF RootfsHas, emptyRootfs
  <2>5. idx' \in 1..(Len(pulled'.layers) + 1) /\ idx' - 1 = 0
    BY <1>1, <1>5, <2>3
  <2> QED
    BY <1>1, <2>4, <2>5 DEF MadeInv, Pulling, Finishing
<1> QED
  BY <1>2, <1>7, <1>10, <1>11, CacheKeptIsSound DEF ConverterInv

LEMMA PurgeKeeps == ConverterInv /\ PurgeCache => ConverterInv'
<1> SUFFICES ASSUME ConverterInv, PurgeCache PROVE ConverterInv'
  OBVIOUS
<1>1. /\ pc = "purge" /\ pc' = "open" /\ cached' = None
      /\ disk' = [f \in File |-> IF f \in CacheFile THEN None ELSE disk[f]]
      /\ UNCHANGED <<image, skipPull, ref, depth, pulled, idx>>
  BY DEF PurgeCache, options, resolving
<1>2. /\ DOMAIN disk' = File /\ \A f \in CacheFile : disk'[f] = None
      /\ disk'["rootfs"] = disk["rootfs"]
      /\ disk'["manifest.json"] = None /\ disk'["config.json"] = None
  BY <1>1, Names DEF CacheFile
<1>3. CacheTyped'
  BY <1>1, <1>2, Names DEF CacheTyped
<1>4. CacheIsSound'
  BY <1>1, <1>2 DEF CacheIsSound, cacheIsOfOneImage, pullCanBeRepeated, usable
<1>5. RunTyped' /\ PullInv' /\ MadeInv'
  BY <1>1, <1>2 DEF ConverterInv, RunTyped, PullInv, MadeInv, Pulling, Making, Finishing, Step
<1> QED
  BY <1>3, <1>4, <1>5 DEF ConverterInv

\* The registry is asked; nothing is written.
LEMMA ResolveKeeps ==
    ConverterInv /\ (OpenImageSource \/ ResolveList \/ ResolveManifest) => ConverterInv'
<1> SUFFICES ASSUME ConverterInv, OpenImageSource \/ ResolveList \/ ResolveManifest
             PROVE  ConverterInv'
  OBVIOUS
<1>1. /\ pc \in {"open", "resolve"}
      /\ UNCHANGED <<disk, image, skipPull, cached>>
      /\ \/ pc' = "resolve"
         \/ pc' = "manifest.json" /\ pulled' = Remote[ref] /\ usable(Remote[ref]) /\ pc = "resolve"
  BY DEF OpenImageSource, ResolveList, ResolveManifest, options, history
<1>2. image \in Image
  BY <1>1 DEF ConverterInv, RunTyped
<1>3. pc' = "resolve" => ref' \in DOMAIN Remote
  <2>1. CASE OpenImageSource
    BY <1>2, <2>1, RemoteAssumption DEF OpenImageSource
  <2>2. CASE ResolveList
    <3>1. /\ ref \in DOMAIN Remote /\ isList(Remote[ref])
          /\ ref' = selectManifestDescriptor(Remote[ref].entries).digest
      BY <2>2 DEF ResolveList, ConverterInv, RunTyped
    <3>2. Remote[ref] \in ManifestList
      BY <3>1, RemoteAssumption, Kinds
    <3> QED
      BY <3>1, <3>2, SelectedIsListed
  <2>3. CASE ResolveManifest
    BY <2>3 DEF ResolveManifest
  <2> QED
    BY <2>1, <2>2, <2>3
<1>4. pc' = "manifest.json" => pulled' \in Usable
  <2>1. pc' = "manifest.json" => ref \in DOMAIN Remote /\ usable(Remote[ref])
    BY <1>1 DEF ConverterInv, RunTyped
  <2> QED
    BY <1>1, <2>1, RemoteAssumption, Kinds DEF Usable, usable
<1>5. CacheKept
  BY <1>1 DEF CacheKept, ConverterInv, CacheTyped
<1>6. RunTyped'
  BY <1>1, <1>2, <1>3, <1>4 DEF RunTyped, Making, Finishing, Step
<1>7. PullInv' /\ MadeInv'
  BY <1>1 DEF ConverterInv, PullInv, MadeInv, Pulling, Making, Finishing
<1> QED
  BY <1>5, <1>6, <1>7, CacheKeptIsSound DEF ConverterInv

\* The files of the cache are written in order, into the empty cache.
LEMMA WriteCache ==
    ASSUME ConverterInv, NEW f \in CacheFile, NEW content, NEW next,
           Write(f, content, next)
    PROVE  /\ DOMAIN disk' = File
           /\ \A g \in File : disk'[g] = IF g = f THEN content ELSE disk[g]
           /\ pc' = next
           /\ UNCHANGED <<image, skipPull, pulled, cached>>
<1>1. DOMAIN disk = File
  BY DEF ConverterInv, CacheTyped
<1>2. /\ disk' = [disk EXCEPT ![f] = content] /\ pc' = next
      /\ UNCHANGED <<image, skipPull, pulled, cached>>
  BY DEF Write, options, history
<1> QED
  BY <1>1, <1>2

LEMMA CacheManifestKeeps == ConverterInv /\ CacheManifest => ConverterInv'
<1> SUFFICES ASSUME ConverterInv, CacheManifest PROVE ConverterInv'
  OBVIOUS
<1>1. /\ pc = "manifest.json" /\ pc' = "config.json" /\ DOMAIN disk' = File
      /\ \A g \in File : disk'[g] = IF g = "manifest.json" THEN pulled ELSE disk[g]
      /\ UNCHANGED <<image, skipPull, pulled, cached>>
  BY WriteCache DEF CacheManifest, CacheFile
<1>2. /\ disk'["manifest.json"] = pulled /\ disk'["config.json"] = disk["config.json"]
      /\ disk'["rootfs"] = disk["rootfs"] /\ \A l \in Layer : disk'[l] = disk[l]
  BY <1>1, Names DEF CacheFile
<1>3. pulled \in Usable /\ image \in Image /\ disk["config.json"] = None /\ cached = None
  BY <1>1 DEF ConverterInv, RunTyped, PullInv, Pulling
<1>4. CacheTyped'
  BY <1>1, <1>2, <1>3 DEF ConverterInv, CacheTyped
<1>5. CacheIsSound'
  BY <1>1, <1>2, <1>3 DEF CacheIsSound, cacheIsOfOneImage, pullCanBeRepeated
<1>6. RunTyped' /\ PullInv' /\ MadeInv'
  BY <1>1, <1>2, <1>3 DEF ConverterInv, RunTyped, PullInv, MadeInv, Pulling, Making, Finishing,
     Step
<1> QED
  BY <1>4, <1>5, <1>6 DEF ConverterInv

LEMMA CacheConfigKeeps == ConverterInv /\ CacheConfig => ConverterInv'
<1> SUFFICES ASSUME ConverterInv, CacheConfig PROVE ConverterInv'
  OBVIOUS
<1>1. /\ pc = "config.json" /\ pc' = "layer" /\ DOMAIN disk' = File /\ idx' = 1
      /\ \A g \in File : disk'[g] = IF g = "config.json" THEN pulled.config ELSE disk[g]
      /\ UNCHANGED <<image, skipPull, pulled, cached>>
  BY WriteCache DEF CacheConfig, CacheFile
<1>2. /\ disk'["manifest.json"] = disk["manifest.json"] /\ disk'["config.json"] = pulled.config
      /\ disk'["rootfs"] = disk["rootfs"] /\ \A l \in Layer : disk'[l] = disk[l]
  BY <1>1, Names DEF CacheFile
<1>3. /\ pulled \in Usable /\ image \in Image /\ disk["manifest.json"] = pulled
      /\ cached = None
  BY <1>1 DEF ConverterInv, RunTyped, PullInv, Pulling
<1>4. CacheTyped'
  BY <1>1, <1>2, <1>3, Kinds DEF ConverterInv, CacheTyped
<1>5. CacheIsSound'
  BY <1>1, <1>2, <1>3 DEF CacheIsSound, cacheIsOfOneImage, pullCanBeRepeated
<1>6. RunTyped' /\ MadeInv'
  BY <1>1, <1>2, <1>3 DEF ConverterInv, RunTyped, MadeInv, Pulling, Making, Finishing, Step
<1>7. PullInv'
  <2>1. Len(pulled.layers) \in Nat
    BY <1>3, Kinds
  <2> QED
    BY <1>1, <1>2, <1>3, <2>1 DEF PullInv, Pulling, Making, Finishing
<1> QED
  BY <1>4, <1>5, <1>6, <1>7 DEF ConverterInv

\* A layer that was verified stays so when another, or itself again, is loaded.
LEMMA DownloadKeeps == ConverterInv /\ DownloadLayer => ConverterInv'
<1> SUFFICES ASSUME ConverterInv, DownloadLayer PROVE ConverterInv'
  OBVIOUS
<1>1. /\ pulled \in Usable /\ image \in Image /\ disk["manifest.json"] = pulled
      /\ disk["config.json"] = pulled.config /\ cached = None
      /\ idx \in Nat \ {0} /\ idx \leq Len(pulled.layers) /\ pc = "layer"
  BY DEF DownloadLayer, ConverterInv, RunTyped, PullInv, Pulling
<1>2. /\ Len(pulled.layers) \in Nat
      /\ \A i \in 1..Len(pulled.layers) : pulled.layers[i] \in Layer
  BY <1>1, Kinds
<1> DEFINE l == pulled.layers[idx]
<1>3. l \in Layer /\ l \in CacheFile
  BY <1>1, <1>2 DEF CacheFile
<1>4. /\ pc' = "layer" /\ DOMAIN disk' = File /\ idx' = idx + 1
      /\ \A g \in File : disk'[g] = IF g = l THEN l ELSE disk[g]
      /\ UNCHANGED <<image, skipPull, pulled, cached>>
  BY <1>3, WriteCache DEF DownloadLayer
<1>5. /\ disk'["manifest.json"] = pulled /\ disk'["config.json"] = pulled.config
      /\ disk'["rootfs"] = disk["rootfs"]
      /\ \A k \in Layer : disk'[k] = IF k = l THEN l ELSE disk[k]
  BY <1>1, <1>3, <1>4, Names DEF CacheFile
<1>6. CacheTyped'
  BY <1>1, <1>4, <1>5, Kinds DEF ConverterInv, CacheTyped
<1>7. CacheIsSound'
  BY <1>1, <1>4, <1>5 DEF CacheIsSound, cacheIsOfOneImage, pullCanBeRepeated
<1>8. RunTyped' /\ MadeInv'
  BY <1>1, <1>4, <1>5 DEF ConverterInv, RunTyped, MadeInv, Pulling, Making, Finishing, Step
<1>9. PullInv'
  <2>1. \A i \in 1..Len(pulled.layers) : i < idx => disk[pulled.layers[i]] = pulled.layers[i]
    BY <1>1 DEF ConverterInv, PullInv
  <2>2. ASSUME NEW i \in 1..Len(pulled.layers), i < idx + 1
        PROVE  disk'[pulled.layers[i]] = pulled.layers[i]
    <3>1. i < idx \/ i = idx
      BY <1>1, <1>2, <2>2
    <3> QED
      BY <1>2, <1>5, <2>1, <3>1
  <2> QED
    BY <1>1, <1>4, <1>5, <2>2 DEF PullInv, Pulling, Making, Finishing
<1> QED
  BY <1>6, <1>7, <1>8, <1>9 DEF ConverterInv

\* With the last layer the cache is complete.
LEMMA PulledKeeps == ConverterInv /\ Pulled => ConverterInv'
<1> SUFFICES ASSUME ConverterInv, Pulled PROVE ConverterInv'
  OBVIOUS
<1>1. /\ pc = "layer" /\ idx > Len(pulled.layers) /\ cached' = pulled
      /\ idx' = 1 /\ pc' = "apply" /\ UNCHANGED <<disk, image, skipPull, pulled>>
  BY DEF Pulled, options
<1>2. /\ pulled \in Usable /\ image \in Image /\ disk["manifest.json"] = pulled
      /\ disk["config.json"] = pulled.config /\ idx \in Nat
      /\ \A i \in 1..Len(pulled.layers) : i < idx => disk[pulled.layers[i]] = pulled.layers[i]
  BY <1>1 DEF ConverterInv, RunTyped, PullInv
<1>3. /\ pulled.layers \in Seq(Layer) /\ Len(pulled.layers) \in Nat
      /\ DOMAIN pulled.layers = 1..Len(pulled.layers)
      /\ \A i \in 1..Len(pulled.layers) : pulled.layers[i] \in Layer
  BY <1>2, Kinds
<1>4. \A i \in 1..Len(pulled.layers) : disk[pulled.layers[i]] = pulled.layers[i]
  BY <1>1, <1>2, <1>3
<1>5. CacheTyped'
  BY <1>1, <1>2 DEF ConverterInv, CacheTyped
<1>6. CacheIsSound'
  <2>1. \A l \in ToSet(pulled.layers) : disk[l] = l
    BY <1>3, <1>4 DEF ToSet
  <2> QED
    BY <1>1, <1>2, <2>1 DEF ConverterInv, CacheIsSound, cacheIsOfOneImage, pullCanBeRepeated
<1>7. RunTyped'
  BY <1>1, <1>2 DEF RunTyped, Making, Finishing, Step
<1>8. \A l \in Layer : l # None
  BY NamesAssumption
<1>9. PullInv'
  BY <1>1, <1>2, <1>3, <1>4, <1>8 DEF PullInv, Pulling
<1>10. MadeInv'
  <2>1. disk["rootfs"] = emptyRootfs
    BY <1>1 DEF ConverterInv, MadeInv, Pulling
  <2>2. emptyRootfs.layers \in Seq(Layer \cup {None, Junk}) /\ Len(emptyRootfs.layers) = 0
    BY EmptySeq DEF emptyRootfs
  <2>3. RootfsHas(0, FALSE, None)'
    BY <1>1, <2>1, <2>2 DEF RootfsHas, emptyRootfs
  <2>4. idx' \in 1..(Len(pulled'.layers) + 1) /\ idx' - 1 = 0
    BY <1>1, <1>3
  <2> QED
    BY <1>1, <2>3, <2>4 DEF MadeInv, Pulling, Finishing
<1> QED
  BY <1>5, <1>6, <1>7, <1>9, <1>10 DEF ConverterInv

\* Layers are applied one after the other.
LEMMA ApplyKeeps == ConverterInv /\ ApplyLayer => ConverterInv'
<1> SUFFICES ASSUME ConverterInv, ApplyLayer PROVE ConverterInv'
  OBVIOUS
<1> DEFINE fs == disk["rootfs"]
           B == Layer \cup {None, Junk}
           blob == disk[pulled.layers[idx]]
<1>1. /\ pc = "apply" /\ idx \leq Len(pulled.layers) /\ idx \in 1..(Len(pulled.layers) + 1)
      /\ pulled \in Usable /\ RootfsHas(idx - 1, FALSE, None) /\ idx' = idx + 1
  BY DEF ApplyLayer, ConverterInv, RunTyped, MadeInv, Making
<1>2. /\ pulled.layers \in Seq(Layer) /\ Len(pulled.layers) \in Nat
      /\ \A i \in 1..Len(pulled.layers) : pulled.layers[i] \in Layer
  BY <1>1, Kinds
<1>3. /\ CacheKept /\ pc' = "apply" /\ UNCHANGED <<image, skipPull, pulled>>
      /\ disk'["rootfs"] = [fs EXCEPT !.layers = Append(fs.layers, blob)]
  BY WriteOutput, Names DEF ApplyLayer
<1>4. blob \in B
  BY <1>1, <1>2 DEF ConverterInv, CacheTyped
<1>5. /\ fs = [layers |-> fs.layers, init |-> FALSE, meta |-> None]
      /\ fs.layers \in Seq(B) /\ Len(fs.layers) = idx - 1
      /\ \A i \in 1..(idx - 1) : fs.layers[i] = disk[pulled.layers[i]]
  BY <1>1 DEF RootfsHas
<1> DEFINE more == Append(fs.layers, blob)
<1>6. disk'["rootfs"] = [layers |-> more, init |-> FALSE, meta |-> None]
  <2> DEFINE ls == fs.layers
  <2>1. fs = [layers |-> ls, init |-> FALSE, meta |-> None]
    BY <1>5
  <2>2. disk'["rootfs"] = [fs EXCEPT !.layers = more]
    BY <1>3
  <2> HIDE DEF fs, ls, more
  <2> QED
    BY <2>1, <2>2
<1>7. /\ more \in Seq(B) /\ Len(more) = idx
      /\ \A i \in 1..(idx - 1) : more[i] = fs.layers[i]
      /\ more[idx] = blob
  BY <1>1, <1>4, <1>5, AppendProperties
<1> HIDE DEF more, B
<1>8. \A i \in 1..Len(pulled.layers) : disk'[pulled'.layers[i]] = disk[pulled.layers[i]]
  BY <1>2, <1>3 DEF CacheKept, CacheFile
<1>9. \A i \in 1..idx : more[i] = disk'[pulled'.layers[i]]
  <2> TAKE i \in 1..idx
  <2>1. i \in 1..Len(pulled.layers) /\ (i = idx \/ i \in 1..(idx - 1))
    BY <1>1, <1>2
  <2> QED
    BY <1>5, <1>7, <1>8, <2>1
<1>10. MadeInv'
  <2>1. idx' \in 1..(Len(pulled'.layers) + 1) /\ idx' - 1 = idx
    BY <1>1, <1>2, <1>3
  <2>2. /\ disk'["rootfs"].layers = more
        /\ disk'["rootfs"] = [layers |-> disk'["rootfs"].layers, init |-> FALSE, meta |-> None]
    BY <1>6
  <2>3. RootfsHas(idx - 1, FALSE, None)'
    BY <1>7, <1>9, <2>1, <2>2 DEF RootfsHas, B
  <2> QED
    BY <1>3, <2>1, <2>3 DEF MadeInv, Pulling, Finishing
<1> QED
  BY <1>1, <1>3, <1>10, MakingKeeps, CacheKeptIsSound DEF ConverterInv, Making

\* The root file system is completed.
LEMMA CompleteKeeps ==
    ConverterInv /\ (LayersApplied \/ InjectSbinInit \/ WriteRootMetadata) => ConverterInv'
<1> SUFFICES ASSUME ConverterInv, LayersApplied \/ InjectSbinInit \/ WriteRootMetadata
             PROVE  ConverterInv'
  OBVIOUS
<1>1. pc \in Making /\ pc \in {"apply", "inject", "rootmeta"}
  BY DEF LayersApplied, InjectSbinInit, WriteRootMetadata, Making
<1>2. pulled \in Usable /\ Len(pulled.layers) \in Nat
  BY <1>1, Kinds DEF ConverterInv, RunTyped
<1> DEFINE n == Len(pulled.layers)
<1>3. n \in 0..n
  BY <1>2
<1>4. CASE LayersApplied
  <2>1. /\ CacheKept /\ pc = "apply" /\ pc' = "inject" /\ idx > n
        /\ UNCHANGED <<disk, image, skipPull, pulled>>
    BY <1>4 DEF LayersApplied, options, history, CacheKept, ConverterInv, CacheTyped
  <2>2. idx \in 1..(n + 1) /\ RootfsHas(idx - 1, FALSE, None)
    BY <2>1 DEF ConverterInv, MadeInv
  <2>3. idx - 1 = n
    BY <1>2, <2>1, <2>2
  <2>4. RootfsHas(n, FALSE, None)'
    BY <2>1, <2>2, <2>3 DEF RootfsHas
  <2>5. MadeInv'
    BY <2>1, <2>4 DEF MadeInv, Pulling, Finishing
  <2> QED
    BY <1>1, <2>1, <2>5, MakingKeeps, CacheKeptIsSound DEF ConverterInv, Making
<1>5. CASE InjectSbinInit
  <2>1. /\ CacheKept /\ pc = "inject" /\ pc' = "rootmeta" /\ UNCHANGED <<image, skipPull, pulled>>
        /\ disk'["rootfs"] = [disk["rootfs"] EXCEPT !.init = TRUE]
    BY <1>5, WriteOutput, Names DEF InjectSbinInit
  <2>2. RootfsHas(n, FALSE, None)
    BY <2>1 DEF ConverterInv, MadeInv
  <2>3. disk'["rootfs"] = [layers |-> disk["rootfs"].layers, init |-> TRUE, meta |-> None]
    <3> DEFINE fs == disk["rootfs"]
               ls == fs.layers
    <3>1. fs = [layers |-> ls, init |-> FALSE, meta |-> None]
      BY <2>2 DEF RootfsHas
    <3>2. disk'["rootfs"] = [fs EXCEPT !.init = TRUE]
      BY <2>1
    <3> HIDE DEF fs, ls
    <3>3. disk'["rootfs"] = [layers |-> ls, init |-> TRUE, meta |-> None]
      BY <3>1, <3>2
    <3> QED
      BY <3>3 DEF fs, ls
  <2>4. RootfsHas(n, TRUE, None)'
    BY <1>1, <1>3, <2>1, <2>2, <2>3, RootfsKept
  <2>5. MadeInv'
    BY <2>1, <2>4 DEF MadeInv, Pulling, Finishing
  <2> QED
    BY <1>1, <2>1, <2>5, MakingKeeps, CacheKeptIsSound DEF ConverterInv, Making
<1>6. CASE WriteRootMetadata
  <2>1. /\ CacheKept /\ pc = "rootmeta" /\ pc' = "image-meta.json"
        /\ UNCHANGED <<image, skipPull, pulled>>
        /\ disk'["rootfs"] = [disk["rootfs"] EXCEPT !.meta = imageMeta]
    BY <1>6, WriteOutput, Names DEF WriteRootMetadata
  <2>2. RootfsHas(n, TRUE, None)
    BY <2>1 DEF ConverterInv, MadeInv
  <2>3. disk'["rootfs"] = [layers |-> disk["rootfs"].layers, init |-> TRUE, meta |-> imageMeta]
    <3> DEFINE fs == disk["rootfs"]
               ls == fs.layers
    <3>1. fs = [layers |-> ls, init |-> TRUE, meta |-> None]
      BY <2>2 DEF RootfsHas
    <3>2. disk'["rootfs"] = [fs EXCEPT !.meta = imageMeta]
      BY <2>1
    <3> HIDE DEF fs, ls
    <3>3. disk'["rootfs"] = [layers |-> ls, init |-> TRUE, meta |-> imageMeta]
      BY <3>1, <3>2
    <3> QED
      BY <3>3 DEF fs, ls
  <2>4. imageMeta' = imageMeta
    BY <2>1 DEF imageMeta
  <2>5. RootfsHas(n, TRUE, imageMeta)'
    BY <1>1, <1>3, <2>1, <2>2, <2>3, <2>4, RootfsKept
  <2>6. MadeInv'
    BY <2>1, <2>5 DEF MadeInv, Pulling, Finishing
  <2> QED
    BY <1>1, <2>1, <2>6, MakingKeeps, CacheKeptIsSound DEF ConverterInv, Making, Finishing
<1> QED
  BY <1>4, <1>5, <1>6

\* The outputs are made from it, one after the other.
LEMMA FinishKeeps ==
    ASSUME ConverterInv, pc \in Finishing, pc' \in Finishing, CacheKept,
           UNCHANGED <<image, skipPull, pulled>>, disk'["rootfs"] = disk["rootfs"]
    PROVE  /\ RunTyped' /\ PullInv'
           /\ imageMeta' = imageMeta /\ suggestedVMRequest' = suggestedVMRequest
           /\ RootfsHas(Len(pulled.layers), TRUE, imageMeta)'
<1>1. RunTyped' /\ PullInv'
  BY MakingKeeps DEF Making
<1>2. imageMeta' = imageMeta /\ suggestedVMRequest' = suggestedVMRequest
  BY DEF imageMeta, suggestedVMRequest
<1>3. pulled \in Usable /\ RootfsHas(Len(pulled.layers), TRUE, imageMeta)
  BY DEF ConverterInv, RunTyped, MadeInv, Making
<1>4. Len(pulled.layers) \in 0..Len(pulled.layers)
  BY <1>3, Kinds
<1>5. disk'["rootfs"] = [layers |-> disk["rootfs"].layers, init |-> TRUE, meta |-> imageMeta]
  BY <1>3 DEF RootfsHas
<1>6. RootfsHas(Len(pulled.layers), TRUE, imageMeta)'
  BY <1>2, <1>3, <1>4, <1>5, RootfsKept DEF Making
<1> QED
  BY <1>1, <1>2, <1>6

LEMMA OutputsKeep ==
    ConverterInv /\ (WriteOutputMetadata \/ CreateTar \/ TruncateExt4 \/ MakeExt4 \/ WriteSuggestions)
        => ConverterInv'
<1> SUFFICES ASSUME ConverterInv, WriteOutputMetadata \/ CreateTar \/ TruncateExt4 \/ MakeExt4
                                  \/ WriteSuggestions
             PROVE  ConverterInv'
  OBVIOUS
<1>1. ASSUME NEW f \in File \ (CacheFile \cup {"rootfs"}), NEW content, NEW next \in Finishing,
             pc \in Finishing, Write(f, content, next), MadeInv'
      PROVE  ConverterInv'
  <2>1. /\ CacheKept /\ pc' = next /\ UNCHANGED <<image, skipPull, pulled>>
        /\ disk'["rootfs"] = disk["rootfs"]
    BY <1>1, WriteOutput, Names
  <2> QED
    BY <1>1, <2>1, FinishKeeps, CacheKeptIsSound DEF ConverterInv
<1>2. ASSUME NEW f \in File \ (CacheFile \cup {"rootfs"}), NEW content, NEW next \in Finishing,
             pc \in Finishing, Write(f, content, next)
      PROVE  /\ pc' = next /\ disk'[f] = content
             /\ \A g \in File : g # f => disk'[g] = disk[g]
             /\ imageMeta' = imageMeta /\ suggestedVMRequest' = suggestedVMRequest
             /\ RootfsHas(Len(pulled.layers), TRUE, imageMeta)'
  <2>1. /\ CacheKept /\ pc' = next /\ UNCHANGED <<image, skipPull, pulled>>
        /\ disk'["rootfs"] = disk["rootfs"]
    BY <1>2, WriteOutput, Names
  <2>2. disk'[f] = content /\ \A g \in File : g # f => disk'[g] = disk[g]
    BY <1>2, WriteOutput
  <2> QED
    BY <1>2, <2>1, <2>2, FinishKeeps
<1>3. {"rootfs.tar", "rootfs.ext4", "image-meta.json", "suggested-vm-request.json"}
          \subseteq File \ (CacheFile \cup {"rootfs"})
  BY Names
<1>4. {"rootfs", "rootfs.tar", "rootfs.ext4", "image-meta.json", "suggested-vm-request.json"}
          \subseteq File
  BY Names
<1>5. CASE WriteOutputMetadata
  <2>1. /\ pc = "image-meta.json" /\ pc \in Finishing /\ "rootfs.tar" \in Finishing
        /\ Write("image-meta.json", imageMeta, "rootfs.tar")
    BY <1>5 DEF WriteOutputMetadata, Finishing
  <2>2. /\ pc' = "rootfs.tar" /\ disk'["image-meta.json"] = imageMeta'
        /\ RootfsHas(Len(pulled.layers), TRUE, imageMeta)'
    BY <1>2, <1>3, <2>1
  <2>3. MadeInv'
    BY <2>2 DEF MadeInv, Pulling, Finishing
  <2> QED
    BY <1>1, <1>3, <2>1, <2>3
<1>6. CASE CreateTar
  <2>1. PICK content \in {disk["rootfs"], Junk} :
            /\ pc = "rootfs.tar" /\ pc \in Finishing /\ "truncate" \in Finishing
            /\ Write("rootfs.tar", content, "truncate")
    BY <1>6 DEF CreateTar, Finishing
  <2>2. /\ pc' = "truncate" /\ disk'["rootfs.tar"] = content
        /\ disk'["image-meta.json"] = disk["image-meta.json"] /\ disk'["rootfs"] = disk["rootfs"]
        /\ imageMeta' = imageMeta /\ RootfsHas(Len(pulled.layers), TRUE, imageMeta)'
    BY <1>2, <1>3, <1>4, <2>1
  <2>3. MadeInv'
    BY <2>1, <2>2 DEF ConverterInv, MadeInv, Pulling, Finishing
  <2> QED
    BY <1>1, <1>3, <2>1, <2>3
<1>7. CASE TruncateExt4
  <2>1. PICK content \in {disk["rootfs.ext4"], Junk} \ {None} :
            /\ pc = "truncate" /\ pc \in Finishing /\ "rootfs.ext4" \in Finishing
            /\ Write("rootfs.ext4", content, "rootfs.ext4")
    BY <1>7 DEF TruncateExt4, Finishing
  <2>2. /\ pc' = "rootfs.ext4" /\ disk'["rootfs.tar"] = disk["rootfs.tar"]
        /\ disk'["image-meta.json"] = disk["image-meta.json"] /\ disk'["rootfs"] = disk["rootfs"]
        /\ imageMeta' = imageMeta /\ RootfsHas(Len(pulled.layers), TRUE, imageMeta)'
    BY <1>2, <1>3, <1>4, <2>1
  <2>3. MadeInv'
    BY <2>1, <2>2 DEF ConverterInv, MadeInv, Pulling, Finishing
  <2> QED
    BY <1>1, <1>3, <2>1, <2>3
<1>8. CASE MakeExt4
  <2>1. /\ pc = "rootfs.ext4" /\ pc \in Finishing /\ "suggested-vm-request.json" \in Finishing
        /\ Write("rootfs.ext4", disk["rootfs"], "suggested-vm-request.json")
    BY <1>8 DEF MakeExt4, Finishing
  <2>2. /\ pc' = "suggested-vm-request.json" /\ disk'["rootfs.tar"] = disk["rootfs.tar"]
        /\ disk'["image-meta.json"] = disk["image-meta.json"] /\ disk'["rootfs"] = disk["rootfs"]
        /\ disk'["rootfs.ext4"] = disk["rootfs"]
        /\ imageMeta' = imageMeta /\ RootfsHas(Len(pulled.layers), TRUE, imageMeta)'
    BY <1>2, <1>3, <1>4, <2>1
  <2>3. MadeInv'
    BY <2>1, <2>2 DEF ConverterInv, MadeInv, Pulling, Finishing
  <2> QED
    BY <1>1, <1>3, <2>1, <2>3
<1>9. CASE WriteSuggestions
  <2>1. /\ pc = "suggested-vm-request.json" /\ pc \in Finishing /\ "done" \in Finishing
        /\ Write("suggested-vm-request.json", suggestedVMRequest, "done")
    BY <1>9 DEF WriteSuggestions, Finishing
  <2>2. /\ pc' = "done" /\ disk'["rootfs.tar"] = disk["rootfs.tar"]
        /\ disk'["image-meta.json"] = disk["image-meta.json"] /\ disk'["rootfs"] = disk["rootfs"]
        /\ disk'["rootfs.ext4"] = disk["rootfs.ext4"]
        /\ disk'["suggested-vm-request.json"] = suggestedVMRequest
        /\ suggestedVMRequest' = suggestedVMRequest
        /\ imageMeta' = imageMeta /\ RootfsHas(Len(pulled.layers), TRUE, imageMeta)'
    BY <1>2, <1>3, <1>4, <2>1
  <2>3. MadeInv'
    BY <2>1, <2>2 DEF ConverterInv, MadeInv, Pulling, Finishing
  <2> QED
    BY <1>1, <1>3, <2>1, <2>3
<1> QED
  BY <1>5, <1>6, <1>7, <1>8, <1>9

\* A file of the cache is being written only while the cache is incomplete.
LEMMA Interrupted ==
    ASSUME ConverterInv, pc # "idle"
    PROVE  /\ pc = "manifest.json" => writing = {"manifest.json"}
           /\ pc = "config.json" => writing = {"config.json"}
           /\ pc = "layer" => writing \subseteq Layer
           /\ pc \notin {"manifest.json", "config.json", "layer"} => writing \cap CacheFile = {}
<1>1. pc \in Step
  BY DEF ConverterInv, RunTyped
<1>2. pc = "manifest.json" => writing = {"manifest.json"}
  BY DEF writing, File, CacheFile
<1>3. pc = "config.json" => writing = {"config.json"}
  BY DEF writing, File, CacheFile
<1>4. ASSUME pc = "layer" PROVE writing \subseteq Layer
  <2>1. pulled.layers \in Seq(Layer) /\ idx \in Nat \ {0}
    BY <1>4, Kinds DEF ConverterInv, RunTyped, PullInv
  <2>2. idx \leq Len(pulled.layers) => pulled.layers[idx] \in Layer
    BY <2>1
  <2>3. "layer" \notin File
    BY Names DEF File, CacheFile, Step
  <2> QED
    BY <1>4, <2>2, <2>3 DEF writing
<1>5. ASSUME pc \notin {"manifest.json", "config.json", "layer"}
      PROVE  writing \cap CacheFile = {}
  <2>1. pc \in File => pc \notin CacheFile
    BY <1>1, <1>5, Names DEF CacheFile, File
  <2>2. "rootfs" \notin CacheFile /\ "rootfs.ext4" \notin CacheFile
    BY Names
  <2> QED
    BY <1>5, <2>1, <2>2 DEF writing
<1> QED
  BY <1>2, <1>3, <1>4, <1>5

\* Wherever a run ends, the cache is of one image, and still complete if it was.
LEMMA AbortKeeps == ConverterInv /\ Abort => ConverterInv'
<1> SUFFICES ASSUME ConverterInv, Abort PROVE ConverterInv'
  OBVIOUS
<1>1. Exit /\ pc # "idle"
  BY DEF Abort
<1>2. "manifest.json" \in CacheFile /\ "config.json" \in CacheFile /\ Layer \subseteq CacheFile
  BY DEF CacheFile
<1>3. CASE pc = "purge"
  <2>1. cached' = None
    BY <1>3 DEF Abort
  <2>2. PICK removed \in SUBSET CacheFile :
            disk' = [f \in File |-> IF f \in removed THEN None ELSE disk[f]]
    BY <1>3 DEF Abort
  <2>3. /\ DOMAIN disk' = File
        /\ \A f \in CacheFile : disk'[f] = disk[f] \/ disk'[f] = None
    BY <2>2, Names
  <2>4. CacheTyped'
    BY <1>2, <2>1, <2>3 DEF ConverterInv, CacheTyped
  <2>5. CacheIsSound'
    BY <1>2, <2>1, <2>3 DEF ConverterInv, CacheIsSound, cacheIsOfOneImage, pullCanBeRepeated, usable
  <2> QED
    BY <1>1, <2>4, <2>5, ExitKeeps
<1>4. CASE pc # "purge"
  <2>1. cached' = cached
    BY <1>4 DEF Abort
  <2>2. PICK spoilt \in SUBSET writing :
            disk' = [f \in File |-> IF f \in spoilt THEN Junk ELSE disk[f]]
    BY <1>4 DEF Abort
  <2>3. /\ DOMAIN disk' = File
        /\ \A f \in File : f \in spoilt => disk'[f] = Junk
        /\ \A f \in File : f \notin writing => disk'[f] = disk[f]
        /\ \A f \in File : disk'[f] = disk[f] \/ disk'[f] = Junk
    BY <2>2
  <2>4. CASE pc \notin {"manifest.json", "config.json", "layer"}
    <3>1. CacheKept
      BY <1>1, <2>1, <2>3, <2>4, Interrupted, Names DEF CacheKept
    <3> QED
      BY <1>1, <3>1, CacheKeptIsSound, ExitKeeps
  <2>5. CASE pc \in {"manifest.json", "config.json", "layer"}
    <3>1. cached' = None
      BY <2>1, <2>5 DEF ConverterInv, PullInv, Pulling
    <3>2. CacheTyped'
      BY <1>2, <2>3, <3>1, Names DEF ConverterInv, CacheTyped
    <3>3. cacheIsOfOneImage'
      <4>1. CASE pc = "manifest.json"
        <5>1. disk["manifest.json"] = None
          BY <4>1 DEF ConverterInv, PullInv
        <5>2. disk'["manifest.json"] \in {None, Junk}
          BY <1>2, <2>3, <5>1, Names
        <5> QED
          BY <5>2 DEF cacheIsOfOneImage, usable
      <4>2. CASE pc = "config.json"
        <5>1. disk["config.json"] = None
          BY <4>2 DEF ConverterInv, PullInv
        <5>2. disk'["config.json"] \in {None, Junk}
          BY <1>2, <2>3, <5>1, Names
        <5> QED
          BY <5>2 DEF cacheIsOfOneImage
      <4>3. CASE pc = "layer"
        <5>1. writing \subseteq Layer
          BY <1>1, <4>3, Interrupted
        <5>2. /\ disk'["manifest.json"] = disk["manifest.json"]
              /\ disk'["config.json"] = disk["config.json"]
          BY <1>2, <2>3, <5>1, Names
        <5> QED
          BY <5>2 DEF ConverterInv, CacheIsSound, cacheIsOfOneImage
      <4> QED
        BY <2>5, <4>1, <4>2, <4>3
    <3>4. pullCanBeRepeated'
      BY <3>1 DEF pullCanBeRepeated
    <3> QED
      BY <1>1, <3>2, <3>3, <3>4, ExitKeeps DEF CacheIsSound
  <2> QED
    BY <2>4, <2>5
<1> QED
  BY <1>3, <1>4

LEMMA ReturnKeeps == ConverterInv /\ Return => ConverterInv'
<1> SUFFICES ASSUME ConverterInv, Return PROVE ConverterInv'
  OBVIOUS
<1>1. CacheKept /\ Exit
  BY DEF Return, CacheKept, ConverterInv, CacheTyped
<1> QED
  BY <1>1, CacheKeptIsSound, ExitKeeps

LEMMA ConverterNext == ConverterInv /\ [Next]_vars => ConverterInv'
<1> SUFFICES ASSUME ConverterInv, [Next]_vars PROVE ConverterInv'
  OBVIOUS
<1>1. CASE UNCHANGED vars
  BY <1>1 DEF vars, ConverterInv, CacheTyped, RunTyped, CacheIsSound, cacheIsOfOneImage,
     pullCanBeRepeated, PullInv, MadeInv, RootfsHas, imageMeta, suggestedVMRequest
<1>2. CASE Next
  BY <1>2, StartKeeps, CleanKeeps, ReadCachedKeeps, PurgeKeeps, ResolveKeeps, CacheManifestKeeps,
     CacheConfigKeeps, DownloadKeeps, PulledKeeps, ApplyKeeps, CompleteKeeps, OutputsKeep,
     ReturnKeeps, AbortKeeps DEF Next
<1> QED
  BY <1>1, <1>2

-----------------------------------------------------------------------------
(* The theorems *)

LEMMA ConverterAlways == Spec => []ConverterInv
BY ConverterInit, ConverterNext, PTL DEF Spec

\* Whatever runs succeeded, failed or died in this directory, what -skip-pull
\* finds is of one image, and complete if the last pull was.
THEOREM CacheIsSoundHolds == Spec => []CacheIsSound
<1>1. ConverterInv => CacheIsSound
  BY DEF ConverterInv
<1> QED
  BY <1>1, ConverterAlways, PTL

\* A run that succeeds has made a whole image, whatever earlier runs left and
\* however they ended.
THEOREM ImageIsWholeHolds == Spec => [](pc = "done" => imageIsWhole)
<1>1. ConverterInv => (pc = "done" => imageIsWhole)
  <2> SUFFICES ASSUME ConverterInv, pc = "done" PROVE imageIsWhole
    OBVIOUS
  <2>1. /\ pulled \in Usable /\ disk["manifest.json"] = pulled
        /\ disk["rootfs.ext4"] = disk["rootfs"]
        /\ RootfsHas(Len(pulled.layers), TRUE, imageMeta)
        /\ skipPull \/ cached = pulled
        /\ \A i \in 1..Len(pulled.layers) : disk[pulled.layers[i]] # None
    BY DEF ConverterInv, RunTyped, PullInv, MadeInv, Making, Finishing
  <2>2. /\ pulled.layers \in Seq(Layer) /\ Len(pulled.layers) \in Nat
        /\ DOMAIN pulled.layers = 1..Len(pulled.layers)
        /\ \A i \in 1..Len(pulled.layers) : pulled.layers[i] \in Layer
    BY <2>1, Kinds
  <2> DEFINE fs == disk["rootfs"]
  <2>3. /\ fs.init = TRUE /\ fs.meta = imageMeta /\ Len(fs.layers) = Len(pulled.layers)
        /\ \A i \in 1..Len(pulled.layers) : fs.layers[i] = disk[pulled.layers[i]]
    BY <2>1 DEF RootfsHas
  <2>4. imageMeta.image = image /\ imageMeta.config = pulled.config
    BY DEF imageMeta
  <2>5. ASSUME NEW i \in 1..Len(pulled.layers)
        PROVE  \/ fs.layers[i] = pulled.layers[i]
               \/ fs.layers[i] = Junk /\ skipPull /\ cached = None
    <3>1. fs.layers[i] = pulled.layers[i] \/ fs.layers[i] = Junk
      BY <2>1, <2>2, <2>3 DEF ConverterInv, CacheTyped
    <3>2. cached # None => cached = pulled
      BY <2>1 DEF ConverterInv, CacheIsSound, pullCanBeRepeated
    <3>3. pulled.layers[i] \in ToSet(pulled.layers)
      BY <2>2 DEF ToSet
    <3>4. cached # None => disk[pulled.layers[i]] = pulled.layers[i]
      BY <3>2, <3>3 DEF ConverterInv, CacheIsSound, pullCanBeRepeated
    <3>5. pulled # None
      BY <2>1, Kinds
    <3> QED
      BY <2>1, <2>3, <3>1, <3>4, <3>5
  <2> HIDE DEF fs
  <2> QED
    BY <2>1, <2>3, <2>4, <2>5 DEF imageIsWhole, fs
<1> QED
  BY <1>1, ConverterAlways, PTL

\* The port inferHTTPPort returns is exposed, by TCP if any is.
LEMMA InferredIsExposed ==
    ASSUME NEW exposed \in SUBSET [port : Nat \ {0}, tcp : BOOLEAN]
    PROVE  /\ exposed = {} => inferHTTPPort(exposed) = 0
           /\ exposed # {} =>
                /\ inferHTTPPort(exposed) # 0
                /\ \E e \in exposed : e.port = inferHTTPPort(exposed)
                /\ (\E e \in exposed : e.tcp) =>
                       [port |-> inferHTTPPort(exposed), tcp |-> TRUE] \in exposed
<1> DEFINE tcp == {e.port : e \in {x \in exposed : x.tcp}}
           usual == tcp \cap {80, 3000, 8000, 8080}
           ports == {e.port : e \in exposed}
           port == inferHTTPPort(exposed)
<1>1. port = CASE exposed = {} -> 0
               [] usual # {} -> Min(usual)
               [] usual = {} /\ tcp # {} -> Min(tcp)
               [] OTHER -> Min(ports)
  BY DEF inferHTTPPort
<1>2. /\ tcp \subseteq Nat \ {0} /\ ports \subseteq Nat \ {0} /\ usual \subseteq tcp
      /\ tcp \subseteq ports /\ (tcp # {} => exposed # {})
  OBVIOUS
<1>3. \A n \in tcp : [port |-> n, tcp |-> TRUE] \in exposed
  <2> TAKE n \in tcp
  <2>1. PICK e \in exposed : e.tcp /\ e.port = n
    OBVIOUS
  <2>2. e = [port |-> n, tcp |-> TRUE]
    BY <2>1
  <2> QED
    BY <2>2
<1>4. \A n \in ports : \E e \in exposed : e.port = n
  OBVIOUS
<1>5. (\E e \in exposed : e.tcp) => tcp # {}
  OBVIOUS
<1>6. exposed # {} => ports # {}
  OBVIOUS
<1> HIDE DEF tcp, usual, ports, port
<1>7. exposed = {} => port = 0
  BY <1>1, <1>2
<1>8. CASE usual # {}
  <2>1. exposed # {} /\ port = Min(usual)
    BY <1>1, <1>2, <1>8
  <2>2. port \in usual
    BY <1>2, <1>8, <2>1, MinOfNaturals
  <2> QED
    BY <1>2, <1>3, <1>4, <2>1, <2>2 DEF port
<1>9. CASE usual = {} /\ tcp # {}
  <2>1. exposed # {} /\ port = Min(tcp)
    BY <1>1, <1>2, <1>9
  <2>2. port \in tcp
    BY <1>2, <1>9, <2>1, MinOfNaturals
  <2> QED
    BY <1>2, <1>3, <1>4, <2>1, <2>2 DEF port
<1>10. CASE tcp = {} /\ exposed # {}
  <2>1. usual = {} /\ port = Min(ports)
    BY <1>1, <1>2, <1>10
  <2>2. port \in ports
    BY <1>2, <1>6, <1>10, <2>1, MinOfNaturals
  <2> QED
    BY <1>2, <1>4, <1>5, <1>10, <2>2 DEF port
<1> QED
  BY <1>2, <1>7, <1>8, <1>9, <1>10 DEF port

\* The archive, the metadata beside the image and the suggested request belong
\* to the image, and the request names a port the image exposes.
THEOREM OutputsAgreeHolds == Spec => []OutputsAgree
<1>1. ConverterInv => OutputsAgree
  <2> SUFFICES ASSUME ConverterInv, pc = "done" PROVE OutputsAgree
    BY DEF OutputsAgree
  <2> DEFINE fs == disk["rootfs.ext4"]
             exposed == Exposed[pulled.config]
             port == inferHTTPPort(exposed)
             request == disk["suggested-vm-request.json"]
  <2>1. /\ pulled \in Usable /\ fs = disk["rootfs"]
        /\ RootfsHas(Len(pulled.layers), TRUE, imageMeta)
        /\ disk["rootfs.tar"] \in {disk["rootfs"], Junk}
        /\ disk["image-meta.json"] = imageMeta
        /\ request = suggestedVMRequest
    BY DEF ConverterInv, RunTyped, MadeInv, Making, Finishing
  <2>2. fs.meta = imageMeta
    BY <2>1 DEF RootfsHas
  <2>3. imageMeta.image = image /\ imageMeta.config = pulled.config
    BY DEF imageMeta
  <2>4. request.image = image /\ request.httpPort = IF port = 0 THEN 80 ELSE port
    BY <2>1 DEF suggestedVMRequest
  <2>5. exposed \in SUBSET [port : Nat \ {0}, tcp : BOOLEAN]
    BY <2>1, Kinds, ExposedAssumption
  <2>6. IF exposed = {} THEN request.httpPort = 80
        ELSE /\ \E e \in exposed : e.port = request.httpPort
             /\ (\E e \in exposed : e.tcp)
                    => [port |-> request.httpPort, tcp |-> TRUE] \in exposed
    BY <2>4, <2>5, InferredIsExposed
  <2>7. Exposed[fs.meta.config] = exposed /\ request.image = fs.meta.image
    BY <2>2, <2>3, <2>4
  <2> HIDE DEF fs, exposed, request
  <2>8. /\ disk["rootfs"] = fs /\ disk["rootfs.tar"] \in {fs, Junk}
        /\ disk["image-meta.json"] = fs.meta
    BY <2>1, <2>2
  <2> QED
    BY <2>6, <2>7, <2>8 DEF OutputsAgree, fs, request
<1> QED
  BY <1>1, ConverterAlways, PTL

-----------------------------------------------------------------------------
(* The platform of what is pulled *)

\* A list that leads to a manifest for this platform has such an entry chosen.
LEMMA SelectedIsOurs ==
    ASSUME NEW ours, truthful(ours), NEW r \in DOMAIN Remote, isList(Remote[r]), r \in ours
    PROVE  selectManifestDescriptor(Remote[r].entries).digest \in ours
<1> DEFINE E == [platform : Platform, digest : DOMAIN Remote]
           es == Remote[r].entries
           of(platform) == {i \in DOMAIN es : es[i].platform = platform}
           labelled(platform) ==
               {e.digest : e \in {x \in ToSet(es) : x.platform = platform}}
           among == CASE of("target") # {} -> of("target")
                      [] of("target") = {} /\ of("none") # {} -> of("none")
                      [] OTHER -> DOMAIN es
<1>1. /\ \E e \in ToSet(es) : e.digest \in ours
      /\ labelled("target") \subseteq ours
      /\ labelled("other") \cap ours = {}
      /\ labelled("target") = {} => \/ labelled("none") \subseteq ours
                                    \/ labelled("none") \cap ours = {}
  BY Zenon DEF truthful
<1>2. Remote[r] \in ManifestList
  BY RemoteAssumption, Kinds
<1>3. es \in Seq(E) /\ es # << >>
  BY <1>2 DEF ManifestList
<1>4. selectManifestDescriptor(es) = es[Min(among)]
  BY DEF selectManifestDescriptor
<1> HIDE DEF es, E
<1>5. DOMAIN es = 1..Len(es) /\ DOMAIN es # {} /\ \A i \in DOMAIN es : es[i] \in E
  BY <1>3, EmptySeq, LenProperties, ElementOfSeq
<1>6. ToSet(es) = {es[i] : i \in DOMAIN es}
  BY DEF ToSet
<1>7. \A i \in DOMAIN es : es[i].digest \in labelled(es[i].platform)
  BY <1>6, Zenon
<1>8. PICK j \in DOMAIN es : es[j].digest \in ours
  BY <1>1, <1>6
<1>9. es[j].platform \in {"target", "none"}
  <2>1. es[j].platform \in Platform
    BY <1>5 DEF E
  <2>2. es[j].platform # "other"
    BY <1>1, <1>7, <1>8
  <2> QED
    BY <2>1, <2>2 DEF Platform
<1>10. among \subseteq DOMAIN es /\ among # {}
  BY <1>5
<1>11. Min(among) \in among /\ Min(among) \in DOMAIN es
  <2>1. among \subseteq Nat
    BY <1>5, <1>10
  <2> HIDE DEF among
  <2> QED
    BY <1>10, <2>1, MinOfNaturals
<1>12. CASE of("target") # {}
  <2>1. among = of("target")
    BY <1>12
  <2>2. es[Min(among)].platform = "target"
    BY <1>11, <2>1
  <2> HIDE DEF among, labelled
  <2> QED
    BY <1>1, <1>4, <1>7, <1>11, <2>2 DEF es
<1>13. CASE of("target") = {}
  <2>1. es[j].platform = "none"
    BY <1>9, <1>13
  <2>2. among = of("none")
    BY <1>13, <2>1
  <2>3. es[Min(among)].platform = "none"
    BY <1>11, <2>2
  <2>4. labelled("target") = {}
    BY <1>6, <1>13
  <2> HIDE DEF among, labelled
  <2>5. labelled("none") \subseteq ours
    BY <1>1, <1>7, <1>8, <2>1, <2>4
  <2> QED
    BY <1>4, <1>7, <1>11, <2>3, <2>5 DEF es
<1> QED
  BY <1>12, <1>13

\* What leads to a manifest for this platform is reached only from references
\* that do.
LEMMA OfferedIsOurs ==
    ASSUME NEW ours, truthful(ours), NEW refs, refs \subseteq DOMAIN Remote,
           offered(refs) \cap ours # {}
    PROVE  refs \cap ours # {}
<1>1. PICK r \in offered(refs) : r \in ours
  OBVIOUS
<1>2. CASE r \in refs
  BY <1>1, <1>2
<1>3. CASE \E q \in refs : isList(Remote[q]) /\ \E e \in ToSet(Remote[q].entries) : r = e.digest
  <2>1. PICK q \in refs : isList(Remote[q]) /\ \E e \in ToSet(Remote[q].entries) : r = e.digest
    BY <1>3
  <2>2. \E e \in ToSet(Remote[q].entries) : e.digest \in ours
    BY <1>1, <2>1
  <2>3. q \in DOMAIN Remote
    BY <2>1
  <2>4. q \in ours
    BY <2>1, <2>2, <2>3, Zenon DEF truthful
  <2> QED
    BY <2>4
<1> QED
  BY <1>1, <1>2, <1>3 DEF offered

LEMMA OfferedIsServed ==
    ASSUME NEW refs, refs \subseteq DOMAIN Remote
    PROVE  offered(refs) \subseteq DOMAIN Remote
<1>1. ASSUME NEW q \in refs, isList(Remote[q]), NEW e \in ToSet(Remote[q].entries)
      PROVE  e.digest \in DOMAIN Remote
  <2>1. Remote[q] \in ManifestList
    BY <1>1, RemoteAssumption, Kinds
  <2> DEFINE E == [platform : Platform, digest : DOMAIN Remote]
             es == Remote[q].entries
  <2>2. es \in Seq(E)
    BY <2>1 DEF ManifestList
  <2> HIDE DEF es, E
  <2>3. ToSet(es) \subseteq E
    BY <2>2 DEF ToSet
  <2> QED
    BY <2>3 DEF es, E
<1> QED
  BY <1>1 DEF offered

\* An image that is for this platform is resolved to a manifest that is, and
\* the run goes on with that manifest unless it skipped the pull.
OursInv(ours) ==
    Tag[image] \subseteq ours =>
        /\ pc = "resolve" => ref \in ours
        /\ pc \in {"manifest.json", "config.json", "layer"} \cup Making
               => skipPull \/ pulled.platform = "target"

LEMMA OursNext ==
    ASSUME NEW ours, truthful(ours), ConverterInv, OursInv(ours), [Next]_vars
    PROVE  OursInv(ours)'
<1> DEFINE Using == {"manifest.json", "config.json", "layer"} \cup Making
<1>1. CASE OpenImageSource
  BY <1>1 DEF OpenImageSource, OursInv, options, Making, Finishing
<1>2. CASE ResolveList
  <2>1. /\ ref \in DOMAIN Remote /\ isList(Remote[ref]) /\ pc = "resolve" /\ pc' = pc
        /\ ref' = selectManifestDescriptor(Remote[ref].entries).digest
        /\ image' = image
    BY <1>2 DEF ResolveList, ConverterInv, RunTyped, options
  <2>2. ref \in ours => ref' \in ours
    BY <2>1, SelectedIsOurs
  <2> QED
    BY <2>1, <2>2 DEF OursInv, Making, Finishing
<1>3. CASE ResolveManifest
  <2>1. /\ ref \in DOMAIN Remote /\ usable(Remote[ref]) /\ pc = "resolve"
        /\ pc' = "manifest.json" /\ pulled' = Remote[ref] /\ image' = image
    BY <1>3 DEF ResolveManifest, ConverterInv, RunTyped, options
  <2>2. ~isList(Remote[ref])
    BY <2>1 DEF usable
  <2>3. ref \in ours => Remote[ref].platform = "target"
    BY <2>1, <2>2, Zenon DEF truthful
  <2> QED
    BY <2>1, <2>3 DEF OursInv
<1>4. CASE ReadCachedImage
  <2>1. pc = "read" /\ pc' = "apply" /\ skipPull' = skipPull
    BY <1>4 DEF ReadCachedImage, options
  <2>2. skipPull
    BY <2>1 DEF ConverterInv, RunTyped
  <2> QED
    BY <2>1, <2>2 DEF OursInv
<1>5. CASE pc' \notin Using \cup {"resolve"}
  BY <1>5 DEF OursInv
<1>6. CASE pc \in Using /\ pc' \in Using /\ UNCHANGED <<image, skipPull, pulled>>
  BY <1>6 DEF OursInv, Making, Finishing
<1>7. CASE UNCHANGED vars
  BY <1>7 DEF OursInv, vars
<1>8. CASE Start \/ CleanRootfs \/ PurgeCache \/ Return \/ Abort
  <2>1. pc' \in {"clean", "read", "purge", "open", "idle"}
    BY <1>8 DEF Start, CleanRootfs, PurgeCache, Return, Abort, Exit, Write
  <2> QED
    BY <1>5, <2>1 DEF Making, Finishing
<1>9. CASE CacheManifest \/ CacheConfig \/ DownloadLayer \/ Pulled
  BY <1>6, <1>9
     DEF CacheManifest, CacheConfig, DownloadLayer, Pulled, Write, options, Making, Finishing
<1>10. CASE ApplyLayer \/ LayersApplied \/ InjectSbinInit \/ WriteRootMetadata
  BY <1>6, <1>10
     DEF ApplyLayer, LayersApplied, InjectSbinInit, WriteRootMetadata, Write, options,
         Making, Finishing
<1>11. CASE WriteOutputMetadata \/ CreateTar \/ TruncateExt4 \/ MakeExt4 \/ WriteSuggestions
  BY <1>6, <1>11
     DEF WriteOutputMetadata, CreateTar, TruncateExt4, MakeExt4, WriteSuggestions, Write,
         options, Making, Finishing
<1> QED
  BY <1>1, <1>2, <1>3, <1>4, <1>7, <1>8, <1>9, <1>10, <1>11 DEF Next

\* A run that succeeds has made a whole image, whatever earlier runs left and
\* however they ended; and without -skip-pull it has made it from a manifest
\* for this platform if the image has one, however its lists are nested, as
\* long as the labels in them are true.
THEOREM ConvertedIsWholeHolds ==
    ASSUME NEW ours, truthful(ours)
    PROVE  Spec => []ConvertedIsWhole
<1>1. Init => OursInv(ours)
  BY DEF Init, OursInv, Making, Finishing
<1>2. ConverterInv /\ OursInv(ours) /\ [Next]_vars => OursInv(ours)'
  BY OursNext
<1>3. ConverterInv /\ OursInv(ours) => (pc = "done" => skipPull \/ platformIsOurs)
  <2> SUFFICES ASSUME ConverterInv, OursInv(ours), pc = "done", ~skipPull,
                      NEW r \in offered(offered(offered(Tag[image]))),
                      ~isList(Remote[r]), Remote[r].platform = "target"
               PROVE  pulled.platform = "target"
    BY DEF platformIsOurs
  <2>1. image \in Image /\ Tag[image] \subseteq DOMAIN Remote
    BY RemoteAssumption DEF ConverterInv, RunTyped
  <2>2. /\ offered(Tag[image]) \subseteq DOMAIN Remote
        /\ offered(offered(Tag[image])) \subseteq DOMAIN Remote
        /\ offered(offered(offered(Tag[image]))) \subseteq DOMAIN Remote
    BY <2>1, OfferedIsServed
  <2>3. r \in ours
    BY <2>2, Zenon DEF truthful
  <2>4. offered(offered(Tag[image])) \cap ours # {}
    BY <2>2, <2>3, OfferedIsOurs
  <2>5. Tag[image] \cap ours # {}
    BY <2>1, <2>2, <2>4, OfferedIsOurs
  <2>6. Tag[image] \subseteq ours
    BY <2>1, <2>5, Zenon DEF truthful
  <2> QED
    BY <2>6 DEF OursInv, Making, Finishing
<1>4. (pc = "done" => imageIsWhole) /\ (pc = "done" => skipPull \/ platformIsOurs)
        => ConvertedIsWhole
  BY DEF ConvertedIsWhole
<1> QED
  BY <1>1, <1>2, <1>3, <1>4, ConverterAlways, ImageIsWholeHolds, PTL DEF Spec

=============================================================================

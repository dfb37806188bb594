--------------------------- MODULE ImageConverter ---------------------------
(***************************************************************************)
(* internal/converter/converter.go: mergen-converter makes a root file     *)
(* system image from a container image, in an output directory that        *)
(* outlives the run and that later runs, of other images or with           *)
(* -skip-pull, use again.                                                  *)
(*                                                                         *)
(* A step is one file or directory written or removed, or one network      *)
(* call.  A run may end after any step, because a call returned an error   *)
(* or because the process died; the file it was writing is then left as it *)
(* was or as Junk: truncated, or not what its digest says.                 *)
(*                                                                         *)
(* A blob is named by its digest, so a layer stands for its digest and for *)
(* the content that has this digest.  A configuration stands for itself;   *)
(* of its content only the exposed ports are used here.                    *)
(***************************************************************************)
EXTENDS Naturals, Sequences, FiniteSetsExt, SequencesExt

CONSTANTS Image,      \* names given with -image
          Layer,      \* layer digests
          Config,     \* configuration digests
          Exposed,    \* the ports a configuration exposes: [port, tcp]
          Remote,     \* what the registry serves: reference -> manifest or list
          Tag,        \* the references an image name may stand for over time
          None, Junk, \* a file that is absent, or not usable
          MaxRuns     \* bound: conversions in one output directory

VARIABLES
    disk,       \* the output directory: file -> content
    pc,         \* the step Run takes next; "idle" when no converter runs
    image, skipPull,   \* Options
    ref, depth, \* resolveSingleManifest: the manifest fetched, the lists passed
    pulled,     \* pulledImage: the manifest in use
    idx         \* the layer to be downloaded or applied next

VARIABLES       \* history, read by no step
    runs,       \* conversions begun, bounded by MaxRuns
    cached      \* the manifest of the last pull that completed, None once the
                \* cache has been touched again

vars == <<disk, pc, image, skipPull, ref, depth, pulled, idx, runs, cached>>

-----------------------------------------------------------------------------
(* Manifests and lists *)

isList(m) == "entries" \in DOMAIN m

\* The first entry for this platform, else the first without one, else the
\* first.  Platforms are "target", "other" and "none".
selectManifestDescriptor(entries) ==
    LET of(platform) == {i \in DOMAIN entries : entries[i].platform = platform}
    IN  entries[Min(CASE of("target") # {} -> of("target")
                      [] of("target") = {} /\ of("none") # {} -> of("none")
                      [] OTHER -> DOMAIN entries)]

\* parseImageManifest
usable(m) == m \notin {None, Junk} /\ ~isList(m) /\ m.layers # << >>

Platform == {"target", "other", "none"}

ImageManifest == [platform : Platform, config : Config, layers : Seq(Layer)]

\* A list has entries: parseManifestList takes one without for a manifest, and
\* that manifest has no layers.
ManifestList == [entries : Seq([platform : Platform, digest : DOMAIN Remote]) \ {<< >>}]

ASSUME RemoteAssumption == /\ \A r \in DOMAIN Remote : Remote[r] \in ImageManifest \cup ManifestList
                           /\ \A i \in Image : Tag[i] \subseteq DOMAIN Remote

\* Keys of other forms and other numbers are dropped by inferHTTPPort.
ASSUME ExposedAssumption ==
    \A c \in Config : Exposed[c] \subseteq [port : Nat \ {0}, tcp : BOOLEAN]

-----------------------------------------------------------------------------
(* Suggestions made from the configuration *)

\* Keys that are not a port number and a protocol have been dropped from
\* Exposed.  The candidates are sorted, TCP first, then by number; the first usual HTTP
\* port is taken, else the first TCP port, else the first port.
inferHTTPPort(exposed) ==
    LET tcp == {e.port : e \in {x \in exposed : x.tcp}}
        usual == tcp \cap {80, 3000, 8000, 8080}
    IN  CASE exposed = {} -> 0
          [] usual # {} -> Min(usual)
          [] usual = {} /\ tcp # {} -> Min(tcp)
          [] OTHER -> Min({e.port : e \in exposed})

imageMeta == [image |-> image, config |-> pulled.config,
              httpPort |-> inferHTTPPort(Exposed[pulled.config])]

suggestedVMRequest == [image |-> image,
                       httpPort |-> LET port == inferHTTPPort(Exposed[pulled.config])
                                    IN  IF port = 0 THEN 80 ELSE port]

-----------------------------------------------------------------------------
(* The output directory *)

CacheFile == {"manifest.json", "config.json"} \cup Layer

File == CacheFile \cup {"rootfs", "rootfs.tar", "rootfs.ext4", "image-meta.json",
                        "suggested-vm-request.json"}

Step == {"clean", "open", "read", "purge", "resolve", "manifest.json",
         "config.json", "layer", "apply", "inject", "rootmeta", "image-meta.json",
         "rootfs.tar", "truncate", "rootfs.ext4", "suggested-vm-request.json", "done"}

\* No digest is the name of another file or of a step.
ASSUME NamesAssumption ==
    /\ None # Junk /\ {None, Junk} \cap (Layer \cup Config) = {}
    /\ Layer \cap (Step \cup {"rootfs"}) = {}

emptyRootfs == [layers |-> << >>, init |-> FALSE, meta |-> None]

TypeOK ==
    /\ DOMAIN disk = File
    /\ \A l \in Layer : disk[l] \in {None, Junk, l}
    /\ disk["config.json"] \in Config \cup {None, Junk}
    /\ pc \in {"idle"} \cup Step
    /\ image \in Image \cup {None}
    /\ skipPull \in BOOLEAN
    /\ ref \in DOMAIN Remote \cup {None}
    /\ depth \in 0..4
    /\ pulled = None \/ usable(pulled)
    /\ idx \in 0..(1 + Max({0} \cup {Len(Remote[r].layers) :
                                     r \in {q \in DOMAIN Remote : ~isList(Remote[q])}}))
    /\ runs \in 0..MaxRuns
    /\ cached = None \/ usable(cached)

Init ==
    /\ disk = [f \in File |-> None]
    /\ pc = "idle"
    /\ image = None /\ skipPull = FALSE
    /\ ref = None /\ depth = 0
    /\ pulled = None /\ idx = 0
    /\ runs = 0
    /\ cached = None

options == <<image, skipPull>>
resolving == <<ref, depth>>
history == <<runs, cached>>

\* The step succeeds and leaves the file with this content.
Write(file, content, next) ==
    /\ disk' = [disk EXCEPT ![file] = content]
    /\ pc' = next
    /\ UNCHANGED <<options, resolving, pulled, history>>

-----------------------------------------------------------------------------
(* Run *)

\* normalizeOptions, ensureCommand, ensureReadableFile and the output
\* directory, none of which a later step can tell apart.
Start ==
    /\ pc = "idle"
    /\ runs < MaxRuns
    /\ runs' = runs + 1
    /\ image' \in Image
    /\ skipPull' \in BOOLEAN
    /\ pc' = "clean"
    /\ UNCHANGED <<disk, resolving, pulled, idx, cached>>

\* Mutant: what an earlier run left in rootfs stays there.
CleanRootfs_Mutant ==
    /\ pc = "clean"
    /\ Write("rootfs", IF disk["rootfs"] \in {None, Junk} THEN emptyRootfs
                       ELSE disk["rootfs"],
             IF skipPull THEN "read" ELSE "purge")
    /\ UNCHANGED idx

CleanRootfs ==
    /\ pc = "clean"
    /\ Write("rootfs", emptyRootfs, IF skipPull THEN "read" ELSE "purge")
    /\ UNCHANGED idx

\* readCachedImage: the files are there; what is in the layers is not looked
\* at, nor which image they are of.
ReadCachedImage ==
    /\ pc = "read"
    /\ usable(disk["manifest.json"])
    /\ disk["config.json"] \notin {None, Junk}
    /\ \A l \in ToSet(disk["manifest.json"].layers) : disk[l] # None
    /\ pulled' = [disk["manifest.json"] EXCEPT !.config = disk["config.json"]]
    /\ idx' = 1
    /\ pc' = "apply"
    /\ UNCHANGED <<disk, options, resolving, history>>

-----------------------------------------------------------------------------
(* pullAndCacheImage *)

\* Mutant: the blobs of an earlier pull stay, and are overwritten.
PurgeCache_Mutant ==
    /\ pc = "purge"
    /\ cached' = None
    /\ pc' = "open"
    /\ UNCHANGED <<disk, options, resolving, pulled, idx, runs>>

PurgeCache ==
    /\ pc = "purge"
    /\ disk' = [f \in File |-> IF f \in CacheFile THEN None ELSE disk[f]]
    /\ cached' = None
    /\ pc' = "open"
    /\ UNCHANGED <<options, resolving, pulled, idx, runs>>

\* The manifest or list that the name stands for now.
OpenImageSource ==
    /\ pc = "open"
    /\ ref' \in Tag[image]
    /\ depth' = 0
    /\ pc' = "resolve"
    /\ UNCHANGED <<disk, options, pulled, idx, history>>

\* A list is followed, at most four times; what the fourth leads to is not
\* looked at.
ResolveList ==
    /\ pc = "resolve"
    /\ depth < 4
    /\ isList(Remote[ref])
    /\ ref' = selectManifestDescriptor(Remote[ref].entries).digest
    /\ depth' = depth + 1
    /\ UNCHANGED <<disk, pc, options, pulled, idx, history>>

ResolveManifest ==
    /\ pc = "resolve"
    /\ depth < 4
    /\ usable(Remote[ref])
    /\ pulled' = Remote[ref]
    /\ pc' = "manifest.json"
    /\ UNCHANGED <<disk, options, resolving, idx, history>>

\* The configuration has been downloaded and its digest compared; both files
\* are written before any layer is.
CacheManifest ==
    /\ pc = "manifest.json"
    /\ Write("manifest.json", pulled, "config.json")
    /\ UNCHANGED idx

CacheConfig ==
    /\ pc = "config.json"
    /\ Write("config.json", pulled.config, "layer")
    /\ idx' = 1

\* downloadBlobToFile, when the digest of what was written is the layer's.
DownloadLayer ==
    /\ pc = "layer"
    /\ idx <= Len(pulled.layers)
    /\ Write(pulled.layers[idx], pulled.layers[idx], "layer")
    /\ idx' = idx + 1

Pulled ==
    /\ pc = "layer"
    /\ idx > Len(pulled.layers)
    /\ cached' = pulled
    /\ idx' = 1
    /\ pc' = "apply"
    /\ UNCHANGED <<disk, options, resolving, pulled, runs>>

-----------------------------------------------------------------------------
(* The root file system and what is made from it *)

\* A layer that is Junk may still be an archive that can be unpacked.
ApplyLayer ==
    /\ pc = "apply"
    /\ idx <= Len(pulled.layers)
    /\ Write("rootfs", [disk["rootfs"] EXCEPT !.layers = Append(@, disk[pulled.layers[idx]])],
             "apply")
    /\ idx' = idx + 1

LayersApplied ==
    /\ pc = "apply"
    /\ idx > Len(pulled.layers)
    /\ pc' = "inject"
    /\ idx' = 0
    /\ UNCHANGED <<disk, options, resolving, pulled, history>>

InjectSbinInit ==
    /\ pc = "inject"
    /\ Write("rootfs", [disk["rootfs"] EXCEPT !.init = TRUE], "rootmeta")
    /\ UNCHANGED idx

\* writeMetadataFiles: into the root file system, then beside it.
WriteRootMetadata ==
    /\ pc = "rootmeta"
    /\ Write("rootfs", [disk["rootfs"] EXCEPT !.meta = imageMeta], "image-meta.json")
    /\ UNCHANGED idx

\* Mutant: metadata that is already beside the root file system is kept.
WriteOutputMetadata_Mutant ==
    /\ pc = "image-meta.json"
    /\ Write("image-meta.json", IF disk["image-meta.json"] \in {None, Junk} THEN imageMeta
                                ELSE disk["image-meta.json"], "rootfs.tar")
    /\ UNCHANGED idx

WriteOutputMetadata ==
    /\ pc = "image-meta.json"
    /\ Write("image-meta.json", imageMeta, "rootfs.tar")
    /\ UNCHANGED idx

\* The errors of the deferred Close calls are dropped, and the archive's end
\* is written by one of them.
CreateTar ==
    /\ pc = "rootfs.tar"
    /\ \E content \in {disk["rootfs"], Junk} : Write("rootfs.tar", content, "truncate")
    /\ UNCHANGED idx

\* buildExt4: an image file that is already there keeps what fits of its
\* content until mkfs has replaced it.
TruncateExt4 ==
    /\ pc = "truncate"
    /\ \E content \in {disk["rootfs.ext4"], Junk} \ {None} :
          Write("rootfs.ext4", content, "rootfs.ext4")
    /\ UNCHANGED idx

MakeExt4 ==
    /\ pc = "rootfs.ext4"
    /\ Write("rootfs.ext4", disk["rootfs"], "suggested-vm-request.json")
    /\ UNCHANGED idx

\* suggested-bootargs.txt, always the same text, and the request.
WriteSuggestions ==
    /\ pc = "suggested-vm-request.json"
    /\ Write("suggested-vm-request.json", suggestedVMRequest, "done")
    /\ UNCHANGED idx

-----------------------------------------------------------------------------
(* The end of a run *)

Exit == /\ pc' = "idle"
        /\ image' = None /\ skipPull' = FALSE
        /\ ref' = None /\ depth' = 0
        /\ pulled' = None /\ idx' = 0
        /\ UNCHANGED runs

Return == pc = "done" /\ Exit /\ UNCHANGED <<disk, cached>>

\* The file a step was writing when it was cut off.
writing == CASE pc \in File -> {pc}
             [] pc \in {"clean", "apply", "inject", "rootmeta"} -> {"rootfs"}
             [] pc = "truncate" -> {"rootfs.ext4"}
             [] pc = "layer" /\ idx <= Len(pulled.layers) -> {pulled.layers[idx]}
             [] OTHER -> {}

\* A call fails or the process dies.  Removing the cache may stop half way.
Abort ==
    /\ pc \notin {"idle", "done"}
    /\ IF pc = "purge"
       THEN /\ \E removed \in SUBSET CacheFile :
                  disk' = [f \in File |-> IF f \in removed THEN None ELSE disk[f]]
            /\ cached' = None
       ELSE /\ \E spoilt \in SUBSET writing :
                  disk' = [f \in File |-> IF f \in spoilt THEN Junk ELSE disk[f]]
            /\ UNCHANGED cached
    /\ Exit

Next == \/ Start
        \/ CleanRootfs
        \/ ReadCachedImage
        \/ PurgeCache
        \/ OpenImageSource
        \/ ResolveList
        \/ ResolveManifest
        \/ CacheManifest
        \/ CacheConfig
        \/ DownloadLayer
        \/ Pulled
        \/ ApplyLayer
        \/ LayersApplied
        \/ InjectSbinInit
        \/ WriteRootMetadata
        \/ WriteOutputMetadata
        \/ CreateTar
        \/ TruncateExt4
        \/ MakeExt4
        \/ WriteSuggestions
        \/ Return
        \/ Abort

Spec == Init /\ [][Next]_vars

-----------------------------------------------------------------------------
(* Properties *)

\* The references a list names, and those its lists name.
offered(refs) ==
    refs \cup UNION {{e.digest : e \in ToSet(Remote[r].entries)} :
                       r \in {q \in refs : isList(Remote[q])}}

\* An image whose list, or a list in it, has a manifest for this platform is
\* converted from one for this platform.
platformIsOurs ==
    (\E r \in offered(offered(offered(Tag[image]))) :
        ~isList(Remote[r]) /\ Remote[r].platform = "target")
    => pulled.platform = "target"

\* ours are the references that lead to a manifest for this platform, and the
\* registry tells so: a label for this platform is on nothing else, a label for
\* another one on none of them, entries without a label agree where the choice
\* is among them, and all that an image name stands for over time agrees.
truthful(ours) ==
    /\ \A r \in DOMAIN Remote :
          IF isList(Remote[r])
          THEN LET labelled(platform) ==
                     {e.digest : e \in {x \in ToSet(Remote[r].entries) : x.platform = platform}}
               IN  /\ r \in ours <=> \E e \in ToSet(Remote[r].entries) : e.digest \in ours
                   /\ labelled("target") \subseteq ours
                   /\ labelled("other") \cap ours = {}
                   /\ labelled("target") = {} => \/ labelled("none") \subseteq ours
                                                \/ labelled("none") \cap ours = {}
          ELSE r \in ours <=> Remote[r].platform = "target"
    /\ \A i \in Image : Tag[i] \subseteq ours \/ Tag[i] \cap ours = {}

\* Every layer of the cached manifest is in the image, each once and in order,
\* and nothing of an earlier run, and with them /sbin/init and the metadata of
\* this image.  A layer that is not what its digest says can get there only with
\* -skip-pull, after a pull that did not complete.
imageIsWhole ==
    LET fs == disk["rootfs.ext4"]
        m == disk["manifest.json"]
    IN  /\ Len(fs.layers) = Len(m.layers)
        /\ \A i \in 1..Len(m.layers) :
              \/ fs.layers[i] = m.layers[i]
              \/ fs.layers[i] = Junk /\ skipPull /\ cached = None
        /\ fs.init
        /\ fs.meta.image = image /\ fs.meta.config = m.config

\* A run that succeeds has made a whole image; without -skip-pull, of a
\* manifest for this platform if there is one.
ConvertedIsWhole == pc = "done" => imageIsWhole /\ (skipPull \/ platformIsOurs)

\* What a successful run leaves belongs together, whatever earlier runs of
\* other images left: the archive, if its end was written, holds what the
\* image holds, image-meta.json is the metadata in the image, and the
\* suggested request names the image and a port it exposes, by TCP if it can.
OutputsAgree ==
    pc = "done" =>
        LET fs == disk["rootfs.ext4"]
            request == disk["suggested-vm-request.json"]
            exposed == Exposed[fs.meta.config]
        IN  /\ disk["rootfs"] = fs
            /\ disk["rootfs.tar"] \in {fs, Junk}
            /\ disk["image-meta.json"] = fs.meta
            /\ request.image = fs.meta.image
            /\ IF exposed = {} THEN request.httpPort = 80
               ELSE /\ \E e \in exposed : e.port = request.httpPort
                    /\ (\E e \in exposed : e.tcp)
                           => [port |-> request.httpPort, tcp |-> TRUE] \in exposed

\* manifest.json and config.json are written one after the other into a cache
\* that was emptied first: whatever a pull of another image left behind,
\* -skip-pull never reads the manifest of one image and the configuration of
\* another.
cacheIsOfOneImage ==
    usable(disk["manifest.json"]) /\ disk["config.json"] \notin {None, Junk}
        => disk["config.json"] = disk["manifest.json"].config

\* README: -skip-pull reuses the image cache of a previous conversion.  After
\* a pull that completed, however that run and later -skip-pull runs ended,
\* the cache holds the manifest, the configuration and every layer, verified.
pullCanBeRepeated ==
    cached # None =>
        /\ disk["manifest.json"] = cached
        /\ disk["config.json"] = cached.config
        /\ \A l \in ToSet(cached.layers) : disk[l] = l

\* Whatever runs succeeded, failed or died in this directory, what -skip-pull
\* finds is of one image, and complete if the last pull was.
CacheIsSound == cacheIsOfOneImage /\ pullCanBeRepeated

=============================================================================

------------------------------- MODULE FSStore -------------------------------
(***************************************************************************)
(* internal/store/fs_store.go: what is on disk for each VM.                *)
(*                                                                         *)
(* meta[v] is the content of <configRoot>/v/meta.json, NoMeta when the     *)
(* file is not there; entries[v] are the other files and the directories.  *)
(* writeAtomic renames a temporary file over its target, so a file is      *)
(* either absent or complete and one step stands for one file.             *)
(***************************************************************************)
CONSTANTS VM,      \* the ids newUUIDv4 may return
          NoMeta   \* meta.json is not on disk

VARIABLES meta, entries

storeVars == <<meta, entries>>

Directory == {"configDir", "runDir", "dataDir"}

ConfigFile == {"vm.json", "meta.json", "hooks.json", "env"}

Entry == Directory \cup (ConfigFile \ {"meta.json"})

StoreInit == /\ meta = [v \in VM |-> NoMeta]
             /\ entries = [v \in VM |-> {}]

-----------------------------------------------------------------------------
(* Reads *)

Exists(v) == meta[v] # NoMeta

\* The subdirectories of configRoot, whatever they hold.
ListVMIDs == {v \in VM : "configDir" \in entries[v]}

\* What os.RemoveAll finds in the config directory.
configFiles(v) == (entries[v] \cap ConfigFile)
                     \cup (IF Exists(v) THEN {"meta.json"} ELSE {})

-----------------------------------------------------------------------------
(* Writes *)

MkdirAll(v, dir) == /\ entries' = [entries EXCEPT ![v] = @ \cup {dir}]
                    /\ UNCHANGED meta

\* writeAtomic first makes the parent directory again if it is gone.
writeFile(v, file) ==
    /\ entries' = [entries EXCEPT ![v] = @ \cup {"configDir", file}]
    /\ UNCHANGED meta

writeMeta(v, content) ==
    /\ entries' = [entries EXCEPT ![v] = @ \cup {"configDir"}]
    /\ meta' = [meta EXCEPT ![v] = content]

unlink(v, file) ==
    IF file = "meta.json"
    THEN meta' = [meta EXCEPT ![v] = NoMeta] /\ UNCHANGED entries
    ELSE entries' = [entries EXCEPT ![v] = @ \ {file}] /\ UNCHANGED meta

rmdir(v, dir) == /\ entries' = [entries EXCEPT ![v] = @ \ {dir}]
                 /\ UNCHANGED meta

=============================================================================

------------------------------ MODULE Registry ------------------------------
(***************************************************************************)
(* What mergend promises the clients of POST /v1/vms and DELETE            *)
(* /v1/vms/:id, whatever handlers interleave, fail or die with the         *)
(* process.  Manager implements it.                                        *)
(***************************************************************************)
CONSTANT VM

VARIABLES status,     \* of each VM: what a client can find under its id
          created,    \* VMs whose creation was answered with 201
          deleted     \* VMs whose deletion was answered with 200

registryVars == <<status, created, deleted>>

Stage == {"absent", "present", "removed"}

RegistryInit == /\ status = [v \in VM |-> "absent"]
                /\ created = {}
                /\ deleted = {}

\* meta.json is written: an id is used once and never comes back.
Register(v) == /\ status[v] = "absent"
               /\ status' = [status EXCEPT ![v] = "present"]
               /\ UNCHANGED <<created, deleted>>

\* meta.json is removed.
Remove(v) == /\ status[v] = "present"
             /\ status' = [status EXCEPT ![v] = "removed"]
             /\ UNCHANGED <<created, deleted>>

\* 201: the VM has been registered; it may already be gone again.
AckCreate(v) == /\ status[v] # "absent"
                /\ v \notin created
                /\ created' = created \cup {v}
                /\ UNCHANGED <<status, deleted>>

\* 200 for a delete: the VM is gone and no other client was told so.
AckDelete(v) == /\ status[v] = "removed"
                /\ v \notin deleted
                /\ deleted' = deleted \cup {v}
                /\ UNCHANGED <<status, created>>

RegistryNext == \E v \in VM : \/ Register(v)
                              \/ Remove(v)
                              \/ AckCreate(v)
                              \/ AckDelete(v)

RegistrySpec == RegistryInit /\ [][RegistryNext]_registryVars

=============================================================================

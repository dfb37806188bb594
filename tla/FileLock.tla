------------------------------ MODULE FileLock ------------------------------
(***************************************************************************)
(* internal/lock/lock.go: an exclusive, non-blocking flock on              *)
(* <runRoot>/<id>.lock.  The lock file is next to the VM's run directory,  *)
(* not in it, and is never removed, so every handler locks the same inode. *)
(***************************************************************************)
EXTENDS FSStore

CONSTANTS Handler,   \* the concurrent requests mergend serves
          None       \* the lock is free; no VM

ASSUME NoneAssumption == None \notin Handler \cup VM

VARIABLE lock        \* who holds the flock of a VM

LockInit == lock = [v \in VM |-> None]

\* Mutant: LOCK_SH in place of LOCK_EX, the last one to come is recorded.
Acquire_Mutant(p, v) == lock' = [lock EXCEPT ![v] = p]

Acquire(p, v) == /\ lock[v] = None
                 /\ lock' = [lock EXCEPT ![v] = p]

\* ErrAlreadyLocked
AlreadyLocked(v) == lock[v] # None /\ UNCHANGED lock

Release(v) == lock' = [lock EXCEPT ![v] = None]

\* The kernel drops the flocks of a process that dies.
DropAll == lock' = [v \in VM |-> None]

=============================================================================

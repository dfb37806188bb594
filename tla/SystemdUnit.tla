----------------------------- MODULE SystemdUnit -----------------------------
(***************************************************************************)
(* The unit mergen@<id>.service (deploy/systemd/mergen@.service) and the   *)
(* scripts it runs, under systemd.                                         *)
(*                                                                         *)
(* unit[v]: "inactive", "failed", "pre" (ExecStartPre), "post" (ExecStart  *)
(* forked, ExecStartPost running), "active", "stopping", and "restart"     *)
(* (Restart=on-failure, waiting for RestartSec).  Only "active" makes      *)
(* systemctl is-active succeed: "pre", "post" and "restart" are reported   *)
(* as activating, "stopping" as deactivating.                              *)
(*                                                                         *)
(* job[v]: the job of the last systemctl start or stop, or its result.     *)
(* The job belongs to systemd: it goes on when systemctl is killed.        *)
(***************************************************************************)
EXTENDS FSStore

CONSTANT Faults   \* the failures a run allows, see Manager

VARIABLES unit, job

unitVars == <<unit, job>>

UnitState == {"inactive", "failed", "pre", "post", "active", "stopping", "restart"}

JobState == {"none", "start", "stop", "done", "failed"}

UnitInit == /\ unit = [v \in VM |-> "inactive"]
            /\ job = [v \in VM |-> "none"]

-----------------------------------------------------------------------------
(* What systemctl asks of systemd *)

isActive(v) == unit[v] = "active"

startJob(v) ==
    /\ job' = [job EXCEPT ![v] = IF unit[v] = "active" THEN "done" ELSE "start"]
    /\ UNCHANGED unit

stopJob(v) ==
    IF unit[v] \in {"inactive", "failed"}
    THEN job' = [job EXCEPT ![v] = "done"] /\ UNCHANGED unit
    ELSE /\ unit' = [unit EXCEPT ![v] = "stopping"]
         /\ job' = [job EXCEPT ![v] = "stop"]

\* The result is collected by the systemctl that waits for it.
collectJob(v) == job' = [job EXCEPT ![v] = "none"] /\ UNCHANGED unit

-----------------------------------------------------------------------------
(* What the unit does *)

endJob(v, kind, outcome) ==
    job' = [job EXCEPT ![v] = IF @ = kind THEN outcome ELSE @]

BeginStart(v) ==
    /\ \/ unit[v] \in {"inactive", "failed"} /\ job[v] = "start"
       \/ unit[v] = "restart"
    /\ unit' = [unit EXCEPT ![v] = "pre"]
    /\ UNCHANGED <<job, storeVars>>

StartFails(v) == /\ unit' = [unit EXCEPT ![v] = "restart"]
                 /\ endJob(v, "start", "failed")
                 /\ UNCHANGED storeVars

\* mergen-net-setup exits with an error when meta.json is missing; then
\* mergen-jailer-start makes the run directory and execs firecracker.
ExecStartPre(v) == /\ unit[v] = "pre"
                   /\ Exists(v)
                   /\ unit' = [unit EXCEPT ![v] = "post"]
                   /\ MkdirAll(v, "runDir")
                   /\ UNCHANGED job

ExecStartPreFails(v) == /\ unit[v] = "pre"
                        /\ ~Exists(v) \/ "vm" \in Faults
                        /\ StartFails(v)

\* mergen-configure-start exits with an error when vm.json is missing, the
\* socket does not come up in time or an API call is refused.
ExecStartPost(v) == /\ unit[v] = "post"
                    /\ "vm.json" \in entries[v]
                    /\ unit' = [unit EXCEPT ![v] = "active"]
                    /\ endJob(v, "start", "done")
                    /\ UNCHANGED storeVars

ExecStartPostFails(v) == /\ unit[v] = "post"
                         /\ "vm.json" \notin entries[v] \/ "vm" \in Faults
                         /\ StartFails(v)

\* The firecracker process exits: cleanly, or with a failure and then
\* Restart=on-failure applies.
MainExits(v) == /\ unit[v] = "active"
                /\ "vm" \in Faults
                /\ \E s \in {"inactive", "restart"} : unit' = [unit EXCEPT ![v] = s]
                /\ UNCHANGED <<job, storeVars>>

\* The start limit is hit and systemd does not restart the unit again.
StartLimitHit(v) == /\ unit[v] = "restart"
                    /\ unit' = [unit EXCEPT ![v] = "failed"]
                    /\ endJob(v, "start", "failed")
                    /\ UNCHANGED storeVars

\* ExecStop, the control group killed, ExecStopPost.  A start job that
\* replaced the stop job meanwhile is still to run.
StopEnds(v) == /\ unit[v] = "stopping"
               /\ unit' = [unit EXCEPT ![v] = "inactive"]
               /\ endJob(v, "stop", "done")
               /\ UNCHANGED storeVars

UnitNext(v) == \/ BeginStart(v)
               \/ ExecStartPre(v)
               \/ ExecStartPreFails(v)
               \/ ExecStartPost(v)
               \/ ExecStartPostFails(v)
               \/ MainExits(v)
               \/ StartLimitHit(v)
               \/ StopEnds(v)

=============================================================================

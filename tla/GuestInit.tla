------------------------------ MODULE GuestInit ------------------------------
(***************************************************************************)
(* mergen-init-snapshot (cmd/mergen-init-snapshot/main.go), process 1 of a *)
(* guest: it mounts file systems, reads what to run, starts the service    *)
(* and then reaps children and forwards signals until the service ends.    *)
(* When process 1 exits the guest is over.                                 *)
(*                                                                         *)
(* The boot is sequential and its steps are seen by nobody else, so only   *)
(* those that later steps depend on leave a trace: whether /proc is there  *)
(* and where the start specification comes from.  The set-up of host name, *)
(* resolv.conf, hosts, volumes, links and addresses is SetupDone and       *)
(* SetupFails.                                                             *)
(*                                                                         *)
(* Signals: the kernel and the Go runtime keep one pending bit per signal  *)
(* (pending); signal.Notify hands it to a channel of limited capacity and  *)
(* drops it when the channel is full.  "TERM" stands for every signal that *)
(* is forwarded; it is sent once in a behaviour.                           *)
(***************************************************************************)
EXTENDS Naturals, Sequences

CONSTANTS Child,       \* processes init adopts, each at most once
          Status,      \* how the service can end: [how, n]
          ChannelCap   \* capacity of sigCh

ASSUME StatusAssumption == Status \subseteq [how : {"exited", "signaled"}, n : Nat]
ASSUME ChannelAssumption == ChannelCap \in Nat \ {0}

VARIABLES
    pc,        \* where run() is
    files,     \* the specifications that exist in the image
    named,     \* whether the kernel command line has mergen.meta=
    proc,      \* whether /proc can be read
    candidates,\* commands startMainProcess has not tried yet
    main,      \* the service: "none", "running", "zombie", "reaped"
    ended,     \* how the service ended
    child,     \* other children, in the same states
    pending,   \* signals raised and not yet given to the channel
    sigCh,     \* the channel
    term,      \* history: "unsent", "pending", "queued", "dropped", "forwarded"
    code       \* exit status of init

bootVars == <<files, named, proc, candidates>>
childVars == <<main, ended, child>>
signalVars == <<pending, sigCh, term>>
vars == <<pc, bootVars, childVars, signalVars, code>>

\* /etc/mergen/image-meta.json, the file of mergen.meta=, /fly/run.json
Source == {"default", "named", "fly"}

ProcState == {"none", "running", "zombie", "reaped"}

NotEnded == [how |-> "exited", n |-> 0]

TypeOK ==
    /\ pc \in {"mounts", "load", "setup", "user", "start", "notify", "reap", "select", "done"}
    /\ files \subseteq Source
    /\ named \in BOOLEAN
    /\ proc \in BOOLEAN
    /\ candidates \in 1..2
    /\ main \in ProcState
    /\ ended \in Status \cup {NotEnded}
    /\ child \in [Child -> ProcState]
    /\ pending \subseteq {"CHLD", "TERM"}
    /\ sigCh \in Seq({"CHLD", "TERM"})
    /\ Len(sigCh) <= ChannelCap
    /\ term \in {"unsent", "pending", "queued", "dropped", "forwarded"}
    /\ code \in Nat

Init ==
    /\ pc = "mounts"
    /\ files \in SUBSET Source
    /\ named \in BOOLEAN
    /\ proc = FALSE
    /\ candidates \in 1..2
    /\ main = "none" /\ ended = NotEnded
    /\ child = [c \in Child |-> "none"]
    /\ pending = {} /\ sigCh = << >> /\ term = "unsent"
    /\ code = 0

Exit(status) == pc' = "done" /\ code' = status

-----------------------------------------------------------------------------
(* Boot *)

\* A directory that cannot be made is fatal.
MountsFail ==
    /\ pc = "mounts"
    /\ Exit(1)
    /\ UNCHANGED <<bootVars, childVars, signalVars>>

\* A mount that fails is not, the one of /proc included.
setupBaseMounts ==
    /\ pc = "mounts"
    /\ proc' \in BOOLEAN
    /\ pc' = "load"
    /\ UNCHANGED <<files, named, candidates, childVars, signalVars, code>>

resolveMetaPath == IF proc /\ named THEN "named" ELSE "default"

\* run.json is read if there is no image-meta.json.
loadStartSpec ==
    /\ pc = "load"
    /\ resolveMetaPath \in files \/ "fly" \in files
    /\ pc' = "setup"
    /\ UNCHANGED <<bootVars, childVars, signalVars, code>>

\* There is no specification, or it cannot be read.
LoadFails ==
    /\ pc = "load"
    /\ Exit(1)
    /\ UNCHANGED <<bootVars, childVars, signalVars>>

\* resolv.conf, hosts or a volume.
SetupFails ==
    /\ pc = "setup"
    /\ Exit(1)
    /\ UNCHANGED <<bootVars, childVars, signalVars>>

\* Links and addresses that cannot be set up are logged; a volume without a
\* path or a device is skipped, and one that is busy counts as mounted.
SetupDone ==
    /\ pc = "setup"
    /\ pc' = "user"
    /\ UNCHANGED <<bootVars, childVars, signalVars, code>>

resolveUser ==
    /\ pc = "user"
    /\ \/ pc' = "start" /\ UNCHANGED code
       \/ Exit(1)
    /\ UNCHANGED <<bootVars, childVars, signalVars>>

\* The command of the image, then the same as a line for /bin/sh, unless it is
\* empty or such a line already.
startMainProcess ==
    /\ pc = "start"
    /\ main' = "running"
    /\ pc' = "notify"
    /\ UNCHANGED <<bootVars, ended, child, signalVars, code>>

\* Mutant: the error of the last candidate is not returned.
StartFails_Mutant ==
    /\ pc = "start"
    /\ \/ candidates > 1 /\ candidates' = candidates - 1 /\ UNCHANGED <<pc, code>>
       \/ candidates = 1 /\ Exit(0) /\ UNCHANGED candidates
    /\ UNCHANGED <<files, named, proc, childVars, signalVars>>

StartFails ==
    /\ pc = "start"
    /\ \/ candidates > 1 /\ candidates' = candidates - 1 /\ UNCHANGED <<pc, code>>
       \/ candidates = 1 /\ Exit(1) /\ UNCHANGED candidates
    /\ UNCHANGED <<files, named, proc, childVars, signalVars>>

Notify ==
    /\ pc = "notify"
    /\ pc' = "reap"
    /\ UNCHANGED <<bootVars, childVars, signalVars, code>>

-----------------------------------------------------------------------------
(* The loop: reapChildren, one wait4 per step, then select *)

waitStatusToExitCode(status) ==
    IF status.how = "exited" THEN status.n ELSE 128 + status.n

\* Mutant: the children that are left are reaped before main is looked at.
ReapMain_Mutant ==
    /\ pc = "reap"
    /\ main = "zombie"
    /\ main' = "reaped"
    /\ UNCHANGED <<pc, bootVars, ended, child, signalVars, code>>

ReapMain ==
    /\ pc = "reap"
    /\ main = "zombie"
    /\ main' = "reaped"
    /\ Exit(waitStatusToExitCode(ended))
    /\ UNCHANGED <<bootVars, ended, child, signalVars>>

ReapChild(c) ==
    /\ pc = "reap"
    /\ child[c] = "zombie"
    /\ child' = [child EXCEPT ![c] = "reaped"]
    /\ UNCHANGED <<pc, bootVars, main, ended, signalVars, code>>

\* Mutant: wait4 asks for the service only.
zombies_OfMain == main = "zombie"

\* Mutant: wait4 does not report the service.
zombies_OfOthers == \E c \in Child : child[c] = "zombie"

zombies == main = "zombie" \/ \E c \in Child : child[c] = "zombie"

\* wait4 returns 0 or ECHILD.
NothingToReap ==
    /\ pc = "reap"
    /\ ~zombies
    /\ pc' = "select"
    /\ UNCHANGED <<bootVars, childVars, signalVars, code>>

ReapFails ==
    /\ pc = "reap"
    /\ Exit(1)
    /\ UNCHANGED <<bootVars, childVars, signalVars>>

\* Mutant: what else is queued is dropped with a SIGCHLD.
ReceiveChild_Mutant ==
    /\ pc = "select"
    /\ sigCh # << >> /\ Head(sigCh) = "CHLD"
    /\ sigCh' = << >>
    /\ pc' = "reap"
    /\ UNCHANGED <<bootVars, childVars, pending, term, code>>

ReceiveChild ==
    /\ pc = "select"
    /\ sigCh # << >> /\ Head(sigCh) = "CHLD"
    /\ sigCh' = Tail(sigCh)
    /\ pc' = "reap"
    /\ UNCHANGED <<bootVars, childVars, pending, term, code>>

\* kill(-mainPID); a group without processes (ESRCH) is not an error.
forwardSignal ==
    /\ pc = "select"
    /\ sigCh # << >> /\ Head(sigCh) = "TERM"
    /\ sigCh' = Tail(sigCh)
    /\ term' = "forwarded"
    /\ pc' = "reap"
    /\ UNCHANGED <<bootVars, childVars, pending, code>>

Tick ==
    /\ pc = "select"
    /\ pc' = "reap"
    /\ UNCHANGED <<bootVars, childVars, signalVars, code>>

-----------------------------------------------------------------------------
(* The processes and the signals they raise *)

alive == pc # "done"

MainEnds ==
    /\ alive
    /\ main = "running"
    /\ main' = "zombie"
    /\ ended' \in Status
    /\ pending' = pending \cup {"CHLD"}
    /\ UNCHANGED <<pc, bootVars, child, sigCh, term, code>>

\* A process of the service loses its parent.
Adopt(c) ==
    /\ alive
    /\ main # "none"
    /\ child[c] = "none"
    /\ child' = [child EXCEPT ![c] = "running"]
    /\ UNCHANGED <<pc, bootVars, main, ended, signalVars, code>>

ChildEnds(c) ==
    /\ alive
    /\ child[c] = "running"
    /\ child' = [child EXCEPT ![c] = "zombie"]
    /\ pending' = pending \cup {"CHLD"}
    /\ UNCHANGED <<pc, bootVars, main, ended, sigCh, term, code>>

SendTerm ==
    /\ alive
    /\ term = "unsent"
    /\ term' = "pending"
    /\ pending' = pending \cup {"TERM"}
    /\ UNCHANGED <<pc, bootVars, childVars, sigCh, code>>

notified == pc \in {"reap", "select"}

\* The Go runtime without signal.Notify: SIGCHLD is ignored, SIGTERM ends the
\* process with status 2.
Unnotified(s) ==
    /\ alive /\ ~notified
    /\ s \in pending
    /\ pending' = pending \ {s}
    /\ \/ s = "CHLD" /\ UNCHANGED <<pc, code>>
       \/ s = "TERM" /\ Exit(2)
    /\ UNCHANGED <<bootVars, childVars, sigCh, term>>

Enqueue(s) ==
    /\ notified
    /\ s \in pending
    /\ pending' = pending \ {s}
    /\ Len(sigCh) < ChannelCap
    /\ sigCh' = Append(sigCh, s)
    /\ term' = IF s = "TERM" THEN "queued" ELSE term
    /\ UNCHANGED <<pc, bootVars, childVars, code>>

Drop(s) ==
    /\ notified
    /\ s \in pending
    /\ pending' = pending \ {s}
    /\ Len(sigCh) = ChannelCap
    /\ term' = IF s = "TERM" THEN "dropped" ELSE term
    /\ UNCHANGED <<pc, bootVars, childVars, sigCh, code>>

-----------------------------------------------------------------------------
(* The specification *)

Boot == \/ MountsFail
        \/ setupBaseMounts
        \/ loadStartSpec
        \/ LoadFails
        \/ SetupFails
        \/ SetupDone
        \/ resolveUser
        \/ startMainProcess
        \/ StartFails
        \/ Notify

Supervise == \/ ReapMain
             \/ \E c \in Child : ReapChild(c)
             \/ NothingToReap
             \/ ReapFails
             \/ ReceiveChild
             \/ forwardSignal
             \/ Tick

Signals == \E s \in {"CHLD", "TERM"} : Unnotified(s) \/ Enqueue(s) \/ Drop(s)

Processes == MainEnds \/ SendTerm \/ \E c \in Child : Adopt(c) \/ ChildEnds(c)

Next == Boot \/ Supervise \/ Signals \/ Processes

\* init runs; select does not pass over a signal for ever in favour of the
\* ticker; processes need not end.
Fairness == /\ WF_vars(Boot)
            /\ WF_vars(Supervise)
            /\ SF_vars(ReceiveChild \/ forwardSignal)

Spec == Init /\ [][Next]_vars

FairSpec == Spec /\ Fairness

-----------------------------------------------------------------------------
(* Properties *)

\* What the host sees: process 1 exits with the status of the service if it
\* has reaped it, whichever children were reaped on the way, and otherwise
\* with a failure: no boot that broke off looks like a service that ended well.
ExitTellsTheService ==
    pc = "done" => IF main = "reaped" THEN code = waitStatusToExitCode(ended)
                                      ELSE code # 0

\* While the loop may forward a signal, the service's pid is still its own: it
\* runs, or it is a zombie whose pid the kernel does not give away.
PIDIsOurs == notified => main \in {"running", "zombie"}

\* Children that lost their parents do not pile up as zombies, although
\* SIGCHLDs are merged, dropped and ignored before signal.Notify.
ZombiesAreReaped ==
    \A c \in Child : child[c] = "zombie" ~> child[c] = "reaped" \/ pc = "done"

\* The guest ends when its service has ended, even if it did before
\* signal.Notify.
ServiceEndEndsGuest == main = "zombie" ~> pc = "done"

\* A signal that got into the channel is forwarded, if init lives long enough.
QueuedTermIsForwarded == term = "queued" ~> term = "forwarded" \/ pc = "done"

=============================================================================

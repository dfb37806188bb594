----------------------------- MODULE HookRunner -----------------------------
(***************************************************************************)
(* internal/hooks/runner.go: the hooks of an event run one after the other *)
(* in a goroutine that nobody waits for, with 20 seconds for all of them   *)
(* and, if it says so, a timeout for each.                                 *)
(*                                                                         *)
(* Such goroutines share nothing, with each other or with the handlers     *)
(* that start them, so one of them is followed.  Whether a hook is strict  *)
(* decides only what is logged at the end.                                 *)
(***************************************************************************)
EXTENDS Naturals, SequencesExt

CONSTANTS GlobalFiles,  \* the files of hooksRoot in order, each with its hooks
                        \* for the event
          VMHooks       \* the lists of hooks a VM may have for the event

VARIABLES
    hooks,    \* what RunAsync was given; empty before it was called
    ran,      \* for every hook that had its turn: was it run at all?
    now,      \* "none", "between" two hooks, "running" one, "over"
    expired   \* the 20 seconds are over

hookVars == <<hooks, ran, now, expired>>

\* type: "http", "exec", "daemon" (an exec hook that leaves a child process
\* behind with its output still open) or "bad" (an unsupported type, no URL, no
\* command, a template that fails); timeout: whether TimeoutMs is set.
Hook == [type : {"http", "exec", "daemon", "bad"}, timeout : BOOLEAN]

ASSUME HooksAssumption == /\ GlobalFiles \in Seq(Seq(Hook))
                          /\ VMHooks \subseteq Seq(Hook)

HookInit == hooks = << >> /\ ran = << >> /\ now = "none" /\ expired = FALSE

-----------------------------------------------------------------------------
(* triggerHooks *)

\* ReadGlobalHooks: a file that cannot be read ends the reading, what was read
\* before it counts.
ReadGlobalHooks == {FlattenSeq(SubSeq(GlobalFiles, 1, n)) : n \in 0..Len(GlobalFiles)}

\* The global hooks, then the VM's.
eventHooks == {globalHooks \o vmHooks : globalHooks \in ReadGlobalHooks, vmHooks \in VMHooks}

\* No goroutine when there is nothing to run.
RunAsync ==
    /\ now = "none"
    /\ hooks' \in eventHooks \ {<< >>}
    /\ now' = "between"
    /\ UNCHANGED <<ran, expired>>

-----------------------------------------------------------------------------
(* Run *)

current == hooks[Len(ran) + 1]

HadItsTurn(wasRun) == /\ ran' = Append(ran, wasRun)
                      /\ now' = "between"
                      /\ UNCHANGED <<hooks, expired>>

\* execute fails before anything is run: the hook is bad, or its context is done
\* and refuses the request or the command, because the 20 seconds are over or
\* the hook's own timeout already is.
HookRefused ==
    /\ now = "between"
    /\ Len(ran) < Len(hooks)
    /\ current.type = "bad" \/ current.timeout \/ expired
    /\ HadItsTurn(FALSE)

HookBegins ==
    /\ now = "between"
    /\ Len(ran) < Len(hooks)
    /\ current.type # "bad" /\ ~expired
    /\ now' = "running"
    /\ UNCHANGED <<hooks, ran, expired>>

\* Mutant: Run returns at the first hook that fails.
HookEnds_Mutant ==
    /\ now = "running"
    /\ ran' = Append(ran, TRUE)
    /\ now' \in {"between", "over"}
    /\ UNCHANGED <<hooks, expired>>

\* By itself, with or without success: the loop goes on with the next hook.
HookEnds == now = "running" /\ HadItsTurn(TRUE)

\* Mutant: the hook's context is not derived from the context of the run.
HookTimesOut_Mutant ==
    /\ now = "running"
    /\ current.type # "daemon"
    /\ current.timeout
    /\ HadItsTurn(TRUE)

\* The context of the hook or of the run is done: the request is dropped, the
\* command killed.  CombinedOutput still waits for the end of the output, which
\* a child process left behind keeps open.
HookTimesOut ==
    /\ now = "running"
    /\ current.type # "daemon"
    /\ current.timeout \/ expired
    /\ HadItsTurn(TRUE)

BudgetExpires ==
    /\ now \in {"between", "running"}
    /\ expired' = TRUE
    /\ UNCHANGED <<hooks, ran, now>>

RunReturns ==
    /\ now = "between"
    /\ Len(ran) = Len(hooks)
    /\ now' = "over"
    /\ UNCHANGED <<hooks, ran, expired>>

\* mergend ends, and the goroutine with it.
Killed ==
    /\ now \in {"between", "running"}
    /\ hooks' = << >> /\ ran' = << >> /\ now' = "none" /\ expired' = FALSE

HookNext == \/ RunAsync
            \/ HookRefused
            \/ HookBegins
            \/ HookEnds
            \/ HookTimesOut
            \/ BudgetExpires
            \/ RunReturns
            \/ Killed

\* Timers fire and the loop goes on; a hook need not end by itself.
HookFairness == /\ WF_hookVars(HookRefused \/ HookBegins)
                /\ WF_hookVars(HookTimesOut)
                /\ WF_hookVars(BudgetExpires)
                /\ WF_hookVars(RunReturns)

HookSpec == HookInit /\ [][HookNext]_hookVars /\ HookFairness

-----------------------------------------------------------------------------
(* Properties *)

\* What can keep a hook from being run apart from the 20 seconds.
mayFailAlone(hook) == hook.type = "bad" \/ hook.timeout

\* When Run returns every hook has had its turn, once and in order, whatever
\* the hooks before it did: one is passed over for a fault or a timeout of its
\* own, or because the 20 seconds were over, and from then on none was begun.
\* So the failure or the timeout of a hook costs no other its turn.
EveryHookHadItsTurn ==
    now = "over" =>
        /\ Len(ran) = Len(hooks)
        /\ \A i \in 1..Len(hooks) : ran[i] \/ mayFailAlone(hooks[i]) \/ expired
        /\ \A i, j \in 1..Len(hooks) :
              i < j /\ ~ran[i] /\ ~mayFailAlone(hooks[i]) => ~ran[j]

\* The goroutine ends, though a server may never answer and a command never
\* exit, unless a command has left a child process that holds its output.
HookRunEnds ==
    (now # "none" /\ \A i \in 1..Len(hooks) : hooks[i].type # "daemon")
        ~> now \in {"none", "over"}

=============================================================================

---------------------------- MODULE MCHookRunner ----------------------------
(***************************************************************************)
(* Constants of the hook runner's model for TLC: two files of global       *)
(* hooks, and VMs with no hook or with one or two of any kind.             *)
(***************************************************************************)
EXTENDS HookRunner

MCGlobalFiles == <<<<[type |-> "http", timeout |-> FALSE]>>,
                   <<[type |-> "bad", timeout |-> FALSE], [type |-> "exec", timeout |-> TRUE]>>>>

MCVMHooks == {<< >>} \cup {<<h>> : h \in Hook} \cup (Hook \X Hook)

=============================================================================

---------------------------- MODULE MCLifecycle ----------------------------
(* Small instances of Lifecycle. *)
EXTENDS Lifecycle

None == {}
Delete == {"delete"}
DeleteAndRestore == {"delete", "restore"}
AllEdits == EditKinds

AllFailures == FailureKinds
Removals == {"remove"}

\* The adventure's auto_start setting is off.
Unset == {FALSE}
==============================================================================

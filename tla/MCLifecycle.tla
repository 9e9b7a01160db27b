---------------------------- MODULE MCLifecycle ----------------------------
(* The informers that the two methods Run start: the describer's node      *)
(* informer is not among them.                                             *)
EXTENDS Lifecycle

MCInformersOf == [watcher |-> {"pod", "vm", "dv", "svc"}, describer |-> {"pod"}]
=============================================================================

-------------------------- MODULE MCDescriberAudit --------------------------
(* DescriberAudit on the small clusters of MCCluster. *)
EXTENDS DescriberAudit, MCCluster
=============================================================================

------------------------- MODULE MCWorkloadManager -------------------------
(* One request for each of two GPUs, and one for an image that is not      *)
(* there.                                                                  *)
EXTENDS WorkloadManager

CONSTANTS r1, r2, r3, g1, g2

MCGpuOf == [w \in Requests |-> IF w = r1 THEN g1 ELSE IF w = r2 THEN g2 ELSE NoGpu]
MCHasImage == [w \in Requests |-> w # r3]
=============================================================================

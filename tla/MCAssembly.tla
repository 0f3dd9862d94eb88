----------------------------- MODULE MCAssembly -----------------------------
(* Instances of Assembly: up to three calls of DefaultFinalizeFunc. *)
EXTENDS Assembly

CONSTANTS f1, f2, f3
=============================================================================

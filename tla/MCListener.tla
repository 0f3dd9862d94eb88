----------------------------- MODULE MCListener -----------------------------
(* Listener is instantiated by its configuration alone.                    *)
EXTENDS Listener
=============================================================================

--------------------------- MODULE MCEventDispatch ---------------------------
(* The handler loop over the production handler tables, with MaxRetries    *)
(* retries of every failed run.                                            *)
EXTENDS EventDispatch
==============================================================================

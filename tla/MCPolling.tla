------------------------------ MODULE MCPolling ------------------------------
(* Model checking instances of Polling.                                    *)
EXTENDS Polling
=============================================================================

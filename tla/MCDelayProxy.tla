---------------------------- MODULE MCDelayProxy ----------------------------
(* A small instance of the proxy: every impairment on, towards the server only. *)
EXTENDS DelayProxy
=============================================================================

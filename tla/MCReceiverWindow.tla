-------------------------- MODULE MCReceiverWindow --------------------------
(***************************************************************************)
(* A window of five over thirteen chunks, far from the end of the sequence *)
(* space (MCReceiverWindow.cfg) and running into it                        *)
(* (MCReceiverWindowWrap.cfg).                                             *)
(***************************************************************************)
EXTENDS ReceiverWindow
=============================================================================

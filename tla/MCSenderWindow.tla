--------------------------- MODULE MCSenderWindow ---------------------------
(***************************************************************************)
(* A ring of two slots and enough packets to reuse each slot, with enough  *)
(* generations for a packet to be sent, retransmitted and acknowledged.    *)
(***************************************************************************)
EXTENDS SenderWindow
=============================================================================

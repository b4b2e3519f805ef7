------------------------- MODULE MCBlockingReceiver -------------------------
(***************************************************************************)
(* Two clients on two ports for one receive_file: a file of three chunks   *)
(* (the last one short), and a file whose packets stray in at any moment.  *)
(***************************************************************************)
EXTENDS BlockingReceiver

Alice == [from |-> "a", session_id |-> 1, name |-> <<<<"f">>>>,
          contents |-> <<"a1", "a2", "a3", "a4", "a5">>]
Stray == [from |-> "b", session_id |-> 2, name |-> <<<<"f">>>>,
          contents |-> <<"b1">>]

Both == {Alice, Stray}

PlainNames == {<<"f">>, <<"g">>}
=============================================================================

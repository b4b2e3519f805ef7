------------------------------ MODULE MCServer ------------------------------
(***************************************************************************)
(* Small instances of the server.  Three clients: one with a file of two   *)
(* chunks, one whose name is refused, and one who wants its file published *)
(* under the very name of its partial file.                                *)
(***************************************************************************)
EXTENDS EventLoop, Packet

Alice == [from |-> "a", session_id |-> 1, name |-> <<<<"f">>>>,
          contents |-> <<"a1", "a2", "a3">>]
Carol == [from |-> "c", session_id |-> 3, name |-> <<<<"bad">>>>,
          contents |-> <<>>]
Dave  == [from |-> "d", session_id |-> 4,
          name |-> <<<<"dir">>, PartialName(4)>>, contents |-> <<>>]

\* Two clients that drew the same session id.
Twin  == [from |-> "b", session_id |-> 1, name |-> <<<<"g">>>>,
          contents |-> <<"b1">>]

PlainNames == {<<"f">>, <<"g">>}
AcceptedNames == PlainNames \cup {PartialName(4)}

BusyPackets == UNION {PacketsOf(t) : t \in {Alice, Carol, Dave}}
SharedIdPackets == PacketsOf(Alice) \cup PacketsOf(Twin)
=============================================================================

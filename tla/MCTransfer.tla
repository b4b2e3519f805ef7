----------------------------- MODULE MCTransfer -----------------------------
(***************************************************************************)
(* Small instances of the whole system: a file of three chunks (the last   *)
(* one short), an empty file, and two transfers run one after the other    *)
(* from the same port.                                                     *)
(***************************************************************************)
EXTENDS Transfer

Alice == [from |-> "a", session_id |-> 1, name |-> <<<<"f">>>>,
          contents |-> <<"a1", "a2", "a3", "a4", "a5">>]
Bob   == [from |-> "b", session_id |-> 2, name |-> <<<<"dir">>, <<"f">>>>,
          contents |-> <<>>]
Carol == [from |-> "b", session_id |-> 3, name |-> <<<<"bad">>>>, contents |-> <<>>]
Again == [from |-> "a", session_id |-> 2, name |-> <<<<"g">>>>,
          contents |-> <<"b1">>]

Short == [Alice EXCEPT !.contents = <<"a1", "a2", "a3">>]

LongAndRefused == {Alice, Carol}
ShortAndEmpty == {Short, Bob}
OneShort == {Short}
OnePort == {Again, [Alice EXCEPT !.contents = <<"a1">>]}

AllPackets == UNION {PacketsOf(t) : t \in Transfers}

PlainNames == {<<"f">>, <<"g">>}
=============================================================================

------------------------------- MODULE MCRoom -------------------------------
(* Room for TLC: a name that leaves room for one digit, and a full one. *)
EXTENDS Room

MCWish == {<<"A">>, <<"A", "A">>}
=============================================================================

------------------------------ MODULE MCRelay -------------------------------
(* Relay for TLC: connections and names are interchangeable. *)
EXTENDS Relay, TLC

Symmetry == Permutations(Conn) \cup Permutations(Name)
=============================================================================

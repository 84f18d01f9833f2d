------------------------------ MODULE MCServer ------------------------------
(* Server on small sets of clients. *)
EXTENDS Server, TLC

\* Channels, connections of one kind, and stream requests are interchangeable.
Symmetry ==
    UNION {Permutations(S) : S \in {Channel, PubConn, SubConn, Streamer}}
=============================================================================

--------------------------- MODULE MCStableStream ---------------------------
(* StableStream on small sets of requests and processes. *)
EXTENDS StableStream, TLC

\* Requests, sources and fresh processes are interchangeable.
Symmetry ==
    Permutations(Listener) \cup Permutations(Source) \cup Permutations(Process)
=============================================================================

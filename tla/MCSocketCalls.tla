--------------------------- MODULE MCSocketCalls ---------------------------
(***************************************************************************)
(* The instances of SocketCalls that TLC checks.                           *)
(***************************************************************************)
EXTENDS SocketCalls, TLC

\* Host threads are alike, and so are contexts.
Symmetry == Permutations(Threads) \cup Permutations(Contexts)
=============================================================================

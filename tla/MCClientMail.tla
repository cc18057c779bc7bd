---------------------------- MODULE MCClientMail ----------------------------
(***************************************************************************)
(* Small instances of ClientMail for TLC.                                  *)
(***************************************************************************)
EXTENDS ClientMail, TLC

\* Clients, and host threads, are interchangeable.
Symmetry == Permutations(Clients) \cup Permutations(HostThreads)
=============================================================================

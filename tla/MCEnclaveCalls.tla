--------------------------- MODULE MCEnclaveCalls ---------------------------
(***************************************************************************)
(* Small instances of EnclaveCalls with two threads.                       *)
(***************************************************************************)
EXTENDS EnclaveCalls, TLC

CONSTANTS t1, t2

\* One thread nests deeply while the other makes single calls.
DeepFuel == t1 :> 4 @@ t2 :> 1

\* Both threads may nest a call, or post mail and go on.
EvenFuel == t1 :> 2 @@ t2 :> 2
=============================================================================

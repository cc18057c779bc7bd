------------------------------ MODULE MCFatDisk ------------------------------
(* The disks of an enclave that is restarted.                               *)
EXTENDS FatDisk

MCShuffle1(n) == [i \in 0 .. n - 1 |-> (i + 1) % n]
MCShuffle2(n) == [i \in 0 .. n - 1 |-> n - 1 - i]
MCPastTable(b) == 1                     \* a word like those in the table

Spec == DiskInit /\ [][DiskNextRestart]_diskVars
=============================================================================

------------------------------- MODULE MCNative -------------------------------
(***************************************************************************)
(* The native components, one at a time: a behaviour chooses one of them   *)
(* and the others rest.  They share no state, so nothing is lost.          *)
(***************************************************************************)
EXTENDS FatDisk, FatGeometry, FatNames, FileApi, MemoryManager, EnclaveThreads, SharedTime,
        NativeCalls

VARIABLE component

(* std::shuffle leaves a permutation; a rotation and a reversal stand for   *)
(* the two that the key gives.                                              *)
MCShuffle1(n) == [i \in 0 .. n - 1 |-> (i + 1) % n]
MCShuffle2(n) == [i \in 0 .. n - 1 |-> n - 1 - i]
MCPastTable(b) == 1                     \* a word like those in the table

(* Drive sizes about the bounds at which the type or the cluster size of    *)
(* the volume changes.                                                      *)
MCDriveSizes ==
    {0, 1, 63, 64, 190, 191, 192, 8000, 4148, 4149, 4158, 4159, 8234, 8235, 8284, 8285,
     16446, 16447, 16456, 16457, 65598, 65599, 65600, 2097184, 2097185, 4194015, 4194016}
        \cup {2 ^ i + 63 + d : i \in 7 .. 27, d \in {-1, 0, 1}} \cup {3 * 2 ^ i : i \in 6 .. 26}

(* Names over e E . space + and accented letters, and one character outside *)
(* the basic plane; then names with an extension, a number or an illegal    *)
(* character, and names that fill the buffers.                              *)
MCFileNames ==
    UNION {[1 .. n -> {101, 69, 46, 32, 43, 233, 201, 128512}] : n \in 1 .. 2}
        \cup [1 .. 3 -> {101, 46, 233, 128512}]
        \cup {<<101, 101, 101, 101>>, <<101, 42>>, <<252>>, <<220>>, <<101, 69, 46, 101>>,
              <<233, 101, 46, 69>>, <<101, 101, 46, 69>>, <<69, 126, 49>>, <<95, 126, 49>>,
              <<233, 233, 233, 101>>, <<128512, 128512, 101>>, <<101, 101, 46, 101, 101>>,
              <<101, 126, 49, 46, 101>>, <<201, 201, 201, 46, 201>>}

MCApiPaths == {<<>>, <<"a">>, <<"tmp">>, <<"tmp", "a">>}
MCMountTmp == <<"tmp">>

Components == {"disk", "geometry", "names", "api", "memory", "threads", "time", "calls"}

(* A component that rests stands at one of its initial states.              *)
Init ==
    /\ component \in Components
    /\ DiskInit /\ GeometryInit /\ NamesInit /\ ApiInit /\ MemInit /\ ThreadsInit /\ TimeInit
    /\ NativeInit
    /\ component # "geometry" => drive = 64
    /\ component # "names" => fileName = <<101>>

Rest(name, state) == component # name => UNCHANGED state

Next ==
    /\ UNCHANGED component
    /\ \/ component = "disk" /\ DiskNext
       \/ component = "geometry" /\ GeometryNext
       \/ component = "names" /\ NamesNext
       \/ component = "api" /\ ApiNext
       \/ component = "memory" /\ MemNext
       \/ component = "threads" /\ ThreadsNext
       \/ component = "time" /\ TimeNext
       \/ component = "calls" /\ NativeNext
    /\ Rest("disk", diskVars) /\ Rest("geometry", geometryVars) /\ Rest("names", nameVars)
    /\ Rest("api", apiVars) /\ Rest("memory", memVars) /\ Rest("threads", threadVars)
    /\ Rest("time", timeVars) /\ Rest("calls", nativeVars)

vars == <<component, diskVars, geometryVars, nameVars, apiVars, memVars, threadVars, timeVars,
          nativeVars>>

Spec == Init /\ [][Next]_vars /\ ThreadsFairness /\ TimeFairness
=============================================================================

---------------------------- MODULE NestedCalls ----------------------------
(***************************************************************************)
(* What a call interface promises to EnclaveHost and Enclave, and what     *)
(* native enclaves have for free because a host thread really enters the   *)
(* enclave: the calls in progress on a host thread form one stack on which *)
(* the two sides take turns, the handler of the last call runs once, and   *)
(* its outcome goes to the side that made that call.                       *)
(***************************************************************************)
EXTENDS Integers, Sequences

CONSTANTS
    Threads,  \* host threads
    Calls     \* calls; c.from is the side that makes c

VARIABLES
    stack,    \* calls in progress on each thread, the last one innermost
    outcome,  \* the outcome of the last call, once its handler has ended
    gone      \* has the enclave crashed?

vars == <<stack, outcome, gone>>

Outcomes == {"RETURN", "EXCEPTION"}

Init ==
    /\ stack = [t \in Threads |-> <<>>]
    /\ outcome = [t \in Threads |-> "none"]
    /\ gone = FALSE

Last(s)  == s[Len(s)]
Front(s) == SubSeq(s, 1, Len(s) - 1)

\* The side whose turn it is: the host, or the one that did not make the last call.
Turn(s) == IF s # <<>> /\ Last(s).from = "host" THEN "enclave" ELSE "host"

Call(t, c) ==
    /\ outcome[t] = "none"
    /\ c.from = Turn(stack[t])
    /\ stack' = [stack EXCEPT ![t] = Append(@, c)]
    /\ UNCHANGED <<outcome, gone>>

\* The handler of the last call returns or throws.
Handled(t, o) ==
    /\ stack[t] # <<>>
    /\ outcome[t] = "none"
    /\ outcome' = [outcome EXCEPT ![t] = o]
    /\ UNCHANGED <<stack, gone>>

\* Its caller gets the outcome.
Return(t) ==
    /\ outcome[t] # "none"
    /\ stack' = [stack EXCEPT ![t] = Front(@)]
    /\ outcome' = [outcome EXCEPT ![t] = "none"]
    /\ UNCHANGED gone

\* The enclave crashes: some of the calls it made, and of the outcomes that were on their
\* way, are lost.
Crash(lost) ==
    /\ ~gone
    /\ gone' = TRUE
    /\ stack' = [t \in Threads |->
            IF t \in lost /\ stack[t] # <<>> /\ Last(stack[t]).from = "enclave"
            THEN Front(stack[t]) ELSE stack[t]]
    /\ outcome' = [t \in Threads |-> IF t \in lost THEN "none" ELSE outcome[t]]

\* Without the enclave a call ends with an exception, and a handler has no one to answer.
Abandon(t) ==
    /\ gone
    /\ stack[t] # <<>>
    /\ outcome[t] = "none"
    /\ stack' = [stack EXCEPT ![t] = Front(@)]
    /\ UNCHANGED <<outcome, gone>>

Next ==
    \/ \E t \in Threads, c \in Calls : Call(t, c)
    \/ \E t \in Threads, o \in Outcomes : Handled(t, o)
    \/ \E t \in Threads : Return(t)
    \/ \E lost \in SUBSET Threads : Crash(lost)
    \/ \E t \in Threads : Abandon(t)

Spec == Init /\ [][Next]_vars
=============================================================================

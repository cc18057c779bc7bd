----------------------------- MODULE NativeCalls -----------------------------
(***************************************************************************)
(* Calls between the host's JVM and the isolates in the enclaves.  Each    *)
(* host thread has a stack of EcallContexts, which an ocall looks at to    *)
(* find out where it comes from; each enclave has one isolate, to which a  *)
(* thread stays attached for as long as one of its calls is inside, also   *)
(* when ecalls and ocalls nest.  An exception of the host's code during an *)
(* ocall stays pending in the host until the ecall is back.                *)
(***************************************************************************)
EXTENDS Integers, Sequences, FiniteSets

CONSTANTS HostThreads,      \* the host's threads
          Enclaves,         \* ids of the enclaves, each created once
          MaxFrames         \* how deep ecalls and ocalls nest

ASSUME NativeAssumption == MaxFrames \in Nat

VARIABLES
    frames,         \* thread -> its ecalls and ocalls, the innermost last
    contextStack,   \* thread -> the ids of its EcallContexts
    pending,        \* threads with a Java exception in the host
    loaded,         \* enclave -> "no", "loaded" or "destroyed"
    jvmState,       \* enclave -> "INITIALIZED", "STARTED" or "CLOSED"
    threads_,       \* enclave -> thread -> how often it is in threads_
    attached        \* enclave -> threads that the isolate knows

nativeVars == <<frames, contextStack, pending, loaded, jvmState, threads_, attached>>

Inside(t) == frames[t] # <<>> /\ frames[t][Len(frames[t])].kind = "ecall"
InHost(t) == ~Inside(t)
TopFrame(t) == frames[t][Len(frames[t])]
Pop(s) == SubSeq(s, 1, Len(s) - 1)

-----------------------------------------------------------------------------
createEnclave(t, e) ==
    /\ InHost(t) /\ t \notin pending /\ loaded[e] = "no"
    /\ loaded' = [loaded EXCEPT ![e] = "loaded"]
    /\ UNCHANGED <<frames, contextStack, pending, jvmState, threads_, attached>>

(* jvmECall and, inside, jvm_ecall: the first thread starts the isolate.    *)
jvmECall(t, e) ==
    /\ InHost(t) /\ t \notin pending /\ loaded[e] = "loaded" /\ jvmState[e] # "CLOSED"
    /\ Len(frames[t]) < MaxFrames
    /\ contextStack' = [contextStack EXCEPT ![t] = Append(@, e)]
    /\ frames' = [frames EXCEPT ![t] = Append(@, [kind |-> "ecall", enclave |-> e])]
    /\ jvmState' = [jvmState EXCEPT ![e] = "STARTED"]
    /\ threads_' = [threads_ EXCEPT ![e][t] = @ + 1]
    /\ attached' = [attached EXCEPT ![e] = @ \cup {t}]
    /\ UNCHANGED <<pending, loaded>>

(* The end of the call: GraalThreadDeleter, then ~EcallContext.             *)
DetachAtOnce(t, e) ==                   \* mutant: the outer call is forgotten
    /\ threads_' = [threads_ EXCEPT ![e][t] = @ - 1]
    /\ attached' = [attached EXCEPT ![e] = @ \ {t}]
notify_detach(t, e) ==
    /\ threads_' = [threads_ EXCEPT ![e][t] = @ - 1]
    /\ attached' = [attached EXCEPT ![e] = IF threads_[e][t] = 1 THEN @ \ {t} ELSE @]
ECallReturns(t) ==
    /\ Inside(t)
    /\ notify_detach(t, TopFrame(t).enclave)
    /\ contextStack' = [contextStack EXCEPT ![t] = Pop(@)]
    /\ frames' = [frames EXCEPT ![t] = Pop(@)]
    /\ UNCHANGED <<pending, loaded, jvmState>>

(* Native.jvmOCall and jvm_ocall.  With an exception pending the host's     *)
(* code is not called, and the enclave is not told.                         *)
jvm_ocall(t) ==
    /\ Inside(t) /\ t \notin pending /\ Len(frames[t]) < MaxFrames
    /\ frames' = [frames EXCEPT ![t] = Append(@, [kind |-> "ocall",
                     enclave |-> contextStack[t][Len(contextStack[t])]])]
    /\ UNCHANGED <<contextStack, pending, loaded, jvmState, threads_, attached>>
OCallReturns(t) ==
    /\ frames[t] # <<>> /\ InHost(t)
    /\ frames' = [frames EXCEPT ![t] = Pop(@)]
    /\ UNCHANGED <<contextStack, pending, loaded, jvmState, threads_, attached>>

(* Host code throws in an ocall, or catches what the call threw.            *)
HostThrows(t) ==
    /\ frames[t] # <<>> /\ InHost(t) /\ t \notin pending
    /\ pending' = pending \cup {t}
    /\ UNCHANGED <<frames, contextStack, loaded, jvmState, threads_, attached>>
HostCatches(t) ==
    /\ InHost(t) /\ t \in pending
    /\ pending' = pending \ {t}
    /\ UNCHANGED <<frames, contextStack, loaded, jvmState, threads_, attached>>

(* destroyEnclave, when every call is back in the host; it is refused in a  *)
(* thread that is in an ocall.                                              *)
destroyEnclave(t, e) ==
    /\ InHost(t) /\ t \notin pending /\ loaded[e] = "loaded" /\ contextStack[t] = <<>>
    /\ \A u \in HostThreads : \A i \in DOMAIN frames[u] : frames[u][i].enclave # e
    /\ jvmState' = [jvmState EXCEPT ![e] = "CLOSED"]
    /\ attached' = [attached EXCEPT ![e] = {}]
    /\ loaded' = [loaded EXCEPT ![e] = "destroyed"]
    /\ UNCHANGED <<frames, contextStack, pending, threads_>>

NativeInit ==
    /\ frames = [t \in HostThreads |-> <<>>] /\ contextStack = [t \in HostThreads |-> <<>>]
    /\ pending = {}
    /\ loaded = [e \in Enclaves |-> "no"]
    /\ jvmState = [e \in Enclaves |-> "INITIALIZED"]
    /\ threads_ = [e \in Enclaves |-> [t \in HostThreads |-> 0]]
    /\ attached = [e \in Enclaves |-> {}]

NativeNext ==
    \E t \in HostThreads :
        \/ \E e \in Enclaves : createEnclave(t, e) \/ jvmECall(t, e) \/ destroyEnclave(t, e)
        \/ ECallReturns(t) \/ jvm_ocall(t) \/ OCallReturns(t)
        \/ HostThrows(t) \/ HostCatches(t)

NativeSpec == NativeInit /\ [][NativeNext]_nativeVars

-----------------------------------------------------------------------------
(* EcallContext and attach_current_thread: an ocall is handed to the host   *)
(* in the name of the enclave that made it, whichever enclaves the calls of *)
(* the thread nest through; ecalls and ocalls alternate, and the contexts   *)
(* are those of the ecalls that are not back yet; a thread that has a call  *)
(* inside an enclave is attached to its isolate until the outermost one     *)
(* returns, and not longer; an enclave is destroyed only when nothing is    *)
(* inside.                                                                  *)
CallsInContext ==
    \A t \in HostThreads :
        /\ \A i \in DOMAIN frames[t] : frames[t][i].kind = "ocall" => frames[t][i].enclave = frames[t][i - 1].enclave
        /\ \A i \in DOMAIN frames[t] : frames[t][i].kind = "ecall" <=> i % 2 = 1
        /\ contextStack[t] = [i \in 1 .. (Len(frames[t]) + 1) \div 2 |-> frames[t][2 * i - 1].enclave]
        /\ \A e \in Enclaves :
               t \in attached[e] <=> \E i \in DOMAIN frames[t] : frames[t][i].enclave = e
=============================================================================

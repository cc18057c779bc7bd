---------------------------- MODULE EnclaveCalls ----------------------------
(***************************************************************************)
(* The call protocol between EnclaveHost and Enclave once both have        *)
(* started: nested callEnclave, deliverMail and callUntrustedHost on many  *)
(* host threads, exceptions unwinding through both sides, the enclave      *)
(* lock, mail posted by the enclave, sealed states, the commands callback, *)
(* and the shutdown of the enclave.                                        *)
(*                                                                         *)
(* A thread runs on both sides of the enclave boundary, so it is one stack *)
(* of activations.  What the application (on either side) does is chosen   *)
(* nondeterministically: call, return, post mail, throw or catch.  Steps   *)
(* that touch only the state of one thread are merged with the next step   *)
(* that touches shared state.                                              *)
(***************************************************************************)
EXTENDS Integers, Sequences, FiniteSets

CONSTANTS
    Threads,          \* host threads
    NoThread,         \* no owner (of the lock, of the monitor)
    ThreadSafe,       \* Enclave.threadSafe
    PersistentMap,    \* env.enablePersistentMap
    CloseInCallback,  \* may the host call close() from one of its callbacks?
    Fuel              \* bound: the calls and mail operations of each thread

(***************************************************************************)
(* StartCallHandler refuses to start a multi-threaded enclave that has the *)
(* persistent map enabled.                                                 *)
(***************************************************************************)
ASSUME ConfigAssumption ==
    /\ NoThread \notin Threads
    /\ {ThreadSafe, PersistentMap, CloseInCallback} \subseteq BOOLEAN
    /\ ~(ThreadSafe /\ PersistentMap)
    /\ Fuel \in [Threads -> Nat]

VARIABLES
    stack,         \* activations of each thread, the current one last
    throwing,      \* is the thread unwinding with an exception?
    fuel,          \* what is left of the bound Fuel
    hostCall,      \* EnclaveHost: Transaction.stateManager of each thread
    mailCommands,  \* EnclaveHost: Transaction.mailCommands of each thread
    hostState,     \* EnclaveHost.hostStateManager
    monitor,       \* owner of the EnclaveHost monitor (@Synchronized)
    destroyed,     \* has enclaveHandle.destroy() been executed?
    batches,       \* history: the lists passed to commandsCallback
    enclaveCall,   \* Enclave: enclaveCalls[hostThreadId]
    enclaveState,  \* Enclave.enclaveStateManager
    lock, holds,   \* Enclave.lock: owner and hold count
    executing,     \* Enclave.numberReceiveCallsExecuting
    signalled,     \* a pending signal of enclaveQuiescentCondition
    context,       \* Enclave.currentReceiveContext
    nextId,        \* numbers the receive contexts
    failed         \* history: receives that ended with an exception

hostVars    == <<hostCall, mailCommands, hostState, monitor, destroyed, batches>>
lockVars    == <<lock, holds>>
receiveVars == <<executing, signalled, context, nextId, failed>>
enclaveVars == <<enclaveCall, enclaveState, lockVars, receiveVars>>
threadVars  == <<stack, throwing, fuel>>
vars        == <<threadVars, hostVars, enclaveVars>>

-----------------------------------------------------------------------------
(***************************************************************************)
(* Call states.  Kotlin compares the states of a thread by identity; the   *)
(* id of a state is the position of the activation that created it, which  *)
(* distinguishes all the states a thread has at one time.  A Receive with  *)
(* id 0 is the initial one, whose callback is receiveFromUntrustedHost.    *)
(***************************************************************************)
Ready              == [type |-> "Ready", cb |-> FALSE, id |-> 0]
IntoEnclave(cb, n) == [type |-> "IntoEnclave", cb |-> cb, id |-> n]
Receive(cb, n)     == [type |-> "Receive", cb |-> cb, id |-> n]
Response           == [type |-> "Response", cb |-> FALSE, id |-> 0]
TopLevelReceive    == Receive(TRUE, 0)

CallStates == [type : {"Ready", "IntoEnclave", "Receive", "Response"},
               cb : BOOLEAN, id : Nat]

(***************************************************************************)
(* Activations.  Of the host: callEnclave and deliverMail (callIntoEnclave *)
(* around a send), hostCallback (onUntrustedHost), commands (a run of      *)
(* commandsCallback) and close.  Of the enclave: receive (executeReceive), *)
(* enclaveCallback (the recursive branch of onUntrustedHost) and callOut   *)
(* (callUntrustedHost).  prev is the call state to go back to and id the   *)
(* number of the receive on whose behalf the activation runs.              *)
(***************************************************************************)
IntoKinds   == {"callEnclave", "deliverMail"}
HostUser    == {"hostCallback", "commands"}
EnclaveUser == {"receive", "enclaveCallback"}
Frames == [kind : IntoKinds \cup HostUser \cup EnclaveUser \cup {"callOut", "close"},
           pc : {"enter", "called", "lock", "user", "exit", "await", "shutdown", "destroy"},
           prev : CallStates, id : Nat]

Top(t)       == stack[t][Len(stack[t])]
At(t, k, pc) == stack[t] # <<>> /\ Top(t).kind = k /\ Top(t).pc = pc
Popped(t)    == SubSeq(stack[t], 1, Len(stack[t]) - 1)
Goto(t, pc)  == Append(Popped(t), [Top(t) EXCEPT !.pc = pc])

\* A new activation of thread t.
Frame(t, kind, pc, prev) ==
    [kind |-> kind, pc |-> pc, prev |-> prev, id |-> IF stack[t] = <<>> THEN 0 ELSE Top(t).id]

\* Application code of the host, resp. of the enclave, is running in thread t.
HostCode(t) ==
    ~throwing[t] /\ (stack[t] = <<>> \/ \E k \in HostUser : At(t, k, "user"))
EnclaveCode(t) ==
    ~throwing[t] /\ \E k \in EnclaveUser : At(t, k, "user")

\* Thread t continues with stack s, with or without an exception in flight.
\* The application catches what leaves its outermost call.
Resume(t, s, exc) ==
    /\ stack' = [stack EXCEPT ![t] = s]
    /\ throwing' = [throwing EXCEPT ![t] = exc /\ s # <<>>]

Spend(t) == fuel[t] > 0 /\ fuel' = [fuel EXCEPT ![t] = @ - 1]

NoContext == [id |-> 0, pending |-> 0]

-----------------------------------------------------------------------------
(***************************************************************************)
(* Parts of the handlers.  Each comes with faulty variants, plausible      *)
(* slips in the code that no specification uses.                           *)
(***************************************************************************)
\* lock.withLock ends, normally or with an exception: one hold less.
UnlockNotReentrant(t) == holds' = 0 /\ lock' = NoThread
UnlockNoFinally(t) ==
    IF throwing[t] THEN UNCHANGED lockVars
                   ELSE holds' = holds - 1 /\ lock' = IF holds = 1 THEN NoThread ELSE lock
Unlock(t) == holds' = holds - 1 /\ lock' = IF holds = 1 THEN NoThread ELSE lock

\* The end of the last executing receive signals enclaveQuiescentCondition, which only
\* has an effect on a thread that waits for it.
NeverSignals == FALSE
SignalsQuiescence == executing = 1 /\ \E u \in Threads : At(u, "close", "await")

\* The stop handler waits while receives are executing.
NeverWaits == FALSE
MustWait   == executing > 0

\* The state the stop handler leaves the enclave in.
BackToNew == "New"
Stopped   == "Closed"

\* The finally blocks of callUntrustedHost and callIntoEnclave revert the call state.
RevertNoFinally(t) ==
    enclaveCall' = IF throwing[t] THEN enclaveCall ELSE [enclaveCall EXCEPT ![t] = Top(t).prev]
RevertEnclaveCall(t) == enclaveCall' = [enclaveCall EXCEPT ![t] = Top(t).prev]
RevertUnlessResponse(t) ==
    hostCall' = IF hostCall[t].type = "Response" THEN hostCall ELSE [hostCall EXCEPT ![t] = Top(t).prev]
RevertHostCall(t) == hostCall' = [hostCall EXCEPT ![t] = Top(t).prev]

\* Transaction.fireMailCommands: the list is copied and cleared, then the callback runs
\* on top of stack s.
FireMailCommands(t, cmds, s) ==
    /\ mailCommands' = [mailCommands EXCEPT ![t] = <<>>]
    /\ batches' = Append(batches, cmds)
    /\ Resume(t, Append(s, Frame(t, "commands", "user", Ready)), FALSE)

\* onSealedState: the sealed state ends the transaction, whose commands are fired at once.
SealedStateFiredLater(t, cmd, s) ==
    /\ mailCommands' = [mailCommands EXCEPT ![t] = Append(@, cmd)]
    /\ Resume(t, s, FALSE)
    /\ UNCHANGED batches
SealedStateFiredAlone(t, cmd, s) ==
    /\ batches' = Append(batches, <<cmd>>)
    /\ Resume(t, Append(s, Frame(t, "commands", "user", Ready)), FALSE)
    /\ UNCHANGED mailCommands
OnSealedState(t, cmd, s) == FireMailCommands(t, Append(mailCommands[t], cmd), s)

-----------------------------------------------------------------------------
Init ==
    /\ stack = [t \in Threads |-> <<>>]
    /\ throwing = [t \in Threads |-> FALSE]
    /\ fuel = Fuel
    /\ hostCall = [t \in Threads |-> Ready]
    /\ mailCommands = [t \in Threads |-> <<>>]
    /\ hostState = "Started"
    /\ monitor = NoThread
    /\ destroyed = FALSE
    /\ batches = <<>>
    /\ enclaveCall = [t \in Threads |-> TopLevelReceive]
    /\ enclaveState = "Started"
    /\ lock = NoThread
    /\ holds = 0
    /\ executing = 0
    /\ signalled = FALSE
    /\ context = NoContext
    /\ nextId = 1
    /\ failed = {}

-----------------------------------------------------------------------------
\* callEnclave and deliverMail: checkStateFirst and the entry of callIntoEnclave,
\* up to the send.  (That previousCallState is no Response is CallStatesConsistent.)
CallIntoEnclave(t, kind, cb) ==
    /\ HostCode(t)
    /\ hostState = "Started"
    /\ hostCall[t].type # "Response"
    /\ Spend(t)
    /\ hostCall' = [hostCall EXCEPT ![t] = IntoEnclave(cb, Len(stack[t]) + 1)]
    /\ Resume(t, Append(stack[t], Frame(t, kind, "enter", hostCall[t])), FALSE)
    /\ UNCHANGED <<mailCommands, hostState, monitor, destroyed, batches, enclaveVars>>

\* The enclave's handleCall with onMail or onUntrustedHost.  The call fails when the
\* enclave is gone, when the mail cannot be decrypted, or when the enclave is in a
\* callUntrustedHost that was given no callback.
EnterEnclave(t) ==
    /\ \E k \in IntoKinds : At(t, k, "enter")
    /\ LET mail == Top(t).kind = "deliverMail"
       IN  \/ /\ destroyed \/ mail \/ ~enclaveCall[t].cb
              /\ Resume(t, Goto(t, "called"), TRUE)
           \/ /\ ~destroyed
              /\ mail \/ enclaveCall[t] = TopLevelReceive
              /\ Resume(t, Append(Goto(t, "called"), Frame(t, "receive", "lock", Ready)), FALSE)
           \/ /\ ~destroyed
              /\ ~mail /\ enclaveCall[t] # TopLevelReceive /\ enclaveCall[t].cb
              /\ Resume(t, Append(Goto(t, "called"), Frame(t, "enclaveCallback", "user", Ready)), FALSE)
    /\ UNCHANGED <<fuel, hostVars, enclaveVars>>

\* executeReceive takes the lock and finds that it may not go on: the enclave is not
\* Started, the mail is out of order, or (persistent map) the receive is nested in another.
RejectReceive(t) ==
    /\ At(t, "receive", "lock")
    /\ lock \in {NoThread, t}
    /\ \/ enclaveState # "Started"
       \/ stack[t][Len(stack[t]) - 1].kind = "deliverMail"
       \/ PersistentMap /\ context # NoContext
    /\ Resume(t, Popped(t), TRUE)
    /\ UNCHANGED <<fuel, hostVars, enclaveVars>>

\* executeReceive enters the receive method, holding the lock or (thread-safe
\* enclaves) only counted as executing.
BeginReceive(t) ==
    /\ At(t, "receive", "lock")
    /\ lock \in {NoThread, t}
    /\ enclaveState = "Started"
    /\ PersistentMap => context = NoContext
    /\ Resume(t, Append(Popped(t), [Top(t) EXCEPT !.pc = "user", !.id = nextId]), FALSE)
    /\ nextId' = nextId + 1
    /\ IF ThreadSafe THEN executing' = executing + 1 /\ UNCHANGED lockVars
                     ELSE lock' = t /\ holds' = holds + 1 /\ UNCHANGED executing
    /\ context' = IF PersistentMap THEN [id |-> nextId, pending |-> 0] ELSE context
    /\ UNCHANGED <<fuel, hostVars, enclaveCall, enclaveState, signalled, failed>>

\* The privateHeader of a SessionEnclavePostOffice: a mail is created and expected
\* to be posted in this receive.
CreateMail(t) ==
    /\ EnclaveCode(t)
    /\ context # NoContext
    /\ Spend(t)
    /\ context' = [context EXCEPT !.pending = @ + 1]
    /\ UNCHANGED <<stack, throwing, hostVars, enclaveCall, enclaveState, lockVars,
                   executing, signalled, nextId, failed>>

\* Enclave.postMail and the host's onMail.
PostMail(t) ==
    /\ EnclaveCode(t)
    /\ hostCall[t].type = "IntoEnclave"
    /\ Spend(t)
    /\ mailCommands' = [mailCommands EXCEPT ![t] =
                          Append(@, [type |-> "PostMail", id |-> Top(t).id])]
    /\ context' = IF context = NoContext THEN context
                                         ELSE [context EXCEPT !.pending = @ - 1]
    /\ UNCHANGED <<stack, throwing, hostCall, hostState, monitor, destroyed, batches,
                   enclaveCall, enclaveState, lockVars, executing, signalled, nextId, failed>>

\* callUntrustedHost up to the host's callback; the host has none if the call into the
\* enclave did not provide it.
CallUntrustedHost(t, cb) ==
    /\ EnclaveCode(t)
    /\ enclaveCall[t].type = "Receive"
    /\ hostCall[t].type = "IntoEnclave"
    /\ Spend(t)
    /\ enclaveCall' = [enclaveCall EXCEPT ![t] = Receive(cb, Len(stack[t]) + 1)]
    /\ LET out == Append(stack[t], Frame(t, "callOut", "called", enclaveCall[t]))
       IN  IF hostCall[t].cb
           THEN Resume(t, Append(out, Frame(t, "hostCallback", "user", Ready)), FALSE)
           ELSE Resume(t, out, TRUE)
    /\ UNCHANGED <<hostVars, enclaveState, lockVars, receiveVars>>

\* The host's callback returns, with a response (CALL_RETURN to the enclave, whose
\* onCallReturn stores it) or without one.
HostCallbackReturns(t, responds) ==
    /\ HostCode(t) /\ At(t, "hostCallback", "user")
    /\ Resume(t, Popped(t), responds /\ destroyed)
    /\ enclaveCall' = IF responds /\ ~destroyed THEN [enclaveCall EXCEPT ![t] = Response]
                                                ELSE enclaveCall
    /\ UNCHANGED <<fuel, hostVars, enclaveState, lockVars, receiveVars>>

\* The finally block of callUntrustedHost, with or without an exception.
CallUntrustedHostReturns(t) ==
    /\ At(t, "callOut", "called")
    /\ enclaveCall[t].type = "Response" \/ enclaveCall[t].id = Len(stack[t])
    /\ RevertEnclaveCall(t)
    /\ Resume(t, Popped(t), throwing[t])
    /\ UNCHANGED <<fuel, hostVars, enclaveState, lockVars, receiveVars>>

\* A recursive callback of the enclave returns, with or without a response for the host.
EnclaveCallbackReturns(t, responds) ==
    /\ EnclaveCode(t) /\ At(t, "enclaveCallback", "user")
    /\ Resume(t, Popped(t), FALSE)
    /\ hostCall' = IF responds THEN [hostCall EXCEPT ![t] = Response] ELSE hostCall
    /\ UNCHANGED <<fuel, mailCommands, hostState, monitor, destroyed, batches, enclaveVars>>

-----------------------------------------------------------------------------
\* The receive method returns.  With the persistent map the context ends, unposted mail
\* or an oversized map is an error, and otherwise the sealed state goes to the host,
\* whose onSealedState fires the commands while the enclave lock is held.
ReceiveReturns(t) ==
    /\ EnclaveCode(t) /\ At(t, "receive", "user")
    /\ hostCall[t].type = "IntoEnclave"
    /\ context' = NoContext
    /\ \/ /\ ~PersistentMap
          /\ Resume(t, Goto(t, "exit"), FALSE)
          /\ UNCHANGED <<mailCommands, batches, failed>>
       \/ /\ PersistentMap   \* context.pending # 0, or maxPersistentMapSize exceeded
          /\ Resume(t, Goto(t, "exit"), TRUE)
          /\ failed' = failed \cup {Top(t).id}
          /\ UNCHANGED <<mailCommands, batches>>
       \/ /\ PersistentMap /\ context.pending = 0
          /\ OnSealedState(t, [type |-> "StoreSealedState", id |-> Top(t).id], Goto(t, "exit"))
          /\ UNCHANGED failed
    /\ UNCHANGED <<fuel, hostCall, hostState, monitor, destroyed, enclaveCall, enclaveState,
                   lockVars, executing, signalled, nextId>>

\* The lock is released, or the executing count decremented under the lock, and then the
\* value of receiveFromUntrustedHost, if there is one, is sent to the host.
ExitReceive(t, responds) ==
    /\ At(t, "receive", "exit")
    /\ responds => ~throwing[t] /\ stack[t][Len(stack[t]) - 1].kind = "callEnclave"
    /\ IF ThreadSafe
       THEN /\ lock \in {NoThread, t}
            /\ executing' = executing - 1
            /\ signalled' = (signalled \/ SignalsQuiescence)
            /\ UNCHANGED lockVars
       ELSE /\ Unlock(t)
            /\ UNCHANGED <<executing, signalled>>
    /\ Resume(t, Popped(t), throwing[t])
    /\ hostCall' = IF responds THEN [hostCall EXCEPT ![t] = Response] ELSE hostCall
    /\ UNCHANGED <<fuel, mailCommands, hostState, monitor, destroyed, batches,
                   enclaveCall, enclaveState, context, nextId, failed>>

\* The finally block of callIntoEnclave and, if the thread is fully unwound without an
\* exception, the delivery of the commands no sealed state has fired.
CallIntoEnclaveReturns(t) ==
    /\ \E k \in IntoKinds : At(t, k, "called")
    /\ hostCall[t].type = "Response" \/ hostCall[t].id = Len(stack[t])
    /\ RevertHostCall(t)
    /\ IF ~throwing[t] /\ Top(t).prev = Ready /\ mailCommands[t] # <<>>
       THEN FireMailCommands(t, mailCommands[t], Popped(t))
       ELSE Resume(t, Popped(t), throwing[t]) /\ UNCHANGED <<mailCommands, batches>>
    /\ UNCHANGED <<fuel, hostState, monitor, destroyed, enclaveVars>>

\* commandsCallback returns.
CommandsReturn(t) ==
    /\ HostCode(t) /\ At(t, "commands", "user")
    /\ Resume(t, Popped(t), FALSE)
    /\ UNCHANGED <<fuel, hostVars, enclaveVars>>

\* Application code throws, or lets an exception pass.
Fail(t) ==
    /\ \E k \in HostUser \cup EnclaveUser : At(t, k, "user")
    /\ Resume(t, IF Top(t).kind = "receive" THEN Goto(t, "exit") ELSE Popped(t), TRUE)
    /\ context' = IF Top(t).kind = "receive" THEN NoContext ELSE context
    /\ failed' = IF Top(t).kind = "receive" THEN failed \cup {Top(t).id} ELSE failed
    /\ UNCHANGED <<fuel, hostVars, enclaveCall, enclaveState, lockVars,
                   executing, signalled, nextId>>

\* Application code catches the exception of a call it made.
Catch(t) ==
    /\ throwing[t]
    /\ \E k \in HostUser \cup EnclaveUser : At(t, k, "user")
    /\ Resume(t, stack[t], FALSE)
    /\ UNCHANGED <<fuel, hostVars, enclaveVars>>

-----------------------------------------------------------------------------
\* EnclaveHost.close takes the monitor and sends the stop call.
Close(t) ==
    /\ HostCode(t)
    /\ CloseInCallback \/ stack[t] = <<>>
    /\ monitor \in {NoThread, t}
    /\ hostState = "Started"
    /\ monitor' = t
    /\ Resume(t, Append(stack[t], Frame(t, "close", "lock", Ready)), FALSE)
    /\ UNCHANGED <<fuel, hostCall, mailCommands, hostState, destroyed, batches, enclaveVars>>

\* StopCallHandler under the lock: no receive may start from here on, and it waits for
\* the executing ones (await releases the lock).
StopEnclave(t) ==
    /\ At(t, "close", "lock")
    /\ lock \in {NoThread, t}
    /\ enclaveState = "Started"
    /\ enclaveState' = Stopped
    /\ IF MustWait
       THEN Resume(t, Goto(t, "await"), FALSE) /\ UNCHANGED lockVars
       ELSE Resume(t, Goto(t, "shutdown"), FALSE) /\ lock' = t /\ holds' = holds + 1
    /\ UNCHANGED <<fuel, hostVars, enclaveCall, receiveVars>>

\* enclaveQuiescentCondition is signalled and the loop tests the count again.
StopAwakes(t) ==
    /\ At(t, "close", "await")
    /\ signalled /\ lock = NoThread
    /\ signalled' = FALSE
    /\ IF MustWait
       THEN UNCHANGED <<stack, throwing, lockVars>>
       ELSE Resume(t, Goto(t, "shutdown"), FALSE) /\ lock' = t /\ holds' = 1
    /\ UNCHANGED <<fuel, hostVars, enclaveCall, enclaveState, executing, context, nextId, failed>>

\* onShutdown returns or throws, and the lock is released.
ShutdownReturns(t) ==
    /\ At(t, "close", "shutdown")
    /\ Unlock(t)
    /\ \E exc \in BOOLEAN : Resume(t, Goto(t, "destroy"), exc)
    /\ UNCHANGED <<fuel, hostVars, enclaveCall, enclaveState, receiveVars>>

\* The rest of close: the enclave is destroyed unless the stop call failed, the host is
\* Closed in any case, and the monitor is released.
Destroy(t) ==
    /\ At(t, "close", "destroy")
    /\ destroyed' = (destroyed \/ ~throwing[t])
    /\ hostState' = "Closed"
    /\ monitor' = NoThread
    /\ Resume(t, Popped(t), throwing[t])
    /\ UNCHANGED <<fuel, hostCall, mailCommands, batches, enclaveVars>>

-----------------------------------------------------------------------------
Step(t) ==
    \/ \E k \in IntoKinds, cb \in BOOLEAN : CallIntoEnclave(t, k, cb)
    \/ EnterEnclave(t)
    \/ RejectReceive(t)
    \/ BeginReceive(t)
    \/ CreateMail(t)
    \/ PostMail(t)
    \/ \E cb \in BOOLEAN : CallUntrustedHost(t, cb)
    \/ \E responds \in BOOLEAN : HostCallbackReturns(t, responds)
    \/ CallUntrustedHostReturns(t)
    \/ \E responds \in BOOLEAN : EnclaveCallbackReturns(t, responds)
    \/ ReceiveReturns(t)
    \/ \E responds \in BOOLEAN : ExitReceive(t, responds)
    \/ CallIntoEnclaveReturns(t)
    \/ CommandsReturn(t)
    \/ Fail(t)
    \/ Catch(t)
    \/ Close(t)
    \/ StopEnclave(t)
    \/ StopAwakes(t)
    \/ ShutdownReturns(t)
    \/ Destroy(t)

\* No call is in progress; the host need not make another one.
Idle == (\A t \in Threads : stack[t] = <<>>) /\ UNCHANGED vars

Next == Idle \/ \E t \in Threads : Step(t)

\* A thread that is in a call goes on: the scheduler is fair and application code
\* terminates (Fuel bounds what it does).  Nothing makes the host start a call.
Fairness == \A t \in Threads : WF_vars(stack[t] # <<>> /\ Step(t))

Spec     == Init /\ [][Next]_vars
FairSpec == Spec /\ Fairness

-----------------------------------------------------------------------------
Commands == [type : {"PostMail", "StoreSealedState"}, id : Nat]

ThreadTypes ==
    /\ stack \in [Threads -> Seq(Frames)]
    /\ throwing \in [Threads -> BOOLEAN]
    /\ fuel \in [Threads -> Nat]

HostTypes ==
    /\ hostCall \in [Threads -> CallStates]
    /\ mailCommands \in [Threads -> Seq(Commands)]
    /\ hostState \in {"Started", "Closed"}
    /\ monitor \in Threads \cup {NoThread}
    /\ destroyed \in BOOLEAN
    /\ batches \in Seq(Seq(Commands))

EnclaveTypes ==
    /\ enclaveCall \in [Threads -> CallStates]
    /\ enclaveState \in {"Started", "Closed"}
    /\ lock \in Threads \cup {NoThread}
    /\ holds \in Int
    /\ executing \in Int
    /\ signalled \in BOOLEAN
    /\ context \in [id : Nat, pending : Int]
    /\ nextId \in Nat
    /\ failed \in SUBSET Nat

\* Every variable has its type; a thread's stack is a sequence of activations.
TypeOK == ThreadTypes /\ HostTypes /\ EnclaveTypes

\* The checks both sides make on their call states never fail, whatever calls nest and
\* whatever exceptions unwind: an idle thread is back in its initial states; application
\* code never runs in state Response, and enclave code always finds the host in
\* IntoEnclave and itself in Receive; a call that returns finds either a Response or the
\* very state it had set (check and transitionStateFrom in callIntoEnclave, handleCall
\* and callUntrustedHost); a recursive callback finds the lock held (onUntrustedHost).
CallStatesConsistent ==
    \A t \in Threads :
        /\ stack[t] = <<>> => hostCall[t] = Ready /\ enclaveCall[t] = TopLevelReceive
        /\ HostCode(t) => hostCall[t].type # "Response"
        /\ EnclaveCode(t) \/ At(t, "receive", "exit")
              => hostCall[t].type = "IntoEnclave" /\ enclaveCall[t].type = "Receive"
        /\ (\E k \in IntoKinds : At(t, k, "called"))
              => hostCall[t].type = "Response" \/ hostCall[t].id = Len(stack[t])
        /\ At(t, "callOut", "called")
              => enclaveCall[t].type = "Response" \/ enclaveCall[t].id = Len(stack[t])
        /\ ~ThreadSafe /\ At(t, "enclaveCallback", "user") => lock = t

\* A value returned by one side waits for exactly the call that asked for it: a Response
\* is pending only while the topmost activation is the call that takes it, and no call
\* that ends with an exception takes one (onCallReturn on either side).
ResponseReachesItsCall ==
    \A t \in Threads :
        /\ hostCall[t].type = "Response" => At(t, "callEnclave", "called") /\ ~throwing[t]
        /\ enclaveCall[t].type = "Response" => At(t, "callOut", "called") /\ ~throwing[t]

\* Thread t has a receive in progress, including the time its sealed state is handed over.
Receiving(t) ==
    \E i \in DOMAIN stack[t] : stack[t][i].kind = "receive" /\ stack[t][i].pc \in {"user", "exit"}

\* An enclave that is not thread-safe has receives in progress on at most one thread, also
\* while that thread is out in a host callback or in the commands callback (executeReceive).
ReceivesExclusive ==
    ~ThreadSafe => \A t, u \in Threads : Receiving(t) /\ Receiving(u) => t = u

\* The activation keeps one hold of the enclave lock.
Holding(f) ==
    \/ ~ThreadSafe /\ f.kind = "receive" /\ f.pc \in {"user", "exit"}
    \/ f.kind = "close" /\ f.pc = "shutdown"

HeldBy(s) == {i \in DOMAIN s : Holding(s[i])}

\* The lock is taken and released in pairs, through every nesting and every exception: its
\* owner has as many holds as activations inside withLock, and no other thread has any.
LockAccounting ==
    /\ \A t \in Threads : Cardinality(HeldBy(stack[t])) = IF lock = t THEN holds ELSE 0
    /\ holds >= 0
    /\ holds = 0 <=> lock = NoThread

\* The commands callback gets the sealed states in the order the enclave produced them,
\* whatever threads they come from (onSealedState).
SealedStatesInOrder ==
    \A i, j \in DOMAIN batches : \A p \in DOMAIN batches[i], q \in DOMAIN batches[j] :
        /\ i < j \/ (i = j /\ p < q)
        /\ batches[i][p].type = "StoreSealedState" /\ batches[j][q].type = "StoreSealedState"
        => batches[i][p].id < batches[j][q].id

\* With the persistent map, mail of a receive that did not fail is delivered together with
\* the sealed state of that receive, in one list (onSealedState, callIntoEnclave).
MailTravelsWithItsState ==
    PersistentMap =>
        \A i \in DOMAIN batches : \A j \in DOMAIN batches[i] :
            \/ batches[i][j].id \in failed
            \/ \E k \in DOMAIN batches[i] : batches[i][k] = [type |-> "StoreSealedState", id |-> batches[i][j].id]

\* When onShutdown runs, and ever after, no receive is being processed on any thread
\* (StopCallHandler).
ShutdownQuiescent ==
    (destroyed \/ \E t \in Threads : \E pc \in {"shutdown", "destroy"} : At(t, "close", pc))
        => \A t \in Threads : ~Receiving(t)

\* Every call into the enclave and every close comes to an end: no exception, nested call,
\* lost signal or lock leaves a thread stuck.
CallsReturn == \A t \in Threads : stack[t] # <<>> ~> stack[t] = <<>>
=============================================================================

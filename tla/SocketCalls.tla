---------------------------- MODULE SocketCalls ----------------------------
(***************************************************************************)
(* The call interface of Gramine enclaves: SocketHostEnclaveInterface in   *)
(* the host, SocketEnclaveHostInterface in the enclave's process, and a    *)
(* pool of sockets between them, each served by one worker thread of the   *)
(* enclave.  A host thread keeps its socket (its context) through all the  *)
(* calls that nest in its outermost one.                                   *)
(*                                                                         *)
(* Each side of a context has a stack of the calls it knows to be in       *)
(* progress: a call it made and waits for, or one it is handling.  What a  *)
(* handler does is chosen nondeterministically: it calls the other side,   *)
(* returns or throws.                                                      *)
(***************************************************************************)
EXTENDS Integers, Sequences, FiniteSets

CONSTANTS
    Threads, NoThread,    \* host threads
    Contexts, NoContext,  \* the sockets, maximumConcurrentCalls of them
    Hello,                \* the connection that tells the host their number
    HostFuel,             \* bound: calls each host thread makes
    EnclaveFuel,          \* bound: calls each worker thread makes
    HostReenters,         \* may handlers of the host call the enclave?
    Closing,              \* may the host close the interface?
    DiesWhen              \* the stages in which the enclave's process may die

ASSUME SocketConfigAssumption ==
    /\ NoThread \notin Threads
    /\ NoContext \notin Contexts
    /\ Hello \notin Contexts
    /\ IsFiniteSet(Contexts) /\ Contexts # {}
    /\ {HostFuel, EnclaveFuel} \subseteq Nat
    /\ {HostReenters, Closing} \subseteq BOOLEAN
    /\ DiesWhen \subseteq {"started", "connecting", "serving"}

VARIABLES
    \* the host
    state,         \* SocketHostEnclaveInterface.stateManager
    monitor,       \* owner of the stateManager monitor
    pc,            \* what each thread does in the interface
    context,       \* threadLocalCallContext
    hostCalls,     \* the host's stack of calls of each thread
    active,        \* EnclaveCallContext.activeCalls
    pool,          \* callContextPool
    closed,        \* contexts that were closed
    \* the sockets
    backlog,       \* connections the host has not accepted yet
    toEnclave, fromEnclave,
    \* the enclave's process
    process,       \* what its main thread does
    unconnected,   \* contexts that have no connection yet
    enclaveCalls,  \* the stack of calls of each worker
    ended,         \* workers that have left handlerLoop
    permits,       \* shutdownSemaphore
    fuel           \* what is left of the bounds

hostVars    == <<state, monitor, pc, context, hostCalls, active, pool, closed>>
socketVars  == <<backlog, toEnclave, fromEnclave>>
enclaveVars == <<process, unconnected, enclaveCalls, ended, permits>>
vars        == <<hostVars, socketVars, enclaveVars, fuel>>

-----------------------------------------------------------------------------
\* A call; by and n make it unique.
Calls == [from : {"host", "enclave"}, by : Threads \cup Contexts, n : 0..(HostFuel + EnclaveFuel)]

NoCall   == [from |-> "host", by |-> NoContext, n |-> 0]
Messages == [type : {"CALL", "RETURN", "EXCEPTION"}, call : Calls]
            \cup {[type |-> "STOP", call |-> NoCall]}

Message(type, c) == [type |-> type, call |-> c]
Stop == Message("STOP", NoCall)

Top(s)    == s[Len(s)]
Popped(s) == SubSeq(s, 1, Len(s) - 1)

\* The side that handles the innermost call of stack s.
Awaited(s) == IF s = <<>> THEN "none" ELSE IF Top(s).from = "host" THEN "enclave" ELSE "host"

\* The host, resp. a worker, waits for a message, and application code of the host, resp. of
\* the enclave, runs.
HostWaits(t)   == pc[t] = "code" /\ Awaited(hostCalls[t]) = "enclave"
HostCode(t)    == pc[t] = "code" /\ Awaited(hostCalls[t]) # "enclave"
EnclaveCode(k) == Awaited(enclaveCalls[k]) = "enclave"

Alive == process \notin {"dead", "exited"}

\* Bytes written to a socket whose other end is gone are lost.
Send(q, k, m) == IF Alive THEN [q EXCEPT ![k] = Append(@, m)] ELSE q

Goto(t, p) == pc' = [pc EXCEPT ![t] = p]
Spend(x)   == fuel[x] > 0 /\ fuel' = [fuel EXCEPT ![x] = @ - 1]

-----------------------------------------------------------------------------
(***************************************************************************)
(* Parts of the handlers.  Each comes with faulty variants, plausible      *)
(* slips in the code that no specification uses.                           *)
(***************************************************************************)
\* start: the first connection carries the number of contexts and is none of them.
InitialConnection    == Tail(backlog)

\* start: the loop that accepts maxConcurrentCalls contexts ends.
AcceptedOneMore(p) == Len(p) > Cardinality(Contexts)
AcceptedAll(p)     == Len(p) = Cardinality(Contexts)

\* executeOutgoingCall returns its context to the pool when no call of it is active.
ReturnsAlways(k)  == TRUE
ReturnsContext(k) == active[k] = 1

\* The answer of a handler that has returned or thrown.
AnswerUnlessThrown(q, k, type, c) == IF type = "EXCEPTION" THEN q ELSE Send(q, k, Message(type, c))
Answer(q, k, type, c) == Send(q, k, Message(type, c))

\* close() ends when it has closed maxConcurrentCalls contexts.
ClosesUntilEmpty(done)  == Len(pool) = 1
ClosesAllContexts(done) == done = Contexts

-----------------------------------------------------------------------------
Init ==
    /\ state = "Created"
    /\ monitor = NoThread
    /\ pc = [t \in Threads |-> "code"]
    /\ context = [t \in Threads |-> NoContext]
    /\ hostCalls = [t \in Threads |-> <<>>]
    /\ active = [k \in Contexts |-> 0]
    /\ pool = <<>>
    /\ closed = {}
    /\ backlog = <<>>
    /\ toEnclave = [k \in Contexts |-> <<>>]
    /\ fromEnclave = [k \in Contexts |-> <<>>]
    /\ process = "none"
    /\ unconnected = Contexts
    /\ enclaveCalls = [k \in Contexts |-> <<>>]
    /\ ended = {}
    /\ permits = 0
    /\ fuel = [x \in Threads \cup Contexts |-> IF x \in Threads THEN HostFuel ELSE EnclaveFuel]

-----------------------------------------------------------------------------
(***************************************************************************)
(* Starting both sides.                                                    *)
(***************************************************************************)
\* GramineEnclaveHandle.initialise: bindPort, the process is launched, and start takes the
\* monitor; or the port cannot be bound.
Initialise(t) ==
    /\ HostCode(t) /\ hostCalls[t] = <<>>
    /\ state = "Created"
    /\ \/ /\ state' = "Running"
          /\ monitor' = t
          /\ process' = "started"
          /\ Goto(t, "connect")
       \/ /\ state' = "Stopped"
          /\ UNCHANGED <<monitor, process, pc>>
    /\ UNCHANGED <<context, hostCalls, active, pool, closed, socketVars, unconnected,
                   enclaveCalls, ended, permits, fuel>>

\* SocketEnclaveHostInterface.start sends maximumConcurrentCalls over a connection of its own...
SendMaximum ==
    /\ process = "started"
    /\ process' = "connecting"
    /\ backlog' = Append(backlog, Hello)
    /\ UNCHANGED <<hostVars, toEnclave, fromEnclave, unconnected, enclaveCalls, ended, permits, fuel>>

\* ...and then connects the contexts, each with its worker.
Connect(k) ==
    /\ process = "connecting"
    /\ k \in unconnected
    /\ unconnected' = unconnected \ {k}
    /\ backlog' = Append(backlog, k)
    /\ process' = IF unconnected' = {} THEN "serving" ELSE process
    /\ UNCHANGED <<hostVars, toEnclave, fromEnclave, enclaveCalls, ended, permits, fuel>>

\* start: initialConnectionThread accepts the first connection.
AcceptInitial(t) ==
    /\ pc[t] = "connect"
    /\ backlog # <<>>
    /\ backlog' = InitialConnection
    /\ Goto(t, "accept")
    /\ UNCHANGED <<state, monitor, context, hostCalls, active, pool, closed, toEnclave,
                   fromEnclave, enclaveVars, fuel>>

\* start: everythingOkay() fails; the finally block joins initialConnectionThread.
PollFails(t) ==
    /\ pc[t] = "connect"
    /\ ~Alive
    /\ Goto(t, "join")
    /\ UNCHANGED <<state, monitor, context, hostCalls, active, pool, closed, socketVars,
                   enclaveVars, fuel>>

\* start fails, after initialConnectionThread has ended.
StartFails(t) ==
    /\ pc[t] = "join"
    /\ backlog # <<>>
    /\ backlog' = Tail(backlog)
    /\ state' = "Stopped"
    /\ monitor' = NoThread
    /\ Goto(t, "code")
    /\ UNCHANGED <<context, hostCalls, active, pool, closed, toEnclave, fromEnclave,
                   enclaveVars, fuel>>

\* start accepts the contexts and, with the last of them, returns.
AcceptContext(t) ==
    /\ pc[t] = "accept"
    /\ backlog # <<>>
    /\ backlog' = Tail(backlog)
    /\ pool' = Append(pool, Head(backlog))
    /\ IF AcceptedAll(pool')
       THEN monitor' = NoThread /\ Goto(t, "code")
       ELSE UNCHANGED <<monitor, pc>>
    /\ UNCHANGED <<state, context, hostCalls, active, closed, toEnclave, fromEnclave,
                   enclaveVars, fuel>>

-----------------------------------------------------------------------------
(***************************************************************************)
(* Calls, on the side of the host.                                         *)
(***************************************************************************)
\* executeOutgoingCall is called...
ExecuteOutgoingCall(t) ==
    /\ HostCode(t)
    /\ HostReenters \/ hostCalls[t] = <<>>
    /\ Spend(t)
    /\ Goto(t, "check")
    /\ UNCHANGED <<state, monitor, context, hostCalls, active, pool, closed, socketVars, enclaveVars>>

\* ...gets the monitor for a moment and throws if the interface is not running...
CheckRunning(t) ==
    /\ pc[t] = "check"
    /\ monitor = NoThread
    /\ Goto(t, IF state = "Running" THEN "take" ELSE "code")
    /\ UNCHANGED <<state, monitor, context, hostCalls, active, pool, closed, socketVars,
                   enclaveVars, fuel>>

\* ...and sends the call over the context the thread has, or takes from the pool.
InitiateCall(t) ==
    /\ pc[t] = "take"
    /\ context[t] = NoContext => pool # <<>>
    /\ LET k == IF context[t] = NoContext THEN Head(pool) ELSE context[t]
           c == [from |-> "host", by |-> t, n |-> fuel[t]]
       IN  /\ context' = [context EXCEPT ![t] = k]
           /\ pool' = IF context[t] = NoContext THEN Tail(pool) ELSE pool
           /\ active' = [active EXCEPT ![k] = @ + 1]
           /\ hostCalls' = [hostCalls EXCEPT ![t] = Append(@, c)]
           /\ toEnclave' = Send(toEnclave, k, Message("CALL", c))
    /\ Goto(t, "code")
    /\ UNCHANGED <<state, monitor, closed, backlog, fromEnclave, enclaveVars, fuel>>

\* initiateCall and executeOutgoingCall end, normally or with an exception.
LeaveCall(t) ==
    LET k == context[t]
    IN  /\ hostCalls' = [hostCalls EXCEPT ![t] = Popped(@)]
        /\ active' = [active EXCEPT ![k] = @ - 1]
        /\ IF ReturnsContext(k)
           THEN context' = [context EXCEPT ![t] = NoContext] /\ pool' = Append(pool, k)
           ELSE UNCHANGED <<context, pool>>

\* initiateCallInternal receives a message: a call to handle, or what ends its own call.
ReceiveMessage(t) ==
    /\ HostWaits(t)
    /\ fromEnclave[context[t]] # <<>>
    /\ fromEnclave' = [fromEnclave EXCEPT ![context[t]] = Tail(@)]
    /\ LET m == Head(fromEnclave[context[t]])
       IN  \/ /\ m.type = "CALL"
              /\ hostCalls' = [hostCalls EXCEPT ![t] = Append(@, m.call)]
              /\ UNCHANGED <<context, active, pool>>
           \/ /\ m.type # "CALL"
              /\ LeaveCall(t)
    /\ UNCHANGED <<state, monitor, pc, closed, backlog, toEnclave, enclaveVars, fuel>>

\* The read or the write of a call fails because the process is gone.
CallFails(t) ==
    /\ HostWaits(t)
    /\ ~Alive
    /\ fromEnclave[context[t]] = <<>>
    /\ LeaveCall(t)
    /\ UNCHANGED <<state, monitor, pc, closed, socketVars, enclaveVars, fuel>>

\* handleCallMessage: the handler of a call from the enclave returns or throws.
HostHandlerReturns(t, type) ==
    /\ HostCode(t)
    /\ hostCalls[t] # <<>>
    /\ toEnclave' = Answer(toEnclave, context[t], type, Top(hostCalls[t]))
    /\ hostCalls' = [hostCalls EXCEPT ![t] = Popped(@)]
    /\ UNCHANGED <<state, monitor, pc, context, active, pool, closed, backlog, fromEnclave,
                   enclaveVars, fuel>>

-----------------------------------------------------------------------------
(***************************************************************************)
(* Closing.                                                                *)
(***************************************************************************)
\* close() takes the monitor and keeps it.
Close(t) ==
    /\ Closing
    /\ HostCode(t) /\ hostCalls[t] = <<>>
    /\ monitor = NoThread
    /\ state = "Running"
    /\ state' = "Stopped"
    /\ monitor' = t
    /\ Goto(t, "drain")
    /\ UNCHANGED <<context, hostCalls, active, pool, closed, socketVars, enclaveVars, fuel>>

\* close() takes the next context, which must not be active, and sends the stop message; the
\* exception of a failed write ends close().
CloseContext(t) ==
    /\ pc[t] = "drain"
    /\ pool # <<>>
    /\ pool' = Tail(pool)
    /\ LET k == Head(pool)
       IN  \/ /\ active[k] = 0
              /\ toEnclave' = Send(toEnclave, k, Stop)
              /\ closed' = closed \cup {k}
              /\ IF ClosesAllContexts(closed')
                 THEN monitor' = NoThread /\ Goto(t, "code")
                 ELSE UNCHANGED <<monitor, pc>>
           \/ /\ active[k] > 0 \/ ~Alive
              /\ monitor' = NoThread
              /\ Goto(t, "code")
              /\ UNCHANGED <<toEnclave, closed>>
    /\ UNCHANGED <<state, context, hostCalls, active, backlog, fromEnclave, enclaveVars, fuel>>

-----------------------------------------------------------------------------
(***************************************************************************)
(* The enclave's process.                                                  *)
(***************************************************************************)
\* A worker receives a message, in handlerLoop or in initiateCall: a call to handle, the
\* answer to its own call, or (handlerLoop) anything that makes it end.
WorkerReceives(k) ==
    /\ Alive /\ k \notin ended
    /\ ~EnclaveCode(k)
    /\ toEnclave[k] # <<>>
    /\ toEnclave' = [toEnclave EXCEPT ![k] = Tail(@)]
    /\ LET m == Head(toEnclave[k])
       IN  \/ /\ m.type = "CALL"
              /\ enclaveCalls' = [enclaveCalls EXCEPT ![k] = Append(@, m.call)]
              /\ UNCHANGED <<ended, permits>>
           \/ /\ m.type # "CALL" /\ enclaveCalls[k] # <<>>
              /\ enclaveCalls' = [enclaveCalls EXCEPT ![k] = Popped(@)]
              /\ UNCHANGED <<ended, permits>>
           \/ /\ m.type # "CALL" /\ enclaveCalls[k] = <<>>
              /\ ended' = ended \cup {k}
              /\ permits' = permits + 1
              /\ UNCHANGED enclaveCalls
    /\ UNCHANGED <<hostVars, backlog, fromEnclave, process, unconnected, fuel>>

\* executeOutgoingCall and initiateCall of the enclave.
CallHost(k) ==
    /\ EnclaveCode(k)
    /\ Spend(k)
    /\ LET c == [from |-> "enclave", by |-> k, n |-> fuel[k]]
       IN  /\ enclaveCalls' = [enclaveCalls EXCEPT ![k] = Append(@, c)]
           /\ fromEnclave' = [fromEnclave EXCEPT ![k] = Append(@, Message("CALL", c))]
    /\ UNCHANGED <<hostVars, backlog, toEnclave, process, unconnected, ended, permits>>

\* handleCallMessage: the handler of a call from the host returns or throws.
EnclaveHandlerReturns(k, type) ==
    /\ EnclaveCode(k)
    /\ fromEnclave' = Answer(fromEnclave, k, type, Top(enclaveCalls[k]))
    /\ enclaveCalls' = [enclaveCalls EXCEPT ![k] = Popped(@)]
    /\ UNCHANGED <<hostVars, backlog, toEnclave, process, unconnected, ended, permits, fuel>>

\* awaitTermination returns and the process ends.
Exit ==
    /\ process = "serving"
    /\ permits = Cardinality(Contexts)
    /\ process' = "exited"
    /\ UNCHANGED <<hostVars, socketVars, unconnected, enclaveCalls, ended, permits, fuel>>

\* The process dies; some of what it had sent may be lost with it.
Die(lost) ==
    /\ process \in DiesWhen
    /\ process' = "dead"
    /\ toEnclave' = [k \in Contexts |-> <<>>]
    /\ fromEnclave' = [k \in Contexts |-> IF k \in lost THEN <<>> ELSE fromEnclave[k]]
    /\ enclaveCalls' = [k \in Contexts |-> <<>>]
    /\ UNCHANGED <<hostVars, backlog, unconnected, ended, permits, fuel>>

-----------------------------------------------------------------------------
Answers == {"RETURN", "EXCEPTION"}

ThreadStep(t) ==
    \/ AcceptInitial(t)
    \/ PollFails(t)
    \/ StartFails(t)
    \/ AcceptContext(t)
    \/ CheckRunning(t)
    \/ InitiateCall(t)
    \/ ReceiveMessage(t)
    \/ CallFails(t)
    \/ \E type \in Answers : HostHandlerReturns(t, type)
    \/ CloseContext(t)

WorkerStep(k) ==
    \/ WorkerReceives(k)
    \/ CallHost(k)
    \/ \E type \in Answers : EnclaveHandlerReturns(k, type)

MainStep ==
    \/ SendMaximum
    \/ \E k \in Contexts : Connect(k)
    \/ Exit

\* No thread is in the interface; none has to call it.
Idle ==
    /\ \A t \in Threads : pc[t] = "code" /\ hostCalls[t] = <<>>
    /\ UNCHANGED vars

Next ==
    \/ \E t \in Threads : Initialise(t) \/ ExecuteOutgoingCall(t) \/ Close(t) \/ ThreadStep(t)
    \/ \E k \in Contexts : WorkerStep(k)
    \/ MainStep
    \/ \E lost \in SUBSET Contexts : Die(lost)
    \/ Idle

\* Threads that are in a call, and those of the enclave, go on; handlers terminate.
Fairness ==
    /\ \A t \in Threads : WF_vars(ThreadStep(t))
    /\ \A k \in Contexts : WF_vars(WorkerStep(k))
    /\ WF_vars(MainStep)

Spec     == Init /\ [][Next]_vars
FairSpec == Spec /\ Fairness

-----------------------------------------------------------------------------
HostTypes ==
    /\ state \in {"Created", "Running", "Stopped"}
    /\ monitor \in Threads \cup {NoThread}
    /\ pc \in [Threads -> {"code", "connect", "join", "accept", "check", "take", "drain"}]
    /\ context \in [Threads -> Contexts \cup {NoContext}]
    /\ hostCalls \in [Threads -> Seq(Calls)]
    /\ active \in [Contexts -> Nat]
    /\ pool \in Seq(Contexts)
    /\ closed \subseteq Contexts

SocketTypes ==
    /\ backlog \in Seq(Contexts \cup {Hello})
    /\ toEnclave \in [Contexts -> Seq(Messages)]
    /\ fromEnclave \in [Contexts -> Seq(Messages)]

EnclaveTypes ==
    /\ process \in {"none", "started", "connecting", "serving", "exited", "dead"}
    /\ unconnected \subseteq Contexts
    /\ enclaveCalls \in [Contexts -> Seq(Calls)]
    /\ ended \subseteq Contexts
    /\ permits \in Nat
    /\ fuel \in [Threads \cup Contexts -> Nat]

\* Every variable has its type; in particular only contexts get into the pool (the first
\* connection the host accepts is the one with their number) and no call counter goes negative.
SocketTypeOK == HostTypes /\ SocketTypes /\ EnclaveTypes

IsCall(q)   == Len(q) = 1 /\ q[1].type = "CALL"
IsAnswer(q) == Len(q) = 1 /\ q[1].type \in Answers

\* The host's stack h and the enclave's stack e of a context agree up to the one message
\* that is on its way.
Agree(h, e, out, in) ==
    \/ out = <<>> /\ in = <<>> /\ h = e
    \/ IsCall(out) /\ in = <<>> /\ h = Append(e, out[1].call)
    \/ IsAnswer(out) /\ in = <<>> /\ e = Append(h, out[1].call)
    \/ IsCall(in) /\ out = <<>> /\ e = Append(h, in[1].call)
    \/ IsAnswer(in) /\ out = <<>> /\ h = Append(e, in[1].call)

\* However calls nest and throw, the two ends of a context never lose step: both have the same
\* calls in progress, or differ by the single message in flight.  So an answer always reaches
\* the very call it answers (check(... == callType) in initiateCall of either side), and
\* nobody waits while the other side waits too.
StacksAgree ==
    \A t \in Threads : context[t] # NoContext /\ process # "dead" =>
        Agree(hostCalls[t], enclaveCalls[context[t]], toEnclave[context[t]], fromEnclave[context[t]])

InPool(k) == {i \in DOMAIN pool : pool[i] = k}
Users(k)  == {t \in Threads : context[t] = k}
Waiting(s) == {i \in DOMAIN s : s[i].from = "host"}

\* A context is used by one thread, is in the pool once, or is closed, and nothing else; it
\* counts exactly the calls that its user waits for, also when exceptions unwind them
\* (executeOutgoingCall, initiateCall).  A worker is stopped only when neither side has a call
\* in progress on its context (close: "This will wait for any running calls to complete"),
\* and a context in the pool holds nothing of an earlier call that its next user could
\* mistake for its own.
ContextsAccounted ==
    /\ SocketTypeOK
    /\ \A k \in Contexts :
        /\ Cardinality(InPool(k)) + Cardinality(Users(k)) + (IF k \in closed THEN 1 ELSE 0) <= 1
        /\ \A t \in Users(k) : active[k] = Cardinality(Waiting(hostCalls[t])) /\ active[k] > 0
        /\ Users(k) = {} =>
            /\ active[k] = 0
            /\ enclaveCalls[k] = <<>> /\ fromEnclave[k] = <<>>
            /\ toEnclave[k] \in {<<>>, <<Stop>>}
            /\ toEnclave[k] # <<>> => k \in closed

\* Every call into the enclave ends (executeOutgoingCall).
CallsReturn ==
    \A t \in Threads : pc[t] \in {"check", "take"} \/ hostCalls[t] # <<>>
                       ~> pc[t] = "code" /\ hostCalls[t] = <<>>

\* close() waits for running calls and returns (SocketHostEnclaveInterface.close).
CloseReturns == \A t \in Threads : pc[t] = "drain" ~> pc[t] = "code"

\* When the host closes the interface, all workers end and the enclave's process with them
\* (close, handlerLoop, awaitTermination).
EnclaveExits == state = "Stopped" /\ process # "none" ~> ~Alive

\* start() ends, by an exception if the enclave's process dies ("Check the enclave subprocess
\* periodically to ensure that it's still alive").  It holds only if the process does not die
\* before it has made its connections: without them accept() in start() never returns.
StartReturns == \A t \in Threads : pc[t] \in {"connect", "join", "accept"} ~> pc[t] = "code"

-----------------------------------------------------------------------------
(***************************************************************************)
(* The calls of a thread as its host and enclave see them together: the    *)
(* longer of the two stacks, which the message on its way has yet to reach *)
(* or to leave.                                                            *)
(***************************************************************************)
CallStack(t) ==
    LET k == context[t]
    IN  IF k = NoContext THEN <<>>
        ELSE IF process = "dead" /\ IsCall(fromEnclave[k]) THEN Append(hostCalls[t], fromEnclave[k][1].call)
        ELSE IF Len(hostCalls[t]) >= Len(enclaveCalls[k]) THEN hostCalls[t]
        ELSE enclaveCalls[k]

Outcome(t) ==
    LET k == context[t]
    IN  IF k = NoContext THEN "none"
        ELSE IF IsAnswer(fromEnclave[k]) THEN fromEnclave[k][1].type
        ELSE IF IsAnswer(toEnclave[k]) THEN toEnclave[k][1].type
        ELSE "none"

Nested == INSTANCE NestedCalls WITH
    stack   <- [t \in Threads |-> CallStack(t)],
    outcome <- [t \in Threads |-> Outcome(t)],
    gone    <- process = "dead"

\* The sockets, the pool and the workers together behave like threads that enter and leave
\* the enclave: one stack of calls per host thread, on which each handler runs once and its
\* outcome goes to the side that called.
ImplementsNestedCalls == Nested!Spec
=============================================================================

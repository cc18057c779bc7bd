------------------------- MODULE SocketCallsProofs -------------------------
(***************************************************************************)
(* Theorems about SocketCalls, for any numbers of threads and contexts and *)
(* any nesting: what the parts of a context say about the calls on it, and *)
(* that the sockets implement NestedCalls.                                 *)
(***************************************************************************)
EXTENDS SocketCalls, TLAPS, FiniteSetTheorems, SequenceTheorems

-----------------------------------------------------------------------------
(***************************************************************************)
(* The inductive invariant.                                                *)
(***************************************************************************)
\* start() and close() run with the monitor held, and nothing else keeps it.
MonitorOwned ==
    \A t \in Threads : pc[t] \in {"connect", "join", "accept", "drain"} <=> monitor = t

\* The first connection is the one with the number of contexts, and start() takes it off the
\* backlog before it accepts the contexts.
HelloFirst ==
    /\ state = "Created" => process = "none" /\ monitor = NoThread
    /\ process \in {"none", "started"} => backlog = <<>>
    /\ \A t \in Threads :
        /\ pc[t] = "connect" =>
            /\ process # "none"
            /\ process \in {"connecting", "serving"} => backlog # <<>>
            /\ backlog # <<>> => backlog[1] = Hello
        /\ pc[t] = "accept" =>
            /\ process \notin {"none", "started"}
            /\ \A i \in DOMAIN backlog : backlog[i] # Hello

Distinct(s) == \A i, j \in DOMAIN s : s[i] = s[j] => i = j

\* A context is in one place at a time: not connected, waiting to be accepted, in the pool,
\* used by a thread, or closed.
Places ==
    /\ Distinct(pool) /\ Distinct(backlog)
    /\ closed \cap unconnected = {}
    /\ \A j \in DOMAIN backlog : backlog[j] \notin closed \cup unconnected
    /\ \A i \in DOMAIN pool :
        /\ pool[i] \notin closed \cup unconnected
        /\ \A j \in DOMAIN backlog : backlog[j] # pool[i]
        /\ \A t \in Threads : context[t] # pool[i]
    /\ \A t \in Threads : context[t] # NoContext =>
        /\ context[t] \notin closed \cup unconnected
        /\ \A j \in DOMAIN backlog : backlog[j] # context[t]
        /\ \A u \in Threads : context[u] = context[t] => u = t

\* Workers end by the stop message only, and the process after all of them.
Stopping ==
    /\ ended \subseteq closed
    /\ permits = Cardinality(ended)
    /\ process = "exited" => closed = Contexts

FuelBounded == \A x \in Threads \cup Contexts : fuel[x] <= HostFuel + EnclaveFuel

\* The host makes the first call, and then the sides take turns.
Alternates(s) ==
    \A i \in DOMAIN s : (i = 1 => s[i].from = "host") /\ (i > 1 => s[i].from # s[i - 1].from)

\* Agree, and the message that is on its way was sent by the side whose turn it was.
Linked(h, e, out, in) ==
    \/ out = <<>> /\ in = <<>> /\ h = e
    \/ IsCall(out) /\ in = <<>> /\ out[1].call.from = "host" /\ h = Append(e, out[1].call)
    \/ IsAnswer(out) /\ in = <<>> /\ out[1].call.from = "enclave" /\ e = Append(h, out[1].call)
    \/ IsCall(in) /\ out = <<>> /\ in[1].call.from = "enclave" /\ e = Append(h, in[1].call)
    \/ IsAnswer(in) /\ out = <<>> /\ in[1].call.from = "host" /\ h = Append(e, in[1].call)

\* What is left of it after the process has died: a message that the host has yet to read.
Orphaned(h, in) ==
    \/ in = <<>>
    \/ IsCall(in) /\ in[1].call.from = "enclave" /\ Top(h).from = "host"
    \/ IsAnswer(in) /\ in[1].call.from = "host" /\ Top(h) = in[1].call

\* The calls of thread t, and those on the other end of its context k.
Connected(t, k) ==
    /\ hostCalls[t] # <<>> /\ Alternates(hostCalls[t])
    /\ active[k] = Cardinality(Waiting(hostCalls[t]))
    /\ IF process = "dead"
       THEN Orphaned(hostCalls[t], fromEnclave[k])
       ELSE /\ Alternates(enclaveCalls[k])
            /\ Linked(hostCalls[t], enclaveCalls[k], toEnclave[k], fromEnclave[k])

ThreadCalls(t) ==
    /\ context[t] = NoContext => hostCalls[t] = <<>>
    /\ context[t] # NoContext => Connected(t, context[t])
    /\ pc[t] \in {"check", "take"} => Awaited(hostCalls[t]) # "enclave"

Unused(k) ==
    /\ active[k] = 0
    /\ enclaveCalls[k] = <<>> /\ fromEnclave[k] = <<>>
    /\ toEnclave[k] \in {<<>>, <<Stop>>}
    /\ toEnclave[k] # <<>> => k \in closed

CallsInStep ==
    /\ \A t \in Threads : ThreadCalls(t)
    /\ \A k \in Contexts : (\A t \in Threads : context[t] # k) => Unused(k)
    /\ process = "dead" => \A k \in Contexts : enclaveCalls[k] = <<>> /\ toEnclave[k] = <<>>

\* The inductive invariant.
SocketInv ==
    SocketTypeOK /\ MonitorOwned /\ HelloFirst /\ Places /\ Stopping /\ FuelBounded /\ CallsInStep

-----------------------------------------------------------------------------
(***************************************************************************)
(* Facts about sequences.                                                  *)
(***************************************************************************)
\* What taking the first element off a sequence leaves.
LEMMA TailFacts ==
    ASSUME NEW S, NEW s \in Seq(S), s # <<>>
    PROVE  /\ Tail(s) \in Seq(S) /\ Head(s) \in S /\ Head(s) = s[1] /\ 1 \in DOMAIN s
           /\ \A i \in DOMAIN Tail(s) : i + 1 \in DOMAIN s /\ Tail(s)[i] = s[i + 1]
  OBVIOUS

\* What adding an element at the end gives.
LEMMA AppendFacts ==
    ASSUME NEW S, NEW s \in Seq(S), NEW x \in S
    PROVE  /\ Append(s, x) \in Seq(S) /\ Append(s, x) # <<>>
           /\ DOMAIN Append(s, x) = DOMAIN s \cup {Len(s) + 1} /\ Len(s) + 1 \notin DOMAIN s
           /\ \A i \in DOMAIN s : Append(s, x)[i] = s[i]
           /\ Append(s, x)[Len(s) + 1] = x
           /\ Top(Append(s, x)) = x /\ Popped(Append(s, x)) = s
           /\ Len(Append(s, x)) = Len(s) + 1
  BY DEF Top, Popped

\* A non-empty sequence is its last element after the others.
LEMMA PoppedFacts ==
    ASSUME NEW S, NEW s \in Seq(S), s # <<>>
    PROVE  /\ Popped(s) \in Seq(S) /\ Top(s) \in S
           /\ s = Append(Popped(s), Top(s))
  BY DEF Top, Popped

\* Distinct elements stay distinct when one is taken off, and when a new one is added.
LEMMA DistinctFacts ==
    ASSUME NEW S, NEW s \in Seq(S), Distinct(s)
    PROVE  /\ s # <<>> => /\ Distinct(Tail(s))
                          /\ \A i \in DOMAIN Tail(s) : Tail(s)[i] # Head(s)
           /\ \A x \in S : (\A i \in DOMAIN s : s[i] # x) => Distinct(Append(s, x))
  <1>1. ASSUME s # <<>>
        PROVE  Distinct(Tail(s)) /\ \A i \in DOMAIN Tail(s) : Tail(s)[i] # Head(s)
    <2>1. \A i \in DOMAIN Tail(s) : i \in Nat /\ i > 0
      BY <1>1
    <2> QED BY <1>1, <2>1, TailFacts DEF Distinct
  <1>2. ASSUME NEW x \in S, \A i \in DOMAIN s : s[i] # x
        PROVE  Distinct(Append(s, x))
    BY <1>2, AppendFacts DEF Distinct
  <1> QED BY <1>1, <1>2

\* Adding a call keeps the turns when the side that did not make the last one makes it.
LEMMA AlternatesAppend ==
    ASSUME NEW s \in Seq(Calls), NEW c \in Calls
    PROVE  Alternates(Append(s, c)) <=>
              Alternates(s) /\ (IF s = <<>> THEN c.from = "host" ELSE c.from # Top(s).from)
  <1> DEFINE r == Append(s, c)
  <1>1. DOMAIN s = 1 .. Len(s) /\ Len(s) \in Nat /\ DOMAIN r = 1 .. Len(s) + 1 /\ r[Len(s) + 1] = c
    OBVIOUS
  <1>2. \A i \in 1 .. Len(s) : r[i] = s[i] /\ (i > 1 => r[i - 1] = s[i - 1])
    OBVIOUS
  <1>3. CASE s = <<>>
    BY <1>3, AppendFacts DEF Alternates
  <1>4. CASE s # <<>>
    <2>1. Len(s) > 0
      BY <1>4
    <2>2. r[Len(s)] = Top(s)
      BY <1>2, <2>1 DEF Top
    <2> DEFINE InTurn(q, i) == (i = 1 => q[i].from = "host") /\ (i > 1 => q[i].from # q[i - 1].from)
    <2>3. Alternates(r) <=> (\A i \in 1 .. Len(s) : InTurn(r, i)) /\ InTurn(r, Len(s) + 1)
      <3>1. 1 .. Len(s) + 1 = 1 .. Len(s) \cup {Len(s) + 1}
        BY <1>1
      <3> QED BY <1>1, <3>1 DEF Alternates
    <2>4. InTurn(r, Len(s) + 1) <=> c.from # Top(s).from
      <3>1. Len(s) + 1 > 1 /\ Len(s) + 1 # 1 /\ (Len(s) + 1) - 1 = Len(s)
        BY <1>1, <2>1
      <3> HIDE DEF r
      <3> QED BY <1>1, <2>2, <3>1
    <2>5. Alternates(s) <=> \A i \in 1 .. Len(s) : InTurn(r, i)
      BY <1>1, <1>2 DEF Alternates
    <2> QED BY <1>4, <2>3, <2>4, <2>5
  <1> QED BY <1>3, <1>4

\* The first call on a stack is the host's.
LEMMA AlternatesFirst ==
    ASSUME NEW s \in Seq(Calls), s # <<>>, Alternates(s)
    PROVE  1 \in Waiting(s)
  <1>1. 1 \in DOMAIN s
    OBVIOUS
  <1> QED BY <1>1 DEF Alternates, Waiting

\* A call of the host's is one more to wait for.
LEMMA WaitingAppend ==
    ASSUME NEW s \in Seq(Calls), NEW c \in Calls
    PROVE  /\ IsFiniteSet(Waiting(s)) /\ Cardinality(Waiting(s)) \in Nat
           /\ Cardinality(Waiting(Append(s, c))) =
                 IF c.from = "host" THEN Cardinality(Waiting(s)) + 1 ELSE Cardinality(Waiting(s))
  <1>1. IsFiniteSet(Waiting(s))
    <2>1. IsFiniteSet(1 .. Len(s)) /\ Waiting(s) \subseteq 1 .. Len(s)
      BY FS_Interval DEF Waiting
    <2> QED BY <2>1, FS_Subset
  <1>2. Cardinality(Waiting(s)) \in Nat
    BY <1>1, FS_CardinalityType
  <1>3. CASE c.from = "host"
    <2>1. Waiting(Append(s, c)) = Waiting(s) \cup {Len(s) + 1} /\ Len(s) + 1 \notin Waiting(s)
      BY <1>3 DEF Waiting
    <2> QED BY <1>1, <1>2, <1>3, <2>1, FS_AddElement
  <1>4. CASE c.from # "host"
    <2>1. Waiting(Append(s, c)) = Waiting(s)
      BY <1>4 DEF Waiting
    <2> QED BY <1>1, <1>2, <1>4, <2>1
  <1> QED BY <1>1, <1>2, <1>3, <1>4

\* Something is waited for as long as there is a call.
LEMMA WaitingZero ==
    ASSUME NEW s \in Seq(Calls), Alternates(s)
    PROVE  Cardinality(Waiting(s)) = 0 <=> s = <<>>
  <1>1. IsFiniteSet(Waiting(s))
    <2>1. Len(s) \in Nat /\ DOMAIN s = 1 .. Len(s)
      OBVIOUS
    <2>2. IsFiniteSet(1 .. Len(s))
      BY <2>1, FS_Interval
    <2>3. Waiting(s) \subseteq 1 .. Len(s)
      BY <2>1, Zenon DEF Waiting
    <2> QED BY <2>2, <2>3, FS_Subset
  <1>2. s = <<>> => Waiting(s) = {}
    BY DEF Waiting
  <1>3. s # <<>> => Waiting(s) # {}
    BY AlternatesFirst
  <1> QED BY <1>1, <1>2, <1>3, FS_EmptySet

-----------------------------------------------------------------------------
(***************************************************************************)
(* The invariant's parts, one by one.                                      *)
(***************************************************************************)
\* The messages that the actions send.
LEMMA MessageTypes ==
    ASSUME NEW c \in Calls
    PROVE  /\ Message("CALL", c) \in Messages /\ Stop \in Messages
           /\ \A type \in Answers : Message(type, c) \in Messages
  BY DEF Message, Messages, Stop, Answers

\* A message appended to a queue of messages, or lost.
LEMMA SendTypes ==
    ASSUME NEW q \in [Contexts -> Seq(Messages)], NEW k \in Contexts, NEW m \in Messages
    PROVE  /\ Send(q, k, m) \in [Contexts -> Seq(Messages)]
           /\ \A j \in Contexts : j # k => Send(q, k, m)[j] = q[j]
           /\ Send(q, k, m)[k] = IF Alive THEN Append(q[k], m) ELSE q[k]
  BY DEF Send

\* A new call of thread or worker x.
LEMMA NewCallTypes ==
    ASSUME SocketTypeOK, FuelBounded, NEW x \in Threads \cup Contexts, NEW f \in {"host", "enclave"}
    PROVE  [from |-> f, by |-> x, n |-> fuel[x]] \in Calls
  <1>1. fuel[x] \in 0 .. (HostFuel + EnclaveFuel)
    BY SocketConfigAssumption DEF SocketTypeOK, EnclaveTypes, FuelBounded
  <1> QED BY <1>1 DEF Calls

\* A message that carries a call or an answer carries a call of the model.
LEMMA ReceivedTypes ==
    ASSUME NEW m \in Messages
    PROVE  m.type \in {"CALL", "RETURN", "EXCEPTION"} => m.call \in Calls
  BY DEF Messages

\* Taking a message off a queue.
LEMMA ReadTypes ==
    ASSUME NEW q \in [Contexts -> Seq(Messages)], NEW k \in Contexts, q[k] # <<>>
    PROVE  /\ [q EXCEPT ![k] = Tail(@)] \in [Contexts -> Seq(Messages)]
           /\ Head(q[k]) \in Messages
  OBVIOUS

\* A thread in a call has a context.
LEMMA HasContext ==
    ASSUME SocketInv, NEW t \in Threads, hostCalls[t] # <<>>
    PROVE  context[t] \in Contexts /\ Connected(t, context[t])
  BY DEF SocketInv, SocketTypeOK, HostTypes, CallsInStep, ThreadCalls

\* Leaving a call keeps the types.
LEMMA LeaveTypes ==
    ASSUME SocketInv, NEW t \in Threads, hostCalls[t] # <<>>, LeaveCall(t), UNCHANGED <<state, monitor, pc, closed>>
    PROVE  HostTypes'
  <1>1. context[t] \in Contexts /\ active[context[t]] = Cardinality(Waiting(hostCalls[t])) /\ Alternates(hostCalls[t])
    BY HasContext DEF Connected
  <1>2. HostTypes
    BY DEF SocketInv, SocketTypeOK
  <1>3. active[context[t]] - 1 \in Nat
    <2>1. active[context[t]] \in Nat /\ hostCalls[t] \in Seq(Calls)
      BY <1>1, <1>2 DEF HostTypes
    <2> QED BY <1>1, <2>1, WaitingZero
  <1>4. Popped(hostCalls[t]) \in Seq(Calls)
    BY <1>2, PoppedFacts DEF HostTypes
  <1>5. active' \in [Contexts -> Nat] /\ hostCalls' \in [Threads -> Seq(Calls)]
    BY <1>1, <1>2, <1>3, <1>4 DEF LeaveCall, HostTypes
  <1>6. context' \in [Threads -> Contexts \cup {NoContext}] /\ pool' \in Seq(Contexts)
    <2>1. CASE ReturnsContext(context[t])
      <3>1. pool' = Append(pool, context[t]) /\ context' = [context EXCEPT ![t] = NoContext]
        BY <2>1 DEF LeaveCall
      <3> QED BY <1>1, <1>2, <3>1 DEF HostTypes
    <2>2. CASE ~ReturnsContext(context[t])
      BY <1>2, <2>2 DEF LeaveCall, HostTypes
    <2> QED BY <2>1, <2>2
  <1> QED BY <1>2, <1>5, <1>6 DEF HostTypes

\* Every variable keeps its type.
LEMMA TypesKept ==
    ASSUME SocketInv, [Next]_vars
    PROVE  SocketTypeOK'
  <1> USE DEF SocketTypeOK
  <1>a. SocketTypeOK /\ FuelBounded
    BY DEF SocketInv
  <1>b. ASSUME NEW x \in Threads \cup Contexts, Spend(x)
        PROVE  fuel' \in [Threads \cup Contexts -> Nat]
    <2>1. fuel \in [Threads \cup Contexts -> Nat] /\ fuel[x] - 1 \in Nat
      BY <1>a, <1>b DEF Spend, EnclaveTypes
    <2> QED BY <1>b, <2>1 DEF Spend
  <1>1. ASSUME NEW t \in Threads, Initialise(t)
        PROVE  SocketTypeOK'
    BY <1>1, <1>a DEF Initialise, Goto, HostTypes, SocketTypes, EnclaveTypes, socketVars
  <1>2. ASSUME NEW t \in Threads, ExecuteOutgoingCall(t)
        PROVE  SocketTypeOK'
    BY <1>2, <1>a, <1>b DEF ExecuteOutgoingCall, Goto, HostTypes, SocketTypes, EnclaveTypes, socketVars, enclaveVars
  <1>3. ASSUME NEW t \in Threads, Close(t)
        PROVE  SocketTypeOK'
    BY <1>3, <1>a DEF Close, Goto, HostTypes, SocketTypes, EnclaveTypes, socketVars, enclaveVars
  <1>4. ASSUME NEW t \in Threads, AcceptInitial(t)
        PROVE  SocketTypeOK'
    BY <1>4, <1>a DEF AcceptInitial, InitialConnection, Goto, HostTypes, SocketTypes, EnclaveTypes, enclaveVars
  <1>5. ASSUME NEW t \in Threads, PollFails(t)
        PROVE  SocketTypeOK'
    BY <1>5, <1>a DEF PollFails, Goto, HostTypes, SocketTypes, EnclaveTypes, socketVars, enclaveVars
  <1>6. ASSUME NEW t \in Threads, StartFails(t)
        PROVE  SocketTypeOK'
    BY SMTT(30), <1>6, <1>a DEF StartFails, Goto, HostTypes, SocketTypes, EnclaveTypes, enclaveVars
  <1>7. ASSUME NEW t \in Threads, AcceptContext(t)
        PROVE  SocketTypeOK'
    <2>1. backlog \in Seq(Contexts \cup {Hello}) /\ backlog # <<>>
      BY <1>7, <1>a DEF AcceptContext, SocketTypes
    <2>2. Head(backlog) \in Contexts
      BY <1>7, <2>1, TailFacts DEF AcceptContext, SocketInv, HelloFirst
    <2>3. pool' \in Seq(Contexts) /\ backlog' \in Seq(Contexts \cup {Hello})
      BY <1>7, <1>a, <2>1, <2>2 DEF AcceptContext, HostTypes
    <2>4. monitor' \in Threads \cup {NoThread} /\ pc' \in [Threads -> {"code", "connect", "join", "accept", "check", "take", "drain"}]
      BY <1>7, <1>a DEF AcceptContext, Goto, HostTypes
    <2> QED BY <1>7, <1>a, <2>3, <2>4 DEF AcceptContext, HostTypes, SocketTypes, EnclaveTypes, enclaveVars
  <1>8. ASSUME NEW t \in Threads, CheckRunning(t)
        PROVE  SocketTypeOK'
    BY <1>8, <1>a DEF CheckRunning, Goto, HostTypes, SocketTypes, EnclaveTypes, socketVars, enclaveVars
  <1>9. ASSUME NEW t \in Threads, InitiateCall(t)
        PROVE  SocketTypeOK'
    <2> DEFINE k == IF context[t] = NoContext THEN Head(pool) ELSE context[t]
               c == [from |-> "host", by |-> t, n |-> fuel[t]]
    <2>1. k \in Contexts
      BY <1>9, <1>a DEF InitiateCall, HostTypes
    <2>2. c \in Calls /\ Message("CALL", c) \in Messages
      BY <1>a, NewCallTypes, MessageTypes
    <2> HIDE DEF k, c
    <2>3. /\ context' = [context EXCEPT ![t] = k] /\ active' = [active EXCEPT ![k] = @ + 1]
          /\ hostCalls' = [hostCalls EXCEPT ![t] = Append(@, c)]
          /\ toEnclave' = Send(toEnclave, k, Message("CALL", c))
      BY <1>9 DEF InitiateCall, k, c
    <2>4. pool' \in Seq(Contexts)
      BY <1>9, <1>a DEF InitiateCall, HostTypes
    <2>5. pc' \in [Threads -> {"code", "connect", "join", "accept", "check", "take", "drain"}]
      BY <1>9, <1>a DEF InitiateCall, Goto, HostTypes
    <2>6. toEnclave' \in [Contexts -> Seq(Messages)]
      BY <1>a, <2>1, <2>2, <2>3, SendTypes DEF SocketTypes
    <2>7. HostTypes'
      <3>1. active' \in [Contexts -> Nat] /\ hostCalls' \in [Threads -> Seq(Calls)]
        BY <1>a, <2>1, <2>2, <2>3 DEF HostTypes
      <3>2. context' \in [Threads -> Contexts \cup {NoContext}]
        BY <1>a, <2>1, <2>3 DEF HostTypes
      <3>3. UNCHANGED <<state, monitor, closed>>
        BY <1>9 DEF InitiateCall
      <3> QED BY <1>a, <2>4, <2>5, <3>1, <3>2, <3>3 DEF HostTypes
    <2> QED BY <1>9, <1>a, <2>6, <2>7 DEF InitiateCall, SocketTypes, EnclaveTypes, enclaveVars
  <1>10. ASSUME NEW t \in Threads, ReceiveMessage(t)
         PROVE  SocketTypeOK'
    <2>1. hostCalls[t] # <<>> /\ context[t] \in Contexts /\ fromEnclave[context[t]] # <<>>
      BY <1>10, HasContext DEF ReceiveMessage, HostWaits, Awaited
    <2> DEFINE m == Head(fromEnclave[context[t]])
    <2>2. m \in Messages /\ fromEnclave' \in [Contexts -> Seq(Messages)]
      BY <1>10, <1>a, <2>1, ReadTypes DEF ReceiveMessage, SocketTypes
    <2> HIDE DEF m
    <2>3. HostTypes'
      <3>1. CASE m.type = "CALL"
        <4>1. m.call \in Calls
          BY <2>2, <3>1, ReceivedTypes
        <4>2. hostCalls' = [hostCalls EXCEPT ![t] = Append(@, m.call)]
              /\ UNCHANGED <<context, active, pool, state, monitor, pc, closed>>
          BY <1>10, <3>1 DEF ReceiveMessage, m
        <4> QED BY <1>a, <4>1, <4>2 DEF HostTypes
      <3>2. CASE m.type # "CALL"
        BY <1>10, <2>1, <3>2, LeaveTypes DEF ReceiveMessage, m
      <3> QED BY <3>1, <3>2
    <2> QED BY <1>10, <1>a, <2>2, <2>3 DEF ReceiveMessage, SocketTypes, EnclaveTypes, enclaveVars
  <1>11. ASSUME NEW t \in Threads, CallFails(t)
         PROVE  SocketTypeOK'
    <2>1. hostCalls[t] # <<>>
      BY <1>11 DEF CallFails, HostWaits, Awaited
    <2>2. HostTypes'
      BY <1>11, <2>1, LeaveTypes DEF CallFails
    <2> QED BY <1>11, <1>a, <2>2 DEF CallFails, SocketTypes, EnclaveTypes, enclaveVars, socketVars
  <1>12. ASSUME NEW t \in Threads, NEW type \in Answers, HostHandlerReturns(t, type)
         PROVE  SocketTypeOK'
    <2>1. hostCalls[t] # <<>> /\ context[t] \in Contexts /\ hostCalls[t] \in Seq(Calls)
      BY <1>12, <1>a, HasContext DEF HostHandlerReturns, HostTypes
    <2>2. Top(hostCalls[t]) \in Calls /\ Popped(hostCalls[t]) \in Seq(Calls)
      BY <2>1, PoppedFacts
    <2>3. toEnclave' \in [Contexts -> Seq(Messages)]
      BY <1>12, <1>a, <2>1, <2>2, SendTypes, MessageTypes DEF HostHandlerReturns, Answer, SocketTypes
    <2>4. hostCalls' \in [Threads -> Seq(Calls)]
      BY <1>12, <1>a, <2>2 DEF HostHandlerReturns, HostTypes
    <2> QED BY <1>12, <1>a, <2>3, <2>4 DEF HostHandlerReturns, HostTypes, SocketTypes, EnclaveTypes, enclaveVars
  <1>13. ASSUME NEW t \in Threads, CloseContext(t)
         PROVE  SocketTypeOK'
    <2>1. pool' \in Seq(Contexts) /\ Head(pool) \in Contexts
      BY <1>13, <1>a DEF CloseContext, HostTypes
    <2>2. Stop \in Messages
      BY DEF Messages, Stop, Message
    <2>3. toEnclave' \in [Contexts -> Seq(Messages)]
      <3>1. toEnclave' = Send(toEnclave, Head(pool), Stop) \/ toEnclave' = toEnclave
        BY <1>13 DEF CloseContext
      <3>2. Send(toEnclave, Head(pool), Stop) \in [Contexts -> Seq(Messages)]
        BY <1>a, <2>1, <2>2, SendTypes DEF SocketTypes
      <3> QED BY <1>a, <3>1, <3>2 DEF SocketTypes
    <2>4. closed' \subseteq Contexts /\ monitor' \in Threads \cup {NoThread}
      BY <1>13, <1>a, <2>1 DEF CloseContext, HostTypes
    <2>5. pc' \in [Threads -> {"code", "connect", "join", "accept", "check", "take", "drain"}]
      BY <1>13, <1>a DEF CloseContext, Goto, HostTypes
    <2> QED BY <1>13, <1>a, <2>1, <2>3, <2>4, <2>5 DEF CloseContext, HostTypes, SocketTypes, EnclaveTypes, enclaveVars
  <1>14. ASSUME NEW k \in Contexts, WorkerReceives(k)
         PROVE  SocketTypeOK'
    <2>1. toEnclave[k] # <<>>
      BY <1>14 DEF WorkerReceives
    <2>2. Head(toEnclave[k]) \in Messages /\ toEnclave' \in [Contexts -> Seq(Messages)]
      BY <1>14, <1>a, <2>1, ReadTypes DEF WorkerReceives, SocketTypes
    <2>3. enclaveCalls' \in [Contexts -> Seq(Calls)]
      <3>1. enclaveCalls \in [Contexts -> Seq(Calls)] /\ (enclaveCalls[k] # <<>> => Popped(enclaveCalls[k]) \in Seq(Calls))
        BY <1>a, PoppedFacts DEF EnclaveTypes
      <3> DEFINE m == Head(toEnclave[k])
      <3>2. \/ m.call \in Calls /\ enclaveCalls' = [enclaveCalls EXCEPT ![k] = Append(@, m.call)]
            \/ enclaveCalls[k] # <<>> /\ enclaveCalls' = [enclaveCalls EXCEPT ![k] = Popped(@)]
            \/ enclaveCalls' = enclaveCalls
        BY <1>14, <2>2, ReceivedTypes DEF WorkerReceives
      <3> HIDE DEF m
      <3>3. CASE m.call \in Calls /\ enclaveCalls' = [enclaveCalls EXCEPT ![k] = Append(@, m.call)]
        BY <3>1, <3>3
      <3>4. CASE enclaveCalls[k] # <<>> /\ enclaveCalls' = [enclaveCalls EXCEPT ![k] = Popped(@)]
        BY <3>1, <3>4
      <3> QED BY <3>1, <3>2, <3>3, <3>4
    <2>4. ended' \subseteq Contexts /\ permits' \in Nat
      BY <1>14, <1>a DEF WorkerReceives, EnclaveTypes
    <2> QED BY <1>14, <1>a, <2>2, <2>3, <2>4 DEF WorkerReceives, HostTypes, SocketTypes, EnclaveTypes, hostVars
  <1>15. ASSUME NEW k \in Contexts, CallHost(k)
         PROVE  SocketTypeOK'
    <2> DEFINE c == [from |-> "enclave", by |-> k, n |-> fuel[k]]
    <2>1. c \in Calls /\ Message("CALL", c) \in Messages
      BY <1>a, NewCallTypes, MessageTypes
    <2> HIDE DEF c
    <2>2. /\ enclaveCalls' = [enclaveCalls EXCEPT ![k] = Append(@, c)]
          /\ fromEnclave' = [fromEnclave EXCEPT ![k] = Append(@, Message("CALL", c))]
      BY <1>15 DEF CallHost, c
    <2>3. enclaveCalls' \in [Contexts -> Seq(Calls)] /\ fromEnclave' \in [Contexts -> Seq(Messages)]
      BY <1>a, <2>1, <2>2 DEF SocketTypes, EnclaveTypes
    <2>4. fuel' \in [Threads \cup Contexts -> Nat]
      BY <1>15, <1>b DEF CallHost
    <2> QED BY <1>15, <1>a, <2>3, <2>4 DEF CallHost, HostTypes, SocketTypes, EnclaveTypes, hostVars
  <1>16. ASSUME NEW k \in Contexts, NEW type \in Answers, EnclaveHandlerReturns(k, type)
         PROVE  SocketTypeOK'
    <2>1. enclaveCalls[k] # <<>> /\ enclaveCalls[k] \in Seq(Calls)
      BY <1>16, <1>a DEF EnclaveHandlerReturns, EnclaveCode, Awaited, EnclaveTypes
    <2>2. Top(enclaveCalls[k]) \in Calls /\ Popped(enclaveCalls[k]) \in Seq(Calls)
      BY <2>1, PoppedFacts
    <2>3. fromEnclave' \in [Contexts -> Seq(Messages)]
      BY <1>16, <1>a, <2>2, SendTypes, MessageTypes DEF EnclaveHandlerReturns, Answer, SocketTypes
    <2>4. enclaveCalls' \in [Contexts -> Seq(Calls)]
      BY <1>16, <1>a, <2>2 DEF EnclaveHandlerReturns, EnclaveTypes
    <2> QED BY <1>16, <1>a, <2>3, <2>4 DEF EnclaveHandlerReturns, HostTypes, SocketTypes, EnclaveTypes, hostVars
  <1>17. ASSUME SendMaximum
         PROVE  SocketTypeOK'
    BY <1>17, <1>a DEF SendMaximum, HostTypes, SocketTypes, EnclaveTypes, hostVars
  <1>18. ASSUME NEW k \in Contexts, Connect(k)
         PROVE  SocketTypeOK'
    <2>1. backlog' \in Seq(Contexts \cup {Hello})
      BY <1>18, <1>a DEF Connect, SocketTypes
    <2>2. process' \in {"none", "started", "connecting", "serving", "exited", "dead"} /\ unconnected' \subseteq Contexts
      BY <1>18, <1>a DEF Connect, EnclaveTypes
    <2> QED BY <1>18, <1>a, <2>1, <2>2 DEF Connect, HostTypes, SocketTypes, EnclaveTypes, hostVars
  <1>19. ASSUME Exit
         PROVE  SocketTypeOK'
    BY <1>19, <1>a DEF Exit, HostTypes, SocketTypes, EnclaveTypes, hostVars, socketVars
  <1>20. ASSUME NEW lost \in SUBSET Contexts, Die(lost)
         PROVE  SocketTypeOK'
    <2>1. fromEnclave' \in [Contexts -> Seq(Messages)]
      BY <1>20, <1>a DEF Die, SocketTypes
    <2> QED BY <1>20, <1>a, <2>1 DEF Die, HostTypes, SocketTypes, EnclaveTypes, hostVars
  <1>21. CASE UNCHANGED vars
    BY <1>21, <1>a DEF vars, hostVars, socketVars, enclaveVars, HostTypes, SocketTypes, EnclaveTypes
  <1> QED BY <1>1, <1>2, <1>3, <1>4, <1>5, <1>6, <1>7, <1>8, <1>9, <1>10, <1>11, <1>12, <1>13, <1>14,
             <1>15, <1>16, <1>17, <1>18, <1>19, <1>20, <1>21
          DEF Next, ThreadStep, WorkerStep, MainStep, Idle

\* The bounds on the calls only go down.
LEMMA FuelKept ==
    ASSUME SocketInv, [Next]_vars
    PROVE  FuelBounded'
  <1>1. fuel \in [Threads \cup Contexts -> Nat] /\ FuelBounded /\ HostFuel \in Nat /\ EnclaveFuel \in Nat
    BY SocketConfigAssumption DEF SocketInv, SocketTypeOK, EnclaveTypes
  <1>2. CASE \E x \in Threads \cup Contexts : Spend(x)
    <2>1. PICK x \in Threads \cup Contexts : Spend(x)
      BY <1>2
    <2> QED BY <1>1, <2>1 DEF Spend, FuelBounded
  <1>3. CASE UNCHANGED fuel
    BY <1>1, <1>3 DEF FuelBounded
  <1>4. ASSUME NEW t \in Threads, Initialise(t) \/ ExecuteOutgoingCall(t) \/ Close(t) \/ ThreadStep(t)
        PROVE  UNCHANGED fuel \/ Spend(t)
    BY <1>4 DEF Initialise, ExecuteOutgoingCall, Close, ThreadStep, AcceptInitial, PollFails, StartFails,
                AcceptContext, CheckRunning, InitiateCall, ReceiveMessage, CallFails, HostHandlerReturns,
                CloseContext
  <1>5. ASSUME NEW k \in Contexts, WorkerStep(k)
        PROVE  UNCHANGED fuel \/ Spend(k)
    BY <1>5 DEF WorkerStep, WorkerReceives, CallHost, EnclaveHandlerReturns
  <1>6. MainStep \/ (\E lost \in SUBSET Contexts : Die(lost)) \/ Idle \/ UNCHANGED vars => UNCHANGED fuel
    BY DEF MainStep, SendMaximum, Connect, Exit, Die, Idle, vars
  <1> QED BY <1>2, <1>3, <1>4, <1>5, <1>6 DEF Next

\* Only start() and close() keep the monitor, and they give it back.
LEMMA MonitorKept ==
    ASSUME SocketInv, [Next]_vars
    PROVE  MonitorOwned'
  <1>1. /\ MonitorOwned /\ pc \in [Threads -> {"code", "connect", "join", "accept", "check", "take", "drain"}]
        /\ (state = "Created" => monitor = NoThread) /\ NoThread \notin Threads
    BY SocketConfigAssumption DEF SocketInv, SocketTypeOK, HostTypes, HelloFirst
  <1>2. CASE UNCHANGED <<pc, monitor>>
    BY <1>1, <1>2 DEF MonitorOwned
  <1>3. ASSUME NEW t \in Threads, Initialise(t) \/ Close(t)
        PROVE  MonitorOwned'
    BY <1>1, <1>3 DEF Initialise, Close, Goto, MonitorOwned
  <1>4. ASSUME NEW t \in Threads, AcceptInitial(t) \/ PollFails(t) \/ StartFails(t)
        PROVE  MonitorOwned'
    BY <1>1, <1>4 DEF AcceptInitial, PollFails, StartFails, Goto, MonitorOwned
  <1>5. ASSUME NEW t \in Threads, AcceptContext(t) \/ CloseContext(t)
        PROVE  MonitorOwned'
    <2>1. pc[t] \in {"accept", "drain"}
      BY <1>5 DEF AcceptContext, CloseContext
    <2>2. UNCHANGED <<pc, monitor>> \/ (monitor' = NoThread /\ Goto(t, "code"))
      BY <1>5 DEF AcceptContext, CloseContext
    <2> QED BY <1>1, <1>2, <2>1, <2>2 DEF Goto, MonitorOwned
  <1>6. ASSUME NEW t \in Threads, ExecuteOutgoingCall(t) \/ CheckRunning(t) \/ InitiateCall(t)
        PROVE  MonitorOwned'
    <2>1. pc[t] \in {"code", "check", "take"} /\ UNCHANGED monitor /\ \E q \in {"check", "take", "code"} : Goto(t, q)
      BY <1>6 DEF ExecuteOutgoingCall, CheckRunning, InitiateCall, HostCode
    <2> QED BY <1>1, <2>1 DEF Goto, MonitorOwned
  <1>7. ASSUME NEW t \in Threads, ReceiveMessage(t) \/ CallFails(t) \/ \E type \in Answers : HostHandlerReturns(t, type)
        PROVE  UNCHANGED <<pc, monitor>>
    BY <1>7 DEF ReceiveMessage, CallFails, HostHandlerReturns
  <1>8. ASSUME NEW k \in Contexts, WorkerStep(k)
        PROVE  UNCHANGED <<pc, monitor>>
    BY <1>8 DEF WorkerStep, WorkerReceives, CallHost, EnclaveHandlerReturns, hostVars
  <1>9. MainStep \/ (\E lost \in SUBSET Contexts : Die(lost)) \/ Idle \/ UNCHANGED vars => UNCHANGED <<pc, monitor>>
    BY DEF MainStep, SendMaximum, Connect, Exit, Die, Idle, vars, hostVars
  <1> QED BY <1>2, <1>3, <1>4, <1>5, <1>6, <1>7, <1>8, <1>9 DEF Next, ThreadStep

\* The host takes Hello off the backlog first.
LEMMA HelloKept ==
    ASSUME SocketInv, [Next]_vars
    PROVE  HelloFirst'
  <1>1. /\ MonitorOwned /\ HelloFirst /\ pc \in [Threads -> {"code", "connect", "join", "accept", "check", "take", "drain"}]
        /\ backlog \in Seq(Contexts \cup {Hello}) /\ Distinct(backlog)
        /\ process \in {"none", "started", "connecting", "serving", "exited", "dead"}
    BY DEF SocketInv, SocketTypeOK, HostTypes, SocketTypes, EnclaveTypes, Places
  <1>2. NoThread \notin Threads /\ Hello \notin Contexts /\ DiesWhen \subseteq {"started", "connecting", "serving"}
    BY SocketConfigAssumption
  <1>3. CASE UNCHANGED <<state, process, monitor, backlog, pc>>
    BY <1>1, <1>3 DEF HelloFirst
  <1>4. ASSUME NEW t \in Threads, Initialise(t) \/ Close(t)
        PROVE  HelloFirst'
    BY <1>1, <1>2, <1>4 DEF Initialise, Close, Goto, HelloFirst, MonitorOwned, socketVars, enclaveVars
  <1>5. ASSUME NEW t \in Threads, AcceptInitial(t)
        PROVE  HelloFirst'
    <2>1. pc[t] = "connect" /\ backlog # <<>> /\ backlog' = Tail(backlog) /\ Goto(t, "accept")
          /\ UNCHANGED <<state, process, monitor>>
      BY <1>5 DEF AcceptInitial, InitialConnection, enclaveVars
    <2>2. monitor = t /\ process \notin {"none", "started"} /\ Head(backlog) = Hello
      BY <1>1, <2>1, TailFacts DEF MonitorOwned, HelloFirst
    <2>3. \A i \in DOMAIN backlog' : backlog'[i] # Hello
      BY <1>1, <2>1, <2>2, DistinctFacts
    <2>4. \A u \in Threads : pc'[u] # "connect"
      BY <1>1, <2>1, <2>2 DEF MonitorOwned, Goto
    <2> QED BY <1>1, <2>1, <2>2, <2>3, <2>4, <1>2 DEF HelloFirst
  <1>6. ASSUME NEW t \in Threads, PollFails(t) \/ StartFails(t)
        PROVE  HelloFirst'
    <2>1. pc[t] \in {"connect", "join"} /\ \E q \in {"join", "code"} : Goto(t, q)
      BY <1>6 DEF PollFails, StartFails
    <2>2. \A u \in Threads : pc'[u] \notin {"connect", "accept"}
      BY <1>1, <2>1 DEF MonitorOwned, Goto
    <2>3. UNCHANGED process /\ (UNCHANGED <<state, backlog, monitor>> \/ (backlog # <<>> /\ state' = "Stopped"))
      BY <1>6 DEF PollFails, StartFails, socketVars, enclaveVars
    <2> QED BY <1>1, <2>2, <2>3 DEF HelloFirst
  <1>7. ASSUME NEW t \in Threads, AcceptContext(t)
        PROVE  HelloFirst'
    <2>1. pc[t] = "accept" /\ backlog # <<>> /\ backlog' = Tail(backlog) /\ UNCHANGED <<state, process>>
      BY <1>7 DEF AcceptContext, enclaveVars
    <2>2. pc' = pc \/ Goto(t, "code")
      BY <1>7 DEF AcceptContext
    <2>3. \A u \in Threads : pc'[u] # "connect" /\ (pc'[u] = "accept" => pc[u] = "accept")
      BY <1>1, <2>1, <2>2 DEF MonitorOwned, Goto
    <2>4. \A i \in DOMAIN backlog' : backlog'[i] # Hello
      BY <1>1, <2>1, TailFacts DEF HelloFirst
    <2>5. state # "Created" /\ process \notin {"none", "started"}
      BY <1>1, <2>1 DEF HelloFirst
    <2> QED BY <1>1, <2>1, <2>3, <2>4, <2>5 DEF HelloFirst
  <1>8. ASSUME NEW t \in Threads, ExecuteOutgoingCall(t) \/ CheckRunning(t) \/ InitiateCall(t)
        PROVE  HelloFirst'
    <2>1. UNCHANGED <<state, process, monitor, backlog>> /\ \E q \in {"check", "take", "code"} : Goto(t, q)
      BY <1>8 DEF ExecuteOutgoingCall, CheckRunning, InitiateCall, socketVars, enclaveVars
    <2>2. \A u \in Threads : pc'[u] \in {"connect", "accept"} => pc'[u] = pc[u]
      BY <1>1, <2>1 DEF Goto
    <2> QED BY <1>1, <2>1, <2>2 DEF HelloFirst
  <1>9. ASSUME NEW t \in Threads, ReceiveMessage(t) \/ CallFails(t) \/ \E type \in Answers : HostHandlerReturns(t, type)
        PROVE  UNCHANGED <<state, process, monitor, backlog, pc>>
    BY <1>9 DEF ReceiveMessage, CallFails, HostHandlerReturns, socketVars, enclaveVars
  <1>10. ASSUME NEW t \in Threads, CloseContext(t)
         PROVE  HelloFirst'
    <2>1. UNCHANGED <<state, process, backlog>> /\ (UNCHANGED <<pc, monitor>> \/ (Goto(t, "code") /\ monitor' = NoThread))
      BY <1>10 DEF CloseContext, enclaveVars
    <2>2. \A u \in Threads : pc'[u] \in {"connect", "accept"} => pc'[u] = pc[u]
      BY <1>1, <2>1 DEF Goto
    <2> QED BY <1>1, <2>1, <2>2 DEF HelloFirst
  <1>11. ASSUME NEW k \in Contexts, WorkerStep(k)
         PROVE  UNCHANGED <<state, process, monitor, backlog, pc>>
    BY <1>11 DEF WorkerStep, WorkerReceives, CallHost, EnclaveHandlerReturns, hostVars
  <1>12. ASSUME SendMaximum
         PROVE  HelloFirst'
    <2>1. process = "started" /\ backlog = <<>> /\ process' = "connecting" /\ UNCHANGED <<state, monitor, pc>>
          /\ backlog' = <<Hello>>
      BY <1>1, <1>12 DEF SendMaximum, hostVars, HelloFirst
    <2> QED BY <1>1, <2>1 DEF HelloFirst
  <1>13. ASSUME NEW k \in Contexts, Connect(k)
         PROVE  HelloFirst'
    <2>1. process = "connecting" /\ process' \in {"connecting", "serving"} /\ backlog' = Append(backlog, k)
          /\ UNCHANGED <<state, monitor, pc>> /\ k # Hello
      BY <1>2, <1>13 DEF Connect, hostVars
    <2>2. backlog' # <<>> /\ (backlog # <<>> => backlog'[1] = backlog[1])
      BY <1>1, <2>1
    <2>3. (\A i \in DOMAIN backlog : backlog[i] # Hello) => \A i \in DOMAIN backlog' : backlog'[i] # Hello
      BY <1>1, <2>1, AppendFacts
    <2> QED BY <1>1, <2>1, <2>2, <2>3 DEF HelloFirst
  <1>14. ASSUME Exit \/ \E lost \in SUBSET Contexts : Die(lost)
         PROVE  HelloFirst'
    <2>1. process \in {"started", "connecting", "serving"} /\ process' \in {"exited", "dead"} /\ UNCHANGED <<state, monitor, pc, backlog>>
      BY <1>2, <1>14 DEF Exit, Die, hostVars, socketVars
    <2> QED BY <1>1, <2>1 DEF HelloFirst
  <1>15. Idle \/ UNCHANGED vars => UNCHANGED <<state, process, monitor, backlog, pc>>
    BY DEF Idle, vars, hostVars, socketVars, enclaveVars
  <1> QED BY <1>3, <1>4, <1>5, <1>6, <1>7, <1>8, <1>9, <1>10, <1>11, <1>12, <1>13, <1>14, <1>15
          DEF Next, ThreadStep, MainStep

\* A context that a thread gives back goes from the thread to the pool.
LEMMA LeavePlaces ==
    ASSUME SocketInv, NEW t \in Threads, hostCalls[t] # <<>>, LeaveCall(t), UNCHANGED <<closed, backlog, unconnected>>
    PROVE  Places'
  <1>1. /\ Places /\ pool \in Seq(Contexts) /\ context \in [Threads -> Contexts \cup {NoContext}]
        /\ context[t] \in Contexts /\ context[t] # NoContext
    BY HasContext, SocketConfigAssumption DEF SocketInv, SocketTypeOK, HostTypes
  <1>2. CASE ReturnsContext(context[t])
    <2>1. pool' = Append(pool, context[t]) /\ context' = [context EXCEPT ![t] = NoContext]
      BY <1>2 DEF LeaveCall
    <2>2. Distinct(pool')
      BY <1>1, <2>1, DistinctFacts DEF Places
    <2>3. \A i \in DOMAIN pool' : pool'[i] = context[t] \/ \E j \in DOMAIN pool : pool'[i] = pool[j]
      BY <1>1, <2>1, AppendFacts
    <2>4. \A u \in Threads : context'[u] = (IF u = t THEN NoContext ELSE context[u])
      BY <1>1, <2>1
    <2>5. \A i \in DOMAIN pool' : pool'[i] # NoContext
      BY <1>1, <2>3, SocketConfigAssumption
    <2> QED BY <1>1, <2>2, <2>3, <2>4, <2>5 DEF Places
  <1>3. CASE ~ReturnsContext(context[t])
    BY <1>1, <1>3 DEF LeaveCall, Places
  <1> QED BY <1>2, <1>3

\* A context stays in one place at a time.
LEMMA PlacesKept ==
    ASSUME SocketInv, [Next]_vars
    PROVE  Places'
  <1>1. /\ Places /\ pool \in Seq(Contexts) /\ backlog \in Seq(Contexts \cup {Hello})
        /\ context \in [Threads -> Contexts \cup {NoContext}]
        /\ closed \subseteq Contexts /\ unconnected \subseteq Contexts
    BY DEF SocketInv, SocketTypeOK, HostTypes, SocketTypes, EnclaveTypes
  <1>2. NoContext \notin Contexts /\ Hello \notin Contexts
    BY SocketConfigAssumption
  <1>3. CASE UNCHANGED <<pool, backlog, closed, unconnected, context>>
    BY <1>1, <1>3 DEF Places
  <1>4. ASSUME backlog # <<>>, backlog' = Tail(backlog), UNCHANGED <<pool, closed, unconnected, context>>
        PROVE  Places'
    <2>1. Distinct(backlog') /\ \A j \in DOMAIN backlog' : \E i \in DOMAIN backlog : backlog'[j] = backlog[i]
      BY <1>1, <1>4, DistinctFacts, TailFacts DEF Places
    <2> QED BY <1>1, <1>4, <2>1 DEF Places
  <1>5. ASSUME NEW t \in Threads, AcceptContext(t)
        PROVE  Places'
    <2>1. backlog # <<>> /\ backlog' = Tail(backlog) /\ pool' = Append(pool, Head(backlog)) /\ UNCHANGED <<closed, unconnected, context>>
      BY <1>5 DEF AcceptContext, enclaveVars
    <2>2. Head(backlog) = backlog[1] /\ 1 \in DOMAIN backlog
      BY <1>1, <2>1, TailFacts
    <2>3. Head(backlog) \in Contexts
      BY <1>1, <1>5, <2>2 DEF AcceptContext, SocketInv, HelloFirst
    <2>4. Distinct(backlog') /\ \A j \in DOMAIN backlog' : backlog'[j] # Head(backlog) /\ \E i \in DOMAIN backlog : backlog'[j] = backlog[i]
      BY <1>1, <2>1, DistinctFacts, TailFacts DEF Places
    <2>5. Distinct(pool')
      BY <1>1, <2>1, <2>2, <2>3, DistinctFacts DEF Places
    <2>6. \A i \in DOMAIN pool' : pool'[i] = Head(backlog) \/ \E j \in DOMAIN pool : pool'[i] = pool[j]
      BY <1>1, <2>1, <2>3, AppendFacts
    <2>7. /\ Head(backlog) \notin closed \cup unconnected
          /\ \A u \in Threads : context[u] # Head(backlog)
      BY <1>1, <1>2, <2>2, <2>3 DEF Places
    <2> QED BY <1>1, <2>1, <2>4, <2>5, <2>6, <2>7 DEF Places
  <1>6. ASSUME pool # <<>>, pool' = Tail(pool), closed' \in {closed, closed \cup {Head(pool)}}, UNCHANGED <<backlog, unconnected, context>>
        PROVE  Places'
    <2>1. Head(pool) = pool[1] /\ 1 \in DOMAIN pool
      BY <1>1, <1>6, TailFacts
    <2>2. Distinct(pool') /\ \A j \in DOMAIN pool' : pool'[j] # Head(pool) /\ \E i \in DOMAIN pool : pool'[j] = pool[i]
      BY <1>1, <1>6, DistinctFacts, TailFacts DEF Places
    <2>3. /\ Head(pool) \notin closed \cup unconnected
          /\ \A j \in DOMAIN backlog : backlog[j] # Head(pool)
          /\ \A u \in Threads : context[u] # Head(pool)
      BY <1>1, <2>1 DEF Places
    <2> QED BY <1>1, <1>6, <2>2, <2>3 DEF Places
  <1>7. ASSUME NEW t \in Threads, InitiateCall(t)
        PROVE  Places'
    <2>1. UNCHANGED <<closed, backlog, unconnected>>
      BY <1>7 DEF InitiateCall, enclaveVars
    <2>2. CASE context[t] = NoContext
      <3>1. pool # <<>> /\ pool' = Tail(pool) /\ context' = [context EXCEPT ![t] = Head(pool)]
        BY <1>7, <2>2 DEF InitiateCall
      <3>2. Head(pool) = pool[1] /\ 1 \in DOMAIN pool
        BY <1>1, <3>1, TailFacts
      <3>3. Distinct(pool') /\ \A j \in DOMAIN pool' : pool'[j] # Head(pool) /\ \E i \in DOMAIN pool : pool'[j] = pool[i]
        BY <1>1, <3>1, DistinctFacts, TailFacts DEF Places
      <3>4. /\ Head(pool) \notin closed \cup unconnected
            /\ \A j \in DOMAIN backlog : backlog[j] # Head(pool)
            /\ \A u \in Threads : context[u] # Head(pool)
        BY <1>1, <3>2 DEF Places
      <3>5. \A u \in Threads : context'[u] = IF u = t THEN Head(pool) ELSE context[u]
        BY <1>1, <3>1
      <3> QED BY <1>1, <2>1, <3>3, <3>4, <3>5 DEF Places
    <2>3. CASE context[t] # NoContext
      <3>1. UNCHANGED <<pool, context>>
        BY <1>1, <1>7, <2>3 DEF InitiateCall
      <3> QED BY <1>3, <2>1, <3>1
    <2> QED BY <2>2, <2>3
  <1>8. ASSUME NEW t \in Threads, ReceiveMessage(t) \/ CallFails(t)
        PROVE  Places'
    <2>1. hostCalls[t] # <<>> /\ UNCHANGED <<closed, backlog, unconnected>>
      BY <1>8 DEF ReceiveMessage, CallFails, HostWaits, Awaited, socketVars, enclaveVars
    <2>2. UNCHANGED <<context, pool>> \/ LeaveCall(t)
      BY <1>8 DEF ReceiveMessage, CallFails
    <2> QED BY <1>3, <2>1, <2>2, LeavePlaces
  <1>9. ASSUME SendMaximum
        PROVE  Places'
    <2>1. backlog' = <<Hello>> /\ UNCHANGED <<pool, closed, unconnected, context>>
      BY <1>9 DEF SendMaximum, hostVars, SocketInv, HelloFirst
    <2>2. \A t \in Threads : context[t] # NoContext => context[t] \in Contexts
      BY <1>1
    <2>3. DOMAIN backlog' = {1} /\ backlog'[1] = Hello
      BY <2>1
    <2>4. \A i \in DOMAIN pool : pool[i] \in Contexts
      BY <1>1
    <2>5. Distinct(backlog')
      BY <2>3 DEF Distinct
    <2> QED BY <1>1, <1>2, <2>1, <2>2, <2>3, <2>4, <2>5 DEF Places
  <1>10. ASSUME NEW k \in Contexts, Connect(k)
         PROVE  Places'
    <2>1. k \in unconnected /\ unconnected' = unconnected \ {k} /\ backlog' = Append(backlog, k) /\ UNCHANGED <<pool, closed, context>>
      BY <1>10 DEF Connect, hostVars
    <2>2. Distinct(backlog') /\ \A j \in DOMAIN backlog' : backlog'[j] = k \/ \E i \in DOMAIN backlog : backlog'[j] = backlog[i]
      BY <1>1, <2>1, DistinctFacts, AppendFacts DEF Places
    <2>3. \A j \in DOMAIN backlog : backlog[j] # k
      BY <1>1, <2>1 DEF Places
    <2> QED BY <1>1, <2>1, <2>2, <2>3 DEF Places
  <1>11. ASSUME NEW t \in Threads, AcceptInitial(t) \/ StartFails(t)
         PROVE  Places'
    BY <1>4, <1>11 DEF AcceptInitial, StartFails, InitialConnection, enclaveVars
  <1>12. ASSUME NEW t \in Threads, CloseContext(t)
         PROVE  Places'
    BY <1>6, <1>12 DEF CloseContext, enclaveVars
  <1>13. ASSUME NEW t \in Threads, \/ Initialise(t) \/ ExecuteOutgoingCall(t) \/ Close(t) \/ PollFails(t) \/ CheckRunning(t)
                                    \/ \E type \in Answers : HostHandlerReturns(t, type)
         PROVE  UNCHANGED <<pool, backlog, closed, unconnected, context>>
    BY <1>13 DEF Initialise, ExecuteOutgoingCall, Close, PollFails, CheckRunning, HostHandlerReturns, socketVars, enclaveVars
  <1>14. ASSUME NEW k \in Contexts, WorkerStep(k)
         PROVE  UNCHANGED <<pool, backlog, closed, unconnected, context>>
    BY <1>14 DEF WorkerStep, WorkerReceives, CallHost, EnclaveHandlerReturns, hostVars
  <1>15. Exit \/ (\E lost \in SUBSET Contexts : Die(lost)) \/ Idle \/ UNCHANGED vars
         => UNCHANGED <<pool, backlog, closed, unconnected, context>>
    BY DEF Exit, Die, Idle, vars, hostVars, socketVars, enclaveVars
  <1> QED BY <1>3, <1>5, <1>7, <1>8, <1>9, <1>10, <1>11, <1>12, <1>13, <1>14, <1>15
          DEF Next, ThreadStep, MainStep

-----------------------------------------------------------------------------
(***************************************************************************)
(* What each side knows about a context when it may act on it.             *)
(***************************************************************************)
\* The types of what a context holds.
LEMMA ContextTypes ==
    ASSUME SocketTypeOK
    PROVE  /\ \A k \in Contexts : /\ enclaveCalls[k] \in Seq(Calls) /\ active[k] \in Nat
                                  /\ toEnclave[k] \in Seq(Messages) /\ fromEnclave[k] \in Seq(Messages)
           /\ \A t \in Threads : hostCalls[t] \in Seq(Calls) /\ context[t] \in Contexts \cup {NoContext}
  BY DEF SocketTypeOK, HostTypes, SocketTypes, EnclaveTypes

\* A single message in a queue is the queue's head, and its call is one of the model's.
LEMMA OneMessage ==
    ASSUME NEW q \in Seq(Messages), IsCall(q) \/ IsAnswer(q)
    PROVE  q # <<>> /\ Head(q) = q[1] /\ Tail(q) = <<>> /\ q[1].call \in Calls /\ q[1] \in Messages
  <1>1. Len(q) = 1
    BY DEF IsCall, IsAnswer
  <1>2. q # <<>> /\ Head(q) = q[1] /\ Tail(q) = <<>> /\ q[1] \in Messages
    <2>1. q # <<>> /\ Head(q) = q[1] /\ q[1] \in Messages
      BY <1>1
    <2>2. Tail(q) \in Seq(Messages) /\ Len(Tail(q)) = 0
      BY <1>1, <2>1
    <2> QED BY <2>1, <2>2, EmptySeq
  <1>3. q[1].type \in {"CALL", "RETURN", "EXCEPTION"}
    BY DEF IsCall, IsAnswer, Answers
  <1> QED BY <1>2, <1>3, ReceivedTypes

\* A call or an answer is not the other, nor nothing.
LEMMA MessageKinds ==
    ASSUME NEW q
    PROVE  /\ ~(IsCall(q) /\ IsAnswer(q))
           /\ ~IsCall(<<>>) /\ ~IsAnswer(<<>>)
  BY DEF IsCall, IsAnswer, Answers

\* A call is made by one of the sides.
LEMMA CallSides == \A c \in Calls : c.from \in {"host", "enclave"}
  BY DEF Calls

\* Where the stacks differ by a call, the shorter one ends with a call of the other side.
LEMMA TurnBefore ==
    ASSUME NEW s \in Seq(Calls), NEW c \in Calls, Alternates(Append(s, c))
    PROVE  /\ Alternates(s)
           /\ Awaited(s) = (IF s = <<>> THEN "none" ELSE IF c.from = "host" THEN "host" ELSE "enclave")
           /\ c.from = "enclave" => s # <<>>
           /\ Awaited(Append(s, c)) = (IF c.from = "host" THEN "enclave" ELSE "host")
  <1>1. Top(Append(s, c)) = c /\ Append(s, c) # <<>>
    BY AppendFacts
  <1>2. c.from \in {"host", "enclave"} /\ (s # <<>> => Top(s).from \in {"host", "enclave"})
    BY PoppedFacts, CallSides
  <1>3. Alternates(s) /\ (IF s = <<>> THEN c.from = "host" ELSE c.from # Top(s).from)
    BY AlternatesAppend
  <1> QED BY <1>1, <1>2, <1>3 DEF Awaited

\* A process that has ended by itself has no calls.
LEMMA ExitedUnused ==
    ASSUME SocketInv, NEW t \in Threads, context[t] # NoContext
    PROVE  process # "exited" /\ (Alive <=> process # "dead")
  <1>1. context[t] \in Contexts /\ context[t] \notin closed
    BY DEF SocketInv, SocketTypeOK, HostTypes, Places
  <1> QED BY <1>1 DEF SocketInv, Stopping, Alive

\* When code of the host runs in thread t, all of t's messages have been read.
LEMMA HostTurn ==
    ASSUME SocketInv, NEW t \in Threads, NEW k, k = context[t], hostCalls[t] # <<>>, Awaited(hostCalls[t]) # "enclave"
    PROVE  /\ fromEnclave[k] = <<>>
           /\ process # "dead" => toEnclave[k] = <<>> /\ enclaveCalls[k] = hostCalls[t]
  <1>1. k \in Contexts /\ Connected(t, k)
    BY HasContext
  <1>2. /\ hostCalls[t] \in Seq(Calls) /\ enclaveCalls[k] \in Seq(Calls)
        /\ toEnclave[k] \in Seq(Messages) /\ fromEnclave[k] \in Seq(Messages)
    BY <1>1, ContextTypes DEF SocketInv
  <1>3. Top(hostCalls[t]).from = "enclave"
    BY <1>2, PoppedFacts, CallSides DEF Awaited
  <1>4. CASE process = "dead"
    <2>1. Orphaned(hostCalls[t], fromEnclave[k])
      BY <1>1, <1>4 DEF Connected
    <2> QED BY <1>3, <1>4, <2>1 DEF Orphaned
  <1>5. CASE process # "dead"
    <2>1. /\ Alternates(hostCalls[t]) /\ Alternates(enclaveCalls[k])
          /\ Linked(hostCalls[t], enclaveCalls[k], toEnclave[k], fromEnclave[k])
      BY <1>1, <1>5 DEF Connected
    <2>2. ASSUME NEW c \in Calls, c.from = "host", hostCalls[t] = Append(enclaveCalls[k], c)
          PROVE  FALSE
      BY <1>2, <1>3, <2>2, AppendFacts
    <2>3. ASSUME NEW c \in Calls, c.from = "enclave", enclaveCalls[k] = Append(hostCalls[t], c)
          PROVE  FALSE
      BY <1>2, <2>1, <2>3, TurnBefore
    <2> QED BY <1>2, <2>1, <2>2, <2>3, OneMessage DEF Linked
  <1> QED BY <1>4, <1>5

\* The thread that uses context k.
LEMMA UserOf ==
    ASSUME SocketInv, NEW k \in Contexts, ~Unused(k)
    PROVE  \E t \in Threads : context[t] = k /\ hostCalls[t] # <<>> /\ Connected(t, k)
  <1>1. PICK t \in Threads : context[t] = k
    BY DEF SocketInv, CallsInStep
  <1>2. context[t] # NoContext
    BY <1>1, SocketConfigAssumption
  <1> QED BY <1>1, <1>2 DEF SocketInv, CallsInStep, ThreadCalls, Connected

\* When code of the enclave runs in worker k, all messages of k have been read.
LEMMA EnclaveTurn ==
    ASSUME SocketInv, NEW k \in Contexts, EnclaveCode(k)
    PROVE  /\ process # "dead" /\ Alive
           /\ enclaveCalls[k] # <<>> /\ enclaveCalls[k] \in Seq(Calls) /\ Top(enclaveCalls[k]).from = "host"
           /\ toEnclave[k] = <<>> /\ fromEnclave[k] = <<>>
           /\ \E t \in Threads : context[t] = k /\ hostCalls[t] = enclaveCalls[k] /\ Connected(t, k)
  <1>1. enclaveCalls[k] # <<>> /\ enclaveCalls[k] \in Seq(Calls) /\ Top(enclaveCalls[k]).from = "host"
    <2>1. enclaveCalls[k] \in Seq(Calls)
      BY ContextTypes DEF SocketInv
    <2>2. enclaveCalls[k] # <<>>
      BY DEF EnclaveCode, Awaited
    <2> QED BY <2>1, <2>2, PoppedFacts, CallSides DEF EnclaveCode, Awaited
  <1>2. process # "dead"
    BY <1>1 DEF SocketInv, CallsInStep
  <1>3. PICK t \in Threads : context[t] = k /\ hostCalls[t] # <<>> /\ Connected(t, k)
    BY <1>1, UserOf DEF Unused
  <1>4. Alive
    BY <1>2, <1>3, ExitedUnused, SocketConfigAssumption
  <1>5. /\ hostCalls[t] \in Seq(Calls) /\ toEnclave[k] \in Seq(Messages) /\ fromEnclave[k] \in Seq(Messages)
    BY ContextTypes DEF SocketInv
  <1>6. /\ Alternates(hostCalls[t]) /\ Alternates(enclaveCalls[k])
        /\ Linked(hostCalls[t], enclaveCalls[k], toEnclave[k], fromEnclave[k])
    BY <1>2, <1>3 DEF Connected
  <1>7. ASSUME NEW c \in Calls, c.from = "host", hostCalls[t] = Append(enclaveCalls[k], c)
        PROVE  FALSE
    <2>1. Awaited(enclaveCalls[k]) = "host"
      BY <1>1, <1>6, <1>7, TurnBefore
    <2> QED BY <2>1 DEF EnclaveCode
  <1>8. ASSUME NEW c \in Calls, c.from = "enclave", enclaveCalls[k] = Append(hostCalls[t], c)
        PROVE  FALSE
    BY <1>1, <1>5, <1>8, AppendFacts
  <1>9. toEnclave[k] = <<>> /\ fromEnclave[k] = <<>> /\ hostCalls[t] = enclaveCalls[k]
    BY <1>5, <1>6, <1>7, <1>8, OneMessage DEF Linked
  <1> QED BY <1>1, <1>2, <1>3, <1>4, <1>9

\* What a worker finds in its socket.
LEMMA WorkerTurn ==
    ASSUME SocketInv, NEW k \in Contexts, NEW t \in Threads, context[t] = k, toEnclave[k] # <<>>
    PROVE  /\ process # "dead" /\ fromEnclave[k] = <<>> /\ Tail(toEnclave[k]) = <<>>
           /\ LET m == Head(toEnclave[k])
              IN  /\ m.call \in Calls
                  /\ \/ m.type = "CALL" /\ m.call.from = "host" /\ hostCalls[t] = Append(enclaveCalls[k], m.call)
                     \/ m.type \in Answers /\ m.call.from = "enclave" /\ enclaveCalls[k] = Append(hostCalls[t], m.call)
  <1>1. k # NoContext /\ Connected(t, k)
    BY SocketConfigAssumption DEF SocketInv, CallsInStep, ThreadCalls
  <1>2. process # "dead"
    BY DEF SocketInv, CallsInStep
  <1>3. toEnclave[k] \in Seq(Messages) /\ fromEnclave[k] \in Seq(Messages)
    BY ContextTypes DEF SocketInv
  <1>4. Linked(hostCalls[t], enclaveCalls[k], toEnclave[k], fromEnclave[k])
    BY <1>1, <1>2 DEF Connected
  <1>5. CASE IsCall(toEnclave[k])
    BY <1>2, <1>3, <1>4, <1>5, OneMessage, MessageKinds DEF Linked, IsCall
  <1>6. CASE IsAnswer(toEnclave[k])
    BY <1>2, <1>3, <1>4, <1>6, OneMessage, MessageKinds DEF Linked, IsAnswer
  <1> QED BY <1>4, <1>5, <1>6 DEF Linked

\* What the host finds in its socket.
LEMMA HostReads ==
    ASSUME SocketInv, NEW t \in Threads, NEW k \in Contexts, context[t] = k, fromEnclave[k] # <<>>
    PROVE  /\ toEnclave[k] = <<>> /\ Tail(fromEnclave[k]) = <<>> /\ hostCalls[t] # <<>>
           /\ Top(hostCalls[t]).from = "host"
           /\ LET m == Head(fromEnclave[k])
              IN  /\ m.call \in Calls
                  /\ \/ /\ m.type = "CALL" /\ m.call.from = "enclave"
                        /\ process # "dead" => enclaveCalls[k] = Append(hostCalls[t], m.call)
                     \/ /\ m.type \in Answers /\ m.call = Top(hostCalls[t])
                        /\ process # "dead" => enclaveCalls[k] = Popped(hostCalls[t])
  <1>1. k # NoContext /\ Connected(t, k)
    BY SocketConfigAssumption DEF SocketInv, CallsInStep, ThreadCalls
  <1>2. /\ toEnclave[k] \in Seq(Messages) /\ fromEnclave[k] \in Seq(Messages)
        /\ hostCalls[t] \in Seq(Calls) /\ enclaveCalls[k] \in Seq(Calls) /\ hostCalls[t] # <<>>
        /\ Top(hostCalls[t]) \in Calls
    BY <1>1, ContextTypes, PoppedFacts DEF SocketInv, Connected
  <1>3. CASE process = "dead"
    <2>1. Orphaned(hostCalls[t], fromEnclave[k]) /\ toEnclave[k] = <<>>
      BY <1>1, <1>3 DEF Connected, SocketInv, CallsInStep
    <2>2. CASE IsCall(fromEnclave[k])
      BY <1>2, <1>3, <2>1, <2>2, OneMessage, MessageKinds DEF Orphaned, IsCall
    <2>3. CASE IsAnswer(fromEnclave[k])
      BY <1>2, <1>3, <2>1, <2>3, OneMessage, MessageKinds DEF Orphaned, IsAnswer
    <2> QED BY <2>1, <2>2, <2>3 DEF Orphaned
  <1>4. CASE process # "dead"
    <2>1. /\ Alternates(enclaveCalls[k])
          /\ Linked(hostCalls[t], enclaveCalls[k], toEnclave[k], fromEnclave[k])
      BY <1>1, <1>4 DEF Connected
    <2>2. CASE IsCall(fromEnclave[k])
      <3>1. /\ fromEnclave[k][1].type = "CALL" /\ toEnclave[k] = <<>> /\ fromEnclave[k][1].call.from = "enclave"
            /\ enclaveCalls[k] = Append(hostCalls[t], fromEnclave[k][1].call)
        BY <2>1, <2>2, MessageKinds DEF Linked, IsCall
      <3>2. fromEnclave[k][1].call \in Calls /\ Tail(fromEnclave[k]) = <<>> /\ Head(fromEnclave[k]) = fromEnclave[k][1]
        BY <1>2, <2>2, OneMessage
      <3>3. Awaited(hostCalls[t]) = "enclave"
        BY <1>2, <2>1, <3>1, <3>2, TurnBefore
      <3>4. Top(hostCalls[t]).from = "host"
        BY <1>2, <3>3 DEF Awaited
      <3> QED BY <1>2, <3>1, <3>2, <3>4
    <2>3. CASE IsAnswer(fromEnclave[k])
      <3>1. /\ fromEnclave[k][1].type \in Answers /\ toEnclave[k] = <<>> /\ fromEnclave[k][1].call.from = "host"
            /\ hostCalls[t] = Append(enclaveCalls[k], fromEnclave[k][1].call)
        BY <2>1, <2>3, MessageKinds DEF Linked, IsAnswer
      <3>2. fromEnclave[k][1].call \in Calls /\ Tail(fromEnclave[k]) = <<>> /\ Head(fromEnclave[k]) = fromEnclave[k][1]
        BY <1>2, <2>3, OneMessage
      <3>3. Top(hostCalls[t]) = fromEnclave[k][1].call /\ Popped(hostCalls[t]) = enclaveCalls[k]
        BY <1>2, <3>1, <3>2, AppendFacts
      <3> QED BY <1>2, <3>1, <3>2, <3>3
    <2> QED BY <2>1, <2>2, <2>3 DEF Linked
  <1> QED BY <1>3, <1>4

\* A worker that leaves handlerLoop has read the stop message of a closed context.
LEMMA WorkerStops ==
    ASSUME SocketInv, NEW k \in Contexts, WorkerReceives(k),
           Head(toEnclave[k]).type # "CALL", enclaveCalls[k] = <<>>
    PROVE  k \in closed /\ Unused(k) /\ toEnclave[k] = <<Stop>>
  <1>1. toEnclave[k] # <<>>
    BY DEF WorkerReceives
  <1>2. ASSUME NEW t \in Threads, context[t] = k
        PROVE  FALSE
    <2>1. Head(toEnclave[k]).call \in Calls /\ enclaveCalls[k] = Append(hostCalls[t], Head(toEnclave[k]).call)
      BY <1>1, <1>2, WorkerTurn
    <2>2. hostCalls[t] \in Seq(Calls)
      BY ContextTypes DEF SocketInv
    <2> QED BY <2>1, <2>2, AppendFacts
  <1>3. Unused(k)
    BY <1>2 DEF SocketInv, CallsInStep
  <1> QED BY <1>1, <1>3 DEF Unused

\* Workers end only after their contexts were closed, and the process after its workers.
LEMMA StoppingKept ==
    ASSUME SocketInv, [Next]_vars
    PROVE  Stopping'
  <1>1. Stopping /\ closed \subseteq Contexts /\ ended \subseteq Contexts /\ IsFiniteSet(Contexts)
    BY SocketConfigAssumption DEF SocketInv, SocketTypeOK, HostTypes, EnclaveTypes
  <1>2. IsFiniteSet(ended)
    BY <1>1, FS_Subset
  <1>3. CASE UNCHANGED <<ended, permits, closed, process>>
    BY <1>1, <1>3 DEF Stopping
  <1>4. ASSUME NEW k \in Contexts, WorkerReceives(k)
        PROVE  Stopping'
    <2>1. CASE Head(toEnclave[k]).type # "CALL" /\ enclaveCalls[k] = <<>>
      <3>1. k \in closed /\ k \notin ended /\ ended' = ended \cup {k} /\ permits' = permits + 1 /\ UNCHANGED <<closed, process>>
        BY <1>4, <2>1, WorkerStops DEF WorkerReceives, hostVars
      <3>2. Cardinality(ended') = Cardinality(ended) + 1
        BY <1>2, <3>1, FS_AddElement
      <3> QED BY <1>1, <3>1, <3>2 DEF Stopping
    <2>2. CASE ~(Head(toEnclave[k]).type # "CALL" /\ enclaveCalls[k] = <<>>)
      BY <1>3, <1>4, <2>2 DEF WorkerReceives, hostVars
    <2> QED BY <2>1, <2>2
  <1>5. ASSUME NEW k \in Contexts, CallHost(k) \/ (\E type \in Answers : EnclaveHandlerReturns(k, type)) \/ Connect(k)
        PROVE  Stopping'
    <2>1. UNCHANGED <<ended, permits, closed>> /\ (process' = process \/ process' = "serving")
      BY <1>5 DEF CallHost, EnclaveHandlerReturns, Connect, hostVars
    <2> QED BY <1>1, <2>1 DEF Stopping
  <1>6. ASSUME Exit
        PROVE  Stopping'
    <2>1. Cardinality(ended) = Cardinality(Contexts) /\ UNCHANGED <<ended, permits, closed>>
      BY <1>1, <1>6 DEF Exit, Stopping, hostVars
    <2>2. ended = Contexts
      BY <1>1, <2>1, FS_Subset
    <2> QED BY <1>1, <2>1, <2>2 DEF Stopping
  <1>7. ASSUME NEW t \in Threads, CloseContext(t)
        PROVE  Stopping'
    <2>1. UNCHANGED <<ended, permits, process>> /\ closed' \in {closed, closed \cup {Head(pool)}} /\ pool # <<>>
      BY <1>7 DEF CloseContext, enclaveVars
    <2>2. closed' \subseteq Contexts
      BY TypesKept DEF SocketTypeOK, HostTypes
    <2> QED BY <1>1, <2>1, <2>2 DEF Stopping
  <1>8. ASSUME NEW t \in Threads, \/ Initialise(t) \/ ExecuteOutgoingCall(t) \/ Close(t) \/ AcceptInitial(t)
                                   \/ PollFails(t) \/ StartFails(t) \/ AcceptContext(t) \/ CheckRunning(t)
                                   \/ InitiateCall(t) \/ ReceiveMessage(t) \/ CallFails(t)
                                   \/ \E type \in Answers : HostHandlerReturns(t, type)
        PROVE  Stopping'
    <2>1. UNCHANGED <<ended, permits, closed>> /\ (process' = process \/ process' = "started")
      BY <1>8 DEF Initialise, ExecuteOutgoingCall, Close, AcceptInitial, PollFails, StartFails, AcceptContext,
                  CheckRunning, InitiateCall, ReceiveMessage, CallFails, HostHandlerReturns, enclaveVars
    <2> QED BY <1>1, <2>1 DEF Stopping
  <1>9. ASSUME SendMaximum \/ (\E lost \in SUBSET Contexts : Die(lost)) \/ Idle \/ UNCHANGED vars
        PROVE  Stopping'
    <2>1. UNCHANGED <<ended, permits, closed>> /\ (process' = process \/ process' \in {"connecting", "dead"})
      BY <1>9 DEF SendMaximum, Die, Idle, vars, hostVars, enclaveVars
    <2> QED BY <1>1, <2>1 DEF Stopping
  <1> QED BY <1>4, <1>5, <1>6, <1>7, <1>8, <1>9 DEF Next, ThreadStep, WorkerStep, MainStep

-----------------------------------------------------------------------------
(***************************************************************************)
(* The calls stay in step.                                                 *)
(***************************************************************************)
\* A step of thread t and its context k does not disturb the others.
LEMMA OthersInStep ==
    ASSUME SocketInv, NEW t \in Threads, NEW k \in Contexts,
           \A u \in Threads : u # t => /\ context[u] # k /\ context'[u] = context[u]
                                        /\ hostCalls'[u] = hostCalls[u] /\ pc'[u] = pc[u],
           \A j \in Contexts : j # k => /\ active'[j] = active[j] /\ enclaveCalls'[j] = enclaveCalls[j]
                                         /\ toEnclave'[j] = toEnclave[j] /\ fromEnclave'[j] = fromEnclave[j],
           UNCHANGED <<process, closed>>,
           context[t] \in {k, NoContext}, context'[t] \in {k, NoContext},
           ThreadCalls(t)', context'[t] # k => Unused(k)',
           process = "dead" => enclaveCalls'[k] = <<>> /\ toEnclave'[k] = <<>>
    PROVE  CallsInStep'
  <1>1. CallsInStep /\ NoContext \notin Contexts /\ \A u \in Threads : context[u] \in Contexts \cup {NoContext}
    BY SocketConfigAssumption, ContextTypes DEF SocketInv
  <1>2. ASSUME NEW u \in Threads
        PROVE  ThreadCalls(u)'
    <2>1. CASE u = t
      BY <2>1
    <2>2. CASE u # t
      <3>1. context'[u] = context[u] /\ hostCalls'[u] = hostCalls[u] /\ pc'[u] = pc[u] /\ ThreadCalls(u) /\ context[u] # k
        BY <1>1, <2>2 DEF CallsInStep
      <3>2. CASE context[u] = NoContext
        BY <3>1, <3>2 DEF ThreadCalls
      <3>3. CASE context[u] # NoContext
        <4> DEFINE j == context[u]
        <4>1. /\ active'[j] = active[j] /\ enclaveCalls'[j] = enclaveCalls[j]
              /\ toEnclave'[j] = toEnclave[j] /\ fromEnclave'[j] = fromEnclave[j]
          BY <1>1, <3>1, <3>3
        <4> HIDE DEF j
        <4>2. Connected(u, j)
          BY <3>1, <3>3 DEF ThreadCalls, j
        <4>3. Connected(u, j)'
          BY <3>1, <4>1, <4>2 DEF Connected, j
        <4> QED BY <3>1, <3>3, <4>3 DEF ThreadCalls, j
      <3> QED BY <3>2, <3>3
    <2> QED BY <2>1, <2>2
  <1>3. ASSUME NEW j \in Contexts, \A u \in Threads : context'[u] # j
        PROVE  Unused(j)'
    <2>1. CASE j = k
      BY <1>3, <2>1
    <2>2. CASE j # k
      <3>1. \A u \in Threads : context[u] # j
        BY <1>1, <1>3, <2>2
      <3>2. Unused(j)
        BY <1>1, <3>1 DEF CallsInStep
      <3> QED BY <2>2, <3>2 DEF Unused
    <2> QED BY <2>1, <2>2
  <1>4. process' = "dead" => \A j \in Contexts : enclaveCalls'[j] = <<>> /\ toEnclave'[j] = <<>>
    BY <1>1 DEF CallsInStep
  <1> QED BY <1>2, <1>3, <1>4 DEF CallsInStep

\* A step that only moves a program counter keeps the calls in step.
LEMMA MovesInStep ==
    ASSUME SocketInv, UNCHANGED <<context, hostCalls, active, closed, enclaveCalls, toEnclave, fromEnclave>>,
           process' = "dead" <=> process = "dead",
           \A u \in Threads : pc'[u] \in {"check", "take"} => pc[u] \in {"check", "take"} \/ Awaited(hostCalls[u]) # "enclave"
    PROVE  CallsInStep'
  <1>1. CallsInStep
    BY DEF SocketInv
  <1>2. ASSUME NEW u \in Threads
        PROVE  ThreadCalls(u)'
    <2>1. \A j : Connected(u, j) => Connected(u, j)'
      BY DEF Connected
    <2> QED BY <1>1, <2>1 DEF CallsInStep, ThreadCalls
  <1>3. \A j \in Contexts : Unused(j) => Unused(j)'
    BY DEF Unused
  <1> QED BY <1>1, <1>2, <1>3 DEF CallsInStep

\* No other thread uses the context of thread t.
LEMMA OneUser ==
    ASSUME SocketInv, NEW t \in Threads, context[t] # NoContext
    PROVE  \A u \in Threads : u # t => context[u] # context[t]
  BY DEF SocketInv, Places

\* InitiateCall: the call is on its way to a worker that waits for it.
LEMMA InitiateInStep ==
    ASSUME SocketInv, SocketTypeOK', NEW t \in Threads, InitiateCall(t)
    PROVE  CallsInStep'
  <1> DEFINE c == [from |-> "host", by |-> t, n |-> fuel[t]]
             m == Message("CALL", c)
  <1>0. PICK k : k = IF context[t] = NoContext THEN Head(pool) ELSE context[t]
    OBVIOUS
  <1>1. /\ SocketTypeOK /\ pool \in Seq(Contexts) /\ context \in [Threads -> Contexts \cup {NoContext}]
        /\ active \in [Contexts -> Nat] /\ hostCalls \in [Threads -> Seq(Calls)] /\ pc \in [Threads -> {"code", "connect", "join", "accept", "check", "take", "drain"}]
        /\ toEnclave \in [Contexts -> Seq(Messages)]
    BY DEF SocketInv, SocketTypeOK, HostTypes, SocketTypes
  <1>2. k \in Contexts
    BY <1>0, <1>1 DEF InitiateCall
  <1>3. c \in Calls /\ m \in Messages /\ c.from = "host" /\ m.type = "CALL" /\ m.call = c
    BY NewCallTypes, MessageTypes DEF SocketInv, Message
  <1>4. ThreadCalls(t) /\ Awaited(hostCalls[t]) # "enclave"
    BY DEF SocketInv, CallsInStep, ThreadCalls, InitiateCall
  <1>5. /\ active[k] = Cardinality(Waiting(hostCalls[t])) /\ Alternates(hostCalls[t])
        /\ fromEnclave[k] = <<>>
        /\ process # "dead" => toEnclave[k] = <<>> /\ enclaveCalls[k] = hostCalls[t]
        /\ process # "exited"
        /\ \A u \in Threads : u # t => context[u] # k
    <2>1. CASE context[t] = NoContext
      <3>1. pool # <<>> /\ k = pool[1] /\ 1 \in DOMAIN pool /\ hostCalls[t] = <<>>
        BY <1>0, <1>1, <1>4, <2>1, TailFacts DEF InitiateCall, ThreadCalls
      <3>2. k \notin closed /\ \A u \in Threads : context[u] # k
        BY <3>1 DEF SocketInv, Places
      <3>3. Unused(k)
        BY <1>2, <3>2 DEF SocketInv, CallsInStep
      <3>4. Waiting(<<>>) = {} /\ Alternates(<<>>)
        BY DEF Waiting, Alternates
      <3>5. Cardinality(Waiting(hostCalls[t])) = 0
        BY <3>1, <3>4, FS_EmptySet
      <3>6. process # "exited"
        BY <1>2, <3>2 DEF SocketInv, Stopping
      <3> QED BY <3>1, <3>2, <3>3, <3>4, <3>5, <3>6 DEF Unused
    <2>2. CASE context[t] # NoContext
      <3>1. k = context[t] /\ Connected(t, k) /\ hostCalls[t] # <<>>
        BY <1>0, <1>4, <2>2 DEF ThreadCalls, Connected
      <3> QED BY <1>4, <2>2, <3>1, HostTurn, OneUser, ExitedUnused DEF Connected
    <2> QED BY <2>1, <2>2
  <1> HIDE DEF m, c
  <1>6. /\ context' = [context EXCEPT ![t] = k] /\ active' = [active EXCEPT ![k] = @ + 1]
        /\ hostCalls' = [hostCalls EXCEPT ![t] = Append(@, c)] /\ pc' = [pc EXCEPT ![t] = "code"]
        /\ toEnclave' = Send(toEnclave, k, m)
        /\ UNCHANGED <<process, closed, enclaveCalls, fromEnclave>>
    BY <1>0 DEF InitiateCall, Goto, m, c, enclaveVars
  <1>7. hostCalls[t] \in Seq(Calls) /\ hostCalls'[t] = Append(hostCalls[t], c) /\ context'[t] = k /\ pc'[t] = "code" /\ active'[k] = active[k] + 1
    BY <1>1, <1>2, <1>6
  <1>8. toEnclave'[k] = IF process = "dead" THEN toEnclave[k] ELSE Append(toEnclave[k], m)
    BY <1>1, <1>2, <1>3, <1>5, <1>6, SendTypes DEF Alive
  <1>9. Alternates(Append(hostCalls[t], c))
    <2>1. hostCalls[t] # <<>> => Top(hostCalls[t]).from # "host"
      BY <1>4 DEF Awaited
    <2> QED BY <1>3, <1>5, <1>7, <2>1, AlternatesAppend
  <1>10. active'[k] = Cardinality(Waiting(Append(hostCalls[t], c)))
    BY <1>3, <1>5, <1>7, WaitingAppend
  <1>11. Append(hostCalls[t], c) # <<>>
    BY <1>3, <1>7, AppendFacts
  <1>12. process # "dead" => Linked(Append(hostCalls[t], c), enclaveCalls[k], toEnclave'[k], fromEnclave[k]) /\ Alternates(enclaveCalls[k])
    <2> SUFFICES ASSUME process # "dead"
                 PROVE  Linked(Append(hostCalls[t], c), enclaveCalls[k], toEnclave'[k], fromEnclave[k]) /\ Alternates(enclaveCalls[k])
      OBVIOUS
    <2>1. toEnclave'[k] = <<m>>
      <3>1. toEnclave'[k] = Append(<<>>, m)
        BY <1>5, <1>8
      <3> QED BY <3>1
    <2>2. IsCall(<<m>>) /\ <<m>>[1] = m
      BY <1>3 DEF IsCall
    <2> QED BY <1>3, <1>5, <2>1, <2>2 DEF Linked
  <1>13. Connected(t, k)'
    BY <1>5, <1>6, <1>7, <1>9, <1>10, <1>11, <1>12 DEF Connected, Orphaned
  <1>14. ThreadCalls(t)'
    BY <1>2, <1>7, <1>13, SocketConfigAssumption DEF ThreadCalls
  <1>15. \A j \in Contexts : j # k => active'[j] = active[j] /\ toEnclave'[j] = toEnclave[j]
    BY <1>1, <1>2, <1>3, <1>6, SendTypes
  <1>16. \A u \in Threads : u # t => context'[u] = context[u] /\ hostCalls'[u] = hostCalls[u] /\ pc'[u] = pc[u]
    BY <1>1, <1>6
  <1>17. process = "dead" => enclaveCalls'[k] = <<>> /\ toEnclave'[k] = <<>>
    BY <1>2, <1>6, <1>8 DEF SocketInv, CallsInStep
  <1>18. context[t] \in {k, NoContext}
    BY <1>0
  <1> QED BY <1>2, <1>5, <1>6, <1>7, <1>14, <1>15, <1>16, <1>17, <1>18, OthersInStep

\* What LeaveCall does: the context goes back to the pool with the outermost call.
LEMMA LeaveFacts ==
    ASSUME SocketInv, NEW t \in Threads, hostCalls[t] # <<>>, Top(hostCalls[t]).from = "host", LeaveCall(t)
    PROVE  LET k == context[t]
               p == Popped(hostCalls[t])
           IN  /\ hostCalls'[t] = p /\ p \in Seq(Calls) /\ Alternates(p)
               /\ active'[k] = Cardinality(Waiting(p))
               /\ context'[t] = (IF p = <<>> THEN NoContext ELSE k)
               /\ \A u \in Threads : u # t => context'[u] = context[u] /\ hostCalls'[u] = hostCalls[u]
               /\ \A j \in Contexts : j # k => active'[j] = active[j]
  <1> DEFINE k == context[t]
             p == Popped(hostCalls[t])
  <1>1. /\ context \in [Threads -> Contexts \cup {NoContext}]
        /\ active \in [Contexts -> Nat] /\ hostCalls \in [Threads -> Seq(Calls)]
    BY DEF SocketInv, SocketTypeOK, HostTypes
  <1>2. k \in Contexts /\ Connected(t, k)
    BY HasContext
  <1>3. hostCalls[t] \in Seq(Calls) /\ p \in Seq(Calls) /\ Top(hostCalls[t]) \in Calls /\ hostCalls[t] = Append(p, Top(hostCalls[t]))
    BY <1>1, PoppedFacts
  <1>4. Alternates(p)
    BY <1>2, <1>3, AlternatesAppend, ZenonT(40) DEF Connected
  <1>5. Cardinality(Waiting(hostCalls[t])) = Cardinality(Waiting(p)) + 1 /\ Cardinality(Waiting(p)) \in Nat
    BY <1>3, WaitingAppend
  <1>6. active[k] = Cardinality(Waiting(p)) + 1
    BY <1>2, <1>5 DEF Connected
  <1>7. active[k] = 1 <=> p = <<>>
    BY <1>3, <1>4, <1>5, <1>6, WaitingZero
  <1> HIDE DEF p
  <1>8. active' = [active EXCEPT ![k] = @ - 1] /\ hostCalls' = [hostCalls EXCEPT ![t] = p]
    BY <1>1 DEF LeaveCall, p
  <1>9. context' = IF p = <<>> THEN [context EXCEPT ![t] = NoContext] ELSE context
    BY <1>7 DEF LeaveCall, ReturnsContext
  <1>10. active'[k] = Cardinality(Waiting(p))
    BY <1>1, <1>2, <1>5, <1>6, <1>8
  <1> QED BY <1>1, <1>2, <1>3, <1>4, <1>8, <1>9, <1>10 DEF p

\* A call that ends leaves what is below it on the stack in step.
LEMMA LeaveInStep ==
    ASSUME SocketInv, NEW t \in Threads, hostCalls[t] # <<>>, Top(hostCalls[t]).from = "host", LeaveCall(t), pc[t] = "code",
           NEW k, k = context[t],
           UNCHANGED <<pc, closed, toEnclave, enclaveCalls, process>>,
           fromEnclave'[k] = <<>>, \A j \in Contexts : j # k => fromEnclave'[j] = fromEnclave[j],
           toEnclave[k] = <<>>,
           process # "dead" => enclaveCalls[k] = Popped(hostCalls[t])
    PROVE  CallsInStep'
  <1> DEFINE p == Popped(hostCalls[t])
  <1>1. k \in Contexts /\ k # NoContext
    BY HasContext, SocketConfigAssumption
  <1>2. /\ hostCalls'[t] = p /\ p \in Seq(Calls) /\ Alternates(p)
        /\ active'[k] = Cardinality(Waiting(p))
        /\ context'[t] = (IF p = <<>> THEN NoContext ELSE k)
        /\ \A u \in Threads : u # t => context'[u] = context[u] /\ hostCalls'[u] = hostCalls[u]
        /\ \A j \in Contexts : j # k => active'[j] = active[j]
    BY LeaveFacts
  <1> HIDE DEF p
  <1>3. process = "dead" => enclaveCalls[k] = <<>>
    BY <1>1 DEF SocketInv, CallsInStep
  <1>4. p = <<>> => Unused(k)'
    <2>1. p = <<>> => Cardinality(Waiting(p)) = 0
      BY <1>2, WaitingZero
    <2>2. p = <<>> => enclaveCalls[k] = <<>>
      BY <1>3 DEF p
    <2> QED BY <1>2, <2>1, <2>2 DEF Unused
  <1>5. p # <<>> => Connected(t, k)'
    <2>1. process # "dead" => enclaveCalls[k] = p
      BY DEF p
    <2> QED BY <1>2, <2>1 DEF Connected, Orphaned, Linked
  <1>6. ThreadCalls(t)'
    BY <1>1, <1>2, <1>5 DEF ThreadCalls
  <1>7. \A u \in Threads : u # t => context[u] # k
    BY <1>1, OneUser
  <1> QED BY <1>1, <1>2, <1>3, <1>4, <1>6, <1>7, OthersInStep

\* ReceiveMessage: the host handles the enclave's call, or ends its own.
LEMMA ReceiveInStep ==
    ASSUME SocketInv, NEW t \in Threads, ReceiveMessage(t)
    PROVE  CallsInStep'
  <1>0. PICK k : k = context[t]
    OBVIOUS
  <1>1. /\ hostCalls[t] # <<>> /\ pc[t] = "code" /\ fromEnclave[k] # <<>>
        /\ fromEnclave' = [fromEnclave EXCEPT ![k] = Tail(@)]
        /\ UNCHANGED <<pc, closed, toEnclave, enclaveCalls, process>>
    BY <1>0 DEF ReceiveMessage, HostWaits, Awaited, enclaveVars
  <1>2. k \in Contexts /\ k # NoContext /\ Connected(t, k)
    BY <1>0, <1>1, HasContext, SocketConfigAssumption
  <1>3. hostCalls \in [Threads -> Seq(Calls)] /\ fromEnclave \in [Contexts -> Seq(Messages)]
    BY DEF SocketInv, SocketTypeOK, HostTypes, SocketTypes
  <1>4. /\ toEnclave[k] = <<>> /\ Tail(fromEnclave[k]) = <<>> /\ Top(hostCalls[t]).from = "host"
        /\ Head(fromEnclave[k]).call \in Calls
        /\ \/ /\ Head(fromEnclave[k]).type = "CALL" /\ Head(fromEnclave[k]).call.from = "enclave"
              /\ process # "dead" => enclaveCalls[k] = Append(hostCalls[t], Head(fromEnclave[k]).call)
           \/ /\ Head(fromEnclave[k]).type \in Answers
              /\ process # "dead" => enclaveCalls[k] = Popped(hostCalls[t])
    BY <1>0, <1>1, <1>2, HostReads
  <1>5. fromEnclave'[k] = <<>> /\ \A j \in Contexts : j # k => fromEnclave'[j] = fromEnclave[j]
    BY <1>1, <1>2, <1>3, <1>4
  <1>6. CASE Head(fromEnclave[k]).type = "CALL"
    <2>1. PICK c \in Calls : c = Head(fromEnclave[k]).call
      BY <1>4
    <2>2. c.from = "enclave" /\ (process # "dead" => enclaveCalls[k] = Append(hostCalls[t], c))
      BY <1>4, <1>6, <2>1 DEF Answers
    <2>3. hostCalls' = [hostCalls EXCEPT ![t] = Append(@, c)] /\ UNCHANGED <<context, active>>
      BY <1>0, <1>6, <2>1 DEF ReceiveMessage
    <2>4. hostCalls'[t] = Append(hostCalls[t], c) /\ hostCalls[t] \in Seq(Calls)
      BY <1>3, <2>3
    <2>5. Alternates(Append(hostCalls[t], c))
      BY <1>1, <1>2, <1>4, <2>2, <2>4, AlternatesAppend DEF Connected
    <2>6. Append(hostCalls[t], c) # <<>> /\ Cardinality(Waiting(Append(hostCalls[t], c))) = Cardinality(Waiting(hostCalls[t]))
      BY <2>2, <2>4, WaitingAppend, AppendFacts
    <2>7. Connected(t, k)'
      <3>1. active'[k] = Cardinality(Waiting(hostCalls'[t])) /\ Alternates(hostCalls'[t]) /\ hostCalls'[t] # <<>>
        BY <1>2, <2>3, <2>4, <2>5, <2>6 DEF Connected
      <3>2. process # "dead" => Alternates(enclaveCalls'[k]) /\ enclaveCalls'[k] = hostCalls'[t]
        BY <1>1, <2>2, <2>4, <2>5
      <3> QED BY <1>1, <1>4, <1>5, <3>1, <3>2 DEF Connected, Linked, Orphaned
    <2>8. ThreadCalls(t)'
      BY <1>0, <1>1, <1>2, <2>3, <2>7 DEF ThreadCalls
    <2>9. \A u \in Threads : u # t => context[u] # k /\ context'[u] = context[u] /\ hostCalls'[u] = hostCalls[u] /\ pc'[u] = pc[u]
      BY <1>0, <1>1, <1>2, <1>3, <2>3, OneUser
    <2>10. process = "dead" => enclaveCalls'[k] = <<>> /\ toEnclave'[k] = <<>>
      BY <1>1, <1>2 DEF SocketInv, CallsInStep
    <2> QED BY <1>0, <1>1, <1>2, <1>5, <2>3, <2>8, <2>9, <2>10, OthersInStep
  <1>7. CASE Head(fromEnclave[k]).type # "CALL"
    <2>1. LeaveCall(t)
      BY <1>0, <1>7 DEF ReceiveMessage
    <2> QED BY <1>0, <1>1, <1>4, <1>5, <1>7, <2>1, LeaveInStep
  <1> QED BY <1>6, <1>7

\* CallFails: the call ends with an exception, as the process is gone.
LEMMA FailsInStep ==
    ASSUME SocketInv, NEW t \in Threads, CallFails(t)
    PROVE  CallsInStep'
  <1>0. PICK k : k = context[t]
    OBVIOUS
  <1>1. /\ hostCalls[t] # <<>> /\ pc[t] = "code" /\ fromEnclave[k] = <<>> /\ ~Alive /\ LeaveCall(t)
        /\ Awaited(hostCalls[t]) = "enclave"
        /\ UNCHANGED <<pc, closed, toEnclave, fromEnclave, enclaveCalls, process>>
    BY <1>0 DEF CallFails, HostWaits, Awaited, socketVars, enclaveVars
  <1>2. k \in Contexts /\ k # NoContext
    BY <1>0, <1>1, HasContext, SocketConfigAssumption
  <1>3. process = "dead"
    BY <1>0, <1>1, <1>2, ExitedUnused
  <1>4. toEnclave[k] = <<>>
    BY <1>2, <1>3 DEF SocketInv, CallsInStep
  <1>5. Top(hostCalls[t]).from = "host"
    BY <1>1 DEF Awaited
  <1> QED BY <1>0, <1>1, <1>3, <1>4, <1>5, LeaveInStep

\* HostHandlerReturns: the answer is on its way to a worker that waits for it.
LEMMA HostReturnsInStep ==
    ASSUME SocketInv, NEW t \in Threads, NEW type \in Answers, HostHandlerReturns(t, type)
    PROVE  CallsInStep'
  <1>0. PICK k, c, p : k = context[t] /\ c = Top(hostCalls[t]) /\ p = Popped(hostCalls[t])
    OBVIOUS
  <1>1. /\ hostCalls[t] # <<>> /\ pc[t] = "code" /\ Awaited(hostCalls[t]) # "enclave"
        /\ toEnclave' = Send(toEnclave, k, Message(type, c))
        /\ hostCalls' = [hostCalls EXCEPT ![t] = p]
        /\ UNCHANGED <<pc, context, active, closed, fromEnclave, enclaveCalls, process>>
    BY <1>0 DEF HostHandlerReturns, HostCode, Answer, enclaveVars
  <1>2. k \in Contexts /\ k # NoContext /\ Connected(t, k)
    BY <1>0, <1>1, HasContext, SocketConfigAssumption
  <1>3. hostCalls \in [Threads -> Seq(Calls)] /\ toEnclave \in [Contexts -> Seq(Messages)]
    BY DEF SocketInv, SocketTypeOK, HostTypes, SocketTypes
  <1>4. hostCalls[t] = Append(p, c) /\ p \in Seq(Calls) /\ c \in Calls
    BY <1>0, <1>1, <1>3, PoppedFacts
  <1>5. c.from = "enclave"
    BY <1>0, <1>1, <1>4, CallSides DEF Awaited
  <1>6. fromEnclave[k] = <<>> /\ (process # "dead" => toEnclave[k] = <<>> /\ enclaveCalls[k] = hostCalls[t])
    BY <1>0, <1>1, HostTurn
  <1>7. Alternates(p) /\ p # <<>>
    BY <1>2, <1>4, <1>5, TurnBefore DEF Connected
  <1>8. active[k] = Cardinality(Waiting(p))
    BY <1>2, <1>4, <1>5, WaitingAppend DEF Connected
  <1>9. Message(type, c) \in Messages /\ Message(type, c).type = type /\ Message(type, c).call = c
    BY <1>4, MessageTypes DEF Message
  <1>10. toEnclave'[k] = IF process = "dead" THEN toEnclave[k] ELSE Append(toEnclave[k], Message(type, c))
    BY <1>0, <1>1, <1>2, <1>3, <1>9, SendTypes, ExitedUnused
  <1>11. \A j \in Contexts : j # k => toEnclave'[j] = toEnclave[j]
    BY <1>1, <1>2, <1>3, <1>9, SendTypes
  <1>12. process # "dead" => Linked(p, enclaveCalls[k], toEnclave'[k], fromEnclave[k]) /\ Alternates(enclaveCalls[k])
    <2> SUFFICES ASSUME process # "dead"
                 PROVE  Linked(p, enclaveCalls[k], toEnclave'[k], fromEnclave[k]) /\ Alternates(enclaveCalls[k])
      OBVIOUS
    <2>1. toEnclave'[k] = <<Message(type, c)>>
      <3>1. toEnclave'[k] = Append(<<>>, Message(type, c))
        BY <1>6, <1>10
      <3> QED BY <3>1
    <2>2. IsAnswer(<<Message(type, c)>>) /\ <<Message(type, c)>>[1] = Message(type, c)
      BY <1>9 DEF IsAnswer
    <2>3. enclaveCalls[k] = Append(p, c) /\ Alternates(enclaveCalls[k])
      BY <1>2, <1>4, <1>6 DEF Connected
    <2> QED BY <1>5, <1>6, <1>9, <2>1, <2>2, <2>3 DEF Linked
  <1>13. hostCalls'[t] = p /\ \A u \in Threads : u # t => context[u] # k /\ hostCalls'[u] = hostCalls[u]
    BY <1>0, <1>1, <1>2, <1>3, OneUser
  <1>14. Connected(t, k)'
    BY <1>1, <1>6, <1>7, <1>8, <1>12, <1>13 DEF Connected, Orphaned
  <1>15. ThreadCalls(t)'
    BY <1>0, <1>1, <1>2, <1>14 DEF ThreadCalls
  <1>16. process = "dead" => enclaveCalls'[k] = <<>> /\ toEnclave'[k] = <<>>
    BY <1>1, <1>2, <1>10 DEF SocketInv, CallsInStep
  <1> QED BY <1>0, <1>1, <1>2, <1>11, <1>13, <1>15, <1>16, OthersInStep

\* A step of worker k, whose user is thread t.
LEMMA WorkerInStep ==
    ASSUME SocketInv, NEW t \in Threads, NEW k \in Contexts, context[t] = k, process # "dead",
           UNCHANGED <<pc, context, hostCalls, active, closed, process>>,
           \A j \in Contexts : j # k => /\ enclaveCalls'[j] = enclaveCalls[j]
                                         /\ toEnclave'[j] = toEnclave[j] /\ fromEnclave'[j] = fromEnclave[j],
           Alternates(enclaveCalls'[k]), Linked(hostCalls[t], enclaveCalls'[k], toEnclave'[k], fromEnclave'[k])
    PROVE  CallsInStep'
  <1>1. k # NoContext /\ ThreadCalls(t)
    BY SocketConfigAssumption DEF SocketInv, CallsInStep
  <1>2. Connected(t, k)
    BY <1>1 DEF ThreadCalls
  <1>3. Connected(t, k)'
    BY <1>2 DEF Connected
  <1>4. ThreadCalls(t)'
    BY <1>1, <1>3 DEF ThreadCalls
  <1>5. \A u \in Threads : u # t => context[u] # k
    BY <1>1, OneUser
  <1> QED BY <1>4, <1>5, OthersInStep

\* WorkerReceives: a call is handled, or one of the worker's own has its answer.
LEMMA WorkerReceivesInStep ==
    ASSUME SocketInv, NEW k \in Contexts, WorkerReceives(k)
    PROVE  CallsInStep'
  <1>1. /\ toEnclave[k] # <<>> /\ Alive /\ ~EnclaveCode(k)
        /\ toEnclave' = [toEnclave EXCEPT ![k] = Tail(@)]
        /\ UNCHANGED <<pc, context, hostCalls, active, closed, process, fromEnclave>>
    BY DEF WorkerReceives, hostVars
  <1>2. toEnclave \in [Contexts -> Seq(Messages)] /\ enclaveCalls \in [Contexts -> Seq(Calls)] /\ hostCalls \in [Threads -> Seq(Calls)]
    BY DEF SocketInv, SocketTypeOK, HostTypes, SocketTypes, EnclaveTypes
  <1>3. \A j \in Contexts : j # k => toEnclave'[j] = toEnclave[j] /\ fromEnclave'[j] = fromEnclave[j]
    BY <1>1, <1>2
  <1>4. process # "dead"
    BY <1>1 DEF Alive
  <1>5. CASE \E t \in Threads : context[t] = k
    <2>1. PICK t \in Threads : context[t] = k
      BY <1>5
    <2>2. PICK m : m = Head(toEnclave[k])
      OBVIOUS
    <2>3. /\ fromEnclave[k] = <<>> /\ Tail(toEnclave[k]) = <<>> /\ m.call \in Calls
          /\ \/ m.type = "CALL" /\ m.call.from = "host" /\ hostCalls[t] = Append(enclaveCalls[k], m.call)
             \/ m.type \in Answers /\ m.call.from = "enclave" /\ enclaveCalls[k] = Append(hostCalls[t], m.call)
      BY <1>1, <2>1, <2>2, WorkerTurn
    <2>4. toEnclave'[k] = <<>> /\ hostCalls[t] \in Seq(Calls) /\ enclaveCalls[k] \in Seq(Calls)
      BY <1>1, <1>2, <2>3
    <2>5. k # NoContext /\ Alternates(hostCalls[t])
      BY <2>1, SocketConfigAssumption DEF SocketInv, CallsInStep, ThreadCalls, Connected
    <2>6. enclaveCalls'[k] = hostCalls[t] /\ \A j \in Contexts : j # k => enclaveCalls'[j] = enclaveCalls[j]
      <3>1. CASE m.type = "CALL"
        <4>1. enclaveCalls' = [enclaveCalls EXCEPT ![k] = Append(@, m.call)]
          BY <2>2, <3>1 DEF WorkerReceives
        <4> QED BY <1>2, <2>3, <3>1, <4>1 DEF Answers
      <3>2. CASE m.type # "CALL"
        <4>1. enclaveCalls[k] = Append(hostCalls[t], m.call)
          BY <2>3, <3>2
        <4>2. enclaveCalls[k] # <<>> /\ Popped(enclaveCalls[k]) = hostCalls[t]
          BY <2>3, <2>4, <4>1, AppendFacts
        <4>3. enclaveCalls' = [enclaveCalls EXCEPT ![k] = Popped(@)]
          BY <2>2, <3>2, <4>2 DEF WorkerReceives
        <4> QED BY <1>2, <4>2, <4>3
      <3> QED BY <3>1, <3>2
    <2>7. Linked(hostCalls[t], enclaveCalls'[k], toEnclave'[k], fromEnclave'[k])
      BY <1>1, <2>3, <2>4, <2>6 DEF Linked
    <2> QED BY <1>1, <1>3, <1>4, <2>1, <2>5, <2>6, <2>7, WorkerInStep
  <1>6. CASE \A t \in Threads : context[t] # k
    <2>1. Unused(k)
      BY <1>6 DEF SocketInv, CallsInStep
    <2>2. toEnclave[k] = <<Stop>> /\ enclaveCalls[k] = <<>>
      BY <1>1, <2>1 DEF Unused
    <2>3. Head(toEnclave[k]).type # "CALL" /\ Tail(toEnclave[k]) = <<>>
      BY <2>2 DEF Stop, Message
    <2>4. toEnclave'[k] = <<>> /\ UNCHANGED enclaveCalls
      BY <1>1, <1>2, <2>2, <2>3 DEF WorkerReceives
    <2>5. \A j \in Contexts : Unused(j) => Unused(j)'
      BY <1>1, <1>3, <2>4 DEF Unused
    <2>6. ASSUME NEW u \in Threads
          PROVE  ThreadCalls(u)'
      <3>1. PICK j : j = context[u]
        OBVIOUS
      <3>2. ThreadCalls(u) /\ j # k /\ j \in Contexts \cup {NoContext}
        BY <1>6, <3>1, ContextTypes DEF SocketInv, CallsInStep
      <3>3. j # NoContext => Connected(u, j)'
        BY <1>1, <1>3, <2>4, <3>1, <3>2 DEF Connected, ThreadCalls
      <3> QED BY <1>1, <3>1, <3>2, <3>3 DEF ThreadCalls
    <2> QED BY <1>1, <1>4, <2>5, <2>6 DEF CallsInStep, SocketInv
  <1> QED BY <1>5, <1>6

\* CallHost: the call is on its way to the thread that waits for the worker.
LEMMA CallHostInStep ==
    ASSUME SocketInv, NEW k \in Contexts, CallHost(k)
    PROVE  CallsInStep'
  <1>0. PICK c : c = [from |-> "enclave", by |-> k, n |-> fuel[k]]
    OBVIOUS
  <1>1. /\ EnclaveCode(k)
        /\ enclaveCalls' = [enclaveCalls EXCEPT ![k] = Append(@, c)]
        /\ fromEnclave' = [fromEnclave EXCEPT ![k] = Append(@, Message("CALL", c))]
        /\ UNCHANGED <<pc, context, hostCalls, active, closed, process, toEnclave>>
    BY <1>0 DEF CallHost, hostVars
  <1>2. fromEnclave \in [Contexts -> Seq(Messages)] /\ enclaveCalls \in [Contexts -> Seq(Calls)]
    BY DEF SocketInv, SocketTypeOK, SocketTypes, EnclaveTypes
  <1>3. c \in Calls /\ c.from = "enclave"
    BY <1>0, NewCallTypes DEF SocketInv
  <1>4. /\ process # "dead" /\ enclaveCalls[k] # <<>> /\ enclaveCalls[k] \in Seq(Calls) /\ Top(enclaveCalls[k]).from = "host"
        /\ toEnclave[k] = <<>> /\ fromEnclave[k] = <<>>
    BY <1>1, EnclaveTurn
  <1>5. PICK t \in Threads : context[t] = k /\ hostCalls[t] = enclaveCalls[k] /\ Connected(t, k)
    BY <1>1, EnclaveTurn
  <1>6. fromEnclave'[k] = <<Message("CALL", c)>> /\ enclaveCalls'[k] = Append(hostCalls[t], c)
    <2>1. fromEnclave'[k] = Append(<<>>, Message("CALL", c)) /\ enclaveCalls'[k] = Append(hostCalls[t], c)
      BY <1>1, <1>2, <1>4, <1>5
    <2> QED BY <2>1
  <1>7. Alternates(enclaveCalls'[k])
    BY <1>3, <1>4, <1>5, <1>6, AlternatesAppend DEF Connected
  <1>8. IsCall(fromEnclave'[k]) /\ fromEnclave'[k][1].call = c
    BY <1>6 DEF IsCall, Message
  <1>9. Linked(hostCalls[t], enclaveCalls'[k], toEnclave'[k], fromEnclave'[k])
    BY <1>1, <1>3, <1>4, <1>6, <1>8 DEF Linked
  <1>10. \A j \in Contexts : j # k => /\ enclaveCalls'[j] = enclaveCalls[j]
                                       /\ toEnclave'[j] = toEnclave[j] /\ fromEnclave'[j] = fromEnclave[j]
    BY <1>1, <1>2
  <1> QED BY <1>1, <1>4, <1>5, <1>7, <1>9, <1>10, WorkerInStep

\* EnclaveHandlerReturns: the answer is on its way to the thread that made the call.
LEMMA EnclaveReturnsInStep ==
    ASSUME SocketInv, NEW k \in Contexts, NEW type \in Answers, EnclaveHandlerReturns(k, type)
    PROVE  CallsInStep'
  <1>0. PICK c, p, m : c = Top(enclaveCalls[k]) /\ p = Popped(enclaveCalls[k]) /\ m = Message(type, c)
    OBVIOUS
  <1>1. /\ EnclaveCode(k)
        /\ fromEnclave' = Send(fromEnclave, k, m)
        /\ enclaveCalls' = [enclaveCalls EXCEPT ![k] = p]
        /\ UNCHANGED <<pc, context, hostCalls, active, closed, process, toEnclave>>
    BY <1>0 DEF EnclaveHandlerReturns, Answer, hostVars
  <1>2. fromEnclave \in [Contexts -> Seq(Messages)] /\ enclaveCalls \in [Contexts -> Seq(Calls)]
    BY DEF SocketInv, SocketTypeOK, SocketTypes, EnclaveTypes
  <1>3. /\ process # "dead" /\ Alive /\ enclaveCalls[k] # <<>> /\ enclaveCalls[k] \in Seq(Calls) /\ c.from = "host"
        /\ toEnclave[k] = <<>> /\ fromEnclave[k] = <<>>
    BY <1>0, <1>1, EnclaveTurn
  <1>4. enclaveCalls[k] = Append(p, c) /\ p \in Seq(Calls) /\ c \in Calls
    BY <1>0, <1>3, PoppedFacts
  <1>5. PICK t \in Threads : context[t] = k /\ hostCalls[t] = enclaveCalls[k] /\ Connected(t, k)
    BY <1>1, EnclaveTurn
  <1>6. m \in Messages /\ m.type = type /\ m.call = c
    BY <1>0, <1>4, MessageTypes DEF Message
  <1>7. fromEnclave'[k] = <<m>> /\ enclaveCalls'[k] = p
    <2>1. Send(fromEnclave, k, m)[k] = Append(fromEnclave[k], m)
      BY <1>2, <1>3, <1>6, SendTypes
    <2>2. fromEnclave'[k] = Append(<<>>, m)
      BY <1>1, <1>3, <2>1
    <2>3. enclaveCalls'[k] = p
      BY <1>1, <1>2
    <2> QED BY <2>2, <2>3
  <1>8. Alternates(p)
    BY <1>4, <1>5, TurnBefore DEF Connected
  <1>9. IsAnswer(fromEnclave'[k]) /\ fromEnclave'[k][1].call = c
    BY <1>6, <1>7 DEF IsAnswer
  <1>10. Linked(hostCalls[t], enclaveCalls'[k], toEnclave'[k], fromEnclave'[k])
    BY <1>1, <1>3, <1>4, <1>5, <1>7, <1>9 DEF Linked
  <1>11. \A j \in Contexts : j # k => /\ enclaveCalls'[j] = enclaveCalls[j]
                                       /\ toEnclave'[j] = toEnclave[j] /\ fromEnclave'[j] = fromEnclave[j]
    BY <1>1, <1>2, <1>6, SendTypes
  <1> QED BY <1>1, <1>3, <1>5, <1>7, <1>8, <1>10, <1>11, WorkerInStep

\* CloseContext: a context that is closed has nothing but the stop message.
LEMMA CloseInStep ==
    ASSUME SocketInv, NEW t \in Threads, CloseContext(t)
    PROVE  CallsInStep'
  <1>0. PICK k : k = Head(pool)
    OBVIOUS
  <1>1. pool \in Seq(Contexts) /\ toEnclave \in [Contexts -> Seq(Messages)] /\ NoContext \notin Contexts /\ CallsInStep
        /\ pc \in [Threads -> {"code", "connect", "join", "accept", "check", "take", "drain"}]
    BY SocketConfigAssumption DEF SocketInv, SocketTypeOK, HostTypes, SocketTypes
  <1>2. /\ pool # <<>> /\ pc[t] = "drain"
        /\ UNCHANGED <<context, hostCalls, active, fromEnclave, enclaveCalls, process>>
    BY DEF CloseContext, enclaveVars
  <1>3. k \in Contexts /\ \A u \in Threads : context[u] # k
    <2>1. k = pool[1] /\ 1 \in DOMAIN pool /\ k \in Contexts
      BY <1>0, <1>1, <1>2, TailFacts
    <2> QED BY <2>1 DEF SocketInv, Places
  <1>4. k \notin closed
    <2>1. k = pool[1] /\ 1 \in DOMAIN pool
      BY <1>0, <1>1, <1>2, TailFacts
    <2> QED BY <2>1 DEF SocketInv, Places
  <1>5. Unused(k) /\ toEnclave[k] = <<>>
    BY <1>1, <1>3, <1>4 DEF CallsInStep, Unused
  <1>6. pc' = pc \/ pc' = [pc EXCEPT ![t] = "code"]
    BY DEF CloseContext, Goto
  <1>7. \A u \in Threads : pc'[u] \in {"check", "take"} => pc[u] \in {"check", "take"}
    BY <1>1, <1>6
  <1>8. /\ \A j \in Contexts : j # k => toEnclave'[j] = toEnclave[j] /\ (j \in closed' <=> j \in closed)
        /\ toEnclave'[k] \in {<<>>, <<Stop>>} /\ (toEnclave'[k] # <<>> => k \in closed')
        /\ process = "dead" => toEnclave'[k] = <<>>
    <2>1. CASE active[k] = 0 /\ toEnclave' = Send(toEnclave, k, Stop) /\ closed' = closed \cup {k}
      <3>1. Stop \in Messages
        BY DEF Stop, Messages, Message
      <3>2. /\ \A j \in Contexts : j # k => toEnclave'[j] = toEnclave[j]
            /\ toEnclave'[k] = IF Alive THEN Append(toEnclave[k], Stop) ELSE toEnclave[k]
        BY <1>1, <1>3, <2>1, <3>1, SendTypes
      <3>3. Append(<<>>, Stop) = <<Stop>>
        OBVIOUS
      <3>4. toEnclave'[k] = IF Alive THEN <<Stop>> ELSE <<>>
        BY <1>5, <3>2, <3>3
      <3>5. process = "dead" => ~Alive
        BY DEF Alive
      <3> QED BY <2>1, <3>2, <3>4, <3>5
    <2>2. CASE UNCHANGED <<toEnclave, closed>>
      BY <1>5, <2>2
    <2> QED BY <1>0, <2>1, <2>2 DEF CloseContext
  <1>9. ASSUME NEW j \in Contexts, Unused(j)
        PROVE  Unused(j)'
    <2>1. CASE j = k
      BY <1>2, <1>5, <1>8, <2>1 DEF Unused
    <2>2. CASE j # k
      BY <1>2, <1>8, <1>9, <2>2 DEF Unused
    <2> QED BY <2>1, <2>2
  <1>10. ASSUME NEW u \in Threads
         PROVE  ThreadCalls(u)'
    <2>1. PICK j : j = context[u]
      OBVIOUS
    <2>2. ThreadCalls(u) /\ j # k /\ j \in Contexts \cup {NoContext}
      BY <1>1, <1>3, <2>1, ContextTypes DEF SocketInv, CallsInStep
    <2>3. j # NoContext => Connected(u, j)'
      BY <1>2, <1>8, <2>1, <2>2 DEF Connected, ThreadCalls
    <2> QED BY <1>2, <1>7, <2>1, <2>2, <2>3 DEF ThreadCalls
  <1>11. process = "dead" => \A j \in Contexts : enclaveCalls'[j] = <<>> /\ toEnclave'[j] = <<>>
    BY <1>1, <1>2, <1>8 DEF CallsInStep
  <1> QED BY <1>1, <1>2, <1>9, <1>10, <1>11 DEF CallsInStep

\* Die: of the messages only some of those to the host are left.
LEMMA DieInStep ==
    ASSUME SocketInv, NEW lost \in SUBSET Contexts, Die(lost)
    PROVE  CallsInStep'
  <1>1. /\ process' = "dead" /\ process # "dead"
        /\ \A k \in Contexts : toEnclave'[k] = <<>> /\ enclaveCalls'[k] = <<>> /\ fromEnclave'[k] \in {<<>>, fromEnclave[k]}
        /\ UNCHANGED <<pc, context, hostCalls, active, closed>>
    BY SocketConfigAssumption DEF Die, hostVars
  <1>2. CallsInStep /\ NoContext \notin Contexts
    BY SocketConfigAssumption DEF SocketInv
  <1>3. \A k \in Contexts : Unused(k) => Unused(k)'
    BY <1>1 DEF Unused
  <1>4. ASSUME NEW t \in Threads
        PROVE  ThreadCalls(t)'
    <2>1. PICK k : k = context[t]
      OBVIOUS
    <2>2. ThreadCalls(t) /\ k \in Contexts \cup {NoContext}
      BY <1>2, <2>1, ContextTypes DEF SocketInv, CallsInStep
    <2>3. CASE k = NoContext
      BY <1>1, <2>1, <2>2, <2>3 DEF ThreadCalls
    <2>4. CASE k # NoContext
      <3>1. k \in Contexts /\ Connected(t, k)
        BY <2>1, <2>2, <2>4 DEF ThreadCalls
      <3>2. Orphaned(hostCalls[t], fromEnclave[k])
        <4>1. CASE fromEnclave[k] = <<>>
          BY <4>1 DEF Orphaned
        <4>2. CASE fromEnclave[k] # <<>>
          <5>1. Linked(hostCalls[t], enclaveCalls[k], toEnclave[k], fromEnclave[k])
            BY <1>1, <3>1 DEF Connected
          <5>2. Top(hostCalls[t]).from = "host"
            BY <2>1, <3>1, <4>2, HostReads
          <5>3. hostCalls[t] \in Seq(Calls) /\ enclaveCalls[k] \in Seq(Calls) /\ fromEnclave[k] \in Seq(Messages)
            BY <3>1, ContextTypes DEF SocketInv
          <5>4. CASE IsCall(fromEnclave[k])
            BY <4>2, <5>1, <5>2, <5>4, MessageKinds DEF Linked, Orphaned
          <5>5. CASE IsAnswer(fromEnclave[k])
            <6>1. fromEnclave[k][1].call \in Calls
              BY <5>3, <5>5, OneMessage
            <6>2. hostCalls[t] = Append(enclaveCalls[k], fromEnclave[k][1].call) /\ fromEnclave[k][1].call.from = "host"
              BY <4>2, <5>1, <5>5, MessageKinds DEF Linked
            <6>3. Top(hostCalls[t]) = fromEnclave[k][1].call
              BY <5>3, <6>1, <6>2, AppendFacts
            <6> QED BY <5>5, <6>2, <6>3 DEF Orphaned
          <5> QED BY <4>2, <5>1, <5>4, <5>5 DEF Linked
        <4> QED BY <4>1, <4>2
      <3>3. Orphaned(hostCalls[t], fromEnclave'[k])
        BY <1>1, <3>1, <3>2 DEF Orphaned
      <3>4. Connected(t, k)'
        BY <1>1, <3>1, <3>3 DEF Connected
      <3> QED BY <1>1, <2>1, <2>2, <2>4, <3>4 DEF ThreadCalls
    <2> QED BY <2>3, <2>4
  <1> QED BY <1>1, <1>2, <1>3, <1>4 DEF CallsInStep

\* Every step keeps the calls on the two ends of a context in step.
LEMMA CallsKept ==
    ASSUME SocketInv, [Next]_vars
    PROVE  CallsInStep'
  <1>1. pc \in [Threads -> {"code", "connect", "join", "accept", "check", "take", "drain"}] /\ DiesWhen \subseteq {"started", "connecting", "serving"}
    BY SocketConfigAssumption DEF SocketInv, SocketTypeOK, HostTypes
  <1>2. ASSUME NEW t \in Threads, Initialise(t)
        PROVE  CallsInStep'
    <2>1. /\ UNCHANGED <<context, hostCalls, active, closed, enclaveCalls, toEnclave, fromEnclave>>
          /\ process' = "dead" <=> process = "dead"
          /\ pc' = pc \/ Goto(t, "connect")
      BY <1>2 DEF Initialise, socketVars, SocketInv, HelloFirst
    <2>2. \A u \in Threads : pc'[u] \in {"check", "take"} => pc[u] \in {"check", "take"}
      BY <1>1, <2>1 DEF Goto
    <2> QED BY <2>1, <2>2, MovesInStep
  <1>3. ASSUME NEW t \in Threads, Close(t) \/ AcceptInitial(t) \/ PollFails(t) \/ StartFails(t) \/ AcceptContext(t)
        PROVE  CallsInStep'
    <2>1. /\ UNCHANGED <<context, hostCalls, active, closed, enclaveCalls, toEnclave, fromEnclave>>
          /\ process' = process
          /\ pc' = pc \/ \E q \in {"drain", "accept", "join", "code"} : Goto(t, q)
      BY <1>3 DEF Close, AcceptInitial, PollFails, StartFails, AcceptContext, socketVars, enclaveVars
    <2>2. \A u \in Threads : pc'[u] \in {"check", "take"} => pc[u] \in {"check", "take"}
      BY <1>1, <2>1 DEF Goto
    <2> QED BY <2>1, <2>2, MovesInStep
  <1>4. ASSUME NEW t \in Threads, ExecuteOutgoingCall(t) \/ CheckRunning(t)
        PROVE  CallsInStep'
    <2>1. /\ UNCHANGED <<context, hostCalls, active, closed, enclaveCalls, toEnclave, fromEnclave>>
          /\ process' = process
      BY <1>4 DEF ExecuteOutgoingCall, CheckRunning, socketVars, enclaveVars
    <2>2. Awaited(hostCalls[t]) # "enclave"
      BY <1>4 DEF ExecuteOutgoingCall, CheckRunning, HostCode, SocketInv, CallsInStep, ThreadCalls
    <2>3. \E q \in {"check", "take", "code"} : Goto(t, q)
      BY <1>4 DEF ExecuteOutgoingCall, CheckRunning
    <2>4. \A u \in Threads : pc'[u] \in {"check", "take"} => pc[u] \in {"check", "take"} \/ Awaited(hostCalls[u]) # "enclave"
      BY <1>1, <2>2, <2>3 DEF Goto
    <2> QED BY <2>1, <2>4, MovesInStep
  <1>5. ASSUME SendMaximum \/ (\E k \in Contexts : Connect(k)) \/ Exit \/ Idle \/ UNCHANGED vars
        PROVE  CallsInStep'
    <2>1. /\ UNCHANGED <<context, hostCalls, active, closed, enclaveCalls, toEnclave, fromEnclave, pc>>
          /\ process' = process \/ (process # "dead" /\ process' # "dead")
      BY <1>5 DEF SendMaximum, Connect, Exit, Idle, vars, hostVars, socketVars, enclaveVars
    <2> QED BY <2>1, MovesInStep
  <1> QED BY <1>2, <1>3, <1>4, <1>5, TypesKept, InitiateInStep, ReceiveInStep, FailsInStep, HostReturnsInStep, CloseInStep,
             WorkerReceivesInStep, CallHostInStep, EnclaveReturnsInStep, DieInStep
          DEF Next, ThreadStep, WorkerStep, MainStep

-----------------------------------------------------------------------------
(***************************************************************************)
(* The theorems.                                                           *)
(***************************************************************************)
\* A new interface satisfies the invariant.
LEMMA InitEstablishesInv == Init => SocketInv
  <1> SUFFICES ASSUME Init
               PROVE  SocketInv
    OBVIOUS
  <1>1. NoThread \notin Threads /\ NoContext \notin Contexts /\ HostFuel \in Nat /\ EnclaveFuel \in Nat
    BY SocketConfigAssumption
  <1>2. SocketTypeOK /\ FuelBounded
    <2>1. fuel \in [Threads \cup Contexts -> Nat]
      BY <1>1 DEF Init
    <2>2. \A x \in Threads \cup Contexts : fuel[x] = HostFuel \/ fuel[x] = EnclaveFuel
      BY DEF Init
    <2>3. FuelBounded
      BY <1>1, <2>2 DEF FuelBounded
    <2> QED BY <2>1, <2>3 DEF Init, SocketTypeOK, HostTypes, SocketTypes, EnclaveTypes
  <1>3. MonitorOwned /\ HelloFirst /\ Places
    BY <1>1 DEF Init, MonitorOwned, HelloFirst, Places, Distinct
  <1>4. Stopping
    BY FS_EmptySet DEF Init, Stopping
  <1>5. CallsInStep
    BY DEF Init, CallsInStep, ThreadCalls, Unused, Awaited
  <1> QED BY <1>2, <1>3, <1>4, <1>5 DEF SocketInv

\* The inductive invariant holds in every behaviour: the interface of SocketHostEnclaveInterface
\* and SocketEnclaveHostInterface keeps its contexts, stacks and messages together.
THEOREM SocketInvariant == Spec => []SocketInv
  <1>1. ASSUME SocketInv, [Next]_vars
        PROVE  SocketInv'
    BY <1>1, TypesKept, MonitorKept, HelloKept, PlacesKept, StoppingKept, FuelKept, CallsKept DEF SocketInv
  <1> QED BY <1>1, InitEstablishesInv, PTL DEF Spec

\* The two ends of every context in use have the same calls in progress, but for the one message
\* that is on its way (initiateCall and handleCallMessage of either side), for any number of
\* threads and contexts and however deeply the calls nest.
THEOREM StacksStayInStep == Spec => []StacksAgree
  <1>1. ASSUME SocketInv
        PROVE  StacksAgree
    <2> SUFFICES ASSUME NEW t \in Threads, context[t] # NoContext, process # "dead"
                 PROVE  Agree(hostCalls[t], enclaveCalls[context[t]], toEnclave[context[t]], fromEnclave[context[t]])
      BY DEF StacksAgree
    <2>1. Linked(hostCalls[t], enclaveCalls[context[t]], toEnclave[context[t]], fromEnclave[context[t]])
      BY <1>1 DEF SocketInv, CallsInStep, ThreadCalls, Connected
    <2> QED BY <2>1 DEF Linked, Agree
  <1> QED BY <1>1, SocketInvariant, PTL

\* A set in which any two elements are equal has at most one.
LEMMA AtMostOne ==
    ASSUME NEW S, \A x, y \in S : x = y
    PROVE  Cardinality(S) \in Nat /\ Cardinality(S) <= 1 /\ (S = {} => Cardinality(S) = 0)
  <1>1. CASE S = {}
    BY <1>1, FS_EmptySet
  <1>2. CASE S # {}
    <2>1. PICK x : S = {x}
      BY <1>2
    <2> QED BY <1>2, <2>1, FS_Singleton
  <1> QED BY <1>1, <1>2

\* What the invariant says of a context's places, in the words of ContextsAccounted.
LEMMA OnePlace ==
    ASSUME SocketInv, NEW k \in Contexts
    PROVE  Cardinality(InPool(k)) + Cardinality(Users(k)) + (IF k \in closed THEN 1 ELSE 0) <= 1
  <1>1. Places /\ k # NoContext
    BY SocketConfigAssumption DEF SocketInv
  <1>2. \A i, j \in InPool(k) : i = j
    BY <1>1 DEF Places, Distinct, InPool
  <1>3. \A t, u \in Users(k) : t = u
    BY <1>1 DEF Places, Users
  <1>4. InPool(k) # {} => Users(k) = {} /\ k \notin closed
    BY <1>1 DEF Places, InPool, Users
  <1>5. Users(k) # {} => k \notin closed
    BY <1>1 DEF Places, Users
  <1>6. Cardinality(InPool(k)) \in Nat /\ Cardinality(InPool(k)) <= 1 /\ (InPool(k) = {} => Cardinality(InPool(k)) = 0)
    BY <1>2, AtMostOne
  <1>7. Cardinality(Users(k)) \in Nat /\ Cardinality(Users(k)) <= 1 /\ (Users(k) = {} => Cardinality(Users(k)) = 0)
    BY <1>3, AtMostOne
  <1> QED BY <1>4, <1>5, <1>6, <1>7

\* Every context is in one place, counts the calls its user waits for (executeOutgoingCall,
\* initiateCall), and holds nothing when no thread uses it but the stop message of close().
THEOREM ContextsStayAccounted == Spec => []ContextsAccounted
  <1>1. ASSUME SocketInv
        PROVE  ContextsAccounted
    <2>1. SocketTypeOK /\ NoContext \notin Contexts
      BY <1>1, SocketConfigAssumption DEF SocketInv
    <2>2. ASSUME NEW k \in Contexts, NEW t \in Users(k)
          PROVE  active[k] = Cardinality(Waiting(hostCalls[t])) /\ active[k] > 0
      <3>1. t \in Threads /\ context[t] = k /\ k # NoContext
        BY <2>1, <2>2 DEF Users
      <3>2. hostCalls[t] # <<>> /\ Alternates(hostCalls[t]) /\ active[k] = Cardinality(Waiting(hostCalls[t]))
        BY <1>1, <3>1 DEF SocketInv, CallsInStep, ThreadCalls, Connected
      <3>3. hostCalls[t] \in Seq(Calls) /\ active[k] \in Nat
        BY <2>1, <3>1, ContextTypes
      <3>4. active[k] # 0
        BY <3>2, <3>3, WaitingZero
      <3> QED BY <3>2, <3>3, <3>4
    <2>3. ASSUME NEW k \in Contexts, Users(k) = {}
          PROVE  Unused(k)
      BY <1>1, <2>3 DEF Users, SocketInv, CallsInStep
    <2>4. \A k \in Contexts : Cardinality(InPool(k)) + Cardinality(Users(k)) + (IF k \in closed THEN 1 ELSE 0) <= 1
      BY <1>1, OnePlace
    <2> QED BY <2>1, <2>2, <2>3, <2>4 DEF ContextsAccounted, Unused
  <1> QED BY <1>1, SocketInvariant, PTL

-----------------------------------------------------------------------------
(***************************************************************************)
(* The refinement.  CallStack and Outcome depend on a thread's context     *)
(* only through what is in it.                                             *)
(***************************************************************************)
StackOf(h, e, in, proc) ==
    IF proc = "dead" /\ IsCall(in) THEN Append(h, in[1].call) ELSE IF Len(h) >= Len(e) THEN h ELSE e

OutcomeOf(out, in) ==
    IF IsAnswer(in) THEN in[1].type ELSE IF IsAnswer(out) THEN out[1].type ELSE "none"

\* The calls of a thread and their outcome, now and in the next state.
LEMMA Seen ==
    ASSUME NEW t \in Threads, NEW k
    PROVE  /\ context[t] = NoContext => CallStack(t) = <<>> /\ Outcome(t) = "none"
           /\ context[t] = k /\ k # NoContext =>
                /\ CallStack(t) = StackOf(hostCalls[t], enclaveCalls[k], fromEnclave[k], process)
                /\ Outcome(t) = OutcomeOf(toEnclave[k], fromEnclave[k])
           /\ context'[t] = NoContext => CallStack(t)' = <<>> /\ Outcome(t)' = "none"
           /\ context'[t] = k /\ k # NoContext =>
                /\ CallStack(t)' = StackOf(hostCalls'[t], enclaveCalls'[k], fromEnclave'[k], process')
                /\ Outcome(t)' = OutcomeOf(toEnclave'[k], fromEnclave'[k])
  BY DEF CallStack, Outcome, StackOf, OutcomeOf

\* With no message on its way, the calls are the host's.
LEMMA SeenQuiet ==
    ASSUME NEW h \in Seq(Calls), NEW e \in Seq(Calls), NEW proc, e = h \/ e = <<>>
    PROVE  StackOf(h, e, <<>>, proc) = h /\ OutcomeOf(<<>>, <<>>) = "none"
  <1>1. ~IsCall(<<>>) /\ ~IsAnswer(<<>>)
    BY MessageKinds
  <1>2. Len(h) >= Len(e)
    OBVIOUS
  <1> QED BY <1>1, <1>2 DEF StackOf, OutcomeOf

\* With a call on its way, the calls are those of the side that made it.
LEMMA SeenCall ==
    ASSUME NEW s \in Seq(Calls), NEW c \in Calls, NEW q, IsCall(q), q[1].call = c, NEW proc
    PROVE  /\ StackOf(Append(s, c), s, <<>>, proc) = Append(s, c) /\ OutcomeOf(q, <<>>) = "none"
           /\ StackOf(s, Append(s, c), q, proc) = Append(s, c) /\ OutcomeOf(<<>>, q) = "none"
           /\ proc = "dead" => StackOf(s, <<>>, q, proc) = Append(s, c)
  <1>1. ~IsCall(<<>>) /\ ~IsAnswer(<<>>) /\ ~IsAnswer(q)
    BY MessageKinds
  <1>2. Len(Append(s, c)) >= Len(s) /\ ~(Len(s) >= Len(Append(s, c)))
    BY AppendFacts
  <1> QED BY <1>1, <1>2 DEF StackOf, OutcomeOf

\* With an answer on its way, the calls are those of the side that waits for it.
LEMMA SeenAnswer ==
    ASSUME NEW s \in Seq(Calls), NEW c \in Calls, NEW q, IsAnswer(q), NEW proc
    PROVE  /\ StackOf(Append(s, c), s, q, proc) = Append(s, c) /\ OutcomeOf(q, <<>>) = q[1].type
           /\ StackOf(s, Append(s, c), <<>>, proc) = Append(s, c) /\ OutcomeOf(<<>>, q) = q[1].type
           /\ StackOf(s, <<>>, q, proc) = s
  <1>1. ~IsCall(<<>>) /\ ~IsAnswer(<<>>) /\ ~IsCall(q)
    BY MessageKinds
  <1>2. Len(Append(s, c)) >= Len(s) /\ ~(Len(s) >= Len(Append(s, c))) /\ Len(s) >= Len(<<>>)
    BY AppendFacts
  <1> QED BY <1>1, <1>2 DEF StackOf, OutcomeOf

\* Thread u sees no change.
Unmoved(u) == CallStack(u)' = CallStack(u) /\ Outcome(u)' = Outcome(u)

\* A thread whose context does not change sees no change.
LEMMA SeesNothing ==
    ASSUME NEW u \in Threads, context'[u] = context[u],
           context[u] # NoContext =>
              /\ hostCalls'[u] = hostCalls[u] /\ enclaveCalls'[context[u]] = enclaveCalls[context[u]]
              /\ toEnclave'[context[u]] = toEnclave[context[u]] /\ fromEnclave'[context[u]] = fromEnclave[context[u]],
           process' = "dead" <=> process = "dead"
    PROVE  Unmoved(u)
  <1>1. PICK j : j = context[u]
    OBVIOUS
  <1> QED BY <1>1, Seen, SMTT(30) DEF Unmoved, StackOf

\* A step in which no thread sees a change is none of NestedCalls.
LEMMA MapsToStutter ==
    ASSUME \A u \in Threads : Unmoved(u), process' = "dead" <=> process = "dead"
    PROVE  UNCHANGED Nested!vars
  BY DEF Unmoved, Nested!vars

\* A call more, made by the side whose turn it is, is a call of NestedCalls.
LEMMA MapsToCall ==
    ASSUME NEW t \in Threads, NEW c \in Calls, \A u \in Threads : u # t => Unmoved(u), process' = "dead" <=> process = "dead",
           Outcome(t) = "none", Outcome(t)' = "none", CallStack(t)' = Append(CallStack(t), c),
           c.from = IF Awaited(CallStack(t)) = "enclave" THEN "enclave" ELSE "host"
    PROVE  Nested!Next
  <1>1. Nested!Call(t, c)
    BY DEF Nested!Call, Nested!Turn, Nested!Last, Awaited, Top, Unmoved
  <1> QED BY <1>1 DEF Nested!Next

\* A handler that ends gives the last call its outcome.
LEMMA MapsToHandled ==
    ASSUME NEW t \in Threads, NEW o \in Answers, \A u \in Threads : u # t => Unmoved(u), process' = "dead" <=> process = "dead",
           Outcome(t) = "none", Outcome(t)' = o, CallStack(t)' = CallStack(t), CallStack(t) # <<>>
    PROVE  Nested!Next
  <1>1. Nested!Handled(t, o)
    BY DEF Nested!Handled, Unmoved
  <1> QED BY <1>1 DEF Nested!Next, Nested!Outcomes, Answers

\* An outcome that is read ends the last call.
LEMMA MapsToReturn ==
    ASSUME NEW t \in Threads, \A u \in Threads : u # t => Unmoved(u), process' = "dead" <=> process = "dead",
           Outcome(t) # "none", Outcome(t)' = "none", CallStack(t)' = Popped(CallStack(t))
    PROVE  Nested!Next
  <1>1. Nested!Return(t)
    BY DEF Nested!Return, Nested!Front, Popped, Unmoved
  <1> QED BY <1>1 DEF Nested!Next

\* Without the process a call ends by itself.
LEMMA MapsToAbandon ==
    ASSUME NEW t \in Threads, \A u \in Threads : u # t => Unmoved(u), process = "dead", process' = "dead",
           Outcome(t) = "none", Outcome(t)' = "none", CallStack(t) # <<>>, CallStack(t)' = Popped(CallStack(t))
    PROVE  Nested!Next
  <1>1. Nested!Abandon(t)
    BY DEF Nested!Abandon, Nested!Front, Popped, Unmoved
  <1> QED BY <1>1 DEF Nested!Next

\* A step on the context k of thread t is seen by no other thread.
LEMMA OthersSeeNothing ==
    ASSUME SocketInv, NEW t \in Threads, NEW k \in Contexts,
           \A u \in Threads : u # t => context[u] # k /\ context'[u] = context[u] /\ hostCalls'[u] = hostCalls[u],
           \A j \in Contexts : j # k => /\ enclaveCalls'[j] = enclaveCalls[j]
                                         /\ toEnclave'[j] = toEnclave[j] /\ fromEnclave'[j] = fromEnclave[j],
           UNCHANGED process
    PROVE  \A u \in Threads : u # t => Unmoved(u)
  <1> SUFFICES ASSUME NEW u \in Threads, u # t
               PROVE  Unmoved(u)
    OBVIOUS
  <1>1. context[u] \in Contexts \cup {NoContext}
    BY ContextTypes DEF SocketInv
  <1>2. context[u] # NoContext =>
              /\ hostCalls'[u] = hostCalls[u] /\ enclaveCalls'[context[u]] = enclaveCalls[context[u]]
              /\ toEnclave'[context[u]] = toEnclave[context[u]] /\ fromEnclave'[context[u]] = fromEnclave[context[u]]
    BY <1>1
  <1> QED BY <1>2, SeesNothing

\* What the calls of a thread are when code of the host runs in it.
LEMMA SeenByHost ==
    ASSUME SocketInv, NEW t \in Threads, Awaited(hostCalls[t]) # "enclave"
    PROVE  CallStack(t) = hostCalls[t] /\ Outcome(t) = "none" /\ hostCalls[t] \in Seq(Calls)
  <1>1. hostCalls[t] \in Seq(Calls) /\ ThreadCalls(t)
    BY ContextTypes DEF SocketInv, CallsInStep
  <1>2. CASE context[t] = NoContext
    BY <1>1, <1>2, Seen DEF ThreadCalls
  <1>3. CASE context[t] # NoContext
    <2>1. PICK k : k = context[t]
      OBVIOUS
    <2>2. hostCalls[t] # <<>> /\ k \in Contexts
      BY <1>1, <1>3, <2>1, ContextTypes DEF ThreadCalls, Connected, SocketInv
    <2>3. fromEnclave[k] = <<>> /\ (process # "dead" => toEnclave[k] = <<>> /\ enclaveCalls[k] = hostCalls[t])
      BY <2>1, <2>2, HostTurn
    <2>4. process = "dead" => toEnclave[k] = <<>> /\ enclaveCalls[k] = <<>>
      BY <2>2 DEF SocketInv, CallsInStep
    <2>5. enclaveCalls[k] \in Seq(Calls)
      BY <2>2, ContextTypes DEF SocketInv
    <2> QED BY <1>1, <1>3, <2>1, <2>3, <2>4, <2>5, Seen, SeenQuiet
  <1> QED BY <1>2, <1>3

\* InitiateCall is a call of the host.
LEMMA InitiateMaps ==
    ASSUME SocketInv, NEW t \in Threads, InitiateCall(t)
    PROVE  Nested!Next
  <1>0. PICK k, c : k = (IF context[t] = NoContext THEN Head(pool) ELSE context[t]) /\ c = [from |-> "host", by |-> t, n |-> fuel[t]]
    OBVIOUS
  <1>1. /\ SocketTypeOK /\ pool \in Seq(Contexts) /\ context \in [Threads -> Contexts \cup {NoContext}]
        /\ hostCalls \in [Threads -> Seq(Calls)] /\ toEnclave \in [Contexts -> Seq(Messages)] /\ NoContext \notin Contexts
    BY SocketConfigAssumption DEF SocketInv, SocketTypeOK, HostTypes, SocketTypes
  <1>2. k \in Contexts /\ k # NoContext
    BY <1>0, <1>1 DEF InitiateCall
  <1>3. c \in Calls /\ Message("CALL", c) \in Messages /\ c.from = "host" /\ Message("CALL", c).type = "CALL" /\ Message("CALL", c).call = c
    BY <1>0, NewCallTypes, MessageTypes DEF SocketInv, Message
  <1>4. Awaited(hostCalls[t]) # "enclave"
    BY DEF SocketInv, CallsInStep, ThreadCalls, InitiateCall
  <1>5. CallStack(t) = hostCalls[t] /\ Outcome(t) = "none" /\ hostCalls[t] \in Seq(Calls)
    BY <1>4, SeenByHost
  <1>6. /\ fromEnclave[k] = <<>> /\ process # "exited" /\ toEnclave[k] = <<>>
        /\ enclaveCalls[k] = IF process = "dead" THEN <<>> ELSE hostCalls[t]
        /\ \A u \in Threads : u # t => context[u] # k
    <2>1. process = "dead" => toEnclave[k] = <<>> /\ enclaveCalls[k] = <<>>
      BY <1>2 DEF SocketInv, CallsInStep
    <2>2. CASE context[t] = NoContext
      <3>1. pool # <<>> /\ k = pool[1] /\ 1 \in DOMAIN pool /\ hostCalls[t] = <<>>
        BY <1>0, <1>1, <2>2, TailFacts DEF InitiateCall, SocketInv, CallsInStep, ThreadCalls
      <3>2. k \notin closed /\ \A u \in Threads : context[u] # k
        BY <3>1 DEF SocketInv, Places
      <3>3. Unused(k) /\ process # "exited"
        BY <1>2, <3>2 DEF SocketInv, CallsInStep, Stopping
      <3> QED BY <3>1, <3>2, <3>3 DEF Unused
    <2>3. CASE context[t] # NoContext
      <3>1. k = context[t] /\ hostCalls[t] # <<>>
        BY <1>0, <2>3 DEF SocketInv, CallsInStep, ThreadCalls, Connected
      <3> QED BY <1>4, <2>1, <2>3, <3>1, HostTurn, OneUser, ExitedUnused
    <2> QED BY <2>2, <2>3
  <1>7. /\ context' = [context EXCEPT ![t] = k]
        /\ hostCalls' = [hostCalls EXCEPT ![t] = Append(@, c)]
        /\ toEnclave' = Send(toEnclave, k, Message("CALL", c))
        /\ UNCHANGED <<process, enclaveCalls, fromEnclave>>
    BY <1>0 DEF InitiateCall, enclaveVars
  <1>8. /\ hostCalls'[t] = Append(hostCalls[t], c) /\ context'[t] = k
        /\ \A u \in Threads : u # t => context'[u] = context[u] /\ hostCalls'[u] = hostCalls[u]
    BY <1>1, <1>7
  <1>9. \A j \in Contexts : j # k => toEnclave'[j] = toEnclave[j]
    <2>1. \A j \in Contexts : j # k => Send(toEnclave, k, Message("CALL", c))[j] = toEnclave[j]
      BY <1>1, <1>2, <1>3, SendTypes
    <2> QED BY <1>7, <2>1
  <1>10. \A u \in Threads : u # t => Unmoved(u)
    BY <1>2, <1>6, <1>7, <1>8, <1>9, OthersSeeNothing
  <1>11. toEnclave'[k] = IF process = "dead" THEN <<>> ELSE <<Message("CALL", c)>>
    <2>1. Send(toEnclave, k, Message("CALL", c))[k] = IF Alive THEN Append(toEnclave[k], Message("CALL", c)) ELSE toEnclave[k]
      BY <1>1, <1>2, <1>3, SendTypes
    <2>2. Append(<<>>, Message("CALL", c)) = <<Message("CALL", c)>>
      OBVIOUS
    <2>3. Alive <=> process # "dead"
      BY <1>6 DEF Alive
    <2> QED BY <1>6, <1>7, <2>1, <2>2, <2>3
  <1>12. CallStack(t)' = Append(hostCalls[t], c) /\ Outcome(t)' = "none"
    <2>1. /\ CallStack(t)' = StackOf(Append(hostCalls[t], c), enclaveCalls[k], <<>>, process')
          /\ Outcome(t)' = OutcomeOf(toEnclave'[k], <<>>)
      BY <1>2, <1>6, <1>7, <1>8, Seen
    <2>2. CASE process = "dead"
      <3>1. Append(hostCalls[t], c) \in Seq(Calls) /\ <<>> \in Seq(Calls)
        BY <1>3, <1>5
      <3>2. /\ StackOf(Append(hostCalls[t], c), <<>>, <<>>, process') = Append(hostCalls[t], c)
            /\ OutcomeOf(<<>>, <<>>) = "none"
        BY <3>1, SeenQuiet
      <3>3. enclaveCalls[k] = <<>> /\ toEnclave'[k] = <<>>
        BY <1>6, <1>11, <2>2
      <3> QED BY <2>1, <3>2, <3>3
    <2>3. CASE process # "dead"
      <3>1. PICK q : q = <<Message("CALL", c)>>
        OBVIOUS
      <3>2. IsCall(q) /\ q[1].call = c
        BY <1>3, <3>1 DEF IsCall
      <3>3. /\ StackOf(Append(hostCalls[t], c), hostCalls[t], <<>>, process') = Append(hostCalls[t], c)
            /\ OutcomeOf(q, <<>>) = "none"
        BY <1>3, <1>5, <3>2, SeenCall
      <3> QED BY <1>6, <1>11, <2>1, <2>3, <3>1, <3>3
    <2> QED BY <2>2, <2>3
  <1> QED BY <1>3, <1>4, <1>5, <1>7, <1>10, <1>12, MapsToCall

\* What thread t sees of a call that it leaves.
LEMMA LeaveSeen ==
    ASSUME SocketInv, NEW t \in Threads, hostCalls[t] # <<>>, Top(hostCalls[t]).from = "host", LeaveCall(t),
           NEW k, k = context[t],
           UNCHANGED <<toEnclave, enclaveCalls, process>>,
           fromEnclave'[k] = <<>>, \A j \in Contexts : j # k => fromEnclave'[j] = fromEnclave[j],
           toEnclave[k] = <<>>,
           process # "dead" => enclaveCalls[k] = Popped(hostCalls[t])
    PROVE  /\ CallStack(t)' = Popped(hostCalls[t]) /\ Outcome(t)' = "none"
           /\ \A u \in Threads : u # t => Unmoved(u)
  <1>0. PICK p : p = Popped(hostCalls[t])
    OBVIOUS
  <1>1. k \in Contexts /\ k # NoContext
    BY HasContext, SocketConfigAssumption
  <1>2. /\ hostCalls'[t] = p /\ p \in Seq(Calls)
        /\ context'[t] = (IF p = <<>> THEN NoContext ELSE k)
        /\ \A u \in Threads : u # t => context'[u] = context[u] /\ hostCalls'[u] = hostCalls[u]
    BY <1>0, LeaveFacts
  <1>3. enclaveCalls[k] = p \/ enclaveCalls[k] = <<>>
    BY <1>0, <1>1 DEF SocketInv, CallsInStep
  <1>4. CallStack(t)' = p /\ Outcome(t)' = "none"
    <2>1. CASE p = <<>>
      BY <1>2, <2>1, Seen
    <2>2. CASE p # <<>>
      <3>1. /\ CallStack(t)' = StackOf(p, enclaveCalls[k], <<>>, process')
            /\ Outcome(t)' = OutcomeOf(<<>>, <<>>)
        BY <1>1, <1>2, <2>2, Seen
      <3>2. enclaveCalls[k] \in Seq(Calls)
        BY <1>1, ContextTypes DEF SocketInv
      <3> QED BY <1>2, <1>3, <3>1, <3>2, SeenQuiet
    <2> QED BY <2>1, <2>2
  <1>5. \A u \in Threads : u # t => context[u] # k
    BY <1>1, OneUser
  <1>6. \A u \in Threads : u # t => Unmoved(u)
    BY <1>1, <1>2, <1>5, OthersSeeNothing
  <1> QED BY <1>0, <1>4, <1>6

\* ReceiveMessage takes a call off the socket, which is seen by no one, or reads an outcome.
LEMMA ReceiveMaps ==
    ASSUME SocketInv, NEW t \in Threads, ReceiveMessage(t)
    PROVE  Nested!Next \/ UNCHANGED Nested!vars
  <1>0. PICK k, m : k = context[t] /\ m = Head(fromEnclave[context[t]])
    OBVIOUS
  <1>1. /\ hostCalls[t] # <<>> /\ fromEnclave[k] # <<>>
        /\ fromEnclave' = [fromEnclave EXCEPT ![k] = Tail(@)]
        /\ UNCHANGED <<toEnclave, enclaveCalls, process>>
    BY <1>0 DEF ReceiveMessage, HostWaits, Awaited, enclaveVars
  <1>2. k \in Contexts /\ k # NoContext /\ Connected(t, k)
    BY <1>0, <1>1, HasContext, SocketConfigAssumption
  <1>3. /\ hostCalls \in [Threads -> Seq(Calls)] /\ fromEnclave \in [Contexts -> Seq(Messages)]
        /\ hostCalls[t] \in Seq(Calls) /\ enclaveCalls[k] \in Seq(Calls) /\ fromEnclave[k] \in Seq(Messages)
    BY <1>2, ContextTypes DEF SocketInv, SocketTypeOK, HostTypes, SocketTypes
  <1>4. /\ toEnclave[k] = <<>> /\ Tail(fromEnclave[k]) = <<>> /\ Top(hostCalls[t]).from = "host" /\ m.call \in Calls
        /\ \/ /\ m.type = "CALL" /\ m.call.from = "enclave"
              /\ process # "dead" => enclaveCalls[k] = Append(hostCalls[t], m.call)
           \/ /\ m.type \in Answers /\ m.call = Top(hostCalls[t])
              /\ process # "dead" => enclaveCalls[k] = Popped(hostCalls[t])
    BY <1>0, <1>1, <1>2, HostReads
  <1>5. fromEnclave'[k] = <<>> /\ \A j \in Contexts : j # k => fromEnclave'[j] = fromEnclave[j]
    BY <1>1, <1>2, <1>3, <1>4
  <1>6. process = "dead" => enclaveCalls[k] = <<>>
    BY <1>2 DEF SocketInv, CallsInStep
  <1>7. /\ CallStack(t) = StackOf(hostCalls[t], enclaveCalls[k], fromEnclave[k], process)
        /\ Outcome(t) = OutcomeOf(<<>>, fromEnclave[k])
    BY <1>0, <1>2, <1>4, Seen
  <1>8. fromEnclave[k][1] = m /\ Len(fromEnclave[k]) = 1
    <2>1. Len(fromEnclave[k]) # 0 /\ Head(fromEnclave[k]) = fromEnclave[k][1]
      BY <1>1, <1>3
    <2>2. Len(Tail(fromEnclave[k])) = Len(fromEnclave[k]) - 1 /\ Len(fromEnclave[k]) \in Nat
      BY <1>1, <1>3
    <2>3. Len(Tail(fromEnclave[k])) = 0
      <3>1. PICK r : r = Tail(fromEnclave[k])
        OBVIOUS
      <3>2. r = <<>>
        BY <1>4, <3>1
      <3>3. Len(r) = 0
        BY <3>2
      <3> QED BY <3>1, <3>3
    <2> QED BY <1>0, <2>1, <2>2, <2>3
  <1>9. CASE m.type = "CALL"
    <2>1. PICK c \in Calls : c = m.call
      BY <1>4
    <2>2. IsCall(fromEnclave[k]) /\ fromEnclave[k][1].call = c /\ (process # "dead" => enclaveCalls[k] = Append(hostCalls[t], c))
      BY <1>4, <1>8, <1>9, <2>1 DEF IsCall, Answers
    <2>3. CallStack(t) = Append(hostCalls[t], c) /\ Outcome(t) = "none"
      <3>1. PICK q : q = fromEnclave[k]
        OBVIOUS
      <3>2. /\ StackOf(hostCalls[t], Append(hostCalls[t], c), q, process) = Append(hostCalls[t], c) /\ OutcomeOf(<<>>, q) = "none"
            /\ process = "dead" => StackOf(hostCalls[t], <<>>, q, process) = Append(hostCalls[t], c)
        <4>1. IsCall(q) /\ q[1].call = c /\ hostCalls[t] \in Seq(Calls)
          BY <1>3, <2>2, <3>1
        <4> QED BY <4>1, SeenCall
      <3>3. CASE process = "dead"
        BY <1>6, <1>7, <3>1, <3>2, <3>3
      <3>4. CASE process # "dead"
        BY <1>7, <2>2, <3>1, <3>2, <3>4
      <3> QED BY <3>3, <3>4
    <2>4. hostCalls' = [hostCalls EXCEPT ![t] = Append(@, c)] /\ UNCHANGED context
      BY <1>0, <1>9, <2>1 DEF ReceiveMessage
    <2>5. hostCalls'[t] = Append(hostCalls[t], c) /\ \A u \in Threads : u # t => hostCalls'[u] = hostCalls[u]
      BY <1>3, <2>4
    <2>6. CallStack(t)' = Append(hostCalls[t], c) /\ Outcome(t)' = "none"
      <3>1. /\ CallStack(t)' = StackOf(Append(hostCalls[t], c), enclaveCalls[k], <<>>, process')
            /\ Outcome(t)' = OutcomeOf(<<>>, <<>>)
        <4>1. context'[t] = k /\ k # NoContext /\ toEnclave'[k] = <<>> /\ fromEnclave'[k] = <<>> /\ enclaveCalls'[k] = enclaveCalls[k]
          BY <1>0, <1>1, <1>2, <1>4, <1>5, <2>4
        <4> QED BY <2>5, <4>1, Seen, ZenonT(40)
      <3>2. Append(hostCalls[t], c) \in Seq(Calls)
        BY <1>3
      <3>3. enclaveCalls[k] = Append(hostCalls[t], c) \/ enclaveCalls[k] = <<>>
        BY <1>6, <2>2
      <3> QED BY <1>3, <3>1, <3>2, <3>3, SeenQuiet
    <2>7. \A u \in Threads : u # t => context[u] # k
      BY <1>0, <1>2, OneUser
    <2>8. \A u \in Threads : u # t => Unmoved(u)
      BY <1>1, <1>2, <1>5, <2>4, <2>5, <2>7, OthersSeeNothing
    <2>9. Unmoved(t)
      BY <2>3, <2>6 DEF Unmoved
    <2> QED BY <1>1, <2>8, <2>9, MapsToStutter
  <1>10. CASE m.type # "CALL"
    <2>1. LeaveCall(t)
      BY <1>0, <1>10 DEF ReceiveMessage
    <2>2. CallStack(t)' = Popped(hostCalls[t]) /\ Outcome(t)' = "none" /\ \A u \in Threads : u # t => Unmoved(u)
      BY <1>0, <1>1, <1>4, <1>5, <1>10, <2>1, LeaveSeen
    <2>3. IsAnswer(fromEnclave[k]) /\ m.type # "none"
      BY <1>4, <1>8, <1>10 DEF IsAnswer, Answers
    <2>4. PICK p, c : p = Popped(hostCalls[t]) /\ c = Top(hostCalls[t])
      OBVIOUS
    <2>5. hostCalls[t] = Append(p, c) /\ p \in Seq(Calls) /\ c \in Calls
      BY <1>1, <1>3, <2>4, PoppedFacts
    <2>6. CallStack(t) = hostCalls[t] /\ Outcome(t) = m.type
      <3>1. PICK q : q = fromEnclave[k]
        OBVIOUS
      <3>2. /\ StackOf(Append(p, c), p, q, process) = Append(p, c) /\ OutcomeOf(<<>>, q) = m.type
            /\ StackOf(hostCalls[t], <<>>, q, process) = hostCalls[t]
        <4>1. IsAnswer(q) /\ q[1].type = m.type /\ hostCalls[t] \in Seq(Calls)
          BY <1>3, <1>8, <2>3, <3>1
        <4>2. StackOf(Append(p, c), p, q, process) = Append(p, c) /\ OutcomeOf(<<>>, q) = m.type
          BY <2>5, <4>1, SeenAnswer
        <4>3. StackOf(hostCalls[t], <<>>, q, process) = hostCalls[t]
          BY <2>5, <4>1, SeenAnswer
        <4> QED BY <4>2, <4>3
      <3>3. CASE process = "dead"
        BY <1>6, <1>7, <3>1, <3>2, <3>3
      <3>4. CASE process # "dead"
        <4>1. enclaveCalls[k] = p
          BY <1>4, <1>10, <2>4, <3>4
        <4> QED BY <1>7, <2>5, <3>1, <3>2, <4>1
      <3> QED BY <3>3, <3>4
    <2>7. Nested!Next
      BY <1>1, <2>2, <2>3, <2>6, MapsToReturn
    <2> QED BY <2>7
  <1> QED BY <1>9, <1>10

\* CallFails abandons the last call.
LEMMA FailsMaps ==
    ASSUME SocketInv, NEW t \in Threads, CallFails(t)
    PROVE  Nested!Next
  <1>0. PICK k : k = context[t]
    OBVIOUS
  <1>1. /\ hostCalls[t] # <<>> /\ fromEnclave[k] = <<>> /\ ~Alive /\ LeaveCall(t) /\ Top(hostCalls[t]).from = "host"
        /\ UNCHANGED <<toEnclave, fromEnclave, enclaveCalls, process>>
    BY <1>0 DEF CallFails, HostWaits, Awaited, socketVars, enclaveVars
  <1>2. k \in Contexts /\ k # NoContext
    BY <1>0, <1>1, HasContext, SocketConfigAssumption
  <1>3. process = "dead"
    BY <1>0, <1>1, <1>2, ExitedUnused
  <1>4. toEnclave[k] = <<>> /\ enclaveCalls[k] = <<>>
    BY <1>2, <1>3 DEF SocketInv, CallsInStep
  <1>5. hostCalls[t] \in Seq(Calls) /\ <<>> \in Seq(Calls)
    BY ContextTypes DEF SocketInv
  <1>6. CallStack(t) = hostCalls[t] /\ Outcome(t) = "none"
    <2>1. CallStack(t) = StackOf(hostCalls[t], <<>>, <<>>, process) /\ Outcome(t) = OutcomeOf(<<>>, <<>>)
      BY <1>0, <1>1, <1>2, <1>4, Seen
    <2> QED BY <1>5, <2>1, SeenQuiet
  <1>7. CallStack(t)' = Popped(hostCalls[t]) /\ Outcome(t)' = "none" /\ \A u \in Threads : u # t => Unmoved(u)
    BY <1>0, <1>1, <1>3, <1>4, LeaveSeen
  <1> QED BY <1>1, <1>3, <1>6, <1>7, MapsToAbandon

\* HostHandlerReturns gives the last call its outcome, or abandons it if the process is gone.
LEMMA HostReturnsMaps ==
    ASSUME SocketInv, NEW t \in Threads, NEW type \in Answers, HostHandlerReturns(t, type)
    PROVE  Nested!Next
  <1>0. PICK k, c, p, m : k = context[t] /\ c = Top(hostCalls[t]) /\ p = Popped(hostCalls[t]) /\ m = Message(type, c)
    OBVIOUS
  <1>1. /\ hostCalls[t] # <<>> /\ Awaited(hostCalls[t]) # "enclave"
        /\ toEnclave' = Send(toEnclave, k, m)
        /\ hostCalls' = [hostCalls EXCEPT ![t] = p]
        /\ UNCHANGED <<context, fromEnclave, enclaveCalls, process>>
    BY <1>0 DEF HostHandlerReturns, HostCode, Answer, enclaveVars
  <1>2. k \in Contexts /\ k # NoContext
    BY <1>0, <1>1, HasContext, SocketConfigAssumption
  <1>3. hostCalls \in [Threads -> Seq(Calls)] /\ toEnclave \in [Contexts -> Seq(Messages)]
    BY DEF SocketInv, SocketTypeOK, HostTypes, SocketTypes
  <1>4. hostCalls[t] = Append(p, c) /\ p \in Seq(Calls) /\ c \in Calls
    BY <1>0, <1>1, <1>3, PoppedFacts
  <1>5. CallStack(t) = hostCalls[t] /\ Outcome(t) = "none"
    BY <1>1, SeenByHost
  <1>6. fromEnclave[k] = <<>> /\ (process # "dead" => toEnclave[k] = <<>> /\ enclaveCalls[k] = hostCalls[t])
    BY <1>0, <1>1, HostTurn
  <1>7. process = "dead" => toEnclave[k] = <<>> /\ enclaveCalls[k] = <<>>
    BY <1>2 DEF SocketInv, CallsInStep
  <1>8. m \in Messages /\ m.type = type /\ m.call = c
    BY <1>0, <1>4, MessageTypes DEF Message
  <1>9. /\ \A j \in Contexts : j # k => toEnclave'[j] = toEnclave[j]
        /\ toEnclave'[k] = IF process = "dead" THEN <<>> ELSE <<m>>
    <2>1. /\ \A j \in Contexts : j # k => Send(toEnclave, k, m)[j] = toEnclave[j]
          /\ Send(toEnclave, k, m)[k] = IF Alive THEN Append(toEnclave[k], m) ELSE toEnclave[k]
      BY <1>2, <1>3, <1>8, SendTypes
    <2>2. Alive <=> process # "dead"
      BY <1>0, <1>2, ExitedUnused
    <2>3. Append(<<>>, m) = <<m>>
      OBVIOUS
    <2> QED BY <1>1, <1>6, <1>7, <2>1, <2>2, <2>3
  <1>10. hostCalls'[t] = p /\ \A u \in Threads : u # t => context[u] # k /\ hostCalls'[u] = hostCalls[u]
    BY <1>0, <1>1, <1>2, <1>3, OneUser
  <1>11. \A u \in Threads : u # t => Unmoved(u)
    BY <1>1, <1>2, <1>9, <1>10, OthersSeeNothing
  <1>12. /\ CallStack(t)' = StackOf(p, enclaveCalls[k], <<>>, process')
         /\ Outcome(t)' = OutcomeOf(toEnclave'[k], <<>>)
    BY <1>0, <1>1, <1>2, <1>6, <1>10, Seen
  <1>13. CASE process = "dead"
    <2>1. CallStack(t)' = StackOf(p, <<>>, <<>>, process') /\ Outcome(t)' = OutcomeOf(<<>>, <<>>)
      BY <1>7, <1>9, <1>12, <1>13
    <2>2. <<>> \in Seq(Calls)
      OBVIOUS
    <2>3. CallStack(t)' = p /\ Outcome(t)' = "none"
      BY <1>4, <2>1, <2>2, SeenQuiet
    <2> QED BY <1>0, <1>1, <1>5, <1>11, <1>13, <2>3, MapsToAbandon
  <1>14. CASE process # "dead"
    <2>1. PICK q : q = <<m>>
      OBVIOUS
    <2>2. IsAnswer(q) /\ q[1].type = type
      BY <1>8, <2>1 DEF IsAnswer
    <2>3. StackOf(p, Append(p, c), <<>>, process') = Append(p, c) /\ OutcomeOf(q, <<>>) = type
      BY <1>4, <2>2, SeenAnswer
    <2>4. CallStack(t)' = hostCalls[t] /\ Outcome(t)' = type
      BY <1>4, <1>6, <1>9, <1>12, <1>14, <2>1, <2>3
    <2> QED BY <1>1, <1>5, <1>11, <2>4, MapsToHandled
  <1> QED BY <1>13, <1>14

\* A step of worker k changes what the thread that uses k sees, and no other.
LEMMA WorkerSeen ==
    ASSUME SocketInv, NEW t \in Threads, NEW k \in Contexts, context[t] = k,
           UNCHANGED <<context, hostCalls, process>>,
           \A j \in Contexts : j # k => /\ enclaveCalls'[j] = enclaveCalls[j]
                                         /\ toEnclave'[j] = toEnclave[j] /\ fromEnclave'[j] = fromEnclave[j]
    PROVE  /\ CallStack(t) = StackOf(hostCalls[t], enclaveCalls[k], fromEnclave[k], process)
           /\ Outcome(t) = OutcomeOf(toEnclave[k], fromEnclave[k])
           /\ CallStack(t)' = StackOf(hostCalls[t], enclaveCalls'[k], fromEnclave'[k], process)
           /\ Outcome(t)' = OutcomeOf(toEnclave'[k], fromEnclave'[k])
           /\ \A u \in Threads : u # t => Unmoved(u)
  <1>1. k # NoContext
    BY SocketConfigAssumption
  <1>2. \A u \in Threads : u # t => context[u] # k
    BY <1>1, OneUser
  <1>3. \A u \in Threads : u # t => Unmoved(u)
    BY <1>2, OthersSeeNothing
  <1> QED BY <1>1, <1>3, Seen

\* WorkerReceives takes a call or the stop message off the socket, which is seen by no one, or
\* reads an outcome.
LEMMA WorkerReceivesMaps ==
    ASSUME SocketInv, NEW k \in Contexts, WorkerReceives(k)
    PROVE  Nested!Next \/ UNCHANGED Nested!vars
  <1>1. /\ toEnclave[k] # <<>>
        /\ toEnclave' = [toEnclave EXCEPT ![k] = Tail(@)]
        /\ UNCHANGED <<context, hostCalls, process, fromEnclave>>
    BY DEF WorkerReceives, hostVars
  <1>2. toEnclave \in [Contexts -> Seq(Messages)] /\ enclaveCalls \in [Contexts -> Seq(Calls)]
    BY DEF SocketInv, SocketTypeOK, SocketTypes, EnclaveTypes
  <1>3. enclaveCalls' = enclaveCalls \/ \E r : enclaveCalls' = [enclaveCalls EXCEPT ![k] = r]
    BY DEF WorkerReceives
  <1>4. \A j \in Contexts : j # k => enclaveCalls'[j] = enclaveCalls[j] /\ toEnclave'[j] = toEnclave[j]
    BY <1>1, <1>2, <1>3
  <1>5. CASE \A t \in Threads : context[t] # k
    <2>1. ASSUME NEW u \in Threads
          PROVE  Unmoved(u)
      <3>1. context[u] # NoContext => context[u] \in Contexts /\ context[u] # k
        BY <1>5, ContextTypes DEF SocketInv
      <3> QED BY <1>1, <1>4, <3>1, SeesNothing
    <2> QED BY <1>1, <2>1, MapsToStutter
  <1>6. CASE \E t \in Threads : context[t] = k
    <2>1. PICK t \in Threads : context[t] = k
      BY <1>6
    <2>2. PICK m, c : m = Head(toEnclave[k]) /\ c = Head(toEnclave[k]).call
      OBVIOUS
    <2>3. /\ process # "dead" /\ fromEnclave[k] = <<>> /\ Tail(toEnclave[k]) = <<>> /\ c \in Calls
          /\ \/ m.type = "CALL" /\ hostCalls[t] = Append(enclaveCalls[k], c)
             \/ m.type \in Answers /\ enclaveCalls[k] = Append(hostCalls[t], c)
      BY <1>1, <2>1, <2>2, WorkerTurn
    <2>4. hostCalls[t] \in Seq(Calls) /\ enclaveCalls[k] \in Seq(Calls) /\ toEnclave[k] \in Seq(Messages)
      BY ContextTypes DEF SocketInv
    <2>5. toEnclave'[k] = <<>>
      BY <1>1, <1>2, <2>3
    <2>6. /\ CallStack(t) = StackOf(hostCalls[t], enclaveCalls[k], <<>>, process)
          /\ Outcome(t) = OutcomeOf(toEnclave[k], <<>>)
          /\ CallStack(t)' = StackOf(hostCalls[t], enclaveCalls'[k], <<>>, process)
          /\ Outcome(t)' = OutcomeOf(<<>>, <<>>)
          /\ \A u \in Threads : u # t => Unmoved(u)
      BY <1>1, <1>4, <2>1, <2>3, <2>5, WorkerSeen
    <2>7. enclaveCalls'[k] = hostCalls[t]
      <3>1. CASE m.type = "CALL"
        <4>1. enclaveCalls' = [enclaveCalls EXCEPT ![k] = Append(@, c)]
          BY <2>2, <3>1 DEF WorkerReceives
        <4> QED BY <1>2, <2>3, <3>1, <4>1 DEF Answers
      <3>2. CASE m.type # "CALL"
        <4>1. enclaveCalls[k] # <<>> /\ Popped(enclaveCalls[k]) = hostCalls[t]
          <5>1. enclaveCalls[k] = Append(hostCalls[t], c) /\ c \in Calls
            BY <2>3, <3>2
          <5> QED BY <2>4, <5>1, AppendFacts
        <4>2. enclaveCalls' = [enclaveCalls EXCEPT ![k] = Popped(@)]
          BY <2>2, <3>2, <4>1 DEF WorkerReceives
        <4> QED BY <1>2, <4>1, <4>2
      <3> QED BY <3>1, <3>2
    <2>8. CallStack(t)' = hostCalls[t] /\ Outcome(t)' = "none"
      BY <2>4, <2>6, <2>7, SeenQuiet
    <2>9. toEnclave[k][1] = m /\ Len(toEnclave[k]) = 1
      <3>1. Len(toEnclave[k]) # 0 /\ Head(toEnclave[k]) = toEnclave[k][1]
        BY <1>1, <2>4
      <3>2. Len(Tail(toEnclave[k])) = Len(toEnclave[k]) - 1 /\ Len(toEnclave[k]) \in Nat
        BY <1>1, <2>4
      <3>3. PICK r : r = Tail(toEnclave[k])
        OBVIOUS
      <3>4. r = <<>>
        BY <2>3, <3>3
      <3>5. Len(r) = 0
        BY <3>4
      <3> QED BY <2>2, <3>1, <3>2, <3>3, <3>5
    <2>10. PICK q : q = toEnclave[k]
      OBVIOUS
    <2>11. CASE m.type = "CALL"
      <3>1. IsCall(q) /\ q[1].call = c
        BY <2>2, <2>9, <2>10, <2>11 DEF IsCall
      <3>2. hostCalls[t] = Append(enclaveCalls[k], c)
        BY <2>3, <2>11 DEF Answers
      <3>3. /\ StackOf(Append(enclaveCalls[k], c), enclaveCalls[k], <<>>, process) = Append(enclaveCalls[k], c)
            /\ OutcomeOf(q, <<>>) = "none"
        BY <2>3, <2>4, <3>1, SeenCall
      <3>4. CallStack(t) = hostCalls[t] /\ Outcome(t) = "none"
        BY <2>6, <2>10, <3>2, <3>3
      <3>5. Unmoved(t)
        BY <2>8, <3>4 DEF Unmoved
      <3> QED BY <1>1, <2>6, <3>5, MapsToStutter
    <2>12. CASE m.type # "CALL"
      <3>1. IsAnswer(q) /\ q[1].type = m.type /\ m.type # "none" /\ enclaveCalls[k] = Append(hostCalls[t], c)
        BY <2>3, <2>9, <2>10, <2>12 DEF IsAnswer, Answers
      <3>2. /\ StackOf(hostCalls[t], Append(hostCalls[t], c), <<>>, process) = Append(hostCalls[t], c)
            /\ OutcomeOf(q, <<>>) = q[1].type
        BY <2>3, <2>4, <3>1, SeenAnswer
      <3>3. CallStack(t) = Append(hostCalls[t], c) /\ Outcome(t) = m.type
        BY <2>6, <2>10, <3>1, <3>2
      <3>4. Popped(Append(hostCalls[t], c)) = hostCalls[t]
        BY <2>3, <2>4, AppendFacts
      <3>5. Nested!Next
        BY <1>1, <2>6, <2>8, <3>1, <3>3, <3>4, MapsToReturn
      <3> QED BY <3>5
    <2> QED BY <2>11, <2>12
  <1> QED BY <1>5, <1>6

\* CallHost is a call of the enclave.
LEMMA CallHostMaps ==
    ASSUME SocketInv, NEW k \in Contexts, CallHost(k)
    PROVE  Nested!Next
  <1>0. PICK c, m : c = [from |-> "enclave", by |-> k, n |-> fuel[k]] /\ m = Message("CALL", c)
    OBVIOUS
  <1>1. /\ EnclaveCode(k)
        /\ enclaveCalls' = [enclaveCalls EXCEPT ![k] = Append(@, c)]
        /\ fromEnclave' = [fromEnclave EXCEPT ![k] = Append(@, m)]
        /\ UNCHANGED <<context, hostCalls, process, toEnclave>>
    BY <1>0 DEF CallHost, hostVars
  <1>2. fromEnclave \in [Contexts -> Seq(Messages)] /\ enclaveCalls \in [Contexts -> Seq(Calls)]
    BY DEF SocketInv, SocketTypeOK, SocketTypes, EnclaveTypes
  <1>3. c \in Calls /\ c.from = "enclave" /\ m.type = "CALL" /\ m.call = c
    BY <1>0, NewCallTypes DEF SocketInv, Message
  <1>4. /\ process # "dead" /\ enclaveCalls[k] \in Seq(Calls) /\ toEnclave[k] = <<>> /\ fromEnclave[k] = <<>>
        /\ Awaited(enclaveCalls[k]) = "enclave"
    BY <1>1, EnclaveTurn DEF EnclaveCode
  <1>5. PICK t \in Threads : context[t] = k /\ hostCalls[t] = enclaveCalls[k]
    BY <1>1, EnclaveTurn
  <1>6. fromEnclave'[k] = <<m>> /\ enclaveCalls'[k] = Append(hostCalls[t], c)
    <2>1. fromEnclave'[k] = Append(<<>>, m) /\ enclaveCalls'[k] = Append(hostCalls[t], c)
      BY <1>1, <1>2, <1>4, <1>5
    <2> QED BY <2>1
  <1>7. \A j \in Contexts : j # k => /\ enclaveCalls'[j] = enclaveCalls[j]
                                      /\ toEnclave'[j] = toEnclave[j] /\ fromEnclave'[j] = fromEnclave[j]
    BY <1>1, <1>2
  <1>8. PICK q : q = <<m>>
    OBVIOUS
  <1>9. /\ CallStack(t) = StackOf(hostCalls[t], hostCalls[t], <<>>, process)
        /\ Outcome(t) = OutcomeOf(<<>>, <<>>)
        /\ CallStack(t)' = StackOf(hostCalls[t], Append(hostCalls[t], c), q, process)
        /\ Outcome(t)' = OutcomeOf(<<>>, q)
        /\ \A u \in Threads : u # t => Unmoved(u)
    <2>1. toEnclave'[k] = <<>>
      BY <1>1, <1>4
    <2> QED BY <1>1, <1>4, <1>5, <1>6, <1>7, <1>8, <2>1, WorkerSeen
  <1>10. CallStack(t) = hostCalls[t] /\ Outcome(t) = "none"
    BY <1>4, <1>5, <1>9, SeenQuiet
  <1>11. IsCall(q) /\ q[1].call = c
    BY <1>3, <1>8 DEF IsCall
  <1>12. CallStack(t)' = Append(hostCalls[t], c) /\ Outcome(t)' = "none"
    BY <1>3, <1>4, <1>5, <1>9, <1>11, SeenCall
  <1> QED BY <1>1, <1>3, <1>4, <1>5, <1>9, <1>10, <1>12, MapsToCall

\* EnclaveHandlerReturns gives the last call its outcome.
LEMMA EnclaveReturnsMaps ==
    ASSUME SocketInv, NEW k \in Contexts, NEW type \in Answers, EnclaveHandlerReturns(k, type)
    PROVE  Nested!Next
  <1>0. PICK c, p, m : c = Top(enclaveCalls[k]) /\ p = Popped(enclaveCalls[k]) /\ m = Message(type, c)
    OBVIOUS
  <1>1. /\ EnclaveCode(k)
        /\ fromEnclave' = Send(fromEnclave, k, m)
        /\ enclaveCalls' = [enclaveCalls EXCEPT ![k] = p]
        /\ UNCHANGED <<context, hostCalls, process, toEnclave>>
    BY <1>0 DEF EnclaveHandlerReturns, Answer, hostVars
  <1>2. fromEnclave \in [Contexts -> Seq(Messages)] /\ enclaveCalls \in [Contexts -> Seq(Calls)]
    BY DEF SocketInv, SocketTypeOK, SocketTypes, EnclaveTypes
  <1>3. /\ process # "dead" /\ Alive /\ enclaveCalls[k] # <<>> /\ enclaveCalls[k] \in Seq(Calls)
        /\ toEnclave[k] = <<>> /\ fromEnclave[k] = <<>>
    BY <1>0, <1>1, EnclaveTurn
  <1>4. enclaveCalls[k] = Append(p, c) /\ p \in Seq(Calls) /\ c \in Calls
    BY <1>0, <1>3, PoppedFacts
  <1>5. PICK t \in Threads : context[t] = k /\ hostCalls[t] = enclaveCalls[k]
    BY <1>1, EnclaveTurn
  <1>6. m \in Messages /\ m.type = type
    BY <1>0, <1>4, MessageTypes DEF Message
  <1>7. /\ Send(fromEnclave, k, m)[k] = Append(fromEnclave[k], m)
        /\ \A j \in Contexts : j # k => Send(fromEnclave, k, m)[j] = fromEnclave[j]
    BY <1>2, <1>3, <1>6, SendTypes
  <1>8. PICK q : q = <<m>>
    OBVIOUS
  <1>9. fromEnclave'[k] = q /\ enclaveCalls'[k] = p
    <2>1. fromEnclave'[k] = Append(<<>>, m)
      BY <1>1, <1>3, <1>7
    <2>2. enclaveCalls'[k] = p
      BY <1>1, <1>2
    <2> QED BY <1>8, <2>1, <2>2
  <1>10. \A j \in Contexts : j # k => /\ enclaveCalls'[j] = enclaveCalls[j]
                                       /\ toEnclave'[j] = toEnclave[j] /\ fromEnclave'[j] = fromEnclave[j]
    BY <1>1, <1>2, <1>7
  <1>11. /\ CallStack(t) = StackOf(hostCalls[t], hostCalls[t], <<>>, process)
         /\ Outcome(t) = OutcomeOf(<<>>, <<>>)
         /\ CallStack(t)' = StackOf(Append(p, c), p, q, process)
         /\ Outcome(t)' = OutcomeOf(<<>>, q)
         /\ \A u \in Threads : u # t => Unmoved(u)
    <2>1. toEnclave'[k] = <<>> /\ hostCalls[t] = Append(p, c)
      BY <1>1, <1>3, <1>4, <1>5
    <2>2. /\ CallStack(t) = StackOf(hostCalls[t], enclaveCalls[k], fromEnclave[k], process)
          /\ Outcome(t) = OutcomeOf(toEnclave[k], fromEnclave[k])
          /\ CallStack(t)' = StackOf(hostCalls[t], enclaveCalls'[k], fromEnclave'[k], process)
          /\ Outcome(t)' = OutcomeOf(toEnclave'[k], fromEnclave'[k])
          /\ \A u \in Threads : u # t => Unmoved(u)
      BY <1>1, <1>5, <1>10, WorkerSeen
    <2> QED BY <1>3, <1>5, <1>9, <2>1, <2>2
  <1>12. CallStack(t) = hostCalls[t] /\ Outcome(t) = "none"
    BY <1>3, <1>5, <1>11, SeenQuiet
  <1>13. IsAnswer(q) /\ q[1].type = type
    BY <1>6, <1>8 DEF IsAnswer
  <1>14. CallStack(t)' = hostCalls[t] /\ Outcome(t)' = type
    BY <1>4, <1>5, <1>11, <1>13, SeenAnswer
  <1> QED BY <1>1, <1>3, <1>5, <1>11, <1>12, <1>14, MapsToHandled

\* CloseContext touches only contexts that no thread uses.
LEMMA CloseMaps ==
    ASSUME SocketInv, NEW t \in Threads, CloseContext(t)
    PROVE  UNCHANGED Nested!vars
  <1>0. PICK k : k = Head(pool)
    OBVIOUS
  <1>1. pool # <<>> /\ UNCHANGED <<context, hostCalls, fromEnclave, enclaveCalls, process>>
    BY DEF CloseContext, enclaveVars
  <1>2. pool \in Seq(Contexts) /\ toEnclave \in [Contexts -> Seq(Messages)]
    BY DEF SocketInv, SocketTypeOK, HostTypes, SocketTypes
  <1>3. k \in Contexts /\ \A u \in Threads : context[u] # k
    <2>1. k = pool[1] /\ 1 \in DOMAIN pool /\ k \in Contexts
      BY <1>0, <1>1, <1>2, TailFacts
    <2> QED BY <2>1 DEF SocketInv, Places
  <1>4. Stop \in Messages
    BY DEF Stop, Messages, Message
  <1>5. \A j \in Contexts : j # k => Send(toEnclave, k, Stop)[j] = toEnclave[j]
    BY <1>2, <1>3, <1>4, SendTypes
  <1>6. \A j \in Contexts : j # k => toEnclave'[j] = toEnclave[j]
    <2>1. toEnclave' = toEnclave \/ toEnclave' = Send(toEnclave, k, Stop)
      BY <1>0 DEF CloseContext
    <2> QED BY <1>5, <2>1
  <1>7. ASSUME NEW u \in Threads
        PROVE  Unmoved(u)
    <2>1. context[u] # NoContext => context[u] \in Contexts /\ context[u] # k
      BY <1>3, ContextTypes DEF SocketInv
    <2> QED BY <1>1, <1>6, <2>1, SeesNothing
  <1> QED BY <1>1, <1>7, MapsToStutter

\* What a thread sees of the process's death: a call that the enclave had made may be gone, and
\* an outcome that was on its way.
LEMMA DeathSeen ==
    ASSUME SocketInv, NEW lost \in SUBSET Contexts, Die(lost), NEW t \in Threads
    PROVE  \/ CallStack(t)' = CallStack(t) /\ Outcome(t)' = Outcome(t)
           \/ /\ CallStack(t) # <<>> /\ Top(CallStack(t)).from = "enclave"
              /\ CallStack(t)' = Popped(CallStack(t)) /\ Outcome(t)' = "none"
           \/ /\ CallStack(t) # <<>> /\ Top(CallStack(t)).from = "host"
              /\ CallStack(t)' = CallStack(t) /\ Outcome(t)' = "none"
  <1>0. PICK k, h, e, in, out : /\ k = context[t] /\ h = hostCalls[t] /\ e = enclaveCalls[context[t]]
                                /\ in = fromEnclave[context[t]] /\ out = toEnclave[context[t]]
    OBVIOUS
  <1>1. /\ process' = "dead" /\ process # "dead"
        /\ \A j \in Contexts : toEnclave'[j] = <<>> /\ enclaveCalls'[j] = <<>> /\ fromEnclave'[j] \in {<<>>, fromEnclave[j]}
        /\ UNCHANGED <<context, hostCalls>>
    BY SocketConfigAssumption DEF Die, hostVars
  <1>2. CASE k = NoContext
    BY <1>0, <1>1, <1>2, Seen
  <1>3. CASE k # NoContext
    <2>1. k \in Contexts /\ Linked(h, e, out, in) /\ h # <<>>
      BY <1>0, <1>1, <1>3, ContextTypes DEF SocketInv, CallsInStep, ThreadCalls, Connected
    <2>2. h \in Seq(Calls) /\ e \in Seq(Calls) /\ in \in Seq(Messages) /\ out \in Seq(Messages) /\ <<>> \in Seq(Calls)
      BY <1>0, <2>1, ContextTypes DEF SocketInv
    <2>3. PICK r : r = fromEnclave'[k]
      OBVIOUS
    <2>4. r = <<>> \/ r = in
      BY <1>0, <1>1, <2>1, <2>3
    <2>5. /\ CallStack(t) = StackOf(h, e, in, process) /\ Outcome(t) = OutcomeOf(out, in)
          /\ CallStack(t)' = StackOf(h, <<>>, r, process') /\ Outcome(t)' = OutcomeOf(<<>>, r)
      BY <1>0, <1>1, <1>3, <2>1, <2>3, Seen
    <2>6. StackOf(h, <<>>, <<>>, process') = h /\ OutcomeOf(<<>>, <<>>) = "none"
      BY <2>2, SeenQuiet
    <2>7. CASE in = <<>> /\ out = <<>> /\ h = e
      <3>1. StackOf(h, e, <<>>, process) = h
        BY <2>2, <2>7, SeenQuiet
      <3> QED BY <2>4, <2>5, <2>6, <2>7, <3>1
    <2>8. CASE IsCall(out) /\ in = <<>> /\ h = Append(e, out[1].call)
      <3>1. out[1].call \in Calls
        BY <2>2, <2>8, OneMessage
      <3>2. StackOf(h, e, <<>>, process) = h /\ OutcomeOf(out, <<>>) = "none"
        BY <2>2, <2>8, <3>1, SeenCall
      <3> QED BY <2>4, <2>5, <2>6, <2>8, <3>2
    <2>9. CASE IsAnswer(out) /\ in = <<>> /\ out[1].call.from = "enclave" /\ e = Append(h, out[1].call)
      <3>1. out[1].call \in Calls
        BY <2>2, <2>9, OneMessage
      <3>2. StackOf(h, e, <<>>, process) = e
        BY <2>2, <2>9, <3>1, SeenAnswer, ZenonT(40)
      <3>3. e # <<>> /\ Top(e) = out[1].call /\ Popped(e) = h
        BY <2>2, <2>9, <3>1, AppendFacts
      <3> QED BY <2>4, <2>5, <2>6, <2>9, <3>2, <3>3
    <2>10. CASE IsCall(in) /\ out = <<>> /\ in[1].call.from = "enclave" /\ e = Append(h, in[1].call)
      <3>1. in[1].call \in Calls
        BY <2>2, <2>10, OneMessage
      <3>2. StackOf(h, e, in, process) = e /\ OutcomeOf(<<>>, in) = "none"
        BY <2>2, <2>10, <3>1, SeenCall, SMTT(30)
      <3>3. StackOf(h, <<>>, in, process') = e
        BY <1>1, <2>10 DEF StackOf
      <3>4. e # <<>> /\ Top(e) = in[1].call /\ Popped(e) = h
        BY <2>2, <2>10, <3>1, AppendFacts
      <3> QED BY <2>4, <2>5, <2>6, <2>10, <3>2, <3>3, <3>4
    <2>11. CASE IsAnswer(in) /\ out = <<>> /\ in[1].call.from = "host" /\ h = Append(e, in[1].call)
      <3>1. in[1].call \in Calls
        BY <2>2, <2>11, OneMessage
      <3>2. StackOf(h, e, in, process) = h
        <4>1. PICK c \in Calls : c = in[1].call
          BY <3>1
        <4>2. StackOf(Append(e, c), e, in, process) = Append(e, c)
          <5>1. e \in Seq(Calls) /\ IsAnswer(in)
            BY <2>2, <2>11
          <5> QED BY <5>1, SeenAnswer
        <4> QED BY <2>11, <4>1, <4>2
      <3>3. StackOf(h, <<>>, in, process') = h
        <4>1. ~IsCall(in) /\ Len(h) >= Len(<<>>)
          BY <2>2, <2>11, MessageKinds
        <4> QED BY <4>1 DEF StackOf
      <3>4. h # <<>> /\ Top(h) = in[1].call
        BY <2>2, <2>11, <3>1, AppendFacts
      <3> QED BY <2>4, <2>5, <2>6, <2>11, <3>2, <3>3, <3>4
    <2> QED BY <2>1, <2>7, <2>8, <2>9, <2>10, <2>11 DEF Linked
  <1> QED BY <1>2, <1>3

\* Die is the crash of NestedCalls.
LEMMA DieMaps ==
    ASSUME SocketInv, NEW lost \in SUBSET Contexts, Die(lost)
    PROVE  Nested!Next
  <1> DEFINE gone == {t \in Threads : ~Unmoved(t)}
  <1>1. process' = "dead" /\ process # "dead"
    BY SocketConfigAssumption DEF Die
  <1>2. ASSUME NEW t \in Threads
        PROVE  /\ CallStack(t)' = IF t \in gone /\ CallStack(t) # <<>> /\ Top(CallStack(t)).from = "enclave"
                                  THEN Popped(CallStack(t)) ELSE CallStack(t)
               /\ Outcome(t)' = IF t \in gone THEN "none" ELSE Outcome(t)
    <2>1. CASE Unmoved(t)
      BY <1>2, <2>1 DEF Unmoved
    <2>2. CASE ~Unmoved(t)
      BY <1>2, <2>2, DeathSeen DEF Unmoved
    <2> QED BY <2>1, <2>2
  <1>3. PICK g : g = gone
    OBVIOUS
  <1>4. g \in SUBSET Threads
    BY <1>3
  <1>5. \A t \in Threads :
               /\ CallStack(t)' = IF t \in g /\ CallStack(t) # <<>> /\ Top(CallStack(t)).from = "enclave"
                                  THEN Popped(CallStack(t)) ELSE CallStack(t)
               /\ Outcome(t)' = IF t \in g THEN "none" ELSE Outcome(t)
    BY <1>2, <1>3
  <1> HIDE DEF gone
  <1>6. Nested!Crash(g)
    BY <1>1, <1>4, <1>5 DEF Nested!Crash, Nested!Last, Nested!Front, Top, Popped
  <1> QED BY <1>4, <1>6 DEF Nested!Next

\* The other steps are seen by no one.
LEMMA RestMaps ==
    ASSUME SocketInv, UNCHANGED <<context, hostCalls, enclaveCalls, toEnclave, fromEnclave>>,
           process' = "dead" <=> process = "dead"
    PROVE  UNCHANGED Nested!vars
  <1>1. \A u \in Threads : Unmoved(u)
    BY SeesNothing
  <1> QED BY <1>1, MapsToStutter

\* Every step is one of NestedCalls, or none.
LEMMA StepMaps ==
    ASSUME SocketInv, [Next]_vars
    PROVE  [Nested!Next]_(Nested!vars)
  <1>1. ASSUME NEW t \in Threads, \/ Initialise(t) \/ Close(t) \/ AcceptInitial(t) \/ PollFails(t) \/ StartFails(t)
                                   \/ AcceptContext(t) \/ ExecuteOutgoingCall(t) \/ CheckRunning(t)
        PROVE  UNCHANGED Nested!vars
    <2>1. UNCHANGED <<context, hostCalls, enclaveCalls, toEnclave, fromEnclave>>
      BY <1>1 DEF Initialise, Close, AcceptInitial, PollFails, StartFails, AcceptContext, ExecuteOutgoingCall,
                  CheckRunning, socketVars, enclaveVars
    <2>2. process' = "dead" <=> process = "dead"
      <3>1. CASE Initialise(t)
        BY <3>1 DEF Initialise, SocketInv, HelloFirst
      <3>2. CASE ~Initialise(t)
        BY <1>1, <3>2 DEF Close, AcceptInitial, PollFails, StartFails, AcceptContext, ExecuteOutgoingCall,
                          CheckRunning, enclaveVars
      <3> QED BY <3>1, <3>2
    <2> QED BY <2>1, <2>2, RestMaps
  <1>2. ASSUME MainStep \/ Idle \/ UNCHANGED vars
        PROVE  UNCHANGED Nested!vars
    <2>1. UNCHANGED <<context, hostCalls, enclaveCalls, toEnclave, fromEnclave>>
      BY <1>2 DEF MainStep, SendMaximum, Connect, Exit, Idle, vars, hostVars, socketVars, enclaveVars
    <2>2. process' = "dead" <=> process = "dead"
      BY <1>2 DEF MainStep, SendMaximum, Connect, Exit, Idle, vars, enclaveVars
    <2> QED BY <2>1, <2>2, RestMaps
  <1>3. ASSUME NEW t \in Threads, ThreadStep(t)
        PROVE  [Nested!Next]_(Nested!vars)
    BY <1>1, <1>3, InitiateMaps, ReceiveMaps, FailsMaps, HostReturnsMaps, CloseMaps DEF ThreadStep
  <1>4. ASSUME NEW k \in Contexts, WorkerStep(k)
        PROVE  [Nested!Next]_(Nested!vars)
    BY <1>4, WorkerReceivesMaps, CallHostMaps, EnclaveReturnsMaps DEF WorkerStep
  <1> QED BY <1>1, <1>2, <1>3, <1>4, DieMaps DEF Next

\* The sockets, the pool and the workers implement nested calls: to a host thread and the code
\* of the enclave it makes no difference that the calls of SocketHostEnclaveInterface travel as
\* messages to another process, rather than with the thread itself.
THEOREM SocketsImplementNestedCalls == Spec => ImplementsNestedCalls
  <1>1. Init => Nested!Init
    <2> SUFFICES ASSUME Init
                 PROVE  Nested!Init
      OBVIOUS
    <2>1. \A t \in Threads : CallStack(t) = <<>> /\ Outcome(t) = "none"
      BY DEF Init, CallStack, Outcome
    <2> QED BY <2>1 DEF Init, Nested!Init
  <1>2. SocketInv /\ [Next]_vars => [Nested!Next]_(Nested!vars)
    BY StepMaps
  <1> QED BY <1>1, <1>2, SocketInvariant, PTL DEF Spec, ImplementsNestedCalls, Nested!Spec
=============================================================================

-------------------------- MODULE CallStatesProofs --------------------------
(***************************************************************************)
(* Theorems about the call states, the shutdown and the mail of            *)
(* EnclaveCalls, for any set of threads and any nesting of calls.          *)
(***************************************************************************)
EXTENDS EnclaveCallsProofs

(***************************************************************************)
(* What a thread's stack says of its call states.  The state of the host   *)
(* after the first n activations of s is the one that the last call into   *)
(* the enclave among them has set, and Ready if there is none; the state   *)
(* of the enclave is the one of the last callUntrustedHost, and            *)
(* TopLevelReceive if there is none.                                       *)
(***************************************************************************)
HostStateAt(s, n, h) ==
    \/ h = Ready /\ \A j \in 1..n : s[j].kind \notin IntoKinds
    \/ /\ h.type = "IntoEnclave" /\ h.id \in 1..n /\ s[h.id].kind \in IntoKinds
       /\ \A j \in (h.id + 1)..n : s[j].kind \notin IntoKinds

EnclaveStateAt(s, n, e) ==
    \/ e = TopLevelReceive /\ \A j \in 1..n : s[j].kind # "callOut"
    \/ /\ e.type = "Receive" /\ e.id \in 1..n /\ s[e.id].kind = "callOut"
       /\ \A j \in (e.id + 1)..n : s[j].kind # "callOut"

\* One of the first n activations of s is a receive whose method is running.
ReceiveBelow(s, n) == \E j \in 1..n : s[j].kind = "receive" /\ s[j].pc = "user"

\* Activation i of stack s stands where its kind belongs, and remembers the call state
\* that was current when it was pushed.
FrameInPlace(s, i) ==
    /\ s[i].kind \in IntoKinds => HostStateAt(s, i - 1, s[i].prev)
    /\ s[i].kind = "callOut" =>
          s[i].pc = "called" /\ EnclaveStateAt(s, i - 1, s[i].prev) /\ ReceiveBelow(s, i - 1)
    /\ s[i].kind = "enclaveCallback" =>
          /\ i > 1 /\ s[i - 1].kind = "callEnclave" /\ s[i - 1].pc = "called"
          /\ ReceiveBelow(s, i - 1)
    /\ s[i].kind = "receive" => i > 1 /\ s[i - 1].kind \in IntoKinds /\ s[i - 1].pc = "called"
    /\ s[i].kind = "hostCallback" => i > 1 /\ s[i - 1].kind = "callOut"

WellNested(s) == \A i \in 1..Len(s) : FrameInPlace(s, i)

\* The call state of either side is the one the stack calls for, or a Response for the
\* topmost call.
HostSide(s, h) ==
    IF h.type = "Response"
    THEN s # <<>> /\ s[Len(s)].kind = "callEnclave" /\ s[Len(s)].pc = "called"
    ELSE HostStateAt(s, Len(s), h)

EnclaveSide(s, e) ==
    IF e.type = "Response"
    THEN s # <<>> /\ s[Len(s)].kind = "callOut" /\ s[Len(s)].pc = "called"
    ELSE EnclaveStateAt(s, Len(s), e)

\* The inductive invariant of the call states.
CallStatesInv ==
    \A t \in Threads :
        /\ WellNested(stack[t])
        /\ HostSide(stack[t], hostCall[t])
        /\ EnclaveSide(stack[t], enclaveCall[t])
        /\ throwing[t] => hostCall[t].type # "Response" /\ enclaveCall[t].type # "Response"

(***************************************************************************)
(* What the shutdown and the mail need to know of a stack: which of its    *)
(* activations are receives in progress, which of these run their method,  *)
(* on whose behalf the activations above act, and how far a close is.      *)
(***************************************************************************)
InReceive(f)   == f.kind = "receive" /\ f.pc \in {"user", "exit"}
UserReceive(f) == f.kind = "receive" /\ f.pc = "user"
StopPassed(f)  == f.kind = "close" /\ f.pc \in {"await", "shutdown", "destroy"}
ShutPassed(f)  == f.kind = "close" /\ f.pc \in {"shutdown", "destroy"}

Receives(s)     == {i \in 1..Len(s) : InReceive(s[i])}
UserReceives(s) == {i \in 1..Len(s) : UserReceive(s[i])}
CloseFree(s)    == \A i \in 1..Len(s) : s[i].kind # "close"
CloseAlone(s)   == CloseFree(s) \/ Len(s) = 1
OwnedBy(s, c)   == \A i \in UserReceives(s) : \A j \in i..Len(s) : s[j].id = c

\* The receives in progress, of all threads.
AllReceives == {p \in Threads \X Nat : p[2] \in Receives(stack[p[1]])}

(***************************************************************************)
(* The shutdown: close is called outside of every other call, the enclave  *)
(* is Closed once the stop handler ran, a thread-safe enclave counts       *)
(* exactly the receives in progress, and none is left when onShutdown runs.*)
(***************************************************************************)
ClosedOnceStopped ==
    (destroyed \/ \E t \in Threads : \E i \in 1..Len(stack[t]) : StopPassed(stack[t][i]))
        => enclaveState = "Closed"

ReceivesCounted ==
    ThreadSafe => IsFiniteSet(AllReceives) /\ executing = Cardinality(AllReceives)

QuietOnceShut ==
    (destroyed \/ \E t \in Threads : \E i \in 1..Len(stack[t]) : ShutPassed(stack[t][i]))
        => AllReceives = {}

ShutdownInv ==
    /\ \A t \in Threads : CloseAlone(stack[t])
    /\ ClosedOnceStopped /\ ReceivesCounted /\ QuietOnceShut

(***************************************************************************)
(* Mail and sealed states.  With the persistent map one receive at a time  *)
(* runs its method; it owns the context, and the activations above it act  *)
(* on its behalf.                                                          *)
(***************************************************************************)
ContextNumbered ==
    /\ context.id < nextId
    /\ context.id = 0 => context = NoContext
    /\ ~PersistentMap => context = NoContext

\* At most one receive runs its method, and it owns the context.
ContextOwned ==
    PersistentMap => \A t \in Threads :
        /\ OwnedBy(stack[t], context.id)
        /\ \A i \in UserReceives(stack[t]) :
              /\ context # NoContext
              /\ \A u \in Threads : \A j \in UserReceives(stack[u]) : t = u /\ i = j

\* A command that waits in the list of a thread whose running receives are R was posted by a
\* receive that failed (F) or by the one that owns the context (c).
Waits(cmd, F, c, R) ==
    /\ cmd.type = "PostMail"
    /\ PersistentMap => cmd.id \in F \/ (cmd.id = c /\ R # {})

CommandsWait ==
    \A t \in Threads : \A n \in 1..Len(mailCommands[t]) :
        Waits(mailCommands[t][n], failed, context.id, UserReceives(stack[t]))

\* The number of the next sealed state is at least this one.
NextSealed == IF context = NoContext THEN nextId ELSE context.id

\* A sealed state ends its batch b, and is older than n.
SealedAtEnd(b, n) ==
    \A p \in 1..Len(b) : b[p].type = "StoreSealedState" => p = Len(b) /\ b[p].id < n

\* The commands of b are those of receives that failed or whose sealed state is in b.
Travels(b, F) ==
    \A j \in 1..Len(b) :
        b[j].id \in F \/ \E k \in 1..Len(b) : b[k] = [type |-> "StoreSealedState", id |-> b[j].id]

BatchesInv ==
    /\ \A i \in 1..Len(batches) : SealedAtEnd(batches[i], NextSealed)
    /\ PersistentMap => \A i \in 1..Len(batches) : Travels(batches[i], failed)
    /\ SealedStatesInOrder

MailInv == ContextNumbered /\ ContextOwned /\ CommandsWait /\ BatchesInv

-----------------------------------------------------------------------------
(***************************************************************************)
(* Lemmas about stacks.  FrameInPlace looks only at the activations up to  *)
(* its position, so a push or a pop leaves it alone below.                 *)
(***************************************************************************)
\* A nonempty stack is what is below its top, and the top.
LEMMA StackSplit ==
    ASSUME NEW s \in Seq(Frames), s # <<>>
    PROVE  LET p == SubSeq(s, 1, Len(s) - 1)
           IN  /\ p \in Seq(Frames) /\ s[Len(s)] \in Frames
               /\ s = Append(p, s[Len(s)])
               /\ Len(p) = Len(s) - 1 /\ Len(s) > 0
               /\ \A i \in 1..Len(p) : p[i] = s[i]
  <1> DEFINE p == SubSeq(s, 1, Len(s) - 1)
  <1>1. p \in Seq(Frames) /\ s[Len(s)] \in Frames
    BY StackTypes
  <1>2. s = Append(p, s[Len(s)])
    OBVIOUS
  <1>3. Len(s) > 0 /\ Len(p) = Len(s) - 1
    <2>1. Len(s) = Len(p) + 1 /\ Len(p) \in Nat
      BY <1>1, <1>2
    <2> QED BY <2>1
  <1>4. \A i \in 1..Len(p) : p[i] = s[i]
    OBVIOUS
  <1> QED BY <1>1, <1>2, <1>3, <1>4

\* What a push leaves alone.
LEMMA AppendFacts ==
    ASSUME NEW s \in Seq(Frames), NEW f \in Frames
    PROVE  /\ Append(s, f) \in Seq(Frames)
           /\ Append(s, f) # <<>>
           /\ Len(Append(s, f)) = Len(s) + 1
           /\ \A i \in 1..Len(s) : Append(s, f)[i] = s[i]
           /\ Append(s, f)[Len(s) + 1] = f
           /\ Len(s) \in Nat
           /\ \A i \in 1..Len(s) : s[i] \in Frames
  OBVIOUS

\* The call states that two stacks call for at a position agree if the stacks do up to it.
LEMMA StatesBelow ==
    ASSUME NEW s, NEW r, NEW n \in Nat, \A i \in 1..n : r[i].kind = s[i].kind /\ r[i].pc = s[i].pc
    PROVE  /\ \A h : HostStateAt(r, n, h) <=> HostStateAt(s, n, h)
           /\ \A e : EnclaveStateAt(r, n, e) <=> EnclaveStateAt(s, n, e)
           /\ ReceiveBelow(r, n) <=> ReceiveBelow(s, n)
  <1>1. ASSUME NEW h
        PROVE  HostStateAt(r, n, h) <=> HostStateAt(s, n, h)
    <2>1. CASE h.id \in 1..n
      <3>1. \A j \in (h.id + 1)..n : j \in 1..n
        BY <2>1
      <3> QED BY <2>1, <3>1 DEF HostStateAt
    <2>2. CASE h.id \notin 1..n
      BY <2>2 DEF HostStateAt
    <2> QED BY <2>1, <2>2
  <1>2. ASSUME NEW e
        PROVE  EnclaveStateAt(r, n, e) <=> EnclaveStateAt(s, n, e)
    <2>1. CASE e.id \in 1..n
      <3>1. \A j \in (e.id + 1)..n : j \in 1..n
        BY <2>1
      <3> QED BY <2>1, <3>1 DEF EnclaveStateAt
    <2>2. CASE e.id \notin 1..n
      BY <2>2 DEF EnclaveStateAt
    <2> QED BY <2>1, <2>2
  <1>3. ReceiveBelow(r, n) <=> ReceiveBelow(s, n)
    BY DEF ReceiveBelow
  <1> QED BY <1>1, <1>2, <1>3

\* One activation more: a call sets a new state, any other activation leaves it.
LEMMA StatesAbove ==
    ASSUME NEW s, NEW n \in Nat
    PROVE  /\ s[n + 1].kind \notin IntoKinds =>
                 \A h : HostStateAt(s, n + 1, h) <=> HostStateAt(s, n, h)
           /\ s[n + 1].kind \in IntoKinds =>
                 \A h : HostStateAt(s, n + 1, h) <=> h.type = "IntoEnclave" /\ h.id = n + 1
           /\ s[n + 1].kind # "callOut" =>
                 \A e : EnclaveStateAt(s, n + 1, e) <=> EnclaveStateAt(s, n, e)
           /\ s[n + 1].kind = "callOut" =>
                 \A e : EnclaveStateAt(s, n + 1, e) <=> e.type = "Receive" /\ e.id = n + 1
           /\ ReceiveBelow(s, n) => ReceiveBelow(s, n + 1)
           /\ s[n + 1].kind = "receive" /\ s[n + 1].pc = "user" => ReceiveBelow(s, n + 1)
  <1>1. 1..(n + 1) = (1..n) \cup {n + 1} /\ n + 1 \notin 1..n
    OBVIOUS
  <1>2. ASSUME s[n + 1].kind \notin IntoKinds, NEW h
        PROVE  HostStateAt(s, n + 1, h) <=> HostStateAt(s, n, h)
    <2>1. CASE h.id \in 1..n
      <3>1. (h.id + 1)..(n + 1) = ((h.id + 1)..n) \cup {n + 1}
        BY <2>1
      <3> QED BY <1>1, <1>2, <2>1, <3>1 DEF HostStateAt
    <2>2. CASE h.id \notin 1..n
      BY <1>1, <1>2, <2>2 DEF HostStateAt
    <2> QED BY <2>1, <2>2
  <1>3. ASSUME s[n + 1].kind \in IntoKinds, NEW h
        PROVE  HostStateAt(s, n + 1, h) <=> h.type = "IntoEnclave" /\ h.id = n + 1
    <2>1. ASSUME h.id = n + 1 PROVE (h.id + 1)..(n + 1) = {}
      BY <2>1
    <2>2. ASSUME h.id \in 1..n PROVE n + 1 \in (h.id + 1)..(n + 1)
      BY <2>2
    <2> QED BY <1>1, <1>3, <2>1, <2>2 DEF HostStateAt
  <1>4. ASSUME s[n + 1].kind # "callOut", NEW e
        PROVE  EnclaveStateAt(s, n + 1, e) <=> EnclaveStateAt(s, n, e)
    <2>1. CASE e.id \in 1..n
      <3>1. (e.id + 1)..(n + 1) = ((e.id + 1)..n) \cup {n + 1}
        BY <2>1
      <3> QED BY <1>1, <1>4, <2>1, <3>1 DEF EnclaveStateAt
    <2>2. CASE e.id \notin 1..n
      BY <1>1, <1>4, <2>2 DEF EnclaveStateAt
    <2> QED BY <2>1, <2>2
  <1>5. ASSUME s[n + 1].kind = "callOut", NEW e
        PROVE  EnclaveStateAt(s, n + 1, e) <=> e.type = "Receive" /\ e.id = n + 1
    <2>1. ASSUME e.id = n + 1 PROVE (e.id + 1)..(n + 1) = {}
      BY <2>1
    <2>2. ASSUME e.id \in 1..n PROVE n + 1 \in (e.id + 1)..(n + 1)
      BY <2>2
    <2> QED BY <1>1, <1>5, <2>1, <2>2 DEF EnclaveStateAt
  <1>6. /\ ReceiveBelow(s, n) => ReceiveBelow(s, n + 1)
        /\ s[n + 1].kind = "receive" /\ s[n + 1].pc = "user" => ReceiveBelow(s, n + 1)
    BY <1>1 DEF ReceiveBelow
  <1> QED BY <1>2, <1>3, <1>4, <1>5, <1>6

\* FrameInPlace depends only on the activations up to its position.
LEMMA InPlaceBelow ==
    ASSUME NEW s, NEW r, NEW n \in Nat, \A i \in 1..n : r[i] = s[i], NEW i \in 1..n
    PROVE  FrameInPlace(r, i) <=> FrameInPlace(s, i)
  <1>1. i - 1 \in Nat /\ r[i] = s[i] /\ \A j \in 1..(i - 1) : r[j] = s[j]
    OBVIOUS
  <1>2. i > 1 => r[i - 1] = s[i - 1]
    OBVIOUS
  <1>3. /\ \A h : HostStateAt(r, i - 1, h) <=> HostStateAt(s, i - 1, h)
        /\ \A e : EnclaveStateAt(r, i - 1, e) <=> EnclaveStateAt(s, i - 1, e)
        /\ ReceiveBelow(r, i - 1) <=> ReceiveBelow(s, i - 1)
    BY <1>1, StatesBelow
  <1> QED BY <1>1, <1>2, <1>3 DEF FrameInPlace

\* A push keeps a stack well nested if the new activation is in its place.
LEMMA PushNested ==
    ASSUME NEW s \in Seq(Frames), NEW f \in Frames, WellNested(s),
           FrameInPlace(Append(s, f), Len(s) + 1)
    PROVE  WellNested(Append(s, f))
  <1> SUFFICES ASSUME NEW i \in 1..(Len(s) + 1) PROVE FrameInPlace(Append(s, f), i)
    BY AppendFacts DEF WellNested
  <1>1. CASE i = Len(s) + 1
    BY <1>1
  <1>2. CASE i # Len(s) + 1
    <2>1. i \in 1..Len(s) /\ Len(s) \in Nat /\ \A j \in 1..Len(s) : Append(s, f)[j] = s[j]
      BY <1>2, AppendFacts
    <2>2. FrameInPlace(Append(s, f), i) <=> FrameInPlace(s, i)
      BY <2>1, InPlaceBelow
    <2> QED BY <2>1, <2>2 DEF WellNested
  <1> QED BY <1>1, <1>2

\* A pop keeps a stack well nested, and the activation that goes was in its place.
LEMMA PopNested ==
    ASSUME NEW s \in Seq(Frames), s # <<>>, WellNested(s)
    PROVE  /\ WellNested(SubSeq(s, 1, Len(s) - 1))
           /\ FrameInPlace(s, Len(s))
  <1> DEFINE p == SubSeq(s, 1, Len(s) - 1)
  <1>1. Len(p) = Len(s) - 1 /\ Len(p) \in Nat /\ Len(s) > 0 /\ \A i \in 1..Len(p) : p[i] = s[i]
    BY StackSplit
  <1>2. ASSUME NEW i \in 1..Len(p) PROVE FrameInPlace(p, i)
    <2>1. FrameInPlace(p, i) <=> FrameInPlace(s, i)
      BY <1>1, InPlaceBelow
    <2>2. i \in 1..Len(s)
      BY <1>1
    <2> QED BY <2>1, <2>2 DEF WellNested
  <1>3. FrameInPlace(s, Len(s))
    BY <1>1 DEF WellNested
  <1> QED BY <1>2, <1>3 DEF WellNested

\* The call states of a thread agree with its stack and neither is a Response.
Calm(s, h, e) ==
    /\ WellNested(s)
    /\ h.type # "Response" /\ HostStateAt(s, Len(s), h)
    /\ e.type # "Response" /\ EnclaveStateAt(s, Len(s), e)

\* The call states that r, which is s with the activation f on top, calls for.
PushedStates(s, f, r) ==
    /\ \A h : HostStateAt(r, Len(s), h) <=> HostStateAt(s, Len(s), h)
    /\ \A e : EnclaveStateAt(r, Len(s), e) <=> EnclaveStateAt(s, Len(s), e)
    /\ ReceiveBelow(r, Len(s)) <=> ReceiveBelow(s, Len(s))
    /\ f.kind \notin IntoKinds =>
          \A h : HostStateAt(r, Len(r), h) <=> HostStateAt(s, Len(s), h)
    /\ f.kind \in IntoKinds =>
          \A h : HostStateAt(r, Len(r), h) <=> h.type = "IntoEnclave" /\ h.id = Len(s) + 1
    /\ f.kind # "callOut" =>
          \A e : EnclaveStateAt(r, Len(r), e) <=> EnclaveStateAt(s, Len(s), e)
    /\ f.kind = "callOut" =>
          \A e : EnclaveStateAt(r, Len(r), e) <=> e.type = "Receive" /\ e.id = Len(s) + 1

\* Pushing a call sets the state of its side; pushing anything else sets none.
LEMMA PushStates ==
    ASSUME NEW s \in Seq(Frames), NEW f \in Frames
    PROVE  PushedStates(s, f, Append(s, f))
  <1> DEFINE r == Append(s, f)
  <1>1. /\ Len(s) \in Nat /\ Len(r) = Len(s) + 1 /\ r[Len(s) + 1] = f
        /\ \A i \in 1..Len(s) : r[i] = s[i]
    BY AppendFacts
  <1>2. \A i \in 1..Len(s) : r[i].kind = s[i].kind /\ r[i].pc = s[i].pc
    BY <1>1
  <1>3. /\ \A h : HostStateAt(r, Len(s), h) <=> HostStateAt(s, Len(s), h)
        /\ \A e : EnclaveStateAt(r, Len(s), e) <=> EnclaveStateAt(s, Len(s), e)
        /\ ReceiveBelow(r, Len(s)) <=> ReceiveBelow(s, Len(s))
    BY <1>1, <1>2, StatesBelow
  <1>4. /\ r[Len(s) + 1].kind \notin IntoKinds =>
              \A h : HostStateAt(r, Len(s) + 1, h) <=> HostStateAt(r, Len(s), h)
        /\ r[Len(s) + 1].kind \in IntoKinds =>
              \A h : HostStateAt(r, Len(s) + 1, h) <=> h.type = "IntoEnclave" /\ h.id = Len(s) + 1
        /\ r[Len(s) + 1].kind # "callOut" =>
              \A e : EnclaveStateAt(r, Len(s) + 1, e) <=> EnclaveStateAt(r, Len(s), e)
        /\ r[Len(s) + 1].kind = "callOut" =>
              \A e : EnclaveStateAt(r, Len(s) + 1, e) <=> e.type = "Receive" /\ e.id = Len(s) + 1
    BY <1>1, StatesAbove
  <1> HIDE DEF r
  <1>5. PushedStates(s, f, r)
    BY <1>1, <1>3, <1>4 DEF PushedStates
  <1> QED BY <1>5 DEF r

\* Pushing an activation that is no call leaves the call states alone.
LEMMA PushCalm ==
    ASSUME NEW s \in Seq(Frames), NEW f \in Frames, NEW h, NEW e, Calm(s, h, e),
           f.kind \notin IntoKinds, f.kind # "callOut",
           f.kind = "enclaveCallback" =>
              /\ s # <<>> /\ s[Len(s)].kind = "callEnclave" /\ s[Len(s)].pc = "called"
              /\ ReceiveBelow(s, Len(s)),
           f.kind = "receive" => s # <<>> /\ s[Len(s)].kind \in IntoKinds /\ s[Len(s)].pc = "called",
           f.kind = "hostCallback" => s # <<>> /\ s[Len(s)].kind = "callOut"
    PROVE  Calm(Append(s, f), h, e)
  <1>1. PICK r : r = Append(s, f)
    OBVIOUS
  <1>0. PushedStates(s, f, r)
    BY <1>1, PushStates
  <1>2. /\ Len(s) \in Nat /\ Len(r) = Len(s) + 1 /\ r[Len(s) + 1] = f
        /\ \A i \in 1..Len(s) : r[i] = s[i]
    BY <1>1, AppendFacts
  <1>3. /\ HostStateAt(r, Len(r), h) <=> HostStateAt(s, Len(s), h)
        /\ EnclaveStateAt(r, Len(r), e) <=> EnclaveStateAt(s, Len(s), e)
        /\ ReceiveBelow(r, Len(s)) <=> ReceiveBelow(s, Len(s))
    BY <1>0, <1>1 DEF PushedStates
  <1>4. s # <<>> => Len(s) > 0 /\ r[Len(s)] = s[Len(s)]
    BY <1>2, StackSplit
  <1>5. FrameInPlace(r, Len(s) + 1)
    BY <1>2, <1>3, <1>4 DEF FrameInPlace
  <1>6. WellNested(r)
    BY <1>1, <1>5, PushNested DEF Calm
  <1> QED BY <1>1, <1>3, <1>6 DEF Calm

\* Pushing a call into the enclave.
LEMMA PushInto ==
    ASSUME NEW s \in Seq(Frames), NEW f \in Frames, NEW h, NEW e, Calm(s, h, e),
           f.kind \in IntoKinds, f.prev = h, NEW g, g.type = "IntoEnclave", g.id = Len(s) + 1
    PROVE  Calm(Append(s, f), g, e)
  <1>1. PICK r : r = Append(s, f)
    OBVIOUS
  <1>0. PushedStates(s, f, r)
    BY <1>1, PushStates
  <1>2. Len(s) \in Nat /\ r[Len(s) + 1] = f /\ f.kind \notin {"callOut", "enclaveCallback", "receive", "hostCallback"}
    BY <1>1, AppendFacts DEF IntoKinds
  <1>3. /\ HostStateAt(r, Len(s), h)
        /\ HostStateAt(r, Len(r), g)
        /\ EnclaveStateAt(r, Len(r), e)
    BY <1>0, <1>1, <1>2 DEF Calm, PushedStates
  <1>5. FrameInPlace(r, Len(s) + 1)
    BY <1>2, <1>3 DEF FrameInPlace
  <1>6. WellNested(r)
    BY <1>1, <1>5, PushNested DEF Calm
  <1> QED BY <1>1, <1>3, <1>6 DEF Calm

\* Pushing a call to the host.
LEMMA PushOut ==
    ASSUME NEW s \in Seq(Frames), NEW f \in Frames, NEW h, NEW e, Calm(s, h, e),
           f.kind = "callOut", f.pc = "called", f.prev = e, ReceiveBelow(s, Len(s)),
           NEW g, g.type = "Receive", g.id = Len(s) + 1
    PROVE  Calm(Append(s, f), h, g)
  <1>1. PICK r : r = Append(s, f)
    OBVIOUS
  <1>0. PushedStates(s, f, r)
    BY <1>1, PushStates
  <1>2. Len(s) \in Nat /\ r[Len(s) + 1] = f /\ f.kind \notin IntoKinds
    BY <1>1, AppendFacts DEF IntoKinds
  <1>3. /\ EnclaveStateAt(r, Len(s), e)
        /\ HostStateAt(r, Len(r), h)
        /\ EnclaveStateAt(r, Len(r), g)
        /\ ReceiveBelow(r, Len(s))
    BY <1>0, <1>1, <1>2 DEF Calm, PushedStates
  <1>5. FrameInPlace(r, Len(s) + 1)
    BY <1>2, <1>3 DEF FrameInPlace
  <1>6. WellNested(r)
    BY <1>1, <1>5, PushNested DEF Calm
  <1> QED BY <1>1, <1>3, <1>6 DEF Calm

\* A remembered call state is never a Response.
LEMMA StatesNoResponse ==
    ASSUME NEW s, NEW n, NEW h
    PROVE  /\ HostStateAt(s, n, h) => h.type # "Response"
           /\ EnclaveStateAt(s, n, h) => h.type # "Response" /\ h.type = "Receive"
  BY DEF HostStateAt, EnclaveStateAt, Ready, TopLevelReceive, Receive

\* What p, which is s without its top activation, calls for, and what the top
\* activation remembers.
PoppedStates(s, p) ==
    /\ p \in Seq(Frames) /\ WellNested(p) /\ FrameInPlace(s, Len(s))
    /\ s[Len(s)].kind \notin IntoKinds =>
          \A h : HostStateAt(s, Len(s), h) <=> HostStateAt(p, Len(p), h)
    /\ s[Len(s)].kind \in IntoKinds =>
          /\ HostStateAt(p, Len(p), s[Len(s)].prev)
          /\ \A h : HostStateAt(s, Len(s), h) <=> h.type = "IntoEnclave" /\ h.id = Len(s)
    /\ s[Len(s)].kind # "callOut" =>
          \A e : EnclaveStateAt(s, Len(s), e) <=> EnclaveStateAt(p, Len(p), e)
    /\ s[Len(s)].kind = "callOut" =>
          /\ EnclaveStateAt(p, Len(p), s[Len(s)].prev)
          /\ \A e : EnclaveStateAt(s, Len(s), e) <=> e.type = "Receive" /\ e.id = Len(s)

\* Popping a call uncovers the state it remembers.
LEMMA PopStates ==
    ASSUME NEW s \in Seq(Frames), s # <<>>, WellNested(s)
    PROVE  PoppedStates(s, SubSeq(s, 1, Len(s) - 1))
  <1>0. PICK p : p = SubSeq(s, 1, Len(s) - 1)
    OBVIOUS
  <1>1. PICK f : f = s[Len(s)]
    OBVIOUS
  <1>2. p \in Seq(Frames) /\ f \in Frames /\ s = Append(p, f) /\ Len(p) = Len(s) - 1 /\ Len(s) > 0
    BY <1>0, <1>1, StackSplit
  <1>3. WellNested(p) /\ FrameInPlace(s, Len(s))
    BY <1>0, PopNested
  <1>4. Len(s) = Len(p) + 1 /\ Len(p) \in Nat
    BY <1>2
  <1>5. PushedStates(p, f, s)
    <2>1. PushedStates(p, f, Append(p, f))
      BY <1>2, PushStates
    <2> QED BY <1>2, <2>1
  <1>6. f.kind \in IntoKinds => HostStateAt(p, Len(p), f.prev)
    BY <1>1, <1>2, <1>3, <1>5 DEF FrameInPlace, PushedStates
  <1>7. f.kind = "callOut" => EnclaveStateAt(p, Len(p), f.prev)
    BY <1>1, <1>2, <1>3, <1>5 DEF FrameInPlace, PushedStates
  <1>8. PoppedStates(s, p)
    BY <1>1, <1>2, <1>3, <1>4, <1>5, <1>6, <1>7 DEF PushedStates, PoppedStates
  <1> QED BY <1>0, <1>8

\* Popping an activation that is no call leaves the call states alone.
LEMMA PopCalm ==
    ASSUME NEW s \in Seq(Frames), s # <<>>, NEW h, NEW e, Calm(s, h, e),
           s[Len(s)].kind \notin IntoKinds, s[Len(s)].kind # "callOut"
    PROVE  Calm(SubSeq(s, 1, Len(s) - 1), h, e)
  <1>1. PICK p : p = SubSeq(s, 1, Len(s) - 1)
    OBVIOUS
  <1>2. WellNested(s)
    BY DEF Calm
  <1>3. /\ WellNested(p)
        /\ HostStateAt(s, Len(s), h) <=> HostStateAt(p, Len(p), h)
        /\ EnclaveStateAt(s, Len(s), e) <=> EnclaveStateAt(p, Len(p), e)
    <2>1. PoppedStates(s, p)
      BY <1>1, <1>2, PopStates
    <2> QED BY <1>2, <2>1 DEF PoppedStates
  <1> QED BY <1>1, <1>3 DEF Calm

\* Popping a call into the enclave reverts the state of the host ...
LEMMA PopInto ==
    ASSUME NEW s \in Seq(Frames), s # <<>>, NEW e, WellNested(s), EnclaveSide(s, e),
           s[Len(s)].kind \in IntoKinds
    PROVE  Calm(SubSeq(s, 1, Len(s) - 1), s[Len(s)].prev, e)
  <1>1. PICK p : p = SubSeq(s, 1, Len(s) - 1)
    OBVIOUS
  <1>2. s[Len(s)].kind # "callOut" /\ e.type # "Response"
    BY DEF IntoKinds, EnclaveSide
  <1>3. /\ WellNested(p)
        /\ HostStateAt(p, Len(p), s[Len(s)].prev)
        /\ EnclaveStateAt(s, Len(s), e) <=> EnclaveStateAt(p, Len(p), e)
    <2>1. PoppedStates(s, p)
      BY <1>1, <1>2, PopStates
    <2> QED BY <1>2, <2>1 DEF PoppedStates
  <1>4. s[Len(s)].prev.type # "Response"
    BY <1>3, StatesNoResponse
  <1> QED BY <1>1, <1>2, <1>3, <1>4 DEF Calm, EnclaveSide

\* ... and popping a call to the host the state of the enclave.
LEMMA PopOut ==
    ASSUME NEW s \in Seq(Frames), s # <<>>, NEW h, WellNested(s), HostSide(s, h),
           s[Len(s)].kind = "callOut"
    PROVE  Calm(SubSeq(s, 1, Len(s) - 1), h, s[Len(s)].prev)
  <1>1. PICK p : p = SubSeq(s, 1, Len(s) - 1)
    OBVIOUS
  <1>2. s[Len(s)].kind \notin IntoKinds /\ h.type # "Response"
    BY DEF IntoKinds, HostSide
  <1>3. /\ WellNested(p)
        /\ EnclaveStateAt(p, Len(p), s[Len(s)].prev)
        /\ HostStateAt(s, Len(s), h) <=> HostStateAt(p, Len(p), h)
    <2>1. PoppedStates(s, p)
      BY <1>1, <1>2, PopStates
    <2> QED BY <1>2, <2>1 DEF PoppedStates
  <1>4. s[Len(s)].prev.type # "Response"
    BY <1>3, StatesNoResponse
  <1> QED BY <1>1, <1>2, <1>3, <1>4 DEF Calm, HostSide

\* A step within the topmost activation leaves the call states alone.
LEMMA MoveCalm ==
    ASSUME NEW s \in Seq(Frames), s # <<>>, NEW h, NEW e, Calm(s, h, e),
           NEW f \in Frames, f.kind = s[Len(s)].kind, f.prev = s[Len(s)].prev, f.kind # "callOut"
    PROVE  Calm(Append(SubSeq(s, 1, Len(s) - 1), f), h, e)
  <1>1. PICK p : p = SubSeq(s, 1, Len(s) - 1)
    OBVIOUS
  <1>2. PICK r : r = Append(p, f)
    OBVIOUS
  <1>3. WellNested(s)
    BY DEF Calm
  <1>4. /\ p \in Seq(Frames) /\ Len(p) = Len(s) - 1 /\ Len(s) > 0 /\ Len(p) \in Nat
        /\ \A i \in 1..Len(p) : p[i] = s[i]
    BY <1>1, StackSplit
  <1>5. WellNested(p) /\ FrameInPlace(s, Len(s))
    <2>1. PoppedStates(s, p)
      BY <1>1, <1>3, PopStates
    <2> QED BY <2>1 DEF PoppedStates
  <1>6. Len(r) = Len(s) /\ r[Len(r)] = f /\ \A i \in 1..Len(p) : r[i] = s[i]
    BY <1>2, <1>4, AppendFacts
  <1>7. \A i \in 1..Len(p) : r[i].kind = s[i].kind /\ r[i].pc = s[i].pc
    BY <1>6
  <1>8. /\ \A g : HostStateAt(r, Len(p), g) <=> HostStateAt(s, Len(p), g)
        /\ ReceiveBelow(r, Len(p)) <=> ReceiveBelow(s, Len(p))
    BY <1>4, <1>7, StatesBelow
  <1>9. Len(r) > 1 => r[Len(r) - 1] = s[Len(s) - 1]
    BY <1>4, <1>6
  <1>10. FrameInPlace(r, Len(r))
    BY <1>4, <1>5, <1>6, <1>8, <1>9 DEF FrameInPlace
  <1>11. WellNested(r)
    BY <1>2, <1>4, <1>5, <1>6, <1>10, PushNested
  <1>12. /\ HostStateAt(r, Len(r), h) <=> HostStateAt(s, Len(s), h)
         /\ EnclaveStateAt(r, Len(r), e) <=> EnclaveStateAt(s, Len(s), e)
    <2>1. /\ f.kind \notin IntoKinds => (HostStateAt(r, Len(r), h) <=> HostStateAt(p, Len(p), h))
          /\ f.kind \in IntoKinds => (HostStateAt(r, Len(r), h) <=> h.type = "IntoEnclave" /\ h.id = Len(p) + 1)
          /\ EnclaveStateAt(r, Len(r), e) <=> EnclaveStateAt(p, Len(p), e)
      <3>1. PushedStates(p, f, r)
        BY <1>2, <1>4, PushStates
      <3> QED BY <3>1 DEF PushedStates
    <2>2. /\ f.kind \notin IntoKinds => (HostStateAt(s, Len(s), h) <=> HostStateAt(p, Len(p), h))
          /\ f.kind \in IntoKinds => (HostStateAt(s, Len(s), h) <=> h.type = "IntoEnclave" /\ h.id = Len(s))
          /\ EnclaveStateAt(s, Len(s), e) <=> EnclaveStateAt(p, Len(p), e)
      <3>1. PoppedStates(s, p)
        BY <1>1, <1>3, PopStates
      <3> QED BY <3>1 DEF PoppedStates
    <2> QED BY <1>4, <2>1, <2>2
  <1> QED BY <1>1, <1>2, <1>11, <1>12 DEF Calm

\* The call states of a thread that runs on with stack s.
LEMMA CallStatesStep ==
    ASSUME TypeOK, CallStatesInv, NEW t \in Threads, NEW s, NEW exc, NEW h, NEW e,
           Resume(t, s, exc), Calm(s, h, e),
           hostCall' = [hostCall EXCEPT ![t] = h], enclaveCall' = [enclaveCall EXCEPT ![t] = e]
    PROVE  CallStatesInv'
  <1> SUFFICES ASSUME NEW u \in Threads
               PROVE  /\ WellNested(stack'[u])
                      /\ HostSide(stack'[u], hostCall'[u])
                      /\ EnclaveSide(stack'[u], enclaveCall'[u])
                      /\ throwing'[u] => hostCall'[u].type # "Response" /\ enclaveCall'[u].type # "Response"
    BY DEF CallStatesInv
  <1>1. CASE u = t
    <2>1. stack'[u] = s /\ hostCall'[u] = h /\ enclaveCall'[u] = e
      BY <1>1 DEF Resume, TypeOK, ThreadTypes, HostTypes, EnclaveTypes
    <2> QED BY <2>1 DEF Calm, HostSide, EnclaveSide
  <1>2. CASE u # t
    <2>1. /\ stack'[u] = stack[u] /\ throwing'[u] = throwing[u]
          /\ hostCall'[u] = hostCall[u] /\ enclaveCall'[u] = enclaveCall[u]
      BY <1>2 DEF Resume, TypeOK, ThreadTypes, HostTypes, EnclaveTypes
    <2> QED BY <2>1 DEF CallStatesInv
  <1> QED BY <1>1, <1>2

\* Between calls neither side of a thread has a Response.
LEMMA TopCalm ==
    ASSUME TypeOK, CallStatesInv, NEW t \in Threads,
           \/ stack[t] = <<>>
           \/ Top(t).kind \notin {"callEnclave", "callOut"}
           \/ Top(t).kind # "callOut" /\ Top(t).pc # "called"
    PROVE  Calm(stack[t], hostCall[t], enclaveCall[t])
  <1>1. WellNested(stack[t]) /\ HostSide(stack[t], hostCall[t]) /\ EnclaveSide(stack[t], enclaveCall[t])
    BY DEF CallStatesInv
  <1>2. hostCall[t].type # "Response"
    BY <1>1 DEF HostSide, Top
  <1>3. enclaveCall[t].type # "Response"
    BY <1>1 DEF EnclaveSide, Top
  <1> QED BY <1>1, <1>2, <1>3 DEF Calm, HostSide, EnclaveSide

\* The same for a step that touches neither call state.
LEMMA CallStatesKept ==
    ASSUME TypeOK, CallStatesInv, NEW t \in Threads, NEW s, NEW exc,
           Resume(t, s, exc), Calm(s, hostCall[t], enclaveCall[t]), UNCHANGED <<hostCall, enclaveCall>>
    PROVE  CallStatesInv'
  <1>1. hostCall' = [hostCall EXCEPT ![t] = hostCall[t]] /\ enclaveCall' = [enclaveCall EXCEPT ![t] = enclaveCall[t]]
    BY DEF TypeOK, HostTypes, EnclaveTypes
  <1> QED BY <1>1, CallStatesStep

\* The fields of a new activation.
LEMMA FrameFields ==
    ASSUME NEW t, NEW k, NEW pc, NEW p
    PROVE  Frame(t, k, pc, p).kind = k /\ Frame(t, k, pc, p).pc = pc /\ Frame(t, k, pc, p).prev = p
  BY DEF Frame

\* Application code of either side runs in neither call state Response.
LEMMA CodeCalm ==
    ASSUME TypeOK, CallStatesInv, NEW t \in Threads,
           stack[t] = <<>> \/ \E k \in HostUser \cup EnclaveUser : At(t, k, "user")
    PROVE  Calm(stack[t], hostCall[t], enclaveCall[t])
  <1>1. stack[t] = <<>> \/ Top(t).kind \notin {"callEnclave", "callOut"}
    BY DEF At, HostUser, EnclaveUser
  <1> QED BY <1>1, TopCalm

\* Leaving an activation that is no call, or moving on within it, keeps the call states.
LEMMA CodeMoves ==
    ASSUME TypeOK, CallStatesInv, NEW t \in Threads, stack[t] # <<>>,
           Top(t).kind \in HostUser \cup EnclaveUser \cup {"close"}
    PROVE  /\ Calm(stack[t], hostCall[t], enclaveCall[t])
           /\ Calm(Popped(t), hostCall[t], enclaveCall[t])
           /\ \A f \in Frames : f.kind = Top(t).kind /\ f.prev = Top(t).prev =>
                 Calm(Append(Popped(t), f), hostCall[t], enclaveCall[t])
           /\ \A pc \in {"enter", "called", "lock", "user", "exit", "await", "shutdown", "destroy"} :
                 Calm(Goto(t, pc), hostCall[t], enclaveCall[t])
  <1>1. stack[t] \in Seq(Frames)
    BY DEF TypeOK, ThreadTypes
  <1>2. Top(t).kind \notin IntoKinds /\ Top(t).kind # "callOut"
    BY DEF HostUser, EnclaveUser, IntoKinds
  <1>3. Calm(stack[t], hostCall[t], enclaveCall[t])
    <2>1. Top(t).kind \notin {"callEnclave", "callOut"}
      BY <1>2 DEF IntoKinds
    <2> QED BY <2>1, TopCalm
  <1>4. Calm(Popped(t), hostCall[t], enclaveCall[t])
    BY <1>1, <1>2, <1>3, PopCalm DEF Popped, Top
  <1>5. ASSUME NEW f \in Frames, f.kind = Top(t).kind, f.prev = Top(t).prev
        PROVE  Calm(Append(Popped(t), f), hostCall[t], enclaveCall[t])
    BY <1>1, <1>2, <1>3, <1>5, MoveCalm DEF Popped, Top
  <1>6. ASSUME NEW pc \in {"enter", "called", "lock", "user", "exit", "await", "shutdown", "destroy"}
        PROVE  Calm(Goto(t, pc), hostCall[t], enclaveCall[t])
    <2>1. Top(t) \in Frames
      BY FrameTypes
    <2>2. PICK f : f = [Top(t) EXCEPT !.pc = pc]
      OBVIOUS
    <2>3. f \in Frames /\ f.kind = Top(t).kind /\ f.prev = Top(t).prev
      BY <2>1, <2>2 DEF Frames
    <2> QED BY <1>5, <2>2, <2>3 DEF Goto
  <1> QED BY <1>3, <1>4, <1>5, <1>6

\* The commands callback runs on top of any stack.
LEMMA CommandsCalm ==
    ASSUME TypeOK, NEW t \in Threads, NEW s \in Seq(Frames), NEW h, NEW e, Calm(s, h, e)
    PROVE  Calm(Append(s, Frame(t, "commands", "user", Ready)), h, e)
  <1>1. PICK f : f = Frame(t, "commands", "user", Ready)
    OBVIOUS
  <1>2. f \in Frames
    BY <1>1, FrameTypes, CallStateTypes DEF HostUser
  <1>3. f.kind = "commands"
    BY <1>1, FrameFields
  <1>4. f.kind \notin IntoKinds
    BY <1>3 DEF IntoKinds
  <1>5. Calm(Append(s, f), h, e)
    BY <1>2, <1>3, <1>4, PushCalm
  <1> QED BY <1>1, <1>5

\* Enclave code runs on behalf of a receive whose method is running.
LEMMA EnclaveCodeReceives ==
    ASSUME TypeOK, NEW t \in Threads, WellNested(stack[t]), EnclaveCode(t)
    PROVE  ReceiveBelow(stack[t], Len(stack[t]))
  <1>1. PICK s : s = stack[t]
    OBVIOUS
  <1>2. s \in Seq(Frames) /\ s # <<>>
    BY <1>1 DEF TypeOK, ThreadTypes, EnclaveCode, At
  <1>3. Len(s) > 0 /\ Len(s) \in Nat
    BY <1>2, StackSplit
  <1>4. (s[Len(s)].kind = "receive" \/ s[Len(s)].kind = "enclaveCallback") /\ s[Len(s)].pc = "user"
    BY <1>1 DEF EnclaveCode, At, EnclaveUser, Top
  <1>5. CASE s[Len(s)].kind = "receive"
    BY <1>1, <1>3, <1>4, <1>5 DEF ReceiveBelow
  <1>6. CASE s[Len(s)].kind = "enclaveCallback"
    <2>1. FrameInPlace(s, Len(s))
      BY <1>1, <1>3 DEF WellNested
    <2>2. ReceiveBelow(s, Len(s) - 1)
      BY <1>6, <2>1 DEF FrameInPlace
    <2> QED BY <1>1, <1>3, <2>2 DEF ReceiveBelow
  <1> QED BY <1>4, <1>5, <1>6

\* A host that is in a callUntrustedHost of the enclave runs on behalf of a receive.
LEMMA CallOutReceives ==
    ASSUME TypeOK, NEW t \in Threads, NEW h, NEW e, Calm(stack[t], h, e), e # TopLevelReceive
    PROVE  ReceiveBelow(stack[t], Len(stack[t]))
  <1>1. PICK s : s = stack[t]
    OBVIOUS
  <1>2. s \in Seq(Frames) /\ Len(s) \in Nat
    BY <1>1 DEF TypeOK, ThreadTypes
  <1>3. e.id \in 1..Len(s) /\ s[e.id].kind = "callOut"
    BY <1>1 DEF Calm, EnclaveStateAt
  <1>4. FrameInPlace(s, e.id)
    BY <1>1, <1>3 DEF Calm, WellNested
  <1>5. ReceiveBelow(s, e.id - 1)
    BY <1>3, <1>4 DEF FrameInPlace
  <1> QED BY <1>1, <1>2, <1>3, <1>5 DEF ReceiveBelow

\* Initially no thread is in a call.
LEMMA CallStatesInit == Init => CallStatesInv
  <1> SUFFICES ASSUME Init, NEW t \in Threads
               PROVE  /\ WellNested(stack[t])
                      /\ HostSide(stack[t], hostCall[t])
                      /\ EnclaveSide(stack[t], enclaveCall[t])
                      /\ throwing[t] => hostCall[t].type # "Response" /\ enclaveCall[t].type # "Response"
    BY DEF CallStatesInv
  <1>1. stack[t] = <<>> /\ hostCall[t] = Ready /\ enclaveCall[t] = TopLevelReceive
    BY DEF Init
  <1>2. Len(<<>>) = 0 /\ 1..0 = {}
    OBVIOUS
  <1>3. WellNested(stack[t])
    BY <1>1, <1>2 DEF WellNested
  <1>4. Ready.type # "Response" /\ TopLevelReceive.type # "Response"
    BY DEF Ready, TopLevelReceive, Receive
  <1>5. HostStateAt(<<>>, Len(<<>>), Ready) /\ EnclaveStateAt(<<>>, Len(<<>>), TopLevelReceive)
    BY <1>2 DEF HostStateAt, EnclaveStateAt
  <1> QED BY <1>1, <1>3, <1>4, <1>5 DEF HostSide, EnclaveSide

\* A call into the enclave starts.
LEMMA IntoStates ==
    ASSUME TypeOK, CallStatesInv, NEW t \in Threads, NEW k \in IntoKinds, NEW cb \in BOOLEAN,
           CallIntoEnclave(t, k, cb)
    PROVE  CallStatesInv'
  <1>1. stack[t] \in Seq(Frames) /\ hostCall[t] \in CallStates
    BY DEF TypeOK, ThreadTypes, HostTypes
  <1>2. Calm(stack[t], hostCall[t], enclaveCall[t])
    BY CodeCalm DEF CallIntoEnclave, HostCode
  <1>3. PICK f : f = Frame(t, k, "enter", hostCall[t])
    OBVIOUS
  <1>4. f \in Frames /\ f.kind \in IntoKinds /\ f.prev = hostCall[t]
    BY <1>1, <1>3, FrameTypes, FrameFields
  <1>5. PICK g : g = IntoEnclave(cb, Len(stack[t]) + 1)
    OBVIOUS
  <1>6. g.type = "IntoEnclave" /\ g.id = Len(stack[t]) + 1
    BY <1>5 DEF IntoEnclave
  <1>7. Calm(Append(stack[t], f), g, enclaveCall[t])
    BY <1>1, <1>2, <1>4, <1>6, PushInto
  <1>8. /\ hostCall' = [hostCall EXCEPT ![t] = g] /\ enclaveCall' = [enclaveCall EXCEPT ![t] = enclaveCall[t]]
        /\ Resume(t, Append(stack[t], f), FALSE)
    BY <1>3, <1>5 DEF CallIntoEnclave, enclaveVars, TypeOK, EnclaveTypes
  <1> QED BY <1>7, <1>8, CallStatesStep

\* The call arrives: a receive or a recursive callback is pushed, or it fails.
LEMMA EnterStates ==
    ASSUME TypeOK, CallStatesInv, NEW t \in Threads, EnterEnclave(t)
    PROVE  CallStatesInv'
  <1> DEFINE h == hostCall[t]
             e == enclaveCall[t]
  <1>1. stack[t] \in Seq(Frames) /\ stack[t] # <<>> /\ Top(t).kind \in IntoKinds /\ Top(t).pc = "enter"
    BY DEF TypeOK, ThreadTypes, EnterEnclave, At
  <1>2. Calm(stack[t], h, e)
    BY <1>1, TopCalm DEF IntoKinds
  <1>3. PICK g : g = [Top(t) EXCEPT !.pc = "called"]
    OBVIOUS
  <1>4. g \in Frames /\ g.kind = Top(t).kind /\ g.prev = Top(t).prev /\ g.pc = "called" /\ g.kind # "callOut"
    BY <1>1, <1>3, FrameTypes, ZenonT(40) DEF Frames, IntoKinds
  <1>5. PICK s : s = Goto(t, "called")
    OBVIOUS
  <1>6. s = Append(Popped(t), g) /\ Popped(t) \in Seq(Frames) /\ s \in Seq(Frames)
    BY <1>1, <1>3, <1>5, FrameTypes DEF Goto
  <1>7. Calm(s, h, e)
    BY <1>1, <1>2, <1>4, <1>6, MoveCalm DEF Popped, Top
  <1>8. s # <<>> /\ s[Len(s)] = g
    BY <1>4, <1>6, AppendFacts
  <1>9. UNCHANGED <<hostCall, enclaveCall>>
    BY DEF EnterEnclave, hostVars, enclaveVars
  <1>10. PICK r : r = Frame(t, "receive", "lock", Ready)
    OBVIOUS
  <1>11. PICK c : c = Frame(t, "enclaveCallback", "user", Ready)
    OBVIOUS
  <1>12. r \in Frames /\ c \in Frames /\ r.kind = "receive" /\ c.kind = "enclaveCallback"
    <2>1. r \in Frames /\ c \in Frames
      BY <1>10, <1>11, FrameTypes, CallStateTypes DEF EnclaveUser
    <2>2. r.kind = "receive" /\ c.kind = "enclaveCallback"
      BY <1>10, <1>11, FrameFields
    <2> QED BY <2>1, <2>2
  <1>13. {"receive", "enclaveCallback"} \cap IntoKinds = {}
    BY DEF IntoKinds
  <1>14. Calm(Append(s, r), h, e)
    BY <1>1, <1>4, <1>6, <1>7, <1>8, <1>12, <1>13, PushCalm
  <1>15. ASSUME Top(t).kind # "deliverMail", e # TopLevelReceive
         PROVE  Calm(Append(s, c), h, e)
    <2>1. ReceiveBelow(stack[t], Len(stack[t]))
      BY <1>2, <1>15, CallOutReceives
    <2>2. ReceiveBelow(s, Len(s))
      <3>1. PICK j \in 1..Len(stack[t]) : stack[t][j].kind = "receive" /\ stack[t][j].pc = "user"
        BY <2>1 DEF ReceiveBelow
      <3>2. j # Len(stack[t])
        BY <1>1, <3>1 DEF Top, IntoKinds
      <3>3. /\ Len(Popped(t)) = Len(stack[t]) - 1 /\ Len(stack[t]) > 0
            /\ \A i \in 1..Len(Popped(t)) : Popped(t)[i] = stack[t][i]
        BY <1>1, StackSplit DEF Popped
      <3>4. Len(s) = Len(stack[t]) /\ s[j] = stack[t][j]
        BY <1>4, <1>6, <3>1, <3>2, <3>3, AppendFacts
      <3> QED BY <3>1, <3>4 DEF ReceiveBelow
    <2>3. g.kind = "callEnclave"
      BY <1>1, <1>4, <1>15 DEF IntoKinds
    <2> QED BY <1>4, <1>6, <1>7, <1>8, <1>12, <1>13, <2>2, <2>3, PushCalm
  <1>16. \/ Resume(t, s, TRUE)
         \/ Resume(t, Append(s, r), FALSE)
         \/ Top(t).kind # "deliverMail" /\ e # TopLevelReceive /\ Resume(t, Append(s, c), FALSE)
    BY <1>5, <1>10, <1>11 DEF EnterEnclave
  <1> QED BY <1>7, <1>9, <1>14, <1>15, <1>16, CallStatesKept

\* The enclave calls its host.
LEMMA OutStates ==
    ASSUME TypeOK, CallStatesInv, NEW t \in Threads, NEW cb \in BOOLEAN, CallUntrustedHost(t, cb)
    PROVE  CallStatesInv'
  <1>1. stack[t] \in Seq(Frames) /\ enclaveCall[t] \in CallStates
    BY DEF TypeOK, ThreadTypes, EnclaveTypes
  <1>2. EnclaveCode(t)
    BY DEF CallUntrustedHost
  <1>3. Calm(stack[t], hostCall[t], enclaveCall[t])
    BY <1>2, CodeCalm DEF EnclaveCode
  <1>4. ReceiveBelow(stack[t], Len(stack[t]))
    BY <1>2, <1>3, EnclaveCodeReceives DEF Calm
  <1>5. PICK f : f = Frame(t, "callOut", "called", enclaveCall[t])
    OBVIOUS
  <1>6. f \in Frames /\ f.kind = "callOut" /\ f.pc = "called" /\ f.prev = enclaveCall[t]
    <2>1. f \in Frames
      BY <1>1, <1>5, FrameTypes
    <2>2. f.kind = "callOut" /\ f.pc = "called" /\ f.prev = enclaveCall[t]
      BY <1>5, FrameFields
    <2> QED BY <2>1, <2>2
  <1>7. PICK g : g = Receive(cb, Len(stack[t]) + 1)
    OBVIOUS
  <1>8. g.type = "Receive" /\ g.id = Len(stack[t]) + 1
    BY <1>7 DEF Receive
  <1>9. Calm(Append(stack[t], f), hostCall[t], g)
    BY <1>1, <1>3, <1>4, <1>6, <1>8, PushOut
  <1>10. PICK c : c = Frame(t, "hostCallback", "user", Ready)
    OBVIOUS
  <1>11. c \in Frames /\ c.kind = "hostCallback" /\ c.kind \notin IntoKinds
    BY <1>10, FrameTypes, FrameFields, CallStateTypes DEF HostUser, IntoKinds
  <1>12. PICK s : s = Append(stack[t], f)
    OBVIOUS
  <1>13. s \in Seq(Frames) /\ s # <<>> /\ s[Len(s)] = f
    BY <1>1, <1>6, <1>12, AppendFacts
  <1>14. Calm(Append(s, c), hostCall[t], g)
    BY <1>6, <1>9, <1>11, <1>12, <1>13, PushCalm
  <1>15. /\ hostCall' = [hostCall EXCEPT ![t] = hostCall[t]]
         /\ enclaveCall' = [enclaveCall EXCEPT ![t] = g]
    BY <1>7 DEF CallUntrustedHost, hostVars, TypeOK, HostTypes
  <1>16. Resume(t, Append(s, c), FALSE) \/ Resume(t, s, TRUE)
    BY <1>5, <1>10, <1>12 DEF CallUntrustedHost
  <1> QED BY <1>9, <1>12, <1>14, <1>15, <1>16, CallStatesStep

\* A callback of either side returns and may leave a Response for the call below it.
LEMMA ResponseStates ==
    ASSUME TypeOK, CallStatesInv, NEW t \in Threads, NEW s \in Seq(Frames), NEW exc, NEW h, NEW e,
           Resume(t, s, exc), WellNested(s), HostSide(s, h), EnclaveSide(s, e),
           exc => h.type # "Response" /\ e.type # "Response",
           hostCall' = [hostCall EXCEPT ![t] = h], enclaveCall' = [enclaveCall EXCEPT ![t] = e]
    PROVE  CallStatesInv'
  <1> SUFFICES ASSUME NEW u \in Threads
               PROVE  /\ WellNested(stack'[u])
                      /\ HostSide(stack'[u], hostCall'[u])
                      /\ EnclaveSide(stack'[u], enclaveCall'[u])
                      /\ throwing'[u] => hostCall'[u].type # "Response" /\ enclaveCall'[u].type # "Response"
    BY DEF CallStatesInv
  <1>1. CASE u = t
    <2>1. stack'[u] = s /\ hostCall'[u] = h /\ enclaveCall'[u] = e
      BY <1>1 DEF Resume, TypeOK, ThreadTypes, HostTypes, EnclaveTypes
    <2>2. throwing'[u] => exc
      BY <1>1 DEF Resume, TypeOK, ThreadTypes
    <2> QED BY <2>1, <2>2
  <1>2. CASE u # t
    <2>1. /\ stack'[u] = stack[u] /\ throwing'[u] = throwing[u]
          /\ hostCall'[u] = hostCall[u] /\ enclaveCall'[u] = enclaveCall[u]
      BY <1>2 DEF Resume, TypeOK, ThreadTypes, HostTypes, EnclaveTypes
    <2> QED BY <2>1 DEF CallStatesInv
  <1> QED BY <1>1, <1>2

\* What is below a callback or a receive.
LEMMA BelowCode ==
    ASSUME TypeOK, CallStatesInv, NEW t \in Threads, stack[t] # <<>>
    PROVE  /\ Top(t).kind = "hostCallback" =>
                 /\ Popped(t) # <<>> /\ Popped(t)[Len(Popped(t))].kind = "callOut"
                 /\ Popped(t)[Len(Popped(t))].pc = "called"
           /\ Top(t).kind = "enclaveCallback" =>
                 /\ Popped(t) # <<>> /\ Popped(t)[Len(Popped(t))].kind = "callEnclave"
                 /\ Popped(t)[Len(Popped(t))].pc = "called"
           /\ Top(t).kind = "receive" =>
                 /\ Popped(t) # <<>> /\ Popped(t)[Len(Popped(t))] = stack[t][Len(stack[t]) - 1]
                 /\ Popped(t)[Len(Popped(t))].kind \in IntoKinds
                 /\ Popped(t)[Len(Popped(t))].pc = "called"
  <1>1. PICK s : s = stack[t]
    OBVIOUS
  <1>2. PICK p : p = Popped(t)
    OBVIOUS
  <1>3. s \in Seq(Frames) /\ s # <<>> /\ WellNested(s)
    BY <1>1 DEF TypeOK, ThreadTypes, CallStatesInv
  <1>4. Len(p) = Len(s) - 1 /\ Len(s) > 0 /\ p \in Seq(Frames) /\ \A i \in 1..Len(p) : p[i] = s[i]
    BY <1>1, <1>2, <1>3, StackSplit DEF Popped
  <1>5. Len(s) > 1 => p # <<>> /\ Len(p) \in 1..Len(s) /\ p[Len(p)] = s[Len(s) - 1]
    BY <1>3, <1>4
  <1>6. FrameInPlace(s, Len(s)) /\ Top(t) = s[Len(s)]
    BY <1>1, <1>3, <1>4 DEF WellNested, Top
  <1>7. Len(s) > 1 => FrameInPlace(s, Len(s) - 1)
    BY <1>1, <1>3, <1>4 DEF WellNested
  <1> QED BY <1>1, <1>2, <1>5, <1>6, <1>7 DEF FrameInPlace

\* The host's callback returns.
LEMMA HostCallbackStates ==
    ASSUME TypeOK, CallStatesInv, NEW t \in Threads, NEW r \in BOOLEAN, HostCallbackReturns(t, r)
    PROVE  CallStatesInv'
  <1>1. stack[t] # <<>> /\ Top(t).kind = "hostCallback"
    BY DEF HostCallbackReturns, At
  <1>2. Calm(Popped(t), hostCall[t], enclaveCall[t])
    BY <1>1, CodeMoves DEF HostUser
  <1>3. Popped(t) \in Seq(Frames)
    BY <1>1, FrameTypes
  <1>4. /\ Resume(t, Popped(t), r /\ destroyed)
        /\ hostCall' = [hostCall EXCEPT ![t] = hostCall[t]]
    BY DEF HostCallbackReturns, hostVars, TypeOK, HostTypes
  <1>5. CASE r /\ ~destroyed
    <2>1. enclaveCall' = [enclaveCall EXCEPT ![t] = Response]
      BY <1>5 DEF HostCallbackReturns
    <2>2. EnclaveSide(Popped(t), Response)
      BY <1>1, BelowCode DEF EnclaveSide, Response
    <2>3. WellNested(Popped(t)) /\ HostSide(Popped(t), hostCall[t])
      BY <1>2 DEF Calm, HostSide
    <2>4. Resume(t, Popped(t), FALSE)
      BY <1>4, <1>5
    <2> QED BY <1>3, <1>4, <2>1, <2>2, <2>3, <2>4, ResponseStates
  <1>6. CASE ~(r /\ ~destroyed)
    <2>1. enclaveCall' = enclaveCall /\ hostCall' = hostCall
      BY <1>6 DEF HostCallbackReturns, hostVars
    <2> QED BY <1>2, <1>4, <2>1, CallStatesKept
  <1> QED BY <1>5, <1>6

\* A recursive callback of the enclave returns.
LEMMA EnclaveCallbackStates ==
    ASSUME TypeOK, CallStatesInv, NEW t \in Threads, NEW r \in BOOLEAN, EnclaveCallbackReturns(t, r)
    PROVE  CallStatesInv'
  <1>1. stack[t] # <<>> /\ Top(t).kind = "enclaveCallback"
    BY DEF EnclaveCallbackReturns, At
  <1>2. Calm(Popped(t), hostCall[t], enclaveCall[t])
    BY <1>1, CodeMoves DEF EnclaveUser
  <1>3. Popped(t) \in Seq(Frames)
    BY <1>1, FrameTypes
  <1>4. /\ Resume(t, Popped(t), FALSE)
        /\ enclaveCall' = [enclaveCall EXCEPT ![t] = enclaveCall[t]]
    BY DEF EnclaveCallbackReturns, enclaveVars, TypeOK, EnclaveTypes
  <1>5. CASE r
    <2>1. hostCall' = [hostCall EXCEPT ![t] = Response]
      BY <1>5 DEF EnclaveCallbackReturns
    <2>2. HostSide(Popped(t), Response)
      BY <1>1, BelowCode DEF HostSide, Response
    <2>3. WellNested(Popped(t)) /\ EnclaveSide(Popped(t), enclaveCall[t])
      BY <1>2 DEF Calm, EnclaveSide
    <2> QED BY <1>3, <1>4, <2>1, <2>2, <2>3, ResponseStates
  <1>6. CASE ~r
    <2>1. enclaveCall' = enclaveCall /\ hostCall' = hostCall
      BY <1>6 DEF EnclaveCallbackReturns, enclaveVars
    <2> QED BY <1>2, <1>4, <2>1, CallStatesKept
  <1> QED BY <1>5, <1>6

\* A receive is over; its value, if it has one, goes to the host.
LEMMA ExitStates ==
    ASSUME TypeOK, CallStatesInv, NEW t \in Threads, NEW r \in BOOLEAN, ExitReceive(t, r)
    PROVE  CallStatesInv'
  <1>1. stack[t] # <<>> /\ Top(t).kind = "receive"
    BY DEF ExitReceive, At
  <1>2. Calm(Popped(t), hostCall[t], enclaveCall[t])
    BY <1>1, CodeMoves DEF EnclaveUser
  <1>3. Popped(t) \in Seq(Frames)
    BY <1>1, FrameTypes
  <1>4. /\ Resume(t, Popped(t), throwing[t])
        /\ enclaveCall' = [enclaveCall EXCEPT ![t] = enclaveCall[t]]
    BY DEF ExitReceive, TypeOK, EnclaveTypes
  <1>5. CASE r
    <2>1. hostCall' = [hostCall EXCEPT ![t] = Response] /\ ~throwing[t]
      BY <1>5 DEF ExitReceive
    <2>2. stack[t][Len(stack[t]) - 1].kind = "callEnclave"
      BY <1>5 DEF ExitReceive
    <2>3. HostSide(Popped(t), Response)
      BY <1>1, <2>2, BelowCode DEF HostSide, Response
    <2>4. WellNested(Popped(t)) /\ EnclaveSide(Popped(t), enclaveCall[t])
      BY <1>2 DEF Calm, EnclaveSide
    <2> QED BY <1>3, <1>4, <2>1, <2>3, <2>4, ResponseStates
  <1>6. CASE ~r
    <2>1. enclaveCall' = enclaveCall /\ hostCall' = hostCall
      BY <1>6 DEF ExitReceive
    <2> QED BY <1>2, <1>4, <2>1, CallStatesKept
  <1> QED BY <1>5, <1>6

\* callIntoEnclave returns, and may run the commands callback.
LEMMA IntoReturnsStates ==
    ASSUME TypeOK, CallStatesInv, NEW t \in Threads, CallIntoEnclaveReturns(t)
    PROVE  CallStatesInv'
  <1>1. stack[t] \in Seq(Frames) /\ stack[t] # <<>> /\ Top(t).kind \in IntoKinds
    BY DEF CallIntoEnclaveReturns, At, TypeOK, ThreadTypes
  <1>2. WellNested(stack[t]) /\ EnclaveSide(stack[t], enclaveCall[t])
    BY DEF CallStatesInv
  <1>3. Calm(Popped(t), Top(t).prev, enclaveCall[t])
    BY <1>1, <1>2, PopInto DEF Popped, Top
  <1>4. Popped(t) \in Seq(Frames)
    BY <1>1, FrameTypes
  <1>5. Calm(Append(Popped(t), Frame(t, "commands", "user", Ready)), Top(t).prev, enclaveCall[t])
    BY <1>3, <1>4, CommandsCalm
  <1>6. /\ hostCall' = [hostCall EXCEPT ![t] = Top(t).prev]
        /\ enclaveCall' = [enclaveCall EXCEPT ![t] = enclaveCall[t]]
    BY DEF CallIntoEnclaveReturns, RevertHostCall, enclaveVars, TypeOK, EnclaveTypes
  <1>7. \/ Resume(t, Append(Popped(t), Frame(t, "commands", "user", Ready)), FALSE)
        \/ Resume(t, Popped(t), throwing[t])
    BY DEF CallIntoEnclaveReturns, FireMailCommands
  <1> QED BY <1>3, <1>5, <1>6, <1>7, CallStatesStep

\* callUntrustedHost returns.
LEMMA OutReturnsStates ==
    ASSUME TypeOK, CallStatesInv, NEW t \in Threads, CallUntrustedHostReturns(t)
    PROVE  CallStatesInv'
  <1>1. stack[t] \in Seq(Frames) /\ stack[t] # <<>> /\ Top(t).kind = "callOut"
    BY DEF CallUntrustedHostReturns, At, TypeOK, ThreadTypes
  <1>2. WellNested(stack[t]) /\ HostSide(stack[t], hostCall[t])
    BY DEF CallStatesInv
  <1>3. Calm(Popped(t), hostCall[t], Top(t).prev)
    BY <1>1, <1>2, PopOut DEF Popped, Top
  <1>4. /\ enclaveCall' = [enclaveCall EXCEPT ![t] = Top(t).prev]
        /\ hostCall' = [hostCall EXCEPT ![t] = hostCall[t]]
        /\ Resume(t, Popped(t), throwing[t])
    BY DEF CallUntrustedHostReturns, RevertEnclaveCall, hostVars, TypeOK, HostTypes
  <1> QED BY <1>3, <1>4, CallStatesStep

\* The steps that set no call state: the receive and its end, the commands callback,
\* exceptions of application code, and close.
LEMMA CodeStates ==
    ASSUME TypeOK, CallStatesInv, NEW t \in Threads,
           \/ RejectReceive(t) \/ BeginReceive(t) \/ ReceiveReturns(t) \/ CommandsReturn(t)
           \/ Fail(t) \/ Catch(t) \/ Close(t) \/ StopEnclave(t) \/ StopAwakes(t)
           \/ ShutdownReturns(t) \/ Destroy(t)
    PROVE  CallStatesInv'
  <1>1. CASE RejectReceive(t) \/ CommandsReturn(t) \/ Destroy(t)
    <2>1. stack[t] # <<>> /\ Top(t).kind \in HostUser \cup EnclaveUser \cup {"close"}
      BY <1>1 DEF RejectReceive, CommandsReturn, Destroy, At, HostUser, EnclaveUser
    <2>2. Resume(t, Popped(t), TRUE) \/ Resume(t, Popped(t), FALSE) \/ Resume(t, Popped(t), throwing[t])
      BY <1>1 DEF RejectReceive, CommandsReturn, Destroy
    <2>3. UNCHANGED <<hostCall, enclaveCall>>
      BY <1>1 DEF RejectReceive, CommandsReturn, Destroy, hostVars, enclaveVars
    <2>4. Calm(Popped(t), hostCall[t], enclaveCall[t])
      BY <2>1, CodeMoves
    <2> QED BY <2>2, <2>3, <2>4, CallStatesKept
  <1>2. CASE BeginReceive(t)
    <2>1. stack[t] # <<>> /\ Top(t).kind \in EnclaveUser
      BY <1>2 DEF BeginReceive, At, EnclaveUser
    <2>2. PICK f : f = [Top(t) EXCEPT !.pc = "user", !.id = nextId]
      OBVIOUS
    <2>3. f \in Frames /\ f.kind = Top(t).kind /\ f.prev = Top(t).prev
      <3>1. Top(t) \in Frames /\ nextId \in Nat
        BY <2>1, FrameTypes DEF TypeOK, EnclaveTypes
      <3> QED BY <2>2, <3>1 DEF Frames
    <2>4. Calm(Append(Popped(t), f), hostCall[t], enclaveCall[t])
      BY <2>1, <2>3, CodeMoves
    <2>5. Resume(t, Append(Popped(t), f), FALSE)
      BY <1>2, <2>2 DEF BeginReceive
    <2>6. UNCHANGED <<hostCall, enclaveCall>>
      BY <1>2 DEF BeginReceive, hostVars
    <2> QED BY <2>4, <2>5, <2>6, CallStatesKept
  <1>3. CASE ReceiveReturns(t)
    <2>1. stack[t] # <<>> /\ Top(t).kind \in EnclaveUser
      BY <1>3 DEF ReceiveReturns, At, EnclaveUser
    <2>2. PICK s : s = Goto(t, "exit")
      OBVIOUS
    <2>3. Calm(s, hostCall[t], enclaveCall[t]) /\ s \in Seq(Frames)
      BY <2>1, <2>2, CodeMoves, FrameTypes
    <2>4. Calm(Append(s, Frame(t, "commands", "user", Ready)), hostCall[t], enclaveCall[t])
      BY <2>3, CommandsCalm
    <2>5. \/ Resume(t, s, FALSE) \/ Resume(t, s, TRUE)
          \/ Resume(t, Append(s, Frame(t, "commands", "user", Ready)), FALSE)
      BY <1>3, <2>2 DEF ReceiveReturns, OnSealedState, FireMailCommands
    <2>6. UNCHANGED <<hostCall, enclaveCall>>
      BY <1>3 DEF ReceiveReturns
    <2> QED BY <2>3, <2>4, <2>5, <2>6, CallStatesKept
  <1>4. CASE Fail(t)
    <2>1. stack[t] # <<>> /\ Top(t).kind \in HostUser \cup EnclaveUser
      BY <1>4 DEF Fail, At
    <2>2. Calm(Goto(t, "exit"), hostCall[t], enclaveCall[t]) /\ Calm(Popped(t), hostCall[t], enclaveCall[t])
      BY <2>1, CodeMoves
    <2>3. Resume(t, Goto(t, "exit"), TRUE) \/ Resume(t, Popped(t), TRUE)
      BY <1>4 DEF Fail
    <2>4. UNCHANGED <<hostCall, enclaveCall>>
      BY <1>4 DEF Fail, hostVars
    <2> QED BY <2>2, <2>3, <2>4, CallStatesKept
  <1>5. CASE Catch(t)
    <2>1. stack[t] # <<>> /\ Top(t).kind \in HostUser \cup EnclaveUser
      BY <1>5 DEF Catch, At
    <2>2. Calm(stack[t], hostCall[t], enclaveCall[t])
      BY <2>1, CodeMoves
    <2>3. Resume(t, stack[t], FALSE) /\ UNCHANGED <<hostCall, enclaveCall>>
      BY <1>5 DEF Catch, hostVars, enclaveVars
    <2> QED BY <2>2, <2>3, CallStatesKept
  <1>6. CASE Close(t)
    <2>1. stack[t] = <<>> \/ \E k \in HostUser : At(t, k, "user")
      BY <1>6 DEF Close, HostCode
    <2>2. Calm(stack[t], hostCall[t], enclaveCall[t]) /\ stack[t] \in Seq(Frames)
      BY <2>1, CodeCalm DEF TypeOK, ThreadTypes
    <2>3. PICK f : f = Frame(t, "close", "lock", Ready)
      OBVIOUS
    <2>4. f \in Frames
      BY <2>3, FrameTypes, CallStateTypes
    <2>5. f.kind = "close" /\ f.kind \notin IntoKinds
      BY <2>3, FrameFields DEF IntoKinds
    <2>6. Calm(Append(stack[t], f), hostCall[t], enclaveCall[t])
      BY <2>2, <2>4, <2>5, PushCalm
    <2>7. Resume(t, Append(stack[t], f), FALSE) /\ UNCHANGED <<hostCall, enclaveCall>>
      BY <1>6, <2>3 DEF Close, enclaveVars
    <2> QED BY <2>6, <2>7, CallStatesKept
  <1>7. CASE StopEnclave(t) \/ ShutdownReturns(t) \/ (StopAwakes(t) /\ ~MustWait)
    <2>1. stack[t] # <<>> /\ Top(t).kind = "close"
      BY <1>7 DEF StopEnclave, StopAwakes, ShutdownReturns, At
    <2>2. PICK pc \in {"await", "shutdown", "destroy"}, exc \in BOOLEAN : Resume(t, Goto(t, pc), exc)
      BY <1>7 DEF StopEnclave, StopAwakes, ShutdownReturns
    <2>3. UNCHANGED <<hostCall, enclaveCall>>
      BY <1>7 DEF StopEnclave, StopAwakes, ShutdownReturns, hostVars
    <2>4. Calm(Goto(t, pc), hostCall[t], enclaveCall[t])
      BY <2>1, CodeMoves
    <2> QED BY <2>2, <2>3, <2>4, CallStatesKept
  <1>8. CASE StopAwakes(t) /\ MustWait
    <2>1. UNCHANGED <<stack, throwing, hostCall, enclaveCall>>
      BY <1>8 DEF StopAwakes, hostVars
    <2> QED BY <2>1 DEF CallStatesInv
  <1>9. MustWait \/ ~MustWait
    OBVIOUS
  <1> QED BY <1>1, <1>2, <1>3, <1>4, <1>5, <1>6, <1>7, <1>8, <1>9

(***************************************************************************)
(* Theorem: through every nesting of calls and every exception the call    *)
(* states of both sides are the ones that the activations of the thread    *)
(* call for.                                                               *)
(***************************************************************************)
THEOREM CallStatesInductive == Spec => []CallStatesInv
  <1>1. Init => CallStatesInv
    BY CallStatesInit
  <1>2. TypeOK /\ CallStatesInv /\ [Next]_vars => CallStatesInv'
    <2> SUFFICES ASSUME TypeOK, CallStatesInv, [Next]_vars PROVE CallStatesInv'
      OBVIOUS
    <2>1. ASSUME NEW t \in Threads, CreateMail(t) \/ PostMail(t)
          PROVE  CallStatesInv'
      <3>1. UNCHANGED <<stack, throwing, hostCall, enclaveCall>>
        BY <2>1 DEF CreateMail, PostMail, hostVars
      <3> QED BY <3>1 DEF CallStatesInv
    <2>2. CASE UNCHANGED vars
      <3>1. UNCHANGED <<stack, throwing, hostCall, enclaveCall>>
        BY <2>2 DEF vars, threadVars, hostVars, enclaveVars
      <3> QED BY <3>1 DEF CallStatesInv
    <2>3. ASSUME NEW t \in Threads, Step(t)
          PROVE  CallStatesInv'
      BY <2>1, <2>3, IntoStates, EnterStates, OutStates, HostCallbackStates, OutReturnsStates,
         EnclaveCallbackStates, ExitStates, IntoReturnsStates, CodeStates
         DEF Step
    <2> QED BY <2>2, <2>3 DEF Next, Idle
  <1> QED BY <1>1, <1>2, TypeCorrect, PTL DEF Spec

\* A thread with a receive in progress owns the lock of an enclave that is not thread-safe.
LEMMA ReceiverOwnsLock ==
    ASSUME TypeOK, LockAccounting, ~ThreadSafe, NEW t \in Threads, Receiving(t)
    PROVE  lock = t
  <1>1. PICK i \in DOMAIN stack[t] : Holding(stack[t][i])
    BY DEF Receiving, Holding
  <1>2. HeldBy(stack[t]) # {}
    BY <1>1 DEF HeldBy
  <1>3. IsFiniteSet(HeldBy(stack[t]))
    <2>1. stack[t] \in Seq(Frames) /\ Frame(t, "close", "lock", Ready) \in Frames
      BY FrameTypes, CallStateTypes DEF TypeOK, ThreadTypes
    <2> QED BY <2>1, CountAppend
  <1>4. Cardinality(HeldBy(stack[t])) # 0
    BY <1>2, <1>3, FS_EmptySet
  <1> QED BY <1>4 DEF LockAccounting

(***************************************************************************)
(* Theorem: none of the checks both sides make on their call states ever   *)
(* fails (callIntoEnclave, handleCall, callUntrustedHost, onUntrustedHost).*)
(***************************************************************************)
THEOREM CallStatesAlwaysConsistent == Spec => []CallStatesConsistent
  <1>1. TypeOK /\ LockAccounting /\ CallStatesInv => CallStatesConsistent
    <2> SUFFICES ASSUME TypeOK, LockAccounting, CallStatesInv, NEW t \in Threads
                 PROVE  /\ stack[t] = <<>> => hostCall[t] = Ready /\ enclaveCall[t] = TopLevelReceive
                        /\ HostCode(t) => hostCall[t].type # "Response"
                        /\ EnclaveCode(t) \/ At(t, "receive", "exit")
                              => hostCall[t].type = "IntoEnclave" /\ enclaveCall[t].type = "Receive"
                        /\ (\E k \in IntoKinds : At(t, k, "called"))
                              => hostCall[t].type = "Response" \/ hostCall[t].id = Len(stack[t])
                        /\ At(t, "callOut", "called")
                              => enclaveCall[t].type = "Response" \/ enclaveCall[t].id = Len(stack[t])
                        /\ ~ThreadSafe /\ At(t, "enclaveCallback", "user") => lock = t
      BY DEF CallStatesConsistent
    <2> DEFINE s == stack[t]
    <2>1. s \in Seq(Frames) /\ WellNested(s) /\ HostSide(s, hostCall[t]) /\ EnclaveSide(s, enclaveCall[t])
      BY DEF TypeOK, ThreadTypes, CallStatesInv
    <2>2. s = <<>> => hostCall[t] = Ready /\ enclaveCall[t] = TopLevelReceive
      <3> SUFFICES ASSUME s = <<>> PROVE hostCall[t] = Ready /\ enclaveCall[t] = TopLevelReceive
        OBVIOUS
      <3>1. Len(s) = 0 /\ 1..0 = {}
        OBVIOUS
      <3>2. Calm(s, hostCall[t], enclaveCall[t])
        BY TopCalm
      <3> QED BY <3>1, <3>2 DEF Calm, HostStateAt, EnclaveStateAt
    <2>3. HostCode(t) => hostCall[t].type # "Response"
      BY CodeCalm DEF HostCode, Calm
    <2>4. ASSUME EnclaveCode(t) \/ At(t, "receive", "exit")
          PROVE  hostCall[t].type = "IntoEnclave" /\ enclaveCall[t].type = "Receive"
      <3>1. s # <<>> /\ (Top(t).kind = "receive" \/ Top(t).kind = "enclaveCallback")
        BY <2>4 DEF EnclaveCode, At, EnclaveUser
      <3>2. Calm(s, hostCall[t], enclaveCall[t])
        BY <3>1, CodeMoves DEF EnclaveUser
      <3>3. enclaveCall[t].type = "Receive"
        BY <3>2, StatesNoResponse DEF Calm
      <3>4. FrameInPlace(s, Len(s)) /\ Len(s) > 0 /\ Len(s) \in Nat
        BY <2>1, <3>1, StackSplit, PopNested
      <3>5. Len(s) > 1 /\ s[Len(s) - 1].kind \in IntoKinds
        BY <3>1, <3>4 DEF FrameInPlace, Top, IntoKinds
      <3>6. Len(s) - 1 \in 1..Len(s)
        BY <3>4, <3>5
      <3>7. HostStateAt(s, Len(s), hostCall[t])
        BY <3>2 DEF Calm
      <3> QED BY <3>3, <3>5, <3>6, <3>7 DEF HostStateAt
    <2>5. ASSUME NEW k \in IntoKinds, At(t, k, "called"), hostCall[t].type # "Response"
          PROVE  hostCall[t].id = Len(s)
      <3>1. PoppedStates(s, Popped(t)) /\ s[Len(s)].kind \in IntoKinds
        BY <2>1, <2>5, PopStates DEF At, Top, Popped
      <3>2. HostStateAt(s, Len(s), hostCall[t])
        BY <2>1, <2>5 DEF HostSide
      <3> QED BY <3>1, <3>2 DEF PoppedStates
    <2>6. ASSUME At(t, "callOut", "called"), enclaveCall[t].type # "Response"
          PROVE  enclaveCall[t].id = Len(s)
      <3>1. PoppedStates(s, Popped(t)) /\ s[Len(s)].kind = "callOut"
        BY <2>1, <2>6, PopStates DEF At, Top, Popped
      <3>2. EnclaveStateAt(s, Len(s), enclaveCall[t])
        BY <2>1, <2>6 DEF EnclaveSide
      <3> QED BY <3>1, <3>2 DEF PoppedStates
    <2>7. ASSUME ~ThreadSafe, At(t, "enclaveCallback", "user")
          PROVE  lock = t
      <3>1. s # <<>> /\ s[Len(s)].kind = "enclaveCallback"
        BY <2>7 DEF At, Top
      <3>2. FrameInPlace(s, Len(s)) /\ Len(s) > 0 /\ Len(s) \in Nat
        BY <2>1, <3>1, StackSplit, PopNested
      <3>3. ReceiveBelow(s, Len(s) - 1)
        BY <3>1, <3>2 DEF FrameInPlace
      <3>4. PICK j \in 1..(Len(s) - 1) : s[j].kind = "receive" /\ s[j].pc = "user"
        BY <3>3 DEF ReceiveBelow
      <3>5. j \in DOMAIN s
        BY <2>1, <3>2, <3>4
      <3>6. Receiving(t)
        BY <3>4, <3>5 DEF Receiving
      <3> QED BY <2>7, <3>6, ReceiverOwnsLock
    <2> QED BY <2>2, <2>3, <2>4, <2>5, <2>6, <2>7
  <1> QED BY <1>1, TypeCorrect, LockAccounted, CallStatesInductive, PTL

(***************************************************************************)
(* Theorem: a value returned by one side waits for exactly the call that   *)
(* asked for it, and no call that ends with an exception takes one.        *)
(***************************************************************************)
THEOREM ResponsesReachTheirCalls == Spec => []ResponseReachesItsCall
  <1>1. TypeOK /\ CallStatesInv => ResponseReachesItsCall
    <2> SUFFICES ASSUME CallStatesInv, NEW t \in Threads
                 PROVE  /\ hostCall[t].type = "Response" => At(t, "callEnclave", "called") /\ ~throwing[t]
                        /\ enclaveCall[t].type = "Response" => At(t, "callOut", "called") /\ ~throwing[t]
      BY DEF ResponseReachesItsCall
    <2> QED BY DEF CallStatesInv, HostSide, EnclaveSide, At, Top
  <1> QED BY <1>1, TypeCorrect, CallStatesInductive, PTL

-----------------------------------------------------------------------------
(***************************************************************************)
(* Steps that leave the receives of a stack as they are, and bring in no   *)
(* close.                                                                  *)
(***************************************************************************)
ReceivesKept(r, s) ==
    /\ s \in Seq(Frames)
    /\ Receives(s) = Receives(r)
    /\ UserReceives(s) = UserReceives(r)
    /\ \A c : OwnedBy(r, c) => OwnedBy(s, c)

QuietMove(r, s) == ReceivesKept(r, s) /\ (CloseFree(r) => CloseFree(s))

\* Two such steps make one.
LEMMA QuietTwice ==
    ASSUME NEW r, NEW s, NEW q, QuietMove(r, s), QuietMove(s, q)
    PROVE  QuietMove(r, q)
  BY DEF QuietMove, ReceivesKept

\* The receives of a stack with one activation more.
LEMMA PushReceives ==
    ASSUME NEW s \in Seq(Frames), NEW f \in Frames
    PROVE  /\ CloseFree(s) /\ f.kind # "close" => CloseFree(Append(s, f))
           /\ Receives(Append(s, f)) = Receives(s) \cup (IF InReceive(f) THEN {Len(s) + 1} ELSE {})
           /\ UserReceives(Append(s, f)) = UserReceives(s) \cup (IF UserReceive(f) THEN {Len(s) + 1} ELSE {})
           /\ Len(s) + 1 \notin Receives(s) /\ Len(s) + 1 \notin UserReceives(s)
  <1>1. PICK r : r = Append(s, f)
    OBVIOUS
  <1>2. /\ Len(r) = Len(s) + 1 /\ Len(s) \in Nat /\ r[Len(s) + 1] = f
        /\ \A i \in 1..Len(s) : r[i] = s[i]
    BY <1>1, AppendFacts
  <1>3. 1..Len(r) = (1..Len(s)) \cup {Len(s) + 1} /\ Len(s) + 1 \notin 1..Len(s)
    BY <1>2
  <1>4. CloseFree(s) /\ f.kind # "close" => CloseFree(r)
    BY <1>2, <1>3 DEF CloseFree
  <1>5. Receives(r) = Receives(s) \cup (IF InReceive(f) THEN {Len(s) + 1} ELSE {})
    BY <1>2, <1>3 DEF Receives
  <1>6. UserReceives(r) = UserReceives(s) \cup (IF UserReceive(f) THEN {Len(s) + 1} ELSE {})
    BY <1>2, <1>3 DEF UserReceives
  <1>7. Len(s) + 1 \notin Receives(s) /\ Len(s) + 1 \notin UserReceives(s)
    BY <1>3 DEF Receives, UserReceives
  <1> QED BY <1>1, <1>4, <1>5, <1>6, <1>7

\* Pushing an activation on behalf of the one below.
LEMMA PushKeeps ==
    ASSUME NEW s \in Seq(Frames), NEW f \in Frames, ~InReceive(f),
           UserReceives(s) = {} \/ f.id = s[Len(s)].id
    PROVE  ReceivesKept(s, Append(s, f))
  <1>1. PICK r : r = Append(s, f)
    OBVIOUS
  <1>2. /\ Len(r) = Len(s) + 1 /\ Len(s) \in Nat /\ r[Len(s) + 1] = f /\ r \in Seq(Frames)
        /\ \A i \in 1..Len(s) : r[i] = s[i]
    BY <1>1, AppendFacts
  <1>3. ~UserReceive(f)
    BY DEF InReceive, UserReceive
  <1>4. Receives(r) = Receives(s) /\ UserReceives(r) = UserReceives(s)
    BY <1>1, <1>3, PushReceives
  <1>5. ASSUME NEW c, OwnedBy(s, c) PROVE OwnedBy(r, c)
    <2> SUFFICES ASSUME NEW i \in UserReceives(s), NEW j \in i..Len(r) PROVE r[j].id = c
      BY <1>4 DEF OwnedBy
    <2>1. i \in 1..Len(s) /\ Len(s) \in i..Len(s)
      BY <1>2 DEF UserReceives
    <2>2. s[Len(s)].id = c /\ f.id = c
      BY <1>5, <2>1 DEF OwnedBy
    <2>3. CASE j = Len(s) + 1
      BY <1>2, <2>2, <2>3
    <2>4. CASE j # Len(s) + 1
      <3>1. j \in i..Len(s) /\ j \in 1..Len(s)
        BY <1>2, <2>1, <2>4
      <3> QED BY <1>2, <1>5, <3>1 DEF OwnedBy
    <2> QED BY <2>3, <2>4
  <1> QED BY <1>1, <1>2, <1>4, <1>5 DEF ReceivesKept

\* If it is no close, that is a quiet move.
LEMMA QuietPush ==
    ASSUME NEW s \in Seq(Frames), NEW f \in Frames, f.kind # "close", ~InReceive(f),
           UserReceives(s) = {} \/ f.id = s[Len(s)].id
    PROVE  QuietMove(s, Append(s, f))
  <1>1. ReceivesKept(s, Append(s, f))
    BY PushKeeps
  <1>2. CloseFree(s) => CloseFree(Append(s, f))
    BY PushReceives
  <1> QED BY <1>1, <1>2 DEF QuietMove

\* Popping an activation that is no receive in progress.
LEMMA QuietPop ==
    ASSUME NEW s \in Seq(Frames), s # <<>>, ~InReceive(s[Len(s)])
    PROVE  QuietMove(s, SubSeq(s, 1, Len(s) - 1))
  <1>1. PICK p : p = SubSeq(s, 1, Len(s) - 1)
    OBVIOUS
  <1>2. PICK f : f = s[Len(s)]
    OBVIOUS
  <1>3. /\ Len(p) = Len(s) - 1 /\ Len(s) > 0 /\ p \in Seq(Frames) /\ f \in Frames /\ s = Append(p, f)
        /\ \A i \in 1..Len(p) : p[i] = s[i]
    BY <1>1, <1>2, StackSplit
  <1>4. Len(p) \in Nat /\ Len(s) = Len(p) + 1 /\ (1..Len(p)) \subseteq 1..Len(s)
    BY <1>3
  <1>5. CloseFree(s) => CloseFree(p)
    BY <1>3, <1>4 DEF CloseFree
  <1>6. ~InReceive(f) /\ ~UserReceive(f)
    BY <1>2 DEF InReceive, UserReceive
  <1>7. Receives(s) = Receives(p) /\ UserReceives(s) = UserReceives(p)
    <2>1. Receives(Append(p, f)) = Receives(p) /\ UserReceives(Append(p, f)) = UserReceives(p)
      <3>1. p \in Seq(Frames) /\ f \in Frames
        BY <1>3
      <3> QED BY <1>6, <3>1, PushReceives
    <2> QED BY <1>3, <2>1
  <1>8. ASSUME NEW c, OwnedBy(s, c) PROVE OwnedBy(p, c)
    <2> SUFFICES ASSUME NEW i \in UserReceives(p), NEW j \in i..Len(p) PROVE p[j].id = c
      BY DEF OwnedBy
    <2>1. i \in 1..Len(p) /\ j \in 1..Len(p) /\ j \in i..Len(s)
      BY <1>4 DEF UserReceives
    <2> QED BY <1>3, <1>7, <1>8, <2>1 DEF OwnedBy
  <1> QED BY <1>1, <1>3, <1>5, <1>7, <1>8 DEF QuietMove, ReceivesKept

\* A step within an activation that is no receive.
LEMMA TopKeeps ==
    ASSUME NEW s \in Seq(Frames), s # <<>>, NEW g \in Frames, g.kind = s[Len(s)].kind, g.id = s[Len(s)].id,
           g.kind # "receive"
    PROVE  ReceivesKept(s, Append(SubSeq(s, 1, Len(s) - 1), g))
  <1>1. PICK p : p = SubSeq(s, 1, Len(s) - 1)
    OBVIOUS
  <1>2. PICK q : q = Append(p, g)
    OBVIOUS
  <1>3. /\ Len(p) = Len(s) - 1 /\ Len(s) > 0 /\ p \in Seq(Frames)
        /\ \A i \in 1..Len(p) : p[i] = s[i]
    BY <1>1, StackSplit
  <1>4. /\ Len(q) = Len(s) /\ q \in Seq(Frames)
        /\ \A i \in 1..Len(p) : q[i] = s[i]
        /\ q[Len(s)] = g
    BY <1>2, <1>3, AppendFacts
  <1>5. ASSUME NEW i \in 1..Len(s)
        PROVE  q[i].kind = s[i].kind /\ q[i].id = s[i].id /\ (q[i].kind = "receive" => q[i].pc = s[i].pc)
    <2>1. CASE i = Len(s)
      BY <1>4, <2>1
    <2>2. CASE i # Len(s)
      <3>1. i \in 1..Len(p)
        BY <1>3, <2>2
      <3> QED BY <1>4, <3>1
    <2> QED BY <2>1, <2>2
  <1>7. Receives(q) = Receives(s) /\ UserReceives(q) = UserReceives(s)
    BY <1>4, <1>5 DEF Receives, UserReceives, InReceive, UserReceive
  <1>8. ASSUME NEW c, OwnedBy(s, c) PROVE OwnedBy(q, c)
    <2> SUFFICES ASSUME NEW i \in UserReceives(s), NEW j \in i..Len(s) PROVE q[j].id = c
      BY <1>4, <1>7 DEF OwnedBy
    <2>1. j \in 1..Len(s)
      BY <1>3 DEF UserReceives
    <2> QED BY <1>5, <1>8, <2>1 DEF OwnedBy
  <1> QED BY <1>1, <1>2, <1>4, <1>7, <1>8 DEF ReceivesKept

\* If it is no close either, that is a quiet move.
LEMMA QuietTop ==
    ASSUME NEW s \in Seq(Frames), s # <<>>, NEW g \in Frames, g.kind = s[Len(s)].kind, g.id = s[Len(s)].id,
           g.kind # "close", g.kind # "receive"
    PROVE  QuietMove(s, Append(SubSeq(s, 1, Len(s) - 1), g))
  <1>1. PICK p : p = SubSeq(s, 1, Len(s) - 1)
    OBVIOUS
  <1>2. Len(p) = Len(s) - 1 /\ Len(s) > 0 /\ p \in Seq(Frames) /\ \A i \in 1..Len(p) : p[i] = s[i]
    BY <1>1, StackSplit
  <1>3. CloseFree(s) => CloseFree(p)
    BY <1>2 DEF CloseFree
  <1>4. CloseFree(p) => CloseFree(Append(p, g))
    BY <1>2, PushReceives
  <1>5. ReceivesKept(s, Append(p, g))
    BY <1>1, TopKeeps
  <1> QED BY <1>1, <1>3, <1>4, <1>5 DEF QuietMove

\* The steps of calls that begin or end no receive.
QuietStep(t) ==
    \/ \E k \in IntoKinds, cb \in BOOLEAN : CallIntoEnclave(t, k, cb)
    \/ EnterEnclave(t) \/ RejectReceive(t) \/ CreateMail(t) \/ PostMail(t)
    \/ \E cb \in BOOLEAN : CallUntrustedHost(t, cb)
    \/ \E r \in BOOLEAN : HostCallbackReturns(t, r)
    \/ CallUntrustedHostReturns(t)
    \/ \E r \in BOOLEAN : EnclaveCallbackReturns(t, r)
    \/ CallIntoEnclaveReturns(t) \/ CommandsReturn(t) \/ Catch(t)
    \/ Fail(t) /\ Top(t).kind # "receive"

\* A call from outside of every other call is made by a thread without receives.
LEMMA OutermostNoReceive ==
    ASSUME NEW s \in Seq(Frames), s # <<>>, WellNested(s), s[Len(s)].kind \in IntoKinds,
           s[Len(s)].prev = Ready
    PROVE  UserReceives(s) = {}
  <1>1. Len(s) > 0 /\ Len(s) \in Nat /\ FrameInPlace(s, Len(s))
    BY StackSplit, PopNested
  <1>2. HostStateAt(s, Len(s) - 1, Ready) /\ Ready.type # "IntoEnclave"
    BY <1>1 DEF FrameInPlace, Ready
  <1>3. \A j \in 1..(Len(s) - 1) : s[j].kind \notin IntoKinds
    BY <1>2 DEF HostStateAt
  <1>4. ASSUME NEW i \in UserReceives(s) PROVE FALSE
    <2>1. i \in 1..Len(s) /\ s[i].kind = "receive"
      BY <1>4 DEF UserReceives, UserReceive
    <2>2. FrameInPlace(s, i)
      BY <2>1 DEF WellNested
    <2>3. i > 1 /\ s[i - 1].kind \in IntoKinds
      BY <2>1, <2>2 DEF FrameInPlace
    <2>4. i - 1 \in 1..(Len(s) - 1)
      BY <1>1, <2>1, <2>3
    <2> QED BY <1>3, <2>3, <2>4
  <1> QED BY <1>4

\* Such a step is a quiet move of the thread's stack, which has no close on top.
LEMMA QuietSteps ==
    ASSUME TypeOK, CallStatesInv, NEW t \in Threads, QuietStep(t)
    PROVE  /\ \E s : QuietMove(stack[t], s) /\ stack' = [stack EXCEPT ![t] = s]
           /\ stack[t] = <<>> \/ Top(t).kind # "close"
  <1> DEFINE Goal == /\ \E s : QuietMove(stack[t], s) /\ stack' = [stack EXCEPT ![t] = s]
                     /\ stack[t] = <<>> \/ Top(t).kind # "close"
  <1>0. stack \in [Threads -> Seq(Frames)] /\ stack[t] \in Seq(Frames)
    BY DEF TypeOK, ThreadTypes
  <1>1. stack[t] # <<>> /\ ~InReceive(Top(t)) => QuietMove(stack[t], Popped(t))
    BY <1>0, QuietPop DEF Top, Popped
  <1>2. \A k, pc, p : Frame(t, k, pc, p).id = IF stack[t] = <<>> THEN 0 ELSE Top(t).id
    BY DEF Frame
  <1>3. stack[t] = <<>> => UserReceives(stack[t]) = {}
    <2>1. Len(<<>>) = 0 /\ 1..0 = {}
      OBVIOUS
    <2> QED BY <2>1 DEF UserReceives
  <1>4. QuietMove(stack[t], stack[t])
    BY <1>0 DEF QuietMove, ReceivesKept
  <1>5. \A f \in Frames : f.kind # "close" /\ ~InReceive(f) /\ (stack[t] # <<>> => f.id = Top(t).id)
             => QuietMove(stack[t], Append(stack[t], f))
    BY <1>0, <1>3, QuietPush DEF Top
  <1>6. ASSUME NEW k \in IntoKinds, NEW cb \in BOOLEAN, CallIntoEnclave(t, k, cb) PROVE Goal
    <2>1. PICK f : f = Frame(t, k, "enter", hostCall[t])
      OBVIOUS
    <2>2. f \in Frames
      BY <2>1, FrameTypes DEF TypeOK, HostTypes
    <2>3. f.kind # "close" /\ ~InReceive(f) /\ (stack[t] # <<>> => f.id = Top(t).id)
      BY <1>2, <2>1, FrameFields DEF IntoKinds, InReceive
    <2>4. QuietMove(stack[t], Append(stack[t], f))
      BY <1>5, <2>2, <2>3
    <2>5. stack' = [stack EXCEPT ![t] = Append(stack[t], f)]
      BY <1>6, <2>1 DEF CallIntoEnclave, Resume
    <2>6. stack[t] = <<>> \/ Top(t).kind # "close"
      BY <1>6 DEF CallIntoEnclave, HostCode, At, HostUser
    <2> QED BY <2>4, <2>5, <2>6
  <1>7. ASSUME EnterEnclave(t) PROVE Goal
    <2>1. stack[t] # <<>> /\ Top(t).kind \in IntoKinds
      BY <1>7 DEF EnterEnclave, At
    <2>2. PICK g : g = [Top(t) EXCEPT !.pc = "called"]
      OBVIOUS
    <2>3. g \in Frames /\ g.kind = Top(t).kind /\ g.id = Top(t).id /\ g.kind # "close" /\ g.kind # "receive"
      BY <2>1, <2>2, FrameTypes, ZenonT(40) DEF Frames, IntoKinds
    <2>4. PICK s : s = Goto(t, "called")
      OBVIOUS
    <2>5. s = Append(Popped(t), g) /\ Popped(t) \in Seq(Frames)
      BY <2>1, <2>2, <2>4, FrameTypes DEF Goto
    <2>6. QuietMove(stack[t], s)
      BY <1>0, <2>1, <2>3, <2>5, QuietTop DEF Top, Popped
    <2>7. s \in Seq(Frames) /\ s[Len(s)].id = Top(t).id
      BY <2>3, <2>5, AppendFacts
    <2>8. ASSUME NEW f \in {Frame(t, "receive", "lock", Ready), Frame(t, "enclaveCallback", "user", Ready)}
          PROVE  QuietMove(stack[t], Append(s, f))
      <3>1. f \in Frames
        BY <2>8, FrameTypes, CallStateTypes DEF EnclaveUser
      <3>2. f.kind # "close" /\ ~InReceive(f) /\ f.id = Top(t).id
        BY <1>2, <2>1, <2>8, FrameFields DEF InReceive
      <3>3. QuietMove(s, Append(s, f))
        BY <2>7, <3>1, <3>2, QuietPush
      <3> QED BY <2>6, <3>3, QuietTwice
    <2>9. \/ stack' = [stack EXCEPT ![t] = s]
          \/ stack' = [stack EXCEPT ![t] = Append(s, Frame(t, "receive", "lock", Ready))]
          \/ stack' = [stack EXCEPT ![t] = Append(s, Frame(t, "enclaveCallback", "user", Ready))]
      BY <1>7, <2>4 DEF EnterEnclave, Resume
    <2>10. Top(t).kind # "close"
      BY <2>1 DEF IntoKinds
    <2> QED BY <2>6, <2>8, <2>9, <2>10
  <1>8. ASSUME RejectReceive(t) PROVE Goal
    <2>1. stack[t] # <<>> /\ ~InReceive(Top(t)) /\ Top(t).kind # "close"
      BY <1>8 DEF RejectReceive, At, InReceive
    <2>2. stack' = [stack EXCEPT ![t] = Popped(t)]
      BY <1>8 DEF RejectReceive, Resume
    <2> QED BY <1>1, <2>1, <2>2
  <1>9. ASSUME CreateMail(t) \/ PostMail(t) PROVE Goal
    <2>1. stack' = [stack EXCEPT ![t] = stack[t]]
      BY <1>0, <1>9 DEF CreateMail, PostMail
    <2>2. Top(t).kind # "close"
      BY <1>9 DEF CreateMail, PostMail, EnclaveCode, At, EnclaveUser
    <2> QED BY <1>4, <2>1, <2>2
  <1>10. ASSUME NEW cb \in BOOLEAN, CallUntrustedHost(t, cb) PROVE Goal
    <2>1. stack[t] # <<>> /\ Top(t).kind # "close"
      BY <1>10 DEF CallUntrustedHost, EnclaveCode, At, EnclaveUser
    <2>2. PICK f : f = Frame(t, "callOut", "called", enclaveCall[t])
      OBVIOUS
    <2>3. PICK c : c = Frame(t, "hostCallback", "user", Ready)
      OBVIOUS
    <2>4. f \in Frames /\ c \in Frames
      BY <2>2, <2>3, FrameTypes, CallStateTypes DEF TypeOK, EnclaveTypes, HostUser
    <2>5. /\ f.kind # "close" /\ ~InReceive(f) /\ f.id = Top(t).id
          /\ c.kind # "close" /\ ~InReceive(c) /\ c.id = Top(t).id
      BY <1>2, <2>1, <2>2, <2>3, FrameFields DEF InReceive
    <2>6. PICK s : s = Append(stack[t], f)
      OBVIOUS
    <2>7. QuietMove(stack[t], s)
      BY <1>5, <2>4, <2>5, <2>6
    <2>8. s \in Seq(Frames) /\ s[Len(s)] = f
      BY <1>0, <2>4, <2>6, AppendFacts
    <2>9. QuietMove(s, Append(s, c))
      BY <2>4, <2>5, <2>8, QuietPush
    <2>10. QuietMove(stack[t], Append(s, c))
      BY <2>7, <2>9, QuietTwice
    <2>11. stack' = [stack EXCEPT ![t] = s] \/ stack' = [stack EXCEPT ![t] = Append(s, c)]
      BY <1>10, <2>2, <2>3, <2>6 DEF CallUntrustedHost, Resume
    <2> QED BY <2>1, <2>7, <2>10, <2>11
  <1>11. ASSUME NEW r \in BOOLEAN,
                \/ HostCallbackReturns(t, r) \/ EnclaveCallbackReturns(t, r)
                \/ CallUntrustedHostReturns(t) \/ CommandsReturn(t)
         PROVE  Goal
    <2>1. stack[t] # <<>> /\ ~InReceive(Top(t)) /\ Top(t).kind # "close"
      BY <1>11 DEF HostCallbackReturns, EnclaveCallbackReturns, CallUntrustedHostReturns, CommandsReturn,
                   At, InReceive
    <2>2. stack' = [stack EXCEPT ![t] = Popped(t)]
      BY <1>11 DEF HostCallbackReturns, EnclaveCallbackReturns, CallUntrustedHostReturns, CommandsReturn, Resume
    <2> QED BY <1>1, <2>1, <2>2
  <1>12. ASSUME CallIntoEnclaveReturns(t) PROVE Goal
    <2>1. stack[t] # <<>> /\ Top(t).kind \in IntoKinds
      BY <1>12 DEF CallIntoEnclaveReturns, At
    <2>2. ~InReceive(Top(t)) /\ Top(t).kind # "close"
      BY <2>1 DEF InReceive, IntoKinds
    <2>3. QuietMove(stack[t], Popped(t)) /\ Popped(t) \in Seq(Frames)
      BY <1>1, <2>1, <2>2, FrameTypes
    <2>4. ASSUME Top(t).prev = Ready
          PROVE  QuietMove(stack[t], Append(Popped(t), Frame(t, "commands", "user", Ready)))
      <3>1. WellNested(stack[t])
        BY DEF CallStatesInv
      <3>2. UserReceives(stack[t]) = {}
        BY <1>0, <2>1, <2>4, <3>1, OutermostNoReceive DEF Top
      <3>3. UserReceives(Popped(t)) = {}
        BY <2>3, <3>2 DEF QuietMove, ReceivesKept
      <3>4. PICK f : f = Frame(t, "commands", "user", Ready)
        OBVIOUS
      <3>5. f \in Frames
        BY <3>4, FrameTypes, CallStateTypes DEF HostUser
      <3>6. f.kind # "close" /\ ~InReceive(f)
        BY <3>4, FrameFields DEF InReceive
      <3>7. QuietMove(Popped(t), Append(Popped(t), f))
        BY <2>3, <3>3, <3>5, <3>6, QuietPush
      <3> QED BY <2>3, <3>4, <3>7, QuietTwice
    <2>5. \/ stack' = [stack EXCEPT ![t] = Popped(t)]
          \/ /\ Top(t).prev = Ready
             /\ stack' = [stack EXCEPT ![t] = Append(Popped(t), Frame(t, "commands", "user", Ready))]
      BY <1>12 DEF CallIntoEnclaveReturns, FireMailCommands, Resume
    <2> QED BY <2>2, <2>3, <2>4, <2>5
  <1>13. ASSUME Catch(t) PROVE Goal
    <2>1. stack' = [stack EXCEPT ![t] = stack[t]] /\ Top(t).kind # "close"
      BY <1>13 DEF Catch, Resume, At, HostUser, EnclaveUser
    <2> QED BY <1>4, <2>1
  <1>14. ASSUME Fail(t), Top(t).kind # "receive" PROVE Goal
    <2>1. stack[t] # <<>> /\ ~InReceive(Top(t)) /\ Top(t).kind # "close"
      BY <1>14 DEF Fail, At, InReceive, HostUser, EnclaveUser
    <2>2. stack' = [stack EXCEPT ![t] = Popped(t)]
      BY <1>14 DEF Fail, Resume
    <2> QED BY <1>1, <2>1, <2>2
  <1> QED BY <1>6, <1>7, <1>8, <1>9, <1>10, <1>11, <1>12, <1>13, <1>14 DEF QuietStep

-----------------------------------------------------------------------------
(***************************************************************************)
(* The shutdown.                                                           *)
(***************************************************************************)
\* What a step of thread t does to the set of receives in progress.
LEMMA AllReceivesStep ==
    ASSUME TypeOK, NEW t \in Threads, NEW s, stack' = [stack EXCEPT ![t] = s]
    PROVE  /\ Receives(s) = Receives(stack[t]) => AllReceives' = AllReceives
           /\ \A n \in Nat : Receives(s) = Receives(stack[t]) \cup {n} =>
                 AllReceives' = AllReceives \cup {<<t, n>>}
           /\ \A n \in Nat : Receives(stack[t]) = Receives(s) \cup {n} /\ n \notin Receives(s) =>
                 AllReceives' = AllReceives \ {<<t, n>>} /\ <<t, n>> \in AllReceives
           /\ \A n \in Nat : n \notin Receives(stack[t]) => <<t, n>> \notin AllReceives
  <1>1. \A u \in Threads : stack'[u] = IF u = t THEN s ELSE stack[u]
    BY DEF TypeOK, ThreadTypes
  <1>2. AllReceives' = {p \in Threads \X Nat : p[2] \in Receives(IF p[1] = t THEN s ELSE stack[p[1]])}
    BY <1>1 DEF AllReceives
  <1>3. Receives(s) = Receives(stack[t]) => AllReceives' = AllReceives
    BY <1>2 DEF AllReceives
  <1>4. ASSUME NEW n \in Nat, Receives(s) = Receives(stack[t]) \cup {n}
        PROVE  AllReceives' = AllReceives \cup {<<t, n>>}
    BY <1>2, <1>4 DEF AllReceives
  <1>5. ASSUME NEW n \in Nat, Receives(stack[t]) = Receives(s) \cup {n}, n \notin Receives(s)
        PROVE  AllReceives' = AllReceives \ {<<t, n>>} /\ <<t, n>> \in AllReceives
    BY <1>2, <1>5 DEF AllReceives
  <1>6. ASSUME NEW n \in Nat, n \notin Receives(stack[t])
        PROVE  <<t, n>> \notin AllReceives
    BY <1>6 DEF AllReceives
  <1> QED BY <1>3, <1>4, <1>5, <1>6

\* A thread whose topmost activation is no close has none at all.
LEMMA NoClose ==
    ASSUME TypeOK, ShutdownInv, NEW t \in Threads, stack[t] = <<>> \/ Top(t).kind # "close"
    PROVE  CloseFree(stack[t])
  <1>1. stack[t] \in Seq(Frames) /\ CloseAlone(stack[t])
    BY DEF TypeOK, ThreadTypes, ShutdownInv
  <1>2. CASE stack[t] = <<>>
    <2>1. Len(<<>>) = 0 /\ 1..0 = {}
      OBVIOUS
    <2> QED BY <1>2, <2>1 DEF CloseFree
  <1>3. CASE stack[t] # <<>>
    BY <1>1, <1>3 DEF CloseAlone, CloseFree, Top
  <1> QED BY <1>2, <1>3

\* What the closes of all threads say after a step of thread t to a stack without a close.
LEMMA ClosesElsewhere ==
    ASSUME TypeOK, ShutdownInv, NEW t \in Threads, NEW s, CloseFree(s), stack' = [stack EXCEPT ![t] = s]
    PROVE  /\ \A u \in Threads : CloseAlone(stack'[u])
           /\ (\E u \in Threads : \E i \in 1..Len(stack'[u]) : StopPassed(stack'[u][i])) =>
                 \E u \in Threads : \E i \in 1..Len(stack[u]) : StopPassed(stack[u][i])
           /\ (\E u \in Threads : \E i \in 1..Len(stack'[u]) : ShutPassed(stack'[u][i])) =>
                 \E u \in Threads : \E i \in 1..Len(stack[u]) : ShutPassed(stack[u][i])
  <1>1. \A u \in Threads : stack'[u] = IF u = t THEN s ELSE stack[u]
    BY DEF TypeOK, ThreadTypes
  <1>2. \A i \in 1..Len(s) : ~StopPassed(s[i]) /\ ~ShutPassed(s[i])
    BY DEF CloseFree, StopPassed, ShutPassed
  <1>3. ASSUME NEW u \in Threads PROVE CloseAlone(stack'[u])
    BY <1>1 DEF CloseAlone, ShutdownInv
  <1>4. ASSUME NEW u \in Threads, NEW i \in 1..Len(stack'[u]), StopPassed(stack'[u][i])
        PROVE  \E v \in Threads : \E j \in 1..Len(stack[v]) : StopPassed(stack[v][j])
    BY <1>1, <1>2, <1>4
  <1>5. ASSUME NEW u \in Threads, NEW i \in 1..Len(stack'[u]), ShutPassed(stack'[u][i])
        PROVE  \E v \in Threads : \E j \in 1..Len(stack[v]) : ShutPassed(stack[v][j])
    BY <1>1, <1>2, <1>5
  <1> QED BY <1>3, <1>4, <1>5

\* Steps that begin and end no receive keep the shutdown invariant.
LEMMA QuietShutdown ==
    ASSUME TypeOK, ShutdownInv, NEW t \in Threads, NEW s, CloseFree(stack[t]) => CloseFree(s),
           Receives(s) = Receives(stack[t]),
           stack' = [stack EXCEPT ![t] = s], stack[t] = <<>> \/ Top(t).kind # "close",
           UNCHANGED <<destroyed, enclaveState, executing>>
    PROVE  ShutdownInv'
  <1>1. CloseFree(s)
    BY NoClose
  <1>2. AllReceives' = AllReceives
    BY AllReceivesStep
  <1>3. \A u \in Threads : CloseAlone(stack'[u])
    BY <1>1, ClosesElsewhere
  <1>4. ClosedOnceStopped' /\ QuietOnceShut'
    <2>1. /\ (\E u \in Threads : \E i \in 1..Len(stack'[u]) : StopPassed(stack'[u][i])) =>
                \E u \in Threads : \E i \in 1..Len(stack[u]) : StopPassed(stack[u][i])
          /\ (\E u \in Threads : \E i \in 1..Len(stack'[u]) : ShutPassed(stack'[u][i])) =>
                \E u \in Threads : \E i \in 1..Len(stack[u]) : ShutPassed(stack[u][i])
      BY <1>1, ClosesElsewhere
    <2>2. ClosedOnceStopped /\ QuietOnceShut
      BY DEF ShutdownInv
    <2>3. ClosedOnceStopped'
      BY <2>1, <2>2 DEF ClosedOnceStopped
    <2>4. QuietOnceShut'
      BY <1>2, <2>1, <2>2 DEF QuietOnceShut
    <2> QED BY <2>3, <2>4
  <1>5. ReceivesCounted'
    BY <1>2 DEF ShutdownInv, ReceivesCounted
  <1> QED BY <1>3, <1>4, <1>5 DEF ShutdownInv

\* A receive begins only while no close has stopped the enclave.
LEMMA BeginShutdown ==
    ASSUME TypeOK, ShutdownInv, NEW t \in Threads, BeginReceive(t)
    PROVE  ShutdownInv'
  <1>1. stack[t] \in Seq(Frames) /\ stack[t] # <<>> /\ Top(t).kind = "receive" /\ Top(t).pc = "lock"
    BY DEF TypeOK, ThreadTypes, BeginReceive, At
  <1>2. PICK f : f = [Top(t) EXCEPT !.pc = "user", !.id = nextId]
    OBVIOUS
  <1>3. f \in Frames /\ f.kind = "receive" /\ f.pc = "user"
    <2>1. Top(t) \in Frames /\ nextId \in Nat
      BY <1>1, FrameTypes DEF TypeOK, EnclaveTypes
    <2> QED BY <1>1, <1>2, <2>1 DEF Frames
  <1>4. PICK p : p = Popped(t)
    OBVIOUS
  <1>5. p \in Seq(Frames) /\ Len(p) + 1 = Len(stack[t]) /\ Len(p) \in Nat /\ QuietMove(stack[t], p)
    <2>1. ~InReceive(Top(t))
      BY <1>1 DEF InReceive
    <2>2. p \in Seq(Frames) /\ Len(p) = Len(stack[t]) - 1
      BY <1>1, <1>4, StackSplit DEF Popped
    <2>3. QuietMove(stack[t], p)
      BY <1>1, <1>4, <2>1, QuietPop DEF Popped, Top
    <2> QED BY <1>1, <2>2, <2>3
  <1>6. PICK s : s = Append(p, f)
    OBVIOUS
  <1>7. stack' = [stack EXCEPT ![t] = s] /\ UNCHANGED <<destroyed, enclaveState>> /\ enclaveState = "Started"
    BY <1>2, <1>4, <1>6 DEF BeginReceive, Resume, hostVars
  <1>8. CloseFree(s)
    <2>1. CloseFree(p)
      BY <1>1, <1>5, NoClose DEF QuietMove, ReceivesKept
    <2> QED BY <1>3, <1>5, <1>6, <2>1, PushReceives
  <1>9. Receives(s) = Receives(stack[t]) \cup {Len(stack[t])} /\ Len(stack[t]) \notin Receives(stack[t])
    <2>1. InReceive(f)
      BY <1>3 DEF InReceive
    <2>2. Receives(s) = Receives(p) \cup {Len(p) + 1} /\ Len(p) + 1 \notin Receives(p)
      BY <1>3, <1>5, <1>6, <2>1, PushReceives
    <2>3. Receives(p) = Receives(stack[t])
      BY <1>5 DEF QuietMove, ReceivesKept
    <2> QED BY <1>5, <2>2, <2>3
  <1>10. Len(stack[t]) \in Nat
    BY <1>1
  <1>11. AllReceives' = AllReceives \cup {<<t, Len(stack[t])>>} /\ <<t, Len(stack[t])>> \notin AllReceives
    BY <1>7, <1>9, <1>10, AllReceivesStep
  <1>12. \A u \in Threads : CloseAlone(stack'[u])
    BY <1>7, <1>8, ClosesElsewhere
  <1>13. ~destroyed /\ ~\E u \in Threads : \E i \in 1..Len(stack[u]) : StopPassed(stack[u][i])
    BY <1>7 DEF ShutdownInv, ClosedOnceStopped
  <1>14. ~\E u \in Threads : \E i \in 1..Len(stack[u]) : ShutPassed(stack[u][i])
    BY <1>13 DEF StopPassed, ShutPassed
  <1>15. ClosedOnceStopped' /\ QuietOnceShut'
    <2>1. ~\E u \in Threads : \E i \in 1..Len(stack'[u]) : StopPassed(stack'[u][i])
      BY <1>7, <1>8, <1>13, ClosesElsewhere
    <2>2. ~\E u \in Threads : \E i \in 1..Len(stack'[u]) : ShutPassed(stack'[u][i])
      BY <1>7, <1>8, <1>14, ClosesElsewhere
    <2> QED BY <1>7, <1>13, <2>1, <2>2 DEF ClosedOnceStopped, QuietOnceShut
  <1>16. ReceivesCounted'
    <2> SUFFICES ASSUME ThreadSafe
                 PROVE  IsFiniteSet(AllReceives') /\ executing' = Cardinality(AllReceives')
      BY DEF ReceivesCounted
    <2>1. IsFiniteSet(AllReceives) /\ executing = Cardinality(AllReceives) /\ executing' = executing + 1
      BY DEF ShutdownInv, ReceivesCounted, BeginReceive
    <2> QED BY <1>11, <2>1, FS_AddElement
  <1> QED BY <1>12, <1>15, <1>16 DEF ShutdownInv

\* A receive ends and is counted no longer.
LEMMA ExitShutdown ==
    ASSUME TypeOK, ShutdownInv, NEW t \in Threads, NEW r \in BOOLEAN, ExitReceive(t, r)
    PROVE  ShutdownInv'
  <1>1. stack[t] \in Seq(Frames) /\ stack[t] # <<>> /\ Top(t).kind = "receive" /\ Top(t).pc = "exit"
    BY DEF TypeOK, ThreadTypes, ExitReceive, At
  <1>2. PICK p : p = Popped(t)
    OBVIOUS
  <1>3. PICK f : f = Top(t)
    OBVIOUS
  <1>4. p \in Seq(Frames) /\ Len(p) + 1 = Len(stack[t]) /\ f \in Frames /\ stack[t] = Append(p, f) /\ Len(stack[t]) \in Nat
    <2>1. p \in Seq(Frames) /\ Len(p) = Len(stack[t]) - 1 /\ f \in Frames /\ stack[t] = Append(p, f)
      BY <1>1, <1>2, <1>3, StackSplit DEF Popped, Top
    <2> QED BY <1>1, <2>1
  <1>5. stack' = [stack EXCEPT ![t] = p] /\ UNCHANGED <<destroyed, enclaveState>>
    BY <1>2 DEF ExitReceive, Resume
  <1>6. CloseFree(p)
    <2>1. CloseFree(stack[t])
      BY <1>1, NoClose
    <2>2. \A i \in 1..Len(p) : p[i] = stack[t][i] /\ i \in 1..Len(stack[t])
      BY <1>1, <1>2, StackSplit DEF Popped
    <2> QED BY <2>1, <2>2 DEF CloseFree
  <1>7. Receives(stack[t]) = Receives(p) \cup {Len(stack[t])} /\ Len(stack[t]) \notin Receives(p)
    <2>1. InReceive(f)
      BY <1>1, <1>3 DEF InReceive
    <2>2. Receives(Append(p, f)) = Receives(p) \cup {Len(p) + 1} /\ Len(p) + 1 \notin Receives(p)
      <3>1. p \in Seq(Frames) /\ f \in Frames
        BY <1>4
      <3> QED BY <2>1, <3>1, PushReceives
    <2> QED BY <1>4, <2>2
  <1>8. AllReceives' = AllReceives \ {<<t, Len(stack[t])>>} /\ <<t, Len(stack[t])>> \in AllReceives
    BY <1>4, <1>5, <1>7, AllReceivesStep
  <1>9. \A u \in Threads : CloseAlone(stack'[u])
    BY <1>5, <1>6, ClosesElsewhere
  <1>10. /\ (\E u \in Threads : \E i \in 1..Len(stack'[u]) : StopPassed(stack'[u][i])) =>
               \E u \in Threads : \E i \in 1..Len(stack[u]) : StopPassed(stack[u][i])
         /\ (\E u \in Threads : \E i \in 1..Len(stack'[u]) : ShutPassed(stack'[u][i])) =>
               \E u \in Threads : \E i \in 1..Len(stack[u]) : ShutPassed(stack[u][i])
    BY <1>5, <1>6, ClosesElsewhere
  <1>11. ClosedOnceStopped'
    BY <1>5, <1>10 DEF ShutdownInv, ClosedOnceStopped
  <1>12. QuietOnceShut'
    BY <1>5, <1>8, <1>10 DEF ShutdownInv, QuietOnceShut
  <1>13. ReceivesCounted'
    <2> SUFFICES ASSUME ThreadSafe
                 PROVE  IsFiniteSet(AllReceives') /\ executing' = Cardinality(AllReceives')
      BY DEF ReceivesCounted
    <2>1. IsFiniteSet(AllReceives) /\ executing = Cardinality(AllReceives) /\ executing' = executing - 1
      BY DEF ShutdownInv, ReceivesCounted, ExitReceive
    <2> QED BY <1>8, <2>1, FS_RemoveElement
  <1> QED BY <1>9, <1>11, <1>12, <1>13 DEF ShutdownInv

\* The method of a receive ends: the receive is still in progress, but runs it no longer.
LEMMA MethodEnds ==
    ASSUME TypeOK, NEW t \in Threads, At(t, "receive", "user"),
           NEW s \in {Goto(t, "exit"), Append(Goto(t, "exit"), Frame(t, "commands", "user", Ready))}
    PROVE  /\ CloseFree(stack[t]) => CloseFree(s)
           /\ Receives(s) = Receives(stack[t])
           /\ UserReceives(stack[t]) = UserReceives(s) \cup {Len(stack[t])}
           /\ Len(stack[t]) \notin UserReceives(s)
  <1>1. stack[t] \in Seq(Frames) /\ stack[t] # <<>> /\ Top(t).kind = "receive" /\ Top(t).pc = "user"
    BY DEF TypeOK, ThreadTypes, At
  <1>2. PICK p : p = Popped(t)
    OBVIOUS
  <1>3. PICK f : f = Top(t)
    OBVIOUS
  <1>4. PICK g : g = [Top(t) EXCEPT !.pc = "exit"]
    OBVIOUS
  <1>5. p \in Seq(Frames) /\ Len(p) + 1 = Len(stack[t]) /\ f \in Frames /\ stack[t] = Append(p, f)
    <2>1. p \in Seq(Frames) /\ Len(p) = Len(stack[t]) - 1 /\ f \in Frames /\ stack[t] = Append(p, f)
      BY <1>1, <1>2, <1>3, StackSplit DEF Popped, Top
    <2> QED BY <1>1, <2>1
  <1>6. g \in Frames /\ g.kind = "receive" /\ g.pc = "exit"
    BY <1>1, <1>3, <1>4, <1>5 DEF Frames
  <1>7. InReceive(f) /\ UserReceive(f) /\ InReceive(g) /\ ~UserReceive(g)
    BY <1>1, <1>3, <1>6 DEF InReceive, UserReceive
  <1>8. /\ Receives(stack[t]) = Receives(p) \cup {Len(stack[t])}
        /\ UserReceives(stack[t]) = UserReceives(p) \cup {Len(stack[t])}
        /\ Len(stack[t]) \notin UserReceives(p)
    <2>1. /\ Receives(Append(p, f)) = Receives(p) \cup {Len(p) + 1}
          /\ UserReceives(Append(p, f)) = UserReceives(p) \cup {Len(p) + 1}
          /\ Len(p) + 1 \notin UserReceives(p)
      <3>1. p \in Seq(Frames) /\ f \in Frames
        BY <1>5
      <3> QED BY <1>7, <3>1, PushReceives
    <2> QED BY <1>5, <2>1
  <1>9. CloseFree(stack[t]) => CloseFree(p)
    <2>1. \A i \in 1..Len(p) : p[i] = stack[t][i] /\ i \in 1..Len(stack[t])
      BY <1>1, <1>2, StackSplit DEF Popped
    <2> QED BY <2>1 DEF CloseFree
  <1>10. PICK q : q = Goto(t, "exit")
    OBVIOUS
  <1>11. q = Append(p, g) /\ q \in Seq(Frames)
    BY <1>1, <1>2, <1>4, <1>10, FrameTypes DEF Goto
  <1>12. /\ CloseFree(p) => CloseFree(q)
         /\ Receives(q) = Receives(p) \cup {Len(stack[t])}
         /\ UserReceives(q) = UserReceives(p)
    <2>1. /\ CloseFree(p) => CloseFree(Append(p, g))
          /\ Receives(Append(p, g)) = Receives(p) \cup {Len(p) + 1}
          /\ UserReceives(Append(p, g)) = UserReceives(p)
      BY <1>5, <1>6, <1>7, PushReceives
    <2> QED BY <1>5, <1>11, <2>1
  <1>13. PICK c : c = Frame(t, "commands", "user", Ready)
    OBVIOUS
  <1>14. c \in Frames
    BY <1>13, FrameTypes, CallStateTypes DEF HostUser
  <1>15. c.kind # "close" /\ ~InReceive(c) /\ ~UserReceive(c)
    BY <1>13, FrameFields DEF InReceive, UserReceive
  <1>16. /\ CloseFree(q) => CloseFree(Append(q, c))
         /\ Receives(Append(q, c)) = Receives(q)
         /\ UserReceives(Append(q, c)) = UserReceives(q)
    <2>1. q \in Seq(Frames)
      BY <1>11
    <2> QED BY <2>1, <1>14, <1>15, PushReceives
  <1>17. s = q \/ s = Append(q, c)
    BY <1>10, <1>13
  <1>18. CASE s = q
    BY <1>8, <1>9, <1>12, <1>18
  <1>19. CASE s = Append(q, c)
    BY <1>8, <1>9, <1>12, <1>16, <1>19
  <1> QED BY <1>17, <1>18, <1>19

\* A step of close.
LEMMA ClosingStep ==
    ASSUME TypeOK, ShutdownInv, NEW t \in Threads, NEW s, CloseAlone(s), Receives(s) = Receives(stack[t]),
           stack' = [stack EXCEPT ![t] = s], UNCHANGED executing,
           \/ enclaveState' = "Closed"
           \/ UNCHANGED <<enclaveState, destroyed>> /\ \A i \in 1..Len(s) : ~StopPassed(s[i]),
           \/ AllReceives = {}
           \/ UNCHANGED destroyed /\ \A i \in 1..Len(s) : ~ShutPassed(s[i])
    PROVE  ShutdownInv'
  <1>1. \A u \in Threads : stack'[u] = IF u = t THEN s ELSE stack[u]
    BY DEF TypeOK, ThreadTypes
  <1>2. AllReceives' = AllReceives
    BY AllReceivesStep
  <1>3. \A u \in Threads : CloseAlone(stack'[u])
    BY <1>1 DEF ShutdownInv
  <1>4. ClosedOnceStopped'
    <2>1. CASE enclaveState' = "Closed"
      BY <2>1 DEF ClosedOnceStopped
    <2>2. CASE UNCHANGED <<enclaveState, destroyed>> /\ \A i \in 1..Len(s) : ~StopPassed(s[i])
      <3>1. ASSUME NEW u \in Threads, NEW i \in 1..Len(stack'[u]), StopPassed(stack'[u][i])
            PROVE  \E v \in Threads : \E j \in 1..Len(stack[v]) : StopPassed(stack[v][j])
        BY <1>1, <2>2, <3>1
      <3> QED BY <2>2, <3>1 DEF ShutdownInv, ClosedOnceStopped
    <2> QED BY <2>1, <2>2
  <1>5. QuietOnceShut'
    <2>1. CASE AllReceives = {}
      BY <1>2, <2>1 DEF QuietOnceShut
    <2>2. CASE UNCHANGED destroyed /\ \A i \in 1..Len(s) : ~ShutPassed(s[i])
      <3>1. ASSUME NEW u \in Threads, NEW i \in 1..Len(stack'[u]), ShutPassed(stack'[u][i])
            PROVE  \E v \in Threads : \E j \in 1..Len(stack[v]) : ShutPassed(stack[v][j])
        BY <1>1, <2>2, <3>1
      <3> QED BY <1>2, <2>2, <3>1 DEF ShutdownInv, QuietOnceShut
    <2> QED BY <2>1, <2>2
  <1>6. ReceivesCounted'
    BY <1>2 DEF ShutdownInv, ReceivesCounted
  <1> QED BY <1>3, <1>4, <1>5, <1>6 DEF ShutdownInv

\* A thread in close does nothing else.
LEMMA CloseMoves ==
    ASSUME TypeOK, ShutdownInv, NEW t \in Threads, stack[t] # <<>>, Top(t).kind = "close"
    PROVE  /\ Len(stack[t]) = 1 /\ Receives(stack[t]) = {}
           /\ Popped(t) = <<>> /\ CloseAlone(<<>>) /\ Receives(<<>>) = {}
           /\ \A pc \in {"await", "shutdown", "destroy"} :
                 /\ CloseAlone(Goto(t, pc)) /\ Receives(Goto(t, pc)) = {}
                 /\ \A i \in 1..Len(Goto(t, pc)) : ShutPassed(Goto(t, pc)[i]) => pc # "await"
  <1>1. stack[t] \in Seq(Frames) /\ CloseAlone(stack[t]) /\ Top(t) \in Frames
    BY FrameTypes DEF TypeOK, ThreadTypes, ShutdownInv
  <1>2. Len(stack[t]) = 1
    BY <1>1 DEF CloseAlone, CloseFree, Top
  <1>3. Receives(stack[t]) = {}
    BY <1>1, <1>2 DEF Receives, InReceive, Top
  <1>4. Popped(t) = <<>>
    BY <1>1, <1>2 DEF Popped
  <1>5. CloseAlone(<<>>) /\ Receives(<<>>) = {}
    <2>1. Len(<<>>) = 0 /\ 1..0 = {}
      OBVIOUS
    <2> QED BY <2>1 DEF CloseAlone, CloseFree, Receives
  <1>6. ASSUME NEW pc \in {"await", "shutdown", "destroy"}
        PROVE  /\ CloseAlone(Goto(t, pc)) /\ Receives(Goto(t, pc)) = {}
               /\ \A i \in 1..Len(Goto(t, pc)) : ShutPassed(Goto(t, pc)[i]) => pc # "await"
    <2>1. PICK g : g = [Top(t) EXCEPT !.pc = pc]
      OBVIOUS
    <2>2. g \in Frames /\ g.kind = "close" /\ g.pc = pc
      BY <1>1, <2>1 DEF Frames
    <2>3. PICK s : s = Append(<<>>, g)
      OBVIOUS
    <2>4. s = Goto(t, pc)
      BY <1>4, <2>1, <2>3 DEF Goto
    <2>5. Len(s) = 1 /\ s[1] = g
      BY <2>3
    <2>6. \A i \in 1..Len(s) : s[i] = g
      BY <2>5
    <2>7. CloseAlone(s) /\ Receives(s) = {} /\ \A i \in 1..Len(s) : ShutPassed(s[i]) => pc # "await"
      BY <2>2, <2>5, <2>6 DEF CloseAlone, Receives, InReceive, ShutPassed
    <2> QED BY <2>4, <2>7
  <1> QED BY <1>2, <1>3, <1>4, <1>5, <1>6

\* No receive is in progress when the stop handler finds that it need not wait.
LEMMA NothingToWaitFor ==
    ASSUME TypeOK, LockAccounting, ShutdownInv, NEW t \in Threads, stack[t] # <<>>, Top(t).kind = "close",
           lock \in {NoThread, t}, ~MustWait
    PROVE  AllReceives = {}
  <1>1. CASE ThreadSafe
    <2>1. IsFiniteSet(AllReceives) /\ executing = Cardinality(AllReceives)
      BY <1>1 DEF ShutdownInv, ReceivesCounted
    <2>2. Cardinality(AllReceives) \in Nat /\ Cardinality(AllReceives) <= 0
      BY <2>1, FS_CardinalityType DEF MustWait
    <2>3. Cardinality(AllReceives) = 0
      BY <2>2
    <2> QED BY <2>1, <2>3, FS_EmptySet
  <1>2. CASE ~ThreadSafe
    <2> SUFFICES ASSUME NEW p \in AllReceives PROVE FALSE
      OBVIOUS
    <2>1. PICK u \in Threads, i \in Nat : i \in Receives(stack[u])
      BY DEF AllReceives
    <2>2. i \in DOMAIN stack[u] /\ stack[u][i].kind = "receive" /\ stack[u][i].pc \in {"user", "exit"}
      BY <2>1 DEF Receives, InReceive, TypeOK, ThreadTypes
    <2>3. Receiving(u)
      BY <2>2 DEF Receiving
    <2>4. lock = u
      BY <1>2, <2>3, ReceiverOwnsLock
    <2>5. u = t
      BY <2>4, ConfigAssumption
    <2> QED BY <2>1, <2>5, CloseMoves
  <1> QED BY <1>1, <1>2

\* The steps of close.
LEMMA CloseShutdown ==
    ASSUME TypeOK, LockAccounting, ShutdownInv, NEW t \in Threads, ~CloseInCallback,
           Close(t) \/ StopEnclave(t) \/ StopAwakes(t) \/ ShutdownReturns(t) \/ Destroy(t)
    PROVE  ShutdownInv'
  <1>1. CASE Close(t)
    <2>1. stack[t] = <<>>
      BY <1>1 DEF Close
    <2>2. PICK f : f = Frame(t, "close", "lock", Ready)
      OBVIOUS
    <2>3. f.kind = "close" /\ f.pc = "lock"
      BY <2>2, FrameFields
    <2>4. PICK s : s = Append(<<>>, f)
      OBVIOUS
    <2>5. Len(s) = 1 /\ s[1] = f
      BY <2>4
    <2>6. \A i \in 1..Len(s) : s[i] = f
      BY <2>5
    <2>7. CloseAlone(s) /\ Receives(s) = {} /\ \A i \in 1..Len(s) : ~StopPassed(s[i]) /\ ~ShutPassed(s[i])
      BY <2>3, <2>5, <2>6 DEF CloseAlone, Receives, InReceive, StopPassed, ShutPassed
    <2>8. Receives(stack[t]) = {}
      <3>1. Len(<<>>) = 0 /\ 1..0 = {}
        OBVIOUS
      <3> QED BY <2>1, <3>1 DEF Receives
    <2>9. stack' = [stack EXCEPT ![t] = s] /\ UNCHANGED <<executing, enclaveState, destroyed>>
      BY <1>1, <2>1, <2>2, <2>4 DEF Close, Resume, enclaveVars, receiveVars
    <2> QED BY <2>7, <2>8, <2>9, ClosingStep
  <1>2. CASE StopEnclave(t)
    <2>1. stack[t] # <<>> /\ Top(t).kind = "close" /\ lock \in {NoThread, t}
      BY <1>2 DEF StopEnclave, At
    <2>2. enclaveState' = "Closed" /\ UNCHANGED <<executing, destroyed>>
      BY <1>2 DEF StopEnclave, Stopped, hostVars, receiveVars
    <2>3. CASE MustWait
      <3>1. stack' = [stack EXCEPT ![t] = Goto(t, "await")]
        BY <1>2, <2>3 DEF StopEnclave, Resume
      <3>2. /\ CloseAlone(Goto(t, "await")) /\ Receives(Goto(t, "await")) = Receives(stack[t])
            /\ \A i \in 1..Len(Goto(t, "await")) : ~ShutPassed(Goto(t, "await")[i])
        BY <2>1, CloseMoves
      <3> QED BY <2>2, <3>1, <3>2, ClosingStep
    <2>4. CASE ~MustWait
      <3>1. stack' = [stack EXCEPT ![t] = Goto(t, "shutdown")]
        BY <1>2, <2>4 DEF StopEnclave, Resume
      <3>2. CloseAlone(Goto(t, "shutdown")) /\ Receives(Goto(t, "shutdown")) = Receives(stack[t])
        BY <2>1, CloseMoves
      <3>3. AllReceives = {}
        BY <2>1, <2>4, NothingToWaitFor
      <3> QED BY <2>2, <3>1, <3>2, <3>3, ClosingStep
    <2> QED BY <2>3, <2>4
  <1>3. CASE StopAwakes(t)
    <2>1. stack[t] # <<>> /\ Top(t).kind = "close" /\ Top(t).pc = "await" /\ lock \in {NoThread, t}
      BY <1>3 DEF StopAwakes, At
    <2>2. UNCHANGED <<executing, destroyed, enclaveState>>
      BY <1>3 DEF StopAwakes, hostVars
    <2>3. enclaveState = "Closed"
      <3>1. Len(stack[t]) = 1 /\ StopPassed(stack[t][Len(stack[t])]) /\ Len(stack[t]) \in 1..Len(stack[t])
        BY <2>1, CloseMoves DEF StopPassed, Top
      <3> QED BY <3>1 DEF ShutdownInv, ClosedOnceStopped
    <2>4. CASE MustWait
      <3>1. UNCHANGED <<stack, executing, destroyed, enclaveState>>
        BY <1>3, <2>2, <2>4 DEF StopAwakes
      <3> QED BY <3>1 DEF ShutdownInv, ClosedOnceStopped, ReceivesCounted, QuietOnceShut, AllReceives
    <2>5. CASE ~MustWait
      <3>1. stack' = [stack EXCEPT ![t] = Goto(t, "shutdown")]
        BY <1>3, <2>5 DEF StopAwakes, Resume
      <3>2. CloseAlone(Goto(t, "shutdown")) /\ Receives(Goto(t, "shutdown")) = Receives(stack[t])
        BY <2>1, CloseMoves
      <3>3. AllReceives = {}
        BY <2>1, <2>5, NothingToWaitFor
      <3> QED BY <2>2, <2>3, <3>1, <3>2, <3>3, ClosingStep
    <2> QED BY <2>4, <2>5
  <1>4. CASE ShutdownReturns(t) \/ Destroy(t)
    <2>1. stack[t] # <<>> /\ Top(t).kind = "close" /\ Top(t).pc \in {"shutdown", "destroy"}
      BY <1>4 DEF ShutdownReturns, Destroy, At
    <2>2. UNCHANGED <<executing, enclaveState>>
      BY <1>4 DEF ShutdownReturns, Destroy, enclaveVars, receiveVars
    <2>3. /\ Len(stack[t]) \in 1..Len(stack[t])
          /\ StopPassed(stack[t][Len(stack[t])]) /\ ShutPassed(stack[t][Len(stack[t])])
      BY <2>1, CloseMoves DEF StopPassed, ShutPassed, Top
    <2>4. enclaveState = "Closed" /\ AllReceives = {}
      BY <2>3 DEF ShutdownInv, ClosedOnceStopped, QuietOnceShut
    <2>5. CASE ShutdownReturns(t)
      <3>1. stack' = [stack EXCEPT ![t] = Goto(t, "destroy")]
        BY <2>5 DEF ShutdownReturns, Resume
      <3>2. CloseAlone(Goto(t, "destroy")) /\ Receives(Goto(t, "destroy")) = Receives(stack[t])
        BY <2>1, CloseMoves
      <3> QED BY <2>2, <2>4, <3>1, <3>2, ClosingStep
    <2>6. CASE Destroy(t)
      <3>1. stack' = [stack EXCEPT ![t] = Popped(t)]
        BY <2>6 DEF Destroy, Resume
      <3>2. CloseAlone(Popped(t)) /\ Receives(Popped(t)) = Receives(stack[t])
        BY <2>1, CloseMoves
      <3> QED BY <2>2, <2>4, <3>1, <3>2, ClosingStep
    <2> QED BY <1>4, <2>5, <2>6
  <1> QED BY <1>1, <1>2, <1>3, <1>4

\* The shutdown invariant is inductive if the host calls close outside of its callbacks.
THEOREM ShutdownInductive ==
    ASSUME ~CloseInCallback PROVE Spec => []ShutdownInv
  <1>1. Init => ShutdownInv
    <2> SUFFICES ASSUME Init PROVE ShutdownInv
      OBVIOUS
    <2>1. Len(<<>>) = 0 /\ 1..0 = {}
      OBVIOUS
    <2>2. \A t \in Threads : stack[t] = <<>>
      BY DEF Init
    <2>3. \A t \in Threads : CloseAlone(stack[t]) /\ Receives(stack[t]) = {}
      BY <2>1, <2>2 DEF CloseAlone, CloseFree, Receives
    <2>4. ~destroyed /\ \A t \in Threads : ~\E i \in 1..Len(stack[t]) : TRUE
      BY <2>1, <2>2 DEF Init
    <2>5. AllReceives = {}
      BY <2>3 DEF AllReceives
    <2>6. ClosedOnceStopped /\ QuietOnceShut
      BY <2>4 DEF ClosedOnceStopped, QuietOnceShut
    <2>7. ReceivesCounted
      <3>1. executing = 0
        BY DEF Init
      <3> QED BY <2>5, <3>1, FS_EmptySet DEF ReceivesCounted
    <2> QED BY <2>3, <2>6, <2>7 DEF ShutdownInv
  <1>2. TypeOK /\ LockAccounting /\ CallStatesInv /\ ShutdownInv /\ [Next]_vars => ShutdownInv'
    <2> SUFFICES ASSUME TypeOK, LockAccounting, CallStatesInv, ShutdownInv, [Next]_vars
                 PROVE  ShutdownInv'
      OBVIOUS
    <2>1. ASSUME NEW t \in Threads, QuietStep(t)
          PROVE  ShutdownInv'
      <3>1. UNCHANGED <<destroyed, enclaveState, executing>>
        BY <2>1 DEF QuietStep, CallIntoEnclave, EnterEnclave, RejectReceive, CreateMail, PostMail,
                    CallUntrustedHost, HostCallbackReturns, CallUntrustedHostReturns,
                    EnclaveCallbackReturns, CallIntoEnclaveReturns, CommandsReturn, Catch, Fail,
                    hostVars, enclaveVars, receiveVars
      <3>2. PICK s : QuietMove(stack[t], s) /\ stack' = [stack EXCEPT ![t] = s]
        BY <2>1, QuietSteps
      <3>3. stack[t] = <<>> \/ Top(t).kind # "close"
        BY <2>1, QuietSteps
      <3>4. (CloseFree(stack[t]) => CloseFree(s)) /\ Receives(s) = Receives(stack[t])
        BY <3>2 DEF QuietMove, ReceivesKept
      <3> QED BY <3>1, <3>2, <3>3, <3>4, QuietShutdown
    <2>2. ASSUME NEW t \in Threads, ReceiveReturns(t) \/ (Fail(t) /\ Top(t).kind = "receive")
          PROVE  ShutdownInv'
      <3>1. At(t, "receive", "user") /\ Top(t).kind # "close"
        BY <2>2 DEF ReceiveReturns, Fail, At
      <3>2. PICK s \in {Goto(t, "exit"), Append(Goto(t, "exit"), Frame(t, "commands", "user", Ready))} :
               stack' = [stack EXCEPT ![t] = s]
        BY <2>2 DEF ReceiveReturns, Fail, OnSealedState, FireMailCommands, Resume
      <3>3. (CloseFree(stack[t]) => CloseFree(s)) /\ Receives(s) = Receives(stack[t])
        BY <3>1, <3>2, MethodEnds
      <3>4. UNCHANGED <<destroyed, enclaveState, executing>>
        BY <2>2 DEF ReceiveReturns, Fail, hostVars
      <3> QED BY <3>1, <3>2, <3>3, <3>4, QuietShutdown
    <2>3. ASSUME NEW t \in Threads, Step(t)
          PROVE  ShutdownInv'
      <3>1. Fail(t) => QuietStep(t) \/ (Fail(t) /\ Top(t).kind = "receive")
        BY DEF QuietStep
      <3> QED BY <2>1, <2>2, <2>3, <3>1, BeginShutdown, ExitShutdown, CloseShutdown DEF Step, QuietStep
    <2>4. CASE UNCHANGED vars
      <3>1. UNCHANGED <<stack, destroyed, enclaveState, executing>>
        BY <2>4 DEF vars, threadVars, hostVars, enclaveVars, receiveVars
      <3> QED BY <3>1 DEF ShutdownInv, ClosedOnceStopped, ReceivesCounted, QuietOnceShut, AllReceives
    <2> QED BY <2>3, <2>4 DEF Next, Idle
  <1> QED BY <1>1, <1>2, TypeCorrect, LockAccounted, CallStatesInductive, PTL DEF Spec

(***************************************************************************)
(* Theorem: when onShutdown runs, and ever after, no receive is being      *)
(* processed on any thread, as long as the host does not call close from   *)
(* one of its callbacks: a receive in progress below such a close would be *)
(* its own (StopCallHandler).                                              *)
(***************************************************************************)
THEOREM ShutdownIsQuiescent ==
    ASSUME ~CloseInCallback PROVE Spec => []ShutdownQuiescent
  <1>1. TypeOK /\ ShutdownInv => ShutdownQuiescent
    <2> SUFFICES ASSUME TypeOK, ShutdownInv,
                        destroyed \/ \E t \in Threads : \E pc \in {"shutdown", "destroy"} : At(t, "close", pc),
                        NEW u \in Threads, Receiving(u)
                 PROVE  FALSE
      BY DEF ShutdownQuiescent
    <2>1. destroyed \/ \E t \in Threads : \E i \in 1..Len(stack[t]) : ShutPassed(stack[t][i])
      <3>1. ASSUME NEW t \in Threads, NEW pc \in {"shutdown", "destroy"}, At(t, "close", pc)
            PROVE  Len(stack[t]) \in 1..Len(stack[t]) /\ ShutPassed(stack[t][Len(stack[t])])
        <4>1. stack[t] # <<>> /\ Top(t).kind = "close" /\ Top(t).pc = pc
          BY <3>1 DEF At
        <4>2. Len(stack[t]) = 1
          BY <4>1, CloseMoves
        <4> QED BY <4>1, <4>2 DEF ShutPassed, Top
      <3> QED BY <3>1
    <2>2. AllReceives = {}
      BY <2>1 DEF ShutdownInv, QuietOnceShut
    <2>3. PICK i \in DOMAIN stack[u] : stack[u][i].kind = "receive" /\ stack[u][i].pc \in {"user", "exit"}
      BY DEF Receiving
    <2>4. i \in 1..Len(stack[u]) /\ i \in Nat
      BY <2>3 DEF TypeOK, ThreadTypes
    <2>5. <<u, i>> \in AllReceives
      BY <2>3, <2>4 DEF AllReceives, Receives, InReceive
    <2> QED BY <2>2, <2>5
  <1> QED BY <1>1, TypeCorrect, ShutdownInductive, PTL

-----------------------------------------------------------------------------
(***************************************************************************)
(* Mail and sealed states.                                                 *)
(***************************************************************************)
\* The context is the same, but for the count of the mail that is to be posted.
SameContext ==
    context'.id = context.id /\ (context' = NoContext <=> context = NoContext)

\* The receives that run their method stay where they are, and what is above them theirs.
OwnersKept(r, s) ==
    UserReceives(s) = UserReceives(r) /\ \A c : OwnedBy(r, c) => OwnedBy(s, c)

\* A step that moves no running receive and keeps the context leaves its owner in place.
LEMMA ContextKept ==
    ASSUME TypeOK, ContextNumbered, ContextOwned, NEW t \in Threads, NEW s, OwnersKept(stack[t], s),
           stack' = [stack EXCEPT ![t] = s], SameContext, UNCHANGED nextId
    PROVE  /\ ContextNumbered' /\ ContextOwned' /\ NextSealed' = NextSealed
           /\ \A u \in Threads : UserReceives(stack'[u]) = UserReceives(stack[u])
  <1>1. \A u \in Threads : stack'[u] = IF u = t THEN s ELSE stack[u]
    BY DEF TypeOK, ThreadTypes
  <1>2. \A u \in Threads : UserReceives(stack'[u]) = UserReceives(stack[u])
    BY <1>1 DEF OwnersKept
  <1>3. ContextNumbered'
    BY DEF ContextNumbered, SameContext
  <1>4. NextSealed' = NextSealed
    BY DEF NextSealed, SameContext
  <1>5. ContextOwned'
    <2> SUFFICES ASSUME PersistentMap, NEW u \in Threads
                 PROVE  /\ OwnedBy(stack'[u], context'.id)
                        /\ \A i \in UserReceives(stack'[u]) :
                              /\ context' # NoContext
                              /\ \A v \in Threads : \A j \in UserReceives(stack'[v]) : u = v /\ i = j
      BY DEF ContextOwned
    <2>1. OwnedBy(stack[u], context.id)
      BY DEF ContextOwned
    <2>2. OwnedBy(stack'[u], context'.id)
      BY <1>1, <2>1 DEF OwnersKept, SameContext
    <2>3. \A i \in UserReceives(stack[u]) :
             /\ context # NoContext
             /\ \A v \in Threads : \A j \in UserReceives(stack[v]) : u = v /\ i = j
      BY DEF ContextOwned
    <2> QED BY <1>2, <2>2, <2>3 DEF SameContext
  <1> QED BY <1>2, <1>3, <1>4, <1>5

\* The lists of the other threads wait on, and the one of t is now m.
LEMMA CommandsStep ==
    ASSUME TypeOK, CommandsWait, NEW t \in Threads, NEW s, NEW m,
           stack' = [stack EXCEPT ![t] = s], mailCommands' = [mailCommands EXCEPT ![t] = m],
           \A n \in 1..Len(m) : Waits(m[n], failed', context'.id, UserReceives(s)),
           \A u \in Threads \ {t} : \A c : Waits(c, failed, context.id, UserReceives(stack[u])) =>
                                           Waits(c, failed', context'.id, UserReceives(stack[u]))
    PROVE  CommandsWait'
  <1> SUFFICES ASSUME NEW u \in Threads, NEW n \in 1..Len(mailCommands'[u])
               PROVE  Waits(mailCommands'[u][n], failed', context'.id, UserReceives(stack'[u]))
    BY DEF CommandsWait
  <1>1. CASE u = t
    <2>1. stack'[u] = s /\ mailCommands'[u] = m
      BY <1>1 DEF TypeOK, ThreadTypes, HostTypes
    <2> QED BY <2>1
  <1>2. CASE u # t
    <2>1. stack'[u] = stack[u] /\ mailCommands'[u] = mailCommands[u]
      BY <1>2 DEF TypeOK, ThreadTypes, HostTypes
    <2>2. Waits(mailCommands[u][n], failed, context.id, UserReceives(stack[u]))
      BY <2>1 DEF CommandsWait
    <2> QED BY <1>2, <2>1, <2>2
  <1> QED BY <1>1, <1>2

\* The numbers of the commands of a batch.
LEMMA CommandIds ==
    ASSUME NEW b \in Seq(Commands)
    PROVE  \A p \in 1..Len(b) : b[p] \in Commands /\ b[p].id \in Nat
  <1> SUFFICES ASSUME NEW p \in 1..Len(b) PROVE b[p] \in Commands /\ b[p].id \in Nat
    OBVIOUS
  <1>1. b[p] \in Commands
    OBVIOUS
  <1> QED BY <1>1 DEF Commands

\* More failed receives make no commands lost.
LEMMA TravelsMore ==
    ASSUME NEW b, NEW F, NEW G, F \subseteq G, Travels(b, F)
    PROVE  Travels(b, G)
  BY DEF Travels

\* What was handed over stays in order while sealed states only get newer numbers.
LEMMA BatchesKept ==
    ASSUME TypeOK, TypeOK', BatchesInv, batches' = batches, NextSealed <= NextSealed', failed \subseteq failed',
           NextSealed \in Nat, NextSealed' \in Nat
    PROVE  BatchesInv'
  <1>1. batches \in Seq(Seq(Commands))
    BY DEF TypeOK, HostTypes
  <1>2. ASSUME NEW i \in 1..Len(batches) PROVE SealedAtEnd(batches[i], NextSealed')
    <2>1. SealedAtEnd(batches[i], NextSealed) /\ batches[i] \in Seq(Commands)
      BY <1>1 DEF BatchesInv
    <2>2. \A p \in 1..Len(batches[i]) : batches[i][p].id \in Nat
      BY <2>1, CommandIds
    <2> QED BY <2>1, <2>2 DEF SealedAtEnd
  <1>3. ASSUME PersistentMap, NEW i \in 1..Len(batches) PROVE Travels(batches[i], failed')
    <2>1. Travels(batches[i], failed)
      BY <1>3 DEF BatchesInv
    <2> QED BY <2>1 DEF Travels
  <1>4. SealedStatesInOrder'
    BY DEF BatchesInv, SealedStatesInOrder
  <1> QED BY <1>2, <1>3, <1>4 DEF BatchesInv

\* A new batch goes to the callback: its sealed state is newer than the ones before.
LEMMA BatchAdded ==
    ASSUME TypeOK, BatchesInv, NEW b \in Seq(Commands), batches' = Append(batches, b),
           NextSealed <= NextSealed', failed \subseteq failed', NextSealed \in Nat, NextSealed' \in Nat,
           SealedAtEnd(b, NextSealed'), PersistentMap => Travels(b, failed'),
           \A p \in 1..Len(b) : b[p].type = "StoreSealedState" => b[p].id >= NextSealed
    PROVE  BatchesInv'
  <1>1. batches \in Seq(Seq(Commands)) /\ Len(batches) \in Nat
    BY DEF TypeOK, HostTypes
  <1>2. PICK bs : bs = batches'
    OBVIOUS
  <1>3. /\ Len(bs) = Len(batches) + 1 /\ bs[Len(batches) + 1] = b /\ bs \in Seq(Seq(Commands))
        /\ \A i \in 1..Len(batches) : bs[i] = batches[i]
    BY <1>1, <1>2
  <1>4. ASSUME NEW i \in 1..Len(bs) PROVE i \in 1..Len(batches) \/ i = Len(batches) + 1
    BY <1>1, <1>3
  <1>5. ASSUME NEW i \in 1..Len(batches)
        PROVE  /\ bs[i] \in Seq(Commands)
               /\ SealedAtEnd(bs[i], NextSealed) /\ SealedAtEnd(bs[i], NextSealed')
    <2>1. bs[i] = batches[i] /\ SealedAtEnd(batches[i], NextSealed) /\ batches[i] \in Seq(Commands)
      BY <1>1, <1>3 DEF BatchesInv
    <2>2. \A p \in 1..Len(batches[i]) : batches[i][p].id \in Nat
      BY <2>1, CommandIds
    <2> QED BY <2>1, <2>2 DEF SealedAtEnd
  <1>6. \A i \in 1..Len(bs) : SealedAtEnd(bs[i], NextSealed')
    BY <1>3, <1>4, <1>5
  <1>7. ASSUME PersistentMap, NEW i \in 1..Len(bs) PROVE Travels(bs[i], failed')
    <2>1. CASE i \in 1..Len(batches)
      <3>1. Travels(batches[i], failed)
        BY <1>7, <2>1 DEF BatchesInv
      <3>2. Travels(batches[i], failed')
        BY <3>1, TravelsMore
      <3> QED BY <1>3, <2>1, <3>2
    <2>2. CASE i = Len(batches) + 1
      BY <1>3, <1>7, <2>2
    <2> QED BY <1>4, <2>1, <2>2
  <1>8. ASSUME NEW i \in 1..Len(bs), NEW j \in 1..Len(bs), NEW p \in 1..Len(bs[i]), NEW q \in 1..Len(bs[j]),
               i < j \/ (i = j /\ p < q),
               bs[i][p].type = "StoreSealedState", bs[j][q].type = "StoreSealedState"
        PROVE  bs[i][p].id < bs[j][q].id
    <2>1. CASE i = j
      <3>1. SealedAtEnd(bs[i], NextSealed')
        BY <1>6
      <3>2. p = Len(bs[i]) /\ q = Len(bs[i])
        BY <1>8, <2>1, <3>1 DEF SealedAtEnd
      <3> QED BY <1>8, <2>1, <3>2
    <2>2. CASE i < j /\ j \in 1..Len(batches)
      <3>0. i \in 1..Len(batches)
        <4>1. PICK n \in Nat : n = Len(batches)
          BY <1>1
        <4>2. PICK m : m = Len(bs)
          OBVIOUS
        <4>3. m = n + 1 /\ i \in 1..m /\ j \in 1..n /\ i < j
          BY <1>3, <2>2, <4>1, <4>2
        <4>4. i \in 1..n
          BY <4>3
        <4> QED BY <4>1, <4>4
      <3>1. i \in 1..Len(batches) /\ bs[i] = batches[i] /\ bs[j] = batches[j]
        BY <1>3, <2>2, <3>0, Zenon
      <3>2. SealedStatesInOrder /\ i \in DOMAIN batches /\ j \in DOMAIN batches
        <4>1. DOMAIN batches = 1..Len(batches)
          BY <1>1
        <4> QED BY <2>2, <3>0, <4>1, Zenon DEF BatchesInv
      <3>3. p \in DOMAIN batches[i] /\ q \in DOMAIN batches[j]
        <4>1. batches[i] \in Seq(Commands) /\ batches[j] \in Seq(Commands)
          BY <1>1, <2>2, <3>0, SMTT(30)
        <4>2. DOMAIN batches[i] = 1..Len(batches[i]) /\ DOMAIN batches[j] = 1..Len(batches[j])
          BY <4>1
        <4> QED BY <1>8, <3>1, <4>2
      <3> QED BY <1>8, <2>2, <3>1, <3>2, <3>3 DEF SealedStatesInOrder
    <2>3. CASE i < j /\ j = Len(batches) + 1
      <3>1. i \in 1..Len(batches) /\ bs[j] = b
        <4>1. PICK n \in Nat : n = Len(batches)
          BY <1>1
        <4>2. PICK m : m = Len(bs)
          OBVIOUS
        <4>3. m = n + 1 /\ i \in 1..m /\ i < n + 1
          BY <1>3, <2>3, <4>1, <4>2
        <4>4. i \in 1..n
          BY <4>3
        <4> QED BY <1>3, <2>3, <4>1, <4>4
      <3>2. bs[i][p].id < NextSealed /\ bs[i][p].id \in Nat
        <4>1. SealedAtEnd(bs[i], NextSealed) /\ bs[i] \in Seq(Commands)
          BY <1>5, <3>1
        <4>2. bs[i][p].id \in Nat
          BY <4>1, CommandIds
        <4> QED BY <1>8, <4>1, <4>2 DEF SealedAtEnd
      <3>3. bs[j][q].id >= NextSealed /\ bs[j][q].id \in Nat
        BY <1>8, <3>1, CommandIds
      <3>4. PICK x \in Nat, y \in Nat, z \in Nat : x = bs[i][p].id /\ y = NextSealed /\ z = bs[j][q].id
        BY <3>2, <3>3, Zenon
      <3>5. x < y /\ z >= y
        BY <3>2, <3>3, <3>4, Zenon
      <3>6. x < z
        BY <3>5
      <3> QED BY <3>4, <3>6, Zenon
    <2> QED BY <1>4, <1>8, <2>1, <2>2, <2>3
  <1>9. DOMAIN bs = 1..Len(bs) /\ \A i \in 1..Len(bs) : DOMAIN bs[i] = 1..Len(bs[i])
    BY <1>3
  <1>10. SealedStatesInOrder'
    <2>1. \A i, j \in DOMAIN bs : \A p \in DOMAIN bs[i], q \in DOMAIN bs[j] :
             /\ i < j \/ (i = j /\ p < q)
             /\ bs[i][p].type = "StoreSealedState" /\ bs[j][q].type = "StoreSealedState"
             => bs[i][p].id < bs[j][q].id
      <3> SUFFICES ASSUME NEW i \in DOMAIN bs, NEW j \in DOMAIN bs,
                          NEW p \in DOMAIN bs[i], NEW q \in DOMAIN bs[j],
                          i < j \/ (i = j /\ p < q),
                          bs[i][p].type = "StoreSealedState", bs[j][q].type = "StoreSealedState"
                   PROVE  bs[i][p].id < bs[j][q].id
        OBVIOUS
      <3>1. i \in 1..Len(bs) /\ j \in 1..Len(bs) /\ p \in 1..Len(bs[i]) /\ q \in 1..Len(bs[j])
        BY <1>9
      <3> QED BY <1>8, <3>1
    <2> QED BY <1>2, <2>1 DEF SealedStatesInOrder
  <1> QED BY <1>2, <1>6, <1>7, <1>10 DEF BatchesInv

\* The numbers of the receives.
LEMMA Numbers ==
    ASSUME TypeOK, ContextNumbered
    PROVE  nextId \in Nat /\ context.id \in Nat /\ NextSealed \in Nat /\ NextSealed <= nextId /\ failed \subseteq Nat
  BY DEF TypeOK, EnclaveTypes, ContextNumbered, NextSealed

\* A step that moves no running receive and hands nothing over.
LEMMA MailKept ==
    ASSUME TypeOK, TypeOK', MailInv, NEW t \in Threads, NEW s, OwnersKept(stack[t], s),
           stack' = [stack EXCEPT ![t] = s], SameContext, UNCHANGED <<mailCommands, batches, nextId, failed>>
    PROVE  MailInv'
  <1>1. ContextNumbered /\ ContextOwned /\ CommandsWait /\ BatchesInv
    BY DEF MailInv
  <1>2. ContextNumbered' /\ ContextOwned' /\ NextSealed' = NextSealed
    BY <1>1, ContextKept
  <1>3. CommandsWait'
    <2>1. PICK m : m = mailCommands[t]
      OBVIOUS
    <2>2. mailCommands' = [mailCommands EXCEPT ![t] = m]
      BY <2>1 DEF TypeOK, HostTypes
    <2>3. UserReceives(s) = UserReceives(stack[t]) /\ failed' = failed /\ context'.id = context.id
      BY DEF OwnersKept, SameContext
    <2>4. \A n \in 1..Len(m) : Waits(m[n], failed', context'.id, UserReceives(s))
      BY <1>1, <2>1, <2>3 DEF CommandsWait
    <2>5. \A u \in Threads \ {t} : \A c : Waits(c, failed, context.id, UserReceives(stack[u])) =>
                                          Waits(c, failed', context'.id, UserReceives(stack[u]))
      BY <2>3
    <2> QED BY <1>1, <2>2, <2>4, <2>5, CommandsStep
  <1>4. BatchesInv'
    <2>1. NextSealed \in Nat
      BY <1>1, Numbers
    <2>2. NextSealed <= NextSealed' /\ NextSealed' \in Nat
      BY <1>2, <2>1
    <2> QED BY <1>1, <2>1, <2>2, BatchesKept
  <1> QED BY <1>2, <1>3, <1>4 DEF MailInv

\* The topmost activation of enclave code acts for the receive that owns the context.
LEMMA CodeOwner ==
    ASSUME TypeOK, CallStatesInv, ContextOwned, PersistentMap, NEW t \in Threads, EnclaveCode(t)
    PROVE  UserReceives(stack[t]) # {} /\ Top(t).id = context.id
  <1>1. stack[t] \in Seq(Frames) /\ WellNested(stack[t])
    BY DEF TypeOK, ThreadTypes, CallStatesInv
  <1>2. ReceiveBelow(stack[t], Len(stack[t]))
    BY <1>1, EnclaveCodeReceives
  <1>3. PICK i \in 1..Len(stack[t]) : UserReceive(stack[t][i])
    BY <1>2 DEF ReceiveBelow, UserReceive
  <1>4. i \in UserReceives(stack[t])
    BY <1>3 DEF UserReceives
  <1>5. Len(stack[t]) \in i..Len(stack[t])
    BY <1>1, <1>3
  <1>6. OwnedBy(stack[t], context.id)
    BY DEF ContextOwned
  <1>7. stack[t][Len(stack[t])].id = context.id
    BY <1>4, <1>5, <1>6 DEF OwnedBy
  <1> QED BY <1>4, <1>7 DEF Top

\* Enclave code posts a mail.
LEMMA PostMailMail ==
    ASSUME TypeOK, TypeOK', CallStatesInv, MailInv, NEW t \in Threads, PostMail(t)
    PROVE  MailInv'
  <1>1. ContextNumbered /\ ContextOwned /\ CommandsWait /\ BatchesInv
    BY DEF MailInv
  <1>2. stack' = [stack EXCEPT ![t] = stack[t]] /\ OwnersKept(stack[t], stack[t])
    BY DEF PostMail, TypeOK, ThreadTypes, OwnersKept
  <1>3. SameContext
    <2>1. context \in [id : Nat, pending : Int] /\ (context.id = 0 => context = NoContext)
      BY <1>1 DEF TypeOK, EnclaveTypes, ContextNumbered
    <2>2. CASE context = NoContext
      BY <2>2 DEF PostMail, SameContext
    <2>3. CASE context # NoContext
      <3>1. context'.id = context.id /\ context.id # 0
        BY <2>1, <2>3 DEF PostMail
      <3> QED BY <2>3, <3>1 DEF SameContext, NoContext
    <2> QED BY <2>2, <2>3
  <1>4. UNCHANGED <<nextId, failed, batches>>
    BY DEF PostMail
  <1>5. ContextNumbered' /\ ContextOwned' /\ NextSealed' = NextSealed
    BY <1>1, <1>2, <1>3, <1>4, ContextKept
  <1>6. CommandsWait'
    <2>1. PICK c : c = [type |-> "PostMail", id |-> Top(t).id]
      OBVIOUS
    <2>2. PICK m : m = Append(mailCommands[t], c)
      OBVIOUS
    <2>3. mailCommands' = [mailCommands EXCEPT ![t] = m]
      BY <2>1, <2>2 DEF PostMail
    <2>4. failed' = failed /\ context'.id = context.id
      BY <1>3, <1>4 DEF SameContext
    <2>5. Waits(c, failed, context.id, UserReceives(stack[t]))
      <3>1. PersistentMap => UserReceives(stack[t]) # {} /\ Top(t).id = context.id
        BY <1>1, CodeOwner DEF PostMail
      <3> QED BY <2>1, <3>1 DEF Waits
    <2>6. /\ Len(m) = Len(mailCommands[t]) + 1 /\ m[Len(mailCommands[t]) + 1] = c
          /\ \A n \in 1..Len(mailCommands[t]) : m[n] = mailCommands[t][n]
          /\ Len(mailCommands[t]) \in Nat
      BY <2>2 DEF TypeOK, HostTypes
    <2>7. \A n \in 1..Len(mailCommands[t]) : Waits(mailCommands[t][n], failed, context.id, UserReceives(stack[t]))
      BY <1>1 DEF CommandsWait
    <2>8. ASSUME NEW n \in 1..Len(m)
          PROVE  Waits(m[n], failed', context'.id, UserReceives(stack[t]))
      <3>1. CASE n = Len(mailCommands[t]) + 1
        BY <2>4, <2>5, <2>6, <3>1
      <3>2. CASE n # Len(mailCommands[t]) + 1
        <4>1. n \in 1..Len(mailCommands[t])
          BY <2>6, <3>2
        <4> QED BY <2>4, <2>6, <2>7, <4>1
      <3> QED BY <3>1, <3>2
    <2>9. \A u \in Threads \ {t} : \A d : Waits(d, failed, context.id, UserReceives(stack[u])) =>
                                          Waits(d, failed', context'.id, UserReceives(stack[u]))
      BY <2>4
    <2> QED BY <1>1, <1>2, <2>3, <2>8, <2>9, CommandsStep
  <1>7. BatchesInv'
    <2>1. NextSealed \in Nat
      BY <1>1, Numbers
    <2>2. NextSealed <= NextSealed' /\ NextSealed' \in Nat
      BY <1>5, <2>1
    <2> QED BY <1>1, <1>4, <2>1, <2>2, BatchesKept
  <1> QED BY <1>5, <1>6, <1>7 DEF MailInv

\* The outermost call returns and hands over the commands that no sealed state has fired:
\* with the persistent map they are those of receives that failed.
LEMMA IntoReturnsMail ==
    ASSUME TypeOK, TypeOK', CallStatesInv, MailInv, NEW t \in Threads, CallIntoEnclaveReturns(t)
    PROVE  MailInv'
  <1>1. ContextNumbered /\ ContextOwned /\ CommandsWait /\ BatchesInv
    BY DEF MailInv
  <1>2. QuietStep(t)
    BY DEF QuietStep
  <1>3. PICK s : QuietMove(stack[t], s) /\ stack' = [stack EXCEPT ![t] = s]
    BY <1>2, QuietSteps
  <1>4. OwnersKept(stack[t], s)
    BY <1>3 DEF QuietMove, ReceivesKept, OwnersKept
  <1>5. UNCHANGED <<nextId, failed, context>>
    BY DEF CallIntoEnclaveReturns, enclaveVars, receiveVars
  <1>6. SameContext
    BY <1>5 DEF SameContext
  <1>7. CASE UNCHANGED <<mailCommands, batches>>
    BY <1>3, <1>4, <1>5, <1>6, <1>7, MailKept
  <1>8. CASE Top(t).prev = Ready /\ FireMailCommands(t, mailCommands[t], Popped(t))
    <2>1. stack[t] \in Seq(Frames) /\ stack[t] # <<>> /\ WellNested(stack[t]) /\ Top(t).kind \in IntoKinds
      BY DEF CallIntoEnclaveReturns, At, TypeOK, ThreadTypes, CallStatesInv
    <2>2. UserReceives(stack[t]) = {}
      BY <1>8, <2>1, OutermostNoReceive DEF Top
    <2>3. ContextNumbered' /\ ContextOwned' /\ NextSealed' = NextSealed
      BY <1>1, <1>3, <1>4, <1>5, <1>6, ContextKept
    <2>4. mailCommands' = [mailCommands EXCEPT ![t] = <<>>] /\ batches' = Append(batches, mailCommands[t])
      BY <1>8 DEF FireMailCommands
    <2>5. CommandsWait'
      <3>1. \A n \in 1..Len(<<>>) : Waits(<<>>[n], failed', context'.id, UserReceives(s))
        OBVIOUS
      <3>2. \A u \in Threads \ {t} : \A c : Waits(c, failed, context.id, UserReceives(stack[u])) =>
                                            Waits(c, failed', context'.id, UserReceives(stack[u]))
        BY <1>5
      <3> QED BY <1>1, <1>3, <2>4, <3>1, <3>2, CommandsStep
    <2>6. BatchesInv'
      <3>1. PICK b : b = mailCommands[t]
        OBVIOUS
      <3>2. b \in Seq(Commands)
        BY <3>1 DEF TypeOK, HostTypes
      <3>3. \A n \in 1..Len(b) : Waits(b[n], failed, context.id, {})
        BY <1>1, <2>2, <3>1 DEF CommandsWait
      <3>4. \A n \in 1..Len(b) : b[n].type # "StoreSealedState" /\ (PersistentMap => b[n].id \in failed)
        BY <3>3 DEF Waits
      <3>5. SealedAtEnd(b, NextSealed') /\ (PersistentMap => Travels(b, failed'))
        BY <1>5, <3>4 DEF SealedAtEnd, Travels
      <3>6. NextSealed \in Nat /\ NextSealed <= NextSealed' /\ NextSealed' \in Nat
        BY <1>1, <2>3, Numbers
      <3>7. failed \subseteq failed' /\ batches' = Append(batches, b)
        BY <1>5, <2>4, <3>1
      <3> QED BY <1>1, <3>2, <3>4, <3>5, <3>6, <3>7, BatchAdded
    <2> QED BY <2>3, <2>5, <2>6 DEF MailInv
  <1> QED BY <1>7, <1>8 DEF CallIntoEnclaveReturns

\* Without the persistent map there is no context and no sealed state.
LEMMA PlainMail ==
    ASSUME TypeOK, TypeOK', MailInv, ~PersistentMap, context' = NoContext,
           UNCHANGED <<mailCommands, batches>>, nextId <= nextId', failed \subseteq failed'
    PROVE  MailInv'
  <1>1. ContextNumbered /\ ContextOwned /\ CommandsWait /\ BatchesInv
    BY DEF MailInv
  <1>2. nextId \in Nat /\ nextId' \in Nat /\ context = NoContext /\ context.id < nextId
    BY <1>1 DEF ContextNumbered, TypeOK, EnclaveTypes
  <1>3. ContextNumbered' /\ ContextOwned'
    BY <1>2 DEF ContextNumbered, ContextOwned, NoContext
  <1>4. CommandsWait'
    BY <1>1 DEF CommandsWait, Waits
  <1>5. NextSealed = nextId /\ NextSealed' = nextId'
    BY <1>2 DEF NextSealed
  <1>6. BatchesInv'
    BY <1>1, <1>2, <1>5, BatchesKept
  <1> QED BY <1>3, <1>4, <1>6 DEF MailInv

\* The other steps of calls that begin or end no receive.
LEMMA QuietMail ==
    ASSUME TypeOK, TypeOK', CallStatesInv, MailInv, NEW t \in Threads, QuietStep(t)
    PROVE  MailInv'
  <1>1. CASE PostMail(t)
    BY <1>1, PostMailMail
  <1>2. CASE CallIntoEnclaveReturns(t)
    BY <1>2, IntoReturnsMail
  <1>3. CASE ~PostMail(t) /\ ~CallIntoEnclaveReturns(t)
    <2>1. PICK s : QuietMove(stack[t], s) /\ stack' = [stack EXCEPT ![t] = s]
      BY QuietSteps
    <2>2. OwnersKept(stack[t], s)
      BY <2>1 DEF QuietMove, ReceivesKept, OwnersKept
    <2>3. UNCHANGED <<mailCommands, batches, nextId, failed>>
      BY <1>3 DEF QuietStep, CallIntoEnclave, EnterEnclave, RejectReceive, CreateMail,
                  CallUntrustedHost, HostCallbackReturns, CallUntrustedHostReturns,
                  EnclaveCallbackReturns, CommandsReturn, Catch, Fail,
                  hostVars, enclaveVars, receiveVars
    <2>4. SameContext
      <3>1. CASE CreateMail(t)
        <4>1. context \in [id : Nat, pending : Int] /\ (context.id = 0 => context = NoContext)
          BY DEF MailInv, TypeOK, EnclaveTypes, ContextNumbered
        <4>2. context'.id = context.id /\ context # NoContext /\ context.id # 0
          BY <3>1, <4>1 DEF CreateMail
        <4> QED BY <4>2 DEF SameContext, NoContext
      <3>2. CASE ~CreateMail(t)
        <4>1. UNCHANGED context
          BY <1>3, <3>2 DEF QuietStep, CallIntoEnclave, EnterEnclave, RejectReceive,
                  CallUntrustedHost, HostCallbackReturns, CallUntrustedHostReturns,
                  EnclaveCallbackReturns, CommandsReturn, Catch, Fail,
                  hostVars, enclaveVars, receiveVars
        <4> QED BY <4>1 DEF SameContext
      <3> QED BY <3>1, <3>2
    <2> QED BY <2>1, <2>2, <2>3, <2>4, MailKept
  <1> QED BY <1>1, <1>2, <1>3

\* The steps of close, wherever the host calls it.
LEMMA CloseMail ==
    ASSUME TypeOK, TypeOK', MailInv, NEW t \in Threads,
           Close(t) \/ StopEnclave(t) \/ StopAwakes(t) \/ ShutdownReturns(t) \/ Destroy(t)
    PROVE  MailInv'
  <1>1. stack \in [Threads -> Seq(Frames)] /\ stack[t] \in Seq(Frames)
    BY DEF TypeOK, ThreadTypes
  <1>2. UNCHANGED <<mailCommands, batches, nextId, failed, context>>
    BY DEF Close, StopEnclave, StopAwakes, ShutdownReturns, Destroy, hostVars, enclaveVars, receiveVars
  <1>3. SameContext
    BY <1>2 DEF SameContext
  <1>4. ASSUME stack[t] # <<>>, Top(t).kind = "close",
               NEW pc \in {"await", "shutdown", "destroy"}
        PROVE  OwnersKept(stack[t], Goto(t, pc))
    <2>1. PICK g : g = [Top(t) EXCEPT !.pc = pc]
      OBVIOUS
    <2>2. Top(t) \in Frames
      BY <1>1, <1>4, FrameTypes
    <2>3. g \in Frames /\ g.kind = Top(t).kind /\ g.id = Top(t).id
      BY <2>1, <2>2 DEF Frames
    <2>4. ReceivesKept(stack[t], Append(Popped(t), g))
      BY <1>1, <1>4, <2>3, TopKeeps DEF Top, Popped
    <2> QED BY <2>1, <2>4 DEF Goto, ReceivesKept, OwnersKept
  <1>5. \E s : OwnersKept(stack[t], s) /\ stack' = [stack EXCEPT ![t] = s]
    <2>1. CASE Close(t)
      <3>1. PICK f : f = Frame(t, "close", "lock", Ready)
        OBVIOUS
      <3>2. f \in Frames
        BY <1>1, <3>1, FrameTypes, CallStateTypes
      <3>3. ~InReceive(f)
        BY <3>1, FrameFields DEF InReceive
      <3>4. UserReceives(stack[t]) = {} \/ f.id = stack[t][Len(stack[t])].id
        <4>1. CASE stack[t] = <<>>
          <5>1. Len(<<>>) = 0 /\ 1..0 = {}
            OBVIOUS
          <5> QED BY <4>1, <5>1 DEF UserReceives
        <4>2. CASE stack[t] # <<>>
          BY <3>1, <4>2 DEF Frame, Top
        <4> QED BY <4>1, <4>2
      <3>5. ReceivesKept(stack[t], Append(stack[t], f))
        BY <1>1, <3>2, <3>3, <3>4, PushKeeps
      <3>6. stack' = [stack EXCEPT ![t] = Append(stack[t], f)]
        BY <2>1, <3>1 DEF Close, Resume
      <3> QED BY <3>5, <3>6 DEF ReceivesKept, OwnersKept
    <2>2. CASE StopEnclave(t) \/ ShutdownReturns(t) \/ (StopAwakes(t) /\ ~MustWait)
      <3>1. stack[t] # <<>> /\ Top(t).kind = "close"
        BY <2>2 DEF StopEnclave, ShutdownReturns, StopAwakes, At
      <3>2. PICK pc \in {"await", "shutdown", "destroy"} : stack' = [stack EXCEPT ![t] = Goto(t, pc)]
        BY <2>2 DEF StopEnclave, ShutdownReturns, StopAwakes, Resume
      <3> QED BY <1>4, <3>1, <3>2
    <2>3. CASE StopAwakes(t) /\ MustWait
      <3>1. stack' = [stack EXCEPT ![t] = stack[t]]
        BY <1>1, <2>3 DEF StopAwakes
      <3> QED BY <3>1 DEF OwnersKept
    <2>4. CASE Destroy(t)
      <3>1. stack[t] # <<>> /\ ~InReceive(Top(t)) /\ stack' = [stack EXCEPT ![t] = Popped(t)]
        BY <2>4 DEF Destroy, At, Resume, InReceive
      <3>2. QuietMove(stack[t], Popped(t))
        BY <1>1, <3>1, QuietPop DEF Top, Popped
      <3> QED BY <3>1, <3>2 DEF QuietMove, ReceivesKept, OwnersKept
    <2> QED BY <2>1, <2>2, <2>3, <2>4
  <1> QED BY <1>2, <1>3, <1>5, MailKept

\* Popping an activation that does not run the method of a receive.
LEMMA PopOwners ==
    ASSUME NEW s \in Seq(Frames), s # <<>>, ~UserReceive(s[Len(s)])
    PROVE  OwnersKept(s, SubSeq(s, 1, Len(s) - 1))
  <1>1. PICK p : p = SubSeq(s, 1, Len(s) - 1)
    OBVIOUS
  <1>2. PICK f : f = s[Len(s)]
    OBVIOUS
  <1>3. /\ Len(p) = Len(s) - 1 /\ Len(s) > 0 /\ p \in Seq(Frames) /\ f \in Frames /\ s = Append(p, f)
        /\ \A i \in 1..Len(p) : p[i] = s[i]
    BY <1>1, <1>2, StackSplit
  <1>4. Len(p) \in Nat /\ Len(s) = Len(p) + 1
    BY <1>3
  <1>5. UserReceives(s) = UserReceives(p)
    <2>1. UserReceives(Append(p, f)) = UserReceives(p)
      <3>1. p \in Seq(Frames) /\ f \in Frames /\ ~UserReceive(f)
        BY <1>2, <1>3
      <3> QED BY <3>1, PushReceives
    <2> QED BY <1>3, <2>1
  <1>6. ASSUME NEW c, OwnedBy(s, c) PROVE OwnedBy(p, c)
    <2> SUFFICES ASSUME NEW i \in UserReceives(p), NEW j \in i..Len(p) PROVE p[j].id = c
      BY DEF OwnedBy
    <2>1. i \in 1..Len(p) /\ j \in 1..Len(p) /\ j \in i..Len(s)
      BY <1>4 DEF UserReceives
    <2> QED BY <1>3, <1>5, <1>6, <2>1 DEF OwnedBy
  <1> QED BY <1>1, <1>5, <1>6 DEF OwnersKept

\* A receive whose method has ended gives its place up.
LEMMA ExitMail ==
    ASSUME TypeOK, TypeOK', MailInv, NEW t \in Threads, NEW r \in BOOLEAN, ExitReceive(t, r)
    PROVE  MailInv'
  <1>1. stack[t] \in Seq(Frames) /\ stack[t] # <<>> /\ ~UserReceive(Top(t))
    BY DEF TypeOK, ThreadTypes, ExitReceive, At, UserReceive
  <1>2. OwnersKept(stack[t], Popped(t))
    BY <1>1, PopOwners DEF Top, Popped
  <1>3. stack' = [stack EXCEPT ![t] = Popped(t)] /\ UNCHANGED <<mailCommands, batches, nextId, failed, context>>
    BY DEF ExitReceive, Resume
  <1>4. SameContext
    BY <1>3 DEF SameContext
  <1> QED BY <1>2, <1>3, <1>4, MailKept

\* While there is no context every waiting command is of a receive that failed, and it
\* waits on whatever receive runs next.
LEMMA FailedWait ==
    ASSUME NEW c, NEW F, NEW G, F \subseteq G, NEW x, NEW y, NEW R, Waits(c, F, x, {})
    PROVE  Waits(c, G, y, R)
  BY DEF Waits

\* A receive begins: with the persistent map there is no other, and it owns the context.
LEMMA BeginMail ==
    ASSUME TypeOK, TypeOK', MailInv, NEW t \in Threads, BeginReceive(t)
    PROVE  MailInv'
  <1>1. ContextNumbered /\ ContextOwned /\ CommandsWait /\ BatchesInv
    BY DEF MailInv
  <1>2. nextId \in Nat /\ nextId' = nextId + 1 /\ UNCHANGED <<mailCommands, batches, failed>>
    BY <1>1, Numbers DEF BeginReceive, hostVars
  <1>3. CASE ~PersistentMap
    <2>1. context' = NoContext
      BY <1>1, <1>3 DEF BeginReceive, ContextNumbered
    <2> QED BY <1>2, <1>3, <2>1, PlainMail
  <1>4. CASE PersistentMap
    <2>1. context = NoContext /\ context.id = 0 /\ nextId > 0
      BY <1>1, <1>2, <1>4 DEF BeginReceive, ContextNumbered, NoContext
    <2>2. context' = [id |-> nextId, pending |-> 0]
      BY <1>4 DEF BeginReceive
    <2>3. context'.id = nextId /\ context' # NoContext
      BY <2>1, <2>2 DEF NoContext
    <2>4. \A u \in Threads : UserReceives(stack[u]) = {}
      BY <1>1, <1>4, <2>1 DEF ContextOwned
    <2>5. stack[t] \in Seq(Frames) /\ stack[t] # <<>> /\ Top(t).kind = "receive"
      BY DEF TypeOK, ThreadTypes, BeginReceive, At
    <2>6. PICK p : p = Popped(t)
      OBVIOUS
    <2>7. PICK f : f = Top(t)
      OBVIOUS
    <2>8. PICK g : g = [Top(t) EXCEPT !.pc = "user", !.id = nextId]
      OBVIOUS
    <2>9. p \in Seq(Frames) /\ f \in Frames /\ stack[t] = Append(p, f) /\ Len(p) \in Nat
      BY <2>5, <2>6, <2>7, StackSplit DEF Popped, Top
    <2>10. g \in Frames /\ g.id = nextId /\ UserReceive(g)
      BY <1>2, <2>5, <2>7, <2>8, <2>9 DEF Frames, UserReceive
    <2>11. PICK q : q = Append(p, g)
      OBVIOUS
    <2>12. Len(q) = Len(p) + 1 /\ q[Len(p) + 1] = g
      BY <2>9, <2>10, <2>11
    <2>13. UserReceives(q) = {Len(p) + 1}
      <3>1. p \in Seq(Frames) /\ f \in Frames
        BY <2>9
      <3>2. UserReceives(p) \subseteq UserReceives(Append(p, f))
        BY <3>1, PushReceives
      <3>3. UserReceives(p) = {}
        BY <2>4, <2>9, <3>2
      <3>4. UserReceives(Append(p, g)) = UserReceives(p) \cup {Len(p) + 1}
        BY <3>1, <2>10, PushReceives
      <3> QED BY <2>11, <3>3, <3>4
    <2>14. stack' = [stack EXCEPT ![t] = q]
      BY <2>6, <2>8, <2>11 DEF BeginReceive, Resume
    <2>15. \A u \in Threads : stack'[u] = IF u = t THEN q ELSE stack[u]
      BY <2>14 DEF TypeOK, ThreadTypes
    <2>16. \A u \in Threads : UserReceives(stack'[u]) = IF u = t THEN {Len(p) + 1} ELSE {}
      BY <2>4, <2>13, <2>15
    <2>17. ContextNumbered'
      BY <1>2, <1>4, <2>1, <2>3 DEF ContextNumbered
    <2>18. ContextOwned'
      <3> SUFFICES ASSUME NEW u \in Threads
                   PROVE  /\ OwnedBy(stack'[u], context'.id)
                          /\ \A i \in UserReceives(stack'[u]) :
                                /\ context' # NoContext
                                /\ \A v \in Threads : \A j \in UserReceives(stack'[v]) : u = v /\ i = j
        BY DEF ContextOwned
      <3>1. OwnedBy(q, nextId)
        <4>1. \A j \in (Len(p) + 1)..Len(q) : j = Len(p) + 1
          BY <2>9, <2>12
        <4> QED BY <2>10, <2>12, <2>13, <4>1 DEF OwnedBy
      <3>2. OwnedBy(stack'[u], context'.id)
        <4>1. CASE u = t
          BY <2>3, <2>15, <3>1, <4>1
        <4>2. CASE u # t
          BY <2>16, <4>2 DEF OwnedBy
        <4> QED BY <4>1, <4>2
      <3> QED BY <2>3, <2>16, <3>2
    <2>19. CommandsWait'
      <3> SUFFICES ASSUME NEW u \in Threads, NEW n \in 1..Len(mailCommands[u])
                   PROVE  Waits(mailCommands[u][n], failed', context'.id, UserReceives(stack'[u]))
        BY <1>2 DEF CommandsWait
      <3>1. Waits(mailCommands[u][n], failed, context.id, {})
        BY <1>1, <2>4 DEF CommandsWait
      <3>2. failed \subseteq failed'
        BY <1>2
      <3> QED BY <3>1, <3>2, FailedWait
    <2>20. BatchesInv'
      <3>1. NextSealed = nextId /\ NextSealed' = nextId
        BY <2>1, <2>3 DEF NextSealed
      <3> QED BY <1>1, <1>2, <3>1, BatchesKept
    <2> QED BY <2>17, <2>18, <2>19, <2>20 DEF MailInv
  <1> QED BY <1>3, <1>4

\* The method of the receive that owns the context ends, and the context with it.
LEMMA ContextEnds ==
    ASSUME TypeOK, ContextNumbered, ContextOwned, PersistentMap, NEW t \in Threads, At(t, "receive", "user"),
           NEW s \in {Goto(t, "exit"), Append(Goto(t, "exit"), Frame(t, "commands", "user", Ready))},
           stack' = [stack EXCEPT ![t] = s], context' = NoContext, UNCHANGED nextId
    PROVE  /\ ContextNumbered' /\ ContextOwned'
           /\ UserReceives(s) = {} /\ \A u \in Threads \ {t} : UserReceives(stack[u]) = {}
           /\ Top(t).id = context.id /\ NextSealed = context.id
           /\ NextSealed' = nextId /\ context.id < nextId
  <1>1. /\ UserReceives(stack[t]) = UserReceives(s) \cup {Len(stack[t])}
        /\ Len(stack[t]) \notin UserReceives(s)
    BY MethodEnds
  <1>2. /\ context # NoContext
        /\ \A u \in Threads : \A j \in UserReceives(stack[u]) : u = t /\ j = Len(stack[t])
    BY <1>1 DEF ContextOwned
  <1>3. UserReceives(s) = {} /\ \A u \in Threads \ {t} : UserReceives(stack[u]) = {}
    BY <1>1, <1>2
  <1>4. Top(t).id = context.id
    <2>1. stack[t] \in Seq(Frames)
      BY DEF TypeOK, ThreadTypes
    <2>2. Len(stack[t]) \in Len(stack[t])..Len(stack[t])
      BY <2>1
    <2>3. OwnedBy(stack[t], context.id)
      BY DEF ContextOwned
    <2> QED BY <1>1, <2>2, <2>3 DEF OwnedBy, Top
  <1>5. NextSealed = context.id /\ NextSealed' = nextId /\ context.id < nextId
    BY <1>2 DEF NextSealed, ContextNumbered
  <1>6. ContextNumbered'
    <2>1. context.id \in Nat /\ nextId \in Nat
      BY Numbers
    <2>2. context'.id = 0
      BY DEF NoContext
    <2> QED BY <1>5, <2>1, <2>2 DEF ContextNumbered
  <1>7. ContextOwned'
    <2>1. \A u \in Threads : stack'[u] = IF u = t THEN s ELSE stack[u]
      BY DEF TypeOK, ThreadTypes
    <2>2. \A u \in Threads : UserReceives(stack'[u]) = {}
      BY <1>3, <2>1
    <2> QED BY <2>2 DEF ContextOwned, OwnedBy
  <1> QED BY <1>3, <1>4, <1>5, <1>6, <1>7

\* The method fails: the mail it posted stays behind as that of a failed receive.
LEMMA FailedMail ==
    ASSUME TypeOK, TypeOK', MailInv, PersistentMap, NEW t \in Threads, At(t, "receive", "user"),
           stack' = [stack EXCEPT ![t] = Goto(t, "exit")], context' = NoContext,
           failed' = failed \cup {Top(t).id}, UNCHANGED <<mailCommands, batches, nextId>>
    PROVE  MailInv'
  <1>1. ContextNumbered /\ ContextOwned /\ CommandsWait /\ BatchesInv
    BY DEF MailInv
  <1>2. PICK s : s = Goto(t, "exit")
    OBVIOUS
  <1>3. stack' = [stack EXCEPT ![t] = s]
    BY <1>2
  <1>4. /\ ContextNumbered' /\ ContextOwned'
        /\ UserReceives(s) = {} /\ \A u \in Threads \ {t} : UserReceives(stack[u]) = {}
        /\ Top(t).id = context.id /\ NextSealed = context.id
        /\ NextSealed' = nextId /\ context.id < nextId
    BY <1>1, <1>2, <1>3, ContextEnds
  <1>5. CommandsWait'
    <2>1. PICK m : m = mailCommands[t]
      OBVIOUS
    <2>2. mailCommands' = [mailCommands EXCEPT ![t] = m]
      BY <2>1 DEF TypeOK, HostTypes
    <2>3. ASSUME NEW n \in 1..Len(m)
          PROVE  Waits(m[n], failed', context'.id, UserReceives(s))
      <3>1. Waits(m[n], failed, context.id, UserReceives(stack[t]))
        BY <1>1, <2>1 DEF CommandsWait
      <3> QED BY <1>4, <3>1 DEF Waits
    <2>4. \A u \in Threads \ {t} : \A c : Waits(c, failed, context.id, UserReceives(stack[u])) =>
                                          Waits(c, failed', context'.id, UserReceives(stack[u]))
      BY <1>4 DEF Waits
    <2> QED BY <1>1, <1>3, <2>2, <2>3, <2>4, CommandsStep
  <1>6. BatchesInv'
    <2>1. nextId \in Nat /\ context.id \in Nat
      BY <1>1, Numbers
    <2>2. failed \subseteq failed' /\ NextSealed <= NextSealed' /\ NextSealed \in Nat /\ NextSealed' \in Nat
      BY <1>4, <2>1
    <2> QED BY <1>1, <2>2, BatchesKept
  <1> QED BY <1>4, <1>5, <1>6 DEF MailInv

\* The method ends well: its sealed state takes along the commands of the thread.
LEMMA SealedMail ==
    ASSUME TypeOK, TypeOK', MailInv, PersistentMap, NEW t \in Threads, At(t, "receive", "user"),
           OnSealedState(t, [type |-> "StoreSealedState", id |-> Top(t).id], Goto(t, "exit")),
           context' = NoContext, UNCHANGED <<failed, nextId>>
    PROVE  MailInv'
  <1>1. ContextNumbered /\ ContextOwned /\ CommandsWait /\ BatchesInv
    BY DEF MailInv
  <1>2. PICK s : s = Append(Goto(t, "exit"), Frame(t, "commands", "user", Ready))
    OBVIOUS
  <1>3. PICK cmd : cmd = [type |-> "StoreSealedState", id |-> Top(t).id]
    OBVIOUS
  <1>4. PICK b : b = Append(mailCommands[t], cmd)
    OBVIOUS
  <1>5. /\ stack' = [stack EXCEPT ![t] = s]
        /\ mailCommands' = [mailCommands EXCEPT ![t] = <<>>] /\ batches' = Append(batches, b)
    BY <1>2, <1>3, <1>4 DEF OnSealedState, FireMailCommands, Resume
  <1>6. /\ ContextNumbered' /\ ContextOwned'
        /\ UserReceives(s) = {} /\ \A u \in Threads \ {t} : UserReceives(stack[u]) = {}
        /\ Top(t).id = context.id /\ NextSealed = context.id
        /\ NextSealed' = nextId /\ context.id < nextId
    BY <1>1, <1>2, <1>5, ContextEnds
  <1>7. nextId \in Nat /\ context.id \in Nat
    BY <1>1, Numbers
  <1>8. CommandsWait'
    <2>1. \A n \in 1..Len(<<>>) : Waits(<<>>[n], failed', context'.id, UserReceives(s))
      OBVIOUS
    <2>2. \A u \in Threads \ {t} : \A c : Waits(c, failed, context.id, UserReceives(stack[u])) =>
                                          Waits(c, failed', context'.id, UserReceives(stack[u]))
      BY <1>6 DEF Waits
    <2> QED BY <1>1, <1>5, <2>1, <2>2, CommandsStep
  <1>9. BatchesInv'
    <2>1. cmd.type = "StoreSealedState" /\ cmd.id = context.id /\ cmd \in Commands
      BY <1>3, <1>6, <1>7 DEF Commands
    <2>2. PICK m : m = mailCommands[t]
      OBVIOUS
    <2>3. m \in Seq(Commands) /\ Len(m) \in Nat
      BY <2>2 DEF TypeOK, HostTypes
    <2>4. /\ Len(b) = Len(m) + 1 /\ b[Len(m) + 1] = cmd /\ b \in Seq(Commands)
          /\ \A n \in 1..Len(m) : b[n] = m[n]
      BY <1>4, <2>1, <2>2, <2>3
    <2>5. \A n \in 1..Len(m) : m[n].type = "PostMail" /\ (m[n].id \in failed \/ m[n].id = context.id)
      <3>1. \A n \in 1..Len(m) : Waits(m[n], failed, context.id, UserReceives(stack[t]))
        BY <1>1, <2>2 DEF CommandsWait
      <3> QED BY <3>1 DEF Waits
    <2>6. ASSUME NEW p \in 1..Len(b)
          PROVE  \/ p = Len(b) /\ b[p] = cmd
                 \/ b[p].type = "PostMail" /\ (b[p].id \in failed \/ b[p].id = context.id)
      <3>1. CASE p = Len(m) + 1
        BY <2>4, <3>1
      <3>2. CASE p # Len(m) + 1
        <4>1. p \in 1..Len(m)
          BY <2>3, <2>4, <3>2
        <4> QED BY <2>4, <2>5, <4>1
      <3> QED BY <3>1, <3>2
    <2>7. SealedAtEnd(b, NextSealed')
      BY <1>6, <2>1, <2>6 DEF SealedAtEnd
    <2>8. Travels(b, failed')
      <3>1. Len(b) \in 1..Len(b) /\ b[Len(b)] = [type |-> "StoreSealedState", id |-> context.id]
        BY <1>3, <1>6, <2>3, <2>4
      <3> QED BY <2>1, <2>6, <3>1 DEF Travels
    <2>9. \A p \in 1..Len(b) : b[p].type = "StoreSealedState" => b[p].id >= NextSealed
      BY <1>6, <1>7, <2>1, <2>6
    <2>10. failed \subseteq failed' /\ NextSealed <= NextSealed' /\ NextSealed \in Nat /\ NextSealed' \in Nat
      BY <1>6, <1>7
    <2>11. b \in Seq(Commands) /\ batches' = Append(batches, b)
      BY <1>5, <2>4
    <2> QED BY <1>1, <2>7, <2>8, <2>9, <2>10, <2>11, BatchAdded
  <1> QED BY <1>6, <1>8, <1>9 DEF MailInv

\* The method of a receive ends, in one way or another.
LEMMA MethodMail ==
    ASSUME TypeOK, TypeOK', MailInv, NEW t \in Threads, ReceiveReturns(t) \/ (Fail(t) /\ Top(t).kind = "receive")
    PROVE  MailInv'
  <1>1. At(t, "receive", "user") /\ context' = NoContext /\ UNCHANGED nextId
    BY DEF ReceiveReturns, Fail, At
  <1>2. nextId \in Nat
    BY DEF TypeOK, EnclaveTypes
  <1>3. CASE ~PersistentMap
    <2>1. UNCHANGED <<mailCommands, batches>> /\ failed \subseteq failed'
      BY <1>3 DEF ReceiveReturns, Fail, hostVars
    <2> QED BY <1>1, <1>2, <1>3, <2>1, PlainMail
  <1>4. CASE PersistentMap /\ UNCHANGED <<mailCommands, batches>> /\ failed' = failed \cup {Top(t).id}
                          /\ stack' = [stack EXCEPT ![t] = Goto(t, "exit")]
    BY <1>1, <1>4, FailedMail
  <1>5. CASE PersistentMap /\ OnSealedState(t, [type |-> "StoreSealedState", id |-> Top(t).id], Goto(t, "exit"))
                          /\ UNCHANGED failed
    BY <1>1, <1>5, SealedMail
  <1>6. CASE Fail(t) /\ Top(t).kind = "receive"
    BY <1>3, <1>4, <1>6 DEF Fail, hostVars, Resume
  <1>7. CASE ReceiveReturns(t)
    BY <1>3, <1>4, <1>5, <1>7 DEF ReceiveReturns, Resume
  <1> QED BY <1>6, <1>7

\* The mail invariant is inductive: the persistent map admits one receive at a time, and what
\* it posts waits for its sealed state or for its failure.
THEOREM MailInductive == Spec => []MailInv
  <1>1. Init => MailInv
    <2> SUFFICES ASSUME Init PROVE MailInv
      OBVIOUS
    <2>1. Len(<<>>) = 0 /\ 1..0 = {} /\ DOMAIN <<>> = {}
      OBVIOUS
    <2>2. context.id = 0 /\ context = NoContext /\ nextId = 1 /\ batches = <<>>
      BY DEF Init, NoContext
    <2>3. \A t \in Threads : stack[t] = <<>> /\ mailCommands[t] = <<>>
      BY DEF Init
    <2>4. ContextNumbered
      BY <2>2 DEF ContextNumbered
    <2>5. ContextOwned
      <3>1. \A t \in Threads : UserReceives(stack[t]) = {}
        BY <2>1, <2>3 DEF UserReceives
      <3> QED BY <3>1 DEF ContextOwned, OwnedBy
    <2>6. CommandsWait
      BY <2>1, <2>3 DEF CommandsWait
    <2>7. BatchesInv
      BY <2>1, <2>2 DEF BatchesInv, SealedStatesInOrder
    <2> QED BY <2>4, <2>5, <2>6, <2>7 DEF MailInv
  <1>2. TypeOK /\ TypeOK' /\ CallStatesInv /\ MailInv /\ [Next]_vars => MailInv'
    <2> SUFFICES ASSUME TypeOK, TypeOK', CallStatesInv, MailInv, [Next]_vars
                 PROVE  MailInv'
      OBVIOUS
    <2>1. ASSUME NEW t \in Threads, Step(t)
          PROVE  MailInv'
      <3>1. Fail(t) => QuietStep(t) \/ (Fail(t) /\ Top(t).kind = "receive")
        BY DEF QuietStep
      <3> QED BY <2>1, <3>1, QuietMail, MethodMail, BeginMail, ExitMail, CloseMail DEF Step, QuietStep
    <2>2. CASE UNCHANGED vars
      <3>1. UNCHANGED <<stack, mailCommands, batches, context, nextId, failed>>
        BY <2>2 DEF vars, threadVars, hostVars, enclaveVars, receiveVars
      <3> QED BY <3>1 DEF MailInv, ContextNumbered, ContextOwned, CommandsWait, BatchesInv, NextSealed,
                          SealedStatesInOrder
    <2> QED BY <2>1, <2>2 DEF Next, Idle
  <1> QED BY <1>1, <1>2, TypeCorrect, CallStatesInductive, PTL DEF Spec

(***************************************************************************)
(* Theorem: the commands callback gets the sealed states in the order the  *)
(* enclave produced them, whatever threads they come from (onSealedState). *)
(***************************************************************************)
THEOREM SealedStatesStayInOrder == Spec => []SealedStatesInOrder
  <1>1. MailInv => SealedStatesInOrder
    BY DEF MailInv, BatchesInv
  <1> QED BY <1>1, MailInductive, PTL

(***************************************************************************)
(* Theorem: with the persistent map, mail of a receive that did not fail   *)
(* is handed over in one list with the sealed state of that receive        *)
(* (onSealedState, callIntoEnclave).                                       *)
(***************************************************************************)
THEOREM MailStaysWithItsState == Spec => []MailTravelsWithItsState
  <1>1. TypeOK /\ MailInv => MailTravelsWithItsState
    <2> SUFFICES ASSUME TypeOK, MailInv, PersistentMap, NEW i \in DOMAIN batches, NEW j \in DOMAIN batches[i]
                 PROVE  \/ batches[i][j].id \in failed
                        \/ \E k \in DOMAIN batches[i] :
                              batches[i][k] = [type |-> "StoreSealedState", id |-> batches[i][j].id]
      BY DEF MailTravelsWithItsState
    <2>1. batches \in Seq(Seq(Commands))
      BY DEF TypeOK, HostTypes
    <2>2. i \in 1..Len(batches) /\ DOMAIN batches[i] = 1..Len(batches[i])
      BY <2>1
    <2>3. Travels(batches[i], failed)
      BY <2>2 DEF MailInv, BatchesInv
    <2> QED BY <2>2, <2>3 DEF Travels
  <1> QED BY <1>1, TypeCorrect, MailInductive, PTL
=============================================================================

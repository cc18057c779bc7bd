------------------------- MODULE EnclaveCallsProofs -------------------------
(***************************************************************************)
(* Theorems about EnclaveCalls, for any set of threads and any nesting.    *)
(***************************************************************************)
EXTENDS EnclaveCalls, TLAPS, FiniteSetTheorems, SequenceTheorems

\* Pushing, popping and changing the top activation give sequences of activations again.
LEMMA StackTypes ==
    ASSUME NEW s \in Seq(Frames)
    PROVE  /\ \A f \in Frames : Append(s, f) \in Seq(Frames)
           /\ s # <<>> => /\ SubSeq(s, 1, Len(s) - 1) \in Seq(Frames)
                          /\ s[Len(s)] \in Frames
  OBVIOUS

\* The activations the actions push are well formed.
LEMMA FrameTypes ==
    ASSUME TypeOK, NEW t \in Threads
    PROVE  /\ \A k \in IntoKinds \cup HostUser \cup EnclaveUser \cup {"callOut", "close"},
                 pc \in {"enter", "called", "lock", "user"}, p \in CallStates :
                 Frame(t, k, pc, p) \in Frames
           /\ stack[t] # <<>> =>
                 /\ Top(t) \in Frames
                 /\ Popped(t) \in Seq(Frames)
                 /\ \A pc \in {"enter", "called", "lock", "user", "exit", "await", "shutdown", "destroy"} :
                       Goto(t, pc) \in Seq(Frames)
  <1> USE DEF Top, Popped, Frame, Goto
  <1>1. stack[t] \in Seq(Frames)
    BY DEF TypeOK, ThreadTypes
  <1>2. stack[t] # <<>> => Top(t) \in Frames /\ Popped(t) \in Seq(Frames)
    BY <1>1, StackTypes
  <1>3. ASSUME stack[t] # <<>>,
               NEW pc \in {"enter", "called", "lock", "user", "exit", "await", "shutdown", "destroy"}
        PROVE  Goto(t, pc) \in Seq(Frames)
    <2>1. [Top(t) EXCEPT !.pc = pc] \in Frames
      BY <1>2, <1>3 DEF Frames
    <2> QED BY <1>2, <1>3, <2>1, StackTypes
  <1>4. ASSUME NEW k \in IntoKinds \cup HostUser \cup EnclaveUser \cup {"callOut", "close"},
               NEW pc \in {"enter", "called", "lock", "user"}, NEW p \in CallStates
        PROVE  Frame(t, k, pc, p) \in Frames
    BY <1>2 DEF Frames
  <1> QED BY <1>2, <1>3, <1>4

\* The call states the actions set.
LEMMA CallStateTypes ==
    /\ Ready \in CallStates /\ Response \in CallStates /\ TopLevelReceive \in CallStates
    /\ \A cb \in BOOLEAN, n \in Nat : IntoEnclave(cb, n) \in CallStates /\ Receive(cb, n) \in CallStates
  BY DEF Ready, Response, TopLevelReceive, IntoEnclave, Receive, CallStates

\* A thread that goes on with a well-formed stack leaves the thread state well typed.
LEMMA ThreadStep ==
    ASSUME ThreadTypes, NEW t \in Threads, NEW s \in Seq(Frames), NEW exc \in BOOLEAN,
           Resume(t, s, exc), Spend(t) \/ UNCHANGED fuel
    PROVE  ThreadTypes'
  <1>1. stack' \in [Threads -> Seq(Frames)]
    BY DEF ThreadTypes, Resume
  <1>2. throwing' \in [Threads -> BOOLEAN]
    <2>1. (exc /\ s # <<>>) \in BOOLEAN
      OBVIOUS
    <2> QED BY <2>1 DEF ThreadTypes, Resume
  <1>3. fuel' \in [Threads -> Nat]
    <2>1. CASE Spend(t)
      <3>1. fuel[t] - 1 \in Nat
        BY <2>1 DEF ThreadTypes, Spend
      <3> QED BY <2>1, <3>1 DEF ThreadTypes, Spend
    <2>2. CASE UNCHANGED fuel
      BY <2>2 DEF ThreadTypes
    <2> QED BY <2>1, <2>2
  <1> QED BY <1>1, <1>2, <1>3 DEF ThreadTypes

\* Handing a list of commands to the callback keeps commands and history well typed.
LEMMA FireStep ==
    ASSUME TypeOK, NEW t \in Threads, NEW cmds \in Seq(Commands), NEW s \in Seq(Frames),
           FireMailCommands(t, cmds, s), UNCHANGED fuel
    PROVE  /\ ThreadTypes'
           /\ mailCommands' \in [Threads -> Seq(Commands)]
           /\ batches' \in Seq(Seq(Commands))
  <1>1. Append(s, Frame(t, "commands", "user", Ready)) \in Seq(Frames)
    BY FrameTypes, StackTypes, CallStateTypes DEF HostUser
  <1>2. ThreadTypes'
    BY <1>1, ThreadStep DEF FireMailCommands, TypeOK
  <1>3. mailCommands' \in [Threads -> Seq(Commands)]
    BY DEF FireMailCommands, TypeOK, HostTypes
  <1>4. batches' \in Seq(Seq(Commands))
    BY DEF FireMailCommands, TypeOK, HostTypes
  <1> QED BY <1>2, <1>3, <1>4

(***************************************************************************)
(* TypeOK is an invariant: whatever calls, exceptions and callbacks nest,  *)
(* each thread's stack, call states and mail commands stay well formed.    *)
(***************************************************************************)
THEOREM TypeCorrect == Spec => []TypeOK
  <1>1. Init => TypeOK
    <2> SUFFICES ASSUME Init PROVE TypeOK
      OBVIOUS
    <2>1. ThreadTypes
      BY ConfigAssumption DEF Init, ThreadTypes
    <2>2. HostTypes
      <3>1. hostCall \in [Threads -> CallStates] /\ mailCommands \in [Threads -> Seq(Commands)]
        BY CallStateTypes DEF Init
      <3>2. batches \in Seq(Seq(Commands))
        BY DEF Init
      <3> QED BY <3>1, <3>2 DEF Init, HostTypes
    <2>3. EnclaveTypes
      <3>1. enclaveCall \in [Threads -> CallStates]
        BY CallStateTypes DEF Init
      <3>2. context \in [id : Nat, pending : Int]
        BY DEF Init, NoContext
      <3>3. signalled \in BOOLEAN
        BY DEF Init
      <3>4. holds \in Int /\ executing \in Int /\ nextId \in Nat /\ failed \in SUBSET Nat
        BY DEF Init
      <3> QED BY <3>1, <3>2, <3>3, <3>4 DEF Init, EnclaveTypes
    <2> QED BY <2>1, <2>2, <2>3 DEF TypeOK
  <1>2. TypeOK /\ [Next]_vars => TypeOK'
    <2> SUFFICES ASSUME TypeOK, [Next]_vars PROVE TypeOK'
      OBVIOUS
    <2> USE DEF TypeOK
    <2>1. ASSUME NEW t \in Threads, NEW k \in IntoKinds, NEW cb \in BOOLEAN, CallIntoEnclave(t, k, cb)
          PROVE  TypeOK'
      <3>1. Append(stack[t], Frame(t, k, "enter", hostCall[t])) \in Seq(Frames)
        BY FrameTypes, StackTypes DEF ThreadTypes, HostTypes
      <3>2. ThreadTypes'
        BY <2>1, <3>1, ThreadStep DEF CallIntoEnclave
      <3>3. HostTypes'
        BY <2>1, CallStateTypes DEF HostTypes, CallIntoEnclave, ThreadTypes
      <3>4. EnclaveTypes'
        BY <2>1 DEF CallIntoEnclave, EnclaveTypes, enclaveVars, lockVars, receiveVars
      <3> QED BY <3>2, <3>3, <3>4
    <2>2. ASSUME NEW t \in Threads, EnterEnclave(t)
          PROVE  TypeOK'
      <3>1. /\ Goto(t, "called") \in Seq(Frames)
            /\ Append(Goto(t, "called"), Frame(t, "receive", "lock", Ready)) \in Seq(Frames)
            /\ Append(Goto(t, "called"), Frame(t, "enclaveCallback", "user", Ready)) \in Seq(Frames)
        BY <2>2, FrameTypes, StackTypes, CallStateTypes DEF EnterEnclave, At, EnclaveUser
      <3>2. ThreadTypes'
        BY <2>2, <3>1, ThreadStep DEF EnterEnclave
      <3>3. HostTypes' /\ EnclaveTypes'
        BY <2>2 DEF EnterEnclave, HostTypes, EnclaveTypes, hostVars, enclaveVars, lockVars, receiveVars
      <3> QED BY <3>2, <3>3
    <2>3. ASSUME NEW t \in Threads, RejectReceive(t)
          PROVE  TypeOK'
      <3>1. ThreadTypes'
        BY <2>3, FrameTypes, ThreadStep DEF RejectReceive, At
      <3>2. HostTypes' /\ EnclaveTypes'
        BY <2>3 DEF RejectReceive, HostTypes, EnclaveTypes, hostVars, enclaveVars, lockVars, receiveVars
      <3> QED BY <3>1, <3>2
    <2>4. ASSUME NEW t \in Threads, BeginReceive(t)
          PROVE  TypeOK'
      <3>1. [Top(t) EXCEPT !.pc = "user", !.id = nextId] \in Frames
        <4>1. Top(t) \in Frames
          BY <2>4, FrameTypes DEF BeginReceive, At
        <4>2. nextId \in Nat
          BY DEF EnclaveTypes
        <4> QED BY <4>1, <4>2 DEF Frames
      <3>2. Append(Popped(t), [Top(t) EXCEPT !.pc = "user", !.id = nextId]) \in Seq(Frames)
        BY <2>4, <3>1, FrameTypes, StackTypes DEF BeginReceive, At
      <3>3. ThreadTypes'
        BY <2>4, <3>2, ThreadStep DEF BeginReceive
      <3>4. HostTypes'
        BY <2>4 DEF BeginReceive, HostTypes, hostVars
      <3>5. EnclaveTypes'
        BY <2>4, ConfigAssumption DEF BeginReceive, EnclaveTypes, lockVars
      <3> QED BY <3>3, <3>4, <3>5
    <2>5. ASSUME NEW t \in Threads, CreateMail(t)
          PROVE  TypeOK'
      <3>1. ThreadTypes'
        BY <2>5 DEF CreateMail, ThreadTypes, Spend
      <3>2. context' \in [id : Nat, pending : Int]
        BY <2>5 DEF CreateMail, EnclaveTypes
      <3>3. HostTypes'
        BY <2>5 DEF CreateMail, HostTypes, hostVars
      <3>4. EnclaveTypes'
        BY <2>5, <3>2 DEF CreateMail, EnclaveTypes, lockVars
      <3> QED BY <3>1, <3>3, <3>4
    <2>6. ASSUME NEW t \in Threads, PostMail(t)
          PROVE  TypeOK'
      <3>1. ThreadTypes'
        BY <2>6 DEF PostMail, ThreadTypes, Spend
      <3>2. [type |-> "PostMail", id |-> Top(t).id] \in Commands
        BY <2>6, FrameTypes DEF PostMail, EnclaveCode, At, Commands, Frames
      <3>3. HostTypes'
        BY <2>6, <3>2 DEF PostMail, HostTypes
      <3>4. EnclaveTypes'
        BY <2>6 DEF PostMail, EnclaveTypes, lockVars
      <3> QED BY <3>1, <3>3, <3>4
    <2>7. ASSUME NEW t \in Threads, NEW cb \in BOOLEAN, CallUntrustedHost(t, cb)
          PROVE  TypeOK'
      <3> DEFINE out == Append(stack[t], Frame(t, "callOut", "called", enclaveCall[t]))
      <3>1. out \in Seq(Frames)
        BY FrameTypes, StackTypes DEF ThreadTypes, EnclaveTypes
      <3>2. Append(out, Frame(t, "hostCallback", "user", Ready)) \in Seq(Frames)
        BY <3>1, FrameTypes, StackTypes, CallStateTypes DEF HostUser
      <3>3. ThreadTypes'
        BY <2>7, <3>1, <3>2, ThreadStep DEF CallUntrustedHost
      <3>4. HostTypes'
        BY <2>7 DEF CallUntrustedHost, HostTypes, hostVars
      <3>5. EnclaveTypes'
        BY <2>7, CallStateTypes DEF CallUntrustedHost, EnclaveTypes, ThreadTypes, lockVars, receiveVars
      <3> QED BY <3>3, <3>4, <3>5
    <2>8. ASSUME NEW t \in Threads, NEW r \in BOOLEAN, HostCallbackReturns(t, r)
          PROVE  TypeOK'
      <3>1. (r /\ destroyed) \in BOOLEAN
        OBVIOUS
      <3>2. ThreadTypes'
        BY <2>8, <3>1, FrameTypes, ThreadStep DEF HostCallbackReturns, At
      <3>3. HostTypes'
        BY <2>8 DEF HostCallbackReturns, HostTypes, hostVars
      <3>4. EnclaveTypes'
        BY <2>8, CallStateTypes DEF HostCallbackReturns, EnclaveTypes, lockVars, receiveVars
      <3> QED BY <3>2, <3>3, <3>4
    <2>9. ASSUME NEW t \in Threads, CallUntrustedHostReturns(t)
          PROVE  TypeOK'
      <3>1. Top(t).prev \in CallStates
        BY <2>9, FrameTypes DEF CallUntrustedHostReturns, RevertEnclaveCall, At, Frames
      <3>2. throwing[t] \in BOOLEAN
        BY DEF ThreadTypes
      <3>3. ThreadTypes'
        BY <2>9, <3>2, FrameTypes, ThreadStep DEF CallUntrustedHostReturns, RevertEnclaveCall, At
      <3>4. HostTypes'
        BY <2>9 DEF CallUntrustedHostReturns, RevertEnclaveCall, HostTypes, hostVars
      <3>5. EnclaveTypes'
        BY <2>9, <3>1 DEF CallUntrustedHostReturns, RevertEnclaveCall, EnclaveTypes, lockVars, receiveVars
      <3> QED BY <3>3, <3>4, <3>5
    <2>10. ASSUME NEW t \in Threads, NEW r \in BOOLEAN, EnclaveCallbackReturns(t, r)
           PROVE  TypeOK'
      <3>1. ThreadTypes'
        BY <2>10, FrameTypes, ThreadStep DEF EnclaveCallbackReturns, At
      <3>2. HostTypes'
        BY <2>10, CallStateTypes DEF EnclaveCallbackReturns, HostTypes
      <3>3. EnclaveTypes'
        BY <2>10 DEF EnclaveCallbackReturns, EnclaveTypes, enclaveVars, lockVars, receiveVars
      <3> QED BY <3>1, <3>2, <3>3
    <2>11. ASSUME NEW t \in Threads, ReceiveReturns(t)
           PROVE  TypeOK'
      <3>1. Goto(t, "exit") \in Seq(Frames) /\ Top(t) \in Frames
        BY <2>11, FrameTypes DEF ReceiveReturns, OnSealedState, At
      <3>2. Append(mailCommands[t], [type |-> "StoreSealedState", id |-> Top(t).id]) \in Seq(Commands)
        <4>1. [type |-> "StoreSealedState", id |-> Top(t).id] \in Commands
          BY <3>1 DEF Frames, Commands
        <4> QED BY <4>1 DEF HostTypes
      <3>3. /\ ThreadTypes'
            /\ mailCommands' \in [Threads -> Seq(Commands)]
            /\ batches' \in Seq(Seq(Commands))
        BY <2>11, <3>1, <3>2, ThreadStep, FireStep DEF ReceiveReturns, OnSealedState, HostTypes
      <3>4. HostTypes'
        BY <2>11, <3>3 DEF ReceiveReturns, OnSealedState, HostTypes
      <3>5. failed' \in SUBSET Nat
        BY <2>11, <3>1 DEF ReceiveReturns, OnSealedState, EnclaveTypes, Frames
      <3>6. context' \in [id : Nat, pending : Int]
        BY <2>11 DEF ReceiveReturns, OnSealedState, NoContext
      <3>7. EnclaveTypes'
        BY <2>11, <3>5, <3>6 DEF ReceiveReturns, OnSealedState, EnclaveTypes, lockVars
      <3> QED BY <3>3, <3>4, <3>7
    <2>12. ASSUME NEW t \in Threads, NEW r \in BOOLEAN, ExitReceive(t, r)
           PROVE  TypeOK'
      <3>1. throwing[t] \in BOOLEAN
        BY DEF ThreadTypes
      <3>2. ThreadTypes'
        BY <2>12, <3>1, FrameTypes, ThreadStep DEF ExitReceive, Unlock, SignalsQuiescence, At
      <3>3. HostTypes'
        BY <2>12, CallStateTypes DEF ExitReceive, Unlock, SignalsQuiescence, HostTypes
      <3>4. signalled' \in BOOLEAN
        BY <2>12 DEF ExitReceive, Unlock, SignalsQuiescence, EnclaveTypes
      <3>5. holds' \in Int /\ executing' \in Int /\ lock' \in Threads \cup {NoThread}
        BY <2>12 DEF ExitReceive, Unlock, SignalsQuiescence, EnclaveTypes, lockVars
      <3>6. EnclaveTypes'
        BY <2>12, <3>4, <3>5 DEF ExitReceive, Unlock, SignalsQuiescence, EnclaveTypes
      <3> QED BY <3>2, <3>3, <3>6
    <2>13. ASSUME NEW t \in Threads, CallIntoEnclaveReturns(t)
           PROVE  TypeOK'
      <3>1. Top(t) \in Frames /\ Popped(t) \in Seq(Frames)
        BY <2>13, FrameTypes DEF CallIntoEnclaveReturns, RevertHostCall, At
      <3>2. throwing[t] \in BOOLEAN /\ mailCommands[t] \in Seq(Commands)
        BY DEF ThreadTypes, HostTypes
      <3>3. /\ ThreadTypes'
            /\ mailCommands' \in [Threads -> Seq(Commands)]
            /\ batches' \in Seq(Seq(Commands))
        BY <2>13, <3>1, <3>2, ThreadStep, FireStep DEF CallIntoEnclaveReturns, RevertHostCall, HostTypes
      <3>4. HostTypes'
        BY <2>13, <3>1, <3>3 DEF CallIntoEnclaveReturns, RevertHostCall, HostTypes, Frames
      <3>5. EnclaveTypes'
        BY <2>13 DEF CallIntoEnclaveReturns, RevertHostCall, EnclaveTypes, enclaveVars, lockVars, receiveVars
      <3> QED BY <3>3, <3>4, <3>5
    <2>14. ASSUME NEW t \in Threads, CommandsReturn(t)
           PROVE  TypeOK'
      <3>1. ThreadTypes'
        BY <2>14, FrameTypes, ThreadStep DEF CommandsReturn, At
      <3>2. HostTypes' /\ EnclaveTypes'
        BY <2>14 DEF CommandsReturn, HostTypes, EnclaveTypes, hostVars, enclaveVars, lockVars, receiveVars
      <3> QED BY <3>1, <3>2
    <2>15. ASSUME NEW t \in Threads, Fail(t)
           PROVE  TypeOK'
      <3>1. Top(t) \in Frames /\ Popped(t) \in Seq(Frames) /\ Goto(t, "exit") \in Seq(Frames)
        BY <2>15, FrameTypes DEF Fail, At
      <3>2. ThreadTypes'
        BY <2>15, <3>1, ThreadStep DEF Fail
      <3>3. HostTypes'
        BY <2>15 DEF Fail, HostTypes, hostVars
      <3>4. failed' \in SUBSET Nat
        BY <2>15, <3>1 DEF Fail, EnclaveTypes, Frames
      <3>5. context' \in [id : Nat, pending : Int]
        BY <2>15 DEF Fail, EnclaveTypes, NoContext
      <3>6. EnclaveTypes'
        BY <2>15, <3>4, <3>5 DEF Fail, EnclaveTypes, lockVars
      <3> QED BY <3>2, <3>3, <3>6
    <2>16. ASSUME NEW t \in Threads, Catch(t)
           PROVE  TypeOK'
      <3>1. ThreadTypes'
        BY <2>16, ThreadStep DEF Catch, ThreadTypes
      <3>2. HostTypes' /\ EnclaveTypes'
        BY <2>16 DEF Catch, HostTypes, EnclaveTypes, hostVars, enclaveVars, lockVars, receiveVars
      <3> QED BY <3>1, <3>2
    <2>17. ASSUME NEW t \in Threads, Close(t)
           PROVE  TypeOK'
      <3>1. Append(stack[t], Frame(t, "close", "lock", Ready)) \in Seq(Frames)
        BY FrameTypes, StackTypes, CallStateTypes DEF ThreadTypes
      <3>2. ThreadTypes'
        BY <2>17, <3>1, ThreadStep DEF Close
      <3>3. HostTypes' /\ EnclaveTypes'
        BY <2>17 DEF Close, HostTypes, EnclaveTypes, enclaveVars, lockVars, receiveVars
      <3> QED BY <3>2, <3>3
    <2>18. ASSUME NEW t \in Threads, StopEnclave(t)
           PROVE  TypeOK'
      <3>1. Goto(t, "await") \in Seq(Frames) /\ Goto(t, "shutdown") \in Seq(Frames)
        BY <2>18, FrameTypes DEF StopEnclave, MustWait, Stopped, At
      <3>2. ThreadTypes'
        BY <2>18, <3>1, ThreadStep DEF StopEnclave, MustWait, Stopped
      <3>3. HostTypes'
        BY <2>18 DEF StopEnclave, MustWait, Stopped, HostTypes, hostVars
      <3>4. EnclaveTypes'
        <4>1. lock' \in Threads \cup {NoThread} /\ holds' \in Int
          <5>1. CASE MustWait
            BY <2>18, <5>1 DEF StopEnclave, MustWait, Stopped, EnclaveTypes, lockVars
          <5>2. CASE ~MustWait
            BY <2>18, <5>2 DEF StopEnclave, MustWait, Stopped, EnclaveTypes
          <5> QED BY <5>1, <5>2
        <4> QED BY <2>18, <4>1 DEF StopEnclave, MustWait, Stopped, EnclaveTypes, receiveVars
      <3> QED BY <3>2, <3>3, <3>4
    <2>19. ASSUME NEW t \in Threads, StopAwakes(t)
           PROVE  TypeOK'
      <3>1. Goto(t, "shutdown") \in Seq(Frames)
        BY <2>19, FrameTypes DEF StopAwakes, MustWait, At
      <3>2. ThreadTypes'
        <4>1. CASE MustWait
          BY <2>19, <4>1 DEF StopAwakes, MustWait, ThreadTypes
        <4>2. CASE ~MustWait
          BY <2>19, <3>1, <4>2, ThreadStep DEF StopAwakes, MustWait
        <4> QED BY <4>1, <4>2
      <3>3. HostTypes'
        BY <2>19 DEF StopAwakes, MustWait, HostTypes, hostVars
      <3>4. signalled' \in BOOLEAN
        BY <2>19 DEF StopAwakes, MustWait
      <3>5. EnclaveTypes'
        <4>1. lock' \in Threads \cup {NoThread} /\ holds' \in Int
          <5>1. CASE MustWait
            BY <2>19, <5>1 DEF StopAwakes, MustWait, EnclaveTypes, lockVars
          <5>2. CASE ~MustWait
            BY <2>19, <5>2 DEF StopAwakes, MustWait, EnclaveTypes
          <5> QED BY <5>1, <5>2
        <4> QED BY <2>19, <3>4, <4>1 DEF StopAwakes, MustWait, EnclaveTypes
      <3> QED BY <3>2, <3>3, <3>5
    <2>20. ASSUME NEW t \in Threads, ShutdownReturns(t)
           PROVE  TypeOK'
      <3>1. ThreadTypes'
        BY <2>20, FrameTypes, ThreadStep DEF ShutdownReturns, Unlock, At
      <3>2. HostTypes'
        BY <2>20 DEF ShutdownReturns, Unlock, HostTypes, hostVars
      <3>3. EnclaveTypes'
        BY <2>20 DEF ShutdownReturns, Unlock, EnclaveTypes, receiveVars
      <3> QED BY <3>1, <3>2, <3>3
    <2>21. ASSUME NEW t \in Threads, Destroy(t)
           PROVE  TypeOK'
      <3>1. throwing[t] \in BOOLEAN
        BY DEF ThreadTypes
      <3>2. ThreadTypes'
        BY <2>21, <3>1, FrameTypes, ThreadStep DEF Destroy, At
      <3>3. destroyed' \in BOOLEAN
        BY <2>21 DEF Destroy, HostTypes
      <3>4. HostTypes'
        BY <2>21, <3>3 DEF Destroy, HostTypes
      <3>5. EnclaveTypes'
        BY <2>21 DEF Destroy, EnclaveTypes, enclaveVars, lockVars, receiveVars
      <3> QED BY <3>2, <3>4, <3>5
    <2>22. CASE UNCHANGED vars
      BY <2>22 DEF vars, threadVars, hostVars, enclaveVars, lockVars, receiveVars,
                   ThreadTypes, HostTypes, EnclaveTypes
    <2> QED BY <2>1, <2>2, <2>3, <2>4, <2>5, <2>6, <2>7, <2>8, <2>9, <2>10, <2>11, <2>12,
               <2>13, <2>14, <2>15, <2>16, <2>17, <2>18, <2>19, <2>20, <2>21, <2>22
            DEF Next, Idle, Step
  <1> QED BY <1>1, <1>2, PTL DEF Spec

-----------------------------------------------------------------------------
(***************************************************************************)
(* Mutual exclusion.  The reentrant lock is modelled, as in the JDK, by an *)
(* owner and a hold count; the inductive invariant ties the count to the   *)
(* activations on the owner's stack.                                       *)
(***************************************************************************)
Count(s) == Cardinality(HeldBy(s))

\* Pushing an activation adds one hold or none.
LEMMA CountAppend ==
    ASSUME NEW s \in Seq(Frames), NEW f \in Frames
    PROVE  /\ IsFiniteSet(HeldBy(s))
           /\ Count(s) \in Nat
           /\ Count(Append(s, f)) = IF Holding(f) THEN Count(s) + 1 ELSE Count(s)
  <1>1. IsFiniteSet(1 .. Len(s)) /\ HeldBy(s) \subseteq 1 .. Len(s)
    BY FS_Interval DEF HeldBy
  <1>2. IsFiniteSet(HeldBy(s))
    BY <1>1, FS_Subset
  <1>3. Count(s) \in Nat
    BY <1>2, FS_CardinalityType DEF Count
  <1>4. CASE Holding(f)
    <2>1. HeldBy(Append(s, f)) = HeldBy(s) \cup {Len(s) + 1}
      BY <1>4 DEF HeldBy
    <2>2. Len(s) + 1 \notin HeldBy(s)
      BY DEF HeldBy
    <2> QED BY <1>2, <1>3, <1>4, <2>1, <2>2, FS_AddElement DEF Count
  <1>5. CASE ~Holding(f)
    <2>1. HeldBy(Append(s, f)) = HeldBy(s)
      BY <1>5 DEF HeldBy
    <2> QED BY <1>2, <1>3, <1>5, <2>1 DEF Count
  <1> QED BY <1>2, <1>3, <1>4, <1>5

\* Popping an activation removes its hold, if it has one.
LEMMA CountPopped ==
    ASSUME NEW s \in Seq(Frames), s # <<>>
    PROVE  LET p == SubSeq(s, 1, Len(s) - 1)
           IN  /\ Count(p) \in Nat
               /\ Count(s) = IF Holding(s[Len(s)]) THEN Count(p) + 1 ELSE Count(p)
  <1> DEFINE p == SubSeq(s, 1, Len(s) - 1)
  <1>1. p \in Seq(Frames) /\ s[Len(s)] \in Frames
    BY StackTypes
  <1>2. s = Append(p, s[Len(s)])
    OBVIOUS
  <1> QED BY <1>1, <1>2, CountAppend

\* The stacks an action can give a thread, and the holds on them.
LEMMA CountMoves ==
    ASSUME TypeOK, NEW t \in Threads
    PROVE  /\ Count(stack[t]) \in Nat
           /\ \A f \in Frames : ~Holding(f) => Count(Append(stack[t], f)) = Count(stack[t])
           /\ stack[t] # <<>> =>
                /\ Count(Popped(t)) = IF Holding(Top(t)) THEN Count(stack[t]) - 1 ELSE Count(stack[t])
                /\ \A f \in Frames :
                     Count(Append(Popped(t), f)) = IF Holding(f) THEN Count(Popped(t)) + 1 ELSE Count(Popped(t))
  <1>1. stack[t] \in Seq(Frames)
    BY DEF TypeOK, ThreadTypes
  <1>2. Count(stack[t]) \in Nat /\ \A f \in Frames : ~Holding(f) => Count(Append(stack[t], f)) = Count(stack[t])
    <2>1. Ready \in CallStates
      BY CallStateTypes
    <2>2. Frame(t, "close", "lock", Ready) \in Frames
      BY <2>1, FrameTypes
    <2> QED BY <1>1, <2>2, CountAppend
  <1>3. ASSUME stack[t] # <<>>
        PROVE  /\ Count(Popped(t)) = IF Holding(Top(t)) THEN Count(stack[t]) - 1 ELSE Count(stack[t])
               /\ \A f \in Frames :
                    Count(Append(Popped(t), f)) = IF Holding(f) THEN Count(Popped(t)) + 1 ELSE Count(Popped(t))
    <2>1. Popped(t) \in Seq(Frames)
      BY <1>3, FrameTypes
    <2>2. /\ Count(Popped(t)) \in Nat
          /\ Count(stack[t]) = IF Holding(Top(t)) THEN Count(Popped(t)) + 1 ELSE Count(Popped(t))
      BY <1>1, <1>3, CountPopped DEF Popped, Top
    <2>3. \A f \in Frames :
             Count(Append(Popped(t), f)) = IF Holding(f) THEN Count(Popped(t)) + 1 ELSE Count(Popped(t))
      BY <2>1, CountAppend
    <2>4. Count(Popped(t)) = IF Holding(Top(t)) THEN Count(stack[t]) - 1 ELSE Count(stack[t])
      BY <2>2
    <2> QED BY <2>3, <2>4
  <1> QED BY <1>2, <1>3

\* An action that leaves the holds on a thread's stack and the lock alone keeps the accounts.
LEMMA LockKept ==
    ASSUME TypeOK, LockAccounting, NEW t \in Threads, NEW s, NEW exc,
           Resume(t, s, exc), Count(s) = Count(stack[t]), UNCHANGED lockVars
    PROVE  LockAccounting'
  BY DEF LockAccounting, Count, Resume, TypeOK, ThreadTypes, lockVars

\* Entering withLock ...
LEMMA LockTaken ==
    ASSUME TypeOK, LockAccounting, NEW t \in Threads, NEW s, NEW exc,
           Resume(t, s, exc), Count(s) = Count(stack[t]) + 1,
           lock \in {NoThread, t}, lock' = t, holds' = holds + 1
    PROVE  LockAccounting'
  <1>1. \A u \in Threads : Count(stack[u])' = IF u = t THEN Count(s) ELSE Count(stack[u])
    BY DEF Resume, TypeOK, ThreadTypes, Count
  <1>2. holds \in Int /\ t # NoThread
    BY ConfigAssumption DEF TypeOK, EnclaveTypes
  <1> QED BY <1>1, <1>2, ConfigAssumption DEF LockAccounting, Count

\* ... and leaving it.
LEMMA LockReleased ==
    ASSUME TypeOK, LockAccounting, NEW t \in Threads, NEW s, NEW exc,
           Resume(t, s, exc), Count(stack[t]) \in Nat, Count(s) \in Nat, Count(s) = Count(stack[t]) - 1,
           lock' = (IF holds = 1 THEN NoThread ELSE lock), holds' = holds - 1
    PROVE  LockAccounting'
  <1>1. \A u \in Threads : Count(stack[u])' = IF u = t THEN Count(s) ELSE Count(stack[u])
    BY DEF Resume, TypeOK, ThreadTypes, Count
  <1>2. holds \in Int /\ NoThread \notin Threads
    BY ConfigAssumption DEF TypeOK, EnclaveTypes
  <1>3. lock = t /\ holds = Count(stack[t]) /\ holds > 0
    BY <1>2 DEF LockAccounting, Count
  <1> QED BY <1>1, <1>2, <1>3 DEF LockAccounting, Count

\* Which activations hold the lock when they are created, and what a step within the
\* topmost activation does to the holds.
LEMMA HoldingFrames ==
    ASSUME TypeOK, NEW t \in Threads
    PROVE  /\ \A k \in IntoKinds \cup HostUser \cup EnclaveUser \cup {"callOut", "close"},
                 pc \in {"enter", "called", "lock"}, p \in CallStates : ~Holding(Frame(t, k, pc, p))
           /\ \A k \in {"enclaveCallback", "hostCallback", "commands"}, p \in CallStates :
                 ~Holding(Frame(t, k, "user", p))
  BY DEF Holding, Frame, IntoKinds, HostUser, EnclaveUser

LEMMA CountGoto ==
    ASSUME TypeOK, NEW t \in Threads, stack[t] # <<>>,
           NEW pc \in {"enter", "called", "lock", "user", "exit", "await", "shutdown", "destroy"}
    PROVE  /\ Top(t) \in Frames
           /\ Count(Popped(t)) \in Nat
           /\ Count(stack[t]) = IF Holding(Top(t)) THEN Count(Popped(t)) + 1 ELSE Count(Popped(t))
           /\ Count(Goto(t, pc)) = IF \/ ~ThreadSafe /\ Top(t).kind = "receive" /\ pc \in {"user", "exit"}
                                      \/ Top(t).kind = "close" /\ pc = "shutdown"
                                   THEN Count(Popped(t)) + 1 ELSE Count(Popped(t))
  <1> DEFINE f == [Top(t) EXCEPT !.pc = pc]
  <1>1. Top(t) \in Frames /\ Popped(t) \in Seq(Frames)
    BY FrameTypes
  <1>2. f \in Frames /\ f.kind = Top(t).kind /\ f.pc = pc
    BY <1>1 DEF Frames
  <1>3. Count(Append(Popped(t), f)) = IF Holding(f) THEN Count(Popped(t)) + 1 ELSE Count(Popped(t))
    BY <1>1, <1>2, CountAppend
  <1>4. /\ Count(Popped(t)) \in Nat
        /\ Count(stack[t]) = IF Holding(Top(t)) THEN Count(Popped(t)) + 1 ELSE Count(Popped(t))
    BY CountPopped DEF Popped, Top, TypeOK, ThreadTypes
  <1> QED BY <1>1, <1>2, <1>3, <1>4 DEF Goto, Holding

\* Running the commands callback takes no hold.
LEMMA FireCount ==
    ASSUME TypeOK, NEW t \in Threads, NEW s \in Seq(Frames)
    PROVE  Count(Append(s, Frame(t, "commands", "user", Ready))) = Count(s)
  BY CountAppend, HoldingFrames, FrameTypes, CallStateTypes DEF HostUser

(***************************************************************************)
(* Theorem: the enclave lock is taken and released in pairs, through every *)
(* nesting of calls and every exception.                                   *)
(***************************************************************************)
THEOREM LockAccounted == Spec => []LockAccounting
  <1>1. Init => LockAccounting
    <2>1. HeldBy(<<>>) = {}
      BY DEF HeldBy
    <2>2. Cardinality({}) = 0
      BY FS_EmptySet
    <2> SUFFICES ASSUME Init PROVE LockAccounting
      OBVIOUS
    <2>3. \A t \in Threads : Cardinality(HeldBy(stack[t])) = 0 /\ lock # t
      BY <2>1, <2>2, ConfigAssumption DEF Init
    <2>4. lock = NoThread /\ holds = 0
      BY DEF Init
    <2> QED BY <2>3, <2>4 DEF LockAccounting
  <1>2. TypeOK /\ LockAccounting /\ [Next]_vars => LockAccounting'
    <2> SUFFICES ASSUME TypeOK, LockAccounting, [Next]_vars PROVE LockAccounting'
      OBVIOUS
    <2>1. ASSUME NEW t \in Threads, NEW k \in IntoKinds, NEW cb \in BOOLEAN, CallIntoEnclave(t, k, cb)
          PROVE  LockAccounting'
      <3> DEFINE f == Frame(t, k, "enter", hostCall[t])
      <3>1. f \in Frames /\ ~Holding(f)
        BY FrameTypes, HoldingFrames DEF TypeOK, HostTypes
      <3>2. Count(Append(stack[t], f)) = Count(stack[t])
        BY <3>1, CountMoves
      <3> QED BY <2>1, <3>2, LockKept DEF CallIntoEnclave, enclaveVars
    <2>2. ASSUME NEW t \in Threads, EnterEnclave(t)
          PROVE  LockAccounting'
      <3> DEFINE s == Goto(t, "called")
      <3>1. stack[t] # <<>> /\ Top(t).kind \in IntoKinds /\ s \in Seq(Frames)
        BY <2>2, FrameTypes DEF EnterEnclave, At
      <3>2. Count(s) = Count(stack[t])
        BY <2>2, <3>1, CountGoto DEF EnterEnclave, At, Holding, IntoKinds
      <3>3. \A f \in {Frame(t, "receive", "lock", Ready), Frame(t, "enclaveCallback", "user", Ready)} :
               f \in Frames /\ ~Holding(f)
        BY FrameTypes, HoldingFrames, CallStateTypes DEF EnclaveUser
      <3>4. \A f \in {Frame(t, "receive", "lock", Ready), Frame(t, "enclaveCallback", "user", Ready)} :
               Count(Append(s, f)) = Count(stack[t])
        BY <3>1, <3>2, <3>3, CountAppend
      <3> QED BY <2>2, <3>2, <3>4, LockKept DEF EnterEnclave, enclaveVars
    <2>3. ASSUME NEW t \in Threads, RejectReceive(t)
          PROVE  LockAccounting'
      <3>1. Count(Popped(t)) = Count(stack[t])
        BY <2>3, CountGoto DEF RejectReceive, At, Holding
      <3> QED BY <2>3, <3>1, LockKept DEF RejectReceive, enclaveVars
    <2>4. ASSUME NEW t \in Threads, BeginReceive(t)
          PROVE  LockAccounting'
      <3> DEFINE f == [Top(t) EXCEPT !.pc = "user", !.id = nextId]
      <3>1. stack[t] # <<>> /\ Top(t).kind = "receive" /\ Top(t).pc = "lock"
        BY <2>4 DEF BeginReceive, At
      <3>2. f \in Frames /\ f.kind = "receive" /\ f.pc = "user"
        <4>1. Top(t) \in Frames /\ nextId \in Nat
          BY <3>1, FrameTypes DEF TypeOK, EnclaveTypes
        <4> QED BY <3>1, <4>1 DEF Frames
      <3>3. Count(Append(Popped(t), f)) = IF ThreadSafe THEN Count(stack[t]) ELSE Count(stack[t]) + 1
        BY <3>1, <3>2, CountMoves DEF Holding
      <3>4. CASE ThreadSafe
        BY <2>4, <3>3, <3>4, LockKept DEF BeginReceive
      <3>5. CASE ~ThreadSafe
        BY <2>4, <3>3, <3>5, LockTaken DEF BeginReceive
      <3> QED BY <3>4, <3>5
    <2>5. ASSUME NEW t \in Threads, CreateMail(t) \/ PostMail(t)
          PROVE  LockAccounting'
      <3>1. UNCHANGED <<stack, lockVars>>
        BY <2>5 DEF CreateMail, PostMail
      <3> QED BY <3>1 DEF LockAccounting, lockVars
    <2>6. ASSUME NEW t \in Threads, NEW cb \in BOOLEAN, CallUntrustedHost(t, cb)
          PROVE  LockAccounting'
      <3> DEFINE out == Append(stack[t], Frame(t, "callOut", "called", enclaveCall[t]))
      <3>1. Frame(t, "callOut", "called", enclaveCall[t]) \in Frames /\ Frame(t, "hostCallback", "user", Ready) \in Frames
        BY FrameTypes, CallStateTypes DEF TypeOK, EnclaveTypes, HostUser
      <3>2. out \in Seq(Frames) /\ Count(out) = Count(stack[t])
        BY <3>1, CountMoves, HoldingFrames, StackTypes DEF TypeOK, ThreadTypes, EnclaveTypes
      <3>3. Count(Append(out, Frame(t, "hostCallback", "user", Ready))) = Count(stack[t])
        BY <3>1, <3>2, CountAppend, HoldingFrames, CallStateTypes
      <3> QED BY <2>6, <3>2, <3>3, LockKept DEF CallUntrustedHost
    <2>7. ASSUME NEW t \in Threads, NEW r \in BOOLEAN, HostCallbackReturns(t, r)
          PROVE  LockAccounting'
      <3>1. Count(Popped(t)) = Count(stack[t])
        BY <2>7, CountGoto DEF HostCallbackReturns, At, Holding
      <3> QED BY <2>7, <3>1, LockKept DEF HostCallbackReturns, enclaveVars
    <2>8. ASSUME NEW t \in Threads, CallUntrustedHostReturns(t)
          PROVE  LockAccounting'
      <3>1. Count(Popped(t)) = Count(stack[t])
        BY <2>8, CountGoto DEF CallUntrustedHostReturns, RevertEnclaveCall, At, Holding
      <3> QED BY <2>8, <3>1, LockKept DEF CallUntrustedHostReturns, RevertEnclaveCall, enclaveVars
    <2>9. ASSUME NEW t \in Threads, NEW r \in BOOLEAN, EnclaveCallbackReturns(t, r)
          PROVE  LockAccounting'
      <3>1. Count(Popped(t)) = Count(stack[t])
        BY <2>9, CountGoto DEF EnclaveCallbackReturns, At, Holding
      <3> QED BY <2>9, <3>1, LockKept DEF EnclaveCallbackReturns, enclaveVars
    <2>10. ASSUME NEW t \in Threads, ReceiveReturns(t)
          PROVE  LockAccounting'
      <3>1. stack[t] # <<>> /\ Top(t).kind = "receive" /\ Top(t).pc = "user"
        BY <2>10 DEF ReceiveReturns, OnSealedState, At
      <3>2. Goto(t, "exit") \in Seq(Frames) /\ Count(Goto(t, "exit")) = Count(stack[t])
        BY <3>1, CountGoto, FrameTypes DEF Holding
      <3>3. Count(Append(Goto(t, "exit"), Frame(t, "commands", "user", Ready))) = Count(stack[t])
        BY <3>2, FireCount
      <3> QED BY <2>10, <3>2, <3>3, LockKept DEF ReceiveReturns, OnSealedState, FireMailCommands
    <2>11. ASSUME NEW t \in Threads, NEW r \in BOOLEAN, ExitReceive(t, r)
          PROVE  LockAccounting'
      <3>1. stack[t] # <<>> /\ Top(t).kind = "receive" /\ Top(t).pc = "exit"
        BY <2>11 DEF ExitReceive, Unlock, SignalsQuiescence, At
      <3>2. /\ Count(stack[t]) \in Nat /\ Count(Popped(t)) \in Nat
            /\ Count(Popped(t)) = IF ThreadSafe THEN Count(stack[t]) ELSE Count(stack[t]) - 1
        BY <3>1, CountGoto DEF Holding
      <3>3. CASE ThreadSafe
        BY <2>11, <3>2, <3>3, LockKept DEF ExitReceive, Unlock, SignalsQuiescence
      <3>4. CASE ~ThreadSafe
        BY <2>11, <3>2, <3>4, LockReleased DEF ExitReceive, Unlock, SignalsQuiescence
      <3> QED BY <3>3, <3>4
    <2>12. ASSUME NEW t \in Threads, CallIntoEnclaveReturns(t)
          PROVE  LockAccounting'
      <3>1. Popped(t) \in Seq(Frames) /\ Count(Popped(t)) = Count(stack[t])
        BY <2>12, CountGoto, FrameTypes DEF CallIntoEnclaveReturns, RevertHostCall, At, Holding, IntoKinds
      <3>2. Count(Append(Popped(t), Frame(t, "commands", "user", Ready))) = Count(stack[t])
        BY <3>1, FireCount
      <3> QED BY <2>12, <3>1, <3>2, LockKept DEF CallIntoEnclaveReturns, RevertHostCall, FireMailCommands, enclaveVars
    <2>13. ASSUME NEW t \in Threads, CommandsReturn(t)
          PROVE  LockAccounting'
      <3>1. Count(Popped(t)) = Count(stack[t])
        BY <2>13, CountGoto DEF CommandsReturn, At, Holding
      <3> QED BY <2>13, <3>1, LockKept DEF CommandsReturn, enclaveVars
    <2>14. ASSUME NEW t \in Threads, Fail(t)
          PROVE  LockAccounting'
      <3>1. stack[t] # <<>> /\ Top(t).kind \in HostUser \cup EnclaveUser /\ Top(t).pc = "user"
        BY <2>14 DEF Fail, At
      <3>2. Top(t).kind = "receive" => Count(Goto(t, "exit")) = Count(stack[t])
        BY <3>1, CountGoto DEF Holding
      <3>3. Top(t).kind # "receive" => Count(Popped(t)) = Count(stack[t])
        BY <3>1, CountGoto DEF Holding, HostUser, EnclaveUser
      <3> QED BY <2>14, <3>2, <3>3, LockKept DEF Fail
    <2>15. ASSUME NEW t \in Threads, Catch(t)
          PROVE  LockAccounting'
      BY <2>15, LockKept DEF Catch, enclaveVars
    <2>16. ASSUME NEW t \in Threads, Close(t)
          PROVE  LockAccounting'
      <3> DEFINE f == Frame(t, "close", "lock", Ready)
      <3>1. f \in Frames /\ ~Holding(f)
        BY FrameTypes, HoldingFrames, CallStateTypes
      <3>2. Count(Append(stack[t], f)) = Count(stack[t])
        BY <3>1, CountMoves
      <3> QED BY <2>16, <3>2, LockKept DEF Close, enclaveVars
    <2>17. ASSUME NEW t \in Threads, StopEnclave(t)
          PROVE  LockAccounting'
      <3>1. stack[t] # <<>> /\ Top(t).kind = "close" /\ Top(t).pc = "lock"
        BY <2>17 DEF StopEnclave, MustWait, Stopped, At
      <3>2. Count(Goto(t, "await")) = Count(stack[t]) /\ Count(Goto(t, "shutdown")) = Count(stack[t]) + 1
        BY <3>1, CountGoto DEF Holding
      <3>3. CASE MustWait
        BY <2>17, <3>2, <3>3, LockKept DEF StopEnclave, MustWait, Stopped
      <3>4. CASE ~MustWait
        BY <2>17, <3>2, <3>4, LockTaken DEF StopEnclave, MustWait, Stopped
      <3> QED BY <3>3, <3>4
    <2>18. ASSUME NEW t \in Threads, StopAwakes(t)
          PROVE  LockAccounting'
      <3>1. stack[t] # <<>> /\ Top(t).kind = "close" /\ Top(t).pc = "await"
        BY <2>18 DEF StopAwakes, MustWait, At
      <3>2. Count(Goto(t, "shutdown")) = Count(stack[t]) + 1
        BY <3>1, CountGoto DEF Holding
      <3>3. CASE MustWait
        BY <2>18, <3>3 DEF StopAwakes, MustWait, LockAccounting, lockVars
      <3>4. CASE ~MustWait
        <4>1. lock = NoThread /\ holds' = holds + 1
          BY <2>18, <3>4 DEF StopAwakes, MustWait, LockAccounting
        <4> QED BY <2>18, <3>2, <3>4, <4>1, LockTaken DEF StopAwakes, MustWait
      <3> QED BY <3>3, <3>4
    <2>19. ASSUME NEW t \in Threads, ShutdownReturns(t)
          PROVE  LockAccounting'
      <3>1. stack[t] # <<>> /\ Top(t).kind = "close" /\ Top(t).pc = "shutdown"
        BY <2>19 DEF ShutdownReturns, Unlock, At
      <3>2. /\ Count(stack[t]) \in Nat /\ Count(Goto(t, "destroy")) \in Nat
            /\ Count(Goto(t, "destroy")) = Count(stack[t]) - 1
        BY <3>1, CountGoto DEF Holding
      <3> QED BY <2>19, <3>2, LockReleased DEF ShutdownReturns, Unlock
    <2>20. ASSUME NEW t \in Threads, Destroy(t)
          PROVE  LockAccounting'
      <3>1. Count(Popped(t)) = Count(stack[t])
        BY <2>20, CountGoto DEF Destroy, At, Holding
      <3> QED BY <2>20, <3>1, LockKept DEF Destroy, enclaveVars
    <2>21. CASE UNCHANGED vars
      BY <2>21 DEF vars, threadVars, enclaveVars, lockVars, LockAccounting
    <2> QED BY <2>1, <2>2, <2>3, <2>4, <2>5, <2>6, <2>7, <2>8, <2>9, <2>10, <2>11, <2>12,
               <2>13, <2>14, <2>15, <2>16, <2>17, <2>18, <2>19, <2>20, <2>21
            DEF Next, Idle, Step
  <1> QED BY <1>1, <1>2, TypeCorrect, PTL DEF Spec

(***************************************************************************)
(* Theorem: receives of an enclave that is not thread-safe exclude each    *)
(* other, for any number of threads and any nesting of calls, callbacks    *)
(* and exceptions.                                                         *)
(***************************************************************************)
THEOREM MutualExclusion == Spec => []ReceivesExclusive
  <1>1. TypeOK /\ LockAccounting => ReceivesExclusive
    <2> SUFFICES ASSUME TypeOK, LockAccounting, ~ThreadSafe,
                        NEW t \in Threads, NEW u \in Threads, Receiving(t), Receiving(u)
                 PROVE  t = u
      BY DEF ReceivesExclusive
    <2>1. ASSUME NEW v \in Threads, Receiving(v)
          PROVE  lock = v
      <3>1. PICK i \in DOMAIN stack[v] : Holding(stack[v][i])
        BY <2>1 DEF Receiving, Holding
      <3>2. HeldBy(stack[v]) # {}
        BY <3>1 DEF HeldBy
      <3>3. IsFiniteSet(HeldBy(stack[v]))
        <4>1. stack[v] \in Seq(Frames) /\ Frame(v, "close", "lock", Ready) \in Frames
          BY FrameTypes, CallStateTypes DEF TypeOK, ThreadTypes
        <4> QED BY <4>1, CountAppend
      <3>4. Cardinality(HeldBy(stack[v])) # 0
        BY <3>2, <3>3, FS_EmptySet
      <3> QED BY <3>4 DEF LockAccounting
    <2> QED BY <2>1
  <1> QED BY <1>1, TypeCorrect, LockAccounted, PTL
=============================================================================

-------------------------- MODULE ClientMailProofs --------------------------
(***************************************************************************)
(* Theorems about ClientMail, for any number of clients, host threads,     *)
(* messages, restarts and alarms, and for honest and untrusted hosts.      *)
(***************************************************************************)
EXTENDS ClientMail, TLAPS, SequenceTheorems

ClientStates == [key : Nat, seq : Nat, seen : Nat]
Pcs   == {"idle", "sending", "waiting", "answered", "refused"}
Calls == [pc : Pcs, request : Requests \cup {NoRequest}, answer : Mails \cup {NoMail}, attempts : Nat]

\* Taking the first mail of a queue and joining queues.
LEMMA MailSeqTypes ==
    ASSUME NEW s \in Seq(Mails)
    PROVE  /\ s # <<>> => Head(s) \in Mails /\ Tail(s) \in Seq(Mails)
           /\ \A m \in Mails : Append(s, m) \in Seq(Mails)
           /\ \A r \in Seq(Mails) : s \o r \in Seq(Mails)
  OBVIOUS

\* A sendMail call that ends or goes on is a call.
LEMMA MoveCallTypes ==
    ASSUME ClientTypes, NEW c \in Clients, NEW pc \in Pcs
    PROVE  MoveCall(c, pc) \in [Clients -> Calls]
  <1>1. IdleCall \in Calls
    BY DEF IdleCall, Calls, Pcs
  <1>2. [call[c] EXCEPT !.pc = pc] \in Calls
    BY DEF ClientTypes, Calls, Pcs
  <1> QED BY <1>1, <1>2 DEF MoveCall, ClientTypes, Calls, Pcs

LEMMA AdvanceTypes ==
    ASSUME ClientTypes, NEW q, NEW pc \in Pcs, Advance(q, pc)
    PROVE  call' \in [Clients -> Calls]
  BY MoveCallTypes DEF Advance, Awaits, ClientTypes, Calls, Pcs

LEMMA EncryptTypes ==
    ASSUME ClientTypes, HostTypes, NEW c \in Clients, NEW st \in ClientStates,
           NEW n \in Nat, NEW attempts \in Nat, Encrypt(c, st, n, attempts)
    PROVE  /\ client' \in [Clients -> ClientStates]
           /\ call' \in [Clients -> Calls]
           /\ requests' \subseteq Requests
  <1> DEFINE q == [from |-> c, key |-> st.key, seq |-> st.seq, n |-> n]
  <1>1. q \in Requests
    BY DEF Requests, ClientStates
  <1>2. [st EXCEPT !.seq = @ + 1] \in ClientStates
    BY DEF ClientStates
  <1>3. [pc |-> "sending", request |-> q, answer |-> NoMail, attempts |-> attempts] \in Calls
    BY <1>1 DEF Calls, Pcs
  <1>4. client' \in [Clients -> ClientStates]
    BY <1>2 DEF Encrypt, ClientTypes, ClientStates
  <1>5. call' \in [Clients -> Calls]
    BY <1>3 DEF Encrypt, ClientTypes, Calls, Pcs
  <1>6. requests' \subseteq Requests
    BY <1>1 DEF Encrypt, HostTypes
  <1> QED BY <1>4, <1>5, <1>6

LEMMA ProcessMailTypes ==
    ASSUME ClientTypes, NEW c \in Clients, NEW m \in Mails, ProcessMail(c, m)
    PROVE  /\ client' \in [Clients -> ClientStates]
           /\ alarms' \in [Clients -> Nat]
           /\ losses' \in [Clients -> Nat]
  <1>1. m.id \in Nat
    BY DEF Mails
  <1>2. [client[c] EXCEPT !.seen = m.id] \in ClientStates
    BY <1>1 DEF ClientTypes, ClientStates
  <1>3. client' \in [Clients -> ClientStates]
    BY <1>2 DEF ProcessMail, ClientTypes, ClientStates
  <1>4. alarms' = alarms \/ alarms' = [alarms EXCEPT ![c] = @ + 1]
    BY DEF ProcessMail
  <1>5. losses' = losses \/ losses' = [losses EXCEPT ![c] = @ + 1]
    BY DEF ProcessMail
  <1>6. alarms' \in [Clients -> Nat]
    BY <1>4 DEF ClientTypes
  <1>7. losses' \in [Clients -> Nat]
    BY <1>5 DEF ClientTypes
  <1> QED BY <1>3, <1>6, <1>7

\* What the enclave posts and remembers in a receive.
LEMMA ExecuteReceiveTypes ==
    ASSUME MailTypeOK, NEW h \in HostThreads, NEW q \in Requests \cup {NoRequest},
           NEW out \in Seq(Clients), ExecuteReceive(h, q, out)
    PROVE  /\ memory' \in States
           /\ lineages' \in Seq(SUBSET Nat)
           /\ receive' \in [request : Requests \cup {NoRequest}, mails : Seq(Mails),
                            response : Mails \cup {NoMail}, busy : BOOLEAN]
           /\ leaked' \in [HostThreads -> Seq(Mails)]
           /\ posted' \subseteq Mails
           /\ call' \in [Clients -> Calls]
  <1> DEFINE id    == Len(lineages) + 1
             mails == [i \in DOMAIN out |->
                         [to |-> out[i], key |-> epoch, id |-> id, prev |-> memory.lastSeen[out[i]]]]
             after == [lastSeen |-> LastSeenUpdated(out, id), effects |-> memory.effects \cup {id}]
  <1>1. /\ id \in Nat /\ epoch \in Nat /\ memory \in States
        /\ lineages \in Seq(SUBSET Nat)
    BY DEF MailTypeOK, EnclaveTypes
  <1>2. \A i \in DOMAIN out : mails[i] \in Mails
    <2> SUFFICES ASSUME NEW i \in DOMAIN out
                 PROVE  [to |-> out[i], key |-> epoch, id |-> id,
                         prev |-> memory.lastSeen[out[i]]] \in Mails
      OBVIOUS
    <2>1. out[i] \in Clients
      OBVIOUS
    <2>2. memory.lastSeen[out[i]] \in Nat
      BY <1>1, <2>1 DEF States
    <2> QED BY <1>1, <2>1, <2>2 DEF Mails
  <1>3. mails \in Seq(Mails)
    <2>1. DOMAIN out = 1..Len(out) /\ Len(out) \in Nat
      OBVIOUS
    <2>2. DOMAIN mails = 1..Len(out)
      BY <2>1
    <2> HIDE DEF mails
    <2> QED BY <1>2, <2>1, <2>2 DEF mails
  <1>4. after \in States
    <2>1. LastSeenUpdated(out, id) \in [Clients -> Nat]
      BY <1>1 DEF LastSeenUpdated, States
    <2>2. memory.effects \cup {id} \in SUBSET Nat
      BY <1>1 DEF States
    <2> QED BY <2>1, <2>2 DEF States
  <1>5. [memory EXCEPT !.effects = after.effects] \in States
    BY <1>1, <1>4 DEF States
  <1> HIDE DEF mails, after, id
  <1>6. memory' \in States
    BY <1>4, <1>5 DEF ExecuteReceive, mails, after, id
  <1>7. lineages' \in Seq(SUBSET Nat)
    <2>1. memory.effects \in SUBSET Nat
      BY <1>1 DEF States
    <2> QED BY <1>1, <2>1 DEF ExecuteReceive
  <1>8. leaked[h] \in Seq(Mails) /\ leaked[h] \o mails \in Seq(Mails)
    BY <1>3, MailSeqTypes DEF MailTypeOK, HostTypes
  <1>9. receive' \in [request : Requests \cup {NoRequest}, mails : Seq(Mails),
                      response : Mails \cup {NoMail}, busy : BOOLEAN]
    <2>1. [request |-> q, mails |-> leaked[h] \o mails, response |-> NoMail, busy |-> TRUE]
             \in [request : Requests \cup {NoRequest}, mails : Seq(Mails),
                  response : Mails \cup {NoMail}, busy : BOOLEAN]
      BY <1>8
    <2>2. receive' = [request |-> q, mails |-> leaked[h] \o mails, response |-> NoMail, busy |-> TRUE]
             \/ receive' = receive
      BY DEF ExecuteReceive, mails, id
    <2> QED BY <2>1, <2>2 DEF MailTypeOK, HostTypes
  <1>10. leaked' \in [HostThreads -> Seq(Mails)]
    <2>1. leaked' = [leaked EXCEPT ![h] = <<>>] \/ leaked' = [leaked EXCEPT ![h] = @ \o mails]
      BY DEF ExecuteReceive, mails, id
    <2>2. <<>> \in Seq(Mails)
      OBVIOUS
    <2> QED BY <1>8, <2>1, <2>2 DEF MailTypeOK, HostTypes
  <1>11. posted' \subseteq Mails
    <2>1. posted' = posted \cup {mails[i] : i \in DOMAIN mails}
      BY DEF ExecuteReceive, mails, id
    <2>2. DOMAIN mails = DOMAIN out
      BY DEF mails
    <2> QED BY <1>2, <2>1, <2>2 DEF MailTypeOK, HostTypes
  <1>12. call' \in [Clients -> Calls]
    <2>1. Advance(q, "waiting") \/ Advance(q, GiveUp)
      BY DEF ExecuteReceive
    <2> QED BY <2>1, AdvanceTypes DEF GiveUp, Pcs, MailTypeOK
  <1> QED BY <1>6, <1>7, <1>9, <1>10, <1>11, <1>12

\* The recipients a receive chooses are clients.
LEMMA OutboundTypes ==
    ASSUME NEW from, from \in Clients \/ AsyncMail, NEW out \in Outbound(from)
    PROVE  out \in Seq(Clients)
  <1>1. CASE AsyncMail
    <2>1. PICK n \in 0..MaxMails : out \in [1..n -> Clients]
      BY <1>1 DEF Outbound
    <2>2. n \in Nat
      BY <2>1, MailConfigAssumption
    <2> QED BY <2>1, <2>2
  <1>2. CASE ~AsyncMail
    <2>1. out = <<>> \/ out = <<from>>
      BY <1>2 DEF Outbound
    <2>2. from \in Clients
      BY <1>2
    <2>3. <<>> \in Seq(Clients) /\ <<from>> \in Seq(Clients)
      BY <2>2
    <2> QED BY <2>1, <2>3
  <1> QED BY <1>1, <1>2

-----------------------------------------------------------------------------
(***************************************************************************)
(* The type invariant.                                                     *)
(***************************************************************************)
LEMMA MailTypeInit == Init => MailTypeOK
  <1> SUFFICES ASSUME Init PROVE MailTypeOK
    OBVIOUS
  <1>1. EnclaveTypes
    BY DEF Init, EnclaveTypes, States
  <1>2. HostTypes
    BY DEF Init, HostTypes, States, NoReceive
  <1>3. ClientTypes
    BY DEF Init, ClientTypes, IdleCall
  <1> QED BY <1>1, <1>2, <1>3 DEF MailTypeOK

\* A step of a client.
LEMMA ClientStepTypes ==
    ASSUME MailTypeOK, NEW c \in Clients, ClientStep(c)
    PROVE  MailTypeOK'
  <1> USE DEF ClientStates, Calls, Pcs
  <1>0. EnclaveTypes /\ HostTypes /\ ClientTypes
    BY DEF MailTypeOK
  <1>1. CASE SendMail(c)
    <2>1. sends' \in [Clients -> Nat] /\ sends'[c] \in Nat /\ client[c] \in ClientStates
      BY <1>0, <1>1 DEF SendMail, ClientTypes
    <2>2. /\ client' \in [Clients -> ClientStates]
          /\ call' \in [Clients -> Calls]
          /\ requests' \subseteq Requests
      BY <1>0, <1>1, <2>1, EncryptTypes DEF SendMail
    <2> QED BY <1>0, <1>1, <2>1, <2>2
            DEF SendMail, MailTypeOK, EnclaveTypes, HostTypes, ClientTypes, enclaveVars, hostVars
  <1>2. CASE RetryMail(c)
    <2> DEFINE st == [client[c] EXCEPT !.key = epoch, !.seq = SequenceReset(c)]
    <2>1. st \in ClientStates
      BY <1>0, ZenonT(40) DEF SequenceReset, EnclaveTypes, ClientTypes
    <2>2. call[c].request.n \in Nat /\ call[c].attempts + 1 \in Nat
      BY <1>0 DEF ClientTypes, Requests, NoRequest
    <2>3. IdleCall \in Calls
      BY DEF IdleCall
    <2>4. /\ client' \in [Clients -> ClientStates]
          /\ call' \in [Clients -> Calls]
          /\ requests' \subseteq Requests
      <3>1. CASE client[c].key = epoch
        <4>1. call' = [call EXCEPT ![c] = IdleCall] /\ UNCHANGED <<client, requests>>
          BY <1>2, <3>1 DEF RetryMail
        <4> QED BY <1>0, <2>3, <4>1 DEF ClientTypes, HostTypes
      <3>2. CASE Encrypt(c, st, call[c].request.n, call[c].attempts + 1)
        BY <1>0, <2>1, <2>2, <3>2, EncryptTypes
      <3>3. CASE /\ client' = [client EXCEPT ![c] = st]
                 /\ call' = [call EXCEPT ![c] = IdleCall]
                 /\ UNCHANGED requests
        BY <1>0, <2>1, <2>3, <3>3 DEF ClientTypes, HostTypes
      <3> QED BY <1>2, <3>1, <3>2, <3>3 DEF RetryMail
    <2> QED BY <1>0, <1>2, <2>4
            DEF RetryMail, MailTypeOK, EnclaveTypes, HostTypes, ClientTypes, enclaveVars, hostVars, boundVars
  <1>3. CASE SendMailReturns(c)
    <2>1. /\ client' \in [Clients -> ClientStates]
          /\ alarms' \in [Clients -> Nat]
          /\ losses' \in [Clients -> Nat]
      <3>1. CASE call[c].answer = NoMail
        BY <1>0, <1>3, <3>1 DEF SendMailReturns, ClientTypes
      <3>2. CASE call[c].answer # NoMail
        <4>1. call[c].answer \in Mails
          BY <1>0, <3>2 DEF ClientTypes
        <4> QED BY <1>0, <1>3, <3>2, <4>1, ProcessMailTypes DEF SendMailReturns
      <3> QED BY <3>1, <3>2
    <2>2. call' \in [Clients -> Calls]
      BY <1>0, <1>3 DEF SendMailReturns, ClientTypes, IdleCall
    <2> QED BY <1>0, <1>3, <2>1, <2>2
            DEF SendMailReturns, MailTypeOK, EnclaveTypes, HostTypes, ClientTypes, enclaveVars, hostVars, boundVars
  <1>4. CASE Timeout(c)
    <2>1. call' \in [Clients -> Calls]
      BY <1>0, <1>4, MoveCallTypes DEF Timeout, GiveUp
    <2>2. losses' \in [Clients -> Nat]
      BY <1>0, <1>4 DEF Timeout, ClientTypes
    <2> QED BY <1>0, <1>4, <2>1, <2>2
            DEF Timeout, MailTypeOK, EnclaveTypes, HostTypes, ClientTypes, enclaveVars, hostVars, boundVars
  <1>5. ASSUME NEW lost \in BOOLEAN, PollMail(c, lost)
        PROVE  MailTypeOK'
    <2>1. Head(inbox[c]) \in Mails /\ Tail(inbox[c]) \in Seq(Mails)
      BY <1>0, <1>5, MailSeqTypes DEF PollMail, HostTypes
    <2>2. inbox' \in [Clients -> Seq(Mails)]
      BY <1>0, <1>5, <2>1 DEF PollMail, HostTypes
    <2>3. /\ client' \in [Clients -> ClientStates]
          /\ alarms' \in [Clients -> Nat]
          /\ losses' \in [Clients -> Nat]
      <3>1. CASE lost
        <4>1. losses' = [losses EXCEPT ![c] = @ + 1] /\ UNCHANGED <<client, alarms>>
          BY <1>5, <3>1 DEF PollMail
        <4> QED BY <1>0, <4>1 DEF ClientTypes
      <3>2. CASE ~lost
        BY <1>0, <1>5, <2>1, <3>2, ProcessMailTypes DEF PollMail
      <3> QED BY <3>1, <3>2
    <2> QED BY <1>0, <1>5, <2>2, <2>3
            DEF PollMail, MailTypeOK, EnclaveTypes, HostTypes, ClientTypes, enclaveVars, boundVars
  <1>6. CASE Save(c)
    BY <1>0, <1>6
    DEF Save, MailTypeOK, EnclaveTypes, HostTypes, ClientTypes, enclaveVars, hostVars, boundVars
  <1>7. CASE Restore(c)
    <2>1. client' \in [Clients -> ClientStates]
      BY <1>0, <1>7 DEF Restore, ClientTypes, EnclaveTypes
    <2>2. call' \in [Clients -> Calls]
      BY <1>0, <1>7 DEF Restore, ClientTypes, IdleCall
    <2>3. losses' \in [Clients -> Nat]
      <3>1. (IF saved[c].seen # client[c].seen \/ call[c].answer # NoMail THEN 1 ELSE 0) \in Nat
        OBVIOUS
      <3> QED BY <1>0, <1>7, <3>1 DEF Restore, ClientTypes
    <2>4. restores' \in Nat
      BY <1>0, <1>7 DEF Restore, ClientTypes
    <2> QED BY <1>0, <1>7, <2>1, <2>2, <2>3, <2>4
            DEF Restore, MailTypeOK, EnclaveTypes, HostTypes, ClientTypes, enclaveVars, hostVars
  <1> QED BY <1>1, <1>2, <1>3, <1>4, <1>5, <1>6, <1>7 DEF ClientStep

\* A restart with a sealed state.
LEMMA RestartTypes ==
    ASSUME MailTypeOK, NEW s \in States, Restart(s)
    PROVE  MailTypeOK'
  <1> USE DEF ClientStates, Calls, Pcs
  <1>0. EnclaveTypes /\ HostTypes /\ ClientTypes
    BY DEF MailTypeOK
  <1>1. epoch' \in Nat /\ watermark' \in [Clients -> Int] /\ memory' \in States
    BY <1>0 DEF Restart, SessionKey, EnclaveTypes
  <1>2. receive' \in [request : Requests \cup {NoRequest}, mails : Seq(Mails),
                      response : Mails \cup {NoMail}, busy : BOOLEAN]
    BY DEF Restart, NoReceive
  <1>3. leaked' \in [HostThreads -> Seq(Mails)] /\ inbox' \in [Clients -> Seq(Mails)]
    BY DEF Restart
  <1>4. losses' \in [Clients -> Nat]
    BY <1>0 DEF Restart, ClientTypes
  <1>5. call' \in [Clients -> Calls]
    BY <1>0 DEF Restart, ClientTypes, IdleCall
  <1> QED BY <1>0, <1>1, <1>2, <1>3, <1>4, <1>5
          DEF Restart, MailTypeOK, EnclaveTypes, HostTypes, ClientTypes, boundVars

\* A step of the host or of the enclave.
LEMMA HostStepTypes ==
    ASSUME MailTypeOK, HostStep
    PROVE  MailTypeOK'
  <1> USE DEF ClientStates, Calls, Pcs
  <1>0. EnclaveTypes /\ HostTypes /\ ClientTypes
    BY DEF MailTypeOK
  <1>1. ASSUME NEW q \in requests, RefuseMail(q) \/ RejectMail(q)
        PROVE  MailTypeOK'
    <2>1. call' \in [Clients -> Calls]
      BY <1>0, <1>1, AdvanceTypes DEF RefuseMail, RejectMail, GiveUp
    <2>2. requests' \subseteq Requests
      BY <1>0, <1>1 DEF RefuseMail, RejectMail, Taken, HostTypes
    <2>3. UNCHANGED <<enclaveVars, hostVars, client, saved, alarms, losses, posted, lineages,
                      processed, boundVars>>
      BY <1>1 DEF RefuseMail, RejectMail
    <2> QED BY <1>0, <2>1, <2>2, <2>3
            DEF MailTypeOK, EnclaveTypes, HostTypes, ClientTypes, enclaveVars, hostVars, boundVars
  <1>2. ASSUME NEW h \in HostThreads, NEW q \in requests, NEW out \in Outbound(q.from),
               ReceiveMail(h, q, out)
        PROVE  MailTypeOK'
    <2>1. q \in Requests /\ q.from \in Clients
      BY <1>0 DEF HostTypes, Requests
    <2>2. out \in Seq(Clients)
      BY <1>2, <2>1, OutboundTypes
    <2>3. watermark' \in [Clients -> Int]
      BY <1>0, <1>2, <2>1 DEF ReceiveMail, EnclaveTypes
    <2>4. processed' \in Seq(Requests)
      BY <1>0, <1>2, <2>1 DEF ReceiveMail, EnclaveTypes
    <2>5. requests' \subseteq Requests
      BY <1>0, <1>2 DEF ReceiveMail, Taken, HostTypes
    <2>6. ExecuteReceive(h, q, out)
      BY <1>2 DEF ReceiveMail
    <2>7. UNCHANGED <<epoch, inbox, stored, sealed, client, saved, alarms, losses, boundVars>>
      BY <1>2 DEF ReceiveMail
    <2> QED BY <1>0, <2>1, <2>2, <2>3, <2>4, <2>5, <2>6, <2>7, ExecuteReceiveTypes
            DEF MailTypeOK, EnclaveTypes, HostTypes, ClientTypes, boundVars
  <1>3. ASSUME AsyncMail, NEW h \in HostThreads, NEW out \in Outbound(NoClient),
               ReceiveFromUntrustedHost(h, out)
        PROVE  MailTypeOK'
    <2>1. out \in Seq(Clients)
      BY <1>3, OutboundTypes
    <2>2. hostCalls' \in Nat
      BY <1>0, <1>3 DEF ReceiveFromUntrustedHost, ClientTypes
    <2>3. ExecuteReceive(h, NoRequest, out)
      BY <1>3 DEF ReceiveFromUntrustedHost
    <2>4. UNCHANGED <<epoch, watermark, inbox, stored, sealed, client, saved, alarms, losses,
                      requests, processed, sends, restores>>
      BY <1>3 DEF ReceiveFromUntrustedHost
    <2> QED BY <1>0, <2>1, <2>2, <2>3, <2>4, ExecuteReceiveTypes
            DEF MailTypeOK, EnclaveTypes, HostTypes, ClientTypes
  <1>4. CASE ProcessPostMail
    <2> DEFINE m == Head(receive.mails)
               answers == m.to = receive.request.from /\ receive.response = NoMail
    <2>1. m \in Mails /\ Tail(receive.mails) \in Seq(Mails) /\ m.to \in Clients
      BY <1>0, <1>4, MailSeqTypes DEF ProcessPostMail, HostTypes, Mails
    <2>2. inbox' \in [Clients -> Seq(Mails)]
      <3>1. Append(inbox[m.to], m) \in Seq(Mails)
        BY <1>0, <2>1, MailSeqTypes DEF HostTypes
      <3>2. inbox' = inbox \/ inbox' = [inbox EXCEPT ![m.to] = Append(@, m)]
        BY <1>4 DEF ProcessPostMail
      <3> QED BY <1>0, <3>1, <3>2 DEF HostTypes
    <2>3. receive' \in [request : Requests \cup {NoRequest}, mails : Seq(Mails),
                        response : Mails \cup {NoMail}, busy : BOOLEAN]
      <3>1. PICK r \in Mails \cup {NoMail} :
               receive' = [receive EXCEPT !.mails = Tail(@), !.response = r]
        <4>1. CASE answers
          BY <1>4, <2>1, <4>1 DEF ProcessPostMail
        <4>2. CASE ~answers
          BY <1>0, <1>4, <4>2 DEF ProcessPostMail, HostTypes
        <4> QED BY <4>1, <4>2
      <3> QED BY <1>0, <2>1, <3>1 DEF HostTypes
    <2> QED BY <1>0, <1>4, <2>2, <2>3
            DEF ProcessPostMail, MailTypeOK, EnclaveTypes, HostTypes, ClientTypes,
                enclaveVars, clientVars, boundVars
  <1>5. CASE DeliverMailReturns
    <2> DEFINE q == receive.request
    <2>1. stored' \in States /\ sealed' \subseteq States
      BY <1>0, <1>5 DEF DeliverMailReturns, StoreSealedState, HostTypes, EnclaveTypes
    <2>2. receive' \in [request : Requests \cup {NoRequest}, mails : Seq(Mails),
                        response : Mails \cup {NoMail}, busy : BOOLEAN]
      BY <1>5 DEF DeliverMailReturns, NoReceive
    <2>3. call' \in [Clients -> Calls]
      <3>1. CASE Awaits(q, "waiting")
        <4>1. q.from \in Clients /\ receive.response \in Mails \cup {NoMail}
          BY <1>0, <3>1 DEF Awaits, HostTypes
        <4>2. call' = [call EXCEPT ![q.from].pc = "answered", ![q.from].answer = receive.response]
          BY <1>5, <3>1 DEF DeliverMailReturns
        <4>3. [call[q.from] EXCEPT !.pc = "answered", !.answer = receive.response] \in Calls
          <5>1. call[q.from] \in Calls
            BY <1>0, <4>1 DEF ClientTypes
          <5> QED BY <4>1, <5>1
        <4>4. call' = [call EXCEPT ![q.from] =
                         [call[q.from] EXCEPT !.pc = "answered", !.answer = receive.response]]
          BY <1>0, <4>1, <4>2 DEF ClientTypes
        <4> QED BY <1>0, <4>1, <4>3, <4>4 DEF ClientTypes
      <3>2. CASE ~Awaits(q, "waiting")
        BY <1>0, <1>5, <3>2 DEF DeliverMailReturns, ClientTypes
      <3> QED BY <3>1, <3>2
    <2>4. losses' \in [Clients -> Nat]
      <3>1. losses' = losses \/ losses' = [losses EXCEPT ![q.from] = @ + 1]
        BY <1>5 DEF DeliverMailReturns
      <3> QED BY <1>0, <3>1 DEF ClientTypes
    <2> QED BY <1>0, <1>5, <2>1, <2>2, <2>3, <2>4
            DEF DeliverMailReturns, MailTypeOK, EnclaveTypes, HostTypes, ClientTypes, enclaveVars, boundVars
  <1>6. CASE Restart(stored)
    BY <1>0, <1>6, RestartTypes DEF HostTypes
  <1> QED BY <1>1, <1>2, <1>3, <1>4, <1>5, <1>6 DEF HostStep

\* A step of an untrusted host.
LEMMA UntrustedHostTypes ==
    ASSUME MailTypeOK, UntrustedHost
    PROVE  MailTypeOK'
  <1> USE DEF ClientStates, Calls, Pcs
  <1>0. EnclaveTypes /\ HostTypes /\ ClientTypes
    BY DEF MailTypeOK
  <1>1. ASSUME NEW s \in sealed, Restart(s)
        PROVE  MailTypeOK'
    BY <1>0, <1>1, RestartTypes DEF HostTypes
  <1>2. ASSUME NEW c \in Clients, NEW m \in posted, UntrustedAnswer(c, m)
        PROVE  MailTypeOK'
    <2>0. [call[c] EXCEPT !.pc = "answered", !.answer = m] \in Calls
      BY <1>0, <1>2, ZenonT(40) DEF ClientTypes, HostTypes
    <2>1. call' \in [Clients -> Calls]
      <3>1. call' = [call EXCEPT ![c] = [call[c] EXCEPT !.pc = "answered", !.answer = m]]
        BY <1>0, <1>2 DEF UntrustedAnswer, ClientTypes
      <3> QED BY <1>0, <2>0, <3>1 DEF ClientTypes
    <2> QED BY <1>0, <1>2, <2>1
            DEF UntrustedAnswer, MailTypeOK, EnclaveTypes, HostTypes, ClientTypes,
                enclaveVars, hostVars, boundVars
  <1>3. ASSUME NEW c \in Clients, NEW m \in posted, UntrustedPoll(c, m)
        PROVE  MailTypeOK'
    <2>1. /\ client' \in [Clients -> ClientStates]
          /\ alarms' \in [Clients -> Nat]
          /\ losses' \in [Clients -> Nat]
      BY <1>0, <1>3, ProcessMailTypes DEF UntrustedPoll, HostTypes
    <2> QED BY <1>0, <1>3, <2>1
            DEF UntrustedPoll, MailTypeOK, EnclaveTypes, HostTypes, ClientTypes,
                enclaveVars, hostVars, boundVars
  <1>4. ASSUME NEW c \in Clients, UntrustedRefusal(c)
        PROVE  MailTypeOK'
    <2>1. call' \in [Clients -> Calls]
      BY <1>0, <1>4 DEF UntrustedRefusal, ClientTypes
    <2> QED BY <1>0, <1>4, <2>1
            DEF UntrustedRefusal, MailTypeOK, EnclaveTypes, HostTypes, ClientTypes,
                enclaveVars, hostVars, boundVars
  <1> QED BY <1>1, <1>2, <1>3, <1>4 DEF UntrustedHost

\* Every reachable state of clients, host and enclave is well typed, however they and their
\* connection fail.
THEOREM MailTypeCorrect == Spec => []MailTypeOK
  <1>1. ASSUME MailTypeOK, [Next]_vars
        PROVE  MailTypeOK'
    <2>1. CASE Idle \/ UNCHANGED vars
      BY <1>1, <2>1 DEF Idle, vars, enclaveVars, hostVars, clientVars, boundVars,
                        MailTypeOK, EnclaveTypes, HostTypes, ClientTypes
    <2>2. CASE \E c \in Clients : ClientStep(c)
      BY <1>1, <2>2, ClientStepTypes
    <2>3. CASE HostStep
      BY <1>1, <2>3, HostStepTypes
    <2>4. CASE UntrustedHost
      BY <1>1, <2>4, UntrustedHostTypes
    <2> QED BY <1>1, <2>1, <2>2, <2>3, <2>4 DEF Next
  <1> QED BY <1>1, MailTypeInit, PTL DEF Spec

-----------------------------------------------------------------------------
(***************************************************************************)
(* Rollback detection.  A sealed state only names states it builds on as   *)
(* seen by a client, so every mail names a predecessor its own state       *)
(* builds on; and no one but the enclave makes mail.                       *)
(***************************************************************************)
StateSound(s) == \A c \in Clients : s.lastSeen[c] = 0 \/ s.lastSeen[c] \in s.effects
MailSound(m)  == m.id \in 1..Len(lineages) /\ (m.prev = 0 \/ m.prev \in lineages[m.id])
Known(m)      == m = NoMail \/ m \in posted

StatesSound == StateSound(memory) /\ StateSound(stored) /\ \A s \in sealed : StateSound(s)
MailsSound  == \A m \in posted : MailSound(m)
HostKnows ==
    /\ \A i \in DOMAIN receive.mails : receive.mails[i] \in posted
    /\ Known(receive.response)
    /\ \A h \in HostThreads : \A i \in DOMAIN leaked[h] : leaked[h][i] \in posted
    /\ \A c \in Clients : \A i \in DOMAIN inbox[c] : inbox[c][i] \in posted
ClientsKnow == \A c \in Clients : Known(call[c].answer)

LineageInv == StatesSound /\ MailsSound /\ HostKnows /\ ClientsKnow

\* The step of the property RollbackDetected.
NoSilentRollback ==
    \A c \in Clients :
        /\ client'[c].seen # client[c].seen
        /\ alarms'[c] = alarms[c]
        /\ restores' = restores
        => client[c].seen = 0 \/ client[c].seen \in lineages'[client'[c].seen]

LEMMA LineageInit == Init => LineageInv
  BY DEF Init, LineageInv, StatesSound, StateSound, MailsSound, HostKnows, ClientsKnow, Known,
         NoReceive, IdleCall

\* A client that accepts a mail of the enclave silently had last seen a state that the new
\* one builds on.
LEMMA ProcessMailDetects ==
    ASSUME MailTypeOK, LineageInv, NEW c \in Clients, NEW m \in posted, ProcessMail(c, m),
           UNCHANGED lineages
    PROVE  NoSilentRollback
  <1>1. SUFFICES ASSUME NEW d \in Clients, client'[d].seen # client[d].seen, alarms'[d] = alarms[d]
                 PROVE  client[d].seen = 0 \/ client[d].seen \in lineages'[client'[d].seen]
    BY DEF NoSilentRollback
  <1>2. client \in [Clients -> ClientStates] /\ alarms \in [Clients -> Nat]
    BY DEF MailTypeOK, ClientTypes, ClientStates
  <1>3. m.key = client[c].key
    BY <1>1 DEF ProcessMail
  <1>4. client' = [client EXCEPT ![c].seen = m.id]
    BY <1>3 DEF ProcessMail
  <1>5. d = c /\ client'[c].seen = m.id /\ m.id # client[c].seen
    BY <1>1, <1>2, <1>4 DEF ClientStates
  <1>6. client[c].seen = m.prev
    <2>1. CASE RollbackDetects(c, m)
      <3>1. alarms' = [alarms EXCEPT ![c] = @ + 1]
        BY <1>3, <1>5, <2>1 DEF ProcessMail
      <3> QED BY <1>1, <1>2, <1>5, <3>1
    <2> QED BY <2>1 DEF RollbackDetects
  <1>7. m.prev = 0 \/ m.prev \in lineages[m.id]
    BY DEF LineageInv, MailsSound, MailSound
  <1> QED BY <1>5, <1>6, <1>7

\* A step that leaves the state IDs of the clients alone, or in which a client is restored.
LEMMA SeenKept ==
    ASSUME \/ \A c \in Clients : client'[c].seen = client[c].seen
           \/ restores' # restores
    PROVE  NoSilentRollback
  BY DEF NoSilentRollback

LEMMA EncryptKeepsSeen ==
    ASSUME MailTypeOK, NEW c \in Clients, NEW st \in ClientStates, NEW n, NEW attempts,
           st.seen = client[c].seen, Encrypt(c, st, n, attempts)
    PROVE  \A d \in Clients : client'[d].seen = client[d].seen
  <1>1. client' = [client EXCEPT ![c] = [st EXCEPT !.seq = @ + 1]]
    BY DEF Encrypt
  <1> QED BY <1>1 DEF MailTypeOK, ClientTypes, ClientStates

\* Every step keeps the promise.
LEMMA StepDetects ==
    ASSUME MailTypeOK, LineageInv, Next
    PROVE  NoSilentRollback
  <1> USE DEF ClientStates
  <1>0. client \in [Clients -> ClientStates] /\ epoch \in Nat
    BY DEF MailTypeOK, ClientTypes, EnclaveTypes
  <1>1. ASSUME NEW c \in Clients, ClientStep(c)
        PROVE  NoSilentRollback
    <2>1. CASE SendMail(c)
      BY <1>0, <2>1, EncryptKeepsSeen, SeenKept DEF SendMail
    <2>2. CASE RetryMail(c)
      <3> DEFINE st == [client[c] EXCEPT !.key = epoch, !.seq = SequenceReset(c)]
      <3>1. st \in ClientStates /\ st.seen = client[c].seen
        BY <1>0 DEF SequenceReset
      <3>2. CASE Encrypt(c, st, call[c].request.n, call[c].attempts + 1)
        BY <3>1, <3>2, EncryptKeepsSeen, SeenKept
      <3>3. CASE client' = [client EXCEPT ![c] = st] \/ UNCHANGED client
        <4>1. \A d \in Clients : client'[d].seen = client[d].seen
          BY <1>0, <3>1, <3>3
        <4> QED BY <4>1, SeenKept
      <3> QED BY <2>2, <3>2, <3>3 DEF RetryMail
    <2>3. CASE SendMailReturns(c)
      <3>1. CASE call[c].answer = NoMail
        BY <2>3, <3>1, SeenKept DEF SendMailReturns
      <3>2. CASE call[c].answer # NoMail
        <4>1. call[c].answer \in posted
          BY <3>2 DEF LineageInv, ClientsKnow, Known
        <4> QED BY <2>3, <3>2, <4>1, ProcessMailDetects DEF SendMailReturns
      <3> QED BY <3>1, <3>2
    <2>4. ASSUME NEW lost \in BOOLEAN, PollMail(c, lost)
          PROVE  NoSilentRollback
      <3>1. CASE lost
        <4>1. UNCHANGED client
          BY <2>4, <3>1 DEF PollMail
        <4> QED BY <4>1, SeenKept
      <3>2. CASE ~lost
        <4>1. inbox[c] \in Seq(Mails) /\ inbox[c] # <<>>
          BY <2>4 DEF PollMail, MailTypeOK, HostTypes
        <4>2. Head(inbox[c]) \in posted
          BY <4>1 DEF LineageInv, HostKnows
        <4>3. ProcessMail(c, Head(inbox[c])) /\ UNCHANGED lineages
          BY <2>4, <3>2 DEF PollMail
        <4> QED BY <4>2, <4>3, ProcessMailDetects
      <3> QED BY <3>1, <3>2
    <2>5. CASE Timeout(c) \/ Save(c)
      BY <2>5, SeenKept DEF Timeout, Save
    <2>6. CASE Restore(c)
      <3>1. restores' # restores
        BY <2>6 DEF Restore, MailTypeOK, ClientTypes
      <3> QED BY <3>1, SeenKept
    <2> QED BY <1>1, <2>1, <2>2, <2>3, <2>4, <2>5, <2>6 DEF ClientStep
  <1>2. CASE HostStep
    <2>1. UNCHANGED client
      BY <1>2 DEF HostStep, RefuseMail, RejectMail, ReceiveMail, ReceiveFromUntrustedHost,
                  ProcessPostMail, DeliverMailReturns, Restart, clientVars
    <2> QED BY <2>1, SeenKept
  <1>3. CASE UntrustedHost
    <2>1. ASSUME NEW c \in Clients, NEW m \in posted, UntrustedPoll(c, m)
          PROVE  NoSilentRollback
      BY <2>1, ProcessMailDetects DEF UntrustedPoll
    <2>2. CASE UNCHANGED client
      BY <2>2, SeenKept
    <2> QED BY <1>3, <2>1, <2>2 DEF UntrustedHost, Restart, UntrustedAnswer, UntrustedRefusal
  <1>4. CASE Idle
    BY <1>4, SeenKept DEF Idle, vars, clientVars
  <1> QED BY <1>1, <1>2, <1>3, <1>4 DEF Next

-----------------------------------------------------------------------------
(***************************************************************************)
(* LineageInv is inductive.                                                *)
(***************************************************************************)
\* A call that goes on has the answer it had; one that starts or ends has none.
LEMMA MoveCallAnswer ==
    ASSUME MailTypeOK, ClientsKnow, NEW c \in Clients, NEW pc, call' = MoveCall(c, pc),
           posted \subseteq posted'
    PROVE  ClientsKnow'
  <1>1. call \in [Clients -> Calls]
    BY DEF MailTypeOK, ClientTypes, Calls, Pcs
  <1>2. \A d \in Clients : call'[d].answer = NoMail \/ call'[d].answer = call[d].answer
    BY <1>1 DEF MoveCall, IdleCall, Calls
  <1> QED BY <1>2 DEF ClientsKnow, Known

LEMMA AdvanceAnswer ==
    ASSUME MailTypeOK, ClientsKnow, NEW q, NEW pc, Advance(q, pc), posted \subseteq posted'
    PROVE  ClientsKnow'
  <1>1. CASE Awaits(q, "sending")
    BY <1>1, MoveCallAnswer DEF Advance, Awaits
  <1>2. CASE ~Awaits(q, "sending")
    BY <1>2 DEF Advance, ClientsKnow, Known
  <1> QED BY <1>1, <1>2

LEMMA NewCallAnswer ==
    ASSUME MailTypeOK, ClientsKnow, NEW c \in Clients, NEW r, r.answer = NoMail,
           call' = [call EXCEPT ![c] = r], UNCHANGED posted
    PROVE  ClientsKnow'
  <1>1. call \in [Clients -> Calls]
    BY DEF MailTypeOK, ClientTypes, Calls, Pcs
  <1> QED BY <1>1 DEF ClientsKnow, Known

\* A receive: its state builds on the enclave's memory, and so does its mail.
LEMMA ExecuteReceiveSound ==
    ASSUME MailTypeOK, LineageInv, NEW h \in HostThreads, NEW q, NEW out \in Seq(Clients),
           ExecuteReceive(h, q, out), UNCHANGED <<inbox, stored, sealed>>
    PROVE  LineageInv'
  <1> DEFINE id    == Len(lineages) + 1
             mails == [i \in DOMAIN out |->
                         [to |-> out[i], key |-> epoch, id |-> id, prev |-> memory.lastSeen[out[i]]]]
             after == [lastSeen |-> LastSeenUpdated(out, id), effects |-> memory.effects \cup {id}]
             new   == {mails[i] : i \in DOMAIN mails}
  <1>1. /\ memory \in States /\ lineages \in Seq(SUBSET Nat)
        /\ leaked \in [HostThreads -> Seq(Mails)] /\ id \in Nat
    BY DEF MailTypeOK, EnclaveTypes, HostTypes
  <1>2. lineages' = Append(lineages, memory.effects) /\ posted' = posted \cup new
    BY DEF ExecuteReceive
  <1>3. /\ Len(lineages') = id /\ lineages'[id] = memory.effects
        /\ \A i \in 1..Len(lineages) : lineages'[i] = lineages[i]
    BY <1>1, <1>2 DEF States
  <1>4. StatesSound'
    <2>1. StateSound(after)
      BY <1>1 DEF StateSound, LastSeenUpdated, LineageInv, StatesSound
    <2>2. StateSound([memory EXCEPT !.effects = after.effects])
      BY <1>1 DEF StateSound, LineageInv, StatesSound, States
    <2>3. memory' = after \/ memory' = [memory EXCEPT !.effects = after.effects]
      BY DEF ExecuteReceive
    <2> HIDE DEF after
    <2>4. StateSound(memory')
      BY <2>1, <2>2, <2>3
    <2> QED BY <2>4 DEF StatesSound, LineageInv, StateSound
  <1>5. MailsSound'
    <2>1. SUFFICES ASSUME NEW m \in posted'
                   PROVE  m.id \in 1..Len(lineages') /\ (m.prev = 0 \/ m.prev \in lineages'[m.id])
      BY DEF MailsSound, MailSound
    <2>2. CASE m \in posted
      <3>1. m.id \in 1..Len(lineages) /\ (m.prev = 0 \/ m.prev \in lineages[m.id])
        BY <2>2 DEF LineageInv, MailsSound, MailSound
      <3> QED BY <1>1, <1>3, <3>1
    <2>3. CASE m \in new
      <3>1. PICK i \in DOMAIN out : m = mails[i]
        BY <2>3
      <3>2. out[i] \in Clients /\ m.id = id /\ m.prev = memory.lastSeen[out[i]]
        BY <3>1
      <3>3. m.prev = 0 \/ m.prev \in memory.effects
        BY <3>2 DEF LineageInv, StatesSound, StateSound
      <3> QED BY <1>1, <1>3, <3>2, <3>3
    <2> QED BY <1>2, <2>2, <2>3
  <1>6. /\ mails \in Seq(new) /\ DOMAIN mails = DOMAIN out
        /\ \A i \in DOMAIN mails : mails[i] \in posted'
    BY <1>2
  <1> HIDE DEF mails, new, after, id
  <1>7. \A i \in DOMAIN (leaked[h] \o mails) : (leaked[h] \o mails)[i] \in posted'
    <2>1. \A i \in DOMAIN leaked[h] : leaked[h][i] \in posted'
      BY <1>2 DEF LineageInv, HostKnows
    <2>2. leaked[h] \in Seq(Mails)
      BY <1>1
    <2> QED BY <1>6, <2>1, <2>2
  <1>8. HostKnows'
    <2>1. /\ \A i \in DOMAIN receive'.mails : receive'.mails[i] \in posted'
          /\ Known(receive.response)' \/ receive'.response = NoMail
      <3>1. CASE receive' = [request |-> q, mails |-> leaked[h] \o mails, response |-> NoMail,
                             busy |-> TRUE]
        BY <1>7, <3>1
      <3>2. CASE receive' = receive
        BY <1>2, <3>2 DEF LineageInv, HostKnows, Known
      <3> QED BY <3>1, <3>2 DEF ExecuteReceive, mails, id
    <2>2. ASSUME NEW g \in HostThreads, NEW i \in DOMAIN leaked'[g]
          PROVE  leaked'[g][i] \in posted'
      <3>1. leaked' = [leaked EXCEPT ![h] = <<>>] \/ leaked' = [leaked EXCEPT ![h] = @ \o mails]
        BY DEF ExecuteReceive, mails, id
      <3>2. leaked'[g] = leaked[g] \/ leaked'[g] = <<>> \/ leaked'[g] = leaked[h] \o mails
        BY <1>1, <3>1
      <3>3. CASE leaked'[g] = leaked[g]
        BY <1>2, <2>2, <3>3 DEF LineageInv, HostKnows
      <3>4. CASE leaked'[g] = <<>>
        BY <2>2, <3>4
      <3>5. CASE leaked'[g] = leaked[h] \o mails
        BY <1>7, <2>2, <3>5
      <3> QED BY <3>2, <3>3, <3>4, <3>5
    <2>3. \A c \in Clients : \A i \in DOMAIN inbox'[c] : inbox'[c][i] \in posted'
      BY <1>2 DEF LineageInv, HostKnows
    <2> QED BY <2>1, <2>2, <2>3 DEF HostKnows, Known
  <1>9. ClientsKnow'
    <2>1. \E pc \in {"waiting", GiveUp} : Advance(q, pc)
      BY DEF ExecuteReceive
    <2> QED BY <1>2, <2>1, AdvanceAnswer DEF LineageInv
  <1> QED BY <1>4, <1>5, <1>8, <1>9 DEF LineageInv

\* A restart: the host knows no mail that is not in posted, and gives the enclave a state
\* the enclave has sealed.
LEMMA RestartSound ==
    ASSUME MailTypeOK, LineageInv, NEW s \in sealed \cup {stored}, Restart(s)
    PROVE  LineageInv'
  <1>1. StatesSound'
    BY DEF Restart, LineageInv, StatesSound, StateSound
  <1>2. MailsSound'
    BY DEF Restart, LineageInv, MailsSound, MailSound
  <1>3. HostKnows'
    BY DEF Restart, HostKnows, NoReceive, Known
  <1>4. ClientsKnow'
    BY DEF Restart, LineageInv, ClientsKnow, Known, IdleCall
  <1> QED BY <1>1, <1>2, <1>3, <1>4 DEF LineageInv

LEMMA LineageStep ==
    ASSUME MailTypeOK, LineageInv, [Next]_vars
    PROVE  LineageInv'
  <1>0. StatesSound /\ MailsSound /\ HostKnows /\ ClientsKnow
    BY DEF LineageInv
  <1>1. ASSUME UNCHANGED <<memory, stored, sealed>>
        PROVE  StatesSound'
    BY <1>0, <1>1 DEF StatesSound, StateSound
  <1>2. ASSUME UNCHANGED <<posted, lineages>>
        PROVE  MailsSound'
    BY <1>0, <1>2 DEF MailsSound, MailSound
  <1>3. ASSUME UNCHANGED <<receive, leaked, inbox, posted>>
        PROVE  HostKnows'
    BY <1>0, <1>3 DEF HostKnows, Known
  <1>4. ASSUME UNCHANGED <<call, posted>>
        PROVE  ClientsKnow'
    BY <1>0, <1>4 DEF ClientsKnow, Known
  <1>5. ASSUME NEW c \in Clients, ClientStep(c)
        PROVE  LineageInv'
    <2>1. UNCHANGED <<memory, stored, sealed, posted, lineages>>
      BY <1>5 DEF ClientStep, SendMail, RetryMail, SendMailReturns, Timeout, PollMail, Save,
                  Restore, enclaveVars, hostVars
    <2>2. HostKnows'
      <3>1. ASSUME NEW lost, PollMail(c, lost)
            PROVE  HostKnows'
        <4>1. inbox \in [Clients -> Seq(Mails)] /\ inbox[c] # <<>>
          BY <3>1 DEF PollMail, MailTypeOK, HostTypes
        <4>2. inbox' = [inbox EXCEPT ![c] = Tail(@)] /\ UNCHANGED <<receive, leaked, posted>>
          BY <3>1 DEF PollMail
        <4>3. ASSUME NEW d \in Clients, NEW i \in DOMAIN inbox'[d]
              PROVE  inbox'[d][i] \in posted'
          BY <1>0, <4>1, <4>2, <4>3 DEF HostKnows
        <4> QED BY <1>0, <4>2, <4>3 DEF HostKnows, Known
      <3>2. CASE UNCHANGED <<receive, leaked, inbox, posted>>
        BY <1>3, <3>2
      <3> QED BY <1>5, <3>1, <3>2 DEF ClientStep, SendMail, RetryMail, SendMailReturns, Timeout, Save,
                                      Restore, hostVars
    <2>3. ClientsKnow'
      <3>1. ASSUME NEW st, NEW n, NEW attempts, Encrypt(c, st, n, attempts)
            PROVE  ClientsKnow'
        BY <1>0, <2>1, <3>1, NewCallAnswer DEF Encrypt
      <3>2. CASE call' = [call EXCEPT ![c] = IdleCall]
        BY <1>0, <2>1, <3>2, NewCallAnswer DEF IdleCall
      <3>3. CASE Timeout(c)
        BY <1>0, <2>1, <3>3, MoveCallAnswer DEF Timeout
      <3>4. CASE UNCHANGED call
        BY <1>4, <2>1, <3>4
      <3> QED BY <1>5, <3>1, <3>2, <3>3, <3>4
              DEF ClientStep, SendMail, RetryMail, SendMailReturns, PollMail, Save, Restore
    <2> QED BY <1>1, <1>2, <2>1, <2>2, <2>3 DEF LineageInv
  <1>6. CASE HostStep
    <2>1. ASSUME NEW q \in requests, RefuseMail(q) \/ RejectMail(q)
          PROVE  LineageInv'
      <3>1. UNCHANGED <<memory, stored, sealed, receive, leaked, inbox, posted, lineages>>
        BY <2>1 DEF RefuseMail, RejectMail, enclaveVars, hostVars
      <3>2. \E pc \in {"refused", GiveUp} : Advance(q, pc)
        BY <2>1 DEF RefuseMail, RejectMail
      <3>3. ClientsKnow'
        BY <1>0, <3>1, <3>2, AdvanceAnswer
      <3> QED BY <1>1, <1>2, <1>3, <3>1, <3>3 DEF LineageInv
    <2>2. ASSUME NEW h \in HostThreads, NEW q \in requests, NEW out \in Outbound(q.from),
                 ReceiveMail(h, q, out)
          PROVE  LineageInv'
      <3>1. q.from \in Clients
        BY DEF MailTypeOK, HostTypes, Requests
      <3>2. out \in Seq(Clients)
        BY <2>2, <3>1, OutboundTypes
      <3> QED BY <2>2, <3>2, ExecuteReceiveSound DEF ReceiveMail
    <2>3. ASSUME AsyncMail, NEW h \in HostThreads, NEW out \in Outbound(NoClient),
                 ReceiveFromUntrustedHost(h, out)
          PROVE  LineageInv'
      <3>1. out \in Seq(Clients)
        BY <2>3, OutboundTypes
      <3> QED BY <2>3, <3>1, ExecuteReceiveSound DEF ReceiveFromUntrustedHost
    <2>4. CASE ProcessPostMail
      <3> DEFINE m == Head(receive.mails)
                 answers == m.to = receive.request.from /\ receive.response = NoMail
      <3>1. receive.mails \in Seq(Mails) /\ receive.mails # <<>> /\ inbox \in [Clients -> Seq(Mails)]
        BY <2>4 DEF ProcessPostMail, MailTypeOK, HostTypes
      <3>2. m \in posted /\ m.to \in Clients
        <4>1. m \in Mails /\ m = receive.mails[1] /\ 1 \in DOMAIN receive.mails
          BY <3>1
        <4> QED BY <1>0, <4>1 DEF HostKnows, Mails
      <3>3. UNCHANGED <<memory, stored, sealed, leaked, call, posted, lineages>>
        BY <2>4 DEF ProcessPostMail, enclaveVars, clientVars
      <3>4. receive'.mails = Tail(receive.mails) /\ receive'.response \in {m, receive.response}
        BY <2>4 DEF ProcessPostMail, MailTypeOK, HostTypes
      <3>5. \A i \in DOMAIN receive'.mails : receive'.mails[i] \in posted
        BY <1>0, <3>1, <3>4 DEF HostKnows
      <3>6. ASSUME NEW d \in Clients, NEW i \in DOMAIN inbox'[d]
            PROVE  inbox'[d][i] \in posted
        <4>1. inbox' = inbox \/ inbox' = [inbox EXCEPT ![m.to] = Append(@, m)]
          BY <2>4 DEF ProcessPostMail
        <4> HIDE DEF m
        <4>2. inbox'[d] = inbox[d] \/ inbox'[d] = Append(inbox[d], m)
          BY <3>1, <4>1
        <4>3. \A j \in DOMAIN inbox[d] : inbox[d][j] \in posted
          BY <1>0 DEF HostKnows
        <4>4. inbox[d] \in Seq(Mails)
          BY <3>1
        <4>5. CASE inbox'[d] = Append(inbox[d], m)
          BY <3>2, <3>6, <4>3, <4>4, <4>5
        <4> QED BY <3>6, <4>2, <4>3, <4>5
      <3>7. HostKnows'
        BY <1>0, <3>2, <3>3, <3>4, <3>5, <3>6 DEF HostKnows, Known
      <3> QED BY <1>1, <1>2, <1>4, <3>3, <3>7 DEF LineageInv
    <2>5. CASE DeliverMailReturns
      <3>1. UNCHANGED <<memory, leaked, inbox, posted, lineages>>
        BY <2>5 DEF DeliverMailReturns, enclaveVars
      <3>2. StatesSound'
        BY <1>0, <2>5, <3>1 DEF DeliverMailReturns, StoreSealedState, StatesSound, StateSound
      <3>3. HostKnows'
        BY <1>0, <2>5, <3>1 DEF DeliverMailReturns, HostKnows, NoReceive, Known
      <3>4. ClientsKnow'
        <4>1. call \in [Clients -> Calls]
          BY DEF MailTypeOK, ClientTypes, Calls, Pcs
        <4>2. call' = call \/ \E d \in Clients : call' = [call EXCEPT ![d].pc = "answered",
                                                                      ![d].answer = receive.response]
          BY <2>5 DEF DeliverMailReturns, Awaits
        <4>3. \A d \in Clients : call'[d].answer \in {call[d].answer, receive.response}
          BY <4>1, <4>2 DEF Calls
        <4> QED BY <1>0, <3>1, <4>3 DEF ClientsKnow, HostKnows, Known
      <3> QED BY <1>2, <3>1, <3>2, <3>3, <3>4 DEF LineageInv
    <2>6. CASE Restart(stored)
      BY <2>6, RestartSound
    <2> QED BY <1>6, <2>1, <2>2, <2>3, <2>4, <2>5, <2>6 DEF HostStep
  <1>7. CASE UntrustedHost
    <2>1. ASSUME NEW s \in sealed, Restart(s)
          PROVE  LineageInv'
      BY <2>1, RestartSound
    <2>2. ASSUME NEW c \in Clients, NEW m \in posted, UntrustedAnswer(c, m)
          PROVE  LineageInv'
      <3>1. UNCHANGED <<memory, stored, sealed, receive, leaked, inbox, posted, lineages>>
        BY <2>2 DEF UntrustedAnswer, enclaveVars, hostVars
      <3>2. call \in [Clients -> Calls]
        BY DEF MailTypeOK, ClientTypes, Calls, Pcs
      <3>3. \A d \in Clients : call'[d].answer \in {call[d].answer, m}
        BY <2>2, <3>2 DEF UntrustedAnswer, Calls
      <3>4. ClientsKnow'
        BY <1>0, <3>1, <3>3 DEF ClientsKnow, Known
      <3> QED BY <1>1, <1>2, <1>3, <3>1, <3>4 DEF LineageInv
    <2>3. ASSUME NEW c \in Clients, NEW m \in posted, UntrustedPoll(c, m)
          PROVE  LineageInv'
      BY <1>1, <1>2, <1>3, <1>4, <2>3 DEF UntrustedPoll, LineageInv, enclaveVars, hostVars
    <2>4. ASSUME NEW c \in Clients, UntrustedRefusal(c)
          PROVE  LineageInv'
      <3>1. UNCHANGED <<memory, stored, sealed, receive, leaked, inbox, posted, lineages>>
        BY <2>4 DEF UntrustedRefusal, enclaveVars, hostVars
      <3>2. call \in [Clients -> Calls]
        BY DEF MailTypeOK, ClientTypes, Calls, Pcs
      <3>3. \A d \in Clients : call'[d].answer = call[d].answer
        BY <2>4, <3>2 DEF UntrustedRefusal, Calls
      <3>4. ClientsKnow'
        BY <1>0, <3>1, <3>3 DEF ClientsKnow, Known
      <3> QED BY <1>1, <1>2, <1>3, <3>1, <3>4 DEF LineageInv
    <2> QED BY <1>7, <2>1, <2>2, <2>3, <2>4 DEF UntrustedHost
  <1>8. CASE Idle \/ UNCHANGED vars
    BY <1>1, <1>2, <1>3, <1>4, <1>8 DEF Idle, vars, enclaveVars, hostVars, clientVars, LineageInv
  <1> QED BY <1>5, <1>6, <1>7, <1>8 DEF Next

\* Whatever sealed states and mail an untrusted host uses, and however often the enclave and
\* the clients restart, a client that is not alarmed has not been rolled back.
THEOREM RollbackIsDetected == Spec => RollbackDetected
  <1>1. Init => MailTypeOK /\ LineageInv
    BY MailTypeInit, LineageInit
  <1>2. MailTypeOK /\ LineageInv /\ [Next]_vars => LineageInv'
    BY LineageStep
  <1>3. MailTypeOK /\ LineageInv /\ [Next]_vars => [NoSilentRollback]_vars
    BY StepDetects
  <1>4. [][NoSilentRollback]_vars => RollbackDetected
    BY PTL DEF RollbackDetected, NoSilentRollback
  <1> QED BY <1>1, <1>2, <1>3, <1>4, MailTypeCorrect, PTL DEF Spec

-----------------------------------------------------------------------------
(***************************************************************************)
(* Replay protection.  What was received in this session is at or below    *)
(* the watermark, and what was received before it has an older key.        *)
(***************************************************************************)
BelowWatermark ==
    \A i \in DOMAIN processed :
        /\ processed[i].key <= epoch
        /\ processed[i].key = epoch => processed[i].seq <= watermark[processed[i].from]

ReplayInv == BelowWatermark /\ NoReplay

LEMMA ReplayStep ==
    ASSUME MailTypeOK, MailTypeOK', ReplayInv, [Next]_vars
    PROVE  ReplayInv'
  <1>0. /\ processed \in Seq(Requests) /\ epoch \in Nat /\ watermark \in [Clients -> Int]
        /\ requests \subseteq Requests
    BY DEF MailTypeOK, EnclaveTypes, HostTypes
  <1>1. CASE UNCHANGED <<epoch, watermark, processed>>
    BY <1>1 DEF ReplayInv, BelowWatermark, NoReplay
  <1>2. ASSUME NEW s, Restart(s)
        PROVE  ReplayInv'
    <2>1. epoch' = epoch + 1 /\ UNCHANGED processed
      BY <1>2 DEF Restart, SessionKey
    <2>2. \A i \in DOMAIN processed : processed[i].key \in Nat
      <3>1. \A i \in DOMAIN processed : processed[i] \in Requests
        BY <1>0
      <3> QED BY <3>1 DEF Requests
    <2> QED BY <1>0, <2>1, <2>2 DEF ReplayInv, BelowWatermark, NoReplay
  <1>3. ASSUME NEW h, NEW q \in requests, NEW out, ReceiveMail(h, q, out)
        PROVE  ReplayInv'
    <2>1. /\ q \in Requests /\ q.from \in Clients /\ q.seq \in Nat
          /\ q.key = epoch /\ q.seq = watermark[q.from] + 1
      BY <1>0, <1>3 DEF ReceiveMail, Requests
    <2>2. /\ watermark' = [watermark EXCEPT ![q.from] = @ + 1]
          /\ processed' = Append(processed, q)
          /\ UNCHANGED epoch
      BY <1>3 DEF ReceiveMail
    <2>3. /\ DOMAIN processed' = 1..(Len(processed) + 1) /\ Len(processed) \in Nat
          /\ DOMAIN processed = 1..Len(processed)
          /\ processed'[Len(processed) + 1] = q
          /\ \A i \in DOMAIN processed : processed'[i] = processed[i]
      BY <1>0, <2>1, <2>2
    <2>4. \A i \in DOMAIN processed : processed[i] \in Requests /\ processed[i] # q
      <3> SUFFICES ASSUME NEW i \in DOMAIN processed, processed[i] = q
                   PROVE  FALSE
        BY <1>0
      <3>1. q.seq <= watermark[q.from]
        BY <2>1 DEF ReplayInv, BelowWatermark
      <3> QED BY <1>0, <2>1, <3>1
    <2>5. BelowWatermark'
      <3> SUFFICES ASSUME NEW i \in DOMAIN processed'
                   PROVE  /\ processed'[i].key <= epoch'
                          /\ processed'[i].key = epoch' => processed'[i].seq <= watermark'[processed'[i].from]
        BY DEF BelowWatermark
      <3>1. CASE i = Len(processed) + 1
        BY <1>0, <2>1, <2>2, <2>3, <3>1
      <3>2. CASE i \in DOMAIN processed
        <4>1. /\ processed'[i] = processed[i] /\ processed[i].from \in Clients
              /\ processed[i].seq \in Nat /\ processed[i].key <= epoch
              /\ processed[i].key = epoch => processed[i].seq <= watermark[processed[i].from]
          BY <2>3, <2>4, <3>2 DEF ReplayInv, BelowWatermark, Requests
        <4>2. watermark[processed[i].from] <= watermark'[processed[i].from]
          BY <1>0, <2>1, <2>2, <4>1
        <4>3. watermark'[processed[i].from] \in Int /\ watermark[processed[i].from] \in Int
          BY <1>0, <2>2, <4>1
        <4> QED BY <2>2, <4>1, <4>2, <4>3
      <3> QED BY <2>3, <3>1, <3>2
    <2>6. NoReplay'
      <3> SUFFICES ASSUME NEW i \in DOMAIN processed', NEW j \in DOMAIN processed',
                          processed'[i] = processed'[j]
                   PROVE  i = j
        BY DEF NoReplay
      <3>1. CASE i \in DOMAIN processed /\ j \in DOMAIN processed
        BY <2>3, <3>1 DEF ReplayInv, NoReplay
      <3> QED BY <2>3, <2>4, <3>1
    <2> QED BY <2>5, <2>6 DEF ReplayInv
  <1>4. ASSUME NEW c \in Clients, ClientStep(c)
        PROVE  ReplayInv'
    BY <1>1, <1>4 DEF ClientStep, SendMail, RetryMail, SendMailReturns, Timeout, PollMail, Save,
                      Restore, enclaveVars
  <1>5. CASE HostStep
    BY <1>1, <1>2, <1>3, <1>5 DEF HostStep, RefuseMail, RejectMail, ReceiveFromUntrustedHost,
                                  ProcessPostMail, DeliverMailReturns, enclaveVars
  <1>6. CASE UntrustedHost
    BY <1>1, <1>2, <1>6 DEF UntrustedHost, UntrustedAnswer, UntrustedPoll, UntrustedRefusal, enclaveVars
  <1>7. CASE Idle \/ UNCHANGED vars
    BY <1>1, <1>7 DEF Idle, vars, enclaveVars
  <1> QED BY <1>4, <1>5, <1>6, <1>7 DEF Next

\* The enclave never receives the same encrypted mail twice, whatever the host delivers and
\* however often it restarts the enclave.
THEOREM MailIsNotReplayed == Spec => []NoReplay
  <1>1. Init => ReplayInv
    BY DEF Init, ReplayInv, BelowWatermark, NoReplay
  <1>2. MailTypeOK /\ MailTypeOK' /\ ReplayInv /\ [Next]_vars => ReplayInv'
    BY ReplayStep
  <1>3. ReplayInv => NoReplay
    BY DEF ReplayInv
  <1> QED BY <1>1, <1>2, <1>3, MailTypeCorrect, PTL DEF Spec
=============================================================================

------------------------- MODULE MailDeliveryProofs -------------------------
(***************************************************************************)
(* What clients can rely on behind an honest host: a message is received   *)
(* at most once, a client stays in step with the watermark, it knows of no *)
(* state that a restart would lose, and it raises no alarm without cause.  *)
(***************************************************************************)
EXTENDS ClientMailProofs

(***************************************************************************)
(* A message exists once: as a request on its way, as one that the enclave *)
(* has received, or in the hands of the client whose request was refused.  *)
(***************************************************************************)
SameMessage(p, q) == p.from = q.from /\ p.n = q.n

\* No copy of the message of q is on its way or was received.
NoCopyOf(q) ==
    /\ \A p \in requests : ~SameMessage(p, q)
    /\ \A i \in DOMAIN processed : ~SameMessage(processed[i], q)

MessagesCounted ==
    /\ \A q \in requests : q.n <= sends[q.from]
    /\ \A i \in DOMAIN processed : processed[i].n <= sends[processed[i].from]

RequestsDistinct ==
    /\ \A p, q \in requests : SameMessage(p, q) => p = q
    /\ \A q \in requests : \A i \in DOMAIN processed : ~SameMessage(processed[i], q)

RefusedOnce ==
    \A c \in Clients : call[c].pc = "refused" =>
        /\ call[c].request \in Requests /\ call[c].request.from = c
        /\ call[c].request.n <= sends[c]
        /\ NoCopyOf(call[c].request)

OneCopyInv == Honest => MessagesCounted /\ RequestsDistinct /\ RefusedOnce /\ AtMostOnce

(***************************************************************************)
(* A client that waits for no answer is at most one number ahead of the    *)
(* watermark of its session, and so is what it saved.                      *)
(***************************************************************************)
ClientInStep(c) ==
    /\ watermark[c] >= -1
    /\ client[c].key <= epoch /\ saved[c].key <= epoch
    /\ saved[c].key = epoch => saved[c].seq <= watermark[c] + 1
    /\ call[c].pc # "sending" /\ client[c].key = epoch => client[c].seq <= watermark[c] + 1
    /\ call[c].pc = "sending" =>
          /\ call[c].request.key = client[c].key
          /\ call[c].request.seq + 1 = client[c].seq
          /\ client[c].key = epoch => call[c].request.seq <= watermark[c] + 1

InStepInv == Honest /\ ~Lossy => \A c \in Clients : ClientInStep(c)

(***************************************************************************)
(* An enclave whose receives answer the sender and do not fail.  The mail  *)
(* of the receive in progress, if there is one, leads from the stored      *)
(* state to the one in memory.                                             *)
(***************************************************************************)
RepliesOnly == Honest /\ ~AsyncMail /\ ~Failing

NothingLeft ==
    /\ \A h \in HostThreads : leaked[h] = <<>>
    /\ \A c \in Clients : inbox[c] = <<>>

\* The reply of the receive in progress.
Reply == IF receive.mails # <<>> THEN receive.mails[1] ELSE receive.response

ReplyInv ==
    /\ ~receive.busy => memory = stored /\ receive = NoReceive
    /\ receive.busy => receive.request.from \in Clients
    /\ Len(receive.mails) <= 1
    /\ receive.mails # <<>> => receive.response = NoMail
    /\ stored.effects \subseteq memory.effects
    /\ Reply = NoMail => memory.lastSeen = stored.lastSeen
    /\ Reply # NoMail =>
          /\ Reply.to = receive.request.from
          /\ Reply.prev = stored.lastSeen[Reply.to]
          /\ Reply.id = memory.lastSeen[Reply.to]
          /\ Reply.id \in memory.effects
          /\ \A c \in Clients \ {Reply.to} : memory.lastSeen[c] = stored.lastSeen[c]

\* Client c only knows of stored states.
SeenStored(c) ==
    /\ client[c].seen = 0 \/ client[c].seen \in stored.effects
    /\ saved[c].seen = 0 \/ saved[c].seen \in stored.effects
    /\ call[c].answer # NoMail => call[c].answer.id \in stored.effects
    /\ call[c].pc # "answered" => call[c].answer = NoMail

\* What client c has seen once it has processed the answer that it has got, if any; whether
\* that will raise the alarm, and whether the next mail will.
WillSee(c) == IF call[c].answer = NoMail THEN client[c].seen ELSE call[c].answer.id
WillAlarm(c) ==
    /\ call[c].answer # NoMail
    /\ call[c].answer.id # client[c].seen
    /\ client[c].seen # call[c].answer.prev
Behind(c) == WillSee(c) # stored.lastSeen[c]

One(b) == IF b THEN 1 ELSE 0

\* The alarms that are still to come have their losses already.
AlarmsCovered(c) == alarms[c] + One(WillAlarm(c)) + One(Behind(c)) <= losses[c]

RepliesInv ==
    RepliesOnly =>
        NothingLeft /\ ReplyInv /\ \A c \in Clients : SeenStored(c) /\ AlarmsCovered(c)

-----------------------------------------------------------------------------
(***************************************************************************)
(* What steps do to the calls of the clients.                              *)
(***************************************************************************)
\* The fields of a call that goes on to pc.
LEMMA MovedFields ==
    ASSUME NEW r \in Calls, NEW pc
    PROVE  LET m == [r EXCEPT !.pc = pc]
           IN  m.pc = pc /\ m.request = r.request /\ m.answer = r.answer
  BY DEF Calls

\* The fields of an idle call.
LEMMA IdleFields == IdleCall.pc = "idle" /\ IdleCall.answer = NoMail
  BY DEF IdleCall

\* The call that waits for the answer to q goes on, if there is one, and no other does.
LEMMA AdvanceCall ==
    ASSUME MailTypeOK, NEW q, NEW pc, Advance(q, pc), NEW c \in Clients
    PROVE  \/ call'[c] = call[c] /\ ~(c = q.from /\ call[c].request = q /\ call[c].pc = "sending")
           \/ /\ c = q.from /\ call[c].request = q /\ call[c].pc = "sending"
              /\ call'[c].pc = pc
              /\ call'[c].answer \in {NoMail, call[c].answer}
              /\ pc # "idle" => call'[c].request = q
  <1>1. call \in [Clients -> Calls] /\ call[c] \in Calls
    BY DEF MailTypeOK, ClientTypes, Calls, Pcs
  <1>2. CASE ~Awaits(q, "sending")
    BY <1>2 DEF Advance, Awaits
  <1>3. CASE Awaits(q, "sending")
    <2>1. q.from \in Clients /\ call[q.from].request = q /\ call[q.from].pc = "sending"
      BY <1>3 DEF Awaits
    <2>2. call' = [call EXCEPT ![q.from] = IF pc = "idle" THEN IdleCall ELSE [call[q.from] EXCEPT !.pc = pc]]
      BY <1>3 DEF Advance, MoveCall
    <2>3. CASE c # q.from
      BY <1>1, <2>1, <2>2, <2>3
    <2>4. CASE c = q.from /\ pc = "idle"
      BY <1>1, <2>1, <2>2, <2>4, IdleFields
    <2>5. CASE c = q.from /\ pc # "idle"
      BY <1>1, <2>1, <2>2, <2>5, MovedFields
    <2> QED BY <2>3, <2>4, <2>5
  <1> QED BY <1>2, <1>3

-----------------------------------------------------------------------------
(***************************************************************************)
(* A message is received at most once.                                     *)
(***************************************************************************)
\* Steps that send, refuse and receive nothing.
LEMMA CopiesKept ==
    ASSUME MailTypeOK, Honest, OneCopyInv, requests' \subseteq requests, UNCHANGED <<processed, sends>>,
           \A c \in Clients : call'[c].pc = "refused" =>
              call[c].pc = "refused" /\ call'[c].request = call[c].request
    PROVE  OneCopyInv'
  <1>1. MessagesCounted /\ RequestsDistinct /\ RefusedOnce /\ AtMostOnce
    BY DEF OneCopyInv
  <1>2. MessagesCounted'
    BY <1>1 DEF MessagesCounted
  <1>3. RequestsDistinct'
    BY <1>1 DEF RequestsDistinct
  <1>4. RefusedOnce'
    <2> SUFFICES ASSUME NEW c \in Clients, call'[c].pc = "refused"
                 PROVE  /\ call'[c].request \in Requests /\ call'[c].request.from = c
                        /\ call'[c].request.n <= sends'[c]
                        /\ \A p \in requests' : ~SameMessage(p, call'[c].request)
                        /\ \A i \in DOMAIN processed' : ~SameMessage(processed'[i], call'[c].request)
      BY DEF RefusedOnce, NoCopyOf
    <2>1. call[c].pc = "refused" /\ call'[c].request = call[c].request
      OBVIOUS
    <2>2. /\ call[c].request \in Requests /\ call[c].request.from = c
          /\ call[c].request.n <= sends[c] /\ NoCopyOf(call[c].request)
      BY <1>1, <2>1 DEF RefusedOnce
    <2> QED BY <2>1, <2>2 DEF NoCopyOf
  <1>5. AtMostOnce'
    BY <1>1 DEF AtMostOnce
  <1> QED BY <1>2, <1>3, <1>4, <1>5 DEF OneCopyInv

\* A client sends a message of which there is no copy.
LEMMA CopyMade ==
    ASSUME MailTypeOK, MailTypeOK', Honest, OneCopyInv, NEW q \in Requests, NoCopyOf(q),
           requests' = requests \cup {q}, UNCHANGED processed,
           \A c \in Clients : sends[c] <= sends'[c], q.n <= sends'[q.from],
           call'[q.from].pc # "refused",
           \A c \in Clients \ {q.from} : call'[c] = call[c]
    PROVE  OneCopyInv'
  <1>1. MessagesCounted /\ RequestsDistinct /\ RefusedOnce /\ AtMostOnce
    BY DEF OneCopyInv
  <1>2. \A c \in Clients : sends[c] \in Nat /\ sends'[c] \in Nat
    BY DEF MailTypeOK, ClientTypes
  <1>3. \A p \in requests : p \in Requests /\ p.from \in Clients /\ p.n \in Nat
    BY DEF MailTypeOK, HostTypes, Requests
  <1>4. \A i \in DOMAIN processed : processed[i].from \in Clients /\ processed[i].n \in Nat
    <2>1. \A i \in DOMAIN processed : processed[i] \in Requests
      BY DEF MailTypeOK, EnclaveTypes
    <2> QED BY <2>1 DEF Requests
  <1>5. MessagesCounted'
    <2>1. ASSUME NEW p \in requests PROVE p.n <= sends'[p.from]
      <3>1. p.n <= sends[p.from] /\ sends[p.from] <= sends'[p.from]
        BY <1>1, <1>3 DEF MessagesCounted
      <3> QED BY <1>2, <1>3, <3>1
    <2>2. ASSUME NEW i \in DOMAIN processed PROVE processed[i].n <= sends'[processed[i].from]
      <3>1. processed[i].n <= sends[processed[i].from] /\ sends[processed[i].from] <= sends'[processed[i].from]
        BY <1>1, <1>4 DEF MessagesCounted
      <3> QED BY <1>2, <1>4, <3>1
    <2> QED BY <2>1, <2>2 DEF MessagesCounted
  <1>6. RequestsDistinct'
    BY <1>1 DEF RequestsDistinct, NoCopyOf, SameMessage
  <1>7. RefusedOnce'
    <2> SUFFICES ASSUME NEW c \in Clients, call'[c].pc = "refused"
                 PROVE  /\ call'[c].request \in Requests /\ call'[c].request.from = c
                        /\ call'[c].request.n <= sends'[c]
                        /\ \A p \in requests' : ~SameMessage(p, call'[c].request)
                        /\ \A i \in DOMAIN processed' : ~SameMessage(processed'[i], call'[c].request)
      BY DEF RefusedOnce, NoCopyOf
    <2>1. c # q.from /\ call'[c] = call[c]
      OBVIOUS
    <2>2. PICK r : r = call[c].request
      OBVIOUS
    <2>3. r \in Requests /\ r.from = c /\ r.n <= sends[c] /\ NoCopyOf(r)
      BY <1>1, <2>1, <2>2 DEF RefusedOnce
    <2>4. r.n <= sends'[c]
      <3>1. r.n \in Nat /\ sends[c] <= sends'[c]
        BY <2>3 DEF Requests
      <3> QED BY <1>2, <2>3, <3>1
    <2>5. ~SameMessage(q, r)
      BY <2>1, <2>3 DEF SameMessage
    <2> QED BY <2>1, <2>2, <2>3, <2>4, <2>5 DEF NoCopyOf
  <1>8. AtMostOnce'
    BY <1>1 DEF AtMostOnce
  <1> QED BY <1>5, <1>6, <1>7, <1>8 DEF OneCopyInv

\* encryptMail makes one request.
LEMMA EncryptCopy ==
    ASSUME MailTypeOK, MailTypeOK', Honest, OneCopyInv, NEW c \in Clients, NEW st \in ClientStates,
           NEW n \in Nat, NEW attempts, Encrypt(c, st, n, attempts), UNCHANGED processed,
           \A d \in Clients : sends[d] <= sends'[d], n <= sends'[c],
           \A q : q.from = c /\ q.n = n => NoCopyOf(q)
    PROVE  OneCopyInv'
  <1>1. PICK q : q = [from |-> c, key |-> st.key, seq |-> st.seq, n |-> n]
    OBVIOUS
  <1>2. q \in Requests /\ q.from = c /\ q.n = n
    BY <1>1 DEF Requests, ClientStates
  <1>3. requests' = requests \cup {q}
    BY <1>1 DEF Encrypt
  <1>4. PICK r : r = [pc |-> "sending", request |-> q, answer |-> NoMail, attempts |-> attempts]
    OBVIOUS
  <1>5. call' = [call EXCEPT ![c] = r] /\ r.pc = "sending"
    BY <1>1, <1>4 DEF Encrypt
  <1>6. call'[c].pc # "refused" /\ \A d \in Clients \ {c} : call'[d] = call[d]
    BY <1>5 DEF MailTypeOK, ClientTypes
  <1> QED BY <1>2, <1>3, <1>6, CopyMade

\* The enclave refuses the request of q: if its client learns of it, that client has the
\* only copy of the message.
LEMMA CopyRefused ==
    ASSUME MailTypeOK, MailTypeOK', Honest, OneCopyInv, NEW q \in requests, RefuseMail(q)
    PROVE  OneCopyInv'
  <1>1. MessagesCounted /\ RequestsDistinct /\ RefusedOnce /\ AtMostOnce
    BY DEF OneCopyInv
  <1>2. requests' = requests \ {q} /\ UNCHANGED <<processed, sends>>
    BY DEF RefuseMail, Taken, boundVars
  <1>3. q \in Requests
    BY DEF MailTypeOK, HostTypes
  <1>4. MessagesCounted' /\ RequestsDistinct' /\ AtMostOnce'
    BY <1>1, <1>2 DEF MessagesCounted, RequestsDistinct, AtMostOnce
  <1>5. RefusedOnce'
    <2> SUFFICES ASSUME NEW c \in Clients, call'[c].pc = "refused"
                 PROVE  /\ call'[c].request \in Requests /\ call'[c].request.from = c
                        /\ call'[c].request.n <= sends'[c]
                        /\ \A p \in requests' : ~SameMessage(p, call'[c].request)
                        /\ \A i \in DOMAIN processed' : ~SameMessage(processed'[i], call'[c].request)
      BY DEF RefusedOnce, NoCopyOf
    <2>1. Advance(q, "refused")
      BY DEF RefuseMail
    <2>2. CASE call'[c] = call[c]
      <3>1. /\ call[c].request \in Requests /\ call[c].request.from = c
            /\ call[c].request.n <= sends[c] /\ NoCopyOf(call[c].request)
        BY <1>1, <2>2 DEF RefusedOnce
      <3> QED BY <1>2, <2>2, <3>1 DEF NoCopyOf
    <2>3. CASE c = q.from /\ call'[c].request = q
      <3>1. q.n <= sends[c]
        BY <1>1, <2>3 DEF MessagesCounted
      <3>2. \A p \in requests \ {q} : ~SameMessage(p, q)
        BY <1>1 DEF RequestsDistinct
      <3>3. \A i \in DOMAIN processed : ~SameMessage(processed[i], q)
        BY <1>1 DEF RequestsDistinct
      <3> QED BY <1>2, <1>3, <2>3, <3>1, <3>2, <3>3
    <2> QED BY <2>1, <2>2, <2>3, AdvanceCall
  <1> QED BY <1>4, <1>5 DEF OneCopyInv

\* The enclave receives a request: its message was not received before.
LEMMA CopyReceived ==
    ASSUME MailTypeOK, MailTypeOK', Honest, OneCopyInv, NEW h, NEW q \in requests, NEW out, ReceiveMail(h, q, out)
    PROVE  OneCopyInv'
  <1>1. MessagesCounted /\ RequestsDistinct /\ RefusedOnce /\ AtMostOnce
    BY DEF OneCopyInv
  <1>2. requests' = requests \ {q} /\ processed' = Append(processed, q) /\ UNCHANGED sends
    BY DEF ReceiveMail, Taken, boundVars
  <1>3. q \in Requests
    BY DEF MailTypeOK, HostTypes
  <1>4. /\ DOMAIN processed' = 1..(Len(processed) + 1) /\ Len(processed) \in Nat
        /\ DOMAIN processed = 1..Len(processed)
        /\ processed'[Len(processed) + 1] = q
        /\ \A i \in DOMAIN processed : processed'[i] = processed[i]
    BY <1>2, <1>3 DEF MailTypeOK, EnclaveTypes
  <1>5. \A i \in DOMAIN processed' : i \in DOMAIN processed \/ (i = Len(processed) + 1 /\ processed'[i] = q)
    BY <1>4
  <1>6. \A i \in DOMAIN processed : ~SameMessage(processed[i], q)
    BY <1>1 DEF RequestsDistinct
  <1>7. MessagesCounted'
    <2>1. \A p \in requests' : p.n <= sends'[p.from]
      BY <1>1, <1>2 DEF MessagesCounted
    <2>2. ASSUME NEW i \in DOMAIN processed' PROVE processed'[i].n <= sends'[processed'[i].from]
      BY <1>1, <1>2, <1>4, <1>5 DEF MessagesCounted
    <2> QED BY <2>1, <2>2 DEF MessagesCounted
  <1>8. RequestsDistinct'
    <2>1. \A p, r \in requests' : SameMessage(p, r) => p = r
      BY <1>1, <1>2 DEF RequestsDistinct
    <2>2. ASSUME NEW p \in requests', NEW i \in DOMAIN processed' PROVE ~SameMessage(processed'[i], p)
      <3>1. p \in requests /\ p # q
        BY <1>2
      <3>2. ~SameMessage(q, p)
        BY <1>1, <3>1 DEF RequestsDistinct
      <3>3. CASE i \in DOMAIN processed
        BY <1>1, <1>4, <3>1, <3>3 DEF RequestsDistinct
      <3> QED BY <1>5, <3>2, <3>3
    <2> QED BY <2>1, <2>2 DEF RequestsDistinct
  <1>9. RefusedOnce'
    <2> SUFFICES ASSUME NEW c \in Clients, call'[c].pc = "refused"
                 PROVE  /\ call'[c].request \in Requests /\ call'[c].request.from = c
                        /\ call'[c].request.n <= sends'[c]
                        /\ \A p \in requests' : ~SameMessage(p, call'[c].request)
                        /\ \A i \in DOMAIN processed' : ~SameMessage(processed'[i], call'[c].request)
      BY DEF RefusedOnce, NoCopyOf
    <2>1. call'[c] = call[c]
      <3>1. PICK pc \in {"waiting", "idle"} : Advance(q, pc)
        BY DEF ReceiveMail, ExecuteReceive, GiveUp
      <3> QED BY <3>1, AdvanceCall
    <2>2. PICK r : r = call[c].request
      OBVIOUS
    <2>3. r \in Requests /\ r.from = c /\ r.n <= sends[c] /\ NoCopyOf(r)
      BY <1>1, <2>1, <2>2 DEF RefusedOnce
    <2>4. ~SameMessage(q, r)
      BY <2>3 DEF NoCopyOf
    <2>5. \A i \in DOMAIN processed' : ~SameMessage(processed'[i], r)
      BY <1>4, <1>5, <2>3, <2>4 DEF NoCopyOf
    <2> QED BY <1>2, <2>1, <2>2, <2>3, <2>5 DEF NoCopyOf
  <1>10. AtMostOnce'
    <2> SUFFICES ASSUME NEW i \in DOMAIN processed', NEW j \in DOMAIN processed',
                        SameMessage(processed'[i], processed'[j])
                 PROVE  i = j
      BY DEF AtMostOnce, SameMessage
    <2>1. CASE i \in DOMAIN processed /\ j \in DOMAIN processed
      BY <1>1, <1>4, <2>1 DEF AtMostOnce, SameMessage
    <2>2. CASE i \in DOMAIN processed /\ processed'[j] = q
      BY <1>4, <1>6, <2>2
    <2>3. CASE j \in DOMAIN processed /\ processed'[i] = q
      BY <1>4, <1>6, <2>3 DEF SameMessage
    <2> QED BY <1>5, <2>1, <2>2, <2>3
  <1> QED BY <1>7, <1>8, <1>9, <1>10 DEF OneCopyInv

\* The steps of a client.
LEMMA ClientCopies ==
    ASSUME MailTypeOK, MailTypeOK', Honest, OneCopyInv, NEW c \in Clients, ClientStep(c)
    PROVE  OneCopyInv'
  <1>0. /\ call \in [Clients -> Calls] /\ client[c] \in ClientStates /\ sends \in [Clients -> Nat]
        /\ epoch \in Nat
    BY DEF MailTypeOK, ClientTypes, EnclaveTypes, Calls, Pcs, ClientStates
  <1>1. CASE SendMail(c)
    <2>1. sends' = [sends EXCEPT ![c] = @ + 1] /\ UNCHANGED processed
      BY <1>1 DEF SendMail
    <2>2. sends'[c] = sends[c] + 1 /\ sends'[c] \in Nat /\ \A d \in Clients : sends[d] <= sends'[d]
      BY <1>0, <2>1
    <2>3. ASSUME NEW q, q.from = c, q.n = sends'[c] PROVE NoCopyOf(q)
      <3>1. MessagesCounted
        BY DEF OneCopyInv
      <3>2. ASSUME NEW p \in requests, SameMessage(p, q) PROVE FALSE
        <4>1. p.n <= sends[p.from]
          BY <3>1 DEF MessagesCounted
        <4> QED BY <1>0, <2>2, <2>3, <3>2, <4>1 DEF SameMessage
      <3>3. ASSUME NEW i \in DOMAIN processed, SameMessage(processed[i], q) PROVE FALSE
        <4>1. processed[i].n <= sends[processed[i].from]
          BY <3>1 DEF MessagesCounted
        <4> QED BY <1>0, <2>2, <2>3, <3>3, <4>1 DEF SameMessage
      <3> QED BY <3>2, <3>3 DEF NoCopyOf
    <2>4. Encrypt(c, client[c], sends'[c], 1)
      BY <1>1 DEF SendMail
    <2>5. PICK n \in Nat : n = sends'[c]
      BY <2>2
    <2> QED BY <1>0, <2>1, <2>2, <2>3, <2>4, <2>5, EncryptCopy
  <1>2. CASE RetryMail(c)
    <2>1. UNCHANGED <<processed, sends>> /\ call[c].pc = "refused"
      BY <1>2 DEF RetryMail, boundVars
    <2>2. CASE call' = [call EXCEPT ![c] = IdleCall] /\ UNCHANGED requests
      <3>1. \A d \in Clients : call'[d].pc = "refused" => call'[d] = call[d]
        BY <1>0, <2>2, IdleFields
      <3> QED BY <2>1, <2>2, <3>1, CopiesKept
    <2>3. ASSUME NEW st, st = [client[c] EXCEPT !.key = epoch, !.seq = 0],
                 Encrypt(c, st, call[c].request.n, call[c].attempts + 1)
          PROVE  OneCopyInv'
      <3>1. st \in ClientStates
        BY <1>0, <2>3 DEF ClientStates
      <3>2. /\ call[c].request \in Requests /\ call[c].request.from = c
            /\ call[c].request.n <= sends[c] /\ NoCopyOf(call[c].request)
        BY <2>1 DEF OneCopyInv, RefusedOnce
      <3>3. PICK n : n = call[c].request.n
        OBVIOUS
      <3>4. n \in Nat /\ n <= sends'[c] /\ \A d \in Clients : sends[d] <= sends'[d]
        BY <1>0, <2>1, <3>2, <3>3 DEF Requests
      <3>5. \A q : q.from = c /\ q.n = n => NoCopyOf(q)
        BY <3>2, <3>3 DEF NoCopyOf, SameMessage
      <3>6. Encrypt(c, st, n, call[c].attempts + 1)
        BY <2>3, <3>3
      <3> QED BY <2>1, <3>1, <3>4, <3>5, <3>6, EncryptCopy
    <2> QED BY <1>2, <2>2, <2>3 DEF RetryMail, SequenceReset
  <1>3. CASE SendMailReturns(c) \/ Timeout(c) \/ Restore(c)
    <2>1. call' = [call EXCEPT ![c] = IdleCall]
      BY <1>3 DEF SendMailReturns, Timeout, Restore, MoveCall, GiveUp
    <2>2. \A d \in Clients : call'[d].pc = "refused" => call'[d] = call[d]
      BY <1>0, <2>1, IdleFields
    <2>3. UNCHANGED <<requests, processed, sends>>
      BY <1>3 DEF SendMailReturns, Timeout, Restore, boundVars
    <2> QED BY <2>2, <2>3, CopiesKept
  <1>4. CASE Save(c) \/ \E lost \in BOOLEAN : PollMail(c, lost)
    <2>1. UNCHANGED <<requests, processed, sends, call>>
      BY <1>4 DEF Save, PollMail, boundVars
    <2> QED BY <2>1, CopiesKept
  <1> QED BY <1>1, <1>2, <1>3, <1>4 DEF ClientStep

\* The steps of an honest host.
LEMMA HostCopies ==
    ASSUME MailTypeOK, MailTypeOK', Honest, OneCopyInv, HostStep
    PROVE  OneCopyInv'
  <1>0. call \in [Clients -> Calls]
    BY DEF MailTypeOK, ClientTypes, Calls, Pcs
  <1>1. ASSUME NEW q \in requests, RejectMail(q) PROVE OneCopyInv'
    <2>1. Advance(q, "idle") /\ requests' = requests \ {q} /\ UNCHANGED <<processed, sends>>
      BY <1>1 DEF RejectMail, Taken, GiveUp, boundVars
    <2>2. \A c \in Clients : call'[c].pc = "refused" => call'[c] = call[c]
      BY <2>1, AdvanceCall
    <2> QED BY <2>1, <2>2, CopiesKept
  <1>2. ASSUME NEW h, NEW out, ReceiveFromUntrustedHost(h, out) PROVE OneCopyInv'
    <2>1. UNCHANGED <<requests, processed, sends>>
      BY <1>2 DEF ReceiveFromUntrustedHost
    <2>2. PICK pc \in {"waiting", "idle"} : Advance(NoRequest, pc)
      BY <1>2 DEF ReceiveFromUntrustedHost, ExecuteReceive, GiveUp
    <2>3. \A c \in Clients : call'[c].pc = "refused" => call'[c] = call[c]
      BY <2>2, AdvanceCall
    <2> QED BY <2>1, <2>3, CopiesKept
  <1>3. CASE ProcessPostMail
    <2>1. UNCHANGED <<requests, processed, sends, call>>
      BY <1>3 DEF ProcessPostMail, clientVars, boundVars
    <2> QED BY <2>1, CopiesKept
  <1>4. CASE DeliverMailReturns
    <2>1. UNCHANGED <<requests, processed, sends>>
      BY <1>4 DEF DeliverMailReturns, boundVars
    <2>2. PICK q : q = receive.request
      OBVIOUS
    <2>3. CASE Awaits(q, "waiting")
      <3>1. /\ q.from \in Clients
            /\ call' = [call EXCEPT ![q.from].pc = "answered", ![q.from].answer = receive.response]
        BY <1>4, <2>2, <2>3 DEF DeliverMailReturns, Awaits
      <3>2. ASSUME NEW c \in Clients, call'[c].pc = "refused" PROVE call'[c] = call[c]
        BY <1>0, <3>1, <3>2 DEF Calls
      <3> QED BY <2>1, <3>2, CopiesKept
    <2>4. CASE ~Awaits(q, "waiting")
      <3>1. UNCHANGED call
        BY <1>4, <2>2, <2>4 DEF DeliverMailReturns
      <3> QED BY <2>1, <3>1, CopiesKept
    <2> QED BY <2>3, <2>4
  <1>5. CASE Restart(stored)
    <2>1. UNCHANGED <<requests, processed, sends>>
      BY <1>5 DEF Restart, boundVars
    <2>2. \A c \in Clients : call'[c].pc = "refused" => call'[c] = call[c]
      BY <1>5, IdleFields DEF Restart
    <2> QED BY <2>1, <2>2, CopiesKept
  <1> QED BY <1>1, <1>2, <1>3, <1>4, <1>5, CopyRefused, CopyReceived DEF HostStep

\* A message is received at most once, also when the client sends it again with a new key,
\* whatever is lost, fails, is restored and restarts (EnclaveClient.sendMail).
THEOREM MessagesReceivedOnce == Spec => []AtMostOnce
  <1>1. Init => OneCopyInv
    BY IdleFields DEF Init, OneCopyInv, MessagesCounted, RequestsDistinct, RefusedOnce, AtMostOnce
  <1>2. MailTypeOK /\ MailTypeOK' /\ OneCopyInv /\ [Next]_vars => OneCopyInv'
    <2> SUFFICES ASSUME MailTypeOK, MailTypeOK', OneCopyInv, [Next]_vars, Honest
                 PROVE  OneCopyInv'
      BY DEF OneCopyInv
    <2>1. CASE Idle \/ UNCHANGED vars
      <3>1. UNCHANGED <<requests, processed, sends, call>>
        BY <2>1 DEF Idle, vars, clientVars, boundVars
      <3> QED BY <3>1, CopiesKept
    <2> QED BY <2>1, ClientCopies, HostCopies DEF Next
  <1>3. OneCopyInv => AtMostOnce
    BY DEF OneCopyInv, AtMostOnce
  <1> QED BY <1>1, <1>2, <1>3, MailTypeCorrect, PTL DEF Spec

-----------------------------------------------------------------------------
(***************************************************************************)
(* A client stays in step with the enclave's watermark.                    *)
(***************************************************************************)
\* The numbers of a client.
LEMMA ClientNumbers ==
    ASSUME MailTypeOK, NEW c \in Clients
    PROVE  /\ client[c] \in ClientStates /\ saved[c] \in ClientStates /\ call[c] \in Calls
           /\ client[c].key \in Nat /\ client[c].seq \in Nat /\ saved[c].key \in Nat /\ saved[c].seq \in Nat
           /\ watermark[c] \in Int /\ epoch \in Nat
           /\ (call[c].request \in Requests => call[c].request.seq \in Nat)
  BY DEF MailTypeOK, ClientTypes, EnclaveTypes, ClientStates, Calls, Pcs, Requests

\* Steps within a session that leave the numbers of client c alone, but may end its call.
LEMMA InStepKept ==
    ASSUME MailTypeOK, MailTypeOK', NEW c \in Clients, ClientInStep(c),
           client'[c].key = client[c].key, client'[c].seq = client[c].seq, saved'[c] \in {saved[c], client[c]},
           saved'[c] = saved[c] \/ call[c].pc # "sending",
           UNCHANGED epoch, watermark[c] <= watermark'[c],
           \/ call'[c].pc = call[c].pc /\ call'[c].request = call[c].request
           \/ call'[c].pc # "sending" /\ call[c].pc # "sending"
           \/ call'[c].pc # "sending" /\ (client[c].key = epoch => client[c].seq <= watermark'[c] + 1)
    PROVE  ClientInStep(c)'
  <1>1. watermark'[c] \in Int /\ watermark[c] \in Int /\ client[c].seq \in Nat /\ saved[c].seq \in Nat
    BY ClientNumbers DEF MailTypeOK, EnclaveTypes
  <1>2. /\ watermark'[c] >= -1
        /\ client'[c].key <= epoch' /\ saved'[c].key <= epoch'
        /\ saved'[c].key = epoch' => saved'[c].seq <= watermark'[c] + 1
    BY <1>1 DEF ClientInStep
  <1>3. call'[c].pc # "sending" /\ client'[c].key = epoch' => client'[c].seq <= watermark'[c] + 1
    BY <1>1 DEF ClientInStep
  <1>4. call'[c].pc = "sending" =>
          /\ call'[c].request.key = client'[c].key
          /\ call'[c].request.seq + 1 = client'[c].seq
          /\ client'[c].key = epoch' => call'[c].request.seq <= watermark'[c] + 1
    <2> SUFFICES ASSUME call'[c].pc = "sending"
                 PROVE  /\ call'[c].request.key = client'[c].key
                        /\ call'[c].request.seq + 1 = client'[c].seq
                        /\ client'[c].key = epoch' => call'[c].request.seq <= watermark'[c] + 1
      OBVIOUS
    <2>1. call[c].pc = "sending" /\ call'[c].request = call[c].request
      OBVIOUS
    <2>2. call[c].request.seq \in Nat
      <3>1. NoRequest.seq = 0
        BY DEF NoRequest
      <3> QED BY <3>1, ClientNumbers DEF Calls
    <2> QED BY <1>1, <2>1, <2>2 DEF ClientInStep
  <1> QED BY <1>2, <1>3, <1>4 DEF ClientInStep

\* A client that holds the key of the session sends its next mail.
LEMMA InStepSends ==
    ASSUME MailTypeOK, MailTypeOK', NEW c \in Clients, ClientInStep(c), NEW st \in ClientStates,
           NEW n, NEW a, Encrypt(c, st, n, a), UNCHANGED <<saved, epoch, watermark>>,
           st.key <= epoch, st.key = epoch => st.seq <= watermark[c] + 1
    PROVE  ClientInStep(c)'
  <1>1. PICK q : q = [from |-> c, key |-> st.key, seq |-> st.seq, n |-> n]
    OBVIOUS
  <1>2. PICK r : r = [pc |-> "sending", request |-> q, answer |-> NoMail, attempts |-> a]
    OBVIOUS
  <1>3. client' = [client EXCEPT ![c] = [st EXCEPT !.seq = @ + 1]] /\ call' = [call EXCEPT ![c] = r]
    BY <1>1, <1>2 DEF Encrypt
  <1>4. call'[c] = r /\ client'[c] = [st EXCEPT !.seq = @ + 1]
    BY <1>3 DEF MailTypeOK, ClientTypes
  <1>5. r.pc = "sending" /\ r.request.key = st.key /\ r.request.seq = st.seq
    BY <1>1, <1>2
  <1>6. client'[c].key = st.key /\ client'[c].seq = st.seq + 1
    BY <1>4 DEF ClientStates
  <1> QED BY <1>4, <1>5, <1>6, ClientNumbers DEF ClientInStep

\* The steps of clients.
LEMMA ClientStaysInStep ==
    ASSUME MailTypeOK, MailTypeOK', ~Lossy, NEW c \in Clients, ClientInStep(c), NEW d \in Clients, ClientStep(d)
    PROVE  ClientInStep(c)'
  <1>0. /\ call \in [Clients -> Calls] /\ client \in [Clients -> ClientStates] /\ saved \in [Clients -> ClientStates]
        /\ epoch \in Nat
    BY DEF MailTypeOK, ClientTypes, EnclaveTypes, Calls, Pcs, ClientStates
  <1>1. UNCHANGED <<epoch, watermark>>
    BY DEF ClientStep, SendMail, RetryMail, SendMailReturns, Timeout, PollMail, Save, Restore, enclaveVars
  <1>2. watermark[c] <= watermark'[c]
    BY <1>1, ClientNumbers
  <1>3. CASE d # c
    <2>1. client'[c] = client[c] /\ saved'[c] = saved[c] /\ call'[c] = call[c]
      BY <1>0, <1>3 DEF ClientStep, SendMail, RetryMail, SendMailReturns, Timeout, PollMail, Save, Restore,
                        Encrypt, ProcessMail, MoveCall
    <2> QED BY <1>1, <1>2, <2>1, InStepKept
  <1>4. CASE SendMail(c)
    <2>1. call[c].pc = "idle" /\ Encrypt(c, client[c], sends'[c], 1) /\ UNCHANGED saved
      BY <1>4 DEF SendMail
    <2>2. client[c].key <= epoch /\ (client[c].key = epoch => client[c].seq <= watermark[c] + 1)
      BY <2>1 DEF ClientInStep
    <2> QED BY <1>0, <1>1, <2>1, <2>2, InStepSends
  <1>5. CASE RetryMail(c)
    <2>1. PICK st : st = [client[c] EXCEPT !.key = epoch, !.seq = 0]
      OBVIOUS
    <2>2. st \in ClientStates /\ st.key = epoch /\ st.seq = 0
      BY <1>0, <2>1 DEF ClientStates
    <2>3. call[c].pc = "refused" /\ UNCHANGED saved /\ 0 <= watermark[c] + 1
      BY <1>5, ClientNumbers DEF RetryMail, ClientInStep
    <2>4. CASE Encrypt(c, st, call[c].request.n, call[c].attempts + 1)
      <3>1. st.key <= epoch /\ (st.key = epoch => st.seq <= watermark[c] + 1)
        BY <1>0, <2>2, <2>3
      <3> QED BY <1>1, <2>2, <2>3, <2>4, <3>1, InStepSends
    <2>5. CASE call' = [call EXCEPT ![c] = IdleCall] /\ UNCHANGED client
      <3>1. call'[c].pc # "sending"
        BY <1>0, <2>5, IdleFields
      <3> QED BY <1>1, <1>2, <2>3, <2>5, <3>1, InStepKept
    <2>6. CASE call' = [call EXCEPT ![c] = IdleCall] /\ client' = [client EXCEPT ![c] = st]
      <3>1. call'[c].pc # "sending" /\ client'[c] = st /\ saved'[c] = saved[c]
        BY <1>0, <2>3, <2>6, IdleFields
      <3> QED BY <1>0, <1>1, <2>2, <2>3, <3>1 DEF ClientInStep
    <2> QED BY <1>5, <2>1, <2>4, <2>5, <2>6 DEF RetryMail, SequenceReset
  <1>6. CASE SendMailReturns(c) \/ \E lost \in BOOLEAN : PollMail(c, lost)
    <2>1. client'[c].key = client[c].key /\ client'[c].seq = client[c].seq
      <3>1. client' = client \/ \E m : client' = [client EXCEPT ![c].seen = m]
        BY <1>6 DEF SendMailReturns, PollMail, ProcessMail
      <3> QED BY <1>0, <3>1 DEF ClientStates
    <2>2. UNCHANGED saved /\ call[c].pc # "sending"
      BY <1>6 DEF SendMailReturns, PollMail
    <2>3. call'[c].pc # "sending"
      <3>1. call' = call \/ call' = [call EXCEPT ![c] = IdleCall]
        BY <1>6 DEF SendMailReturns, PollMail
      <3> QED BY <1>0, <2>2, <3>1, IdleFields
    <2> QED BY <1>1, <1>2, <2>1, <2>2, <2>3, InStepKept
  <1>7. CASE Save(c)
    <2>1. call[c].pc # "sending" /\ saved' = [saved EXCEPT ![c] = client[c]] /\ UNCHANGED <<client, call>>
      BY <1>7 DEF Save
    <2>2. saved'[c] = client[c]
      BY <1>0, <2>1
    <2> QED BY <1>1, <1>2, <2>1, <2>2, InStepKept
  <1>8. CASE Restore(c)
    <2>1. PICK st : st = [key |-> epoch, seq |-> IF saved[c].key = epoch THEN saved[c].seq ELSE 0,
                          seen |-> saved[c].seen]
      OBVIOUS
    <2>2. client' = [client EXCEPT ![c] = st] /\ call' = [call EXCEPT ![c] = IdleCall] /\ UNCHANGED saved
      BY <1>8, <2>1 DEF Restore
    <2>3. client'[c] = st /\ call'[c].pc # "sending"
      BY <1>0, <2>2, IdleFields
    <2>4. st.key = epoch /\ st.seq <= watermark[c] + 1
      BY <2>1, ClientNumbers DEF ClientInStep
    <2> QED BY <1>0, <1>1, <2>2, <2>3, <2>4 DEF ClientInStep
  <1>9. ~Timeout(c)
    BY DEF Timeout
  <1> QED BY <1>3, <1>4, <1>5, <1>6, <1>7, <1>8, <1>9 DEF ClientStep

\* The steps of an honest host.
LEMMA HostStaysInStep ==
    ASSUME MailTypeOK, MailTypeOK', NEW c \in Clients, ClientInStep(c), HostStep
    PROVE  ClientInStep(c)'
  <1>0. call \in [Clients -> Calls] /\ watermark \in [Clients -> Int] /\ epoch \in Nat
    BY DEF MailTypeOK, ClientTypes, EnclaveTypes, Calls, Pcs
  <1>1. CASE Restart(stored)
    <2>1. epoch' = epoch + 1 /\ watermark'[c] = -1 /\ UNCHANGED <<client, saved>>
      BY <1>1 DEF Restart, SessionKey
    <2>2. call'[c] = call[c] \/ (call'[c].pc = "idle" /\ call[c].pc # "sending")
      BY <1>1, IdleFields DEF Restart
    <2> QED BY <2>1, <2>2, ClientNumbers DEF ClientInStep
  <1>2. ASSUME NEW q \in requests, RefuseMail(q) PROVE ClientInStep(c)'
    <2>1. q.key # epoch /\ Advance(q, "refused") /\ UNCHANGED <<epoch, watermark, client, saved>>
      BY <1>2 DEF RefuseMail, enclaveVars
    <2>2. CASE call'[c] = call[c]
      BY <1>0, <2>1, <2>2, InStepKept, ClientNumbers
    <2>3. CASE call[c].request = q /\ call[c].pc = "sending" /\ call'[c].pc = "refused"
      <3>1. client[c].key # epoch
        BY <2>1, <2>3 DEF ClientInStep
      <3> QED BY <1>0, <2>1, <2>3, <3>1, InStepKept, ClientNumbers
    <2> QED BY <2>1, <2>2, <2>3, AdvanceCall
  <1>3. ASSUME NEW q \in requests, RejectMail(q) PROVE ClientInStep(c)'
    <2>1. /\ Advance(q, "idle") /\ q.key = epoch /\ q.seq # watermark[q.from] + 1
          /\ UNCHANGED <<epoch, watermark, client, saved>>
      BY <1>3 DEF RejectMail, GiveUp, enclaveVars
    <2>2. q.seq \in Nat
      BY DEF MailTypeOK, HostTypes, Requests
    <2>3. CASE call'[c] = call[c]
      BY <1>0, <2>1, <2>3, InStepKept, ClientNumbers
    <2>4. CASE c = q.from /\ call[c].request = q /\ call[c].pc = "sending" /\ call'[c].pc = "idle"
      <3>1. client[c].key = q.key /\ client[c].seq = q.seq + 1 /\ q.seq <= watermark[c] + 1
        BY <2>1, <2>4 DEF ClientInStep
      <3>2. client[c].seq <= watermark[c] + 1
        BY <1>0, <2>1, <2>2, <2>4, <3>1
      <3> QED BY <1>0, <2>1, <2>4, <3>2, InStepKept, ClientNumbers
    <2> QED BY <2>1, <2>3, <2>4, AdvanceCall
  <1>4. ASSUME NEW h, NEW q \in requests, NEW out, ReceiveMail(h, q, out) PROVE ClientInStep(c)'
    <2>1. PICK pc \in {"waiting", "idle"} : Advance(q, pc)
      BY <1>4 DEF ReceiveMail, ExecuteReceive, GiveUp
    <2>2. /\ q.seq = watermark[q.from] + 1 /\ watermark' = [watermark EXCEPT ![q.from] = @ + 1]
          /\ UNCHANGED <<epoch, client, saved>>
      BY <1>4 DEF ReceiveMail
    <2>3. watermark[c] <= watermark'[c] /\ (c = q.from => watermark'[c] = q.seq)
      BY <1>0, <2>2
    <2>4. CASE call'[c] = call[c]
      BY <2>2, <2>3, <2>4, InStepKept
    <2>5. CASE c = q.from /\ call[c].request = q /\ call[c].pc = "sending" /\ call'[c].pc = pc
      <3>1. client[c].seq = q.seq + 1
        BY <2>5 DEF ClientInStep
      <3>2. client[c].seq <= watermark'[c] + 1
        BY <2>3, <2>5, <3>1, ClientNumbers
      <3> QED BY <2>2, <2>3, <2>5, <3>2, InStepKept
    <2> QED BY <2>1, <2>4, <2>5, AdvanceCall
  <1>5. ASSUME NEW h, NEW out, ReceiveFromUntrustedHost(h, out) PROVE ClientInStep(c)'
    <2>1. PICK pc \in {"waiting", "idle"} : Advance(NoRequest, pc)
      BY <1>5 DEF ReceiveFromUntrustedHost, ExecuteReceive, GiveUp
    <2>2. UNCHANGED <<epoch, watermark, client, saved>>
      BY <1>5 DEF ReceiveFromUntrustedHost
    <2>3. NoRequest.from # c
      BY MailConfigAssumption DEF NoRequest
    <2>4. call'[c] = call[c]
      BY <2>1, <2>3, AdvanceCall
    <2> QED BY <1>0, <2>2, <2>4, InStepKept, ClientNumbers
  <1>6. CASE ProcessPostMail
    <2>1. UNCHANGED <<epoch, watermark, client, saved, call>>
      BY <1>6 DEF ProcessPostMail, enclaveVars, clientVars
    <2> QED BY <1>0, <2>1, InStepKept, ClientNumbers
  <1>7. CASE DeliverMailReturns
    <2>1. UNCHANGED <<epoch, watermark, client, saved>>
      BY <1>7 DEF DeliverMailReturns, enclaveVars
    <2>2. PICK q : q = receive.request
      OBVIOUS
    <2>3. CASE Awaits(q, "waiting")
      <3>1. /\ q.from \in Clients /\ call[q.from].pc = "waiting"
            /\ call' = [call EXCEPT ![q.from].pc = "answered", ![q.from].answer = receive.response]
        BY <1>7, <2>2, <2>3 DEF DeliverMailReturns, Awaits
      <3>2. call'[c] = call[c] \/ (call'[c].pc = "answered" /\ call[c].pc = "waiting")
        BY <1>0, <3>1 DEF Calls
      <3> QED BY <1>0, <2>1, <3>2, InStepKept, ClientNumbers
    <2>4. CASE ~Awaits(q, "waiting")
      <3>1. UNCHANGED call
        BY <1>7, <2>2, <2>4 DEF DeliverMailReturns
      <3> QED BY <1>0, <2>1, <3>1, InStepKept, ClientNumbers
    <2> QED BY <2>3, <2>4
  <1> QED BY <1>1, <1>2, <1>3, <1>4, <1>5, <1>6, <1>7 DEF HostStep

\* As long as no request gets lost, a client is never ahead of the enclave's watermark, through
\* restarts of the enclave and of the client and whatever receives fail.
THEOREM ClientsNeverAhead == Spec => []NeverAhead
  <1>1. Init => InStepInv
    <2> SUFFICES ASSUME Init, NEW c \in Clients PROVE ClientInStep(c)
      BY DEF InStepInv
    <2>1. watermark[c] = -1 /\ epoch = 1 /\ call[c].pc = "idle"
      BY IdleFields DEF Init
    <2>2. client[c] = [key |-> 1, seq |-> 0, seen |-> 0] /\ saved[c] = client[c]
      BY DEF Init
    <2> QED BY <2>1, <2>2 DEF ClientInStep
  <1>2. MailTypeOK /\ MailTypeOK' /\ InStepInv /\ [Next]_vars => InStepInv'
    <2> SUFFICES ASSUME MailTypeOK, MailTypeOK', InStepInv, [Next]_vars, Honest, ~Lossy, NEW c \in Clients
                 PROVE  ClientInStep(c)'
      BY DEF InStepInv
    <2>0. ClientInStep(c)
      BY DEF InStepInv
    <2>1. CASE Idle \/ UNCHANGED vars
      <3>1. UNCHANGED <<epoch, watermark, client, saved, call>>
        BY <2>1 DEF Idle, vars, enclaveVars, clientVars
      <3> QED BY <2>0, <3>1 DEF ClientInStep
    <2> QED BY <2>0, <2>1, ClientStaysInStep, HostStaysInStep DEF Next
  <1>3. InStepInv => NeverAhead
    BY DEF InStepInv, ClientInStep, NeverAhead
  <1> QED BY <1>1, <1>2, <1>3, MailTypeCorrect, PTL DEF Spec

-----------------------------------------------------------------------------
(***************************************************************************)
(* Replies.                                                                *)
(***************************************************************************)
\* The counts of a client.
LEMMA ClientCounts ==
    ASSUME MailTypeOK, MailTypeOK', NEW c \in Clients
    PROVE  /\ alarms[c] \in Nat /\ losses[c] \in Nat /\ alarms'[c] \in Nat /\ losses'[c] \in Nat
           /\ One(WillAlarm(c)) \in {0, 1} /\ One(Behind(c)) \in {0, 1}
           /\ One(WillAlarm(c))' \in {0, 1} /\ One(Behind(c))' \in {0, 1}
  BY DEF MailTypeOK, ClientTypes, One

\* Nothing that concerns client c happens.
LEMMA CoverKept ==
    ASSUME NEW c \in Clients, AlarmsCovered(c), alarms'[c] = alarms[c], losses'[c] = losses[c],
           call'[c].answer = call[c].answer, client'[c].seen = client[c].seen,
           stored'.lastSeen[c] = stored.lastSeen[c]
    PROVE  AlarmsCovered(c)'
  <1>1. WillSee(c)' = WillSee(c) /\ (WillAlarm(c)' <=> WillAlarm(c))
    BY DEF WillSee, WillAlarm
  <1>2. Behind(c)' <=> Behind(c)
    BY <1>1 DEF Behind
  <1>3. One(WillAlarm(c))' = One(WillAlarm(c)) /\ One(Behind(c))' = One(Behind(c))
    BY <1>1, <1>2 DEF One
  <1> QED BY <1>3 DEF AlarmsCovered

\* Client c misses mail, or what it has seen: the next mail may raise the alarm.
LEMMA LossCovers ==
    ASSUME MailTypeOK, MailTypeOK', NEW c \in Clients, AlarmsCovered(c), alarms'[c] = alarms[c],
           losses'[c] = losses[c] + 1, call'[c].answer = NoMail
    PROVE  AlarmsCovered(c)'
  <1>1. One(WillAlarm(c))' = 0
    BY DEF WillAlarm, One
  <1>2. alarms[c] + One(WillAlarm(c)) + One(Behind(c)) <= losses[c]
    BY DEF AlarmsCovered
  <1>3. alarms'[c] + One(WillAlarm(c))' + One(Behind(c))' <= losses'[c]
    BY <1>1, <1>2, ClientCounts
  <1> QED BY <1>3 DEF AlarmsCovered

\* Client c processes its answer: it raises the alarm that was expected.
LEMMA AnswerCovered ==
    ASSUME MailTypeOK, MailTypeOK', NEW c \in Clients, AlarmsCovered(c), call[c].answer # NoMail,
           ProcessMail(c, call[c].answer), call'[c].answer = NoMail, UNCHANGED stored
    PROVE  /\ AlarmsCovered(c)'
           /\ client'[c].seen \in {client[c].seen, call[c].answer.id}
  <1>0. client \in [Clients -> ClientStates] /\ alarms \in [Clients -> Nat] /\ losses \in [Clients -> Nat]
    BY DEF MailTypeOK, ClientTypes, ClientStates
  <1>1. CASE call[c].answer.key # client[c].key
    <2>1. losses'[c] = losses[c] + 1 /\ client' = client /\ alarms' = alarms
      BY <1>0, <1>1 DEF ProcessMail
    <2> QED BY <2>1, LossCovers
  <1>2. CASE call[c].answer.key = client[c].key
    <2>1. /\ client' = [client EXCEPT ![c].seen = call[c].answer.id] /\ losses' = losses
          /\ alarms' = IF WillAlarm(c) THEN [alarms EXCEPT ![c] = @ + 1] ELSE alarms
      BY <1>2 DEF ProcessMail, RollbackDetects, WillAlarm
    <2>2. client'[c].seen = call[c].answer.id /\ alarms'[c] = alarms[c] + One(WillAlarm(c))
      BY <1>0, <2>1 DEF One, ClientStates
    <2>3. WillSee(c)' = WillSee(c)
      BY <2>2 DEF WillSee
    <2>4. One(Behind(c))' = One(Behind(c))
      BY <2>3 DEF Behind, One
    <2>5. One(WillAlarm(c))' = 0
      BY DEF WillAlarm, One
    <2>6. alarms[c] + One(WillAlarm(c)) + One(Behind(c)) <= losses[c]
      BY DEF AlarmsCovered
    <2>7. alarms'[c] + One(WillAlarm(c))' + One(Behind(c))' <= losses'[c]
      BY <2>1, <2>2, <2>4, <2>5, <2>6, ClientCounts
    <2> QED BY <2>2, <2>7 DEF AlarmsCovered
  <1> QED BY <1>1, <1>2

\* The steps of client d leave every client c sound.
LEMMA ClientReplies ==
    ASSUME MailTypeOK, MailTypeOK', NothingLeft, NEW c \in Clients, SeenStored(c), AlarmsCovered(c),
           NEW d \in Clients, ClientStep(d)
    PROVE  SeenStored(c)' /\ AlarmsCovered(c)'
  <1>0. /\ call \in [Clients -> Calls] /\ client \in [Clients -> ClientStates] /\ saved \in [Clients -> ClientStates]
        /\ alarms \in [Clients -> Nat] /\ losses \in [Clients -> Nat]
    BY DEF MailTypeOK, ClientTypes, Calls, Pcs, ClientStates
  <1>1. UNCHANGED stored
    BY DEF ClientStep, SendMail, RetryMail, SendMailReturns, Timeout, PollMail, Save, Restore, hostVars
  <1>2. CASE d # c
    <2>1. client'[c] = client[c] /\ saved'[c] = saved[c] /\ call'[c] = call[c]
      BY <1>0, <1>2 DEF ClientStep, SendMail, RetryMail, SendMailReturns, Timeout, PollMail, Save, Restore,
                        Encrypt, ProcessMail, MoveCall
    <2>2. alarms'[c] = alarms[c] /\ losses'[c] = losses[c]
      BY <1>0, <1>2 DEF ClientStep, SendMail, RetryMail, SendMailReturns, Timeout, PollMail, Save, Restore,
                        ProcessMail
    <2> QED BY <1>1, <2>1, <2>2, CoverKept DEF SeenStored
  <1>3. CASE SendMail(c) \/ RetryMail(c)
    <2>1. call[c].answer = NoMail /\ UNCHANGED <<saved, alarms, losses>>
      BY <1>3 DEF SendMail, RetryMail, SeenStored
    <2>2. call'[c].answer = NoMail
      <3>1. \/ call' = [call EXCEPT ![c] = IdleCall]
            \/ \E st, n, a : Encrypt(c, st, n, a)
        BY <1>3 DEF SendMail, RetryMail
      <3>2. CASE call' = [call EXCEPT ![c] = IdleCall]
        BY <1>0, <3>2, IdleFields
      <3>3. ASSUME NEW st, NEW n, NEW a, Encrypt(c, st, n, a) PROVE call'[c].answer = NoMail
        BY <1>0, <3>3 DEF Encrypt
      <3> QED BY <3>1, <3>2, <3>3
    <2>3. client'[c].seen = client[c].seen
      <3>1. ASSUME NEW st \in ClientStates, NEW n, NEW a, Encrypt(c, st, n, a) PROVE client'[c].seen = st.seen
        BY <1>0, <3>1 DEF Encrypt, ClientStates
      <3>2. PICK st : st = [client[c] EXCEPT !.key = epoch, !.seq = 0]
        OBVIOUS
      <3>3. st \in ClientStates /\ st.seen = client[c].seen
        BY <1>0, <3>2 DEF ClientStates, MailTypeOK, EnclaveTypes
      <3>4. CASE SendMail(c)
        BY <1>0, <3>1, <3>4 DEF SendMail
      <3>5. CASE RetryMail(c)
        <4>1. \/ client' = client \/ client' = [client EXCEPT ![c] = st]
              \/ Encrypt(c, st, call[c].request.n, call[c].attempts + 1)
          BY <3>2, <3>5 DEF RetryMail, SequenceReset
        <4> QED BY <1>0, <3>1, <3>3, <4>1
      <3> QED BY <1>3, <3>4, <3>5
    <2> QED BY <1>1, <2>1, <2>2, <2>3, CoverKept DEF SeenStored
  <1>4. CASE SendMailReturns(c)
    <2>1. call'[c].answer = NoMail /\ UNCHANGED saved
      BY <1>0, <1>4, IdleFields DEF SendMailReturns
    <2>2. CASE call[c].answer = NoMail
      <3>1. UNCHANGED <<client, alarms, losses>>
        BY <1>4, <2>2 DEF SendMailReturns
      <3> QED BY <1>1, <2>1, <2>2, <3>1, CoverKept DEF SeenStored
    <2>3. CASE call[c].answer # NoMail
      <3>1. ProcessMail(c, call[c].answer)
        BY <1>4, <2>3 DEF SendMailReturns
      <3>2. AlarmsCovered(c)' /\ client'[c].seen \in {client[c].seen, call[c].answer.id}
        BY <1>1, <2>1, <2>3, <3>1, AnswerCovered
      <3> QED BY <1>1, <2>1, <2>3, <3>2 DEF SeenStored
    <2> QED BY <2>2, <2>3
  <1>5. CASE Timeout(c)
    <2>1. call'[c].answer = NoMail /\ UNCHANGED <<saved, client, alarms>>
      BY <1>0, <1>5, IdleFields DEF Timeout, MoveCall, GiveUp
    <2>2. losses'[c] = losses[c] + IF call[c].answer = NoMail THEN 0 ELSE 1
      BY <1>0, <1>5 DEF Timeout
    <2>3. AlarmsCovered(c)'
      <3>1. CASE call[c].answer = NoMail
        <4>1. losses'[c] = losses[c]
          BY <1>0, <2>2, <3>1
        <4> QED BY <1>1, <2>1, <3>1, <4>1, CoverKept
      <3>2. CASE call[c].answer # NoMail
        BY <2>1, <2>2, <3>2, LossCovers
      <3> QED BY <3>1, <3>2
    <2> QED BY <1>1, <2>1, <2>3 DEF SeenStored
  <1>6. ~\E lost \in BOOLEAN : PollMail(c, lost)
    BY DEF PollMail, NothingLeft
  <1>7. CASE Save(c)
    <2>1. saved' = [saved EXCEPT ![c] = client[c]] /\ UNCHANGED <<client, call, alarms, losses>>
      BY <1>7 DEF Save
    <2>2. saved'[c] = client[c]
      BY <1>0, <2>1
    <2> QED BY <1>1, <2>1, <2>2, CoverKept DEF SeenStored
  <1>8. CASE Restore(c)
    <2>1. call'[c].answer = NoMail /\ UNCHANGED <<saved, alarms>>
      BY <1>0, <1>8, IdleFields DEF Restore
    <2>2. client'[c].seen = saved[c].seen
      BY <1>0, <1>8 DEF Restore
    <2>3. losses'[c] = losses[c] + IF saved[c].seen # client[c].seen \/ call[c].answer # NoMail THEN 1 ELSE 0
      BY <1>0, <1>8 DEF Restore
    <2>4. AlarmsCovered(c)'
      <3>1. CASE saved[c].seen # client[c].seen \/ call[c].answer # NoMail
        BY <2>1, <2>3, <3>1, LossCovers
      <3>2. CASE saved[c].seen = client[c].seen /\ call[c].answer = NoMail
        <4>1. losses'[c] = losses[c]
          BY <1>0, <2>3, <3>2
        <4> QED BY <1>1, <2>1, <2>2, <3>2, <4>1, CoverKept
      <3> QED BY <3>1, <3>2
    <2> QED BY <1>1, <2>1, <2>2, <2>4 DEF SeenStored
  <1> QED BY <1>2, <1>3, <1>4, <1>5, <1>6, <1>7, <1>8 DEF ClientStep

\* Mail is not no mail.
LEMMA MailIsMail == NoMail \notin Mails
  BY MailConfigAssumption DEF NoMail, Mails

\* A list of at most one element.
LEMMA ShortList ==
    ASSUME NEW S, NEW s \in Seq(S), Len(s) <= 1
    PROVE  /\ Len(s) = 0 <=> s = <<>>
           /\ s # <<>> => Len(s) = 1 /\ Head(s) = s[1] /\ s[1] \in S /\ Tail(s) = <<>>
  <1>1. Len(s) = 0 <=> s = <<>>
    OBVIOUS
  <1>2. ASSUME s # <<>> PROVE Len(s) = 1 /\ Head(s) = s[1] /\ s[1] \in S /\ Tail(s) = <<>>
    <2>1. Len(s) \in Nat /\ Len(s) # 0
      BY <1>1, <1>2
    <2>2. Len(s) = 1
      <3>1. PICK n : n = Len(s)
        OBVIOUS
      <3>2. n \in Nat /\ n # 0 /\ n <= 1
        BY <2>1, <3>1
      <3>3. n = 1
        BY <3>2
      <3> QED BY <3>1, <3>3
    <2>3. Head(s) = s[1] /\ s[1] \in S
      BY <2>2
    <2>4. Tail(s) \in Seq(S) /\ Len(Tail(s)) = 0
      BY <1>2, <2>2
    <2>5. Tail(s) = <<>>
      BY <2>4
    <2> QED BY <2>2, <2>3, <2>5
  <1> QED BY <1>1, <1>2

\* The mail of a receive that posts to out.
MailsTo(out, id) ==
    [i \in DOMAIN out |-> [to |-> out[i], key |-> epoch, id |-> id, prev |-> memory.lastSeen[out[i]]]]

\* The mail appended to an empty list, and the last seen states, of a receive that at most replies.
AtMostAReply(from, out, id, mails) ==
    \/ <<>> \o mails = <<>> /\ LastSeenUpdated(out, id) = memory.lastSeen
    \/ /\ Len(<<>> \o mails) = 1
       /\ (<<>> \o mails)[1] = [to |-> from, key |-> epoch, id |-> id, prev |-> memory.lastSeen[from]]
       /\ \A c \in Clients : LastSeenUpdated(out, id)[c] = IF c = from THEN id ELSE memory.lastSeen[c]

\* A receive that at most replies.
LEMMA ReplyMade ==
    ASSUME MailTypeOK, NEW from \in Clients, NEW out \in {<<>>, <<from>>}, NEW id, NEW mails,
           mails = MailsTo(out, id)
    PROVE  AtMostAReply(from, out, id, mails)
  <1>0. memory.lastSeen \in [Clients -> Nat]
    BY DEF MailTypeOK, EnclaveTypes, States
  <1>2. CASE out = <<>>
    <2>1. DOMAIN out = {} /\ DOMAIN out = 1..0
      BY <1>2
    <2>2. mails \in Seq(Mails) /\ Len(mails) = 0
      BY <2>1 DEF MailsTo
    <2>3. mails = <<>> /\ <<>> \o mails = <<>>
      BY <2>2
    <2>4. LastSeenUpdated(out, id) = memory.lastSeen
      BY <1>0, <2>1 DEF LastSeenUpdated
    <2> QED BY <2>3, <2>4 DEF AtMostAReply
  <1>3. CASE out = <<from>>
    <2>1. DOMAIN out = 1..1 /\ out[1] = from
      BY <1>3
    <2>2. PICK m : m = [to |-> from, key |-> epoch, id |-> id, prev |-> memory.lastSeen[from]]
      OBVIOUS
    <2>3. DOMAIN mails = 1..1 /\ mails[1] = m
      BY <2>1, <2>2 DEF MailsTo
    <2>4. mails \in Seq({m}) /\ Len(mails) = 1
      <3>1. mails = [i \in 1..1 |-> mails[i]]
        BY <2>1 DEF MailsTo
      <3>2. mails \in [1..1 -> {m}]
        BY <2>3, <3>1
      <3> QED BY <3>2
    <2>5. Len(<<>> \o mails) = 1 /\ (<<>> \o mails)[1] = m
      <3>1. <<>> \in Seq({m}) /\ Len(<<>>) = 0
        OBVIOUS
      <3>2. <<>> \o mails = mails
        BY <2>4, <3>1
      <3> QED BY <2>3, <2>4, <3>2
    <2>6. \A c \in Clients : LastSeenUpdated(out, id)[c] = IF c = from THEN id ELSE memory.lastSeen[c]
      BY <2>1 DEF LastSeenUpdated
    <2> QED BY <2>2, <2>5, <2>6 DEF AtMostAReply
  <1> QED BY <1>2, <1>3

\* A receive of such an enclave.
LEMMA ReceiveReplies ==
    ASSUME MailTypeOK, MailTypeOK', RepliesOnly, NothingLeft, ReplyInv,
           NEW h \in HostThreads, NEW q \in requests, NEW out \in Outbound(q.from), ReceiveMail(h, q, out)
    PROVE  NothingLeft' /\ ReplyInv'
  <1>1. q \in Requests /\ q.from \in Clients
    BY DEF MailTypeOK, HostTypes, Requests
  <1>2. out \in {<<>>, <<q.from>>}
    BY DEF Outbound, RepliesOnly
  <1>3. PICK id : id = Len(lineages) + 1
    OBVIOUS
  <1>4. PICK mails : mails = MailsTo(out, id)
    OBVIOUS
  <1>5. /\ memory' = [lastSeen |-> LastSeenUpdated(out, id), effects |-> memory.effects \cup {id}]
        /\ receive' = [request |-> q, mails |-> leaked[h] \o mails, response |-> NoMail, busy |-> TRUE]
        /\ leaked' = [leaked EXCEPT ![h] = <<>>]
        /\ UNCHANGED <<inbox, stored>> /\ ~receive.busy
    BY <1>3, <1>4 DEF ReceiveMail, ExecuteReceive, RepliesOnly, MailsTo
  <1>6. memory = stored /\ memory \in States /\ leaked[h] = <<>>
    BY <1>5 DEF ReplyInv, NothingLeft, MailTypeOK, EnclaveTypes
  <1>7. NothingLeft'
    BY <1>5 DEF NothingLeft, MailTypeOK, HostTypes
  <1>8. /\ memory'.lastSeen = LastSeenUpdated(out, id) /\ memory'.effects = memory.effects \cup {id}
        /\ receive'.mails = <<>> \o mails /\ receive'.response = NoMail /\ receive'.busy
        /\ receive'.request = q
    BY <1>5, <1>6
  <1>9. receive'.mails \in Seq(Mails)
    BY DEF MailTypeOK, HostTypes
  <1>10. CASE <<>> \o mails = <<>> /\ LastSeenUpdated(out, id) = memory.lastSeen
    <2>1. receive'.mails = <<>> /\ Len(receive'.mails) = 0
      BY <1>8, <1>10
    <2>2. Reply' = NoMail
      BY <1>8, <2>1 DEF Reply
    <2>3. memory'.lastSeen = stored'.lastSeen /\ stored'.effects \subseteq memory'.effects
      BY <1>5, <1>6, <1>8, <1>10
    <2>4. ReplyInv'
      BY <1>1, <1>8, <2>1, <2>2, <2>3 DEF ReplyInv
    <2> QED BY <1>7, <2>4
  <1>11. CASE /\ Len(<<>> \o mails) = 1
              /\ (<<>> \o mails)[1] = [to |-> q.from, key |-> epoch, id |-> id, prev |-> memory.lastSeen[q.from]]
              /\ \A c \in Clients : LastSeenUpdated(out, id)[c] = IF c = q.from THEN id ELSE memory.lastSeen[c]
    <2>1. Len(receive'.mails) = 1 /\ receive'.mails # <<>>
      <3>1. Len(receive'.mails) = 1
        BY <1>8, <1>11
      <3>2. Len(receive'.mails) <= 1 /\ Len(receive'.mails) # 0
        BY <3>1
      <3> QED BY <1>9, <3>1, <3>2, ShortList
    <2>2. Reply' = [to |-> q.from, key |-> epoch, id |-> id, prev |-> memory.lastSeen[q.from]]
      BY <1>8, <1>11, <2>1 DEF Reply
    <2>3. Reply'.to = q.from /\ Reply'.id = id /\ Reply'.prev = memory.lastSeen[q.from]
      BY <2>2
    <2>4. Reply' # NoMail
      BY <1>1, <2>3, MailConfigAssumption DEF NoMail
    <2>5. /\ Reply'.prev = stored'.lastSeen[q.from] /\ Reply'.id = memory'.lastSeen[q.from]
          /\ Reply'.id \in memory'.effects /\ stored'.effects \subseteq memory'.effects
          /\ \A c \in Clients \ {q.from} : memory'.lastSeen[c] = stored'.lastSeen[c]
      BY <1>1, <1>5, <1>6, <1>8, <1>11, <2>3
    <2>6. ReplyInv'
      <3>1. receive'.busy /\ receive'.request.from = q.from /\ receive'.response = NoMail
        BY <1>8
      <3>2. Len(receive'.mails) <= 1
        BY <2>1
      <3> QED BY <1>1, <2>3, <2>4, <2>5, <3>1, <3>2 DEF ReplyInv
    <2> QED BY <1>7, <2>6
  <1>12. AtMostAReply(q.from, out, id, mails)
    BY <1>1, <1>2, <1>4, ReplyMade
  <1> QED BY <1>10, <1>11, <1>12 DEF AtMostAReply

\* The host finds the reply among the commands, and it is the answer.
LEMMA PostReplies ==
    ASSUME MailTypeOK, MailTypeOK', NothingLeft, ReplyInv, ProcessPostMail
    PROVE  NothingLeft' /\ ReplyInv'
  <1>1. /\ receive \in [request : Requests \cup {NoRequest}, mails : Seq(Mails),
                        response : Mails \cup {NoMail}, busy : BOOLEAN]
        /\ receive.mails \in Seq(Mails)
    BY DEF MailTypeOK, HostTypes
  <1>2. PICK m : m = receive.mails[1]
    OBVIOUS
  <1>3. /\ receive.busy /\ receive.mails # <<>> /\ Len(receive.mails) = 1 /\ receive.response = NoMail
        /\ Head(receive.mails) = m /\ m \in Mails /\ Tail(receive.mails) = <<>>
    <2>1. receive.busy /\ receive.mails # <<>> /\ Len(receive.mails) <= 1 /\ receive.response = NoMail
      BY DEF ProcessPostMail, ReplyInv
    <2> QED BY <1>1, <1>2, <2>1, ShortList
  <1>4. Reply = m /\ m # NoMail
    BY <1>2, <1>3, MailIsMail DEF Reply
  <1>5. m.to = receive.request.from
    BY <1>4 DEF ReplyInv
  <1>6. receive' = [receive EXCEPT !.mails = <<>>, !.response = m] /\ UNCHANGED <<inbox, leaked, memory, stored>>
    BY <1>3, <1>5 DEF ProcessPostMail, enclaveVars
  <1>7. receive'.mails = <<>> /\ receive'.response = m /\ receive'.busy /\ receive'.request = receive.request
    BY <1>1, <1>3, <1>6
  <1>8. Reply' = m /\ Len(receive'.mails) = 0
    BY <1>7 DEF Reply
  <1>9. NothingLeft'
    BY <1>6 DEF NothingLeft
  <1>10. ReplyInv'
    BY <1>3, <1>4, <1>6, <1>7, <1>8 DEF ReplyInv
  <1> QED BY <1>9, <1>10

\* Steps that leave the enclave's state and the receive in progress alone.
LEMMA ReplyKept ==
    ASSUME NothingLeft, ReplyInv, UNCHANGED <<memory, stored, receive, leaked, inbox>>
    PROVE  NothingLeft' /\ ReplyInv'
  <1>1. NothingLeft'
    BY DEF NothingLeft
  <1>2. Reply' = Reply
    BY DEF Reply
  <1>3. ReplyInv'
    BY <1>2 DEF ReplyInv
  <1> QED BY <1>1, <1>3

\* A call that goes on without an answer.
LEMMA AdvanceReplies ==
    ASSUME MailTypeOK, NEW c \in Clients, SeenStored(c), AlarmsCovered(c),
           NEW q, NEW pc, pc # "answered", Advance(q, pc), UNCHANGED <<client, saved, stored, alarms, losses>>
    PROVE  SeenStored(c)' /\ AlarmsCovered(c)'
  <1>1. call'[c].answer = call[c].answer /\ (call'[c].pc = "answered" => call[c].pc = "answered")
        /\ (call'[c].pc # "answered" => call[c].pc # "answered")
    <2>1. CASE call'[c] = call[c]
      BY <2>1
    <2>2. CASE call[c].pc = "sending" /\ call'[c].pc = pc /\ call'[c].answer \in {NoMail, call[c].answer}
      BY <2>2 DEF SeenStored
    <2> QED BY <2>1, <2>2, AdvanceCall
  <1>2. SeenStored(c)'
    BY <1>1 DEF SeenStored
  <1> QED BY <1>1, <1>2, CoverKept

\* The state is stored, and then the client gets its answer or has given up on it.
LEMMA ReturnReplies ==
    ASSUME MailTypeOK, MailTypeOK', ReplyInv, NEW c \in Clients, SeenStored(c), AlarmsCovered(c),
           DeliverMailReturns
    PROVE  SeenStored(c)' /\ AlarmsCovered(c)'
  <1>1. PICK q : q = receive.request
    OBVIOUS
  <1>2. PICK m : m = receive.response
    OBVIOUS
  <1>3. /\ receive.busy /\ receive.mails = <<>> /\ stored' = memory
        /\ UNCHANGED <<memory, client, saved, alarms>>
    BY DEF DeliverMailReturns, StoreSealedState, enclaveVars
  <1>4. q.from \in Clients /\ Reply = m /\ stored.effects \subseteq stored'.effects
    BY <1>1, <1>2, <1>3 DEF ReplyInv, Reply
  <1>5. m = NoMail => stored'.lastSeen = stored.lastSeen
    BY <1>3, <1>4 DEF ReplyInv
  <1>6. ASSUME m # NoMail
        PROVE  /\ m.prev = stored.lastSeen[q.from] /\ m.id = stored'.lastSeen[q.from] /\ m.id \in stored'.effects
               /\ \A d \in Clients \ {q.from} : stored'.lastSeen[d] = stored.lastSeen[d]
    BY <1>1, <1>3, <1>4, <1>6 DEF ReplyInv
  <1>7. call \in [Clients -> Calls] /\ losses \in [Clients -> Nat]
    BY DEF MailTypeOK, ClientTypes, Calls, Pcs
  <1>8. alarms[c] + One(WillAlarm(c)) + One(Behind(c)) <= losses[c]
    BY DEF AlarmsCovered
  <1>9. CASE c # q.from
    <2>1. call'[c] = call[c] /\ losses'[c] = losses[c]
      BY <1>1, <1>4, <1>7, <1>9 DEF DeliverMailReturns
    <2>2. stored'.lastSeen[c] = stored.lastSeen[c]
      BY <1>5, <1>6, <1>9
    <2>3. AlarmsCovered(c)'
      BY <1>3, <2>1, <2>2, CoverKept
    <2>4. SeenStored(c)'
      BY <1>3, <1>4, <2>1 DEF SeenStored
    <2> QED BY <2>3, <2>4
  <1>10. CASE c = q.from /\ Awaits(q, "waiting")
    <2>1. call[c].pc = "waiting" /\ call[c].answer = NoMail
      BY <1>10 DEF Awaits, SeenStored
    <2>2. call' = [call EXCEPT ![c].pc = "answered", ![c].answer = m] /\ losses' = losses
      BY <1>1, <1>2, <1>10 DEF DeliverMailReturns
    <2>3. call'[c].pc = "answered" /\ call'[c].answer = m
      BY <1>7, <2>2 DEF Calls
    <2>4. SeenStored(c)'
      BY <1>3, <1>4, <1>6, <2>3 DEF SeenStored
    <2>5. CASE m = NoMail
      BY <1>3, <1>5, <2>1, <2>2, <2>3, <2>4, <2>5, CoverKept
    <2>6. CASE m # NoMail
      <3>1. ~Behind(c)'
        BY <1>6, <1>10, <2>3, <2>6 DEF Behind, WillSee
      <3>2. WillAlarm(c)' => Behind(c)
        BY <1>3, <1>6, <1>10, <2>1, <2>3, <2>6 DEF Behind, WillSee, WillAlarm
      <3>3. One(Behind(c))' = 0 /\ One(WillAlarm(c))' <= One(Behind(c))
        BY <3>1, <3>2 DEF One
      <3>4. alarms'[c] + One(WillAlarm(c))' + One(Behind(c))' <= losses'[c]
        BY <1>3, <1>8, <2>2, <3>3, ClientCounts
      <3> QED BY <2>4, <3>4 DEF AlarmsCovered
    <2> QED BY <2>5, <2>6
  <1>11. CASE c = q.from /\ ~Awaits(q, "waiting")
    <2>1. /\ call' = call
          /\ losses' = IF m = NoMail THEN losses ELSE [losses EXCEPT ![c] = @ + 1]
      BY <1>1, <1>2, <1>11 DEF DeliverMailReturns
    <2>2. SeenStored(c)'
      BY <1>3, <1>4, <2>1 DEF SeenStored
    <2>3. CASE m = NoMail
      BY <1>3, <1>5, <2>1, <2>2, <2>3, CoverKept
    <2>4. CASE m # NoMail
      <3>1. losses'[c] = losses[c] + 1
        BY <1>7, <2>1, <2>4
      <3>2. WillAlarm(c)' <=> WillAlarm(c)
        BY <1>3, <2>1 DEF WillAlarm
      <3>3. One(WillAlarm(c))' = One(WillAlarm(c))
        BY <3>2 DEF One
      <3>4. alarms'[c] + One(WillAlarm(c))' + One(Behind(c))' <= losses'[c]
        BY <1>3, <1>8, <3>1, <3>3, ClientCounts
      <3> QED BY <2>2, <3>4 DEF AlarmsCovered
    <2> QED BY <2>3, <2>4
  <1> QED BY <1>9, <1>10, <1>11

\* deliverMail returns: what is in memory has been stored.
LEMMA ReturnStores ==
    ASSUME NothingLeft, ReplyInv, DeliverMailReturns
    PROVE  NothingLeft' /\ ReplyInv'
  <1>1. memory' = memory /\ stored' = memory /\ receive' = NoReceive /\ UNCHANGED <<leaked, inbox>>
    BY DEF DeliverMailReturns, StoreSealedState, enclaveVars
  <1>2. NothingLeft'
    BY <1>1 DEF NothingLeft
  <1>3. ~receive'.busy /\ receive'.mails = <<>> /\ receive'.response = NoMail /\ Len(receive'.mails) <= 1
    BY <1>1 DEF NoReceive
  <1>4. Reply' = NoMail
    BY <1>3 DEF Reply
  <1>5. ReplyInv'
    BY <1>1, <1>3, <1>4 DEF ReplyInv
  <1> QED BY <1>2, <1>5

\* The enclave starts again with the state that was stored last: no mail was lost but the one
\* that no client had got and no stored state had seen.
LEMMA RestartReplies ==
    ASSUME MailTypeOK, NothingLeft, ReplyInv, Restart(stored)
    PROVE  /\ NothingLeft' /\ ReplyInv'
           /\ \A c \in Clients : SeenStored(c) /\ AlarmsCovered(c) => SeenStored(c)' /\ AlarmsCovered(c)'
  <1>1. /\ memory' = stored /\ stored' = stored /\ receive' = NoReceive /\ UNCHANGED <<client, saved, alarms>>
        /\ leaked' = [h \in HostThreads |-> <<>>] /\ inbox' = [c \in Clients |-> <<>>]
    BY DEF Restart
  <1>2. NothingLeft'
    BY <1>1 DEF NothingLeft
  <1>3. ~receive'.busy /\ receive'.mails = <<>> /\ receive'.response = NoMail /\ Len(receive'.mails) <= 1
    BY <1>1 DEF NoReceive
  <1>4. Reply' = NoMail
    BY <1>3 DEF Reply
  <1>5. ReplyInv'
    BY <1>1, <1>3, <1>4 DEF ReplyInv
  <1>6. ASSUME NEW c \in Clients, SeenStored(c), AlarmsCovered(c) PROVE SeenStored(c)' /\ AlarmsCovered(c)'
    <2>1. losses[c] \in Nat
      BY DEF MailTypeOK, ClientTypes
    <2>2. losses'[c] = losses[c]
      BY <2>1 DEF Restart, NothingLeft
    <2>3. call'[c] = IF call[c].pc = "waiting" THEN IdleCall ELSE call[c]
      BY DEF Restart
    <2>4. call'[c].answer = call[c].answer /\ (call'[c].pc # "answered" => call[c].pc # "answered")
      BY <1>6, <2>3, IdleFields DEF SeenStored
    <2>5. SeenStored(c)'
      BY <1>1, <1>6, <2>4 DEF SeenStored
    <2>6. AlarmsCovered(c)'
      BY <1>1, <1>6, <2>2, <2>4, CoverKept
    <2> QED BY <2>5, <2>6
  <1> QED BY <1>2, <1>5, <1>6

\* The steps of the host and the enclave keep the replies sound.
LEMMA HostReplies ==
    ASSUME MailTypeOK, MailTypeOK', RepliesOnly, RepliesInv, HostStep
    PROVE  NothingLeft' /\ ReplyInv' /\ \A c \in Clients : SeenStored(c)' /\ AlarmsCovered(c)'
  <1>0. NothingLeft /\ ReplyInv /\ \A c \in Clients : SeenStored(c) /\ AlarmsCovered(c)
    BY DEF RepliesInv
  <1>1. ASSUME NEW q \in requests, RefuseMail(q) \/ RejectMail(q)
        PROVE  NothingLeft' /\ ReplyInv' /\ \A c \in Clients : SeenStored(c)' /\ AlarmsCovered(c)'
    <2>1. /\ Advance(q, "refused") \/ Advance(q, "idle")
          /\ UNCHANGED <<memory, stored, receive, leaked, inbox, client, saved, alarms, losses>>
      BY <1>1 DEF RefuseMail, RejectMail, GiveUp, enclaveVars, hostVars
    <2>2. NothingLeft' /\ ReplyInv'
      BY <1>0, <2>1, ReplyKept
    <2>3. \A c \in Clients : SeenStored(c)' /\ AlarmsCovered(c)'
      BY <1>0, <2>1, AdvanceReplies
    <2> QED BY <2>2, <2>3
  <1>2. ASSUME NEW h \in HostThreads, NEW q \in requests, NEW out \in Outbound(q.from), ReceiveMail(h, q, out)
        PROVE  NothingLeft' /\ ReplyInv' /\ \A c \in Clients : SeenStored(c)' /\ AlarmsCovered(c)'
    <2>1. Advance(q, "waiting") /\ UNCHANGED <<stored, client, saved, alarms, losses>>
      BY <1>2 DEF ReceiveMail, ExecuteReceive, RepliesOnly
    <2>2. NothingLeft' /\ ReplyInv'
      BY <1>0, <1>2, ReceiveReplies
    <2>3. \A c \in Clients : SeenStored(c)' /\ AlarmsCovered(c)'
      BY <1>0, <2>1, AdvanceReplies
    <2> QED BY <2>2, <2>3
  <1>3. CASE ProcessPostMail
    <2>1. UNCHANGED <<stored, client, saved, call, alarms, losses>>
      BY <1>3 DEF ProcessPostMail, clientVars
    <2>2. ASSUME NEW c \in Clients PROVE SeenStored(c)' /\ AlarmsCovered(c)'
      BY <1>0, <2>1, CoverKept DEF SeenStored
    <2> QED BY <1>0, <1>3, <2>2, PostReplies
  <1>4. CASE DeliverMailReturns
    BY <1>0, <1>4, ReturnReplies, ReturnStores
  <1>5. CASE Restart(stored)
    BY <1>0, <1>5, RestartReplies
  <1> QED BY <1>1, <1>2, <1>3, <1>4, <1>5 DEF HostStep, RepliesOnly

\* With an honest host, and receives that answer their sender and do not fail, the answers
\* lead from one stored state to the next, and every alarm to come has a cause.
THEOREM RepliesInductive == Spec => []RepliesInv
  <1>1. Init => RepliesInv
    <2> SUFFICES ASSUME Init PROVE RepliesInv
      OBVIOUS
    <2>1. NothingLeft
      BY DEF Init, NothingLeft
    <2>2. memory = stored /\ receive = NoReceive
      BY DEF Init
    <2>3. ~receive.busy /\ receive.mails = <<>> /\ receive.response = NoMail /\ Len(receive.mails) <= 1
      BY <2>2 DEF NoReceive
    <2>4. Reply = NoMail
      BY <2>3 DEF Reply
    <2>5. ReplyInv
      BY <2>2, <2>3, <2>4 DEF ReplyInv
    <2>6. ASSUME NEW c \in Clients PROVE SeenStored(c) /\ AlarmsCovered(c)
      <3>1. client[c].seen = 0 /\ saved[c].seen = 0 /\ alarms[c] = 0 /\ losses[c] = 0
        BY DEF Init
      <3>2. stored.lastSeen[c] = 0
        BY DEF Init
      <3>3. call[c].answer = NoMail
        BY IdleFields DEF Init
      <3>4. ~WillAlarm(c) /\ ~Behind(c)
        BY <3>1, <3>2, <3>3 DEF WillAlarm, Behind, WillSee
      <3>5. AlarmsCovered(c)
        BY <3>1, <3>4 DEF AlarmsCovered, One
      <3> QED BY <3>1, <3>3, <3>5 DEF SeenStored
    <2> QED BY <2>1, <2>5, <2>6 DEF RepliesInv
  <1>2. MailTypeOK /\ MailTypeOK' /\ RepliesInv /\ [Next]_vars => RepliesInv'
    <2> SUFFICES ASSUME MailTypeOK, MailTypeOK', RepliesInv, [Next]_vars, RepliesOnly
                 PROVE  NothingLeft' /\ ReplyInv' /\ \A c \in Clients : SeenStored(c)' /\ AlarmsCovered(c)'
      BY DEF RepliesInv
    <2>0. NothingLeft /\ ReplyInv /\ \A c \in Clients : SeenStored(c) /\ AlarmsCovered(c)
      BY DEF RepliesInv
    <2>1. ASSUME NEW d \in Clients, ClientStep(d)
          PROVE  NothingLeft' /\ ReplyInv' /\ \A c \in Clients : SeenStored(c)' /\ AlarmsCovered(c)'
      <3>1. ~\E lost \in BOOLEAN : PollMail(d, lost)
        BY <2>0 DEF PollMail, NothingLeft
      <3>2. UNCHANGED <<memory, stored, receive, leaked, inbox>>
        BY <2>1, <3>1 DEF ClientStep, SendMail, RetryMail, SendMailReturns, Timeout, Save, Restore,
                          enclaveVars, hostVars
      <3>3. NothingLeft' /\ ReplyInv'
        BY <2>0, <3>2, ReplyKept
      <3>4. \A c \in Clients : SeenStored(c)' /\ AlarmsCovered(c)'
        BY <2>0, <2>1, ClientReplies
      <3> QED BY <3>3, <3>4
    <2>2. CASE HostStep
      BY <2>2, HostReplies
    <2>3. CASE Idle \/ UNCHANGED vars
      <3>1. UNCHANGED <<memory, stored, receive, leaked, inbox, client, saved, call, alarms, losses>>
        BY <2>3 DEF Idle, vars, enclaveVars, hostVars, clientVars
      <3>2. NothingLeft' /\ ReplyInv'
        BY <2>0, <3>1, ReplyKept
      <3>3. ASSUME NEW c \in Clients PROVE SeenStored(c)' /\ AlarmsCovered(c)'
        BY <2>0, <3>1, CoverKept DEF SeenStored
      <3> QED BY <3>2, <3>3
    <2> QED BY <2>1, <2>2, <2>3 DEF Next, RepliesOnly
  <1> QED BY <1>1, <1>2, MailTypeCorrect, PTL DEF Spec

\* No client knows of a state that an honest host would lose in a restart, if the receives
\* of the enclave answer their sender and do not fail.  Other mail is handed to its
\* recipients before the sealed state of the receive is stored.
THEOREM StatesStoredBeforeSeen ==
    ASSUME ~AsyncMail, ~Failing
    PROVE  Spec => []StateStoredBeforeSeen
  <1>1. RepliesInv => StateStoredBeforeSeen
    BY DEF RepliesInv, RepliesOnly, SeenStored, StateStoredBeforeSeen
  <1> QED BY <1>1, RepliesInductive, PTL

\* EnclaveClient.processMail: if the enclave only answers its senders, no receive fails and the
\* host is honest, a client raises the alarm at most once for each time it missed an answer or
\* lost its own state, however requests, answers, time-outs, restarts and restores interleave.
THEOREM AlarmsAreJustified ==
    ASSUME ~AsyncMail, ~Failing
    PROVE  Spec => []AlarmsJustified
  <1>1. MailTypeOK /\ RepliesInv => AlarmsJustified
    <2> SUFFICES ASSUME MailTypeOK, RepliesInv, Honest, NEW c \in Clients PROVE alarms[c] <= losses[c]
      BY DEF AlarmsJustified
    <2>1. alarms[c] + One(WillAlarm(c)) + One(Behind(c)) <= losses[c]
      BY DEF RepliesInv, RepliesOnly, AlarmsCovered
    <2>2. alarms[c] \in Nat /\ losses[c] \in Nat /\ One(WillAlarm(c)) \in {0, 1} /\ One(Behind(c)) \in {0, 1}
      BY DEF MailTypeOK, ClientTypes, One
    <2> QED BY <2>1, <2>2
  <1> QED BY <1>1, MailTypeCorrect, RepliesInductive, PTL
=============================================================================

----------------------------- MODULE ClientMail -----------------------------
(***************************************************************************)
(* Mail between EnclaveClients and an enclave with the persistent map,     *)
(* behind a host that uses EnclaveHostService: sequence numbers and their  *)
(* check in the enclave, the retry after an enclave restart, the state IDs *)
(* by which clients detect that the enclave was given an old sealed state, *)
(* and what the host, the network and crashes do to all of this.           *)
(*                                                                         *)
(* Each client uses one topic.  The enclave's session keys are numbered by *)
(* its restarts and the (random) state IDs by the receives that create     *)
(* them, 0 standing for none.  A receive is one step: Enclave.lock is held *)
(* from the check of the sequence number until the host has processed the  *)
(* mail commands, which takes several steps.                               *)
(***************************************************************************)
EXTENDS Integers, Sequences, FiniteSets

CONSTANTS
    Clients,
    NoClient,          \* the sender of a receiveFromUntrustedHost call
    HostThreads,       \* host threads; each keeps a list of mail commands
    Honest,            \* does the host restore the last state it stored and forward mail as is?
    Lossy,             \* may a client give up waiting for the host's answer?
    AsyncMail,         \* may the enclave post other mail than one reply to the sender?
    Failing,           \* may a receive fail?
    MaxRetryAttempts,  \* EnclaveClient.MAX_RETRY_ATTEMPTS
    MaxSends,          \* bound: messages of a client
    MaxMails,          \* bound: mails a receive posts, if AsyncMail
    MaxHostCalls,      \* bound: callEnclave calls of the host
    MaxRestarts,       \* bound: restarts of the enclave
    MaxRestores,       \* bound: restarts of clients
    MaxAlarms          \* bound: polls of a client that an untrusted host answers amiss

ASSUME MailConfigAssumption ==
    /\ NoClient \notin Clients
    /\ {Honest, Lossy, AsyncMail, Failing} \subseteq BOOLEAN
    /\ {MaxRetryAttempts, MaxSends, MaxMails, MaxHostCalls, MaxRestarts, MaxRestores,
        MaxAlarms} \subseteq Nat

VARIABLES
    \* the enclave
    epoch,      \* encryptionKeyPair: the session key of this run of the enclave
    watermark,  \* sequenceWatermarks
    memory,     \* lastSeenStateIds, and the receives whose effects the persistent map has
    \* the host
    receive,    \* the call whose mail commands are being processed
    leaked,     \* Transaction.mailCommands left behind on each thread
    inbox,      \* EnclaveHostService.asynchronousResponses
    stored,     \* the sealed state that was stored last
    \* the clients and the network
    client,     \* enclave key, next sequence number, _lastSeenStateId
    saved,      \* what EnclaveClient.save wrote last
    call,       \* the sendMail call of each client
    requests,   \* mail on its way to the enclave
    \* history, and what is left of the bounds
    sealed,     \* all sealed states
    posted,     \* all mail posted by the enclave
    lineages,   \* lineages[id]: the receives whose effects the state id builds on
    processed,  \* requests in the order the enclave received them
    alarms,     \* EnclaveRollbackExceptions of each client
    losses,     \* times a client missed mail or lost its own state
    sends, hostCalls, restores

enclaveVars == <<epoch, watermark, memory>>
hostVars    == <<receive, leaked, inbox, stored, sealed>>
clientVars  == <<client, saved, call, alarms, losses>>
receiveVars == <<memory, receive, leaked, posted, lineages>>
boundVars   == <<sends, hostCalls, restores>>
vars == <<enclaveVars, hostVars, clientVars, requests, posted, lineages, processed, boundVars>>

-----------------------------------------------------------------------------
NoMail    == [to |-> NoClient, key |-> 0, id |-> 0, prev |-> 0]
NoRequest == [from |-> NoClient, key |-> 0, seq |-> 0, n |-> 0]
NoReceive == [request |-> NoRequest, mails |-> <<>>, response |-> NoMail, busy |-> FALSE]
IdleCall  == [pc |-> "idle", request |-> NoRequest, answer |-> NoMail, attempts |-> 0]

Mails    == [to : Clients, key : Nat, id : Nat, prev : Nat]
Requests == [from : Clients, key : Nat, seq : Nat, n : Nat]
States   == [lastSeen : [Clients -> Nat], effects : SUBSET Nat]

\* The client is still waiting for the answer to q.
Awaits(q, pc) == q.from \in Clients /\ call[q.from].request = q /\ call[q.from].pc = pc

\* sendMail of client c goes on to pc.
MoveCall(c, pc) ==
    [call EXCEPT ![c] = IF pc = "idle" THEN IdleCall ELSE [@ EXCEPT !.pc = pc]]

\* The mails a receive may post, by recipient.
Outbound(from) ==
    IF AsyncMail THEN UNION {[1..n -> Clients] : n \in 0..MaxMails}
                 ELSE {<<>>, <<from>>}

-----------------------------------------------------------------------------
(***************************************************************************)
(* Parts of the handlers.  Each comes with a faulty variant, a plausible   *)
(* slip in the code that no specification uses.                            *)
(***************************************************************************)
\* The encryption key of an enclave that restarts (initCryptography).
SameKey    == epoch
SessionKey == epoch + 1

\* sendSealedState: the recipients of a receive's mail will have seen its state.
LastSeenKept(out, id)    == memory.lastSeen
LastSeenUpdated(out, id) ==
    [c \in Clients |-> IF \E i \in DOMAIN out : out[i] = c THEN id ELSE memory.lastSeen[c]]

\* processMail: the mail was created from a state that does not follow the last seen one.
RollbackUnlessFirst(c, m) == m.prev # 0 /\ client[c].seen # m.prev
RollbackDetects(c, m)     == client[c].seen # m.prev

\* resetPostOffices: the sequence numbers restart at zero.
SequenceKept(c)  == client[c].seq
SequenceReset(c) == 0

\* sendMail lets every exception but MailDecryptionException pass to its caller.
RetryAnything == "refused"
GiveUp        == "idle"

\* storeSealedState.
StoreNothing     == stored
StoreSealedState == memory

-----------------------------------------------------------------------------
Init ==
    /\ epoch = 1
    /\ watermark = [c \in Clients |-> -1]
    /\ memory = [lastSeen |-> [c \in Clients |-> 0], effects |-> {}]
    /\ receive = NoReceive
    /\ leaked = [h \in HostThreads |-> <<>>]
    /\ inbox = [c \in Clients |-> <<>>]
    /\ stored = memory
    /\ client = [c \in Clients |-> [key |-> 1, seq |-> 0, seen |-> 0]]
    /\ saved = client
    /\ call = [c \in Clients |-> IdleCall]
    /\ requests = {}
    /\ sealed = {stored}
    /\ posted = {}
    /\ lineages = <<>>
    /\ processed = <<>>
    /\ alarms = [c \in Clients |-> 0]
    /\ losses = [c \in Clients |-> 0]
    /\ sends = [c \in Clients |-> 0]
    /\ hostCalls = 0
    /\ restores = 0

-----------------------------------------------------------------------------
(***************************************************************************)
(* EnclaveClient                                                           *)
(***************************************************************************)
\* encryptMail takes the next sequence number, and the mail is handed to the transport.
Encrypt(c, st, n, attempts) ==
    LET q == [from |-> c, key |-> st.key, seq |-> st.seq, n |-> n]
    IN  /\ client' = [client EXCEPT ![c] = [st EXCEPT !.seq = @ + 1]]
        /\ call' = [call EXCEPT ![c] = [pc |-> "sending", request |-> q,
                                        answer |-> NoMail, attempts |-> attempts]]
        /\ requests' = requests \cup {q}

SendMail(c) ==
    /\ call[c].pc = "idle"
    /\ sends[c] < MaxSends
    /\ sends' = [sends EXCEPT ![c] = @ + 1]
    /\ Encrypt(c, client[c], sends'[c], 1)
    /\ UNCHANGED <<enclaveVars, hostVars, saved, alarms, losses, posted, lineages, processed,
                   hostCalls, restores>>

\* sendMail after a MailDecryptionException: a new EnclaveInstanceInfo is fetched, and the
\* message is encrypted again if the enclave has a new key and an attempt is left.
RetryMail(c) ==
    /\ call[c].pc = "refused"
    /\ LET st == [client[c] EXCEPT !.key = epoch, !.seq = SequenceReset(c)]
       IN  \/ /\ client[c].key = epoch
              /\ call' = [call EXCEPT ![c] = IdleCall]
              /\ UNCHANGED <<client, requests>>
           \/ /\ client[c].key # epoch
              /\ call[c].attempts < MaxRetryAttempts
              /\ Encrypt(c, st, call[c].request.n, call[c].attempts + 1)
           \/ /\ client[c].key # epoch
              /\ call[c].attempts = MaxRetryAttempts
              /\ client' = [client EXCEPT ![c] = st]
              /\ call' = [call EXCEPT ![c] = IdleCall]
              /\ UNCHANGED requests
    /\ UNCHANGED <<enclaveVars, hostVars, saved, alarms, losses, posted, lineages, processed, boundVars>>

\* processMail.  Mail of another session of the enclave has the wrong sender and is lost.
\* A state ID that has been seen is not checked again.
ProcessMail(c, m) ==
    IF m.key # client[c].key
    THEN /\ losses' = [losses EXCEPT ![c] = @ + 1]
         /\ UNCHANGED <<client, alarms>>
    ELSE /\ client' = [client EXCEPT ![c].seen = m.id]
         /\ alarms' = IF m.id # client[c].seen /\ RollbackDetects(c, m)
                      THEN [alarms EXCEPT ![c] = @ + 1] ELSE alarms
         /\ UNCHANGED losses

\* sendMail gets its answer.
SendMailReturns(c) ==
    /\ call[c].pc = "answered"
    /\ IF call[c].answer = NoMail THEN UNCHANGED <<client, alarms, losses>>
                                  ELSE ProcessMail(c, call[c].answer)
    /\ call' = [call EXCEPT ![c] = IdleCall]
    /\ UNCHANGED <<enclaveVars, hostVars, saved, requests, posted, lineages, processed, boundVars>>

\* The connection fails: the mail may have been received, or may still be.
Timeout(c) ==
    /\ Lossy
    /\ call[c].pc \in {"sending", "waiting", "answered"}
    /\ losses' = [losses EXCEPT ![c] = @ + IF call[c].answer = NoMail THEN 0 ELSE 1]
    /\ call' = MoveCall(c, GiveUp)
    /\ UNCHANGED <<enclaveVars, hostVars, client, saved, alarms, requests, posted, lineages,
                   processed, boundVars>>

\* pollMail of the client and of the host service; the answer may get lost.
PollMail(c, lost) ==
    /\ call[c].pc = "idle"
    /\ inbox[c] # <<>>
    /\ inbox' = [inbox EXCEPT ![c] = Tail(@)]
    /\ IF lost THEN Lossy /\ losses' = [losses EXCEPT ![c] = @ + 1] /\ UNCHANGED <<client, alarms>>
               ELSE ProcessMail(c, Head(inbox[c]))
    /\ UNCHANGED <<enclaveVars, receive, leaked, stored, sealed, saved, call, requests, posted,
                   lineages, processed, boundVars>>

Save(c) ==
    /\ call[c].pc = "idle"
    /\ MaxRestores > 0
    /\ saved' = [saved EXCEPT ![c] = client[c]]
    /\ UNCHANGED <<enclaveVars, hostVars, client, call, alarms, losses, requests, posted,
                   lineages, processed, boundVars>>

\* The client stops at any time, is restored from what it saved, and is started again.
Restore(c) ==
    /\ restores < MaxRestores
    /\ restores' = restores + 1
    /\ client' = [client EXCEPT ![c] =
            [key |-> epoch, seq |-> IF saved[c].key = epoch THEN saved[c].seq ELSE 0,
             seen |-> saved[c].seen]]
    /\ call' = [call EXCEPT ![c] = IdleCall]
    /\ losses' = [losses EXCEPT ![c] =
            @ + IF saved[c].seen # client[c].seen \/ call[c].answer # NoMail THEN 1 ELSE 0]
    /\ UNCHANGED <<enclaveVars, hostVars, saved, alarms, requests, posted, lineages, processed,
                   sends, hostCalls>>

-----------------------------------------------------------------------------
(***************************************************************************)
(* The enclave, called by the host.                                        *)
(***************************************************************************)
\* An honest host delivers a request once.
Taken(q) == requests' = IF Honest THEN requests \ {q} ELSE requests

\* The call of the client that waits for q, if it still does, goes on to pc.
Advance(q, pc) == call' = IF Awaits(q, "sending") THEN MoveCall(q.from, pc) ELSE call

\* onMail cannot decrypt the mail, which is for another session key.
RefuseMail(q) ==
    /\ q.key # epoch
    /\ Taken(q)
    /\ Advance(q, "refused")
    /\ UNCHANGED <<enclaveVars, hostVars, client, saved, alarms, losses, posted, lineages,
                   processed, boundVars>>

\* checkMailOrdering throws.
RejectMail(q) ==
    /\ q.key = epoch
    /\ ~receive.busy
    /\ q.seq # watermark[q.from] + 1
    /\ Taken(q)
    /\ Advance(q, GiveUp)
    /\ UNCHANGED <<enclaveVars, hostVars, client, saved, alarms, losses, posted, lineages,
                   processed, boundVars>>

\* executeReceive on host thread h, posting mail to out.  It may throw after posting, or
\* sendSealedState may throw (the map is too large) after it has updated lastSeenStateIds;
\* the map keeps the changes that were made to it and the thread its mail commands.
ExecuteReceive(h, q, out) ==
    LET id    == Len(lineages) + 1
        mails == [i \in DOMAIN out |->
                    [to |-> out[i], key |-> epoch, id |-> id, prev |-> memory.lastSeen[out[i]]]]
        after == [lastSeen |-> LastSeenUpdated(out, id), effects |-> memory.effects \cup {id}]
    IN  /\ lineages' = Append(lineages, memory.effects)
        /\ posted' = posted \cup {mails[i] : i \in DOMAIN mails}
        /\ \/ /\ memory' = after
              /\ receive' = [request |-> q, mails |-> leaked[h] \o mails, response |-> NoMail,
                             busy |-> TRUE]
              /\ leaked' = [leaked EXCEPT ![h] = <<>>]
              /\ Advance(q, "waiting")
           \/ /\ Failing
              /\ memory' \in {after, [memory EXCEPT !.effects = after.effects]}
              /\ leaked' = [leaked EXCEPT ![h] = @ \o mails]
              /\ Advance(q, GiveUp)
              /\ UNCHANGED receive

\* deliverMail.
ReceiveMail(h, q, out) ==
    /\ q.key = epoch
    /\ ~receive.busy
    /\ q.seq = watermark[q.from] + 1
    /\ Taken(q)
    /\ watermark' = [watermark EXCEPT ![q.from] = @ + 1]
    /\ processed' = Append(processed, q)
    /\ ExecuteReceive(h, q, out)
    /\ UNCHANGED <<epoch, inbox, stored, sealed, client, saved, alarms, losses, boundVars>>

\* callEnclave.
ReceiveFromUntrustedHost(h, out) ==
    /\ hostCalls < MaxHostCalls
    /\ ~receive.busy
    /\ hostCalls' = hostCalls + 1
    /\ ExecuteReceive(h, NoRequest, out)
    /\ UNCHANGED <<epoch, watermark, inbox, stored, sealed, client, saved, alarms, losses,
                   requests, processed, sends, restores>>

-----------------------------------------------------------------------------
(***************************************************************************)
(* The host: EnclaveHostService and the commands callback.                 *)
(***************************************************************************)
\* processPostMail: the first mail to the sender is the answer to its request.
ProcessPostMail ==
    /\ receive.busy /\ receive.mails # <<>>
    /\ LET m == Head(receive.mails)
           answers == m.to = receive.request.from /\ receive.response = NoMail
       IN  /\ receive' = [receive EXCEPT !.mails = Tail(@),
                                         !.response = IF answers THEN m ELSE @]
           /\ inbox' = IF answers THEN inbox ELSE [inbox EXCEPT ![m.to] = Append(@, m)]
    /\ UNCHANGED <<enclaveVars, leaked, stored, sealed, clientVars, requests, posted, lineages,
                   processed, boundVars>>

\* The sealed state, the last of the commands, is stored; then deliverMail returns.
DeliverMailReturns ==
    /\ receive.busy /\ receive.mails = <<>>
    /\ stored' = StoreSealedState
    /\ sealed' = sealed \cup {memory}
    /\ receive' = NoReceive
    /\ LET q == receive.request
           awaited == Awaits(q, "waiting")
       IN  /\ call' = IF awaited
                      THEN [call EXCEPT ![q.from].pc = "answered", ![q.from].answer = receive.response]
                      ELSE call
           /\ losses' = IF awaited \/ receive.response = NoMail THEN losses
                        ELSE [losses EXCEPT ![q.from] = @ + 1]
    /\ UNCHANGED <<enclaveVars, leaked, inbox, client, saved, alarms, requests, posted, lineages,
                   processed, boundVars>>

\* The host process ends at any time and starts the enclave with a sealed state: what was
\* in memory on either side is lost, and who waits for an answer gets an IOException.
Restart(s) ==
    /\ epoch <= MaxRestarts
    /\ epoch' = SessionKey
    /\ watermark' = [c \in Clients |-> -1]
    /\ memory' = s
    /\ receive' = NoReceive
    /\ leaked' = [h \in HostThreads |-> <<>>]
    /\ inbox' = [c \in Clients |-> <<>>]
    /\ losses' = [c \in Clients |-> losses[c] + IF inbox[c] = <<>> THEN 0 ELSE 1]
    /\ call' = [c \in Clients |-> IF call[c].pc = "waiting" THEN IdleCall ELSE call[c]]
    /\ UNCHANGED <<stored, sealed, client, saved, alarms, requests, posted, lineages, processed,
                   boundVars>>

-----------------------------------------------------------------------------
(***************************************************************************)
(* A host that is not trusted answers with any mail it has for a client    *)
(* and refuses any request.                                                *)
(***************************************************************************)
UntrustedAnswer(c, m) ==
    /\ call[c].pc \in {"sending", "waiting"}
    /\ call' = [call EXCEPT ![c].pc = "answered", ![c].answer = m]
    /\ UNCHANGED <<enclaveVars, hostVars, client, saved, alarms, losses, requests, posted,
                   lineages, processed, boundVars>>

UntrustedPoll(c, m) ==
    /\ call[c].pc = "idle"
    /\ alarms[c] + losses[c] < MaxAlarms
    /\ ProcessMail(c, m)
    /\ UNCHANGED <<enclaveVars, hostVars, saved, call, requests, posted, lineages, processed, boundVars>>

UntrustedRefusal(c) ==
    /\ call[c].pc = "sending"
    /\ call' = [call EXCEPT ![c].pc = "refused"]
    /\ UNCHANGED <<enclaveVars, hostVars, client, saved, alarms, losses, requests, posted,
                   lineages, processed, boundVars>>

UntrustedHost ==
    \/ \E s \in sealed : Restart(s)
    \/ \E c \in Clients, m \in posted : m.to = c /\ (UntrustedAnswer(c, m) \/ UntrustedPoll(c, m))
    \/ \E c \in Clients : UntrustedRefusal(c)

-----------------------------------------------------------------------------
ClientStep(c) ==
    \/ SendMail(c)
    \/ RetryMail(c)
    \/ SendMailReturns(c)
    \/ Timeout(c)
    \/ \E lost \in BOOLEAN : PollMail(c, lost)
    \/ Save(c)
    \/ Restore(c)

HostStep ==
    \/ \E q \in requests : RefuseMail(q)
    \/ \E q \in requests : RejectMail(q)
    \/ \E h \in HostThreads, q \in requests : \E out \in Outbound(q.from) : ReceiveMail(h, q, out)
    \/ AsyncMail /\ \E h \in HostThreads : \E out \in Outbound(NoClient) : ReceiveFromUntrustedHost(h, out)
    \/ ProcessPostMail
    \/ DeliverMailReturns
    \/ Restart(stored)

\* No call is in progress; nobody has to make another one.
Idle ==
    /\ ~receive.busy
    /\ \A c \in Clients : call[c].pc = "idle"
    /\ UNCHANGED vars

Next ==
    \/ \E c \in Clients : ClientStep(c)
    \/ HostStep
    \/ ~Honest /\ UntrustedHost
    \/ Idle

Spec == Init /\ [][Next]_vars

-----------------------------------------------------------------------------
EnclaveTypes ==
    /\ epoch \in Nat
    /\ watermark \in [Clients -> Int]
    /\ memory \in States
    /\ lineages \in Seq(SUBSET Nat)
    /\ processed \in Seq(Requests)

HostTypes ==
    /\ receive \in [request : Requests \cup {NoRequest}, mails : Seq(Mails),
                    response : Mails \cup {NoMail}, busy : BOOLEAN]
    /\ leaked \in [HostThreads -> Seq(Mails)]
    /\ inbox \in [Clients -> Seq(Mails)]
    /\ stored \in States
    /\ sealed \subseteq States
    /\ posted \subseteq Mails
    /\ requests \subseteq Requests

ClientTypes ==
    /\ client \in [Clients -> [key : Nat, seq : Nat, seen : Nat]]
    /\ saved \in [Clients -> [key : Nat, seq : Nat, seen : Nat]]
    /\ call \in [Clients -> [pc : {"idle", "sending", "waiting", "answered", "refused"},
                             request : Requests \cup {NoRequest},
                             answer : Mails \cup {NoMail}, attempts : Nat]]
    /\ alarms \in [Clients -> Nat]
    /\ losses \in [Clients -> Nat]
    /\ sends \in [Clients -> Nat]
    /\ hostCalls \in Nat
    /\ restores \in Nat

\* Every variable has its type, through all restarts of the enclave and of the clients.
MailTypeOK == EnclaveTypes /\ HostTypes /\ ClientTypes

\* Whatever the host does with sealed states and mail, a client that goes on from one state
\* ID to another without an EnclaveRollbackException has not been rolled back: the state the
\* new ID stands for includes the receive the client had last seen (EnclaveClient.processMail,
\* Enclave.getMailPrivateHeader and sendSealedState).
RollbackDetected ==
    [][\A c \in Clients :
          /\ client'[c].seen # client[c].seen
          /\ alarms'[c] = alarms[c]
          /\ restores' = restores
          => client[c].seen = 0 \/ client[c].seen \in lineages'[client'[c].seen]]_vars

\* A client raises the alarm at most once for each time it missed mail of the enclave or lost
\* its own state ("Possible dropped mail or enclave state rollback", EnclaveClient.processMail).
AlarmsJustified ==
    Honest => \A c \in Clients : alarms[c] <= losses[c]

\* No client knows of a state that an honest host would lose in a restart ("actioned
\* together, ideally within the scope single transaction", EnclaveHost.start).
StateStoredBeforeSeen ==
    Honest => \A c \in Clients : client[c].seen = 0 \/ client[c].seen \in stored.effects

\* The enclave never receives the same encrypted mail twice, also not when the host delivers
\* it again after a restart (initCryptography, SequenceWatermark).
NoReplay ==
    \A i, j \in DOMAIN processed : processed[i] = processed[j] => i = j

\* A message is received at most once, also when the client sends it again with a new key
\* (EnclaveClient.sendMail).
AtMostOnce ==
    Honest => \A i, j \in DOMAIN processed :
        processed[i].from = processed[j].from /\ processed[i].n = processed[j].n => i = j

\* As long as no request gets lost, a client is never ahead of the enclave's watermark: being
\* ahead, it could not send mail until the enclave restarts (SequenceWatermark.checkOrdering).
NeverAhead ==
    Honest /\ ~Lossy => \A c \in Clients :
        call[c].pc = "idle" /\ client[c].key = epoch => client[c].seq <= watermark[c] + 1
=============================================================================

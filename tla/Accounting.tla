----------------------------- MODULE Accounting -----------------------------
(***************************************************************************)
(* RADIUS accounting (src/src/auth/acct_bridge.rs and accounting.rs): the  *)
(* bounded queue sessions submit records to, one task per record that      *)
(* tries the servers in turn, the identifier slots the tasks share, and    *)
(* the reader that hands a reply to the slot's waiter through a oneshot.   *)
(*                                                                         *)
(* The auth runtime has several threads: tasks and reader interleave       *)
(* between the points where they take the slots' lock.  The network loses, *)
(* delays and repeats datagrams.  A request's authenticator is a digest of *)
(* its content, which Acct-Delay-Time makes different for every attempt:   *)
(* it is modelled by the record and the attempt.  Timeouts need no clock.  *)
(***************************************************************************)
EXTENDS Naturals, Sequences

CONSTANTS
    Record, NoRecord,   \* accounting records; no record
    NumServers,         \* --acct servers, tried in order
    NumIds,             \* identifiers per server (256)
    MAX_ATTEMPTS,       \* AcctRetry.max_attempts
    QUEUE_DEPTH         \* acct_bridge.rs

ASSUME AccountingAssumption ==
    /\ NoRecord \notin Record
    /\ NumServers \in Nat \ {0} /\ NumIds \in Nat \ {0}
    /\ MAX_ATTEMPTS \in Nat \ {0} /\ QUEUE_DEPTH \in Nat \ {0}

VARIABLES
    queue,      \* the dispatcher's channel
    pc,         \* where each record is
    server,     \* the server its task is trying
    ident,      \* the identifier its exchange uses
    attempt,    \* the attempt it is at
    oneshot,    \* the exchange's reply channel: "Empty", "Filled" or "Closed"
    reply,      \* the datagram in it
    next_id, inflight,  \* PeerState of each server
    answered    \* requests the servers have recorded and answered (external)

tasks == <<server, ident, attempt>>
vars == <<queue, pc, tasks, oneshot, reply, next_id, inflight, answered>>

Server == 1..NumServers
Id == 0..(NumIds - 1)

\* build: what identifies an Accounting-Request, and the response to it.
Packet == [to : Server, id : Id, rec : Record, attempt : 1..MAX_ATTEMPTS]
NoPacket == [to |-> 0, id |-> 0, rec |-> NoRecord, attempt |-> 0]

build(r) == [to |-> server[r], id |-> ident[r], rec |-> r, attempt |-> attempt[r]]

\* Mutant: a reply is taken for good by its identifier alone.
verify_identifier_only(r, datagram) == datagram.id = ident[r]

\* verify: the response's authenticator is made from that of the last request sent.
verify(r, datagram) == datagram = build(r)

Init ==
    /\ queue = <<>> /\ pc = [r \in Record |-> "Idle"]
    /\ server = [r \in Record |-> 1] /\ ident = [r \in Record |-> 0] /\ attempt = [r \in Record |-> 1]
    /\ oneshot = [r \in Record |-> "Empty"] /\ reply = [r \in Record |-> NoPacket]
    /\ next_id = [s \in Server |-> 0] /\ inflight = [s \in Server |-> [i \in Id |-> NoRecord]]
    /\ answered = {}

-----------------------------------------------------------------------------
(* The bridge.                                                             *)

\* AcctBridge::submit: a full queue drops the record.
submit(r) ==
    /\ pc[r] = "Idle"
    /\ \/ /\ Len(queue) < QUEUE_DEPTH
          /\ queue' = Append(queue, r) /\ pc' = [pc EXCEPT ![r] = "Queued"]
       \/ /\ Len(queue) >= QUEUE_DEPTH
          /\ pc' = [pc EXCEPT ![r] = "Dropped"] /\ UNCHANGED queue
    /\ UNCHANGED <<tasks, oneshot, reply, next_id, inflight, answered>>

\* The dispatcher spawns run_one for the oldest record.
dispatch ==
    /\ queue # <<>>
    /\ queue' = Tail(queue) /\ pc' = [pc EXCEPT ![Head(queue)] = "Next"]
    /\ UNCHANGED <<tasks, oneshot, reply, next_id, inflight, answered>>

\* run_one after a server that failed: the next one, or the record is dropped.
NextServer(r) ==
    IF server[r] < NumServers
    THEN pc' = [pc EXCEPT ![r] = "Next"] /\ server' = [server EXCEPT ![r] = @ + 1]
    ELSE pc' = [pc EXCEPT ![r] = "Dropped"] /\ UNCHANGED server

-----------------------------------------------------------------------------
(* AcctClient::send.                                                       *)

\* PeerState::allocate scans from next_id; i is the first free identifier it meets.
FirstFree(s, i) ==
    /\ inflight[s][i] = NoRecord
    /\ \A j \in Id : inflight[s][j] = NoRecord
                     => (i + NumIds - next_id[s]) % NumIds <= (j + NumIds - next_id[s]) % NumIds

\* A slot for the exchange, with the sender of a fresh oneshot in it.
allocate(r) ==
    /\ pc[r] = "Next"
    /\ \E i \in Id :
          /\ FirstFree(server[r], i)
          /\ inflight' = [inflight EXCEPT ![server[r]][i] = r]
          /\ next_id' = [next_id EXCEPT ![server[r]] = (i + 1) % NumIds]
          /\ ident' = [ident EXCEPT ![r] = i]
    /\ pc' = [pc EXCEPT ![r] = "Send"] /\ attempt' = [attempt EXCEPT ![r] = 1]
    /\ oneshot' = [oneshot EXCEPT ![r] = "Empty"] /\ reply' = [reply EXCEPT ![r] = NoPacket]
    /\ UNCHANGED <<queue, server, answered>>

\* IdentifierExhausted.
exhausted(r) ==
    /\ pc[r] = "Next" /\ \A i \in Id : inflight[server[r]][i] # NoRecord
    /\ NextServer(r)
    /\ UNCHANGED <<queue, ident, attempt, oneshot, reply, next_id, inflight, answered>>

\* send_to: the request reaches its server, which records and answers it; or it is lost; or
\* the socket refuses it.
transmit(r) ==
    /\ pc[r] = "Send"
    /\ \/ answered' = answered \cup {build(r)} /\ pc' = [pc EXCEPT ![r] = "Wait"]
       \/ pc' = [pc EXCEPT ![r] = "Wait"] /\ UNCHANGED answered
       \/ pc' = [pc EXCEPT ![r] = "Failed"] /\ UNCHANGED answered
    /\ UNCHANGED <<queue, tasks, oneshot, reply, next_id, inflight>>

\* The oneshot resolves: a datagram to verify, or Cancelled when its sender was dropped.
receive(r) ==
    /\ pc[r] = "Wait" /\ oneshot[r] # "Empty"
    /\ pc' = [pc EXCEPT ![r] = IF oneshot[r] = "Filled" /\ verify(r, reply[r]) THEN "Verified" ELSE "Failed"]
    /\ UNCHANGED <<queue, tasks, oneshot, reply, next_id, inflight, answered>>

\* Mutant: the attempts are not counted.
timeout_uncounted(r) ==
    /\ pc[r] = "Wait" /\ oneshot[r] = "Empty"
    /\ pc' = [pc EXCEPT ![r] = "Send"]
    /\ UNCHANGED <<queue, tasks, oneshot, reply, next_id, inflight, answered>>

\* Mutant: the slot is given back before the request is sent again.
timeout_frees_slot(r) ==
    /\ pc[r] = "Wait" /\ oneshot[r] = "Empty" /\ attempt[r] < MAX_ATTEMPTS
    /\ pc' = [pc EXCEPT ![r] = "Send"] /\ attempt' = [attempt EXCEPT ![r] = @ + 1]
    /\ inflight' = [inflight EXCEPT ![server[r]][ident[r]] = NoRecord]
    /\ UNCHANGED <<queue, server, ident, oneshot, reply, next_id, answered>>

\* The wait is over without a reply: another attempt with a rebuilt request, or Timeout.
timeout(r) ==
    /\ pc[r] = "Wait" /\ oneshot[r] = "Empty"
    /\ \/ /\ attempt[r] < MAX_ATTEMPTS
          /\ pc' = [pc EXCEPT ![r] = "Send"] /\ attempt' = [attempt EXCEPT ![r] = @ + 1]
       \/ attempt[r] = MAX_ATTEMPTS /\ pc' = [pc EXCEPT ![r] = "Failed"] /\ UNCHANGED attempt
    /\ UNCHANGED <<queue, server, ident, oneshot, reply, next_id, inflight, answered>>

\* Mutant: only an exchange that succeeded gives its slot back.
reclaim_on_success(r) ==
    /\ pc[r] \in {"Verified", "Failed"}
    /\ inflight' = IF pc[r] = "Verified" THEN [inflight EXCEPT ![server[r]][ident[r]] = NoRecord] ELSE inflight
    /\ \/ pc[r] = "Verified" /\ pc' = [pc EXCEPT ![r] = "Acked"] /\ UNCHANGED server
       \/ pc[r] = "Failed" /\ NextServer(r)
    /\ UNCHANGED <<queue, ident, attempt, oneshot, reply, next_id, answered>>

\* "Reclaim slot regardless of outcome": whatever sender the slot holds is dropped.
reclaim(r) ==
    /\ pc[r] \in {"Verified", "Failed"}
    /\ LET holder == inflight[server[r]][ident[r]]
       IN  oneshot' = [q \in Record |-> IF q = r THEN "Empty" ELSE IF q = holder THEN "Closed" ELSE oneshot[q]]
    /\ inflight' = [inflight EXCEPT ![server[r]][ident[r]] = NoRecord]
    /\ ident' = [ident EXCEPT ![r] = 0] /\ attempt' = [attempt EXCEPT ![r] = 1]
    /\ reply' = [reply EXCEPT ![r] = NoPacket]
    /\ \/ pc[r] = "Verified" /\ pc' = [pc EXCEPT ![r] = "Acked"] /\ UNCHANGED server
       \/ pc[r] = "Failed" /\ NextServer(r)
    /\ UNCHANGED <<queue, next_id, answered>>

-----------------------------------------------------------------------------
(* The reader.                                                             *)

\* reader_loop: the slot is emptied and its waiter, if it still listens, gets the datagram.  A
\* response may come at any time, again, or never: the reader may also have ended on an error.
reader_loop(p) ==
    /\ inflight[p.to][p.id] # NoRecord
    /\ LET r == inflight[p.to][p.id]
       IN  IF pc[r] \in {"Send", "Wait"}
           THEN /\ oneshot' = [oneshot EXCEPT ![r] = "Filled"]
                /\ reply' = [reply EXCEPT ![r] = p]
           ELSE UNCHANGED <<oneshot, reply>>
    /\ inflight' = [inflight EXCEPT ![p.to][p.id] = NoRecord]
    /\ UNCHANGED <<queue, pc, tasks, next_id, answered>>

Settled(r) == pc[r] \in {"Acked", "Dropped"}

Quiescent == (\A r \in Record : Settled(r)) /\ UNCHANGED vars

Next ==
    \/ dispatch \/ Quiescent
    \/ \E r \in Record : \/ submit(r) \/ allocate(r) \/ exhausted(r) \/ transmit(r) \/ receive(r)
                         \/ timeout(r) \/ reclaim(r)
    \/ \E p \in answered : reader_loop(p)

\* Tasks run and timers fire.  No server owes an answer, and no session a record.
Fairness ==
    /\ WF_vars(dispatch)
    /\ \A r \in Record : WF_vars(allocate(r) \/ exhausted(r) \/ transmit(r) \/ receive(r)
                                 \/ timeout(r) \/ reclaim(r))

Spec == Init /\ [][Next]_vars /\ Fairness

-----------------------------------------------------------------------------
(* Properties                                                              *)

\* The variables keep their types: identifiers stay within their width, attempts within the
\* retry budget of send_inner, and the queue within QUEUE_DEPTH.
TypeOK ==
    /\ queue \in Seq(Record) /\ Len(queue) <= QUEUE_DEPTH
    /\ pc \in [Record -> {"Idle", "Queued", "Next", "Send", "Wait", "Verified", "Failed", "Acked", "Dropped"}]
    /\ server \in [Record -> Server] /\ ident \in [Record -> Id]
    /\ attempt \in [Record -> 1..MAX_ATTEMPTS]
    /\ oneshot \in [Record -> {"Empty", "Filled", "Closed"}]
    /\ reply \in [Record -> Packet \cup {NoPacket}]
    /\ next_id \in [Server -> Id] /\ inflight \in [Server -> [Id -> Record \cup {NoRecord}]]
    /\ answered \subseteq Packet

\* A record run_one reports as acknowledged was recorded by the server it names, although
\* identifiers are reused and late replies to other records and other attempts arrive.
NoFalseAck ==
    \A r \in Record : pc[r] = "Acked" => \E p \in answered : p.to = server[r] /\ p.rec = r

InExchange(r) == pc[r] \in {"Send", "Wait", "Verified", "Failed"}

\* An identifier is taken only while its record's exchange runs: failures, timeouts and
\* failover never leak one of the 256 slots of AcctClient::send.
SlotsReclaimed ==
    \A s \in Server, i \in Id :
        LET r == inflight[s][i]
        IN  r # NoRecord => InExchange(r) /\ server[r] = s /\ ident[r] = i

\* A record that waits for a reply can be given one: the slot of the identifier it sent holds
\* its sender until the reader or another exchange's reclaim has resolved its oneshot.
WaiterReachable ==
    \A r \in Record : pc[r] \in {"Send", "Wait"} /\ oneshot[r] = "Empty"
                      => inflight[server[r]][ident[r]] = r

\* Every record the queue accepted is acknowledged or given up, with every server silent or
\* the reader gone: run_one ends.
EveryRecordSettles == \A r \in Record : pc[r] = "Queued" ~> Settled(r)

\* accounting.rs: retry "is independent per (server_addr, identifier) correlation slot".  No
\* exchange that waits for its reply has its channel closed by the reclaim of another one.
SlotsIndependent == \A r \in Record : pc[r] = "Wait" => oneshot[r] # "Closed"
=============================================================================

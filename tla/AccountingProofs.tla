-------------------------- MODULE AccountingProofs --------------------------
(***************************************************************************)
(* Proofs about Accounting, for any records, servers, identifier width and *)
(* retry budget.  The inductive invariant adds to the slots' discipline    *)
(* that a filled oneshot holds a response some server really sent, and     *)
(* that the queue holds each record once.                                  *)
(***************************************************************************)
EXTENDS Accounting, TLAPS

\* A record waits in the queue once, and only while it is Queued.
QueueOK ==
    /\ \A i \in 1..Len(queue) : pc[queue[i]] = "Queued"
    /\ \A i, j \in 1..Len(queue) : queue[i] = queue[j] => i = j

\* What the reader handed over was answered; what was verified was recorded.
RepliesOK ==
    \A r \in Record :
        /\ oneshot[r] = "Filled" => reply[r] \in answered
        /\ pc[r] \in {"Verified", "Acked"} => \E p \in answered : p.to = server[r] /\ p.rec = r

IInv == TypeOK /\ QueueOK /\ RepliesOK /\ SlotsReclaimed /\ WaiterReachable

\* The identifier after the last one wraps to the first (PeerState::allocate).
LEMMA IdWraps ==
    ASSUME NEW i \in Id PROVE (i + 1) % NumIds \in Id
  BY AccountingAssumption DEF Id

\* A task's request is a packet.
LEMMA BuildType ==
    ASSUME TypeOK, NEW r \in Record
    PROVE  /\ build(r) \in Packet
           /\ build(r).to = server[r] /\ build(r).rec = r
  BY DEF TypeOK, build, Packet

\* The first waiting record, and the queue without it.
LEMMA QueuePop ==
    ASSUME NEW q \in Seq(Record), q # <<>>
    PROVE  /\ Head(q) \in Record /\ Head(q) = q[1] /\ Tail(q) \in Seq(Record)
           /\ Len(q) \in Nat /\ Len(q) >= 1 /\ Len(Tail(q)) = Len(q) - 1
           /\ \A i \in 1..Len(Tail(q)) : Tail(q)[i] = q[i + 1]
  <1>1. Len(q) \in Nat /\ Len(q) >= 1
    OBVIOUS
  <1>2. Head(q) \in Record /\ Tail(q) \in Seq(Record) /\ Len(Tail(q)) = Len(q) - 1
        /\ \A i \in 1..Len(Tail(q)) : Tail(q)[i] = q[i + 1]
    OBVIOUS
  <1>3. Head(q) = q[1]
    BY <1>1
  <1> QED BY <1>1, <1>2, <1>3

\* The queue with one more record.
LEMMA QueuePush ==
    ASSUME NEW q \in Seq(Record), NEW r \in Record
    PROVE  /\ Append(q, r) \in Seq(Record) /\ Len(Append(q, r)) = Len(q) + 1 /\ Len(q) \in Nat
           /\ \A i \in 1..Len(q) : Append(q, r)[i] = q[i]
           /\ Append(q, r)[Len(q) + 1] = r
  OBVIOUS

Pc == {"Idle", "Queued", "Next", "Send", "Wait", "Verified", "Failed", "Acked", "Dropped"}

\* One slot of the table is written.
LEMMA SlotSet ==
    ASSUME NEW f \in [Server -> [Id -> Record \cup {NoRecord}]], NEW s0 \in Server, NEW i0 \in Id,
           NEW v \in Record \cup {NoRecord}
    PROVE  /\ [f EXCEPT ![s0][i0] = v] \in [Server -> [Id -> Record \cup {NoRecord}]]
           /\ \A s \in Server, i \in Id :
                 [f EXCEPT ![s0][i0] = v][s][i] = IF s = s0 /\ i = i0 THEN v ELSE f[s][i]
  OBVIOUS

\* The task goes on with the next configured server, or gives the record up.
LEMMA NextServerEffect ==
    ASSUME TypeOK, NEW r \in Record, NextServer(r)
    PROVE  /\ pc' \in [Record -> Pc] /\ server' \in [Record -> Server] /\ pc'[r] \in {"Next", "Dropped"}
           /\ \A q \in Record \ {r} : pc'[q] = pc[q] /\ server'[q] = server[q]
  <1>1. pc \in [Record -> Pc] /\ server \in [Record -> Server]
    BY DEF TypeOK, Pc
  <1>2. CASE server[r] < NumServers
    <2>1. pc' = [pc EXCEPT ![r] = "Next"] /\ server' = [server EXCEPT ![r] = server[r] + 1]
      BY <1>2 DEF NextServer
    <2>2. server[r] + 1 \in Server
      BY <1>1, <1>2, AccountingAssumption DEF Server
    <2> QED BY <1>1, <2>1, <2>2 DEF Pc
  <1>3. CASE ~(server[r] < NumServers)
    <2>1. pc' = [pc EXCEPT ![r] = "Dropped"] /\ server' = server
      BY <1>3 DEF NextServer
    <2> QED BY <1>1, <2>1 DEF Pc
  <1> QED BY <1>2, <1>3

\* A step that touches no waiting record leaves the queue in order.
LEMMA QueueUntouched ==
    ASSUME TypeOK, QueueOK, NEW r \in Record, pc[r] # "Queued", queue' = queue,
           \A q \in Record \ {r} : pc'[q] = pc[q]
    PROVE  QueueOK'
  <1>1. \A i \in 1..Len(queue) : queue[i] \in Record
    BY DEF TypeOK
  <1>2. \A i \in 1..Len(queue) : queue[i] # r
    BY DEF QueueOK
  <1> QED BY <1>1, <1>2 DEF QueueOK

\* A step that moves one record within, or outside, its exchange leaves the slots in order.
LEMMA SlotsUntouched ==
    ASSUME TypeOK, SlotsReclaimed, WaiterReachable, NEW r \in Record,
           \A q \in Record \ {r} : pc'[q] = pc[q] /\ server'[q] = server[q],
           InExchange(r) => InExchange(r)' /\ server'[r] = server[r],
           pc'[r] \in {"Send", "Wait"} => pc[r] \in {"Send", "Wait"},
           UNCHANGED <<ident, oneshot, inflight>>
    PROVE  SlotsReclaimed' /\ WaiterReachable'
  <1>1. SlotsReclaimed'
    <2> SUFFICES ASSUME NEW s \in Server, NEW i \in Id, inflight[s][i] # NoRecord
                 PROVE  /\ InExchange(inflight[s][i])'
                        /\ server'[inflight[s][i]] = s /\ ident[inflight[s][i]] = i
      BY DEF SlotsReclaimed
    <2>1. inflight[s][i] \in Record
      BY DEF TypeOK
    <2>2. InExchange(inflight[s][i]) /\ server[inflight[s][i]] = s /\ ident[inflight[s][i]] = i
      BY DEF SlotsReclaimed
    <2>3. CASE inflight[s][i] = r
      BY <2>2, <2>3
    <2>4. CASE inflight[s][i] # r
      BY <2>1, <2>2, <2>4 DEF InExchange
    <2> QED BY <2>3, <2>4
  <1>2. WaiterReachable'
    <2> SUFFICES ASSUME NEW q \in Record, pc'[q] \in {"Send", "Wait"}, oneshot[q] = "Empty"
                 PROVE  inflight[server'[q]][ident[q]] = q
      BY DEF WaiterReachable
    <2>1. pc[q] \in {"Send", "Wait"} /\ server'[q] = server[q]
      BY DEF InExchange
    <2> QED BY <2>1 DEF WaiterReachable
  <1> QED BY <1>1, <1>2

\* Every initial state satisfies the invariant.
LEMMA InitEstablishes == Init => IInv
  <1> SUFFICES ASSUME Init PROVE IInv
    OBVIOUS
  <1> USE AccountingAssumption DEF Init
  <1>1. TypeOK
    BY DEF TypeOK, Server, Id, Packet
  <1>2. QueueOK
    BY DEF QueueOK
  <1>3. RepliesOK /\ SlotsReclaimed /\ WaiterReachable
    BY DEF RepliesOK, SlotsReclaimed, WaiterReachable
  <1> QED BY <1>1, <1>2, <1>3 DEF IInv

\* Every step keeps the invariant.
LEMMA NextKeeps == IInv /\ [Next]_vars => IInv'
  <1> SUFFICES ASSUME IInv, [Next]_vars PROVE IInv'
    OBVIOUS
  <1> USE AccountingAssumption
  <1>t. TypeOK /\ QueueOK /\ RepliesOK /\ SlotsReclaimed /\ WaiterReachable
    BY DEF IInv
  <1>u. /\ pc \in [Record -> Pc] /\ server \in [Record -> Server] /\ ident \in [Record -> Id]
        /\ oneshot \in [Record -> {"Empty", "Filled", "Closed"}]
        /\ attempt \in [Record -> 1..MAX_ATTEMPTS] /\ reply \in [Record -> Packet \cup {NoPacket}]
        /\ inflight \in [Server -> [Id -> Record \cup {NoRecord}]]
    BY <1>t DEF TypeOK, Pc
  <1>1. ASSUME NEW r \in Record, submit(r) PROVE IInv'
    <2>1. PICK y \in {"Queued", "Dropped"} : pc' = [pc EXCEPT ![r] = y]
      BY <1>1 DEF submit
    <2>2. pc[r] = "Idle" /\ UNCHANGED <<server, ident, attempt, oneshot, reply, next_id, inflight, answered>>
      BY <1>1 DEF submit, tasks
    <2>3. pc' \in [Record -> Pc] /\ pc'[r] = y /\ \A q \in Record \ {r} : pc'[q] = pc[q]
      BY <1>u, <2>1 DEF Pc
    <2>4. ASSUME Len(queue) < QUEUE_DEPTH, queue' = Append(queue, r), pc' = [pc EXCEPT ![r] = "Queued"]
          PROVE  TypeOK' /\ QueueOK'
      <3>1. queue \in Seq(Record)
        BY <1>t DEF TypeOK
      <3>2. \A i \in 1..Len(queue) : queue[i] \in Record /\ queue[i] # r
        BY <1>t, <2>2, <3>1 DEF QueueOK
      <3>3. TypeOK'
        BY <1>t, <2>2, <2>3, <2>4, <3>1, QueuePush DEF TypeOK, Pc
      <3>4. pc'[r] = "Queued"
        BY <1>u, <2>4
      <3>5. Len(queue') = Len(queue) + 1 /\ Len(queue) \in Nat /\ queue'[Len(queue) + 1] = r
            /\ \A i \in 1..Len(queue) : queue'[i] = queue[i]
        BY <2>4, <3>1, QueuePush
      <3>6. QueueOK'
        BY <1>t, <2>3, <3>2, <3>4, <3>5 DEF QueueOK
      <3> QED BY <3>3, <3>6
    <2>5. ASSUME queue' = queue, pc' = [pc EXCEPT ![r] = "Dropped"]
          PROVE  TypeOK' /\ QueueOK'
      <3>1. TypeOK'
        BY <1>t, <2>2, <2>3, <2>5 DEF TypeOK, Pc
      <3>2. QueueOK'
        BY <1>t, <2>2, <2>3, <2>5, QueueUntouched
      <3> QED BY <3>1, <3>2
    <2>6. TypeOK' /\ QueueOK'
      BY <1>1, <2>4, <2>5 DEF submit
    <2>7. SlotsReclaimed' /\ WaiterReachable'
      BY <1>t, <2>2, <2>3, SlotsUntouched DEF InExchange
    <2>8. RepliesOK'
      BY <1>t, <2>2, <2>3 DEF RepliesOK
    <2> QED BY <2>6, <2>7, <2>8 DEF IInv
  <1>2. ASSUME NEW r \in Record, allocate(r) PROVE IInv'
    <2>1. PICK k \in Id : /\ FirstFree(server[r], k)
                          /\ inflight' = [inflight EXCEPT ![server[r]][k] = r]
                          /\ next_id' = [next_id EXCEPT ![server[r]] = (k + 1) % NumIds]
                          /\ ident' = [ident EXCEPT ![r] = k]
      BY ZenonT(60), <1>2 DEF allocate
    <2>2. /\ pc[r] = "Next" /\ UNCHANGED <<queue, server, answered>>
          /\ pc' = [pc EXCEPT ![r] = "Send"] /\ attempt' = [attempt EXCEPT ![r] = 1]
          /\ oneshot' = [oneshot EXCEPT ![r] = "Empty"] /\ reply' = [reply EXCEPT ![r] = NoPacket]
      BY <1>2 DEF allocate
    <2>3. server[r] \in Server /\ inflight[server[r]][k] = NoRecord
      BY <1>u, <2>1 DEF FirstFree
    <2>4. /\ inflight' \in [Server -> [Id -> Record \cup {NoRecord}]]
          /\ \A s \in Server, i \in Id :
                inflight'[s][i] = IF s = server[r] /\ i = k THEN r ELSE inflight[s][i]
      BY <1>u, <2>1, <2>3, SlotSet
    <2>5. /\ pc' \in [Record -> Pc] /\ ident' \in [Record -> Id] /\ attempt' \in [Record -> 1..MAX_ATTEMPTS]
          /\ oneshot' \in [Record -> {"Empty", "Filled", "Closed"}]
          /\ reply' \in [Record -> Packet \cup {NoPacket}]
      BY <1>u, <2>1, <2>2 DEF Pc
    <2>6. /\ pc'[r] = "Send" /\ ident'[r] = k /\ oneshot'[r] = "Empty"
          /\ \A q \in Record \ {r} : pc'[q] = pc[q] /\ ident'[q] = ident[q] /\ oneshot'[q] = oneshot[q]
                                     /\ reply'[q] = reply[q]
      BY <1>u, <2>1, <2>2
    <2>7. next_id' \in [Server -> Id]
      BY <1>t, <2>1, IdWraps DEF TypeOK
    <2>8. TypeOK'
      BY <1>t, <2>2, <2>4, <2>5, <2>7 DEF TypeOK, Pc
    <2>9. QueueOK'
      BY <1>t, <2>2, <2>6, QueueUntouched
    <2>10. RepliesOK'
      BY <1>t, <2>2, <2>6 DEF RepliesOK
    <2>11. SlotsReclaimed'
      <3> SUFFICES ASSUME NEW s \in Server, NEW i \in Id, inflight'[s][i] # NoRecord
                   PROVE  /\ pc'[inflight'[s][i]] \in {"Send", "Wait", "Verified", "Failed"}
                          /\ server[inflight'[s][i]] = s /\ ident'[inflight'[s][i]] = i
        BY <2>2 DEF SlotsReclaimed, InExchange
      <3>1. CASE s = server[r] /\ i = k
        BY <2>4, <2>6, <3>1 DEF InExchange
      <3>2. CASE ~(s = server[r] /\ i = k)
        <4>1. inflight'[s][i] = inflight[s][i] /\ inflight[s][i] \in Record
          BY <1>u, <2>4, <3>2
        <4>2. InExchange(inflight[s][i]) /\ server[inflight[s][i]] = s /\ ident[inflight[s][i]] = i
          BY <1>t, <4>1 DEF SlotsReclaimed
        <4>3. inflight[s][i] # r
          BY <2>2, <4>2 DEF InExchange
        <4> QED BY <2>6, <4>1, <4>2, <4>3 DEF InExchange
      <3> QED BY <3>1, <3>2
    <2>12. WaiterReachable'
      <3> SUFFICES ASSUME NEW q \in Record, pc'[q] \in {"Send", "Wait"}, oneshot'[q] = "Empty"
                   PROVE  inflight'[server[q]][ident'[q]] = q
        BY <2>2 DEF WaiterReachable
      <3>1. CASE q = r
        BY <2>1, <2>3, <2>4, <2>6, <3>1
      <3>2. CASE q # r
        <4>1. inflight[server[q]][ident[q]] = q /\ ident'[q] = ident[q]
          BY <1>t, <2>6, <3>2 DEF WaiterReachable
        <4>2. server[q] \in Server /\ ident[q] \in Id
          BY <1>u
        <4>3. ~(server[q] = server[r] /\ ident[q] = k)
          BY <2>3, <4>1
        <4> QED BY <2>4, <4>1, <4>2, <4>3
      <3> QED BY <3>1, <3>2
    <2> QED BY <2>8, <2>9, <2>10, <2>11, <2>12 DEF IInv
  <1>3. ASSUME NEW r \in Record, exhausted(r) PROVE IInv'
    <2>1. pc[r] = "Next" /\ UNCHANGED <<queue, ident, attempt, oneshot, reply, next_id, inflight, answered>>
      BY <1>3 DEF exhausted
    <2>2. /\ pc' \in [Record -> Pc] /\ server' \in [Record -> Server] /\ pc'[r] \in {"Next", "Dropped"}
          /\ \A q \in Record \ {r} : pc'[q] = pc[q] /\ server'[q] = server[q]
      BY <1>3, <1>t, NextServerEffect DEF exhausted
    <2>3. TypeOK'
      BY <1>t, <2>1, <2>2 DEF TypeOK, Pc
    <2>4. QueueOK'
      BY <1>t, <2>1, <2>2, QueueUntouched
    <2>5. SlotsReclaimed' /\ WaiterReachable'
      BY <1>t, <2>1, <2>2, SlotsUntouched DEF InExchange
    <2>6. RepliesOK'
      BY <1>t, <2>1, <2>2 DEF RepliesOK
    <2> QED BY <2>3, <2>4, <2>5, <2>6 DEF IInv
  <1>4. ASSUME NEW r \in Record, transmit(r) PROVE IInv'
    <2>1. pc[r] = "Send" /\ UNCHANGED <<queue, server, ident, attempt, oneshot, reply, next_id, inflight>>
      BY <1>4 DEF transmit, tasks
    <2>2. /\ pc' \in [Record -> Pc] /\ pc'[r] \in {"Wait", "Failed"}
          /\ \A q \in Record \ {r} : pc'[q] = pc[q]
      BY ZenonT(60), <1>4, <1>u DEF transmit, Pc
    <2>3. answered \subseteq answered' /\ answered' \subseteq Packet
      BY <1>4, <1>t, BuildType DEF transmit, TypeOK
    <2>4. TypeOK'
      BY <1>t, <2>1, <2>2, <2>3 DEF TypeOK, Pc
    <2>5. QueueOK'
      BY <1>t, <2>1, <2>2, QueueUntouched
    <2>6. SlotsReclaimed' /\ WaiterReachable'
      BY <1>t, <2>1, <2>2, SlotsUntouched DEF InExchange
    <2>7. RepliesOK'
      BY <1>t, <2>1, <2>2, <2>3 DEF RepliesOK
    <2> QED BY <2>4, <2>5, <2>6, <2>7 DEF IInv
  <1>5. ASSUME NEW r \in Record, receive(r) PROVE IInv'
    <2>1. pc[r] = "Wait"
          /\ UNCHANGED <<queue, server, ident, attempt, oneshot, reply, next_id, inflight, answered>>
      BY <1>5 DEF receive, tasks
    <2>2. PICK y \in {"Verified", "Failed"} : /\ pc' = [pc EXCEPT ![r] = y]
                                              /\ y = "Verified" => oneshot[r] = "Filled" /\ verify(r, reply[r])
      BY ZenonT(60), <1>5 DEF receive
    <2>3. pc' \in [Record -> Pc] /\ pc'[r] = y /\ \A q \in Record \ {r} : pc'[q] = pc[q]
      BY <1>u, <2>2 DEF Pc
    <2>4. TypeOK'
      BY <1>t, <2>1, <2>3 DEF TypeOK, Pc
    <2>5. QueueOK'
      BY <1>t, <2>1, <2>3, QueueUntouched
    <2>6. SlotsReclaimed' /\ WaiterReachable'
      BY <1>t, <2>1, <2>3, SlotsUntouched DEF InExchange
    <2>7. y = "Verified" => \E p \in answered : p.to = server[r] /\ p.rec = r
      BY <1>t, <2>2, BuildType DEF verify, RepliesOK
    <2>8. RepliesOK'
      BY <1>t, <2>1, <2>3, <2>7 DEF RepliesOK
    <2> QED BY <2>4, <2>5, <2>6, <2>8 DEF IInv
  <1>6. ASSUME NEW r \in Record, timeout(r) PROVE IInv'
    <2>1. pc[r] = "Wait" /\ UNCHANGED <<queue, server, ident, oneshot, reply, next_id, inflight, answered>>
      BY <1>6 DEF timeout
    <2>2. /\ pc' \in [Record -> Pc] /\ pc'[r] \in {"Send", "Failed"}
          /\ \A q \in Record \ {r} : pc'[q] = pc[q]
      BY <1>6, <1>u DEF timeout, Pc
    <2>3. attempt' \in [Record -> 1..MAX_ATTEMPTS]
      BY <1>6, <1>u DEF timeout
    <2>4. TypeOK'
      BY <1>t, <2>1, <2>2, <2>3 DEF TypeOK, Pc
    <2>5. QueueOK'
      BY <1>t, <2>1, <2>2, QueueUntouched
    <2>6. SlotsReclaimed' /\ WaiterReachable'
      BY <1>t, <2>1, <2>2, SlotsUntouched DEF InExchange
    <2>7. RepliesOK'
      BY <1>t, <2>1, <2>2 DEF RepliesOK
    <2> QED BY <2>4, <2>5, <2>6, <2>7 DEF IInv
  <1>7. ASSUME NEW r \in Record, reclaim(r) PROVE IInv'
    <2> DEFINE holder == inflight[server[r]][ident[r]]
    <2>1. /\ pc[r] \in {"Verified", "Failed"} /\ UNCHANGED <<queue, next_id, answered>>
          /\ oneshot' = [q \in Record |-> IF q = r THEN "Empty" ELSE IF q = holder THEN "Closed" ELSE oneshot[q]]
          /\ inflight' = [inflight EXCEPT ![server[r]][ident[r]] = NoRecord]
          /\ ident' = [ident EXCEPT ![r] = 0] /\ attempt' = [attempt EXCEPT ![r] = 1]
          /\ reply' = [reply EXCEPT ![r] = NoPacket]
      BY <1>7 DEF reclaim
    <2>2. /\ pc' \in [Record -> Pc] /\ server' \in [Record -> Server]
          /\ pc'[r] \in {"Acked", "Next", "Dropped"}
          /\ pc'[r] = "Acked" => pc[r] = "Verified" /\ server'[r] = server[r]
          /\ \A q \in Record \ {r} : pc'[q] = pc[q] /\ server'[q] = server[q]
      <3>1. CASE pc[r] = "Verified" /\ pc' = [pc EXCEPT ![r] = "Acked"] /\ server' = server
        BY <1>u, <3>1 DEF Pc
      <3>2. CASE NextServer(r)
        BY <1>t, <3>2, NextServerEffect
      <3> QED BY <1>7, <3>1, <3>2 DEF reclaim
    <2>3. server[r] \in Server /\ ident[r] \in Id /\ 0 \in Id /\ 1 \in 1..MAX_ATTEMPTS
      BY <1>u DEF Id
    <2>4. /\ inflight' \in [Server -> [Id -> Record \cup {NoRecord}]]
          /\ \A s \in Server, i \in Id :
                inflight'[s][i] = IF s = server[r] /\ i = ident[r] THEN NoRecord ELSE inflight[s][i]
      BY <1>u, <2>1, <2>3, SlotSet
    <2>5. /\ ident' \in [Record -> Id] /\ attempt' \in [Record -> 1..MAX_ATTEMPTS]
          /\ reply' \in [Record -> Packet \cup {NoPacket}]
          /\ \A q \in Record \ {r} : ident'[q] = ident[q] /\ reply'[q] = reply[q]
      BY <1>u, <2>1, <2>3
    <2>6. /\ oneshot' \in [Record -> {"Empty", "Filled", "Closed"}] /\ oneshot'[r] = "Empty"
          /\ \A q \in Record \ {r} : oneshot'[q] # "Closed" => oneshot'[q] = oneshot[q] /\ q # holder
      BY ZenonT(60), <1>u, <2>1
    <2>7. TypeOK'
      BY <1>t, <2>1, <2>2, <2>4, <2>5, <2>6 DEF TypeOK, Pc
    <2>8. QueueOK'
      BY <1>t, <2>1, <2>2, QueueUntouched
    <2>9. RepliesOK'
      <3> SUFFICES ASSUME NEW q \in Record
                   PROVE  /\ oneshot'[q] = "Filled" => reply'[q] \in answered
                          /\ pc'[q] \in {"Verified", "Acked"} => \E p \in answered : p.to = server'[q] /\ p.rec = q
        BY <2>1 DEF RepliesOK
      <3>1. CASE q = r
        BY <1>t, <2>2, <2>6, <3>1 DEF RepliesOK
      <3>2. CASE q # r
        BY <1>t, <2>2, <2>5, <2>6, <3>2 DEF RepliesOK
      <3> QED BY <3>1, <3>2
    <2>10. SlotsReclaimed'
      <3> SUFFICES ASSUME NEW s \in Server, NEW i \in Id, inflight'[s][i] # NoRecord
                   PROVE  /\ pc'[inflight'[s][i]] \in {"Send", "Wait", "Verified", "Failed"}
                          /\ server'[inflight'[s][i]] = s /\ ident'[inflight'[s][i]] = i
        BY DEF SlotsReclaimed, InExchange
      <3>1. inflight'[s][i] = inflight[s][i] /\ inflight[s][i] \in Record /\ ~(s = server[r] /\ i = ident[r])
        BY <1>u, <2>4
      <3>2. InExchange(inflight[s][i]) /\ server[inflight[s][i]] = s /\ ident[inflight[s][i]] = i
        BY <1>t, <3>1 DEF SlotsReclaimed
      <3>3. inflight[s][i] # r
        BY ZenonT(60), <3>1, <3>2
      <3> QED BY <2>2, <2>5, <3>1, <3>2, <3>3 DEF InExchange
    <2>11. WaiterReachable'
      <3> SUFFICES ASSUME NEW q \in Record, pc'[q] \in {"Send", "Wait"}, oneshot'[q] = "Empty"
                   PROVE  inflight'[server'[q]][ident'[q]] = q
        BY DEF WaiterReachable
      <3>1. q # r
        BY <2>2
      <3>2. /\ pc[q] \in {"Send", "Wait"} /\ oneshot[q] = "Empty" /\ q # holder
            /\ server'[q] = server[q] /\ ident'[q] = ident[q]
        BY <2>2, <2>5, <2>6, <3>1
      <3>3. inflight[server[q]][ident[q]] = q /\ server[q] \in Server /\ ident[q] \in Id
        BY ZenonT(60), <1>t, <1>u, <3>2 DEF WaiterReachable
      <3>4. ~(server[q] = server[r] /\ ident[q] = ident[r])
        BY <3>2, <3>3
      <3> QED BY <2>4, <3>2, <3>3, <3>4
    <2> QED BY <2>7, <2>8, <2>9, <2>10, <2>11 DEF IInv
  <1>8. ASSUME dispatch PROVE IInv'
    <2>1. /\ queue # <<>> /\ queue' = Tail(queue) /\ pc' = [pc EXCEPT ![Head(queue)] = "Next"]
          /\ UNCHANGED <<server, ident, attempt, oneshot, reply, next_id, inflight, answered>>
      BY <1>8 DEF dispatch, tasks
    <2>2. queue \in Seq(Record) /\ Len(queue) <= QUEUE_DEPTH
      BY <1>t DEF TypeOK
    <2>3. /\ Head(queue) \in Record /\ Head(queue) = queue[1] /\ queue' \in Seq(Record)
          /\ Len(queue) \in Nat /\ Len(queue) >= 1 /\ Len(queue') = Len(queue) - 1
          /\ \A i \in 1..Len(queue') : queue'[i] = queue[i + 1]
      BY <2>1, <2>2, QueuePop
    <2>4. pc[Head(queue)] = "Queued"
      BY <1>t, <2>3 DEF QueueOK
    <2>5. /\ pc' \in [Record -> Pc] /\ pc'[Head(queue)] = "Next"
          /\ \A q \in Record \ {Head(queue)} : pc'[q] = pc[q]
      BY <1>u, <2>1, <2>3 DEF Pc
    <2>6. TypeOK'
      BY <1>t, <2>1, <2>2, <2>3, <2>5 DEF TypeOK, Pc
    <2>7. QueueOK'
      <3>1. \A i \in 1..Len(queue') : i + 1 \in 1..Len(queue) /\ i + 1 # 1
        BY <2>3
      <3>2. \A i \in 1..Len(queue) : queue[i] \in Record
        BY <2>2
      <3>3. \A i \in 1..Len(queue') : /\ queue'[i] \in Record \ {Head(queue)}
                                      /\ pc[queue'[i]] = "Queued"
        <4> TAKE i \in 1..Len(queue')
        <4>1. i + 1 \in 1..Len(queue) /\ i + 1 # 1 /\ 1 \in 1..Len(queue) BY <2>3, <3>1
        <4>2. queue'[i] = queue[i + 1] BY <2>3
        <4>3. queue[i + 1] # queue[1] BY <1>t, <4>1 DEF QueueOK
        <4>4. pc[queue[i + 1]] = "Queued" BY <1>t, <4>1 DEF QueueOK
        <4>5. queue[i + 1] \in Record BY <3>2, <4>1
        <4> QED BY <2>3, <4>2, <4>3, <4>4, <4>5
      <3>4. \A i, j \in 1..Len(queue') : queue'[i] = queue'[j] => i = j
        <4> TAKE i, j \in 1..Len(queue')
        <4>1. i + 1 \in 1..Len(queue) /\ j + 1 \in 1..Len(queue) BY <3>1
        <4>2. queue[i + 1] = queue[j + 1] => i + 1 = j + 1 BY <1>t, <4>1 DEF QueueOK
        <4>3. queue'[i] = queue[i + 1] /\ queue'[j] = queue[j + 1] BY <2>3
        <4> QED BY <4>2, <4>3
      <3> QED BY <2>5, <3>3, <3>4 DEF QueueOK
    <2>8. SlotsReclaimed' /\ WaiterReachable'
      BY <1>t, <2>1, <2>3, <2>4, <2>5, SlotsUntouched DEF InExchange
    <2>9. RepliesOK'
      BY <1>t, <2>1, <2>3, <2>5 DEF RepliesOK
    <2> QED BY <2>6, <2>7, <2>8, <2>9 DEF IInv
  <1>9. ASSUME NEW p \in answered, reader_loop(p) PROVE IInv'
    <2> DEFINE r == inflight[p.to][p.id]
    <2>1. p \in Packet /\ p.to \in Server /\ p.id \in Id
      BY ZenonT(60), <1>t DEF TypeOK, Packet
    <2>2. r \in Record /\ server[r] = p.to /\ ident[r] = p.id
      BY <1>9, <1>t, <1>u, <2>1 DEF reader_loop, SlotsReclaimed
    <2>3. /\ inflight' = [inflight EXCEPT ![p.to][p.id] = NoRecord]
          /\ UNCHANGED <<queue, pc, server, ident, attempt, next_id, answered>>
      BY ZenonT(60), <1>9 DEF reader_loop, tasks
    <2>4. /\ oneshot' \in [Record -> {"Empty", "Filled", "Closed"}]
          /\ reply' \in [Record -> Packet \cup {NoPacket}]
          /\ \A q \in Record \ {r} : oneshot'[q] = oneshot[q] /\ reply'[q] = reply[q]
          /\ \/ pc[r] \in {"Send", "Wait"} /\ oneshot'[r] = "Filled" /\ reply'[r] = p
             \/ pc[r] \notin {"Send", "Wait"} /\ oneshot'[r] = oneshot[r] /\ reply'[r] = reply[r]
      <3>1. CASE pc[r] \in {"Send", "Wait"}
        <4>1. oneshot' = [oneshot EXCEPT ![r] = "Filled"] /\ reply' = [reply EXCEPT ![r] = p]
          BY ZenonT(60), <1>9, <3>1 DEF reader_loop
        <4> QED BY ZenonT(60), <1>u, <2>1, <2>2, <3>1, <4>1
      <3>2. CASE pc[r] \notin {"Send", "Wait"}
        <4>1. oneshot' = oneshot /\ reply' = reply
          BY <1>9, <3>2 DEF reader_loop
        <4> QED BY <1>u, <3>2, <4>1
      <3> QED BY ZenonT(60), <3>1, <3>2
    <2>5. /\ inflight' \in [Server -> [Id -> Record \cup {NoRecord}]]
          /\ \A s \in Server, i \in Id :
                inflight'[s][i] = IF s = p.to /\ i = p.id THEN NoRecord ELSE inflight[s][i]
      BY <1>u, <2>1, <2>3, SlotSet
    <2> HIDE DEF r
    <2>6. TypeOK'
      <3>1. oneshot' \in [Record -> {"Empty", "Filled", "Closed"}] /\ reply' \in [Record -> Packet \cup {NoPacket}]
        BY <2>4
      <3> QED BY ZenonT(60), <1>t, <2>3, <2>5, <3>1 DEF TypeOK
    <2>7. QueueOK'
      BY <1>t, <2>3 DEF QueueOK
    <2>8. RepliesOK'
      <3>1. ASSUME NEW q \in Record, oneshot'[q] = "Filled" PROVE reply'[q] \in answered
        <4>1. oneshot[q] = "Filled" => reply[q] \in answered BY <1>t DEF RepliesOK
        <4>2. CASE q = r BY <2>2, <2>4, <3>1, <4>1, <4>2
        <4>3. CASE q # r BY ZenonT(60), <2>4, <3>1, <4>1, <4>3
        <4> QED BY <4>2, <4>3
      <3> QED BY <1>t, <2>3, <3>1 DEF RepliesOK
    <2>9. SlotsReclaimed'
      BY <1>t, <1>u, <2>3, <2>5 DEF SlotsReclaimed, InExchange
    <2>10. WaiterReachable'
      <3> SUFFICES ASSUME NEW q \in Record, pc[q] \in {"Send", "Wait"}, oneshot'[q] = "Empty"
                   PROVE  inflight'[server[q]][ident[q]] = q
        BY <2>3 DEF WaiterReachable
      <3>1. q # r /\ oneshot[q] = "Empty"
        BY <2>2, <2>4
      <3>2. inflight[server[q]][ident[q]] = q /\ server[q] \in Server /\ ident[q] \in Id
        BY ZenonT(60), <1>t, <1>u, <3>1 DEF WaiterReachable
      <3>3. ~(server[q] = p.to /\ ident[q] = p.id)
        BY ZenonT(60), <3>1, <3>2 DEF r
      <3> QED BY <2>5, <3>2, <3>3
    <2> QED BY <2>6, <2>7, <2>8, <2>9, <2>10 DEF IInv
  <1>10. CASE UNCHANGED vars
    BY <1>t, <1>10 DEF vars, tasks, IInv, TypeOK, QueueOK, RepliesOK, SlotsReclaimed, InExchange, WaiterReachable
  <1> QED
    BY <1>1, <1>2, <1>3, <1>4, <1>5, <1>6, <1>7, <1>8, <1>9, <1>10 DEF Next, Quiescent

\* The inductive invariant holds in every reachable state.
THEOREM InvariantHolds == Spec => []IInv
  BY InitEstablishes, NextKeeps, PTL DEF Spec

\* Identifiers keep their width and attempts the budget of send_inner, for any number of
\* records, servers and identifiers.
THEOREM TypeCorrect == Spec => []TypeOK
  <1>1. IInv => TypeOK
    BY ZenonT(60) DEF IInv
  <1> QED BY <1>1, InvariantHolds, PTL

\* run_one never reports a record acknowledged that its server has not recorded, whatever the
\* network repeats or delays and however identifiers are reused.
THEOREM AcksAreTrue == Spec => []NoFalseAck
  <1>1. IInv => NoFalseAck
    BY DEF IInv, RepliesOK, NoFalseAck
  <1> QED BY <1>1, InvariantHolds, PTL

\* AcctClient::send leaks no identifier: a slot is held only by a running exchange.
THEOREM NoSlotLeaks == Spec => []SlotsReclaimed
  <1>1. IInv => SlotsReclaimed
    BY DEF IInv
  <1> QED BY <1>1, InvariantHolds, PTL

\* A record that still waits can still be answered through its slot.
THEOREM WaitersReachable == Spec => []WaiterReachable
  <1>1. IInv => WaiterReachable
    BY DEF IInv
  <1> QED BY <1>1, InvariantHolds, PTL
=============================================================================

-------------------------- MODULE AuthBridgeProofs --------------------------
(***************************************************************************)
(* VerdictEarned for any number of sessions, servers and queue slots, and  *)
(* any answers: what a login is told follows from what the servers said    *)
(* about that login.                                                       *)
(***************************************************************************)
EXTENDS AuthBridge, TLAPS

-----------------------------------------------------------------------------
(* The inductive invariant.                                                *)

Outcome == [verdict : {"None", "Accept", "Reject", "Closed"}, mtu : UsableMtu,
            shaping : BOOLEAN, hlak : BOOLEAN]

TypeOK ==
    /\ pc \in [Session -> {"Idle", "Sending", "Waiting", "Done", "Dropped"}]
    /\ method \in [Session -> {"None", "Pap", "Chap", "MsChap"}]
    /\ senders \in Seq(Session) /\ queue \in Seq(Session)
    /\ task \in [Session -> BOOLEAN] /\ server \in [Session -> Server]
    /\ answers \in [Session -> [Server -> Answer \cup {NoAnswer}]]
    /\ reply \in [Session -> Outcome] /\ outcome \in [Session -> Outcome]
    /\ runtime \in {"Up", "Down"}

In(s, q) == \E i \in 1..Len(q) : q[i] = s
Once(q) == \A i, j \in 1..Len(q) : q[i] = q[j] => i = j

\* Nothing has been asked for the session's job.
Fresh(s) ==
    /\ ~task[s] /\ server[s] = 1 /\ reply[s] = NoOutcome
    /\ \A i \in Server : answers[s][i] = NoAnswer

\* A session is in one place: in send().await, in the queue, in its task, or past all of them.
Placed(s) ==
    /\ pc[s] # "Done" => outcome[s] = NoOutcome
    /\ pc[s] \in {"Idle", "Sending"} => Fresh(s) /\ ~In(s, queue)
    /\ pc[s] = "Done" => ~task[s] /\ ~In(s, queue)
    /\ In(s, senders) => pc[s] = "Sending"
    /\ In(s, queue) => Fresh(s)
    /\ task[s] => reply[s] = NoOutcome

\* The servers before the one being asked failed, and those after it were not asked.
Loop(s) ==
    /\ \A i \in Server : i < server[s] => answers[s][i] # NoAnswer /\ ~Authoritative(answers[s][i])
    /\ \A i \in Server : i > server[s] => answers[s][i] = NoAnswer
    /\ task[s] => answers[s][server[s]] = NoAnswer

\* What a verdict rests on, for the one in the oneshot and for the one the session took.
Supported(s, r) ==
    /\ r.verdict = "Accept" =>
          \E i \in Asked(s) : /\ answers[s][i].code = "Accept" /\ Authoritative(answers[s][i])
                              /\ r.hlak <=> /\ method[s] = "MsChap" /\ answers[s][i].send_key = 16
                                            /\ answers[s][i].recv_key = 16
    /\ r.verdict = "Reject" => \/ \E i \in Asked(s) : answers[s][i].code = "Reject"
                               \/ Asked(s) = Server \/ runtime = "Down"
    /\ r = Closed => runtime = "Down"
    /\ r.verdict = "Closed" => r = Closed

SessionInv(s) == Placed(s) /\ Loop(s) /\ Supported(s, reply[s]) /\ Supported(s, outcome[s])

IInv == TypeOK /\ Once(senders) /\ Once(queue) /\ \A s \in Session : SessionInv(s)

-----------------------------------------------------------------------------
(* Facts about the queues.                                                 *)

\* A session that joins a queue it is not in.
LEMMA JoinFacts ==
    ASSUME NEW q \in Seq(Session), NEW s \in Session
    PROVE  /\ Append(q, s) \in Seq(Session)
           /\ \A t : In(t, Append(q, s)) => t = s \/ In(t, q)
           /\ Once(q) /\ ~In(s, q) => Once(Append(q, s))
<1> DEFINE r == Append(q, s)
<1>1. /\ Len(q) \in Nat /\ r \in Seq(Session) /\ Len(r) = Len(q) + 1
      /\ \A i \in 1..Len(q) : r[i] = q[i]
      /\ r[Len(q) + 1] = s
  OBVIOUS
<1> HIDE DEF r
<1>2. ASSUME NEW i \in 1..Len(r) PROVE i = Len(q) + 1 \/ i \in 1..Len(q) BY <1>1
<1>3. \A t : In(t, r) => t = s \/ In(t, q) BY <1>1, <1>2 DEF In
<1>4. ASSUME Once(q), ~In(s, q) PROVE Once(r)
  BY <1>1, <1>2, <1>4 DEF In, Once
<1> QED BY <1>1, <1>3, <1>4 DEF r

\* The session at the head leaves.
LEMMA LeaveFacts ==
    ASSUME NEW q \in Seq(Session), q # <<>>
    PROVE  /\ Tail(q) \in Seq(Session) /\ Head(q) \in Session /\ In(Head(q), q)
           /\ \A t : In(t, Tail(q)) => In(t, q)
           /\ Once(q) => Once(Tail(q)) /\ ~In(Head(q), Tail(q))
<1> DEFINE r == Tail(q)
<1>1. /\ Len(q) \in Nat \ {0} /\ r \in Seq(Session) /\ Len(r) = Len(q) - 1
      /\ \A i \in 1..Len(r) : r[i] = q[i + 1]
      /\ Head(q) = q[1] /\ Head(q) \in Session
  OBVIOUS
<1> HIDE DEF r
<1>2. 1 \in 1..Len(q) /\ \A i \in 1..Len(r) : i + 1 \in 1..Len(q) BY <1>1
<1>3. In(Head(q), q) BY <1>1, <1>2 DEF In
<1>4. \A t : In(t, r) => In(t, q) BY <1>1, <1>2 DEF In
<1>5. ASSUME Once(q) PROVE Once(r)
  <2> SUFFICES ASSUME NEW i \in 1..Len(r), NEW j \in 1..Len(r), r[i] = r[j] PROVE i = j BY DEF Once
  <2>1. i + 1 = j + 1 BY <1>1, <1>2, <1>5 DEF Once
  <2> QED BY <1>1, <2>1
<1>6. ASSUME Once(q), In(Head(q), r) PROVE FALSE
  <2>1. PICK i \in 1..Len(r) : r[i] = Head(q) BY <1>6 DEF In
  <2>2. q[i + 1] = q[1] /\ i + 1 \in 1..Len(q) BY <1>1, <1>2, <2>1
  <2>3. i + 1 = 1 BY <1>2, <1>6, <2>2 DEF Once
  <2> QED BY <1>1, <2>3
<1> QED BY <1>1, <1>3, <1>4, <1>5, <1>6 DEF r

\* One queue after another.
LEMMA ConcatFacts ==
    ASSUME NEW S, NEW p \in Seq(S), NEW q \in Seq(S)
    PROVE  /\ p \o q \in Seq(S) /\ Len(p \o q) = Len(p) + Len(q)
           /\ \A i \in 1..Len(p) : (p \o q)[i] = p[i]
           /\ \A i \in (Len(p) + 1)..(Len(p) + Len(q)) : (p \o q)[i] = q[i - Len(p)]
OBVIOUS

\* A session leaves from the middle.
LEMMA RemoveFacts ==
    ASSUME NEW q \in Seq(Session), NEW k \in 1..Len(q)
    PROVE  /\ Without(q, k) \in Seq(Session)
           /\ \A t : In(t, Without(q, k)) => In(t, q)
           /\ Once(q) => Once(Without(q, k)) /\ ~In(q[k], Without(q, k))
<1> DEFINE a == SubSeq(q, 1, k - 1)
           b == SubSeq(q, k + 1, Len(q))
           r == Without(q, k)
           At(i) == IF i < k THEN i ELSE i + 1
<1>1. Len(q) \in Nat /\ k \in Nat /\ k - 1 \in Nat /\ k <= Len(q) OBVIOUS
<1>2. a \in Seq(Session) /\ Len(a) = k - 1 /\ \A i \in 1..(k - 1) : a[i] = q[i] BY <1>1
<1>3. b \in Seq(Session) /\ Len(b) = Len(q) - k /\ \A i \in 1..(Len(q) - k) : b[i] = q[k + i] BY <1>1
<1>4. r = a \o b BY DEF Without
<1> HIDE DEF a, b, r
<1>5. r \in Seq(Session) /\ Len(r) = Len(q) - 1
  <2>1. a \o b \in Seq(Session) /\ Len(a \o b) = Len(a) + Len(b) BY ZenonT(60), <1>2, <1>3, ConcatFacts
  <2> QED BY <1>1, <1>2, <1>3, <1>4, <2>1
<1>6. ASSUME NEW i \in 1..Len(r) PROVE At(i) \in 1..Len(q) /\ At(i) # k /\ r[i] = q[At(i)]
  <2>1. At(i) \in 1..Len(q) /\ At(i) # k BY <1>1, <1>5
  <2>2. CASE i < k
    BY <1>1, <1>2, <1>3, <1>4, <1>5, <2>2
  <2>3. CASE ~(i < k)
    <3>1. r[i] = b[i - (k - 1)] BY <1>1, <1>2, <1>3, <1>4, <1>5, <2>3
    <3>2. i - (k - 1) \in 1..(Len(q) - k) /\ k + (i - (k - 1)) = i + 1 BY <1>1, <1>5, <2>3
    <3> QED BY <1>3, <2>1, <2>3, <3>1, <3>2
  <2> QED BY <2>2, <2>3
<1>7. \A t : In(t, r) => In(t, q) BY <1>6 DEF In
<1>8. ASSUME Once(q) PROVE Once(r)
  <2> SUFFICES ASSUME NEW i \in 1..Len(r), NEW j \in 1..Len(r), r[i] = r[j] PROVE i = j BY DEF Once
  <2>1. At(i) = At(j) BY ZenonT(60), <1>6, <1>8 DEF Once
  <2> QED BY <1>1, <1>5, <2>1
<1>9. ASSUME Once(q), In(q[k], r) PROVE FALSE
  BY <1>6, <1>9 DEF In, Once
<1> QED BY <1>5, <1>7, <1>8, <1>9 DEF r

-----------------------------------------------------------------------------
(* Facts about the verdicts.                                               *)

\* What a method makes of an answer.
Result(m, a) == IF m = "MsChap" THEN project_mschapv2(a) ELSE authenticate(a)

\* project_addrs yields an MTU within the bounds, or none.
LEMMA ProjectedMtu == 0 \in UsableMtu /\ \A m \in Nat : project_addrs(m) \in UsableMtu
BY DEF project_addrs, UsableMtu

\* The servers are numbered from 1 and asked in that order.
LEMMA ServerNumbers ==
    /\ 1 \in Server /\ Server \subseteq Nat
    /\ \A i \in Server : i < NumServers => i + 1 \in Server
    /\ \A i \in Server : i < NumServers \/ i = NumServers
    /\ \A i, k \in Server : i < k \/ i = k \/ i > k
    /\ \A i \in Server : i + 1 > i
    /\ \A i, k \in Server : i < k + 1 => i < k \/ i = k
    /\ \A i, k \in Server : i > k + 1 => i > k
    /\ \A i, j, k \in Server : i < j /\ ~(j > k) => i < k
BY AuthBridgeAssumption DEF Server

\* The three constant outcomes and their verdicts.
LEMMA ConstantOutcomes ==
    /\ NoOutcome \in Outcome /\ Reject \in Outcome /\ Closed \in Outcome
    /\ NoOutcome.verdict = "None" /\ Reject.verdict = "Reject" /\ Closed.verdict = "Closed"
    /\ NoOutcome # Reject /\ NoOutcome # Closed /\ Reject # Closed
BY ProjectedMtu DEF NoOutcome, Reject, Closed, Outcome

\* An answer is authoritative when it yields an outcome: an Accept of its own attributes, or
\* a reject; every other answer is an error.
LEMMA ResultFacts ==
    ASSUME NEW a \in Answer, NEW m \in {"Pap", "Chap", "MsChap"}
    PROVE  /\ a # NoAnswer
           /\ \/ Result(m, a) = NoOutcome /\ ~Authoritative(a)
              \/ Result(m, a) = Reject /\ a.code = "Reject"
              \/ /\ Result(m, a) \in Outcome /\ Result(m, a).verdict = "Accept"
                 /\ a.code = "Accept" /\ Authoritative(a)
                 /\ Result(m, a).hlak <=> m = "MsChap" /\ a.send_key = 16 /\ a.recv_key = 16
<1>1. a.code \in {"Accept", "Reject", "Challenge", "Timeout", "Io"} BY AnswerAssumption
<1>2. a # NoAnswer BY <1>1 DEF NoAnswer
<1>3. CASE a.code = "Accept"
  <2>1. /\ a.ip \in BOOLEAN /\ a.mtu \in Nat
        /\ a.send_key \in Nat \cup {-1} /\ a.recv_key \in Nat \cup {-1}
    BY <1>3, AnswerAssumption
  <2>k. /\ a.send_key # -1 <=> a.send_key >= 0
        /\ a.recv_key # -1 <=> a.recv_key >= 0
    BY <2>1
  <2>2. decode_accept(a) <=> Authoritative(a) BY <1>3, <2>k DEF decode_accept, Authoritative
  <2>3. CASE ~decode_accept(a)
    <3>1. Result(m, a) = NoOutcome
      BY <1>3, <2>3 DEF Result, project_mschapv2, authenticate, project_terminal
    <3> QED BY <1>2, <2>2, <2>3, <3>1
  <2>4. CASE decode_accept(a)
    <3>1. project_addrs(a.mtu) \in UsableMtu BY <2>1, ProjectedMtu
    <3>2. accept_outcome(a) = [verdict |-> "Accept", mtu |-> project_addrs(a.mtu),
                               shaping |-> a.rate = "Parses", hlak |-> FALSE]
      BY DEF accept_outcome, mikrotik_rate_limit
    <3>3. CASE m = "MsChap"
      <4>1. Result(m, a) = [accept_outcome(a) EXCEPT !.hlak = hlak_from_mppe(a)]
        BY <1>3, <2>4, <3>3 DEF Result, project_mschapv2
      <4>2. Result(m, a) = [verdict |-> "Accept", mtu |-> project_addrs(a.mtu),
                            shaping |-> a.rate = "Parses", hlak |-> a.send_key = 16 /\ a.recv_key = 16]
        BY <3>2, <4>1 DEF hlak_from_mppe
      <4>3. Result(m, a) \in Outcome /\ Result(m, a).verdict = "Accept"
        BY <3>1, <4>2 DEF Outcome
      <4>4. Result(m, a).hlak <=> m = "MsChap" /\ a.send_key = 16 /\ a.recv_key = 16
        <5>1. Result(m, a).hlak = (a.send_key = 16 /\ a.recv_key = 16) BY <4>2
        <5> QED BY ZenonT(60), <3>3, <5>1
      <4> QED BY <1>2, <1>3, <2>2, <2>4, <4>3, <4>4
    <3>4. CASE m # "MsChap"
      <4>1. Result(m, a) = accept_outcome(a)
        BY <1>3, <2>4, <3>4 DEF Result, authenticate, project_terminal
      <4>2. Result(m, a) \in Outcome /\ Result(m, a).verdict = "Accept"
        BY <3>1, <3>2, <4>1 DEF Outcome
      <4>3. Result(m, a).hlak = FALSE BY <3>2, <4>1
      <4>4. Result(m, a).hlak <=> m = "MsChap" /\ a.send_key = 16 /\ a.recv_key = 16
        BY <3>4, <4>3
      <4> QED BY <1>2, <1>3, <2>2, <2>4, <4>2, <4>4
    <3> QED BY <3>3, <3>4
  <2> QED BY <2>3, <2>4
<1>4. CASE a.code = "Reject"
  <2>1. Result(m, a) = Reject BY <1>4 DEF Result, project_mschapv2, authenticate, project_terminal
  <2> QED BY <1>2, <1>4, <2>1
<1>5. CASE a.code \in {"Challenge", "Timeout", "Io"}
  <2>1. Result(m, a) = NoOutcome
    BY <1>5 DEF Result, project_mschapv2, authenticate, project_terminal
  <2>2. ~Authoritative(a) BY <1>5 DEF Authoritative
  <2> QED BY <1>2, <2>1, <2>2
<1> QED BY <1>1, <1>3, <1>4, <1>5

-----------------------------------------------------------------------------
(* Every step keeps the invariant.                                         *)

\* Initially no session has a job.
LEMMA InitEstablishes == Init => IInv
<1> SUFFICES ASSUME Init PROVE IInv OBVIOUS
<1>1. 1 \in Server BY ServerNumbers
<1>2. TypeOK
  BY <1>1, ConstantOutcomes DEF Init, TypeOK
<1>3. Once(senders) /\ Once(queue) BY DEF Init, Once
<1>4. ASSUME NEW s \in Session PROVE SessionInv(s)
  <2>1. /\ pc[s] = "Idle" /\ ~task[s] /\ server[s] = 1 /\ reply[s] = NoOutcome /\ outcome[s] = NoOutcome
        /\ \A i \in Server : answers[s][i] = NoAnswer
        /\ ~In(s, senders) /\ ~In(s, queue)
    BY DEF Init, In
  <2>2. Placed(s) BY <2>1 DEF Placed, Fresh
  <2>3. Loop(s) BY <1>1, <2>1 DEF Loop, Server
  <2>4. Supported(s, NoOutcome) BY ConstantOutcomes DEF Supported
  <2> QED BY <2>1, <2>2, <2>3, <2>4 DEF SessionInv
<1> QED BY <1>2, <1>3, <1>4 DEF IInv

\* A step leaves alone the sessions whose own state it does not write.
LEMMA OthersKept ==
    ASSUME NEW t \in Session, SessionInv(t),
           pc'[t] = pc[t], method'[t] = method[t], task'[t] = task[t], server'[t] = server[t],
           answers'[t] = answers[t], reply'[t] = reply[t], outcome'[t] = outcome[t],
           In(t, queue') => In(t, queue), In(t, senders') => In(t, senders),
           runtime = "Down" => runtime' = "Down"
    PROVE  SessionInv(t)'
<1>1. Placed(t)' BY DEF SessionInv, Placed, Fresh
<1>2. Loop(t)' BY DEF SessionInv, Loop
<1>3. Asked(t)' = Asked(t) BY DEF Asked
<1>4. Supported(t, reply[t])'
  <2>1. Supported(t, reply[t]) BY DEF SessionInv
  <2> QED BY <1>3, <2>1 DEF Supported
<1>5. Supported(t, outcome[t])'
  <2>1. Supported(t, outcome[t]) BY DEF SessionInv
  <2> QED BY <1>3, <2>1 DEF Supported
<1> QED BY <1>1, <1>2, <1>4, <1>5 DEF SessionInv

\* submit_*: the session joins the senders.
LEMMA SubmitKeeps ==
    ASSUME IInv, NEW s \in Session, NEW m \in {"Pap", "Chap", "MsChap"}, submit(s, m)
    PROVE  IInv'
<1>1. SessionInv(s) BY DEF IInv
<1>2. pc[s] = "Idle" /\ ~In(s, senders) /\ ~In(s, queue) /\ Fresh(s) /\ outcome[s] = NoOutcome
  BY <1>1 DEF submit, SessionInv, Placed
<1>3. /\ senders' \in Seq(Session) /\ Once(senders')
      /\ \A t : In(t, senders') => t = s \/ In(t, senders)
  BY <1>2, JoinFacts DEF submit, IInv, TypeOK
<1>4. TypeOK' BY <1>3 DEF submit, IInv, TypeOK
<1>5. Once(queue') BY DEF submit, IInv
<1>6. ASSUME NEW t \in Session PROVE SessionInv(t)'
  <2>1. SessionInv(t) BY DEF IInv
  <2>2. CASE t # s
    BY <1>3, <2>1, <2>2, OthersKept DEF submit, IInv, TypeOK
  <2>3. CASE t = s
    <3>1. /\ pc'[s] = "Sending" /\ method'[s] = m
          /\ UNCHANGED <<queue, task, server, answers, reply, outcome, runtime>>
      BY DEF submit, IInv, TypeOK
    <3>2. Placed(s)' BY <1>2, <3>1 DEF Placed, Fresh
    <3>3. Loop(s)' BY <1>1, <3>1 DEF SessionInv, Loop
    <3>4. reply'[s] = NoOutcome /\ outcome'[s] = NoOutcome BY <1>2, <3>1 DEF Fresh
    <3>5. Supported(s, reply[s])' /\ Supported(s, outcome[s])'
      BY <3>4, ConstantOutcomes DEF Supported
    <3> QED BY <2>3, <3>2, <3>3, <3>5 DEF SessionInv
  <2> QED BY <2>2, <2>3
<1> QED BY <1>3, <1>4, <1>5, <1>6 DEF IInv

\* dispatch_basic: the first sender gets its job into the queue, or learns that nobody reads it.
LEMMA SendKeeps == ASSUME IInv, send PROVE IInv'
<1>0. /\ senders' \in Seq(Session) /\ Head(senders) \in Session /\ In(Head(senders), senders)
      /\ Once(senders') /\ ~In(Head(senders), senders') /\ \A t : In(t, senders') => In(t, senders)
  BY LeaveFacts DEF send, IInv, TypeOK
<1>s. PICK s \in Session : s = Head(senders) BY <1>0
<1>1. /\ senders' \in Seq(Session) /\ In(s, senders) /\ Once(senders')
      /\ ~In(s, senders') /\ \A t : In(t, senders') => In(t, senders)
  BY <1>0, <1>s
<1>2. UNCHANGED <<method, task, server, answers, reply, runtime>> BY DEF send
<1>3. \/ /\ queue' = Append(queue, s) /\ pc' = [pc EXCEPT ![s] = "Waiting"] /\ UNCHANGED outcome
      \/ /\ runtime = "Down" /\ pc' = [pc EXCEPT ![s] = "Done"]
         /\ outcome' = [outcome EXCEPT ![s] = Reject] /\ UNCHANGED queue
  BY <1>s DEF send
<1>4. SessionInv(s) BY <1>1 DEF IInv
<1>5. pc[s] = "Sending" /\ ~In(s, queue) /\ Fresh(s) /\ outcome[s] = NoOutcome
  BY <1>1, <1>4 DEF SessionInv, Placed
<1>6. /\ queue' \in Seq(Session) /\ Once(queue')
      /\ \A t : In(t, queue') => t = s \/ In(t, queue)
  <2>1. queue \in Seq(Session) /\ Once(queue) BY DEF IInv, TypeOK
  <2>2. CASE queue' = queue
    BY <2>1, <2>2
  <2>3. CASE queue' = Append(queue, s)
    BY <1>5, <2>1, <2>3, JoinFacts
  <2> QED BY <1>3, <2>2, <2>3
<1>7. TypeOK'
  <2>1. TypeOK BY DEF IInv
  <2>2. outcome' = outcome \/ outcome' = [outcome EXCEPT ![s] = Reject]
    BY ZenonT(60), <1>3
  <2>3. outcome' \in [Session -> Outcome]
    BY <2>1, <2>2, ConstantOutcomes DEF TypeOK
  <2> QED BY ZenonT(60), <1>1, <1>2, <1>3, <1>6, <2>1, <2>3 DEF TypeOK
<1>8. ASSUME NEW t \in Session PROVE SessionInv(t)'
  <2>1. SessionInv(t) BY DEF IInv
  <2>2. CASE t # s
    <3>1. pc'[t] = pc[t] /\ outcome'[t] = outcome[t] BY <1>3, <2>2 DEF IInv, TypeOK
    <3> QED BY <1>1, <1>2, <1>6, <2>1, <2>2, <3>1, OthersKept
  <2>3. CASE t = s
    <3>1. \/ pc'[s] = "Waiting" /\ outcome'[s] = NoOutcome
          \/ pc'[s] = "Done" /\ outcome'[s] = Reject /\ runtime = "Down" /\ queue' = queue
      BY <1>1, <1>3, <1>5 DEF IInv, TypeOK
    <3>2. Fresh(s)' BY <1>2, <1>5 DEF Fresh
    <3>3. ~task'[s] /\ reply'[s] = NoOutcome BY <3>2 DEF Fresh
    <3>4. Placed(s)' BY <1>1, <1>5, <3>1, <3>2, <3>3 DEF Placed
    <3>5. Loop(s)' BY <1>2, <1>4 DEF SessionInv, Loop
    <3>6. Supported(s, reply[s])' /\ Supported(s, outcome[s])'
      BY <1>2, <3>1, <3>3, ConstantOutcomes DEF Supported
    <3> QED BY <2>3, <3>4, <3>5, <3>6 DEF SessionInv
  <2> QED BY <2>2, <2>3
<1> QED BY <1>1, <1>6, <1>7, <1>8 DEF IInv

\* dispatch: the oldest job leaves the queue for a task of its own.
LEMMA DispatchKeeps == ASSUME IInv, dispatch PROVE IInv'
<1>0. /\ queue' \in Seq(Session) /\ Head(queue) \in Session /\ In(Head(queue), queue)
      /\ Once(queue') /\ ~In(Head(queue), queue') /\ \A t : In(t, queue') => In(t, queue)
  BY LeaveFacts DEF dispatch, IInv, TypeOK
<1>s. PICK s \in Session : s = Head(queue) BY <1>0
<1>1. /\ queue' \in Seq(Session) /\ In(s, queue) /\ Once(queue')
      /\ ~In(s, queue') /\ \A t : In(t, queue') => In(t, queue)
  BY <1>0, <1>s
<1>2. /\ UNCHANGED <<pc, method, senders, server, answers, reply, outcome, runtime>>
      /\ task' = [task EXCEPT ![s] = TRUE]
  BY <1>s DEF dispatch
<1>3. SessionInv(s) BY DEF IInv
<1>4. Fresh(s) /\ pc[s] \notin {"Idle", "Sending", "Done"} /\ outcome[s] = NoOutcome
  BY <1>1, <1>3 DEF SessionInv, Placed
<1>5. TypeOK' BY <1>1, <1>2 DEF IInv, TypeOK
<1>6. ASSUME NEW t \in Session PROVE SessionInv(t)'
  <2>1. SessionInv(t) BY DEF IInv
  <2>2. CASE t # s
    <3>1. task'[t] = task[t] BY <1>2, <2>2 DEF IInv, TypeOK
    <3> QED BY ZenonT(60), <1>1, <1>2, <2>1, <3>1, OthersKept
  <2>3. CASE t = s
    <3>1. Placed(s)' BY <1>1, <1>2, <1>3, <1>4 DEF SessionInv, Placed, Fresh
    <3>2. server[s] \in Server BY DEF IInv, TypeOK
    <3>3. Loop(s)' BY <1>2, <1>3, <1>4, <3>2 DEF SessionInv, Loop, Fresh
    <3>4. reply'[s] = NoOutcome /\ outcome'[s] = NoOutcome BY <1>2, <1>4 DEF Fresh
    <3>5. Supported(s, reply[s])' /\ Supported(s, outcome[s])'
      BY <3>4, ConstantOutcomes DEF Supported
    <3> QED BY <2>3, <3>1, <3>3, <3>5 DEF SessionInv
  <2> QED BY <2>2, <2>3
<1>7. Once(senders') BY <1>2 DEF IInv
<1> QED BY <1>1, <1>5, <1>6, <1>7 DEF IInv

\* The answer of a server: the next one is asked, or the verdict goes into the oneshot.
LEMMA AnsweredKeeps ==
    ASSUME IInv, NEW s \in Session, NEW a \in Answer, task[s], method[s] \in {"Pap", "Chap", "MsChap"},
           Answered(s, a, Result(method[s], a))
    PROVE  IInv'
<1> DEFINE r == Result(method[s], a)
           k == server[s]
<1>1. SessionInv(s) BY ZenonT(60) DEF IInv
<1>2. /\ pc[s] \notin {"Idle", "Sending", "Done"} /\ ~In(s, queue) /\ outcome[s] = NoOutcome
      /\ reply[s] = NoOutcome /\ answers[s][server[s]] = NoAnswer
  BY <1>1 DEF SessionInv, Placed, Fresh, Loop
<1>3. /\ a # NoAnswer
      /\ \/ r = NoOutcome /\ ~Authoritative(a)
         \/ r = Reject /\ a.code = "Reject"
         \/ /\ r \in Outcome /\ r.verdict = "Accept" /\ a.code = "Accept" /\ Authoritative(a)
            /\ r.hlak <=> method[s] = "MsChap" /\ a.send_key = 16 /\ a.recv_key = 16
  BY ResultFacts
<1>4. UNCHANGED <<pc, method, senders, queue, outcome, runtime>> BY DEF Answered
<1>5. server[s] \in Server /\ Server \subseteq Nat BY AuthBridgeAssumption DEF IInv, TypeOK, Server
<1>6. /\ answers' \in [Session -> [Server -> Answer \cup {NoAnswer}]]
      /\ answers'[s][server[s]] = a
      /\ \A i \in Server \ {server[s]} : answers'[s][i] = answers[s][i]
      /\ \A t \in Session \ {s} : answers'[t] = answers[t]
  BY <1>5 DEF Answered, IInv, TypeOK
<1>7. \/ /\ r = NoOutcome /\ server[s] < NumServers
         /\ server' = [server EXCEPT ![s] = server[s] + 1] /\ UNCHANGED <<task, reply>>
      \/ /\ r # NoOutcome \/ ~(server[s] < NumServers)
         /\ reply' = [reply EXCEPT ![s] = IF r = NoOutcome THEN Reject ELSE r]
         /\ task' = [task EXCEPT ![s] = FALSE] /\ UNCHANGED server
  BY DEF Answered
<1> HIDE DEF r
<1>8. TypeOK'
  <2>1. server' \in [Session -> Server]
    <3>1. server[s] < NumServers => server[s] + 1 \in Server BY ZenonT(60), <1>5, ServerNumbers
    <3> QED BY ZenonT(60), <1>7, <3>1 DEF IInv, TypeOK
  <2>2. reply' \in [Session -> Outcome]
    <3>1. (IF r = NoOutcome THEN Reject ELSE r) \in Outcome BY ZenonT(60), <1>3, ConstantOutcomes
    <3> QED BY ZenonT(60), <1>7, <3>1 DEF IInv, TypeOK
  <2>3. task' \in [Session -> BOOLEAN] BY ZenonT(60), <1>7 DEF IInv, TypeOK
  <2> QED BY <1>4, <1>6, <2>1, <2>2, <2>3 DEF IInv, TypeOK
<1>9. Once(senders') /\ Once(queue') BY <1>4 DEF IInv
<1>10. ASSUME NEW t \in Session, t # s PROVE SessionInv(t)'
  <2>1. SessionInv(t) BY DEF IInv
  <2>2. task'[t] = task[t] /\ server'[t] = server[t] /\ reply'[t] = reply[t]
    BY <1>7, <1>10 DEF IInv, TypeOK
  <2> QED BY <1>4, <1>6, <1>10, <2>1, <2>2, OthersKept
<1>11. \A i \in Server : i < server[s] => answers'[s][i] # NoAnswer /\ ~Authoritative(answers'[s][i])
  BY <1>1, <1>5, <1>6 DEF SessionInv, Loop
<1>12. \A i \in Server : i > server[s] => answers'[s][i] = NoAnswer
  BY ZenonT(60), <1>1, <1>5, <1>6 DEF SessionInv, Loop
<1>13. outcome'[s] = NoOutcome BY ZenonT(60), <1>2, <1>4
<1>14. Supported(s, outcome[s])' BY <1>13, ConstantOutcomes DEF Supported
<1>15. ASSUME server' = [server EXCEPT ![s] = server[s] + 1], UNCHANGED <<task, reply>>, r = NoOutcome
       PROVE  SessionInv(s)'
  <2>1. server'[s] = server[s] + 1 /\ task'[s] = task[s] /\ reply'[s] = NoOutcome
    BY ZenonT(60), <1>2, <1>15 DEF IInv, TypeOK
  <2>2. Placed(s)' BY ZenonT(60), <1>1, <1>2, <1>4, <1>13, <2>1 DEF SessionInv, Placed
  <2>3. Loop(s)'
    <3>0. server'[s] \in Server BY <1>8 DEF TypeOK
    <3>1. server'[s] \in Server /\ server'[s] > server[s]
      <4>1. server[s] + 1 > server[s] BY ZenonT(60), <1>5, ServerNumbers
      <4> QED BY ZenonT(60), <2>1, <3>0, <4>1
    <3>2. ~Authoritative(a) BY <1>3, <1>15, ConstantOutcomes
    <3>3. ASSUME NEW i \in Server, i < server'[s]
          PROVE  answers'[s][i] # NoAnswer /\ ~Authoritative(answers'[s][i])
      <4>1. CASE i < server[s]
        BY <1>11, <4>1
      <4>2. CASE i = server[s]
        BY <1>3, <1>6, <3>2, <4>2
      <4>3. i < server[s] + 1 BY ZenonT(60), <2>1, <3>3
      <4>4. i < server[s] \/ i = server[s] BY ZenonT(60), <1>5, <4>3, ServerNumbers
      <4> QED BY ZenonT(60), <4>1, <4>2, <4>4
    <3>4. ASSUME NEW i \in Server, i > server'[s] PROVE answers'[s][i] = NoAnswer
      <4>1. i > server[s] + 1 BY ZenonT(60), <2>1, <3>4
      <4>2. i > server[s] BY ZenonT(60), <1>5, <4>1, ServerNumbers
      <4> QED BY ZenonT(60), <1>12, <4>2
    <3>5. answers'[s][server'[s]] = NoAnswer BY <1>12, <3>1
    <3> QED BY <3>3, <3>4, <3>5 DEF Loop
  <2>4. Supported(s, reply[s])' BY <2>1, ConstantOutcomes DEF Supported
  <2> QED BY <1>14, <2>2, <2>3, <2>4 DEF SessionInv
<1>16. ASSUME r # NoOutcome \/ ~(server[s] < NumServers),
              reply' = [reply EXCEPT ![s] = IF r = NoOutcome THEN Reject ELSE r],
              task' = [task EXCEPT ![s] = FALSE], UNCHANGED server
       PROVE  SessionInv(s)'
  <2>1. /\ server'[s] = server[s] /\ task'[s] = FALSE
        /\ reply'[s] = IF r = NoOutcome THEN Reject ELSE r
    BY ZenonT(60), <1>16 DEF IInv, TypeOK
  <2>2. Placed(s)' BY ZenonT(60), <1>1, <1>2, <1>4, <1>13, <2>1 DEF SessionInv, Placed
  <2>3. Loop(s)' BY ZenonT(60), <1>11, <1>12, <2>1 DEF Loop
  <2>4. server[s] \in Asked(s)' BY <1>3, <1>5, <1>6 DEF Asked
  <2>5. Supported(s, reply[s])'
    <3>1. CASE r = NoOutcome
      <4>1. server[s] = NumServers BY ZenonT(60), <1>5, <1>16, <3>1, ServerNumbers
      <4>2. Asked(s)' = Server
        <5>1. ASSUME NEW i \in Server PROVE answers'[s][i] # NoAnswer
          <6>1. i < server[s] \/ i = server[s] BY ZenonT(60), <4>1, ServerNumbers
          <6> QED BY ZenonT(60), <1>3, <1>6, <1>11, <6>1
        <5> QED BY ZenonT(60), <5>1 DEF Asked
      <4> QED BY <2>1, <3>1, <4>2, ConstantOutcomes DEF Supported
    <3>2. CASE r = Reject
      BY ZenonT(60), <1>3, <1>6, <2>1, <2>4, <3>2, ConstantOutcomes DEF Supported
    <3>3. CASE r # NoOutcome /\ r # Reject
      <4>1. /\ r.verdict = "Accept" /\ a.code = "Accept" /\ Authoritative(a)
            /\ r.hlak <=> method[s] = "MsChap" /\ a.send_key = 16 /\ a.recv_key = 16
        BY ZenonT(60), <1>3, <3>3
      <4>2. reply'[s] = r /\ method'[s] = method[s] BY ZenonT(60), <1>4, <2>1, <3>3
      <4>3. r # Closed BY ZenonT(60), <4>1, ConstantOutcomes
      <4> QED BY ZenonT(60), <1>6, <2>4, <4>1, <4>2, <4>3 DEF Supported
    <3> QED BY <3>1, <3>2, <3>3
  <2> QED BY <1>14, <2>2, <2>3, <2>5 DEF SessionInv
<1>17. SessionInv(s)' BY <1>7, <1>15, <1>16
<1> QED BY <1>8, <1>9, <1>10, <1>17 DEF IInv

\* The session takes the verdict, or the drop of its sender, out of the oneshot.
LEMMA ReceiveKeeps == ASSUME IInv, NEW s \in Session, receive(s) PROVE IInv'
<1>1. SessionInv(s) BY DEF IInv
<1>2. /\ pc[s] = "Waiting" /\ reply[s] # NoOutcome
      /\ UNCHANGED <<method, senders, queue, task, server, answers, reply, runtime>>
  BY ZenonT(60) DEF receive
<1>3. ~task[s] /\ ~In(s, queue) /\ ~In(s, senders) BY <1>1, <1>2 DEF SessionInv, Placed, Fresh
<1>4. TypeOK' BY ConstantOutcomes DEF receive, IInv, TypeOK
<1>5. Once(senders') /\ Once(queue') BY <1>2 DEF IInv
<1>6. ASSUME NEW t \in Session PROVE SessionInv(t)'
  <2>1. SessionInv(t) BY DEF IInv
  <2>2. CASE t # s
    BY <2>1, <2>2, OthersKept DEF receive, IInv, TypeOK
  <2>3. CASE t = s
    <3>1. pc'[s] = "Done" /\ outcome'[s] = IF reply[s] = Closed THEN Reject ELSE reply[s]
      BY ZenonT(60) DEF receive, IInv, TypeOK
    <3>2. Placed(s)' BY <1>2, <1>3, <3>1 DEF Placed
    <3>3. Loop(s)' BY ZenonT(60), <1>1, <1>2 DEF SessionInv, Loop
    <3>4. Supported(s, reply[s])' BY <1>1, <1>2 DEF SessionInv, Supported, Asked
    <3>5. Supported(s, outcome[s])'
      <4>1. CASE reply[s] = Closed
        <5>1. runtime' = "Down" BY <1>1, <1>2, <4>1 DEF SessionInv, Supported
        <5>2. outcome'[s] = Reject BY ZenonT(60), <3>1, <4>1
        <5> QED BY ZenonT(60), <5>1, <5>2, ConstantOutcomes DEF Supported
      <4>2. CASE reply[s] # Closed
        <5>1. outcome'[s] = reply'[s] BY <1>2, <3>1, <4>2
        <5> QED BY <3>4, <5>1 DEF Supported
      <4> QED BY <4>1, <4>2
    <3> QED BY <2>3, <3>2, <3>3, <3>4, <3>5 DEF SessionInv
  <2> QED BY <2>2, <2>3
<1> QED BY <1>4, <1>5, <1>6 DEF IInv

\* The runtime's end drops a job and with it the oneshot's sender.
LEMMA DropJobKeeps == ASSUME IInv, NEW s \in Session, drop_job(s) PROVE IInv'
<1>1. SessionInv(s) BY DEF IInv
<1>2. /\ runtime = "Down" /\ task' = [task EXCEPT ![s] = FALSE] /\ reply' = [reply EXCEPT ![s] = Closed]
      /\ UNCHANGED <<pc, method, senders, server, answers, outcome, runtime>>
  BY DEF drop_job
<1>3. queue \in Seq(Session) /\ Once(queue) BY DEF IInv, TypeOK
<1>4. /\ queue' \in Seq(Session) /\ Once(queue') /\ ~In(s, queue') /\ (task[s] \/ In(s, queue))
      /\ \A t : In(t, queue') => In(t, queue)
  <2>1. CASE task[s] /\ queue' = queue
    <3>1. ~In(s, queue) BY ZenonT(60), <1>1, <2>1 DEF SessionInv, Placed, Fresh
    <3> QED BY ZenonT(60), <1>3, <2>1, <3>1
  <2>2. ASSUME NEW i \in 1..Len(queue), queue[i] = s, queue' = Without(queue, i)
        PROVE  /\ queue' \in Seq(Session) /\ Once(queue') /\ ~In(s, queue') /\ In(s, queue)
               /\ \A t : In(t, queue') => In(t, queue)
    <3>1. In(s, queue) BY <2>2 DEF In
    <3> QED BY <1>3, <2>2, <3>1, RemoveFacts
  <2> QED BY <2>1, <2>2 DEF drop_job
<1>5. TypeOK' BY ZenonT(60), <1>2, <1>4, ConstantOutcomes DEF IInv, TypeOK
<1>6. ASSUME NEW t \in Session PROVE SessionInv(t)'
  <2>1. SessionInv(t) BY DEF IInv
  <2>2. CASE t # s
    <3>1. task'[t] = task[t] /\ reply'[t] = reply[t] BY <1>2, <2>2 DEF IInv, TypeOK
    <3> QED BY ZenonT(60), <1>2, <1>4, <2>1, <3>1, OthersKept
  <2>3. CASE t = s
    <3>1. task'[s] = FALSE /\ reply'[s] = Closed BY <1>2 DEF IInv, TypeOK
    <3>2. pc[s] \notin {"Idle", "Sending", "Done"} BY <1>1, <1>4 DEF SessionInv, Placed, Fresh
    <3>3. Placed(s)' BY ZenonT(60), <1>1, <1>2, <1>4, <3>1, <3>2 DEF SessionInv, Placed
    <3>4. Loop(s)' BY ZenonT(60), <1>1, <1>2, <3>1 DEF SessionInv, Loop
    <3>5. Supported(s, reply[s])' BY ZenonT(60), <1>2, <3>1, ConstantOutcomes DEF Supported
    <3>6. Supported(s, outcome[s])' BY <1>1, <1>2 DEF SessionInv, Supported, Asked
    <3> QED BY <2>3, <3>3, <3>4, <3>5, <3>6 DEF SessionInv
  <2> QED BY <2>2, <2>3
<1>7. Once(senders') BY <1>2 DEF IInv
<1> QED BY <1>4, <1>5, <1>6, <1>7 DEF IInv

\* A session dropped by its worker leaves the senders.
LEMMA DropSessionKeeps == ASSUME IInv, NEW s \in Session, drop_session(s) PROVE IInv'
<1>1. SessionInv(s) BY DEF IInv
<1>2. /\ pc' = [pc EXCEPT ![s] = "Dropped"]
      /\ UNCHANGED <<method, queue, task, server, answers, reply, outcome, runtime>>
  BY DEF drop_session
<1>3. senders \in Seq(Session) /\ Once(senders) BY ZenonT(60) DEF IInv, TypeOK
<1>4. /\ senders' \in Seq(Session) /\ Once(senders') /\ ~In(s, senders') /\ pc[s] # "Done"
      /\ \A t : In(t, senders') => In(t, senders)
  <2>1. CASE pc[s] = "Waiting" /\ senders' = senders
    <3>1. ~In(s, senders) BY ZenonT(60), <1>1, <2>1 DEF SessionInv, Placed
    <3> QED BY ZenonT(60), <1>3, <2>1, <3>1
  <2>2. ASSUME NEW i \in 1..Len(senders), senders[i] = s, senders' = Without(senders, i)
        PROVE  /\ senders' \in Seq(Session) /\ Once(senders') /\ ~In(s, senders') /\ pc[s] # "Done"
               /\ \A t : In(t, senders') => In(t, senders)
    <3>1. In(s, senders) BY <2>2 DEF In
    <3>2. pc[s] = "Sending" BY <1>1, <3>1 DEF SessionInv, Placed
    <3> QED BY <1>3, <2>2, <3>2, RemoveFacts
  <2> QED BY <2>1, <2>2 DEF drop_session
<1>5. TypeOK' BY ZenonT(60), <1>2, <1>4 DEF IInv, TypeOK
<1>6. ASSUME NEW t \in Session PROVE SessionInv(t)'
  <2>1. SessionInv(t) BY DEF IInv
  <2>2. CASE t # s
    <3>1. pc'[t] = pc[t] BY <1>2, <2>2 DEF IInv, TypeOK
    <3> QED BY <1>2, <1>4, <2>1, <3>1, OthersKept
  <2>3. CASE t = s
    <3>1. pc'[s] = "Dropped" BY ZenonT(60), <1>2 DEF IInv, TypeOK
    <3>2. Placed(s)' BY ZenonT(60), <1>1, <1>2, <1>4, <3>1 DEF SessionInv, Placed, Fresh
    <3>3. Loop(s)' BY ZenonT(60), <1>1, <1>2 DEF SessionInv, Loop
    <3>4. Supported(s, reply[s])' /\ Supported(s, outcome[s])'
      BY ZenonT(60), <1>1, <1>2 DEF SessionInv, Supported, Asked
    <3> QED BY <2>3, <3>2, <3>3, <3>4 DEF SessionInv
  <2> QED BY <2>2, <2>3
<1>7. Once(queue') BY <1>2 DEF IInv
<1> QED BY <1>4, <1>5, <1>6, <1>7 DEF IInv

\* The next connection takes the place of a session that is over.
LEMMA AcceptKeeps == ASSUME IInv, NEW s \in Session, accept(s) PROVE IInv'
<1>1. SessionInv(s) BY DEF IInv
<1>2. 1 \in Server BY ServerNumbers
<1>3. ~task[s] /\ ~In(s, queue) /\ ~In(s, senders) BY <1>1 DEF accept, SessionInv, Placed
<1>4. UNCHANGED <<senders, queue, task, runtime>> BY DEF accept
<1>5. TypeOK' BY <1>2, ConstantOutcomes DEF accept, IInv, TypeOK
<1>6. ASSUME NEW t \in Session PROVE SessionInv(t)'
  <2>1. SessionInv(t) BY DEF IInv
  <2>2. CASE t # s
    BY <1>4, <2>1, <2>2, OthersKept DEF accept, IInv, TypeOK
  <2>3. CASE t = s
    <3>1. /\ pc'[s] = "Idle" /\ server'[s] = 1 /\ reply'[s] = NoOutcome /\ outcome'[s] = NoOutcome
          /\ \A i \in Server : answers'[s][i] = NoAnswer
      BY ZenonT(60) DEF accept, IInv, TypeOK
    <3>2. Placed(s)' BY <1>3, <1>4, <3>1 DEF Placed, Fresh
    <3>3. Loop(s)' BY <1>2, <3>1 DEF Loop, Server
    <3>4. Supported(s, reply[s])' /\ Supported(s, outcome[s])'
      BY <3>1, ConstantOutcomes DEF Supported
    <3> QED BY <2>3, <3>2, <3>3, <3>4 DEF SessionInv
  <2> QED BY <2>2, <2>3
<1>7. Once(senders') /\ Once(queue') BY <1>4 DEF IInv
<1> QED BY <1>5, <1>6, <1>7 DEF IInv

\* Every step keeps the invariant.
LEMMA NextKeeps == ASSUME IInv, [Next]_vars PROVE IInv'
<1>1. CASE UNCHANGED vars
  <2>1. UNCHANGED <<pc, method, senders, queue, task, server, answers, reply, outcome, runtime>>
    BY ZenonT(60), <1>1 DEF vars
  <2>2. ASSUME NEW t \in Session PROVE SessionInv(t)'
    <3>1. SessionInv(t) BY DEF IInv
    <3> QED BY <2>1, <3>1, OthersKept
  <2> QED BY <2>1, <2>2 DEF IInv, TypeOK, Once
<1>2. CASE send
  BY <1>2, SendKeeps
<1>3. CASE dispatch
  BY <1>3, DispatchKeeps
<1>4. CASE shutdown_background
  <2>1. /\ runtime' = "Down"
        /\ UNCHANGED <<pc, method, senders, queue, task, server, answers, reply, outcome>>
    BY ZenonT(60), <1>4 DEF shutdown_background
  <2>2. ASSUME NEW t \in Session PROVE SessionInv(t)'
    <3>1. SessionInv(t) BY DEF IInv
    <3> QED BY <2>1, <3>1, OthersKept
  <2> QED BY <2>1, <2>2 DEF IInv, TypeOK, Once
<1>5. ASSUME NEW s \in Session, NeedPapAuth(s) \/ NeedChapAuth(s) \/ NeedMsChapV2Auth(s) PROVE IInv'
  BY <1>5, SubmitKeeps DEF NeedPapAuth, NeedChapAuth, NeedMsChapV2Auth
<1>6. ASSUME NEW s \in Session, receive(s) PROVE IInv'
  BY <1>6, ReceiveKeeps
<1>7. ASSUME NEW s \in Session, run(s) PROVE IInv'
  <2>1. PICK a \in Answer : run_pap(s, a) \/ run_chap(s, a) \/ run_mschapv2(s, a) BY ZenonT(60), <1>7 DEF run
  <2>2. /\ task[s] /\ method[s] \in {"Pap", "Chap", "MsChap"}
        /\ Answered(s, a, Result(method[s], a))
    BY <2>1 DEF run_pap, run_chap, run_mschapv2, Result
  <2> QED BY <2>2, AnsweredKeeps
<1>8. ASSUME NEW s \in Session, drop_job(s) PROVE IInv'
  BY <1>8, DropJobKeeps
<1>9. ASSUME NEW s \in Session, drop_session(s) PROVE IInv'
  BY <1>9, DropSessionKeeps
<1>10. ASSUME NEW s \in Session, accept(s) PROVE IInv'
  BY <1>10, AcceptKeeps
<1> QED BY <1>1, <1>2, <1>3, <1>4, <1>5, <1>6, <1>7, <1>8, <1>9, <1>10 DEF Next

\* The invariant holds in every reachable state.
THEOREM InvariantHolds == Spec => []IInv
BY InitEstablishes, NextKeeps, PTL DEF Spec

\* A login's verdict follows from the servers' answers to its own request, however many
\* logins share the queue and whenever the runtime ends.
THEOREM VerdictsEarned == Spec => []VerdictEarned
<1>1. ASSUME IInv PROVE VerdictEarned
  <2> SUFFICES ASSUME NEW s \in Session
               PROVE  /\ \A i, j \in Asked(s) : i < j => ~Authoritative(answers[s][i])
                      /\ outcome[s].verdict = "Accept" =>
                            \E i \in Asked(s) :
                               /\ answers[s][i].code = "Accept" /\ Authoritative(answers[s][i])
                               /\ outcome[s].hlak <=> /\ method[s] = "MsChap" /\ answers[s][i].send_key = 16
                                                      /\ answers[s][i].recv_key = 16
                               /\ outcome[s].mtu \in UsableMtu
                      /\ outcome[s].verdict = "Reject" =>
                            \/ \E i \in Asked(s) : answers[s][i].code = "Reject"
                            \/ Asked(s) = Server \/ runtime = "Down"
    BY ZenonT(60) DEF VerdictEarned
  <2>1. Loop(s) /\ Supported(s, outcome[s]) BY <1>1 DEF IInv, SessionInv
  <2>2. server[s] \in Server /\ Server \subseteq Nat /\ outcome[s] \in Outcome
    BY <1>1, AuthBridgeAssumption DEF IInv, TypeOK, Server
  <2>3. ASSUME NEW i \in Asked(s), NEW j \in Asked(s), i < j PROVE ~Authoritative(answers[s][i])
    <3>1. i \in Server /\ j \in Server /\ ~(j > server[s]) BY <2>1 DEF Asked, Loop
    <3>2. i < server[s] BY ZenonT(60), <2>2, <2>3, <3>1, ServerNumbers
    <3> QED BY <2>1, <3>1, <3>2 DEF Loop
  <2>4. outcome[s].verdict = "Accept" => outcome[s].mtu \in UsableMtu
    BY <2>2 DEF Outcome
  <2>5. ASSUME outcome[s].verdict = "Accept"
        PROVE  \E i \in Asked(s) :
                  /\ answers[s][i].code = "Accept" /\ Authoritative(answers[s][i])
                  /\ outcome[s].hlak <=> /\ method[s] = "MsChap" /\ answers[s][i].send_key = 16
                                         /\ answers[s][i].recv_key = 16
                  /\ outcome[s].mtu \in UsableMtu
    <3>1. PICK i \in Asked(s) :
             /\ answers[s][i].code = "Accept" /\ Authoritative(answers[s][i])
             /\ outcome[s].hlak <=> /\ method[s] = "MsChap" /\ answers[s][i].send_key = 16
                                    /\ answers[s][i].recv_key = 16
      BY ZenonT(60), <2>1, <2>5 DEF Supported
    <3> WITNESS i \in Asked(s)
    <3> QED BY ZenonT(60), <2>4, <2>5, <3>1
  <2>6. outcome[s].verdict = "Reject" => \/ \E i \in Asked(s) : answers[s][i].code = "Reject"
                                         \/ Asked(s) = Server \/ runtime = "Down"
    BY <2>1 DEF Supported
  <2> QED BY ZenonT(60), <2>3, <2>5, <2>6
<1> QED BY <1>1, InvariantHolds, PTL
=============================================================================

----------------------------- MODULE AuthBridge -----------------------------
(***************************************************************************)
(* RADIUS authentication (src/src/auth/bridge.rs, client.rs, reply.rs and  *)
(* the auth events of src/src/session.rs): session tasks submit a job to a *)
(* bounded queue and wait, a dispatcher on the auth runtime spawns a task  *)
(* per job that asks the servers in order, and the verdict comes back      *)
(* through a oneshot.  At shutdown the runtime ends before the sessions do.*)
(*                                                                         *)
(* The RADIUS client is a library: a request ends with a verified answer   *)
(* or an error after its retries.  An answer is its code and the attributes*)
(* the code looks at; texts are left out.                                  *)
(***************************************************************************)
EXTENDS Integers, Sequences

CONSTANTS
    Session,
    NumServers,     \* --radius servers, tried in order
    QUEUE_DEPTH,    \* bridge.rs
    Answer          \* what a server's exchange can end with

ASSUME AuthBridgeAssumption == NumServers \in Nat \ {0} /\ QUEUE_DEPTH \in Nat \ {0}

\* A reply's code, or how the client failed; what an Access-Accept carries.  A key is its
\* length: 0 when the attribute is absent, -1 when mppe_key cannot decrypt it.
ASSUME AnswerAssumption ==
    \A a \in Answer :
       /\ a.code \in {"Accept", "Reject", "Challenge", "Timeout", "Io"}
       /\ a.code = "Accept" => /\ a.ip \in BOOLEAN /\ a.mtu \in Nat
                               /\ a.send_key \in Nat \cup {-1} /\ a.recv_key \in Nat \cup {-1}

VARIABLES
    pc,         \* where each session is: "Idle", "Sending", "Waiting", "Done" or "Dropped"
    method,     \* AuthMethod of its job
    senders,    \* sessions in send().await, first come first served
    queue,      \* the dispatcher's channel
    task,       \* the job's task is spawned
    server,     \* the server it asks
    answers,    \* what the servers answered (history)
    reply,      \* the oneshot: NoOutcome while empty, Closed when its sender is gone
    outcome,    \* what the session made of it
    runtime     \* "Up", or "Down" from shutdown_background on

vars == <<pc, method, senders, queue, task, server, answers, reply, outcome, runtime>>

Server == 1..NumServers
NoAnswer == [code |-> "None"]

\* A queue without the element at i.
Without(q, i) == SubSeq(q, 1, i - 1) \o SubSeq(q, i + 1, Len(q))

-----------------------------------------------------------------------------
(* Verdicts.                                                               *)

Reject == [verdict |-> "Reject", mtu |-> 0, shaping |-> FALSE, hlak |-> FALSE]
NoOutcome == [verdict |-> "None", mtu |-> 0, shaping |-> FALSE, hlak |-> FALSE]
Closed == [verdict |-> "Closed", mtu |-> 0, shaping |-> FALSE, hlak |-> FALSE]

\* decode_accept needs an address, and keys that decrypt if they are there.
decode_accept(a) == a.ip /\ a.send_key # -1 /\ a.recv_key # -1

\* mikrotik_rate_limit: a value that does not parse is as good as none.
mikrotik_rate_limit(a) == a.rate = "Parses"

\* hlak_from_mppe: both keys, in their 16-byte form.
hlak_from_mppe(a) == a.send_key = 16 /\ a.recv_key = 16

\* project_addrs: a Framed-MTU wider than 16 bits is dropped, others are clamped; 0 is None.
project_addrs(mtu) == IF mtu = 0 \/ mtu > 65535 THEN 0
                      ELSE IF mtu < 576 THEN 576 ELSE IF mtu > 1500 THEN 1500 ELSE mtu

accept_outcome(a) ==
    [verdict |-> "Accept", mtu |-> project_addrs(a.mtu), shaping |-> mikrotik_rate_limit(a), hlak |-> FALSE]

\* project_terminal, for PAP and CHAP-MD5; NoOutcome is every error but Rejected.
project_terminal(a) == CASE a.code = "Accept" /\ decode_accept(a) -> accept_outcome(a)
                         [] a.code = "Reject" -> Reject
                         [] OTHER -> NoOutcome

\* authenticate_pap, authenticate_chap_md5: an error of the client is a Transport error.
authenticate(a) == IF a.code \in {"Timeout", "Io"} THEN NoOutcome ELSE project_terminal(a)

\* The match of run_mschapv2; only it hands out the binding key.
project_mschapv2(a) == CASE a.code = "Accept" /\ decode_accept(a) -> [accept_outcome(a) EXCEPT !.hlak = hlak_from_mppe(a)]
                         [] a.code = "Reject" -> Reject
                         [] OTHER -> NoOutcome

Init ==
    /\ pc = [s \in Session |-> "Idle"] /\ method = [s \in Session |-> "None"]
    /\ senders = <<>> /\ queue = <<>> /\ task = [s \in Session |-> FALSE] /\ server = [s \in Session |-> 1]
    /\ answers = [s \in Session |-> [i \in Server |-> NoAnswer]]
    /\ reply = [s \in Session |-> NoOutcome] /\ outcome = [s \in Session |-> NoOutcome]
    /\ runtime = "Up"

-----------------------------------------------------------------------------
(* The session's side.                                                     *)

\* submit_pap, submit_chap, submit_mschapv2: the job waits for room in the queue.
submit(s, m) ==
    /\ pc[s] = "Idle" /\ pc' = [pc EXCEPT ![s] = "Sending"]
    /\ method' = [method EXCEPT ![s] = m] /\ senders' = Append(senders, s)
    /\ UNCHANGED <<queue, task, server, answers, reply, outcome, runtime>>

NeedPapAuth(s) == submit(s, "Pap")
NeedChapAuth(s) == submit(s, "Chap")
NeedMsChapV2Auth(s) == submit(s, "MsChap")

\* dispatch_basic: the send goes through, or fails since the receiver is gone.
send ==
    /\ senders # <<>> /\ senders' = Tail(senders)
    /\ LET s == Head(senders) IN
       \/ /\ runtime = "Up" /\ Len(queue) < QUEUE_DEPTH
          /\ queue' = Append(queue, s) /\ pc' = [pc EXCEPT ![s] = "Waiting"] /\ UNCHANGED outcome
       \/ /\ runtime = "Down"
          /\ pc' = [pc EXCEPT ![s] = "Done"] /\ outcome' = [outcome EXCEPT ![s] = Reject] /\ UNCHANGED queue
    /\ UNCHANGED <<method, task, server, answers, reply, runtime>>

\* The verdict, or a dropped sender, which is a reject.
receive(s) ==
    /\ pc[s] = "Waiting" /\ reply[s] # NoOutcome
    /\ outcome' = [outcome EXCEPT ![s] = IF reply[s] = Closed THEN Reject ELSE reply[s]]
    /\ pc' = [pc EXCEPT ![s] = "Done"]
    /\ UNCHANGED <<method, senders, queue, task, server, answers, reply, runtime>>

-----------------------------------------------------------------------------
(* The auth runtime.                                                       *)

\* Mutant: the dispatcher runs a job itself and takes the next one after it.
dispatch_inline ==
    /\ runtime = "Up" /\ queue # <<>> /\ \A s \in Session : ~task[s]
    /\ queue' = Tail(queue) /\ task' = [task EXCEPT ![Head(queue)] = TRUE]
    /\ UNCHANGED <<pc, method, senders, server, answers, reply, outcome, runtime>>

\* The dispatcher spawns a task for the oldest job.
dispatch ==
    /\ runtime = "Up" /\ queue # <<>>
    /\ queue' = Tail(queue) /\ task' = [task EXCEPT ![Head(queue)] = TRUE]
    /\ UNCHANGED <<pc, method, senders, server, answers, reply, outcome, runtime>>

\* The loop over the servers: an outcome ends it, an error goes on to the next server,
\* and after the last one it is transport_failure.
Answered(s, a, result) ==
    /\ answers' = [answers EXCEPT ![s][server[s]] = a]
    /\ IF result = NoOutcome /\ server[s] < NumServers
       THEN server' = [server EXCEPT ![s] = @ + 1] /\ UNCHANGED <<task, reply>>
       ELSE /\ reply' = [reply EXCEPT ![s] = IF result = NoOutcome THEN Reject ELSE result]
            /\ task' = [task EXCEPT ![s] = FALSE] /\ UNCHANGED server
    /\ UNCHANGED <<pc, method, senders, queue, outcome, runtime>>

run_pap(s, a) == task[s] /\ method[s] = "Pap" /\ Answered(s, a, authenticate(a))
run_chap(s, a) == task[s] /\ method[s] = "Chap" /\ Answered(s, a, authenticate(a))

\* Mutant: an Access-Reject goes on to the next server like the errors do.
run_mschapv2_past_reject(s, a) ==
    /\ task[s] /\ method[s] = "MsChap"
    /\ Answered(s, a, IF a.code = "Reject" THEN NoOutcome ELSE project_mschapv2(a))

run_mschapv2(s, a) == task[s] /\ method[s] = "MsChap" /\ Answered(s, a, project_mschapv2(a))

\* main: the runtime ends in the background while workers still run sessions.
shutdown_background ==
    /\ runtime = "Up" /\ runtime' = "Down"
    /\ UNCHANGED <<pc, method, senders, queue, task, server, answers, reply, outcome>>

\* Mutant: a job dropped with the runtime keeps the sender of its oneshot.
drop_job_keeps_sender(s) ==
    /\ runtime = "Down"
    /\ \/ task[s] /\ UNCHANGED queue
       \/ \E i \in 1..Len(queue) : queue[i] = s /\ queue' = Without(queue, i)
    /\ task' = [task EXCEPT ![s] = FALSE]
    /\ UNCHANGED <<pc, method, senders, server, answers, reply, outcome, runtime>>

\* The runtime drops what is queued and what is running, and with it the oneshot's sender.
drop_job(s) ==
    /\ runtime = "Down"
    /\ \/ task[s] /\ UNCHANGED queue
       \/ \E i \in 1..Len(queue) : queue[i] = s /\ queue' = Without(queue, i)
    /\ task' = [task EXCEPT ![s] = FALSE] /\ reply' = [reply EXCEPT ![s] = Closed]
    /\ UNCHANGED <<pc, method, senders, server, answers, outcome, runtime>>

\* A worker ends and drops the session that waits; its job goes on.
drop_session(s) ==
    /\ runtime = "Down" /\ pc' = [pc EXCEPT ![s] = "Dropped"]
    /\ \/ pc[s] = "Waiting" /\ UNCHANGED senders
       \/ \E i \in 1..Len(senders) : senders[i] = s /\ senders' = Without(senders, i)
    /\ UNCHANGED <<method, queue, task, server, answers, reply, outcome, runtime>>

\* The next connection in the place of a session that is over.
accept(s) ==
    /\ pc[s] = "Done" /\ pc' = [pc EXCEPT ![s] = "Idle"]
    /\ method' = [method EXCEPT ![s] = "None"] /\ server' = [server EXCEPT ![s] = 1]
    /\ answers' = [answers EXCEPT ![s] = [i \in Server |-> NoAnswer]]
    /\ reply' = [reply EXCEPT ![s] = NoOutcome] /\ outcome' = [outcome EXCEPT ![s] = NoOutcome]
    /\ UNCHANGED <<senders, queue, task, runtime>>

run(s) == \E a \in Answer : run_pap(s, a) \/ run_chap(s, a) \/ run_mschapv2(s, a)

Next ==
    \/ send \/ dispatch \/ shutdown_background
    \/ \E s \in Session : \/ NeedPapAuth(s) \/ NeedChapAuth(s) \/ NeedMsChapV2Auth(s) \/ receive(s)
                          \/ run(s) \/ drop_job(s) \/ drop_session(s) \/ accept(s)

\* The runtimes schedule what is ready; a server need not answer.
Fairness ==
    /\ WF_vars(send) /\ WF_vars(dispatch)
    /\ \A s \in Session : WF_vars(receive(s)) /\ WF_vars(drop_job(s))

Spec == Init /\ [][Next]_vars /\ Fairness

-----------------------------------------------------------------------------
(* Properties.                                                             *)

Authoritative(a) == a.code = "Reject" \/ (a.code = "Accept" /\ a.ip /\ a.send_key >= 0 /\ a.recv_key >= 0)
Asked(s) == {i \in Server : answers[s][i] # NoAnswer}

\* No Framed-MTU, or one the netdev can take.
UsableMtu == {0} \cup 576..1500

\* A login is accepted only on a usable Access-Accept to its own request from the last
\* server asked, no server is asked once one has answered with authority (an Access-Reject
\* included), and only MS-CHAPv2 with both keys yields a binding key; until then a reject
\* takes every server having failed, or the runtime's end.
VerdictEarned ==
    \A s \in Session :
       /\ \A i, j \in Asked(s) : i < j => ~Authoritative(answers[s][i])
       /\ outcome[s].verdict = "Accept" =>
             \E i \in Asked(s) : /\ answers[s][i].code = "Accept" /\ Authoritative(answers[s][i])
                                 /\ outcome[s].hlak <=> /\ method[s] = "MsChap" /\ answers[s][i].send_key = 16
                                                        /\ answers[s][i].recv_key = 16
                                 /\ outcome[s].mtu \in UsableMtu
       /\ outcome[s].verdict = "Reject" => \/ \E i \in Asked(s) : answers[s][i].code = "Reject"
                                           \/ Asked(s) = Server \/ runtime = "Down"

\* A server that never answers holds up the sessions it was asked about and no other: a
\* job gets into the queue and out of it whatever becomes of the jobs before it.
NoHeadOfLineBlocking ==
    \A s \in Session : pc[s] = "Sending" \/ (\E i \in 1..Len(queue) : queue[i] = s)
                       ~> pc[s] # "Sending" /\ \A i \in 1..Len(queue) : queue[i] # s

\* Every login that reaches the bridge gets its verdict provided the client's retries end,
\* also when the runtime ends under it, unless the session itself is dropped.
EveryLoginAnswered ==
    (\A s \in Session : WF_vars(run(s)))
    => \A s \in Session : pc[s] = "Sending" ~> pc[s] \in {"Done", "Dropped"}

=============================================================================

---------------------------- MODULE ServerProofs ----------------------------
(***************************************************************************)
(* Proofs about Server, for any number of workers, sessions and sends.     *)
(***************************************************************************)
EXTENDS Server, TLAPS

-----------------------------------------------------------------------------
(* The inductive invariant.                                                *)

\* A receiver has seen at most what was sent, and the main thread has not sent before Signal.
SeenSent ==
    /\ \A s \in Session : seen[s] <= version
    /\ \A s \in Session : stage[s] = "Unused" => seen[s] = 0
    /\ main = "Serving" => version <= MaxSends

\* A worker is past the watch's arm of its select only if nothing had been sent when it looked
\* there, and its sessions do not run before it comes back to the top.
AcceptedBefore ==
    \A w \in Worker : worker[w] \in {"Selecting", "Accepting"} => \A s \in Tasks(w) : seen[s] = 0

IInv == TypeOK /\ RegistryExact /\ SeenSent /\ AcceptedBefore /\ AtMostOneUnaware

-----------------------------------------------------------------------------
(* Every step keeps the invariant.                                         *)

\* A command sent to a channel leaves it within its depth.
LEMMA SendTypes ==
    ASSUME NEW chan \in Seq(Command), Len(chan) <= CONTROL_CHANNEL_DEPTH, NEW cmd \in Command
    PROVE  try_send(chan, cmd) \in Seq(Command) /\ Len(try_send(chan, cmd)) <= CONTROL_CHANNEL_DEPTH
<1>1. Len(chan) \in Nat OBVIOUS
<1>2. CASE Len(chan) < CONTROL_CHANNEL_DEPTH
  <2>1. try_send(chan, cmd) = Append(chan, cmd) BY <1>2 DEF try_send
  <2>2. Append(chan, cmd) \in Seq(Command) /\ Len(Append(chan, cmd)) = Len(chan) + 1
    OBVIOUS
  <2> QED BY <1>1, <1>2, <2>1, <2>2, ServerAssumption
<1>3. CASE ~(Len(chan) < CONTROL_CHANNEL_DEPTH)
  BY <1>3 DEF try_send
<1> QED BY <1>2, <1>3

\* Initially nothing was sent and nobody has connected.
LEMMA InitEstablishes == Init => IInv
<1> SUFFICES ASSUME Init PROVE IInv OBVIOUS
<1>1. TypeOK
  <2>1. <<>> \in Seq(Command) /\ Len(<<>>) = 0 OBVIOUS
  <2> QED BY <2>1, ServerAssumption DEF Init, TypeOK
<1>2. RegistryExact BY DEF Init, RegistryExact, Live
<1>3. SeenSent BY ServerAssumption DEF Init, SeenSent
<1>4. AcceptedBefore /\ AtMostOneUnaware
  BY DEF Init, AcceptedBefore, AtMostOneUnaware, Unaware, Tasks, Live
<1> QED BY <1>1, <1>2, <1>3, <1>4 DEF IInv

\* A session task that returns, from whatever stage, keeps the invariant.
LEMMA EndKeeps ==
    ASSUME IInv, NEW s \in Session, Scheduled(s), End(s),
           UNCHANGED <<version, main, targets, worker, auth_runtime, admin>>
    PROVE  IInv'
<1>1. TypeOK'
  <2>1. <<>> \in Seq(Command) /\ Len(<<>>) = 0 OBVIOUS
  <2> QED BY <2>1, ServerAssumption DEF End, IInv, TypeOK
<1>2. RegistryExact'
  BY DEF End, IInv, TypeOK, RegistryExact, Live
<1>3. SeenSent'
  BY ServerAssumption DEF End, IInv, TypeOK, SeenSent
<1>4. AcceptedBefore'
  BY DEF End, IInv, TypeOK, AcceptedBefore, Tasks, Live
<1>5. AtMostOneUnaware'
  BY DEF End, IInv, TypeOK, AtMostOneUnaware, Unaware, Tasks, Live
<1> QED BY <1>1, <1>2, <1>3, <1>4, <1>5 DEF IInv

\* One step of the main thread, a worker, a session or an operator.
LEMMA NextKeeps == ASSUME IInv, [Next]_vars PROVE IInv'
<1> USE ServerAssumption DEF sessions
<1>0. CASE UNCHANGED vars
  BY <1>0 DEF vars, IInv, TypeOK, RegistryExact, SeenSent, AcceptedBefore, AtMostOneUnaware, Unaware, Tasks, Live
<1>1. CASE AdminShutdown
  <2>1. TypeOK'
    BY <1>1 DEF AdminShutdown, IInv, TypeOK, SeenSent, Command
  <2>2. RegistryExact'
    BY <1>1 DEF AdminShutdown, IInv, TypeOK, RegistryExact, Live, Tasks
  <2>3. SeenSent'
    BY <1>1 DEF AdminShutdown, IInv, TypeOK, SeenSent
  <2>4. AcceptedBefore'
    BY <1>1 DEF AdminShutdown, IInv, TypeOK, SeenSent, AcceptedBefore, Tasks, Live
  <2>5. AtMostOneUnaware'
    BY <1>1 DEF AdminShutdown, IInv, TypeOK, SeenSent, AcceptedBefore, AtMostOneUnaware, Unaware, Tasks, Live
  <2> QED BY <2>1, <2>2, <2>3, <2>4, <2>5 DEF IInv
<1>2. CASE Signal
  <2>1. TypeOK'
    BY <1>2 DEF Signal, IInv, TypeOK, SeenSent, Command
  <2>2. RegistryExact'
    BY <1>2 DEF Signal, IInv, TypeOK, RegistryExact, Live, Tasks
  <2>3. SeenSent'
    BY <1>2 DEF Signal, IInv, TypeOK, SeenSent
  <2>4. AcceptedBefore'
    BY <1>2 DEF Signal, IInv, TypeOK, SeenSent, AcceptedBefore, Tasks, Live
  <2>5. AtMostOneUnaware'
    BY <1>2 DEF Signal, IInv, TypeOK, SeenSent, AcceptedBefore, AtMostOneUnaware, Unaware, Tasks, Live
  <2> QED BY <2>1, <2>2, <2>3, <2>4, <2>5 DEF IInv
<1>3. CASE CountSessions
  <2>1. TypeOK'
    BY ZenonT(60), <1>3 DEF CountSessions, IInv, TypeOK, SeenSent, Command
  <2>2. RegistryExact'
    BY <1>3 DEF CountSessions, IInv, TypeOK, RegistryExact, Live, Tasks
  <2>3. SeenSent'
    BY <1>3 DEF CountSessions, IInv, TypeOK, SeenSent
  <2>4. AcceptedBefore'
    BY <1>3 DEF CountSessions, IInv, TypeOK, SeenSent, AcceptedBefore, Tasks, Live
  <2>5. AtMostOneUnaware'
    BY <1>3 DEF CountSessions, IInv, TypeOK, SeenSent, AcceptedBefore, AtMostOneUnaware, Unaware, Tasks, Live
  <2> QED BY <2>1, <2>2, <2>3, <2>4, <2>5 DEF IInv
<1>4. CASE DrainOver
  <2>1. TypeOK'
    BY ZenonT(60), <1>4 DEF DrainOver, IInv, TypeOK, SeenSent, Command
  <2>2. RegistryExact'
    BY <1>4 DEF DrainOver, IInv, TypeOK, RegistryExact, Live, Tasks
  <2>3. SeenSent'
    BY <1>4 DEF DrainOver, IInv, TypeOK, SeenSent
  <2>4. AcceptedBefore'
    BY <1>4 DEF DrainOver, IInv, TypeOK, SeenSent, AcceptedBefore, Tasks, Live
  <2>5. AtMostOneUnaware'
    BY <1>4 DEF DrainOver, IInv, TypeOK, SeenSent, AcceptedBefore, AtMostOneUnaware, Unaware, Tasks, Live
  <2> QED BY <2>1, <2>2, <2>3, <2>4, <2>5 DEF IInv
<1>5. CASE Join
  <2>1. TypeOK'
    BY <1>5 DEF Join, IInv, TypeOK, SeenSent, Command
  <2>2. RegistryExact'
    BY <1>5 DEF Join, IInv, TypeOK, RegistryExact, Live, Tasks
  <2>3. SeenSent'
    BY <1>5 DEF Join, IInv, TypeOK, SeenSent
  <2>4. AcceptedBefore'
    BY <1>5 DEF Join, IInv, TypeOK, SeenSent, AcceptedBefore, Tasks, Live
  <2>5. AtMostOneUnaware'
    BY <1>5 DEF Join, IInv, TypeOK, SeenSent, AcceptedBefore, AtMostOneUnaware, Unaware, Tasks, Live
  <2> QED BY <2>1, <2>2, <2>3, <2>4, <2>5 DEF IInv
<1>6. ASSUME NEW w \in Worker, PollShutdown(w) PROVE IInv'
  <2>1. TypeOK'
    BY <1>6 DEF PollShutdown, IInv, TypeOK, SeenSent, Command
  <2>2. RegistryExact'
    BY <1>6 DEF PollShutdown, IInv, TypeOK, RegistryExact, Live, Tasks
  <2>3. SeenSent'
    BY <1>6 DEF PollShutdown, IInv, TypeOK, SeenSent
  <2>4. AcceptedBefore'
    BY <1>6 DEF PollShutdown, IInv, TypeOK, SeenSent, AcceptedBefore, Tasks, Live
  <2>5. AtMostOneUnaware'
    BY <1>6 DEF PollShutdown, IInv, TypeOK, SeenSent, AcceptedBefore, AtMostOneUnaware, Unaware, Tasks, Live
  <2> QED BY <2>1, <2>2, <2>3, <2>4, <2>5 DEF IInv
<1>7. ASSUME NEW w \in Worker, Idle(w) PROVE IInv'
  <2>1. TypeOK'
    BY <1>7 DEF Idle, IInv, TypeOK, SeenSent, Command
  <2>2. RegistryExact'
    BY <1>7 DEF Idle, IInv, TypeOK, RegistryExact, Live, Tasks
  <2>3. SeenSent'
    BY <1>7 DEF Idle, IInv, TypeOK, SeenSent
  <2>4. AcceptedBefore'
    BY <1>7 DEF Idle, IInv, TypeOK, SeenSent, AcceptedBefore, Tasks, Live
  <2>5. AtMostOneUnaware'
    BY <1>7 DEF Idle, IInv, TypeOK, SeenSent, AcceptedBefore, AtMostOneUnaware, Unaware, Tasks, Live
  <2> QED BY <2>1, <2>2, <2>3, <2>4, <2>5 DEF IInv
<1>8. ASSUME NEW w \in Worker, WorkerTick(w) PROVE IInv'
  <2>1. TypeOK'
    <3>1. \A s \in Session : /\ control_rx[s] \in Seq(Command)
                             /\ Len(control_rx[s]) <= CONTROL_CHANNEL_DEPTH
      BY DEF IInv, TypeOK
    <3>2. \A s \in Session : /\ try_send(control_rx[s], "PeriodicTick") \in Seq(Command)
                             /\ Len(try_send(control_rx[s], "PeriodicTick")) <= CONTROL_CHANNEL_DEPTH
      BY <3>1, SendTypes DEF Command
    <3>3. control_rx' = [s \in Session |-> IF s \in Tasks(w) THEN try_send(control_rx[s], "PeriodicTick")
                                           ELSE control_rx[s]]
      BY <1>8 DEF WorkerTick
    <3>4. /\ control_rx' \in [Session -> Seq(Command)]
          /\ \A s \in Session : Len(control_rx'[s]) <= CONTROL_CHANNEL_DEPTH
      BY <3>1, <3>2, <3>3
    <3> QED BY <1>8, <3>4 DEF WorkerTick, IInv, TypeOK
  <2>2. RegistryExact'
    BY <1>8 DEF WorkerTick, IInv, TypeOK, RegistryExact, Live, Tasks
  <2>3. SeenSent'
    BY <1>8 DEF WorkerTick, IInv, TypeOK, SeenSent
  <2>4. AcceptedBefore'
    BY <1>8 DEF WorkerTick, IInv, TypeOK, SeenSent, AcceptedBefore, Tasks, Live
  <2>5. AtMostOneUnaware'
    BY <1>8 DEF WorkerTick, IInv, TypeOK, SeenSent, AcceptedBefore, AtMostOneUnaware, Unaware, Tasks, Live
  <2> QED BY <2>1, <2>2, <2>3, <2>4, <2>5 DEF IInv
<1>9. ASSUME NEW w \in Worker, drain_phase(w) PROVE IInv'
  <2>1. TypeOK'
    <3>1. stage' \in [Session -> {"Unused", "Registered", "Handshake", "Preamble", "Driving", "Closing", "Ended"}]
      BY <1>9 DEF drain_phase, IInv, TypeOK
    <3>2. /\ control_rx' \in [Session -> Seq(Command)]
          /\ \A s \in Session : Len(control_rx'[s]) <= CONTROL_CHANNEL_DEPTH
      BY SMTT(40), <1>9, ServerAssumption DEF drain_phase, IInv, TypeOK
    <3>3. seen' \in [Session -> Nat] /\ owner' \in [Session -> Worker \cup {"None"}]
      BY <1>9 DEF drain_phase, IInv, TypeOK
    <3>4. worker' \in [Worker -> {"Top", "Selecting", "Accepting", "Draining", "Exited"}]
      BY <1>9 DEF drain_phase, IInv, TypeOK
    <3> QED BY <1>9, <3>1, <3>2, <3>3, <3>4 DEF drain_phase, IInv, TypeOK
  <2>2. RegistryExact'
    BY <1>9 DEF drain_phase, IInv, TypeOK, RegistryExact, Live, Tasks
  <2>3. SeenSent'
    BY <1>9 DEF drain_phase, IInv, TypeOK, SeenSent
  <2>4. AcceptedBefore'
    BY <1>9 DEF drain_phase, IInv, TypeOK, SeenSent, AcceptedBefore, Tasks, Live
  <2>5. AtMostOneUnaware'
    BY <1>9 DEF drain_phase, IInv, TypeOK, SeenSent, AcceptedBefore, AtMostOneUnaware, Unaware, Tasks, Live
  <2> QED BY <2>1, <2>2, <2>3, <2>4, <2>5 DEF IInv
<1>10. ASSUME NEW w \in Worker, NEW s \in Session, spawn_handle(w, s) PROVE IInv'
  <2>1. TypeOK'
    BY <1>10 DEF spawn_handle, IInv, TypeOK, SeenSent, Command
  <2>2. RegistryExact'
    BY <1>10 DEF spawn_handle, IInv, TypeOK, RegistryExact, Live, Tasks
  <2>3. SeenSent'
    BY <1>10 DEF spawn_handle, IInv, TypeOK, SeenSent
  <2>4. AcceptedBefore'
    BY <1>10 DEF spawn_handle, IInv, TypeOK, SeenSent, AcceptedBefore, Tasks, Live
  <2>5. AtMostOneUnaware'
    BY <1>10 DEF spawn_handle, IInv, TypeOK, SeenSent, AcceptedBefore, AtMostOneUnaware, Unaware, Tasks, Live
  <2> QED BY <2>1, <2>2, <2>3, <2>4, <2>5 DEF IInv
<1>11. ASSUME NEW w \in Worker, NEW s \in Session, spawn_session(w, s) PROVE IInv'
  <2>1. TypeOK'
    BY <1>11 DEF spawn_session, IInv, TypeOK, SeenSent, Command
  <2>2. RegistryExact'
    BY <1>11 DEF spawn_session, IInv, TypeOK, RegistryExact, Live, Tasks
  <2>3. SeenSent'
    BY <1>11 DEF spawn_session, IInv, TypeOK, SeenSent
  <2>4. AcceptedBefore'
    BY <1>11 DEF spawn_session, IInv, TypeOK, SeenSent, AcceptedBefore, Tasks, Live
  <2>5. AtMostOneUnaware'
    BY <1>11 DEF spawn_session, IInv, TypeOK, SeenSent, AcceptedBefore, AtMostOneUnaware, Unaware, Tasks, Live
  <2> QED BY <2>1, <2>2, <2>3, <2>4, <2>5 DEF IInv
<1>12. ASSUME NEW s \in Session, DrainSeen(s) PROVE IInv'
  <2>0. /\ Scheduled(s) /\ UNCHANGED <<version, main, targets, worker, auth_runtime, admin>>
        /\ stage[s] \in {"Handshake", "Driving", "Closing"}
    BY <1>12 DEF DrainSeen
  <2>1. CASE End(s)
    BY <2>0, <2>1, EndKeeps
  <2>2. CASE /\ stage[s] # "Handshake"
             /\ seen' = [seen EXCEPT ![s] = version] /\ stage' = [stage EXCEPT ![s] = "Closing"]
             /\ UNCHANGED <<owner, control_rx, registry>>
    <3>0. stage[s] \in {"Driving", "Closing"} /\ stage' = [stage EXCEPT ![s] = stage'[s]]
          /\ stage'[s] \in {"Driving", "Closing"}
      BY <2>0, <2>2 DEF IInv, TypeOK
    <3>1. TypeOK'
      BY <2>0, <2>2 DEF IInv, TypeOK
    <3>2. RegistryExact'
      BY <2>0, <2>2, <3>0 DEF IInv, TypeOK, RegistryExact, Live
    <3>3. SeenSent'
      BY <2>0, <2>2, <3>0 DEF IInv, TypeOK, SeenSent
    <3>4. AcceptedBefore'
      BY <2>0, <2>2, <3>0 DEF Scheduled, IInv, TypeOK, AcceptedBefore, Tasks, Live
    <3>5. AtMostOneUnaware'
      BY <2>0, <2>2, <3>0 DEF IInv, TypeOK, AtMostOneUnaware, Unaware, Tasks, Live
    <3> QED BY <3>1, <3>2, <3>3, <3>4, <3>5 DEF IInv
  <2> QED BY <1>12, <2>1, <2>2 DEF DrainSeen
<1>13. ASSUME NEW s \in Session, Control(s) PROVE IInv'
  <2>0. /\ Scheduled(s) /\ UNCHANGED <<version, main, targets, worker, auth_runtime, admin>>
        /\ stage[s] \in {"Handshake", "Driving", "Closing"}
    BY <1>13 DEF Control
  <2>1. CASE End(s)
    BY <2>0, <2>1, EndKeeps
  <2>2. CASE /\ stage[s] # "Handshake"
             /\ control_rx' = [control_rx EXCEPT ![s] = Tail(@)] /\ control_rx[s] # <<>>
             /\ stage' = [stage EXCEPT ![s] = IF Head(control_rx[s]) = "Disconnect" THEN "Closing" ELSE @]
             /\ UNCHANGED <<owner, seen, registry>>
    <3>0. stage[s] \in {"Driving", "Closing"} /\ stage' = [stage EXCEPT ![s] = stage'[s]]
          /\ stage'[s] \in {"Driving", "Closing"}
      BY <2>0, <2>2 DEF IInv, TypeOK
    <3>1. TypeOK'
      <4>1. Tail(control_rx[s]) \in Seq(Command) /\ Len(Tail(control_rx[s])) <= CONTROL_CHANNEL_DEPTH
        <5>1. control_rx[s] \in Seq(Command) /\ Len(control_rx[s]) <= CONTROL_CHANNEL_DEPTH
          BY DEF IInv, TypeOK
        <5>2. /\ Tail(control_rx[s]) \in Seq(Command) /\ Len(Tail(control_rx[s])) = Len(control_rx[s]) - 1
              /\ Len(control_rx[s]) \in Nat
          BY <2>2, <5>1
        <5> QED BY <5>1, <5>2
      <4>2. stage'[s] \in {stage[s], "Closing"} BY <2>2 DEF IInv, TypeOK
      <4> QED BY <2>0, <2>2, <4>1, <4>2 DEF IInv, TypeOK
    <3>2. RegistryExact'
      BY <2>0, <2>2, <3>0 DEF IInv, TypeOK, RegistryExact, Live
    <3>3. SeenSent'
      BY <2>0, <2>2, <3>0 DEF IInv, TypeOK, SeenSent
    <3>4. AcceptedBefore'
      BY <2>0, <2>2, <3>0 DEF Scheduled, IInv, TypeOK, AcceptedBefore, Tasks, Live
    <3>5. AtMostOneUnaware'
      BY <2>0, <2>2, <3>0 DEF IInv, TypeOK, AtMostOneUnaware, Unaware, Tasks, Live
    <3> QED BY <3>1, <3>2, <3>3, <3>4, <3>5 DEF IInv
  <2> QED BY <1>13, <2>1, <2>2 DEF Control
<1>14. ASSUME NEW s \in Session, Proceed(s) PROVE IInv'
  <2>1. TypeOK'
    BY <1>14 DEF Proceed, IInv, TypeOK, SeenSent, Command
  <2>2. RegistryExact'
    BY <1>14 DEF Proceed, IInv, TypeOK, RegistryExact, Live, Tasks, Scheduled
  <2>3. SeenSent'
    BY <1>14 DEF Proceed, IInv, TypeOK, SeenSent
  <2>4. AcceptedBefore'
    BY <1>14 DEF Proceed, IInv, TypeOK, SeenSent, AcceptedBefore, Tasks, Live, Scheduled
  <2>5. AtMostOneUnaware'
    BY <1>14 DEF Proceed, IInv, TypeOK, SeenSent, AcceptedBefore, AtMostOneUnaware, Unaware, Tasks, Live, Scheduled
  <2> QED BY <2>1, <2>2, <2>3, <2>4, <2>5 DEF IInv
<1>15. ASSUME NEW s \in Session, Return(s) PROVE IInv'
  BY <1>15, EndKeeps DEF Return
<1>16. ASSUME NEW s \in Session, broadcast_disconnect(s) PROVE IInv'
  <2>1. TypeOK'
    <3>1. try_send(control_rx[s], "Disconnect") \in Seq(Command)
          /\ Len(try_send(control_rx[s], "Disconnect")) <= CONTROL_CHANNEL_DEPTH
      BY SendTypes DEF IInv, TypeOK, Command
    <3> QED BY <1>16, <3>1 DEF broadcast_disconnect, IInv, TypeOK
  <2>2. RegistryExact'
    BY <1>16 DEF broadcast_disconnect, IInv, TypeOK, RegistryExact, Live, Tasks
  <2>3. SeenSent'
    BY <1>16 DEF broadcast_disconnect, IInv, TypeOK, SeenSent
  <2>4. AcceptedBefore'
    BY <1>16 DEF broadcast_disconnect, IInv, TypeOK, SeenSent, AcceptedBefore, Tasks, Live
  <2>5. AtMostOneUnaware'
    BY <1>16 DEF broadcast_disconnect, IInv, TypeOK, SeenSent, AcceptedBefore, AtMostOneUnaware, Unaware, Tasks, Live
  <2> QED BY <2>1, <2>2, <2>3, <2>4, <2>5 DEF IInv
<1>17. ASSUME NEW s \in Session, NEW cmd \in {"Disconnect", "Rekey"}, SessionCommand(s, cmd) PROVE IInv'
  <2>1. TypeOK'
    <3>1. try_send(control_rx[s], cmd) \in Seq(Command)
          /\ Len(try_send(control_rx[s], cmd)) <= CONTROL_CHANNEL_DEPTH
      BY SendTypes DEF IInv, TypeOK, Command
    <3> QED BY <1>17, <3>1 DEF SessionCommand, IInv, TypeOK
  <2>2. RegistryExact'
    BY <1>17 DEF SessionCommand, IInv, TypeOK, RegistryExact, Live, Tasks
  <2>3. SeenSent'
    BY <1>17 DEF SessionCommand, IInv, TypeOK, SeenSent
  <2>4. AcceptedBefore'
    BY <1>17 DEF SessionCommand, IInv, TypeOK, SeenSent, AcceptedBefore, Tasks, Live
  <2>5. AtMostOneUnaware'
    BY <1>17 DEF SessionCommand, IInv, TypeOK, SeenSent, AcceptedBefore, AtMostOneUnaware, Unaware, Tasks, Live
  <2> QED BY <2>1, <2>2, <2>3, <2>4, <2>5 DEF IInv
<1>18. CASE Terminated
  BY <1>18, <1>0 DEF Terminated
<1> QED
  BY <1>0, <1>1, <1>2, <1>3, <1>4, <1>5, <1>6, <1>7, <1>8, <1>9, <1>10, <1>11, <1>12, <1>13, <1>14, <1>15, <1>16, <1>17, <1>18 DEF Next

\* The invariant holds in every reachable state.
THEOREM InvariantHolds == Spec => []IInv
BY InitEstablishes, NextKeeps, PTL DEF Spec

\* The variables keep their types; no control channel exceeds its depth.
THEOREM TypeCorrect == Spec => []TypeOK
<1>1. IInv => TypeOK BY DEF IInv
<1> QED BY <1>1, InvariantHolds, PTL

\* The registry holds exactly the sessions with a live task.
THEOREM RegistryIsExact == Spec => []RegistryExact
<1>1. IInv => RegistryExact BY DEF IInv
<1> QED BY <1>1, InvariantHolds, PTL

\* Whatever the interleaving of accept, send and subscribe, at most one session of a worker
\* misses the drain.
THEOREM OneMissesDrain == Spec => []AtMostOneUnaware
<1>1. IInv => AtMostOneUnaware BY DEF IInv
<1> QED BY <1>1, InvariantHolds, PTL
=============================================================================

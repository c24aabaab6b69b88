------------------------------- MODULE Server -------------------------------
(***************************************************************************)
(* The process around the sessions (src/src/main.rs, the registry and      *)
(* `run` of src/src/session.rs, src/src/control.rs): the main thread, the  *)
(* I/O workers with their accept loops and ticks, the session registry,    *)
(* the control socket's commands, and the drain that ends the process.     *)
(*                                                                         *)
(* Each worker is a thread: its loop, the main thread and the control      *)
(* socket interleave freely.  A session is its stage; what happens inside  *)
(* `drive_sstp` is SstpCall and PppLink.  DRAIN_GRACE has no clock: a wait *)
(* it bounds may end at any time.                                          *)
(***************************************************************************)
EXTENDS Naturals, Sequences

CONSTANTS
    Worker, Session,                \* I/O workers; sessions the process may accept
    CONTROL_CHANNEL_DEPTH,          \* session.rs
    MaxSends,                       \* bound: sends on the shutdown watch
    MaxAdmin                        \* bound: session commands of operators

ASSUME ServerAssumption ==
    CONTROL_CHANNEL_DEPTH \in Nat \ {0} /\ MaxSends \in Nat \ {0} /\ MaxAdmin \in Nat

VARIABLES
    version,       \* sends on shutdown_tx so far
    main,          \* where the main thread is
    targets,       \* broadcast_disconnect: handles of the snapshot still to be sent to
    worker,        \* each worker: "Top" of the loop, "Selecting", "Accepting", "Draining", "Exited"
    owner,         \* the worker that accepted each session
    stage,         \* where each session is
    seen,          \* the watch version each session's drain_rx has seen
    control_rx,    \* each session's control channel
    registry,      \* registered sessions
    auth_runtime,  \* the runtime the RADIUS bridges live on is up
    admin          \* session commands so far (bound)

sessions == <<owner, stage, seen, control_rx>>
vars == <<version, main, targets, worker, sessions, registry, auth_runtime, admin>>

Live(s) == stage[s] \in {"Registered", "Handshake", "Preamble", "Driving", "Closing"}

\* tasks of a worker that have not finished.
Tasks(w) == {s \in Session : Live(s) /\ owner[s] = w}

\* Every step of a session task happens on its worker, which is not in its own code.
Scheduled(s) == Live(s) /\ stage[s] # "Registered" /\ worker[owner[s]] \in {"Top", "Draining"}

\* mpsc try_send: dropped when the channel is full.
try_send(chan, cmd) == IF Len(chan) < CONTROL_CHANNEL_DEPTH THEN Append(chan, cmd) ELSE chan

Init ==
    /\ version = 0 /\ main = "Serving" /\ targets = {}
    /\ worker = [w \in Worker |-> "Top"] /\ owner = [s \in Session |-> "None"]
    /\ stage = [s \in Session |-> "Unused"] /\ seen = [s \in Session |-> 0]
    /\ control_rx = [s \in Session |-> <<>>] /\ registry = {}
    /\ auth_runtime = TRUE /\ admin = 0

-----------------------------------------------------------------------------
(* accept_loop.                                                            *)

\* The biased select looks at the shutdown watch first.
PollShutdown(w) ==
    /\ worker[w] = "Top"
    /\ worker' = [worker EXCEPT ![w] = IF version > 0 THEN "Draining" ELSE "Selecting"]
    /\ UNCHANGED <<version, main, targets, sessions, registry, auth_runtime, admin>>

\* Nothing else is ready: the task sleeps, and starts at the top when woken.
Idle(w) ==
    /\ worker[w] = "Selecting"
    /\ worker' = [worker EXCEPT ![w] = "Top"]
    /\ UNCHANGED <<version, main, targets, sessions, registry, auth_runtime, admin>>

\* worker_tick: PeriodicTick to every session of the worker that still listens.
WorkerTick(w) ==
    /\ worker[w] = "Selecting"
    /\ worker' = [worker EXCEPT ![w] = "Top"]
    /\ control_rx' = [s \in Session |-> IF s \in Tasks(w) THEN try_send(control_rx[s], "PeriodicTick")
                                        ELSE control_rx[s]]
    /\ UNCHANGED <<version, main, targets, owner, stage, seen, registry, auth_runtime, admin>>

\* listener.accept and spawn_handle: the handle is registered.
spawn_handle(w, s) ==
    /\ worker[w] = "Selecting" /\ stage[s] = "Unused"
    /\ owner' = [owner EXCEPT ![s] = w]
    /\ worker' = [worker EXCEPT ![w] = "Accepting"]
    /\ stage' = [stage EXCEPT ![s] = "Registered"]
    /\ registry' = registry \cup {s}
    /\ UNCHANGED <<version, main, targets, seen, control_rx, auth_runtime, admin>>

\* Mutant: the loop goes on accepting before it looks at the watch again.
spawn_session_unbiased(w, s) ==
    /\ worker[w] = "Accepting" /\ stage[s] = "Registered" /\ owner[s] = w
    /\ worker' = [worker EXCEPT ![w] = "Selecting"]
    /\ stage' = [stage EXCEPT ![s] = "Handshake"]
    /\ seen' = [seen EXCEPT ![s] = version]
    /\ UNCHANGED <<version, main, targets, owner, control_rx, registry, auth_runtime, admin>>

\* The rest of the accept arm: subscribe to the watch, spawn the task.  A new receiver has
\* seen whatever was sent before.
spawn_session(w, s) ==
    /\ worker[w] = "Accepting" /\ stage[s] = "Registered" /\ owner[s] = w
    /\ worker' = [worker EXCEPT ![w] = "Top"]
    /\ stage' = [stage EXCEPT ![s] = "Handshake"]
    /\ seen' = [seen EXCEPT ![s] = version]
    /\ UNCHANGED <<version, main, targets, owner, control_rx, registry, auth_runtime, admin>>

\* Mutant: the wait for the tasks has no deadline.
drain_phase_unbounded(w) ==
    /\ worker[w] = "Draining" /\ Tasks(w) = {}
    /\ worker' = [worker EXCEPT ![w] = "Exited"]
    /\ UNCHANGED <<version, main, targets, sessions, registry, auth_runtime, admin>>

\* The drain phase: the tasks are awaited until DRAIN_GRACE is over; what is left is dropped
\* with the worker's LocalSet, which runs the RegistrationGuards.
drain_phase(w) ==
    /\ worker[w] = "Draining"
    /\ worker' = [worker EXCEPT ![w] = "Exited"]
    /\ stage' = [s \in Session |-> IF s \in Tasks(w) THEN "Ended" ELSE stage[s]]
    /\ control_rx' = [s \in Session |-> IF s \in Tasks(w) THEN <<>> ELSE control_rx[s]]
    /\ seen' = [s \in Session |-> IF s \in Tasks(w) THEN 0 ELSE seen[s]]
    /\ owner' = [s \in Session |-> IF s \in Tasks(w) THEN "None" ELSE owner[s]]
    /\ registry' = registry \ Tasks(w)
    /\ UNCHANGED <<version, main, targets, auth_runtime, admin>>

-----------------------------------------------------------------------------
(* run: one session task.                                                  *)

\* Mutant: the registration outlives a session that never got past its handshake.
End_keeps_early_registration(s) ==
    /\ stage' = [stage EXCEPT ![s] = "Ended"]
    /\ control_rx' = [control_rx EXCEPT ![s] = <<>>] /\ seen' = [seen EXCEPT ![s] = 0]
    /\ owner' = [owner EXCEPT ![s] = "None"]
    /\ registry' = IF stage[s] = "Handshake" THEN registry ELSE registry \ {s}

\* A return of `run`: the receivers are dropped, the RegistrationGuard unregisters
\* the session, and the worker reaps the task.
End(s) ==
    /\ stage' = [stage EXCEPT ![s] = "Ended"]
    /\ control_rx' = [control_rx EXCEPT ![s] = <<>>] /\ seen' = [seen EXCEPT ![s] = 0]
    /\ owner' = [owner EXCEPT ![s] = "None"]
    /\ registry' = registry \ {s}

\* drain_rx.changed, in the handshake select and in drive_sstp's.
DrainSeen(s) ==
    /\ Scheduled(s) /\ stage[s] \in {"Handshake", "Driving", "Closing"} /\ seen[s] < version
    /\ \/ stage[s] = "Handshake" /\ End(s)
       \/ /\ stage[s] # "Handshake"
          /\ seen' = [seen EXCEPT ![s] = version]
          /\ stage' = [stage EXCEPT ![s] = "Closing"]
          /\ UNCHANGED <<owner, control_rx, registry>>
    /\ UNCHANGED <<version, main, targets, worker, auth_runtime, admin>>

\* control_rx.recv.  Before the TLS handshake completes any command ends the session.
Control(s) ==
    /\ Scheduled(s) /\ stage[s] \in {"Handshake", "Driving", "Closing"}
    /\ seen[s] = version /\ control_rx[s] # <<>>
    /\ \/ stage[s] = "Handshake" /\ End(s)
       \/ /\ stage[s] # "Handshake"
          /\ control_rx' = [control_rx EXCEPT ![s] = Tail(@)]
          /\ stage' = [stage EXCEPT ![s] = IF Head(control_rx[s]) = "Disconnect" THEN "Closing" ELSE @]
          /\ UNCHANGED <<owner, seen, registry>>
    /\ UNCHANGED <<version, main, targets, worker, auth_runtime, admin>>

\* TLS accepted; then the HTTPS preamble, which watches neither channel.
Proceed(s) ==
    /\ Scheduled(s)
    /\ \/ stage[s] = "Handshake" /\ seen[s] = version /\ control_rx[s] = <<>>
       \/ stage[s] = "Preamble"
    /\ stage' = [stage EXCEPT ![s] = IF @ = "Handshake" THEN "Preamble" ELSE "Driving"]
    /\ UNCHANGED <<version, main, targets, worker, owner, seen, control_rx, registry,
                   auth_runtime, admin>>

\* A failed handshake or preamble, the peer's end of the call, a teardown that completes.
Return(s) ==
    /\ Scheduled(s)
    /\ stage[s] = "Handshake" => seen[s] = version /\ control_rx[s] = <<>>
    /\ End(s)
    /\ UNCHANGED <<version, main, targets, worker, auth_runtime, admin>>

-----------------------------------------------------------------------------
(* The main thread and the control socket.                                 *)

\* control.rs shutdown.
AdminShutdown ==
    /\ main \in {"Serving", "Signalled", "Broadcasting", "Polling"} /\ version < MaxSends
    /\ version' = version + 1
    /\ UNCHANGED <<main, targets, worker, sessions, registry, auth_runtime, admin>>

\* wait_for_shutdown returns (a signal, or the watch changed), and the main thread sends.
Signal ==
    /\ main = "Serving"
    /\ main' = "Signalled"
    /\ version' = version + 1
    /\ UNCHANGED <<targets, worker, sessions, registry, auth_runtime, admin>>

\* registry.len, and broadcast_disconnect's snapshot when it is not empty.
CountSessions ==
    /\ main = "Signalled"
    /\ \/ registry = {} /\ main' = "Joining" /\ auth_runtime' = FALSE /\ UNCHANGED targets
       \/ /\ registry # {} /\ main' = "Broadcasting"
          /\ targets' = registry /\ UNCHANGED auth_runtime
    /\ UNCHANGED <<version, worker, sessions, registry, admin>>

\* One handle of the snapshot; a session that has ended has dropped its receiver.
broadcast_disconnect(s) ==
    /\ main = "Broadcasting" /\ s \in targets
    /\ targets' = targets \ {s}
    /\ control_rx' = IF Live(s) THEN [control_rx EXCEPT ![s] = try_send(@, "Disconnect")] ELSE control_rx
    /\ main' = IF targets = {s} THEN "Polling" ELSE main
    /\ UNCHANGED <<version, worker, owner, stage, seen, registry, auth_runtime, admin>>

\* The registry is empty or the grace period is over: the auth runtime is shut down.
DrainOver ==
    /\ main = "Polling"
    /\ main' = "Joining" /\ auth_runtime' = FALSE
    /\ UNCHANGED <<version, targets, worker, sessions, registry, admin>>

Join ==
    /\ main = "Joining" /\ \A w \in Worker : worker[w] = "Exited"
    /\ main' = "Exited"
    /\ UNCHANGED <<version, targets, worker, sessions, registry, auth_runtime, admin>>

\* disable_session and rekey_session.
SessionCommand(s, cmd) ==
    /\ auth_runtime /\ s \in registry /\ admin < MaxAdmin
    /\ admin' = admin + 1
    /\ control_rx' = [control_rx EXCEPT ![s] = try_send(@, cmd)]
    /\ UNCHANGED <<version, main, targets, worker, owner, stage, seen, registry, auth_runtime>>

Terminated == main = "Exited" /\ UNCHANGED vars

Next ==
    \/ AdminShutdown \/ Signal \/ CountSessions \/ DrainOver \/ Join \/ Terminated
    \/ \E w \in Worker : PollShutdown(w) \/ Idle(w) \/ WorkerTick(w) \/ drain_phase(w)
    \/ \E w \in Worker, s \in Session : spawn_handle(w, s) \/ spawn_session(w, s)
    \/ \E s \in Session : DrainSeen(s) \/ Control(s) \/ Proceed(s) \/ Return(s) \/ broadcast_disconnect(s)
    \/ \E s \in Session, cmd \in {"Disconnect", "Rekey"} : SessionCommand(s, cmd)

\* Threads run, and a wait bounded by DRAIN_GRACE ends.  No peer, operator or session owes
\* anything; wait_for_shutdown returns once the watch has changed.
MainThread ==
    \/ version > 0 /\ Signal
    \/ CountSessions \/ DrainOver \/ Join
    \/ \E s \in Session : broadcast_disconnect(s)
WorkerThread(w) ==
    \/ PollShutdown(w) \/ Idle(w) \/ drain_phase(w)
    \/ \E s \in Session : spawn_session(w, s)
Fairness == WF_vars(MainThread) /\ \A w \in Worker : WF_vars(WorkerThread(w))

Spec == Init /\ [][Next]_vars /\ Fairness

-----------------------------------------------------------------------------
(* Properties                                                              *)

Command == {"PeriodicTick", "Disconnect", "Rekey"}

\* The variables keep their types, and no control channel ever holds more than the
\* CONTROL_CHANNEL_DEPTH commands that ticks, operators and the drain may queue.
TypeOK ==
    /\ version \in 0..(MaxSends + 1)
    /\ main \in {"Serving", "Signalled", "Broadcasting", "Polling", "Joining", "Exited"}
    /\ targets \subseteq Session /\ registry \subseteq Session
    /\ worker \in [Worker -> {"Top", "Selecting", "Accepting", "Draining", "Exited"}]
    /\ owner \in [Session -> Worker \cup {"None"}]
    /\ stage \in [Session -> {"Unused", "Registered", "Handshake", "Preamble", "Driving", "Closing", "Ended"}]
    /\ seen \in [Session -> Nat]
    /\ control_rx \in [Session -> Seq(Command)]
    /\ \A s \in Session : Len(control_rx[s]) <= CONTROL_CHANNEL_DEPTH
    /\ auth_runtime \in BOOLEAN /\ admin \in 0..MaxAdmin

\* The registry, shared by every worker, the control socket and the drain, holds exactly the
\* sessions whose tasks are alive, through handshake failures, abandonment and shutdown: no
\* phantom session that the drain would wait for, no live one it would miss.
RegistryExact == \A s \in Session : s \in registry <=> Live(s)

\* Sessions that run on and will hear nothing of the drain on their drain_rx.
Unaware(w) ==
    {s \in Tasks(w) : /\ stage[s] \in {"Handshake", "Preamble", "Driving"}
                      /\ version > 0 /\ seen[s] = version}

\* A connection accepted while the signal is sent subscribes too late to hear it.  There is
\* at most one such session per worker, whatever the number of sends.
AtMostOneUnaware == \A w \in Worker : \A s, t \in Unaware(w) : s = t

\* ControlCommand::PeriodicTick: the session "checks whether any periodic work is due".
\* A tick taken off the channel never ends the session.
TickEndsNoSession ==
    [][\A s \in Session : /\ control_rx[s] # <<>> /\ Head(control_rx[s]) = "PeriodicTick"
                          /\ Control(s)
                          => stage'[s] # "Ended"]_vars

\* Once a shutdown was asked for, the process exits, whatever its sessions and peers do.
ShutdownTerminates == version > 0 ~> main = "Exited"
=============================================================================

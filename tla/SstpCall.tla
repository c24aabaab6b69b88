------------------------------ MODULE SstpCall ------------------------------
(***************************************************************************)
(* The server side of one SSTP call: the state machine of                  *)
(* src/src/sstp/state.rs driven by the select loop of `drive_sstp`         *)
(* (src/src/session.rs) through `apply_step`.                              *)
(*                                                                         *)
(* Kept: every FSM handler, the single timer slot, the hello keepalive     *)
(* that the worker's PeriodicTick drives, the bounded control channel, the *)
(* drain watch, write failures, and a write that blocks the task.  The     *)
(* peer is arbitrary: any message may arrive in any state.  Left out here  *)
(* (see PppLink and the README): the PPP frames inside data packets.       *)
(***************************************************************************)
EXTENDS Naturals, Sequences

CONSTANTS
    NEGOTIATION, HELLO,             \* timer values of state.rs, in seconds
    ABORT_T1, ABORT_T2, DISCONNECT_T1, DISCONNECT_T2,
    CONTROL_CHANNEL_DEPTH,          \* session.rs: depth of the control channel
    MaxAdmin,                       \* bound: operator commands issued
    MaxDrain,                       \* bound: sends on the shutdown watch
    MaxStray,                       \* bound: out-of-state messages that re-arm a teardown timer
    MaxChunk                        \* bound: further packets one read brings in

ASSUME ConstantsAssumption ==
    /\ NEGOTIATION \in Nat \ {0} /\ HELLO \in Nat \ {0}
    /\ ABORT_T1 \in Nat \ {0} /\ ABORT_T2 \in Nat \ {0}
    /\ DISCONNECT_T1 \in Nat \ {0} /\ DISCONNECT_T2 \in Nat \ {0}
    /\ CONTROL_CHANNEL_DEPTH \in Nat \ {0}
    /\ MaxAdmin \in Nat /\ MaxDrain \in Nat /\ MaxStray \in Nat /\ MaxChunk \in Nat

VARIABLES
    state,         \* StateMachine.state
    binding,       \* StateMachine.binding: "None", or which HLAK it holds
    sstp_timer,    \* the single timer slot of drive_sstp: logical timer and seconds left
    last_rx,       \* seconds since the last inbound bytes (last_rx.elapsed(), capped)
    hello_echo_pending,
    control_rx,    \* the bounded control channel, oldest command first
    drain_rx,      \* the shutdown watch changed and the session has not looked yet
    blocked,       \* the task awaits a write; no select arm runs
    unread,        \* complete packets of the current read still to be parsed
    ended,         \* why drive_sstp returned; "No" while it runs
    ppp_starts,    \* NotifyHigher::StartPpp notifications handed to the session
    establishments,\* NotifyHigher::SstpEstablished notifications
    echo_age,      \* seconds the outstanding Echo Request has been waiting (history)
    stalled,       \* a second passed while the task awaited a write (history)
    admin,         \* operator commands issued so far (bound)
    drains,        \* sends on the watch so far (bound)
    stray          \* re-arming messages received during teardown (bound)

notified == <<ppp_starts, establishments>>
machine == <<state, binding, sstp_timer, notified>>
hello == <<last_rx, hello_echo_pending, echo_age>>
inbox == <<control_rx, drain_rx, admin, drains>>
waiting == <<blocked, unread, stalled>>
vars == <<machine, hello, inbox, waiting, ended, stray>>

-----------------------------------------------------------------------------
State == {"ServerCallDisconnected", "ServerConnectRequestPending",
          "ServerCallConnectedPending", "ServerCallConnected",
          "CallAbortPending", "CallAbortTimeoutPending",
          "CallDisconnectAckPending", "CallDisconnectTimeoutPending"}

is_in_terminal_drain ==
    state \in {"CallAbortTimeoutPending", "CallAbortPending",
               "CallDisconnectAckPending", "CallDisconnectTimeoutPending"}

Timer == {"Negotiation", "Hello", "AbortT1", "AbortT2", "DisconnectT1", "DisconnectT2"}

Duration(t) ==
    CASE t = "Negotiation"  -> NEGOTIATION
      [] t = "Hello"        -> HELLO
      [] t = "AbortT1"      -> ABORT_T1
      [] t = "AbortT2"      -> ABORT_T2
      [] t = "DisconnectT1" -> DISCONNECT_T1
      [] t = "DisconnectT2" -> DISCONNECT_T2

NoTimer == [which |-> "None", left |-> 0]

\* The longest idle time the model tells apart: one second past the abort point.
IdleCap == HELLO + HELLO + 1

Running == ended = "No"

\* Drain signalled / command queued / timer due: the readiness of the select arms.
ControlReady == control_rx # <<>>
TimerDue == sstp_timer.which # "None" /\ sstp_timer.left = 0

-----------------------------------------------------------------------------
(* apply_step: write first (a failed write ends the session before the     *)
(* slot is touched), then the slot, then the notification, then terminate. *)
(* Hello is never armed in the slot.                                       *)

Arm(slot, stop, start) ==
    LET kept == IF slot.which = stop THEN NoTimer ELSE slot
    IN  IF start \in Timer \ {"Hello"}
        THEN [which |-> start, left |-> Duration(start)]
        ELSE kept

StepFrom(slot, to, send, stop, start, notify, terminate) ==
    /\ state' = to
    /\ \/ /\ sstp_timer' = Arm(slot, stop, start)
          /\ ppp_starts' = IF notify = "StartPpp" THEN ppp_starts + 1 ELSE ppp_starts
          /\ establishments' = IF notify = "SstpEstablished" THEN establishments + 1
                               ELSE establishments
          /\ ended' = IF terminate = "None" THEN "No" ELSE terminate
       \/ /\ send # "None"
          /\ sstp_timer' = slot
          /\ ended' = "WriteFailed"
          /\ UNCHANGED notified

Step(to, send, stop, start, notify, terminate) ==
    StepFrom(sstp_timer, to, send, stop, start, notify, terminate)

Quiet == Step(state, "None", "None", "None", "None", "None")

start_abort ==
    Step("CallAbortPending", "CallAbort", "None", "AbortT1", "None", "None")

-----------------------------------------------------------------------------
(* Handlers of state.rs.  Each leaves `binding` to its last conjunct.      *)

\* Mutant: a retransmitted request is answered again instead of aborting the call.
on_call_connect_request_repeated(ppp) ==
    \/ is_in_terminal_drain /\ Quiet /\ UNCHANGED binding
    \/ /\ ~is_in_terminal_drain
       /\ Step("ServerCallConnectedPending", "CallConnectAck", "None", "None", "StartPpp", "None")
       /\ binding' = "ZeroHlak"

on_call_connect_request(ppp) ==
    \/ is_in_terminal_drain /\ Quiet /\ UNCHANGED binding
    \/ /\ ~is_in_terminal_drain /\ state # "ServerConnectRequestPending"
       /\ start_abort /\ UNCHANGED binding
    \/ /\ state = "ServerConnectRequestPending" /\ ~ppp
       /\ Step(state, "CallConnectNak", "None", "None", "None", "None")
       /\ UNCHANGED binding
    \/ /\ state = "ServerConnectRequestPending" /\ ppp
       /\ Step("ServerCallConnectedPending", "CallConnectAck", "None", "None", "StartPpp", "None")
       /\ binding' = "ZeroHlak"

\* verify: the Compound MAC is right iff the client used the key the server holds.
verify(key) == binding = key

\* Mutant: the state is not looked at before the MAC.
verify_call_connected_any_state(key) ==
    /\ UNCHANGED binding
    /\ \/ (binding = "None" \/ ~verify(key)) /\ start_abort
       \/ /\ binding # "None" /\ verify(key)
          /\ Step("ServerCallConnected", "None", sstp_timer.which, "Hello", "SstpEstablished", "None")

verify_call_connected(key) ==
    /\ UNCHANGED binding
    /\ \/ state # "ServerCallConnectedPending" /\ start_abort
       \/ /\ state = "ServerCallConnectedPending"
          /\ binding = "None" \/ ~verify(key)
          /\ start_abort
       \/ /\ state = "ServerCallConnectedPending"
          /\ binding # "None" /\ verify(key)
          /\ Step("ServerCallConnected", "None", "Negotiation", "Hello", "SstpEstablished", "None")

\* Mutant: crossing disconnects stop the first timer and forget the second.
on_call_disconnect_no_second_timer ==
    /\ UNCHANGED binding
    /\ \/ /\ state \in {"CallAbortTimeoutPending", "CallAbortPending", "CallDisconnectTimeoutPending"}
          /\ Quiet
       \/ /\ ~is_in_terminal_drain \/ state = "CallDisconnectAckPending"
          /\ Step("CallDisconnectTimeoutPending", "CallDisconnectAck",
                  "DisconnectT1", "None", "None", "None")

on_call_disconnect ==
    /\ UNCHANGED binding
    /\ \/ /\ state \in {"CallAbortTimeoutPending", "CallAbortPending", "CallDisconnectTimeoutPending"}
          /\ Quiet
       \/ /\ state = "CallDisconnectAckPending"
          /\ Step("CallDisconnectTimeoutPending", "CallDisconnectAck",
                  "DisconnectT1", "DisconnectT2", "None", "None")
       \/ /\ ~is_in_terminal_drain
          /\ Step("CallDisconnectTimeoutPending", "CallDisconnectAck",
                  "None", "DisconnectT2", "None", "None")

on_call_disconnect_ack ==
    /\ UNCHANGED binding
    /\ \/ /\ state = "CallDisconnectAckPending"
          /\ Step("ServerCallDisconnected", "None", "DisconnectT1", "None", "None", "Graceful")
       \/ /\ is_in_terminal_drain /\ state # "CallDisconnectAckPending"
          /\ Quiet
       \/ ~is_in_terminal_drain /\ start_abort

on_call_abort ==
    /\ UNCHANGED binding
    /\ \/ /\ state = "CallAbortPending"
          /\ Step("CallAbortTimeoutPending", "None", "AbortT1", "AbortT2", "None", "None")
       \/ /\ state \in {"CallAbortTimeoutPending", "CallDisconnectTimeoutPending"}
          /\ Quiet
       \/ /\ ~is_in_terminal_drain \/ state = "CallDisconnectAckPending"
          /\ Step("CallAbortTimeoutPending", "CallAbort", "None", "AbortT2", "None", "None")

on_echo_request ==
    /\ UNCHANGED binding
    /\ \/ /\ state = "ServerCallConnected"
          /\ Step(state, "EchoResponse", "None", "Hello", "None", "None")
       \/ is_in_terminal_drain /\ Quiet
       \/ state # "ServerCallConnected" /\ ~is_in_terminal_drain /\ start_abort

on_echo_response ==
    /\ UNCHANGED binding
    /\ \/ /\ state = "ServerCallConnected"
          /\ Step(state, "None", "None", "Hello", "None", "None")
       \/ is_in_terminal_drain /\ Quiet
       \/ state # "ServerCallConnected" /\ ~is_in_terminal_drain /\ start_abort

unexpected == start_abort /\ UNCHANGED binding

on_data_packet == Quiet /\ UNCHANGED binding

\* Mutant: the disconnect is sent and no timer waits for its answer.
on_higher_layer_disconnect_untimed ==
    /\ Step("CallDisconnectAckPending", "CallDisconnect", "None", "None", "None", "None")
    /\ UNCHANGED binding

on_higher_layer_disconnect ==
    /\ Step("CallDisconnectAckPending", "CallDisconnect", "None", "DisconnectT1", "None", "None")
    /\ UNCHANGED binding

\* The slot was emptied by take() before the handler runs.
on_timer(which) ==
    /\ UNCHANGED binding
    /\ \/ /\ which = "Negotiation"
          /\ StepFrom(NoTimer, "CallAbortPending", "CallAbort", "None", "AbortT1", "None", "None")
       \/ /\ which = "AbortT1"
          /\ StepFrom(NoTimer, "CallAbortTimeoutPending", "None", "None", "AbortT2", "None", "None")
       \/ /\ which \in {"AbortT2", "DisconnectT1", "DisconnectT2"}
          /\ StepFrom(NoTimer, state, "None", "None", "None", "None", "Graceful")

on_hello_expired ==
    /\ state = "ServerCallConnected"
    /\ Step(state, "EchoRequest", "None", "Hello", "None", "None")
    /\ UNCHANGED binding

\* Mutant: the timeout is noticed and the session goes on.
on_hello_timeout_no_response_ignored == Quiet /\ UNCHANGED binding

on_hello_timeout_no_response ==
    Step(state, "None", "None", "None", "None", "Abrupt") /\ UNCHANGED binding

-----------------------------------------------------------------------------
(* The select loop.  An arm runs only when no arm above it is ready        *)
(* (`biased`), and none runs while the task awaits a write.                *)

Init ==
    /\ state = "ServerCallDisconnected" /\ binding = "None" /\ sstp_timer = NoTimer
    /\ ppp_starts = 0 /\ establishments = 0
    /\ last_rx = 0 /\ hello_echo_pending = FALSE /\ echo_age = 0
    /\ control_rx = <<>> /\ drain_rx = FALSE /\ admin = 0 /\ drains = 0
    /\ blocked = FALSE /\ unread = 0 /\ stalled = FALSE /\ ended = "No" /\ stray = 0

\* on_https_accepted, applied before the loop is entered.
on_https_accepted ==
    /\ Running /\ state = "ServerCallDisconnected"
    /\ Step("ServerConnectRequestPending", "None", "None", "Negotiation", "None", "None")
    /\ UNCHANGED <<binding, hello, inbox, waiting, stray>>

Awake == Running /\ ~blocked /\ state # "ServerCallDisconnected"

Polling == Awake /\ unread = 0

DrainArm ==
    /\ Polling /\ drain_rx
    /\ drain_rx' = FALSE
    /\ on_higher_layer_disconnect
    /\ UNCHANGED <<hello, control_rx, admin, drains, waiting, stray>>

ControlDisconnect ==
    /\ Polling /\ ~drain_rx /\ ControlReady
    /\ Head(control_rx) = "Disconnect"
    /\ control_rx' = Tail(control_rx)
    /\ on_higher_layer_disconnect
    /\ UNCHANGED <<hello, drain_rx, admin, drains, waiting, stray>>

\* Mutant: one interval of silence is enough to give up.
abort_at_one_interval == HELLO

\* HELLO_INTERVAL * 2: the silence after which an unanswered probe is a dead peer.
abort_at == HELLO + HELLO

\* The hello keepalive check of the PeriodicTick handler.
ControlPeriodicTick ==
    /\ Polling /\ ~drain_rx /\ ControlReady
    /\ Head(control_rx) = "PeriodicTick"
    /\ control_rx' = Tail(control_rx)
    /\ LET connected == state = "ServerCallConnected"
           dead == connected /\ hello_echo_pending /\ last_rx >= abort_at
           quiet == connected /\ ~hello_echo_pending /\ last_rx >= HELLO
       IN \/ dead /\ on_hello_timeout_no_response /\ UNCHANGED <<hello_echo_pending, echo_age>>
          \/ /\ quiet /\ on_hello_expired
             /\ hello_echo_pending' = TRUE
             /\ echo_age' = 0
          \/ ~dead /\ ~quiet /\ Quiet /\ UNCHANGED <<binding, hello_echo_pending, echo_age>>
    /\ UNCHANGED <<last_rx, drain_rx, admin, drains, waiting, stray>>

\* A rekey request touches only the TLS record layer.
ControlRekey ==
    /\ Polling /\ ~drain_rx /\ ControlReady
    /\ Head(control_rx) = "Rekey"
    /\ control_rx' = Tail(control_rx)
    /\ Quiet
    /\ UNCHANGED <<binding, hello, drain_rx, admin, drains, waiting, stray>>

SstpTimerArm ==
    /\ Polling /\ ~drain_rx /\ ~ControlReady /\ TimerDue
    /\ on_timer(sstp_timer.which)
    /\ UNCHANGED <<hello, inbox, waiting, stray>>

\* KpppRead with a packet for the tunnel: the TLS write may block the task.
KpppReadBlocks ==
    /\ Polling /\ ~drain_rx /\ ~ControlReady /\ ~TimerDue
    /\ ppp_starts > 0
    /\ blocked' = TRUE
    /\ UNCHANGED <<machine, hello, inbox, unread, stalled, ended, stray>>

WriteCompletes ==
    /\ Running /\ blocked
    /\ blocked' = FALSE
    /\ ended' \in {"No", "WriteFailed"}
    /\ UNCHANGED <<machine, hello, inbox, unread, stalled, stray>>

Message == {"CallConnectRequest", "CallConnectRequestBadProtocol", "CallConnectedZeroHlak",
            "CallConnectedHlak", "CallDisconnect", "CallDisconnectAck", "CallAbort",
            "EchoRequest", "EchoResponse", "Other", "Data"}

\* on_message (and the CallConnected branch of the read arm, which calls verify_call_connected).
on_message(m) ==
    CASE m = "CallConnectRequest"            -> on_call_connect_request(TRUE)
      [] m = "CallConnectRequestBadProtocol" -> on_call_connect_request(FALSE)
      [] m = "CallConnectedZeroHlak"         -> verify_call_connected("ZeroHlak")
      [] m = "CallConnectedHlak"             -> verify_call_connected("Hlak")
      [] m = "CallDisconnect"                -> on_call_disconnect
      [] m = "CallDisconnectAck"             -> on_call_disconnect_ack
      [] m = "CallAbort"                     -> on_call_abort
      [] m = "EchoRequest"                   -> on_echo_request
      [] m = "EchoResponse"                  -> on_echo_response
      [] m = "Other"                         -> unexpected
      [] m = "Data"                          -> on_data_packet

\* Messages whose handler starts an abort even from a teardown state.
Stray(m) == is_in_terminal_drain /\ m \in {"CallConnectedZeroHlak", "CallConnectedHlak", "Other"}

\* The read arm, and the kmod event arm: the packets of one read are parsed and dispatched
\* in a row; no other arm is polled, and the hello state is touched only by the read itself.
ReadArm(m) ==
    /\ Awake
    /\ \/ /\ unread = 0 /\ ~drain_rx /\ ~ControlReady /\ ~TimerDue
          /\ unread' \in 0..MaxChunk
          /\ last_rx' = 0 /\ hello_echo_pending' = FALSE /\ echo_age' = 0
       \/ unread > 0 /\ unread' = unread - 1 /\ UNCHANGED hello
    /\ Stray(m) => stray < MaxStray
    /\ stray' = IF Stray(m) THEN stray + 1 ELSE stray
    /\ on_message(m)
    /\ blocked' \in {FALSE, ended' = "No"}      \* the write of an answer may block as well
    /\ UNCHANGED <<inbox, stalled>>

\* Every other return of drive_sstp: EOF, a read or parse error, a kmod fatal event,
\* PPP finished, Session-Timeout, Idle-Timeout.
SessionReturns ==
    /\ Awake
    /\ ended' = "Closed"
    /\ UNCHANGED <<machine, hello, inbox, waiting, stray>>

\* pending_hlak drained at the top of the loop after an MS-CHAPv2 accept.
on_inner_auth_completed ==
    /\ Polling /\ binding = "ZeroHlak"
    /\ binding' = "Hlak"
    /\ UNCHANGED <<state, sstp_timer, notified, hello, inbox, waiting, ended, stray>>

-----------------------------------------------------------------------------
(* The rest of the process: the worker tick, operators, shutdown.          *)

try_send(cmd) ==
    control_rx' = IF Len(control_rx) < CONTROL_CHANNEL_DEPTH
                  THEN Append(control_rx, cmd) ELSE control_rx

AdminCommand(cmd) ==
    /\ Running /\ admin < MaxAdmin
    /\ admin' = admin + 1
    /\ try_send(cmd)
    /\ UNCHANGED <<machine, hello, drain_rx, drains, waiting, ended, stray>>

Shutdown ==
    /\ Running /\ drains < MaxDrain
    /\ drains' = drains + 1
    /\ drain_rx' = TRUE
    /\ UNCHANGED <<machine, hello, control_rx, admin, waiting, ended, stray>>

\* One second passes and the worker queues a PeriodicTick.  A task that is not
\* awaiting a write is polled within the second: no arm stays ready across it.
Clock ==
    /\ Running /\ state # "ServerCallDisconnected"
    /\ blocked \/ (unread = 0 /\ ~drain_rx /\ ~ControlReady /\ ~TimerDue)
    /\ last_rx' = IF last_rx < IdleCap THEN last_rx + 1 ELSE last_rx
    /\ echo_age' = IF hello_echo_pending /\ echo_age < HELLO THEN echo_age + 1 ELSE echo_age
    /\ sstp_timer' = IF sstp_timer.left > 0 THEN [sstp_timer EXCEPT !.left = @ - 1] ELSE sstp_timer
    /\ try_send("PeriodicTick")
    /\ stalled' = (stalled \/ blocked)
    /\ UNCHANGED <<state, binding, notified, hello_echo_pending, drain_rx, admin, drains,
                   blocked, unread, ended, stray>>

Terminated == ~Running /\ UNCHANGED vars

Next ==
    \/ on_https_accepted \/ DrainArm \/ ControlDisconnect \/ ControlPeriodicTick \/ ControlRekey
    \/ SstpTimerArm \/ KpppReadBlocks \/ WriteCompletes \/ SessionReturns
    \/ on_inner_auth_completed \/ Shutdown \/ Clock \/ Terminated
    \/ \E m \in Message : ReadArm(m)
    \/ \E cmd \in {"Disconnect", "Rekey"} : AdminCommand(cmd)

\* The task is polled whenever it is woken, time passes, and a blocked write ends
\* (TCP completes or fails it).  The peer and the operator owe nothing.
Fairness ==
    /\ WF_vars(on_https_accepted) /\ WF_vars(DrainArm) /\ WF_vars(ControlDisconnect)
    /\ WF_vars(ControlPeriodicTick) /\ WF_vars(ControlRekey) /\ WF_vars(SstpTimerArm)
    /\ WF_vars(WriteCompletes) /\ SF_vars(Clock)
    /\ WF_vars(unread > 0 /\ \E m \in Message : ReadArm(m))

Spec == Init /\ [][Next]_vars /\ Fairness

-----------------------------------------------------------------------------
(* Properties                                                              *)

ControlCommand == {"Disconnect", "Rekey", "PeriodicTick"}

FlagsOK == {hello_echo_pending, drain_rx, blocked, stalled} \subseteq BOOLEAN

\* The variables keep their types: StateMachine's enums, and a control channel that never
\* holds more than the CONTROL_CHANNEL_DEPTH commands try_send admits.
TypeOK ==
    /\ FlagsOK
    /\ state \in State
    /\ binding \in {"None", "ZeroHlak", "Hlak"}
    /\ sstp_timer \in [which : Timer \cup {"None"}, left : Nat]
    /\ last_rx \in 0..IdleCap /\ echo_age \in 0..HELLO
    /\ control_rx \in Seq(ControlCommand) /\ Len(control_rx) <= CONTROL_CHANNEL_DEPTH
    /\ ended \in {"No", "Graceful", "Abrupt", "WriteFailed", "Closed"}
    /\ ppp_starts \in Nat /\ establishments \in Nat
    /\ admin \in 0..MaxAdmin /\ drains \in 0..MaxDrain /\ stray \in 0..MaxStray
    /\ unread \in 0..MaxChunk

\* The timer each state relies on to be left.
TimerOf(s) ==
    CASE s \in {"ServerConnectRequestPending", "ServerCallConnectedPending"} -> "Negotiation"
      [] s = "CallAbortPending"             -> "AbortT1"
      [] s = "CallAbortTimeoutPending"      -> "AbortT2"
      [] s = "CallDisconnectAckPending"     -> "DisconnectT1"
      [] s = "CallDisconnectTimeoutPending" -> "DisconnectT2"
      [] OTHER                              -> "None"

\* drive_sstp keeps one slot for all logical timers ("at most one logical timer is armed
\* at any time").  While the session runs, whatever order messages, timers, commands and
\* drain signals came in, the slot holds exactly the timer the current state waits on, with
\* no more than its full duration left: no state can be left without a way out, and no
\* timer of an earlier state can fire in a later one.
TimerMatchesState ==
    Running => /\ sstp_timer.which = TimerOf(state)
               /\ sstp_timer.which # "None" => sstp_timer.left <= Duration(sstp_timer.which)

\* handle_sstp_step starts PPP on StartPpp and treats a second one as spurious.  The
\* session is told to start PPP at most once, and of an established tunnel at most once and
\* only afterwards; in the connected state both have happened.
NotifyOrder ==
    /\ establishments <= ppp_starts /\ ppp_starts <= 1
    /\ Running => (ppp_starts = 0 <=> binding = "None")
    /\ Running /\ state = "ServerCallConnected" => establishments = 1

\* state.rs on_hello_expired: an unanswered Echo Request gets a full hello interval before
\* on_hello_timeout_no_response drops the call without a word to the peer.
HelloGrace == ended = "Abrupt" => echo_age >= HELLO

\* The same, for a session whose tunnel writes never held the task across a worker tick.
HelloGraceUnlessStalled == ~stalled => HelloGrace

\* An accepted Disconnect command or a drain signal ends the session, whatever the peer sends
\* (of the messages that restart a teardown from within, see Stray, at most MaxStray).
DisconnectHonoured ==
    (drain_rx \/ \E i \in 1..Len(control_rx) : control_rx[i] = "Disconnect") ~> ~Running

\* The worker tick detects a dead peer: a connected call that stays silent past two hello
\* intervals is ended (on_hello_timeout_no_response), unless bytes arrive or it is torn down.
DeadPeerDetected ==
    (Running /\ state = "ServerCallConnected" /\ last_rx >= abort_at)
        ~> (~Running \/ state # "ServerCallConnected" \/ last_rx < HELLO)

\* The call implements the abstract lifecycle: teardown is never undone (on_message in a
\* drain state), negotiation is bounded by its timer, and a closing call closes.
lifecycle_phase ==
    IF ~Running THEN "Closed"
    ELSE CASE state = "ServerCallDisconnected" -> "Opening"
           [] state = "ServerCallConnected"    -> "Established"
           [] is_in_terminal_drain             -> "Closing"
           [] OTHER                            -> "Negotiating"

Lifecycle == INSTANCE SstpLifecycle WITH phase <- lifecycle_phase

ImplementsLifecycle == Lifecycle!Spec
=============================================================================

--------------------------- MODULE SstpCallProofs ---------------------------
(***************************************************************************)
(* Proofs about SstpCall for every value of its timer durations and bounds:*)
(* type correctness, the timer-slot invariant, the notification order, and *)
(* the safety part of the refinement of SstpLifecycle.                     *)
(*                                                                         *)
(* The inductive invariant is split by the variables it reads: MachineOK   *)
(* is about what the FSM handlers change, InboxOK about what the process   *)
(* around the session changes, FlagsOK about the Boolean flags.            *)
(***************************************************************************)
EXTENDS SstpCall, TLAPS

\* How far the notifications have got in each state of a running session.
NotifiedByState ==
    /\ establishments <= ppp_starts /\ ppp_starts <= 1
    /\ Running =>
         /\ ppp_starts = 0 <=> binding = "None"
         /\ state \in {"ServerCallDisconnected", "ServerConnectRequestPending"} => ppp_starts = 0
         /\ state = "ServerCallConnectedPending" => ppp_starts = 1 /\ establishments = 0
         /\ state = "ServerCallConnected" => ppp_starts = 1 /\ establishments = 1

MachineOK ==
    /\ state \in State
    /\ binding \in {"None", "ZeroHlak", "Hlak"}
    /\ sstp_timer \in [which : Timer \cup {"None"}, left : Nat]
    /\ ended \in {"No", "Graceful", "Abrupt", "WriteFailed", "Closed"}
    /\ ppp_starts \in Nat /\ establishments \in Nat
    /\ TimerMatchesState
    /\ NotifiedByState

InboxOK ==
    /\ last_rx \in 0..IdleCap /\ echo_age \in 0..HELLO
    /\ control_rx \in Seq(ControlCommand) /\ Len(control_rx) <= CONTROL_CHANNEL_DEPTH
    /\ admin \in 0..MaxAdmin /\ drains \in 0..MaxDrain /\ stray \in 0..MaxStray
    /\ unread \in 0..MaxChunk

\* Only a session past its accept has a tunnel write to wait on.
BlockedOK == blocked => state # "ServerCallDisconnected"

IInv == FlagsOK /\ MachineOK /\ InboxOK /\ BlockedOK

\* What apply_step may be given in a running session.
Handler ==
    \/ \E m \in Message : on_message(m)
    \/ on_higher_layer_disconnect
    \/ TimerDue /\ on_timer(sstp_timer.which)
    \/ on_hello_expired
    \/ on_hello_timeout_no_response
    \/ Quiet /\ UNCHANGED binding

Handled == MachineOK /\ (Running => state # "ServerCallDisconnected")

\* Every FSM handler of state.rs, applied by apply_step to a well-formed machine of a
\* running session, leaves a well-formed machine.
LEMMA HandlerKeepsMachine ==
    ASSUME MachineOK, Running, state # "ServerCallDisconnected", Handler
    PROVE  Handled'
  <1> USE ConstantsAssumption
      DEF Handled, MachineOK, TimerMatchesState, TimerOf, Duration, NotifiedByState, Running, State, Timer,
          NoTimer, Step, StepFrom, notified, Arm, start_abort, Quiet, is_in_terminal_drain
  <1>1. ASSUME NEW m \in Message, on_message(m) PROVE Handled'
    <2>1. CASE m = "CallConnectRequest"
      BY <1>1, <2>1 DEF on_message, on_call_connect_request
    <2>2. CASE m = "CallConnectRequestBadProtocol"
      BY <1>1, <2>2 DEF on_message, on_call_connect_request
    <2>10. CASE m = "CallConnectedZeroHlak"
      BY <1>1, <2>10 DEF on_message, verify_call_connected, verify
    <2>11. CASE m = "CallConnectedHlak"
      BY <1>1, <2>11 DEF on_message, verify_call_connected, verify
    <2>3. CASE m = "CallDisconnect"
      BY <1>1, <2>3 DEF on_message, on_call_disconnect
    <2>4. CASE m = "CallDisconnectAck"
      BY <1>1, <2>4 DEF on_message, on_call_disconnect_ack
    <2>5. CASE m = "CallAbort"
      BY <1>1, <2>5 DEF on_message, on_call_abort
    <2>6. CASE m = "EchoRequest"
      BY <1>1, <2>6 DEF on_message, on_echo_request
    <2>7. CASE m = "EchoResponse"
      BY <1>1, <2>7 DEF on_message, on_echo_response
    <2>8. CASE m = "Other"
      BY <1>1, <2>8 DEF on_message, unexpected
    <2>9. CASE m = "Data"
      BY <1>1, <2>9 DEF on_message, on_data_packet
    <2>12. QED BY <2>1, <2>2, <2>3, <2>4, <2>5, <2>6, <2>7, <2>8, <2>9, <2>10, <2>11 DEF Message
  <1>2. CASE on_higher_layer_disconnect
    BY <1>2 DEF on_higher_layer_disconnect
  <1>3. CASE TimerDue /\ on_timer(sstp_timer.which)
    BY <1>3 DEF TimerDue, on_timer
  <1>4. CASE on_hello_expired
    BY <1>4 DEF on_hello_expired
  <1>5. CASE on_hello_timeout_no_response
    BY <1>5 DEF on_hello_timeout_no_response
  <1>6. CASE Quiet /\ UNCHANGED binding
    BY <1>6
  <1>7. QED BY ZenonT(60), <1>1, <1>2, <1>3, <1>4, <1>5, <1>6 DEF Handler

-----------------------------------------------------------------------------
\* Every step of the session and of the process around it keeps the machine well formed.
LEMMA NextKeepsMachine ==
    ASSUME IInv, Next
    PROVE  MachineOK'
  <1> USE DEF IInv
  <1>1. CASE on_https_accepted
    BY <1>1, ConstantsAssumption
       DEF on_https_accepted, MachineOK, TimerMatchesState, TimerOf, Duration, NotifiedByState, Running,
           State, Timer, Step, StepFrom, notified, Arm
  <1>2. CASE DrainArm
    BY <1>2, HandlerKeepsMachine DEF DrainArm, Polling, Awake, Handler, Handled
  <1>3. CASE ControlDisconnect
    BY <1>3, HandlerKeepsMachine DEF ControlDisconnect, Polling, Awake, Handler, Handled
  <1>4. CASE ControlPeriodicTick
    BY <1>4, HandlerKeepsMachine DEF ControlPeriodicTick, Polling, Awake, Handler, Handled
  <1>5. CASE ControlRekey
    BY <1>5, HandlerKeepsMachine DEF ControlRekey, Polling, Awake, Handler, Handled
  <1>6. CASE SstpTimerArm
    BY <1>6, HandlerKeepsMachine DEF SstpTimerArm, Polling, Awake, Handler, Handled
  <1>7. CASE \E m \in Message : ReadArm(m)
    BY <1>7, HandlerKeepsMachine DEF ReadArm, Awake, Handler, Handled
  <1>8. CASE WriteCompletes \/ SessionReturns
    BY <1>8 DEF WriteCompletes, SessionReturns, machine, notified, Polling, Awake, MachineOK, TimerMatchesState,
                NotifiedByState, Running
  <1>9. CASE on_inner_auth_completed
    BY <1>9 DEF on_inner_auth_completed, notified, Polling, Awake, MachineOK, TimerMatchesState,
                NotifiedByState, Running
  <1>10. CASE Clock
    <2>1. sstp_timer' \in [which : Timer \cup {"None"}, left : Nat]
          /\ sstp_timer'.which = sstp_timer.which /\ sstp_timer'.left <= sstp_timer.left
      BY <1>10 DEF Clock, MachineOK
    <2>2. sstp_timer.which # "None" => Duration(sstp_timer.which) \in Nat
      BY ConstantsAssumption DEF MachineOK, Duration, Timer
    <2>3. TimerMatchesState'
      BY <1>10, <2>1, <2>2 DEF Clock, MachineOK, TimerMatchesState, Running, TimerOf
    <2> QED BY <1>10, <2>1, <2>3 DEF Clock, notified, MachineOK, NotifiedByState, Running
  <1>11. CASE KpppReadBlocks \/ Shutdown \/ Terminated
              \/ \E cmd \in {"Disconnect", "Rekey"} : AdminCommand(cmd)
    BY <1>11 DEF KpppReadBlocks, Shutdown, Terminated, AdminCommand, vars, machine, notified,
                 MachineOK, TimerMatchesState, TimerOf, NotifiedByState, Running
  <1> QED BY <1>1, <1>2, <1>3, <1>4, <1>5, <1>6, <1>7, <1>8, <1>9, <1>10, <1>11 DEF Next

\* The control channel never holds more than its depth and the counters stay within their
\* bounds, whichever step is taken.
LEMMA NextKeepsInbox ==
    ASSUME IInv, Next
    PROVE  InboxOK'
  <1> USE ConstantsAssumption DEF IInv, InboxOK, ControlCommand, IdleCap, hello, inbox, waiting
  <1>1. CASE DrainArm
    BY <1>1 DEF DrainArm
  <1>2. CASE ControlDisconnect
    BY <1>2 DEF ControlDisconnect, ControlReady
  <1>3. CASE ControlPeriodicTick
    BY <1>3 DEF ControlPeriodicTick, ControlReady
  <1>4. CASE ControlRekey
    BY <1>4 DEF ControlRekey, ControlReady
  <1>5. CASE \E m \in Message : ReadArm(m)
    BY <1>5 DEF ReadArm
  <1>6. CASE \E cmd \in {"Disconnect", "Rekey"} : AdminCommand(cmd)
    BY <1>6 DEF AdminCommand, try_send
  <1>7. CASE Clock
    <2>1. last_rx' = (IF last_rx < IdleCap THEN last_rx + 1 ELSE last_rx)
      BY <1>7 DEF Clock
    <2>2. echo_age' = echo_age \/ (echo_age < HELLO /\ echo_age' = echo_age + 1)
      BY <1>7 DEF Clock
    <2>3. try_send("PeriodicTick") /\ UNCHANGED <<admin, drains, stray, unread>>
      BY <1>7 DEF Clock
    <2> QED BY <2>1, <2>2, <2>3 DEF try_send
  <1>8. CASE Shutdown
    BY <1>8 DEF Shutdown
  <1>9. CASE on_https_accepted \/ SstpTimerArm \/ KpppReadBlocks \/ WriteCompletes
             \/ SessionReturns \/ on_inner_auth_completed \/ Terminated
    BY ZenonT(60), <1>9 DEF on_https_accepted, SstpTimerArm, KpppReadBlocks, WriteCompletes, SessionReturns,
                on_inner_auth_completed, Terminated, vars
  <1> QED BY <1>1, <1>2, <1>3, <1>4, <1>5, <1>6, <1>7, <1>8, <1>9 DEF Next

\* The flags stay Boolean.
LEMMA NextKeepsFlags ==
    ASSUME IInv, Next
    PROVE  FlagsOK'
  <1> SUFFICES /\ hello_echo_pending' \in BOOLEAN /\ drain_rx' \in BOOLEAN
               /\ blocked' \in BOOLEAN /\ stalled' \in BOOLEAN
    BY DEF FlagsOK
  <1>0. /\ hello_echo_pending \in BOOLEAN /\ drain_rx \in BOOLEAN
        /\ blocked \in BOOLEAN /\ stalled \in BOOLEAN
    BY DEF IInv, FlagsOK
  <1> USE <1>0 DEF hello, inbox, waiting
  <1>1. CASE DrainArm
    BY ZenonT(60), <1>1 DEF DrainArm
  <1>2. CASE ControlDisconnect
    BY <1>2 DEF ControlDisconnect
  <1>3. CASE ControlPeriodicTick
    BY ZenonT(60), <1>3 DEF ControlPeriodicTick
  <1>4. CASE ControlRekey
    BY <1>4 DEF ControlRekey
  <1>5. CASE \E m \in Message : ReadArm(m)
    BY ZenonT(60), <1>5 DEF ReadArm
  <1>6. CASE \E cmd \in {"Disconnect", "Rekey"} : AdminCommand(cmd)
    BY <1>6 DEF AdminCommand
  <1>7. CASE Clock
    BY <1>7 DEF Clock
  <1>8. CASE Shutdown
    BY <1>8 DEF Shutdown
  <1>9. CASE on_https_accepted \/ SstpTimerArm \/ KpppReadBlocks \/ WriteCompletes
             \/ SessionReturns \/ on_inner_auth_completed \/ Terminated
    BY ZenonT(60), <1>9 DEF on_https_accepted, SstpTimerArm, KpppReadBlocks, WriteCompletes, SessionReturns,
                on_inner_auth_completed, Terminated, vars
  <1> QED BY <1>1, <1>2, <1>3, <1>4, <1>5, <1>6, <1>7, <1>8, <1>9 DEF Next

\* A blocked session takes no step of its own, so it stays past its accept.
LEMMA NextKeepsBlocked ==
    ASSUME IInv, Next
    PROVE  BlockedOK'
  <1> USE DEF IInv, BlockedOK
  <1>1. ASSUME NEW m \in Message, ReadArm(m) PROVE BlockedOK'
    <2>1. Handled'
      BY <1>1, HandlerKeepsMachine DEF ReadArm, Awake, Handler
    <2> QED BY ZenonT(60), <1>1, <2>1 DEF ReadArm, Handled, Running
  <1>2. CASE on_https_accepted
    BY <1>2 DEF on_https_accepted, Step, StepFrom
  <1>3. CASE DrainArm \/ ControlDisconnect \/ ControlPeriodicTick \/ ControlRekey \/ SstpTimerArm
             \/ KpppReadBlocks \/ WriteCompletes \/ SessionReturns \/ on_inner_auth_completed
             \/ Shutdown \/ Clock \/ Terminated
             \/ \E cmd \in {"Disconnect", "Rekey"} : AdminCommand(cmd)
    BY ZenonT(60), <1>3
       DEF Polling, Awake, waiting, machine, vars, DrainArm, ControlDisconnect, ControlPeriodicTick,
           ControlRekey, SstpTimerArm, KpppReadBlocks, WriteCompletes, SessionReturns,
           on_inner_auth_completed, Shutdown, Clock, Terminated, AdminCommand
  <1> QED BY <1>1, <1>2, <1>3 DEF Next

-----------------------------------------------------------------------------
\* The inductive invariant holds in every reachable state.
THEOREM InvariantHolds == Spec => []IInv
  <1>1. Init => IInv
    <2> SUFFICES ASSUME Init PROVE IInv
      OBVIOUS
    <2>1. FlagsOK
      BY ZenonT(60) DEF Init, FlagsOK
    <2>2. MachineOK
      BY DEF Init, MachineOK, State, Timer, NoTimer, TimerMatchesState, TimerOf, NotifiedByState, Running
    <2>3. InboxOK
      BY ConstantsAssumption DEF Init, InboxOK, IdleCap, ControlCommand
    <2>4. BlockedOK
      BY DEF Init, BlockedOK
    <2> QED BY <2>1, <2>2, <2>3, <2>4 DEF IInv
  <1>2. IInv /\ [Next]_vars => IInv'
    <2> SUFFICES ASSUME IInv, [Next]_vars PROVE IInv'
      OBVIOUS
    <2>1. CASE Next
      BY <2>1, NextKeepsMachine, NextKeepsInbox, NextKeepsFlags, NextKeepsBlocked DEF IInv
    <2>2. CASE UNCHANGED vars
      <3>1. FlagsOK'
        BY <2>2 DEF IInv, FlagsOK, vars, hello, inbox, waiting
      <3>2. MachineOK'
        BY <2>2 DEF IInv, vars, machine, notified, MachineOK, TimerMatchesState, TimerOf,
                    NotifiedByState, Running
      <3>3. InboxOK'
        BY <2>2 DEF IInv, vars, hello, inbox, waiting, InboxOK
      <3>4. BlockedOK'
        BY <2>2 DEF IInv, vars, machine, waiting, BlockedOK
      <3> QED BY <3>1, <3>2, <3>3, <3>4 DEF IInv
    <2> QED BY <2>1, <2>2
  <1> QED BY <1>1, <1>2, PTL DEF Spec

\* Type correctness: in particular the control channel of drive_sstp never exceeds
\* CONTROL_CHANNEL_DEPTH, for every depth and every timer value.
THEOREM TypeCorrect == Spec => []TypeOK
  <1>1. IInv => TypeOK
    BY DEF IInv, MachineOK, InboxOK, TypeOK
  <1> QED BY <1>1, InvariantHolds, PTL

\* The single timer slot of drive_sstp always holds the timer the state waits on, for every
\* assignment of durations to the timers of state.rs.
THEOREM TimerSlotSuffices == Spec => []TimerMatchesState
  <1>1. IInv => TimerMatchesState
    BY DEF IInv, MachineOK
  <1> QED BY <1>1, InvariantHolds, PTL

\* handle_sstp_step is told to start PPP at most once and of establishment at most once
\* and only afterwards.
THEOREM NotificationsOrdered == Spec => []NotifyOrder
  <1>1. IInv => NotifyOrder
    BY DEF IInv, MachineOK, NotifiedByState, NotifyOrder
  <1> QED BY <1>1, InvariantHolds, PTL

-----------------------------------------------------------------------------
\* A handler step of a running session is a step of the abstract lifecycle or leaves the
\* phase alone: no message, timer or command takes a closing call back to negotiation.
LEMMA HandlerRefines ==
    ASSUME MachineOK, Running, state # "ServerCallDisconnected", Handler
    PROVE  [Lifecycle!Next]_lifecycle_phase
  <1> USE DEF MachineOK, TimerMatchesState, TimerOf, Running, State, Step, StepFrom, start_abort, Quiet,
              is_in_terminal_drain, lifecycle_phase, Lifecycle!Next, Lifecycle!Accept,
              Lifecycle!Establish, Lifecycle!BeginClose, Lifecycle!Close
  <1>1. ASSUME NEW m \in Message, on_message(m) PROVE [Lifecycle!Next]_lifecycle_phase
    <2>1. CASE m = "CallConnectRequest"
      BY <1>1, <2>1 DEF on_message, on_call_connect_request
    <2>2. CASE m = "CallConnectRequestBadProtocol"
      BY <1>1, <2>2 DEF on_message, on_call_connect_request
    <2>3. CASE m = "CallConnectedZeroHlak"
      <3>1. verify_call_connected("ZeroHlak")
        BY <1>1, <2>3 DEF on_message
      <3> QED BY <3>1 DEF verify_call_connected
    <2>4. CASE m = "CallConnectedHlak"
      BY <1>1, <2>4 DEF on_message, verify_call_connected
    <2>5. CASE m = "CallDisconnect"
      BY <1>1, <2>5 DEF on_message, on_call_disconnect
    <2>6. CASE m = "CallDisconnectAck"
      <3>1. on_call_disconnect_ack
        BY <1>1, <2>6 DEF on_message
      <3> QED BY <3>1 DEF on_call_disconnect_ack
    <2>7. CASE m = "CallAbort"
      BY <1>1, <2>7 DEF on_message, on_call_abort
    <2>8. CASE m = "EchoRequest"
      BY <1>1, <2>8 DEF on_message, on_echo_request
    <2>9. CASE m = "EchoResponse"
      BY <1>1, <2>9 DEF on_message, on_echo_response
    <2>10. CASE m = "Other"
      BY <1>1, <2>10 DEF on_message, unexpected
    <2>11. CASE m = "Data"
      BY <1>1, <2>11 DEF on_message, on_data_packet
    <2> QED BY ZenonT(60), <2>1, <2>2, <2>3, <2>4, <2>5, <2>6, <2>7, <2>8, <2>9, <2>10, <2>11 DEF Message
  <1>2. CASE on_higher_layer_disconnect
    BY <1>2 DEF on_higher_layer_disconnect
  <1>3. CASE TimerDue /\ on_timer(sstp_timer.which)
    BY <1>3 DEF TimerDue, on_timer
  <1>4. CASE on_hello_expired
    BY <1>4 DEF on_hello_expired
  <1>5. CASE on_hello_timeout_no_response
    BY <1>5 DEF on_hello_timeout_no_response
  <1>6. CASE Quiet /\ UNCHANGED binding
    BY <1>6
  <1> QED BY ZenonT(60), <1>1, <1>2, <1>3, <1>4, <1>5, <1>6 DEF Handler

\* Every step of the model maps to a step of the abstract lifecycle or a stutter.
LEMMA NextRefines ==
    ASSUME IInv, [Next]_vars
    PROVE  [Lifecycle!Next]_lifecycle_phase
  <1> USE DEF IInv
  <1> DEFINE Phases == [Lifecycle!Next]_lifecycle_phase
  <1>1. CASE on_https_accepted
    BY <1>1 DEF on_https_accepted, Running, Step, StepFrom, lifecycle_phase, is_in_terminal_drain,
                Lifecycle!Next, Lifecycle!Accept, Lifecycle!Close
  <1>2. CASE DrainArm
    BY <1>2, HandlerRefines DEF DrainArm, Polling, Awake, Handler
  <1>3. CASE ControlDisconnect
    BY <1>3, HandlerRefines DEF ControlDisconnect, Polling, Awake, Handler
  <1>4. CASE ControlPeriodicTick
    BY <1>4, HandlerRefines DEF ControlPeriodicTick, Polling, Awake, Handler
  <1>5. CASE ControlRekey
    BY <1>5, HandlerRefines DEF ControlRekey, Polling, Awake, Handler
  <1>6. CASE SstpTimerArm
    BY <1>6, HandlerRefines DEF SstpTimerArm, Polling, Awake, Handler
  <1>7. CASE \E m \in Message : ReadArm(m)
    BY <1>7, HandlerRefines DEF ReadArm, Awake, Handler
  <1>8. CASE WriteCompletes
    BY <1>8 DEF WriteCompletes, BlockedOK, machine, MachineOK, State, Running, lifecycle_phase,
                is_in_terminal_drain, Lifecycle!Next, Lifecycle!Close
  <1>9. CASE SessionReturns
    BY <1>9 DEF SessionReturns, Awake, machine, notified, MachineOK, State, Running,
                lifecycle_phase, is_in_terminal_drain, Lifecycle!Next, Lifecycle!Close
  <1>10. CASE on_inner_auth_completed \/ Clock \/ KpppReadBlocks \/ Shutdown \/ Terminated
              \/ UNCHANGED vars \/ \E cmd \in {"Disconnect", "Rekey"} : AdminCommand(cmd)
    BY <1>10 DEF on_inner_auth_completed, Clock, KpppReadBlocks, Shutdown, Terminated, AdminCommand,
                 vars, machine, lifecycle_phase, is_in_terminal_drain, Running
  <1> QED BY <1>1, <1>2, <1>3, <1>4, <1>5, <1>6, <1>7, <1>8, <1>9, <1>10 DEF Next

\* The session implements the safety part of SstpLifecycle: it is accepted once, established
\* at most once, and teardown is never undone.
THEOREM CallRefinesLifecycle == Spec => Lifecycle!Safety
  <1>1. Init => Lifecycle!Init
    BY DEF Init, Lifecycle!Init, lifecycle_phase, Running, is_in_terminal_drain
  <1>2. IInv /\ [Next]_vars => [Lifecycle!Next]_lifecycle_phase
    BY NextRefines
  <1> QED BY <1>1, <1>2, InvariantHolds, PTL DEF Spec, Lifecycle!Safety

-----------------------------------------------------------------------------
(* The keepalive of a session that was never stalled.  The worker queues a *)
(* tick every second and the task handles it within that second, so the    *)
(* probe goes out exactly one interval after the last bytes and the age of *)
(* the probe and of the silence grow together.                             *)

TickQueued == \E i \in 1..Len(control_rx) : control_rx[i] = "PeriodicTick"

HelloOK ==
    /\ HelloGraceUnlessStalled
    /\ Running /\ ~stalled =>
         /\ unread > 0 => last_rx = 0 /\ ~hello_echo_pending
         /\ state = "ServerCallConnected" /\ hello_echo_pending =>
              last_rx = HELLO + echo_age /\ (echo_age = HELLO => TickQueued)
         /\ state = "ServerCallConnected" /\ ~hello_echo_pending =>
              last_rx <= HELLO /\ (last_rx = HELLO => TickQueued)

\* Only on_hello_timeout_no_response ends a session abruptly.
LEMMA OnlyTimeoutIsAbrupt ==
    ASSUME Running,
           \/ \E m \in Message : on_message(m)
           \/ on_higher_layer_disconnect \/ on_timer(sstp_timer.which) \/ on_hello_expired \/ Quiet
    PROVE  ended' # "Abrupt"
  <1> USE DEF Running, Step, StepFrom, Quiet, start_abort
  <1>1. ASSUME NEW m \in Message, on_message(m) PROVE ended' # "Abrupt"
    <2>1. CASE m \in {"CallConnectRequest", "CallConnectRequestBadProtocol"}
      BY ZenonT(60), <1>1, <2>1 DEF on_message, on_call_connect_request
    <2>2. CASE m \in {"CallConnectedZeroHlak", "CallConnectedHlak"}
      BY ZenonT(60), <1>1, <2>2 DEF on_message, verify_call_connected
    <2>3. CASE m = "CallDisconnect"
      BY <1>1, <2>3 DEF on_message, on_call_disconnect
    <2>4. CASE m = "CallDisconnectAck"
      BY <1>1, <2>4 DEF on_message, on_call_disconnect_ack
    <2>5. CASE m = "CallAbort"
      BY <1>1, <2>5 DEF on_message, on_call_abort
    <2>6. CASE m = "EchoRequest"
      BY <1>1, <2>6 DEF on_message, on_echo_request
    <2>7. CASE m = "EchoResponse"
      BY <1>1, <2>7 DEF on_message, on_echo_response
    <2>8. CASE m \in {"Other", "Data"}
      BY ZenonT(60), <1>1, <2>8 DEF on_message, unexpected, on_data_packet
    <2> QED BY ZenonT(60), <2>1, <2>2, <2>3, <2>4, <2>5, <2>6, <2>7, <2>8 DEF Message
  <1>2. CASE on_higher_layer_disconnect
    BY <1>2 DEF on_higher_layer_disconnect
  <1>3. CASE on_timer(sstp_timer.which)
    BY <1>3 DEF on_timer
  <1>4. CASE on_hello_expired
    BY <1>4 DEF on_hello_expired
  <1> QED BY <1>1, <1>2, <1>3, <1>4

\* A queued tick is still queued after another command is taken or added.
LEMMA TickStaysQueued ==
    ASSUME IInv, TickQueued,
           \/ control_rx # <<>> /\ Head(control_rx) # "PeriodicTick" /\ control_rx' = Tail(control_rx)
           \/ \E cmd \in ControlCommand : try_send(cmd)
    PROVE  TickQueued'
  <1> USE DEF IInv, InboxOK, TickQueued
  <1>1. PICK i \in 1..Len(control_rx) : control_rx[i] = "PeriodicTick"
    OBVIOUS
  <1>2. CASE control_rx # <<>> /\ Head(control_rx) # "PeriodicTick" /\ control_rx' = Tail(control_rx)
    <2>1. i # 1 /\ i - 1 \in 1..Len(control_rx') /\ control_rx'[i - 1] = control_rx[i]
      BY <1>1, <1>2
    <2> QED BY ZenonT(60), <1>1, <2>1
  <1>3. ASSUME NEW cmd \in ControlCommand, try_send(cmd) PROVE TickQueued'
    <2>1. i \in 1..Len(control_rx') /\ control_rx'[i] = control_rx[i]
      BY <1>1, <1>3 DEF try_send
    <2> QED BY <1>1, <2>1
  <1> QED BY ZenonT(60), <1>2, <1>3

\* Every step keeps the keepalive invariant; the tick and the clock are the ones that
\* move it.
LEMMA NextKeepsHello ==
    ASSUME IInv, HelloOK, Next
    PROVE  HelloOK'
  <1> USE ConstantsAssumption DEF HelloOK, HelloGraceUnlessStalled, HelloGrace, Running
  <1>0. /\ last_rx \in 0..IdleCap /\ echo_age \in 0..HELLO /\ unread \in Nat
        /\ control_rx \in Seq(ControlCommand)
    BY DEF IInv, InboxOK
  <1>1. CASE on_https_accepted
    BY <1>1 DEF on_https_accepted, Step, StepFrom, hello, waiting
  <1>2. CASE DrainArm \/ ControlDisconnect
    <2>1. /\ state' = "CallDisconnectAckPending" /\ ended' # "Abrupt" /\ ended = "No"
          /\ UNCHANGED <<hello, waiting>>
      BY ZenonT(60), <1>2, OnlyTimeoutIsAbrupt
         DEF DrainArm, ControlDisconnect, Polling, Awake, on_higher_layer_disconnect, Step, StepFrom
    <2> QED BY <2>1 DEF hello, waiting
  <1>3. CASE ControlPeriodicTick
    <2>1. ended = "No" /\ unread = 0 /\ UNCHANGED <<last_rx, waiting>>
      BY <1>3 DEF ControlPeriodicTick, Polling, Awake
    <2>2. CASE /\ state = "ServerCallConnected" /\ hello_echo_pending /\ last_rx >= abort_at
               /\ on_hello_timeout_no_response /\ UNCHANGED <<hello_echo_pending, echo_age>>
      BY <1>0, <2>1, <2>2 DEF abort_at, waiting, on_hello_timeout_no_response, Step, StepFrom
    <2>3. CASE /\ state = "ServerCallConnected" /\ ~hello_echo_pending /\ last_rx >= HELLO
               /\ on_hello_expired /\ hello_echo_pending' = TRUE /\ echo_age' = 0
      <3>1. ended' # "Abrupt"
        BY <2>3, OnlyTimeoutIsAbrupt, <2>1
      <3>2. ~stalled => last_rx = HELLO
        BY <1>0, <2>1, <2>3
      <3> QED BY <2>1, <2>3, <3>1, <3>2 DEF waiting
    <2>4. CASE /\ ~(state = "ServerCallConnected" /\ hello_echo_pending /\ last_rx >= abort_at)
               /\ ~(state = "ServerCallConnected" /\ ~hello_echo_pending /\ last_rx >= HELLO)
               /\ Quiet /\ UNCHANGED <<hello_echo_pending, echo_age>>
      <3>1. ended' = "No" /\ state' = state
        BY <2>1, <2>4 DEF Quiet, Step, StepFrom
      <3> QED BY <1>0, <2>1, <2>4, <3>1 DEF waiting, abort_at, IdleCap
    <2> QED BY ZenonT(60), <1>3, <2>2, <2>3, <2>4 DEF ControlPeriodicTick
  <1>4. CASE ControlRekey
    <2>1. TickQueued => TickQueued'
      BY <1>4, TickStaysQueued DEF ControlRekey, ControlReady
    <2>2. ended = "No" /\ ended' = "No" /\ state' = state /\ UNCHANGED <<hello, waiting>>
      BY <1>4 DEF ControlRekey, Polling, Awake, Quiet, Step, StepFrom
    <2> QED BY <2>1, <2>2 DEF hello, waiting
  <1>5. CASE SstpTimerArm
    <2>1. /\ ended = "No" /\ ended' # "Abrupt" /\ state # "ServerCallConnected"
          /\ UNCHANGED <<hello, waiting>>
      BY <1>5, OnlyTimeoutIsAbrupt
         DEF SstpTimerArm, Polling, Awake, TimerDue, IInv, MachineOK, TimerMatchesState, TimerOf
    <2>2. state' # "ServerCallConnected"
      BY ZenonT(60), <1>5, <2>1 DEF SstpTimerArm, on_timer, Step, StepFrom
    <2> QED BY <2>1, <2>2 DEF hello, waiting
  <1>6. ASSUME NEW m \in Message, ReadArm(m) PROVE HelloOK'
    <2>1. ended = "No" /\ ended' # "Abrupt" /\ stalled' = stalled
      BY <1>6, OnlyTimeoutIsAbrupt DEF ReadArm, Awake
    <2>2. CASE last_rx' = 0 /\ hello_echo_pending' = FALSE
      <3>1. ~hello_echo_pending'
        BY <2>2
      <3> QED BY <2>1, <2>2, <3>1
    <2>3. CASE unread > 0 /\ unread' = unread - 1 /\ UNCHANGED hello
      BY <1>0, <2>1, <2>3 DEF hello
    <2> QED BY ZenonT(60), <1>6, <2>2, <2>3 DEF ReadArm
  <1>7. CASE Clock
    <2>1. ended = "No" /\ ended' = "No" /\ UNCHANGED <<state, unread, hello_echo_pending>>
      BY <1>7 DEF Clock
    <2>2. SUFFICES ASSUME ~stalled' PROVE HelloOK'
      BY <2>1
    <2>3. ~stalled /\ ~blocked
      BY ZenonT(60), <1>7, <2>2 DEF Clock
    <2>4. unread = 0 /\ control_rx = <<>>
      BY <1>7, <2>3 DEF Clock, ControlReady
    <2>5. ~TickQueued /\ TickQueued'
      <3>1. control_rx' = Append(control_rx, "PeriodicTick")
        BY <1>7, <2>4 DEF Clock, try_send
      <3> QED BY <1>0, <2>4, <3>1 DEF TickQueued, ControlCommand
    <2>6. CASE state = "ServerCallConnected" /\ hello_echo_pending
      <3>1. echo_age' = echo_age + 1 /\ last_rx' = last_rx + 1
        <4>1. echo_age < HELLO /\ last_rx < IdleCap
          BY <1>0, <2>1, <2>3, <2>5, <2>6 DEF IdleCap
        <4> QED BY <1>7, <2>6, <4>1 DEF Clock
      <3> QED BY <1>0, <2>1, <2>3, <2>4, <2>5, <2>6, <3>1
    <2>7. CASE state = "ServerCallConnected" /\ ~hello_echo_pending
      <3>1. last_rx' = last_rx + 1 /\ last_rx < HELLO
        <4>1. last_rx < HELLO
          BY <1>0, <2>1, <2>3, <2>5, <2>7
        <4>2. last_rx' = IF last_rx < IdleCap THEN last_rx + 1 ELSE last_rx
          BY <1>7 DEF Clock
        <4> QED BY <1>0, <4>1, <4>2 DEF IdleCap
      <3> QED BY <1>0, <2>1, <2>4, <2>5, <2>7, <3>1
    <2> QED BY <2>1, <2>4, <2>6, <2>7
  <1>8. CASE \E cmd \in {"Disconnect", "Rekey"} : AdminCommand(cmd)
    <2>1. TickQueued => TickQueued'
      BY <1>8, TickStaysQueued DEF AdminCommand, ControlCommand
    <2> QED BY <1>8, <2>1 DEF AdminCommand, machine, hello, waiting
  <1>9. CASE \/ KpppReadBlocks \/ WriteCompletes \/ SessionReturns \/ on_inner_auth_completed
             \/ Shutdown \/ Terminated
    <2>1. UNCHANGED <<state, hello, unread, stalled, control_rx>>
      BY <1>9 DEF KpppReadBlocks, WriteCompletes, SessionReturns, on_inner_auth_completed, Shutdown,
                  Terminated, vars, machine, inbox, waiting
    <2>2. ended' = ended \/ (ended = "No" /\ ended' \in {"WriteFailed", "Closed"})
      BY <1>9 DEF KpppReadBlocks, WriteCompletes, SessionReturns, on_inner_auth_completed, Shutdown,
                  Terminated, vars, Awake
    <2> QED BY <2>1, <2>2 DEF hello, TickQueued
  <1> QED BY <1>1, <1>2, <1>3, <1>4, <1>5, <1>6, <1>7, <1>8, <1>9 DEF Next

\* A session never held across a worker tick gives its Echo Request a full hello interval
\* before it drops the call, for every hello interval and channel depth.
THEOREM HelloGraceHolds == Spec => []HelloGraceUnlessStalled
  <1>1. Init => HelloOK
    BY ConstantsAssumption DEF Init, HelloOK, HelloGraceUnlessStalled, HelloGrace, Running
  <1>2. IInv /\ HelloOK /\ [Next]_vars => HelloOK'
    <2> SUFFICES ASSUME IInv, HelloOK, UNCHANGED vars PROVE HelloOK'
      BY NextKeepsHello
    <2> QED BY DEF vars, machine, hello, inbox, waiting, HelloOK, HelloGraceUnlessStalled, HelloGrace,
                   Running, TickQueued
  <1>3. HelloOK => HelloGraceUnlessStalled
    BY DEF HelloOK
  <1> QED BY <1>1, <1>2, <1>3, InvariantHolds, PTL DEF Spec
=============================================================================

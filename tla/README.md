# A TLA+ model of sstp-server

This directory specifies the server in TLA+, checks the specifications with TLC
on small instances and proves their safety properties with TLAPS for all
instances. Source paths below are relative to the repository (`src/...` is the
Rust daemon, `kmod/...` the kernel module).

## 1. The system

The daemon terminates SSTP: TLS, an HTTPS preamble, SSTP control messages, PPP
(LCP, authentication, IPCP) and a data path, either a TUN device served by the
session task or a kernel module that takes over the TLS socket.

| Part | State | Operations | Interacts with |
|---|---|---|---|
| SSTP state machine (`src/sstp/state.rs`) | state, binding key | one handler per message, timer and local event; each returns a `StepOut` | session task |
| Session task (`drive_sstp`, `src/session.rs`) | one SSTP timer slot, one PPP timer slot, control channel, drain watch, hello clock, data path, accounting | a biased `select!`: drain, commands, timers, kernel events, TUN, TLS reads | everything |
| PPP automaton (`src/ppp/fsm.rs`) | state, restart counter | the RFC 1661 table | driver |
| PPP driver (`src/ppp/driver.rs`) | phase, LCP, IPCP | packets, verdicts, expiries | session task, RADIUS |
| Process (`src/main.rs`), registry, control socket | shutdown watch, workers, tasks, registered sessions | accept, tick, drain, broadcast, join; disable, rekey, shutdown | sessions |
| Accounting (`src/auth/acct_bridge.rs`, `accounting.rs`) | queue, one task per record, correlation slots | submit, dispatch, send, retry, fail over, reader | sessions, RADIUS servers |
| Authentication bridge (`src/auth/bridge.rs`, `client.rs`, `reply.rs`) | queue, one task per login, oneshots | submit, dispatch, fail over, answer | PPP through the session task |
| Byte stream (`src/crypto/tls.rs`, `src/sstp/preamble.rs`, `frame.rs`, `msg.rs`, `attr.rs`) | libssl, socket, readiness, `rx_buf` | handshake, preamble, read, parse, write, KeyUpdate, handoff to the kernel | session task, kernel |
| Data path (`src/kppp`, `src/shape`, `src/crypto/ktls.rs`) | kTLS state, netdev, attachment, shaper, shared MSS table | bring-up, drop | session task, netlink, kernel module |
| Kernel module (`kmod/`) | transmit queue, receive buffer, control queue, event ring, `closing`, teardown | two workers, `start_xmit`, socket callbacks, read, ioctls, release | ppp_generic, TCP, session task |
| Listener, privileges, CLI, metrics, message encodings | mostly none | encodings and I/O | |

What makes it hard: one task serves every input of a session, and a handler
that awaits (a write, RADIUS) holds up all the others; slots are shared (one
timer slot for five SSTP timers, one for two PPP automata, RADIUS identifiers
for all records); shutdown reaches a session by two routes that race with its
own life; datagrams are lost, late and repeated; the TLS stream is cut anywhere
and changes hands in the middle; a bring-up is a dozen system calls that may
each fail, on names and tables shared with other sessions; and the kernel module
has six concurrent contexts on one structure. `PROJECT.json` lists each such hazard
with its line and the properties that cover it.

## 2. Modules

| Module | Models | Proofs in |
|---|---|---|
| `SstpLifecycle` | what a call promises: opening, negotiating, established, closing, closed, never back | |
| `SstpCall` | the state machine in the select loop of `drive_sstp`, with any peer | `SstpCallProofs` |
| `PppFsm` | the automaton's table, as pure operators | |
| `PppLink` | the driver and `handle_ppp_step`: LCP, authentication, IPCP, one timer slot, bring-up | `PppLinkProofs` |
| `Server` | main, workers, registry, sessions by stage, control socket | `ServerProofs` |
| `Kmod` | one attached session of the kernel module and its user | `KmodProofs` |
| `Accounting` | bridge, client and an unreliable network | `AccountingProofs` |
| `AuthBridge` | logins: queue, dispatcher, failover, verdicts, the end of the runtime | `AuthBridgeProofs` |
| `Stream` | the bytes of one session: TCP, libssl, readiness, preamble, packets, handoff | |
| `Negotiation` | LCP and IPCP options and the logins, with a client (uses `PppFsm`) | `NegotiationProofs` |
| `DataPath` | bring-up and teardown of several sessions, the shared MSS table | `DataPathProofs` |

`MCAuthBridge`, `MCStream`, `MCNegotiation` and `MCDataPath` give the last four
their instances for TLC; the others take plain values from their configurations.

Names follow the source: an action is called after the function or select arm
it models, a variable after the field or local it stands for. Definitions whose
comment begins with "Mutant" are deliberately broken variants of the definition
that follows; no specification uses them.

**SstpCall.** A handler is a formula that assigns the machine's variables and
its `StepOut` at once, and `StepFrom` is `apply_step`: write (which may fail, or
block the task), timer slot, notification, termination. While `blocked`, no arm
runs; the clock and the channel go on. The select is biased, so an arm's guard
excludes the arms before it. The clock counts seconds; `last_rx` is capped
beyond the thresholds, which it is only compared with. `echo_age` and `stalled`
are history variables. The refinement mapping to `SstpLifecycle` is the state,
with an ended session `Closed`.

**PppFsm and PppLink.** `Cell` gives, for a state and an event, the next state
and a set of actions; `step` applies the restart counter. Packets are the
automaton's events: an option list is acceptable or not (RCR+ or RCR-), as
`classify_configure_request` decides. Accepts are numbered, a number standing for user,
address and policy. Credentials and verdict are one step because the handler
awaits RADIUS and the task serves nothing else meanwhile. An armed timer may
fire at any time. The configuration has accounting enabled.

**Server.** A session is its stage: registered, handshake, preamble, driving,
closing, ended. Each worker is a current-thread runtime: a session moves only
when the accept loop is at an await. `tokio::sync::watch` is a version number
and the version each receiver has seen. `DRAIN_GRACE` has no clock; a wait it
bounds may end at any time, and must.

**Kmod.** A step is what happens between two points another CPU can see. The
work queue is a pending bit and a program counter per worker. A socket callback
first finds the session, later tests `closing` and queues the work, and
`sk_write_space` then reads the session once more (`irq`). Nothing in the module
makes the release wait for a callback in flight, so one may reach a session that is
freed: `release` is then `Touched`, and the model goes on as if the memory still
held the session, since what really follows is undefined. Frames for the peer are numbered on entry to `tx_q`.
`ppp_generic`, the socket buffers and the work queue are external. Frames are
whole: byte reassembly is not in this module.

**Accounting.** Tasks and reader interleave wherever they release the slots'
lock, because the auth runtime is multi-threaded. A request that reaches its
server stays in `answered` for ever: its response may arrive at any later time,
again, or never. The authenticator is modelled by record and attempt, which is
what makes two digests differ.

**AuthBridge.** A session is idle, waits in `send().await` (first come, first
served), waits for its oneshot, has its verdict, or was dropped. A task asks one
server per step. `radius-tokio` is external: an exchange ends with a verified
answer or an error after its own retries, and an answer is its code and the
attributes the code looks at. `shutdown_background` may come at any time; from
then on a job is dropped wherever it is, which closes its oneshot. The last point
is what `drop_job` models.

**Stream.** Bytes are counted, not stored: a packet is a kind and a number of
units, a TLS record a number of units with the key, the record number and the
nonce that protect it. TCP delivers any part; libssl (external) takes from the
socket the record it needs or all there is. The task runs one poll at a time;
`edge` are epoll events the reactor has not fetched, `ready` what the AsyncFd
remembers, and `io` where in its poll the task is (about to call libssl, about to
clear readiness, parked). A worker is single-threaded, so the reactor turns only
while the task is parked. A control packet is its message type and its
attributes' identifiers and lengths, parsed as `parse_control` does. `NetworkUp`
resolves the data path and hands the record layer over; from then on the kernel
opens the records, and a PPP timer, which still writes through libssl, has its frame
sealed a second time by the kernel. `SSL_key_update` is modelled as its documentation says: queued,
sent in front of the next write.

**Negotiation.** An option is a name and a value, a decoder returns the set of
what it decoded (empty for an error), and the automaton is `PppFsm`'s, the one of
`PppLink`. The client follows RFC 1661: it adopts what is Naked, drops what is
Rejected, retries, may renegotiate and may send a stray frame. Terminate, Echo and
Code-Reject packets are in `PppLink`. CHAP-MD5 takes the steps of the other
methods and is left out of the instance to keep it small.

**DataPath.** A netlink message is the object it creates and what the kernel must
find first. What only one session sees is done in one step with every point of
failure; the shared table is taken message by message under its mutex, since a
failure between two messages is what matters there. An exchange can fail with or
without the kernel having applied it, and a process that crashed earlier may have
left any part of the table behind. Netdev names are reused by the kernel as soon
as they are free. The drop order is that of the locals of `drive_sstp`.

`PppLink`, `Negotiation` and `AuthBridge` look at the same handler from three
sides: every packet order with abstract options, the options with a real client,
and what happens while the handler awaits. `Stream` and `DataPath` share
`NetworkUp` in the same way: the bytes, and the resources.

## 3. Runs

| Run | Checks | Size |
|---|---|---|
| `sstp_call` | `TimerMatchesState`, `NotifyOrder`, `HelloGraceUnlessStalled`, `DisconnectHonoured`, `DeadPeerDetected`, `ImplementsLifecycle` | 95 thousand states |
| `ppp_link` | `OpenedFlagExact`, `DataPathAuthorised`, `NoStaleExpiry`, `RetransmissionBounded`, `AccountNamesLatestAccept`, `RetransmissionStops` | 20 thousand |
| `negotiation` | `SidesAgree`, `MtuWithinMru`, `Converges` | 175 thousand |
| `server` | `RegistryExact`, `AtMostOneUnaware`, `ShutdownTerminates` | 376 thousand |
| `kmod_rx` | `EventsNeverDropped`, `PacketPerEvent`, `ClosingExplained`, `RxDrains` | 486 thousand |
| `kmod_tx` | `TypeOK`, `TxInOrder`, `FreedQuiet`, `BackpressureReleased` | 634 thousand |
| `accounting` | `NoFalseAck`, `SlotsReclaimed`, `WaiterReachable`, `EveryRecordSettles` | 55 thousand |
| `auth_bridge` | `VerdictEarned`, `NoHeadOfLineBlocking`, `EveryLoginAnswered` | 180 thousand |
| `data_path` | `ClampInForce`, `CompleteUnlessFault`, `RecordLayerMatchesPath`, `TeardownOrder` | 1.2 million (after symmetry) |
| `stream` | `NothingLost`, `RecordLayerContinues`, `EverythingHandled` | 136 thousand |

Two further runs, `server_tick` and `stream_handoff`, each refute one statement
of a comment or doc, and section 6 names nine more configurations that do. Run
one with `tlc -workers 2 -config SstpCall.cfg SstpCall`. The types of `SstpCall`,
`PppLink`, `Server`, `Accounting` and `DataPath` are theorems (`TypeCorrect`) and
no run repeats them.

**Bounds.** Timers are 1 to 3 seconds instead of 10 to 60: only their order
against the one-second tick and against each other matters, and the values keep
T1 above T2 and leave room for a tick to be late. The control channel has depth
2 (1 in `Server`): large enough to be non-empty and full. Restart limits are 3
and 2, so that a counter is reloaded, decremented and exhausted, and the two
limits differ. Two accepts make a re-authentication. Two workers and two
sessions allow both a race on one worker and a race between workers; a third
session adds only a third copy, and `AtMostOneUnaware` is proved for any number.
Kernel queues keep the source's relation (`SSTP_EVENT_QUEUE_CAP` at least
`SSTP_CTRL_Q_CAP` + 3; in the source 16 and 8) and are small enough to fill. The
receive run has no transmit traffic and the transmit run little to receive:
together they fire every action, and the proofs cover the combination. One
identifier per server makes two records compete for it at once, which in the
source takes 256.

Two logins, two servers and a queue of one fill the queue, make a sender wait and
fail over once; the answers are one of each class the code tells apart. The
sessions of `Stream` are 15 scripts of up to four packets, one for each path, suite,
presence of the module, and parser error; units are small but a packet can be
longer than its header, and the header block than its bound; one record fits in the send queue so that
it is often full, and a KeyUpdate in each direction falls anywhere. In `stream` a
TLS record holds bytes of one packet, as with clients that write packet by packet
(`Coalesce` FALSE); `stream_handoff` lifts that. `Negotiation` has two option sets
for each protocol, among them unknown and malformed options, a stale address and
DNS that is not assigned; one timeout and one stray frame or renegotiation
suffice for a Nak to cross a retransmission. `DataPath` has two sessions on two
units, one MTU with two suites (hence two MSS groups, or one shared), and one
failing exchange: the proofs have any number of each.

**Symmetry** is used in `data_path` only, which checks invariants: its sessions
are interchangeable. The other runs check liveness, or have nothing to permute.

**Fairness.** `SstpCall`: the runtime polls a ready arm (weak fairness on each
arm, in bias order through the guards), a blocked write completes or fails, and
the clock advances (strongly, since a due arm may disable it). The peer owes
nothing. Messages that restart a teardown are bounded by `MaxStray`: a peer that
sends them for ever does postpone the end for ever, since each re-arms the abort
timer; `DisconnectHonoured` holds for finitely many. `PppLink`: an armed timer
fires, and no write has to fail. `Server`: main, workers and the waits bounded by
`DRAIN_GRACE` proceed; no session has to return. `Kmod`: workers and callbacks
run; for the transmit side the peer acknowledges, so room appears; nobody owes a
packet or a read of the session fd. `Accounting`: tasks run and time-outs fire;
neither reader nor servers owe anything, so `EveryRecordSettles` covers a reader
that has ended. `AuthBridge`: the runtime sends, dispatches, drops and wakes
(weak fairness on each); a server's exchange need not end, and only
`EveryLoginAnswered` assumes that the client library's retries do. `Stream`: the
task is polled when woken, the reactor turns while it is parked, TCP delivers what
was sent and the kernel's receive work runs; the client owes nothing, except that
`EverythingHandled` assumes it reads what the server writes (otherwise the server
waits for room, as it should). `Negotiation`: the session serves its frames, and
the client opens, answers and asks for CCP.

## 4. What the properties say

- `TimerMatchesState`: the one SSTP timer slot holds the timer its state waits
  on, in every reachable state. No state is left without a way out and no timer
  outlives its state.
- `NotifyOrder`: PPP is started once, the tunnel announced once and afterwards.
- `HelloGraceUnlessStalled`: a silent peer gets a full interval after the Echo
  Request, if no write held the task up across a tick.
- `DisconnectHonoured`, `DeadPeerDetected`: an operator's disconnect or a drain
  ends the call; a peer that stays silent is found although ticks may be dropped.
- `ImplementsLifecycle`: safety and liveness of the abstract call.
- `OpenedFlagExact`, `DataPathAuthorised`, `AccountNamesLatestAccept`: through
  any renegotiation, LCP's flag follows its automaton, traffic flows only for an
  accepted peer with an accounting session, and that session is the latest
  accept's.
- `NoStaleExpiry`: the shared PPP slot never fires for an automaton that has
  moved on. It holds although LCP and IPCP overwrite each other's timer.
- `RetransmissionBounded`, `RetransmissionStops`: Max-Configure is kept.
- `RegistryExact`: registered means alive, through every early return.
- `AtMostOneUnaware`: a connection accepted during the signal subscribes too
  late to hear it; the biased select limits this to one per worker.
- `ShutdownTerminates`: the process exits whatever sessions and peers do.
- `EventsNeverDropped`: with the source's ring sizes the event ring cannot
  overflow. `PacketPerEvent`: RECV_CONTROL for an event finds its packet.
  `ClosingExplained`: the daemon is told why before it sees the end.
- `TxInOrder`: no frame is lost or overtaken through refused batches.
  `FreedQuiet`: no worker and no `start_xmit` runs on a freed session or is queued
  for it, although both are requeued while the release is under way. It says
  nothing of a socket callback that was in flight before the callbacks were taken
  off, which may still use the freed session (section 6). `RxDrains`,
  `BackpressureReleased`: no lost wake-up.
- `NoFalseAck`: a late or foreign reply never acknowledges a record.
  `SlotsReclaimed`, `WaiterReachable`: no identifier leaks, no waiter is orphaned.
- `VerdictEarned`: no server is asked after one has spoken with authority, an
  accept rests on a usable answer, and a binding key on both MPPE keys of that
  answer. `NoHeadOfLineBlocking`: a silent server delays only its own logins,
  although senders wait on a full queue. `EveryLoginAnswered`: also when the
  runtime ends under a login.
- `NothingLost`, `RecordLayerContinues`: at the handoff nothing is left where the
  kernel will not look, and each record authenticates on both sides with keys,
  counters and nonces that continue libssl's, also when a KeyUpdate in each
  direction (the bound of the run) falls before or after it. A PPP timer's frame is
  the one thing that still goes through libssl afterwards: it authenticates, but was
  sealed twice (section 6). `EverythingHandled`: however TCP cuts the stream, no wake-up is lost.
- `SidesAgree`, `MtuWithinMru`, `Converges`: both ends mean the same addresses, the
  netdev's MTU at NetworkUp suits the MRU acknowledged last, and a client that
  follows the rules gets its link or a refusal. The client of `Converges` accepts
  the server's own options; one that Naks or Rejects them, to which the driver
  answers by asking for the same again (`src/ppp/driver.rs:246`), is not covered.
- `ClampInForce`: while a session holds its handle the kernel clamps its SYNs,
  whatever failed for whom. `CompleteUnlessFault`: without a failure sessions get
  all their profile asks for, also after a crash. `RecordLayerMatchesPath`: TUN is
  never taken with part of kTLS on the socket. `TeardownOrder`: a
  session gives up its clamp handle before its netdev's name can go to another
  session (when the removal of the element fails, the element stays behind), Stop
  is sampled while the netdev exists, and the AsyncFd goes before its descriptor.

## 5. Proofs

Each proof module EXTENDS its specification; `tlapm M.tla` checks it. Every
theorem `Spec => []P` comes from an inductive invariant `IInv` proved from
`Init` and kept by each action. The assumptions are the named ASSUMEs of the
specifications, no more: positive timers, depths and limits, the Terminate limit
not above the Configure limit, the kernel's ring relation, RADIUS answers of the
kinds the client returns. `KmodProofs` and `DataPathProofs` take ten to thirteen
minutes each, the others between one and three.

- `SstpCallProofs`: timers, binding and notifications are tied to the state
  (`MachineOK`), the channel to its depth, a blocked write to a session past
  its accept (`BlockedOK`). `TimerSlotSuffices` and `NotificationsOrdered` follow.
  `HelloGraceHolds` needs the relation between `last_rx`, `echo_age` and the
  pending flag while nothing stalled. `CallRefinesLifecycle` maps every action to
  a step or stutter of `SstpLifecycle`.
- `PppLinkProofs`: lemmas on `PppFsm` first (what a cell does to state, counter
  and timer), then `AutomataOK`, `SlotOK` (who may own the slot in which state,
  with what it may still send on its own added to what went unanswered) and
  `AccountOK` (until the data path is up, the waiting accept is the latest).
  `RetransmissionBounded` alone is not inductive: it needs that sum.
- `ServerProofs`: `RegistryExact` with `SeenSent` (no receiver has seen a version
  not sent) and `AcceptedBefore` (a worker past the shutdown arm of its select
  looked there before anything was sent, and so did all its sessions).
- `KmodProofs` has two main invariants. `TInv` is about the transmit queue and
  the release: `BatchOK`, `TxInOrder` and `QueueRoom` carry numbering and length
  across requeueing, `Teardown` says what each stage of the release has already
  excluded; `SentInOrder` and `QueueBounded` (the bound of `tx_q`, whose cap is tested
  outside its lock) follow. On top of it `FInv` adds that the callbacks are off before
  the session can be freed: the workers and `start_xmit` are then gone (`FreedLast`),
  only a callback in flight can reach the session (`FreedStep`), and one that is freed
  with none in flight is never used again (`NeverUsedAgain`). `EInv` is about the events: `EventRoom`
  counts the slots reserved for control packets and for at most one final event of
  each source (`FatalOnce`), and `Explained` is `ClosingExplained` from the moment
  the event is emitted, which is before `closing` is set. `PacketPerEvent` is
  inductive only together with them: it needs that no event is dropped, or that the
  ring never fills. Its counts are cardinalities of sets of positions; the lemmas
  `EventPushed` and `EventPopped` say what a push and a pop do to them.
- `AccountingProofs`: `QueueOK` and `RepliesOK` (a reply in hand was answered by
  the server it names) with the two slot invariants.
- `AuthBridgeProofs`: a session is in one place (`Placed`: in `send().await`, in the
  queue, in its task or past them), the servers before the one being asked failed
  and those after it were not asked (`Loop`), and `Supported` states what a verdict
  rests on for the one in the oneshot as well as for the one the session took.
  `VerdictEarned` alone is not inductive: it says nothing of a verdict on its way.
  `AnswerAssumption` restricts an answer to the replies and errors the client can
  return, with lengths and MTUs that are numbers.
- `DataPathProofs`: `StageInv` ties what a session owns (kTLS, descriptors, netdev,
  accounting) to the stage of its bring-up or drop, `DevInv` keeps names apart,
  `TableInv` and `GroupInv` say what of a group is in the kernel at each message
  of the holder of the mutex. `ClampInForce` alone is not inductive: that a handle's
  group is complete rests on `kernel_created`, which is set after the last
  message, and on the mutex.
  `SessionsComplete` needs a second invariant, `FInv`, which from the shaper on is
  claimed while `faults = 0`. `ConfInv` says which settings an interface has at each
  stage; it rests on the lemma that requests the kernel can take one after the other are
  all acknowledged unless one is lost (`ExchangeSure`). `Clean` says that no part of
  a group not yet created is there but what the holder of the mutex made
  (`HalfDone`), that every element is a live handle's (`Elements`), and that a
  reference count is the number of its handles (`Counted`). Without `HalfDone` the
  next session's set or chain could be refused as a duplicate. Counting is a bijection
  with `1..n` (`OneMore`, `OneLess`), so the set of sessions need not be finite.
- `NegotiationProofs`: `AgreementHolds` is `SidesAgree` for any options, assignments,
  stray frames and bounds. A second accept changes the addresses while
  acknowledgements of the old ones may be on their way, so agreement is not
  inductive. The invariant says that the first request of the new `IpcpServer` is
  right behind its accept (`RequestFollows`), that an acknowledgement no accept has
  overtaken names the accept's values (`AcksGood`), that a client which has not
  answered that request has no acknowledgement and sees the request next
  (`Unasked`), and that what the client took is what the accept assigned unless a new
  accept, or the request behind one, is on its way (`Took`). A server step is
  characterised once by the frames it adds (`Adds`), a client step by what the frame
  it read does to its side of IPCP (`Reads`).

Model-checked only: everything under fairness (`DisconnectHonoured`,
`DeadPeerDetected`, the liveness half of `ImplementsLifecycle`,
`RetransmissionStops`, `ShutdownTerminates`, `RxDrains`, `BackpressureReleased`,
`EveryRecordSettles`, `NoHeadOfLineBlocking`, `EveryLoginAnswered`,
`EverythingHandled`, `Converges`), which the prover's temporal backend does not
reach; and three safety properties for which no inductive invariant has been worked
out. `NothingLost` and `RecordLayerContinues` of `Stream` hold only when a TLS record
carries bytes of one packet (`Coalesce = FALSE`), so a theorem would have to assume
that. `MtuWithinMru` relates what LCP captured to what the client had acknowledged
when IPCP opens, across renegotiations of LCP.

## 6. Where the code and its comments differ

Each of these is a configuration that TLC refutes. The first two are runs of
`PROJECT.json` with an entry under "findings"; the others are run by hand, for
instance `tlc -config PppLinkRearm.cfg PppLink`.

| Configuration | Statement | What happens |
|---|---|---|
| `ServerTick` (run `server_tick`) | `TickEndsNoSession`: a tick checks whether work is due (`src/session.rs:121`) | during the TLS handshake any command ends the session |
| `StreamHandoff` (run `stream_handoff`, module `MCStream`) | `NothingLost`: install_ktls refuses "rather than silently losing bytes" (`src/crypto/tls.rs:607`) | bytes already in `rx_buf`, behind the IPCP frame that brings the link up, are dropped or left there |
| `SstpCallHello` (`SstpCall`) | `HelloGrace`: an Echo Request gets a full interval (`src/sstp/state.rs:551`) | both thresholds count from the last received bytes (`src/session.rs:880`), so a request sent late by a stalled task gets less |
| `PppLinkRearm` (`PppLink`) | `RestartRearmed`: "re-arm and restart" (`src/ppp/fsm.rs:494`) | the cell sends a Configure-Request and arms no timer; if the request is lost nothing retransmits it |
| `PppLinkKernel` (`PppLink`) | `KernelOwnsSocket`: user space sends only control frames through the ioctl (`src/session.rs:381`) | a PPP retransmission is written through libssl on a socket whose record layer is the kernel's |
| `StreamSealed` (`MCStream`) | `SealedOnce`: no `SSL_write` is encrypted twice (`src/session.rs:385`) | the same retransmission seen from the record layer: the kernel seals libssl's record once more |
| `KmodShutdown` (`Kmod`) | `ShutdownQuiesces`: the work "will not be requeued" (`kmod/sstp_demux.c:419`) | `start_xmit` requeues it until the channel is unregistered; the release waits for those (`FreedQuiet`) |
| `KmodFreed` (`Kmod`) | `FreedUntouched`: after the shutdown "neither worker will touch the session again" (`kmod/sstp_demux.c:427`), nor does a callback | a callback that found the session before the callbacks were taken off runs on after `kfree` (`kmod/sstp_demux.c:355-386`, `kmod/sstp_attach.c:52`): no lock, reference or grace period of the module makes the release wait for it. `NeverUsedAgain` is what holds without such a callback |
| `AccountingSlots` (`Accounting`) | `SlotsIndependent`: retry is independent per slot (`src/auth/accounting.rs:14`) | the reclaim after a reply may free the next holder's slot |
| `DataPathMtu` (`MCDataPath`) | `SegmentFitsLink`: a clamped segment fits the netdev (`src/shape/mss.rs:98`) | with no MTU negotiated the clamp assumes 1500 (`src/session.rs:2019`) and the netdev gets 1400 (`src/kppp/session.rs:87`) |
| `DataPathFallback` (`MCDataPath`) | `AutoFallsBack`: `auto` falls back to TUN "if the `sstp` kmod isn't present or the attach fails" (`src/cli.rs:110`) | a missing module is found at start-up, but a session whose attach fails ends |

Differences met while modelling that have no configuration of their own:

- `AutoFallsBack` is stated in four more places: `src/kppp/session.rs:193` and
  `docs/admin-guide.md:823` for a failed attach, `src/crypto/ktls.rs:164` for keys the
  kernel refuses, and `src/session.rs:1914`, which says that under `auto` kTLS is not
  installed at all. The code resolves `auto` before `bring_up`, installs kTLS, and
  falls back only when libssl holds buffered bytes; every other error ends the
  session (`RecordLayerMatchesPath` is about this code, not about those texts).
- `sstp_demux_shutdown` drops "any skbs ... we never got around to sending", but
  `start_xmit` may append one behind the purge, and the release does not purge again:
  that frame is still in `tx_q` when the session is freed.
- The driver's doc speaks of two PPP timer slots and the session keeps one
  (`NoStaleExpiry` shows what still holds).
- The drain phase says each session has received the broadcast
  (`AtMostOneUnaware` bounds the exceptions).
- `src/auth/bridge.rs:341` says a full queue surfaces as a Reject; `send().await`
  waits for room, as modelled.
- `src/shape/mss_shared.rs:163` calls leftover tables harmless because their sets
  are empty; after a crash they are not, and should the PID suffix recur the flush in `add` is what makes
  `CompleteUnlessFault` hold. The doc of `remove` (327) says chain, set and table are
  deleted with the last interface; the code keeps them.
- A control packet whose length is below the control header is reported as
  Truncated for ever (`src/session.rs:1279`): the loop waits for bytes that cannot
  complete it. `EverythingHandled` covers what comes before such a packet.
- `src/sstp/preamble.rs:17` leaves pipelined bytes to the caller;
  `read_header_block` discards what it read behind the header block. SSTP clients
  wait for the 200, as the modelled one does.
- `handle_chap`'s comment (`src/ppp/driver.rs:921`) says a stray Challenge is
  dropped; the decoder accepts Challenge and Response alike, so under CHAP-MD5 or
  MS-CHAPv2 one of the right length is taken for a Response. The modelled client
  sends none.
- `IpcpServer`'s doc says the server proposes no options of its own; it sends its
  address. The MTU is not updated when LCP is renegotiated after NetworkUp.
- `src/main.rs:208` says the process is single-threaded when privileges are
  dropped; `install_tracing`, earlier, starts the log writer's thread.
- `src/main.rs:395` ends the authentication runtime before the workers are joined;
  `EveryLoginAnswered` covers the logins, but Stop records queued later may stay
  unsent.

## 7. Not modelled

- Encodings: outgoing SSTP, PPP and RADIUS packets as bytes, netlink and ioctl
  messages, HTTP texts, the rate-limit string, HMAC and MS-CHAP arithmetic. A
  property about them would be about an encoding, which unit tests pin down.
- libssl, tokio's reactor, ppp_generic, TCP, the RADIUS library and its servers are
  external: each is modelled by what the code relies on.
- `src/auth/coa.rs` has no caller in the binary; `EapSession` in
  `src/auth/client.rs` is unused; `decide` in `src/crypto/rekey.rs` has callers in
  tests only (on the kernel path every KeyUpdate ends the session, as modelled).
- Session-Timeout and Idle-Timeout end a session at any time (`SessionReturns`);
  their arithmetic, the interim period and the traffic counters are left out.
- Start-up: listener sockets, privileges, tracing, argument parsing, the reload of
  the certificate, metrics and the HTTP router of the control socket. They have no
  protocol of their own; the commands the control socket passes on are in `Server`
  and `SstpCall`.
- Byte reassembly inside the kernel module: `Kmod` has whole frames, `Stream` the
  daemon's reassembly and the cut between the two.
- A subscription to the shutdown watch that comes after the control socket is
  served (`src/main.rs:369`): `Server` starts behind it.

## 8. What could follow

1. `SessionAccounting`: Start, Interim and Stop of a session and the Stop guard
   composed with `Accounting` and the end of the runtime; every Start has one Stop.
2. An inductive invariant for `Stream`, and one for `MtuWithinMru`.
3. The receive buffer of `kmod/sstp_demux.c`, with frames cut by TLS records.

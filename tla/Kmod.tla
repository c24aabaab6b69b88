-------------------------------- MODULE Kmod --------------------------------
(***************************************************************************)
(* One attached session of the kernel module (src/kmod): the receive       *)
(* worker, the transmit worker, the PPP channel's start_xmit, the socket   *)
(* callbacks, the session fd's reader and its release, which all run       *)
(* concurrently on one `struct sstp_session`.                              *)
(*                                                                         *)
(* A step is what happens between two points where another CPU may see the *)
(* session: taking a queue's lock, reading or writing `closing`, a call    *)
(* into the socket or into ppp_generic.  Frames have kinds and no bytes:   *)
(* rx_buf holds whole frames.  Frames for the peer are numbered in the     *)
(* order tx_q accepted them.  The sockets' buffers, ppp_generic and the    *)
(* workqueue are external.                                                 *)
(***************************************************************************)
EXTENDS Naturals, Sequences, FiniteSets

CONSTANTS
    SSTP_TX_Q_CAP, SSTP_TX_BATCH_MAX,           \* sstp_internal.h, sstp_chan.c
    SSTP_CTRL_Q_CAP, SSTP_EVENT_QUEUE_CAP,      \* rings: one slot stays empty
    RxLoops, TxLoops,                           \* passes per run of a worker (64 and 8)
    SndBuf,                                     \* records the send buffer holds
    PeerSends,                                  \* what the peer may send
    MaxXmit, MaxRx, MaxSend                     \* bounds: frames queued by ppp_generic,
                                                \* frames of the peer, SEND_CONTROL calls

ASSUME KmodAssumption ==
    /\ SSTP_TX_Q_CAP \in Nat /\ SSTP_TX_Q_CAP >= 2 /\ SSTP_TX_BATCH_MAX \in Nat \ {0}
    /\ SSTP_CTRL_Q_CAP \in Nat /\ SSTP_CTRL_Q_CAP >= 2
    /\ SSTP_EVENT_QUEUE_CAP \in Nat /\ SSTP_EVENT_QUEUE_CAP >= SSTP_CTRL_Q_CAP + 3
    /\ RxLoops \in Nat \ {0} /\ TxLoops \in Nat \ {0} /\ SndBuf \in Nat \ {0}
    /\ PeerSends \subseteq {"Data", "Echo", "Control", "Bad", "End"}
    /\ MaxXmit \in Nat /\ MaxRx \in Nat /\ MaxSend \in Nat

VARIABLES
    release,        \* how far the session fd's release has come; "Open" before
    closing, detached, cb_installed, chan_registered,
    sock_rx,        \* what the peer has sent and the worker has not received (external)
    rx, rx_pending, rx_loops, rx_buf,
    tx, tx_pending, tx_loops, drained,
    tx_q, batch,    \* frames queued; frames the transmit worker has in hand
    queued, sent,   \* frames that ever entered tx_q; the last frame handed to the socket
    room, nospace,  \* send buffer (external): free records, and a writer was refused
    irq,            \* socket callbacks in flight: "rx" and "tx" have the session and may queue the
                    \* work, "tail" only has to look at the session once more
    xmit, held,     \* start_xmit in progress; ppp_generic holds a refused frame
    ctrl_q, events, evt_dropped,
    fatal,          \* FATAL events each source has emitted (history)
    user, inbox,    \* the daemon: where it is, the events it has read
    peer_sent, sends   \* bounds

life == <<release, closing, detached, cb_installed, chan_registered>>
rxv  == <<rx, rx_pending, rx_loops, rx_buf>>
txv  == <<tx, tx_pending, tx_loops, drained>>
qv   == <<tx_q, batch, queued, sent>>
net  == <<sock_rx, room, nospace, irq, peer_sent>>
ppp  == <<xmit, held>>
evv  == <<ctrl_q, events, evt_dropped, fatal>>
usr  == <<user, inbox, sends>>
vars == <<life, rxv, txv, qv, net, ppp, evv, usr>>

\* PEER_CLOSED, TLS_FATAL_ALERT, PROTOCOL_ERROR and TLS_REKEY_NEEDED all end the session: one
\* event, "FATAL", stands for them.
EventType == {"CONTROL_PACKET", "FATAL"}

\* What a receive can find: PPP data, an LCP Echo-Request, a control packet, a frame with a
\* bad header; and the end of it: end of stream, a record that is not application data, an error.
Frame == {"Data", "Echo", "Control", "Bad"}
Arrival == Frame \cup {"End"}

\* sstp_do_attach: everything is in place, and the first receive is queued.
Init ==
    /\ release = "Open" /\ closing = FALSE /\ detached = FALSE
    /\ cb_installed = TRUE /\ chan_registered = TRUE
    /\ rx = "Idle" /\ rx_pending = TRUE /\ rx_loops = 0 /\ rx_buf = <<>>
    /\ tx = "Idle" /\ tx_pending = FALSE /\ tx_loops = 0 /\ drained = FALSE
    /\ tx_q = <<>> /\ batch = <<>> /\ queued = 0 /\ sent = 0
    /\ sock_rx = <<>> /\ room = SndBuf /\ nospace = FALSE /\ irq = {} /\ peer_sent = 0
    /\ xmit = "Idle" /\ held = FALSE
    /\ ctrl_q = 0 /\ events = <<>> /\ evt_dropped = 0
    /\ fatal = [src \in {"rx", "tx", "user"} |-> 0]
    /\ user = "Select" /\ inbox = <<>> /\ sends = 0

-----------------------------------------------------------------------------
(* Helpers.                                                                *)

\* A full ring drops the event (at most the newest one of its type is refreshed).
sstp_session_emit(src, type) ==
    /\ IF Len(events) + 1 >= SSTP_EVENT_QUEUE_CAP
       THEN evt_dropped' = 1 /\ UNCHANGED events
       ELSE events' = Append(events, type) /\ UNCHANGED evt_dropped
    /\ fatal' = IF type = "FATAL" THEN [fatal EXCEPT ![src] = @ + 1] ELSE fatal

\* skb_queue_tail and queue_work(tx_work).
QueueTail ==
    /\ queued' = queued + 1 /\ tx_q' = Append(tx_q, queued + 1)
    /\ tx_pending' = TRUE
    /\ UNCHANGED <<batch, sent>>

-----------------------------------------------------------------------------
(* The receive worker.                                                     *)

\* Mutant: a worker that has used up its passes does not queue itself again.
RxPassDone_no_requeue ==
    IF rx_loops + 1 >= RxLoops
    THEN rx' = "Idle" /\ rx_loops' = 0 /\ UNCHANGED rx_pending
    ELSE rx' = (IF closing THEN "Idle" ELSE "Recv") /\ rx_loops' = rx_loops + 1 /\ UNCHANGED rx_pending

\* The end of a pass: out of passes, the work is queued again; otherwise the loop's condition.
RxPassDone ==
    IF rx_loops + 1 >= RxLoops
    THEN rx' = "Idle" /\ rx_loops' = 0 /\ rx_pending' = TRUE
    ELSE rx' = (IF closing THEN "Idle" ELSE "Recv") /\ rx_loops' = rx_loops + 1 /\ UNCHANGED rx_pending

sstp_rx_worker ==
    /\ rx = "Idle" /\ rx_pending
    /\ rx' = (IF closing THEN "Idle" ELSE "Recv") /\ rx_loops' = 0 /\ rx_pending' = FALSE
    /\ UNCHANGED <<life, rx_buf, txv, qv, net, ppp, evv, usr>>

\* kernel_recvmsg: nothing there; the end of the stream or an error; or some whole frames.
sstp_demux_recv_once ==
    /\ rx = "Recv"
    /\ \/ sock_rx = <<>> /\ rx' = "Idle" /\ UNCHANGED <<rx_buf, sock_rx>>
       \/ sock_rx # <<>> /\ Head(sock_rx) = "End" /\ rx' = "FATAL" /\ UNCHANGED <<rx_buf, sock_rx>>
       \/ \E n \in 1..Len(sock_rx) :
             /\ \A i \in 1..n : sock_rx[i] \in Frame
             /\ rx_buf' = SubSeq(sock_rx, 1, n) /\ sock_rx' = SubSeq(sock_rx, n + 1, Len(sock_rx))
             /\ rx' = "Parse"
    /\ UNCHANGED <<life, rx_pending, rx_loops, txv, qv, room, nospace, irq, peer_sent, ppp, evv, usr>>

\* Mutant: the event is emitted although the control queue was full.
sstp_demux_parse_always_emits ==
    /\ rx = "Parse" /\ rx_buf # <<>>
    /\ \/ Head(rx_buf) # "Control" /\ rx' = "Parse" /\ UNCHANGED ctrl_q
       \/ /\ Head(rx_buf) = "Control" /\ rx' = "CONTROL_PACKET"
          /\ ctrl_q' = IF ctrl_q + 1 < SSTP_CTRL_Q_CAP THEN ctrl_q + 1 ELSE ctrl_q
    /\ rx_buf' = Tail(rx_buf)
    /\ UNCHANGED <<life, rx_pending, rx_loops, txv, qv, net, ppp, events, evt_dropped, fatal, usr>>

\* One frame of the buffer.  ppp_input takes data; a control packet is stashed before its
\* event is emitted; without memory or a free slot it is dropped.
sstp_demux_parse ==
    /\ rx = "Parse" /\ rx_buf # <<>>
    /\ \/ Head(rx_buf) = "Data" /\ rx' = "Parse" /\ UNCHANGED ctrl_q
       \/ /\ Head(rx_buf) = "Echo" /\ UNCHANGED ctrl_q
          /\ rx' = IF closing \/ Len(tx_q) >= SSTP_TX_Q_CAP THEN "Parse" ELSE "Echo"
       \/ Head(rx_buf) = "Control" /\ rx' = "Parse" /\ UNCHANGED ctrl_q
       \/ /\ Head(rx_buf) = "Control" /\ ctrl_q + 1 < SSTP_CTRL_Q_CAP
          /\ ctrl_q' = ctrl_q + 1 /\ rx' = "CONTROL_PACKET"
       \/ Head(rx_buf) = "Bad" /\ rx' = "FATAL" /\ UNCHANGED ctrl_q
    /\ rx_buf' = IF Head(rx_buf) = "Bad" THEN rx_buf ELSE Tail(rx_buf)
    /\ UNCHANGED <<life, rx_pending, rx_loops, txv, qv, net, ppp, events, evt_dropped, fatal, usr>>

RxParsed ==
    /\ rx = "Parse" /\ rx_buf = <<>>
    /\ RxPassDone
    /\ UNCHANGED <<life, rx_buf, txv, qv, net, ppp, evv, usr>>

\* The reply joins tx_q as start_xmit's frames do.
sstp_handle_lcp_echo ==
    /\ rx = "Echo" /\ rx' = "Parse"
    /\ QueueTail
    /\ UNCHANGED <<life, rx_pending, rx_loops, rx_buf, tx, tx_loops, drained, net, ppp, evv, usr>>

RxEmit ==
    /\ rx \in EventType
    /\ sstp_session_emit("rx", rx)
    /\ rx' = IF rx = "CONTROL_PACKET" THEN "Parse" ELSE "SetClosing"
    /\ UNCHANGED <<life, rx_pending, rx_loops, rx_buf, txv, qv, net, ppp, ctrl_q, usr>>

\* Mutant: a fatal event does not stop the worker.
RxClose_goes_on ==
    /\ rx = "SetClosing"
    /\ RxPassDone
    /\ UNCHANGED <<life, rx_buf, txv, qv, net, ppp, evv, usr>>

\* A framing error comes back to the worker's loop; the others leave it.
RxClose ==
    /\ rx = "SetClosing"
    /\ closing' = TRUE
    /\ rx' = "Idle" /\ rx_loops' = 0
    /\ rx_pending' = (rx_pending \/ (rx_buf # <<>> /\ rx_loops + 1 >= RxLoops))
    /\ UNCHANGED <<release, detached, cb_installed, chan_registered, rx_buf, txv, qv, net, ppp, evv, usr>>

-----------------------------------------------------------------------------
(* The transmit worker.                                                    *)

sstp_tx_worker ==
    /\ tx = "Idle" /\ tx_pending
    /\ tx' = "Top" /\ tx_pending' = FALSE /\ tx_loops' = 0
    /\ UNCHANGED <<life, rxv, drained, qv, net, ppp, evv, usr>>

\* Mutant: the batch array's size is not tested.
TxBatch_unlimited ==
    /\ tx = "Top"
    /\ \/ (closing \/ tx_q = <<>>) /\ tx' = "Wake" /\ UNCHANGED <<tx_q, batch>>
       \/ ~closing /\ tx_q # <<>> /\ tx' = "Send" /\ batch' = tx_q /\ tx_q' = <<>>
    /\ UNCHANGED <<life, rxv, tx_pending, tx_loops, drained, queued, sent, net, ppp, evv, usr>>

\* A batch is some of the frames at the head: the byte limit may end it early.
TxBatch ==
    /\ tx = "Top"
    /\ \/ (closing \/ tx_q = <<>>) /\ tx' = "Wake" /\ UNCHANGED <<tx_q, batch>>
       \/ /\ ~closing /\ tx' = "Send"
          /\ \E n \in 1..Len(tx_q) :
                /\ n <= SSTP_TX_BATCH_MAX
                /\ batch' = SubSeq(tx_q, 1, n) /\ tx_q' = SubSeq(tx_q, n + 1, Len(tx_q))
    /\ UNCHANGED <<life, rxv, tx_pending, tx_loops, drained, queued, sent, net, ppp, evv, usr>>

\* Mutant: a worker out of passes returns before it wakes ppp_generic.
TxSent_returns_early ==
    /\ tx = "Send" /\ room > 0
    /\ room' = room - 1 /\ sent' = batch[Len(batch)] /\ batch' = <<>> /\ drained' = (tx_loops + 1 < TxLoops)
    /\ IF tx_loops + 1 >= TxLoops
       THEN tx' = "Idle" /\ tx_pending' = TRUE /\ UNCHANGED tx_loops
       ELSE tx' = "Top" /\ tx_loops' = tx_loops + 1 /\ UNCHANGED tx_pending
    /\ UNCHANGED <<life, rxv, tx_q, queued, sock_rx, nospace, irq, peer_sent, ppp, evv, usr>>

\* kernel_sendmsg took the whole batch.
TxSent ==
    /\ tx = "Send" /\ room > 0
    /\ room' = room - 1 /\ sent' = batch[Len(batch)] /\ batch' = <<>> /\ drained' = TRUE
    /\ IF tx_loops + 1 >= TxLoops
       THEN tx' = "Wake" /\ tx_pending' = TRUE /\ UNCHANGED tx_loops
       ELSE tx' = "Top" /\ tx_loops' = tx_loops + 1 /\ UNCHANGED tx_pending
    /\ UNCHANGED <<life, rxv, tx_q, queued, sock_rx, nospace, irq, peer_sent, ppp, evv, usr>>

\* -EAGAIN: the batch goes back; sk_write_space will follow.
TxAgain ==
    /\ tx = "Send" /\ room = 0
    /\ tx' = "Rehead" /\ nospace' = TRUE
    /\ UNCHANGED <<life, rxv, tx_pending, tx_loops, drained, qv, sock_rx, room, irq, peer_sent, ppp, evv, usr>>

\* Mutant: the batch is put back first frame first.
TxRehead_forward ==
    /\ tx = "Rehead"
    /\ \/ batch = <<>> /\ tx' = "Wake" /\ UNCHANGED <<tx_q, batch>>
       \/ /\ batch # <<>> /\ UNCHANGED tx
          /\ tx_q' = <<Head(batch)>> \o tx_q /\ batch' = Tail(batch)
    /\ UNCHANGED <<life, rxv, tx_pending, tx_loops, drained, queued, sent, net, ppp, evv, usr>>

\* skb_queue_head, last frame first, one lock at a time.
TxRehead ==
    /\ tx = "Rehead"
    /\ \/ batch = <<>> /\ tx' = "Wake" /\ UNCHANGED <<tx_q, batch>>
       \/ /\ batch # <<>> /\ UNCHANGED tx
          /\ tx_q' = <<batch[Len(batch)]>> \o tx_q /\ batch' = SubSeq(batch, 1, Len(batch) - 1)
    /\ UNCHANGED <<life, rxv, tx_pending, tx_loops, drained, queued, sent, net, ppp, evv, usr>>

\* Mutant: nobody is told of the error.
TxFail_silent ==
    /\ tx = "Send" /\ tx' = "Fail"
    /\ UNCHANGED <<life, rxv, tx_pending, tx_loops, drained, qv, net, ppp, evv, usr>>

\* A short write or an error: the event, then closing, then the batch is freed.
TxFail ==
    /\ tx = "Send" /\ sstp_session_emit("tx", "FATAL") /\ tx' = "Fail"
    /\ UNCHANGED <<life, rxv, tx_pending, tx_loops, drained, qv, net, ppp, ctrl_q, usr>>

TxClose ==
    /\ tx = "Fail" /\ closing' = TRUE /\ tx' = "Wake" /\ batch' = <<>>
    /\ UNCHANGED <<release, detached, cb_installed, chan_registered, rxv, tx_pending, tx_loops,
                   drained, tx_q, queued, sent, net, ppp, evv, usr>>

\* ppp_output_wakeup, which takes the channel's lock and pushes the frame held back.
TxWake ==
    /\ tx = "Wake"
    /\ IF drained /\ Len(tx_q) < SSTP_TX_Q_CAP \div 2
       THEN xmit = "Idle" /\ tx' = "Pushing" /\ xmit' = (IF held THEN "Entry" ELSE xmit) /\ held' = FALSE
       ELSE tx' = "Idle" /\ UNCHANGED <<xmit, held>>
    /\ drained' = FALSE
    /\ UNCHANGED <<life, rxv, tx_pending, tx_loops, qv, net, evv, usr>>

TxPushed ==
    /\ tx = "Pushing" /\ xmit = "Idle" /\ tx' = "Idle"
    /\ UNCHANGED <<life, rxv, tx_pending, tx_loops, drained, qv, net, ppp, evv, usr>>

-----------------------------------------------------------------------------
(* ppp_generic and start_xmit, one call at a time under the channel's lock. *)

\* A packet leaves through the interface; a frame held back is offered again first.
PppOutput ==
    /\ chan_registered /\ xmit = "Idle" /\ queued < MaxXmit
    /\ xmit' = "Entry" /\ held' = FALSE
    /\ UNCHANGED <<life, rxv, txv, qv, net, evv, usr>>

\* The tests of start_xmit; a frame too long for an SSTP packet is dropped like one that
\* comes while closing.
sstp_chan_start_xmit ==
    /\ xmit = "Entry"
    /\ \/ xmit' = "Idle" /\ UNCHANGED held
       \/ ~closing /\ Len(tx_q) >= SSTP_TX_Q_CAP /\ xmit' = "Idle" /\ held' = TRUE
       \/ ~closing /\ Len(tx_q) < SSTP_TX_Q_CAP /\ xmit' = "Tail" /\ UNCHANGED held
    /\ UNCHANGED <<life, rxv, txv, qv, net, evv, usr>>

XmitTail ==
    /\ xmit = "Tail" /\ xmit' = "Idle"
    /\ QueueTail
    /\ UNCHANGED <<life, rxv, tx, tx_loops, drained, net, held, evv, usr>>

-----------------------------------------------------------------------------
(* The socket and its callbacks.                                           *)

\* A callback that is installed has the session; with closing set it has no work to queue.
Callback(work) == irq' = IF cb_installed THEN irq \cup {IF closing THEN "tail" ELSE work} ELSE irq

\* Bytes arrive; sstp_sk_data_ready finds the session.
sstp_sk_data_ready(a) ==
    /\ peer_sent < MaxRx
    /\ sock_rx' = Append(sock_rx, a) /\ peer_sent' = peer_sent + 1
    /\ Callback("rx")
    /\ UNCHANGED <<life, rxv, txv, qv, room, nospace, ppp, evv, usr>>

\* The peer acknowledges; a refused writer gets sstp_sk_write_space.
sstp_sk_write_space ==
    /\ room < SndBuf
    /\ room' = room + 1 /\ nospace' = FALSE
    /\ IF nospace THEN Callback("tx") ELSE UNCHANGED irq
    /\ UNCHANGED <<life, rxv, txv, qv, sock_rx, peer_sent, ppp, evv, usr>>

\* The callback's test and queue_work; sstp_sk_write_space then wakes the pollers and calls the
\* saved handler.  No lock makes the release wait for it: on a session that is freed by then
\* the outcome is undefined, and the model goes on as if the memory still held the session.
QueueWork(work) ==
    /\ work \in irq
    /\ irq' = (irq \ {work}) \cup (IF work = "tx" THEN {"tail"} ELSE {})
    /\ \/ rx_pending' = (rx_pending \/ work = "rx") /\ tx_pending' = (tx_pending \/ work = "tx")
       \/ closing /\ UNCHANGED <<rx_pending, tx_pending>>
    /\ release' = IF release = "Freed" THEN "Touched" ELSE release
    /\ UNCHANGED <<closing, detached, cb_installed, chan_registered, rx, rx_loops, rx_buf,
                   tx, tx_loops, drained, qv, sock_rx, room, nospace, peer_sent, ppp, evv, usr>>

-----------------------------------------------------------------------------
(* The daemon's side of the session fd: drive_sstp's KmodEvents arm.       *)

\* read_event until the ring is empty.
sstp_session_read ==
    /\ user = "Reading" \/ (user = "Select" /\ events # <<>>)
    /\ IF events # <<>>
       THEN user' = "Reading" /\ inbox' = Append(inbox, Head(events)) /\ events' = Tail(events)
       ELSE user' = "Handling" /\ UNCHANGED <<inbox, events>>
    /\ UNCHANGED <<life, rxv, txv, qv, net, ppp, ctrl_q, evt_dropped, fatal, sends>>

\* One event.  A control packet is fetched, and handling it may end the session.
HandleEvent ==
    /\ user = "Handling"
    /\ \/ inbox = <<>> /\ user' = "Select" /\ UNCHANGED <<inbox, ctrl_q>>
       \/ /\ inbox # <<>> /\ Head(inbox) = "CONTROL_PACKET"
          /\ inbox' = Tail(inbox) /\ ctrl_q' = IF ctrl_q > 0 THEN ctrl_q - 1 ELSE 0
          /\ user' \in {"Handling", "Gone"}
       \/ inbox # <<>> /\ Head(inbox) = "FATAL" /\ user' = "Gone" /\ UNCHANGED <<inbox, ctrl_q>>
    /\ UNCHANGED <<life, rxv, txv, qv, net, ppp, events, evt_dropped, fatal, sends>>

\* Any other arm of the select may end the session.
SessionEnds ==
    /\ user = "Select" /\ user' = "Gone"
    /\ UNCHANGED <<life, rxv, txv, qv, net, ppp, evv, inbox, sends>>

\* apply_step has a control message to send.
apply_step ==
    /\ user \in {"Select", "Handling"} /\ sends < MaxSend
    /\ sends' = sends + 1 /\ user' = "Send"
    /\ UNCHANGED <<life, rxv, txv, qv, net, ppp, evv, inbox>>

\* The ioctl returns -EPIPE when closing is set, and may fail for want of memory; apply_step
\* ends the session on every error but -EAGAIN.
SEND_CONTROL ==
    /\ user = "Send" /\ user' \in {"Gone", IF closing THEN "Gone" ELSE "Sending"}
    /\ UNCHANGED <<life, rxv, txv, qv, net, ppp, evv, inbox, sends>>

SendDone ==
    /\ user = "Sending" /\ room > 0
    /\ room' = room - 1 /\ user' = IF inbox = <<>> THEN "Select" ELSE "Handling"
    /\ UNCHANGED <<life, rxv, txv, qv, sock_rx, nospace, irq, peer_sent, ppp, evv, inbox, sends>>

\* -EAGAIN: apply_step waits for room and calls again.
SendAgain ==
    /\ user = "Sending" /\ room = 0
    /\ nospace' = TRUE /\ user' = "Send"
    /\ UNCHANGED <<life, rxv, txv, qv, sock_rx, room, irq, peer_sent, ppp, evv, inbox, sends>>

SendFail ==
    /\ user = "Sending" /\ sstp_session_emit("user", "FATAL") /\ user' = "Fail"
    /\ UNCHANGED <<life, rxv, txv, qv, net, ppp, ctrl_q, inbox, sends>>

SendClose ==
    /\ user = "Fail" /\ closing' = TRUE /\ user' = "Gone"
    /\ UNCHANGED <<release, detached, cb_installed, chan_registered, rxv, txv, qv, net, ppp, evv,
                   inbox, sends>>

\* SSTP_IOC_DETACH.
DETACH ==
    /\ user = "Select"
    /\ closing' = TRUE /\ detached' = TRUE
    /\ UNCHANGED <<release, cb_installed, chan_registered, rxv, txv, qv, net, ppp, evv, usr>>

-----------------------------------------------------------------------------
(* sstp_session_release: the last close of the session fd.                 *)

\* Nobody can read the ring any more: what it holds is forgotten.
CloseFd ==
    /\ release = "Open" /\ user = "Gone"
    /\ release' = "Closing" /\ closing' = TRUE
    /\ events' = <<>> /\ inbox' = <<>>
    /\ UNCHANGED <<detached, cb_installed, chan_registered, rxv, txv, qv, net, ppp, ctrl_q,
                   evt_dropped, fatal, user, sends>>

sstp_demux_remove_callback ==
    /\ release = "Closing" /\ release' = "Unhooked" /\ cb_installed' = FALSE
    /\ UNCHANGED <<closing, detached, chan_registered, rxv, txv, qv, net, ppp, evv, usr>>

\* cancel_work_sync of each work, the purge, and flush_workqueue.
sstp_demux_shutdown ==
    /\ \/ /\ release = "Unhooked" /\ rx = "Idle" /\ release' = "RxCancelled"
          /\ rx_pending' = FALSE /\ UNCHANGED <<tx_pending, tx_q>>
       \/ /\ release = "RxCancelled" /\ tx = "Idle" /\ release' = "TxCancelled"
          /\ tx_pending' = FALSE /\ UNCHANGED <<rx_pending, tx_q>>
       \/ /\ release = "TxCancelled" /\ release' = "Purged" /\ tx_q' = <<>>
          /\ UNCHANGED <<rx_pending, tx_pending>>
       \/ /\ release = "Purged" /\ release' = "Flushed"
          /\ rx = "Idle" /\ tx = "Idle" /\ ~rx_pending /\ ~tx_pending
          /\ UNCHANGED <<rx_pending, tx_pending, tx_q>>
    /\ UNCHANGED <<closing, detached, cb_installed, chan_registered, rx, rx_loops, rx_buf,
                   tx, tx_loops, drained, batch, queued, sent, net, ppp, evv, usr>>

\* Mutant: the session is freed without waiting for its channel's users.
sstp_session_release_keeps_channel ==
    /\ release = "Flushed" /\ release' = "Freed"
    /\ UNCHANGED <<closing, detached, cb_installed, chan_registered, rxv, txv, qv, net, ppp, evv, usr>>

\* sstp_session_put: unregistering the channel waits for start_xmit; destroy_workqueue drains.
sstp_session_release ==
    /\ \/ release = "Flushed" /\ xmit = "Idle" /\ release' = "Unregistered" /\ chan_registered' = FALSE
       \/ /\ release = "Unregistered" /\ rx = "Idle" /\ tx = "Idle" /\ ~rx_pending /\ ~tx_pending
          /\ release' = "Freed" /\ UNCHANGED chan_registered
    /\ UNCHANGED <<closing, detached, cb_installed, rxv, txv, qv, net, ppp, evv, usr>>

Freed == release \in {"Freed", "Touched"} /\ UNCHANGED vars

Next ==
    \/ sstp_rx_worker \/ sstp_demux_recv_once \/ sstp_demux_parse \/ RxParsed
    \/ sstp_handle_lcp_echo \/ RxEmit \/ RxClose
    \/ sstp_tx_worker \/ TxBatch \/ TxSent \/ TxAgain \/ TxRehead \/ TxFail \/ TxClose \/ TxWake \/ TxPushed
    \/ PppOutput \/ sstp_chan_start_xmit \/ XmitTail
    \/ sstp_sk_write_space \/ (\E a \in PeerSends : sstp_sk_data_ready(a))
    \/ \E work \in {"rx", "tx", "tail"} : QueueWork(work)
    \/ sstp_session_read \/ HandleEvent \/ SessionEnds \/ DETACH
    \/ apply_step \/ SEND_CONTROL \/ SendDone \/ SendAgain \/ SendFail \/ SendClose
    \/ CloseFd \/ sstp_demux_remove_callback \/ sstp_demux_shutdown \/ sstp_session_release \/ Freed

Spec == Init /\ [][Next]_vars

\* Workers and callbacks run.  Nobody owes a packet or a read of the session fd.
RxFairness ==
    /\ WF_vars(sstp_rx_worker) /\ WF_vars(sstp_demux_recv_once) /\ WF_vars(sstp_demux_parse)
    /\ WF_vars(RxParsed) /\ WF_vars(sstp_handle_lcp_echo) /\ WF_vars(RxEmit) /\ WF_vars(RxClose)
    /\ WF_vars(QueueWork("rx"))

\* The same for the transmit side, where the peer also goes on acknowledging.  No send has to fail.
TxFairness ==
    /\ WF_vars(sstp_tx_worker) /\ WF_vars(TxBatch) /\ WF_vars(TxSent) /\ WF_vars(TxAgain)
    /\ WF_vars(TxRehead) /\ WF_vars(TxClose) /\ WF_vars(TxWake) /\ WF_vars(TxPushed)
    /\ WF_vars(sstp_chan_start_xmit) /\ WF_vars(XmitTail)
    /\ WF_vars(sstp_sk_write_space) /\ WF_vars(QueueWork("tx"))

RxSpec == Spec /\ RxFairness
TxSpec == Spec /\ TxFairness

-----------------------------------------------------------------------------
(* Properties                                                              *)

RxPc == {"Idle", "Recv", "Parse", "Echo", "SetClosing"} \cup EventType

\* The variables keep their types: the rings stay within their sizes, the transmit worker's
\* batch within its array, and each source reports at most one fatal event.
TypeOK ==
    /\ release \in {"Open", "Closing", "Unhooked", "RxCancelled", "TxCancelled", "Purged", "Flushed",
                    "Unregistered", "Freed", "Touched"}
    /\ rx \in RxPc /\ rx_loops \in 0..RxLoops /\ rx_buf \in Seq(Frame) /\ sock_rx \in Seq(Arrival)
    /\ tx \in {"Idle", "Top", "Send", "Rehead", "Fail", "Wake", "Pushing"} /\ tx_loops \in 0..TxLoops
    /\ tx_q \in Seq(Nat) /\ batch \in Seq(Nat) /\ queued \in Nat /\ sent \in Nat
    /\ Len(batch) <= SSTP_TX_BATCH_MAX
    /\ room \in 0..SndBuf /\ irq \subseteq {"rx", "tx", "tail"} /\ xmit \in {"Idle", "Entry", "Tail"}
    /\ ctrl_q \in 0..(SSTP_CTRL_Q_CAP - 1) /\ evt_dropped \in 0..1
    /\ events \in Seq(EventType) /\ Len(events) < SSTP_EVENT_QUEUE_CAP
    /\ inbox \in Seq(EventType)
    /\ fatal \in [{"rx", "tx", "user"} -> 0..1]
    /\ user \in {"Select", "Reading", "Handling", "Send", "Sending", "Fail", "Gone"}
    /\ peer_sent \in Nat /\ sends \in Nat

\* The rings fit each other: an event never finds the event ring full, however the workers'
\* and the daemon's steps interleave, so no control packet waits in ctrl_q without an event.
EventsNeverDropped == evt_dropped = 0

Controls(s) == Cardinality({i \in 1..Len(s) : s[i] = "CONTROL_PACKET"})

\* Every event the daemon has read and every one in the ring still has its packet: RECV_CONTROL
\* for an event never finds the queue empty.
PacketPerEvent ==
    release = "Open" => ctrl_q = Controls(inbox) + Controls(events) + (IF rx = "CONTROL_PACKET" THEN 1 ELSE 0)

\* A session that closes by itself tells its reader why: while the daemon has not given up,
\* an event other than a control packet is on its way to it.
ClosingExplained ==
    closing /\ ~detached /\ release = "Open" /\ user # "Gone"
        => \E s \in {inbox, events} : \E i \in 1..Len(s) : s[i] = "FATAL"

\* Frames reach the socket in the order tx_q took them, none lost or overtaken, across batches
\* that are refused and put back while start_xmit and echo replies append.
TxInOrder ==
    ~closing => /\ \A i \in 1..Len(batch) : batch[i] = sent + i
                /\ \A i \in 1..Len(tx_q) : tx_q[i] = sent + Len(batch) + i
                /\ queued = sent + Len(batch) + Len(tx_q)

\* The cap is tested outside the queue's lock and a refused batch returns to a queue that was
\* refilled meanwhile; the excess is one frame and one batch.
TxQueueBounded == Len(tx_q) <= SSTP_TX_Q_CAP + SSTP_TX_BATCH_MAX + 1

\* A frame ppp_generic holds because start_xmit refused it is offered again.
BackpressureReleased == held ~> (~held \/ closing)

\* Frames that reached the socket are received, whenever they arrived.
RxDrains == sock_rx # <<>> ~> (sock_rx = <<>> \/ closing)

\* No worker and no start_xmit is at work on the session or queued for it.
Quiet == rx = "Idle" /\ tx = "Idle" /\ xmit = "Idle" /\ ~rx_pending /\ ~tx_pending

\* Neither worker nor start_xmit runs on a freed session or is queued for it, although
\* start_xmit and callbacks requeue the work behind sstp_demux_shutdown's back; only a callback
\* that was in flight all along can still reach it (release = "Touched").
FreedQuiet == release = "Freed" => Quiet

\* A session that is freed with no callback in flight is never touched again.
FreedForGood == [](release = "Freed" /\ irq = {} => [](release = "Freed" /\ irq = {} /\ Quiet))

\* "After both return, neither worker will touch the session again" (sstp_demux.c:427), nor
\* does a socket callback: nothing reaches a session that is freed.
FreedUntouched == release # "Touched"

\* sstp_demux_shutdown "must guarantee the work item is no longer running and will not be
\* requeued": nothing is queued once it has returned.
ShutdownQuiesces ==
    release \in {"Flushed", "Unregistered"} => ~rx_pending /\ ~tx_pending /\ rx = "Idle" /\ tx = "Idle"
=============================================================================

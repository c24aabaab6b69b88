----------------------------- MODULE KmodProofs -----------------------------
(***************************************************************************)
(* Proofs about Kmod, for every size of the queues and rings and every     *)
(* number of frames: the transmit queue and the release (TInv), then the   *)
(* event ring, the control queue and the FATAL events (EInv).              *)
(***************************************************************************)
EXTENDS Kmod, TLAPS, FiniteSetTheorems

-----------------------------------------------------------------------------
(* The transmit queue and the release: the inductive invariant.            *)

QueueType ==
    /\ tx_q \in Seq(Nat) /\ batch \in Seq(Nat) /\ queued \in Nat /\ sent \in Nat
    /\ Len(batch) <= SSTP_TX_BATCH_MAX

\* The variables the transmit queue does not depend on.
BufferType == rx_buf \in Seq(Frame) /\ sock_rx \in Seq(Arrival)
CountType ==
    /\ rx_loops \in 0..RxLoops /\ tx_loops \in 0..TxLoops
    /\ room \in 0..SndBuf /\ peer_sent \in Nat /\ sends \in Nat
LifeType ==
    /\ release \in {"Open", "Closing", "Unhooked", "RxCancelled", "TxCancelled", "Purged", "Flushed",
                    "Unregistered", "Freed", "Touched"}
    /\ xmit \in {"Idle", "Entry", "Tail"} /\ irq \subseteq {"rx", "tx", "tail"}

\* The worker has frames in hand between building a batch and getting rid of it.
BatchOK ==
    /\ tx \in {"Idle", "Top", "Wake", "Pushing"} => batch = <<>>
    /\ tx = "Send" => Len(batch) > 0

\* A test of the cap that was passed is a frame that is as good as queued.
Committed == (IF xmit = "Tail" THEN 1 ELSE 0) + (IF rx = "Echo" THEN 1 ELSE 0)
QueueRoom == Len(tx_q) + Len(batch) + Committed <= SSTP_TX_Q_CAP + SSTP_TX_BATCH_MAX + 1

\* What the steps of the release have already put an end to.
Cancelled == release \in {"TxCancelled", "Purged", "Flushed", "Unregistered", "Freed", "Touched"}
Teardown ==
    /\ release # "Open" => closing
    /\ tx \in {"Idle", "Pushing"} => drained = FALSE
    /\ Cancelled => tx \in {"Idle", "Top", "Wake"} /\ drained = FALSE
    /\ release \in {"Unregistered", "Freed", "Touched"} => chan_registered = FALSE /\ xmit = "Idle"

QInv == QueueType /\ BatchOK /\ TxInOrder /\ QueueRoom /\ Teardown
TInv == QInv /\ BufferType /\ CountType /\ LifeType

-----------------------------------------------------------------------------
(* Facts about the queues.                                                 *)

\* A prefix of a queue.
LEMMA PrefixFacts ==
    ASSUME NEW S, NEW q \in Seq(S), NEW n \in Nat, n <= Len(q)
    PROVE  /\ SubSeq(q, 1, n) \in Seq(S) /\ Len(SubSeq(q, 1, n)) = n
           /\ \A i \in 1..n : SubSeq(q, 1, n)[i] = q[i]
<1>1. \A i \in 1..n : q[i] \in S OBVIOUS
<1> QED BY <1>1

\* What TxBatch and sstp_demux_recv_once leave behind.
LEMMA SuffixFacts ==
    ASSUME NEW S, NEW q \in Seq(S), NEW n \in 1..Len(q)
    PROVE  /\ SubSeq(q, n + 1, Len(q)) \in Seq(S) /\ Len(SubSeq(q, n + 1, Len(q))) = Len(q) - n
           /\ \A i \in 1..(Len(q) - n) : SubSeq(q, n + 1, Len(q))[i] = q[n + i]
<1>1. Len(q) \in Nat OBVIOUS
<1> QED BY <1>1

\* skb_queue_tail.
LEMMA PushFacts ==
    ASSUME NEW S, NEW q \in Seq(S), NEW e \in S
    PROVE  /\ Append(q, e) \in Seq(S) /\ Len(Append(q, e)) = Len(q) + 1
           /\ \A i \in 1..Len(q) : Append(q, e)[i] = q[i]
           /\ Append(q, e)[Len(q) + 1] = e
OBVIOUS

\* skb_queue_head of the last frame of a batch.
LEMMA PutBackFacts ==
    ASSUME NEW S, NEW q \in Seq(S), NEW b \in Seq(S), b # <<>>
    PROVE  /\ <<b[Len(b)]>> \o q \in Seq(S) /\ Len(<<b[Len(b)]>> \o q) = Len(q) + 1
           /\ (<<b[Len(b)]>> \o q)[1] = b[Len(b)]
           /\ \A i \in 1..Len(q) : (<<b[Len(b)]>> \o q)[i + 1] = q[i]
           /\ SubSeq(b, 1, Len(b) - 1) \in Seq(S) /\ Len(SubSeq(b, 1, Len(b) - 1)) = Len(b) - 1
           /\ \A i \in 1..(Len(b) - 1) : SubSeq(b, 1, Len(b) - 1)[i] = b[i]
           /\ Len(b) \in Nat \ {0}
<1>1. Len(b) \in Nat \ {0} /\ Len(q) \in Nat OBVIOUS
<1>2. b[Len(b)] \in S BY <1>1
<1>3. <<b[Len(b)]>> \in Seq(S) /\ Len(<<b[Len(b)]>>) = 1 /\ <<b[Len(b)]>>[1] = b[Len(b)]
  BY <1>2
<1>4. <<b[Len(b)]>> \o q \in Seq(S) /\ Len(<<b[Len(b)]>> \o q) = Len(q) + 1
  BY <1>1, <1>3
<1>5. (<<b[Len(b)]>> \o q)[1] = b[Len(b)]
  BY <1>1, <1>3, <1>4
<1>6. \A i \in 1..Len(q) : (<<b[Len(b)]>> \o q)[i + 1] = q[i]
  BY <1>1, <1>3
<1>7. Len(b) - 1 \in Nat /\ Len(b) - 1 <= Len(b) BY <1>1
<1> QED BY SMTT(40), <1>1, <1>4, <1>5, <1>6, <1>7, PrefixFacts

\* TxInOrder on its own: the frames in hand and then the queued ones continue the ones sent.
Ordered(s, n, b, q) ==
    /\ \A i \in 1..Len(b) : b[i] = s + i
    /\ \A i \in 1..Len(q) : q[i] = s + Len(b) + i
    /\ n = s + Len(b) + Len(q)

\* The while loop of sstp_tx_worker that builds a batch.
LEMMA TakeOrdered ==
    ASSUME NEW s \in Nat, NEW n \in Nat, NEW q \in Seq(Nat), NEW k \in 1..Len(q), Ordered(s, n, <<>>, q)
    PROVE  Ordered(s, n, SubSeq(q, 1, k), SubSeq(q, k + 1, Len(q)))
<1>1. Len(q) \in Nat /\ k \in Nat /\ k <= Len(q) OBVIOUS
<1>2. (\A i \in 1..Len(q) : q[i] = s + i) /\ n = s + Len(q) BY <1>1 DEF Ordered
<1> DEFINE b == SubSeq(q, 1, k)
           r == SubSeq(q, k + 1, Len(q))
<1>3. Len(b) = k /\ \A i \in 1..k : b[i] = q[i] BY <1>1, PrefixFacts
<1>4. Len(r) = Len(q) - k /\ \A i \in 1..(Len(q) - k) : r[i] = q[k + i] BY SuffixFacts
<1> HIDE DEF b, r
<1>5. \A i \in 1..Len(b) : b[i] = s + i BY SMTT(40), <1>1, <1>2, <1>3
<1>6. ASSUME NEW i \in 1..Len(r) PROVE r[i] = s + Len(b) + i
  <2>1. k + i \in 1..Len(q) /\ i \in 1..(Len(q) - k) BY <1>1, <1>4
  <2>2. r[i] = s + (k + i) BY ZenonT(60), <1>2, <1>4, <2>1
  <2> QED BY <1>1, <1>3, <2>2
<1>7. n = s + Len(b) + Len(r) BY <1>1, <1>2, <1>3, <1>4
<1>8. Ordered(s, n, b, r) BY <1>5, <1>6, <1>7 DEF Ordered
<1> QED BY <1>8 DEF b, r

\* skb_queue_head of the last frame of the batch.
LEMMA PutBackOrdered ==
    ASSUME NEW s \in Nat, NEW n \in Nat, NEW b \in Seq(Nat), NEW q \in Seq(Nat), b # <<>>, Ordered(s, n, b, q)
    PROVE  Ordered(s, n, SubSeq(b, 1, Len(b) - 1), <<b[Len(b)]>> \o q)
<1>1. Len(q) \in Nat OBVIOUS
<1>2. /\ \A i \in 1..Len(b) : b[i] = s + i
      /\ \A i \in 1..Len(q) : q[i] = s + Len(b) + i
      /\ n = s + Len(b) + Len(q)
  BY DEF Ordered
<1> DEFINE c == SubSeq(b, 1, Len(b) - 1)
           r == <<b[Len(b)]>> \o q
<1>3. /\ Len(r) = Len(q) + 1 /\ r[1] = b[Len(b)] /\ \A i \in 1..Len(q) : r[i + 1] = q[i]
      /\ Len(c) = Len(b) - 1 /\ Len(b) \in Nat \ {0} /\ \A i \in 1..(Len(b) - 1) : c[i] = b[i]
  BY PutBackFacts
<1> HIDE DEF c, r
<1>4. \A i \in 1..Len(c) : c[i] = s + i BY SMTT(40), <1>2, <1>3
<1>5. ASSUME NEW i \in 1..Len(r) PROVE r[i] = s + Len(c) + i
  <2>1. CASE i = 1
    <3>1. r[1] = s + Len(b) BY SMTT(40), <1>2, <1>3
    <3> QED BY SMTT(40), <1>3, <2>1, <3>1
  <2>2. CASE i # 1
    <3>1. i - 1 \in 1..Len(q) /\ (i - 1) + 1 = i BY SMTT(40), <1>1, <1>3, <2>2
    <3>2. r[i] = q[i - 1]
      <4>1. r[(i - 1) + 1] = q[i - 1] BY ZenonT(60), <1>3, <3>1
      <4> QED BY <3>1, <4>1
    <3>3. q[i - 1] = s + Len(b) + (i - 1) BY <1>2, <3>1
    <3> QED BY <1>1, <1>3, <3>1, <3>2, <3>3
  <2> QED BY <2>1, <2>2
<1>6. n = s + Len(c) + Len(r) BY <1>1, <1>2, <1>3
<1>7. Ordered(s, n, c, r) BY <1>4, <1>5, <1>6 DEF Ordered
<1> QED BY <1>7 DEF c, r


-----------------------------------------------------------------------------
(* Steps that leave the queue and the batch alone.                         *)

Still ==
    /\ UNCHANGED <<tx, drained, tx_q, batch, queued, sent>> /\ (closing => closing')
    /\ \/ (rx' = "Echo" => rx = "Echo") /\ (xmit' = "Tail" => xmit = "Tail")
       \/ Len(tx_q) < SSTP_TX_Q_CAP

\* The queue's invariants survive them: a new commitment follows a test of the cap.
LEMMA StillKeeps ==
    ASSUME QInv, Still, Teardown'
    PROVE  QInv'
<1>1. UNCHANGED <<tx, drained, tx_q, batch, queued, sent>> /\ (closing => closing') BY DEF Still
<1>2. QueueType' /\ BatchOK' BY <1>1 DEF QInv, QueueType, BatchOK
<1>3. TxInOrder' BY <1>1 DEF QInv, TxInOrder
<1>4. QueueRoom'
  <2>1. /\ Len(tx_q) \in Nat /\ Len(batch) \in Nat /\ Len(batch) <= SSTP_TX_BATCH_MAX
        /\ Len(tx_q') = Len(tx_q) /\ Len(batch') = Len(batch)
    BY <1>1 DEF QInv, QueueType
  <2>2. Committed \in 0..2 /\ Committed' \in 0..2 BY DEF Committed
  <2>3. Committed' <= Committed \/ Len(tx_q) < SSTP_TX_Q_CAP BY DEF Committed, Still
  <2>4. Len(tx_q) + Len(batch) + Committed <= SSTP_TX_Q_CAP + SSTP_TX_BATCH_MAX + 1 BY ZenonT(60) DEF QInv, QueueRoom
  <2> QED BY SMTT(40), <2>1, <2>2, <2>3, <2>4, KmodAssumption DEF QueueRoom
<1> QED BY <1>2, <1>3, <1>4 DEF QInv

\* The receive worker, start_xmit's tests, the callbacks, the daemon and the release.
LEMMA StillSteps ==
    ASSUME QInv,
           \/ sstp_rx_worker \/ sstp_demux_recv_once \/ sstp_demux_parse \/ RxParsed \/ RxEmit \/ RxClose
           \/ PppOutput \/ sstp_chan_start_xmit \/ sstp_sk_write_space
           \/ (\E a \in PeerSends : sstp_sk_data_ready(a)) \/ (\E work \in {"rx", "tx", "tail"} : QueueWork(work))
           \/ sstp_session_read \/ HandleEvent \/ SessionEnds \/ DETACH
           \/ apply_step \/ SEND_CONTROL \/ SendDone \/ SendAgain \/ SendFail \/ SendClose
           \/ CloseFd \/ sstp_demux_remove_callback \/ sstp_session_release \/ Freed \/ UNCHANGED vars
    PROVE  Still /\ Teardown'
<1> USE DEF Still, Teardown, Cancelled, vars, life, rxv, txv, qv, net, ppp, evv, usr
<1>t. Teardown BY DEF QInv
<1>l. Len(tx_q) \in Nat /\ SSTP_TX_Q_CAP \in Nat BY SMTT(40), KmodAssumption DEF QInv, QueueType
<1>1. CASE sstp_rx_worker BY ZenonT(60), <1>t, <1>1 DEF sstp_rx_worker
<1>2. CASE sstp_demux_recv_once BY ZenonT(60), <1>t, <1>2 DEF sstp_demux_recv_once
<1>3. CASE sstp_demux_parse BY SMTT(40), <1>t, <1>l, <1>3 DEF sstp_demux_parse
<1>4. CASE RxParsed BY ZenonT(60), <1>t, <1>4 DEF RxParsed, RxPassDone
<1>5. CASE RxEmit BY ZenonT(60), <1>t, <1>5 DEF RxEmit, EventType
<1>6. CASE RxClose BY ZenonT(60), <1>t, <1>6 DEF RxClose
<1>7. CASE PppOutput BY ZenonT(60), <1>t, <1>7 DEF PppOutput
<1>8. CASE sstp_chan_start_xmit BY ZenonT(60), <1>t, <1>l, <1>8 DEF sstp_chan_start_xmit
<1>9. CASE sstp_sk_write_space BY ZenonT(60), <1>t, <1>9 DEF sstp_sk_write_space
<1>10. CASE \E a \in PeerSends : sstp_sk_data_ready(a) BY SMTT(40), <1>t, <1>10 DEF sstp_sk_data_ready
<1>11. CASE \E work \in {"rx", "tx", "tail"} : QueueWork(work) BY SMTT(40), <1>t, <1>11 DEF QueueWork
<1>12. CASE sstp_session_read \/ HandleEvent BY ZenonT(60), <1>t, <1>12 DEF sstp_session_read, HandleEvent
<1>13. CASE SessionEnds \/ apply_step \/ SEND_CONTROL BY ZenonT(60), <1>t, <1>13 DEF SessionEnds, apply_step, SEND_CONTROL
<1>14. CASE SendDone \/ SendAgain \/ SendFail BY ZenonT(60), <1>t, <1>14 DEF SendDone, SendAgain, SendFail
<1>15. CASE DETACH \/ SendClose BY ZenonT(60), <1>t, <1>15 DEF DETACH, SendClose
<1>16. CASE CloseFd BY ZenonT(60), <1>t, <1>16 DEF CloseFd
<1>17. CASE sstp_demux_remove_callback BY ZenonT(60), <1>t, <1>17 DEF sstp_demux_remove_callback
<1>18. CASE sstp_session_release BY ZenonT(60), <1>t, <1>18 DEF sstp_session_release
<1>19. CASE Freed \/ UNCHANGED vars BY ZenonT(60), <1>t, <1>19 DEF Freed
<1> QED
  BY ZenonT(60), <1>1, <1>2, <1>3, <1>4, <1>5, <1>6, <1>7, <1>8, <1>9, <1>10, <1>11, <1>12, <1>13, <1>14, <1>15,
     <1>16, <1>17, <1>18, <1>19

-----------------------------------------------------------------------------
(* Steps on the queue and the batch.                                       *)

\* The invariant's numbers.
LEMMA QueueNumbers ==
    ASSUME QInv
    PROVE  /\ tx_q \in Seq(Nat) /\ batch \in Seq(Nat) /\ Len(tx_q) \in Nat /\ Len(batch) \in Nat
           /\ queued \in Nat /\ sent \in Nat /\ Len(batch) <= SSTP_TX_BATCH_MAX
           /\ Committed \in 0..2
<1>1. Committed \in 0..2 BY DEF Committed
<1> QED BY <1>1 DEF QInv, QueueType

\* A step that shortens the queue, or only moves frames between it and the batch.
LEMMA NoMoreQueued ==
    ASSUME QInv, Committed' = Committed, Len(tx_q') \in Nat, Len(batch') \in Nat,
           Len(tx_q') + Len(batch') <= Len(tx_q) + Len(batch)
    PROVE  QueueRoom'
<1>1. Len(tx_q) + Len(batch) + Committed <= SSTP_TX_Q_CAP + SSTP_TX_BATCH_MAX + 1 BY DEF QInv, QueueRoom
<1> QED BY SMTT(40), <1>1, QueueNumbers, KmodAssumption DEF QueueRoom

\* skb_queue_tail, by start_xmit or for an echo reply, makes good a commitment.
LEMMA TailKeeps == ASSUME QInv, sstp_handle_lcp_echo \/ XmitTail PROVE QInv'
<1>1. /\ tx_q' = Append(tx_q, queued + 1) /\ queued' = queued + 1
      /\ UNCHANGED <<batch, sent, tx, drained, closing, release, chan_registered>>
      /\ \/ rx = "Echo" /\ rx' = "Parse" /\ UNCHANGED xmit
         \/ xmit = "Tail" /\ xmit' = "Idle" /\ UNCHANGED rx
  BY DEF sstp_handle_lcp_echo, XmitTail, QueueTail, life, rxv, ppp
<1>2. queued + 1 \in Nat BY SMTT(40), QueueNumbers
<1>3. /\ tx_q' \in Seq(Nat) /\ Len(tx_q') = Len(tx_q) + 1
      /\ \A i \in 1..Len(tx_q) : tx_q'[i] = tx_q[i]
      /\ tx_q'[Len(tx_q) + 1] = queued + 1
  BY SMTT(40), <1>1, <1>2, QueueNumbers, PushFacts
<1>4. QueueType' /\ BatchOK' BY SMTT(40), <1>1, <1>2, <1>3 DEF QInv, QueueType, BatchOK
<1>5. TxInOrder'
  <2>1. SUFFICES ASSUME ~closing
                 PROVE  /\ \A i \in 1..Len(batch) : batch[i] = sent + i
                        /\ \A i \in 1..Len(tx_q') : tx_q'[i] = sent + Len(batch) + i
                        /\ queued' = sent + Len(batch) + Len(tx_q')
    BY <1>1 DEF TxInOrder
  <2>2. /\ \A i \in 1..Len(batch) : batch[i] = sent + i
        /\ \A i \in 1..Len(tx_q) : tx_q[i] = sent + Len(batch) + i
        /\ queued = sent + Len(batch) + Len(tx_q)
    BY <2>1 DEF QInv, TxInOrder
  <2>3. queued' = sent + Len(batch) + Len(tx_q') BY SMTT(40), <1>1, <1>3, <2>2, QueueNumbers
  <2>4. ASSUME NEW i \in 1..Len(tx_q') PROVE tx_q'[i] = sent + Len(batch) + i
    <3>1. CASE i \in 1..Len(tx_q)
      BY ZenonT(60), <1>3, <2>2, <3>1
    <3>2. CASE i = Len(tx_q) + 1
      BY SMTT(40), <1>3, <2>2, <3>2, QueueNumbers
    <3> QED BY <1>3, <3>1, <3>2, QueueNumbers
  <2> QED BY ZenonT(60), <2>2, <2>3, <2>4
<1>6. QueueRoom'
  <2>1. Committed' = Committed - 1 BY <1>1 DEF Committed
  <2>2. Len(tx_q) + Len(batch) + Committed <= SSTP_TX_Q_CAP + SSTP_TX_BATCH_MAX + 1 BY DEF QInv, QueueRoom
  <2>3. Len(batch') = Len(batch) BY <1>1
  <2> QED BY SMTT(40), <1>3, <2>1, <2>2, <2>3, QueueNumbers, KmodAssumption DEF QueueRoom
<1>7. Teardown' BY <1>1 DEF QInv, Teardown, Cancelled
<1> QED BY <1>4, <1>5, <1>6, <1>7 DEF QInv

\* The transmit worker's steps that keep the queue and the batch.
LEMMA WorkerKeeps ==
    ASSUME QInv, sstp_tx_worker \/ TxAgain \/ TxFail \/ TxWake \/ TxPushed
    PROVE  QInv'
<1> USE DEF life, rxv, txv, qv, net, ppp, evv, usr
<1>1. /\ UNCHANGED <<tx_q, batch, queued, sent, closing, release, chan_registered, rx>>
      /\ xmit' = "Tail" <=> xmit = "Tail"
  BY DEF sstp_tx_worker, TxAgain, TxFail, TxWake, TxPushed
<1>2. QueueType' /\ TxInOrder' BY <1>1 DEF QInv, QueueType, TxInOrder
<1>3. BatchOK'
  <2>1. \/ tx' \in {"Idle", "Top", "Pushing"} /\ tx \in {"Idle", "Wake", "Pushing"}
        \/ tx' \in {"Rehead", "Fail"}
    BY DEF sstp_tx_worker, TxAgain, TxFail, TxWake, TxPushed
  <2> QED BY ZenonT(60), <1>1, <2>1 DEF QInv, BatchOK
<1>4. QueueRoom' BY ZenonT(60), <1>1 DEF QInv, QueueRoom, Committed
<1>5. Teardown'
  <2> USE <1>1 DEF QInv, Teardown, Cancelled
  <2>1. CASE sstp_tx_worker BY SMTT(40), <2>1 DEF sstp_tx_worker
  <2>2. CASE TxAgain \/ TxFail BY ZenonT(60), <2>2 DEF TxAgain, TxFail
  <2>3. CASE TxWake BY SMTT(40), <2>3 DEF TxWake
  <2>4. CASE TxPushed BY SMTT(40), <2>4 DEF TxPushed
  <2> QED BY ZenonT(60), <2>1, <2>2, <2>3, <2>4
<1> QED BY ZenonT(60), <1>2, <1>3, <1>4, <1>5 DEF QInv

\* The batch is taken from the head of the queue.
LEMMA BatchKeeps == ASSUME QInv, TxBatch PROVE QInv'
<1> USE DEF life, rxv, ppp
<1>1. /\ tx = "Top" /\ batch = <<>>
      /\ UNCHANGED <<queued, sent, drained, closing, release, chan_registered, rx, xmit>>
  BY SMTT(40) DEF TxBatch, QInv, BatchOK
<1>2. Committed' = Committed BY ZenonT(60), <1>1 DEF Committed
<1>3. CASE tx' = "Wake" /\ UNCHANGED <<tx_q, batch>>
  BY ZenonT(60), <1>1, <1>2, <1>3 DEF QInv, QueueType, BatchOK, TxInOrder, QueueRoom, Teardown, Cancelled
<1>4. ASSUME ~closing, tx' = "Send", NEW n \in 1..Len(tx_q), n <= SSTP_TX_BATCH_MAX,
             batch' = SubSeq(tx_q, 1, n), tx_q' = SubSeq(tx_q, n + 1, Len(tx_q))
      PROVE  QInv'
  <2>1. n \in Nat \ {0} /\ n <= Len(tx_q) BY SMTT(40), QueueNumbers
  <2>2. batch' \in Seq(Nat) /\ Len(batch') = n BY ZenonT(60), <1>4, <2>1, QueueNumbers, PrefixFacts
  <2>3. tx_q' \in Seq(Nat) /\ Len(tx_q') = Len(tx_q) - n BY ZenonT(60), <1>4, QueueNumbers, SuffixFacts
  <2>4. QueueType' BY ZenonT(60), <1>1, <1>4, <2>2, <2>3 DEF QInv, QueueType
  <2>5. BatchOK' BY SMTT(40), <1>4, <2>1, <2>2 DEF BatchOK
  <2>6. TxInOrder'
    <3>1. Ordered(sent, queued, <<>>, tx_q) BY ZenonT(60), <1>1, <1>4 DEF QInv, TxInOrder, Ordered
    <3>2. Ordered(sent, queued, batch', tx_q') BY ZenonT(60), <1>4, <3>1, QueueNumbers, TakeOrdered
    <3> QED BY ZenonT(60), <1>1, <3>2 DEF TxInOrder, Ordered
  <2>7. QueueRoom'
    <3>1. Len(batch) = 0 BY ZenonT(60), <1>1
    <3> QED BY SMTT(40), <1>2, <2>1, <2>2, <2>3, <3>1, QueueNumbers, NoMoreQueued
  <2>8. Teardown' BY SMTT(40), <1>1, <1>4 DEF QInv, Teardown, Cancelled
  <2> QED BY ZenonT(60), <2>4, <2>5, <2>6, <2>7, <2>8 DEF QInv
<1> QED BY ZenonT(60), <1>3, <1>4 DEF TxBatch

\* The socket took the batch.
LEMMA SentKeeps == ASSUME QInv, TxSent PROVE QInv'
<1>1. /\ tx = "Send" /\ tx' \in {"Wake", "Top"} /\ sent' = batch[Len(batch)] /\ batch' = <<>>
      /\ UNCHANGED <<tx_q, queued, closing, release, chan_registered, rx, xmit>>
  BY DEF TxSent, life, rxv, ppp
<1>2. Len(batch) > 0 /\ Len(batch') = 0 BY <1>1 DEF QInv, BatchOK
<1>3. sent' \in Nat BY SMTT(40), <1>1, <1>2, QueueNumbers
<1>4. QueueType' BY SMTT(40), <1>1, <1>2, <1>3, KmodAssumption DEF QInv, QueueType
<1>5. BatchOK' BY <1>1 DEF BatchOK
<1>6. TxInOrder'
  <2>1. CASE closing
    BY ZenonT(60), <1>1, <2>1 DEF TxInOrder
  <2>2. CASE ~closing
    <3>1. sent' = sent + Len(batch) BY SMTT(40), <1>1, <1>2, <2>2, QueueNumbers DEF QInv, TxInOrder
    <3> QED BY SMTT(40), <1>1, <1>2, <2>2, <3>1, QueueNumbers DEF QInv, TxInOrder
  <2> QED BY SMTT(40), <2>1, <2>2
<1>7. QueueRoom'
  <2>1. Committed' = Committed BY SMTT(40), <1>1 DEF Committed
  <2> QED BY SMTT(40), <1>1, <1>2, <2>1, QueueNumbers, NoMoreQueued
<1>8. Teardown' BY ZenonT(60), <1>1 DEF QInv, Teardown, Cancelled
<1> QED BY ZenonT(60), <1>4, <1>5, <1>6, <1>7, <1>8 DEF QInv

\* The socket refused it: the frames go back one by one.
LEMMA ReheadKeeps == ASSUME QInv, TxRehead PROVE QInv'
<1> USE DEF life, rxv, ppp
<1>1. /\ tx = "Rehead"
      /\ UNCHANGED <<queued, sent, drained, closing, release, chan_registered, rx, xmit>>
  BY DEF TxRehead
<1>2. Committed' = Committed BY ZenonT(60), <1>1 DEF Committed
<1>3. CASE batch = <<>> /\ tx' = "Wake" /\ UNCHANGED <<tx_q, batch>>
  BY ZenonT(60), <1>1, <1>2, <1>3 DEF QInv, QueueType, BatchOK, TxInOrder, QueueRoom, Teardown, Cancelled
<1>4. CASE /\ batch # <<>> /\ UNCHANGED tx
           /\ tx_q' = <<batch[Len(batch)]>> \o tx_q /\ batch' = SubSeq(batch, 1, Len(batch) - 1)
  <2>1. /\ tx_q' \in Seq(Nat) /\ Len(tx_q') = Len(tx_q) + 1
        /\ batch' \in Seq(Nat) /\ Len(batch') = Len(batch) - 1 /\ Len(batch) \in Nat \ {0}
    BY ZenonT(60), <1>4, QueueNumbers, PutBackFacts
  <2>2. QueueType'
    <3>1. Len(batch') <= SSTP_TX_BATCH_MAX BY <2>1, QueueNumbers, KmodAssumption
    <3> QED BY <1>1, <2>1, <3>1 DEF QInv, QueueType
  <2>3. BatchOK' BY ZenonT(60), <1>1, <1>4 DEF BatchOK
  <2>4. TxInOrder'
    <3>1. SUFFICES ASSUME ~closing PROVE TxInOrder' BY <1>1 DEF TxInOrder
    <3>2. Ordered(sent, queued, batch, tx_q) BY SMTT(40), <3>1 DEF QInv, TxInOrder, Ordered
    <3>3. Ordered(sent, queued, batch', tx_q') BY ZenonT(60), <1>4, <3>2, QueueNumbers, PutBackOrdered
    <3> QED BY ZenonT(60), <1>1, <3>3 DEF TxInOrder, Ordered
  <2>5. QueueRoom' BY SMTT(40), <1>2, <2>1, QueueNumbers, NoMoreQueued
  <2>6. Teardown' BY <1>1, <1>4 DEF QInv, Teardown, Cancelled
  <2> QED BY <2>2, <2>3, <2>4, <2>5, <2>6 DEF QInv
<1> QED BY ZenonT(60), <1>3, <1>4 DEF TxRehead

\* The batch is freed after an error, the queue by sstp_demux_shutdown: both while closing.
LEMMA PurgeKeeps == ASSUME QInv, TxClose \/ sstp_demux_shutdown PROVE QInv'
<1> USE DEF life, rxv, txv, qv, net, ppp, evv, usr
<1>1. CASE TxClose
  <2>1. /\ tx = "Fail" /\ tx' = "Wake" /\ batch' = <<>> /\ closing'
        /\ UNCHANGED <<tx_q, queued, sent, drained, release, chan_registered, rx, xmit>>
    BY <1>1 DEF TxClose
  <2>2. Committed' = Committed /\ Len(batch') = 0 BY ZenonT(60), <2>1 DEF Committed
  <2>3. QueueType' BY SMTT(40), <2>1, <2>2, KmodAssumption DEF QInv, QueueType
  <2>4. QueueRoom' BY SMTT(40), <2>1, <2>2, QueueNumbers, NoMoreQueued
  <2>5. BatchOK' /\ TxInOrder' BY ZenonT(60), <2>1 DEF BatchOK, TxInOrder
  <2>6. Teardown' BY <2>1 DEF QInv, Teardown, Cancelled
  <2> QED BY ZenonT(60), <2>3, <2>4, <2>5, <2>6 DEF QInv
<1>2. CASE sstp_demux_shutdown
  <2>1. /\ tx_q' \in {tx_q, <<>>} /\ release # "Open"
        /\ UNCHANGED <<tx, batch, queued, sent, drained, closing, chan_registered, rx, xmit>>
    BY SMTT(40), <1>2 DEF sstp_demux_shutdown
  <2>2. closing /\ closing' BY <2>1 DEF QInv, Teardown
  <2>3. tx_q' \in Seq(Nat) /\ Len(tx_q') \in Nat /\ Len(tx_q') <= Len(tx_q)
    <3>1. <<>> \in Seq(Nat) /\ Len(<<>>) = 0 OBVIOUS
    <3>2. CASE tx_q' = tx_q
      BY <3>2, QueueNumbers
    <3>3. CASE tx_q' = <<>>
      BY SMTT(40), <3>1, <3>3, QueueNumbers
    <3> QED BY SMTT(40), <2>1, <3>2, <3>3
  <2>4. QueueType' /\ BatchOK' /\ TxInOrder'
    BY ZenonT(60), <2>1, <2>2, <2>3 DEF QInv, QueueType, BatchOK, TxInOrder
  <2>5. QueueRoom'
    <3>1. Committed' = Committed /\ Len(batch') = Len(batch) BY ZenonT(60), <2>1 DEF Committed
    <3> QED BY SMTT(40), <2>3, <3>1, QueueNumbers, NoMoreQueued
  <2>6. Teardown' BY ZenonT(60), <1>2, <2>1, <2>2 DEF sstp_demux_shutdown, QInv, Teardown, Cancelled
  <2> QED BY ZenonT(60), <2>4, <2>5, <2>6 DEF QInv
<1> QED BY SMTT(40), <1>1, <1>2

\* Every step keeps the queue's invariant.
LEMMA QueueNext == ASSUME QInv, [Next]_vars PROVE QInv'
<1>1. CASE sstp_handle_lcp_echo \/ XmitTail
  BY <1>1, TailKeeps
<1>2. CASE sstp_tx_worker \/ TxAgain \/ TxFail \/ TxWake \/ TxPushed
  BY <1>2, WorkerKeeps
<1>3. CASE TxBatch \/ TxSent \/ TxRehead
  BY ZenonT(60), <1>3, BatchKeeps, SentKeeps, ReheadKeeps
<1>4. CASE TxClose \/ sstp_demux_shutdown
  BY <1>4, PurgeKeeps
<1>5. CASE \/ sstp_rx_worker \/ sstp_demux_recv_once \/ sstp_demux_parse \/ RxParsed \/ RxEmit \/ RxClose
           \/ PppOutput \/ sstp_chan_start_xmit \/ sstp_sk_write_space
           \/ (\E a \in PeerSends : sstp_sk_data_ready(a)) \/ (\E work \in {"rx", "tx", "tail"} : QueueWork(work))
           \/ sstp_session_read \/ HandleEvent \/ SessionEnds \/ DETACH
           \/ apply_step \/ SEND_CONTROL \/ SendDone \/ SendAgain \/ SendFail \/ SendClose
           \/ CloseFd \/ sstp_demux_remove_callback \/ sstp_session_release \/ Freed \/ UNCHANGED vars
  BY ZenonT(60), <1>5, StillSteps, StillKeeps
<1> QED BY ZenonT(60), <1>1, <1>2, <1>3, <1>4, <1>5 DEF Next

-----------------------------------------------------------------------------
(* The other types.                                                        *)

\* Frames are received whole and taken from the buffer one by one.
LEMMA BufferNext == ASSUME BufferType, [Next]_vars PROVE BufferType'
<1> USE DEF vars, life, rxv, txv, qv, net, ppp, evv, usr
<1>1. CASE sstp_demux_recv_once
  <2>1. CASE UNCHANGED <<rx_buf, sock_rx>>
    BY ZenonT(60), <2>1 DEF BufferType
  <2>2. ASSUME NEW n \in 1..Len(sock_rx), \A i \in 1..n : sock_rx[i] \in Frame,
               rx_buf' = SubSeq(sock_rx, 1, n), sock_rx' = SubSeq(sock_rx, n + 1, Len(sock_rx))
        PROVE  BufferType'
    <3>1. sock_rx \in Seq(Arrival) BY ZenonT(60) DEF BufferType
    <3>2. rx_buf' \in Seq(Frame) BY SMTT(40), <2>2
    <3>3. sock_rx' \in Seq(Arrival) BY ZenonT(60), <2>2, <3>1, SuffixFacts
    <3> QED BY ZenonT(60), <3>2, <3>3 DEF BufferType
  <2> QED BY ZenonT(60), <1>1, <2>1, <2>2 DEF sstp_demux_recv_once
<1>2. CASE sstp_demux_parse
  <2>1. rx_buf # <<>> /\ rx_buf' \in {rx_buf, Tail(rx_buf)} /\ UNCHANGED sock_rx BY <1>2 DEF sstp_demux_parse
  <2> QED BY SMTT(40), <2>1 DEF BufferType
<1>3. CASE \E a \in PeerSends : sstp_sk_data_ready(a)
  <2>1. PICK a \in PeerSends : sock_rx' = Append(sock_rx, a) /\ UNCHANGED rx_buf
    BY ZenonT(60), <1>3 DEF sstp_sk_data_ready
  <2>2. a \in Arrival BY ZenonT(60), KmodAssumption DEF Arrival, Frame
  <2> QED BY SMTT(40), <2>1, <2>2 DEF BufferType
<1>4. ASSUME UNCHANGED <<rx_buf, sock_rx>> PROVE BufferType'
  BY <1>4 DEF BufferType
<1>5. CASE \/ sstp_rx_worker \/ RxParsed \/ sstp_handle_lcp_echo \/ RxEmit \/ RxClose
           \/ sstp_tx_worker \/ TxBatch \/ TxSent \/ TxAgain
  BY ZenonT(60), <1>4, <1>5
  DEF sstp_rx_worker, RxParsed, sstp_handle_lcp_echo, RxEmit, RxClose, sstp_tx_worker, TxBatch, TxSent, TxAgain
<1>6. CASE TxRehead \/ TxFail \/ TxClose \/ TxWake \/ TxPushed \/ PppOutput \/ sstp_chan_start_xmit \/ XmitTail
  BY ZenonT(60), <1>4, <1>6
  DEF TxRehead, TxFail, TxClose, TxWake, TxPushed, PppOutput, sstp_chan_start_xmit, XmitTail
<1>7. CASE \/ sstp_sk_write_space \/ (\E work \in {"rx", "tx", "tail"} : QueueWork(work)) \/ sstp_session_read
           \/ HandleEvent \/ SessionEnds \/ DETACH \/ apply_step
  BY ZenonT(60), <1>4, <1>7
  DEF sstp_sk_write_space, QueueWork, sstp_session_read, HandleEvent, SessionEnds, DETACH, apply_step
<1>8. CASE SEND_CONTROL \/ SendDone \/ SendAgain \/ SendFail \/ SendClose \/ CloseFd
  BY ZenonT(60), <1>4, <1>8 DEF SEND_CONTROL, SendDone, SendAgain, SendFail, SendClose, CloseFd
<1>9. CASE \/ sstp_demux_remove_callback \/ sstp_demux_shutdown \/ sstp_session_release \/ Freed \/ UNCHANGED vars
  BY ZenonT(60), <1>4, <1>9 DEF sstp_demux_remove_callback, sstp_demux_shutdown, sstp_session_release, Freed
<1> QED BY ZenonT(60), <1>1, <1>2, <1>3, <1>5, <1>6, <1>7, <1>8, <1>9 DEF Next

\* The workers' passes, the socket's room and the bounds.
LEMMA CountNext == ASSUME CountType, [Next]_vars PROVE CountType'
<1> USE DEF CountType, vars, life, rxv, txv, qv, net, ppp, evv, usr
<1>1. CASE sstp_rx_worker \/ RxClose \/ sstp_tx_worker
  BY SMTT(40), <1>1, KmodAssumption DEF sstp_rx_worker, RxClose, sstp_tx_worker
<1>2. CASE RxParsed
  BY SMTT(40), <1>2, KmodAssumption DEF RxParsed, RxPassDone
<1>3. CASE TxSent
  BY SMTT(40), <1>3, KmodAssumption DEF TxSent
<1>4. CASE sstp_sk_write_space
  BY SMTT(40), <1>4, KmodAssumption DEF sstp_sk_write_space
<1>5. CASE \E a \in PeerSends : sstp_sk_data_ready(a)
  BY SMTT(40), <1>5 DEF sstp_sk_data_ready
<1>6. CASE \E work \in {"rx", "tx", "tail"} : QueueWork(work)
  BY ZenonT(60), <1>6 DEF QueueWork
<1>7. CASE apply_step \/ SendDone
  BY SMTT(40), <1>7, KmodAssumption DEF apply_step, SendDone
<1>8. CASE \/ sstp_demux_recv_once \/ sstp_demux_parse \/ sstp_handle_lcp_echo \/ RxEmit
           \/ TxBatch \/ TxAgain \/ TxRehead
  BY ZenonT(60), <1>8 DEF sstp_demux_recv_once, sstp_demux_parse, sstp_handle_lcp_echo, RxEmit, TxBatch, TxAgain, TxRehead
<1>9. CASE TxFail \/ TxClose \/ TxWake \/ TxPushed \/ PppOutput \/ sstp_chan_start_xmit \/ XmitTail
  BY ZenonT(60), <1>9 DEF TxFail, TxClose, TxWake, TxPushed, PppOutput, sstp_chan_start_xmit, XmitTail
<1>10. CASE sstp_session_read \/ HandleEvent \/ SessionEnds \/ DETACH \/ SEND_CONTROL \/ SendAgain \/ SendFail
  BY ZenonT(60), <1>10 DEF sstp_session_read, HandleEvent, SessionEnds, DETACH, SEND_CONTROL, SendAgain, SendFail
<1>11. CASE \/ SendClose \/ CloseFd \/ sstp_demux_remove_callback \/ sstp_demux_shutdown \/ sstp_session_release
            \/ Freed \/ UNCHANGED vars
  BY ZenonT(60), <1>11
  DEF SendClose, CloseFd, sstp_demux_remove_callback, sstp_demux_shutdown, sstp_session_release, Freed
<1> QED BY ZenonT(60), <1>1, <1>2, <1>3, <1>4, <1>5, <1>6, <1>7, <1>8, <1>9, <1>10, <1>11 DEF Next

\* The release and start_xmit.
LEMMA LifeNext == ASSUME LifeType, [Next]_vars PROVE LifeType'
<1> USE DEF LifeType, vars, life, rxv, txv, qv, net, ppp, evv, usr
<1>1. CASE TxWake \/ PppOutput \/ sstp_chan_start_xmit \/ XmitTail
  BY ZenonT(60), <1>1 DEF TxWake, PppOutput, sstp_chan_start_xmit, XmitTail
<1>2. CASE CloseFd \/ sstp_demux_remove_callback \/ sstp_demux_shutdown \/ sstp_session_release
  BY ZenonT(60), <1>2 DEF CloseFd, sstp_demux_remove_callback, sstp_demux_shutdown, sstp_session_release
<1>3. CASE \/ sstp_rx_worker \/ sstp_demux_recv_once \/ sstp_demux_parse \/ RxParsed
           \/ sstp_handle_lcp_echo \/ RxEmit \/ RxClose
  BY ZenonT(60), <1>3
  DEF sstp_rx_worker, sstp_demux_recv_once, sstp_demux_parse, RxParsed, sstp_handle_lcp_echo, RxEmit, RxClose
<1>4. CASE sstp_tx_worker \/ TxBatch \/ TxSent \/ TxAgain \/ TxRehead \/ TxFail \/ TxClose \/ TxPushed
  BY ZenonT(60), <1>4 DEF sstp_tx_worker, TxBatch, TxSent, TxAgain, TxRehead, TxFail, TxClose, TxPushed
<1>5. CASE \/ sstp_sk_write_space \/ (\E a \in PeerSends : sstp_sk_data_ready(a))
           \/ (\E work \in {"rx", "tx", "tail"} : QueueWork(work))
  BY ZenonT(60), <1>5 DEF sstp_sk_write_space, sstp_sk_data_ready, QueueWork, Callback
<1>6. CASE \/ sstp_session_read \/ HandleEvent \/ SessionEnds \/ DETACH \/ apply_step \/ SEND_CONTROL
           \/ SendDone
  BY ZenonT(60), <1>6 DEF sstp_session_read, HandleEvent, SessionEnds, DETACH, apply_step, SEND_CONTROL, SendDone
<1>7. CASE SendAgain \/ SendFail \/ SendClose \/ Freed \/ UNCHANGED vars
  BY ZenonT(60), <1>7 DEF SendAgain, SendFail, SendClose, Freed
<1> QED BY ZenonT(60), <1>1, <1>2, <1>3, <1>4, <1>5, <1>6, <1>7 DEF Next

-----------------------------------------------------------------------------
(* The theorems.                                                           *)

\* Initially nothing is queued or in hand.
LEMMA QueueInit == Init => TInv
BY KmodAssumption DEF Init, TInv, QInv, QueueType, BufferType, CountType, LifeType, BatchOK, TxInOrder,
   QueueRoom, Committed, Teardown, Cancelled

\* The invariant holds in every reachable state.
THEOREM QueueInvariant == Spec => []TInv
<1>1. TInv /\ [Next]_vars => TInv' BY ZenonT(60), QueueNext, BufferNext, CountNext, LifeNext DEF TInv
<1> QED BY <1>1, QueueInit, PTL DEF Spec

\* Frames are handed to the socket in the order tx_q took them.
THEOREM SentInOrder == Spec => []TxInOrder
<1>1. TInv => TxInOrder BY DEF TInv, QInv
<1> QED BY <1>1, QueueInvariant, PTL

\* tx_q exceeds its cap by at most one batch and one frame.
THEOREM QueueBounded == Spec => []TxQueueBounded
<1>1. ASSUME TInv PROVE TxQueueBounded
  <2>1. Len(tx_q) + Len(batch) + Committed <= SSTP_TX_Q_CAP + SSTP_TX_BATCH_MAX + 1
    BY <1>1 DEF TInv, QInv, QueueRoom
  <2>2. Len(tx_q) \in Nat /\ Len(batch) \in Nat /\ Committed \in 0..2 BY ZenonT(60), <1>1, QueueNumbers DEF TInv
  <2> QED BY SMTT(40), <2>1, <2>2, KmodAssumption DEF TxQueueBounded
<1> QED BY <1>1, QueueInvariant, PTL

-----------------------------------------------------------------------------
(* The freed session.                                                      *)

\* The callbacks are off before the session can be freed.
Unhooked == release \notin {"Open", "Closing"} => ~cb_installed
FInv == FreedQuiet /\ Unhooked

\* Of all the actors only a callback that is in flight can reach a freed session.
LEMMA FreedStep ==
    ASSUME TInv, FInv, release = "Freed", [Next]_vars
    PROVE  \/ release' = "Freed" /\ Quiet' /\ ~cb_installed' /\ irq' = irq
           \/ release' = "Touched" /\ ~cb_installed' /\ irq # {}
<1> USE DEF Quiet, vars, life, rxv, txv, qv, net, ppp, evv, usr
<1>q. /\ release = "Freed" /\ rx = "Idle" /\ tx = "Idle" /\ xmit = "Idle" /\ ~rx_pending /\ ~tx_pending
      /\ ~cb_installed /\ ~chan_registered
  BY ZenonT(60) DEF FInv, FreedQuiet, Unhooked, TInv, QInv, Teardown
<1>1. CASE \/ sstp_rx_worker \/ sstp_demux_recv_once \/ sstp_demux_parse \/ RxParsed
           \/ sstp_handle_lcp_echo \/ RxEmit \/ RxClose
  BY ZenonT(60), <1>1, <1>q
  DEF sstp_rx_worker, sstp_demux_recv_once, sstp_demux_parse, RxParsed, sstp_handle_lcp_echo, RxEmit, RxClose,
      EventType
<1>2. CASE sstp_tx_worker \/ TxBatch \/ TxSent \/ TxAgain \/ TxRehead \/ TxFail \/ TxClose \/ TxWake \/ TxPushed
  BY ZenonT(60), <1>2, <1>q
  DEF sstp_tx_worker, TxBatch, TxSent, TxAgain, TxRehead, TxFail, TxClose, TxWake, TxPushed
<1>3. CASE PppOutput \/ sstp_chan_start_xmit \/ XmitTail
  BY ZenonT(60), <1>3, <1>q DEF PppOutput, sstp_chan_start_xmit, XmitTail
<1>4. CASE sstp_sk_write_space \/ (\E a \in PeerSends : sstp_sk_data_ready(a))
  BY ZenonT(60), <1>4, <1>q DEF sstp_sk_write_space, sstp_sk_data_ready, Callback
<1>5. CASE \E work \in {"rx", "tx", "tail"} : QueueWork(work)
  <2>1. release' = "Touched" BY ZenonT(60), <1>5, <1>q DEF QueueWork
  <2>2. UNCHANGED cb_installed /\ irq # {} BY ZenonT(60), <1>5 DEF QueueWork
  <2> QED BY ZenonT(60), <1>q, <2>1, <2>2
<1>6. CASE sstp_session_read \/ HandleEvent \/ SessionEnds \/ DETACH \/ apply_step
  BY ZenonT(60), <1>6, <1>q DEF sstp_session_read, HandleEvent, SessionEnds, DETACH, apply_step
<1>7. CASE SEND_CONTROL \/ SendDone \/ SendAgain \/ SendFail \/ SendClose
  BY ZenonT(60), <1>7, <1>q DEF SEND_CONTROL, SendDone, SendAgain, SendFail, SendClose
<1>8. CASE CloseFd \/ sstp_demux_remove_callback \/ sstp_demux_shutdown \/ sstp_session_release
  BY ZenonT(60), <1>8, <1>q DEF CloseFd, sstp_demux_remove_callback, sstp_demux_shutdown, sstp_session_release
<1>9. CASE Freed \/ UNCHANGED vars
  BY ZenonT(60), <1>9, <1>q DEF Freed
<1> QED BY ZenonT(60), <1>1, <1>2, <1>3, <1>4, <1>5, <1>6, <1>7, <1>8, <1>9 DEF Next

\* Until then the release goes on one step at a time, and frees the session last.
LEMMA ReleaseStep == ASSUME TInv, FInv, release # "Freed", [Next]_vars PROVE FInv'
<1> USE DEF FInv, FreedQuiet, Unhooked, Quiet, vars, life, rxv, txv, qv, net, ppp, evv, usr
<1>1. ASSUME UNCHANGED <<release, cb_installed>> PROVE FInv' BY ZenonT(60), <1>1
<1>2. CASE \/ sstp_rx_worker \/ sstp_demux_recv_once \/ sstp_demux_parse \/ RxParsed
           \/ sstp_handle_lcp_echo \/ RxEmit \/ RxClose
  BY ZenonT(60), <1>1, <1>2
  DEF sstp_rx_worker, sstp_demux_recv_once, sstp_demux_parse, RxParsed, sstp_handle_lcp_echo, RxEmit, RxClose
<1>3. CASE sstp_tx_worker \/ TxBatch \/ TxSent \/ TxAgain \/ TxRehead \/ TxFail \/ TxClose \/ TxWake \/ TxPushed
  BY ZenonT(60), <1>1, <1>3
  DEF sstp_tx_worker, TxBatch, TxSent, TxAgain, TxRehead, TxFail, TxClose, TxWake, TxPushed
<1>4. CASE \/ PppOutput \/ sstp_chan_start_xmit \/ XmitTail \/ sstp_sk_write_space
           \/ (\E a \in PeerSends : sstp_sk_data_ready(a)) \/ (\E work \in {"rx", "tx", "tail"} : QueueWork(work))
  BY ZenonT(60), <1>1, <1>4
  DEF PppOutput, sstp_chan_start_xmit, XmitTail, sstp_sk_write_space, sstp_sk_data_ready, QueueWork
<1>5. CASE \/ sstp_session_read \/ HandleEvent \/ SessionEnds \/ DETACH \/ apply_step
           \/ SEND_CONTROL \/ SendDone \/ SendAgain \/ SendFail \/ SendClose
  BY ZenonT(60), <1>1, <1>5
  DEF sstp_session_read, HandleEvent, SessionEnds, DETACH, apply_step, SEND_CONTROL, SendDone, SendAgain,
      SendFail, SendClose
<1>6. CASE CloseFd \/ sstp_demux_remove_callback
  BY ZenonT(60), <1>6 DEF CloseFd, sstp_demux_remove_callback
<1>7. CASE sstp_demux_shutdown
  BY ZenonT(60), <1>7 DEF sstp_demux_shutdown
<1>8. CASE sstp_session_release
  BY ZenonT(60), <1>8 DEF sstp_session_release, TInv, QInv, Teardown
<1>9. CASE Freed \/ UNCHANGED vars
  BY ZenonT(60), <1>1, <1>9 DEF Freed
<1> QED BY ZenonT(60), <1>2, <1>3, <1>4, <1>5, <1>6, <1>7, <1>8, <1>9 DEF Next

\* The invariant holds in every reachable state.
THEOREM FreedInvariant == Spec => [](TInv /\ FInv)
<1>1. Init => FInv BY ZenonT(60) DEF Init, FInv, FreedQuiet, Unhooked
<1>2. ASSUME TInv, FInv, [Next]_vars PROVE FInv'
  <2>1. CASE release = "Freed" BY ZenonT(60), <1>2, <2>1, FreedStep DEF FInv, FreedQuiet, Unhooked
  <2> QED BY ZenonT(60), <1>2, <2>1, ReleaseStep
<1> QED BY <1>1, <1>2, QueueInvariant, PTL DEF Spec

\* Neither a worker nor start_xmit runs on a freed session, or is queued for it.
THEOREM FreedLast == Spec => []FreedQuiet
<1>1. FInv => FreedQuiet BY DEF FInv
<1> QED BY <1>1, FreedInvariant, PTL

\* A session that is freed while no callback is in flight is never used again.
THEOREM NeverUsedAgain == Spec => FreedForGood
<1> DEFINE Alone == release = "Freed" /\ irq = {}
           Gone == release = "Freed" /\ irq = {} /\ Quiet
<1>1. FInv /\ Alone => Gone BY ZenonT(60) DEF FInv, FreedQuiet
<1>2. ASSUME TInv, FInv, Gone, [Next]_vars PROVE Gone'
  BY ZenonT(60), <1>2, FreedStep
<1>3. FreedForGood <=> [](Alone => []Gone) BY DEF FreedForGood
<1> HIDE DEF Alone, Gone
<1> QED BY <1>1, <1>2, <1>3, FreedInvariant, PTL DEF Spec

-----------------------------------------------------------------------------
(* The events: the inductive invariant.                                   *)

Sources == {"rx", "tx", "user"}
TxPc == {"Idle", "Top", "Send", "Rehead", "Fail", "Wake", "Pushing"}
UserPc == {"Select", "Reading", "Handling", "Send", "Sending", "Fail", "Gone"}

EventsType ==
    /\ ctrl_q \in 0..(SSTP_CTRL_Q_CAP - 1) /\ evt_dropped = 0
    /\ events \in Seq(EventType) /\ Len(events) < SSTP_EVENT_QUEUE_CAP /\ inbox \in Seq(EventType)
    /\ fatal \in [Sources -> 0..1]
PcType == rx \in RxPc /\ tx \in TxPc /\ user \in UserPc

\* Each source of FATAL events stops after its first.
FatalOnce ==
    /\ fatal["rx"] = 1 => rx = "SetClosing" \/ (rx = "Idle" /\ closing)
    /\ fatal["tx"] = 1 => tx = "Fail" \/ (tx \in {"Idle", "Top", "Wake", "Pushing"} /\ closing)
    /\ fatal["user"] = 1 => user \in {"Fail", "Gone"}

\* Events that were not handled: one for each stashed packet, and the FATAL ones.
Emitting == IF rx = "CONTROL_PACKET" THEN 1 ELSE 0
Fatals == fatal["rx"] + fatal["tx"] + fatal["user"]
EventRoom == Len(events) + Len(inbox) + Emitting <= ctrl_q + Fatals

\* ClosingExplained from the moment the event is emitted, before closing is set.
Told == \E s \in {inbox, events} : \E i \in 1..Len(s) : s[i] = "FATAL"
Explained ==
    (closing \/ rx = "SetClosing" \/ tx = "Fail") /\ ~detached /\ release = "Open" /\ user # "Gone" => Told

EInv == EventsType /\ PcType /\ FatalOnce /\ EventRoom /\ PacketPerEvent /\ Explained

-----------------------------------------------------------------------------
(* Facts about sequences of events.                                        *)

Fatal(q) == \E i \in 1..Len(q) : q[i] = "FATAL"

\* A sequence has finitely many control packets.
LEMMA ControlsType ==
    ASSUME NEW q \in Seq(EventType)
    PROVE  /\ IsFiniteSet({i \in 1..Len(q) : q[i] = "CONTROL_PACKET"})
           /\ Controls(q) \in Nat
<1>1. Len(q) \in Nat OBVIOUS
<1>2. IsFiniteSet(1..Len(q)) BY <1>1, FS_Interval
<1>3. {i \in 1..Len(q) : q[i] = "CONTROL_PACKET"} \in SUBSET (1..Len(q)) OBVIOUS
<1>4. IsFiniteSet({i \in 1..Len(q) : q[i] = "CONTROL_PACKET"}) BY ZenonT(60), <1>2, <1>3, FS_Subset
<1> QED BY <1>4, FS_CardinalityType DEF Controls

\* The empty sequence.
LEMMA EmptyFacts == Controls(<<>>) = 0 /\ ~Fatal(<<>>) /\ <<>> \in Seq(EventType) /\ Len(<<>>) = 0
<1>1. {i \in 1..Len(<<>>) : <<>>[i] = "CONTROL_PACKET"} = {} BY SMTT(40)
<1> QED BY <1>1, FS_EmptySet DEF Controls, Fatal

\* An event at the end.
LEMMA EventPushed ==
    ASSUME NEW q \in Seq(EventType), NEW e \in EventType
    PROVE  /\ Append(q, e) \in Seq(EventType) /\ Len(Append(q, e)) = Len(q) + 1 /\ Len(q) \in Nat
           /\ Controls(Append(q, e)) = Controls(q) + IF e = "CONTROL_PACKET" THEN 1 ELSE 0
           /\ Fatal(Append(q, e)) <=> Fatal(q) \/ e = "FATAL"
<1> DEFINE r == Append(q, e)
           C == {i \in 1..Len(q) : q[i] = "CONTROL_PACKET"}
           D == {i \in 1..Len(r) : r[i] = "CONTROL_PACKET"}
<1>1. /\ Len(q) \in Nat /\ r \in Seq(EventType) /\ Len(r) = Len(q) + 1
      /\ r[Len(q) + 1] = e /\ \A i \in 1..Len(q) : r[i] = q[i]
  OBVIOUS
<1> HIDE DEF r
<1>2. IsFiniteSet(C) /\ Cardinality(C) \in Nat BY ControlsType DEF Controls
<1>3. Len(q) + 1 \notin C BY <1>1
<1>4. Cardinality(D) = Cardinality(C) + IF e = "CONTROL_PACKET" THEN 1 ELSE 0
  <2>1. CASE e = "CONTROL_PACKET"
    <3>1. D = C \cup {Len(q) + 1} BY <1>1, <2>1
    <3> HIDE DEF C, D
    <3> QED BY ZenonT(60), <1>2, <1>3, <2>1, <3>1, FS_AddElement
  <2>2. CASE e # "CONTROL_PACKET"
    <3>1. D = C BY SMTT(40), <1>1, <2>2
    <3> HIDE DEF C, D
    <3> QED BY <1>2, <2>2, <3>1
  <2> QED BY ZenonT(60), <2>1, <2>2
<1>5. Fatal(r) <=> Fatal(q) \/ e = "FATAL"
  <2>1. 1..Len(r) = (1..Len(q)) \cup {Len(q) + 1} BY SMTT(40), <1>1
  <2> QED BY ZenonT(60), <1>1, <2>1 DEF Fatal
<1> QED BY ZenonT(60), <1>1, <1>4, <1>5 DEF r, Controls

\* The event at the head taken.
LEMMA EventPopped ==
    ASSUME NEW q \in Seq(EventType), q # <<>>
    PROVE  /\ Tail(q) \in Seq(EventType) /\ Len(Tail(q)) = Len(q) - 1 /\ Len(q) \in Nat \ {0}
           /\ Head(q) \in EventType
           /\ Controls(q) = Controls(Tail(q)) + IF Head(q) = "CONTROL_PACKET" THEN 1 ELSE 0
           /\ Fatal(q) <=> Fatal(Tail(q)) \/ Head(q) = "FATAL"
<1> DEFINE r == Tail(q)
           C == {i \in 1..Len(q) : q[i] = "CONTROL_PACKET"}
           D == {i \in 1..Len(r) : r[i] = "CONTROL_PACKET"}
<1>1. /\ Len(q) \in Nat \ {0} /\ r \in Seq(EventType) /\ Len(r) = Len(q) - 1
      /\ Head(q) = q[1] /\ Head(q) \in EventType /\ \A i \in 1..Len(r) : r[i] = q[i + 1]
  OBVIOUS
<1> HIDE DEF r
<1>2. IsFiniteSet(C) /\ Cardinality(C) \in Nat BY ControlsType DEF Controls
<1>3. IsFiniteSet(C \ {1}) /\ Cardinality(C \ {1}) = IF 1 \in C THEN Cardinality(C) - 1 ELSE Cardinality(C)
  <2> HIDE DEF C
  <2> QED BY <1>2, FS_RemoveElement
<1>4. Cardinality(D) = Cardinality(C \ {1})
  <2> DEFINE f == [i \in C \ {1} |-> i - 1]
  <2>1. f \in [C \ {1} -> D]
    <3>1. ASSUME NEW i \in C \ {1} PROVE i - 1 \in D
      <4>1. i \in 2..Len(q) /\ q[i] = "CONTROL_PACKET" BY SMTT(40), <1>1
      <4>2. i - 1 \in 1..Len(r) /\ (i - 1) + 1 = i BY SMTT(40), <1>1, <4>1
      <4> QED BY ZenonT(60), <1>1, <4>1, <4>2
    <3> QED BY ZenonT(60), <3>1
  <2>2. \A i, j \in C \ {1} : f[i] = f[j] => i = j BY SMTT(40), <1>1
  <2>3. ASSUME NEW j \in D PROVE \E i \in C \ {1} : f[i] = j
    <3>1. j \in 1..Len(r) /\ q[j + 1] = "CONTROL_PACKET" BY ZenonT(60), <1>1
    <3>2. j + 1 \in C \ {1} /\ (j + 1) - 1 = j BY SMTT(40), <1>1, <3>1
    <3> QED BY SMTT(40), <3>2
  <2>4. ExistsBijection(C \ {1}, D)
    <3> HIDE DEF f, C, D
    <3>1. f \in Injection(C \ {1}, D) BY <2>1, <2>2 DEF Injection, IsInjective
    <3>2. f \in Surjection(C \ {1}, D) BY <2>1, <2>3 DEF Surjection
    <3> QED BY ZenonT(60), <3>1, <3>2 DEF ExistsBijection, Bijection
  <2> HIDE DEF C, D
  <2> QED BY ZenonT(60), <1>3, <2>4, FS_Bijection
<1>5. 1 \in C <=> Head(q) = "CONTROL_PACKET" BY <1>1
<1>6. Cardinality(C) = Cardinality(D) + IF Head(q) = "CONTROL_PACKET" THEN 1 ELSE 0
  BY SMTT(40), <1>2, <1>3, <1>4, <1>5
<1>7. Fatal(q) <=> Fatal(r) \/ Head(q) = "FATAL"
  <2>1. ASSUME NEW i \in 1..Len(q), q[i] = "FATAL", i # 1 PROVE Fatal(r)
    <3>1. i - 1 \in 1..Len(r) /\ (i - 1) + 1 = i BY <1>1, <2>1
    <3> QED BY ZenonT(60), <1>1, <2>1, <3>1 DEF Fatal
  <2>2. ASSUME NEW i \in 1..Len(r), r[i] = "FATAL" PROVE Fatal(q)
    <3>1. i + 1 \in 1..Len(q) /\ q[i + 1] = "FATAL" BY <1>1, <2>2
    <3> QED BY <3>1 DEF Fatal
  <2>3. Head(q) = "FATAL" => Fatal(q) BY SMTT(40), <1>1 DEF Fatal
  <2> QED BY ZenonT(60), <1>1, <2>1, <2>2, <2>3 DEF Fatal
<1> QED BY ZenonT(60), <1>1, <1>6, <1>7 DEF r, Controls

-----------------------------------------------------------------------------
(* Steps that leave the events alone.                                      *)

\* Nothing is stashed, emitted, read or handled.
Silent == UNCHANGED <<ctrl_q, events, evt_dropped, fatal, inbox>>

\* What the actors' steps between two events look like to the invariant.
Aside ==
    /\ Silent /\ UNCHANGED <<rx, tx, user, closing, detached>>
    /\ release' = "Open" => release = "Open"
RxMoves ==
    /\ Silent /\ UNCHANGED <<tx, user, detached, release>>
    /\ \/ /\ UNCHANGED closing /\ rx \in {"Idle", "Recv", "Parse", "Echo"}
          /\ rx' \in {"Idle", "Recv", "Parse", "Echo", "FATAL"}
          /\ rx = "Idle" /\ closing => rx' = "Idle"
       \/ rx = "SetClosing" /\ rx' = "Idle" /\ closing'
TxMoves ==
    /\ Silent /\ UNCHANGED <<rx, user, detached, release>>
    /\ \/ /\ UNCHANGED closing /\ tx \in {"Send", "Rehead"} /\ tx' \in {"Top", "Rehead", "Wake"}
       \/ /\ UNCHANGED closing /\ tx \in {"Idle", "Top", "Wake", "Pushing"}
          /\ tx' \in {"Idle", "Top", "Wake", "Pushing", "Send"} /\ (closing => tx' # "Send")
       \/ tx = "Fail" /\ tx' = "Wake" /\ closing'
UserMoves ==
    /\ Silent /\ UNCHANGED <<rx, tx, release>>
    /\ \/ UNCHANGED <<closing, detached>> /\ user \notin {"Fail", "Gone"} /\ user' \in UserPc \ {"Fail"}
       \/ UNCHANGED detached /\ user = "Fail" /\ user' = "Gone" /\ closing'
       \/ UNCHANGED user /\ detached' /\ closing'

\* They keep the invariant.
LEMMA SilentKeeps ==
    ASSUME EInv, Aside \/ RxMoves \/ TxMoves \/ UserMoves
    PROVE  EInv'
<1>1. /\ UNCHANGED <<ctrl_q, events, evt_dropped, fatal, inbox>> /\ EventsType'
      /\ release' = "Open" => release = "Open"
  BY ZenonT(60) DEF EInv, EventsType, Silent, Aside, RxMoves, TxMoves, UserMoves
<1>2. PcType'
  BY DEF EInv, PcType, RxPc, EventType, TxPc, UserPc, Aside, RxMoves, TxMoves, UserMoves
<1>3. FatalOnce'
  <2>1. CASE Aside
    BY ZenonT(60), <1>1, <2>1 DEF EInv, FatalOnce, Aside
  <2>2. CASE RxMoves
    BY SMTT(40), <1>1, <2>2 DEF EInv, FatalOnce, RxMoves
  <2>3. CASE TxMoves
    BY SMTT(40), <1>1, <2>3 DEF EInv, FatalOnce, TxMoves
  <2>4. CASE UserMoves
    BY SMTT(40), <1>1, <2>4 DEF EInv, FatalOnce, UserMoves
  <2> QED BY ZenonT(60), <2>1, <2>2, <2>3, <2>4
<1>4. rx' = "CONTROL_PACKET" <=> rx = "CONTROL_PACKET"
  BY ZenonT(60) DEF Aside, RxMoves, TxMoves, UserMoves
<1>5. EventRoom' /\ PacketPerEvent'
  BY ZenonT(60), <1>1, <1>4 DEF EInv, EventRoom, Emitting, Fatals, PacketPerEvent
<1>6. Explained'
  <2>1. Told' <=> Told BY ZenonT(60), <1>1 DEF Told
  <2>2. CASE Aside
    BY ZenonT(60), <2>1, <2>2 DEF EInv, Explained, Aside
  <2>3. CASE RxMoves
    BY ZenonT(60), <2>1, <2>3 DEF EInv, Explained, RxMoves
  <2>4. CASE TxMoves
    BY ZenonT(60), <2>1, <2>4 DEF EInv, Explained, TxMoves
  <2>5. CASE UserMoves
    BY SMTT(40), <2>1, <2>5 DEF EInv, Explained, UserMoves
  <2> QED BY <2>2, <2>3, <2>4, <2>5
<1> QED BY ZenonT(60), <1>1, <1>2, <1>3, <1>5, <1>6 DEF EInv

\* The receive worker between two events.
LEMMA RxSilent ==
    ASSUME EInv, \/ sstp_rx_worker \/ sstp_demux_recv_once \/ RxParsed \/ sstp_handle_lcp_echo \/ RxClose
                 \/ sstp_demux_parse /\ UNCHANGED ctrl_q
    PROVE  RxMoves
<1> USE DEF Silent, RxMoves, life, rxv, txv, qv, net, ppp, evv, usr
<1>1. CASE sstp_rx_worker BY ZenonT(60), <1>1 DEF sstp_rx_worker
<1>2. CASE sstp_demux_recv_once BY ZenonT(60), <1>2 DEF sstp_demux_recv_once
<1>3. CASE RxParsed BY ZenonT(60), <1>3 DEF RxParsed, RxPassDone
<1>4. CASE sstp_handle_lcp_echo BY ZenonT(60), <1>4 DEF sstp_handle_lcp_echo
<1>5. CASE RxClose BY ZenonT(60), <1>5 DEF RxClose
<1>6. CASE sstp_demux_parse /\ UNCHANGED ctrl_q
  <2>1. ctrl_q + 1 # ctrl_q BY SMTT(40), KmodAssumption DEF EInv, EventsType
  <2>2. rx = "Parse" /\ (rx' = "Parse" \/ rx' = "Echo" \/ rx' = "FATAL")
    BY ZenonT(60), <1>6, <2>1 DEF sstp_demux_parse
  <2>3. Silent /\ UNCHANGED <<tx, user, detached, release, closing>>
    BY ZenonT(60), <1>6 DEF sstp_demux_parse
  <2> HIDE DEF Silent
  <2> QED BY ZenonT(60), <2>2, <2>3
<1> QED BY ZenonT(60), <1>1, <1>2, <1>3, <1>4, <1>5, <1>6

\* The transmit worker, but for a failure.
LEMMA TxSilent ==
    ASSUME EInv, \/ sstp_tx_worker \/ TxBatch \/ TxSent \/ TxAgain \/ TxRehead \/ TxClose \/ TxWake \/ TxPushed
    PROVE  TxMoves
<1> USE DEF Silent, TxMoves, life, rxv, txv, qv, net, ppp, evv, usr
<1>1. CASE sstp_tx_worker BY ZenonT(60), <1>1 DEF sstp_tx_worker
<1>2. CASE TxBatch BY ZenonT(60), <1>2 DEF TxBatch
<1>3. CASE TxSent BY ZenonT(60), <1>3 DEF TxSent
<1>4. CASE TxAgain BY ZenonT(60), <1>4 DEF TxAgain
<1>5. CASE TxRehead BY ZenonT(60), <1>5 DEF TxRehead
<1>6. CASE TxClose BY ZenonT(60), <1>6 DEF TxClose
<1>7. CASE TxWake BY ZenonT(60), <1>7 DEF TxWake
<1>8. CASE TxPushed BY ZenonT(60), <1>8 DEF TxPushed
<1> QED BY ZenonT(60), <1>1, <1>2, <1>3, <1>4, <1>5, <1>6, <1>7, <1>8

\* The daemon between two events.
LEMMA UserSilent ==
    ASSUME EInv, \/ SessionEnds \/ DETACH \/ apply_step \/ SEND_CONTROL \/ SendDone \/ SendAgain \/ SendClose
                 \/ (sstp_session_read /\ events = <<>>) \/ (HandleEvent /\ UNCHANGED inbox)
    PROVE  UserMoves
<1> USE DEF Silent, UserMoves, UserPc, life, rxv, txv, qv, net, ppp, evv, usr
<1>1. CASE SessionEnds \/ DETACH \/ apply_step BY ZenonT(60), <1>1 DEF SessionEnds, DETACH, apply_step
<1>2. CASE SEND_CONTROL BY ZenonT(60), <1>2 DEF SEND_CONTROL
<1>3. CASE SendDone \/ SendAgain \/ SendClose BY ZenonT(60), <1>3 DEF SendDone, SendAgain, SendClose
<1>4. CASE sstp_session_read /\ events = <<>> BY ZenonT(60), <1>4 DEF sstp_session_read
<1>5. CASE HandleEvent /\ UNCHANGED inbox
  <2>1. inbox # <<>> => Tail(inbox) # inbox
    <3>1. inbox \in Seq(EventType) BY ZenonT(60) DEF EInv, EventsType
    <3> QED BY SMTT(40), <3>1, EventPopped
  <2> QED BY ZenonT(60), <1>5, <2>1 DEF HandleEvent
<1> QED BY ZenonT(60), <1>1, <1>2, <1>3, <1>4, <1>5

\* start_xmit, the callbacks and the release.
LEMMA OthersSilent ==
    ASSUME \/ PppOutput \/ sstp_chan_start_xmit \/ XmitTail \/ sstp_sk_write_space
           \/ (\E a \in PeerSends : sstp_sk_data_ready(a)) \/ (\E work \in {"rx", "tx", "tail"} : QueueWork(work))
           \/ sstp_demux_remove_callback \/ sstp_demux_shutdown \/ sstp_session_release \/ Freed \/ UNCHANGED vars
    PROVE  Aside
<1> USE DEF Silent, Aside, vars, life, rxv, txv, qv, net, ppp, evv, usr
<1>1. CASE PppOutput \/ sstp_chan_start_xmit \/ XmitTail BY ZenonT(60), <1>1 DEF PppOutput, sstp_chan_start_xmit, XmitTail
<1>2. CASE sstp_sk_write_space BY ZenonT(60), <1>2 DEF sstp_sk_write_space
<1>3. CASE \E a \in PeerSends : sstp_sk_data_ready(a) BY ZenonT(60), <1>3 DEF sstp_sk_data_ready
<1>4. CASE \E work \in {"rx", "tx", "tail"} : QueueWork(work) BY ZenonT(60), <1>4 DEF QueueWork
<1>5. CASE sstp_demux_remove_callback BY ZenonT(60), <1>5 DEF sstp_demux_remove_callback
<1>6. CASE sstp_demux_shutdown BY ZenonT(60), <1>6 DEF sstp_demux_shutdown
<1>7. CASE sstp_session_release \/ Freed \/ UNCHANGED vars BY ZenonT(60), <1>7 DEF sstp_session_release, Freed
<1> QED BY ZenonT(60), <1>1, <1>2, <1>3, <1>4, <1>5, <1>6, <1>7

-----------------------------------------------------------------------------
(* Steps that stash, emit, read and handle events.                         *)

\* The invariant's numbers.
LEMMA Numbers ==
    ASSUME EInv
    PROVE  /\ Len(events) \in Nat /\ Len(inbox) \in Nat /\ ctrl_q \in Nat /\ Emitting \in 0..1
           /\ fatal["rx"] \in 0..1 /\ fatal["tx"] \in 0..1 /\ fatal["user"] \in 0..1
           /\ Controls(events) \in Nat /\ Controls(inbox) \in Nat
<1>1. events \in Seq(EventType) /\ inbox \in Seq(EventType) BY DEF EInv, EventsType
<1>2. Len(events) \in Nat /\ Len(inbox) \in Nat BY <1>1
<1>3. fatal["rx"] \in 0..1 /\ fatal["tx"] \in 0..1 /\ fatal["user"] \in 0..1
  BY DEF EInv, EventsType, Sources
<1>4. ctrl_q \in Nat BY KmodAssumption DEF EInv, EventsType
<1>5. Controls(events) \in Nat /\ Controls(inbox) \in Nat BY ZenonT(60), <1>1, ControlsType
<1>6. Emitting \in 0..1 BY DEF Emitting
<1> QED BY ZenonT(60), <1>2, <1>3, <1>4, <1>5, <1>6

\* A control packet finds a slot, and its event is as good as emitted.
LEMMA StashKeeps ==
    ASSUME EInv, sstp_demux_parse, ctrl_q' # ctrl_q
    PROVE  EInv'
<1>1. /\ rx = "Parse" /\ rx' = "CONTROL_PACKET" /\ ctrl_q' = ctrl_q + 1 /\ ctrl_q + 1 < SSTP_CTRL_Q_CAP
      /\ UNCHANGED <<tx, user, events, evt_dropped, fatal, inbox, closing, detached, release>>
  BY ZenonT(60) DEF sstp_demux_parse, life, txv, usr
<1>2. EventsType'
  <2>1. ctrl_q' \in 0..(SSTP_CTRL_Q_CAP - 1) BY SMTT(40), <1>1, Numbers, KmodAssumption
  <2> QED BY ZenonT(60), <1>1, <2>1 DEF EInv, EventsType
<1>3. PcType' BY ZenonT(60), <1>1 DEF EInv, PcType, RxPc, EventType
<1>4. FatalOnce' BY ZenonT(60), <1>1 DEF EInv, FatalOnce
<1>5. Emitting = 0 /\ Emitting' = 1 BY ZenonT(60), <1>1 DEF Emitting
<1>6. EventRoom'
  <2>1. Fatals \in Nat /\ Fatals' = Fatals BY SMTT(40), <1>1, Numbers DEF Fatals
  <2>2. Len(events) + Len(inbox) <= ctrl_q + Fatals BY SMTT(40), <1>5, Numbers DEF EInv, EventRoom
  <2>3. Len(events') = Len(events) /\ Len(inbox') = Len(inbox) BY ZenonT(60), <1>1
  <2> QED BY SMTT(40), <1>1, <1>5, <2>1, <2>2, <2>3, Numbers DEF EventRoom
<1>7. PacketPerEvent'
  <2>1. Controls(inbox') = Controls(inbox) /\ Controls(events') = Controls(events) BY ZenonT(60), <1>1
  <2>2. release = "Open" => ctrl_q = Controls(inbox) + Controls(events)
    BY SMTT(40), <1>1, Numbers DEF EInv, PacketPerEvent
  <2> QED BY ZenonT(60), <1>1, <2>1, <2>2, Numbers DEF PacketPerEvent
<1>8. Explained' BY ZenonT(60), <1>1 DEF EInv, Explained, Told
<1> QED BY <1>2, <1>3, <1>4, <1>6, <1>7, <1>8 DEF EInv

\* An emission finds room in the ring: the stashed packets and the three sources of FATAL
\* account for everything in it.
LEMMA Emitted ==
    ASSUME EInv, NEW src \in Sources, NEW type \in EventType, sstp_session_emit(src, type),
           type = "FATAL" => fatal[src] = 0, type # "FATAL" => rx = "CONTROL_PACKET"
    PROVE  /\ Len(events) + 1 < SSTP_EVENT_QUEUE_CAP
           /\ events' = Append(events, type) /\ evt_dropped' = 0
           /\ fatal' \in [Sources -> 0..1]
           /\ \A s \in Sources : fatal'[s] = IF s = src /\ type = "FATAL" THEN 1 ELSE fatal[s]
<1>1. Len(events) + 1 < SSTP_EVENT_QUEUE_CAP
  <2>1. ctrl_q \in 0..(SSTP_CTRL_Q_CAP - 1) BY ZenonT(60) DEF EInv, EventsType
  <2>0. Fatals \in 0..3 BY SMTT(40), Numbers DEF Fatals
  <2>2. Len(events) + Emitting <= ctrl_q + Fatals /\ Fatals \in 0..3
    BY SMTT(40), <2>0, Numbers DEF EInv, EventRoom
  <2>3. CASE type = "FATAL"
    <3>1. Fatals <= 2 BY SMTT(40), <2>3, Numbers DEF Fatals, Sources
    <3> QED BY SMTT(40), <2>1, <2>2, <3>1, Numbers, KmodAssumption
  <2>4. CASE type # "FATAL"
    <3>1. Emitting = 1 BY ZenonT(60), <2>4 DEF Emitting
    <3> QED BY SMTT(40), <2>1, <2>2, <3>1, Numbers, KmodAssumption
  <2> QED BY ZenonT(60), <2>3, <2>4
<1>2. events' = Append(events, type) /\ evt_dropped' = evt_dropped
  BY SMTT(40), <1>1, Numbers, KmodAssumption DEF sstp_session_emit
<1>3. fatal' = IF type = "FATAL" THEN [fatal EXCEPT ![src] = 1] ELSE fatal
  <2>1. fatal' = IF type = "FATAL" THEN [fatal EXCEPT ![src] = fatal[src] + 1] ELSE fatal
    BY DEF sstp_session_emit
  <2>2. type = "FATAL" => fatal[src] + 1 = 1 BY SMT
  <2> QED BY ZenonT(60), <2>1, <2>2
<1>4. fatal \in [Sources -> 0..1] /\ evt_dropped = 0 BY DEF EInv, EventsType
<1>5. /\ fatal' \in [Sources -> 0..1]
      /\ \A s \in Sources : fatal'[s] = IF s = src /\ type = "FATAL" THEN 1 ELSE fatal[s]
  BY <1>3, <1>4
<1> QED BY ZenonT(60), <1>1, <1>2, <1>4, <1>5

\* What every emission keeps, whoever it is by.
LEMMA EmitKeeps ==
    ASSUME EInv, NEW src \in Sources, NEW type \in EventType, sstp_session_emit(src, type),
           type = "FATAL" => fatal[src] = 0 /\ Emitting' = Emitting,
           type # "FATAL" => rx = "CONTROL_PACKET" /\ rx' # "CONTROL_PACKET",
           UNCHANGED <<ctrl_q, inbox, release>>
    PROVE  EventsType' /\ EventRoom' /\ PacketPerEvent' /\ (Told \/ type = "FATAL" => Told')
<1>1. /\ Len(events) + 1 < SSTP_EVENT_QUEUE_CAP
      /\ events' = Append(events, type) /\ evt_dropped' = 0
      /\ fatal' \in [Sources -> 0..1]
      /\ \A s \in Sources : fatal'[s] = IF s = src /\ type = "FATAL" THEN 1 ELSE fatal[s]
  BY ZenonT(60), Emitted
<1>2. events \in Seq(EventType) BY ZenonT(60) DEF EInv, EventsType
<1>3. /\ events' \in Seq(EventType) /\ Len(events') = Len(events) + 1
      /\ Controls(events') = Controls(events) + IF type = "CONTROL_PACKET" THEN 1 ELSE 0
      /\ Fatal(events') <=> Fatal(events) \/ type = "FATAL"
  BY ZenonT(60), <1>1, <1>2, EventPushed
<1>4. EventsType' BY ZenonT(60), <1>1, <1>3 DEF EInv, EventsType
<1>5. Len(inbox') = Len(inbox) /\ Controls(inbox') = Controls(inbox) BY ZenonT(60)
<1>6. \/ type = "FATAL" /\ Emitting' = Emitting /\ Fatals' = Fatals + 1
      \/ type = "CONTROL_PACKET" /\ Emitting = 1 /\ Emitting' = 0 /\ Fatals' = Fatals
  <2>1. CASE type = "FATAL"
    BY SMTT(40), <1>1, <2>1, Numbers DEF Sources, Fatals
  <2>2. CASE type # "FATAL"
    <3>1. fatal'["rx"] = fatal["rx"] /\ fatal'["tx"] = fatal["tx"] /\ fatal'["user"] = fatal["user"]
      BY ZenonT(60), <1>1, <2>2 DEF Sources
    <3> QED BY ZenonT(60), <2>2, <3>1 DEF EventType, Emitting, Fatals
  <2> QED BY ZenonT(60), <2>1, <2>2
<1>7. Fatals \in Nat BY SMTT(40), Numbers DEF Fatals
<1>8. EventRoom'
  <2>1. Len(events) + Len(inbox) + Emitting <= ctrl_q + Fatals BY ZenonT(60) DEF EInv, EventRoom
  <2> QED BY SMTT(40), <1>3, <1>5, <1>6, <1>7, <2>1, Numbers DEF EventRoom
<1>9. PacketPerEvent'
  <2>1. SUFFICES ASSUME release = "Open" PROVE ctrl_q = Controls(inbox') + Controls(events') + Emitting'
    BY ZenonT(60) DEF PacketPerEvent, Emitting
  <2>2. ctrl_q = Controls(inbox) + Controls(events) + Emitting
    BY ZenonT(60), <2>1 DEF EInv, PacketPerEvent, Emitting
  <2> QED BY SMTT(40), <1>3, <1>5, <1>6, <2>2, Numbers DEF EventType
<1>10. Told \/ type = "FATAL" => Told' BY <1>3 DEF Told, Fatal
<1> QED BY ZenonT(60), <1>4, <1>8, <1>9, <1>10

\* The three places that emit.
LEMMA EmittersKeep ==
    ASSUME EInv, RxEmit \/ TxFail \/ SendFail
    PROVE  EInv'
<1> USE DEF life, rxv, txv, qv, net, ppp, usr
<1>1. "FATAL" \in EventType /\ Sources = {"rx", "tx", "user"} BY DEF EventType, Sources
<1>2. \A s \in Sources : fatal[s] \in 0..1 BY DEF EInv, EventsType
<1>3. CASE RxEmit
  <2>1. /\ rx \in EventType /\ sstp_session_emit("rx", rx)
        /\ rx' = IF rx = "CONTROL_PACKET" THEN "Parse" ELSE "SetClosing"
        /\ UNCHANGED <<ctrl_q, inbox, release, tx, user, closing, detached>>
    BY ZenonT(60), <1>3 DEF RxEmit
  <2>2. rx = "FATAL" => fatal["rx"] = 0 /\ Emitting' = Emitting
    BY SMTT(40), <1>1, <1>2, <2>1 DEF EInv, FatalOnce, Emitting
  <2>3. rx # "FATAL" => rx = "CONTROL_PACKET" /\ rx' # "CONTROL_PACKET" BY ZenonT(60), <2>1 DEF EventType
  <2>4. EventsType' /\ EventRoom' /\ PacketPerEvent' /\ (Told \/ rx = "FATAL" => Told')
    BY ZenonT(60), <1>1, <2>1, <2>2, <2>3, EmitKeeps
  <2>5. \A s \in Sources : fatal'[s] = IF s = "rx" /\ rx = "FATAL" THEN 1 ELSE fatal[s]
    BY ZenonT(60), <1>1, <2>1, <2>2, <2>3, Emitted
  <2>6. PcType' BY ZenonT(60), <2>1 DEF EInv, PcType, RxPc
  <2>7. FatalOnce' BY ZenonT(60), <1>1, <2>1, <2>3, <2>5 DEF EInv, FatalOnce
  <2>8. Explained' BY ZenonT(60), <2>1, <2>3, <2>4 DEF EInv, Explained
  <2> QED BY ZenonT(60), <2>4, <2>6, <2>7, <2>8 DEF EInv
<1>4. CASE TxFail
  <2>1. /\ tx = "Send" /\ tx' = "Fail" /\ sstp_session_emit("tx", "FATAL")
        /\ UNCHANGED <<ctrl_q, inbox, release, rx, user, closing, detached>>
    BY ZenonT(60), <1>4 DEF TxFail
  <2>2. fatal["tx"] = 0 /\ Emitting' = Emitting BY SMTT(40), <1>1, <1>2, <2>1 DEF EInv, FatalOnce, Emitting
  <2>3. EventsType' /\ EventRoom' /\ PacketPerEvent' /\ Told'
    BY ZenonT(60), <1>1, <2>1, <2>2, EmitKeeps
  <2>4. \A s \in Sources : fatal'[s] = IF s = "tx" THEN 1 ELSE fatal[s]
    BY SMTT(40), <1>1, <2>1, <2>2, Emitted
  <2>5. PcType' BY ZenonT(60), <2>1 DEF EInv, PcType, TxPc
  <2>6. FatalOnce' BY ZenonT(60), <1>1, <2>1, <2>4 DEF EInv, FatalOnce
  <2> QED BY ZenonT(60), <2>3, <2>5, <2>6 DEF EInv, Explained
<1>5. CASE SendFail
  <2>1. /\ user = "Sending" /\ user' = "Fail" /\ sstp_session_emit("user", "FATAL")
        /\ UNCHANGED <<ctrl_q, inbox, release, rx, tx, closing, detached>>
    BY ZenonT(60), <1>5 DEF SendFail
  <2>2. fatal["user"] = 0 /\ Emitting' = Emitting BY SMTT(40), <1>1, <1>2, <2>1 DEF EInv, FatalOnce, Emitting
  <2>3. EventsType' /\ EventRoom' /\ PacketPerEvent' /\ Told'
    BY ZenonT(60), <1>1, <2>1, <2>2, EmitKeeps
  <2>4. \A s \in Sources : fatal'[s] = IF s = "user" THEN 1 ELSE fatal[s]
    BY ZenonT(60), <1>1, <2>1, <2>2, Emitted
  <2>5. PcType' BY ZenonT(60), <2>1 DEF EInv, PcType, UserPc
  <2>6. FatalOnce' BY ZenonT(60), <1>1, <2>1, <2>4 DEF EInv, FatalOnce
  <2> QED BY <2>3, <2>5, <2>6 DEF EInv, Explained
<1> QED BY SMTT(40), <1>3, <1>4, <1>5

\* read() takes the oldest event of the ring.
LEMMA ReadKeeps ==
    ASSUME EInv, sstp_session_read, events # <<>>
    PROVE  EInv'
<1>1. /\ user' = "Reading" /\ user \in {"Reading", "Select"}
      /\ inbox' = Append(inbox, Head(events)) /\ events' = Tail(events)
      /\ UNCHANGED <<ctrl_q, evt_dropped, fatal, rx, tx, closing, detached, release>>
  BY DEF sstp_session_read, life, rxv, txv
<1>2. events \in Seq(EventType) /\ inbox \in Seq(EventType) /\ Len(events) < SSTP_EVENT_QUEUE_CAP
  BY ZenonT(60) DEF EInv, EventsType
<1> DEFINE e == Head(events)
           one == IF e = "CONTROL_PACKET" THEN 1 ELSE 0
<1>3. /\ e \in EventType /\ events' \in Seq(EventType) /\ Len(events') = Len(events) - 1
      /\ Len(events) \in Nat \ {0} /\ Controls(events) = Controls(events') + one
      /\ Fatal(events) <=> Fatal(events') \/ e = "FATAL"
  BY ZenonT(60), <1>1, <1>2, EventPopped
<1>4. /\ inbox' \in Seq(EventType) /\ Len(inbox') = Len(inbox) + 1
      /\ Controls(inbox') = Controls(inbox) + one
      /\ Fatal(inbox') <=> Fatal(inbox) \/ e = "FATAL"
  BY ZenonT(60), <1>1, <1>2, <1>3, EventPushed
<1>5. one \in 0..1 /\ Controls(events') \in Nat
  <2>1. Controls(events') \in Nat BY ZenonT(60), <1>3, ControlsType
  <2> QED BY SMTT(40), <2>1
<1> HIDE DEF e, one
<1>6. EventsType'
  <2>1. Len(events') < SSTP_EVENT_QUEUE_CAP BY SMTT(40), <1>2, <1>3, KmodAssumption
  <2> QED BY <1>1, <1>3, <1>4, <2>1 DEF EInv, EventsType
<1>7. PcType' /\ FatalOnce' BY ZenonT(60), <1>1 DEF EInv, PcType, UserPc, FatalOnce
<1>8. EventRoom'
  <2>1. Emitting' = Emitting /\ Fatals' = Fatals BY ZenonT(60), <1>1 DEF Emitting, Fatals
  <2>2. Len(events') + Len(inbox') = Len(events) + Len(inbox) BY SMTT(40), <1>3, <1>4, Numbers
  <2> QED BY ZenonT(60), <1>1, <2>1, <2>2 DEF EInv, EventRoom
<1>9. PacketPerEvent'
  <2>1. Controls(inbox') + Controls(events') = Controls(inbox) + Controls(events)
    BY SMTT(40), <1>3, <1>4, <1>5, Numbers
  <2> QED BY ZenonT(60), <1>1, <2>1 DEF EInv, PacketPerEvent
<1>10. Explained'
  <2>1. Told => Told' BY SMTT(40), <1>3, <1>4 DEF Told, Fatal
  <2> QED BY ZenonT(60), <1>1, <2>1 DEF EInv, Explained
<1> QED BY ZenonT(60), <1>6, <1>7, <1>8, <1>9, <1>10 DEF EInv

\* The daemon takes the packet of a CONTROL_PACKET event, which is there.
LEMMA HandleKeeps ==
    ASSUME EInv, HandleEvent, inbox' # inbox
    PROVE  EInv'
<1>1. /\ user = "Handling" /\ user' \in {"Handling", "Gone"} /\ inbox # <<>> /\ Head(inbox) = "CONTROL_PACKET"
      /\ inbox' = Tail(inbox) /\ ctrl_q' = IF ctrl_q > 0 THEN ctrl_q - 1 ELSE 0
      /\ UNCHANGED <<events, evt_dropped, fatal, rx, tx, closing, detached, release>>
  BY DEF HandleEvent, life, rxv, txv
<1>2. inbox \in Seq(EventType) BY ZenonT(60) DEF EInv, EventsType
<1>3. /\ inbox' \in Seq(EventType) /\ Len(inbox') = Len(inbox) - 1 /\ Len(inbox) \in Nat \ {0}
      /\ Controls(inbox) = Controls(inbox') + 1
      /\ Fatal(inbox) <=> Fatal(inbox')
  BY ZenonT(60), <1>1, <1>2, EventPopped
<1>4. Controls(inbox') \in Nat BY ZenonT(60), <1>3, ControlsType
<1>5. EventsType'
  <2>1. ctrl_q' \in 0..(SSTP_CTRL_Q_CAP - 1) BY SMTT(40), <1>1, KmodAssumption DEF EInv, EventsType
  <2> QED BY ZenonT(60), <1>1, <1>3, <2>1 DEF EInv, EventsType
<1>6. PcType' /\ FatalOnce' BY ZenonT(60), <1>1 DEF EInv, PcType, UserPc, FatalOnce
<1>7. EventRoom'
  <2>1. Emitting' = Emitting /\ Fatals' = Fatals /\ Len(events') = Len(events) BY <1>1 DEF Emitting, Fatals
  <2>2. Fatals \in Nat BY Numbers DEF Fatals
  <2>3. Len(events) + Len(inbox) + Emitting <= ctrl_q + Fatals BY ZenonT(60) DEF EInv, EventRoom
  <2>4. ctrl_q' >= ctrl_q - 1 /\ ctrl_q' \in Nat BY SMTT(40), <1>1, Numbers
  <2> QED BY SMTT(40), <1>3, <2>1, <2>2, <2>3, <2>4, Numbers DEF EventRoom
<1>8. PacketPerEvent'
  <2>1. SUFFICES ASSUME release = "Open" PROVE ctrl_q' = Controls(inbox') + Controls(events') + Emitting'
    BY <1>1 DEF PacketPerEvent, Emitting
  <2>2. ctrl_q = Controls(inbox) + Controls(events) + Emitting
    BY ZenonT(60), <2>1 DEF EInv, PacketPerEvent, Emitting
  <2>3. Emitting' = Emitting /\ Controls(events') = Controls(events) BY ZenonT(60), <1>1 DEF Emitting
  <2>4. ctrl_q > 0 BY SMTT(40), <1>3, <1>4, <2>2, Numbers
  <2>5. ctrl_q' = ctrl_q - 1 BY ZenonT(60), <1>1, <2>4
  <2> QED BY SMTT(40), <1>3, <1>4, <2>2, <2>3, <2>5, Numbers
<1>9. Explained'
  <2>1. Told' <=> Told BY ZenonT(60), <1>1, <1>3 DEF Told, Fatal
  <2> QED BY ZenonT(60), <1>1, <2>1 DEF EInv, Explained
<1> QED BY ZenonT(60), <1>5, <1>6, <1>7, <1>8, <1>9 DEF EInv

\* The last close forgets what was not read.
LEMMA CloseKeeps == ASSUME EInv, CloseFd PROVE EInv'
<1>1. /\ release' = "Closing" /\ closing' /\ events' = <<>> /\ inbox' = <<>>
      /\ UNCHANGED <<ctrl_q, evt_dropped, fatal, rx, tx, user>>
  BY ZenonT(60) DEF CloseFd, rxv, txv
<1>2. EventsType'
  <2>1. /\ events' \in Seq(EventType) /\ inbox' \in Seq(EventType)
        /\ Len(events') < SSTP_EVENT_QUEUE_CAP
    BY SMTT(40), <1>1, EmptyFacts, KmodAssumption
  <2> QED BY ZenonT(60), <1>1, <2>1 DEF EInv, EventsType
<1>3. PcType' /\ FatalOnce' BY ZenonT(60), <1>1 DEF EInv, PcType, FatalOnce
<1>4. EventRoom'
  <2>1. Emitting' = Emitting /\ Fatals' = Fatals BY ZenonT(60), <1>1 DEF Emitting, Fatals
  <2>2. Fatals \in Nat BY SMTT(40), Numbers DEF Fatals
  <2>3. Len(events) + Len(inbox) + Emitting <= ctrl_q + Fatals BY DEF EInv, EventRoom
  <2>4. Len(events') = 0 /\ Len(inbox') = 0 BY ZenonT(60), <1>1, EmptyFacts
  <2> QED BY SMTT(40), <1>1, <2>1, <2>2, <2>3, <2>4, Numbers DEF EventRoom
<1>5. PacketPerEvent' /\ Explained' BY <1>1 DEF PacketPerEvent, Explained
<1> QED BY ZenonT(60), <1>2, <1>3, <1>4, <1>5 DEF EInv

-----------------------------------------------------------------------------
(* Every step keeps the invariant.                                         *)

\* Initially nothing is stashed or emitted.
LEMMA EventsInit == Init => EInv
<1> SUFFICES ASSUME Init PROVE EInv BY ZenonT(60)
<1>1. EventsType BY SMTT(40), EmptyFacts, KmodAssumption DEF Init, EventsType, Sources
<1>2. PcType /\ FatalOnce BY SMTT(40) DEF Init, PcType, RxPc, TxPc, UserPc, FatalOnce
<1>3. EventRoom BY SMTT(40), EmptyFacts DEF Init, EventRoom, Emitting, Fatals
<1>4. PacketPerEvent BY SMTT(40), EmptyFacts DEF Init, PacketPerEvent
<1>5. Explained BY ZenonT(60) DEF Init, Explained
<1> QED BY SMTT(40), <1>1, <1>2, <1>3, <1>4, <1>5 DEF EInv

\* The actors' steps, by what they do to the events.
LEMMA EventsNext == ASSUME EInv, [Next]_vars PROVE EInv'
<1>1. CASE sstp_rx_worker \/ sstp_demux_recv_once \/ RxParsed \/ sstp_handle_lcp_echo \/ RxClose
  BY ZenonT(60), <1>1, RxSilent, SilentKeeps
<1>2. CASE sstp_demux_parse
  BY ZenonT(60), <1>2, RxSilent, SilentKeeps, StashKeeps
<1>3. CASE sstp_tx_worker \/ TxBatch \/ TxSent \/ TxAgain \/ TxRehead \/ TxClose \/ TxWake \/ TxPushed
  BY ZenonT(60), <1>3, TxSilent, SilentKeeps
<1>4. CASE SessionEnds \/ DETACH \/ apply_step \/ SEND_CONTROL \/ SendDone \/ SendAgain \/ SendClose
  BY ZenonT(60), <1>4, UserSilent, SilentKeeps
<1>5. CASE sstp_session_read
  BY ZenonT(60), <1>5, UserSilent, SilentKeeps, ReadKeeps
<1>6. CASE HandleEvent
  BY ZenonT(60), <1>6, UserSilent, SilentKeeps, HandleKeeps
<1>7. CASE RxEmit \/ TxFail \/ SendFail
  BY <1>7, EmittersKeep
<1>8. CASE CloseFd
  BY SMTT(40), <1>8, CloseKeeps
<1>9. CASE \/ PppOutput \/ sstp_chan_start_xmit \/ XmitTail \/ sstp_sk_write_space
           \/ (\E a \in PeerSends : sstp_sk_data_ready(a)) \/ (\E work \in {"rx", "tx", "tail"} : QueueWork(work))
           \/ sstp_demux_remove_callback \/ sstp_demux_shutdown \/ sstp_session_release \/ Freed \/ UNCHANGED vars
  BY <1>9, OthersSilent, SilentKeeps
<1> QED BY ZenonT(60), <1>1, <1>2, <1>3, <1>4, <1>5, <1>6, <1>7, <1>8, <1>9 DEF Next

\* The invariant holds in every reachable state.
THEOREM EventsInvariant == Spec => []EInv
BY EventsInit, EventsNext, PTL DEF Spec

\* With room for the control queue's events and one more from each source, sstp_session_emit
\* never drops an event.
THEOREM NoEventDropped == Spec => []EventsNeverDropped
<1>1. EInv => EventsNeverDropped BY SMTT(40) DEF EInv, EventsType, EventsNeverDropped
<1> QED BY <1>1, EventsInvariant, PTL

\* The control queue holds exactly the packets of the events that were not handled.
THEOREM PacketsMatchEvents == Spec => []PacketPerEvent
<1>1. EInv => PacketPerEvent BY ZenonT(60) DEF EInv
<1> QED BY <1>1, EventsInvariant, PTL

\* Whichever actor sets `closing`, the daemon has been or will be told why.
THEOREM ClosingIsExplained == Spec => []ClosingExplained
<1>1. EInv => ClosingExplained BY DEF EInv, Explained, Told, ClosingExplained
<1> QED BY <1>1, EventsInvariant, PTL

\* The variables keep their types: among others, no source emits two FATAL events and a
\* batch never exceeds the arrays of sstp_tx_worker.
THEOREM TypeCorrect == Spec => []TypeOK
<1>1. ASSUME EInv, TInv PROVE TypeOK
  <2>1. evt_dropped \in 0..1 BY <1>1 DEF EInv, EventsType
  <2> QED
    BY ZenonT(60), <1>1, <2>1
    DEF EInv, EventsType, PcType, Sources, TxPc, UserPc, TInv, QInv, QueueType, BufferType, CountType,
        LifeType, TypeOK
<1> QED BY <1>1, EventsInvariant, QueueInvariant, PTL
=============================================================================

------------------------------- MODULE PppLink -------------------------------
(***************************************************************************)
(* The PPP side of one session: the driver of src/src/ppp/driver.rs (LCP,  *)
(* authentication, IPCP) and `handle_ppp_step` of src/src/session.rs, which*)
(* writes its frames, keeps its one restart-timer slot, asks RADIUS and    *)
(* brings up the data path.                                                *)
(*                                                                         *)
(* The peer may send any packet at any time.  RADIUS is awaited inside the *)
(* handler, so credentials and verdict are one step.  An accept is named   *)
(* by its number: it stands for the user, the address and the policy that  *)
(* came with it.  Timer expiry needs no clock: an armed timer may fire.    *)
(***************************************************************************)
EXTENDS PppFsm

CONSTANTS
    AuthMethod,      \* "Pap", "ChapMd5" or "MsChapV2"
    MaxAccepts       \* bound: RADIUS accepts over the life of the session

ASSUME LinkAssumption ==
    AuthMethod \in {"Pap", "ChapMd5", "MsChapV2"} /\ MaxAccepts \in Nat \ {0}

VARIABLES
    phase,           \* Ppp.phase ("None" before StartPpp)
    lcp, lcp_opened, \* LcpServer.fsm, LcpServer.opened
    ipcp, ipcp_opened, \* Option<IpcpServer>: None is NoIpcp
    ppp_timer,       \* owner of the armed slot, or "None"
    kppp,            \* the data path: "None", "Tun" or "Kernel"
    accepts,         \* RADIUS accepts so far
    pending_username,\* accept waiting for NetworkUp, 0 if none
    acct_state,      \* accept the accounting Start was sent for, 0 if none
    ended,           \* handle_ppp_step returned false: why
    libssl_write,    \* the last step wrote a PPP frame through libssl (history)
    unanswered,      \* requests sent since the peer was last heard (history)
    heard            \* the last step was a packet of the peer (history)

automata == <<lcp, lcp_opened, ipcp, ipcp_opened>>
account == <<accepts, pending_username, acct_state>>
vars == <<phase, automata, ppp_timer, kppp, account, ended, libssl_write, unanswered, heard>>

NoIpcp == [state |-> "None", restart_counter |-> 0]
Running == ended = "No"
Requests(acts) == IF {"scr", "str"} \cap acts # {} THEN 1 ELSE 0

\* render_send and render_ipcp_send emit a frame for these; Code-Reject is dropped.
Rendered(acts) == {"scr", "sca", "scn", "str", "sta", "ser"} \cap acts # {}

\* Mutant: a cancelled restart timer stays in the slot.
Slot_no_stop(slot, owner, acts) == IF "start" \in acts THEN owner ELSE slot

\* handle_ppp_step, the slot: stops apply to their own owner, a start takes the slot over.
Slot(slot, owner, acts) ==
    LET kept == IF "stop" \in acts /\ slot = owner THEN "None" ELSE slot
    IN  IF "start" \in acts THEN owner ELSE kept

-----------------------------------------------------------------------------
\* handle_ppp_step, the frames and the flags: a write that fails ends the session before
\* the slot is updated; `finished` ends it afterwards.
Finish(frames, slot, owner, acts, finished) ==
    /\ libssl_write' = frames
    /\ \/ /\ ppp_timer' = Slot(slot, owner, acts)
          /\ ended' = IF finished THEN "Finished" ELSE "No"
       \/ frames /\ ppp_timer' = slot /\ ended' = "WriteFailed"

\* Mutant: This-Layer-Down leaves the flag up.
LcpOpened_sticky(acts) == lcp_opened \/ "tlu" \in acts

\* LcpServer.opened after the automaton's notifications.
LcpOpened(acts) == (lcp_opened \/ "tlu" \in acts) /\ "tld" \notin acts

\* render_lcp_step for event e, with the slot as the select arm left it.
LcpStep(e, slot) ==
    LET acts == actions(lcp, e)
        up == "tlu" \in acts /\ ~lcp_opened
        challenge == up /\ AuthMethod # "Pap"
    IN  /\ lcp' = step(lcp, e)
        /\ lcp_opened' = LcpOpened(acts)
        /\ phase' = CASE "tlf" \in acts            -> "Dead"
                      [] up                        -> "AuthPending"
                      [] ~up /\ "tlf" \notin acts  -> phase
        /\ Finish(Rendered(acts) \/ challenge, slot, "Lcp", acts, "tlf" \in acts)
        /\ UNCHANGED <<ipcp, ipcp_opened, kppp, account>>

\* Mutant: the data path comes up and the accounting session is not opened.
NetworkUp_no_account ==
    /\ ended' = "No" /\ UNCHANGED account
    /\ kppp' \in IF kppp = "None" THEN {"Tun", "Kernel"} ELSE {kppp}

\* NetworkUp: the first one brings the data path up (TUN, or kTLS and the kernel module)
\* and opens the accounting session; a later one is spurious.
NetworkUp ==
    \/ kppp # "None" /\ ended' = "No" /\ UNCHANGED <<kppp, account>>
    \/ /\ kppp = "None" /\ ended' = "No"
       /\ kppp' \in {"Tun", "Kernel"}
       /\ acct_state' = pending_username /\ pending_username' = 0
       /\ UNCHANGED accepts
    \/ kppp = "None" /\ ended' = "BringUpFailed" /\ UNCHANGED <<kppp, account>>

\* render_ipcp_step for event e.
IpcpStep(e, slot) ==
    LET acts == actions(ipcp, e)
        up == "tlu" \in acts /\ ~ipcp_opened
    IN  /\ ipcp' = step(ipcp, e)
        /\ ipcp_opened' = (ipcp_opened \/ up)
        /\ \/ /\ up
              /\ libssl_write' = Rendered(acts)
              /\ ppp_timer' = Slot(slot, "Ipcp", acts)
              /\ NetworkUp
           \/ /\ up /\ Rendered(acts)
              /\ libssl_write' = TRUE /\ ppp_timer' = slot /\ ended' = "WriteFailed"
              /\ UNCHANGED <<kppp, account>>
           \/ /\ ~up
              /\ Finish(Rendered(acts), slot, "Ipcp", acts, "tlf" \in acts)
              /\ UNCHANGED <<kppp, account>>
        /\ UNCHANGED <<lcp, lcp_opened, phase>>

-----------------------------------------------------------------------------
Init ==
    /\ phase = "None" /\ lcp = new /\ lcp_opened = FALSE /\ ipcp = NoIpcp /\ ipcp_opened = FALSE
    /\ ppp_timer = "None" /\ kppp = "None"
    /\ accepts = 0 /\ pending_username = 0 /\ acct_state = 0
    /\ ended = "No" /\ libssl_write = FALSE /\ unanswered = 0 /\ heard = FALSE

\* StartPpp in handle_sstp_step: Ppp::new and Ppp::open.
open ==
    /\ Running /\ phase = "None"
    /\ phase' = "Establish"
    /\ lcp' = opened
    /\ Finish(TRUE, ppp_timer, "Lcp", {"start"}, FALSE)
    /\ unanswered' = 1 /\ heard' = FALSE
    /\ UNCHANGED <<lcp_opened, ipcp, ipcp_opened, kppp, account>>

\* Frames reach the driver through the TLS read arm, which the kernel path shuts.
Reading == Running /\ phase # "None" /\ kppp # "Kernel"

\* The count of unanswered requests, capped one past the budget.
Unanswered(acts) ==
    unanswered' = IF unanswered > MAX_CONFIGURE THEN unanswered ELSE unanswered + Requests(acts)

Heard(acts) == unanswered' = Requests(acts) /\ heard' = TRUE

\* RXR is an Echo-Request; an Echo-Reply or Discard-Request renders nothing and is a discard.
LcpPacket == {"RCR+", "RCR-", "RCA", "RCN", "RTR", "RTA", "RXJ+", "RUC", "RXR"}
IpcpPacket == LcpPacket \ {"RXR"}

handle_lcp(e) == Reading /\ LcpStep(e, ppp_timer) /\ Heard(actions(lcp, e))

handle_ipcp(e) ==
    Reading /\ phase = "Network" /\ IpcpStep(e, ppp_timer) /\ Heard(actions(ipcp, e))

\* Credentials arrive: handle_pap, or handle_chap, whose challenge went out with LCP's tlu.
Credentials == Reading /\ phase = "AuthPending"

\* Mutant: the name of the first accept is kept when the peer authenticates again.
on_auth_accept_keeps_first ==
    /\ Credentials /\ accepts < MaxAccepts
    /\ accepts' = accepts + 1
    /\ pending_username' = IF pending_username = 0 THEN accepts + 1 ELSE pending_username
    /\ phase' = "Network" /\ ipcp' = opened /\ ipcp_opened' = FALSE
    /\ Finish(TRUE, ppp_timer, "Ipcp", {"start"}, FALSE)
    /\ unanswered' = 1 /\ heard' = TRUE
    /\ UNCHANGED <<lcp, lcp_opened, kppp, acct_state>>

\* advance_to_network: an accept starts a fresh IPCP.
on_auth_accept ==
    /\ Credentials /\ accepts < MaxAccepts
    /\ accepts' = accepts + 1 /\ pending_username' = accepts + 1
    /\ phase' = "Network" /\ ipcp' = opened /\ ipcp_opened' = FALSE
    /\ Finish(TRUE, ppp_timer, "Ipcp", {"start"}, FALSE)
    /\ unanswered' = 1 /\ heard' = TRUE
    /\ UNCHANGED <<lcp, lcp_opened, kppp, acct_state>>

\* tear_down_after_reject: the refusal and LCP's Terminate-Request, then the session ends.
on_auth_reject ==
    /\ Credentials
    /\ phase' = "Dead"
    /\ lcp' = step(lcp, "Close") /\ lcp_opened' = LcpOpened(actions(lcp, "Close"))
    /\ Finish(TRUE, ppp_timer, "Lcp", actions(lcp, "Close"), TRUE)
    /\ Heard(actions(lcp, "Close"))
    /\ UNCHANGED <<ipcp, ipcp_opened, kppp, account>>

\* protocol_reject for a protocol the driver does not speak, and every frame it drops: IP
\* before the data path is up (np_filter_decide), authentication or IPCP out of phase.
protocol_reject ==
    /\ Reading
    /\ Finish(lcp_opened, ppp_timer, "Lcp", {}, FALSE)
    /\ Heard({})
    /\ UNCHANGED <<phase, automata, kppp, account>>

discard ==
    /\ Reading
    /\ Finish(FALSE, ppp_timer, "Lcp", {}, FALSE)
    /\ Heard({})
    /\ UNCHANGED <<phase, automata, kppp, account>>

\* The PppTimer arm: the slot is emptied by take() before on_timer runs.
on_timer ==
    /\ Running /\ heard' = FALSE
    /\ \/ /\ ppp_timer = "Lcp" /\ LcpStep("RestartTimeout", "None")
          /\ Unanswered(actions(lcp, "RestartTimeout"))
       \/ /\ ppp_timer = "Ipcp" /\ IpcpStep("RestartTimeout", "None")
          /\ Unanswered(actions(ipcp, "RestartTimeout"))

\* The session may sit idle or be ended by its SSTP side.
SessionEnds ==
    /\ Running /\ ended' = "Closed" /\ libssl_write' = FALSE
    /\ UNCHANGED <<phase, automata, ppp_timer, kppp, account, unanswered, heard>>

Terminated == ~Running /\ UNCHANGED vars

Next ==
    \/ open \/ on_auth_accept \/ on_auth_reject \/ protocol_reject \/ discard \/ on_timer
    \/ SessionEnds \/ Terminated
    \/ \E e \in LcpPacket : handle_lcp(e)
    \/ \E e \in IpcpPacket : handle_ipcp(e)

\* An armed timer fires, and no write has to fail.  The peer, RADIUS and the operator owe
\* nothing.
Fairness == WF_vars(on_timer /\ ended' # "WriteFailed")

Spec == Init /\ [][Next]_vars /\ Fairness

-----------------------------------------------------------------------------
(* Properties                                                              *)

Automaton == [state : State, restart_counter : 0..MAX_CONFIGURE]

FlagsOK == {lcp_opened, ipcp_opened, libssl_write, heard} \subseteq BOOLEAN

\* The variables keep their types, and no exchange gives an automaton of fsm.rs a restart
\* counter above Max-Configure.
TypeOK ==
    /\ FlagsOK
    /\ phase \in {"None", "Establish", "AuthPending", "Network", "Dead"}
    /\ lcp \in Automaton /\ ipcp \in Automaton \cup {NoIpcp}
    /\ ppp_timer \in {"None", "Lcp", "Ipcp"} /\ kppp \in {"None", "Tun", "Kernel"}
    /\ accepts \in 0..MaxAccepts /\ pending_username \in 0..accepts /\ acct_state \in 0..accepts
    /\ ended \in {"No", "Finished", "WriteFailed", "BringUpFailed", "Closed"}
    /\ unanswered \in Nat

\* LcpServer.opened is kept beside the automaton and gates authentication and
\* Protocol-Reject.  Across renegotiations it never disagrees with the automaton.
OpenedFlagExact == Running => (lcp_opened <=> lcp.state = "Opened")

\* handle_ppp_step: the tunnel carries traffic only for a peer RADIUS accepted, and only with
\* an accounting session open for it; IPCP runs only after an accept, whatever was renegotiated.
DataPathAuthorised ==
    /\ kppp # "None" => acct_state # 0
    /\ phase = "Network" => accepts # 0 /\ ipcp # NoIpcp

\* When NetworkUp brings the data path up, the accounting session it opens is that of the
\* latest accept, although the peer may have authenticated several times before.
AccountNamesLatestAccept ==
    [][kppp = "None" /\ kppp' # "None" => acct_state' = accepts]_vars

\* A timer that fires finds its automaton in a state that acts on it: no expiry left over
\* from an earlier exchange ever hits an automaton that has moved on.
NoStaleExpiry ==
    Running => /\ ppp_timer = "Lcp" => lcp.state \in {"ReqSent", "AckSent", "Stopping"}
               /\ ppp_timer = "Ipcp" => ipcp.state \in {"ReqSent", "AckSent", "Stopping"}

\* The budget of RFC 1661: a silent peer is sent at most Max-Configure requests, whichever of
\* the automata owns the slot.
RetransmissionBounded == unanswered <= MAX_CONFIGURE

\* and so the retransmissions stop: a peer that has gone silent is not sent requests forever.
RetransmissionStops == []<>(ppp_timer = "None" \/ heard \/ ~Running)

\* fsm.rs on a Configure-Ack in AckRcvd: "protocol error [...] re-arm and restart".  An
\* automaton that has gone back to ReqSent has a restart timer running.
RestartRearmed ==
    Running => ((lcp.state = "ReqSent" \/ ipcp.state = "ReqSent") => ppp_timer # "None")

\* session.rs: with the kernel module in charge "userspace only sends control frames via
\* SSTP_IOC_SEND_CONTROL"; nothing is written through libssl once kTLS is installed.
KernelOwnsSocket == [][kppp = "Kernel" => ~libssl_write']_vars
=============================================================================

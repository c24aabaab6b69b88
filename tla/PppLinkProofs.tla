---------------------------- MODULE PppLinkProofs ----------------------------
(***************************************************************************)
(* Proofs about PppLink, for every budget and every authentication method. *)
(* The automaton is summarised once (CellFacts, StepFacts); the session's  *)
(* steps are then argued from the summary, never from the table again.     *)
(***************************************************************************)
EXTENDS PppLink, TLAPS

Live == State \ {"Closing"}

\* The states in which a restart timer of this session can be armed: LCP is closed only as
\* the session ends, so Closing is never waited in.
Timed == {"ReqSent", "AckSent", "Stopping"}

\* Everything the session steps use of one cell (s, e) of the table.
Good(s, e, budget) ==
    LET to == Cell(s, e, budget).to
        acts == Cell(s, e, budget).acts
    IN  /\ to \in Live
        /\ (to = "Opened") <=> (s = "Opened" \/ "tlu" \in acts) /\ "tld" \notin acts
        /\ "start" \in acts => to \in Timed
        /\ "start" \in acts => {"scr", "str"} \cap acts # {} \/ "zrc" \in acts
        /\ s \in Timed => to \in Timed \/ "stop" \in acts \/ "tlf" \in acts
        /\ s \in Timed /\ "irc" \in acts /\ "stop" \notin acts => {"scr", "str"} \cap acts # {}
        /\ "irt" \notin acts /\ ("zrc" \in acts => "irc" \notin acts)
        /\ "tlu" \in acts => "tlf" \notin acts

\* What a restart timeout adds to that: it opens nothing, and a request it sends is paid for.
Paid(s, budget) ==
    LET acts == on_restart_timeout(s, budget).acts
    IN  /\ "tlu" \notin acts /\ "stop" \notin acts /\ {"irc", "irt", "zrc"} \cap acts = {}
        /\ {"scr", "str"} \cap acts # {} => budget /\ "start" \in acts

\* Fsm::step, table rows of the received packets and of the restart timeout.
LEMMA CellFacts ==
    ASSUME NEW s \in Live, NEW budget \in BOOLEAN, NEW e \in LcpPacket \cup {"RestartTimeout"}
    PROVE  Good(s, e, budget)
<1>1. CASE e = "RCR+"
  BY <1>1 DEF Good, Cell, Request, Go, Live, State, Timed
<1>2. CASE e = "RCR-"
  BY <1>2 DEF Good, Cell, Request, Go, Live, State, Timed
<1>3. CASE e = "RCA"
  BY <1>3 DEF Good, Cell, Answer, Go, Live, State, Timed
<1>4. CASE e = "RCN"
  BY <1>4 DEF Good, Cell, Answer, Go, Live, State, Timed
<1>5. CASE e = "RTR"
  BY <1>5 DEF Good, Cell, Terminate, Go, Live, State, Timed, Negotiating
<1>6. CASE e = "RTA"
  BY <1>6 DEF Good, Cell, Terminate, Go, Live, State, Timed, Negotiating
<1>7. CASE e \in {"RXJ+", "RUC", "RXR"}
  BY ZenonT(60), <1>7 DEF Good, Cell, Go, Live, State, Timed
<1>8. CASE e = "RestartTimeout"
  BY <1>8 DEF Good, Cell, on_restart_timeout, Go, Live, State, Timed, Negotiating
<1>9. QED
  BY <1>1, <1>2, <1>3, <1>4, <1>5, <1>6, <1>7, <1>8 DEF LcpPacket

\* Fsm::on_restart_timeout: the rows TO+ and TO-.
LEMMA TimeoutFacts ==
    ASSUME NEW s \in State, NEW budget \in BOOLEAN
    PROVE  Paid(s, budget)
  BY DEF Paid, on_restart_timeout, Go, State, Negotiating

LiveAutomaton == [state : Live, restart_counter : 0..MAX_CONFIGURE]

Packet == LcpPacket \cup {"RestartTimeout"}

\* Fsm::step with its counter: the budget stays in range, an armed or kept timer leaves room
\* for the request already sent, and a retransmission is paid for.
LEMMA StepFacts ==
    ASSUME NEW fsm \in LiveAutomaton, NEW e \in Packet
    PROVE  /\ step(fsm, e) \in LiveAutomaton
           /\ (step(fsm, e).state = "Opened") <=>
                 (fsm.state = "Opened" \/ "tlu" \in actions(fsm, e)) /\ "tld" \notin actions(fsm, e)
           /\ "start" \in actions(fsm, e) =>
                 step(fsm, e).state \in Timed /\ step(fsm, e).restart_counter < MAX_CONFIGURE
           /\ /\ fsm.state \in Timed /\ fsm.restart_counter < MAX_CONFIGURE
              /\ "stop" \notin actions(fsm, e) /\ "tlf" \notin actions(fsm, e)
              => step(fsm, e).state \in Timed /\ step(fsm, e).restart_counter < MAX_CONFIGURE
           /\ "tlu" \in actions(fsm, e) => "tlf" \notin actions(fsm, e)
<1> DEFINE acts == actions(fsm, e)
<1> DEFINE c0 == initialised(fsm.restart_counter, acts)
<1>1. Good(fsm.state, e, fsm.restart_counter > 0)
  <2>1. fsm.state \in Live /\ (fsm.restart_counter > 0) \in BOOLEAN
    BY DEF LiveAutomaton
  <2>2. QED
    BY ZenonT(60), <2>1, CellFacts DEF Packet
<1>2. /\ step(fsm, e).state = Cell(fsm.state, e, fsm.restart_counter > 0).to
      /\ step(fsm, e).restart_counter = spent(c0, acts)
      /\ step(fsm, e) = [state |-> step(fsm, e).state, restart_counter |-> step(fsm, e).restart_counter]
  BY DEF step, actions
<1>3. c0 \in 0..MAX_CONFIGURE
  BY BudgetAssumption DEF initialised, LiveAutomaton
<1>4. /\ spent(c0, acts) \in 0..MAX_CONFIGURE
      /\ {"scr", "str"} \cap acts # {} => spent(c0, acts) < MAX_CONFIGURE
  BY <1>3, BudgetAssumption DEF spent
<1>5. "irt" \notin acts /\ "irc" \notin acts /\ "zrc" \in acts => spent(c0, acts) = 0
  BY DEF spent, initialised
<1>6. {"irc", "irt", "zrc"} \cap acts = {} /\ fsm.restart_counter < MAX_CONFIGURE
        => spent(c0, acts) < MAX_CONFIGURE
  BY BudgetAssumption DEF spent, initialised, LiveAutomaton
<1>7. Cell(fsm.state, e, fsm.restart_counter > 0).acts = acts
  BY DEF actions
<1>8. step(fsm, e) \in LiveAutomaton
  <2>1. step(fsm, e).state \in Live
    BY <1>1, <1>2 DEF Good
  <2>2. QED
    BY <2>1, <1>2, <1>4 DEF LiveAutomaton
<1>9. (step(fsm, e).state = "Opened") <=> (fsm.state = "Opened" \/ "tlu" \in acts) /\ "tld" \notin acts
  BY <1>1, <1>2, <1>7 DEF Good
<1>10. "start" \in acts => step(fsm, e).state \in Timed /\ step(fsm, e).restart_counter < MAX_CONFIGURE
  <2>1. "start" \in acts => /\ step(fsm, e).state \in Timed
                            /\ {"scr", "str"} \cap acts # {} \/ ("zrc" \in acts /\ "irc" \notin acts)
                            /\ "irt" \notin acts
    BY <1>1, <1>2, <1>7 DEF Good
  <2>2. QED
    BY <2>1, <1>2, <1>4, <1>5, BudgetAssumption
<1>11. ASSUME fsm.state \in Timed, fsm.restart_counter < MAX_CONFIGURE, "stop" \notin acts, "tlf" \notin acts
       PROVE  step(fsm, e).state \in Timed /\ step(fsm, e).restart_counter < MAX_CONFIGURE
  <2>1. /\ step(fsm, e).state \in Timed
        /\ "irc" \in acts => {"scr", "str"} \cap acts # {}
        /\ "irt" \notin acts
    BY <1>1, <1>2, <1>7, <1>11 DEF Good
  <2>2. QED
    BY <2>1, <1>2, <1>4, <1>5, <1>6, <1>11, BudgetAssumption
<1>12. "tlu" \in acts => "tlf" \notin acts
  BY <1>1, <1>7 DEF Good
<1>13. QED
  BY <1>8, <1>9, <1>10, <1>11, <1>12

\* The rows of the restart timeout with the counter.
LEMMA TimeoutStep ==
    ASSUME NEW fsm \in LiveAutomaton
    PROVE  LET acts == actions(fsm, "RestartTimeout")
           IN  /\ "tlu" \notin acts /\ "stop" \notin acts
               /\ Requests(acts) \in 0..1
               /\ Requests(acts) = 1 => "start" \in acts
               /\ step(fsm, "RestartTimeout").restart_counter = fsm.restart_counter - Requests(acts)
<1> DEFINE acts == actions(fsm, "RestartTimeout")
<1>1. fsm.state \in State /\ (fsm.restart_counter > 0) \in BOOLEAN /\ fsm.restart_counter \in Nat
  BY BudgetAssumption DEF LiveAutomaton, Live
<1>2. Paid(fsm.state, fsm.restart_counter > 0)
  BY ZenonT(60), <1>1, TimeoutFacts
<1>3. on_restart_timeout(fsm.state, fsm.restart_counter > 0).acts = acts
  BY DEF actions, Cell
<1>4. /\ "tlu" \notin acts /\ "stop" \notin acts /\ {"irc", "irt", "zrc"} \cap acts = {}
      /\ {"scr", "str"} \cap acts # {} => fsm.restart_counter > 0 /\ "start" \in acts
  BY <1>2, <1>3 DEF Paid
<1>5. step(fsm, "RestartTimeout").restart_counter = spent(initialised(fsm.restart_counter, acts), acts)
  BY DEF step, actions
<1>6. initialised(fsm.restart_counter, acts) = fsm.restart_counter
  BY <1>4 DEF initialised
<1>7. QED
  BY <1>1, <1>4, <1>5, <1>6 DEF spent, Requests

\* LcpServer::open and IpcpServer::open leave one request sent and the rest of the budget.
LEMMA OpenedFacts == opened = [state |-> "ReqSent", restart_counter |-> MAX_CONFIGURE - 1]
<1>1. step(new, "Open") = [state |-> "Starting", restart_counter |-> 0]
  <2>1. /\ Cell("Initial", "Open", 0 > 0).to = "Starting"
        /\ Cell("Initial", "Open", 0 > 0).acts = {"tls"}
    BY DEF Cell, Admin, Go
  <2>2. spent(initialised(0, {"tls"}), {"tls"}) = 0
    BY DEF initialised, spent
  <2>3. new.state = "Initial" /\ new.restart_counter = 0
    BY DEF new
  <2>4. QED
    BY <2>1, <2>2, <2>3 DEF step
<1>2. /\ Cell("Starting", "Up", 0 > 0).to = "ReqSent"
      /\ Cell("Starting", "Up", 0 > 0).acts = {"irc", "scr", "start"}
  BY DEF Cell, Admin, Go
<1>3. spent(initialised(0, {"irc", "scr", "start"}), {"irc", "scr", "start"}) = MAX_CONFIGURE - 1
  <2>1. initialised(0, {"irc", "scr", "start"}) = MAX_CONFIGURE
    BY DEF initialised
  <2>2. QED
    BY <2>1, BudgetAssumption DEF spent
<1>4. QED
  BY <1>1, <1>2, <1>3 DEF opened, step

-----------------------------------------------------------------------------
(* The inductive invariant, in four parts.                                 *)

\* The two automata, and the flag beside LCP's.
AutomataOK ==
    /\ lcp \in Automaton /\ ipcp \in LiveAutomaton \cup {NoIpcp}
    /\ Running => lcp \in LiveAutomaton
    /\ phase = "None" => lcp = new
    /\ phase \in {"None", "Establish", "AuthPending", "Network", "Dead"}
    /\ kppp \in {"None", "Tun", "Kernel"}
    /\ ppp_timer \in {"None", "Lcp", "Ipcp"}
    /\ ended \in {"No", "Finished", "WriteFailed", "BringUpFailed", "Closed"}

\* The owner of the slot waits in a timed state, and what it may still send on its own
\* together with what went unanswered is within the budget.
Waiting(fsm) ==
    /\ fsm.state \in Timed
    /\ fsm.restart_counter < MAX_CONFIGURE
    /\ unanswered + fsm.restart_counter <= MAX_CONFIGURE

SlotOK ==
    /\ unanswered \in 0..MAX_CONFIGURE
    /\ Running /\ ppp_timer = "Lcp" => Waiting(lcp)
    /\ Running /\ ppp_timer = "Ipcp" => ipcp # NoIpcp /\ Waiting(ipcp)

\* An IPCP exists only after an accept; until the data path is up the latest accept is the
\* one waiting for it.
AccountOK ==
    /\ accepts \in 0..MaxAccepts /\ pending_username \in 0..accepts /\ acct_state \in 0..accepts
    /\ phase = "Network" => ipcp # NoIpcp
    /\ ipcp # NoIpcp => accepts # 0
    /\ ipcp # NoIpcp /\ kppp = "None" => pending_username = accepts
    /\ kppp # "None" => acct_state # 0

IInv == FlagsOK /\ OpenedFlagExact /\ AutomataOK /\ SlotOK /\ AccountOK

-----------------------------------------------------------------------------
(* render_lcp_step and render_ipcp_step keep everything but the count of   *)
(* unanswered requests, which depends on what caused them.                 *)

\* The flags stay Boolean: every handler assigns formulas.
LEMMA FlagsKept == FlagsOK /\ [Next]_vars => FlagsOK'
<1> SUFFICES ASSUME FlagsOK, [Next]_vars PROVE FlagsOK'
  OBVIOUS
<1>1. ASSUME NEW e, NEW slot, LcpStep(e, slot), heard' \in BOOLEAN PROVE FlagsOK'
  BY <1>1 DEF LcpStep, LcpOpened, Finish, Rendered, FlagsOK
<1>2. ASSUME NEW e, NEW slot, IpcpStep(e, slot), heard' \in BOOLEAN PROVE FlagsOK'
  BY ZenonT(60), <1>2 DEF IpcpStep, Finish, Rendered, FlagsOK
<1>3. ASSUME NEW e, handle_lcp(e) PROVE FlagsOK'
  BY <1>1, <1>3 DEF handle_lcp, Heard
<1>4. ASSUME NEW e, handle_ipcp(e) PROVE FlagsOK'
  BY <1>2, <1>4 DEF handle_ipcp, Heard
<1>5. CASE on_timer
  BY ZenonT(60), <1>1, <1>2, <1>5 DEF on_timer
<1>6. CASE open
  BY ZenonT(60), <1>6 DEF open, Finish, FlagsOK
<1>7. CASE on_auth_accept
  BY ZenonT(60), <1>7 DEF on_auth_accept, Finish, FlagsOK
<1>8. CASE on_auth_reject
  BY <1>8 DEF on_auth_reject, LcpOpened, Finish, Heard, FlagsOK
<1>9. CASE protocol_reject
  BY <1>9 DEF protocol_reject, Finish, Heard, FlagsOK, automata
<1>10. CASE discard
  BY ZenonT(60), <1>10 DEF discard, Finish, Heard, FlagsOK, automata
<1>11. CASE SessionEnds
  BY ZenonT(60), <1>11 DEF SessionEnds, FlagsOK, automata
<1>12. CASE UNCHANGED vars
  BY <1>12 DEF vars, FlagsOK, automata
<1>13. QED
  BY <1>3, <1>4, <1>5, <1>6, <1>7, <1>8, <1>9, <1>10, <1>11, <1>12 DEF Next, Terminated

\* handle_ppp_step, the slot: whoever owns it afterwards armed it now or owned it before.
LEMMA SlotFacts ==
    ASSUME NEW slot \in {"None", "Lcp", "Ipcp"}, NEW owner \in {"Lcp", "Ipcp"}, NEW acts
    PROVE  /\ Slot(slot, owner, acts) \in {"None", "Lcp", "Ipcp"}
           /\ Slot(slot, owner, acts) = owner =>
                 "start" \in acts \/ (slot = owner /\ "stop" \notin acts)
           /\ Slot(slot, owner, acts) \in {"None", owner, slot}
  BY DEF Slot

\* render_lcp_step.
LEMMA LcpStepKeeps ==
    ASSUME IInv, Running, phase # "None", NEW e \in Packet, NEW slot \in {"None", ppp_timer},
           LcpStep(e, slot)
    PROVE  OpenedFlagExact' /\ AutomataOK' /\ AccountOK'
<1> DEFINE acts == actions(lcp, e)
<1>1. lcp \in LiveAutomaton /\ (lcp_opened <=> lcp.state = "Opened")
  BY DEF IInv, AutomataOK, OpenedFlagExact
<1>2. /\ lcp' \in LiveAutomaton
      /\ (lcp'.state = "Opened") <=> (lcp.state = "Opened" \/ "tlu" \in acts) /\ "tld" \notin acts
  BY <1>1, StepFacts DEF LcpStep
<1>3. OpenedFlagExact'
  BY ZenonT(60), <1>1, <1>2 DEF LcpStep, LcpOpened, OpenedFlagExact
<1>4. ppp_timer' \in {"None", "Lcp", "Ipcp"} /\ ended' \in {"No", "Finished", "WriteFailed"}
  <2>1. slot \in {"None", "Lcp", "Ipcp"}
    BY DEF IInv, AutomataOK
  <2>2. QED
    BY <2>1, SlotFacts DEF LcpStep, Finish
<1>5. phase' \in {"Dead", "AuthPending", phase}
  BY DEF LcpStep
<1>6. lcp' \in Automaton
  BY <1>2 DEF LiveAutomaton, Automaton, Live
<1>7. AutomataOK'
  BY <1>2, <1>4, <1>5, <1>6 DEF LcpStep, IInv, AutomataOK
<1>8. AccountOK'
  BY <1>5 DEF LcpStep, IInv, AccountOK, account
<1>9. QED
  BY <1>3, <1>7, <1>8

\* render_ipcp_step; NetworkUp takes the accept that was waiting for it.
LEMMA IpcpStepKeeps ==
    ASSUME IInv, Running, ipcp # NoIpcp, NEW e \in Packet, NEW slot \in {"None", ppp_timer},
           IpcpStep(e, slot)
    PROVE  OpenedFlagExact' /\ AutomataOK' /\ AccountOK' /\ ipcp' \in LiveAutomaton /\ ipcp' # NoIpcp
<1>0. UNCHANGED <<lcp, phase>>
  BY DEF IpcpStep
<1>1. ipcp \in LiveAutomaton
  BY DEF IInv, AutomataOK
<1>2. ipcp' \in LiveAutomaton
  BY <1>1, StepFacts DEF IpcpStep
<1>3. ipcp' # NoIpcp
  BY <1>2 DEF LiveAutomaton, NoIpcp, Live, State
<1>4. OpenedFlagExact'
  BY DEF IpcpStep, IInv, OpenedFlagExact, Running
<1>5. /\ ppp_timer' \in {"None", "Lcp", "Ipcp"}
      /\ ended' \in {"No", "Finished", "WriteFailed", "BringUpFailed"}
  <2>1. slot \in {"None", "Lcp", "Ipcp"}
    BY DEF IInv, AutomataOK
  <2>2. QED
    BY <2>1, SlotFacts DEF IpcpStep, Finish, NetworkUp
<1>6. kppp' \in {"None", "Tun", "Kernel"}
  BY DEF IpcpStep, NetworkUp, IInv, AutomataOK, account
<1>7. AutomataOK'
  BY <1>2, <1>5, <1>6, <1>0 DEF IInv, AutomataOK, Running
<1>8. AccountOK'
  <2>1. CASE UNCHANGED <<kppp, account>>
    BY <2>1, <1>0, <1>3, LinkAssumption DEF IInv, AccountOK, account
  <2>2. CASE /\ kppp = "None" /\ kppp' # "None"
             /\ acct_state' = pending_username /\ pending_username' = 0 /\ UNCHANGED accepts
    BY <2>2, <1>0, <1>3, LinkAssumption DEF IInv, AccountOK
  <2>3. \/ UNCHANGED <<kppp, account>>
        \/ /\ kppp = "None" /\ kppp' # "None"
           /\ acct_state' = pending_username /\ pending_username' = 0 /\ UNCHANGED accepts
    BY DEF IpcpStep, NetworkUp
  <2>4. QED
    BY <2>1, <2>2, <2>3
<1>9. QED
  BY <1>2, <1>3, <1>4, <1>7, <1>8

\* tear_down_after_reject: Close leaves a well-formed automaton behind.
LEMMA CloseFacts == ASSUME NEW fsm \in LiveAutomaton PROVE step(fsm, "Close") \in Automaton
<1>1. Cell(fsm.state, "Close", fsm.restart_counter > 0).to \in State
  BY DEF Cell, Admin, Go, LiveAutomaton, Live, State, Negotiating
<1>2. fsm.restart_counter \in 0..MAX_CONFIGURE
  BY DEF LiveAutomaton
<1>3. ASSUME NEW acts PROVE spent(initialised(fsm.restart_counter, acts), acts) \in 0..MAX_CONFIGURE
  <2>1. initialised(fsm.restart_counter, acts) \in 0..MAX_CONFIGURE
    BY <1>2, BudgetAssumption DEF initialised
  <2>2. QED
    BY <2>1, BudgetAssumption DEF spent
<1>4. QED
  BY <1>1, <1>3 DEF step, Automaton

-----------------------------------------------------------------------------
(* The slot and the count of unanswered requests.                          *)

\* A frame of the peer restarts the count; the owner of the slot has room for one more.
LEMMA PacketKeepsSlot ==
    ASSUME IInv, Running, NEW e \in LcpPacket, handle_lcp(e) \/ handle_ipcp(e)
    PROVE  SlotOK'
<1>1. CASE handle_lcp(e)
  <2> DEFINE acts == actions(lcp, e)
  <2>1. /\ lcp \in LiveAutomaton /\ e \in Packet
        /\ lcp' = step(lcp, e) /\ ipcp' = ipcp
        /\ ppp_timer \in {"None", "Lcp", "Ipcp"}
    BY <1>1 DEF handle_lcp, LcpStep, IInv, AutomataOK, Packet
  <2>2. unanswered' \in 0..1
    BY <1>1 DEF handle_lcp, Heard, Requests
  <2>3. Running' => ppp_timer' = Slot(ppp_timer, "Lcp", acts) /\ "tlf" \notin acts
    BY <1>1 DEF handle_lcp, LcpStep, Finish, Running
  <2>4. ASSUME Running', ppp_timer' = "Lcp" PROVE Waiting(lcp)'
    <3>1. "start" \in acts \/ (ppp_timer = "Lcp" /\ "stop" \notin acts)
      BY <2>1, <2>3, <2>4, SlotFacts
    <3>2. ppp_timer = "Lcp" => lcp.state \in Timed /\ lcp.restart_counter < MAX_CONFIGURE
      BY DEF IInv, SlotOK, Waiting
    <3>3. lcp'.state \in Timed /\ lcp'.restart_counter < MAX_CONFIGURE /\ lcp' \in LiveAutomaton
      BY <3>1, <3>2, <2>1, <2>3, <2>4, StepFacts
    <3>4. QED
      BY <3>3, <2>2, BudgetAssumption DEF Waiting, LiveAutomaton
  <2>5. ASSUME Running', ppp_timer' = "Ipcp" PROVE ipcp' # NoIpcp /\ Waiting(ipcp)'
    <3>1. ppp_timer = "Ipcp"
      BY <2>1, <2>3, <2>5, SlotFacts
    <3>2. ipcp # NoIpcp /\ ipcp.state \in Timed /\ ipcp.restart_counter < MAX_CONFIGURE
      BY <3>1 DEF IInv, SlotOK, Waiting
    <3>3. ipcp.restart_counter \in 0..MAX_CONFIGURE
      BY <3>2 DEF IInv, AutomataOK, LiveAutomaton
    <3>4. QED
      BY <3>2, <3>3, <2>1, <2>2, BudgetAssumption DEF Waiting
  <2>6. QED
    BY <2>2, <2>4, <2>5, BudgetAssumption DEF SlotOK
<1>2. CASE handle_ipcp(e)
  <2> DEFINE acts == actions(ipcp, e)
  <2>1. /\ ipcp \in LiveAutomaton /\ ipcp # NoIpcp /\ e \in Packet
        /\ ipcp' = step(ipcp, e) /\ lcp' = lcp
        /\ ppp_timer \in {"None", "Lcp", "Ipcp"}
    BY <1>2 DEF handle_ipcp, IpcpStep, IInv, AutomataOK, AccountOK, Packet
  <2>2. unanswered' \in 0..1
    BY <1>2 DEF handle_ipcp, Heard, Requests
  <2>3. Running' => ppp_timer' = Slot(ppp_timer, "Ipcp", acts) /\ ("tlu" \in acts \/ "tlf" \notin acts)
    BY <1>2 DEF handle_ipcp, IpcpStep, Finish, Running
  <2>4. "tlu" \in acts => "tlf" \notin acts
    BY <2>1, StepFacts
  <2>5. ASSUME Running', ppp_timer' = "Ipcp" PROVE ipcp' # NoIpcp /\ Waiting(ipcp)'
    <3>1. "start" \in acts \/ (ppp_timer = "Ipcp" /\ "stop" \notin acts)
      BY <2>1, <2>3, <2>5, SlotFacts
    <3>2. ppp_timer = "Ipcp" => ipcp.state \in Timed /\ ipcp.restart_counter < MAX_CONFIGURE
      BY DEF IInv, SlotOK, Waiting
    <3>3. ipcp'.state \in Timed /\ ipcp'.restart_counter < MAX_CONFIGURE /\ ipcp' \in LiveAutomaton
      BY <3>1, <3>2, <2>1, <2>3, <2>4, <2>5, StepFacts
    <3>4. QED
      BY <3>3, <2>2, BudgetAssumption DEF Waiting, LiveAutomaton, NoIpcp, Timed
  <2>6. ASSUME Running', ppp_timer' = "Lcp" PROVE Waiting(lcp)'
    <3>1. ppp_timer = "Lcp"
      BY <2>1, <2>3, <2>6, SlotFacts
    <3>2. lcp.state \in Timed /\ lcp.restart_counter < MAX_CONFIGURE
      BY <3>1 DEF IInv, SlotOK, Waiting
    <3>3. lcp.restart_counter \in 0..MAX_CONFIGURE
      BY DEF IInv, AutomataOK, LiveAutomaton
    <3>4. QED
      BY <3>2, <3>3, <2>1, <2>2, BudgetAssumption DEF Waiting
  <2>7. QED
    BY <2>2, <2>5, <2>6, BudgetAssumption DEF SlotOK
<1>3. QED
  BY <1>1, <1>2

\* The PppTimer arm: the request it sends was still in the owner's budget.
LEMMA TimerKeepsSlot == ASSUME IInv, on_timer PROVE SlotOK'
<1>1. Running /\ unanswered \in 0..MAX_CONFIGURE
  BY DEF on_timer, IInv, SlotOK
<1>2. CASE ppp_timer = "Lcp"
  <2> DEFINE acts == actions(lcp, "RestartTimeout")
  <2>1. lcp \in LiveAutomaton /\ Waiting(lcp)
    BY <1>1, <1>2 DEF IInv, AutomataOK, SlotOK
  <2>2. /\ lcp' = step(lcp, "RestartTimeout") /\ ppp_timer' \in {"None", Slot("None", "Lcp", acts)}
        /\ unanswered' = unanswered + Requests(acts)
    BY <1>1, <1>2, BudgetAssumption DEF on_timer, LcpStep, Finish, Unanswered
  <2>3. /\ "stop" \notin acts /\ Requests(acts) \in 0..1
        /\ lcp'.restart_counter = lcp.restart_counter - Requests(acts)
    BY <2>1, <2>2, TimeoutStep
  <2>4. lcp' \in LiveAutomaton
    BY <2>1, <2>2, StepFacts DEF Packet
  <2>5. unanswered' + lcp'.restart_counter <= MAX_CONFIGURE /\ unanswered' \in 0..MAX_CONFIGURE
    BY <1>1, <2>1, <2>2, <2>3, <2>4, BudgetAssumption DEF Waiting, LiveAutomaton
  <2>6. ppp_timer' # "Ipcp"
    BY <2>2, SlotFacts
  <2>7. ppp_timer' = "Lcp" => lcp'.state \in Timed /\ lcp'.restart_counter < MAX_CONFIGURE
    BY <2>1, <2>2, SlotFacts, StepFacts DEF Packet
  <2>8. QED
    BY <2>5, <2>6, <2>7 DEF SlotOK, Waiting
<1>3. CASE ppp_timer = "Ipcp"
  <2> DEFINE acts == actions(ipcp, "RestartTimeout")
  <2>1. ipcp \in LiveAutomaton /\ Waiting(ipcp)
    BY <1>1, <1>3 DEF IInv, AutomataOK, SlotOK
  <2>2. "tlu" \notin acts /\ "stop" \notin acts /\ Requests(acts) \in 0..1
    BY <2>1, TimeoutStep
  <2>3. /\ ipcp' = step(ipcp, "RestartTimeout") /\ ppp_timer' \in {"None", Slot("None", "Ipcp", acts)}
        /\ unanswered' = unanswered + Requests(acts)
    BY <1>1, <1>3, <2>2, BudgetAssumption DEF on_timer, IpcpStep, Finish, Unanswered
  <2>4. ipcp'.restart_counter = ipcp.restart_counter - Requests(acts)
    BY <2>1, <2>3, TimeoutStep
  <2>5. ipcp' \in LiveAutomaton
    BY <2>1, <2>3, StepFacts DEF Packet
  <2>6. unanswered' + ipcp'.restart_counter <= MAX_CONFIGURE /\ unanswered' \in 0..MAX_CONFIGURE
    BY <1>1, <2>1, <2>2, <2>3, <2>4, <2>5, BudgetAssumption DEF Waiting, LiveAutomaton
  <2>7. ppp_timer' # "Lcp"
    BY <2>3, SlotFacts
  <2>8. ppp_timer' = "Ipcp" => ipcp'.state \in Timed /\ ipcp'.restart_counter < MAX_CONFIGURE
    BY <2>1, <2>3, SlotFacts, StepFacts DEF Packet
  <2>9. ipcp' # NoIpcp
    BY <2>5 DEF LiveAutomaton, Live, State, NoIpcp
  <2>10. QED
    BY <2>6, <2>7, <2>8, <2>9 DEF SlotOK, Waiting
<1>4. QED
  BY <1>2, <1>3 DEF on_timer

-----------------------------------------------------------------------------
(* The invariant of the session.                                           *)

Rest == OpenedFlagExact /\ AutomataOK /\ SlotOK /\ AccountOK

\* A step that leaves the link alone, whether the session ends with it or goes on.
LEMMA StillOK ==
    ASSUME IInv, ended' \in {ended, "Closed"},
           UNCHANGED <<phase, lcp, lcp_opened, ipcp, kppp, account, ppp_timer, unanswered>>
    PROVE  Rest'
<1>1. Running' => Running
  BY DEF Running
<1>2. OpenedFlagExact'
  <2>1. Running => (lcp_opened <=> lcp.state = "Opened")
    BY DEF IInv, OpenedFlagExact
  <2>2. lcp_opened' = lcp_opened /\ (lcp'.state = "Opened" <=> lcp.state = "Opened")
    BY SMTT(60)
  <2>3. QED BY <1>1, <2>1, <2>2 DEF OpenedFlagExact
<1>3. AutomataOK'
  <2>1. AutomataOK
    BY DEF IInv
  <2>2. QED BY <1>1, <2>1 DEF AutomataOK
<1>4. SlotOK'
  <2>1. SlotOK /\ Waiting(lcp)' = Waiting(lcp) /\ Waiting(ipcp)' = Waiting(ipcp)
    BY DEF IInv, Waiting
  <2>2. QED BY <1>1, <2>1 DEF SlotOK
<1>5. AccountOK'
  <2>1. AccountOK
    BY DEF IInv
  <2>2. QED BY <2>1 DEF AccountOK, account
<1>6. QED BY <1>2, <1>3, <1>4, <1>5 DEF Rest

\* Every handler of drive_sstp that reaches the PPP driver keeps the invariant.
LEMMA NextKeeps == IInv /\ [Next]_vars => Rest'
<1> SUFFICES ASSUME IInv, [Next]_vars PROVE Rest'
  OBVIOUS
<1>1. ASSUME NEW e \in LcpPacket, handle_lcp(e) PROVE Rest'
  <2>1. Running /\ phase # "None" /\ e \in Packet /\ LcpStep(e, ppp_timer)
    BY <1>1 DEF handle_lcp, Reading, Packet
  <2>2. QED
    BY <1>1, <2>1, LcpStepKeeps, PacketKeepsSlot DEF Rest
<1>2. ASSUME NEW e \in IpcpPacket, handle_ipcp(e) PROVE Rest'
  <2>1. Running /\ e \in Packet /\ e \in LcpPacket /\ IpcpStep(e, ppp_timer) /\ ipcp # NoIpcp
    BY <1>2 DEF handle_ipcp, Reading, Packet, IpcpPacket, IInv, AccountOK
  <2>2. QED
    BY <1>2, <2>1, IpcpStepKeeps, PacketKeepsSlot DEF Rest
<1>3. CASE on_timer
  <2>1. Running /\ "RestartTimeout" \in Packet
    BY <1>3 DEF on_timer, Packet
  <2>2. CASE ppp_timer = "Lcp" /\ LcpStep("RestartTimeout", "None")
    <3>1. phase # "None"
      BY <2>1, <2>2 DEF IInv, AutomataOK, SlotOK, Waiting, Timed, new
    <3>2. QED
      BY <1>3, <2>1, <2>2, <3>1, LcpStepKeeps, TimerKeepsSlot DEF Rest
  <2>3. CASE ppp_timer = "Ipcp" /\ IpcpStep("RestartTimeout", "None")
    <3>1. ipcp # NoIpcp
      BY <2>1, <2>3 DEF IInv, SlotOK
    <3>2. QED
      BY <1>3, <2>1, <2>3, <3>1, IpcpStepKeeps, TimerKeepsSlot DEF Rest
  <2>4. QED
    BY <1>3, <2>2, <2>3 DEF on_timer
<1>4. CASE open
  <2>1. /\ lcp' = opened /\ phase' = "Establish" /\ unanswered' = 1 /\ UNCHANGED <<lcp_opened, ipcp, kppp, account>>
        /\ \/ ppp_timer' = "Lcp" /\ ended' = "No"
           \/ ppp_timer' = ppp_timer /\ ended' = "WriteFailed"
    BY <1>4 DEF open, Finish, Slot
  <2>2. lcp' \in LiveAutomaton /\ lcp' \in Automaton /\ lcp'.state = "ReqSent"
        /\ lcp'.restart_counter = MAX_CONFIGURE - 1
    BY <2>1, OpenedFacts, BudgetAssumption DEF LiveAutomaton, Automaton, Live, State
  <2>3. ~lcp_opened
    BY <1>4 DEF open, IInv, AutomataOK, OpenedFlagExact, new
  <2>4. OpenedFlagExact'
    BY <2>1, <2>2, <2>3 DEF OpenedFlagExact
  <2>5. AutomataOK'
    BY <2>1, <2>2 DEF IInv, AutomataOK
  <2>6. SlotOK'
    BY <2>1, <2>2, BudgetAssumption DEF SlotOK, Waiting, Timed, Running
  <2>7. AccountOK'
    BY <2>1 DEF IInv, AccountOK, account
  <2>8. QED
    BY <2>4, <2>5, <2>6, <2>7 DEF Rest
<1>5. CASE on_auth_accept
  <2>1. /\ ipcp' = opened /\ phase' = "Network" /\ unanswered' = 1
        /\ UNCHANGED <<lcp, lcp_opened, kppp, acct_state>>
        /\ \/ ppp_timer' = "Ipcp" /\ ended' = "No"
           \/ ppp_timer' = ppp_timer /\ ended' = "WriteFailed"
    BY <1>5 DEF on_auth_accept, Finish, Slot
  <2>2. ipcp' \in LiveAutomaton /\ ipcp'.state = "ReqSent" /\ ipcp'.restart_counter = MAX_CONFIGURE - 1
        /\ ipcp' # NoIpcp
    BY <2>1, OpenedFacts, BudgetAssumption DEF LiveAutomaton, Live, State, NoIpcp
  <2>3. Running
    BY <1>5 DEF on_auth_accept, Credentials, Reading
  <2>4. OpenedFlagExact'
    BY <2>1, <2>3 DEF OpenedFlagExact, IInv
  <2>5. AutomataOK'
    BY <2>1, <2>2, <2>3 DEF IInv, AutomataOK
  <2>6. SlotOK'
    BY <2>1, <2>2, BudgetAssumption DEF SlotOK, Waiting, Timed, Running
  <2>7. accepts < MaxAccepts /\ accepts' = accepts + 1 /\ pending_username' = accepts + 1
    BY <1>5 DEF on_auth_accept
  <2>8. AccountOK'
    BY <2>1, <2>2, <2>7, LinkAssumption DEF IInv, AccountOK
  <2>9. QED
    BY <2>4, <2>5, <2>6, <2>8 DEF Rest
<1>6. CASE on_auth_reject
  <2>1. /\ lcp' = step(lcp, "Close") /\ phase' = "Dead" /\ ended' \in {"Finished", "WriteFailed"}
        /\ UNCHANGED <<ipcp, kppp, account>> /\ Running /\ unanswered' \in 0..1
        /\ ppp_timer' \in {ppp_timer, Slot(ppp_timer, "Lcp", actions(lcp, "Close"))}
    BY <1>6 DEF on_auth_reject, Finish, Heard, Requests, Credentials, Reading
  <2>2. lcp' \in Automaton
    BY <2>1, CloseFacts DEF IInv, AutomataOK
  <2>3. ppp_timer' \in {"None", "Lcp", "Ipcp"}
    BY <2>1, SlotFacts DEF IInv, AutomataOK
  <2>4. OpenedFlagExact' /\ AutomataOK'
    BY <2>1, <2>2, <2>3 DEF OpenedFlagExact, IInv, AutomataOK, Running
  <2>5. SlotOK'
    BY <2>1, BudgetAssumption DEF SlotOK, Running
  <2>6. AccountOK'
    BY <2>1 DEF IInv, AccountOK, account
  <2>7. QED
    BY <2>4, <2>5, <2>6 DEF Rest
<1>7. CASE protocol_reject \/ discard
  <2>1. /\ UNCHANGED <<phase, lcp, lcp_opened, ipcp, kppp, account, ppp_timer>>
        /\ ended' \in {"No", "WriteFailed"} /\ Running /\ unanswered' = 0
    BY <1>7 DEF protocol_reject, discard, Finish, Slot, Heard, Requests, Reading, automata
  <2>2. OpenedFlagExact' /\ AutomataOK'
    BY <2>1 DEF OpenedFlagExact, IInv, AutomataOK, Running
  <2>3. SlotOK'
    <3>1. lcp \in LiveAutomaton /\ (ipcp # NoIpcp => ipcp \in LiveAutomaton)
      BY <2>1 DEF IInv, AutomataOK
    <3>2. QED
      BY <2>1, <3>1, BudgetAssumption DEF IInv, SlotOK, Waiting, LiveAutomaton
  <2>4. AccountOK'
    BY <2>1 DEF IInv, AccountOK, account
  <2>5. QED
    BY <2>2, <2>3, <2>4 DEF Rest
<1>8. CASE SessionEnds
  <2>1. /\ UNCHANGED <<phase, lcp, lcp_opened, ipcp, kppp, account, ppp_timer, unanswered>>
        /\ ended' \in {ended, "Closed"}
    BY <1>8 DEF SessionEnds, automata
  <2>2. QED
    BY <2>1, StillOK DEF Rest
<1>9. CASE UNCHANGED vars
  <2>1. /\ UNCHANGED <<phase, lcp, lcp_opened, ipcp, kppp, account, ppp_timer, unanswered>>
        /\ ended' \in {ended, "Closed"}
    BY <1>9 DEF vars, automata
  <2>2. QED
    BY <2>1, StillOK DEF Rest
<1>10. QED
  BY <1>1, <1>2, <1>3, <1>4, <1>5, <1>6, <1>7, <1>8, <1>9 DEF Next, Terminated

\* The inductive invariant holds in every state the session reaches.
THEOREM InvariantHolds == Spec => []IInv
<1>1. Init => IInv
  <2> SUFFICES ASSUME Init PROVE IInv
    OBVIOUS
  <2>1. FlagsOK
    BY ZenonT(60) DEF Init, FlagsOK
  <2>2. lcp \in LiveAutomaton /\ lcp \in Automaton /\ lcp.state = "Initial"
    BY BudgetAssumption DEF Init, new, LiveAutomaton, Automaton, Live, State
  <2>3. OpenedFlagExact
    BY <2>2 DEF Init, OpenedFlagExact
  <2>4. AutomataOK
    BY <2>2 DEF Init, AutomataOK
  <2>5. SlotOK /\ AccountOK
    BY BudgetAssumption, LinkAssumption DEF Init, SlotOK, AccountOK
  <2>6. QED
    BY <2>1, <2>3, <2>4, <2>5 DEF IInv
<1>2. IInv /\ [Next]_vars => IInv'
  BY FlagsKept, NextKeeps DEF IInv, Rest
<1>3. QED
  BY <1>1, <1>2, PTL DEF Spec

\* PppLink's type invariant, for every budget.
THEOREM TypeCorrect == Spec => []TypeOK
<1>1. IInv => TypeOK
  <2> SUFFICES ASSUME IInv PROVE TypeOK
    OBVIOUS
  <2>1. ipcp \in Automaton \cup {NoIpcp}
    BY DEF IInv, AutomataOK, LiveAutomaton, Automaton, Live
  <2>2. unanswered \in Nat
    BY BudgetAssumption DEF IInv, SlotOK
  <2>3. QED
    BY <2>1, <2>2 DEF IInv, TypeOK, AutomataOK, AccountOK
<1>2. QED
  BY <1>1, InvariantHolds, PTL

\* LcpServer.opened agrees with LCP's automaton across every renegotiation.
THEOREM FlagAgrees == Spec => []OpenedFlagExact
<1>1. IInv => OpenedFlagExact
  BY DEF IInv
<1>2. QED
  BY <1>1, InvariantHolds, PTL

\* handle_ppp_step: no data path without a RADIUS accept and an open accounting session.
THEOREM PathAuthorised == Spec => []DataPathAuthorised
<1>1. IInv => DataPathAuthorised
  BY DEF IInv, AccountOK, DataPathAuthorised
<1>2. QED
  BY <1>1, InvariantHolds, PTL

\* handle_ppp_step: a restart timer never fires into an automaton that has moved on.
THEOREM ExpiryFresh == Spec => []NoStaleExpiry
<1>1. IInv => NoStaleExpiry
  BY DEF IInv, SlotOK, Waiting, Timed, NoStaleExpiry
<1>2. QED
  BY <1>1, InvariantHolds, PTL

\* A silent peer is sent at most MAX_CONFIGURE requests, although both automata share one slot.
THEOREM BudgetKept == Spec => []RetransmissionBounded
<1>1. IInv => RetransmissionBounded
  BY BudgetAssumption DEF IInv, SlotOK, RetransmissionBounded
<1>2. QED
  BY <1>1, InvariantHolds, PTL

\* NetworkUp opens the accounting session for the latest accept.
THEOREM AccountIsLatest == Spec => AccountNamesLatestAccept
<1>1. ASSUME IInv, [Next]_vars, kppp = "None", kppp' # "None" PROVE acct_state' = accepts
  <2>1. ASSUME NEW e, NEW slot, IpcpStep(e, slot), ipcp # NoIpcp PROVE acct_state' = accepts
    <3>1. acct_state' = pending_username
      BY <1>1, <2>1 DEF IpcpStep, NetworkUp, account
    <3>2. QED
      BY <3>1, <2>1, <1>1 DEF IInv, AccountOK
  <2>2. ASSUME NEW e, handle_ipcp(e) PROVE acct_state' = accepts
    BY <1>1, <2>1, <2>2 DEF handle_ipcp, IInv, AccountOK
  <2>3. CASE on_timer
    <3>1. Running /\ ppp_timer = "Ipcp" /\ IpcpStep("RestartTimeout", "None")
      BY <1>1, <2>3 DEF on_timer, LcpStep
    <3>2. QED
      BY <1>1, <2>1, <3>1 DEF IInv, SlotOK
  <2>4. CASE open \/ on_auth_accept \/ on_auth_reject \/ protocol_reject \/ discard \/ SessionEnds
    BY ZenonT(60), <1>1, <2>4 DEF open, on_auth_accept, on_auth_reject, protocol_reject, discard, SessionEnds
  <2>5. ASSUME NEW e, handle_lcp(e) PROVE FALSE
    BY <1>1, <2>5 DEF handle_lcp, LcpStep
  <2>6. CASE UNCHANGED vars
    BY <1>1, <2>6 DEF vars
  <2>7. QED
    BY <1>1, <2>2, <2>3, <2>4, <2>5, <2>6 DEF Next, Terminated
<1>2. IInv /\ [Next]_vars => [kppp = "None" /\ kppp' # "None" => acct_state' = accepts]_vars
  BY <1>1
<1>3. QED
  BY <1>2, InvariantHolds, PTL DEF Spec, AccountNamesLatestAccept
=============================================================================

------------------------------- MODULE PppFsm -------------------------------
(***************************************************************************)
(* The option-negotiation automaton of src/src/ppp/fsm.rs, one instance    *)
(* per control protocol.  `Cell` is the table of `Fsm::step`; its actions  *)
(* carry the RFC 1661 names: scr sca scn str sta scj ser for the packets,  *)
(* tlu tld tls tlf for the notifications, irc for irc_configure, irt for   *)
(* irc_terminate, zrc for a zeroed counter, start and stop for the Restart *)
(* timer.  The failure counter is set and never read, and is left out.     *)
(***************************************************************************)
EXTENDS Naturals

CONSTANTS MAX_CONFIGURE, MAX_TERMINATE    \* DEFAULT_MAX_CONFIGURE, DEFAULT_MAX_TERMINATE

ASSUME BudgetAssumption ==
    MAX_CONFIGURE \in Nat \ {0} /\ MAX_TERMINATE \in Nat \ {0} /\ MAX_TERMINATE <= MAX_CONFIGURE

State == {"Initial", "Starting", "Closed", "Stopped", "Closing", "Stopping",
          "ReqSent", "AckRcvd", "AckSent", "Opened"}

Event == {"Up", "Down", "Open", "Close", "RestartTimeout", "RCR+", "RCR-", "RCA", "RCN", "RTR", "RTA",
          "RUC", "RXJ+", "RXJ-", "RXR"}

Negotiating == {"ReqSent", "AckRcvd", "AckSent"}

Go(to, acts) == [to |-> to, acts |-> acts]

on_restart_timeout(s, budget) ==
    CASE budget /\ s \in {"Closing", "Stopping"} -> Go(s, {"str", "start"})
      [] budget /\ s \in {"ReqSent", "AckRcvd"}  -> Go("ReqSent", {"scr", "start"})
      [] budget /\ s = "AckSent"                 -> Go(s, {"scr", "start"})
      [] ~budget /\ s = "Closing"                -> Go("Closed", {"tlf"})
      [] ~budget /\ s \in Negotiating \cup {"Stopping"} -> Go("Stopped", {"tlf"})
      [] OTHER                                   -> Go(s, {})

Admin(s, e) ==
    CASE e = "Up" /\ s = "Initial"     -> Go("Closed", {})
      [] e = "Up" /\ s = "Starting"    -> Go("ReqSent", {"irc", "scr", "start"})
      [] e = "Down" /\ s \in {"Closed", "Closing"} -> Go("Initial", {})
      [] e = "Down" /\ s = "Stopped"   -> Go("Starting", {"tls"})
      [] e = "Down" /\ s \in Negotiating \cup {"Stopping"} -> Go("Starting", {})
      [] e = "Down" /\ s = "Opened"    -> Go("Starting", {"tld"})
      [] e = "Open" /\ s = "Initial"   -> Go("Starting", {"tls"})
      [] e = "Open" /\ s = "Closed"    -> Go("ReqSent", {"irc", "scr", "start"})
      [] e = "Close" /\ s = "Starting" -> Go("Initial", {"tlf"})
      [] e = "Close" /\ s \in {"Closed", "Stopped"}    -> Go("Closed", {})
      [] e = "Close" /\ s \in {"Closing", "Stopping"}  -> Go("Closing", {})
      [] e = "Close" /\ s \in Negotiating -> Go("Closing", {"irt", "str", "start"})
      [] e = "Close" /\ s = "Opened"   -> Go("Closing", {"tld", "irt", "str", "start"})
      [] OTHER                         -> Go(s, {})

Request(s, good) ==
    CASE s = "Closed"              -> Go(s, {"sta"})
      [] s = "Stopped" /\ good     -> Go("AckSent", {"irc", "scr", "sca", "start"})
      [] s = "Stopped" /\ ~good    -> Go("ReqSent", {"irc", "scr", "scn", "start"})
      [] s \in {"ReqSent", "AckSent"} /\ good  -> Go("AckSent", {"sca"})
      [] s \in {"ReqSent", "AckSent"} /\ ~good -> Go("ReqSent", {"scn"})
      [] s = "AckRcvd" /\ good     -> Go("Opened", {"sca", "tlu"})
      [] s = "AckRcvd" /\ ~good    -> Go(s, {"scn"})
      [] s = "Opened" /\ good      -> Go("AckSent", {"tld", "scr", "sca", "start"})
      [] s = "Opened" /\ ~good     -> Go("ReqSent", {"tld", "scr", "scn", "start"})
      [] OTHER                     -> Go(s, {})

Answer(s, ack) ==
    CASE s \in {"Closed", "Stopped"}       -> Go(s, {"scj"})
      [] s = "ReqSent" /\ ack              -> Go("AckRcvd", {"irc", "stop"})
      [] s = "AckSent" /\ ack              -> Go("Opened", {"irc", "stop", "tlu"})
      [] s \in {"ReqSent", "AckSent"} /\ ~ack -> Go(s, {"irc", "scr"})
      [] s = "AckRcvd"                     -> Go("ReqSent", {"scr"})
      [] s = "Opened"                      -> Go("ReqSent", {"tld", "scr"})
      [] OTHER                             -> Go(s, {})

Terminate(s, request) ==
    CASE request /\ s \in {"Closed", "Stopped", "Closing", "Stopping"} -> Go(s, {"sta"})
      [] request /\ s \in Negotiating  -> Go("ReqSent", {"sta"})
      [] request /\ s = "Opened"       -> Go("Stopping", {"tld", "zrc", "sta", "start"})
      [] ~request /\ s = "Closing"     -> Go("Closed", {"tlf"})
      [] ~request /\ s = "Stopping"    -> Go("Stopped", {"tlf"})
      [] ~request /\ s = "AckRcvd"     -> Go("ReqSent", {})
      [] ~request /\ s = "Opened"      -> Go("ReqSent", {"tld", "scr"})
      [] OTHER                         -> Go(s, {})

CodeReject(s) ==
    CASE s \in {"Closed", "Closing"} -> Go("Closed", {"tlf"})
      [] s \in Negotiating \cup {"Stopped", "Stopping"} -> Go("Stopped", {"tlf"})
      [] s = "Opened"                -> Go("Stopping", {"tld", "irt", "str", "start"})
      [] OTHER                       -> Go(s, {})

Cell(s, e, budget) ==
    CASE e = "RestartTimeout"     -> on_restart_timeout(s, budget)
      [] e \in {"RCR+", "RCR-"}   -> Request(s, e = "RCR+")
      [] e \in {"RCA", "RCN"}     -> Answer(s, e = "RCA")
      [] e \in {"RTR", "RTA"}     -> Terminate(s, e = "RTR")
      [] e = "RUC"                -> Go(s, {"scj"})
      [] e = "RXJ+"               -> Go(s, {})
      [] e = "RXJ-"               -> CodeReject(s)
      [] e = "RXR"                -> Go(s, IF s = "Opened" THEN {"ser"} ELSE {})
      [] OTHER                    -> Admin(s, e)

new == [state |-> "Initial", restart_counter |-> 0]

\* irc_configure, irc_terminate and the zeroed counter.
initialised(counter, acts) ==
    CASE "irc" \in acts -> MAX_CONFIGURE
      [] "irt" \in acts -> MAX_TERMINATE
      [] "zrc" \in acts -> 0
      [] OTHER          -> counter

\* Mutant: a request costs nothing.
spent_free(counter, acts) == counter

\* A Configure- or Terminate-Request costs one count of the budget.
spent(counter, acts) ==
    IF {"scr", "str"} \cap acts # {} /\ counter > 0 THEN counter - 1 ELSE counter

\* Fsm::step: the automaton after the event.
step(fsm, e) ==
    LET cell == Cell(fsm.state, e, fsm.restart_counter > 0)
    IN  [state |-> cell.to,
         restart_counter |-> spent(initialised(fsm.restart_counter, cell.acts), cell.acts)]

actions(fsm, e) == Cell(fsm.state, e, fsm.restart_counter > 0).acts

\* LcpServer::open and IpcpServer::open: Open, then Up; the actions are those of Up.
opened == step(step(new, "Open"), "Up")
=============================================================================

---------------------------- MODULE Negotiation ----------------------------
(***************************************************************************)
(* What LCP and IPCP agree on: the options of src/ppp/driver.rs,           *)
(* src/ppp/lcp.rs and src/ppp/ipcp.rs and the logins of src/ppp/auth.rs,   *)
(* negotiated by the automaton of PppFsm with a client that follows        *)
(* RFC 1661 but may send a stray frame.                                    *)
(*                                                                         *)
(* An option is a pair of a name and a value; 0 asks for an assignment, -1 *)
(* is a value of the wrong length, and the option "malformed", the last of *)
(* its list, ends the walk over it.  What a decoder returns is the set of  *)
(* what it decoded: empty for an error.  The link is the TLS stream:       *)
(* reliable and in order.  RADIUS answers while the frame that asked is    *)
(* handled (AuthBridge), so a verdict is part of that step.  Terminate,    *)
(* Echo and Code-Reject packets are PppLink's.                             *)
(***************************************************************************)
EXTENDS PppFsm, Integers, Sequences, FiniteSets

CONSTANTS
  Methods,        \* AuthMethod of the listener: "Pap", "ChapMd5" or "MsChapV2"
  LcpWants,       \* option sets a client may open LCP with
  IpcpWants,      \* option sets a client may open IPCP with
  Assigned,       \* AssignedAddrs a RADIUS accept may carry; 0: None
  Strays,         \* frames a client may send out of turn
  Identifiers,    \* values of an identifier, 2^8 in the code
  MaxTimeouts,    \* bound: expiries of the Restart timer
  MaxOdd          \* bound: renegotiations and stray frames of the client

Proto == {"lcp", "ipcp"}

ProtocolId == {"ip", "ipv6", "ipcp", "ipv6cp", "lcp", "pap", "chap", "eap"}
LcpOptionId == {"mru", "auth", "quality", "magic", "pfc", "acfc"}
LcpAccepted == LcpOptionId \ {"quality"}
IpcpOptionId == {"comp", "ip", "mobile", "dns1", "nbns1", "dns2", "nbns2"}
DnsLike == IpcpOptionId \ {"comp", "ip", "mobile"}
AssignedAddrs == [ip : Nat, dns1 : Nat, dns2 : Nat, nbns1 : Nat, nbns2 : Nat, mtu : Nat]

ASSUME NegotiationAssumption ==
  /\ Methods \subseteq {"Pap", "ChapMd5", "MsChapV2"}
  /\ \A w \in LcpWants \cup IpcpWants : \A o \in w : o[2] \in Int
  /\ \A a \in Assigned : a \in AssignedAddrs /\ a.ip # 0
  /\ Identifiers \in Nat \ {0}
  /\ MaxTimeouts \in Nat /\ MaxOdd \in Nat

VARIABLES
  auth_method,  \* LcpServer.auth_method
  phase,      \* Phase of the driver
  fsm,        \* the two automata
  ids,        \* identifiers of the server's last requests
  is_open,    \* LcpServer.opened, IpcpServer.opened
  peer_mru,   \* LcpServer.peer_mru; 0: None
  addrs,      \* pending_addrs, also IpcpServer.addrs; ip = 0: None
  timer,      \* ppp_timer of the session: its owner, or "none"
  up,         \* the addresses of the first NetworkUp; ip = 0: none yet
  to_server, to_client,    \* frames in flight
  want,       \* the client's options, per protocol
  own,        \* identifier of the client's last request, per protocol
  acked,      \* was that request acknowledged?
  ack_sent,   \* has the client acknowledged the server's request?
  agreed,     \* options of the last request of the client that was acknowledged
  client,     \* "idle", "establish", "auth", "network", "failed"
  ccp,        \* the client's CCP: "idle", "asked", "rejected"
  timeouts, odd

server == << auth_method, phase, fsm, ids, is_open, peer_mru, addrs, timer, up >>
peer == << want, own, acked, ack_sent, agreed, client, ccp >>
vars == << server, peer, to_server, to_client, timeouts, odd >>

\* A frame as encode_protocol_packet builds it: its Length field fits.
Frame(proto, code, id, opts) ==
  [proto |-> proto, code |-> code, id |-> id, opts |-> opts, length |-> "fits"]

\* bump_identifier: a wrapping u8.
bump_identifier(id) == (id + 1) % Identifiers

Names(opts) == {o[1] : o \in opts}
Values(opts, name) == {o[2] : o \in {p \in opts : p[1] = name}}
None == [ip |-> 0, dns1 |-> 0, dns2 |-> 0, nbns1 |-> 0, nbns2 |-> 0, mtu |-> 0]
-----------------------------------------------------------------------------
(* Decoding.                                                                *)

\* decode_frame: a truncated frame, or one whose Protocol field has illegal
\* parity, is an error.
decode_frame(f) == {f} \ {g \in {f} : g.proto = "illegal"}

\* Length is at least that of the header and at most what was received.
decode_lcp_packet(f) == {g \in {f} : g.length = "fits"}

\* The options in front of the first malformed one, and whether there is one.
ConfigOptionIter(opts) ==
  [parsed |-> {o \in opts : o[1] # "malformed"}, failed |-> "malformed" \in Names(opts)]

as_mru(o) == {o[2]} \ {-1}

read_ipv4_value(o) == {o[2]} \ {-1}

pap_decode_header(f, code) == {g \in {f} : g.length = "fits" /\ g.code = code}

\* A name or a password that runs past the packet is an error as well.
decode_authenticate_request(f) ==
  {g \in pap_decode_header(f, "AuthRequest") : "overrun" \notin Names(g.opts)}

chap_decode_header(f, codes) == {g \in {f} : g.length = "fits" /\ g.code \in codes}

decode_challenge_response(f) ==
  {g \in chap_decode_header(f, {"Challenge", "Response"}) : "overrun" \notin Names(g.opts)}
-----------------------------------------------------------------------------
(* LcpServer and IpcpServer: the verdict on a Configure-Request, as the     *)
(* event for the automaton and the body of a Nak or a Reject.               *)

Verdict(event, code, opts) == [event |-> event, code |-> code, opts |-> opts]

classify_lcp(opts) ==
  LET walk == ConfigOptionIter(opts)
      refused == {o \in walk.parsed : o[1] \notin LcpAccepted}
  IN IF refused = {} /\ ~walk.failed
     THEN Verdict("RCR+", "Ack", opts)
     ELSE Verdict("RCR-", "Reject", refused)

\* The MRU of the latest request that names a decodable one, acceptable or not.
captured_mru(opts) ==
  LET m == UNION {as_mru(o) : o \in {p \in opts : p[1] = "mru"}}
  IN IF m = {} THEN peer_mru ELSE CHOOSE v \in m : TRUE

\* Mutant: an option without a value of ours is answered with zero.
handle_optional_dns_like_zero(o, ours) ==
  IF ours \in read_ipv4_value(o) /\ ours # 0 THEN "accept" ELSE "nak"

handle_optional_dns_like(o, ours) ==
  CASE ours = 0 -> "reject"
    [] ours \in read_ipv4_value(o) -> "accept"
    [] OTHER -> "nak"

\* Mutant: any address the client already has is taken.
judge_ipcp_any_address(o) ==
  CASE o[1] = "ip" -> IF o[2] > 0 THEN "accept" ELSE "nak"
    [] o[1] \in DnsLike -> handle_optional_dns_like(o, addrs[o[1]])
    [] OTHER -> "reject"

judge_ipcp(o) ==
  CASE o[1] = "ip" -> IF addrs.ip \in read_ipv4_value(o) THEN "accept" ELSE "nak"
    [] o[1] \in DnsLike -> handle_optional_dns_like(o, addrs[o[1]])
    [] OTHER -> "reject"

\* push_v4_option
push_v4_option(name, addr) == << name, addr >>

\* A malformed list is answered with an empty Nak; a Reject precedes a Nak.
classify_ipcp(opts) ==
  LET walk == ConfigOptionIter(opts)
      reject == {o \in walk.parsed : judge_ipcp(o) = "reject"}
      nak == {push_v4_option(o[1], addrs[o[1]]) :
                o \in {p \in walk.parsed : judge_ipcp(p) = "nak"}}
  IN CASE walk.failed -> Verdict("RCR-", "Nak", {})
       [] reject # {} -> Verdict("RCR-", "Reject", reject)
       [] nak # {} -> Verdict("RCR-", "Nak", nak)
       [] OTHER -> Verdict("RCR+", "Ack", opts)

classify_configure_request(proto, opts) ==
  IF proto = "lcp" THEN classify_lcp(opts) ELSE classify_ipcp(opts)
-----------------------------------------------------------------------------
(* Rendering: the frames, the timer and the notifications of a step.        *)

\* The Auth-Protocol value: the protocol, and the algorithm byte of CHAP.
auth_protocol ==
  CASE auth_method = "Pap" -> 49187            \* 0xC023
    [] auth_method = "ChapMd5" -> 12722949     \* 0xC223 05
    [] auth_method = "MsChapV2" -> 12723073    \* 0xC223 81

local_ip == 1

\* write_own_cr_options; for IPCP the server's end of the tunnel.
own_options(proto) ==
  IF proto = "lcp" THEN {<< "auth", auth_protocol >>} ELSE {push_v4_option("ip", local_ip)}

render_send(proto, acts, id, verdict) ==
  (IF "scr" \in acts
   THEN << Frame(proto, "Request", bump_identifier(ids[proto]), own_options(proto)) >> ELSE << >>)
  \o (IF {"sca", "scn"} \cap acts # {}
      THEN << Frame(proto, verdict.code, id, verdict.opts) >> ELSE << >>)

\* apply_timer of the driver, and the single timer slot of the session.
apply_timer(proto, acts) ==
  timer' = CASE "start" \in acts -> proto
             [] "stop" \in acts /\ timer = proto -> "none"
             [] OTHER -> timer

Numbered(proto, acts) ==
  ids' = IF "scr" \in acts THEN [ids EXCEPT ![proto] = bump_identifier(@)] ELSE ids

\* The client is challenged when LCP opens; under PAP it logs in by itself.
encode_chap_challenge ==
  IF auth_method = "Pap" THEN << >>
  ELSE << Frame("chap", "Challenge", 0, {<< "value", 16 >>}) >>

pap_encode_response(code, id) == Frame("pap", code, id, {})
encode_chap_terminal(code, id) == Frame("chap", code, id, {})

\* render_lcp_step
render_lcp_step(acts, id, verdict) ==
  LET rises == "tlu" \in acts /\ ~is_open["lcp"] IN
  /\ to_client' = to_client \o render_send("lcp", acts, id, verdict)
                            \o (IF rises THEN encode_chap_challenge ELSE << >>)
  /\ is_open' = [is_open EXCEPT !["lcp"] = (rises \/ @) /\ "tld" \notin acts]
  /\ phase' = CASE "tlf" \in acts -> "Dead"
                [] rises -> "AuthPending"
                [] OTHER -> phase
  /\ Numbered("lcp", acts)
  /\ apply_timer("lcp", acts)
  /\ UNCHANGED << auth_method, addrs, up >>

\* render_ipcp_step: the first time the automaton opens, NetworkUp.  The
\* session brings the data path up once (kppp.is_none()).
render_ipcp_step(acts, id, verdict) ==
  LET rises == "tlu" \in acts /\ ~is_open["ipcp"] IN
  /\ to_client' = to_client \o render_send("ipcp", acts, id, verdict)
  /\ is_open' = [is_open EXCEPT !["ipcp"] = rises \/ @]
  /\ up' = IF rises /\ up.ip = 0 THEN addrs ELSE up
  /\ phase' = IF "tlf" \in acts THEN "Dead" ELSE phase
  /\ Numbered("ipcp", acts)
  /\ apply_timer("ipcp", acts)
  /\ UNCHANGED << auth_method, addrs >>

Render(proto, acts, id, verdict) ==
  IF proto = "lcp" THEN render_lcp_step(acts, id, verdict)
                   ELSE render_ipcp_step(acts, id, verdict)

\* LcpServer::on_packet, IpcpServer::on_packet
on_packet(f) ==
  LET verdict == IF f.code = "Request" THEN classify_configure_request(f.proto, f.opts)
                                       ELSE Verdict("RCA", "none", {})
  IN /\ peer_mru' = IF f.proto = "lcp" /\ f.code = "Request"
                    THEN captured_mru(f.opts) ELSE peer_mru
     /\ fsm' = [fsm EXCEPT ![f.proto] = step(@, verdict.event)]
     /\ Render(f.proto, actions(fsm[f.proto], verdict.event), f.id, verdict)

\* Mutant: RADIUS policy wins over what the peer can receive.
merged_mtu_framed(framed) == IF framed # 0 THEN framed ELSE peer_mru

\* The smaller of Framed-MTU and the peer's MRU, where both are known.
merged_mtu(framed) ==
  CASE framed = 0 -> peer_mru
    [] peer_mru = 0 -> framed
    [] OTHER -> IF framed < peer_mru THEN framed ELSE peer_mru

\* advance_to_network: the answer to the peer, a new IpcpServer, its request.
advance_to_network(a, answer) ==
  /\ addrs' = [a EXCEPT !.mtu = merged_mtu(a.mtu)]
  /\ phase' = "Network"
  /\ fsm' = [fsm EXCEPT !["ipcp"] = opened]
  /\ is_open' = [is_open EXCEPT !["ipcp"] = FALSE]
  /\ ids' = [ids EXCEPT !["ipcp"] = 1]
  /\ to_client' = to_client \o << answer, Frame("ipcp", "Request", 1, own_options("ipcp")) >>
  /\ timer' = "ipcp"
  /\ UNCHANGED << auth_method, peer_mru, up >>

\* The answer, then Close: Terminate-Request and the end of the driver.
tear_down_after_reject(answer) ==
  /\ to_client' = Append(to_client, answer)
  /\ fsm' = [fsm EXCEPT !["lcp"] = step(@, "Close")]
  /\ is_open' = [is_open EXCEPT !["lcp"] = FALSE]
  /\ phase' = "Dead" /\ timer' = "lcp"
  /\ UNCHANGED << auth_method, ids, peer_mru, addrs, up >>

\* The verdict on PAP and CHAP-MD5 ...
on_auth_result(f) ==
  LET answer(pap, chap) == IF f.proto = "pap" THEN pap_encode_response(pap, f.id)
                                              ELSE encode_chap_terminal(chap, f.id)
  IN \/ \E a \in Assigned : advance_to_network(a, answer("AuthAck", "Success"))
     \/ tear_down_after_reject(answer("AuthNak", "Failure"))

\* ... and on MS-CHAPv2.
on_mschap_result(f) ==
  \/ \E a \in Assigned : advance_to_network(a, encode_chap_terminal("Success", f.id))
  \/ tear_down_after_reject(encode_chap_terminal("Failure", f.id))

ignore == UNCHANGED << server, to_client >>

handle_pap(f) == IF decode_authenticate_request(f) = {} THEN ignore ELSE on_auth_result(f)

\* The value must have the length of the method; MS-CHAPv2 has reserved bytes
\* that must be zero.
handle_chap(f) ==
  LET size == IF decode_challenge_response(f) = {} THEN {} ELSE Values(f.opts, "value") IN
  CASE auth_method = "ChapMd5" /\ size = {16} -> on_auth_result(f)
    [] auth_method = "MsChapV2" /\ size = {49} /\ "reserved" \notin Names(f.opts) ->
         on_mschap_result(f)
    [] OTHER -> ignore

\* handle_lcp, handle_ipcp
handle_cp(f) == IF decode_lcp_packet(f) = {} THEN ignore ELSE on_packet(f)

\* The body names the protocol that is turned away.
protocol_reject(f) ==
  /\ to_client' = IF is_open["lcp"]
                  THEN Append(to_client, Frame("lcp", "ProtocolReject", 0, {<< f.proto, 0 >>}))
                  ELSE to_client
  /\ UNCHANGED server

\* Ppp::on_frame: which protocol is served depends on the phase.
on_frame ==
  /\ to_server # << >> /\ phase # "Dead"
  /\ LET f == Head(to_server)
         protocol == {f.proto} \cap ProtocolId
     IN CASE decode_frame(f) = {} -> ignore
          [] protocol = {"lcp"} -> handle_cp(f)
          [] protocol = {"pap"} /\ phase = "AuthPending" -> handle_pap(f)
          [] protocol = {"chap"} /\ phase = "AuthPending" -> handle_chap(f)
          [] protocol \in {{"pap"}, {"chap"}} /\ phase # "AuthPending" -> ignore
          [] protocol = {"ipcp"} -> IF phase = "Network" THEN handle_cp(f) ELSE ignore
          [] OTHER -> protocol_reject(f)
  /\ to_server' = Tail(to_server)
  /\ UNCHANGED << peer, timeouts, odd >>

\* Ppp::on_timer for the owner of the slot; the slot is emptied first.
on_timer ==
  /\ timer # "none" /\ timeouts < MaxTimeouts /\ phase # "Dead"
  /\ timeouts' = timeouts + 1
  /\ LET acts == actions(fsm[timer], "RestartTimeout")
         none == Verdict("", "none", {})
     IN /\ fsm' = [fsm EXCEPT ![timer] = step(@, "RestartTimeout")]
        /\ to_client' = to_client \o render_send(timer, acts, 0, none)
        /\ Numbered(timer, acts)
        /\ phase' = IF "tlf" \in acts THEN "Dead" ELSE phase
        /\ timer' = IF "start" \in acts THEN timer ELSE "none"
  /\ UNCHANGED << auth_method, is_open, peer_mru, addrs, up, peer, to_server, odd >>
-----------------------------------------------------------------------------
(* The client (external): RFC 1661 over a reliable link.                    *)

ClientOpen(p) == acked[p] /\ ack_sent[p]

Ask(p, opts) ==
  /\ want' = [want EXCEPT ![p] = opts]
  /\ own' = [own EXCEPT ![p] = bump_identifier(@)]
  /\ acked' = [acked EXCEPT ![p] = FALSE]

NextRequest(p) == Frame(p, "Request", own'[p], want'[p])

\* The client starts PPP, or negotiates LCP again.
client_open ==
  /\ client = "idle"
  /\ client' = "establish"
  /\ \E opts \in LcpWants : Ask("lcp", opts)
  /\ to_server' = Append(to_server, NextRequest("lcp"))
  /\ UNCHANGED << server, ack_sent, agreed, ccp, to_client, timeouts, odd >>

client_renegotiate ==
  /\ ClientOpen("lcp") /\ odd < MaxOdd /\ up.ip = 0
  /\ odd' = odd + 1
  /\ \E opts \in LcpWants : Ask("lcp", opts)
  /\ ack_sent' = [ack_sent EXCEPT !["lcp"] = FALSE]
  /\ client' = "establish"
  /\ ccp' = IF ccp = "asked" THEN "idle" ELSE ccp
  /\ to_server' = Append(to_server, NextRequest("lcp"))
  /\ UNCHANGED << server, agreed, to_client, timeouts >>

\* A frame out of turn: damaged, of the wrong kind, or of a protocol not served.
client_stray ==
  /\ client \in {"auth", "network"} /\ odd < MaxOdd /\ to_server = << >>
  /\ odd' = odd + 1
  /\ \E f \in Strays : to_server' = Append(to_server, f)
  /\ UNCHANGED << server, peer, to_client, timeouts >>

\* A Nak's values are adopted, a Reject's options dropped.
Adopt(opts, f) ==
  {o \in opts : o[1] \notin Names(f.opts) \cup {"malformed"}}
    \cup (IF f.code = "Nak" THEN f.opts ELSE {})

Served(f) ==
  CASE f.proto = "lcp" -> client # "failed"
    [] f.proto \in {"pap", "chap"} -> client = "auth"
    [] f.proto = "ipcp" -> client = "network"

Receive(f) ==
  /\ client # "idle" /\ f = Head(to_client)
  /\ to_client' = Tail(to_client)
  /\ UNCHANGED << server, timeouts, odd >>

\* PAP is the client's to start, once LCP is open.
Login == IF auth_method = "Pap" THEN << Frame("pap", "AuthRequest", 0, {}) >> ELSE << >>

\* The server's request is acknowledged; one that comes while the client is
\* open starts the protocol again.
client_request(f) ==
  /\ Receive(f) /\ Served(f) /\ f.code = "Request"
  /\ LET p == f.proto
         ack == Frame(p, "Ack", f.id, f.opts)
         opens == p = "lcp" /\ acked["lcp"]
     IN IF ClientOpen(p)
        THEN /\ Ask(p, want[p])
             /\ to_server' = to_server \o << ack, NextRequest(p) >>
             /\ client' = IF p = "lcp" THEN "establish" ELSE client
             /\ ccp' = IF ccp = "asked" THEN "idle" ELSE ccp
             /\ UNCHANGED << ack_sent, agreed >>
        ELSE /\ ack_sent' = [ack_sent EXCEPT ![p] = TRUE]
             /\ to_server' = Append(to_server, ack) \o (IF opens THEN Login ELSE << >>)
             /\ client' = IF opens THEN "auth" ELSE client
             /\ UNCHANGED << want, own, acked, agreed, ccp >>

client_ack(f) ==
  /\ Receive(f) /\ Served(f) /\ f.code = "Ack" /\ f.id = own[f.proto] /\ ~acked[f.proto]
  /\ acked' = [acked EXCEPT ![f.proto] = TRUE]
  /\ agreed' = [agreed EXCEPT ![f.proto] = f.opts]
  /\ LET opens == f.proto = "lcp" /\ ack_sent["lcp"]
     IN /\ client' = IF opens THEN "auth" ELSE client
        /\ to_server' = to_server \o (IF opens THEN Login ELSE << >>)
  /\ UNCHANGED << want, own, ack_sent, ccp >>

client_refused(f) ==
  /\ Receive(f) /\ Served(f) /\ f.code \in {"Nak", "Reject"} /\ f.id = own[f.proto]
  /\ Ask(f.proto, Adopt(want[f.proto], f))
  /\ to_server' = Append(to_server, NextRequest(f.proto))
  /\ UNCHANGED << ack_sent, agreed, client, ccp >>

client_challenge(f) ==
  /\ Receive(f) /\ Served(f) /\ f.code = "Challenge"
  /\ LET size == IF auth_method = "ChapMd5" THEN 16 ELSE 49
     IN to_server' = Append(to_server, Frame("chap", "Response", f.id, {<< "value", size >>}))
  /\ UNCHANGED peer

client_success(f) ==
  /\ Receive(f) /\ Served(f) /\ f.code \in {"Success", "AuthAck"}
  /\ client' = "network"
  /\ \E opts \in IpcpWants : Ask("ipcp", opts)
  /\ ack_sent' = [ack_sent EXCEPT !["ipcp"] = FALSE]
  /\ to_server' = Append(to_server, NextRequest("ipcp"))
  /\ UNCHANGED << agreed, ccp >>

client_failure(f) ==
  /\ Receive(f) /\ Served(f) /\ f.code \in {"Failure", "AuthNak"}
  /\ client' = "failed"
  /\ UNCHANGED << want, own, acked, ack_sent, agreed, ccp, to_server >>

client_protocol_reject(f) ==
  /\ Receive(f) /\ Served(f) /\ f.code = "ProtocolReject"
  /\ ccp' = IF "ccp" \in Names(f.opts) THEN "rejected" ELSE ccp
  /\ UNCHANGED << want, own, acked, ack_sent, agreed, client, to_server >>

\* Frames of a protocol that is not up, and answers to an earlier request.
client_discard(f) ==
  /\ Receive(f)
  /\ \/ ~Served(f)
     \/ f.code \in {"Nak", "Reject"} /\ f.id # own[f.proto]
     \/ f.code = "Ack" /\ (f.id # own[f.proto] \/ acked[f.proto])
  /\ UNCHANGED << peer, to_server >>

client_receive ==
  \E f \in {to_client[i] : i \in {1} \cap DOMAIN to_client} :
    \/ client_request(f) \/ client_ack(f) \/ client_refused(f)
    \/ client_challenge(f) \/ client_success(f) \/ client_failure(f)
    \/ client_protocol_reject(f) \/ client_discard(f)

\* A Windows client probes CCP once it is in the network phase.
client_ccp ==
  /\ client = "network" /\ ccp = "idle"
  /\ ccp' = "asked"
  /\ to_server' = Append(to_server, Frame("ccp", "Request", 1, {}))
  /\ UNCHANGED << server, want, own, acked, ack_sent, agreed, client, to_client,
                  timeouts, odd >>
-----------------------------------------------------------------------------
Init ==
  /\ auth_method \in Methods
  /\ phase = "Establish"
  /\ fsm = [p \in Proto |-> IF p = "lcp" THEN opened ELSE new]
  /\ ids = [p \in Proto |-> IF p = "lcp" THEN 1 ELSE 0]
  /\ is_open = [p \in Proto |-> FALSE]
  /\ peer_mru = 0 /\ addrs = None /\ timer = "lcp" /\ up = None
  /\ to_server = << >>
  /\ to_client = << Frame("lcp", "Request", 1, own_options("lcp")) >>
  /\ want = [p \in Proto |-> {}] /\ own = [p \in Proto |-> 0]
  /\ acked = [p \in Proto |-> FALSE] /\ ack_sent = [p \in Proto |-> FALSE]
  /\ agreed = [p \in Proto |-> {}]
  /\ client = "idle" /\ ccp = "idle"
  /\ timeouts = 0 /\ odd = 0

Next == on_frame \/ on_timer \/ client_open \/ client_renegotiate \/ client_stray
        \/ client_receive \/ client_ccp

\* The session serves its frames; the client opens, and answers.
Spec ==
  /\ Init /\ [][Next]_vars
  /\ WF_vars(on_frame) /\ WF_vars(client_receive)
  /\ WF_vars(client_open) /\ WF_vars(client_ccp)
-----------------------------------------------------------------------------
(* Properties.                                                              *)

\* Both ends mean the same link: while the server's IPCP is open and the client
\* has its acknowledgement, the address and the DNS servers the client took are
\* the ones the accept assigned, through Naks, Rejects, retransmissions and
\* renegotiations (IpcpServer::classify_configure_request).
SidesAgree ==
  fsm["ipcp"].state = "Opened" /\ phase = "Network" /\ ClientOpen("ipcp")
    /\ client = "network" /\ Len(to_client) = 0
    => /\ Values(agreed["ipcp"], "ip") \subseteq {addrs.ip}
       /\ \A name \in DnsLike : Values(agreed["ipcp"], name) \subseteq {addrs[name]}

\* The netdev comes up with an MTU the client can receive: at NetworkUp it is no
\* larger than the MRU of the LCP request the client had acknowledged last, nor
\* than Framed-MTU.  The MRU is captured when a request is classified and folded
\* in at the accept (advance_to_network), while NetworkUp comes with IPCP.
MtuWithinMru ==
  [][up'.ip # up.ip /\ up'.mtu # 0 =>
       /\ \A m \in Values(agreed["lcp"], "mru") : up'.mtu <= m
       /\ \E a \in Assigned : a.ip = up'.ip /\ (a.mtu # 0 => up'.mtu <= a.mtu)]_vars

\* A client that adopts what is Naked and drops what is Rejected gets its link:
\* every exchange ends in a NetworkUp the client agrees to, with CCP turned
\* away, or in a refused login or an exhausted restart counter.  The client takes
\* the server's own options as they are: one that Naks or Rejects them (driver.rs
\* 246 asks for the same again) is outside this property.
Converges ==
  <>(\/ phase = "Dead"
     \/ up.ip # 0 /\ ClientOpen("ipcp") /\ ccp = "rejected")
=============================================================================

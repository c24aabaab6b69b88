------------------------- MODULE NegotiationProofs -------------------------
(***************************************************************************)
(* Proofs about Negotiation, for any options a client may ask for, any     *)
(* assignment, any stray frames and any bounds.  An accept changes the     *)
(* addresses while acknowledgements under the old ones may be on the way;  *)
(* what saves the agreement is that the request of the new IpcpServer      *)
(* follows the accept at once, and makes the client ask again.             *)
(***************************************************************************)
EXTENDS Negotiation, TLAPS

-----------------------------------------------------------------------------
(* Sequences of frames; a stray frame is of no particular set.             *)

AnySeq(q) == \E S : q \in Seq(S)

\* s is q with r behind it.
Joined(q, r, s) ==
  /\ AnySeq(s) /\ Len(q) \in Nat /\ Len(r) \in Nat /\ Len(s) = Len(q) + Len(r)
  /\ \A k \in 1..Len(q) : s[k] = q[k]
  /\ \A k \in 1..Len(r) : s[Len(q) + k] = r[k]

LEMMA Concat ==
  ASSUME NEW q, NEW r, AnySeq(q), AnySeq(r)
  PROVE  Joined(q, r, q \o r)
<1>1. PICK S : q \in Seq(S) BY ZenonT(60) DEF AnySeq
<1>2. PICK T : r \in Seq(T) BY ZenonT(60) DEF AnySeq
<1>3. q \in Seq(S \cup T) /\ r \in Seq(S \cup T) BY <1>1, <1>2
<1> DEFINE s == q \o r
<1>4. s \in Seq(S \cup T) BY <1>3
<1>5. /\ Len(q) \in Nat /\ Len(r) \in Nat /\ Len(s) = Len(q) + Len(r)
      /\ \A k \in 1..Len(q) : s[k] = q[k]
  BY <1>3
<1>6. \A k \in 1..Len(r) : s[Len(q) + k] = r[k] BY <1>3
<1> HIDE DEF s
<1>7. AnySeq(s) BY ZenonT(60), <1>4 DEF AnySeq
<1>8. Joined(q, r, s) BY ZenonT(60), <1>5, <1>6, <1>7 DEF Joined
<1> QED BY ZenonT(60), <1>8 DEF s

LEMMA Associative ==
  ASSUME NEW q, NEW r, NEW s, AnySeq(q), AnySeq(r), AnySeq(s)
  PROVE  q \o r \o s = q \o (r \o s)
<1>1. PICK S : q \in Seq(S) BY ZenonT(60) DEF AnySeq
<1>2. PICK T : r \in Seq(T) BY ZenonT(60) DEF AnySeq
<1>3. PICK U : s \in Seq(U) BY ZenonT(60) DEF AnySeq
<1> DEFINE A == S \cup T \cup U
<1>4. q \in Seq(A) /\ r \in Seq(A) /\ s \in Seq(A) BY <1>1, <1>2, <1>3
<1> HIDE DEF A
<1> QED BY <1>4

\* s is q without its first element.
Shifted(q, s) ==
  /\ AnySeq(s) /\ Len(q) \in Nat /\ Len(s) = Len(q) - 1
  /\ \A k \in 1..Len(s) : k + 1 \in 1..Len(q) /\ s[k] = q[k + 1]

LEMMA Rest ==
  ASSUME NEW q, AnySeq(q), Len(q) # 0
  PROVE  Shifted(q, Tail(q)) /\ Head(q) = q[1]
<1>1. PICK S : q \in Seq(S) BY ZenonT(60) DEF AnySeq
<1>2. q # << >> BY <1>1
<1> DEFINE s == Tail(q)
<1>3. s \in Seq(S) BY <1>1, <1>2
<1>4. Len(q) \in Nat /\ Len(s) = Len(q) - 1 /\ Head(q) = q[1] BY <1>1, <1>2
<1>5. \A k \in 1..Len(s) : k + 1 \in 1..Len(q) /\ s[k] = q[k + 1] BY <1>1, <1>2
<1> HIDE DEF s
<1>6. AnySeq(s) BY ZenonT(60), <1>3 DEF AnySeq
<1>7. Shifted(q, s) BY ZenonT(60), <1>4, <1>5, <1>6 DEF Shifted
<1> QED BY ZenonT(60), <1>4, <1>7 DEF s

LEMMA Short ==
  /\ AnySeq(<< >>) /\ Len(<< >>) = 0
  /\ \A x : AnySeq(<< x >>) /\ Len(<< x >>) = 1 /\ << x >>[1] = x
  /\ \A x, y : AnySeq(<< x, y >>) /\ Len(<< x, y >>) = 2 /\ << x, y >>[1] = x /\ << x, y >>[2] = y
<1>1. << >> \in Seq({}) /\ Len(<< >>) = 0 OBVIOUS
<1>2. ASSUME NEW x PROVE << x >> \in Seq({x}) /\ Len(<< x >>) = 1 /\ << x >>[1] = x OBVIOUS
<1>3. ASSUME NEW x, NEW y
      PROVE  << x, y >> \in Seq({x, y}) /\ Len(<< x, y >>) = 2 /\ << x, y >>[1] = x /\ << x, y >>[2] = y
  OBVIOUS
<1>4. AnySeq(<< >>) BY ZenonT(60), <1>1 DEF AnySeq
<1>5. ASSUME NEW x PROVE AnySeq(<< x >>) BY ZenonT(60), <1>2 DEF AnySeq
<1>6. ASSUME NEW x, NEW y PROVE AnySeq(<< x, y >>) BY ZenonT(60), <1>3 DEF AnySeq
<1> QED BY ZenonT(60), <1>1, <1>2, <1>3, <1>4, <1>5, <1>6

-----------------------------------------------------------------------------
(* The inductive invariant.                                                *)

Accepts(f) == f.code \in {"Success", "AuthAck"}
Asks(f) == f.proto = "ipcp" /\ f.code = "Request"
Acks(f) == f.proto = "ipcp" /\ f.code = "Ack"

\* The values are those of the accept.
Good(opts) ==
  \A o \in opts : (o[1] = "ip" => o[2] = addrs.ip) /\ (o[1] \in DnsLike => o[2] = addrs[o[1]])

Types ==
  /\ AnySeq(to_client)
  /\ acked \in [Proto -> BOOLEAN] /\ ack_sent \in [Proto -> BOOLEAN]
  /\ agreed = [p \in Proto |-> agreed[p]]

\* The server's first IPCP request is right behind the accept.
RequestFollows ==
  \A k \in 1..Len(to_client) :
    Accepts(to_client[k]) => k + 1 \in 1..Len(to_client) /\ Asks(to_client[k + 1])

\* An acknowledgement no accept has overtaken is one of the values of the accept.
NoAcceptFrom(k) == \A j \in k..Len(to_client) : ~Accepts(to_client[j])
AcksGood ==
  \A k \in 1..Len(to_client) : Acks(to_client[k]) /\ NoAcceptFrom(k) => Good(to_client[k].opts)

\* A client that has not seen that request has no acknowledgement either, and sees it next.
AskedNext == Len(to_client) # 0 /\ Asks(to_client[1])
Unasked == client = "network" /\ ~ack_sent["ipcp"] => ~acked["ipcp"] /\ AskedNext

\* What the client took is what the accept assigned, unless a new accept or the request
\* behind one is on its way.
Took == client = "network" /\ acked["ipcp"] /\ NoAcceptFrom(1) /\ ~AskedNext => Good(agreed["ipcp"])

IInv == Types /\ RequestFollows /\ AcksGood /\ Unasked /\ Took

-----------------------------------------------------------------------------
(* What the server sends.                                                  *)

\* Frames among which there is no accept, and no acknowledgement but of the accept's values.
Quiet(r) == AnySeq(r) /\ \A k \in 1..Len(r) : ~Accepts(r[k]) /\ (Acks(r[k]) => Good(r[k].opts))

LEMMA QuietNone == Quiet(<< >>)
<1>1. \A k \in 1..0 : FALSE OBVIOUS
<1> QED BY ZenonT(60), <1>1, Short DEF Quiet

LEMMA QuietOne ==
  ASSUME NEW f, ~Accepts(f), Acks(f) => Good(f.opts)
  PROVE  Quiet(<< f >>)
<1>1. \A k \in 1..1 : k = 1 OBVIOUS
<1>2. AnySeq(<< f >>) /\ Len(<< f >>) = 1 /\ << f >>[1] = f BY ZenonT(60), Short
<1>3. ASSUME NEW k \in 1..Len(<< f >>) PROVE << f >>[k] = f BY ZenonT(60), <1>1, <1>2
<1> QED BY ZenonT(60), <1>2, <1>3 DEF Quiet

LEMMA Split ==
  ASSUME NEW m \in Nat, NEW n \in Nat, NEW k \in 1..(m + n)
  PROVE  k \in 1..m \/ \E i \in 1..n : k = m + i
<1>1. CASE k <= m BY <1>1
<1>2. CASE k > m
  <2>1. k - m \in 1..n /\ k = m + (k - m) BY <1>2
  <2> QED BY ZenonT(60), <2>1
<1> QED BY <1>1, <1>2

LEMMA QuietConcat ==
  ASSUME NEW q, NEW r, Quiet(q), Quiet(r)
  PROVE  Quiet(q \o r)
<1> DEFINE s == q \o r
<1>1. Joined(q, r, s) BY ZenonT(60), Concat DEF Quiet
<1> HIDE DEF s
<1>2. Len(q) \in Nat /\ Len(r) \in Nat /\ Len(s) = Len(q) + Len(r) BY ZenonT(60), <1>1 DEF Joined
<1>3. ASSUME NEW k \in 1..Len(s)
      PROVE  ~Accepts(s[k]) /\ (Acks(s[k]) => Good(s[k].opts))
  <2>0. k \in 1..(Len(q) + Len(r)) BY ZenonT(60), <1>2
  <2>1. k \in 1..Len(q) \/ \E i \in 1..Len(r) : k = Len(q) + i BY ZenonT(60), <1>2, <2>0, Split
  <2>2. CASE k \in 1..Len(q)
    <3>1. s[k] = q[k] BY ZenonT(60), <1>1, <2>2 DEF Joined
    <3> QED BY ZenonT(60), <2>2, <3>1 DEF Quiet
  <2>3. ASSUME NEW i \in 1..Len(r), k = Len(q) + i
        PROVE  ~Accepts(s[k]) /\ (Acks(s[k]) => Good(s[k].opts))
    <3>1. s[k] = r[i] BY ZenonT(60), <1>1, <2>3 DEF Joined
    <3> QED BY ZenonT(60), <3>1 DEF Quiet
  <2> QED BY ZenonT(60), <2>1, <2>2, <2>3
<1>4. Quiet(s) BY ZenonT(60), <1>1, <1>3 DEF Joined, Quiet
<1> QED BY ZenonT(60), <1>4 DEF s

\* classify_configure_request acknowledges nothing but the accept's values.
LEMMA Verdicts ==
  ASSUME NEW proto \in Proto, NEW opts
  PROVE  LET v == classify_configure_request(proto, opts)
         IN  v.code \in {"Ack", "Nak", "Reject"} /\ (proto = "ipcp" /\ v.code = "Ack" => Good(v.opts))
<1>1. CASE proto = "lcp"
  <2>1. classify_configure_request(proto, opts) = classify_lcp(opts)
    BY ZenonT(60), <1>1 DEF classify_configure_request
  <2>2. classify_lcp(opts).code \in {"Ack", "Reject"} BY DEF classify_lcp, Verdict
  <2> QED BY ZenonT(60), <1>1, <2>1, <2>2
<1>2. CASE proto = "ipcp"
  <2> DEFINE parsed == ConfigOptionIter(opts).parsed
             failed == ConfigOptionIter(opts).failed
             reject == {o \in parsed : judge_ipcp(o) = "reject"}
             nak == {push_v4_option(o[1], addrs[o[1]]) : o \in {p \in parsed : judge_ipcp(p) = "nak"}}
  <2>1. classify_configure_request(proto, opts) = classify_ipcp(opts)
    BY <1>2 DEF classify_configure_request
  <2>2. classify_ipcp(opts) = CASE failed -> Verdict("RCR-", "Nak", {})
                                [] reject # {} -> Verdict("RCR-", "Reject", reject)
                                [] nak # {} -> Verdict("RCR-", "Nak", nak)
                                [] OTHER -> Verdict("RCR+", "Ack", opts)
    BY ZenonT(60) DEF classify_ipcp
  <2>3. ASSUME ~failed, reject = {}, nak = {} PROVE Good(opts)
    <3>1. SUFFICES ASSUME NEW o \in opts
                   PROVE  (o[1] = "ip" => o[2] = addrs.ip) /\ (o[1] \in DnsLike => o[2] = addrs[o[1]])
      BY ZenonT(60) DEF Good
    <3>2. ASSUME o[1] = "ip" \/ o[1] \in DnsLike PROVE o \in parsed
      BY <3>2 DEF ConfigOptionIter, DnsLike, IpcpOptionId
    <3>3. ASSUME o \in parsed PROVE judge_ipcp(o) # "reject" /\ judge_ipcp(o) # "nak"
      BY ZenonT(60), <2>3, <3>3
    <3>4. ASSUME o[1] = "ip" PROVE o[2] = addrs.ip
      <4>1. judge_ipcp(o) = IF addrs.ip \in read_ipv4_value(o) THEN "accept" ELSE "nak"
        BY <3>4 DEF judge_ipcp, DnsLike, IpcpOptionId
      <4>2. addrs.ip \in read_ipv4_value(o) BY ZenonT(60), <3>2, <3>3, <3>4, <4>1
      <4> QED BY ZenonT(60), <4>2 DEF read_ipv4_value
    <3>5. ASSUME o[1] \in DnsLike PROVE o[2] = addrs[o[1]]
      <4>0. o[1] # "ip" BY <3>5 DEF DnsLike
      <4>1. judge_ipcp(o) = handle_optional_dns_like(o, addrs[o[1]])
        BY <3>5, <4>0 DEF judge_ipcp
      <4>2. addrs[o[1]] \in read_ipv4_value(o)
        BY <3>2, <3>3, <3>5, <4>1 DEF handle_optional_dns_like
      <4> QED BY ZenonT(60), <4>2 DEF read_ipv4_value
    <3> QED BY ZenonT(60), <3>4, <3>5
  <2> HIDE DEF parsed, failed, reject, nak
  <2>4. CASE failed BY <2>1, <2>2, <2>4 DEF Verdict
  <2>5. CASE ~failed /\ reject # {} BY <2>1, <2>2, <2>5 DEF Verdict
  <2>6. CASE ~failed /\ reject = {} /\ nak # {} BY <2>1, <2>2, <2>6 DEF Verdict
  <2>7. CASE ~failed /\ reject = {} /\ nak = {}
    <3>1. classify_configure_request(proto, opts) = [event |-> "RCR+", code |-> "Ack", opts |-> opts]
      BY <2>1, <2>2, <2>7 DEF Verdict
    <3> QED BY <2>3, <2>7, <3>1
  <2> QED BY ZenonT(60), <2>4, <2>5, <2>6, <2>7
<1> QED BY ZenonT(60), <1>1, <1>2 DEF Proto

\* render_send adds its own request and the verdict.
LEMMA RenderSend ==
  ASSUME NEW proto, NEW acts, NEW id, NEW verdict, verdict.code \notin {"Success", "AuthAck"},
         proto = "ipcp" /\ verdict.code = "Ack" => Good(verdict.opts)
  PROVE  Quiet(render_send(proto, acts, id, verdict))
<1> DEFINE request == Frame(proto, "Request", bump_identifier(ids[proto]), own_options(proto))
           answer == Frame(proto, verdict.code, id, verdict.opts)
           first == IF "scr" \in acts THEN << request >> ELSE << >>
           second == IF {"sca", "scn"} \cap acts # {} THEN << answer >> ELSE << >>
<1>1. request.proto = proto /\ request.code = "Request" BY DEF Frame
<1>2. answer.proto = proto /\ answer.code = verdict.code /\ answer.opts = verdict.opts BY DEF Frame
<1>3. render_send(proto, acts, id, verdict) = first \o second BY ZenonT(60) DEF render_send
<1> HIDE DEF request, answer
<1>4. Quiet(<< request >>)
  <2>1. ~Accepts(request) /\ ~Acks(request) BY <1>1 DEF Accepts, Acks
  <2> QED BY ZenonT(60), <2>1, QuietOne
<1>5. Quiet(<< answer >>)
  <2>1. ~Accepts(answer) BY ZenonT(60), <1>2 DEF Accepts
  <2>2. Acks(answer) => Good(answer.opts) BY ZenonT(60), <1>2 DEF Acks
  <2> QED BY ZenonT(60), <2>1, <2>2, QuietOne
<1>6. Quiet(first) BY ZenonT(60), <1>4, QuietNone
<1>7. Quiet(second) BY ZenonT(60), <1>5, QuietNone
<1> HIDE DEF first, second
<1> QED BY ZenonT(60), <1>3, <1>6, <1>7, QuietConcat

\* What the server may add to its stream: quiet frames, or an accept and the first request
\* of a new IpcpServer.
Adds(r) ==
  \/ Quiet(r) /\ addrs' = addrs
  \/ AnySeq(r) /\ Len(r) = 2 /\ Accepts(r[1]) /\ Asks(r[2])

LEMMA OnPacket ==
  ASSUME AnySeq(to_client), NEW f, f.proto \in Proto, on_packet(f)
  PROVE  \E r : to_client' = to_client \o r /\ Adds(r)
<1> DEFINE verdict == IF f.code = "Request" THEN classify_configure_request(f.proto, f.opts)
                                            ELSE Verdict("RCA", "none", {})
           acts == actions(fsm[f.proto], verdict.event)
           sent == render_send(f.proto, acts, f.id, verdict)
<1>1. /\ verdict.code \notin {"Success", "AuthAck"}
      /\ f.proto = "ipcp" /\ verdict.code = "Ack" => Good(verdict.opts)
  <2>1. CASE f.code = "Request" BY <2>1, Verdicts
  <2>2. CASE f.code # "Request" BY <2>2 DEF Verdict
  <2> QED BY ZenonT(60), <2>1, <2>2
<1>2. Render(f.proto, acts, f.id, verdict) BY ZenonT(60) DEF on_packet
<1> HIDE DEF verdict, acts
<1>3. Quiet(sent) BY ZenonT(60), <1>1, RenderSend
<1>4. CASE f.proto = "lcp"
  <2> DEFINE rises == "tlu" \in acts /\ ~is_open["lcp"]
             more == IF rises THEN encode_chap_challenge ELSE << >>
  <2>1. render_lcp_step(acts, f.id, verdict) BY ZenonT(60), <1>2, <1>4 DEF Render
  <2>2. to_client' = to_client \o sent \o more /\ addrs' = addrs
    BY ZenonT(60), <1>4, <2>1 DEF render_lcp_step
  <2>3. Quiet(encode_chap_challenge)
    <3> DEFINE challenge == Frame("chap", "Challenge", 0, {<< "value", 16 >>})
    <3>1. ~Accepts(challenge) /\ ~Acks(challenge) BY DEF Accepts, Acks, Frame
    <3>2. encode_chap_challenge = << >> \/ encode_chap_challenge = << challenge >>
      BY ZenonT(60) DEF encode_chap_challenge
    <3> HIDE DEF challenge
    <3> QED BY ZenonT(60), <3>1, <3>2, QuietOne, QuietNone
  <2>4. Quiet(more) BY ZenonT(60), <2>3, QuietNone
  <2> HIDE DEF more, sent
  <2>5. to_client \o sent \o more = to_client \o (sent \o more)
    <3>1. AnySeq(sent) /\ AnySeq(more) BY ZenonT(60), <1>3, <2>4 DEF Quiet
    <3> QED BY <3>1, Associative
  <2> QED BY ZenonT(60), <1>3, <2>2, <2>4, <2>5, QuietConcat DEF Adds
<1>5. CASE f.proto = "ipcp"
  <2>1. render_ipcp_step(acts, f.id, verdict) BY <1>2, <1>5 DEF Render
  <2>2. to_client' = to_client \o sent /\ addrs' = addrs
    BY ZenonT(60), <1>5, <2>1 DEF render_ipcp_step
  <2> HIDE DEF sent
  <2> QED BY ZenonT(60), <1>3, <2>2 DEF Adds
<1> QED BY ZenonT(60), <1>4, <1>5 DEF Proto

\* A verdict of RADIUS: the accept and a new IpcpServer, or the refusal.
LEMMA OnVerdict ==
  ASSUME NEW f, on_auth_result(f) \/ on_mschap_result(f)
  PROVE  \E r : (to_client' = to_client \o r \/ \E x : r = << x >> /\ to_client' = Append(to_client, x)) /\ Adds(r)
<1>1. ASSUME NEW a, NEW x, Accepts(x), advance_to_network(a, x)
      PROVE  \E r : to_client' = to_client \o r /\ Adds(r)
  <2> DEFINE request == Frame("ipcp", "Request", 1, own_options("ipcp"))
             r == << x, request >>
  <2>1. to_client' = to_client \o r BY ZenonT(60), <1>1 DEF advance_to_network
  <2>2. Asks(request) BY DEF Asks, Frame
  <2> HIDE DEF request
  <2>3. AnySeq(r) /\ Len(r) = 2 /\ r[1] = x /\ r[2] = request BY ZenonT(60), Short
  <2> HIDE DEF r
  <2>4. Adds(r) BY ZenonT(60), <1>1, <2>2, <2>3 DEF Adds
  <2> QED BY ZenonT(60), <2>1, <2>4
<1>2. ASSUME NEW x, ~Accepts(x), ~Acks(x), tear_down_after_reject(x)
      PROVE  \E r : r = << x >> /\ to_client' = Append(to_client, x) /\ Adds(r)
  <2>1. to_client' = Append(to_client, x) /\ addrs' = addrs BY ZenonT(60), <1>2 DEF tear_down_after_reject
  <2>2. Quiet(<< x >>) BY ZenonT(60), <1>2, QuietOne
  <2> QED BY ZenonT(60), <2>1, <2>2 DEF Adds
<1>3. /\ Accepts(pap_encode_response("AuthAck", f.id)) /\ Accepts(encode_chap_terminal("Success", f.id))
      /\ ~Accepts(pap_encode_response("AuthNak", f.id)) /\ ~Accepts(encode_chap_terminal("Failure", f.id))
      /\ ~Acks(pap_encode_response("AuthNak", f.id)) /\ ~Acks(encode_chap_terminal("Failure", f.id))
  BY DEF Accepts, Acks, Frame, pap_encode_response, encode_chap_terminal
<1>4. CASE on_auth_result(f)
  <2> DEFINE yes == IF f.proto = "pap" THEN pap_encode_response("AuthAck", f.id) ELSE encode_chap_terminal("Success", f.id)
             no == IF f.proto = "pap" THEN pap_encode_response("AuthNak", f.id) ELSE encode_chap_terminal("Failure", f.id)
  <2>1. (\E a \in Assigned : advance_to_network(a, yes)) \/ tear_down_after_reject(no)
    BY ZenonT(60), <1>4 DEF on_auth_result
  <2>2. Accepts(yes) /\ ~Accepts(no) /\ ~Acks(no) BY ZenonT(60), <1>3
  <2> HIDE DEF yes, no
  <2> QED BY ZenonT(60), <1>1, <1>2, <2>1, <2>2
<1>5. CASE on_mschap_result(f)
  <2>1. \/ \E a \in Assigned : advance_to_network(a, encode_chap_terminal("Success", f.id))
        \/ tear_down_after_reject(encode_chap_terminal("Failure", f.id))
    BY ZenonT(60), <1>5 DEF on_mschap_result
  <2> QED BY ZenonT(60), <1>1, <1>2, <1>3, <2>1
<1> QED BY ZenonT(60), <1>4, <1>5

\* Which handler a frame gets.
LEMMA Handlers ==
  ASSUME on_frame
  PROVE  \E f : \/ ignore \/ (f.proto \in Proto /\ on_packet(f))
                \/ on_auth_result(f) \/ on_mschap_result(f) \/ protocol_reject(f)
<1> DEFINE f == Head(to_server)
           protocol == {f.proto} \cap ProtocolId
<1> HIDE DEF f, protocol
<1>1. \/ ignore \/ ((protocol = {"lcp"} \/ protocol = {"ipcp"}) /\ handle_cp(f))
      \/ handle_pap(f) \/ handle_chap(f) \/ protocol_reject(f)
  BY ZenonT(60) DEF on_frame, f, protocol
<1>2. CASE (protocol = {"lcp"} \/ protocol = {"ipcp"}) /\ handle_cp(f)
  <2>1. f.proto \in Proto BY ZenonT(60), <1>2 DEF protocol, Proto
  <2> QED BY ZenonT(60), <1>2, <2>1 DEF handle_cp
<1>3. CASE handle_pap(f) BY ZenonT(60), <1>3 DEF handle_pap
<1>4. CASE handle_chap(f) BY ZenonT(60), <1>4 DEF handle_chap
<1> QED BY ZenonT(60), <1>1, <1>2, <1>3, <1>4

\* Every step of the server leaves the client alone and adds to its stream.
LEMMA ServerAdds ==
  ASSUME AnySeq(to_client), on_frame \/ on_timer
  PROVE  UNCHANGED peer /\ \E r : to_client' = to_client \o r /\ Adds(r)
<1>0. UNCHANGED peer BY ZenonT(60) DEF on_frame, on_timer
<1>1. ASSUME NEW r, NEW x, r = << x >>, to_client' = Append(to_client, x) PROVE to_client' = to_client \o r
  <2>1. PICK S : to_client \in Seq(S) BY ZenonT(60) DEF AnySeq
  <2>2. to_client \in Seq(S \cup {x}) BY <2>1
  <2> QED BY <1>1, <2>2
<1>2. ASSUME to_client' = to_client, addrs' = addrs PROVE \E r : to_client' = to_client \o r /\ Adds(r)
  <2>1. PICK S : to_client \in Seq(S) BY ZenonT(60) DEF AnySeq
  <2>2. to_client' = to_client \o << >> BY <1>2, <2>1
  <2> QED BY ZenonT(60), <1>2, <2>2, QuietNone DEF Adds
<1>3. CASE on_frame
  <2>1. PICK f : \/ ignore \/ (f.proto \in Proto /\ on_packet(f))
                 \/ on_auth_result(f) \/ on_mschap_result(f) \/ protocol_reject(f)
    BY ZenonT(60), <1>3, Handlers
  <2>2. CASE ignore BY ZenonT(60), <1>0, <1>2, <2>2 DEF ignore, server
  <2>3. CASE f.proto \in Proto /\ on_packet(f) BY ZenonT(60), <1>0, <2>3, OnPacket
  <2>4. CASE on_auth_result(f) \/ on_mschap_result(f) BY ZenonT(60), <1>0, <1>1, <2>4, OnVerdict
  <2>5. CASE protocol_reject(f)
    <3> DEFINE reject == Frame("lcp", "ProtocolReject", 0, {<< f.proto, 0 >>})
    <3>1. ~Accepts(reject) /\ ~Acks(reject) BY DEF Accepts, Acks, Frame
    <3>2. addrs' = addrs /\ (to_client' = to_client \/ to_client' = Append(to_client, reject))
      BY ZenonT(60), <2>5 DEF protocol_reject, server
    <3> HIDE DEF reject
    <3>3. Adds(<< reject >>) BY ZenonT(60), <3>1, <3>2, QuietOne DEF Adds
    <3> QED BY ZenonT(60), <1>0, <1>1, <1>2, <3>2, <3>3
  <2> QED BY ZenonT(60), <2>1, <2>2, <2>3, <2>4, <2>5
<1>4. CASE on_timer
  <2> DEFINE acts == actions(fsm[timer], "RestartTimeout")
             none == Verdict("", "none", {})
             sent == render_send(timer, acts, 0, none)
  <2>1. to_client' = to_client \o sent /\ addrs' = addrs BY ZenonT(60), <1>4 DEF on_timer
  <2>2. none.code = "none" BY DEF Verdict
  <2> HIDE DEF none, acts
  <2>3. Quiet(sent)
    <3>1. none.code \notin {"Success", "AuthAck"} /\ none.code # "Ack" BY <2>2
    <3> QED BY ZenonT(60), <3>1, RenderSend
  <2> HIDE DEF sent
  <2> QED BY ZenonT(60), <1>0, <2>1, <2>3 DEF Adds
<1> QED BY ZenonT(60), <1>0, <1>3, <1>4

\* What the server adds keeps the invariant.
LEMMA AddsKeep ==
  ASSUME IInv, UNCHANGED peer, NEW r, to_client' = to_client \o r, Adds(r)
  PROVE  IInv'
<1> DEFINE n == Len(to_client)
<1>1. Joined(to_client, r, to_client')
  <2>1. AnySeq(to_client) /\ AnySeq(r) BY ZenonT(60) DEF IInv, Types, Adds, Quiet
  <2> QED BY ZenonT(60), <2>1, Concat
<1>2. /\ AnySeq(to_client') /\ n \in Nat /\ Len(r) \in Nat /\ Len(to_client') = n + Len(r)
      /\ \A k \in 1..n : to_client'[k] = to_client[k]
      /\ \A k \in 1..Len(r) : to_client'[n + k] = r[k]
  BY ZenonT(60), <1>1 DEF Joined
<1>3. /\ want' = want /\ own' = own /\ acked' = acked /\ ack_sent' = ack_sent /\ agreed' = agreed /\ client' = client
  BY ZenonT(60) DEF peer
<1>4. Types' BY ZenonT(60), <1>2, <1>3 DEF IInv, Types
<1>5. ASSUME NEW k \in 1..Len(to_client')
      PROVE  (k \in 1..n /\ to_client'[k] = to_client[k]) \/ \E i \in 1..Len(r) : k = n + i /\ to_client'[k] = r[i]
  <2>1. k \in 1..(n + Len(r)) BY ZenonT(60), <1>2
  <2>2. k \in 1..n \/ \E i \in 1..Len(r) : k = n + i BY ZenonT(60), <1>2, <2>1, Split
  <2> QED BY ZenonT(60), <1>2, <2>2
<1>6. ASSUME NEW i \in 1..Len(r) PROVE n + i \in 1..Len(to_client') BY <1>2
<1>7. ASSUME NEW k \in 1..n PROVE k \in 1..Len(to_client') BY <1>2
<1> HIDE DEF n
<1>8. RequestFollows'
  <2>1. SUFFICES ASSUME NEW k \in 1..Len(to_client'), Accepts(to_client'[k])
                 PROVE  k + 1 \in 1..Len(to_client') /\ Asks(to_client'[k + 1])
    BY ZenonT(60) DEF RequestFollows, Accepts, Asks
  <2>2. CASE k \in 1..n
    <3>1. k + 1 \in 1..n /\ Asks(to_client[k + 1])
      BY ZenonT(60), <1>2, <2>1, <2>2 DEF IInv, RequestFollows, n
    <3> QED BY ZenonT(60), <1>2, <1>7, <3>1
  <2>3. ASSUME NEW i \in 1..Len(r), k = n + i, to_client'[k] = r[i]
        PROVE  k + 1 \in 1..Len(to_client') /\ Asks(to_client'[k + 1])
    <3>1. Len(r) = 2 /\ Accepts(r[1]) /\ Asks(r[2]) BY ZenonT(60), <2>1, <2>3 DEF Adds, Quiet
    <3>2. ~Accepts(r[2]) BY <3>1 DEF Accepts, Asks
    <3>3. i = 1 \/ i = 2 BY <2>3, <3>1
    <3>4. i = 1 BY ZenonT(60), <2>1, <2>3, <3>2, <3>3
    <3>5. 2 \in 1..Len(r) /\ k + 1 = n + 2 BY <1>2, <2>3, <3>1, <3>4
    <3> QED BY ZenonT(60), <1>2, <1>6, <3>1, <3>5
  <2> QED BY ZenonT(60), <1>5, <2>2, <2>3
<1>9. ASSUME NEW k \in 1..n, NoAcceptFrom(k)' PROVE NoAcceptFrom(k)
  <2>1. ASSUME NEW j \in k..n PROVE j \in 1..n /\ j \in k..Len(to_client') BY <1>2
  <2> QED BY ZenonT(60), <1>2, <1>9, <2>1 DEF NoAcceptFrom, Accepts, n
<1>10. ASSUME Len(r) = 2, Accepts(r[1]), Asks(r[2]) PROVE AcksGood' /\ Took'
  <2>1. 1 \in 1..Len(r) /\ 2 \in 1..Len(r) BY <1>10
  <2>2. Accepts(to_client'[n + 1]) /\ to_client'[n + 2] = r[2] BY ZenonT(60), <1>2, <1>10, <2>1
  <2>3. n + 1 \in 1..Len(to_client') BY ZenonT(60), <1>6, <2>1
  <2>4. ASSUME NEW k \in 1..n PROVE n + 1 \in k..Len(to_client') BY <1>2, <2>3
  <2>5. ~NoAcceptFrom(1)'
    <3>1. n + 1 \in 1..Len(to_client') BY <2>3
    <3> QED BY ZenonT(60), <2>2, <3>1 DEF NoAcceptFrom, Accepts
  <2>6. AcksGood'
    <3>1. SUFFICES ASSUME NEW k \in 1..Len(to_client'), Acks(to_client'[k]), NoAcceptFrom(k)' PROVE FALSE
      BY ZenonT(60) DEF AcksGood, Acks
    <3>2. CASE k \in 1..n BY ZenonT(60), <2>2, <2>4, <3>1, <3>2 DEF NoAcceptFrom, Accepts
    <3>3. ASSUME NEW i \in 1..Len(r), k = n + i, to_client'[k] = r[i] PROVE FALSE
      <4>1. i = 1 \/ i = 2 BY <1>10, <3>3
      <4>2. ~Acks(r[1]) /\ ~Acks(r[2]) BY <1>10 DEF Accepts, Asks, Acks
      <4> QED BY ZenonT(60), <3>1, <3>3, <4>1, <4>2
    <3> QED BY ZenonT(60), <1>5, <3>2, <3>3
  <2> QED BY ZenonT(60), <2>5, <2>6 DEF Took
<1>11. ASSUME n # 0 PROVE Len(to_client') # 0 /\ to_client'[1] = to_client[1]
  <2>1. 1 \in 1..n /\ Len(to_client') # 0 BY <1>2, <1>11
  <2> QED BY ZenonT(60), <1>2, <2>1
<1>12. AskedNext => AskedNext'
  <2>1. ASSUME AskedNext PROVE AskedNext'
    <3>1. n # 0 /\ Asks(to_client[1]) BY ZenonT(60), <2>1 DEF AskedNext, n
    <3> QED BY ZenonT(60), <1>11, <3>1 DEF AskedNext, Asks
  <2> QED BY ZenonT(60), <2>1
<1>13. Unasked'
  <2>1. Unasked BY ZenonT(60) DEF IInv
  <2> QED BY ZenonT(60), <1>3, <1>12, <2>1 DEF Unasked
<1>14. ASSUME Quiet(r), addrs' = addrs PROVE AcksGood' /\ Took'
  <2>2. AcksGood'
    <3>1. SUFFICES ASSUME NEW k \in 1..Len(to_client'), Acks(to_client'[k]), NoAcceptFrom(k)'
                   PROVE  Good(to_client'[k].opts)
      BY ZenonT(60), <1>14 DEF AcksGood, Acks, Good
    <3>2. CASE k \in 1..n
      <4>1. to_client'[k] = to_client[k] /\ NoAcceptFrom(k) BY ZenonT(60), <1>2, <1>9, <3>1, <3>2
      <4>2. Good(to_client[k].opts) BY ZenonT(60), <3>1, <3>2, <4>1 DEF IInv, AcksGood, n
      <4> QED BY ZenonT(60), <4>1, <4>2
    <3>3. ASSUME NEW i \in 1..Len(r), k = n + i, to_client'[k] = r[i] PROVE Good(to_client'[k].opts)
      <4>1. Good(r[i].opts) BY ZenonT(60), <1>14, <3>1, <3>3 DEF Quiet
      <4> QED BY ZenonT(60), <3>3, <4>1
    <3> QED BY ZenonT(60), <1>5, <3>2, <3>3
  <2>3. Took'
    <3>1. SUFFICES ASSUME client' = "network", acked'["ipcp"], NoAcceptFrom(1)', ~AskedNext'
                   PROVE  Good(agreed["ipcp"])
      BY ZenonT(60), <1>3, <1>14 DEF Took, Good
    <3>2. NoAcceptFrom(1)
      <4>1. CASE 1 \in 1..n BY ZenonT(60), <1>9, <3>1, <4>1
      <4>2. CASE 1 \notin 1..n
        <5>1. \A j : j \notin 1..n BY <1>2, <4>2
        <5> QED BY ZenonT(60), <5>1 DEF NoAcceptFrom, n
      <4> QED BY ZenonT(60), <4>1, <4>2
    <3> QED BY ZenonT(60), <1>3, <1>12, <3>1, <3>2 DEF IInv, Took
  <2> QED BY ZenonT(60), <2>2, <2>3
<1>15. AcksGood' /\ Took' BY ZenonT(60), <1>10, <1>14 DEF Adds
<1> QED BY ZenonT(60), <1>4, <1>8, <1>13, <1>15 DEF IInv

-----------------------------------------------------------------------------
(* What the client makes of it.                                            *)

\* A step of the client that reads nothing.
LEMMA ClientSends ==
  ASSUME IInv, client_open \/ client_renegotiate \/ client_stray \/ client_ccp
  PROVE  IInv'
<1>1. to_client' = to_client /\ addrs' = addrs
  BY ZenonT(60) DEF client_open, client_renegotiate, client_stray, client_ccp, server
<1>2. Types'
  <2>1. CASE client_open \/ client_renegotiate
    <3>1. acked' = [acked EXCEPT !["lcp"] = FALSE] BY ZenonT(60), <2>1 DEF client_open, client_renegotiate, Ask
    <3>2. ack_sent' = ack_sent \/ ack_sent' = [ack_sent EXCEPT !["lcp"] = FALSE]
      BY ZenonT(60), <2>1 DEF client_open, client_renegotiate
    <3>3. agreed' = agreed BY ZenonT(60), <2>1 DEF client_open, client_renegotiate
    <3>4. acked' \in [Proto -> BOOLEAN] BY ZenonT(60), <3>1 DEF IInv, Types
    <3>5. ack_sent' \in [Proto -> BOOLEAN] BY ZenonT(60), <3>2 DEF IInv, Types
    <3> QED BY ZenonT(60), <1>1, <3>3, <3>4, <3>5 DEF IInv, Types
  <2>2. CASE client_stray \/ client_ccp
    BY ZenonT(60), <1>1, <2>2 DEF client_stray, client_ccp, peer, IInv, Types
  <2> QED BY ZenonT(60), <2>1, <2>2
<1>3. RequestFollows' /\ AcksGood'
  BY ZenonT(60), <1>1 DEF IInv, RequestFollows, AcksGood, NoAcceptFrom, Good
<1>4. \/ client' # "network"
      \/ acked' = acked /\ ack_sent' = ack_sent /\ agreed' = agreed /\ client' = client
  BY ZenonT(60) DEF client_open, client_renegotiate, client_stray, client_ccp, peer
<1>5. Unasked' BY ZenonT(60), <1>1, <1>4 DEF IInv, Unasked, AskedNext
<1>6. Took' BY ZenonT(60), <1>1, <1>4 DEF IInv, Took, AskedNext, NoAcceptFrom, Good
<1> QED BY ZenonT(60), <1>2, <1>3, <1>5, <1>6 DEF IInv

\* What the frame that is read does to the client's side of IPCP.
Reads(f) ==
  \/ client' # "network"
  \/ Accepts(f) /\ ~acked'["ipcp"] /\ ~ack_sent'["ipcp"]
  \/ client = "network" /\ Asks(f) /\ ~acked'["ipcp"] /\ ack_sent'["ipcp"]
  \/ client = "network" /\ Acks(f) /\ agreed'["ipcp"] = f.opts /\ (ack_sent'["ipcp"] <=> ack_sent["ipcp"])
  \/ /\ client = "network" /\ ~Asks(f) /\ (acked'["ipcp"] => acked["ipcp"])
     /\ agreed'["ipcp"] = agreed["ipcp"] /\ (ack_sent'["ipcp"] <=> ack_sent["ipcp"])

OwnTypes ==
  acked \in [Proto -> BOOLEAN] /\ ack_sent \in [Proto -> BOOLEAN] /\ agreed = [p \in Proto |-> agreed[p]]

LEMMA ReadRequest ==
  ASSUME OwnTypes, Unasked, NEW f, client_request(f)
  PROVE  OwnTypes' /\ Reads(f)
<1> DEFINE p == f.proto
<1>0. f.code = "Request" /\ Served(f) BY ZenonT(60) DEF client_request
<1>1. CASE ClientOpen(p)
  <2>1. /\ acked' = [acked EXCEPT ![p] = FALSE] /\ ack_sent' = ack_sent /\ agreed' = agreed
        /\ client' = IF p = "lcp" THEN "establish" ELSE client
    BY ZenonT(60), <1>1 DEF client_request, Ask
  <2>2. OwnTypes' BY ZenonT(60), <2>1 DEF OwnTypes
  <2>3. CASE p = "lcp" BY ZenonT(60), <2>1, <2>2, <2>3 DEF Reads
  <2>4. CASE p = "ipcp"
    <3>1. ~acked'["ipcp"] BY <2>1, <2>4 DEF OwnTypes, Proto
    <3>2. ack_sent'["ipcp"] BY ZenonT(60), <1>1, <2>1, <2>4 DEF ClientOpen
    <3>3. client = "network" BY <1>0, <2>4 DEF Served
    <3>4. Asks(f) BY ZenonT(60), <1>0, <2>4 DEF Asks
    <3> QED BY ZenonT(60), <2>2, <3>1, <3>2, <3>3, <3>4 DEF Reads
  <2>5. CASE p # "lcp" /\ p # "ipcp"
    <3>1. acked'["ipcp"] = acked["ipcp"] BY ZenonT(60), <2>1, <2>5 DEF OwnTypes, Proto
    <3>2. ~Asks(f) BY ZenonT(60), <2>5 DEF Asks
    <3> QED BY ZenonT(60), <2>1, <2>2, <2>5, <3>1, <3>2 DEF Reads
  <2> QED BY ZenonT(60), <2>3, <2>4, <2>5
<1>2. CASE ~ClientOpen(p)
  <2>1. /\ ack_sent' = [ack_sent EXCEPT ![p] = TRUE] /\ acked' = acked /\ agreed' = agreed
        /\ client' = "auth" \/ client' = client
    BY ZenonT(60), <1>2 DEF client_request
  <2>2. OwnTypes' BY ZenonT(60), <2>1 DEF OwnTypes
  <2>3. CASE p = "ipcp"
    <3>1. ack_sent'["ipcp"] BY <2>1, <2>3 DEF OwnTypes, Proto
    <3>2. client = "network" BY <1>0, <2>3 DEF Served
    <3>3. ~acked["ipcp"] BY ZenonT(60), <1>2, <2>3, <3>2 DEF ClientOpen, Unasked
    <3>4. Asks(f) BY ZenonT(60), <1>0, <2>3 DEF Asks
    <3> QED BY ZenonT(60), <2>1, <2>2, <3>1, <3>2, <3>3, <3>4 DEF Reads
  <2>4. CASE p # "ipcp"
    <3>1. ack_sent'["ipcp"] = ack_sent["ipcp"] BY ZenonT(60), <2>1, <2>4 DEF OwnTypes, Proto
    <3>2. ~Asks(f) BY ZenonT(60), <2>4 DEF Asks
    <3>3. client' = "auth" => client' # "network" OBVIOUS
    <3> QED BY ZenonT(60), <2>1, <2>2, <3>1, <3>2, <3>3 DEF Reads
  <2> QED BY ZenonT(60), <2>3, <2>4
<1> QED BY ZenonT(60), <1>1, <1>2

LEMMA ReadAnswer ==
  ASSUME OwnTypes, NEW f, client_ack(f) \/ client_refused(f)
  PROVE  OwnTypes' /\ Reads(f)
<1> DEFINE p == f.proto
<1>1. CASE client_ack(f)
  <2>1. /\ acked' = [acked EXCEPT ![p] = TRUE] /\ agreed' = [agreed EXCEPT ![p] = f.opts]
        /\ ack_sent' = ack_sent /\ f.code = "Ack" /\ Served(f)
    BY ZenonT(60), <1>1 DEF client_ack
  <2>2. client' = "auth" \/ client' = client BY ZenonT(60), <1>1 DEF client_ack
  <2>3. OwnTypes' BY ZenonT(60), <2>1 DEF OwnTypes
  <2>4. ~Asks(f) BY <2>1 DEF Asks
  <2>5. CASE p = "ipcp"
    <3>1. agreed'["ipcp"] = f.opts BY <2>1, <2>5 DEF OwnTypes, Proto
    <3>2. client = "network" BY <2>1, <2>5 DEF Served
    <3>3. Acks(f) BY ZenonT(60), <2>1, <2>5 DEF Acks
    <3> QED BY ZenonT(60), <2>1, <2>3, <3>1, <3>2, <3>3 DEF Reads
  <2>6. CASE p # "ipcp"
    <3>1. acked'["ipcp"] = acked["ipcp"] /\ agreed'["ipcp"] = agreed["ipcp"]
      BY ZenonT(60), <2>1, <2>6 DEF OwnTypes, Proto
    <3>2. client' = "auth" => client' # "network" OBVIOUS
    <3> QED BY ZenonT(60), <2>1, <2>2, <2>3, <2>4, <3>1, <3>2 DEF Reads
  <2> QED BY ZenonT(60), <2>5, <2>6
<1>2. CASE client_refused(f)
  <2>1. /\ acked' = [acked EXCEPT ![p] = FALSE] /\ agreed' = agreed
        /\ ack_sent' = ack_sent /\ client' = client /\ f.code \in {"Nak", "Reject"}
    BY ZenonT(60), <1>2 DEF client_refused, Ask
  <2>2. OwnTypes' BY ZenonT(60), <2>1 DEF OwnTypes
  <2>3. acked'["ipcp"] => acked["ipcp"] BY <2>1 DEF OwnTypes, Proto
  <2>4. ~Asks(f) BY <2>1 DEF Asks
  <2> QED BY ZenonT(60), <2>1, <2>2, <2>3, <2>4 DEF Reads
<1> QED BY ZenonT(60), <1>1, <1>2

LEMMA ReadLogin ==
  ASSUME OwnTypes, NEW f, client_challenge(f) \/ client_success(f) \/ client_failure(f)
  PROVE  OwnTypes' /\ Reads(f)
<1>1. CASE client_challenge(f)
  <2>1. UNCHANGED << acked, ack_sent, agreed, client >> /\ f.code = "Challenge"
    BY ZenonT(60), <1>1 DEF client_challenge, peer
  <2>2. ~Asks(f) BY <2>1 DEF Asks
  <2> QED BY ZenonT(60), <2>1, <2>2 DEF Reads, OwnTypes
<1>2. CASE client_success(f)
  <2>1. /\ acked' = [acked EXCEPT !["ipcp"] = FALSE] /\ agreed' = agreed
        /\ ack_sent' = [ack_sent EXCEPT !["ipcp"] = FALSE] /\ Accepts(f)
    BY ZenonT(60), <1>2 DEF client_success, Ask, Accepts
  <2>2. OwnTypes' BY ZenonT(60), <2>1 DEF OwnTypes
  <2>3. ~acked'["ipcp"] /\ ~ack_sent'["ipcp"] BY <2>1 DEF OwnTypes, Proto
  <2> QED BY ZenonT(60), <2>1, <2>2, <2>3 DEF Reads
<1>3. CASE client_failure(f)
  <2>1. UNCHANGED << acked, ack_sent, agreed >> /\ client' = "failed"
    BY ZenonT(60), <1>3 DEF client_failure
  <2>2. client' # "network" BY <2>1
  <2> QED BY ZenonT(60), <2>1, <2>2 DEF Reads, OwnTypes
<1> QED BY ZenonT(60), <1>1, <1>2, <1>3

LEMMA ReadNothing ==
  ASSUME OwnTypes, NEW f, client_protocol_reject(f) \/ client_discard(f)
  PROVE  OwnTypes' /\ Reads(f)
<1>1. UNCHANGED << acked, ack_sent, agreed, client >>
  BY ZenonT(60) DEF client_protocol_reject, client_discard, peer
<1>2. client = "network" => ~Asks(f)
  <2>1. SUFFICES ASSUME client = "network", Asks(f) PROVE FALSE OBVIOUS
  <2>2. f.proto = "ipcp" /\ f.code = "Request" BY <2>1 DEF Asks
  <2>3. Served(f) BY <2>1, <2>2 DEF Served
  <2>4. f.code # "ProtocolReject" /\ f.code \notin {"Nak", "Reject"} /\ f.code # "Ack" BY <2>2
  <2> QED BY ZenonT(60), <2>3, <2>4 DEF client_protocol_reject, client_discard
<1> QED BY ZenonT(60), <1>1, <1>2 DEF Reads, OwnTypes

\* A frame that has been read is gone, and the rest moves up.
LEMMA RestKeeps ==
  ASSUME IInv, Len(to_client) # 0, to_client' = Tail(to_client), addrs' = addrs
  PROVE  /\ AnySeq(to_client') /\ Shifted(to_client, to_client') /\ Head(to_client) = to_client[1]
         /\ RequestFollows' /\ AcksGood'
<1>1. Shifted(to_client, to_client') /\ Head(to_client) = to_client[1]
  BY Rest DEF IInv, Types
<1>2. ASSUME NEW k \in 1..Len(to_client'), Accepts(to_client'[k])
      PROVE  k + 1 \in 1..Len(to_client') /\ Asks(to_client'[k + 1])
  <2>1. k + 1 \in 1..Len(to_client) /\ to_client'[k] = to_client[k + 1]
    BY ZenonT(60), <1>1 DEF Shifted
  <2>2. (k + 1) + 1 \in 1..Len(to_client) /\ Asks(to_client[(k + 1) + 1])
    BY ZenonT(60), <1>2, <2>1 DEF IInv, RequestFollows
  <2>3. k + 1 \in 1..Len(to_client') BY <1>1, <2>2 DEF Shifted
  <2>4. to_client'[k + 1] = to_client[(k + 1) + 1] BY ZenonT(60), <1>1, <2>3 DEF Shifted
  <2> QED BY ZenonT(60), <2>2, <2>3, <2>4
<1>3. ASSUME NEW k \in 1..Len(to_client'), Acks(to_client'[k]), NoAcceptFrom(k)'
      PROVE  Good(to_client'[k].opts)
  <2>1. k + 1 \in 1..Len(to_client) /\ to_client'[k] = to_client[k + 1]
    BY ZenonT(60), <1>1 DEF Shifted
  <2>2. ASSUME NEW j \in (k + 1)..Len(to_client) PROVE ~Accepts(to_client[j])
    <3>1. j - 1 \in k..Len(to_client') /\ j - 1 \in 1..Len(to_client') /\ (j - 1) + 1 = j
      BY <1>1, <2>1 DEF Shifted
    <3>2. to_client'[j - 1] = to_client[j] BY ZenonT(60), <1>1, <3>1 DEF Shifted
    <3> QED BY ZenonT(60), <1>3, <3>1, <3>2 DEF NoAcceptFrom
  <2>3. NoAcceptFrom(k + 1) BY ZenonT(60), <2>2 DEF NoAcceptFrom
  <2> QED BY ZenonT(60), <1>3, <2>1, <2>3 DEF IInv, AcksGood
<1>4. RequestFollows' BY ZenonT(60), <1>2 DEF RequestFollows
<1>5. AcksGood' BY ZenonT(60), <1>3 DEF AcksGood, Good
<1> QED BY ZenonT(60), <1>1, <1>4, <1>5 DEF Shifted

LEMMA ClientReads ==
  ASSUME IInv, client_receive
  PROVE  IInv'
<1>1. PICK f \in {to_client[i] : i \in {1} \cap DOMAIN to_client} :
        \/ client_request(f) \/ client_ack(f) \/ client_refused(f)
        \/ client_challenge(f) \/ client_success(f) \/ client_failure(f)
        \/ client_protocol_reject(f) \/ client_discard(f)
  BY ZenonT(60) DEF client_receive
<1>2. Len(to_client) # 0 /\ Len(to_client) \in Nat
  <2>1. PICK S : to_client \in Seq(S) BY ZenonT(60) DEF IInv, Types, AnySeq
  <2>2. 1 \in DOMAIN to_client BY ZenonT(60), <1>1
  <2> QED BY <2>1, <2>2
<1>3. f = Head(to_client) /\ to_client' = Tail(to_client) /\ addrs' = addrs
  BY ZenonT(60), <1>1 DEF client_request, client_ack, client_refused, client_challenge, client_success,
     client_failure, client_protocol_reject, client_discard, Receive, server
<1>4. /\ AnySeq(to_client') /\ Shifted(to_client, to_client') /\ f = to_client[1]
      /\ RequestFollows' /\ AcksGood'
  BY ZenonT(60), <1>2, <1>3, RestKeeps
<1>5. OwnTypes' /\ Reads(f)
  BY ZenonT(60), <1>1, ReadRequest, ReadAnswer, ReadLogin, ReadNothing DEF IInv, Types, OwnTypes
<1>6. Types' BY ZenonT(60), <1>4, <1>5 DEF Types, OwnTypes
<1>7. 1 \in 1..Len(to_client) BY <1>2
<1>8. Accepts(f) => AskedNext'
  <2>1. SUFFICES ASSUME Accepts(f) PROVE AskedNext' OBVIOUS
  <2>2. 1 + 1 \in 1..Len(to_client) /\ Asks(to_client[1 + 1])
    BY ZenonT(60), <1>4, <1>7, <2>1 DEF IInv, RequestFollows
  <2>3. Len(to_client') # 0 /\ 1 \in 1..Len(to_client') BY <1>2, <1>4, <2>2 DEF Shifted
  <2>4. to_client'[1] = to_client[1 + 1] BY ZenonT(60), <1>4, <2>3 DEF Shifted
  <2> QED BY ZenonT(60), <2>2, <2>3, <2>4 DEF AskedNext
<1>9. ~Accepts(f) /\ NoAcceptFrom(1)' => NoAcceptFrom(1)
  <2>1. SUFFICES ASSUME ~Accepts(f), NoAcceptFrom(1)', NEW j \in 1..Len(to_client)
                 PROVE  ~Accepts(to_client[j])
    BY ZenonT(60) DEF NoAcceptFrom
  <2>2. CASE j = 1 BY ZenonT(60), <1>4, <2>1, <2>2
  <2>3. CASE j # 1
    <3>1. j - 1 \in 1..Len(to_client') /\ (j - 1) + 1 = j BY <1>2, <1>4, <2>3 DEF Shifted
    <3>2. to_client'[j - 1] = to_client[j] BY ZenonT(60), <1>4, <3>1 DEF Shifted
    <3> QED BY ZenonT(60), <2>1, <3>1, <3>2 DEF NoAcceptFrom
  <2> QED BY ZenonT(60), <2>2, <2>3
<1>10. Unasked' /\ Took'
  <2>1. CASE client' # "network" BY ZenonT(60), <2>1 DEF Unasked, Took
  <2>2. CASE Accepts(f) /\ ~acked'["ipcp"] /\ ~ack_sent'["ipcp"]
    BY ZenonT(60), <1>8, <2>2 DEF Unasked, Took
  <2>3. CASE client = "network" /\ Asks(f) /\ ~acked'["ipcp"] /\ ack_sent'["ipcp"]
    BY ZenonT(60), <2>3 DEF Unasked, Took
  <2>4. CASE client = "network" /\ Acks(f) /\ agreed'["ipcp"] = f.opts
             /\ (ack_sent'["ipcp"] <=> ack_sent["ipcp"])
    <3>1. ~Asks(f) /\ ~Accepts(f) BY <2>4 DEF Acks, Asks, Accepts
    <3>2. Unasked' BY ZenonT(60), <1>4, <2>4, <3>1 DEF IInv, Unasked, AskedNext
    <3>3. NoAcceptFrom(1)' => Good(f.opts)
      BY ZenonT(60), <1>4, <1>7, <1>9, <2>4, <3>1 DEF IInv, AcksGood
    <3>4. Took' BY ZenonT(60), <1>3, <2>4, <3>3 DEF Took, Good
    <3> QED BY ZenonT(60), <3>2, <3>4
  <2>5. CASE client = "network" /\ ~Asks(f) /\ (acked'["ipcp"] => acked["ipcp"])
             /\ agreed'["ipcp"] = agreed["ipcp"] /\ (ack_sent'["ipcp"] <=> ack_sent["ipcp"])
    <3>1. Unasked' BY ZenonT(60), <1>4, <2>5 DEF IInv, Unasked, AskedNext
    <3>2. acked'["ipcp"] /\ NoAcceptFrom(1)' /\ ~AskedNext' => Good(agreed["ipcp"])
      BY ZenonT(60), <1>4, <1>8, <1>9, <2>5 DEF IInv, Took, AskedNext
    <3>3. Took' BY ZenonT(60), <1>3, <2>5, <3>2 DEF Took, Good
    <3> QED BY ZenonT(60), <3>1, <3>3
  <2> QED BY ZenonT(60), <1>5, <2>1, <2>2, <2>3, <2>4, <2>5 DEF Reads
<1> QED BY ZenonT(60), <1>4, <1>6, <1>10 DEF IInv

-----------------------------------------------------------------------------
(* The agreement.                                                          *)

LEMMA StartsAgreed == Init => IInv
<1>1. SUFFICES ASSUME Init PROVE IInv OBVIOUS
<1> DEFINE f == Frame("lcp", "Request", 1, own_options("lcp"))
<1>2. AnySeq(to_client) /\ Len(to_client) = 1 /\ to_client[1] = f
  BY ZenonT(60), <1>1, Short DEF Init
<1>3. Types
  <2>1. acked \in [Proto -> BOOLEAN] /\ ack_sent \in [Proto -> BOOLEAN] BY <1>1 DEF Init
  <2>2. agreed = [p \in Proto |-> agreed[p]] BY <1>1 DEF Init
  <2> QED BY ZenonT(60), <1>2, <2>1, <2>2 DEF Types
<1>4. ~Accepts(f) /\ ~Acks(f) BY DEF Accepts, Acks, Frame
<1>5. \A k \in 1..1 : k = 1 OBVIOUS
<1>6. RequestFollows /\ AcksGood BY ZenonT(60), <1>2, <1>4, <1>5 DEF RequestFollows, AcksGood
<1>7. client # "network" BY <1>1 DEF Init
<1> QED BY ZenonT(60), <1>3, <1>6, <1>7 DEF IInv, Unasked, Took

LEMMA StepsKeepAgreement == IInv /\ [Next]_vars => IInv'
<1>1. SUFFICES ASSUME IInv, [Next]_vars PROVE IInv' OBVIOUS
<1>2. CASE on_frame \/ on_timer
  <2>1. PICK r : UNCHANGED peer /\ to_client' = to_client \o r /\ Adds(r)
    <3>1. AnySeq(to_client) BY ZenonT(60), <1>1 DEF IInv, Types
    <3> QED BY ZenonT(60), <1>2, <3>1, ServerAdds
  <2> QED BY ZenonT(60), <1>1, <2>1, AddsKeep
<1>3. CASE client_open \/ client_renegotiate \/ client_stray \/ client_ccp
  BY ZenonT(60), <1>1, <1>3, ClientSends
<1>4. CASE client_receive BY ZenonT(60), <1>1, <1>4, ClientReads
<1>5. CASE UNCHANGED vars
  <2>1. UNCHANGED << to_client, addrs, acked, ack_sent, agreed, client >>
    BY ZenonT(60), <1>5 DEF vars, server, peer
  <2>2. Types' /\ RequestFollows' /\ AcksGood'
    BY ZenonT(60), <1>1, <2>1 DEF IInv, Types, RequestFollows, AcksGood, NoAcceptFrom, Good
  <2>3. Unasked' /\ Took'
    BY ZenonT(60), <1>1, <2>1 DEF IInv, Unasked, Took, AskedNext, NoAcceptFrom, Good
  <2> QED BY ZenonT(60), <2>2, <2>3 DEF IInv
<1> QED BY ZenonT(60), <1>1, <1>2, <1>3, <1>4, <1>5 DEF Next

LEMMA AgreementFollows == IInv => SidesAgree
<1>1. SUFFICES ASSUME IInv, acked["ipcp"], client = "network", Len(to_client) = 0
               PROVE  /\ Values(agreed["ipcp"], "ip") \subseteq {addrs.ip}
                      /\ \A name \in DnsLike : Values(agreed["ipcp"], name) \subseteq {addrs[name]}
  BY ZenonT(60) DEF SidesAgree, ClientOpen
<1>2. NoAcceptFrom(1) BY <1>1 DEF NoAcceptFrom
<1>3. Good(agreed["ipcp"]) BY ZenonT(60), <1>1, <1>2 DEF IInv, Took, AskedNext
<1> QED BY ZenonT(60), <1>3 DEF Good, Values

\* Both ends mean the same link: whenever the server's IPCP and the client's are open and
\* nothing is on the way, the address and the DNS servers the client took are the ones of the
\* last accept (IpcpServer::classify_configure_request, advance_to_network), through Naks,
\* Rejects, retransmissions, renegotiations, second accepts and stray frames.
THEOREM AgreementHolds == Spec => []SidesAgree
<1>1. Spec => []IInv BY StartsAgreed, StepsKeepAgreement, PTL DEF Spec
<1> QED BY <1>1, AgreementFollows, PTL

=============================================================================

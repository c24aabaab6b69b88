------------------------------- MODULE Stream -------------------------------
(***************************************************************************)
(* The byte stream of one session: TCP socket, libssl, AsyncFd readiness,  *)
(* the HTTP preamble, the reassembly of SSTP packets in rx_buf, and the    *)
(* moment at which the kernel takes the record layer over.                 *)
(*                                                                         *)
(* Modelled from src/crypto/tls.rs (handshake, poll_read, poll_write,      *)
(* install_ktls, key derivation, request_key_update), src/crypto/ktls.rs,  *)
(* src/crypto/rekey.rs, src/sstp/preamble.rs, src/sstp/frame.rs and the    *)
(* read, rekey and handoff parts of src/session.rs.                        *)
(*                                                                         *)
(* Bytes are counted, not stored: a packet is a kind and a number of       *)
(* units, a TLS record a number of units with the key, the sequence number *)
(* and the nonce that protect it.  libssl, epoll and the client are        *)
(* external.  libssl may pull just the record it needs or all the socket   *)
(* holds.  A worker is single-threaded, so the reactor runs only while     *)
(* the task is parked, but the socket changes between any two system       *)
(* calls of a poll.                                                        *)
(***************************************************************************)
EXTENDS Integers, Sequences

CONSTANTS
  Cases,              \* sessions: the packets a client sends, the first being
                      \* its HTTP request; --data-path; is /dev/sstp there;
                      \* TLS version and cipher
  Coalesce,           \* may a TLS record hold bytes of two packets?
  SSTP_HEADER_LEN,    \* units of an SSTP header
  MAX_HEADER_BYTES,   \* bound on the HTTP header block
  CHUNK,              \* bytes one read asks for
  SndBuf,             \* records the send queue of the socket holds
  MaxKeyUpdates,      \* bound: KeyUpdates in each direction
  MaxTicks            \* bound: packets sent by another arm of the select

Kinds == {"http", "bad_http", "ctl", "ppp", "up", "ip", "junk", "short"}

MessageType ==
  {"CallConnectRequest", "CallConnectAck", "CallConnectNak", "CallConnected",
   "CallAbort", "CallDisconnect", "CallDisconnectAck", "EchoRequest", "EchoResponse"}

\* The suites kTLS has, against AES-CBC of TLS 1.2.
AEAD == {"AES128", "AES256", "CHACHA20"}

AttributeId ==
  {"NoError", "EncapsulatedProtocolId", "StatusInfo", "CryptoBinding", "CryptoBindingReq"}

ASSUME StreamAssumption ==
  /\ \A c \in Cases :
       /\ c.script # << >>
       /\ \A k \in DOMAIN c.script :
            /\ c.script[k].kind \in Kinds /\ c.script[k].len \in Nat \ {0}
            /\ c.script[k].kind = "ctl" =>
                 \A i \in DOMAIN c.script[k].msg.attrs :
                   c.script[k].msg.attrs[i].len \in Nat
       /\ c.data_path \in {"auto", "kernel", "tun"}
       /\ c.kmod \in BOOLEAN
       /\ c.version \in {"TLSv1.2", "TLSv1.3"}
       /\ c.cipher \in IF c.version = "TLSv1.2" THEN AEAD \cup {"CBC"} ELSE AEAD
  /\ Coalesce \in BOOLEAN
  /\ {SSTP_HEADER_LEN, CHUNK, SndBuf} \subseteq Nat \ {0}
  /\ {MAX_HEADER_BYTES, MaxKeyUpdates, MaxTicks} \subseteq Nat

VARIABLES
  script,    \* the packets of this client
  mode,      \* DataPathMode of the server
  kmod,      \* the kernel module is loaded
  version, cipher,   \* what TLS negotiated
  peer,      \* what the client waits for: "start", "flight", "ok", "open"
  sent,      \* units the client has put into records
  ctx, crx,  \* record layer of the client, per direction: whose key, its
             \* generation, sequence number, IV or explicit nonce
  wire,      \* records not yet opened by the server
  sock,      \* units of wire in the receive queue of the socket
  snd,       \* records in the send queue
  nospace,   \* a write failed: the kernel reports when there is room
  edge,      \* epoll events the reactor has not fetched
  ready,     \* readiness the AsyncFd remembers
  ssl,       \* libssl: raw and plain units, rx and tx, ku: KeyUpdate queued
  kern,      \* kernel record layer: on, rx, tx
  pc, io,    \* where the task is, and where in its poll
  buf,       \* units in rx_buf (or the header block)
  done,      \* packets consumed
  fate,      \* what became of each
  path,      \* "none", "tun" or "kernel"
  bad,       \* a record did not authenticate
  ticks, kus \* counters of the bounds

session == << script, mode, kmod, version, cipher >>
client == << peer, sent, ctx, crx >>
task == << pc, io, buf, done, fate, path >>
bounds == << ticks, kus >>
vars == << session, client, wire, sock, snd, nospace, edge,
           ready, ssl, kern, task, bad, bounds >>

Min2(a, b) == IF a < b THEN a ELSE b

\* Offset in the stream at which packet k ends.
End(k) ==
  LET end[j \in 0..k] == IF j = 0 THEN 0 ELSE end[j - 1] + script[j].len
  IN end[k]

Units(records) ==
  LET sum[j \in 0..Len(records)] == IF j = 0 THEN 0 ELSE sum[j - 1] + records[j].n
  IN sum[Len(records)]

\* AES-GCM under TLS 1.2 sends an explicit nonce, which libssl counts with the
\* records; the other suites have a fixed IV per key.
Explicit == version = "TLSv1.2" /\ cipher \in {"AES128", "AES256"}

Keys(side) == [by |-> side, gen |-> 0, seq |-> 0, iv |-> 0]
NextKey(d) == [d EXCEPT !.gen = @ + 1, !.seq = 0, !.iv = @ + 1]
NextSeq(d) == [d EXCEPT !.seq = @ + 1, !.iv = IF Explicit THEN @ + 1 ELSE @]
Record(type, n, d) == [type |-> type, n |-> n, key |-> d, twice |-> FALSE]
Fits(r, d) == r.key = d

-----------------------------------------------------------------------------
(* The server's settings.                                                   *)

\* The probe of /dev/sstp at boot: "auto" becomes "tun" without the module.
resolve_data_path_mode(requested, present) ==
  IF requested = "auto" /\ ~present THEN "tun" ELSE requested

\* The suites of the TLS context: under --data-path kernel (aead_only) only
\* those the kernel can take over.
server_from_pem == IF mode = "kernel" THEN AEAD ELSE AEAD \cup {"CBC"}
-----------------------------------------------------------------------------
(* The client and the network (external).                                  *)

\* The client hands one record to TCP.
Emit(type, n) ==
  /\ pc # "ended"
  /\ wire' = Append(wire, Record(type, n, ctx))
  /\ ctx' = IF type = "ku" THEN NextKey(ctx) ELSE NextSeq(ctx)

client_hello ==
  /\ peer = "start"
  /\ Emit("hello", 1)
  /\ peer' = "flight"
  /\ UNCHANGED << session, sent, crx, sock, snd, nospace, edge,
                  ready, ssl, kern, task, bad, bounds >>

\* Application data: the HTTP request, and packets once the 200 has arrived.
client_write ==
  /\ \/ peer = "ok" /\ sent < End(1)
     \/ peer = "open" /\ sent < End(Len(script))
  /\ LET limit == IF peer = "ok" THEN End(1) ELSE End(Len(script))
     IN \E n \in 1..(limit - sent) :
          /\ Coalesce \/ \E k \in DOMAIN script :
                           End(k - 1) <= sent /\ sent + n <= End(k)
          /\ Emit("app", n)
          /\ sent' = sent + n
  /\ UNCHANGED << session, peer, crx, sock, snd, nospace, edge,
                  ready, ssl, kern, task, bad, bounds >>

client_key_update ==
  /\ version = "TLSv1.3"
  /\ peer = "open"
  /\ kus.client < MaxKeyUpdates
  /\ Emit("ku", 1)
  /\ kus' = [kus EXCEPT !.client = @ + 1]
  /\ UNCHANGED << session, peer, sent, crx, sock, snd, nospace,
                  edge, ready, ssl, kern, task, bad, ticks >>

\* The client closes the TLS connection after its last packet.
client_close ==
  /\ peer = "open"
  /\ sent = End(Len(script))
  /\ Emit("close", 1)
  /\ peer' = "closed"
  /\ UNCHANGED << session, sent, crx, sock, snd, nospace, edge,
                  ready, ssl, kern, task, bad, bounds >>

\* TCP delivers part of what is in flight, across record boundaries.
deliver ==
  /\ pc # "ended"
  /\ \E n \in 1..(Units(wire) - ssl.raw - sock) : sock' = sock + n
  /\ edge' = edge \cup {"r"}
  /\ UNCHANGED << session, client, wire, snd, nospace, ready,
                  ssl, kern, task, bad, bounds >>

\* The client opens the oldest record the server sent; one that was sealed twice
\* is application data to it, whatever libssl had put inside.
client_read ==
  /\ pc # "ended"
  /\ snd # << >>
  /\ LET r == Head(snd) IN
       /\ snd' = Tail(snd)
       /\ crx' = IF r.type = "ku" /\ ~r.twice THEN NextKey(crx) ELSE NextSeq(crx)
       /\ bad' = (bad \/ ~Fits(r, crx))
       /\ CASE peer = "flight" /\ r.type = "flight" ->
                 Emit("finished", 1) /\ peer' = "ok"
            [] peer = "ok" /\ r.type = "ok" ->
                 peer' = "open" /\ UNCHANGED << wire, ctx >>
            [] OTHER -> UNCHANGED << peer, wire, ctx >>
  /\ edge' = IF nospace THEN edge \cup {"w"} ELSE edge
  /\ nospace' = FALSE
  /\ UNCHANGED << session, sent, sock, ready, ssl, kern, task,
                  bounds >>
-----------------------------------------------------------------------------
(* Readiness: tokio's reactor and AsyncFd.                                  *)

Parked == io \in {"park_r", "park_w"}
Awaited == IF io = "park_r" THEN "r" ELSE "w"

InHandshake == pc \in {"hello", "flight", "finished"}
Reading == pc \in {"hello", "finished", "http", "select"}
KernelWrite == kern.on /\ pc \in {"reply", "tick", "event"}
Writing == pc \in {"flight", "ok", "refuse", "reply", "answer", "tick", "timer", "event"}

\* Where the future goes on when it is woken.  handshake() and the control
\* writer resume behind their await and clear the readiness; poll_read and
\* poll_write are polled again from the top.
Resume ==
  IF io = "park_r"
  THEN IF InHandshake THEN "r_ready" ELSE "op"
  ELSE IF InHandshake \/ KernelWrite THEN "w_ready" ELSE "guard"

\* The reactor fetches the pending events and wakes the task they concern.
turn ==
  /\ Parked
  /\ edge # {}
  /\ ready' = ready \cup edge
  /\ edge' = {}
  /\ io' = IF Awaited \in ready' THEN Resume ELSE io
  /\ UNCHANGED << session, client, wire, sock, snd, nospace,
                  ssl, kern, pc, buf, done, fate, path, bad, bounds >>

\* readable_mut().await?.clear_ready(), poll_read_ready_mut(..)?.clear_ready()
clear_read_ready ==
  /\ io = "r_ready"
  /\ \/ "r" \in ready /\ ready' = ready \ {"r"} /\ io' = "op"
     \/ "r" \notin ready /\ io' = "park_r" /\ UNCHANGED ready
  /\ UNCHANGED << session, client, wire, sock, snd, nospace,
                  edge, ssl, kern, pc, buf, done, fate, path, bad, bounds >>

\* The same on the write side: handshake(), and tcp_writable() in apply_step.
clear_write_ready ==
  /\ io = "w_ready"
  /\ \/ "w" \in ready /\ ready' = ready \ {"w"} /\ io' = "op"
     \/ "w" \notin ready /\ io' = "park_w" /\ UNCHANGED ready
  /\ UNCHANGED << session, client, wire, sock, snd, nospace,
                  edge, ssl, kern, pc, buf, done, fate, path, bad, bounds >>

\* poll_write takes the guard before SSL_write.
poll_write_ready ==
  /\ io = "guard"
  /\ io' = IF "w" \in ready THEN "op" ELSE "park_w"
  /\ UNCHANGED << session, client, wire, sock, snd, nospace,
                  edge, ready, ssl, kern, pc, buf, done, fate, path, bad,
                  bounds >>
-----------------------------------------------------------------------------
(* libssl (external), as the code drives it.                                *)

WantsRecord == Reading /\ io = "op" /\ ssl.plain = 0
HasRecord == wire # << >> /\ ssl.raw >= Head(wire).n

\* SSL_read or SSL_do_handshake reads from the socket: what the record at
\* hand needs, or everything there is.
ssl_recv ==
  /\ WantsRecord /\ ~HasRecord /\ sock > 0
  /\ \E n \in {Min2(sock, Head(wire).n - ssl.raw), sock} :
       /\ ssl' = [ssl EXCEPT !.raw = @ + n]
       /\ sock' = sock - n
  /\ UNCHANGED << session, client, wire, snd, nospace, edge,
                  ready, kern, task, bad, bounds >>

\* A complete record is opened.
ssl_open ==
  /\ WantsRecord /\ HasRecord
  /\ LET r == Head(wire) IN
       /\ wire' = Tail(wire)
       /\ ssl' = [ssl EXCEPT
                    !.raw = @ - r.n,
                    !.plain = IF r.type = "app" THEN r.n ELSE 0,
                    !.rx = IF r.type = "ku" THEN NextKey(@) ELSE NextSeq(@)]
       /\ bad' = (bad \/ ~Fits(r, ssl.rx))
       /\ pc' = CASE ~Fits(r, ssl.rx) -> "ended"
                  [] pc = "hello" ->
                       IF cipher \in server_from_pem THEN "flight" ELSE "ended"
                  [] pc = "finished" -> "http"
                  [] r.type = "close" -> "ended"
                  [] OTHER -> pc
  /\ UNCHANGED << session, client, sock, snd, nospace, edge,
                  ready, kern, io, buf, done, fate, path, bounds >>

\* SSL_ERROR_WANT_READ
ssl_want_read ==
  /\ WantsRecord /\ ~HasRecord /\ sock = 0
  /\ io' = "r_ready"
  /\ UNCHANGED << session, client, wire, sock, snd, nospace,
                  edge, ready, ssl, kern, pc, buf, done, fate, path, bad,
                  bounds >>

\* Is it SSTP_DUPLEX_POST of the well-known URI with the right Content-Length?
parse_request(kind) == kind = "http"

\* The two answers: 200, or 400 and the end of the session.
write_ok_response == pc' = "ok" /\ io' = "guard"
write_error_response == pc' = "refuse" /\ io' = "guard"

\* What a read that returns leads to: the header block of the preamble is
\* bounded before it is searched, and nothing behind the terminator is kept;
\* a packet chunk goes to the parse loop.
read_header_block(n) ==
  IF buf + n > MAX_HEADER_BYTES
  THEN write_error_response /\ buf' = 0 /\ UNCHANGED << done, fate >>
  ELSE IF buf + n < script[1].len
  THEN buf' = buf + n /\ UNCHANGED << pc, io, done, fate >>
  ELSE /\ buf' = 0
       /\ IF parse_request(script[1].kind) THEN write_ok_response ELSE write_error_response
       /\ done' = 1
       /\ fate' = Append(fate, "user")

extend_rx_buf(n) ==
  pc' = "parse" /\ buf' = buf + n /\ UNCHANGED << io, done, fate >>

\* Mutant: SSL_read only after the socket has been reported readable.
poll_read_gated ==
  /\ pc \in {"http", "select"} /\ io = "op" /\ ssl.plain > 0
  /\ \/ /\ "r" \notin ready
        /\ io' = "park_r"
        /\ UNCHANGED << ssl, pc, buf, done, fate >>
     \/ /\ "r" \in ready
        /\ LET n == Min2(ssl.plain, CHUNK) IN
             /\ ssl' = [ssl EXCEPT !.plain = @ - n]
             /\ IF pc = "http" THEN read_header_block(n) ELSE extend_rx_buf(n)
  /\ UNCHANGED << session, client, wire, sock, snd, nospace,
                  edge, ready, kern, path, bad, bounds >>

\* SSL_read first: it returns decrypted bytes without asking the socket.
poll_read ==
  /\ pc \in {"http", "select"} /\ io = "op" /\ ssl.plain > 0
  /\ LET n == Min2(ssl.plain, CHUNK) IN
       /\ ssl' = [ssl EXCEPT !.plain = @ - n]
       /\ IF pc = "http" THEN read_header_block(n) ELSE extend_rx_buf(n)
  /\ UNCHANGED << session, client, wire, sock, snd, nospace,
                  edge, ready, kern, path, bad, bounds >>

\* Where the task goes on after a write.
AfterWrite ==
  CASE pc = "flight" -> "finished"
    [] pc = "ok" -> "select"
    [] pc = "refuse" -> "ended"
    [] pc \in {"reply", "answer"} -> "parse"
    [] pc = "event" -> "kernel"
    [] pc \in {"tick", "timer"} -> IF kern.on THEN "kernel" ELSE "select"

\* SSL_write, and SSL_do_handshake for the server flight.  A queued KeyUpdate
\* leaves first and rolls the send key.  On a socket the kernel encrypts for,
\* what libssl wrote is sealed a second time, under the kernel's key.
SSL_write ==
  /\ Writing /\ ~KernelWrite /\ io = "op"
  /\ Len(snd) < SndBuf
  /\ LET type == IF ssl.ku THEN "ku" ELSE pc
     IN /\ IF kern.on
           THEN /\ snd' = Append(snd, [Record(type, 1, kern.tx) EXCEPT !.twice = TRUE])
                /\ kern' = [kern EXCEPT !.tx = NextSeq(@)]
           ELSE snd' = Append(snd, Record(type, 1, ssl.tx)) /\ UNCHANGED kern
        /\ ssl' = [ssl EXCEPT !.ku = FALSE,
                     !.tx = IF ssl.ku THEN NextKey(@) ELSE NextSeq(@)]
  /\ pc' = IF ssl.ku THEN pc ELSE AfterWrite
  /\ UNCHANGED << session, client, wire, sock, nospace, edge,
                  ready, io, buf, done, fate, path, bad, bounds >>

\* SSL_ERROR_WANT_WRITE: the guard is cleared; handshake() awaits first.
ssl_want_write ==
  /\ Writing /\ ~KernelWrite /\ io = "op"
  /\ Len(snd) = SndBuf
  /\ nospace' = TRUE
  /\ IF InHandshake
     THEN io' = "w_ready" /\ UNCHANGED ready
     ELSE io' = "guard" /\ ready' = ready \ {"w"}
  /\ UNCHANGED << session, client, wire, sock, snd, edge, ssl,
                  kern, pc, buf, done, fate, path, bad, bounds >>
-----------------------------------------------------------------------------
(* The parse loop of the session, and the handoff to the kernel.            *)

HasPacket == done < Len(script)
packet == script[done + 1]

\* The length of an attribute counts its own header.
ATTR_HEADER_LEN == 4
as_encapsulated_protocol(a) ==
  a.id = "EncapsulatedProtocolId" /\ a.len - ATTR_HEADER_LEN = 2
as_crypto_binding(a) ==
  a.id = "CryptoBinding" /\ a.len - ATTR_HEADER_LEN = 100

\* What AttrIter yields for attribute i: itself, or the reason it is refused.
\* A length that does not fit the attribute area is 0 here.
AttrIter(attrs, i) ==
  CASE i > Len(attrs) -> "None"
    [] attrs[i].len < ATTR_HEADER_LEN -> "AttributeLength"
    [] attrs[i].id \notin AttributeId -> "UnknownAttributeId"
    [] OTHER -> "Ok"

\* The messages a server consumes carry exactly the attribute they are about;
\* the attributes of the others are not looked at.
parse_control(msg) ==
  LET only(Decodes(_)) == /\ AttrIter(msg.attrs, 1) = "Ok"
                          /\ Decodes(msg.attrs[1])
                          /\ AttrIter(msg.attrs, 2) = "None"
  IN /\ msg.type = "CallConnectRequest" => only(as_encapsulated_protocol)
     /\ msg.type = "CallConnected" => only(as_crypto_binding)

\* ControlPacket::parse_body.  A control packet too short for its own header
\* is reported as Truncated, like an incomplete one.
parse_body(p) ==
  CASE p.kind = "short" -> "Truncated"
    [] p.msg.type \notin MessageType -> "UnknownMessageType"
    [] OTHER -> "ctl"

parse_control_payload(p) == parse_body(p) = "ctl" /\ parse_control(p.msg)

\* Packet::parse on the unread part of rx_buf.
Packet_parse ==
  CASE ~HasPacket \/ buf < SSTP_HEADER_LEN -> "Truncated"
    [] packet.kind = "junk" -> "UnsupportedVersion"
    [] buf < packet.len -> "LengthMismatch"
    [] packet.kind \in {"ctl", "short"} -> parse_body(packet)
    [] OTHER -> packet.kind

\* NP filter: an IP frame is forwarded once a TUN device is there; on the
\* kernel path network_ready is false and the frame is dropped.
np_filter_decide == IF path = "tun" THEN "tun" ELSE "dropped"

Consume(f) ==
  /\ done' = done + 1
  /\ buf' = buf - packet.len
  /\ fate' = Append(fate, f)

\* The kernel continues with libssl's keys and record counters: TLS 1.3
\* exports the current secret of a direction, TLS 1.2 the key block of the
\* handshake, of which the server sends with its own half.
tls13_traffic_secret(d) == [by |-> d.by, gen |-> d.gen]
SSL_generate_key_block(side) == [by |-> side, gen |-> 0]

\* build_aes_gcm_128, build_aes_gcm_256, build_chacha20_poly1305
build(key, iv, rec_seq) == [by |-> key.by, gen |-> key.gen, seq |-> rec_seq, iv |-> iv]

\* With AES-GCM the explicit nonce of TLS 1.2 goes on from the record counter.
derive_aes128_gcm(d, side) ==
  IF version = "TLSv1.3"
  THEN LET secret == tls13_traffic_secret(d) IN build(secret, secret.gen, d.seq)
  ELSE build(SSL_generate_key_block(side), d.seq, d.seq)

\* The same with a wider key and SHA-384.
derive_aes256_gcm(d, side) == derive_aes128_gcm(d, side)

\* ChaCha20-Poly1305 has its IV in the key block.
derive_chacha20_poly1305(d, side) ==
  LET key == IF version = "TLSv1.3" THEN tls13_traffic_secret(d)
                                    ELSE SSL_generate_key_block(side)
  IN build(key, key.gen, d.seq)

\* Mutant: the record counters restart with the kernel.
derive_restart(d, side) ==
  CASE cipher = "AES128" -> [derive_aes128_gcm(d, side) EXCEPT !.seq = 0]
    [] cipher = "AES256" -> [derive_aes256_gcm(d, side) EXCEPT !.seq = 0]
    [] cipher = "CHACHA20" -> [derive_chacha20_poly1305(d, side) EXCEPT !.seq = 0]

\* The match on version and cipher in install_ktls.
derive(d, side) ==
  CASE cipher = "AES128" -> derive_aes128_gcm(d, side)
    [] cipher = "AES256" -> derive_aes256_gcm(d, side)
    [] cipher = "CHACHA20" -> derive_chacha20_poly1305(d, side)

SSL_has_pending == ssl.plain > 0 \/ ssl.raw > 0

\* Mutant: SSL_pending instead of SSL_has_pending.
install_ktls_pending ==
  /\ ssl.plain = 0
  /\ kern' = [on |-> TRUE, rx |-> derive(ssl.rx, "client"),
               tx |-> derive(ssl.tx, "server")]

install_ktls ==
  /\ ~SSL_has_pending
  /\ kern' = [on |-> TRUE, rx |-> derive(ssl.rx, "client"),
               tx |-> derive(ssl.tx, "server")]

ktls_eligibility == cipher \in AEAD

\* effective_data_path: under "auto" the suite decides.
effective_data_path ==
  IF mode # "auto" THEN mode ELSE IF ktls_eligibility THEN "kernel" ELSE "tun"

\* NetworkUp: bytes in libssl turn "auto" to TUN and end the session under
\* "kernel", as a suite without kTLS and a missing module do.
NetworkUp ==
  \/ /\ effective_data_path = "kernel" /\ ktls_eligibility
     /\ install_ktls
     /\ IF kmod THEN path' = "kernel" /\ UNCHANGED pc
                ELSE pc' = "ended" /\ UNCHANGED path
  \/ /\ \/ effective_data_path = "tun"
        \/ mode = "auto" /\ SSL_has_pending
     /\ path' = "tun"
     /\ UNCHANGED << kern, pc >>
  \/ /\ mode = "kernel" /\ (SSL_has_pending \/ ~ktls_eligibility)
     /\ pc' = "ended"
     /\ UNCHANGED << kern, path >>

\* The PPP driver's frame goes out as one data packet, through libssl.
write_ppp_as_sstp_data == pc' = "answer" /\ io' = "guard"

\* apply_step: the answer of the SSTP state machine, through libssl, or
\* through the module once it has the socket.
apply_step == pc' = "reply" /\ io' = IF kern.on THEN "op" ELSE "guard"

\* One turn of the loop: handle the packet at the head, or leave the loop.
\* Whether a packet is answered is up to the SSTP and PPP state machines.
parse ==
  /\ pc = "parse"
  /\ LET parsed == Packet_parse IN
     CASE parsed \in {"Truncated", "LengthMismatch"} ->
            /\ pc' = IF kern.on THEN "kernel" ELSE "select"
            /\ io' = "op"
            /\ UNCHANGED << kern, buf, done, fate, path >>
       [] \/ parsed \in {"UnsupportedVersion", "UnknownMessageType"}
          \/ parsed = "ctl" /\ ~parse_control(packet.msg) ->
            /\ pc' = "ended"
            /\ UNCHANGED << kern, io, buf, done, fate, path >>
       [] parsed \in {"ctl", "ppp"} /\ (parsed = "ctl" => parse_control(packet.msg)) ->
            /\ Consume("user")
            /\ \/ UNCHANGED << pc, io >>
               \/ IF parsed = "ctl" THEN apply_step ELSE write_ppp_as_sstp_data
            /\ UNCHANGED << kern, path >>
       [] parsed = "up" ->
            /\ Consume("user")
            /\ NetworkUp
            /\ UNCHANGED io
       [] OTHER ->
            /\ Consume(np_filter_decide)
            /\ UNCHANGED << kern, pc, io, path >>
  /\ UNCHANGED << session, client, wire, sock, snd, nospace,
                  edge, ready, ssl, bad, bounds >>

\* Another arm of the select wins while the read is pending.  A drain, a command, a
\* timeout or the SSTP timer sends a control packet (apply_step); a packet from the
\* TUN device, on that path, is written through libssl as those are; and a PPP timer
\* writes its frame through libssl also when the kernel has the record layer.
select_write ==
  /\ \/ pc = "select" /\ io = "park_r"
     \/ pc = "kernel"
  /\ ticks < MaxTicks
  /\ ticks' = ticks + 1
  /\ \/ pc' = "tick" /\ io' = IF kern.on THEN "op" ELSE "guard"
     \/ pc' = "timer" /\ io' = "guard"
  /\ UNCHANGED << session, client, wire, sock, snd, nospace,
                  edge, ready, ssl, kern, buf, done, fate, path, bad, kus >>

\* The operator's rekey: refused on the kernel path, queued in libssl else.
rekey ==
  /\ pc = "select" /\ io = "park_r"
  /\ version = "TLSv1.3"
  /\ kus.server < MaxKeyUpdates
  /\ kus' = [kus EXCEPT !.server = @ + 1]
  /\ ssl' = [ssl EXCEPT !.ku = TRUE]
  /\ io' = "op"
  /\ UNCHANGED << session, client, wire, sock, snd, nospace,
                  edge, ready, kern, pc, buf, done, fate, path, bad, ticks >>
-----------------------------------------------------------------------------
(* The kernel path, as far as the stream is concerned.                      *)

\* kTLS opens the next record for the demultiplexer.  Any record that is not
\* application data is signalled and ends the session (decide_v03_kmod).
kmod_read ==
  /\ kern.on /\ pc = "kernel"
  /\ ssl.raw = 0 /\ wire # << >> /\ sock >= Head(wire).n
  /\ LET r == Head(wire)
         ok == Fits(r, kern.rx)
     IN /\ wire' = Tail(wire)
        /\ sock' = sock - r.n
        /\ kern' = [kern EXCEPT !.rx = NextSeq(@)]
        /\ bad' = (bad \/ ~ok)
        /\ pc' = IF ok /\ r.type = "app" THEN pc ELSE "ended"
        /\ buf' = IF ok /\ r.type = "app" THEN buf + r.n ELSE buf
  /\ UNCHANGED << session, client, snd, nospace, edge, ready,
                  ssl, io, done, fate, path, bounds >>

\* read_event and recv_control: the packet is fetched whole, and answered or
\* not; one that does not parse ends the session.
recv_control ==
  IF parse_control_payload(packet)
  THEN Consume("user") /\ pc' \in {"event", "kernel"} /\ io' = "op"
  ELSE pc' = "ended" /\ UNCHANGED << io, buf, done, fate >>

\* A packet the kernel has reassembled: IP and PPP frames go to the channel,
\* a control packet to the session, whose answer the kernel sends.
kmod_packet ==
  /\ kern.on /\ pc = "kernel"
  /\ HasPacket /\ buf >= packet.len
  /\ IF packet.kind = "ctl"
     THEN recv_control
     ELSE IF packet.kind \in {"junk", "short"}
     THEN pc' = "ended" /\ UNCHANGED << io, buf, done, fate >>
     ELSE Consume("kernel") /\ UNCHANGED << pc, io >>
  /\ UNCHANGED << session, client, wire, sock, snd, nospace,
                  edge, ready, ssl, kern, path, bad, bounds >>

\* SSTP_IOC_SEND_CONTROL: EAGAIN makes apply_step wait for writability.
send_control ==
  /\ KernelWrite /\ io = "op"
  /\ IF Len(snd) < SndBuf
     THEN /\ snd' = Append(snd, Record(pc, 1, kern.tx))
          /\ kern' = [kern EXCEPT !.tx = NextSeq(@)]
          /\ pc' = AfterWrite
          /\ UNCHANGED << nospace, io >>
     ELSE nospace' = TRUE /\ io' = "w_ready" /\ UNCHANGED << snd, kern, pc >>
  /\ UNCHANGED << session, client, wire, sock, edge, ready, ssl,
                  buf, done, fate, path, bad, bounds >>
-----------------------------------------------------------------------------
\* accept: the socket is registered with the reactor anew, and libssl waits
\* for a ClientHello.
accept ==
  /\ edge = {"w"} /\ ready = {}
  /\ ssl = [raw |-> 0, plain |-> 0, rx |-> ctx, tx |-> crx, ku |-> FALSE]
  /\ pc = "hello" /\ io = "op"

Init ==
  /\ \E c \in Cases :
       /\ script = c.script
       /\ mode = resolve_data_path_mode(c.data_path, c.kmod) /\ kmod = c.kmod
       /\ version = c.version /\ cipher = c.cipher
  /\ peer = "start" /\ sent = 0
  /\ ctx = Keys("client") /\ crx = Keys("server")
  /\ wire = << >> /\ sock = 0 /\ snd = << >> /\ nospace = FALSE
  /\ accept
  /\ kern = [on |-> FALSE, rx |-> ctx, tx |-> crx]
  /\ buf = 0 /\ done = 0 /\ fate = << >>
  /\ path = "none" /\ bad = FALSE
  /\ ticks = 0 /\ kus = [client |-> 0, server |-> 0]

Client == client_hello \/ client_write \/ client_key_update \/ client_close

Task ==
  \/ clear_read_ready \/ clear_write_ready \/ poll_write_ready
  \/ ssl_recv \/ ssl_open \/ ssl_want_read \/ poll_read
  \/ SSL_write \/ ssl_want_write
  \/ parse \/ kmod_packet \/ send_control

Next ==
  \/ Client \/ deliver \/ client_read \/ turn \/ Task
  \/ select_write \/ rekey \/ kmod_read

\* The task is polled when it is woken, the reactor runs while it is parked,
\* TCP delivers, and the kernel's receive work is run.
Spec ==
  /\ Init /\ [][Next]_vars
  /\ WF_vars(Task) /\ WF_vars(turn) /\ WF_vars(deliver) /\ WF_vars(kmod_read)
-----------------------------------------------------------------------------
(* Properties.                                                              *)

\* No byte of the client is lost on the way to whoever is to parse it: no IP
\* packet sent after IPCP is dropped, and when the kernel has taken over
\* nothing is left in libssl or in rx_buf that the kernel would have to see
\* (install_ktls refuses while SSL_has_pending; session.rs 1918-1953).
NothingLost ==
  /\ \A k \in DOMAIN fate : fate[k] # "dropped"
  /\ kern.on => ~SSL_has_pending
  /\ kern.on /\ pc = "parse" /\ Packet_parse \in {"Truncated", "LengthMismatch"}
       => buf = 0

\* Every record authenticates at its receiver, in both directions, across
\* KeyUpdates and across the handoff: the kernel continues with the key, the
\* record number and the nonce at which libssl stopped.  After the handoff
\* nothing goes through libssl, to be sealed twice, but what a PPP timer writes,
\* with the KeyUpdate that libssl may still owe (session.rs 1045, 1693).
RecordLayerContinues ==
  ~bad /\ \A i \in DOMAIN snd : snd[i].twice => snd[i].type \in {"timer", "ku"}

\* "userspace only sends control frames via SSTP_IOC_SEND_CONTROL" once kTLS is
\* installed, so that no SSL_write is encrypted twice (session.rs 381-386).
SealedOnce == \A i \in DOMAIN snd : ~snd[i].twice

\* What the client has sent completely is handled or the session ends, however
\* TCP cuts the stream: no wakeup is lost between libssl's buffer, the socket
\* and the readiness the AsyncFd remembers.  It assumes a client that reads
\* what the server writes, and does not cover what follows a control packet
\* shorter than its header, which the loop waits for in vain.
EverythingHandled ==
  WF_vars(client_read) =>
    \A k \in 1..4 :
      (/\ k <= Len(script) /\ sent >= End(k)
       /\ \A j \in 1..k : script[j].kind # "short")
        ~> (done >= k \/ pc = "ended")
=============================================================================

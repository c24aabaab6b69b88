------------------------------ MODULE MCStream ------------------------------
(***************************************************************************)
(* Instances of Stream: clients that negotiate, bring the link up and send *)
(* IP on each data path; refused preambles; packets that cannot be parsed. *)
(***************************************************************************)
EXTENDS Stream

P(kind, len) == [kind |-> kind, len |-> len]
A(id, len) == [id |-> id, len |-> len]
M(type, attrs, len) ==
  [kind |-> "ctl", len |-> len, msg |-> [type |-> type, attrs |-> attrs]]
Request == M("CallConnectRequest", << A("EncapsulatedProtocolId", 6) >>, 1)
Connected == M("CallConnected", << A("CryptoBinding", 104) >>, 1)
Echo == M("EchoRequest", << >>, 1)
D(s, m, k, v, c) ==
  [script |-> s, data_path |-> m, kmod |-> k, version |-> v, cipher |-> c]
C(s, m, v, c) == D(s, m, TRUE, v, c)

MCCases ==
  { C(<< P("http", 1), P("up", 1), P("ip", 2) >>, "auto", "TLSv1.3", "AES128"),
    C(<< P("http", 1), P("ppp", 1), P("up", 1), Echo >>, "kernel", "TLSv1.2", "AES256"),
    C(<< P("http", 1), P("up", 1), Connected, P("ip", 1) >>, "tun", "TLSv1.2", "AES128"),
    C(<< P("http", 1), Request, P("short", 1), Echo >>, "auto", "TLSv1.2", "AES128"),
    C(<< P("http", 2), M("EchoResponse", << A("StatusInfo", 12) >>, 2), P("junk", 1) >>, "auto", "TLSv1.2", "AES128"),
    C(<< P("http", 1), P("up", 1) >>, "kernel", "TLSv1.2", "CHACHA20"),
    C(<< P("http", 1), M("CallConnected", << A("CryptoBinding", 104), A("NoError", 4) >>, 1) >>,
      "auto", "TLSv1.2", "AES128"),
    C(<< P("http", 1), M("CallConnectRequest", << A("Unassigned", 6) >>, 1) >>,
      "auto", "TLSv1.2", "AES128"),
    C(<< P("http", 1), P("up", 1), M("Unassigned", << >>, 1) >>, "kernel", "TLSv1.2", "AES128"),
    C(<< P("http", 1), P("up", 1), P("ip", 1) >>, "auto", "TLSv1.2", "CBC"),
    C(<< P("http", 1), P("up", 1) >>, "kernel", "TLSv1.2", "CBC"),
    D(<< P("http", 1), P("up", 1), P("ip", 1) >>, "auto", FALSE, "TLSv1.2", "AES256"),
    D(<< P("http", 1), P("up", 1) >>, "kernel", FALSE, "TLSv1.2", "AES128"),
    C(<< P("http", 4) >>, "auto", "TLSv1.2", "AES128"),
    C(<< P("bad_http", 2) >>, "auto", "TLSv1.2", "AES128") }

\* A client that sends its first IP packet in the record of its last IPCP frame.
MCHandoff == { C(<< P("http", 1), P("up", 1), P("ip", 2) >>, "auto", "TLSv1.3", "AES128") }
=============================================================================

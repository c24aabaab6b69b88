--------------------------- MODULE MCNegotiation ---------------------------
(* A small instance of Negotiation: two MRUs, an unknown LCP option, a       *)
(* malformed list; clients that ask for an address, insist on a stale one,   *)
(* want DNS, or offer header compression; damaged and misplaced frames.      *)
EXTENDS Negotiation

MCLcpWants ==
  { {<< "mru", 1300 >>, << "magic", 5 >>},
    {<< "mru", 1500 >>, << "callback", 6 >>, << "malformed", 0 >>} }

MCIpcpWants ==
  { {<< "ip", 0 >>, << "dns1", 0 >>, << "comp", 1 >>},
    {<< "ip", 9 >>, << "nbns1", -1 >>, << "malformed", 0 >>} }

MCAssigned ==
  { [None EXCEPT !.ip = 7],
    [None EXCEPT !.ip = 8, !.dns1 = 3, !.nbns1 = 4, !.mtu = 1400] }

MCStrays ==
  { Frame("illegal", "Request", 0, {}),
    [Frame("lcp", "Request", 0, {<< "mru", 600 >>}) EXCEPT !.length = "long"],
    Frame("eap", "Response", 0, {}),
    Frame("pap", "AuthRequest", 0, {<< "overrun", 1 >>}),
    Frame("chap", "Response", 0, {<< "value", 49 >>, << "reserved", 1 >>}) }
=============================================================================

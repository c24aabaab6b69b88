---------------------------- MODULE MCAuthBridge ----------------------------
(* AuthBridge for TLC: an answer of each kind. *)
EXTENDS AuthBridge

MCAccept(ip, key1, key2, mtu, rate) ==
    [code |-> "Accept", ip |-> ip, send_key |-> key1, recv_key |-> key2, mtu |-> mtu, rate |-> rate]

MCAnswer ==
    {MCAccept(TRUE, 16, 16, 1400, "Parses"), MCAccept(TRUE, 16, 0, 70000, "Garbage"),
     MCAccept(TRUE, 24, -1, 0, "Absent"), MCAccept(FALSE, 16, 16, 300, "Parses"),
     [code |-> "Reject"], [code |-> "Challenge"], [code |-> "Timeout"]}
=============================================================================

------------------------------ MODULE DataPath ------------------------------
(***************************************************************************)
(* Bringing a session's data path up and taking it down                    *)
(* (src/src/session.rs, the NetworkUp event and the locals of drive_sstp;  *)
(* src/src/kppp; src/src/shape; src/src/crypto/ktls.rs): the choice of the *)
(* data path, the kernel's record layer on the socket, the netdev and its  *)
(* configuration, the attachment to the kernel module, the traffic shaping *)
(* and the MSS clamp, the routes, and the order the locals are dropped in. *)
(*                                                                         *)
(* Sessions run on different workers and share the netdev names, which the *)
(* kernel reuses, and one nftables table under a mutex.  Everything else a *)
(* session sets up is its own, so its several system calls are one step    *)
(* with every point of failure.  A netlink message is the object it asks   *)
(* for and what the kernel wants to find first; an exchange can fail with  *)
(* or without the kernel having applied it.                                *)
(***************************************************************************)
EXTENDS Integers, Sequences, Functions

CONSTANTS
    Session, NoSession, \* sessions; no session
    NumUnits,           \* netdev names of each kind
    LinkMtu,            \* what negotiation leaves in AssignedAddrs.mtu, 0 for None
    Policy,             \* PendingPolicy: what a user's profile asks for
    MaxFaults           \* bound on the exchanges that fail

ASSUME DataPathAssumption ==
    /\ NoSession \notin Session
    /\ NumUnits \in Nat \ {0} /\ LinkMtu \subseteq Nat /\ MaxFaults \in Nat
    /\ Policy \subseteq SUBSET {"egress", "ingress", "route"}

VARIABLES
    data_path,  \* DataPathMode: "Auto", "Kernel" or "Tun"
    pc,         \* where each session's task is
    cipher,     \* what its handshake negotiated
    link_mtu,   \* AssignedAddrs.mtu
    policy,     \* PendingPolicy
    path,       \* the data path in use
    ktls,       \* how far the kernel's record layer is installed on its socket
    dev,        \* its netdev
    conf,       \* what is configured on the netdev (external)
    kmod,       \* KmodSession: its two file descriptors, and the AsyncFd on the first
    handle,     \* SharedMssHandle: the name it will remove
    acct,       \* AcctState: "None", "Started", "Stopped", or "Unsampled"
    lock,       \* SharedMssTable: the holder of the mutex
    table_exists, kernel_created, refcount,
    nft,        \* the nftables objects under the table's name (external)
    faults      \* exchanges with the kernel that failed (history)

own == <<cipher, link_mtu, policy, path, ktls, dev, conf, kmod, acct>>
table == <<table_exists, kernel_created, refcount, nft>>
vars == <<data_path, pc, own, handle, lock, table, faults>>

-----------------------------------------------------------------------------
(* Names and numbers.                                                      *)

Mode == {"Auto", "Kernel", "Tun"}
Ifname == {"ppp", "tun"} \X (0..(NumUnits - 1))
NoDev == <<"none", 0>>
Setting == {"mtu", "addr", "up", "route", "htb_root", "htb_leaf", "ingress_qdisc", "police_filter"}

\* Two ciphers stand for the classes ktls_eligibility tells apart.
Cipher == {"Tls13Gcm", "Tls12Cbc"}
ktls_eligibility(c) == c = "Tls13Gcm"
tls_record_overhead(c) == IF c = "Tls13Gcm" THEN 22 ELSE 56

Clamp(x, lo, hi) == IF x < lo THEN lo ELSE IF x > hi THEN hi ELSE x

effective_mtu(requested) == IF requested = 0 THEN 1400 ELSE Clamp(requested, 576, 1500)

\* The link's bound and the underlay's, within [536, 1460].
compute_mss4(mtu, c) ==
    LET mss_link == Clamp(mtu, 576, 1500) - 40
        encap == 40 + tls_record_overhead(c) + 4 + 4
        mss_underlay == 1500 - (encap + 40)
    IN  Clamp(IF mss_link < mss_underlay THEN mss_link ELSE mss_underlay, 536, 1460)

\* NetworkUp takes 1500 for a link MTU that is not there.
mss(s) == compute_mss4(IF link_mtu[s] = 0 THEN 1500 ELSE link_mtu[s], cipher[s])
Mss == {compute_mss4(IF m = 0 THEN 1500 ELSE m, c) : m \in LinkMtu, c \in Cipher}

-----------------------------------------------------------------------------
(* Netlink: the object a request asks for, what the kernel must find there *)
(* first, and whether the object may be there already (the EXCL flag).     *)

encode_set_mtu == [obj |-> "mtu", needs |-> {}, excl |-> FALSE]
encode_add_p2p_addr == [obj |-> "addr", needs |-> {}, excl |-> TRUE]
encode_set_link_up == [obj |-> "up", needs |-> {}, excl |-> FALSE]
encode_add_route == [obj |-> "route", needs |-> {"up"}, excl |-> FALSE]
encode_htb_root == [obj |-> "htb_root", needs |-> {}, excl |-> FALSE]
encode_htb_leaf == [obj |-> "htb_leaf", needs |-> {"htb_root"}, excl |-> FALSE]
encode_ingress_qdisc == [obj |-> "ingress_qdisc", needs |-> {}, excl |-> FALSE]
encode_ingress_police_filter == [obj |-> "police_filter", needs |-> {"ingress_qdisc"}, excl |-> FALSE]

build_create_table == [obj |-> <<"table">>, needs |-> {}, excl |-> TRUE]
build_create_set(m) == [obj |-> <<"set", m>>, needs |-> {<<"table">>}, excl |-> TRUE]
build_create_chain(m) == [obj |-> <<"chain", m>>, needs |-> {<<"table">>}, excl |-> TRUE]
build_rule(m, dir) == [obj |-> <<"rule", m, dir>>, needs |-> {<<"set", m>>, <<"chain", m>>}, excl |-> FALSE]
build_add_elem(m, ifname) == [obj |-> <<"elem", m, ifname>>, needs |-> {<<"set", m>>}, excl |-> FALSE]

\* The kernel takes a request that finds these objects (external).
Admissible(have, q) == q.needs \subseteq have /\ (q.excl => q.obj \notin have)

\* send, recv_into and drain_acks: acknowledged, refused, or a failure on the way to the
\* kernel or back from it.
Outcomes(have, q) ==
    LET ok == Admissible(have, q)
        after == IF ok THEN have \cup {q.obj} ELSE have
    IN  {[acked |-> ok, have |-> after, lost |-> FALSE]}
        \cup {[acked |-> FALSE, have |-> h, lost |-> TRUE] : h \in {have, after}}

\* exchange_batch: one nf_tables transaction.
exchange_batch(q) == Outcomes(nft, q)

\* exchange, for requests sent one after the other up to the first error: how many were
\* acknowledged, what the netdev has after them, and whether an exchange failed.
exchange(have, prog) ==
    LET done(k) == have \cup {prog[i].obj : i \in 1..k}
        n == Len(prog)
        reached == {k \in 0..n : \A i \in 1..k : Admissible(done(i - 1), prog[i])}
    IN  (IF n \in reached THEN {[acked |-> n, have |-> done(n), lost |-> FALSE]} ELSE {})
        \cup UNION {{[acked |-> k, have |-> x.have, lost |-> x.lost] :
                        x \in {y \in Outcomes(done(k), prog[k + 1]) : ~y.acked}} : k \in reached \ {n}}

\* An exchange that fails, within the bound.
Count(lost) == IF lost THEN faults < MaxFaults /\ faults' = faults + 1 ELSE UNCHANGED faults

-----------------------------------------------------------------------------
(* A session's own resources.                                              *)

Goto(s, stage) == pc' = [pc EXCEPT ![s] = stage]

Init ==
    /\ data_path \in Mode /\ nft = {} /\ faults = 0
    /\ pc = [s \in Session |-> "Idle"]
    /\ cipher = [s \in Session |-> "None"] /\ link_mtu = [s \in Session |-> 0]
    /\ policy = [s \in Session |-> {}] /\ path = [s \in Session |-> "None"] /\ ktls = [s \in Session |-> 0]
    /\ dev = [s \in Session |-> NoDev] /\ conf = [s \in Session |-> {}] /\ kmod = [s \in Session |-> {}]
    /\ acct = [s \in Session |-> "None"] /\ handle = [s \in Session |-> NoDev]
    /\ lock = NoSession /\ table_exists = FALSE
    /\ kernel_created = [m \in Mss |-> FALSE] /\ refcount = [m \in Mss |-> 0]

\* A connection gets as far as IPCP with this cipher, MTU and profile.
accept(s) ==
    /\ pc[s] = "Idle"
    /\ \E c \in Cipher : cipher' = [cipher EXCEPT ![s] = c]
    /\ \E m \in LinkMtu : link_mtu' = [link_mtu EXCEPT ![s] = m]
    /\ \E p \in Policy : policy' = [policy EXCEPT ![s] = p]
    /\ Goto(s, "NetworkUp")
    /\ UNCHANGED <<data_path, path, ktls, acct, dev, conf, kmod, handle, lock, table, faults>>

resolve(c) == IF data_path # "Auto" THEN data_path ELSE IF ktls_eligibility(c) THEN "Kernel" ELSE "Tun"

\* Mutant: every error of the installation falls back to the TUN path.
install_ktls_always_falls_back(s) ==
    \/ /\ ktls' = [ktls EXCEPT ![s] = 3] /\ path' = [path EXCEPT ![s] = "Kernel"] /\ Goto(s, "Open")
    \/ /\ \E k \in 0..2 : ktls' = [ktls EXCEPT ![s] = k]
       /\ IF data_path = "Auto"
          THEN path' = [path EXCEPT ![s] = "Tun"] /\ Goto(s, "Open")
          ELSE Goto(s, "Stop") /\ UNCHANGED path

\* install_ktls: the ULP, then the send keys, then the receive keys; it ends with
\* all three, or with the first k, or refuses since libssl holds buffered bytes.
install_ktls(s) ==
    \/ /\ ktls' = [ktls EXCEPT ![s] = 3] /\ path' = [path EXCEPT ![s] = "Kernel"] /\ Goto(s, "Open")
    \/ /\ \E k \in 0..2 : ktls' = [ktls EXCEPT ![s] = k]
       /\ Goto(s, "Stop") /\ UNCHANGED path
    \/ /\ UNCHANGED ktls  \* BufferedData
       /\ IF data_path = "Auto"
          THEN path' = [path EXCEPT ![s] = "Tun"] /\ Goto(s, "Open")
          ELSE Goto(s, "Stop") /\ UNCHANGED path

\* NetworkUp: a forced kernel path with a cipher it cannot take only warns.
NetworkUp(s) ==
    /\ pc[s] = "NetworkUp"
    /\ IF resolve(cipher[s]) = "Kernel" /\ ktls_eligibility(cipher[s])
       THEN install_ktls(s)
       ELSE path' = [path EXCEPT ![s] = resolve(cipher[s])] /\ Goto(s, "Open") /\ UNCHANGED ktls
    /\ UNCHANGED <<data_path, cipher, link_mtu, policy, dev, conf, kmod, acct, handle, lock, table, faults>>

\* An error inside bring_up drops the netdev and the descriptors made so far.
Unwind(s) ==
    /\ dev' = [dev EXCEPT ![s] = NoDev] /\ conf' = [conf EXCEPT ![s] = {}] /\ kmod' = [kmod EXCEPT ![s] = {}]
    /\ Goto(s, "Stop")

\* The kernel gives the lowest free name of a kind (external).
LowestFree(kind, n) ==
    LET InUse(i) == \E s \in Session : dev[s] = <<kind, i>>
    IN  ~InUse(n) /\ \A i \in 0..(n - 1) : InUse(i)

Create(s, kind) ==
    /\ \/ \E n \in 0..(NumUnits - 1) :
             /\ LowestFree(kind, n) /\ dev' = [dev EXCEPT ![s] = <<kind, n>>]
             /\ Goto(s, "Configure") /\ UNCHANGED <<conf, kmod>>
       \/ Unwind(s)
    /\ UNCHANGED <<data_path, cipher, link_mtu, policy, path, ktls, acct, handle, lock, table, faults>>

Unit_new(s) == pc[s] = "Open" /\ path[s] = "Kernel" /\ Create(s, "ppp")

TunSession_bring_up(s) == pc[s] = "Open" /\ path[s] = "Tun" /\ Create(s, "tun")

\* RtNetlink::bring_up.
configure(s) ==
    /\ pc[s] = "Configure"
    /\ \E x \in exchange(conf[s], <<encode_set_mtu, encode_add_p2p_addr, encode_set_link_up>>) :
          /\ Count(x.lost)
          /\ IF x.acked = 3
             THEN /\ conf' = [conf EXCEPT ![s] = x.have] /\ UNCHANGED <<dev, kmod>>
                  /\ Goto(s, IF path[s] = "Kernel" THEN "Attach" ELSE "Shape")
             ELSE Unwind(s)
    /\ UNCHANGED <<data_path, cipher, link_mtu, policy, path, ktls, acct, handle, lock, table>>

\* KmodSession::attach: the module refuses a socket without both record layers.
attach(s) ==
    /\ pc[s] = "Attach"
    /\ \/ /\ ktls[s] = 3
          /\ kmod' = [kmod EXCEPT ![s] = {"session_fd"}]
          /\ Goto(s, "Bind") /\ UNCHANGED <<dev, conf>>
       \/ Unwind(s)
    /\ UNCHANGED <<data_path, cipher, link_mtu, policy, path, ktls, acct, handle, lock, table, faults>>

bind_channel_to_unit(s) ==
    /\ pc[s] = "Bind"
    /\ \/ /\ kmod' = [kmod EXCEPT ![s] = @ \cup {"chan_fd"}]
          /\ Goto(s, "Shape") /\ UNCHANGED <<dev, conf>>
       \/ Unwind(s)
    /\ UNCHANGED <<data_path, cipher, link_mtu, policy, path, ktls, acct, handle, lock, table, faults>>

\* Shaper::apply; an error leaves the session as far as it got.
program(p) == (IF "egress" \in p THEN <<encode_htb_root, encode_htb_leaf>> ELSE <<>>)
           \o (IF "ingress" \in p THEN <<encode_ingress_qdisc, encode_ingress_police_filter>> ELSE <<>>)

apply(s) ==
    /\ pc[s] = "Shape"
    /\ \E x \in exchange(conf[s], program(policy[s])) :
          conf' = [conf EXCEPT ![s] = x.have] /\ Count(x.lost)
    /\ Goto(s, "Clamp")
    /\ UNCHANGED <<data_path, cipher, link_mtu, policy, path, ktls, dev, kmod, acct, handle, lock, table>>

\* The Framed-Routes, then the session is up and its accounting starts.
add_routes(s) ==
    /\ pc[s] = "Routes"
    /\ \E x \in exchange(conf[s], IF "route" \in policy[s] THEN <<encode_add_route>> ELSE <<>>) :
          conf' = [conf EXCEPT ![s] = x.have] /\ Count(x.lost)
    /\ acct' = [acct EXCEPT ![s] = "Started"]
    /\ Goto(s, "Up")
    /\ UNCHANGED <<data_path, cipher, link_mtu, policy, path, ktls, dev, kmod, handle, lock, table>>

\* The loop registers the module's descriptor; a failure ends the session.
register(s) ==
    /\ pc[s] = "Up" /\ "session_fd" \in kmod[s] /\ "async_fd" \notin kmod[s]
    /\ \/ kmod' = [kmod EXCEPT ![s] = @ \cup {"async_fd"}] /\ UNCHANGED pc
       \/ Goto(s, "Stop") /\ UNCHANGED kmod
    /\ UNCHANGED <<data_path, cipher, link_mtu, policy, path, ktls, dev, conf, acct, handle, lock, table, faults>>

-----------------------------------------------------------------------------
(* SharedMssTable.                                                         *)

\* Mutant: the group is created again whenever no interface is in it.
add_when_empty(s) ==
    /\ pc[s] = "Clamp" /\ lock = NoSession
    /\ \/ /\ lock' = s /\ UNCHANGED faults
          /\ Goto(s, IF ~table_exists THEN "Flush" ELSE IF refcount[mss(s)] # 0 THEN "Elem" ELSE "Set")
       \/ Goto(s, "Routes") /\ Count(TRUE) /\ UNCHANGED lock
    /\ UNCHANGED <<data_path, own, handle, table>>

\* add: the mutex and a socket; the socket may not open.
add(s) ==
    /\ pc[s] = "Clamp" /\ lock = NoSession
    /\ \/ /\ lock' = s /\ UNCHANGED faults
          /\ Goto(s, IF ~table_exists THEN "Flush" ELSE IF kernel_created[mss(s)] THEN "Elem" ELSE "Set")
       \/ Goto(s, "Routes") /\ Count(TRUE) /\ UNCHANGED lock
    /\ UNCHANGED <<data_path, own, handle, table>>

\* A table of this name is a crashed process's: whatever comes of deleting it, go on.
flush(s) ==
    /\ pc[s] = "Flush"
    /\ Goto(s, "Table")
    /\ \/ nft' = {} /\ UNCHANGED faults
       \/ nft' \in {nft, {}} /\ Count(TRUE)
    /\ UNCHANGED <<data_path, own, handle, lock, table_exists, kernel_created, refcount>>

\* One transaction of add: on to the next stage, or out of add with an error.
Transaction(s, q, next) ==
    \E x \in exchange_batch(q) :
       /\ nft' = x.have /\ Count(x.lost)
       /\ IF x.acked THEN Goto(s, next) /\ UNCHANGED lock
                     ELSE Goto(s, "Routes") /\ lock' = NoSession

create_table(s) ==
    /\ pc[s] = "Table"
    /\ Transaction(s, build_create_table, IF kernel_created[mss(s)] THEN "Elem" ELSE "Set")
    /\ table_exists' = (lock' = s)
    /\ UNCHANGED <<data_path, own, handle, kernel_created, refcount>>

\* Mutant: the group counts as created from its first transaction.
create_set_marks_created(s) ==
    /\ pc[s] = "Set" /\ Transaction(s, build_create_set(mss(s)), "Chain")
    /\ kernel_created' = [kernel_created EXCEPT ![mss(s)] = TRUE]
    /\ UNCHANGED <<data_path, own, handle, table_exists, refcount>>

create_set(s) ==
    /\ pc[s] = "Set" /\ Transaction(s, build_create_set(mss(s)), "Chain")
    /\ UNCHANGED <<data_path, own, handle, table_exists, kernel_created, refcount>>

create_chain(s) ==
    /\ pc[s] = "Chain" /\ Transaction(s, build_create_chain(mss(s)), "RuleIif")
    /\ UNCHANGED <<data_path, own, handle, table_exists, kernel_created, refcount>>

create_rule_iif(s) ==
    /\ pc[s] = "RuleIif" /\ Transaction(s, build_rule(mss(s), "iif"), "RuleOif")
    /\ UNCHANGED <<data_path, own, handle, table_exists, kernel_created, refcount>>

create_rule_oif(s) ==
    /\ pc[s] = "RuleOif" /\ Transaction(s, build_rule(mss(s), "oif"), "Elem")
    /\ kernel_created' = [kernel_created EXCEPT ![mss(s)] = (lock' = s)]
    /\ UNCHANGED <<data_path, own, handle, table_exists, refcount>>

\* The interface joins the set; the session has its handle.
add_elem(s) ==
    /\ pc[s] = "Elem"
    /\ \E x \in exchange_batch(build_add_elem(mss(s), dev[s])) :
          /\ nft' = x.have /\ Count(x.lost)
          /\ handle' = [handle EXCEPT ![s] = IF x.acked THEN dev[s] ELSE NoDev]
          /\ refcount' = [refcount EXCEPT ![mss(s)] = IF x.acked THEN @ + 1 ELSE @]
    /\ lock' = NoSession /\ Goto(s, "Routes")
    /\ UNCHANGED <<data_path, own, table_exists, kernel_created>>

\* remove, from the handle's drop: best effort, and the group stays.
remove(s) ==
    /\ pc[s] = "Unclamp"
    /\ \/ handle[s] = NoDev /\ UNCHANGED <<handle, refcount, nft, faults>>
       \/ /\ handle[s] # NoDev /\ lock = NoSession
          /\ handle' = [handle EXCEPT ![s] = NoDev]
          /\ LET gone == nft \ {<<"elem", mss(s), handle[s]>>} IN
             \/ /\ refcount' = [refcount EXCEPT ![mss(s)] = IF @ = 0 THEN 0 ELSE @ - 1]
                /\ \/ nft' = gone /\ UNCHANGED faults
                   \/ nft' \in {nft, gone} /\ Count(TRUE)
             \/ UNCHANGED <<refcount, nft>> /\ Count(TRUE)   \* no socket
    /\ Goto(s, "Close")
    /\ UNCHANGED <<data_path, own, lock, table_exists, kernel_created>>

-----------------------------------------------------------------------------
(* The end of a session: the locals of drive_sstp in the reverse order.    *)

\* The peer left, a timer expired, a control command or the drain ended it.
end(s) ==
    /\ pc[s] \in {"NetworkUp", "Up"} /\ Goto(s, "Stop")
    /\ UNCHANGED <<data_path, own, handle, lock, table, faults>>

\* AcctStopGuard: the Stop record carries the counters of the netdev.
stop(s) ==
    /\ pc[s] = "Stop" /\ Goto(s, "Deregister")
    /\ acct' = [acct EXCEPT ![s] = IF @ # "Started" THEN @
                                   ELSE IF dev[s] = NoDev THEN "Unsampled" ELSE "Stopped"]
    /\ UNCHANGED <<data_path, cipher, link_mtu, policy, path, ktls, dev, conf, kmod, handle, lock, table, faults>>

\* Mutant: the data path is declared after the MSS handle, and so dropped before it.
deregister_drops_kppp(s) ==
    /\ pc[s] = "Deregister" /\ Goto(s, "Unclamp")
    /\ dev' = [dev EXCEPT ![s] = NoDev] /\ conf' = [conf EXCEPT ![s] = {}] /\ kmod' = [kmod EXCEPT ![s] = {}]
    /\ UNCHANGED <<data_path, cipher, link_mtu, policy, path, ktls, acct, handle, lock, table, faults>>

deregister(s) ==
    /\ pc[s] = "Deregister" /\ Goto(s, "Unclamp")
    /\ kmod' = [kmod EXCEPT ![s] = @ \ {"async_fd"}]
    /\ UNCHANGED <<data_path, cipher, link_mtu, policy, path, ktls, dev, conf, acct, handle, lock, table, faults>>

\* PppBackend drops the unit, and with it the netdev, before the module's descriptors.
close_unit(s) ==
    /\ pc[s] = "Close" /\ Goto(s, "Detach")
    /\ dev' = [dev EXCEPT ![s] = NoDev] /\ conf' = [conf EXCEPT ![s] = {}]
    /\ UNCHANGED <<data_path, cipher, link_mtu, policy, path, ktls, kmod, acct, handle, lock, table, faults>>

detach(s) ==
    /\ pc[s] = "Detach" /\ Goto(s, "Idle")
    /\ kmod' = [kmod EXCEPT ![s] = {}] /\ cipher' = [cipher EXCEPT ![s] = "None"]
    /\ link_mtu' = [link_mtu EXCEPT ![s] = 0] /\ policy' = [policy EXCEPT ![s] = {}]
    /\ path' = [path EXCEPT ![s] = "None"] /\ ktls' = [ktls EXCEPT ![s] = 0]
    /\ acct' = [acct EXCEPT ![s] = "None"]
    /\ UNCHANGED <<data_path, dev, conf, handle, lock, table, faults>>

-----------------------------------------------------------------------------
(* The process.                                                            *)

\* destroy, when the last reference to the table goes, and the next start.
destroy ==
    /\ \A s \in Session : pc[s] = "Idle"
    /\ \/ ~table_exists /\ UNCHANGED <<nft, faults>>
       \/ table_exists /\ nft' = {} /\ UNCHANGED faults
       \/ table_exists /\ nft' \in {nft, {}} /\ Count(TRUE)
    /\ table_exists' = FALSE
    /\ kernel_created' = [m \in Mss |-> FALSE] /\ refcount' = [m \in Mss |-> 0]
    /\ UNCHANGED <<data_path, pc, own, handle, lock>>

\* A crash closes every descriptor; the table outlives the process, and the next one
\* may have its identifier.
crash ==
    /\ pc' = [s \in Session |-> "Idle"]
    /\ cipher' = [s \in Session |-> "None"] /\ link_mtu' = [s \in Session |-> 0]
    /\ policy' = [s \in Session |-> {}] /\ path' = [s \in Session |-> "None"] /\ ktls' = [s \in Session |-> 0]
    /\ dev' = [s \in Session |-> NoDev] /\ conf' = [s \in Session |-> {}] /\ kmod' = [s \in Session |-> {}]
    /\ acct' = [s \in Session |-> "None"] /\ handle' = [s \in Session |-> NoDev]
    /\ lock' = NoSession /\ table_exists' = FALSE
    /\ kernel_created' = [m \in Mss |-> FALSE] /\ refcount' = [m \in Mss |-> 0]
    /\ UNCHANGED <<data_path, nft, faults>>

\* A session's task, up to what only its environment can bring about.
Task(s) ==
    \/ NetworkUp(s) \/ Unit_new(s) \/ TunSession_bring_up(s) \/ configure(s) \/ attach(s)
    \/ bind_channel_to_unit(s) \/ apply(s) \/ add_routes(s) \/ register(s)
    \/ add(s) \/ flush(s) \/ create_table(s) \/ create_set(s) \/ create_chain(s)
    \/ create_rule_iif(s) \/ create_rule_oif(s) \/ add_elem(s)
    \/ stop(s) \/ deregister(s) \/ remove(s) \/ close_unit(s) \/ detach(s)

Next == destroy \/ crash \/ \E s \in Session : accept(s) \/ end(s) \/ Task(s)

Spec == Init /\ [][Next]_vars

-----------------------------------------------------------------------------
(* Properties.                                                             *)

Stage == {"Idle", "NetworkUp", "Open", "Configure", "Attach", "Bind", "Shape", "Clamp", "Flush", "Table", "Set", "Chain",
          "RuleIif", "RuleOif", "Elem", "Routes", "Up", "Stop", "Deregister", "Unclamp", "Close", "Detach"}
Object(m, ifname) == {<<"table">>, <<"set", m>>, <<"chain", m>>, <<"rule", m, "iif">>, <<"rule", m, "oif">>,
                      <<"elem", m, ifname>>}

\* Type correctness; a group's reference count never wraps below zero.
TypeOK ==
    /\ data_path \in Mode /\ pc \in [Session -> Stage]
    /\ cipher \in [Session -> Cipher \cup {"None"}] /\ link_mtu \in [Session -> LinkMtu \cup {0}]
    /\ policy \in [Session -> Policy \cup {{}}] /\ path \in [Session -> {"None", "Kernel", "Tun"}]
    /\ ktls \in [Session -> 0..3]
    /\ dev \in [Session -> Ifname \cup {NoDev}] /\ handle \in [Session -> Ifname \cup {NoDev}]
    /\ conf \in [Session -> SUBSET Setting] /\ kmod \in [Session -> SUBSET {"session_fd", "chan_fd", "async_fd"}]
    /\ acct \in [Session -> {"None", "Started", "Stopped", "Unsampled"}]
    /\ lock \in Session \cup {NoSession} /\ table_exists \in BOOLEAN
    /\ kernel_created \in [Mss -> BOOLEAN] /\ refcount \in [Mss -> Nat]
    /\ nft \subseteq UNION {Object(m, i) : m \in Mss, i \in Ifname} /\ faults \in 0..MaxFaults

\* As long as a session holds its SharedMssHandle the kernel rewrites the SYNs of its
\* netdev: the element, the set, the chain and both rules are there, whatever exchange
\* failed and whatever other sessions added, removed or left half done.
ClampInForce == \A s \in Session : handle[s] # NoDev => Object(mss(s), handle[s]) \subseteq nft

\* n is the number of elements of S.
Counts(n, S) == n \in Nat /\ ExistsBijection(1..n, S)

\* While every exchange has succeeded a session comes up with everything its profile asks
\* for, the clamp included, and the sets hold the interfaces of the live handles and no
\* other, also after a crash left a table behind (the flush in SharedMssTable::add).
CompleteUnlessFault ==
    faults = 0 =>
       /\ \A s \in Session : pc[s] = "Up" =>
             /\ handle[s] = dev[s]
             /\ conf[s] = {"mtu", "addr", "up"} \cup (policy[s] \cap {"route"})
                          \cup {program(policy[s])[i].obj : i \in 1..Len(program(policy[s]))}
       /\ table_exists => {o \in nft : o[1] = "elem"}
                          = {<<"elem", mss(s), handle[s]>> : s \in {t \in Session : handle[t] # NoDev}}
       /\ \A m \in Mss : Counts(refcount[m], {s \in Session : handle[s] # NoDev /\ mss(s) = m})

\* The TUN path, where libssl still encrypts, is only ever taken with nothing of the kernel's
\* record layer on the socket, and a session past bring_up on the kernel path has both its
\* record layers, its netdev up and the channel bound.
RecordLayerMatchesPath ==
    \A s \in Session :
       /\ path[s] = "Tun" => ktls[s] = 0
       /\ path[s] = "Kernel" /\ pc[s] \in {"Shape", "Clamp", "Elem", "Routes", "Up"}
          => ktls[s] = 3 /\ {"session_fd", "chan_fd"} \subseteq kmod[s] /\ "up" \in conf[s]

\* The drop order of drive_sstp's locals: a session gives up its clamp, which is for the
\* name of its netdev, before the kernel can give that name to another session (the element
\* itself stays in the set when its removal fails); the Stop record is sampled while the
\* netdev exists; and the AsyncFd never outlives its descriptor.
TeardownOrder ==
    \A s \in Session :
       /\ handle[s] # NoDev => handle[s] = dev[s]
       /\ acct[s] # "Unsampled"
       /\ "async_fd" \in kmod[s] => "session_fd" \in kmod[s]

\* "`Auto` tries the kernel path first and falls back to a TUN device with a warning log if
\* the `sstp` kmod isn't present or the attach fails" (cli.rs:110).
AutoFallsBack ==
    [][\A s \in Session : data_path = "Auto" /\ pc[s] \in {"Attach", "Bind"} => pc'[s] # "Stop"]_vars

\* A clamped TCP segment fits the netdev: "On-link bound: a peer-side TCP segment must fit
\* inside the inner IPv4 packet on `pppN`" (shape/mss.rs:98).
SegmentFitsLink == \A s \in Session : handle[s] # NoDev => mss(s) + 40 <= effective_mtu(link_mtu[s])

=============================================================================

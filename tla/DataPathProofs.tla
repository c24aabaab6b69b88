--------------------------- MODULE DataPathProofs ---------------------------
(***************************************************************************)
(* Proofs about DataPath, for any number of sessions, netdev names, MTUs,  *)
(* profiles and failing exchanges.  A session's own stages are one         *)
(* invariant (StageInv), which an action of another session leaves alone   *)
(* (OthersKeep); the shared nftables table is a second one (TableInv).     *)
(* While no exchange has failed, more holds of both (FInv).                *)
(***************************************************************************)
EXTENDS DataPath, TLAPS

-----------------------------------------------------------------------------
(* Netlink exchanges.                                                      *)

\* A transaction adds its object or nothing; when it is acknowledged the object is there.
LEMMA OutcomeFacts ==
  ASSUME NEW have, NEW q, NEW x \in Outcomes(have, q)
  PROVE  /\ have \subseteq x.have /\ x.have \subseteq have \cup {q.obj}
         /\ x.acked => q.obj \in x.have /\ Admissible(have, q)
         /\ x.lost \in BOOLEAN /\ x.acked \in BOOLEAN
<1> DEFINE ok == Admissible(have, q)
           after == IF ok THEN have \cup {q.obj} ELSE have
<1>1. have \subseteq after /\ after \subseteq have \cup {q.obj} /\ (ok => q.obj \in after)
  OBVIOUS
<1>2. ok \in BOOLEAN
  BY DEF Admissible
<1>3. \/ x = [acked |-> ok, have |-> after, lost |-> FALSE]
      \/ x = [acked |-> FALSE, have |-> have, lost |-> TRUE]
      \/ x = [acked |-> FALSE, have |-> after, lost |-> TRUE]
  BY DEF Outcomes
<1> HIDE DEF ok, after
<1>4. CASE x = [acked |-> ok, have |-> after, lost |-> FALSE]
  <2>1. x.acked = ok /\ x.have = after /\ x.lost = FALSE
    BY <1>4
  <2>2. x.acked \in BOOLEAN /\ x.lost \in BOOLEAN /\ (x.acked => ok)
    BY ZenonT(60), <1>2, <2>1
  <2> QED BY <1>1, <2>1, <2>2 DEF ok
<1>5. CASE x = [acked |-> FALSE, have |-> have, lost |-> TRUE]
  BY <1>5
<1>6. CASE x = [acked |-> FALSE, have |-> after, lost |-> TRUE]
  BY <1>1, <1>6
<1> QED BY <1>3, <1>4, <1>5, <1>6

\* A sequence of requests leaves what was there, and adds nothing but its own objects.
LEMMA ExchangeFacts ==
  ASSUME NEW have, NEW prog, Len(prog) \in Nat, NEW x \in exchange(have, prog)
  PROVE  /\ have \subseteq x.have
         /\ x.have \subseteq have \cup {prog[i].obj : i \in 1..Len(prog)}
         /\ x.lost \in BOOLEAN
         /\ x.acked = Len(prog) => x.have = have \cup {prog[i].obj : i \in 1..Len(prog)}
<1> DEFINE done(k) == have \cup {prog[i].obj : i \in 1..k}
           reached == {k \in 0..Len(prog) : \A i \in 1..k : Admissible(done(i - 1), prog[i])}
<1>1. CASE x = [acked |-> Len(prog), have |-> done(Len(prog)), lost |-> FALSE]
  BY <1>1
<1>2. CASE \E k \in reached \ {Len(prog)} : \E y \in Outcomes(done(k), prog[k + 1]) :
              x = [acked |-> k, have |-> y.have, lost |-> y.lost]
  <2>0. PICK k \in reached \ {Len(prog)} : \E y \in Outcomes(done(k), prog[k + 1]) :
              x = [acked |-> k, have |-> y.have, lost |-> y.lost]
    BY ZenonT(60), <1>2
  <2>1. PICK y \in Outcomes(done(k), prog[k + 1]) :
              x = [acked |-> k, have |-> y.have, lost |-> y.lost]
    BY ZenonT(60), <2>0
  <2>2. k \in 0..Len(prog) /\ k # Len(prog) /\ k + 1 \in 1..Len(prog)
    BY <2>1
  <2>3. done(k) \subseteq y.have /\ y.have \subseteq done(k) \cup {prog[k + 1].obj}
        /\ y.lost \in BOOLEAN
    BY <2>1, OutcomeFacts
  <2>4. done(k) \cup {prog[k + 1].obj} \subseteq done(Len(prog))
    BY <2>2
  <2> QED BY <2>1, <2>2, <2>3, <2>4
<1>3. \/ x = [acked |-> Len(prog), have |-> done(Len(prog)), lost |-> FALSE]
      \/ \E k \in reached \ {Len(prog)} : \E y \in Outcomes(done(k), prog[k + 1]) :
              x = [acked |-> k, have |-> y.have, lost |-> y.lost]
  BY ZenonT(60) DEF exchange
<1> QED BY ZenonT(60), <1>1, <1>2, <1>3

\* What bring_up, the shaper and the routes may leave on a netdev.
BroughtUp == {"mtu", "addr", "up"}
bring_up_program == <<encode_set_mtu, encode_add_p2p_addr, encode_set_link_up>>
route_program(p) == IF "route" \in p THEN <<encode_add_route>> ELSE <<>>

LEMMA BringUpProgram ==
  ASSUME NEW have, NEW x \in exchange(have, bring_up_program)
  PROVE  /\ have \subseteq x.have /\ x.have \subseteq have \cup Setting /\ x.lost \in BOOLEAN
         /\ x.acked = 3 => "up" \in x.have /\ x.have = have \cup BroughtUp
<1>1. Len(bring_up_program) = 3
  BY DEF bring_up_program
<1>2. bring_up_program[1].obj = "mtu" /\ bring_up_program[2].obj = "addr" /\ bring_up_program[3].obj = "up"
  BY DEF bring_up_program, encode_set_mtu, encode_add_p2p_addr, encode_set_link_up
<1>3. \A i \in 1..3 : bring_up_program[i].obj \in Setting
  BY <1>2 DEF Setting
<1> DEFINE objs == {bring_up_program[i].obj : i \in 1..Len(bring_up_program)}
<1> HIDE DEF bring_up_program
<1>4. /\ have \subseteq x.have /\ x.have \subseteq have \cup objs /\ x.lost \in BOOLEAN
      /\ x.acked = Len(bring_up_program) => x.have = have \cup objs
  <2>1. Len(bring_up_program) \in Nat
    BY <1>1
  <2> QED BY <2>1, ExchangeFacts
<1>5. objs = BroughtUp /\ "up" \in objs /\ objs \subseteq Setting
  BY <1>1, <1>2, <1>3 DEF BroughtUp
<1> HIDE DEF objs
<1> QED BY <1>1, <1>4, <1>5

LEMMA ShapeProgram ==
  ASSUME NEW p, NEW have, NEW x \in exchange(have, program(p))
  PROVE  have \subseteq x.have /\ x.have \subseteq have \cup Setting /\ x.lost \in BOOLEAN
<1>1. \A q \in {encode_htb_root, encode_htb_leaf, encode_ingress_qdisc, encode_ingress_police_filter} :
         q.obj \in Setting
  BY DEF encode_htb_root, encode_htb_leaf, encode_ingress_qdisc, encode_ingress_police_filter, Setting
<1>2. Len(program(p)) \in Nat /\ \A k \in 1..Len(program(p)) : program(p)[k].obj \in Setting
  <2>1. CASE "egress" \in p /\ "ingress" \in p
    <3>1. program(p) = <<encode_htb_root, encode_htb_leaf>> \o <<encode_ingress_qdisc, encode_ingress_police_filter>>
      BY <2>1 DEF program
    <3> QED BY <1>1, <3>1
  <2>2. CASE "egress" \in p /\ "ingress" \notin p
    <3>1. program(p) = <<encode_htb_root, encode_htb_leaf>> \o <<>>
      BY <2>2 DEF program
    <3> QED BY <1>1, <3>1
  <2>3. CASE "egress" \notin p /\ "ingress" \in p
    <3>1. program(p) = <<>> \o <<encode_ingress_qdisc, encode_ingress_police_filter>>
      BY <2>3 DEF program
    <3> QED BY <1>1, <3>1
  <2>4. CASE "egress" \notin p /\ "ingress" \notin p
    <3>1. program(p) = <<>> \o <<>>
      BY <2>4 DEF program
    <3> QED BY <3>1
  <2> QED BY <2>1, <2>2, <2>3, <2>4
<1> QED BY <1>2, ExchangeFacts

LEMMA RouteProgram ==
  ASSUME NEW p, NEW have, NEW x \in exchange(have, route_program(p))
  PROVE  have \subseteq x.have /\ x.have \subseteq have \cup Setting /\ x.lost \in BOOLEAN
<1>1. encode_add_route.obj \in Setting
  BY DEF encode_add_route, Setting
<1>2. CASE "route" \in p
  <2>1. route_program(p) = <<encode_add_route>>
    BY <1>2 DEF route_program
  <2>2. Len(route_program(p)) \in Nat /\ \A k \in 1..Len(route_program(p)) : route_program(p)[k].obj \in Setting
    BY <1>1, <2>1
  <2> QED BY <2>2, ExchangeFacts
<1>3. CASE "route" \notin p
  <2>1. route_program(p) = <<>>
    BY <1>3 DEF route_program
  <2>2. Len(route_program(p)) \in Nat /\ \A k \in 1..Len(route_program(p)) : route_program(p)[k].obj \in Setting
    BY <2>1
  <2> QED BY <2>2, ExchangeFacts
<1> QED BY <1>2, <1>3

-----------------------------------------------------------------------------
(* A session's own stages.                                                 *)

Locked == {"Flush", "Table", "Set", "Chain", "RuleIif", "RuleOif", "Elem"}
Late == Locked \cup {"Shape", "Clamp", "Routes", "Up"}
Held == {"Routes", "Up", "Stop", "Deregister", "Unclamp"}

\* What each stage of a session's task has established.
StageInv(s) ==
  /\ pc[s] # "Idle" => cipher[s] \in Cipher /\ link_mtu[s] \in LinkMtu
  /\ pc[s] \in {"Idle", "NetworkUp"} => ktls[s] = 0 /\ path[s] = "None"
  /\ pc[s] \in {"Configure", "Attach", "Bind"} \cup Late => dev[s] # NoDev
  /\ handle[s] # NoDev => pc[s] \in Held /\ handle[s] = dev[s]
  /\ acct[s] = "Started" => pc[s] \in {"Up", "Stop"} /\ dev[s] # NoDev
  /\ acct[s] # "Unsampled"
  /\ "async_fd" \in kmod[s] => "session_fd" \in kmod[s]
  /\ path[s] = "Tun" => ktls[s] = 0
  /\ path[s] = "Kernel" /\ pc[s] \in {"Attach", "Bind"} \cup Late => "up" \in conf[s]
  /\ path[s] = "Kernel" /\ pc[s] \in {"Bind"} \cup Late => ktls[s] = 3 /\ "session_fd" \in kmod[s]
  /\ path[s] = "Kernel" /\ pc[s] \in Late => "chan_fd" \in kmod[s]

\* The variables a session owns, and those it shares.
OwnTypes ==
  /\ data_path \in Mode /\ pc \in [Session -> Stage]
  /\ cipher \in [Session -> Cipher \cup {"None"}] /\ link_mtu \in [Session -> LinkMtu \cup {0}]
  /\ policy \in [Session -> Policy \cup {{}}] /\ path \in [Session -> {"None", "Kernel", "Tun"}]
  /\ ktls \in [Session -> 0..3]
  /\ dev \in [Session -> Ifname \cup {NoDev}] /\ handle \in [Session -> Ifname \cup {NoDev}]
  /\ conf \in [Session -> SUBSET Setting] /\ kmod \in [Session -> SUBSET {"session_fd", "chan_fd", "async_fd"}]
  /\ acct \in [Session -> {"None", "Started", "Stopped", "Unsampled"}]

\* The action of one session, in the groups the proofs treat alike.
Private(s) ==
  \/ accept(s) \/ end(s) \/ NetworkUp(s) \/ Unit_new(s) \/ TunSession_bring_up(s) \/ configure(s)
  \/ attach(s) \/ bind_channel_to_unit(s) \/ apply(s) \/ add_routes(s) \/ register(s)
  \/ stop(s) \/ deregister(s) \/ close_unit(s) \/ detach(s)
Shared(s) ==
  \/ add(s) \/ flush(s) \/ create_table(s) \/ create_set(s) \/ create_chain(s)
  \/ create_rule_iif(s) \/ create_rule_oif(s) \/ add_elem(s) \/ remove(s)

Same(t) ==
  /\ pc'[t] = pc[t] /\ cipher'[t] = cipher[t] /\ link_mtu'[t] = link_mtu[t] /\ policy'[t] = policy[t]
  /\ path'[t] = path[t] /\ ktls'[t] = ktls[t] /\ dev'[t] = dev[t] /\ conf'[t] = conf[t]
  /\ kmod'[t] = kmod[t] /\ acct'[t] = acct[t] /\ handle'[t] = handle[t]

LEMMA Groups == Next => destroy \/ crash \/ \E s \in Session : Private(s) \/ Shared(s)
  BY ZenonT(60) DEF Next, Task, Private, Shared

\* A session's step leaves every other session's stage alone.
LEMMA OthersKeep ==
  ASSUME OwnTypes, NEW s \in Session, NEW t \in Session, t # s, Private(s) \/ Shared(s)
  PROVE  Same(t)
<1> USE DEF OwnTypes, Same, Goto, own, table
<1>1. CASE accept(s) BY <1>1 DEF accept
<1>2. CASE end(s) BY <1>2 DEF end
<1>3. CASE NetworkUp(s) BY <1>3 DEF NetworkUp, install_ktls
<1>4. CASE Unit_new(s) \/ TunSession_bring_up(s) BY <1>4 DEF Unit_new, TunSession_bring_up, Create, Unwind
<1>5. CASE configure(s) BY <1>5 DEF configure, Unwind
<1>6. CASE attach(s) BY <1>6 DEF attach, Unwind
<1>7. CASE bind_channel_to_unit(s) BY <1>7 DEF bind_channel_to_unit, Unwind
<1>8. CASE apply(s) BY ZenonT(60), <1>8 DEF apply
<1>9. CASE add_routes(s) BY <1>9 DEF add_routes
<1>10. CASE register(s) BY <1>10 DEF register
<1>11. CASE stop(s) BY <1>11 DEF stop
<1>12. CASE deregister(s) BY <1>12 DEF deregister
<1>13. CASE close_unit(s) BY <1>13 DEF close_unit
<1>14. CASE detach(s) BY <1>14 DEF detach
<1>15. CASE add(s) BY ZenonT(60), <1>15 DEF add
<1>16. CASE flush(s) BY <1>16 DEF flush
<1>17. CASE create_table(s) BY <1>17 DEF create_table, Transaction
<1>18. CASE create_set(s) \/ create_chain(s) BY <1>18 DEF create_set, create_chain, Transaction
<1>19. CASE create_rule_iif(s) \/ create_rule_oif(s) BY <1>19 DEF create_rule_iif, create_rule_oif, Transaction
<1>20. CASE add_elem(s) BY <1>20 DEF add_elem
<1>21. CASE remove(s) BY ZenonT(60), <1>21 DEF remove
<1> QED
  BY ZenonT(60), <1>1, <1>2, <1>3, <1>4, <1>5, <1>6, <1>7, <1>8, <1>9, <1>10, <1>11, <1>12, <1>13, <1>14, <1>15,
     <1>16, <1>17, <1>18, <1>19, <1>20, <1>21 DEF Private, Shared

\* A netdev that is made, or not, leaves the types of what sessions own.
LEMMA CreateTypes ==
  ASSUME OwnTypes, NEW s \in Session, NEW kind \in {"ppp", "tun"}, Create(s, kind)
  PROVE  /\ pc' \in [Session -> Stage] /\ dev' \in [Session -> Ifname \cup {NoDev}]
         /\ conf' \in [Session -> SUBSET Setting]
         /\ kmod' \in [Session -> SUBSET {"session_fd", "chan_fd", "async_fd"}]
<1>0. "Configure" \in Stage /\ "Stop" \in Stage
  BY DEF Stage
<1>1. ASSUME NEW n \in 0..(NumUnits - 1), dev' = [dev EXCEPT ![s] = <<kind, n>>],
             Goto(s, "Configure"), UNCHANGED <<conf, kmod>>
      PROVE  /\ pc' \in [Session -> Stage] /\ dev' \in [Session -> Ifname \cup {NoDev}]
             /\ conf' \in [Session -> SUBSET Setting]
             /\ kmod' \in [Session -> SUBSET {"session_fd", "chan_fd", "async_fd"}]
  <2>1. <<kind, n>> \in Ifname
    BY ZenonT(60) DEF Ifname
  <2>2. dev' \in [Session -> Ifname \cup {NoDev}]
    BY <1>1, <2>1 DEF OwnTypes
  <2>3. pc' \in [Session -> Stage]
    BY <1>0, <1>1 DEF Goto, OwnTypes
  <2> QED BY ZenonT(60), <1>1, <2>2, <2>3 DEF OwnTypes
<1>2. CASE Unwind(s)
  <2>1. pc' \in [Session -> Stage]
    BY <1>0, <1>2 DEF Unwind, Goto, OwnTypes
  <2>2. dev' \in [Session -> Ifname \cup {NoDev}]
    BY <1>2 DEF Unwind, OwnTypes
  <2>3. conf' \in [Session -> SUBSET Setting]
    BY <1>2 DEF Unwind, OwnTypes
  <2>4. kmod' \in [Session -> SUBSET {"session_fd", "chan_fd", "async_fd"}]
    BY <1>2 DEF Unwind, OwnTypes
  <2> QED BY ZenonT(60), <2>1, <2>2, <2>3, <2>4
<1> QED BY ZenonT(60), <1>1, <1>2 DEF Create

\* Every action of a session keeps the types of what sessions own.
LEMMA OwnTypesKept ==
  ASSUME OwnTypes, NEW s \in Session, StageInv(s), Private(s) \/ Shared(s)
  PROVE  OwnTypes'
<1> USE DEF OwnTypes, Goto, own, table, Stage, resolve, Mode
<1>1. CASE accept(s) BY <1>1 DEF accept
<1>2. CASE end(s) BY <1>2 DEF end
<1>3. CASE NetworkUp(s) BY <1>3 DEF NetworkUp, install_ktls
<1>4. CASE attach(s) BY <1>4 DEF attach, Unwind
<1>5. CASE bind_channel_to_unit(s) BY <1>5 DEF bind_channel_to_unit, Unwind
<1>6. CASE register(s) BY <1>6 DEF register
<1>7. CASE stop(s) BY <1>7 DEF stop
<1>8. CASE deregister(s) BY <1>8 DEF deregister
<1>9. CASE close_unit(s) BY ZenonT(60), <1>9 DEF close_unit
<1>10. CASE detach(s) BY <1>10 DEF detach
<1>11. CASE add(s)
  <2>1. \E g \in {"Flush", "Elem", "Set", "Routes"} : pc' = [pc EXCEPT ![s] = g]
    BY ZenonT(60), <1>11 DEF add
  <2>2. pc' \in [Session -> Stage]
    BY <2>1
  <2> QED BY ZenonT(60), <1>11, <2>2 DEF add
<1>12. CASE flush(s) BY <1>12 DEF flush
<1>13. CASE create_table(s) BY <1>13 DEF create_table, Transaction
<1>14. CASE create_set(s) BY <1>14 DEF create_set, Transaction
<1>15. CASE create_chain(s) BY <1>15 DEF create_chain, Transaction
<1>16. CASE create_rule_iif(s) BY <1>16 DEF create_rule_iif, Transaction
<1>17. CASE create_rule_oif(s) BY <1>17 DEF create_rule_oif, Transaction
<1>18. CASE add_elem(s) BY <1>18 DEF add_elem
<1>19. CASE remove(s) BY ZenonT(60), <1>19 DEF remove
<1>20. CASE Unit_new(s)
  <2>1. Create(s, "ppp")
    BY ZenonT(60), <1>20 DEF Unit_new
  <2>2. /\ pc' \in [Session -> Stage] /\ dev' \in [Session -> Ifname \cup {NoDev}]
        /\ conf' \in [Session -> SUBSET Setting]
        /\ kmod' \in [Session -> SUBSET {"session_fd", "chan_fd", "async_fd"}]
    BY ZenonT(60), <2>1, CreateTypes
  <2> QED BY ZenonT(60), <2>1, <2>2 DEF Create
<1>21. CASE TunSession_bring_up(s)
  <2>1. Create(s, "tun")
    BY ZenonT(60), <1>21 DEF TunSession_bring_up
  <2>2. /\ pc' \in [Session -> Stage] /\ dev' \in [Session -> Ifname \cup {NoDev}]
        /\ conf' \in [Session -> SUBSET Setting]
        /\ kmod' \in [Session -> SUBSET {"session_fd", "chan_fd", "async_fd"}]
    BY ZenonT(60), <2>1, CreateTypes
  <2> QED BY ZenonT(60), <2>1, <2>2 DEF Create
<1>22. CASE configure(s)
  <2>1. PICK x \in exchange(conf[s], bring_up_program) :
          IF x.acked = 3
          THEN /\ conf' = [conf EXCEPT ![s] = x.have] /\ UNCHANGED <<dev, kmod>>
               /\ Goto(s, IF path[s] = "Kernel" THEN "Attach" ELSE "Shape")
          ELSE Unwind(s)
    BY ZenonT(60), <1>22 DEF configure, bring_up_program
  <2>2. x.have \subseteq Setting /\ (x.acked = 3 => "up" \in x.have)
    BY BringUpProgram
  <2>3. conf' \in [Session -> SUBSET Setting]
    <3>1. conf' = [conf EXCEPT ![s] = x.have] \/ conf' = [conf EXCEPT ![s] = {}]
      BY ZenonT(60), <2>1 DEF Unwind
    <3> QED BY <2>2, <3>1
  <2>6. IF x.acked = 3 THEN pc' = [pc EXCEPT ![s] = IF path[s] = "Kernel" THEN "Attach" ELSE "Shape"]
                       ELSE pc' = [pc EXCEPT ![s] = "Stop"]
    BY ZenonT(60), <2>1 DEF Unwind
  <2>7. pc' \in [Session -> Stage]
    BY <2>6
  <2>4. dev' \in [Session -> Ifname \cup {NoDev}]
    <3>1. dev' = dev \/ dev' = [dev EXCEPT ![s] = NoDev]
      BY ZenonT(60), <2>1 DEF Unwind
    <3> QED BY <3>1
  <2>5. kmod' \in [Session -> SUBSET {"session_fd", "chan_fd", "async_fd"}]
    <3>1. kmod' = kmod \/ kmod' = [kmod EXCEPT ![s] = {}]
      BY ZenonT(60), <2>1 DEF Unwind
    <3> QED BY <3>1
  <2> QED BY ZenonT(60), <1>22, <2>3, <2>4, <2>5, <2>7 DEF configure
<1>23. CASE apply(s)
  <2>1. PICK x \in exchange(conf[s], program(policy[s])) : conf' = [conf EXCEPT ![s] = x.have]
    BY ZenonT(60), <1>23 DEF apply
  <2>2. conf[s] \subseteq x.have /\ x.have \subseteq Setting
    BY ShapeProgram
  <2> QED BY ZenonT(60), <1>23, <2>1, <2>2 DEF apply
<1>24. CASE add_routes(s)
  <2>1. PICK x \in exchange(conf[s], route_program(policy[s])) : conf' = [conf EXCEPT ![s] = x.have]
    BY ZenonT(60), <1>24 DEF add_routes, route_program
  <2>2. conf[s] \subseteq x.have /\ x.have \subseteq Setting
    BY RouteProgram
  <2> QED BY ZenonT(60), <1>24, <2>1, <2>2 DEF add_routes
<1> QED
  BY ZenonT(60), <1>1, <1>2, <1>3, <1>4, <1>5, <1>6, <1>7, <1>8, <1>9, <1>10, <1>11, <1>12, <1>13, <1>14, <1>15, <1>16, <1>17, <1>18, <1>19, <1>20, <1>21, <1>22, <1>23, <1>24 DEF Private, Shared

\* Every action of a session takes it to a stage that has what it needs.
LEMMA StageKept ==
  ASSUME OwnTypes, NEW s \in Session, StageInv(s), Private(s) \/ Shared(s)
  PROVE  StageInv(s)'
<1> USE DEF OwnTypes, StageInv, Goto, own, table, Locked, Late, Held, resolve, Mode
<1>1. CASE accept(s) BY <1>1 DEF accept
<1>2. CASE end(s) BY ZenonT(60), <1>2 DEF end
<1>3. CASE NetworkUp(s) BY SMTT(40), <1>3 DEF NetworkUp, install_ktls
<1>4. CASE attach(s) BY SMTT(40), <1>4 DEF attach, Unwind
<1>5. CASE bind_channel_to_unit(s) BY SMTT(40), <1>5 DEF bind_channel_to_unit, Unwind
<1>6. CASE register(s) BY <1>6 DEF register
<1>7. CASE stop(s) BY ZenonT(60), <1>7 DEF stop
<1>8. CASE deregister(s) BY ZenonT(60), <1>8 DEF deregister
<1>9. CASE close_unit(s) BY ZenonT(60), <1>9 DEF close_unit
<1>10. CASE detach(s) BY ZenonT(60), <1>10 DEF detach
<1>11. CASE add(s)
  <2>1. pc[s] = "Clamp" /\ pc'[s] \in {"Flush", "Elem", "Set", "Routes"}
    BY ZenonT(60), <1>11 DEF add
  <2>2. UNCHANGED <<own, handle>>
    BY ZenonT(60), <1>11 DEF add
  <2> QED BY <2>1, <2>2
<1>12. CASE flush(s) BY <1>12 DEF flush
<1>13. CASE create_table(s) BY SMTT(40), <1>13 DEF create_table, Transaction
<1>14. CASE create_set(s) BY SMTT(40), <1>14 DEF create_set, Transaction
<1>15. CASE create_chain(s) BY SMTT(40), <1>15 DEF create_chain, Transaction
<1>16. CASE create_rule_iif(s) BY SMTT(40), <1>16 DEF create_rule_iif, Transaction
<1>17. CASE create_rule_oif(s) BY SMTT(40), <1>17 DEF create_rule_oif, Transaction
<1>18. CASE add_elem(s) BY <1>18 DEF add_elem
<1>19. CASE remove(s) BY ZenonT(60), <1>19 DEF remove
<1>20. CASE Unit_new(s)
  <2>1. \A n \in 0..(NumUnits - 1) : <<"ppp", n>> \in Ifname /\ <<"ppp", n>> # NoDev
    BY ZenonT(60) DEF Ifname, NoDev
  <2> QED BY <1>20, <2>1 DEF Unit_new, Create, Unwind
<1>21. CASE TunSession_bring_up(s)
  <2>1. \A n \in 0..(NumUnits - 1) : <<"tun", n>> \in Ifname /\ <<"tun", n>> # NoDev
    BY ZenonT(60) DEF Ifname, NoDev
  <2> QED BY <1>21, <2>1 DEF TunSession_bring_up, Create, Unwind
<1>22. CASE configure(s)
  <2>1. PICK x \in exchange(conf[s], bring_up_program) :
          IF x.acked = 3
          THEN /\ conf' = [conf EXCEPT ![s] = x.have] /\ UNCHANGED <<dev, kmod>>
               /\ Goto(s, IF path[s] = "Kernel" THEN "Attach" ELSE "Shape")
          ELSE Unwind(s)
    BY ZenonT(60), <1>22 DEF configure, bring_up_program
  <2>2. x.have \subseteq Setting /\ (x.acked = 3 => "up" \in x.have)
    BY ZenonT(60), BringUpProgram
  <2>3. CASE x.acked = 3
    <3>1. pc[s] = "Configure"
      BY ZenonT(60), <1>22 DEF configure
    <3>3. pc'[s] = IF path[s] = "Kernel" THEN "Attach" ELSE "Shape"
      BY ZenonT(60), <2>1, <2>3
    <3>4. conf'[s] = x.have
      BY ZenonT(60), <2>1, <2>3
    <3>5. "up" \in conf'[s]
      BY ZenonT(60), <2>2, <2>3, <3>4
    <3>2. UNCHANGED <<dev, kmod, cipher, link_mtu, path, ktls, acct, handle>>
      BY ZenonT(60), <1>22, <2>1, <2>3 DEF configure
    <3> QED BY ZenonT(60), <3>1, <3>2, <3>3, <3>5
  <2>4. CASE x.acked # 3
    <3>1. pc[s] = "Configure" /\ pc'[s] = "Stop" /\ kmod'[s] = {}
      BY ZenonT(60), <1>22, <2>1, <2>4 DEF configure, Unwind
    <3>2. UNCHANGED <<cipher, link_mtu, path, ktls, acct, handle>>
      BY ZenonT(60), <1>22 DEF configure
    <3> QED BY ZenonT(60), <3>1, <3>2
  <2> QED BY ZenonT(60), <2>3, <2>4
<1>23. CASE apply(s)
  <2>1. PICK x \in exchange(conf[s], program(policy[s])) : conf' = [conf EXCEPT ![s] = x.have]
    BY ZenonT(60), <1>23 DEF apply
  <2>2. conf[s] \subseteq x.have /\ x.have \subseteq Setting
    BY ShapeProgram
  <2> QED BY ZenonT(60), <1>23, <2>1, <2>2 DEF apply
<1>24. CASE add_routes(s)
  <2>1. PICK x \in exchange(conf[s], route_program(policy[s])) : conf' = [conf EXCEPT ![s] = x.have]
    BY ZenonT(60), <1>24 DEF add_routes, route_program
  <2>2. conf[s] \subseteq x.have /\ x.have \subseteq Setting
    BY RouteProgram
  <2> QED BY ZenonT(60), <1>24, <2>1, <2>2 DEF add_routes
<1> QED
  BY ZenonT(60), <1>1, <1>2, <1>3, <1>4, <1>5, <1>6, <1>7, <1>8, <1>9, <1>10, <1>11, <1>12, <1>13, <1>14, <1>15, <1>16, <1>17, <1>18, <1>19, <1>20, <1>21, <1>22, <1>23, <1>24 DEF Private, Shared

-----------------------------------------------------------------------------
(* Netdev names.                                                           *)

DevInv == \A s, t \in Session : s # t /\ dev[s] = dev[t] => dev[s] = NoDev

\* A name is taken when no session has it, or given up.
LEMMA DevInvKept ==
  ASSUME OwnTypes, DevInv, NEW s \in Session, Private(s) \/ Shared(s)
  PROVE  DevInv'
<1>1. \/ dev' = dev
      \/ dev' = [dev EXCEPT ![s] = NoDev]
      \/ \E v : (\A t \in Session : dev[t] # v) /\ dev' = [dev EXCEPT ![s] = v]
  <2>1. CASE Unit_new(s) \/ TunSession_bring_up(s)
    <3>1. PICK kind : Create(s, kind)
      BY <2>1 DEF Unit_new, TunSession_bring_up
    <3>2. CASE \E n \in 0..(NumUnits - 1) : LowestFree(kind, n) /\ dev' = [dev EXCEPT ![s] = <<kind, n>>]
      BY ZenonT(60), <3>2 DEF LowestFree
    <3> QED BY <3>1, <3>2 DEF Create, Unwind
  <2>2. CASE configure(s) BY ZenonT(60), <2>2 DEF configure, Unwind
  <2>3. CASE attach(s) \/ bind_channel_to_unit(s) BY ZenonT(60), <2>3 DEF attach, bind_channel_to_unit, Unwind
  <2>4. CASE close_unit(s) BY ZenonT(60), <2>4 DEF close_unit
  <2>5. CASE accept(s) \/ end(s) \/ NetworkUp(s) \/ apply(s) \/ add_routes(s) \/ register(s)
             \/ stop(s) \/ deregister(s) \/ detach(s)
    BY ZenonT(60), <2>5 DEF accept, end, own, NetworkUp, apply, add_routes, register, stop, deregister, detach
  <2>6. CASE Shared(s)
    BY ZenonT(60), <2>6 DEF Shared, own, add, flush, create_table, create_set, create_chain, create_rule_iif,
                create_rule_oif, add_elem, remove
  <2> QED BY ZenonT(60), <2>1, <2>2, <2>3, <2>4, <2>5, <2>6 DEF Private
<1> QED BY <1>1 DEF DevInv, OwnTypes

-----------------------------------------------------------------------------
(* The shared table.                                                       *)

AllObjects == UNION {Object(m, i) : m \in Mss, i \in Ifname}

TableTypes ==
  /\ lock \in Session \cup {NoSession} /\ table_exists \in BOOLEAN
  /\ kernel_created \in [Mss -> BOOLEAN] /\ refcount \in [Mss -> Nat]
  /\ nft \subseteq AllObjects

Group(m) == {<<"table">>, <<"set", m>>, <<"chain", m>>, <<"rule", m, "iif">>, <<"rule", m, "oif">>}

\* The table and the groups that count as created are in the kernel.
TableInv ==
  /\ table_exists => <<"table">> \in nft
  /\ \A m \in Mss : kernel_created[m] => table_exists /\ Group(m) \subseteq nft

\* How far the holder of the mutex is with the group of its MSS, and what a handle stands on.
GroupInv(s) ==
  /\ pc[s] \in Locked => lock = s
  /\ pc[s] \in {"Flush", "Table"} => ~table_exists
  /\ pc[s] \in Locked \ {"Flush", "Table"} => table_exists
  /\ pc[s] \in {"Set", "Chain", "RuleIif", "RuleOif"} => ~kernel_created[mss(s)]
  /\ pc[s] \in {"Chain", "RuleIif", "RuleOif"} => <<"set", mss(s)>> \in nft
  /\ pc[s] \in {"RuleIif", "RuleOif"} => <<"chain", mss(s)>> \in nft
  /\ pc[s] = "RuleOif" => <<"rule", mss(s), "iif">> \in nft
  /\ pc[s] = "Elem" => kernel_created[mss(s)]
  /\ handle[s] # NoDev => kernel_created[mss(s)] /\ <<"elem", mss(s), handle[s]>> \in nft

IInv ==
  /\ OwnTypes /\ TableTypes /\ faults \in 0..MaxFaults
  /\ \A s \in Session : StageInv(s)
  /\ DevInv /\ TableInv
  /\ \A s \in Session : GroupInv(s)

LEMMA MssKnown ==
  ASSUME NEW s \in Session, cipher[s] \in Cipher, link_mtu[s] \in LinkMtu
  PROVE  mss(s) \in Mss
  BY DEF mss, Mss

LEMMA MssSame ==
  ASSUME NEW s \in Session, cipher'[s] = cipher[s], link_mtu'[s] = link_mtu[s]
  PROVE  mss(s)' = mss(s)
  BY DEF mss

\* The MSS of a session past its accept, while it adds its name to the table.
LEMMA MssFacts ==
  ASSUME IInv, NEW s \in Session, pc[s] # "Idle", UNCHANGED <<cipher, link_mtu>>
  PROVE  mss(s)' = mss(s) /\ mss(s) \in Mss
<1>1. StageInv(s)
  BY ZenonT(60) DEF IInv
<1>2. cipher[s] \in Cipher /\ link_mtu[s] \in LinkMtu
  BY ZenonT(60), <1>1 DEF StageInv
<1>3. cipher'[s] = cipher[s] /\ link_mtu'[s] = link_mtu[s]
  BY ZenonT(60), SMTT(60)
<1>4. mss(s)' = mss(s)
  BY ZenonT(60), <1>3, MssSame
<1>5. mss(s) \in Mss
  BY ZenonT(60), <1>2, MssKnown
<1> QED BY <1>4, <1>5

\* A fault is counted and the bound is kept.
LEMMA CountKeeps ==
  ASSUME NEW lost, faults \in 0..MaxFaults, Count(lost)
  PROVE  faults' \in 0..MaxFaults
<1>1. CASE lost
  <2>1. faults < MaxFaults /\ faults' = faults + 1
    BY <1>1 DEF Count
  <2> QED BY <2>1, DataPathAssumption
<1>2. CASE ~lost
  <2>1. faults' = faults
    BY ZenonT(60), <1>2 DEF Count
  <2> QED BY <2>1
<1> QED BY <1>1, <1>2

\* A session owns a handle only from the clamp's success to its removal.
LEMMA NoHandle ==
  ASSUME IInv, NEW s \in Session, pc[s] \notin Held
  PROVE  handle[s] = NoDev
<1>1. StageInv(s)
  BY DEF IInv
<1> QED BY <1>1 DEF StageInv

\* The objects of the table differ in their names.
LEMMA Objects ==
  ASSUME NEW m \in Mss, NEW i \in Ifname
  PROVE  Object(m, i) \subseteq AllObjects /\ <<"elem", m, i>> \notin Group(m)
<1>1. Object(m, i) \subseteq AllObjects
  BY DEF AllObjects
<1>2. <<"elem", m, i>> \notin Group(m)
  BY DEF Group
<1> QED BY <1>1, <1>2

LEMMA GroupObjects ==
  ASSUME NEW m \in Mss
  PROVE  Group(m) \subseteq AllObjects
<1>1. <<"ppp", 0>> \in Ifname
  BY DataPathAssumption DEF Ifname
<1>2. Object(m, <<"ppp", 0>>) \subseteq AllObjects
  BY ZenonT(60), <1>1, Objects
<1> QED BY <1>2 DEF Group, Object

\* A private action leaves the table alone, and its session outside the mutex.
LEMMA PrivateKeeps ==
  ASSUME IInv, NEW s \in Session, Private(s)
  PROVE  /\ TableTypes' /\ TableInv' /\ faults' \in 0..MaxFaults
         /\ \A t \in Session : GroupInv(t)'
<1>1. /\ UNCHANGED <<lock, table_exists, kernel_created, refcount, nft, handle>>
      /\ pc'[s] \notin Locked
      /\ pc[s] \in Held => cipher'[s] = cipher[s] /\ link_mtu'[s] = link_mtu[s]
  <2>0. pc \in [Session -> Stage] /\ DOMAIN cipher = Session /\ DOMAIN link_mtu = Session
    BY DEF IInv, OwnTypes
  <2> USE DEF Goto, own, table, Locked, Held
  <2>1. CASE accept(s) BY <2>0, <2>1 DEF accept
  <2>2. CASE end(s) BY ZenonT(60), <2>0, <2>2 DEF end
  <2>3. CASE NetworkUp(s) BY <2>0, <2>3 DEF NetworkUp, install_ktls
  <2>4. CASE Unit_new(s) BY <2>0, <2>4 DEF Unit_new, Create, Unwind
  <2>13. CASE TunSession_bring_up(s) BY <2>0, <2>13 DEF TunSession_bring_up, Create, Unwind
  <2>5. CASE configure(s) BY ZenonT(60), <2>0, <2>5 DEF configure, Unwind
  <2>6. CASE attach(s) BY ZenonT(60), <2>0, <2>6 DEF attach, Unwind
  <2>12. CASE bind_channel_to_unit(s) BY <2>0, <2>12 DEF bind_channel_to_unit, Unwind
  <2>7. CASE apply(s) BY ZenonT(60), <2>0, <2>7 DEF apply
  <2>11. CASE add_routes(s) BY ZenonT(60), <2>0, <2>11 DEF add_routes
  <2>8. CASE register(s) BY <2>0, <2>8 DEF register
  <2>9. CASE stop(s) \/ deregister(s) BY <2>0, <2>9 DEF stop, deregister
  <2>10. CASE close_unit(s) \/ detach(s) BY <2>0, <2>10 DEF close_unit, detach
  <2> QED BY ZenonT(60), <2>1, <2>2, <2>3, <2>4, <2>5, <2>6, <2>7, <2>8, <2>9, <2>10, <2>11, <2>12, <2>13 DEF Private
<1>2. faults' \in 0..MaxFaults
  <2>1. CASE configure(s) \/ apply(s) \/ add_routes(s)
    <3>1. CASE configure(s)
      <4>1. PICK lost : Count(lost)
        BY ZenonT(60), <3>1 DEF configure
      <4> QED BY ZenonT(60), <4>1, CountKeeps DEF IInv
    <3>2. CASE apply(s)
      <4>1. PICK lost : Count(lost)
        BY ZenonT(60), <3>2 DEF apply
      <4> QED BY <4>1, CountKeeps DEF IInv
    <3>3. CASE add_routes(s)
      <4>1. PICK lost : Count(lost)
        BY ZenonT(60), <3>3 DEF add_routes
      <4> QED BY <4>1, CountKeeps DEF IInv
    <3> QED BY <2>1, <3>1, <3>2, <3>3
  <2>2. CASE accept(s) \/ end(s) \/ NetworkUp(s) \/ Unit_new(s) \/ TunSession_bring_up(s) \/ attach(s)
             \/ bind_channel_to_unit(s) \/ register(s) \/ stop(s) \/ deregister(s)
             \/ close_unit(s) \/ detach(s)
    BY ZenonT(60), <2>2 DEF IInv, accept, end, NetworkUp, Unit_new, TunSession_bring_up, Create, attach,
                bind_channel_to_unit, register, stop, deregister, close_unit, detach
  <2> QED BY <2>1, <2>2 DEF Private
<1>3. TableTypes' /\ TableInv'
  BY ZenonT(60), <1>1 DEF IInv, TableTypes, TableInv
<1>4. ASSUME NEW t \in Session PROVE GroupInv(t)'
  <2>1. CASE t # s
    <3>1. Same(t)
      BY ZenonT(60), <2>1, OthersKeep DEF IInv
    <3>2. mss(t)' = mss(t)
      BY ZenonT(60), <3>1, MssSame DEF Same
    <3> QED BY ZenonT(60), <1>1, <3>1, <3>2 DEF IInv, GroupInv, Same
  <2>2. CASE t = s
    <3>1. handle[s] # NoDev => mss(s)' = mss(s)
      BY ZenonT(60), <1>1, MssSame DEF IInv, StageInv
    <3> QED BY ZenonT(60), <1>1, <2>2, <3>1 DEF IInv, GroupInv, Locked
  <2> QED BY ZenonT(60), <2>1, <2>2
<1> QED BY <1>2, <1>3, <1>4

\* While one session has the mutex, or takes it, no other is inside.
LEMMA MutexHeld ==
  ASSUME IInv, NEW s \in Session, NEW t \in Session, t # s, lock \in {s, NoSession}
  PROVE  pc[t] \notin Locked
  BY ZenonT(60), DataPathAssumption DEF IInv, GroupInv

\* A step of the holder that only adds objects keeps the other sessions' handles.
LEMMA OthersClamped ==
  ASSUME IInv, NEW s \in Session, Shared(s), lock \in {s, NoSession}, nft \subseteq nft',
         \A m \in Mss : kernel_created[m] => kernel_created'[m]
  PROVE  \A t \in Session \ {s} : GroupInv(t)'
<1> SUFFICES ASSUME NEW t \in Session \ {s} PROVE GroupInv(t)'
  BY ZenonT(60)
<1>1. Same(t)
  BY ZenonT(60), OthersKeep DEF IInv
<1>2. mss(t)' = mss(t)
  BY ZenonT(60), <1>1, MssSame DEF Same
<1>3. pc'[t] \notin Locked
  BY ZenonT(60), <1>1, MutexHeld DEF Same
<1>4. handle[t] # NoDev => mss(t) \in Mss
  BY ZenonT(60), MssKnown DEF IInv, StageInv, Held
<1> QED BY ZenonT(60), <1>1, <1>2, <1>3, <1>4 DEF IInv, GroupInv, Same, Locked

TableKept ==
  /\ TableTypes' /\ TableInv' /\ faults' \in 0..MaxFaults
  /\ \A t \in Session : GroupInv(t)'

LEMMA AddKeeps ==
  ASSUME IInv, NEW s \in Session, add(s)
  PROVE  TableKept
<1>1. /\ UNCHANGED <<table_exists, kernel_created, refcount, nft, handle, cipher, link_mtu>>
      /\ lock = NoSession /\ lock' \in {s, NoSession}
      /\ pc[s] = "Clamp" /\ pc' = [pc EXCEPT ![s] = pc'[s]]
  BY ZenonT(60) DEF add, own, table, Goto, IInv, OwnTypes, TableTypes
<1>2. \/ pc'[s] = "Routes"
      \/ lock' = s /\ pc'[s] = "Flush" /\ ~table_exists
      \/ lock' = s /\ pc'[s] = "Elem" /\ table_exists /\ kernel_created[mss(s)]
      \/ lock' = s /\ pc'[s] = "Set" /\ table_exists /\ ~kernel_created[mss(s)]
  BY ZenonT(60) DEF add, Goto, IInv, OwnTypes
<1>3. faults' \in 0..MaxFaults
  BY DataPathAssumption DEF add, Count, IInv
<1>4. mss(s)' = mss(s)
  BY ZenonT(60), <1>1, MssSame
<1>5. GroupInv(s)'
  <2>1. handle[s] = NoDev
    BY ZenonT(60), <1>1, NoHandle DEF Held
  <2> QED BY ZenonT(60), <1>1, <1>2, <1>4, <2>1 DEF GroupInv, Locked
<1>6. \A t \in Session \ {s} : GroupInv(t)'
  BY ZenonT(60), <1>1, OthersClamped DEF Shared
<1>7. TableTypes' /\ TableInv'
  BY ZenonT(60), <1>1 DEF IInv, TableTypes, TableInv
<1> QED BY ZenonT(60), <1>3, <1>5, <1>6, <1>7 DEF TableKept

LEMMA FlushKeeps ==
  ASSUME IInv, NEW s \in Session, flush(s)
  PROVE  TableKept
<1>1. /\ UNCHANGED <<table_exists, kernel_created, refcount, lock, handle, cipher, link_mtu>>
      /\ pc[s] = "Flush" /\ pc'[s] = "Table"
      /\ nft' \in {nft, {}} /\ faults' \in 0..MaxFaults
  BY DataPathAssumption DEF flush, own, table, Goto, Count, IInv, OwnTypes
<1>2. lock = s /\ ~table_exists
  BY ZenonT(60), <1>1 DEF IInv, GroupInv, Locked
<1>3. \A m \in Mss : ~kernel_created[m]
  BY ZenonT(60), <1>2 DEF IInv, TableInv
<1>4. \A t \in Session : handle[t] = NoDev
  BY ZenonT(60), <1>3, MssKnown DEF IInv, GroupInv, StageInv, Held
<1>5. TableTypes' /\ TableInv'
  BY ZenonT(60), <1>1, <1>2, <1>3 DEF IInv, TableTypes, TableInv
<1>6. GroupInv(s)'
  BY ZenonT(60), <1>1, <1>2, <1>4 DEF GroupInv, Locked
<1>7. ASSUME NEW t \in Session, t # s PROVE GroupInv(t)'
  <2>1. Same(t)
    BY ZenonT(60), <1>7, OthersKeep DEF IInv, Shared
  <2>2. pc'[t] \notin Locked
    BY ZenonT(60), <1>2, <1>7, <2>1, MutexHeld DEF Same
  <2> QED BY ZenonT(60), <1>4, <2>1, <2>2 DEF GroupInv, Same, Locked
<1> QED BY ZenonT(60), <1>1, <1>5, <1>6, <1>7 DEF TableKept

\* One transaction: the object is in the kernel and the task goes on with the mutex, or it
\* leaves add without it.
LEMMA TransactionFacts ==
  ASSUME IInv, NEW s \in Session, NEW q, NEW next, Transaction(s, q, next)
  PROVE  /\ nft \subseteq nft' /\ nft' \subseteq nft \cup {q.obj}
         /\ faults' \in 0..MaxFaults
         /\ \/ pc'[s] = next /\ lock' = lock /\ q.obj \in nft'
            \/ pc'[s] = "Routes" /\ lock' = NoSession
<1>1. PICK x \in Outcomes(nft, q) :
         /\ nft' = x.have /\ Count(x.lost)
         /\ IF x.acked THEN Goto(s, next) /\ UNCHANGED lock
                       ELSE Goto(s, "Routes") /\ lock' = NoSession
  BY ZenonT(60) DEF Transaction, exchange_batch
<1>2. /\ nft \subseteq x.have /\ x.have \subseteq nft \cup {q.obj}
      /\ x.acked => q.obj \in x.have
  BY ZenonT(60), OutcomeFacts
<1>3. faults' \in 0..MaxFaults
  BY <1>1, DataPathAssumption DEF Count, IInv
<1>4. CASE x.acked
  <2>1. Goto(s, next) /\ UNCHANGED lock
    BY ZenonT(60), <1>1, <1>4
  <2>2. pc'[s] = next
    BY ZenonT(60), <2>1 DEF Goto, IInv, OwnTypes
  <2> QED BY ZenonT(60), <1>1, <1>2, <1>3, <1>4, <2>1, <2>2
<1>5. CASE ~x.acked
  <2>1. Goto(s, "Routes") /\ lock' = NoSession
    BY ZenonT(60), <1>1, <1>5
  <2>2. pc'[s] = "Routes"
    BY <2>1 DEF Goto, IInv, OwnTypes
  <2> QED BY ZenonT(60), <1>1, <1>2, <1>3, <2>1, <2>2
<1> QED BY <1>4, <1>5

LEMMA TableCreated ==
  ASSUME IInv, NEW s \in Session, create_table(s)
  PROVE  TableKept
<1>1. /\ UNCHANGED <<kernel_created, refcount, handle, cipher, link_mtu>>
      /\ pc[s] = "Table" /\ table_exists' = (lock' = s)
      /\ Transaction(s, build_create_table, IF kernel_created[mss(s)] THEN "Elem" ELSE "Set")
  BY ZenonT(60) DEF create_table, own
<1>2. lock = s /\ ~table_exists
  BY ZenonT(60), <1>1 DEF IInv, GroupInv, Locked
<1>3. /\ nft \subseteq nft' /\ nft' \subseteq nft \cup {<<"table">>} /\ faults' \in 0..MaxFaults
      /\ \/ /\ pc'[s] = (IF kernel_created[mss(s)] THEN "Elem" ELSE "Set")
            /\ lock' = lock /\ <<"table">> \in nft'
         \/ pc'[s] = "Routes" /\ lock' = NoSession
  BY <1>1, TransactionFacts DEF build_create_table
<1>4. mss(s)' = mss(s) /\ mss(s) \in Mss
  <2>1. pc[s] # "Idle" /\ UNCHANGED <<cipher, link_mtu>>
    BY <1>1
  <2> QED BY <2>1, MssFacts
<1>5. \A m \in Mss : ~kernel_created[m]
  BY <1>2 DEF IInv, TableInv
<1>6. \/ pc'[s] = "Set" /\ lock' = s /\ table_exists' /\ <<"table">> \in nft'
      \/ pc'[s] = "Routes" /\ lock' = NoSession /\ ~table_exists'
  <2>1. table_exists' <=> lock' = s
    BY ZenonT(60), <1>1
  <2>2. NoSession # s
    BY DataPathAssumption
  <2>3. ~kernel_created[mss(s)]
    BY <1>4, <1>5
  <2>4. (IF kernel_created[mss(s)] THEN "Elem" ELSE "Set") = "Set"
    BY <2>3
  <2>5. \/ pc'[s] = "Set" /\ lock' = lock /\ <<"table">> \in nft'
        \/ pc'[s] = "Routes" /\ lock' = NoSession
    BY <1>3, <2>4
  <2> QED BY ZenonT(60), <1>2, <2>1, <2>2, <2>5
<1>7. TableTypes'
  <2>1. nft' \subseteq AllObjects
    BY ZenonT(60), <1>3, <1>4, GroupObjects DEF IInv, TableTypes, Group
  <2>2. table_exists' \in BOOLEAN
    BY ZenonT(60), <1>1
  <2> QED BY ZenonT(60), <1>1, <1>6, <2>1, <2>2 DEF IInv, TableTypes
<1>8. TableInv'
  BY <1>1, <1>5, <1>6 DEF TableInv
<1>9. handle[s] = NoDev
  BY ZenonT(60), <1>1, NoHandle DEF Held
<1>10. GroupInv(s)'
  BY ZenonT(60), <1>1, <1>4, <1>5, <1>6, <1>9 DEF GroupInv, Locked
<1>11. \A t \in Session \ {s} : GroupInv(t)'
  BY ZenonT(60), <1>1, <1>2, <1>3, OthersClamped DEF Shared
<1> QED BY ZenonT(60), <1>3, <1>7, <1>8, <1>10, <1>11 DEF TableKept

LEMMA SetCreated ==
  ASSUME IInv, NEW s \in Session, create_set(s)
  PROVE  TableKept
<1>1. /\ UNCHANGED <<table_exists, kernel_created, refcount, handle, cipher, link_mtu>>
      /\ pc[s] = "Set" /\ Transaction(s, build_create_set(mss(s)), "Chain")
  BY DEF create_set, own
<1>2. mss(s)' = mss(s) /\ mss(s) \in Mss
  <2>1. pc[s] # "Idle" /\ UNCHANGED <<cipher, link_mtu>>
    BY ZenonT(60), <1>1
  <2> QED BY <2>1, MssFacts
<1>3. lock = s /\ table_exists /\ ~kernel_created[mss(s)]
  BY ZenonT(60), <1>1 DEF IInv, GroupInv, Locked
<1>4. /\ nft \subseteq nft' /\ nft' \subseteq nft \cup {<<"set", mss(s)>>} /\ faults' \in 0..MaxFaults
      /\ \/ pc'[s] = "Chain" /\ lock' = lock /\ <<"set", mss(s)>> \in nft'
         \/ pc'[s] = "Routes" /\ lock' = NoSession
  <2>1. build_create_set(mss(s)).obj = <<"set", mss(s)>>
    BY ZenonT(60) DEF build_create_set
  <2> QED BY ZenonT(60), <1>1, <2>1, TransactionFacts
<1>5. nft' \subseteq AllObjects
  BY ZenonT(60), <1>2, <1>4, GroupObjects DEF IInv, TableTypes, Group
<1>6. TableTypes' /\ TableInv'
  BY ZenonT(60), <1>1, <1>4, <1>5 DEF IInv, TableTypes, TableInv
<1>7. handle[s] = NoDev
  BY ZenonT(60), <1>1, NoHandle DEF Held
<1>8. GroupInv(s)'
  BY ZenonT(60), <1>1, <1>2, <1>3, <1>4, <1>7 DEF IInv, GroupInv, Locked
<1>9. \A t \in Session \ {s} : GroupInv(t)'
  BY ZenonT(60), <1>1, <1>3, <1>4, OthersClamped DEF Shared
<1> QED BY ZenonT(60), <1>4, <1>6, <1>8, <1>9 DEF TableKept

LEMMA ChainCreated ==
  ASSUME IInv, NEW s \in Session, create_chain(s)
  PROVE  TableKept
<1>1. /\ UNCHANGED <<table_exists, kernel_created, refcount, handle, cipher, link_mtu>>
      /\ pc[s] = "Chain" /\ Transaction(s, build_create_chain(mss(s)), "RuleIif")
  BY DEF create_chain, own
<1>2. mss(s)' = mss(s) /\ mss(s) \in Mss
  <2>1. pc[s] # "Idle" /\ UNCHANGED <<cipher, link_mtu>>
    BY ZenonT(60), <1>1
  <2> QED BY <2>1, MssFacts
<1>3. lock = s /\ table_exists /\ ~kernel_created[mss(s)]
  BY ZenonT(60), <1>1 DEF IInv, GroupInv, Locked
<1>4. /\ nft \subseteq nft' /\ nft' \subseteq nft \cup {<<"chain", mss(s)>>} /\ faults' \in 0..MaxFaults
      /\ \/ pc'[s] = "RuleIif" /\ lock' = lock /\ <<"chain", mss(s)>> \in nft'
         \/ pc'[s] = "Routes" /\ lock' = NoSession
  <2>1. build_create_chain(mss(s)).obj = <<"chain", mss(s)>>
    BY ZenonT(60) DEF build_create_chain
  <2> QED BY ZenonT(60), <1>1, <2>1, TransactionFacts
<1>5. nft' \subseteq AllObjects
  BY ZenonT(60), <1>2, <1>4, GroupObjects DEF IInv, TableTypes, Group
<1>6. TableTypes' /\ TableInv'
  BY ZenonT(60), <1>1, <1>4, <1>5 DEF IInv, TableTypes, TableInv
<1>7. handle[s] = NoDev
  BY ZenonT(60), <1>1, NoHandle DEF Held
<1>8. GroupInv(s)'
  BY ZenonT(60), <1>1, <1>2, <1>3, <1>4, <1>7 DEF IInv, GroupInv, Locked
<1>9. \A t \in Session \ {s} : GroupInv(t)'
  BY ZenonT(60), <1>1, <1>3, <1>4, OthersClamped DEF Shared
<1> QED BY ZenonT(60), <1>4, <1>6, <1>8, <1>9 DEF TableKept

LEMMA RuleIifCreated ==
  ASSUME IInv, NEW s \in Session, create_rule_iif(s)
  PROVE  TableKept
<1>1. /\ UNCHANGED <<table_exists, kernel_created, refcount, handle, cipher, link_mtu>>
      /\ pc[s] = "RuleIif" /\ Transaction(s, build_rule(mss(s), "iif"), "RuleOif")
  BY DEF create_rule_iif, own
<1>2. mss(s)' = mss(s) /\ mss(s) \in Mss
  <2>1. pc[s] # "Idle" /\ UNCHANGED <<cipher, link_mtu>>
    BY ZenonT(60), <1>1
  <2> QED BY <2>1, MssFacts
<1>3. lock = s /\ table_exists /\ ~kernel_created[mss(s)]
  BY ZenonT(60), <1>1 DEF IInv, GroupInv, Locked
<1>4. /\ nft \subseteq nft' /\ nft' \subseteq nft \cup {<<"rule", mss(s), "iif">>} /\ faults' \in 0..MaxFaults
      /\ \/ pc'[s] = "RuleOif" /\ lock' = lock /\ <<"rule", mss(s), "iif">> \in nft'
         \/ pc'[s] = "Routes" /\ lock' = NoSession
  <2>1. build_rule(mss(s), "iif").obj = <<"rule", mss(s), "iif">>
    BY ZenonT(60) DEF build_rule
  <2> QED BY ZenonT(60), <1>1, <2>1, TransactionFacts
<1>5. nft' \subseteq AllObjects
  BY ZenonT(60), <1>2, <1>4, GroupObjects DEF IInv, TableTypes, Group
<1>6. TableTypes' /\ TableInv'
  BY ZenonT(60), <1>1, <1>4, <1>5 DEF IInv, TableTypes, TableInv
<1>7. handle[s] = NoDev
  BY ZenonT(60), <1>1, NoHandle DEF Held
<1>8. GroupInv(s)'
  BY ZenonT(60), <1>1, <1>2, <1>3, <1>4, <1>7 DEF IInv, GroupInv, Locked
<1>9. \A t \in Session \ {s} : GroupInv(t)'
  BY ZenonT(60), <1>1, <1>3, <1>4, OthersClamped DEF Shared
<1> QED BY ZenonT(60), <1>4, <1>6, <1>8, <1>9 DEF TableKept

LEMMA RuleOifCreated ==
  ASSUME IInv, NEW s \in Session, create_rule_oif(s)
  PROVE  TableKept
<1>1. /\ UNCHANGED <<table_exists, refcount, handle, cipher, link_mtu>>
      /\ kernel_created' = [kernel_created EXCEPT ![mss(s)] = (lock' = s)]
      /\ pc[s] = "RuleOif" /\ Transaction(s, build_rule(mss(s), "oif"), "Elem")
  BY ZenonT(60) DEF create_rule_oif, own
<1>2. mss(s)' = mss(s) /\ mss(s) \in Mss
  <2>1. pc[s] # "Idle" /\ UNCHANGED <<cipher, link_mtu>>
    BY ZenonT(60), <1>1
  <2> QED BY <2>1, MssFacts
<1>3. lock = s /\ table_exists /\ ~kernel_created[mss(s)]
  BY ZenonT(60), <1>1 DEF IInv, GroupInv, Locked
<1>4. /\ nft \subseteq nft' /\ nft' \subseteq nft \cup {<<"rule", mss(s), "oif">>} /\ faults' \in 0..MaxFaults
      /\ \/ pc'[s] = "Elem" /\ lock' = lock /\ <<"rule", mss(s), "oif">> \in nft'
         \/ pc'[s] = "Routes" /\ lock' = NoSession
  <2>1. build_rule(mss(s), "oif").obj = <<"rule", mss(s), "oif">>
    BY ZenonT(60) DEF build_rule
  <2> QED BY ZenonT(60), <1>1, <2>1, TransactionFacts
<1>5. nft' \subseteq AllObjects
  BY ZenonT(60), <1>2, <1>4, GroupObjects DEF IInv, TableTypes, Group
<1>6. /\ kernel_created' \in [Mss -> BOOLEAN]
      /\ kernel_created'[mss(s)] <=> lock' = s
      /\ \A m \in Mss \ {mss(s)} : kernel_created'[m] = kernel_created[m]
  <2>1. (lock' = s) \in BOOLEAN
    OBVIOUS
  <2>2. kernel_created \in [Mss -> BOOLEAN]
    BY DEF IInv, TableTypes
  <2>3. kernel_created'[mss(s)] = (lock' = s)
    BY <1>1, <1>2, <2>2
  <2>4. kernel_created'[mss(s)] <=> lock' = s
    BY ZenonT(60), <2>3
  <2>5. \A m \in Mss \ {mss(s)} : kernel_created'[m] = kernel_created[m]
    BY <1>1, <2>2
  <2> DEFINE v == (lock' = s)
  <2>6. kernel_created' \in [Mss -> BOOLEAN]
    <3>1. v \in BOOLEAN /\ kernel_created' = [kernel_created EXCEPT ![mss(s)] = v]
      BY <1>1, <2>1
    <3> HIDE DEF v
    <3> QED BY ZenonT(60), <3>1, <2>2
  <2> QED BY <2>4, <2>5, <2>6
<1>7. <<"table">> \in nft /\ <<"set", mss(s)>> \in nft /\ <<"chain", mss(s)>> \in nft
      /\ <<"rule", mss(s), "iif">> \in nft
  BY ZenonT(60), <1>1, <1>3 DEF IInv, TableInv, GroupInv
<1>8. lock' = s => Group(mss(s)) \subseteq nft'
  <2>1. lock' = s => <<"rule", mss(s), "oif">> \in nft'
    BY ZenonT(60), <1>4, DataPathAssumption
  <2> QED BY ZenonT(60), <1>4, <1>7, <2>1 DEF Group
<1>9. TableTypes'
  BY ZenonT(60), <1>1, <1>4, <1>5, <1>6 DEF IInv, TableTypes
<1>10. TableInv'
  <2>1. table_exists' => <<"table">> \in nft'
    BY <1>4, <1>7
  <2>2. ASSUME NEW m \in Mss, kernel_created'[m] PROVE table_exists' /\ Group(m) \subseteq nft'
    <3>1. CASE m = mss(s)
      BY ZenonT(60), <1>1, <1>3, <1>6, <1>8, <2>2, <3>1
    <3>2. CASE m # mss(s)
      BY ZenonT(60), <1>1, <1>4, <1>6, <2>2, <3>2 DEF IInv, TableInv
    <3> QED BY ZenonT(60), <3>1, <3>2
  <2> QED BY ZenonT(60), <2>1, <2>2 DEF TableInv
<1>11. handle[s] = NoDev
  BY ZenonT(60), <1>1, NoHandle DEF Held
<1>12. GroupInv(s)'
  BY ZenonT(60), <1>1, <1>2, <1>3, <1>4, <1>6, <1>11 DEF GroupInv, Locked
<1>13. \A m \in Mss : kernel_created[m] => kernel_created'[m]
  BY ZenonT(60), <1>3, <1>6
<1>14. \A t \in Session \ {s} : GroupInv(t)'
  BY ZenonT(60), <1>3, <1>4, <1>13, OthersClamped DEF Shared
<1> QED BY ZenonT(60), <1>4, <1>9, <1>10, <1>12, <1>14 DEF TableKept

LEMMA ElemAdded ==
  ASSUME IInv, NEW s \in Session, add_elem(s)
  PROVE  TableKept
<1> DEFINE elem == <<"elem", mss(s), dev[s]>>
<1>1. /\ UNCHANGED <<table_exists, kernel_created, cipher, link_mtu, dev>>
      /\ pc[s] = "Elem" /\ pc'[s] = "Routes" /\ lock' = NoSession
  BY ZenonT(60) DEF add_elem, own, Goto, IInv, OwnTypes
<1>2. PICK x \in Outcomes(nft, build_add_elem(mss(s), dev[s])) :
         /\ nft' = x.have /\ Count(x.lost)
         /\ handle' = [handle EXCEPT ![s] = IF x.acked THEN dev[s] ELSE NoDev]
         /\ refcount' = [refcount EXCEPT ![mss(s)] = IF x.acked THEN @ + 1 ELSE @]
  BY ZenonT(60) DEF add_elem, exchange_batch
<1>3. mss(s)' = mss(s) /\ mss(s) \in Mss /\ dev[s] \in Ifname
  <2>1. pc[s] # "Idle" /\ UNCHANGED <<cipher, link_mtu>>
    BY ZenonT(60), <1>1
  <2>2. mss(s)' = mss(s) /\ mss(s) \in Mss
    BY ZenonT(60), <2>1, MssFacts
  <2>3. dev[s] \in Ifname
    <3>1. dev[s] # NoDev
      <4>1. StageInv(s)
        BY ZenonT(60) DEF IInv
      <4>2. pc[s] \in {"Configure", "Attach", "Bind"} \cup Late
        BY ZenonT(60), <1>1 DEF Late, Locked
      <4> QED BY ZenonT(60), <4>1, <4>2 DEF StageInv
    <3>2. dev[s] \in Ifname \cup {NoDev}
      BY ZenonT(60) DEF IInv, OwnTypes
    <3> QED BY ZenonT(60), <3>1, <3>2
  <2> QED BY ZenonT(60), <2>2, <2>3
<1>4. lock = s /\ kernel_created[mss(s)]
  BY ZenonT(60), <1>1 DEF IInv, GroupInv, Locked
<1>5. nft \subseteq nft' /\ nft' \subseteq nft \cup {elem} /\ (x.acked => elem \in nft')
  <2>1. build_add_elem(mss(s), dev[s]).obj = elem
    BY ZenonT(60) DEF build_add_elem
  <2> QED BY <1>2, <2>1, OutcomeFacts
<1>6. faults' \in 0..MaxFaults
  BY <1>2, DataPathAssumption DEF Count, IInv
<1>7. handle'[s] # NoDev => handle'[s] = dev[s] /\ elem \in nft'
  <2>1. CASE x.acked
    <3>1. elem \in nft'
      BY ZenonT(60), <1>5, <2>1
    <3>2. handle' = [handle EXCEPT ![s] = dev[s]]
      BY ZenonT(60), <1>2, <2>1
    <3> QED BY ZenonT(60), <3>1, <3>2 DEF IInv, OwnTypes
  <2>2. CASE ~x.acked
    <3>1. handle' = [handle EXCEPT ![s] = NoDev]
      BY ZenonT(60), <1>2, <2>2
    <3> QED BY ZenonT(60), <3>1 DEF IInv, OwnTypes
  <2> QED BY ZenonT(60), <2>1, <2>2
<1>8. TableTypes'
  <2>1. nft' \subseteq AllObjects
    <3>1. elem \in Object(mss(s), dev[s])
      BY ZenonT(60) DEF Object
    <3>2. elem \in AllObjects
      BY <1>3, <3>1, Objects
    <3> QED BY <1>5, <3>2 DEF IInv, TableTypes
  <2>2. refcount' \in [Mss -> Nat]
    <3>1. refcount \in [Mss -> Nat] /\ refcount[mss(s)] \in Nat
      BY <1>3 DEF IInv, TableTypes
    <3>2. PICK v \in Nat : refcount' = [refcount EXCEPT ![mss(s)] = v]
      <4>1. CASE x.acked
        <5>1. refcount' = [refcount EXCEPT ![mss(s)] = refcount[mss(s)] + 1]
          BY <1>2, <4>1
        <5>2. refcount[mss(s)] + 1 \in Nat
          BY <3>1
        <5> QED BY ZenonT(60), <5>1, <5>2
      <4>2. CASE ~x.acked
        <5>1. refcount' = [refcount EXCEPT ![mss(s)] = refcount[mss(s)]]
          BY <1>2, <4>2
        <5> QED BY ZenonT(60), <3>1, <5>1
      <4> QED BY <4>1, <4>2
    <3> QED BY ZenonT(60), <3>1, <3>2
  <2> QED BY ZenonT(60), <1>1, <2>1, <2>2 DEF IInv, TableTypes
<1>9. TableInv'
  BY ZenonT(60), <1>1, <1>5 DEF IInv, TableInv
<1>10. GroupInv(s)'
  BY ZenonT(60), <1>1, <1>3, <1>4, <1>7 DEF GroupInv, Locked
<1>11. \A t \in Session \ {s} : GroupInv(t)'
  BY ZenonT(60), <1>1, <1>4, <1>5, OthersClamped DEF Shared
<1> QED BY ZenonT(60), <1>6, <1>8, <1>9, <1>10, <1>11 DEF TableKept

\* Taking one interface out of its set leaves the groups and the other interfaces.
LEMMA Removed ==
  ASSUME IInv, NEW s \in Session, remove(s)
  PROVE  TableKept
<1> DEFINE elem == <<"elem", mss(s), handle[s]>>
<1>1. /\ UNCHANGED <<table_exists, kernel_created, lock, cipher, link_mtu, dev>>
      /\ pc[s] = "Unclamp" /\ pc'[s] = "Close" /\ handle'[s] = NoDev
  BY ZenonT(60) DEF remove, own, Goto, IInv, OwnTypes
<1>2. /\ nft' \subseteq nft /\ nft \ {elem} \subseteq nft' /\ faults' \in 0..MaxFaults
      /\ handle[s] = NoDev => nft' = nft
  BY DataPathAssumption DEF remove, Count, IInv
<1>3. refcount' \in [Mss -> Nat]
  <2>1. mss(s) \in Mss
    BY ZenonT(60), <1>1, MssKnown DEF IInv, StageInv
  <2>2. refcount \in [Mss -> Nat] /\ refcount[mss(s)] \in Nat
    BY ZenonT(60), <2>1 DEF IInv, TableTypes
  <2>3. \/ refcount' = refcount
        \/ refcount' = [refcount EXCEPT ![mss(s)] = IF @ = 0 THEN 0 ELSE @ - 1]
    BY ZenonT(60) DEF remove
  <2>4. (IF refcount[mss(s)] = 0 THEN 0 ELSE refcount[mss(s)] - 1) \in Nat
    BY <2>2
  <2> QED BY ZenonT(60), <2>2, <2>3, <2>4
<1>4. mss(s)' = mss(s)
  BY ZenonT(60), <1>1, MssSame
<1>5. TableTypes'
  BY ZenonT(60), <1>1, <1>2, <1>3 DEF IInv, TableTypes
<1>6. TableInv'
  <2>1. \A m : elem \notin Group(m) /\ elem # <<"table">>
    BY ZenonT(60) DEF Group
  <2> HIDE DEF elem
  <2>2. \A m : Group(m) \subseteq nft => Group(m) \subseteq nft'
    BY ZenonT(60), <1>2, <2>1
  <2>3. <<"table">> \in nft => <<"table">> \in nft'
    BY ZenonT(60), <1>2, <2>1
  <2> QED BY <1>1, <2>2, <2>3 DEF IInv, TableInv
<1>7. GroupInv(s)'
  BY <1>1 DEF GroupInv, Locked
<1>8. ASSUME NEW t \in Session, t # s PROVE GroupInv(t)'
  <2>1. Same(t)
    BY ZenonT(60), <1>8, OthersKeep DEF IInv, Shared
  <2>2. mss(t)' = mss(t)
    BY <2>1, MssSame DEF Same
  <2>3. handle[t] # NoDev => <<"elem", mss(t), handle[t]>> \in nft'
    <3> SUFFICES ASSUME handle[t] # NoDev PROVE <<"elem", mss(t), handle[t]>> \in nft'
      BY ZenonT(60), SMTT(60)
    <3>1. <<"elem", mss(t), handle[t]>> \in nft
      BY ZenonT(60) DEF IInv, GroupInv
    <3>2. CASE handle[s] = NoDev
      BY ZenonT(60), <1>2, <3>1, <3>2
    <3>3. CASE handle[s] # NoDev
      <4>1. handle[t] = dev[t] /\ handle[s] = dev[s]
        BY ZenonT(60), <3>3 DEF IInv, StageInv
      <4>2. handle[t] # handle[s]
        BY ZenonT(60), <1>8, <3>3, <4>1 DEF IInv, DevInv
      <4>3. <<"elem", mss(t), handle[t]>> # elem
        BY ZenonT(60), <4>2
      <4> QED BY ZenonT(60), <1>2, <3>1, <4>3
    <3> QED BY ZenonT(60), <3>2, <3>3
  <2>4. CASE pc[t] \in Locked
    <3>1. handle[s] = NoDev /\ UNCHANGED nft
      <4>1. lock = t /\ lock # NoSession
        BY ZenonT(60), <2>4, DataPathAssumption DEF IInv, GroupInv
      <4> QED BY ZenonT(60), <4>1 DEF remove
    <3> QED BY ZenonT(60), <1>1, <2>1, <2>2, <3>1 DEF IInv, GroupInv, Same
  <2>5. CASE pc[t] \notin Locked
    BY ZenonT(60), <1>1, <2>1, <2>2, <2>3, <2>5 DEF IInv, GroupInv, Same, Locked
  <2> QED BY ZenonT(60), <2>4, <2>5
<1> QED BY ZenonT(60), <1>2, <1>5, <1>6, <1>7, <1>8 DEF TableKept

LEMMA SharedKeeps ==
  ASSUME IInv, NEW s \in Session, Shared(s)
  PROVE  TableKept
  BY ZenonT(60), AddKeeps, FlushKeeps, TableCreated, SetCreated, ChainCreated, RuleIifCreated, RuleOifCreated,
     ElemAdded, Removed DEF Shared

\* What a fresh or restarted process starts with.
Fresh ==
  /\ pc = [s \in Session |-> "Idle"]
  /\ cipher = [s \in Session |-> "None"] /\ link_mtu = [s \in Session |-> 0]
  /\ policy = [s \in Session |-> {}] /\ path = [s \in Session |-> "None"] /\ ktls = [s \in Session |-> 0]
  /\ dev = [s \in Session |-> NoDev] /\ conf = [s \in Session |-> {}] /\ kmod = [s \in Session |-> {}]
  /\ acct = [s \in Session |-> "None"] /\ handle = [s \in Session |-> NoDev]
  /\ lock = NoSession /\ table_exists = FALSE
  /\ kernel_created = [m \in Mss |-> FALSE] /\ refcount = [m \in Mss |-> 0]

LEMMA FreshInv ==
  ASSUME Fresh, data_path \in Mode, nft \subseteq AllObjects, faults \in 0..MaxFaults
  PROVE  IInv
<1>1. OwnTypes
  BY DEF Fresh, OwnTypes, Stage
<1>2. TableTypes
  BY ZenonT(60) DEF Fresh, TableTypes
<1>3. ASSUME NEW s \in Session PROVE StageInv(s)
  BY DEF Fresh, StageInv, Late, Locked, Held
<1>4. DevInv
  BY ZenonT(60) DEF Fresh, DevInv
<1>5. TableInv
  BY ZenonT(60) DEF Fresh, TableInv
<1>6. ASSUME NEW s \in Session PROVE GroupInv(s)
  BY ZenonT(60) DEF Fresh, GroupInv, Locked
<1> QED BY ZenonT(60), <1>1, <1>2, <1>3, <1>4, <1>5, <1>6 DEF IInv

LEMMA DestroyKeeps ==
  ASSUME IInv, destroy
  PROVE  IInv'
<1>1. /\ UNCHANGED <<data_path, pc, cipher, link_mtu, policy, path, ktls, dev, conf, kmod, acct, handle, lock>>
      /\ \A s \in Session : pc[s] = "Idle"
      /\ table_exists' = FALSE /\ kernel_created' = [m \in Mss |-> FALSE] /\ refcount' = [m \in Mss |-> 0]
      /\ nft' \subseteq nft /\ faults' \in 0..MaxFaults
  BY DataPathAssumption DEF destroy, own, Count, IInv
<1>2. OwnTypes' /\ DevInv'
  BY ZenonT(60), <1>1 DEF IInv, OwnTypes, DevInv
<1>3. TableTypes' /\ TableInv'
  BY ZenonT(60), <1>1 DEF IInv, TableTypes, TableInv
<1>4. ASSUME NEW s \in Session PROVE StageInv(s)'
  BY ZenonT(60), <1>1 DEF IInv, StageInv
<1>5. ASSUME NEW s \in Session PROVE GroupInv(s)'
  BY ZenonT(60), <1>1 DEF IInv, StageInv, GroupInv, Locked, Held
<1> QED BY ZenonT(60), <1>1, <1>2, <1>3, <1>4, <1>5 DEF IInv

LEMMA CrashKeeps ==
  ASSUME IInv, crash
  PROVE  IInv'
<1>1. Fresh' /\ UNCHANGED <<data_path, nft, faults>>
  BY ZenonT(60) DEF crash, Fresh
<1>2. (data_path \in Mode)' /\ (nft \subseteq AllObjects)' /\ (faults \in 0..MaxFaults)'
  BY ZenonT(60), <1>1 DEF IInv, OwnTypes, TableTypes
<1>3. OwnTypes'
  BY <1>1, <1>2 DEF Fresh, OwnTypes, Stage
<1>4. TableTypes'
  BY ZenonT(60), <1>1, <1>2 DEF Fresh, TableTypes
<1>5. ASSUME NEW s \in Session PROVE StageInv(s)'
  BY <1>1 DEF Fresh, StageInv, Late, Locked, Held
<1>6. DevInv' /\ TableInv'
  BY ZenonT(60), <1>1 DEF Fresh, DevInv, TableInv
<1>7. ASSUME NEW s \in Session PROVE GroupInv(s)'
  BY ZenonT(60), <1>1 DEF Fresh, GroupInv, Locked
<1> QED BY ZenonT(60), <1>2, <1>3, <1>4, <1>5, <1>6, <1>7 DEF IInv

LEMMA SessionKeeps ==
  ASSUME IInv, NEW s \in Session, Private(s) \/ Shared(s)
  PROVE  IInv'
<1>1. OwnTypes' /\ DevInv'
  BY ZenonT(60), OwnTypesKept, DevInvKept DEF IInv
<1>2. TableKept
  BY PrivateKeeps, SharedKeeps DEF TableKept
<1>3. ASSUME NEW t \in Session PROVE StageInv(t)'
  <2>1. CASE t = s
    BY ZenonT(60), <2>1, StageKept DEF IInv
  <2>2. CASE t # s
    <3>1. Same(t)
      BY <2>2, OthersKeep DEF IInv
    <3> QED BY ZenonT(60), <3>1 DEF IInv, StageInv, Same
  <2> QED BY <2>1, <2>2
<1> QED BY ZenonT(60), <1>1, <1>2, <1>3 DEF IInv, TableKept

\* The inductive invariant.
THEOREM Invariance == Spec => []IInv
<1>1. Init => IInv
  <2> SUFFICES ASSUME Init PROVE IInv
    BY ZenonT(60)
  <2>1. Fresh /\ data_path \in Mode /\ nft \subseteq AllObjects /\ faults \in 0..MaxFaults
    BY DataPathAssumption DEF Init, Fresh
  <2> QED BY <2>1, FreshInv
<1>2. IInv /\ [Next]_vars => IInv'
  <2> SUFFICES ASSUME IInv, [Next]_vars PROVE IInv'
    OBVIOUS
  <2>1. CASE destroy
    BY <2>1, DestroyKeeps
  <2>2. CASE crash
    BY <2>2, CrashKeeps
  <2>3. ASSUME NEW s \in Session, Private(s) \/ Shared(s) PROVE IInv'
    BY ZenonT(60), <2>3, SessionKeeps
  <2>4. CASE UNCHANGED vars
    <3>1. UNCHANGED <<data_path, pc, cipher, link_mtu, policy, path, ktls, dev, conf, kmod, acct, handle,
                      lock, table_exists, kernel_created, refcount, nft, faults>>
      BY ZenonT(60), <2>4 DEF vars, own, table
    <3>2. OwnTypes' /\ TableTypes' /\ DevInv' /\ TableInv' /\ (faults \in 0..MaxFaults)'
      BY ZenonT(60), <3>1 DEF IInv, OwnTypes, TableTypes, DevInv, TableInv
    <3>3. ASSUME NEW s \in Session PROVE StageInv(s)'
      BY ZenonT(60), <3>1 DEF IInv, StageInv
    <3>4. ASSUME NEW s \in Session PROVE GroupInv(s)'
      <4>1. mss(s)' = mss(s)
        BY ZenonT(60), <3>1, MssSame
      <4>2. pc[s]' = pc[s] /\ handle[s]' = handle[s] /\ kernel_created[mss(s)]' = kernel_created[mss(s)]
        BY ZenonT(60), <3>1, <4>1
      <4>3. GroupInv(s)
        BY DEF IInv
      <4> QED BY ZenonT(60), <3>1, <4>1, <4>2, <4>3 DEF GroupInv
    <3> QED BY ZenonT(60), <3>2, <3>3, <3>4 DEF IInv
  <2> QED BY <2>1, <2>2, <2>3, <2>4, Groups
<1> QED BY <1>1, <1>2, PTL DEF Spec

\* Types, and no reference count of SharedMssTable below zero.
THEOREM TypeCorrect == Spec => []TypeOK
<1>1. IInv => TypeOK
  BY DEF IInv, OwnTypes, TableTypes, TypeOK, AllObjects
<1> QED BY <1>1, Invariance, PTL

\* A live SharedMssHandle means a working clamp: element, set, chain and both rules.
THEOREM HandleClamps == Spec => []ClampInForce
<1>1. IInv => ClampInForce
  <2> SUFFICES ASSUME IInv, NEW s \in Session, handle[s] # NoDev
               PROVE  Object(mss(s), handle[s]) \subseteq nft
    BY ZenonT(60) DEF ClampInForce
  <2>1. mss(s) \in Mss
    BY ZenonT(60), MssKnown DEF IInv, StageInv, Held
  <2>2. kernel_created[mss(s)] /\ <<"elem", mss(s), handle[s]>> \in nft
    BY ZenonT(60) DEF IInv, GroupInv
  <2>3. Group(mss(s)) \subseteq nft
    BY ZenonT(60), <2>1, <2>2 DEF IInv, TableInv
  <2> QED BY <2>2, <2>3 DEF Object, Group
<1> QED BY <1>1, Invariance, PTL

\* The record layer on the socket is the one the session's data path needs.
THEOREM RecordLayerFits == Spec => []RecordLayerMatchesPath
<1>1. IInv => RecordLayerMatchesPath
  BY ZenonT(60) DEF IInv, StageInv, RecordLayerMatchesPath, Late, Locked
<1> QED BY <1>1, Invariance, PTL

\* The locals of drive_sstp are dropped in an order that is safe.
THEOREM TeardownOrdered == Spec => []TeardownOrder
<1>1. IInv => TeardownOrder
  BY ZenonT(60) DEF IInv, StageInv, DevInv, TeardownOrder
<1> QED BY <1>1, Invariance, PTL

-----------------------------------------------------------------------------
(* Programs the kernel can take.                                           *)

\* An exchange the kernel can take is acknowledged, unless it fails on the way.
LEMMA OutcomeSure ==
  ASSUME NEW have, NEW q, NEW x \in Outcomes(have, q), Admissible(have, q), ~x.lost
  PROVE  x.acked /\ x.have = have \cup {q.obj}
<1> DEFINE ok == Admissible(have, q)
           after == IF ok THEN have \cup {q.obj} ELSE have
<1>1. \/ x = [acked |-> ok, have |-> after, lost |-> FALSE]
      \/ x = [acked |-> FALSE, have |-> have, lost |-> TRUE]
      \/ x = [acked |-> FALSE, have |-> after, lost |-> TRUE]
  BY DEF Outcomes
<1>2. after = have \cup {q.obj}
  BY Zenon
<1> HIDE DEF ok, after
<1>3. x.acked = ok /\ x.have = after
  BY <1>1
<1> QED BY <1>2, <1>3, Zenon DEF ok

\* Requests the kernel can take one after the other are all acknowledged, unless one fails on
\* the way.
Added(have, prog, k) == have \cup {prog[i].obj : i \in 1..k}

LEMMA ExchangeSure ==
  ASSUME NEW have, NEW prog, Len(prog) \in Nat,
         \A i \in 1..Len(prog) : Admissible(Added(have, prog, i - 1), prog[i]),
         NEW x \in exchange(have, prog), ~x.lost
  PROVE  x.have = Added(have, prog, Len(prog))
<1> DEFINE done(k) == Added(have, prog, k)
           reached == {k \in 0..Len(prog) : \A i \in 1..k : Admissible(done(i - 1), prog[i])}
<1>1. CASE x = [acked |-> Len(prog), have |-> done(Len(prog)), lost |-> FALSE]
  BY <1>1
<1>2. CASE \E k \in reached \ {Len(prog)} : \E y \in {z \in Outcomes(done(k), prog[k + 1]) : ~z.acked} :
              x = [acked |-> k, have |-> y.have, lost |-> y.lost]
  <2>0. PICK k \in reached \ {Len(prog)} : \E y \in {z \in Outcomes(done(k), prog[k + 1]) : ~z.acked} :
              x = [acked |-> k, have |-> y.have, lost |-> y.lost]
    BY ZenonT(60), <1>2
  <2>1. PICK y \in Outcomes(done(k), prog[k + 1]) :
              ~y.acked /\ x = [acked |-> k, have |-> y.have, lost |-> y.lost]
    BY ZenonT(60), <2>0
  <2>2. k + 1 \in 1..Len(prog) /\ (k + 1) - 1 = k
    BY <2>0
  <2>3. Admissible(done(k), prog[k + 1])
    BY <2>2
  <2>4. x.lost = y.lost
    BY <2>1
  <2>5. ~y.lost
    BY <2>4, Zenon
  <2> HIDE DEF done
  <2> QED BY ZenonT(60), <2>1, <2>3, <2>5, OutcomeSure
<1>3. \/ x = [acked |-> Len(prog), have |-> done(Len(prog)), lost |-> FALSE]
      \/ \E k \in reached \ {Len(prog)} : \E y \in {z \in Outcomes(done(k), prog[k + 1]) : ~z.acked} :
              x = [acked |-> k, have |-> y.have, lost |-> y.lost]
  BY ZenonT(60) DEF exchange, Added
<1> QED BY ZenonT(60), <1>1, <1>2, <1>3

\* What the shaper adds to a netdev.
Shaping(p) == {program(p)[i].obj : i \in 1..Len(program(p))}

\* Every request of the shaper finds the qdisc it attaches to: it is the request before it.
LEMMA ShapingWhole ==
  ASSUME NEW p, NEW have, NEW x \in exchange(have, program(p)), ~x.lost
  PROVE  x.have = have \cup Shaping(p)
<1> DEFINE egress == <<encode_htb_root, encode_htb_leaf>>
           ingress == <<encode_ingress_qdisc, encode_ingress_police_filter>>
           Fits(prog) == /\ Len(prog) \in Nat
                         /\ \A i \in 1..Len(prog) :
                               /\ prog[i].excl = FALSE
                               /\ prog[i].needs = {} \/ (i - 1 \in 1..(i - 1) /\ prog[i].needs = {prog[i - 1].obj})
<1>1. Fits(program(p))
  <2> USE DEF encode_htb_root, encode_htb_leaf, encode_ingress_qdisc, encode_ingress_police_filter
  <2>1. CASE "egress" \in p /\ "ingress" \in p
    <3>1. program(p) = egress \o ingress
      BY <2>1, Zenon DEF program
    <3> QED BY <3>1
  <2>2. CASE "egress" \in p /\ "ingress" \notin p
    <3>1. program(p) = egress \o <<>>
      BY <2>2, Zenon DEF program
    <3> QED BY <3>1
  <2>3. CASE "egress" \notin p /\ "ingress" \in p
    <3>1. program(p) = <<>> \o ingress
      BY <2>3, Zenon DEF program
    <3> QED BY <3>1
  <2>4. CASE "egress" \notin p /\ "ingress" \notin p
    <3>1. program(p) = <<>> \o <<>>
      BY <2>4, Zenon DEF program
    <3> QED BY <3>1
  <2> QED BY ZenonT(60), <2>1, <2>2, <2>3, <2>4
<1>2. PICK prog : prog = program(p)
  BY ZenonT(60)
<1>3. \A i \in 1..Len(prog) : Admissible(Added(have, prog, i - 1), prog[i])
  BY <1>1, <1>2 DEF Admissible, Added
<1>4. x.have = Added(have, prog, Len(prog))
  <2>1. x \in exchange(have, prog) /\ Len(prog) \in Nat
    BY <1>1, <1>2, Zenon
  <2> QED BY ZenonT(60), <1>3, <2>1, ExchangeSure
<1> QED BY <1>2, <1>4, Zenon DEF Shaping, Added

\* A route needs the netdev up.
LEMMA RoutesWhole ==
  ASSUME NEW p, NEW have, "up" \in have, NEW x \in exchange(have, route_program(p)), ~x.lost
  PROVE  x.have = have \cup (p \cap {"route"})
<1>1. CASE "route" \in p
  <2>1. route_program(p) = <<encode_add_route>>
    BY <1>1, Zenon DEF route_program
  <2>2. PICK prog : prog = route_program(p)
    OBVIOUS
  <2>3. Len(prog) = 1 /\ prog[1].obj = "route" /\ prog[1].needs = {"up"} /\ prog[1].excl = FALSE
    BY <2>1, <2>2 DEF encode_add_route
  <2>4. \A i \in 1..Len(prog) : Admissible(Added(have, prog, i - 1), prog[i])
    BY <2>3 DEF Admissible, Added
  <2>5. x.have = Added(have, prog, Len(prog))
    <3>1. x \in exchange(have, prog) /\ Len(prog) \in Nat
      BY <2>2, <2>3
    <3> QED BY ZenonT(60), <2>4, <3>1, ExchangeSure
  <2> QED BY <1>1, <2>3, <2>5 DEF Added
<1>2. CASE "route" \notin p
  <2>1. route_program(p) = <<>>
    BY <1>2, Zenon DEF route_program
  <2>2. PICK prog : prog = route_program(p)
    OBVIOUS
  <2>3. Len(prog) = 0
    BY <2>1, <2>2
  <2>4. x.have = Added(have, prog, Len(prog))
    <3>1. x \in exchange(have, prog) /\ Len(prog) \in Nat
      BY <2>2, <2>3
    <3>2. \A i \in 1..Len(prog) : Admissible(Added(have, prog, i - 1), prog[i])
      BY <2>3
    <3> QED BY ZenonT(60), <3>1, <3>2, ExchangeSure
  <2> QED BY <1>2, <2>3, <2>4 DEF Added
<1> QED BY <1>1, <1>2

\* What a netdev has at each stage.
ConfInv(s) ==
  /\ pc[s] \in {"Idle", "NetworkUp", "Open", "Configure", "Detach"} => conf[s] = {}
  /\ pc[s] \in {"Attach", "Bind", "Shape"} => conf[s] = BroughtUp
  /\ faults = 0 /\ pc[s] \in Locked \cup {"Clamp", "Routes"} => conf[s] = BroughtUp \cup Shaping(policy[s])
  /\ faults = 0 /\ pc[s] = "Up" => conf[s] = BroughtUp \cup Shaping(policy[s]) \cup (policy[s] \cap {"route"})

\* A failed exchange is never forgotten.
LEMMA CountClean ==
  ASSUME NEW lost, faults \in 0..MaxFaults, Count(lost), faults' = 0
  PROVE  ~lost /\ faults = 0
<1>1. CASE lost
  <2>1. faults' = faults + 1
    BY <1>1, Zenon DEF Count
  <2> QED BY <2>1, DataPathAssumption
<1>2. CASE ~lost
  <2>1. faults' = faults
    BY <1>2, Zenon DEF Count
  <2> QED BY <1>2, <2>1
<1> QED BY <1>1, <1>2

LEMMA FaultsCounted ==
  ASSUME NEW s \in Session, Private(s) \/ Shared(s)
  PROVE  \E lost : Count(lost)
<1>1. UNCHANGED faults => Count(FALSE)
  BY DEF Count
<1>2. CASE accept(s) \/ end(s) \/ NetworkUp(s) \/ Unit_new(s) \/ TunSession_bring_up(s) \/ attach(s)
           \/ bind_channel_to_unit(s) \/ register(s) \/ stop(s) \/ deregister(s)
           \/ close_unit(s) \/ detach(s)
  <2>1. UNCHANGED faults
    BY ZenonT(60), <1>2 DEF accept, end, NetworkUp, Unit_new, TunSession_bring_up, Create, attach,
                bind_channel_to_unit, register, stop, deregister, close_unit, detach
  <2> QED BY ZenonT(60), <1>1, <2>1
<1>3. CASE configure(s) \/ apply(s) \/ add_routes(s)
  BY ZenonT(60), <1>3 DEF configure, apply, add_routes
<1>4. CASE create_table(s) \/ create_set(s) \/ create_chain(s) \/ create_rule_iif(s) \/ create_rule_oif(s)
  BY ZenonT(60), <1>4 DEF create_table, create_set, create_chain, create_rule_iif, create_rule_oif, Transaction
<1>5. CASE add_elem(s)
  BY ZenonT(60), <1>5 DEF add_elem
<1>6. CASE add(s)
  BY ZenonT(60), <1>1, <1>6 DEF add
<1>7. CASE flush(s)
  BY ZenonT(60), <1>1, <1>7 DEF flush
<1>8. CASE remove(s)
  BY ZenonT(60), <1>1, <1>8 DEF remove
<1> QED BY ZenonT(60), <1>2, <1>3, <1>4, <1>5, <1>6, <1>7, <1>8 DEF Private, Shared

LEMMA FaultsKept ==
  ASSUME IInv, NEW s \in Session, Private(s) \/ Shared(s), faults' = 0
  PROVE  faults = 0
<1>1. PICK lost : Count(lost)
  BY FaultsCounted
<1> QED BY <1>1, CountClean DEF IInv

\* A session inside add has its netdev as the shaper left it.
LEMMA SharedConf ==
  ASSUME OwnTypes, NEW s \in Session, Shared(s)
  PROVE  /\ conf'[s] = conf[s] /\ policy'[s] = policy[s]
         /\ \/ pc[s] \in Locked \cup {"Clamp"} /\ pc'[s] \in Locked \cup {"Routes"}
            \/ pc'[s] = "Close"
<1> USE DEF OwnTypes, Goto, own, Locked
<1>1. CASE add(s)
  BY ZenonT(60), <1>1 DEF add
<1>2. CASE flush(s)
  BY <1>2 DEF flush
<1>3. CASE create_table(s)
  BY <1>3 DEF create_table, Transaction
<1>4. CASE create_set(s) \/ create_chain(s) \/ create_rule_iif(s) \/ create_rule_oif(s)
  BY ZenonT(60), <1>4 DEF create_set, create_chain, create_rule_iif, create_rule_oif, Transaction
<1>5. CASE add_elem(s)
  BY <1>5 DEF add_elem
<1>6. CASE remove(s)
  BY ZenonT(60), <1>6 DEF remove
<1> QED BY ZenonT(60), <1>1, <1>2, <1>3, <1>4, <1>5, <1>6 DEF Shared

\* configure goes on with the three objects, or unwinds.
LEMMA ConfigureFacts ==
  ASSUME OwnTypes, NEW s \in Session, configure(s)
  PROVE  \E x \in exchange(conf[s], bring_up_program) :
           \/ x.acked = 3 /\ conf'[s] = x.have /\ pc'[s] \in {"Attach", "Shape"}
           \/ pc'[s] = "Stop"
<1>0. DOMAIN pc = Session /\ DOMAIN conf = Session
  BY DEF OwnTypes
<1>1. PICK x \in exchange(conf[s], bring_up_program) :
          IF x.acked = 3
          THEN /\ conf' = [conf EXCEPT ![s] = x.have] /\ UNCHANGED <<dev, kmod>>
               /\ Goto(s, IF path[s] = "Kernel" THEN "Attach" ELSE "Shape")
          ELSE Unwind(s)
  BY ZenonT(60) DEF configure, bring_up_program
<1>2. CASE x.acked = 3
  <2>1. conf'[s] = x.have
    BY ZenonT(60), <1>0, <1>1, <1>2
  <2>2. pc'[s] = "Attach" \/ pc'[s] = "Shape"
    BY <1>0, <1>1, <1>2 DEF Goto
  <2> QED BY ZenonT(60), <1>2, <2>1, <2>2
<1>3. CASE x.acked # 3
  <2>1. pc'[s] = "Stop"
    BY <1>0, <1>1, <1>3 DEF Unwind, Goto
  <2> QED BY ZenonT(60), <2>1
<1> QED BY ZenonT(60), <1>2, <1>3

LEMMA GoesTo ==
  ASSUME OwnTypes, NEW s \in Session, NEW x, Goto(s, x)
  PROVE  pc'[s] = x
<1>1. DOMAIN pc = Session
  BY DEF OwnTypes
<1> QED BY ZenonT(60), <1>1 DEF Goto

\* The stages that exchange nothing with rtnetlink, and what they do to the netdev.
Local(s) ==
  \/ accept(s) \/ end(s) \/ NetworkUp(s) \/ Unit_new(s) \/ TunSession_bring_up(s) \/ attach(s)
  \/ bind_channel_to_unit(s) \/ register(s) \/ stop(s) \/ deregister(s) \/ close_unit(s) \/ detach(s)
Bare(s) == pc[s] = "Idle" \/ pc[s] = "NetworkUp" \/ pc[s] = "Open" \/ pc[s] = "Configure" \/ pc[s] = "Detach"
Attaching(s) == pc[s] = "Attach" \/ pc[s] = "Bind" \/ pc[s] = "Shape"
Leaving(s) == pc[s] = "Stop" \/ pc[s] = "Deregister" \/ pc[s] = "Unclamp"

LEMMA ConfMoves ==
  ASSUME OwnTypes, NEW s \in Session, Local(s)
  PROVE  \/ Bare(s) /\ Bare(s)' /\ conf' = conf
         \/ Attaching(s) /\ Attaching(s)' /\ conf' = conf
         \/ pc' = pc /\ conf' = conf /\ policy' = policy
         \/ Leaving(s)'
         \/ Bare(s)' /\ conf'[s] = {}
<1> USE DEF Bare, Attaching, Leaving
<1>1. CASE accept(s) \/ detach(s) BY ZenonT(60), <1>1, GoesTo DEF accept, detach
<1>2. CASE NetworkUp(s)
  <2>1. pc[s] = "NetworkUp" /\ conf' = conf /\ (Goto(s, "Open") \/ Goto(s, "Stop"))
    BY ZenonT(60), <1>2 DEF NetworkUp, install_ktls
  <2> QED BY ZenonT(60), <2>1, GoesTo
<1>3. CASE Unit_new(s) \/ TunSession_bring_up(s)
  <2>1. pc[s] = "Open" /\ ((conf' = conf /\ Goto(s, "Configure")) \/ Goto(s, "Stop"))
    <3>1. pc[s] = "Open" /\ (Create(s, "ppp") \/ Create(s, "tun"))
      BY ZenonT(60), <1>3 DEF Unit_new, TunSession_bring_up
    <3> QED BY ZenonT(60), <3>1 DEF Create, Unwind
  <2> QED BY ZenonT(60), <2>1, GoesTo
<1>4. CASE attach(s) \/ bind_channel_to_unit(s)
  BY ZenonT(60), <1>4, GoesTo DEF attach, bind_channel_to_unit, Unwind
<1>5. CASE register(s) BY ZenonT(60), <1>5, GoesTo DEF register
<1>6. CASE end(s) \/ stop(s) \/ deregister(s) BY ZenonT(60), <1>6, GoesTo DEF end, stop, deregister
<1>7. CASE close_unit(s)
  <2>1. DOMAIN conf = Session
    BY DEF OwnTypes
  <2>2. pc'[s] = "Detach"
    BY ZenonT(60), <1>7, GoesTo DEF close_unit
  <2>3. conf'[s] = {}
    BY ZenonT(60), <1>7, <2>1 DEF close_unit
  <2> QED BY ZenonT(60), <2>2, <2>3
<1> QED BY ZenonT(60), <1>1, <1>2, <1>3, <1>4, <1>5, <1>6, <1>7 DEF Local

LEMMA ConfKept ==
  ASSUME IInv, NEW s \in Session, ConfInv(s), Private(s) \/ Shared(s)
  PROVE  ConfInv(s)'
<1>1. faults' = 0 => faults = 0
  BY ZenonT(60), FaultsKept
<1>0. OwnTypes /\ faults \in 0..MaxFaults
  BY ZenonT(60) DEF IInv
<1>2. CASE Local(s)
  <2>1. \/ Bare(s) /\ Bare(s)' /\ conf' = conf
        \/ Attaching(s) /\ Attaching(s)' /\ conf' = conf
        \/ pc' = pc /\ conf' = conf /\ policy' = policy
        \/ Leaving(s)'
        \/ Bare(s)' /\ conf'[s] = {}
    BY ZenonT(60), <1>0, <1>2, ConfMoves
  <2>2. CASE (Bare(s) /\ Bare(s)' /\ conf' = conf) \/ (Bare(s)' /\ conf'[s] = {})
    <3>1. conf'[s] = {} BY ZenonT(60), <2>2 DEF ConfInv, Bare
    <3> QED BY ZenonT(60), <2>2, <3>1 DEF ConfInv, Bare, Locked
  <2>3. CASE Attaching(s) /\ Attaching(s)' /\ conf' = conf
    <3>1. conf'[s] = BroughtUp BY ZenonT(60), <2>3 DEF ConfInv, Attaching
    <3> QED BY ZenonT(60), <2>3, <3>1 DEF ConfInv, Attaching, Locked
  <2>4. CASE pc' = pc /\ conf' = conf /\ policy' = policy
    BY ZenonT(60), <1>1, <2>4 DEF ConfInv
  <2>5. CASE Leaving(s)'
    BY ZenonT(60), <2>5 DEF ConfInv, Leaving, Locked
  <2> QED BY ZenonT(60), <2>1, <2>2, <2>3, <2>4, <2>5
<1> USE <1>0 DEF OwnTypes, ConfInv, Goto, own, Locked
<1>3. CASE Shared(s)
  <2>1. /\ conf'[s] = conf[s] /\ policy'[s] = policy[s]
        /\ \/ pc[s] \in Locked \cup {"Clamp"} /\ pc'[s] \in Locked \cup {"Routes"}
           \/ pc'[s] = "Close"
    BY ZenonT(60), <1>3, SharedConf
  <2> QED BY ZenonT(60), <1>1, <2>1
<1>4. CASE configure(s)
  <2>1. PICK x \in exchange(conf[s], bring_up_program) :
          \/ x.acked = 3 /\ conf'[s] = x.have /\ pc'[s] \in {"Attach", "Shape"}
          \/ pc'[s] = "Stop"
    BY ZenonT(60), <1>4, ConfigureFacts
  <2>2. conf[s] = {}
    BY ZenonT(60), <1>4 DEF configure
  <2>3. x.acked = 3 => x.have = {} \cup BroughtUp
    BY ZenonT(60), <2>2, BringUpProgram
  <2>4. CASE x.acked = 3 /\ conf'[s] = x.have /\ pc'[s] \in {"Attach", "Shape"}
    <3>1. conf'[s] = BroughtUp
      BY ZenonT(60), <2>3, <2>4
    <3> QED BY ZenonT(60), <2>4, <3>1
  <2>5. CASE pc'[s] = "Stop"
    BY ZenonT(60), <2>5
  <2> QED BY ZenonT(60), <2>1, <2>4, <2>5
<1>5. CASE apply(s)
  <2>1. PICK x \in exchange(conf[s], program(policy[s])) : conf' = [conf EXCEPT ![s] = x.have] /\ Count(x.lost)
    BY ZenonT(60), <1>5 DEF apply
  <2>2. conf[s] = BroughtUp /\ pc'[s] = "Clamp" /\ policy' = policy
    BY ZenonT(60), <1>5 DEF apply
  <2>3. faults' = 0 => ~x.lost
    BY ZenonT(60), <2>1, CountClean
  <2>4. faults' = 0 => x.have = BroughtUp \cup Shaping(policy[s])
    BY ZenonT(60), <2>2, <2>3, ShapingWhole
  <2> QED BY ZenonT(60), <2>1, <2>2, <2>4
<1>6. CASE add_routes(s)
  <2>1. PICK x \in exchange(conf[s], route_program(policy[s])) : conf' = [conf EXCEPT ![s] = x.have] /\ Count(x.lost)
    BY ZenonT(60), <1>6 DEF add_routes, route_program
  <2>2. pc[s] = "Routes" /\ pc'[s] = "Up" /\ policy' = policy
    BY ZenonT(60), <1>6 DEF add_routes
  <2>3. faults' = 0 => ~x.lost
    BY ZenonT(60), <2>1, CountClean
  <2>4. faults' = 0 => conf[s] = BroughtUp \cup Shaping(policy[s]) /\ "up" \in conf[s]
    BY <1>1, <2>2 DEF BroughtUp
  <2>5. faults' = 0 => x.have = conf[s] \cup (policy[s] \cap {"route"})
    BY ZenonT(60), <2>3, <2>4, RoutesWhole
  <2> QED BY ZenonT(60), <2>1, <2>2, <2>4, <2>5
<1> QED
  BY ZenonT(60), <1>2, <1>3, <1>4, <1>5, <1>6 DEF Private, Local

-----------------------------------------------------------------------------
(* The shared table while no exchange has failed.                          *)

\* A session is past add only with its handle, and the table it creates is the first thing there.
Clamped(s) ==
  /\ pc[s] \in {"Routes", "Up"} => handle[s] = dev[s]
  /\ pc[s] = "Table" => nft = {}

\* Nothing of a group that is not created is there, but for what the holder of the mutex made.
HalfDone ==
  table_exists => \A m \in Mss : ~kernel_created[m] =>
     /\ <<"set", m>> \in nft => \E s \in Session : pc[s] \in {"Chain", "RuleIif", "RuleOif"} /\ mss(s) = m
     /\ <<"chain", m>> \in nft => \E s \in Session : pc[s] \in {"RuleIif", "RuleOif"} /\ mss(s) = m

\* Every interface in a set is a live handle's.
Elements ==
  table_exists => \A m \in Mss, i \in Ifname : <<"elem", m, i>> \in nft =>
     \E s \in Session : handle[s] = i /\ mss(s) = m

Holders(m) == {s \in Session : handle[s] # NoDev /\ mss(s) = m}
Counted == \A m \in Mss : ExistsBijection(1..refcount[m], Holders(m))

Clean == (\A s \in Session : Clamped(s)) /\ HalfDone /\ Elements /\ Counted

\* Counting by a bijection from 1..n: none, one more, one less.
LEMMA NoneYet == ExistsBijection(1..0, {})
<1> DEFINE f == [i \in 1..0 |-> i]
<1>1. f \in [1..0 -> {}] /\ IsInjective(f)
  BY DEF IsInjective
<1> QED BY ZenonT(60), <1>1 DEF ExistsBijection, Bijection, Injection, Surjection

LEMMA OneMore ==
  ASSUME NEW n \in Nat, NEW S, NEW x, x \notin S, ExistsBijection(1..n, S)
  PROVE  ExistsBijection(1..(n + 1), S \cup {x})
<1>1. PICK f \in [1..n -> S] : (\A i, j \in 1..n : f[i] = f[j] => i = j) /\ \A y \in S : \E i \in 1..n : f[i] = y
  BY ZenonT(60) DEF ExistsBijection, Bijection, Injection, Surjection, IsInjective
<1> DEFINE g == [i \in 1..(n + 1) |-> IF i = n + 1 THEN x ELSE f[i]]
<1>2. \A i \in 1..(n + 1) : i = n + 1 \/ i \in 1..n
  OBVIOUS
<1>3. g \in [1..(n + 1) -> S \cup {x}] /\ \A i, j \in 1..(n + 1) : g[i] = g[j] => i = j
  BY <1>1, <1>2
<1>4. \A y \in S \cup {x} : \E i \in 1..(n + 1) : g[i] = y
  BY <1>1
<1> HIDE DEF g
<1> QED BY ZenonT(60), <1>3, <1>4 DEF ExistsBijection, Bijection, Injection, Surjection, IsInjective

LEMMA OneLess ==
  ASSUME NEW n \in Nat, NEW S, NEW x \in S, ExistsBijection(1..n, S)
  PROVE  n # 0 /\ ExistsBijection(1..(n - 1), S \ {x})
<1>1. PICK f \in [1..n -> S] : (\A i, j \in 1..n : f[i] = f[j] => i = j) /\ \A y \in S : \E i \in 1..n : f[i] = y
  BY ZenonT(60) DEF ExistsBijection, Bijection, Injection, Surjection, IsInjective
<1>2. PICK k \in 1..n : f[k] = x
  BY <1>1
<1> DEFINE g == [i \in 1..(n - 1) |-> IF i = k THEN f[n] ELSE f[i]]
<1>3. \A i \in 1..(n - 1) : i \in 1..n /\ i # n
  OBVIOUS
<1>4. n \in 1..n /\ n # 0
  BY <1>2
<1>5. g \in [1..(n - 1) -> S \ {x}] /\ \A i, j \in 1..(n - 1) : g[i] = g[j] => i = j
  BY ZenonT(60), <1>1, <1>2, <1>3, <1>4
<1>6. \A y \in S \ {x} : \E i \in 1..(n - 1) : g[i] = y
  <2> SUFFICES ASSUME NEW y \in S \ {x} PROVE \E i \in 1..(n - 1) : g[i] = y
    OBVIOUS
  <2>1. PICK i \in 1..n : f[i] = y
    BY <1>1
  <2>2. CASE i = n
    <3>1. k \in 1..(n - 1) /\ g[k] = y
      BY <1>2, <2>1, <2>2
    <3> QED BY <3>1
  <2>3. CASE i # n
    <3>1. i \in 1..(n - 1) /\ g[i] = y
      BY <1>2, <2>1, <2>3
    <3> QED BY <3>1
  <2> QED BY <2>2, <2>3
<1> HIDE DEF g
<1> QED BY ZenonT(60), <1>4, <1>5, <1>6 DEF ExistsBijection, Bijection, Injection, Surjection, IsInjective

LEMMA NotIfname == NoDev \notin Ifname
  BY DEF NoDev, Ifname

\* What a private action does not touch, and where its session goes.
LEMMA PrivateFacts ==
  ASSUME OwnTypes, NEW s \in Session, Private(s)
  PROVE  /\ UNCHANGED <<lock, table_exists, kernel_created, refcount, nft, handle>>
         /\ pc[s] \notin Locked /\ pc'[s] \notin Locked
         /\ pc'[s] \in {"Routes", "Up"} => pc[s] \in {"Routes", "Up"} /\ dev'[s] = dev[s]
         /\ pc[s] \in Held => cipher'[s] = cipher[s] /\ link_mtu'[s] = link_mtu[s]
<1> USE DEF OwnTypes, Goto, own, table, Locked, Held
<1>1. CASE accept(s) BY ZenonT(60), <1>1 DEF accept
<1>2. CASE end(s) BY <1>2 DEF end
<1>3. CASE NetworkUp(s) BY ZenonT(60), <1>3 DEF NetworkUp, install_ktls
<1>4. CASE Unit_new(s) \/ TunSession_bring_up(s) BY ZenonT(60), <1>4 DEF Unit_new, TunSession_bring_up, Create, Unwind
<1>5. CASE configure(s) BY ZenonT(60), <1>5 DEF configure, Unwind
<1>6. CASE attach(s) \/ bind_channel_to_unit(s) BY <1>6 DEF attach, bind_channel_to_unit, Unwind
<1>7. CASE apply(s) \/ add_routes(s) BY ZenonT(60), <1>7 DEF apply, add_routes
<1>8. CASE register(s) BY ZenonT(60), <1>8 DEF register
<1>9. CASE stop(s) \/ deregister(s) BY ZenonT(60), <1>9 DEF stop, deregister
<1>10. CASE close_unit(s) \/ detach(s) BY SMTT(40), <1>10 DEF close_unit, detach
<1> QED BY ZenonT(60), <1>1, <1>2, <1>3, <1>4, <1>5, <1>6, <1>7, <1>8, <1>9, <1>10 DEF Private

\* The MSS of a session with a handle, or inside add, stays what it is.
LEMMA MssStays ==
  ASSUME IInv, NEW s \in Session, Private(s), NEW t \in Session, handle[t] # NoDev \/ pc[t] \in Locked
  PROVE  mss(t)' = mss(t)
<1>1. CASE t # s
  <2>1. Same(t)
    BY <1>1, OthersKeep DEF IInv
  <2> QED BY ZenonT(60), <2>1, MssSame DEF Same
<1>2. CASE t = s
  <2>1. pc[s] \in Held
    BY ZenonT(60), <1>2, PrivateFacts DEF IInv, StageInv
  <2> QED BY ZenonT(60), <1>2, <2>1, PrivateFacts, MssSame DEF IInv
<1> QED BY <1>1, <1>2

LEMMA PrivateClean ==
  ASSUME IInv, Clean, NEW s \in Session, Private(s)
  PROVE  Clean'
<1>1. /\ UNCHANGED <<lock, table_exists, kernel_created, refcount, nft, handle>>
      /\ pc[s] \notin Locked /\ pc'[s] \notin Locked
      /\ pc'[s] \in {"Routes", "Up"} => pc[s] \in {"Routes", "Up"} /\ dev'[s] = dev[s]
  BY ZenonT(60), PrivateFacts DEF IInv
<1>2. ASSUME NEW t \in Session, t # s PROVE Same(t)
  BY <1>2, OthersKeep DEF IInv
<1>3. \A t \in Session : handle[t] # NoDev \/ pc[t] \in Locked => mss(t)' = mss(t)
  BY ZenonT(60), MssStays
<1>4. ASSUME NEW t \in Session PROVE Clamped(t)'
  <2>1. CASE t # s
    BY ZenonT(60), <1>1, <1>2, <2>1 DEF Clean, Clamped, Same
  <2>2. CASE t = s
    BY ZenonT(60), <1>1, <2>2 DEF Clean, Clamped, Locked
  <2> QED BY <2>1, <2>2
<1>5. \A t \in Session : pc[t] \in Locked => pc'[t] = pc[t]
  BY ZenonT(60), <1>1, <1>2 DEF Same
<1>6. HalfDone'
  <2>1. \A t \in Session, m \in Mss : pc[t] \in {"Chain", "RuleIif", "RuleOif"} /\ mss(t) = m
           => pc'[t] = pc[t] /\ mss(t)' = m
    BY ZenonT(60), <1>3, <1>5 DEF Locked
  <2> QED BY ZenonT(60), <1>1, <2>1 DEF Clean, HalfDone
<1>7. Elements'
  <2>1. \A t \in Session, i \in Ifname, m \in Mss : handle[t] = i /\ mss(t) = m => handle'[t] = i /\ mss(t)' = m
    BY ZenonT(60), <1>1, <1>3, NotIfname
  <2>2. Elements
    BY ZenonT(60) DEF Clean
  <2>3. SUFFICES ASSUME table_exists', NEW m \in Mss, NEW i \in Ifname, <<"elem", m, i>> \in nft'
                 PROVE  \E t \in Session : handle'[t] = i /\ mss(t)' = m
    BY ZenonT(60) DEF Elements
  <2>4. table_exists /\ <<"elem", m, i>> \in nft
    BY ZenonT(60), <1>1, <2>3
  <2>5. PICK t \in Session : handle[t] = i /\ mss(t) = m
    BY ZenonT(60), <2>2, <2>4 DEF Elements
  <2> QED BY ZenonT(60), <2>1, <2>5
<1>8. ASSUME NEW m \in Mss PROVE Holders(m)' = Holders(m)
  BY ZenonT(60), <1>1, <1>3 DEF Holders
<1>9. Counted'
  BY ZenonT(60), <1>1, <1>8 DEF Clean, Counted
<1> QED BY <1>4, <1>6, <1>7, <1>9 DEF Clean

\* The sessions keep their MSS while one of them is inside add or remove.
LEMMA SharedFrame ==
  ASSUME NEW s \in Session, Shared(s)
  PROVE  UNCHANGED own /\ \A t \in Session : mss(t)' = mss(t)
<1>1. UNCHANGED own
  BY ZenonT(60) DEF Shared, add, flush, create_table, create_set, create_chain, create_rule_iif,
              create_rule_oif, add_elem, remove
<1>2. cipher' = cipher /\ link_mtu' = link_mtu
  BY ZenonT(60), <1>1 DEF own
<1>3. ASSUME NEW t \in Session PROVE mss(t)' = mss(t)
  BY <1>2, MssSame
<1> QED BY <1>1, <1>3

\* Only the holder of the mutex has a group half done.
LEMMA OnlyHolder ==
  ASSUME IInv, HalfDone, NEW s \in Session, lock \in {s, NoSession}, table_exists,
         NEW m \in Mss, ~kernel_created[m]
  PROVE  /\ <<"set", m>> \in nft => pc[s] \in {"Chain", "RuleIif", "RuleOif"} /\ mss(s) = m
         /\ <<"chain", m>> \in nft => pc[s] \in {"RuleIif", "RuleOif"} /\ mss(s) = m
<1>1. \A t \in Session : pc[t] \in Locked => t = s
  BY ZenonT(60), MutexHeld
<1>2. \A t \in Session : pc[t] \in {"Chain", "RuleIif", "RuleOif"} => t = s
  BY ZenonT(60), <1>1 DEF Locked
<1>3. \A t \in Session : pc[t] \in {"RuleIif", "RuleOif"} => t = s
  BY ZenonT(60), <1>1 DEF Locked
<1>4. <<"set", m>> \in nft => \E t \in Session : pc[t] \in {"Chain", "RuleIif", "RuleOif"} /\ mss(t) = m
  BY ZenonT(60) DEF HalfDone
<1>5. <<"chain", m>> \in nft => \E t \in Session : pc[t] \in {"RuleIif", "RuleOif"} /\ mss(t) = m
  BY ZenonT(60) DEF HalfDone
<1> QED BY ZenonT(60), <1>2, <1>3, <1>4, <1>5

\* A step inside add before the interface joins its set.
LEMMA BuildClean ==
  ASSUME IInv, Clean, NEW s \in Session, Shared(s), lock \in {s, NoSession},
         UNCHANGED <<handle, refcount>>, pc'[s] \notin {"Routes", "Up"}, pc'[s] = "Table" => nft' = {},
         \A m \in Mss, i \in Ifname :
            table_exists' /\ <<"elem", m, i>> \in nft' => table_exists /\ <<"elem", m, i>> \in nft,
         HalfDone'
  PROVE  Clean'
<1>1. ASSUME NEW t \in Session, t # s PROVE Same(t) /\ pc'[t] # "Table"
  <2>1. Same(t)
    BY ZenonT(60), <1>1, OthersKeep DEF IInv
  <2>2. pc[t] \notin Locked
    BY <1>1, MutexHeld
  <2> QED BY ZenonT(60), <2>1, <2>2 DEF Same, Locked
<1>2. handle' = handle /\ refcount' = refcount /\ \A t \in Session : mss(t)' = mss(t)
  BY SharedFrame
<1>3. ASSUME NEW t \in Session PROVE Clamped(t)'
  <2>1. CASE t # s
    BY ZenonT(60), <1>1, <2>1 DEF Clean, Clamped, Same
  <2>2. CASE t = s
    BY ZenonT(60), <2>2 DEF Clamped
  <2> QED BY <2>1, <2>2
<1>4. Elements'
  <2>1. ASSUME table_exists', NEW m \in Mss, NEW i \in Ifname, <<"elem", m, i>> \in nft'
        PROVE  \E t \in Session : handle'[t] = i /\ mss(t)' = m
    <3>1. table_exists /\ <<"elem", m, i>> \in nft
      BY ZenonT(60), <2>1
    <3>2. PICK t \in Session : handle[t] = i /\ mss(t) = m
      BY ZenonT(60), <3>1 DEF Clean, Elements
    <3> QED BY ZenonT(60), <1>2, <3>2
  <2> QED BY ZenonT(60), <2>1 DEF Elements
<1>5. ASSUME NEW m \in Mss PROVE Holders(m)' = Holders(m)
  BY ZenonT(60), <1>2 DEF Holders
<1>6. Counted'
  BY ZenonT(60), <1>2, <1>5 DEF Clean, Counted
<1> QED BY <1>3, <1>4, <1>6 DEF Clean

\* A transaction the kernel can take goes through.
LEMMA Acknowledged ==
  ASSUME IInv, NEW s \in Session, NEW q, NEW next, Transaction(s, q, next), Admissible(nft, q), faults' = 0
  PROVE  pc'[s] = next /\ lock' = lock /\ nft' = nft \cup {q.obj}
<1>1. PICK x \in Outcomes(nft, q) :
         /\ nft' = x.have /\ Count(x.lost)
         /\ IF x.acked THEN Goto(s, next) /\ UNCHANGED lock
                       ELSE Goto(s, "Routes") /\ lock' = NoSession
  BY DEF Transaction, exchange_batch
<1>2. ~x.lost
  BY ZenonT(60), <1>1, CountClean DEF IInv
<1>3. x.acked /\ x.have = nft \cup {q.obj}
  BY <1>2, OutcomeSure
<1>4. Goto(s, next) /\ lock' = lock
  BY <1>1, <1>3, Zenon
<1>5. pc'[s] = next
  BY ZenonT(60), <1>4 DEF Goto, IInv, OwnTypes
<1> QED BY <1>1, <1>3, <1>4, <1>5, Zenon

LEMMA AddClean ==
  ASSUME IInv, Clean, NEW s \in Session, add(s), faults' = 0
  PROVE  Clean'
<1>1. /\ UNCHANGED <<table_exists, kernel_created, refcount, nft, handle>>
      /\ lock = NoSession /\ pc[s] = "Clamp"
  BY ZenonT(60) DEF add, table
<1>2. ~Count(TRUE)
  BY ZenonT(60), CountClean DEF IInv
<1>3. pc'[s] \in {"Flush", "Elem", "Set"}
  BY ZenonT(60), <1>2 DEF add, Goto, IInv, OwnTypes
<1>4. HalfDone'
  <2>1. table_exists => \A m \in Mss : ~kernel_created[m] => <<"set", m>> \notin nft /\ <<"chain", m>> \notin nft
    BY ZenonT(60), <1>1, OnlyHolder DEF Clean
  <2> QED BY ZenonT(60), <1>1, <2>1 DEF HalfDone
<1> QED BY ZenonT(60), <1>1, <1>3, <1>4, BuildClean DEF Shared

LEMMA FlushClean ==
  ASSUME IInv, Clean, NEW s \in Session, flush(s), faults' = 0
  PROVE  Clean'
<1>1. /\ UNCHANGED <<table_exists, refcount, handle>>
      /\ pc[s] = "Flush" /\ pc'[s] = "Table"
  BY ZenonT(60) DEF flush, Goto, IInv, OwnTypes
<1>2. ~Count(TRUE)
  BY ZenonT(60), CountClean DEF IInv
<1>3. nft' = {}
  BY ZenonT(60), <1>2 DEF flush
<1>4. lock = s
  BY ZenonT(60), <1>1 DEF IInv, GroupInv, Locked
<1>5. HalfDone'
  BY <1>3 DEF HalfDone
<1> QED BY ZenonT(60), <1>1, <1>3, <1>4, <1>5, BuildClean DEF Shared

LEMMA TableClean ==
  ASSUME IInv, Clean, NEW s \in Session, create_table(s), faults' = 0
  PROVE  Clean'
<1>1. /\ UNCHANGED <<kernel_created, refcount, handle, cipher, link_mtu>>
      /\ pc[s] = "Table"
      /\ Transaction(s, build_create_table, IF kernel_created[mss(s)] THEN "Elem" ELSE "Set")
  BY ZenonT(60) DEF create_table, own
<1>2. lock = s
  BY ZenonT(60), <1>1 DEF IInv, GroupInv, Locked
<1>3. nft = {}
  BY ZenonT(60), <1>1 DEF Clean, Clamped
<1>4. Admissible(nft, build_create_table) /\ build_create_table.obj = <<"table">>
  BY <1>3 DEF Admissible, build_create_table
<1>5. /\ pc'[s] = (IF kernel_created[mss(s)] THEN "Elem" ELSE "Set")
      /\ nft' = nft \cup {<<"table">>}
  BY ZenonT(60), <1>1, <1>4, Acknowledged
<1>6. pc'[s] \in {"Elem", "Set"}
  BY <1>5, Zenon
<1>7. \A m, i : <<"set", m>> \notin nft' /\ <<"chain", m>> \notin nft' /\ <<"elem", m, i>> \notin nft'
  BY <1>3, <1>5
<1>8. HalfDone'
  BY ZenonT(60), <1>7 DEF HalfDone
<1> QED BY ZenonT(60), <1>1, <1>2, <1>6, <1>7, <1>8, BuildClean DEF Shared

LEMMA SetClean ==
  ASSUME IInv, Clean, NEW s \in Session, create_set(s), faults' = 0
  PROVE  Clean'
<1>1. /\ UNCHANGED <<table_exists, kernel_created, refcount, handle, cipher, link_mtu>>
      /\ pc[s] = "Set" /\ Transaction(s, build_create_set(mss(s)), "Chain")
  BY ZenonT(60) DEF create_set, own
<1>2. mss(s)' = mss(s) /\ mss(s) \in Mss
  BY ZenonT(60), <1>1, MssFacts
<1>3. lock = s /\ table_exists /\ ~kernel_created[mss(s)]
  BY ZenonT(60), <1>1 DEF IInv, GroupInv, Locked
<1>4. \A m \in Mss : ~kernel_created[m] => <<"set", m>> \notin nft /\ <<"chain", m>> \notin nft
  BY ZenonT(60), <1>1, <1>3, OnlyHolder DEF Clean
<1>5. Admissible(nft, build_create_set(mss(s))) /\ build_create_set(mss(s)).obj = <<"set", mss(s)>>
  <2>1. <<"table">> \in nft /\ <<"set", mss(s)>> \notin nft
    BY ZenonT(60), <1>2, <1>3, <1>4 DEF IInv, TableInv
  <2> QED BY <2>1 DEF Admissible, build_create_set
<1>6. pc'[s] = "Chain" /\ nft' = nft \cup {<<"set", mss(s)>>}
  BY ZenonT(60), <1>1, <1>5, Acknowledged
<1>7. HalfDone'
  <2>1. \A m \in Mss : ~kernel_created[m] => (<<"set", m>> \in nft' => m = mss(s)) /\ <<"chain", m>> \notin nft'
    BY <1>4, <1>6
  <2> QED BY ZenonT(60), <1>1, <1>2, <1>6, <2>1 DEF HalfDone
<1>8. \A m, i : <<"elem", m, i>> \in nft' => <<"elem", m, i>> \in nft
  BY <1>6
<1> QED BY ZenonT(60), <1>1, <1>3, <1>6, <1>7, <1>8, BuildClean DEF Shared

LEMMA ChainClean ==
  ASSUME IInv, Clean, NEW s \in Session, create_chain(s), faults' = 0
  PROVE  Clean'
<1>1. /\ UNCHANGED <<table_exists, kernel_created, refcount, handle, cipher, link_mtu>>
      /\ pc[s] = "Chain" /\ Transaction(s, build_create_chain(mss(s)), "RuleIif")
  BY ZenonT(60) DEF create_chain, own
<1>2. mss(s)' = mss(s) /\ mss(s) \in Mss
  BY ZenonT(60), <1>1, MssFacts
<1>3. lock = s /\ table_exists /\ ~kernel_created[mss(s)]
  BY ZenonT(60), <1>1 DEF IInv, GroupInv, Locked
<1>4. \A m \in Mss : ~kernel_created[m] => (<<"set", m>> \in nft => m = mss(s)) /\ <<"chain", m>> \notin nft
  BY ZenonT(60), <1>1, <1>3, OnlyHolder DEF Clean
<1>5. Admissible(nft, build_create_chain(mss(s))) /\ build_create_chain(mss(s)).obj = <<"chain", mss(s)>>
  <2>1. <<"table">> \in nft /\ <<"chain", mss(s)>> \notin nft
    BY ZenonT(60), <1>2, <1>3, <1>4 DEF IInv, TableInv
  <2> QED BY <2>1 DEF Admissible, build_create_chain
<1>6. pc'[s] = "RuleIif" /\ nft' = nft \cup {<<"chain", mss(s)>>}
  BY ZenonT(60), <1>1, <1>5, Acknowledged
<1>7. HalfDone'
  <2>1. \A m \in Mss : ~kernel_created[m] => (<<"set", m>> \in nft' \/ <<"chain", m>> \in nft' => m = mss(s))
    BY <1>4, <1>6
  <2> QED BY ZenonT(60), <1>1, <1>2, <1>6, <2>1 DEF HalfDone
<1>8. \A m, i : <<"elem", m, i>> \in nft' => <<"elem", m, i>> \in nft
  BY <1>6
<1> QED BY ZenonT(60), <1>1, <1>3, <1>6, <1>7, <1>8, BuildClean DEF Shared

LEMMA RuleIifClean ==
  ASSUME IInv, Clean, NEW s \in Session, create_rule_iif(s), faults' = 0
  PROVE  Clean'
<1>1. /\ UNCHANGED <<table_exists, kernel_created, refcount, handle, cipher, link_mtu>>
      /\ pc[s] = "RuleIif" /\ Transaction(s, build_rule(mss(s), "iif"), "RuleOif")
  BY ZenonT(60) DEF create_rule_iif, own
<1>2. mss(s)' = mss(s) /\ mss(s) \in Mss
  BY ZenonT(60), <1>1, MssFacts
<1>3. lock = s /\ table_exists /\ <<"set", mss(s)>> \in nft /\ <<"chain", mss(s)>> \in nft
  BY ZenonT(60), <1>1 DEF IInv, GroupInv, Locked
<1>4. \A m \in Mss : ~kernel_created[m] => (<<"set", m>> \in nft \/ <<"chain", m>> \in nft => m = mss(s))
  BY ZenonT(60), <1>1, <1>3, OnlyHolder DEF Clean
<1>5. Admissible(nft, build_rule(mss(s), "iif")) /\ build_rule(mss(s), "iif").obj = <<"rule", mss(s), "iif">>
  BY ZenonT(60), <1>3 DEF Admissible, build_rule
<1>6. pc'[s] = "RuleOif" /\ nft' = nft \cup {<<"rule", mss(s), "iif">>}
  BY ZenonT(60), <1>1, <1>5, Acknowledged
<1>7. HalfDone'
  <2>1. \A m \in Mss : ~kernel_created[m] => (<<"set", m>> \in nft' \/ <<"chain", m>> \in nft' => m = mss(s))
    BY <1>4, <1>6
  <2> QED BY ZenonT(60), <1>1, <1>2, <1>6, <2>1 DEF HalfDone
<1>8. \A m, i : <<"elem", m, i>> \in nft' => <<"elem", m, i>> \in nft
  BY <1>6
<1> QED BY ZenonT(60), <1>1, <1>3, <1>6, <1>7, <1>8, BuildClean DEF Shared

LEMMA RuleOifClean ==
  ASSUME IInv, Clean, NEW s \in Session, create_rule_oif(s), faults' = 0
  PROVE  Clean'
<1>1. /\ UNCHANGED <<table_exists, refcount, handle, cipher, link_mtu>>
      /\ kernel_created' = [kernel_created EXCEPT ![mss(s)] = (lock' = s)]
      /\ pc[s] = "RuleOif" /\ Transaction(s, build_rule(mss(s), "oif"), "Elem")
  BY ZenonT(60) DEF create_rule_oif, own
<1>2. mss(s)' = mss(s) /\ mss(s) \in Mss
  BY ZenonT(60), <1>1, MssFacts
<1>3. lock = s /\ table_exists /\ <<"set", mss(s)>> \in nft /\ <<"chain", mss(s)>> \in nft
  BY ZenonT(60), <1>1 DEF IInv, GroupInv, Locked
<1>4. \A m \in Mss : ~kernel_created[m] => (<<"set", m>> \in nft \/ <<"chain", m>> \in nft => m = mss(s))
  BY ZenonT(60), <1>1, <1>3, OnlyHolder DEF Clean
<1>5. Admissible(nft, build_rule(mss(s), "oif")) /\ build_rule(mss(s), "oif").obj = <<"rule", mss(s), "oif">>
  BY ZenonT(60), <1>3 DEF Admissible, build_rule
<1>6. pc'[s] = "Elem" /\ lock' = lock /\ nft' = nft \cup {<<"rule", mss(s), "oif">>}
  BY ZenonT(60), <1>1, <1>5, Acknowledged
<1>7. HalfDone'
  <2>1. kernel_created'[mss(s)] = TRUE /\ \A m \in Mss \ {mss(s)} : kernel_created'[m] = kernel_created[m]
    <3>1. (lock' = s) = TRUE
      BY <1>3, <1>6, Zenon
    <3>2. kernel_created' = [kernel_created EXCEPT ![mss(s)] = TRUE]
      BY <1>1, <3>1, Zenon
    <3> QED BY <1>2, <3>2 DEF IInv, TableTypes
  <2>2. \A m \in Mss : ~kernel_created'[m] => <<"set", m>> \notin nft' /\ <<"chain", m>> \notin nft'
    BY ZenonT(60), <1>4, <1>6, <2>1
  <2> QED BY ZenonT(60), <2>2 DEF HalfDone
<1>8. \A m, i : <<"elem", m, i>> \in nft' => <<"elem", m, i>> \in nft
  BY <1>6
<1> QED BY ZenonT(60), <1>1, <1>3, <1>6, <1>7, <1>8, BuildClean DEF Shared

\* An interface joins its set and its session is counted.
LEMMA ElemClean ==
  ASSUME IInv, Clean, NEW s \in Session, add_elem(s), faults' = 0
  PROVE  Clean'
<1> DEFINE elem == <<"elem", mss(s), dev[s]>>
           q == build_add_elem(mss(s), dev[s])
<1>1. /\ UNCHANGED <<table_exists, kernel_created, cipher, link_mtu, dev>>
      /\ pc[s] = "Elem" /\ pc'[s] = "Routes"
  BY ZenonT(60) DEF add_elem, own, Goto, IInv, OwnTypes
<1>2. PICK x \in Outcomes(nft, q) :
         /\ nft' = x.have /\ Count(x.lost)
         /\ handle' = [handle EXCEPT ![s] = IF x.acked THEN dev[s] ELSE NoDev]
         /\ refcount' = [refcount EXCEPT ![mss(s)] = IF x.acked THEN @ + 1 ELSE @]
  BY ZenonT(60) DEF add_elem, exchange_batch
<1>3. mss(s) \in Mss /\ \A t \in Session : mss(t)' = mss(t)
  <2>1. mss(s) \in Mss
    BY ZenonT(60), <1>1, MssFacts
  <2> QED BY <2>1, SharedFrame DEF Shared
<1>4. lock = s /\ kernel_created[mss(s)]
  BY ZenonT(60), <1>1 DEF IInv, GroupInv, Locked
<1>5. <<"set", mss(s)>> \in nft
  <2>1. Group(mss(s)) \subseteq nft
    BY ZenonT(60), <1>3, <1>4 DEF IInv, TableInv
  <2> QED BY <2>1 DEF Group
<1>6. Admissible(nft, q) /\ q.obj = elem
  BY ZenonT(60), <1>5 DEF Admissible, build_add_elem
<1>7. ~x.lost
  BY <1>2, CountClean DEF IInv
<1>8. x.acked /\ x.have = nft \cup {q.obj}
  <2> HIDE DEF q
  <2> QED BY ZenonT(60), <1>6, <1>7, OutcomeSure
<1>9. /\ nft' = nft \cup {elem} /\ handle' = [handle EXCEPT ![s] = dev[s]]
      /\ refcount' = [refcount EXCEPT ![mss(s)] = refcount[mss(s)] + 1]
  <2> HIDE DEF elem, q
  <2> QED BY <1>2, <1>6, <1>8, Zenon
<1>10. handle[s] = NoDev /\ dev[s] # NoDev
  <2>1. handle[s] = NoDev
    BY <1>1, NoHandle DEF Held
  <2>2. StageInv(s) /\ pc[s] \in Late
    BY ZenonT(60), <1>1 DEF IInv, Late, Locked
  <2> QED BY ZenonT(60), <2>1, <2>2 DEF StageInv
<1>11. handle'[s] = dev[s] /\ \A t \in Session \ {s} : handle'[t] = handle[t]
  BY ZenonT(60), <1>9 DEF IInv, OwnTypes
<1>12. ASSUME NEW t \in Session, t # s PROVE Same(t) /\ pc[t] \notin Locked
  BY ZenonT(60), <1>4, <1>12, OthersKeep, MutexHeld DEF IInv, Shared
<1>13. ASSUME NEW t \in Session PROVE Clamped(t)'
  <2>1. CASE t # s
    BY ZenonT(60), <1>12, <2>1 DEF Clean, Clamped, Same, Locked
  <2>2. CASE t = s
    BY ZenonT(60), <1>1, <1>11, <2>2 DEF Clamped
  <2> QED BY <2>1, <2>2
<1>14. HalfDone'
  <2>1. table_exists => \A m \in Mss : ~kernel_created[m] => <<"set", m>> \notin nft /\ <<"chain", m>> \notin nft
    BY ZenonT(60), <1>1, <1>4, OnlyHolder DEF Clean
  <2>2. \A m : (<<"set", m>> \in nft' => <<"set", m>> \in nft) /\ (<<"chain", m>> \in nft' => <<"chain", m>> \in nft)
    BY <1>9
  <2> QED BY ZenonT(60), <1>1, <2>1, <2>2 DEF HalfDone
<1>15. Elements'
  <2>1. ASSUME table_exists', NEW m \in Mss, NEW i \in Ifname, <<"elem", m, i>> \in nft'
        PROVE  \E t \in Session : handle'[t] = i /\ mss(t)' = m
    <3>1. CASE <<"elem", m, i>> = elem
      <4>1. m = mss(s) /\ i = dev[s]
        BY <3>1
      <4> QED BY ZenonT(60), <1>3, <1>11, <4>1
    <3>2. CASE <<"elem", m, i>> # elem
      <4>1. table_exists /\ <<"elem", m, i>> \in nft
        BY ZenonT(60), <1>1, <1>9, <2>1, <3>2
      <4>2. PICK t \in Session : handle[t] = i /\ mss(t) = m
        BY ZenonT(60), <4>1 DEF Clean, Elements
      <4>3. t # s
        BY ZenonT(60), <1>10, <4>2, NotIfname
      <4> QED BY ZenonT(60), <1>3, <1>11, <4>2, <4>3
    <3> QED BY ZenonT(60), <3>1, <3>2
  <2> QED BY ZenonT(60), <2>1 DEF Elements
<1>16. ASSUME NEW m \in Mss PROVE ExistsBijection(1..refcount'[m], Holders(m)')
  <2>1. s \notin Holders(m) /\ ExistsBijection(1..refcount[m], Holders(m)) /\ refcount[m] \in Nat
    BY ZenonT(60), <1>10 DEF Holders, Clean, Counted, IInv, TableTypes
  <2>2. CASE m = mss(s)
    <3>1. Holders(m)' = Holders(m) \cup {s}
      BY ZenonT(60), <1>3, <1>10, <1>11, <2>2 DEF Holders
    <3>2. refcount'[m] = refcount[m] + 1
      BY <1>3, <1>9, <2>2 DEF IInv, TableTypes
    <3>3. ExistsBijection(1..(refcount[m] + 1), Holders(m) \cup {s})
      BY ZenonT(60), <2>1, OneMore
    <3> QED BY ZenonT(60), <3>1, <3>2, <3>3
  <2>3. CASE m # mss(s)
    <3>1. Holders(m)' = Holders(m)
      BY ZenonT(60), <1>3, <1>10, <1>11, <2>3 DEF Holders
    <3>2. refcount'[m] = refcount[m]
      BY <1>3, <1>9, <2>3 DEF IInv, TableTypes
    <3> QED BY ZenonT(60), <2>1, <3>1, <3>2
  <2> QED BY <2>2, <2>3
<1>17. Counted'
  BY ZenonT(60), <1>16 DEF Counted
<1> QED BY <1>13, <1>14, <1>15, <1>17 DEF Clean

\* A handle's drop takes its interface out of the set and is counted.
LEMMA RemoveClean ==
  ASSUME IInv, Clean, NEW s \in Session, remove(s), faults' = 0
  PROVE  Clean'
<1> DEFINE elem == <<"elem", mss(s), handle[s]>>
<1>1. /\ UNCHANGED <<table_exists, kernel_created, cipher, link_mtu>>
      /\ pc[s] = "Unclamp" /\ pc'[s] = "Close"
  BY ZenonT(60) DEF remove, own, Goto, IInv, OwnTypes
<1>2. ~Count(TRUE)
  BY ZenonT(60), CountClean DEF IInv
<1>3. \/ handle[s] = NoDev /\ UNCHANGED <<handle, refcount, nft>>
      \/ /\ handle[s] # NoDev /\ handle' = [handle EXCEPT ![s] = NoDev] /\ nft' = nft \ {elem}
         /\ refcount' = [refcount EXCEPT ![mss(s)] = IF @ = 0 THEN 0 ELSE @ - 1]
  BY ZenonT(60), <1>2 DEF remove
<1>4. mss(s) \in Mss /\ \A t \in Session : mss(t)' = mss(t)
  <2>1. mss(s) \in Mss
    BY ZenonT(60), <1>1, MssFacts
  <2> QED BY <2>1, SharedFrame DEF Shared
<1>5. handle'[s] = NoDev /\ nft' \subseteq nft /\ \A t \in Session \ {s} : handle'[t] = handle[t]
  BY ZenonT(60), <1>3 DEF IInv, OwnTypes
<1>6. ASSUME NEW t \in Session, t # s PROVE Same(t)
  BY <1>6, OthersKeep DEF IInv, Shared
<1>7. ASSUME NEW t \in Session PROVE Clamped(t)'
  <2>1. CASE t # s
    BY ZenonT(60), <1>5, <1>6, <2>1 DEF Clean, Clamped, Same
  <2>2. CASE t = s
    BY ZenonT(60), <1>1, <2>2 DEF Clamped
  <2> QED BY <2>1, <2>2
<1>8. HalfDone'
  <2>1. \A t \in Session, m \in Mss : pc[t] \in {"Chain", "RuleIif", "RuleOif"} /\ mss(t) = m
           => pc'[t] = pc[t] /\ mss(t)' = m
    BY ZenonT(60), <1>1, <1>4, <1>6 DEF Same
  <2>2. \A o : o \in nft' => o \in nft
    BY <1>5
  <2> QED BY ZenonT(60), <1>1, <2>1, <2>2 DEF Clean, HalfDone
<1>9. Elements'
  <2>1. ASSUME table_exists', NEW m \in Mss, NEW i \in Ifname, <<"elem", m, i>> \in nft'
        PROVE  \E t \in Session : handle'[t] = i /\ mss(t)' = m
    <3>1. PICK t \in Session : handle[t] = i /\ mss(t) = m
      BY ZenonT(60), <1>1, <1>5, <2>1 DEF Clean, Elements
    <3>2. t # s
      BY ZenonT(60), <1>3, <2>1, <3>1, NotIfname
    <3> QED BY ZenonT(60), <1>4, <1>5, <3>1, <3>2
  <2> QED BY ZenonT(60), <2>1 DEF Elements
<1>10. ASSUME NEW m \in Mss PROVE ExistsBijection(1..refcount'[m], Holders(m)')
  <2>1. ExistsBijection(1..refcount[m], Holders(m)) /\ refcount[m] \in Nat
    BY DEF Clean, Counted, IInv, TableTypes
  <2>2. CASE handle[s] # NoDev /\ m = mss(s)
    <3>1. Holders(m)' = Holders(m) \ {s} /\ s \in Holders(m)
      BY ZenonT(60), <1>4, <1>5, <2>2 DEF Holders
    <3>2. refcount[m] # 0 /\ ExistsBijection(1..(refcount[m] - 1), Holders(m) \ {s})
      BY ZenonT(60), <2>1, <3>1, OneLess
    <3>3. refcount' = [refcount EXCEPT ![m] = refcount[m] - 1]
      BY ZenonT(60), <1>3, <2>2, <3>2
    <3>4. refcount'[m] = refcount[m] - 1
      BY <3>3 DEF IInv, TableTypes
    <3> QED BY <3>1, <3>2, <3>4, Zenon
  <2>3. CASE handle[s] = NoDev \/ m # mss(s)
    <3>1. Holders(m)' = Holders(m)
      BY ZenonT(60), <1>4, <1>5, <2>3 DEF Holders
    <3>2. refcount'[m] = refcount[m]
      BY <1>3, <1>4, <2>3 DEF IInv, TableTypes
    <3> QED BY ZenonT(60), <2>1, <3>1, <3>2
  <2> QED BY ZenonT(60), <2>2, <2>3
<1>11. Counted'
  BY ZenonT(60), <1>10 DEF Counted
<1> QED BY <1>7, <1>8, <1>9, <1>11 DEF Clean

LEMMA SharedClean ==
  ASSUME IInv, Clean, NEW s \in Session, Shared(s), faults' = 0
  PROVE  Clean'
  BY ZenonT(60), AddClean, FlushClean, TableClean, SetClean, ChainClean, RuleIifClean, RuleOifClean, ElemClean, RemoveClean
     DEF Shared

\* What every stage has established, and while no exchange has failed the shared table too.
FInv == (\A s \in Session : ConfInv(s)) /\ (faults = 0 => Clean)

LEMMA FaultFreeInit ==
  ASSUME Init
  PROVE  FInv
<1>1. ASSUME NEW s \in Session PROVE ConfInv(s) /\ Clamped(s)
  BY ZenonT(60) DEF Init, ConfInv, Clamped, Locked
<1>2. HalfDone /\ Elements
  BY DEF Init, HalfDone, Elements
<1>3. ASSUME NEW m \in Mss PROVE ExistsBijection(1..refcount[m], Holders(m))
  <2>1. Holders(m) = {}
    BY DEF Init, Holders
  <2>2. refcount[m] = 0
    BY DEF Init
  <2> QED BY <2>1, <2>2, NoneYet, Zenon
<1> QED BY ZenonT(60), <1>1, <1>2, <1>3 DEF FInv, Clean, Counted

\* A process that starts, after a crash or after the last session left, has no session.
LEMMA RestartKeeps ==
  ASSUME IInv, FInv, destroy \/ crash
  PROVE  FInv'
<1>1. /\ table_exists' = FALSE /\ refcount' = [m \in Mss |-> 0]
      /\ \A s \in Session : pc'[s] = "Idle" /\ handle'[s] = NoDev /\ conf'[s] = {}
  <2>1. CASE destroy
    <3>1. /\ table_exists' = FALSE /\ refcount' = [m \in Mss |-> 0]
          /\ pc' = pc /\ handle' = handle /\ conf' = conf
          /\ \A s \in Session : pc[s] = "Idle"
      BY ZenonT(60), <2>1 DEF destroy, own
    <3>2. ASSUME NEW s \in Session PROVE handle[s] = NoDev /\ conf[s] = {}
      <4>1. pc[s] = "Idle"
        BY <3>1
      <4> QED BY ZenonT(60), <4>1, NoHandle DEF Held, FInv, ConfInv
    <3> QED BY <3>1, <3>2
  <2>2. CASE crash
    BY ZenonT(60), <2>2 DEF crash
  <2> QED BY ZenonT(60), <2>1, <2>2
<1>2. ASSUME NEW s \in Session PROVE ConfInv(s)' /\ Clamped(s)'
  BY ZenonT(60), <1>1 DEF ConfInv, Clamped, Locked
<1>3. HalfDone' /\ Elements'
  BY ZenonT(60), <1>1 DEF HalfDone, Elements
<1>4. ASSUME NEW m \in Mss PROVE ExistsBijection(1..refcount'[m], Holders(m)')
  <2>1. Holders(m)' = {}
    BY ZenonT(60), <1>1 DEF Holders
  <2>2. refcount'[m] = 0
    BY <1>1
  <2> QED BY <2>1, <2>2, NoneYet, Zenon
<1> QED BY ZenonT(60), <1>2, <1>3, <1>4 DEF FInv, Clean, Counted

LEMMA SessionKeepsFInv ==
  ASSUME IInv, FInv, NEW s \in Session, Private(s) \/ Shared(s)
  PROVE  FInv'
<1>1. faults' = 0 => faults = 0
  BY FaultsKept
<1>2. ASSUME NEW t \in Session PROVE ConfInv(t)'
  <2>1. CASE t = s
    BY ZenonT(60), <2>1, ConfKept DEF FInv
  <2>2. CASE t # s
    <3>1. Same(t) /\ ConfInv(t)
      BY <2>2, OthersKeep DEF IInv, FInv
    <3> QED BY ZenonT(60), <1>1, <3>1 DEF ConfInv, Same
  <2> QED BY <2>1, <2>2
<1>3. faults' = 0 => Clean'
  BY ZenonT(60), <1>1, PrivateClean, SharedClean DEF FInv
<1> QED BY <1>2, <1>3 DEF FInv

\* The inductive invariant of CompleteUnlessFault, on top of IInv.
THEOREM FaultFree == Spec => []FInv
<1>1. Init => FInv
  BY FaultFreeInit
<1>2. IInv /\ FInv /\ [Next]_vars => FInv'
  <2> SUFFICES ASSUME IInv, FInv, [Next]_vars PROVE FInv'
    OBVIOUS
  <2>1. CASE destroy \/ crash
    BY <2>1, RestartKeeps
  <2>2. ASSUME NEW s \in Session, Private(s) \/ Shared(s) PROVE FInv'
    BY <2>2, SessionKeepsFInv
  <2>3. CASE UNCHANGED vars
    <3>1. UNCHANGED <<pc, cipher, link_mtu, policy, dev, conf, handle, table_exists, kernel_created, refcount,
                      nft, faults>>
      BY ZenonT(60), <2>3 DEF vars, own, table
    <3>2. ASSUME NEW s \in Session PROVE mss(s)' = mss(s)
      BY ZenonT(60), <3>1, MssSame
    <3>3. ASSUME NEW s \in Session PROVE (ConfInv(s) => ConfInv(s)') /\ (Clamped(s) => Clamped(s)')
      BY ZenonT(60), <3>1 DEF ConfInv, Clamped
    <3>4. HalfDone => HalfDone'
      <4>1. pc' = pc /\ kernel_created' = kernel_created /\ nft' = nft /\ table_exists' = table_exists
        BY <3>1
      <4> QED BY ZenonT(60), <3>2, <4>1 DEF HalfDone
    <3>8. Elements => Elements'
      <4>1. handle' = handle /\ nft' = nft /\ table_exists' = table_exists
        BY <3>1
      <4>2. ASSUME Elements, table_exists, NEW m \in Mss, NEW i \in Ifname, <<"elem", m, i>> \in nft
            PROVE  \E t \in Session : handle'[t] = i /\ mss(t)' = m
        <5>1. PICK t \in Session : handle[t] = i /\ mss(t) = m
          BY ZenonT(60), <4>2 DEF Elements
        <5> QED BY ZenonT(60), <3>2, <4>1, <5>1
      <4>3. HAVE Elements
      <4>4. SUFFICES ASSUME table_exists', NEW m \in Mss, NEW i \in Ifname, <<"elem", m, i>> \in nft'
                     PROVE  \E t \in Session : handle'[t] = i /\ mss(t)' = m
        BY ZenonT(60) DEF Elements
      <4> QED BY ZenonT(60), <4>1, <4>2, <4>3, <4>4
    <3>5. ASSUME NEW m \in Mss PROVE Holders(m)' = Holders(m)
      BY ZenonT(60), <3>1, <3>2 DEF Holders
    <3>6. Counted => Counted'
      BY ZenonT(60), <3>1, <3>5 DEF Counted
    <3>7. faults' = faults
      BY <3>1
    <3> QED BY ZenonT(60), <3>3, <3>4, <3>6, <3>7, <3>8 DEF FInv, Clean
  <2> QED BY <2>1, <2>2, <2>3, Groups
<1> QED BY <1>1, <1>2, Invariance, PTL DEF Spec

\* While every exchange with the kernel has succeeded, a session that is up has all its
\* profile asks for, and SharedMssTable and the kernel agree on who is clamped.
THEOREM SessionsComplete == Spec => []CompleteUnlessFault
<1>1. IInv /\ FInv => CompleteUnlessFault
  <2> SUFFICES ASSUME IInv, FInv, faults = 0 PROVE CompleteUnlessFault
    BY ZenonT(60) DEF CompleteUnlessFault
  <2>1. Clean
    BY DEF FInv
  <2>2. ASSUME NEW s \in Session, pc[s] = "Up"
        PROVE  /\ handle[s] = dev[s]
               /\ conf[s] = {"mtu", "addr", "up"} \cup (policy[s] \cap {"route"})
                            \cup {program(policy[s])[i].obj : i \in 1..Len(program(policy[s]))}
    <3>1. handle[s] = dev[s]
      BY ZenonT(60), <2>1, <2>2 DEF Clean, Clamped
    <3>2. conf[s] = BroughtUp \cup Shaping(policy[s]) \cup (policy[s] \cap {"route"})
      BY ZenonT(60), <2>2 DEF FInv, ConfInv
    <3>3. BroughtUp \cup Shaping(policy[s]) \cup (policy[s] \cap {"route"})
          = {"mtu", "addr", "up"} \cup (policy[s] \cap {"route"}) \cup Shaping(policy[s])
      BY DEF BroughtUp
    <3> QED BY <3>1, <3>2, <3>3, Zenon DEF Shaping
  <2> DEFINE elems == {<<"elem", mss(s), handle[s]>> : s \in {t \in Session : handle[t] # NoDev}}
  <2>3. ASSUME table_exists PROVE {o \in nft : o[1] = "elem"} = elems
    <3>1. ASSUME NEW o \in nft, o[1] = "elem" PROVE o \in elems
      <4>1. PICK m \in Mss, i \in Ifname : o \in Object(m, i)
        BY DEF IInv, TableTypes, AllObjects
      <4>2. o = <<"elem", m, i>>
        BY <3>1, <4>1 DEF Object
      <4>3. PICK s \in Session : handle[s] = i /\ mss(s) = m
        BY ZenonT(60), <2>1, <2>3, <4>2 DEF Clean, Elements
      <4> QED BY ZenonT(60), <4>2, <4>3, NotIfname
    <3>2. ASSUME NEW s \in Session, handle[s] # NoDev
          PROVE  <<"elem", mss(s), handle[s]>> \in nft
      BY ZenonT(60), <3>2 DEF IInv, GroupInv
    <3>3. ASSUME NEW o \in elems PROVE o \in nft /\ o[1] = "elem"
      <4>1. PICK s \in Session : handle[s] # NoDev /\ o = <<"elem", mss(s), handle[s]>>
        OBVIOUS
      <4> QED BY ZenonT(60), <3>2, <4>1
    <3> QED BY ZenonT(60), <3>1, <3>3
  <2>4. ASSUME NEW m \in Mss PROVE Counts(refcount[m], {s \in Session : handle[s] # NoDev /\ mss(s) = m})
    <3>1. refcount[m] \in Nat
      BY DEF IInv, TableTypes
    <3> QED BY ZenonT(60), <2>1, <3>1 DEF Counts, Clean, Counted, Holders
  <2> QED BY ZenonT(60), <2>2, <2>3, <2>4 DEF CompleteUnlessFault
<1> QED BY <1>1, Invariance, FaultFree, PTL
=============================================================================

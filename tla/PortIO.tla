------------------------------- MODULE PortIO -------------------------------
(***************************************************************************)
(* Frame I/O on the raw sockets of one hardware per interface             *)
(* (interfaces.c): iface_eth_send/recv, iface_bond_send/recv, the raw     *)
(* sockets iface_bond_init opens, and the effect of a scan on them        *)
(* (the create/refresh paths of lldpd_ifh_bond and lldpd_ifh_eth, and     *)
(* the close callback lldpd_cleanup calls).  The kernel is part of the    *)
(* state: which master each interface is enslaved to, each slave's        *)
(* ifs.state, and the receive queue of every socket.                      *)
(***************************************************************************)
EXTENDS Naturals, Sequences, FiniteSets, Filter

CONSTANTS
    Slaves,        \* physical interfaces that may be enslaved
    Masters,       \* bond devices
    NoMaster,      \* the master of a free interface
    Frames,        \* neighbour frames, each arrives once on one interface
    Own,           \* a frame lldpd itself wrote, looped back by the kernel
    Content,       \* the Ethernet header of each frame
    Kernel,        \* how the kernel hands a slave's frame to packet sockets
    SocketQueue,   \* receive queue length at which loopback copies drop
    MaxChanges     \* bound on enslave/release/move operations

(* Kernel delivery, as the comments of iface_bond_init and iface_bond_recv *)
(* describe it: "bond_only", a slave's frame reaches only sockets on the   *)
(* master, with sll_ifindex the master; "origdev", the same with           *)
(* PACKET_ORIGDEV giving the slave's ifindex; "both", the frame reaches    *)
(* sockets on the slave and, with the slave's ifindex, on the master.      *)
ASSUME Kernel \in {"bond_only", "origdev", "both"}
ASSUME NoMaster \notin Masters /\ Own \notin Frames
ASSUME Content \in [Frames \cup {Own} -> Pkt]

VARIABLES
    master,     \* kernel: the bond each interface is enslaved to
    state,      \* kernel: ifs.state of a slave (BOND_STATE_ACTIVE = 0, BACKUP = 1)
    changes,    \* administrator reconfigurations so far
    hw,         \* the hardware of each interface
    q,          \* receive queue of each socket, by interface and role
    wire,       \* the source MAC of the frames bond hardware wrote, with the slave's state
    arrived,    \* <<frame, interface>>: where each neighbour frame arrived
    owed,       \* <<frame, interface>>: arrived while a hardware listens there
    delivered   \* how often iface_*_recv returned each frame (2: twice or more)

vars == <<master, state, changes, hw, q, wire, arrived, owed, delivered>>

Iface == Slaves \cup Masters
Roles == {"phys", "mst"}      \* h_sendfd and the socket on the master
Frame == [id : Frames \cup {Own}, ifindex : Iface, outgoing : BOOLEAN]
Hardware == [open : BOOLEAN, ops : {"eth", "bond"}, data : Masters \cup {NoMaster},
             bound : [Roles -> Iface], recvfds : SUBSET Roles]
Closed == [open |-> FALSE, ops |-> "eth", data |-> NoMaster,
           bound |-> [r \in Roles |-> CHOOSE i \in Slaves : TRUE], recvfds |-> {}]

TypeOK ==
    /\ master \in [Slaves -> Masters \cup {NoMaster}]
    /\ state \in [Slaves -> {0, 1}]
    /\ changes \in 0..MaxChanges
    /\ hw \in [Slaves -> Hardware]
    /\ \A s \in Slaves : hw[s].open /\ hw[s].ops = "bond" => hw[s].data \in Masters
    /\ q \in [Slaves \X Roles -> Seq(Frame)]
    /\ wire \subseteq [zeroed : BOOLEAN, active : BOOLEAN]
    /\ arrived \subseteq Frames \X Slaves
    /\ owed \subseteq Frames \X Slaves
    /\ delivered \in [Slaves -> [Frames \cup {Own} -> 0..2]]

-----------------------------------------------------------------------------
(* The kernel side. *)

\* iface_set_filter attaches lldpd_filter_f to every socket eth and bond
\* hardware open (and the monitor to the socket it opens); the kernel runs
\* it on each frame before queueing it.  Computed once per frame.
Passes == [f \in Frames \cup {Own} |-> Accepts(LldpdFilterF, Content[f])]

\* iface_is_bond_slave(cfg, slave, m, &active): SIOCBONDINFOQUERY on m
\* lists slave.
IsBondSlave(s, m) == m # NoMaster /\ master[s] = m

\* The open sockets bound to interface i.
SocketsOn(i) == {<<s, r>> \in Slaves \X Roles :
                    hw[s].open /\ r \in hw[s].recvfds /\ hw[s].bound[r] = i}

\* The copies the kernel queues for a frame received on interface s:
\* socket -> sll_ifindex.
Copies(s) ==
    LET m == master[s]
        onSlave == IF m = NoMaster \/ Kernel = "both" THEN SocketsOn(s) ELSE {}
        onMaster == IF m = NoMaster THEN {} ELSE SocketsOn(m)
        idx == IF Kernel = "bond_only" THEN m ELSE s
    IN [k \in onSlave \cup onMaster |-> IF k \in onSlave THEN s ELSE idx]

\* A neighbour frame f arrives on interface s.
Arrive(f, s) ==
    /\ \A a \in arrived : a[1] # f
    /\ LET c == IF Passes[f] THEN Copies(s) ELSE <<>> IN
       q' = [k \in DOMAIN q |-> IF k \in DOMAIN c
                                THEN Append(q[k], [id |-> f, ifindex |-> c[k], outgoing |-> FALSE])
                                ELSE q[k]]
    /\ arrived' = arrived \cup {<<f, s>>}
    /\ owed' = IF hw[s].open /\ Passes[f] THEN owed \cup {<<f, s>>} ELSE owed
    /\ UNCHANGED <<master, state, changes, hw, wire, delivered>>

\* The administrator enslaves, releases or moves s; the bonding driver
\* gives it a state.
Reconfigure(s, m, st) ==
    /\ changes < MaxChanges
    /\ m # master[s]
    /\ master' = [master EXCEPT ![s] = m]
    /\ state' = [state EXCEPT ![s] = st]
    /\ changes' = changes + 1
    /\ UNCHANGED <<hw, q, wire, arrived, owed, delivered>>

\* Failover in the bond: the slave changes between active and backup.
Failover(s) ==
    /\ master[s] # NoMaster
    /\ state' = [state EXCEPT ![s] = 1 - @]
    /\ UNCHANGED <<master, changes, hw, q, wire, arrived, owed, delivered>>

-----------------------------------------------------------------------------
(* The lldpd side: the hardware ops and the scan's effect on one interface. *)

\* write(h_sendfd, buffer, size) on s; the kernel loops a copy back, as
\* PACKET_OUTGOING, to the sockets bound to s whose filter passes it,
\* dropping it on a full queue.
Write(s, zeroed, bond) ==
    /\ wire' = IF bond THEN wire \cup {[zeroed |-> zeroed, active |-> state[s] = 0]}
                       ELSE wire
    /\ q' = [k \in DOMAIN q |->
               IF k \in SocketsOn(s) /\ Passes[Own] /\ Len(q[k]) < SocketQueue
               THEN Append(q[k], [id |-> Own, ifindex |-> s, outgoing |-> TRUE])
               ELSE q[k]]

\* iface_eth_send.
EthSend(s) ==
    /\ hw[s].open /\ hw[s].ops = "eth"
    /\ Write(s, FALSE, FALSE)
    /\ UNCHANGED <<master, state, changes, hw, arrived, owed, delivered>>

\* iface_bond_send: return 0 when iface_is_bond_slave(h_ifname, h_data)
\* fails; otherwise zero the source MAC when "active", which is ifs.state,
\* and write.  (A frame lldpd builds is never shorter than 2 * ETH_ALEN.)
BondSend(s) ==
    /\ hw[s].open /\ hw[s].ops = "bond"
    /\ IF IsBondSlave(s, hw[s].data)
       THEN Write(s, state[s] # 0, TRUE)
       ELSE UNCHANGED <<wire, q>>
    /\ UNCHANGED <<master, state, changes, hw, arrived, owed, delivered>>

\* Mutant of BondAccepts: the sll_ifindex tests left out.
BondAcceptsAnyIfindex(s, r, fr) == ~fr.outgoing

\* The accept tests of iface_eth_recv and iface_bond_recv for frame fr read
\* from socket r of s's hardware.
EthAccepts(s, r, fr) == ~fr.outgoing
BondAccepts(s, r, fr) ==
    /\ ~fr.outgoing
    /\ \/ r = "phys"                      \* fd == hardware->h_sendfd
       \/ fr.ifindex = s                   \* sll_ifindex is the slave
       \/ fr.ifindex = hw[s].data          \* or the master h_data names

\* The event loop finds socket r readable and calls h_ops->recv; a frame
\* the call returns is handed on to the protocol decoder.
Receive(s, r, accepts) ==
    /\ hw[s].open /\ r \in hw[s].recvfds /\ q[<<s, r>>] # <<>>
    /\ LET fr == Head(q[<<s, r>>]) IN
       /\ q' = [q EXCEPT ![<<s, r>>] = Tail(@)]
       /\ IF accepts
          THEN /\ delivered' = [delivered EXCEPT ![s][fr.id] = IF @ = 2 THEN 2 ELSE @ + 1]
               /\ owed' = owed \ {<<fr.id, s>>}
          ELSE UNCHANGED <<delivered, owed>>
    /\ UNCHANGED <<master, state, changes, hw, wire, arrived>>

EthRecv(s, r) ==
    /\ hw[s].ops = "eth"
    /\ Receive(s, r, EthAccepts(s, r, Head(q[<<s, r>>])))

BondRecv(s, r) ==
    /\ hw[s].ops = "bond"
    /\ Receive(s, r, BondAccepts(s, r, Head(q[<<s, r>>])))

\* The hardware iface_eth_init builds: one socket, bound to s.
EthInit(s) ==
    [open |-> TRUE, ops |-> "eth", data |-> NoMaster,
     bound |-> [r \in Roles |-> s], recvfds |-> {"phys"}]

\* The hardware iface_bond_init builds: h_sendfd bound to s and a second
\* socket bound to the master h_data names, both in h_recvfds.
BondInit(s, m) ==
    [open |-> TRUE, ops |-> "bond", data |-> m,
     bound |-> [phys |-> s, mst |-> m], recvfds |-> Roles]

\* Replace s's hardware by h: lldpd_cleanup closes the old one (its
\* sockets and whatever they had queued) at the end of the scan.
Replace(s, h) ==
    /\ hw' = [hw EXCEPT ![s] = h]
    /\ q' = [k \in DOMAIN q |-> IF k[1] = s THEN <<>> ELSE q[k]]
    /\ owed' = {o \in owed : o[2] # s}

\* Mutant of BondScan: the refresh clears h_data and does not refill it.
BondScanClearOnly(s) ==
    /\ master[s] # NoMaster
    /\ IF hw[s].open /\ hw[s].ops = "bond"
       THEN /\ hw' = [hw EXCEPT ![s].data = NoMaster]
            /\ UNCHANGED <<q, owed>>
       ELSE Replace(s, BondInit(s, master[s]))
    /\ UNCHANGED <<master, state, changes, wire, arrived, delivered>>

\* The scan reaches enslaved s in lldpd_ifh_bond: a bond hardware is
\* refreshed, rewriting only h_data; any other is replaced by a new one.
BondScan(s) ==
    /\ master[s] # NoMaster
    /\ IF hw[s].open /\ hw[s].ops = "bond"
       THEN /\ hw' = [hw EXCEPT ![s].data = master[s]]
            /\ UNCHANGED <<q, owed>>
       ELSE Replace(s, BondInit(s, master[s]))
    /\ UNCHANGED <<master, state, changes, wire, arrived, delivered>>

\* The scan reaches free s in lldpd_ifh_eth: an eth hardware is refreshed
\* (nothing the I/O depends on changes); a bond one is cleaned up and an eth
\* one created.
EthScan(s) ==
    /\ master[s] = NoMaster
    /\ ~(hw[s].open /\ hw[s].ops = "eth")
    /\ Replace(s, EthInit(s))
    /\ UNCHANGED <<master, state, changes, wire, arrived, delivered>>

Init ==
    /\ master \in [Slaves -> Masters \cup {NoMaster}]
    /\ state \in [Slaves -> {0, 1}]
    /\ changes = 0
    /\ hw = [s \in Slaves |-> Closed]
    /\ q = [k \in Slaves \X Roles |-> <<>>]
    /\ wire = {}
    /\ arrived = {}
    /\ owed = {}
    /\ delivered = [s \in Slaves |-> [f \in Frames \cup {Own} |-> 0]]

Next ==
    \/ \E f \in Frames, s \in Slaves : Arrive(f, s)
    \/ \E s \in Slaves, m \in Masters \cup {NoMaster}, st \in {0, 1} : Reconfigure(s, m, st)
    \/ \E s \in Slaves : Failover(s)
    \/ \E s \in Slaves : EthSend(s) \/ BondSend(s) \/ BondScan(s) \/ EthScan(s)
    \/ \E s \in Slaves, r \in Roles : EthRecv(s, r) \/ BondRecv(s, r)

Spec == Init /\ [][Next]_vars

\* The event loop serves every readable socket, and the scan timer fires
\* again and again.
FairSpec ==
    /\ Spec
    /\ \A s \in Slaves : WF_vars(BondScan(s)) /\ WF_vars(EthScan(s))
    /\ \A s \in Slaves, r \in Roles : WF_vars(EthRecv(s, r)) /\ WF_vars(BondRecv(s, r))

-----------------------------------------------------------------------------
(* Properties. *)

\* Refinement: the receive paths implement PortRx.  A hardware listens
\* while it is open; the frames owed to it are pending; a frame it has
\* heard is one its recv callback has returned (its own looped-back frames
\* included, which PortRx never lets it hear).  A second copy of a frame
\* is a stuttering step of PortRx.
Rx == INSTANCE PortRx WITH
        Ifaces <- Slaves,
        Wanted <- {f \in Frames : CommentMatch(Content[f])},
        listening <- {s \in Slaves : hw[s].open},
        pending <- owed,
        got <- [s \in Slaves |-> {f \in Frames \cup {Own} : delivered[s][f] > 0}]

\* iface_eth_recv and iface_bond_recv hear every discovery frame (as the
\* filter's comment lists them) that arrives on their interface while they
\* listen (also after lldpd_ifh_bond refreshed a moved
\* slave), and nothing else: the PACKET_OUTGOING test
\* drops lldpd's own frames and the sll_ifindex tests drop the frames of
\* the other slaves that the socket on the shared master also sees.
RxRefinement == Rx!Spec

\* LLDPD_FILTER_F, a hand-assembled program of relative jumps, accepts
\* exactly the frames its comment's pcap expressions describe: on frames
\* that take both outcomes of every instruction, and on every frame that
\* has arrived on a socket of the model.
FilterAgreesOnTests ==
    \A fr \in TestFrames : Accepts(LldpdFilterF, fr) = CommentMatch(fr)
FilterMatchesComment ==
    /\ FilterAgreesOnTests
    /\ \A a \in arrived : Passes[a[1]] = CommentMatch(Content[a[1]])

=============================================================================

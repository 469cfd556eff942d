------------------------------ MODULE Classifier ------------------------------
(***************************************************************************)
(* Interface discovery of the lldpd worker (src/src/interfaces.c).         *)
(*                                                                         *)
(* Every scan takes a snapshot of getifaddrs() and runs the interface      *)
(* handlers over it in order: lldpd_ifh_bond, lldpd_ifh_eth,               *)
(* lldpd_ifh_vlan, lldpd_ifh_mgmt.  A handler that takes an entry clears   *)
(* its ifa_flags so that later handlers skip it.  Hardware entries not     *)
(* refreshed by the scan (h_flags still 0) are then cleaned up.  The       *)
(* driver (lldpd_update_localports / lldpd_cleanup) lives outside src/ and *)
(* is modelled from the spec.                                              *)
(*                                                                         *)
(* The kernel side is state too: which physical interface is enslaved to   *)
(* which bond (it changes under the daemon's feet), the multicast          *)
(* memberships added with SIOCADDMULTI (a boolean per interface and        *)
(* address: a second add is a no-op and one delete removes it), and the    *)
(* raw sockets the worker holds.                                           *)
(***************************************************************************)
EXTENDS Naturals, Sequences, SequencesExt, BagsExt

CONSTANTS
    Phys,           \* physical Ethernet interfaces (may be bond slaves)
    Bonds,          \* bond masters
    Bridges,        \* bridges
    Vlans,          \* VLAN interfaces
    Wireless,       \* physical interfaces answering SIOCGIWNAME
    VlanDev,        \* [Vlans -> real device], GET_VLAN_REALDEV_NAME_CMD
    BridgePorts,    \* [Bridges -> SUBSET Phys], brif/<port> entries
    IfOrder,        \* order of the AF_PACKET entries of getifaddrs()
    InetOrder,      \* interfaces with an IPv4 address, in list order
    PermAddrPrinted,\* /proc/net/bonding prints "Permanent HW addr:"
    LockSupported,  \* the kernel honours SO_LOCK_FILTER set by the monitor
    MonitorMayFail, \* priv_iface_init may return -1 (socket/bind error)
    MidScanChanges, \* the kernel may change the bonds while a scan runs
    MaxChanges,     \* bound on kernel reconfigurations
    NoMaster,       \* "not enslaved" / empty h_data
    Loopback,       \* interfaces whose IPv4 address is INADDR_LOOPBACK
    MgmtPattern,    \* addresses g_mgmt_pattern matches, or NoPattern (unset)
    NoPattern,
    NoAddr,         \* INADDR_ANY management address
    ZeroMac         \* the all-zero MAC of a freshly calloc'ed hardware

Ifaces == Phys \cup Bonds \cup Bridges \cup Vlans

ASSUME /\ VlanDev \in [Vlans -> Phys \cup Bonds \cup Bridges]
       /\ BridgePorts \in [Bridges -> SUBSET Phys]
       /\ Wireless \subseteq Phys
       /\ IfOrder \in Seq(Ifaces) /\ ToSet(IfOrder) = Ifaces
       /\ InetOrder \in Seq(Ifaces)
       /\ MaxChanges \in Nat
       /\ Loopback \subseteq Ifaces
       /\ MgmtPattern = NoPattern \/ MgmtPattern \subseteq Ifaces

VARIABLES
    master,     \* kernel: [Phys -> Bonds \cup {NoMaster}]
    mcast,      \* kernel: [Ifaces -> BOOLEAN], LLDP multicast membership
    socks,      \* kernel: bag of interfaces the worker's raw sockets are bound to
    changes,    \* number of kernel reconfigurations so far
    hardware,   \* cfg->g_hardware, in TAILQ order
    caps,       \* LOCAL_CHASSIS(cfg)->c_cap_enabled, the bits we track
    mgmt,       \* LOCAL_CHASSIS(cfg)->c_mgmt
    pc,         \* which handler of the scan runs
    ifap,       \* the getifaddrs() list of this scan, with ifa_flags
    idx,        \* loop cursor of the running handler
    scanOk,     \* history: no iface_*_init of this scan has failed
    scans       \* history: the last two scans, [snap, ok, hw] each

vars == <<master, mcast, socks, changes, hardware, caps, mgmt, pc, ifap, idx,
          scanOk, scans>>

Macs == Ifaces \cup {ZeroMac}
Entry == [name : Ifaces, family : {"packet", "inet"}, flags : BOOLEAN,
          addr : Macs]
Hardware == [ifname : Ifaces, ops : {"eth", "bond"}, data : Bonds \cup {NoMaster},
             flags : BOOLEAN, lladdr : Macs, aggregid : Bonds \cup {NoMaster},
             vlans : Seq(Vlans), fds : SUBSET Ifaces]

-----------------------------------------------------------------------------
(* Kernel queries.  A slave's link-layer address is its bond's shared      *)
(* MAC; an interface's permanent MAC is written as its own name.           *)

KernelMac(i) == IF i \in Phys /\ master[i] # NoMaster THEN master[i] ELSE i

IsBondSlave(s, b) == s \in Phys /\ master[s] = b

(* Mutant: answers the slave's own index instead of its master's.        *)
IsEnslavedWrongIndex(name) ==
    IF name \in Phys /\ master[name] # NoMaster THEN name ELSE NoMaster

IsEnslaved(name) == IF name \in Phys THEN master[name] ELSE NoMaster

(* iface_is_bridge: /sys/class/net/<name>/brforward opens through         *)
(* priv_open, or else old_iface_is_bridge finds name in the SIOCGIFBR      *)
(* bridge list (which fails with ENOPKG only when no bridge exists).  Both *)
(* paths name the kernel's bridges.                                        *)
IsBridge(name) == name \in Bridges

(* iface_is_vlan, iface_is_wireless, iface_is_bond: SIOCGIFVLAN            *)
(* (GET_VLAN_REALDEV_NAME_CMD), SIOCGIWNAME and SIOCBONDINFOQUERY succeed  *)
(* on name.                                                                *)
IsVlan(name) == name \in Vlans
IsWireless(name) == name \in Wireless
IsBond(name) == name \in Bonds

(* iface_is_bridged_to: the master must be a bridge, then its              *)
(* brif/<slave>/port_no opens (or the old SIOCDEVPRIVATE port list holds   *)
(* the slave's index).                                                     *)
IsBridgedTo(s, br) == IsBridge(br) /\ s \in BridgePorts[br]

(* getifaddrs(): one AF_PACKET entry per interface, then the AF_INET ones. *)
Snapshot ==
    [k \in 1..Len(IfOrder) |->
        [name |-> IfOrder[k], family |-> "packet", flags |-> TRUE,
         addr |-> KernelMac(IfOrder[k])]]
    \o [k \in 1..Len(InetOrder) |->
        [name |-> InetOrder[k], family |-> "inet", flags |-> TRUE,
         addr |-> InetOrder[k]]]

(* /proc/net/bonding/<b>: a block per slave, "Slave Interface: s" then,    *)
(* on kernels that print it, "Permanent HW addr: <mac of s>".              *)
BondingFile(b) ==
    FoldLeft(LAMBDA acc, s :
                acc \o <<[kind |-> "slave", val |-> s]>>
                    \o (IF PermAddrPrinted
                        THEN <<[kind |-> "hwaddr", val |-> s]>> ELSE <<>>),
             <<>>, SetToSeq({p \in Phys : master[p] = b}))

-----------------------------------------------------------------------------
(* Helpers of interfaces.c                                                 *)

Open(b, i)  == BagAdd(b, i)
Close(b, i) == BagRemove(b, i)
Join(m, i)  == [m EXCEPT ![i] = TRUE]
Leave(m, i) == [m EXCEPT ![i] = FALSE]

(* iface_minimal_checks: the first bridge ever met sets the bridge bit and *)
(* is refused; once the bit is set the bridge test is skipped.             *)
MinimalChecks(e, c) ==
    IF "bridge" \notin c /\ IsBridge(e.name)
    THEN [ok |-> FALSE, caps |-> c \cup {"bridge"}]
    ELSE LET c2 == IF "wlan" \notin c /\ IsWireless(e.name)
                   THEN c \cup {"wlan"} ELSE c
         IN  [ok |-> /\ e.flags
                     /\ e.family = "packet"
                     /\ ~IsVlan(e.name)
                     /\ ~IsBond(e.name),
              caps |-> c2]

(* Mutant: any "Slave Interface:" line moves the parser to state 1.       *)
ParseLineAnySlave(name, acc, line) ==
    CASE acc.done -> acc
      [] acc.state = 0 ->
            IF line.kind = "slave" THEN [acc EXCEPT !.state = 1] ELSE acc
      [] OTHER ->
            IF line.kind = "hwaddr"
            THEN [acc EXCEPT !.mac = line.val, !.done = TRUE] ELSE acc

(* One line of the two-state parser of iface_get_permanent_mac.            *)
ParseLine(name, acc, line) ==
    CASE acc.done -> acc
      [] acc.state = 0 ->
            IF line.kind = "slave" /\ line.val = name
            THEN [acc EXCEPT !.state = 1] ELSE acc
      [] OTHER ->
            IF line.kind = "hwaddr"
            THEN [acc EXCEPT !.mac = line.val, !.done = TRUE] ELSE acc

(* iface_get_permanent_mac: h_lladdr is left alone when the interface is  *)
(* not enslaved or no address is found.                                   *)
PermanentMac(lladdr, name) ==
    LET m   == IsEnslaved(name)
        res == FoldLeft(LAMBDA acc, l : ParseLine(name, acc, l),
                        [state |-> 0, mac |-> lladdr, done |-> FALSE],
                        IF m = NoMaster THEN <<>> ELSE BondingFile(m))
    IN  IF res.done THEN res.mac ELSE lladdr

(* Mutant: lldpd_get_hardware ignoring the ops it is asked for.           *)
FindHwAnyOps(name, ops) ==
    LET ks == {k \in DOMAIN hardware : hardware[k].ifname = name}
    IN  IF ks = {} THEN 0 ELSE Min(ks)

(* lldpd_get_hardware: first entry with that name (and those ops).         *)
FindHw(name, ops) ==
    LET ks == {k \in DOMAIN hardware :
                  hardware[k].ifname = name /\ ops \in {"any", hardware[k].ops}}
    IN  IF ks = {} THEN 0 ELSE Min(ks)

FirstHwWhere(P(_)) ==
    LET ks == {k \in DOMAIN hardware : P(hardware[k])}
    IN  IF ks = {} THEN 0 ELSE Min(ks)

NewHardware(name, data, fds) ==
    [ifname |-> name, ops |-> "eth", data |-> data, flags |-> FALSE,
     lladdr |-> ZeroMac, aggregid |-> NoMaster, vlans |-> <<>>, fds |-> fds]

(* iface_eth_init with the answer r of priv_iface_init.  The worker then   *)
(* attaches the filter again, which fails on a socket the monitor locked.  *)
EthInit(name, r) ==
    LET s1 == Open(socks, name)
    IN  CASE ~r           -> [ok |-> FALSE, socks |-> socks, mcast |-> mcast]
          [] LockSupported -> [ok |-> FALSE, socks |-> Close(s1, name), mcast |-> mcast]
          [] OTHER        -> [ok |-> TRUE, socks |-> s1, mcast |-> Join(mcast, name)]

(* Mutant: the master's priv_iface_init failing leaks the slave socket.   *)
BondInitLeak(name, m, r1, r2) ==
    LET s1 == Open(socks, name)
        mc == Join(mcast, name)
    IN  CASE ~r1           -> [ok |-> FALSE, socks |-> socks, mcast |-> mcast]
          [] LockSupported -> [ok |-> FALSE, socks |-> Close(s1, name), mcast |-> mcast]
          [] ~r2           -> [ok |-> FALSE, socks |-> s1, mcast |-> mc]
          [] OTHER         -> [ok |-> TRUE, socks |-> Open(s1, m), mcast |-> Join(mc, m)]

(* iface_bond_init: a socket on the slave, then one on the master.         *)
BondInit(name, m, r1, r2) ==
    LET s1 == Open(socks, name)
        mc == Join(mcast, name)
    IN  CASE ~r1           -> [ok |-> FALSE, socks |-> socks, mcast |-> mcast]
          [] LockSupported -> [ok |-> FALSE, socks |-> Close(s1, name), mcast |-> mcast]
          [] ~r2           -> [ok |-> FALSE, socks |-> Close(s1, name), mcast |-> mc]
          [] OTHER         -> [ok |-> TRUE, socks |-> Open(s1, m), mcast |-> Join(mc, m)]

(* Mutant: the handler forgets to clear ifa_flags.                        *)
ConsumeNot(list, k) == list

(* The entry is taken: later handlers skip it.                             *)
Consume(list, k) == [list EXCEPT ![k].flags = FALSE]

(* lldpd_port_cleanup(&h_lport, 0) on a hardware found again.              *)
PortCleanup(h) == [h EXCEPT !.vlans = <<>>]

(* iface_eth_close / iface_bond_close, called on a stale hardware.         *)
EthClose(st, h) ==
    [socks |-> Close(st.socks, h.ifname), mcast |-> Leave(st.mcast, h.ifname)]

BondClose(st, h) ==
    [socks |-> FoldSet(LAMBDA i, b : Close(b, i), st.socks, h.fds),
     mcast |-> Leave(Leave(st.mcast, h.ifname), h.data)]

MonitorAnswers == IF MonitorMayFail THEN BOOLEAN ELSE {TRUE}

-----------------------------------------------------------------------------
Init ==
    /\ master \in [Phys -> Bonds \cup {NoMaster}]
    /\ mcast = [i \in Ifaces |-> FALSE]
    /\ socks = EmptyBag
    /\ changes = 0
    /\ hardware = <<>>
    /\ caps = {}
    /\ mgmt = NoAddr
    /\ pc = "idle"
    /\ ifap = <<>>
    /\ idx = 1
    /\ scanOk = TRUE
    /\ scans = <<>>

(* lldpd_update_localports: h_flags of every hardware to 0, fresh list.    *)
ScanStart ==
    /\ pc = "idle"
    /\ hardware' = [k \in DOMAIN hardware |-> [hardware[k] EXCEPT !.flags = FALSE]]
    /\ ifap' = Snapshot
    /\ idx' = 1
    /\ pc' = "bond"
    /\ scanOk' = TRUE
    /\ UNCHANGED <<master, mcast, socks, changes, caps, mgmt, scans>>

(* One iteration of lldpd_ifh_bond.                                        *)
BondStep ==
    /\ pc = "bond" /\ idx <= Len(ifap)
    /\ idx' = idx + 1
    /\ UNCHANGED <<master, changes, mgmt, pc, scans>>
    /\ LET e  == ifap[idx]
           mc == MinimalChecks(e, caps)
           m  == IsEnslaved(e.name)
           k  == FindHw(e.name, "bond")
           Refresh(h) == [h EXCEPT !.flags = TRUE,
                                   !.lladdr = PermanentMac(h.lladdr, e.name),
                                   !.aggregid = m]
       IN  /\ caps' = mc.caps
           /\ \/ /\ ~mc.ok \/ m = NoMaster
                 /\ UNCHANGED <<hardware, ifap, socks, mcast, scanOk>>
              \/ /\ mc.ok /\ m # NoMaster /\ k # 0
                 /\ hardware' = [hardware EXCEPT
                                    ![k] = Refresh(PortCleanup([@ EXCEPT !.data = m]))]
                 /\ ifap' = Consume(ifap, idx)
                 /\ UNCHANGED <<socks, mcast, scanOk>>
              \/ /\ mc.ok /\ m # NoMaster /\ k = 0
                 /\ \E r1, r2 \in MonitorAnswers :
                      LET res == BondInit(e.name, m, r1, r2)
                          h  == [NewHardware(e.name, m, {e.name, m}) EXCEPT !.ops = "bond"]
                      IN  /\ socks' = res.socks
                          /\ mcast' = res.mcast
                          /\ scanOk' = (scanOk /\ res.ok)
                          /\ IF res.ok
                             THEN /\ hardware' = Append(hardware, Refresh(h))
                                  /\ ifap' = Consume(ifap, idx)
                             ELSE UNCHANGED <<hardware, ifap>>

(* One iteration of lldpd_ifh_eth.                                         *)
EthStep ==
    /\ pc = "eth" /\ idx <= Len(ifap)
    /\ idx' = idx + 1
    /\ UNCHANGED <<master, changes, mgmt, pc, scans>>
    /\ LET e  == ifap[idx]
           mc == MinimalChecks(e, caps)
           k  == FindHw(e.name, "eth")
           Refresh(h) == [h EXCEPT !.flags = TRUE, !.lladdr = e.addr]
       IN  /\ caps' = mc.caps
           /\ \/ /\ ~mc.ok
                 /\ UNCHANGED <<hardware, ifap, socks, mcast, scanOk>>
              \/ /\ mc.ok /\ k # 0
                 /\ hardware' = [hardware EXCEPT ![k] = Refresh(PortCleanup(@))]
                 /\ ifap' = Consume(ifap, idx)
                 /\ UNCHANGED <<socks, mcast, scanOk>>
              \/ /\ mc.ok /\ k = 0
                 /\ \E r \in MonitorAnswers :
                      LET res == EthInit(e.name, r)
                      IN  /\ socks' = res.socks
                          /\ mcast' = res.mcast
                          /\ scanOk' = (scanOk /\ res.ok)
                          /\ IF res.ok
                             THEN /\ hardware' = Append(hardware,
                                        Refresh(NewHardware(e.name, NoMaster, {e.name})))
                                  /\ ifap' = Consume(ifap, idx)
                             ELSE UNCHANGED <<hardware, ifap>>

(* The hardware a VLAN is attached to: its real device, else the first     *)
(* slave of that bond, else the first port of that bridge.                 *)
VlanTarget(dev) ==
    LET k == FindHw(dev, "any")
    IN  CASE k # 0          -> k
          [] IsBond(dev)     -> FirstHwWhere(LAMBDA h : IsBondSlave(h.ifname, dev))
          [] IsBridge(dev)   -> FirstHwWhere(LAMBDA h : IsBridgedTo(h.ifname, dev))
          [] OTHER          -> 0

(* One iteration of lldpd_ifh_vlan.                                        *)
VlanStep ==
    /\ pc = "vlan" /\ idx <= Len(ifap)
    /\ idx' = idx + 1
    /\ LET e == ifap[idx]
           k == IF e.flags /\ IsVlan(e.name) THEN VlanTarget(VlanDev[e.name]) ELSE 0
       IN  IF k # 0
           THEN hardware' = [hardware EXCEPT ![k].vlans = Append(@, e.name)]
           ELSE UNCHANGED hardware
    /\ UNCHANGED <<master, mcast, socks, changes, caps, mgmt, pc, ifap, scanOk, scans>>

(* A handler's loop reached the end of the list.                           *)
NextHandler ==
    /\ pc \in {"bond", "eth", "vlan"} /\ idx > Len(ifap)
    /\ pc' = CASE pc = "bond" -> "eth" [] pc = "eth" -> "vlan" [] OTHER -> "mgmt"
    /\ idx' = 1
    /\ UNCHANGED <<master, mcast, socks, changes, hardware, caps, mgmt, ifap, scanOk, scans>>

(* An IPv4 address lldpd_ifh_mgmt may take: without a pattern any but the *)
(* loopback address, with one any address fnmatch accepts.                 *)
MgmtCandidate(a) ==
    IF MgmtPattern = NoPattern THEN a \notin Loopback ELSE a \in MgmtPattern

(* lldpd_ifh_mgmt: once an address is known it is kept; otherwise the last *)
(* candidate of the list wins (the loop does not stop at the first).       *)
MgmtHandler ==
    /\ pc = "mgmt"
    /\ mgmt' = LET cands == SelectSeq(InetOrder, MgmtCandidate)
               IN  IF mgmt # NoAddr \/ cands = <<>> THEN mgmt ELSE Last(cands)
    /\ pc' = "cleanup"
    /\ UNCHANGED <<master, mcast, socks, changes, hardware, caps, ifap, idx, scanOk, scans>>

(* lldpd_cleanup: every hardware the scan did not refresh is closed with   *)
(* its ops' cleanup and removed.                                           *)
Cleanup ==
    /\ pc = "cleanup"
    /\ LET stale == SelectSeq(hardware, LAMBDA h : ~h.flags)
           st == FoldLeft(LAMBDA s, h : IF h.ops = "eth" THEN EthClose(s, h)
                                                       ELSE BondClose(s, h),
                          [socks |-> socks, mcast |-> mcast], stale)
       IN  /\ socks' = st.socks
           /\ mcast' = st.mcast
    /\ hardware' = SelectSeq(hardware, LAMBDA h : h.flags)
    /\ pc' = "idle"
    /\ scans' = LET rec == [snap |-> [k \in DOMAIN ifap |-> [ifap[k] EXCEPT !.flags = TRUE]],
                            ok |-> scanOk,
                            hw |-> Range(SelectSeq(hardware, LAMBDA h : h.flags))]
                IN  IF Len(scans) = 2 THEN <<scans[2], rec>> ELSE Append(scans, rec)
    /\ UNCHANGED <<master, changes, caps, mgmt, ifap, idx, scanOk>>

(* The administrator enslaves or releases a physical interface.            *)
Reconfigure ==
    /\ changes < MaxChanges
    /\ MidScanChanges \/ pc = "idle"
    /\ \E p \in Phys, b \in Bonds \cup {NoMaster} :
          /\ b # master[p]
          /\ master' = [master EXCEPT ![p] = b]
    /\ changes' = changes + 1
    /\ UNCHANGED <<mcast, socks, hardware, caps, mgmt, pc, ifap, idx, scanOk, scans>>

Next ==
    \/ ScanStart \/ BondStep \/ EthStep \/ VlanStep \/ NextHandler
    \/ MgmtHandler \/ Cleanup \/ Reconfigure

Spec == Init /\ [][Next]_vars

-----------------------------------------------------------------------------
TypeOK ==
    /\ master \in [Phys -> Bonds \cup {NoMaster}]
    /\ mcast \in [Ifaces -> BOOLEAN]
    /\ IsABag(socks) /\ BagToSet(socks) \subseteq Ifaces
    /\ changes \in 0..MaxChanges
    /\ hardware \in Seq(Hardware)
    /\ caps \subseteq {"bridge", "wlan"}
    /\ mgmt \in Ifaces \cup {NoAddr}
    /\ pc \in {"idle", "bond", "eth", "vlan", "mgmt", "cleanup"}
    /\ ifap \in Seq(Entry)
    /\ idx \in 1..Len(ifap) + 1
    /\ scanOk \in BOOLEAN
    /\ Len(scans) <= 2

(* The raw sockets held by the worker after each step are exactly those of *)
(* the hardware list: every error path of iface_eth_init/iface_bond_init   *)
(* and every cleanup of a stale hardware closes what was opened.           *)
HwSockets == FoldSeq(LAMBDA h, b : b (+) SetToBag(h.fds), EmptyBag, hardware)

SocketsAccounted == socks = HwSockets

(* Between scans no interface has two hardware entries: the bond handler   *)
(* consumes the entries of slaves before lldpd_ifh_eth sees them, and a    *)
(* hardware replaced under other ops is removed by lldpd_cleanup.          *)
OneHardwarePerInterface ==
    pc = "idle" =>
        \A i, j \in DOMAIN hardware : i # j => hardware[i].ifname # hardware[j].ifname

(* Between scans the port id of every bond slave's hardware is the slave's *)
(* permanent MAC, never the MAC the bond shares with all its slaves (spec  *)
(* scenario B): it is read from /proc/net/bonding/<master>, found again on *)
(* every scan, and survives a slave moving between bonds.                  *)
PermanentMacUsed ==
    pc = "idle" =>
        \A k \in DOMAIN hardware :
            hardware[k].ops = "bond" => hardware[k].lladdr = hardware[k].ifname

(* Spec section 3: a bond slave's hardware names its master.  After a    *)
(* scan in which no iface_*_init failed, every enslaved interface of the   *)
(* snapshot (shown with its bond's shared MAC) is announced by a bond      *)
(* hardware whose h_data is that bond, and by no other hardware: a slave   *)
(* the eth handler took after iface_bond_init failed (the bond handler    *)
(* leaves its entry unconsumed) is repaired by the next clean scan, and    *)
(* lldpd_cleanup removes the eth hardware it had.                          *)
SlavesAnnouncedAsBond ==
    pc = "idle" /\ scans # <<>> /\ Last(scans).ok =>
        \A e \in Range(Last(scans).snap) :
            e.family = "packet" /\ e.name \in Phys /\ e.addr \in Bonds =>
                /\ \E k \in DOMAIN hardware : hardware[k].ifname = e.name
                /\ \A k \in DOMAIN hardware :
                      hardware[k].ifname = e.name =>
                          hardware[k].ops = "bond" /\ hardware[k].data = e.addr

(* Spec property 7: two consecutive scans of the same getifaddrs()         *)
(* snapshot, in which no iface_*_init failed, leave the same hardware      *)
(* list: nothing a scan changes (the ifa_flags it clears, the capability   *)
(* bits, the VLANs and MACs of a refreshed port) leaks into the next one.  *)
ScanIdempotent ==
    Len(scans) = 2 /\ scans[1].snap = scans[2].snap /\ scans[1].ok /\ scans[2].ok
        => scans[1].hw = scans[2].hw

-----------------------------------------------------------------------------
(* Properties the spec states and the code does not keep; each has a run  *)
(* that expects TLC to find it violated.                                   *)

(* Spec 4.3: a bridge gets the bridge capability bit and is not announced  *)
(* on.  iface_minimal_checks only refuses a bridge while the bit is unset. *)
NoBridgeAnnounced ==
    \A k \in DOMAIN hardware : hardware[k].ifname \notin Bridges

(* Spec 4.4: every port the daemon announces on keeps the multicast        *)
(* membership of the discovery address on its interface, and a bond slave  *)
(* also on its master, for as long as the hardware exists.                 *)
MembershipHeld ==
    pc = "idle" =>
        \A k \in DOMAIN hardware :
            /\ mcast[hardware[k].ifname]
            /\ hardware[k].ops = "bond" => mcast[hardware[k].data]

=============================================================================

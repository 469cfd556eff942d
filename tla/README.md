# TLA+ models of lldpd

This directory holds TLA+ models of parts of the lldpd sources in `src/src/`,
the TLC configurations that check them, and `PROJECT.json`. PROJECT.json
lists the components, runs, mutants, the map from each definition to source
lines, the findings and the hazards.

## The system

lldpd runs as two processes connected by a socketpair:

* **The worker** (unprivileged, chrooted). It runs `lldpd_update_localports`
  periodically. This takes a `getifaddrs()` snapshot and passes it through
  the interface handlers of `interfaces.c` in order: `lldpd_ifh_bond`,
  `lldpd_ifh_eth`, `lldpd_ifh_vlan`, `lldpd_ifh_mgmt`. When a handler takes
  an entry it clears `ifa_flags`, and later handlers skip it. Each port
  becomes a `struct lldpd_hardware` with `h_ops` set to `eth_ops` or
  `bond_ops`. `lldpd_cleanup` then removes every hardware the scan did not
  refresh (`h_flags == 0`), calling its ops' `cleanup` (`iface_eth_close`,
  `iface_bond_close`). Building a port needs root, so the worker asks the
  monitor.
* **The monitor** (root). It serves one command at a time
  (`daemon/priv-linux.c`):
  * `asroot_open` opens a file from a regex allowlist and passes its
    descriptor.
  * `asroot_ethtool` runs SIOCETHTOOL.
  * `asroot_iface_init_os` opens, binds, filters and locks a raw
    `PF_PACKET` socket and passes it.

  The worker stubs (`priv_open`, `priv_ethtool`, `priv_iface_init`) write a
  command word, a length and a name, then read a status. They may also read
  a descriptor (`receive_fd`) or an ethtool structure.
* **The raw-socket I/O** of each port (`iface_eth_*`, `iface_bond_*` in
  `interfaces.c`). It writes LLDP frames and reads the frames of the
  neighbours. A bond slave holds two sockets, one on the slave and one on
  the master.
* **`lldpctl`** is the client of the daemon's control socket
  (`lldpctl.c`). It asks for the interface list, then, for each
  interface, the chassis, the port and the VLANs of its neighbour. The
  daemon's replies are marshalled (spec 4.5) by the schema-driven engine
  that `marshal.h` declares.

The kernel is part of the model's state wherever the code depends on it:
* which interface is enslaved to which bond, which can change between scans;
* the LLDP multicast memberships (SIOCADDMULTI/SIOCDELMULTI: one flag per
  interface and address);
* the raw sockets the worker holds;
* the directories and files a path walk meets.

## Modules

| module | models | source |
|---|---|---|
| `Classifier` | one scan of the handlers, hardware creation/refresh/cleanup, socket and multicast bookkeeping, kernel reconfiguration between scans | `interfaces.c` lines 113-947; the scan driver modelled from the spec |
| `MCClassifier` | instance: interfaces e1, e2 (slaves of b1, b2 or free), bridge br over e1, VLAN v10 on a bond, an IPv4 address on each bond | |
| `PrivSep` | both ends of the socketpair as byte streams: worker stubs, monitor handlers, descriptor passing, the dispatcher | `daemon/priv-linux.c` 32-201; the dispatcher, `send_fd`/`receive_fd` and `priv_iface_init` modelled from the spec |
| `MCPrivSep` | instance: five paths (a bond file, a missing bond, `/etc/shadow`, and two traversals) and one interface | |
| `PortIO` | send and receive on eth and bond hardware, the sockets `iface_eth_init`/`iface_bond_init` open, the refresh/replace a scan does, the kernel's delivery and loopback | `interfaces.c` 237-264, 542-636, 659-817 |
| `PortRx` | abstract receive service: a listening port hears every wanted frame that arrives on it, and nothing else | spec 4.4 |
| `Filter` | the classic-BPF discovery filter `LLDPD_FILTER_F`, the kernel's interpreter for the four opcodes it uses, and the two descriptions of what it should accept (its comment, spec 4.4) | `interfaces.c` 44-70, 416-429 |
| `MCPortIO` | instance: slaves e1, e2, bonds b1, b2, two neighbour frames (an LLDPDU and an ARP broadcast) | |
| `LldpCtl` | lldpctl's `main()` and its four requests against a daemon whose neighbours change between requests; display abstracted to the memory it touches | `lldpctl.c` 90-457; the server side modelled from spec 4.5 |
| `Marshal` | the `MARSHAL_*` schema macros, the TAILQ macros on a heap, the serializer and unserializer, and graph isomorphism | `marshal.h` 20-78; the serializer and unserializer modelled from spec 4.1 |
| `MCLldpCtl` | instance: interfaces i1, i2, i3; a switch (MAC chassis id, two VLANs), a host (IPv4 chassis id, no VLAN), a peer with a 2-byte address id (one VLAN) | |

### Classifier: state and actions

* **Variables.**
  * `hardware` is `cfg->g_hardware` in TAILQ order. Each record has
    `ifname`, `ops`, `data` (h_data, the master), `flags`, `lladdr`,
    `aggregid`, `vlans` and `fds`.
  * `caps` holds the `c_cap_enabled` bits for bridge and wlan.
  * `mgmt` is `c_mgmt`.
  * `ifap` is the snapshot, with its `ifa_flags`.
  * `pc` and `idx` are the handler running and the loop position.
  * `master`, `mcast` and `socks` are the kernel state.
  * `scanOk` and `scans` are history for spec property 7. `scanOk` says
    whether any `iface_*_init` of the running scan failed. `scans` holds
    the last two finished scans: the snapshot, `scanOk`, and the hardware
    records left after cleanup.
* **Actions.** `ScanStart` is the start of `lldpd_update_localports`.
  `BondStep`, `EthStep` and `VlanStep` are one loop iteration of their
  handler each, including the init/refresh/port-cleanup calls they make.
  `NextHandler` ends a loop. `MgmtHandler` runs `lldpd_ifh_mgmt`: without `-m` it skips the `Loopback` addresses, and with a pattern it takes only the addresses in `MgmtPattern`. `classifier_core` runs with a pattern, and the violation runs run without one.
  `Cleanup` runs `lldpd_cleanup` and the close callbacks. `Reconfigure` is
  an administrator enslaving or releasing a port, bounded by `MaxChanges`.
* **Answers of the monitor.** `priv_iface_init` may fail when
  `MonitorMayFail` is set. With `LockSupported`, the monitor's
  SO_LOCK_FILTER makes the worker's second `SO_ATTACH_FILTER` fail.
* **Kernel queries.** `IsBridge`, `IsVlan`, `IsWireless`, `IsBond`,
  `IsBridgedTo`, `IsBondSlave` and `IsEnslaved` are named after the C
  functions they stand for. Each is the kernel's answer, read from the
  constants or from `master`. `iface_is_bridge` and
  `iface_is_bridged_to` first try sysfs through `priv_open` and then fall
  back to an ioctl. The two paths give the same answer here, because no
  interface disappears in the model.
* **Data abstraction.** A MAC is written as the name of the interface it
  belongs to: a slave's kernel MAC is its bond's. The `/proc/net/bonding`
  file is a sequence of `slave`/`hwaddr` lines, parsed by the same
  two-state parser as `iface_get_permanent_mac`.

### PrivSep: state and actions

* **Variables.**
  * `w2m` and `m2w` are the two directions of the socketpair. Each element
    is a byte, a name, or an ethtool structure, and a byte may carry a
    passed descriptor.
  * `wpc` and `wcall` are the worker's position in a stub and the call it
    is making.
  * `granted` records what each call returned.
  * `mpc` is the monitor's state.
* **Encoding.** An int is its four little-endian bytes: `IntBytes` writes
  them and `Decode` reads them back with two's complement. A name is one
  element, so its `len` is 1, and the writer may add a NUL after it.
  Reading four elements that are not all bytes gives `Junk`.
* **Paths.** A path is a sequence of components. `Matches` is the
  unanchored regexec: the atom `[^.][^/]*` also accepts an empty component,
  because `[^.]` matches `/`. `Walk` is the kernel's resolution of the path:
  directories, `..` and files.
* **Worker actions.** `PrivOpen`, `PrivEthtool` and `PrivIfaceInit` write a
  request. `ReadStatus`, `ReceiveFd` and `ReadEthtool` read the reply.
  `WorkerEOF` and `WorkerEPIPE` are the fatal errors of `must_read` and
  `must_write`. `WorkerExit` is a termination.
* **Monitor actions.** `AsrootOpen`, `AsrootEthtool` and `AsrootIfaceInit`
  each read one command and its arguments and write their whole reply.
  `BogusCommand` is the dispatcher's fatal exit on an unknown command.
  `MonitorEOF` is the exit once the worker is gone. Writes block when the
  `SocketBuffer` is full.

### PortIO: state and actions

* **Variables.** There is at most one hardware per slave, in `hw[s]`. Each
  has `open`, `ops` (eth or bond), `data` (`h_data`, the master name),
  `bound` (the interface each socket is bound to: `phys` is `h_sendfd`,
  `mst` the socket on the master) and `recvfds`. The kernel holds `master`
  and `state` (`ifs.state`), and `q` holds each socket's receive queue.
  There are three history variables: `arrived` and `owed` record where
  each neighbour frame arrived and whether a hardware was listening there,
  and `delivered` counts how often a recv callback returned it (the count
  stops at 2). `wire` records the source MAC of each frame a bond wrote.
* **Kernel actions.** `Arrive(f, s)` puts a neighbour frame on a slave's
  wire. How it is copied to sockets depends on the `Kernel` constant,
  following the comments in `iface_bond_init`: `bond_only`, `origdev` or
  `both`. `Reconfigure` enslaves, releases or moves a slave, bounded by
  `MaxChanges`. `Failover` swaps the active slave.
* **lldpd actions.** `EthSend`/`BondSend` are `iface_*_send`. A written
  frame is looped back to the sockets on that interface unless the queue
  holds `SocketQueue` frames. `EthRecv`/`BondRecv` are `iface_*_recv` on
  one socket, with the PACKET_OUTGOING and ifindex tests. `EthScan` and
  `BondScan` are what a scan does to one slave's hardware: refresh
  (`h_flags`, and `h_data` for a bond), or replace it (close, then
  `iface_*_init`).
* **The filter.** Every socket carries `lldpd_filter_f` (`iface_set_filter`,
  and the monitor's copy in `asroot_iface_init_os`). `Content` gives each
  frame its Ethernet header, and `Passes[f]` is the result of running the
  program on it, computed once per frame. `Arrive` queues a frame only if it
  passes, and so does the loopback in `Write`.

### Filter

The 19 instructions of `LLDPD_FILTER_F` are data, written in decimal with
the source's hex beside each line; a 32-bit `k` is kept as two 16-bit
halves because TLC's integers are signed 32-bit. `Run` is a RECURSIVE
interpreter of `ldh`/`ld` absolute loads, `jeq #k` and `ret #k` (a load
past the 14-byte header ends the program with 0, as the kernel does).
`CommentMatch` is the pcap expressions in the comment above the program,
`SpecMatch` spec 4.4's list. `TestFrames` are the 72 headers made of every
named destination, each with its first, second or last byte changed, and a
broadcast, with the LLDP, ARP and IPv4 EtherTypes: together they take both
outcomes of every `jeq`.

### PortRx and the refinement

`PortRx` has three actions, `Open`, `Arrive` and `Hear`, and weak fairness
on `Hear`. `PortIO` instantiates it (`Rx == INSTANCE PortRx WITH ...`):
* `listening` is the set of slaves whose hardware is open;
* `pending` is `owed`;
* `Wanted`, the frames the port listens for, is the frames whose header
  the filter's comment describes;
* `got[s]` is the set of frames a recv callback has returned on `s`.

`RxRefinement == Rx!Spec` is checked as a PROPERTY. It says three things.
Only wanted neighbour frames that arrived on the port are heard: loopback copies
of lldpd's own frames are not, and neither are frames of other slaves seen
on the master socket. Every owed frame is eventually heard. A hardware is
replaced only through `Open`, which drops what it owed. A second copy of a
frame maps to a stuttering step.

### LldpCtl and Marshal: state and actions

* **Variables.**
  * The daemon side is `nb`, each interface's neighbour. A neighbour is a
    record with the chassis and port id subtype, length and first byte,
    and its VLAN ids.
  * The client side is `pc`, `ifs`, `idx`, `chassis`, `shown` and
    `touches`. `touches` holds each memory access display makes, as
    `[lo, hi, size]`.
  * `absent` and `xfers` are history variables. `absent` holds the
    interfaces that were without a neighbour at some point. `xfers` holds
    each VLAN list exchanged: the daemon's heap and the client's copy.
* **Actions.**
  * `GetInterfaces`, `GetChassis`, `GetPort` and `GetVlans` are the
    request functions, together with the step of `main()` that follows
    them.
  * `Finish` is the end of the loop.
  * `NeighbourChange` is the daemon learning, replacing or expiring a
    neighbour between two requests, bounded by `MaxChanges`.
* **VLANs.** The daemon's `p_vlans` is built on a heap by `TailqInit`
  and one `TailqInsertTail` per VLAN (the `TAILQ_INSERT_TAIL` of
  `lldpd_ifh_vlan`). It is serialized with the schema
  `MARSHAL_DECLARE_TQ(vlans, lldpd_vlan)` plus
  `MARSHAL_ADD_TQE(lldpd_vlan, v_entries)`, which `Info` builds from the
  macro operators. `get_vlans` then unserializes it. `main()`'s `memcpy`
  of the head into `port.p_vlans` is `MemcpyHead`, and `display_vlans`'
  `TAILQ_FOREACH` is `Foreach`.
* **The serializer** is `SerPtr`/`SerSubs`, mutually RECURSIVE. Each
  pointer becomes a NULL frame, a back-reference to the index of its first
  body, or a body followed by its declared sub-entries; a substruct is
  walked at an offset inside its parent.
* **The unserializer** is `UnPtr`/`UnSubs`. It allocates fresh addresses
  above `ClientBase`, copies each body as sent, and rewrites each declared
  pointer field. A field the schema does not declare keeps the sender's
  address.
* **Graph isomorphism.** `Iso` asks for a bijection (`Bijection` from the
  Functions module) between the objects reachable from the two roots that
  keeps type, data and every pointer field.
* **Precomputation.** `Exchange` computes the round trip once per
  neighbour, because it depends on nothing else.

## Runs

| run | expect | checks |
|---|---|---|
| `classifier_core` (`MCClassifier.cfg`) | pass, 6.6M states, about a minute (history variables included) | `TypeOK`; `SocketsAccounted`: the worker's raw sockets are exactly those of the hardware list, across init failures and cleanups; `OneHardwarePerInterface` between scans; `PermanentMacUsed`: bond slaves carry their permanent MAC, through enslave/release/move; `SlavesAnnouncedAsBond`: after a scan in which no `iface_*_init` failed, every enslaved interface has bond hardware naming its master and no other hardware, so a slave the eth handler took after a failed `iface_bond_init` (interfaces.c:805) is repaired |
| `classifier_bridge` | violation | `NoBridgeAnnounced`: a bridge never gets hardware (spec 4.3) |
| `classifier_mcast` | violation | `MembershipHeld`: a live hardware keeps its multicast membership (spec 4.4) |
| `classifier_idem` (`MonitorMayFail = FALSE`) | violation | `ScanIdempotent`: two scans of the same snapshot in which no init failed leave the same hardware list (spec property 7) |
| `privsep_core` (`MCPrivSep.cfg`) | pass, 7k states | `TypeOK`; `CallsReturn`: every stub call returns or the worker exits |
| `privsep_allowlist` | violation | `OnlyAuthorizedFiles`: only files whose canonical path is in the allowlist reach the worker (spec property 3) |
| `privsep_framing` | violation | `MonitorOutlivesWorker`: the monitor never reads a command the worker did not write |
| `privsep_replies` | violation | `DescriptorMatchesCall`: the descriptor a call returns is the one created for that call |
| `portio_core` (`MCPortIO.cfg`, `Kernel = "both"`) | pass, 195k states | `TypeOK`; `FilterMatchesComment`: the hand-assembled BPF program accepts exactly the frames its comment describes, on the 72 test headers and on every frame that arrives; `RxRefinement`: eth and bond receive behind the filter implement `PortRx` across enslave, release, move and failover |
| `lldpctl_core` (`MCLldpCtl.cfg`) | pass, 407k states | `TypeOK`; `ShownComplete`: every interface that had a neighbour throughout is displayed; `VlansRoundTrip`: the client's VLAN list is isomorphic to the daemon's, and displayed in order |
| `lldpctl_bounds` | violation | `DisplayInBounds`: display touches only bytes inside its buffers |
| `lldpctl_abort` | violation | `NoAbort`: a per-interface failure does not end the client (spec 7) |

What the violations show (details in PROJECT.json `findings`):

* **Bridges.** The bridge check in `iface_minimal_checks` runs only while
  the bridge bit is unset. After the bond handler has seen the bridge, the
  eth handler creates a port for it.
* **Multicast.** When an interface turns from a free port into a bond
  slave, the eth hardware is replaced. Its close (`iface_eth_close`,
  `SIOCDELMULTI`) then removes the membership the new bond hardware had
  just added. `iface_bond_close` likewise removes the master's membership
  that the other slaves use.
* **Allowlist.** `/proc/net/bonding//../../../etc/shadow` passes the
  unanchored regex and opens `/etc/shadow`. `MCDirs` treats `/proc/net`
  as a directory. Since Linux 2.6.25 it is a symlink to `self/net`, so the
  real path needs one more `..`, which the same pattern also accepts.
* **Framing.** `priv_open` and `priv_ethtool` write `len + 1` bytes, while
  the handlers read `len`. The NUL that is left over shifts the next command
  word, and the second request kills the monitor.
* **Replies.** On a `socket()` failure, `asroot_iface_init_os` writes errno
  and its caller writes it again. From then on replies are off by one, and
  TLC finds a `priv_open("/etc/shadow")` that returns another call's raw
  socket.
* **Idempotence.** `lldpd_ifh_vlan` looks for a VLAN's port in all of
  `g_hardware`, which still holds the entries this scan has not refreshed
  and `lldpd_cleanup` will free. Enslave a free port e1 to the bond that
  carries v10. The next scan appends a bond hardware for e1 behind e1's
  stale eth hardware, and v10 goes to the stale entry and is freed with it.
  The scan after that, of the same snapshot, puts v10 on the bond
  hardware. No `priv_iface_init` fails along the way.
* **dump().** When the data fits (`size <= max`), the last `sprintf`
  writes its NUL at `size*3`, one byte past the `malloc(size*3)` buffer.
  This happens for every 6-byte MAC id. For `size == 0`, `buffer[-1]` is
  written. `inet_ntoa` also reads 4 address bytes of an id that may be
  shorter.
* **get_vlans.** A NONE answer, for a neighbour that expired after
  `get_port`, is `fatalx("unknown answer type")`, so lldpctl exits.

Observations without a run of their own, reached while modelling:
* **Stale master socket.** When a slave moves to another bond, the refresh
  in `lldpd_ifh_bond` rewrites `h_data` only. The socket on the master
  stays bound to the old bond. On a kernel that hands slave frames only to
  the master, the moved slave's neighbours are never heard again.
  `RxRefinement` fails for this reason with `Kernel = "origdev"` or
  `"bond_only"` in `MCPortIO.cfg`. These are the older kernels that the
  `PACKET_ORIGDEV` comment in `iface_bond_init` describes. `portio_core`
  runs the current delivery (`"both"`), where the refinement holds.
* With `LockSupported`, the monitor's SO_LOCK_FILTER makes the worker's own
  `iface_set_filter` fail, so no port is ever built.
* The VLAN handler stops at the first slave of the bond (spec scenario C
  wants every slave).
* `iface_bond_send` zeroes the source MAC when `ifs.state` is 1, which is
  BOND_STATE_BACKUP. This is what the code comment says, and the opposite
  of spec property 5.
* The filter's EDP test is `ld [2] == 0x2b000000; ldh [0] == 0x00e0`, that
  is destination 00:e0:2b:00:00:00, as its comment says; spec 4.4 lists EDP
  at 01:e0:2b:00:00:00. On `TestFrames` the program and `SpecMatch` differ
  on exactly the six headers with these two destinations. (Extreme's EDP
  uses 00:e0:2b:00:00:00, a unicast address, so the code is right and the
  spec's address is the slip; `PortRx`'s `Wanted` follows the comment.)
* With `Kernel = "both"`, a frame is returned twice, once from the slave
  socket and once from the master socket (spec property 6).

Each property of a passing run has a mutant in PROJECT.json: a plausible
bug in the mapped code. Examples are a wrong index, a parser that accepts
any slave, a leaked socket, a refresh that forgets to rebuild, an accept
test without the ifindex check, a loop that ends early, a filter jump one instruction short, and a TQE schema
entry without `tqe_prev`. TLC finds each mutant's property violated.

## Bounds and why they suffice

* **Classifier.**
  * There are two physical interfaces, so one can be a slave while the
    other is free, or both can be slaves: two slaves are needed for the
    master-membership case.
  * `classifier_core` has two bonds, one bridge (over e1), one VLAN (on one
    bond) and an IPv4 address on each bond. With two bonds a slave can move
    from one bond to the other, which `SlavesAnnouncedAsBond` (h_data is
    refreshed) and `PermanentMacUsed` must survive. The violation runs keep
    one bond, which is all their counterexamples need.
  * `MaxChanges = 2` in `classifier_core` (3 in the violation runs) lets a
    port be enslaved and released, or moved, with scans in between; the
    initial enslavement is arbitrary, so one change already moves a slave.
    Scans themselves are unbounded. With two bonds the run has 6.6M
    states and takes about a minute.
  * The bridge is placed after the physical interfaces in `IfOrder`. This is
    where the bridge-bit bug shows, and a bridge listed before would be
    refused on the first visit in any case.
  * `MidScanChanges` is FALSE in these runs. The snapshot is taken once per
    scan, but the kernel queries that the handlers make are live.
  * `classifier_idem` sets `MonitorMayFail = FALSE`, so that its
    counterexample owes nothing to a failing monitor. Its shortest trace
    is three scans: one to create e1's eth hardware, and two after e1 is
    enslaved.
* **PrivSep.**
  * Every command is sent with every outcome the kernel can produce.
  * `SocketBuffer = 12` elements holds one request and the longest reply,
    plus the surplus a duplicated status leaves.
  * The five paths cover four cases: allowed and existing, allowed and
    missing, refused, and the two traversal shapes (through an empty
    component, and through a file, which the kernel rejects with ENOTDIR).
* **PortIO.**
  * Two slaves and two bonds make a move between bonds possible, and give
    each master socket the frames of another slave.
  * Two neighbour frames, plus lldpd's own frames: an LLDPDU the filter
    passes and an ARP broadcast it drops. Frames do not interact except
    through queues. The filter itself is checked on all 72 test headers,
    not only on these.
  * `SocketQueue = 1` makes a loopback copy drop when a queue is full.
  * `MaxChanges = 1` is one enslave, release or move, which covers all
    three kinds of replace and refresh.
* **LldpCtl.**
  * Three interfaces, each with a neighbour that can change.
  * `MaxChanges = 3`: one change can fall between any two requests of one
    interface, or several interfaces can change.
  * The three neighbours cover every display branch and the VLAN lists of
    length 0, 1 and 2. A one-element list has the first element's
    `tqe_prev` and the head's `tqh_last` pointing back at the head; an
    empty list has `tqh_last` pointing at the head itself.

## Fairness

Classifier has no liveness property and is checked under `Spec`.

PrivSep's `FairSpec` puts weak fairness on the worker's read steps and on the
monitor's steps. They are separate processes, each blocked only in a read or
a write, so each runs whenever it has input. The worker's choice to make a
new call is not fair: the worker may stay idle.

PortIO's `FairSpec` puts weak fairness on each recv callback and on each
slave's scan. The single-threaded event loop calls a recv callback whenever
its socket is readable, and scans run on a timer. Sends, arrivals and
reconfigurations get no fairness.

LldpCtl has no liveness property and is checked under `Spec`. Each request
and its answer are one step of the model, so the end of the loop would
follow from the model's shape, not from the code. The real way lldpctl can
hang, a daemon that never answers, lies outside the model.

`CHECK_DEADLOCK FALSE` is set for PrivSep and LldpCtl because those systems
really stop. In PrivSep, both processes exit after a fatal error. In
LldpCtl, the client returns or exits. `CallsReturn` rules out a PrivSep hang before that point.

## Not modelled

* **`ctl.h`.** Its message types (NONE, GET_INTERFACES, GET_INTERFACE,
  SET_PORT) and `ctl_msg_*_unserialized` are not the `HMSG_*` API that
  `lldpctl.c` calls. The model follows the client and spec 4.5.
  `get_vlans` calls `ctl_msg_unpack_list`, which is not in `src/`. LldpCtl
  uses the `marshal.h` engine (spec 4.1/4.5) in its place, so
  `VlansRoundTrip` checks the schema macros, not that unpacker.
* **`MARSHAL_ADD_SUBTQ`.** A list head embedded in its parent makes the
  first element's `tqe_prev` an interior pointer, which the identity map
  cannot know. No schema in `src/` uses it, so lldpctl never meets it.
* **Data reads.** These are the MAU/ethtool speed tables (`iface_macphy`),
  MTU, the text output of lldpctl, and logging. They change no state the
  properties distinguish. Reading `iface_macphy` does show one hazard:
  it ORs the advertised bits into `p_autoneg_advertised`, and the refresh
  path resets nothing but VLANs, id and description. A port therefore keeps
  announcing speeds it no longer advertises, and keeps its old MAU type
  after an unhandled speed or a failed `priv_ethtool`.
* **The socket-open window.** `asroot_iface_init_os` creates the socket
  with `ETH_P_ALL`, then binds it, then attaches the filter. Frames of any
  interface and any type that arrive in between stay queued, and
  `iface_eth_recv` later returns them. `PortIO` opens a hardware's sockets
  bound and filtered in one step (`Replace`). `RxRefinement` in
  `portio_core` therefore holds under that assumption. With the window
  modelled it fails at once: a frame of another interface, or one that
  is not a discovery frame, is heard.
* **The ioctl fallbacks of bridge detection** (`old_iface_is_bridge`,
  `old_iface_is_bridged_to`). These run on kernels without the bridge's
  sysfs files. `Classifier` models the sysfs answer. The fallback matches
  `if_nametoindex(slave)` against a zeroed list, so an interface that
  vanished since the snapshot (index 0) looks like a bridge port. The
  model's kernel never removes interfaces.
* **The recvfrom error path** of the recv callbacks.
* **A property on the management address.** `MgmtHandler` models
  `lldpd_ifh_mgmt`, which keeps the first address it finds. The spec states
  nothing about that address, so no property checks it.
* **An abstract RPC specification for `PrivSep`.** `privsep_core` keeps
  every error the kernel can return. That includes the `socket()` failure
  after which replies are off by one (`privsep_replies`), so a refinement
  of a synchronous call-and-return service fails there. It would hold only
  if that error were left out of the run.
* **Composing `Classifier` with `PrivSep`.** `Classifier` lets each
  `priv_iface_init` succeed or fail (`MonitorAnswers`). `PrivSep` shows
  what the channel delivers: either of those, or, after a `socket()`
  failure, a descriptor made for another call. Composing the two would multiply two state spaces
  to show what `privsep_replies` already shows.

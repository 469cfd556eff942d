------------------------------- MODULE LldpCtl -------------------------------
(***************************************************************************)
(* The lldpctl client (lldpctl.c) against the daemon's control socket.    *)
(* main() asks for the interface list, then for each interface the        *)
(* chassis, the port and the VLANs of its neighbour, one request each,    *)
(* and displays them.  Between two requests the daemon may learn, replace *)
(* or expire the neighbour of any interface.  The daemon answers with the *)
(* type of the request, or with NONE when the entity does not exist (the  *)
(* control-socket server is not in src/ and is modelled from the spec).   *)
(*                                                                         *)
(* Display is abstracted to the memory it touches: the identifier buffers *)
(* of display_chassis/display_port and the buffer dump() formats into,    *)
(* each touch an interval of byte offsets with the size of the buffer.    *)
(***************************************************************************)
EXTENDS Integers, Sequences, FiniteSets, Marshal

CONSTANTS
    IfOrder,      \* the daemon's interfaces, in g_hardware order
    Nbrs,         \* neighbours the daemon can learn (records, see Neighbour)
    NoNbr,        \* no neighbour on the interface
    MaxChanges    \* bound on the daemon's neighbour changes

ETH_ALEN == 6
Truncation == 6           \* sizeof("[...]")

(* A neighbour: chassis and port id subtype, length and first byte, and   *)
(* the VLAN ids of its port.                                              *)
Subtypes == {"ifname", "lladdr", "addr", "other"}
Neighbour == [csub : Subtypes, clen : Nat, cfirst : Nat,
              psub : Subtypes, plen : Nat, pfirst : Nat, vlans : Seq(Nat)]
ASSUME Nbrs \subseteq Neighbour /\ NoNbr \notin Nbrs

Ifaces == {IfOrder[k] : k \in DOMAIN IfOrder}
Touch == [lo : Int, hi : Int, size : Int]

VARIABLES
    nb,        \* daemon: the neighbour of each interface
    changes,   \* daemon: neighbour changes so far
    pc,        \* client: where main() is
    ifs,       \* client: the interface list get_interfaces returned
    idx,       \* client: position of TAILQ_FOREACH in ifs
    chassis,   \* client: the neighbour whose chassis get_chassis returned
    shown,     \* client: the interfaces displayed, with what was shown
    touches,   \* client: the memory accesses display made
    absent,    \* history: interfaces that have been without a neighbour
    xfers      \* history: each VLAN list sent, as the daemon's heap and the
               \* client's unserialized copy, with the index of its display

vars == <<nb, changes, pc, ifs, idx, chassis, shown, touches, absent, xfers>>

TypeOK ==
    /\ nb \in [Ifaces -> Nbrs \cup {NoNbr}]
    /\ changes \in 0..MaxChanges
    /\ pc \in {"start", "chassis", "port", "vlans", "done", "aborted"}
    /\ ifs \in Seq(Ifaces)
    /\ idx \in 1..Len(ifs) + 1
    /\ chassis \in Nbrs \cup {NoNbr}
    /\ pc \in {"port", "vlans"} => chassis \in Nbrs
    /\ shown \in Seq([iface : Ifaces, chassis : Nbrs, port : Nbrs,
                      vlans : Seq(Nat) \cup {NoNbr}])
    /\ touches \subseteq Touch
    /\ absent \subseteq Ifaces
    /\ \A x \in xfers : x.k \in DOMAIN shown

-----------------------------------------------------------------------------
(* Display, abstracted to memory accesses. *)

\* dump(data, size, max, sep): len bytes are malloc'ed; the loop's sprintf
\* writes "%02x%c" and its NUL at i*3 .. i*3+3; then either "[...]" and its
\* NUL at i*3, or a NUL at i*3 - 1.
DumpLen(size, max) == IF size > max THEN max * 3 + Truncation + 1 ELSE size * 3
Dump(size, max) ==
    LET n == IF size < max THEN size ELSE max
        len == DumpLen(size, max)
    IN  {[lo |-> i * 3, hi |-> i * 3 + 3, size |-> len] : i \in 0..n - 1}
        \cup IF size > max THEN {[lo |-> n * 3, hi |-> n * 3 + Truncation - 1, size |-> len]}
                           ELSE {[lo |-> n * 3 - 1, hi |-> n * 3 - 1, size |-> len]}

\* The accesses display_chassis (and, with p_id, display_port) makes for an
\* identifier of subtype sub, length len and first byte first: the copy
\* into the len + 1 byte string, then per subtype a dump, or for an address
\* the family byte and, for IPv4, the four bytes inet_ntoa reads.
DisplayId(sub, len, first) ==
    {[lo |-> 0, hi |-> len, size |-> len + 1]}
    \cup CASE sub = "lladdr" -> Dump(len, ETH_ALEN)
           [] sub = "addr" /\ first = 1 ->
                {[lo |-> 0, hi |-> 0, size |-> len], [lo |-> 1, hi |-> 4, size |-> len]}
           [] sub = "addr" -> {[lo |-> 0, hi |-> 0, size |-> len]} \cup Dump(len, 16)
           [] OTHER -> IF sub = "other" THEN Dump(len, 16) ELSE {}

DisplayChassis(n) == DisplayId(n.csub, n.clen, n.cfirst)
DisplayPort(n) == DisplayId(n.psub, n.plen, n.pfirst)

-----------------------------------------------------------------------------
(* The daemon's answers (spec 4.5: NONE when the entity does not exist). *)

Answer(type, i) == IF nb[i] = NoNbr THEN "NONE" ELSE type


\* The daemon learns, replaces or expires the neighbour of interface i.
NeighbourChange(i, n) ==
    /\ changes < MaxChanges
    /\ n # nb[i]
    /\ nb' = [nb EXCEPT ![i] = n]
    /\ changes' = changes + 1
    /\ absent' = IF n = NoNbr THEN absent \cup {i} ELSE absent
    /\ UNCHANGED <<pc, ifs, idx, chassis, shown, touches, xfers>>

-----------------------------------------------------------------------------
(* The client. *)

\* get_interfaces(): the answer must be GET_INTERFACES, its list unpacked.
GetInterfaces ==
    /\ pc = "start"
    /\ ifs' = IfOrder
    /\ idx' = 1
    /\ pc' = "chassis"
    /\ UNCHANGED <<nb, changes, chassis, shown, touches, absent, xfers>>

\* Mutant of Finish: the loop ends one interface early.
FinishEarly ==
    /\ pc = "chassis" /\ idx >= Len(ifs)
    /\ pc' = "done"
    /\ UNCHANGED <<nb, changes, ifs, idx, chassis, shown, touches, absent, xfers>>

\* The loop reaches its end; main() closes the socket and returns 0.
Finish ==
    /\ pc = "chassis" /\ idx > Len(ifs)
    /\ pc' = "done"
    /\ UNCHANGED <<nb, changes, ifs, idx, chassis, shown, touches, absent, xfers>>

\* Mutant of GetChassis: the HMSG_NONE test is left out, and the empty
\* answer is unpacked as the chassis.
GetChassisUnchecked ==
    /\ pc = "chassis" /\ idx <= Len(ifs)
    /\ chassis' = nb[ifs[idx]]
    /\ pc' = "port"
    /\ UNCHANGED <<nb, changes, ifs, idx, shown, touches, absent, xfers>>

\* get_chassis(s, &chassis, iff->name): NONE returns -1 and main() moves
\* to the next interface.
GetChassis ==
    /\ pc = "chassis" /\ idx <= Len(ifs)
    /\ LET i == ifs[idx] IN
       IF Answer("GET_CHASSIS", i) = "NONE"
       THEN /\ idx' = idx + 1
            /\ UNCHANGED <<pc, chassis>>
       ELSE /\ chassis' = nb[i]
            /\ pc' = "port"
            /\ UNCHANGED idx
    /\ UNCHANGED <<nb, changes, ifs, shown, touches, absent, xfers>>

\* get_port(): NONE skips the interface; otherwise main() prints the
\* interface, display_chassis(&chassis) and display_port(&port).
GetPort ==
    /\ pc = "port"
    /\ LET i == ifs[idx] IN
       IF Answer("GET_PORT", i) = "NONE"
       THEN /\ idx' = idx + 1
            /\ pc' = "chassis"
            /\ UNCHANGED <<shown, touches>>
       ELSE /\ shown' = Append(shown, [iface |-> i, chassis |-> chassis,
                                       port |-> nb[i], vlans |-> NoNbr])
            /\ touches' = touches \cup DisplayChassis(chassis) \cup DisplayPort(nb[i])
            /\ pc' = "vlans"
            /\ UNCHANGED idx
    /\ UNCHANGED <<nb, changes, ifs, chassis, absent, xfers>>

\* main() copies the unserialized head into port.p_vlans, a struct on its
\* stack (at PortAddr), and display_vlans() walks it with TAILQ_FOREACH.
PortAddr == ClientBase
MemcpyHead(h, dst, src) == (dst :> h[src]) @@ h
DisplayVlans(h, head) == Foreach(h, h[head].mem[0], Cardinality(DOMAIN h))

\* The GET_VLANS exchange for a neighbour: the port's VLAN list on the
\* daemon's heap, serialized from its head; the list get_vlans unserializes
\* into vls; and what main() displays.  It depends on the neighbour only,
\* and is computed once for each.
Exchange ==
    [n \in Nbrs |->
        LET sent == PortVlans(n.vlans)
            vls == Unserialize(Serialize(sent, 1, "vlans"), "vlans")
        IN  [sent |-> sent, got |-> vls,
             display |-> DisplayVlans(MemcpyHead(vls.heap, PortAddr, vls.root), PortAddr)]]

\* get_vlans(): any answer other than GET_VLANS is fatalx("unknown answer
\* type received"); otherwise the list is unserialized into vls and
\* displayed, and the loop goes on.
GetVlans ==
    /\ pc = "vlans"
    /\ LET i == ifs[idx] IN
       IF Answer("GET_VLANS", i) # "GET_VLANS"
       THEN /\ pc' = "aborted"
            /\ UNCHANGED <<idx, shown, xfers>>
       ELSE /\ shown' = [shown EXCEPT ![Len(shown)].vlans = Exchange[nb[i]].display]
            /\ xfers' = xfers \cup {[k |-> Len(shown), sent |-> Exchange[nb[i]].sent,
                                     got |-> Exchange[nb[i]].got]}
            /\ idx' = idx + 1
            /\ pc' = "chassis"
    /\ UNCHANGED <<nb, changes, ifs, chassis, touches, absent>>

Init ==
    /\ nb \in [Ifaces -> Nbrs \cup {NoNbr}]
    /\ changes = 0
    /\ pc = "start"
    /\ ifs = <<>>
    /\ idx = 1
    /\ chassis = NoNbr
    /\ shown = <<>>
    /\ touches = {}
    /\ absent = {i \in Ifaces : nb[i] = NoNbr}
    /\ xfers = {}

Client == GetInterfaces \/ GetChassis \/ GetPort \/ GetVlans \/ Finish

Next ==
    \/ Client
    \/ \E i \in Ifaces, n \in Nbrs \cup {NoNbr} : NeighbourChange(i, n)

Spec == Init /\ [][Next]_vars

-----------------------------------------------------------------------------
(* Properties. *)

\* Display reads and writes only inside the buffers it uses: dump()'s
\* malloc(len) buffer, and the chassis and port identifiers of the length
\* the daemon sent.
DisplayInBounds ==
    \A t \in touches : 0 <= t.lo /\ t.hi < t.size

\* Spec 7: a per-interface failure is not exposed to the client, the
\* table just omits that interface; lldpctl exits with an error only when
\* the daemon is unreachable or answers with an unexpected type.  A
\* neighbour that expires between get_port and get_vlans must not abort
\* main().
NoAbort == pc # "aborted"

\* When main() returns, every interface of the list that had a neighbour
\* throughout has been displayed: the loop visits each interface once and
\* skips one only on a NONE answer.
ShownComplete ==
    pc = "done" =>
        \A i \in Ifaces \ absent : \E k \in DOMAIN shown : shown[k].iface = i

\* Spec 8 (1, 2): the VLAN list lldpctl unserializes is isomorphic to the
\* daemon's TAILQ, prev links and the head's last pointer included, and
\* what main() displays through the copied head is the daemon's VLANs in
\* list order.  Both hang on every pointer field of the list being
\* declared in the schema and resolved through the identity map.
VlansRoundTrip ==
    \A x \in xfers :
        /\ Iso(x.sent, 1, x.got.heap, x.got.root)
        /\ shown[x.k].vlans = Foreach(x.sent, x.sent[1].mem[0], Cardinality(DOMAIN x.sent))

=============================================================================

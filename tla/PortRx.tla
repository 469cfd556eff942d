------------------------------- MODULE PortRx -------------------------------
(***************************************************************************)
(* What the receive path of a port promises, without sockets, kernels or  *)
(* bonds: once a hardware listens on an interface, every neighbour frame   *)
(* that arrives on that interface is heard by it, unless the hardware is   *)
(* replaced first; and nothing else is heard.  PortIO implements it under  *)
(* the mapping given there.                                                *)
(***************************************************************************)
CONSTANTS Ifaces, Frames, Wanted   \* Wanted: the frames the port listens for

VARIABLES
    listening,   \* interfaces with an open hardware
    pending,     \* <<frame, interface>> arrived and not yet heard
    got          \* the frames each interface's hardware has heard

vars == <<listening, pending, got>>

Init ==
    /\ listening = {}
    /\ pending = {}
    /\ got = [i \in Ifaces |-> {}]

\* A hardware is opened on i, or replaced by a new one: what the old one
\* had not yet heard is lost.
Open(i) ==
    /\ listening' = listening \cup {i}
    /\ pending' = {p \in pending : p[2] # i}
    /\ UNCHANGED got

\* Frame f arrives on i; it is owed only to a listening hardware, and only
\* if it is a frame the port listens for.
Arrive(f, i) ==
    /\ pending' = IF i \in listening /\ f \in Wanted THEN pending \cup {<<f, i>>} ELSE pending
    /\ UNCHANGED <<listening, got>>

\* The hardware on i hears f.
Hear(f, i) ==
    /\ <<f, i>> \in pending
    /\ got' = [got EXCEPT ![i] = @ \cup {f}]
    /\ pending' = pending \ {<<f, i>>}
    /\ UNCHANGED listening

Next ==
    \E i \in Ifaces : Open(i) \/ \E f \in Frames : Arrive(f, i) \/ Hear(f, i)

Spec == Init /\ [][Next]_vars /\ \A f \in Frames, i \in Ifaces : WF_vars(Hear(f, i))

=============================================================================

------------------------------ MODULE MCPortIO ------------------------------
(* Two interfaces that can be enslaved to one of two bonds, two neighbour  *)
(* frames.                                                                  *)
EXTENDS PortIO, TLC

CONSTANTS e1, e2, b1, b2, f1, f2

MCSlaves == {e1, e2}
MCMasters == {b1, b2}
MCFrames == {f1, f2}

\* f1 an LLDPDU, f2 an ARP broadcast the filter drops, Own lldpd's LLDPDU.
MCContent ==
    (f1 :> [dst |-> LLDP_MULTICAST, type |-> ETH_P_LLDP])
    @@ (f2 :> [dst |-> Mac(255, 255, 255, 255, 255, 255), type |-> 2054])
    @@ (Own :> [dst |-> LLDP_MULTICAST, type |-> ETH_P_LLDP])

=============================================================================

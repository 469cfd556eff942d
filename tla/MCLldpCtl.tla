----------------------------- MODULE MCLldpCtl -----------------------------
(* Three interfaces; neighbours whose identifiers cover the display cases.  *)
EXTENDS LldpCtl

CONSTANTS i1, i2, i3

MCIfOrder == <<i1, i2, i3>>

\* A switch announcing its MAC as chassis id and its port name, with two
\* VLANs; and a host announcing an IPv4 management address as chassis id
\* and a locally assigned port id, with none.
Switch == [csub |-> "lladdr", clen |-> 6, cfirst |-> 0,
           psub |-> "ifname", plen |-> 5, pfirst |-> 0, vlans |-> <<10, 20>>]
Host == [csub |-> "addr", clen |-> 5, cfirst |-> 1,
         psub |-> "other", plen |-> 20, pfirst |-> 0, vlans |-> <<>>]
\* A peer whose network-address chassis id is cut short, which the daemon
\* stores with the length the frame gave.
Short == [csub |-> "addr", clen |-> 2, cfirst |-> 1,
          psub |-> "ifname", plen |-> 4, pfirst |-> 0, vlans |-> <<30>>]
MCNbrs == {Switch, Host, Short}

=============================================================================

---------------------------- MODULE MCClassifier ----------------------------
(* Two physical interfaces that can be enslaved to a bond, a bridge over   *)
(* the first one, a VLAN on one bond and an IPv4 address on each bond.     *)
EXTENDS Classifier

MCVlanDev == [v \in Vlans |-> CHOOSE b \in Bonds : TRUE]
MCBridgePorts == [br \in Bridges |-> {CHOOSE p \in Phys : TRUE}]
MCIfOrder == SetToSeq(Phys) \o SetToSeq(Bonds) \o SetToSeq(Bridges) \o SetToSeq(Vlans)
MCInetOrder == SetToSeq(Bonds)
\* lldpd -m matching the address of one bond.
MCMgmtPattern == {CHOOSE b \in Bonds : TRUE}
=============================================================================

------------------------------ MODULE MCPrivSep ------------------------------
(* The paths the worker may ask for: a bond's /proc file, that of a bond  *)
(* that no longer exists, a file outside the allowlist, and two ways of    *)
(* reaching it from an allowlisted prefix: through an empty component      *)
(* (which [^.] accepts) and through the bond file (not a directory).       *)
EXTENDS PrivSep

BondFile == <<"proc", "net", "bonding", "b1">>
Shadow == <<"etc", "shadow">>
BondGone == <<"proc", "net", "bonding", "b2">>
ViaEmpty == <<"proc", "net", "bonding", "", "..", "..", "..", "etc", "shadow">>
ViaFile == <<"proc", "net", "bonding", "b1", "..", "..", "..", "etc", "shadow">>

MCPaths == {BondFile, BondGone, Shadow, ViaEmpty, ViaFile}
MCDirs == {<<>>, <<"proc">>, <<"proc", "net">>, <<"proc", "net", "bonding">>, <<"etc">>}
MCFiles == {BondFile, Shadow}
=============================================================================

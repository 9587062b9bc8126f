------------------------- MODULE MCPrivateNetworks -------------------------
(***************************************************************************)
(* Small instances of PrivateNetworks for TLC: two IPs in the cluster's PN *)
(* and one in another.                                                     *)
(***************************************************************************)
EXTENDS PrivateNetworks

CONSTANTS pn1, pn2, pn3, i1, i2, i3

Nets == [ip \in IPs |-> IF ip = i3 THEN pn2 ELSE pn1]
=============================================================================

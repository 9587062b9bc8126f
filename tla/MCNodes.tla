------------------------------ MODULE MCNodes ------------------------------
(***************************************************************************)
(* Small instances of Nodes for TLC: two instances, in two zones, and a    *)
(* bare metal server, all of one name.  The first instance has a NIC in the*)
(* cluster's private network and in another one, and a legacy private IP.  *)
(***************************************************************************)
EXTENDS Nodes

CONSTANTS n1, i1, i2, b1, z1, z2, p1, p2

ProductOfDef == [s \in ServerIds |-> IF s = b1 THEN "baremetal" ELSE "instance"]
ZoneOfDef    == [s \in ServerIds |-> IF s = i2 THEN z2 ELSE z1]
NameOfDef    == [s \in ServerIds |-> n1]
NicsDef      == [s \in ServerIds |-> IF s = i1 THEN {p1, p2} ELSE {}]
NicIPDef     == [s \in ServerIds |-> [pn \in PNs |-> IF pn = p1 THEN 1 ELSE 2]]
LegacyIPDef  == [s \in ServerIds |-> IF s = i1 THEN 3 ELSE NoIP]
PublicIPDef  == [s \in ServerIds |-> IF s = i1 THEN 4 ELSE IF s = i2 THEN 5 ELSE 6]
IPsDef       == 1..7
LabelsDef    == [n \in NodeNames |-> {[disable |-> FALSE, pubip |-> NoIP],
                                      [disable |-> TRUE, pubip |-> 7]}]
=============================================================================

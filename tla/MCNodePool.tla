----------------------------- MODULE MCNodePool -----------------------------
(***************************************************************************)
(* Small instances of NodePool for TLC: n1 has an external address only, as*)
(* a bare metal server has, or another one and an internal one; n2 has both*)
(* kinds.                                                                  *)
(***************************************************************************)
EXTENDS NodePool

CONSTANTS n1, n2, k1, v1, v2

IPsDef == {1, 2, 3, 9, 11, 12}

Ext(ip) == [type |-> "ExternalIP", ip |-> ip]
Int1(ip) == [type |-> "InternalIP", ip |-> ip]

DescribableDef ==
  [n \in NodeNames |->
     IF n = n1 THEN {{Ext(1)}, {Ext(3), Int1(11)}}
               ELSE {{Ext(2), Int1(12)}}]

LabelsOfDef == [n \in NodeNames |-> [k \in {k1} |-> IF n = n1 THEN v1 ELSE v2]]

\* No target label and no source range; any value of a label and source ranges,
\* one of them a node's; one value and a source range that is no CIDR.
ServicesDef ==
  {[target |-> <<>>, ranges |-> {}, internal |-> FALSE],
   [target |-> [k \in {k1} |-> AnyValue], ranges |-> {9, 2, InvalidCIDR}, internal |-> TRUE],
   [target |-> [k \in {k1} |-> v1], ranges |-> {InvalidCIDR}, internal |-> FALSE]}
-----------------------------------------------------------------------------
\* Sorted and chunkArray against the sort of the standard modules and the loop
\* of the code.
RECURSIVE Chunked(_, _)
Chunked(s, size) ==
  IF s = <<>> THEN <<>>
  ELSE LET n == IF Len(s) < size THEN Len(s) ELSE size
       IN  <<SubSeq(s, 1, n)>> \o Chunked(SubSeq(s, n + 1, Len(s)), size)

ASSUME ListsAreSortedAndCut ==
  \A s \in BoundedSeq({1, 2, 4}, 5) :
    /\ Sorted[s] = SortSeq(s, <)
    /\ \A size \in 1..6 : chunkArray(s, size) = Chunked(s, size)
=============================================================================

----------------------------- MODULE MCTagSync -----------------------------
(***************************************************************************)
(* Small instances of TagSync for TLC: the lists of tags users may set.    *)
(***************************************************************************)
EXTENDS TagSync

CONSTANTS x, v1, v2

Label(n, v)   == [taint |-> FALSE, noprefix |-> FALSE, name |-> n, value |-> v, valid |-> TRUE]
Plain(n, v)   == [taint |-> FALSE, noprefix |-> TRUE,  name |-> n, value |-> v, valid |-> TRUE]
Taint(n, v)   == [taint |-> TRUE,  noprefix |-> FALSE, name |-> n, value |-> v, valid |-> TRUE]
PlainTaint(n, v) == [taint |-> TRUE, noprefix |-> TRUE, name |-> n, value |-> v, valid |-> TRUE]
Bad(n, v)     == [taint |-> FALSE, noprefix |-> FALSE, name |-> n, value |-> v, valid |-> FALSE]

\* No tag, a label given twice, a label and a taint without the prefix, a taint
\* and the exclude tag, a tag that is not valid.
SomeTagLists == {<<>>,
                 <<Label(x, v1), Label(x, v2)>>,
                 <<Plain(x, v1), PlainTaint(x, v1)>>,
                 <<Taint(x, v1), ExcludeTag, Bad(x, v2)>>}

TaintTagLists == {<<PlainTaint(x, v1)>>, <<Taint(x, v1)>>}

PlainX == {[prefixed |-> FALSE, name |-> x], Exclude}
=============================================================================

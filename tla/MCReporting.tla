---------------------------- MODULE MCReporting -----------------------------
(* An IPv4 address, two spellings of one IPv6 address, and names with equal   *)
(* counts; PTR records that name a recorded host, a new one, an address, and  *)
(* nothing; every form of filter.                                             *)
EXTENDS Reporting

CONSTANTS ip4, ip6

v4  == <<49>>                \* 1, for an IPv4 address
v6  == <<58, 58>>            \* ::
w6  == <<48, 58, 58>>        \* 0::
ab  == <<97, 46, 98>>        \* a.b
cb  == <<99, 98>>            \* cb
cbD == <<99, 98, 46>>        \* cb. , as split_authority leaves it

MCHosts == {v4, v6, w6, ab, cb, cbD}
MCIpOf == [h \in MCHosts |-> IF h = v4 THEN ip4 ELSE IF h \in {v6, w6} THEN ip6 ELSE NoIp]

Rec(h, ingress, egress, connections, ip) ==
    [host |-> h, stats |-> [ingress |-> ingress, egress |-> egress,
                            connections |-> connections, ip |-> ip]]

MCRecorded == {
    <<>>,
    <<Rec(ab, 2, 1, 1, ip4), Rec(cb, 2, 1, 1, NoIp), Rec(cbD, 2, 2, 1, ip4)>>,
    <<Rec(v4, 1, 0, 1, ip4), Rec(v6, 1, 0, 2, ip6), Rec(ab, 3, 0, 1, NoIp)>>,
    <<Rec(v6, 1, 1, 1, ip6), Rec(w6, 2, 0, 1, ip6), Rec(v4, 0, 0, 0, NoIp), Rec(cb, 3, 1, 1, ip4)>>}

\* A.B. and cb. and 1. and a dot alone.
MCAnswers == {<<65, 46, 66, 46>>, <<99, 98, 46>>, <<49, 46>>, <<46>>}

Filter(text, labels) == [text |-> text, labels |-> labels]
a == <<97>>
b == <<98>>

\* none, b, *.B, .a.b. , *.*.b, a, *. , empty, cb.
MCFilters == {Filter(NoFilter, <<>>), Filter(b, <<b>>), Filter(<<42, 46, 66>>, <<b>>),
              Filter(<<46, 97, 46, 98, 46>>, <<a, b>>), Filter(<<42, 46, 42, 46, 98>>, <<b>>),
              Filter(a, <<a>>), Filter(<<42, 46>>, <<>>), Filter(<<>>, <<>>),
              Filter(cbD, <<cb>>)}

\* 256 stands for the codes of systems whose codes are wider than a byte.
MCStatuses == {[signalled |-> s, value |-> v] : s \in {FALSE}, v \in {0, 1, 255, 256}}
              \cup {[signalled |-> TRUE, value |-> 9]}
=============================================================================

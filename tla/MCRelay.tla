------------------------------ MODULE MCRelay -------------------------------
(* Two names that may share an address, one of which has an address of its    *)
(* own and one that cannot be reached, and a name that has no address.        *)
EXTENDS Relay

const_IpName == [ip \in Ips |-> ip]

const_DnsOf == [h \in Hosts |-> CASE h = "a" -> {"ip1"}
                                  [] h = "b" -> {"ip1", "ip2", "ip6"}
                                  [] OTHER   -> {h} \cap Ips]

\* A host on two ports, the second name, an address, and a name that is none.
const_Dests == {<<"a", 1>>, <<"a", 2>>, <<"b", 1>>, <<"ip1", 1>>, <<"unknown", 1>>}
=============================================================================

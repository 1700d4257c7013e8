------------------------------- MODULE Stats -------------------------------
(***************************************************************************)
(* The counters of one remote endpoint (src/src/stats.rs, EndpointStats).   *)
(*                                                                         *)
(* The four fields are atomics, or a mutex around one word, and every       *)
(* method touches one field once, so each method is one atomic operation    *)
(* on the record.  An IP address is an element of Ips; NoIp is None.         *)
(***************************************************************************)
EXTENDS Integers

CONSTANTS Ips, NoIp

ASSUME NoIpAssumption == NoIp \notin Ips

EndpointStats == [ingress : Nat, egress : Nat, connections : Nat,
                  ip : Ips \cup {NoIp}]

\* #[derive(Default)]: what Registry::endpoint inserts for a new host.
NewStats == [ingress |-> 0, egress |-> 0, connections |-> 0, ip |-> NoIp]

add_ingress(stats, n) == [stats EXCEPT !.ingress = @ + n]

add_egress(stats, n) == [stats EXCEPT !.egress = @ + n]

add_connection(stats) == [stats EXCEPT !.connections = @ + 1]

\* The first address observed wins (get_or_insert).  Observing NoIp changes
\* nothing, which is what happens where peer_addr() fails.
observe_ip(stats, addr) ==
    [stats EXCEPT !.ip = IF @ = NoIp THEN addr ELSE @]
=============================================================================

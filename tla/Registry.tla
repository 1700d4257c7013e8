------------------------------ MODULE Registry ------------------------------
(***************************************************************************)
(* The registry shared by every connection task (src/src/stats.rs,          *)
(* Registry and OpenGuard).                                                 *)
(*                                                                         *)
(* The map from host to Arc<EndpointStats> is `endpoints`; an Arc is an     *)
(* index of `heap`, so that the difference between a row of the map and a   *)
(* counter somebody still holds is visible; 0 is "no entry".  Each method   *)
(* that changes the map runs under the map's mutex, hence is atomic.        *)
(***************************************************************************)
EXTENDS Stats, Sequences

CONSTANT Hosts

VARIABLES endpoints,         \* the map, by host
          heap,              \* every EndpointStats ever allocated
          open_connections   \* the guards alive

registryVars == <<endpoints, heap, open_connections>>

RegistryTypeOK ==
    /\ heap \in Seq(EndpointStats)
    /\ endpoints \in [Hosts -> 0 .. Len(heap)]
    /\ open_connections \in Nat

RegistryInit ==
    /\ endpoints = [h \in Hosts |-> 0]
    /\ heap = <<>>
    /\ open_connections = 0

Present(host) == endpoints[host] # 0

\* Registry::endpoint, in three parts: the handle it returns, and the map and
\* the heap it leaves behind.
endpoint(host) == IF Present(host) THEN endpoints[host] ELSE Len(heap) + 1

MapWith(host) == [endpoints EXCEPT ![host] = endpoint(host)]

HeapWith(host) == IF Present(host) THEN heap ELSE Append(heap, NewStats)

\* The counters of a host's row; a host without a row has counted nothing.
RowStats(host) == IF Present(host) THEN heap[endpoints[host]] ELSE NewStats

track_open == open_connections' = open_connections + 1

\* Mutant: a guard that is dropped is never given back.
drop_guard_leaks == UNCHANGED open_connections

drop_guard == open_connections' = open_connections - 1

\* stats merged into existing, field by field.
Merged(existing, stats) ==
    [ingress     |-> existing.ingress + stats.ingress,
     egress      |-> existing.egress + stats.egress,
     connections |-> existing.connections + stats.connections,
     ip          |-> IF existing.ip = NoIp THEN stats.ip ELSE existing.ip]

\* Mutant: the row of `to` is replaced instead of merged into.
rename_overwrites(from, to) ==
    IF from = to \/ ~Present(from)
    THEN UNCHANGED <<endpoints, heap>>
    ELSE /\ endpoints' = [endpoints EXCEPT ![from] = 0, ![to] = endpoints[from]]
         /\ UNCHANGED heap

\* Mutant: the row of `from` is merged and kept.
rename_keeps(from, to) ==
    IF from = to \/ ~Present(from)
    THEN UNCHANGED <<endpoints, heap>>
    ELSE /\ endpoints' = [endpoints EXCEPT ![to] =
                             IF Present(to) THEN @ ELSE endpoints[from]]
         /\ heap' = IF Present(to)
                    THEN [heap EXCEPT ![endpoints[to]] =
                             Merged(@, heap[endpoints[from]])]
                    ELSE heap

\* The Arc of `from` moves to the row of `to`, or, when that row exists, its
\* counts are added there and the Arc is left to whoever still holds it.
rename(from, to) ==
    IF from = to \/ ~Present(from)
    THEN UNCHANGED <<endpoints, heap>>
    ELSE IF Present(to)
         THEN /\ endpoints' = [endpoints EXCEPT ![from] = 0]
              /\ heap' = [heap EXCEPT ![endpoints[to]] =
                             Merged(@, heap[endpoints[from]])]
         ELSE /\ endpoints' = [endpoints EXCEPT ![from] = 0,
                                                ![to] = endpoints[from]]
              /\ UNCHANGED heap

\* Registry::hosts.
hosts == {h \in Hosts : Present(h)}
=============================================================================

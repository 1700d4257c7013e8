----------------------------- MODULE Lifecycle ------------------------------
(***************************************************************************)
(* A whole run of wiretally: the accept loop and the connection tasks of     *)
(* src/src/proxy.rs on one side, and on the other the main task of           *)
(* src/src/main.rs, which waits for the child, drops the proxy, drains,      *)
(* names the endpoints known only by address, and takes the snapshot that    *)
(* becomes the report.  They meet in the Registry.                           *)
(*                                                                         *)
(* tokio's runtime has several worker threads, so that tasks interleave at   *)
(* every await and a task being polled runs on while another one aborts it:  *)
(* JoinHandle::abort takes effect when that poll ends.  Traffic is reduced   *)
(* to unit counts; what a tunnel counts is the matter of Tunnel.             *)
(***************************************************************************)
EXTENDS Registry, Sums, FiniteSets

CONSTANTS Conns,     \* the connections the child's processes may open
          Targets,   \* the hosts they ask for
          IpHosts,   \* the hosts that parse as an IP address
          PtrNames,  \* the names a reverse lookup may answer
          Kinds,     \* which of "tunnel", "http" and "udp" they ask for
          MaxBytes,  \* bound on the units of traffic of one connection
          MaxOpens   \* bound on the upstream connections of one client's

ASSUME SetsAssumption == /\ IsFiniteSet(Conns)
                         /\ IsFiniteSet(Hosts)
                         /\ Targets \subseteq Hosts
                         /\ IpHosts \subseteq Hosts
                         /\ PtrNames \subseteq Hosts
                         /\ MaxBytes \in Nat
                         /\ MaxOpens \in Nat

VARIABLES
    main,         \* where main's run() is
    expired,      \* the drain deadline has passed
    accept_loop,  \* the accept loop's task
    aborted,      \* Proxy was dropped: the accept loop is to be cancelled
    task,         \* per connection, its task
    up,           \* per connection, its upstream socket or its UDP relay
    handle,       \* per connection, the Arc<EndpointStats> it holds, or 0
    opens,        \* per connection, the upstream connections it opened
    seen,         \* per connection, the traffic it really relayed
    lookups,      \* the addresses whose reverse lookup is still awaited
    rows,         \* the rows of the snapshot still to be read
    report,       \* the rows read
    drained       \* per connection, the traffic relayed when drain() returned

mainVars == <<main, expired, lookups, rows, report, drained>>
loopVars == <<accept_loop, aborted>>
connVars == <<task, up, handle, opens, seen>>
vars     == <<registryVars, mainVars, loopVars, connVars>>

TypeOK ==
    /\ RegistryTypeOK
    /\ main \in {"wait", "drain", "resolve", "snapshot", "exited"}
    /\ expired \in BOOLEAN
    /\ accept_loop \in {"parked", "polling", "stopped"}
    /\ aborted \in BOOLEAN
    /\ task \in [Conns -> {"none", "backlog", "spawned", "handshake",
                           "tunnel", "http", "udp", "closed"}]
    /\ up \in [Conns -> {"none", "dialing", "open",
                         "parked", "polling", "stopping"}]
    /\ handle \in [Conns -> 0 .. Len(heap)]
    /\ opens \in [Conns -> Nat]
    /\ seen \in [Conns -> Nat]
    /\ lookups \in SUBSET Hosts
    /\ rows \in SUBSET Hosts
    /\ report \in [Hosts -> EndpointStats]
    /\ drained \in [Conns -> Nat]

Init ==
    /\ RegistryInit
    /\ main = "wait"
    /\ expired = FALSE
    /\ accept_loop = "parked"
    /\ aborted = FALSE
    /\ task = [c \in Conns |-> "none"]
    /\ up = [c \in Conns |-> "none"]
    /\ handle = [c \in Conns |-> 0]
    /\ opens = [c \in Conns |-> 0]
    /\ seen = [c \in Conns |-> 0]
    /\ lookups = {}
    /\ rows = {}
    /\ report = [h \in Hosts |-> NewStats]
    /\ drained = [c \in Conns |-> 0]

\* Leaving main ends the runtime, and every task with it.
Alive == main # "exited"

-----------------------------------------------------------------------------
(* The accept loop.                                                         *)

\* A process of the child connects; the listener lives as long as the loop.
Connect(c) ==
    /\ Alive
    /\ task[c] = "none"
    /\ accept_loop # "stopped"
    /\ task' = [task EXCEPT ![c] = "backlog"]
    /\ UNCHANGED <<registryVars, mainVars, loopVars, up, handle, opens, seen>>

LoopPolled ==
    /\ Alive
    /\ accept_loop = "parked"
    /\ \E c \in Conns : task[c] = "backlog"
    /\ accept_loop' = "polling"
    /\ UNCHANGED <<registryVars, mainVars, aborted, connVars>>

\* accept() and spawn: the new task has not run, so it holds no guard yet.
LoopAccepts(c) ==
    /\ Alive
    /\ accept_loop = "polling"
    /\ task[c] = "backlog"
    /\ task' = [task EXCEPT ![c] = "spawned"]
    /\ UNCHANGED <<registryVars, mainVars, loopVars, up, handle, opens, seen>>

\* The poll ends at an accept() that has to wait; a pending abort takes effect.
LoopYields ==
    /\ Alive
    /\ accept_loop = "polling"
    /\ accept_loop' = IF aborted THEN "stopped" ELSE "parked"
    /\ UNCHANGED <<registryVars, mainVars, aborted, connVars>>

-----------------------------------------------------------------------------
(* Connection tasks.                                                        *)

\* The task's first poll takes the guard.
TaskStarts(c) ==
    /\ Alive
    /\ task[c] = "spawned"
    /\ task' = [task EXCEPT ![c] = "handshake"]
    /\ track_open
    /\ UNCHANGED <<endpoints, heap, mainVars, loopVars, up, handle, opens, seen>>

\* Nothing to serve: the client left, its request is malformed or refused, or
\* the relay's sockets cannot be bound.
HandshakeFails(c) ==
    /\ Alive
    /\ task[c] = "handshake"
    /\ task' = [task EXCEPT ![c] = "closed"]
    /\ drop_guard
    /\ UNCHANGED <<endpoints, heap, mainVars, loopVars, up, handle, opens, seen>>

\* connect_and_splice, to its dial.
TunnelDials(c, host) ==
    /\ Alive
    /\ "tunnel" \in Kinds
    /\ task[c] = "handshake"
    /\ task' = [task EXCEPT ![c] = "tunnel"]
    /\ up' = [up EXCEPT ![c] = "dialing"]
    /\ handle' = [handle EXCEPT ![c] = endpoint(host)]
    /\ endpoints' = MapWith(host)
    /\ heap' = HeapWith(host)
    /\ UNCHANGED <<open_connections, mainVars, loopVars, opens, seen>>

TunnelRefused(c) ==
    /\ Alive
    /\ task[c] = "tunnel"
    /\ up[c] = "dialing"
    /\ task' = [task EXCEPT ![c] = "closed"]
    /\ up' = [up EXCEPT ![c] = "none"]
    /\ handle' = [handle EXCEPT ![c] = 0]
    /\ drop_guard
    /\ UNCHANGED <<endpoints, heap, mainVars, loopVars, opens, seen>>

\* Connected; addr is the peer's address, NoIp if it cannot be told.
TunnelOpens(c, addr) ==
    /\ Alive
    /\ task[c] = "tunnel"
    /\ up[c] = "dialing"
    /\ up' = [up EXCEPT ![c] = "open"]
    /\ heap' = [heap EXCEPT ![handle[c]] = add_connection(observe_ip(@, addr))]
    /\ opens' = [opens EXCEPT ![c] = @ + 1]
    /\ UNCHANGED <<endpoints, open_connections, mainVars, loopVars,
                   task, handle, seen>>

TunnelEnds(c) ==
    /\ Alive
    /\ task[c] = "tunnel"
    /\ up[c] = "open"
    /\ task' = [task EXCEPT ![c] = "closed"]
    /\ up' = [up EXCEPT ![c] = "none"]
    /\ handle' = [handle EXCEPT ![c] = 0]
    /\ drop_guard
    /\ UNCHANGED <<endpoints, heap, mainVars, loopVars, opens, seen>>

\* serve_http: hyper serves the client connection.
HttpStarts(c) ==
    /\ Alive
    /\ "http" \in Kinds
    /\ task[c] = "handshake"
    /\ task' = [task EXCEPT ![c] = "http"]
    /\ UNCHANGED <<registryVars, mainVars, loopVars, up, handle, opens, seen>>

\* A request for which the pool has no connection: CountingConnector::call.
HttpDials(c, host) ==
    /\ Alive
    /\ task[c] = "http"
    /\ up[c] = "none"
    /\ opens[c] < MaxOpens
    /\ up' = [up EXCEPT ![c] = "dialing"]
    /\ handle' = [handle EXCEPT ![c] = endpoint(host)]
    /\ endpoints' = MapWith(host)
    /\ heap' = HeapWith(host)
    /\ UNCHANGED <<open_connections, mainVars, loopVars, task, opens, seen>>

\* The client is answered 502 and its connection stays.
HttpDialFails(c) ==
    /\ Alive
    /\ task[c] = "http"
    /\ up[c] = "dialing"
    /\ up' = [up EXCEPT ![c] = "none"]
    /\ handle' = [handle EXCEPT ![c] = 0]
    /\ UNCHANGED <<registryVars, mainVars, loopVars, task, opens, seen>>

\* Mutant: the upstream connection has no guard of its own.
UpstreamGuard_none == UNCHANGED open_connections

\* CountedStream::_guard.
UpstreamGuard == track_open

\* Connected, and the address noted; the upstream connection takes a second
\* guard, its own.
HttpOpens(c, addr) ==
    /\ Alive
    /\ task[c] = "http"
    /\ up[c] = "dialing"
    /\ up' = [up EXCEPT ![c] = "open"]
    /\ heap' = [heap EXCEPT ![handle[c]] = add_connection(observe_ip(@, addr))]
    /\ opens' = [opens EXCEPT ![c] = @ + 1]
    /\ UpstreamGuard
    /\ UNCHANGED <<endpoints, mainVars, loopVars, task, handle, seen>>

\* hyper drops the upstream connection, pooled or not, in a task of its own.
HttpUpstreamEnds(c) ==
    /\ Alive
    /\ task[c] \in {"http", "closed"}
    /\ up[c] = "open"
    /\ up' = [up EXCEPT ![c] = "none"]
    /\ handle' = [handle EXCEPT ![c] = 0]
    /\ drop_guard
    /\ UNCHANGED <<endpoints, heap, mainVars, loopVars, task, opens, seen>>

\* The client connection ends: a dial under way is dropped with its request,
\* an open upstream connection is not.
HttpEnds(c) ==
    /\ Alive
    /\ task[c] = "http"
    /\ task' = [task EXCEPT ![c] = "closed"]
    /\ up' = [up EXCEPT ![c] = IF @ = "dialing" THEN "none" ELSE @]
    /\ handle' = [handle EXCEPT ![c] = IF up[c] = "dialing" THEN 0 ELSE @]
    /\ drop_guard
    /\ UNCHANGED <<endpoints, heap, mainVars, loopVars, opens, seen>>

\* relay_udp spawns the relay, which holds no guard.
UdpStarts(c) ==
    /\ Alive
    /\ "udp" \in Kinds
    /\ task[c] = "handshake"
    /\ task' = [task EXCEPT ![c] = "udp"]
    /\ up' = [up EXCEPT ![c] = "parked"]
    /\ UNCHANGED <<registryVars, mainVars, loopVars, handle, opens, seen>>

RelayPolled(c) ==
    /\ Alive
    /\ up[c] = "parked"
    /\ up' = [up EXCEPT ![c] = "polling"]
    /\ UNCHANGED <<registryVars, mainVars, loopVars, task, handle, opens, seen>>

\* The first datagram for a destination: Relay::endpoint.
RelayOpens(c, host) ==
    /\ Alive
    /\ up[c] \in {"polling", "stopping"}
    /\ handle[c] = 0
    /\ handle' = [handle EXCEPT ![c] = endpoint(host)]
    /\ endpoints' = MapWith(host)
    /\ heap' = [HeapWith(host) EXCEPT ![endpoint(host)] = add_connection(@)]
    /\ opens' = [opens EXCEPT ![c] = @ + 1]
    /\ UNCHANGED <<open_connections, mainVars, loopVars, task, up, seen>>

\* The poll ends; a pending abort takes effect.
RelayYields(c) ==
    /\ Alive
    /\ up[c] \in {"polling", "stopping"}
    /\ up' = [up EXCEPT ![c] = IF @ = "stopping" THEN "none" ELSE "parked"]
    /\ handle' = [handle EXCEPT ![c] = IF up[c] = "stopping" THEN 0 ELSE @]
    /\ UNCHANGED <<registryVars, mainVars, loopVars, task, opens, seen>>

\* A receive error ends the relay; the control connection stays.
RelayFails(c) ==
    /\ Alive
    /\ up[c] = "polling"
    /\ up' = [up EXCEPT ![c] = "none"]
    /\ handle' = [handle EXCEPT ![c] = 0]
    /\ UNCHANGED <<registryVars, mainVars, loopVars, task, opens, seen>>

\* The control connection ends: relay.abort(), and the task's guard is dropped.
UdpEnds(c) ==
    /\ Alive
    /\ task[c] = "udp"
    /\ task' = [task EXCEPT ![c] = "closed"]
    /\ up' = [up EXCEPT ![c] = IF @ = "polling" THEN "stopping" ELSE "none"]
    /\ handle' = [handle EXCEPT ![c] = IF up[c] = "polling" THEN @ ELSE 0]
    /\ drop_guard
    /\ UNCHANGED <<endpoints, heap, mainVars, loopVars, opens, seen>>

\* The connection moves traffic to or from its host.
Counting(c) == up[c] \in {"open", "polling", "stopping"} /\ handle[c] # 0

\* Where a unit leaves: the relay notes the address of each datagram it sends.
Observed(c) == IF up[c] = "open" THEN {NoIp} ELSE Ips

\* A unit of traffic crosses, and is added to the counters held.
Relays(c) ==
    /\ Alive
    /\ Counting(c)
    /\ seen[c] < MaxBytes
    /\ seen' = [seen EXCEPT ![c] = @ + 1]
    /\ \/ heap' = [heap EXCEPT ![handle[c]] = add_ingress(@, 1)]
       \/ \E addr \in Observed(c) :
            heap' = [heap EXCEPT ![handle[c]] = observe_ip(add_egress(@, 1), addr)]
    /\ UNCHANGED <<endpoints, open_connections, mainVars, loopVars,
                   task, up, handle, opens>>

-----------------------------------------------------------------------------
(* main.                                                                    *)

\* The child exits: drop(proxy), and drain() sets its deadline.
ChildExits ==
    /\ main = "wait"
    /\ main' = "drain"
    /\ aborted' = TRUE
    /\ accept_loop' = IF accept_loop = "parked" THEN "stopped" ELSE accept_loop
    /\ UNCHANGED <<registryVars, expired, lookups, rows, report, drained,
                   connVars>>

DeadlinePasses ==
    /\ main = "drain"
    /\ ~expired
    /\ expired' = TRUE
    /\ UNCHANGED <<registryVars, main, lookups, rows, report, drained,
                   loopVars, connVars>>

\* Mutant: the deadline is not looked at.
DrainOver_no_deadline == open_connections = 0

\* Mutant: one connection left is as good as none.
DrainOver_one_left == open_connections <= 1 \/ expired

\* drain()'s loop condition is false.
DrainOver == open_connections = 0 \/ expired

\* drain() returns, and the lookups of the bare addresses are spawned.
DrainReturns ==
    /\ main = "drain"
    /\ DrainOver
    /\ main' = "resolve"
    /\ lookups' = hosts \cap IpHosts
    /\ drained' = seen
    /\ UNCHANGED <<registryVars, expired, rows, report, loopVars, connVars>>

\* One lookup is awaited, in the order of the map's iteration, which is
\* arbitrary; it answers a name, and the row is renamed ...
LookupAnswers(host, name) ==
    /\ main = "resolve"
    /\ host \in lookups
    /\ lookups' = lookups \ {host}
    /\ rename(host, name)
    /\ UNCHANGED <<open_connections, main, expired, rows, report, drained,
                   loopVars, connVars>>

\* ... or nothing.
LookupFails(host) ==
    /\ main = "resolve"
    /\ host \in lookups
    /\ lookups' = lookups \ {host}
    /\ UNCHANGED <<registryVars, main, expired, rows, report, drained,
                   loopVars, connVars>>

\* snapshot() copies the map's entries, then reads the counters row by row.
SnapshotStarts ==
    /\ main = "resolve"
    /\ lookups = {}
    /\ main' = "snapshot"
    /\ rows' = hosts
    /\ UNCHANGED <<registryVars, expired, lookups, report, drained,
                   loopVars, connVars>>

SnapshotReads(host) ==
    /\ main = "snapshot"
    /\ host \in rows
    /\ rows' = rows \ {host}
    /\ report' = [report EXCEPT ![host] = heap[endpoints[host]]]
    /\ UNCHANGED <<registryVars, main, expired, lookups, drained,
                   loopVars, connVars>>

\* The report is printed and the process exits.
Exit ==
    /\ main = "snapshot"
    /\ rows = {}
    /\ main' = "exited"
    /\ UNCHANGED <<registryVars, expired, lookups, rows, report, drained,
                   loopVars, connVars>>

Terminated == ~Alive /\ UNCHANGED vars

TaskStep(c) ==
    \/ TaskStarts(c) \/ HandshakeFails(c)
    \/ \E host \in Targets : TunnelDials(c, host)
    \/ TunnelRefused(c) \/ TunnelEnds(c)
    \/ \E addr \in Ips \cup {NoIp} : TunnelOpens(c, addr) \/ HttpOpens(c, addr)
    \/ HttpStarts(c)
    \/ \E host \in Targets : HttpDials(c, host)
    \/ HttpDialFails(c) \/ HttpUpstreamEnds(c) \/ HttpEnds(c)
    \/ UdpStarts(c) \/ RelayPolled(c)
    \/ \E host \in Targets : RelayOpens(c, host)
    \/ RelayYields(c) \/ RelayFails(c) \/ UdpEnds(c)
    \/ Relays(c)

MainStep ==
    \/ DrainReturns
    \/ \E host \in IpHosts : \/ LookupFails(host)
                              \/ \E name \in PtrNames : LookupAnswers(host, name)
    \/ SnapshotStarts
    \/ \E host \in Hosts : SnapshotReads(host)
    \/ Exit

Next ==
    \/ \E c \in Conns : Connect(c) \/ LoopAccepts(c) \/ TaskStep(c)
    \/ LoopPolled \/ LoopYields
    \/ ChildExits \/ DeadlinePasses \/ MainStep
    \/ Terminated

\* Time passes, the resolver answers or gives up, and main is polled.  Nothing
\* is assumed of the child, of the connections or of the accept loop.
Fairness == WF_vars(DeadlinePasses) /\ WF_vars(MainStep)

Spec == Init /\ [][Next]_vars /\ Fairness

-----------------------------------------------------------------------------
(* Properties.                                                              *)

\* The traffic in the rows read.
TotalReported == Total([h \in Hosts |-> report[h].ingress + report[h].egress])

\* The tasks that hold a guard, and the upstream connections that hold one.
TaskGuards == {c \in Conns : task[c] \in {"handshake", "tunnel", "http", "udp"}}
UpstreamGuards ==
    {c \in Conns : task[c] \in {"http", "closed"} /\ up[c] = "open"}

\* The in-flight count is the number of guards alive: whatever path a task
\* takes, it returns each guard once, so that the count can reach zero and
\* cannot pass it (an unsigned counter would wrap and the drain never see 0).
GuardsBalance ==
    open_connections = Cardinality(TaskGuards) + Cardinality(UpstreamGuards)

\* drain() returns before its deadline only at a moment when no task is past
\* its first poll and no TCP connection, tunnelled or pooled, can still count.
DrainWaits ==
    [][main = "drain" /\ main' = "resolve" /\ ~expired =>
         \A c \in Conns : /\ task[c] \in {"none", "backlog", "spawned", "closed"}
                          /\ up[c] # "open"]_vars

\* The report holds at least what was relayed when drain() returned and at most
\* what was ever relayed, whatever stragglers, lookups and renames did since:
\* renaming and merging rows neither drop counts nor report them twice.
ReportBracket ==
    main = "exited" => /\ Total(drained) <= TotalReported
                       /\ TotalReported <= Total(seen)

\* main.rs, resolve_ip_only_endpoints: an endpoint reached by hostname keeps its
\* row and its counters; only bare addresses are renamed.
NamesKeepTheirRow ==
    [][\A h \in Hosts \ IpHosts : Present(h) => endpoints'[h] = endpoints[h]]_vars

\* Once the child has exited the report comes out, however many connections
\* never end and however slow the lookups are.
ReportComesOut == (main = "drain") ~> (main = "exited")

\* main.rs:97-98, proxy.rs:75-76: dropping the proxy stops the accept loop and
\* what is in flight is drained, so that, unless the deadline cuts the drain
\* short, the report holds everything that was relayed.
CleanDrainComplete ==
    main = "exited" /\ ~expired => TotalReported = Total(seen)
=============================================================================

------------------------------- MODULE Relay --------------------------------
(***************************************************************************)
(* The UDP relay of one SOCKS5 association (src/src/udp.rs, with the control *)
(* connection of relay_udp in src/src/proxy.rs).                             *)
(*                                                                         *)
(* The relay is one task that takes a datagram from either of its sockets    *)
(* and carries it all the way through before it takes the next.  Its awaits  *)
(* are the values of pc: the select!, the name lookup and the two sends.     *)
(* Between awaits it runs to the next one, so each action below is what it   *)
(* does from one await to the next.  At every await the task may be          *)
(* cancelled.                                                                *)
(*                                                                         *)
(* The network is what is left free: a datagram that is lost never enters a  *)
(* queue, and destinations answer any request any number of times in any     *)
(* order.  The registry is shared with the other connections, one of which   *)
(* may open the same hosts.  Main's renames are in Lifecycle: this is the    *)
(* relay before them.                                                        *)
(***************************************************************************)
EXTENDS Registry, Sums, FiniteSets

CONSTANTS Dests,     \* the destinations datagrams are for: pairs of host and port
          Clients,   \* the addresses the child's processes send from
          NoClient,
          NoHost,
          IpName,    \* an address written as a host: IpAddr::to_string
          Others,    \* the hosts other connections open
          DnsOf,     \* per host, the addresses lookup_host may answer
          V6,        \* the IPv6 addresses, which the upstream socket cannot reach
          Sizes,     \* payload sizes
          MaxOut,    \* bound on the datagrams the clients send
          MaxBack    \* bound on the datagrams that reach the upstream socket

Ports == 0 .. 2^16 - 1

ASSUME RelayAssumption == /\ IsFiniteSet(Hosts)
                          /\ NoHost \notin Hosts
                          /\ Dests \subseteq Hosts \X Ports
                          /\ NoClient \notin Clients
                          /\ IpName \in [Ips -> Hosts]
                          /\ DnsOf \in [Hosts -> SUBSET Ips]
                          /\ Others \subseteq Hosts
                          /\ V6 \subseteq Ips
                          /\ Sizes \subseteq Nat
                          /\ MaxOut \in Nat
                          /\ MaxBack \in Nat

VARIABLES
    pc,           \* the await the relay is at, or "ended"
    control,      \* the association's control connection
    client_side,  \* the receive queue of the socket that faces the clients
    upstream,     \* the receive queue of the socket that faces the internet
    inhand,       \* the datagram being carried
    target,       \* where it is to be sent
    cached,       \* Relay::endpoints: per host a handle, or 0
    resolved,     \* Relay::resolved
    names,        \* Relay::names
    client_addr,  \* Relay::client_addr
    outs, backs,  \* how many datagrams have been queued, against the bounds
    foreign,      \* the hosts another connection has opened
    spoken,       \* per address, the hosts whose datagrams were sent there
    wire,         \* per host, the payload that left for it
    got,          \* per host, the payload of its answers that reached a client
    stray         \* the payload of answers nobody asked for that did

relayVars  == <<pc, inhand, target, cached, resolved, names, client_addr>>
queueVars  == <<client_side, upstream, outs, backs>>
ghostVars  == <<foreign, spoken, wire, got, stray>>
vars       == <<registryVars, relayVars, queueVars, ghostVars, control>>

\* What a client sends: a request for a destination, or a malformed datagram
\* (parse_datagram fails), whose host is NoHost.
Outgoing == {[addr |-> c, host |-> d[1], port |-> d[2], size |-> n] :
                c \in Clients, d \in Dests, n \in Sizes}
                \cup [addr : Clients, host : {NoHost}]

\* What arrives from the internet; `about` is the host whose request it answers,
\* NoHost if it answers none.  The relay sees its source and its size.
Incoming == [from : Ips, about : Hosts \cup {NoHost}, size : Sizes]

Nothing == <<>>

TypeOK ==
    /\ RegistryTypeOK
    /\ pc \in {"select", "resolve", "send_out", "send_back", "ended"}
    /\ control \in {"open", "closed"}
    /\ client_side \in Seq(Outgoing)
    /\ upstream \in Seq(Incoming)
    /\ pc = "send_back" => inhand \in Incoming
    /\ pc \in {"resolve", "send_out"} => inhand \in Outgoing /\ inhand.host \in Hosts
    /\ pc = "send_out" => target \in Ips
    /\ cached \in [Hosts -> 0 .. Len(heap)]
    /\ resolved \in [Dests -> Ips \cup {NoIp}]
    /\ names \in [Ips -> Hosts \cup {NoHost}]
    /\ client_addr \in Clients \cup {NoClient}
    /\ pc = "send_back" => client_addr \in Clients
    /\ outs \in 0 .. MaxOut
    /\ backs \in 0 .. MaxBack
    /\ foreign \in SUBSET Hosts
    /\ spoken \in [Ips -> SUBSET Hosts]
    /\ wire \in [Hosts -> Nat]
    /\ got \in [Hosts -> Nat]
    /\ stray \in Nat

Init ==
    /\ RegistryInit
    /\ pc = "select"
    /\ control = "open"
    /\ client_side = <<>>
    /\ upstream = <<>>
    /\ inhand = Nothing
    /\ target = NoIp
    /\ cached = [h \in Hosts |-> 0]
    /\ resolved = [d \in Dests |-> NoIp]
    /\ names = [a \in Ips |-> NoHost]
    /\ client_addr = NoClient
    /\ outs = 0
    /\ backs = 0
    /\ foreign = {}
    /\ spoken = [a \in Ips |-> {}]
    /\ wire = [h \in Hosts |-> 0]
    /\ got = [h \in Hosts |-> 0]
    /\ stray = 0

-----------------------------------------------------------------------------
(* The environment.                                                         *)

\* A client's datagram reaches the relay.
ClientSends(d) ==
    /\ outs < MaxOut
    /\ outs' = outs + 1
    /\ client_side' = Append(client_side, d)
    /\ UNCHANGED <<registryVars, relayVars, upstream, backs, ghostVars, control>>

\* A datagram arrives from the internet: the answer to a request that left,
\* perhaps a second copy of it, or one nobody asked for.
Arrives(d) ==
    /\ backs < MaxBack
    /\ d.from \notin V6
    /\ d.about # NoHost => d.about \in spoken[d.from]
    /\ backs' = backs + 1
    /\ upstream' = Append(upstream, d)
    /\ UNCHANGED <<registryVars, relayVars, client_side, outs, ghostVars, control>>

\* Another connection of the run opens a host of its own accord.
OtherOpens(h) ==
    /\ h \notin foreign
    /\ foreign' = foreign \cup {h}
    /\ endpoints' = MapWith(h)
    /\ heap' = [HeapWith(h) EXCEPT ![endpoint(h)] = add_connection(@)]
    /\ UNCHANGED <<open_connections, relayVars, queueVars, spoken, wire, got,
                   stray, control>>

\* The client hangs up or its connection fails: relay.abort().
ControlCloses ==
    /\ control = "open"
    /\ control' = "closed"
    /\ UNCHANGED <<registryVars, relayVars, queueVars, ghostVars>>

-----------------------------------------------------------------------------
(* The relay.                                                               *)

\* Back to the select!.
Selects == pc' = "select" /\ inhand' = Nothing /\ target' = NoIp

\* Mutant: the handle is looked up but never cached.
Remember_nothing(host) == UNCHANGED cached

\* Relay::endpoint inserts the handle it has just been given.
Remember(host) == cached' = [cached EXCEPT ![host] = endpoint(host)]

\* Relay::endpoint: the first use of a host by this association counts as one
\* connection, later ones find the handle in the cache.
CacheEndpoint(host) ==
    IF cached[host] # 0
    THEN UNCHANGED <<endpoints, heap, cached>>
    ELSE /\ Remember(host)
         /\ endpoints' = MapWith(host)
         /\ heap' = [HeapWith(host) EXCEPT ![endpoint(host)] = add_connection(@)]

\* run() takes a client's datagram and notes its sender; forward_out drops it if
\* it does not parse.
TakeFromClient ==
    /\ pc = "select"
    /\ client_side # <<>>
    /\ client_side' = Tail(client_side)
    /\ client_addr' = Head(client_side).addr
    /\ IF Head(client_side).host = NoHost
       THEN UNCHANGED <<pc, inhand>>
       ELSE pc' = "resolve" /\ inhand' = Head(client_side)
    /\ UNCHANGED <<registryVars, target, cached, resolved, names, upstream,
                   outs, backs, foreign, spoken, wire, got, stray, control>>

Key == <<inhand.host, inhand.port>>

\* Relay::resolve finds the destination in its cache.
ResolveHits ==
    /\ pc = "resolve"
    /\ resolved[Key] # NoIp
    /\ target' = resolved[Key]
    /\ pc' = "send_out"
    /\ CacheEndpoint(inhand.host)
    /\ UNCHANGED <<open_connections, inhand, resolved, names, client_addr,
                   queueVars, ghostVars, control>>

\* lookup_host answers; the first address is used, and kept.
LookupAnswers(ip) ==
    /\ pc = "resolve"
    /\ resolved[Key] = NoIp
    /\ ip \in DnsOf[inhand.host]
    /\ resolved' = [resolved EXCEPT ![Key] = ip]
    /\ target' = ip
    /\ pc' = "send_out"
    /\ CacheEndpoint(inhand.host)
    /\ UNCHANGED <<open_connections, inhand, names, client_addr,
                   queueVars, ghostVars, control>>

\* Mutant: a lookup that fails is tried again.
LookupFails_retries ==
    /\ pc = "resolve"
    /\ resolved[Key] = NoIp
    /\ UNCHANGED vars

\* lookup_host fails or answers nothing: the datagram is skipped.
LookupFails ==
    /\ pc = "resolve"
    /\ resolved[Key] = NoIp
    /\ Selects
    /\ UNCHANGED <<registryVars, cached, resolved, names, client_addr,
                   queueVars, ghostVars, control>>

\* Mutant: the host of an address is never noted.
Named_never == names

\* names.insert: the last host whose datagram went to an address owns it.
Named == [names EXCEPT ![target] = inhand.host]

\* The payload leaves, is counted, and the address is noted.
SendsOut ==
    /\ pc = "send_out"
    /\ target \notin V6
    /\ heap' = [heap EXCEPT ![cached[inhand.host]] =
                   observe_ip(add_egress(@, inhand.size), target)]
    /\ names' = Named
    /\ Selects
    /\ wire' = [wire EXCEPT ![inhand.host] = @ + inhand.size]
    /\ spoken' = [spoken EXCEPT ![target] = @ \cup {inhand.host}]
    /\ UNCHANGED <<endpoints, open_connections, cached, resolved, client_addr,
                   queueVars, foreign, got, stray, control>>

\* Mutant: the payload is counted although it could not be sent.
Unsent_counted == heap' = [heap EXCEPT ![cached[inhand.host]] = add_egress(@, inhand.size)]

\* What send_to could not send is not counted.
Unsent == UNCHANGED heap

\* send_to fails, as it always does for an IPv6 address: the datagram is skipped.
SendOutFails ==
    /\ pc = "send_out"
    /\ Unsent
    /\ Selects
    /\ UNCHANGED <<endpoints, open_connections, cached, resolved, names, client_addr,
                   queueVars, ghostVars, control>>

\* The host an answer from `ip` is counted under.
NameOf(ip) == IF names[ip] # NoHost THEN names[ip] ELSE IpName[ip]

\* Mutant: a client is taken to have been heard of.
HasClient_assumed == TRUE

HasClient == client_addr # NoClient

\* run() takes a datagram from the internet; forward_back drops it if no client
\* has been heard of.
TakeFromUpstream ==
    /\ pc = "select"
    /\ upstream # <<>>
    /\ upstream' = Tail(upstream)
    /\ IF HasClient
       THEN /\ pc' = "send_back"
            /\ inhand' = Head(upstream)
            /\ CacheEndpoint(NameOf(Head(upstream).from))
       ELSE UNCHANGED <<pc, inhand, endpoints, heap, cached>>
    /\ UNCHANGED <<open_connections, target, resolved, names, client_addr,
                   client_side, outs, backs, ghostVars, control>>

\* The answer is handed to the client, and its payload counted.
SendsBack ==
    /\ pc = "send_back"
    /\ heap' = [heap EXCEPT ![cached[NameOf(inhand.from)]] =
                   add_ingress(@, inhand.size)]
    /\ Selects
    /\ IF inhand.about = NoHost
       THEN stray' = stray + inhand.size /\ UNCHANGED got
       ELSE got' = [got EXCEPT ![inhand.about] = @ + inhand.size] /\ UNCHANGED stray
    /\ UNCHANGED <<endpoints, open_connections, cached, resolved, names,
                   client_addr, queueVars, foreign, spoken, wire, control>>

\* Mutant: the payload is counted although the client did not get it.
Undelivered_counted ==
    heap' = [heap EXCEPT ![cached[NameOf(inhand.from)]] = add_ingress(@, inhand.size)]

\* What the client did not get is not counted.
Undelivered == UNCHANGED heap

SendBackFails ==
    /\ pc = "send_back"
    /\ Undelivered
    /\ Selects
    /\ UNCHANGED <<endpoints, open_connections, cached, resolved, names, client_addr,
                   queueVars, ghostVars, control>>

Ended == pc' = "ended" /\ inhand' = Nothing /\ target' = NoIp

\* recv_from fails on either socket: run() returns, and the sockets are closed.
ReceiveFails ==
    /\ pc = "select"
    /\ Ended
    /\ UNCHANGED <<registryVars, cached, resolved, names, client_addr,
                   queueVars, ghostVars, control>>

\* The abort takes effect at the await the task is at.
Cancelled ==
    /\ control = "closed"
    /\ pc # "ended"
    /\ Ended
    /\ UNCHANGED <<registryVars, cached, resolved, names, client_addr,
                   queueVars, ghostVars, control>>

\* Nothing is left to happen.
Terminated == pc = "ended" /\ control = "closed" /\ UNCHANGED vars

RelayStep ==
    \/ TakeFromClient
    \/ ResolveHits \/ LookupFails \/ \E ip \in Ips : LookupAnswers(ip)
    \/ SendsOut \/ SendOutFails
    \/ TakeFromUpstream
    \/ SendsBack \/ SendBackFails

Next ==
    \/ \E d \in Outgoing : ClientSends(d)
    \/ \E d \in Incoming : Arrives(d)
    \/ \E h \in Others : OtherOpens(h)
    \/ ControlCloses
    \/ RelayStep \/ ReceiveFails \/ Cancelled
    \/ Terminated

\* The runtime polls a task that can run, and lookup_host answers or gives up.
\* Nothing is assumed of the clients or the network, nor when an abort takes effect.
Fairness == WF_vars(RelayStep)

Spec == Init /\ [][Next]_vars /\ Fairness

-----------------------------------------------------------------------------
(* Properties.                                                              *)

Once(condition) == IF condition THEN 1 ELSE 0

\* udp.rs, Relay::endpoint: an association counts one connection per destination
\* host, however many datagrams go there, ports it has, answers come back or
\* cancellations and failures happen, and next to what others count there.
OneConnectionPerHost ==
    \A h \in Hosts :
        RowStats(h).connections = Once(cached[h] # 0) + Once(h \in foreign)

\* The egress of a host's row is the payload that left for that host: nothing
\* dropped, unresolved, refused or cancelled is in it, whichever Arc it was
\* counted through.
EgressExact == \A h \in Hosts : RowStats(h).egress = wire[h]

\* The ingress of all rows is the payload of the answers a client was handed.
IngressExact == Total([h \in Hosts |-> RowStats(h).ingress]) = Total(got) + stray

\* As long as no two hosts of the association share an address, a host's row has
\* all of its answers: late, repeated or out of order, they find its name.
DistinctAttributed ==
    (\A ip \in Ips : Cardinality(spoken[ip]) <= 1)
        => \A h \in Hosts : got[h] <= RowStats(h).ingress

\* A datagram in the client's queue does not wait for ever: neither a malformed
\* one, nor a lookup or a send that fails, stops the relay from getting to it.
ClientServed == (client_side # <<>>) ~> (client_side = <<>> \/ pc = "ended")

\* README.md:155, udp.rs:43: two hostnames on the same address stay separate
\* rows, and an answer is mapped back to the host the client used for it.
RepliesAttributed == \A h \in Hosts : got[h] <= RowStats(h).ingress
=============================================================================

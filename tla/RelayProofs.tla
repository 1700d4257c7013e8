---------------------------- MODULE RelayProofs -----------------------------
(***************************************************************************)
(* Proofs about Relay, for any hosts, destinations and addresses, any number *)
(* of datagrams and any bounds.                                              *)
(***************************************************************************)
EXTENDS Relay, RegistryProofs, SumTheorems

-----------------------------------------------------------------------------
(* The inductive invariant.  The relay counts through the handles it caches; *)
(* they stay the rows of their hosts because nothing renames while a relay   *)
(* runs.  Which host an answer is counted under needs the history of the     *)
(* address it comes from.                                                    *)

CachedIsRow == \A h \in Hosts : cached[h] # 0 => cached[h] = endpoints[h]

\* What is about to be sent has a handle to be counted through.
HandleCached ==
    /\ pc = "send_out" => cached[inhand.host] # 0
    /\ pc = "send_back" => cached[NameOf(inhand.from)] # 0

AboutSpoken(d) == d.about # NoHost => d.about \in spoken[d.from]

\* An answer comes from an address its request was sent to.
AnswersSpoken ==
    /\ \A i \in DOMAIN upstream : AboutSpoken(upstream[i])
    /\ pc = "send_back" => AboutSpoken(inhand)

\* The name of an address is a host that was reached there.
NamesSpoken == \A ip \in Ips : spoken[ip] # {} => names[ip] \in spoken[ip]

IndInv == /\ TypeOK
          /\ DistinctRows
          /\ CachedIsRow
          /\ HandleCached
          /\ AnswersSpoken
          /\ NamesSpoken
          /\ OneConnectionPerHost
          /\ EgressExact
          /\ IngressExact
          /\ DistinctAttributed

-----------------------------------------------------------------------------
(* The datagrams.                                                           *)

\* A datagram that is carried out names a destination.
LEMMA OutgoingParts ==
    ASSUME NEW d \in Outgoing, d.host \in Hosts
    PROVE  /\ <<d.host, d.port>> \in Dests
           /\ d.size \in Nat
           /\ d.addr \in Clients
<1>1. d \notin [addr : Clients, host : {NoHost}]
  BY RelayAssumption
<1>2. PICK c \in Clients, e \in Dests, n \in Sizes :
        d = [addr |-> c, host |-> e[1], port |-> e[2], size |-> n]
  BY <1>1 DEF Outgoing
<1>3. e \in Hosts \X Ports
  BY RelayAssumption
<1>4. <<e[1], e[2]>> = e
  BY <1>3
<1>5. QED
  BY <1>2, <1>4, RelayAssumption

LEMMA OutgoingAddr ==
    ASSUME NEW d \in Outgoing
    PROVE  d.addr \in Clients /\ d.host \in Hosts \cup {NoHost}
<1>1. CASE d \in [addr : Clients, host : {NoHost}]
  BY <1>1
<1>2. CASE d \notin [addr : Clients, host : {NoHost}]
  <2>1. PICK c \in Clients, e \in Dests, n \in Sizes :
          d = [addr |-> c, host |-> e[1], port |-> e[2], size |-> n]
    BY <1>2 DEF Outgoing
  <2>2. e \in Hosts \X Ports
    BY RelayAssumption
  <2>3. QED
    BY <2>1, <2>2
<1>3. QED
  BY <1>1, <1>2

LEMMA IncomingParts ==
    ASSUME NEW d \in Incoming
    PROVE  d.from \in Ips /\ d.about \in Hosts \cup {NoHost} /\ d.size \in Nat
  BY RelayAssumption DEF Incoming

LEMMA NameOfType ==
    ASSUME TypeOK, NEW ip \in Ips
    PROVE  NameOf(ip) \in Hosts
<1>1. names[ip] \in Hosts \cup {NoHost} /\ IpName[ip] \in Hosts
  BY RelayAssumption DEF TypeOK
<1>2. QED
  BY <1>1 DEF NameOf

\* The head and the rest of a queue.
LEMMA QueueParts ==
    ASSUME NEW S, NEW q \in Seq(S), q # <<>>
    PROVE  /\ Head(q) \in S /\ Head(q) = q[1] /\ 1 \in DOMAIN q
           /\ Tail(q) \in Seq(S)
           /\ \A i \in DOMAIN Tail(q) : i + 1 \in DOMAIN q /\ Tail(q)[i] = q[i + 1]
  OBVIOUS

-----------------------------------------------------------------------------
(* What a step does to the rows.                                            *)

RowsInv == /\ DistinctRows
           /\ CachedIsRow
           /\ OneConnectionPerHost
           /\ EgressExact
           /\ IngressExact
           /\ DistinctAttributed

\* The steps that leave the rows alone.
LEMMA RowsUntouched ==
    ASSUME RowsInv,
           UNCHANGED <<endpoints, heap, cached, foreign, spoken, wire, got, stray>>
    PROVE  RowsInv'
<1>1. \A h \in Hosts : RowStats(h)' = RowStats(h)
  BY DEF RowStats, Present
<1>2. DistinctRows' /\ CachedIsRow' /\ OneConnectionPerHost' /\ EgressExact'
  BY <1>1 DEF RowsInv, DistinctRows, Present, CachedIsRow, OneConnectionPerHost,
              Once, EgressExact
<1>3. [h \in Hosts |-> RowStats(h).ingress]' = [h \in Hosts |-> RowStats(h).ingress]
  BY <1>1
<1>4. IngressExact'
  BY <1>3 DEF RowsInv, IngressExact
<1>5. DistinctAttributed'
  BY <1>1 DEF RowsInv, DistinctAttributed
<1>6. QED
  BY <1>2, <1>4, <1>5 DEF RowsInv

\* A connection of `host` is counted: the traffic in the rows stays.
LEMMA TrafficKept ==
    ASSUME RowsInv, RegistryTypeOK, NEW host \in Hosts,
           UNCHANGED <<spoken, wire, got, stray>>,
           RowStats(host)' = add_connection(RowStats(host)),
           \A h \in Hosts \ {host} : RowStats(h)' = RowStats(h)
    PROVE  EgressExact' /\ IngressExact' /\ DistinctAttributed'
<1>1. ASSUME NEW h \in Hosts
      PROVE  /\ RowStats(h)'.egress = RowStats(h).egress
             /\ RowStats(h)'.ingress = RowStats(h).ingress
  <2>1. CASE h = host
    <3>1. RowStats(host) \in EndpointStats
      BY RowType
    <3>2. QED
      BY <2>1, <3>1 DEF add_connection, EndpointStats
  <2>2. CASE h # host
    BY <2>2
  <2>3. QED
    BY <2>1, <2>2
<1>2. [h \in Hosts |-> RowStats(h).ingress]' = [h \in Hosts |-> RowStats(h).ingress]
  BY <1>1
<1>3. IngressExact'
  BY <1>2 DEF RowsInv, IngressExact
<1>4. EgressExact' /\ DistinctAttributed'
  BY <1>1 DEF RowsInv, EgressExact, DistinctAttributed
<1>5. QED
  BY <1>3, <1>4

LEMMA CountConnection ==
    ASSUME NEW s \in EndpointStats
    PROVE  add_connection(s).connections = s.connections + 1 /\ s.connections \in Nat
  BY DEF add_connection, EndpointStats

\* Relay::endpoint counts the first use of a host, and finds the handle of that
\* host's row.
LEMMA CacheStep ==
    ASSUME TypeOK, RowsInv, NEW host \in Hosts, CacheEndpoint(host),
           UNCHANGED <<open_connections, foreign, spoken, wire, got, stray>>
    PROVE  /\ RegistryTypeOK'
           /\ cached' \in [Hosts -> 0 .. Len(heap')]
           /\ cached'[host] # 0
           /\ \A h \in Hosts : cached[h] # 0 => cached'[h] # 0
           /\ RowsInv'
<1>1. CASE cached[host] # 0
  BY <1>1, RowsUntouched DEF CacheEndpoint, TypeOK, RegistryTypeOK
<1>2. CASE cached[host] = 0
  <2>1. /\ cached' = [cached EXCEPT ![host] = endpoint(host)]
        /\ endpoints' = MapWith(host)
        /\ heap' = [HeapWith(host) EXCEPT ![endpoint(host)] = add_connection(@)]
    BY <1>2 DEF CacheEndpoint, Remember
  <2>2. RegistryTypeOK /\ cached \in [Hosts -> 0 .. Len(heap)] /\ heap \in Seq(EndpointStats)
    BY DEF TypeOK, RegistryTypeOK
  <2>3. /\ heap' \in Seq(EndpointStats)
        /\ Len(heap') \in Nat /\ Len(heap) <= Len(heap')
        /\ endpoints' \in [Hosts -> 0 .. Len(heap')]
        /\ endpoint(host) \in 1 .. Len(heap')
        /\ endpoints'[host] = endpoint(host)
        /\ DistinctRows'
        /\ \A h \in Hosts : Present(h) => endpoints'[h] = endpoints[h]
        /\ \A h \in Hosts \ {host} : endpoints'[h] = endpoints[h]
        /\ RowStats(host)' = add_connection(RowStats(host))
        /\ \A h \in Hosts \ {host} : RowStats(h)' = RowStats(h)
    BY <2>1, <2>2, OpenAndCount DEF RowsInv
  <2>4. RegistryTypeOK'
    BY <2>2, <2>3 DEF RegistryTypeOK
  <2>5. cached' \in [Hosts -> 0 .. Len(heap')] /\ Len(heap) \in Nat
    BY <2>1, <2>2, <2>3
  <2>6. /\ cached'[host] = endpoint(host) /\ endpoint(host) # 0
        /\ \A h \in Hosts \ {host} : cached'[h] = cached[h]
    BY <2>1, <2>2, <2>3
  <2>7. CachedIsRow'
    BY <2>3, <2>6 DEF RowsInv, CachedIsRow
  <2>8. OneConnectionPerHost'
    <3>1. RowStats(host) \in EndpointStats
      BY <2>2, RowType
    <3>2. RowStats(host)'.connections = RowStats(host).connections + 1
      BY <2>3, <3>1, CountConnection
    <3>3. RowStats(host).connections = 0 + Once(host \in foreign)
      BY <1>2 DEF RowsInv, OneConnectionPerHost, Once
    <3>4. RowStats(host)'.connections = Once(cached'[host] # 0) + Once(host \in foreign')
      BY <2>6, <3>2, <3>3 DEF Once
    <3>5. ASSUME NEW h \in Hosts \ {host}
          PROVE  RowStats(h)'.connections = Once(cached'[h] # 0) + Once(h \in foreign')
      BY <2>3, <2>6 DEF RowsInv, OneConnectionPerHost
    <3>6. QED
      BY <3>4, <3>5 DEF OneConnectionPerHost
  <2>9. EgressExact' /\ IngressExact' /\ DistinctAttributed'
    BY <2>2, <2>3, TrafficKept
  <2>10. QED
    BY <2>3, <2>4, <2>5, <2>6, <2>7, <2>8, <2>9 DEF RowsInv
<1>3. QED
  BY <1>1, <1>2 DEF TypeOK

\* Counting through the cached handle of a host changes that host's row only.
LEMMA CountCached ==
    ASSUME TypeOK, RowsInv, NEW host \in Hosts, cached[host] # 0,
           NEW s \in EndpointStats, UNCHANGED <<endpoints, open_connections>>,
           heap' = [heap EXCEPT ![cached[host]] = s]
    PROVE  /\ RegistryTypeOK' /\ Len(heap') = Len(heap)
           /\ DistinctRows'
           /\ RowStats(host) = heap[cached[host]]
           /\ RowStats(host)' = s
           /\ \A h \in Hosts \ {host} : RowStats(h)' = RowStats(h)
<1> DEFINE i == cached[host]
<1>1. endpoints[host] = i
  BY DEF RowsInv, CachedIsRow
<1>2. i \in 1 .. Len(heap)
  BY DEF TypeOK, RegistryTypeOK
<1>3. heap' = [heap EXCEPT ![i] = s]
  OBVIOUS
<1>4. \A h \in Hosts \ {host} : endpoints[h] # i
  BY <1>1, <1>2 DEF RowsInv, DistinctRows, Present
<1>5. RowStats(host) = heap[i]
  BY <1>1, <1>2 DEF RowStats, Present
<1> HIDE DEF i
<1>6. /\ heap' \in Seq(EndpointStats) /\ Len(heap') = Len(heap)
      /\ endpoints' \in [Hosts -> 0 .. Len(heap')]
      /\ DistinctRows'
      /\ \A h \in Hosts : RowStats(h)' = IF endpoints[h] = i THEN s ELSE RowStats(h)
  BY <1>2, <1>3, CountRow DEF TypeOK, RowsInv
<1>7. RegistryTypeOK'
  BY <1>6 DEF TypeOK, RegistryTypeOK
<1>8. QED
  BY <1>1, <1>4, <1>5, <1>6, <1>7 DEF i

LEMMA SmallSet ==
    ASSUME NEW S, IsFiniteSet(S), Cardinality(S) <= 1, NEW x \in S, NEW y \in S
    PROVE  x = y
<1>1. IsFiniteSet(S \ {x}) /\ Cardinality(S \ {x}) = Cardinality(S) - 1
  BY FS_RemoveElement
<1>2. Cardinality(S) \in Nat /\ Cardinality(S \ {x}) \in Nat
  BY <1>1, FS_CardinalityType
<1>3. Cardinality(S \ {x}) = 0
  BY <1>1, <1>2
<1>4. S \ {x} = {}
  BY <1>1, <1>3, FS_EmptySet
<1>5. QED
  BY <1>4

LEMMA SpokenFinite ==
    ASSUME TypeOK, NEW ip \in Ips
    PROVE  IsFiniteSet(spoken[ip])
<1>1. spoken[ip] \in SUBSET Hosts
  BY DEF TypeOK
<1>2. QED
  BY <1>1, FS_Subset, RelayAssumption

\* A datagram that leaves is counted in the row of the host it is for.
LEMMA SendsOutRows ==
    ASSUME IndInv, SendsOut
    PROVE  RegistryTypeOK' /\ Len(heap') = Len(heap) /\ RowsInv' /\ NamesSpoken'
<1>1. /\ TypeOK /\ RowsInv /\ HandleCached /\ NamesSpoken
      /\ pc = "send_out"
  BY DEF IndInv, RowsInv, SendsOut
<1>2. PICK host \in Hosts : /\ host = inhand.host
                           /\ cached[host] # 0
  BY <1>1 DEF TypeOK, HandleCached
<1>3. inhand.size \in Nat /\ target \in Ips
  BY <1>1, OutgoingParts DEF TypeOK
<1>4. RowStats(host) = heap[cached[host]] /\ heap[cached[host]] \in EndpointStats
  <2>1. RowStats(host) = heap[cached[host]]
    BY <1>1, <1>2 DEF RowsInv, CachedIsRow, RowStats, Present
  <2>2. QED
    BY <1>1, <2>1, RowType DEF TypeOK
<1>5. PICK s \in EndpointStats :
        /\ s = observe_ip(add_egress(heap[cached[host]], inhand.size), target)
        /\ s.egress = RowStats(host).egress + inhand.size
        /\ s.ingress = RowStats(host).ingress
        /\ s.connections = RowStats(host).connections
  <2> DEFINE t == add_egress(heap[cached[host]], inhand.size)
  <2>1. /\ t \in EndpointStats
        /\ t.egress = RowStats(host).egress + inhand.size
        /\ t.ingress = RowStats(host).ingress
        /\ t.connections = RowStats(host).connections
    BY <1>3, <1>4 DEF EndpointStats, add_egress
  <2> HIDE DEF t
  <2>2. /\ observe_ip(t, target) \in EndpointStats
        /\ observe_ip(t, target).egress = t.egress
        /\ observe_ip(t, target).ingress = t.ingress
        /\ observe_ip(t, target).connections = t.connections
    BY <1>3, <2>1 DEF EndpointStats, observe_ip
  <2>3. QED
    BY <2>1, <2>2 DEF t
<1>6. /\ heap' = [heap EXCEPT ![cached[host]] = s]
      /\ wire' = [wire EXCEPT ![host] = @ + inhand.size]
      /\ spoken' = [spoken EXCEPT ![target] = @ \cup {host}]
      /\ names' = [names EXCEPT ![target] = host]
      /\ UNCHANGED <<endpoints, open_connections, cached, foreign, got, stray>>
  BY <1>2, <1>5 DEF SendsOut, Named
<1>7. /\ RegistryTypeOK' /\ Len(heap') = Len(heap)
      /\ DistinctRows'
      /\ RowStats(host)' = s
      /\ \A h \in Hosts \ {host} : RowStats(h)' = RowStats(h)
  BY <1>1, <1>2, <1>5, <1>6, CountCached
<1>8. ASSUME NEW h \in Hosts
      PROVE  /\ RowStats(h)'.connections = RowStats(h).connections
             /\ RowStats(h)'.egress = wire'[h]
             /\ RowStats(h)'.ingress = RowStats(h).ingress
  <2>1. RowStats(h).egress = wire[h] /\ wire \in [Hosts -> Nat]
    BY <1>1 DEF RowsInv, EgressExact, TypeOK
  <2>2. CASE h = host
    BY <1>5, <1>6, <1>7, <2>1, <2>2
  <2>3. CASE h # host
    BY <1>2, <1>6, <1>7, <2>1, <2>3
  <2>4. QED
    BY <2>2, <2>3
<1>9. EgressExact'
  BY <1>8 DEF EgressExact
<1>10. CachedIsRow' /\ OneConnectionPerHost'
  BY <1>1, <1>6, <1>8 DEF RowsInv, CachedIsRow, OneConnectionPerHost
<1>11. IngressExact'
  <2>1. [h \in Hosts |-> RowStats(h).ingress]' = [h \in Hosts |-> RowStats(h).ingress]
    BY <1>8
  <2>2. QED
    BY <1>1, <1>6, <2>1 DEF RowsInv, IngressExact
<1>12. DistinctAttributed'
  <2> SUFFICES ASSUME \A ip \in Ips : Cardinality(spoken'[ip]) <= 1
               PROVE  \A h \in Hosts : got'[h] <= RowStats(h)'.ingress
    BY DEF DistinctAttributed
  <2>1. ASSUME NEW ip \in Ips PROVE Cardinality(spoken[ip]) <= 1
    <3>1. spoken[ip] \in SUBSET spoken'[ip] /\ spoken'[ip] \in SUBSET Hosts
      BY <1>1, <1>2, <1>3, <1>6 DEF TypeOK
    <3>2. IsFiniteSet(spoken'[ip])
      BY <3>1, FS_Subset, RelayAssumption
    <3>3. /\ Cardinality(spoken[ip]) <= Cardinality(spoken'[ip])
          /\ Cardinality(spoken[ip]) \in Nat /\ Cardinality(spoken'[ip]) \in Nat
      BY <3>1, <3>2, FS_Subset, FS_CardinalityType
    <3>4. QED
      BY <3>3
  <2>2. QED
    BY <1>1, <1>6, <1>8, <2>1 DEF RowsInv, DistinctAttributed
<1>13. NamesSpoken'
  BY <1>1, <1>2, <1>3, <1>6 DEF NamesSpoken, TypeOK
<1>14. QED
  BY <1>7, <1>9, <1>10, <1>11, <1>12, <1>13 DEF RowsInv

\* An answer is counted under the name of its address.
LEMMA SendsBackRows ==
    ASSUME IndInv, SendsBack
    PROVE  RegistryTypeOK' /\ Len(heap') = Len(heap) /\ RowsInv'
<1>1. /\ TypeOK /\ RowsInv /\ HandleCached /\ NamesSpoken /\ AnswersSpoken
      /\ pc = "send_back"
  BY DEF IndInv, RowsInv, SendsBack
<1>2. inhand.from \in Ips /\ inhand.about \in Hosts \cup {NoHost} /\ inhand.size \in Nat
  BY <1>1, IncomingParts DEF TypeOK
<1>3. PICK n \in Nat : n = inhand.size
  BY <1>2
<1>4. PICK name \in Hosts : name = NameOf(inhand.from) /\ cached[name] # 0
  BY <1>1, <1>2, NameOfType DEF HandleCached
<1>5. RowStats(name) = heap[cached[name]] /\ heap[cached[name]] \in EndpointStats
  <2>1. RowStats(name) = heap[cached[name]]
    BY <1>1, <1>4 DEF RowsInv, CachedIsRow, RowStats, Present
  <2>2. QED
    BY <1>1, <1>4, <2>1, RowType DEF TypeOK
<1>6. PICK s \in EndpointStats :
        /\ s = add_ingress(heap[cached[name]], n)
        /\ s.egress = RowStats(name).egress
        /\ s.ingress = RowStats(name).ingress + n
        /\ s.connections = RowStats(name).connections
        /\ RowStats(name).ingress \in Nat
  <2> DEFINE t == add_ingress(heap[cached[name]], n)
  <2>1. /\ t \in EndpointStats
        /\ t.egress = RowStats(name).egress
        /\ t.ingress = RowStats(name).ingress + n
        /\ t.connections = RowStats(name).connections
        /\ RowStats(name).ingress \in Nat
    BY <1>5 DEF EndpointStats, add_ingress
  <2> HIDE DEF t
  <2>2. QED
    BY <2>1 DEF t
<1>7. /\ heap' = [heap EXCEPT ![cached[name]] = s]
      /\ UNCHANGED <<endpoints, open_connections, cached, foreign, wire, spoken>>
      /\ IF inhand.about = NoHost
         THEN stray' = stray + n /\ UNCHANGED got
         ELSE got' = [got EXCEPT ![inhand.about] = @ + n] /\ UNCHANGED stray
  BY <1>3, <1>4, <1>6 DEF SendsBack
<1>8. /\ RegistryTypeOK' /\ Len(heap') = Len(heap)
      /\ DistinctRows'
      /\ RowStats(name)' = s
      /\ \A h \in Hosts \ {name} : RowStats(h)' = RowStats(h)
  BY <1>1, <1>4, <1>6, <1>7, CountCached
<1>9. CachedIsRow' /\ OneConnectionPerHost' /\ EgressExact'
  <2>1. ASSUME NEW h \in Hosts
        PROVE  /\ RowStats(h)'.connections = RowStats(h).connections
               /\ RowStats(h)'.egress = RowStats(h).egress
    <3>1. CASE h = name
      BY <1>6, <1>8, <3>1
    <3>2. CASE h # name
      BY <1>8, <3>2
    <3>3. QED
      BY <3>1, <3>2
  <2>2. QED
    BY <1>1, <1>7, <2>1 DEF RowsInv, CachedIsRow, OneConnectionPerHost, EgressExact
<1>10. IngressExact'
  <2> DEFINE f == [h \in Hosts |-> RowStats(h).ingress]
  <2>1. f \in [Hosts -> Nat]
    <3>1. \A h \in Hosts : RowStats(h).ingress \in Nat
      BY <1>1, RowType DEF TypeOK, EndpointStats
    <3>2. QED
      BY <3>1
  <2>2. [h \in Hosts |-> RowStats(h)'.ingress] = [f EXCEPT ![name] = f[name] + n]
    <3>1. ASSUME NEW h \in Hosts
          PROVE  RowStats(h)'.ingress = IF h = name THEN f[name] + n ELSE f[h]
      <4>1. CASE h = name
        BY <1>6, <1>8, <4>1
      <4>2. CASE h # name
        BY <1>8, <4>2
      <4>3. QED
        BY <4>1, <4>2
    <3>2. QED
      BY <3>1
  <2> HIDE DEF f
  <2>3. PICK m \in Nat : m = f[name] + n
    BY <1>4, <2>1
  <2>4. Total([f EXCEPT ![name] = m]) = Total(f) + n /\ Total(f) \in Nat
    <3>1. IsFiniteSet(Hosts) /\ f[name] \in Nat
      BY <2>1, RelayAssumption
    <3>2. /\ Total([f EXCEPT ![name] = m]) + f[name] = Total(f) + m
          /\ Total([f EXCEPT ![name] = m]) \in Nat
          /\ Total(f) \in Nat
      BY <2>1, <3>1, TotalUpdate
    <3>3. QED
      BY <2>3, <3>1, <3>2
  <2>5. Total(f) = Total(got) + stray
    BY <1>1 DEF RowsInv, IngressExact, f
  <2>6. Total(got') + stray' = Total(got) + stray + n /\ Total(got) \in Nat /\ stray \in Nat
    <3>1. got \in [Hosts -> Nat] /\ stray \in Nat
      BY <1>1 DEF TypeOK
    <3>2. Total(got) \in Nat
      BY <3>1, TotalIsCount, RelayAssumption
    <3>3. CASE inhand.about = NoHost
      BY <1>3, <1>7, <3>1, <3>2, <3>3
    <3>4. CASE inhand.about # NoHost
      <4>1. PICK a \in Hosts : a = inhand.about
        BY <1>2, <3>4
      <4>2. PICK k \in Nat : k = got[a] + n
        BY <3>1
      <4>3. got' = [got EXCEPT ![a] = k] /\ stray' = stray
        BY <1>7, <3>4, <4>1, <4>2
      <4>4. PICK g \in [Hosts -> Nat] : g = got
        BY <3>1
      <4>5. /\ Total([g EXCEPT ![a] = k]) + g[a] = Total(g) + k
            /\ Total([g EXCEPT ![a] = k]) \in Nat
            /\ Total(g) \in Nat
        <5>1. IsFiniteSet(Hosts)
          BY RelayAssumption
        <5>2. QED
          BY <5>1, TotalUpdate
      <4>6. QED
        BY <3>1, <4>2, <4>3, <4>4, <4>5
    <3>5. QED
      BY <3>1, <3>2, <3>3, <3>4
  <2>7. QED
    BY <2>2, <2>3, <2>4, <2>5, <2>6 DEF IngressExact
<1>11. DistinctAttributed'
  <2> SUFFICES ASSUME \A ip \in Ips : Cardinality(spoken'[ip]) <= 1, NEW h \in Hosts
               PROVE  got'[h] <= RowStats(h)'.ingress
    BY DEF DistinctAttributed
  <2>1. got[h] <= RowStats(h).ingress
    BY <1>1, <1>7 DEF RowsInv, DistinctAttributed
  <2>2. got[h] \in Nat /\ RowStats(h).ingress \in Nat
    BY <1>1, RowType DEF TypeOK, EndpointStats
  <2>3. CASE inhand.about # h
    <3>1. got'[h] = got[h]
      BY <1>1, <1>2, <1>7, <2>3 DEF TypeOK
    <3>2. QED
      <4>1. CASE h = name
        BY <1>3, <1>6, <1>8, <2>1, <2>2, <3>1, <4>1
      <4>2. CASE h # name
        BY <1>8, <2>1, <3>1, <4>2
      <4>3. QED
        BY <4>1, <4>2
  <2>4. CASE inhand.about = h
    <3>1. h # NoHost
      BY RelayAssumption
    <3>2. h \in spoken[inhand.from]
      BY <1>1, <2>4, <3>1 DEF AnswersSpoken, AboutSpoken
    <3>3. names[inhand.from] \in spoken[inhand.from]
      BY <1>1, <1>2, <3>2 DEF NamesSpoken
    <3>4. names[inhand.from] = h
      BY <1>1, <1>2, <1>7, <3>2, <3>3, SpokenFinite, SmallSet
    <3>5. name = h
      BY <1>4, <3>1, <3>4 DEF NameOf
    <3>6. got'[h] = got[h] + n
      BY <1>1, <1>7, <2>4, <3>1 DEF TypeOK
    <3>7. QED
      BY <1>3, <1>6, <1>8, <2>1, <2>2, <3>5, <3>6
  <2>5. QED
    BY <2>3, <2>4
<1>12. QED
  BY <1>8, <1>9, <1>10, <1>11 DEF RowsInv

-----------------------------------------------------------------------------
(* Every step keeps the invariant, one lemma for each step that does more    *)
(* than drop the datagram it carries.                                        *)

LEMMA IndInvParts ==
    IndInv <=> TypeOK /\ RowsInv /\ HandleCached /\ AnswersSpoken /\ NamesSpoken
  BY DEF IndInv, RowsInv

LEMMA InitIndInv ==
    Init => IndInv
<1> SUFFICES ASSUME Init PROVE IndInv
  OBVIOUS
<1> USE DEF Init, RegistryInit
<1>1. TypeOK
  BY RelayAssumption DEF TypeOK, RegistryTypeOK
<1>2. \A h \in Hosts : RowStats(h) = NewStats
  BY DEF RowStats, Present
<1>3. DistinctRows /\ CachedIsRow
  BY DEF DistinctRows, Present, CachedIsRow
<1>4. OneConnectionPerHost /\ EgressExact /\ DistinctAttributed
  BY <1>2 DEF OneConnectionPerHost, Once, EgressExact, DistinctAttributed, NewStats
<1>5. IngressExact
  <2>1. [h \in Hosts |-> RowStats(h).ingress] = [h \in Hosts |-> 0]
    BY <1>2 DEF NewStats
  <2>2. Total([h \in Hosts |-> 0]) = 0
    BY TotalZero, RelayAssumption
  <2>3. QED
    BY <2>1, <2>2 DEF IngressExact
<1>6. HandleCached /\ AnswersSpoken /\ NamesSpoken
  BY DEF HandleCached, AnswersSpoken, NamesSpoken
<1>7. QED
  BY <1>1, <1>3, <1>4, <1>5, <1>6 DEF IndInv

\* The steps that end what is being carried, with nothing counted.
LEMMA DropStep ==
    ASSUME IndInv, pc' \in {"select", "ended"},
           UNCHANGED <<registryVars, cached, resolved, names, client_addr,
                       queueVars, ghostVars, control>>
    PROVE  IndInv'
<1>1. TypeOK /\ RowsInv /\ HandleCached /\ AnswersSpoken /\ NamesSpoken
  BY IndInvParts
<1> USE DEF registryVars, queueVars, ghostVars
<1>2. TypeOK'
  BY <1>1 DEF TypeOK, RegistryTypeOK
<1>3. RowsInv'
  BY <1>1, RowsUntouched
<1>4. HandleCached' /\ AnswersSpoken' /\ NamesSpoken'
  BY <1>1 DEF HandleCached, AnswersSpoken, AboutSpoken, NamesSpoken
<1>5. QED
  BY <1>2, <1>3, <1>4 DEF IndInv, RowsInv

LEMMA UnchangedButControl ==
    ASSUME IndInv, control' \in {"open", "closed"},
           UNCHANGED <<registryVars, relayVars, queueVars, ghostVars>>
    PROVE  IndInv'
<1>1. TypeOK /\ RowsInv /\ HandleCached /\ AnswersSpoken /\ NamesSpoken
  BY IndInvParts
<1> USE DEF registryVars, relayVars, queueVars, ghostVars
<1>2. TypeOK'
  BY <1>1 DEF TypeOK, RegistryTypeOK
<1>3. RowsInv'
  BY <1>1, RowsUntouched
<1>4. HandleCached' /\ AnswersSpoken' /\ NamesSpoken'
  BY <1>1 DEF HandleCached, NameOf, AnswersSpoken, AboutSpoken, NamesSpoken
<1>5. QED
  BY <1>2, <1>3, <1>4 DEF IndInv, RowsInv

LEMMA ClientSendsStep ==
    ASSUME IndInv, NEW d \in Outgoing, ClientSends(d)
    PROVE  IndInv'
<1>1. TypeOK /\ RowsInv /\ HandleCached /\ AnswersSpoken /\ NamesSpoken
  BY IndInvParts
<1> USE DEF ClientSends, registryVars, relayVars, ghostVars
<1>2. TypeOK'
  <2>1. client_side' \in Seq(Outgoing)
    BY <1>1 DEF TypeOK
  <2>2. outs' \in 0 .. MaxOut
    BY <1>1, RelayAssumption DEF TypeOK
  <2>3. QED
    BY <1>1, <2>1, <2>2 DEF TypeOK, RegistryTypeOK
<1>3. RowsInv'
  BY <1>1, RowsUntouched
<1>4. HandleCached' /\ AnswersSpoken' /\ NamesSpoken'
  BY <1>1 DEF HandleCached, NameOf, AnswersSpoken, AboutSpoken, NamesSpoken
<1>5. QED
  BY <1>2, <1>3, <1>4 DEF IndInv, RowsInv

LEMMA ArrivesStep ==
    ASSUME IndInv, NEW d \in Incoming, Arrives(d)
    PROVE  IndInv'
<1>1. TypeOK /\ RowsInv /\ HandleCached /\ AnswersSpoken /\ NamesSpoken
  BY IndInvParts
<1> USE DEF Arrives, registryVars, relayVars, ghostVars
<1>2. TypeOK'
  <2>1. upstream' \in Seq(Incoming)
    BY <1>1 DEF TypeOK
  <2>2. backs' \in 0 .. MaxBack
    BY <1>1, RelayAssumption DEF TypeOK
  <2>3. QED
    BY <1>1, <2>1, <2>2 DEF TypeOK, RegistryTypeOK
<1>3. RowsInv'
  BY <1>1, RowsUntouched
<1>4. HandleCached' /\ NamesSpoken'
  BY <1>1 DEF HandleCached, NameOf, NamesSpoken
<1>5. AnswersSpoken'
  <2>1. ASSUME NEW i \in DOMAIN upstream', upstream'[i].about # NoHost
        PROVE  upstream'[i].about \in spoken'[upstream'[i].from]
    <3>1. upstream \in Seq(Incoming) /\ Len(upstream) \in Nat
      BY <1>1 DEF TypeOK
    <3>2. upstream' = Append(upstream, d) /\ spoken' = spoken
      OBVIOUS
    <3>3. CASE i \in DOMAIN upstream
      <4>1. upstream'[i] = upstream[i]
        BY <3>1, <3>2, <3>3
      <4>2. QED
        BY <1>1, <2>1, <3>2, <3>3, <4>1 DEF AnswersSpoken, AboutSpoken
    <3>4. CASE i \notin DOMAIN upstream
      <4>1. upstream'[i] = d
        BY <3>1, <3>2, <3>4
      <4>2. QED
        BY <2>1, <3>2, <4>1
    <3>5. QED
      BY <3>3, <3>4
  <2>2. QED
    BY <1>1, <2>1 DEF AnswersSpoken, AboutSpoken
<1>6. QED
  BY <1>2, <1>3, <1>4, <1>5 DEF IndInv, RowsInv

LEMMA OtherOpensStep ==
    ASSUME IndInv, NEW host \in Hosts, OtherOpens(host)
    PROVE  IndInv'
<1>1. TypeOK /\ RowsInv /\ HandleCached /\ AnswersSpoken /\ NamesSpoken
  BY IndInvParts
<1>2. /\ host \notin foreign /\ foreign' = foreign \cup {host}
      /\ endpoints' = MapWith(host)
      /\ heap' = [HeapWith(host) EXCEPT ![endpoint(host)] = add_connection(@)]
      /\ UNCHANGED <<open_connections, pc, inhand, target, cached, resolved, names,
                     client_addr, client_side, upstream, outs, backs, spoken, wire,
                     got, stray, control>>
  BY DEF OtherOpens, relayVars, queueVars
<1>3. RegistryTypeOK
  BY <1>1 DEF TypeOK
<1>4. /\ heap' \in Seq(EndpointStats)
      /\ Len(heap') \in Nat /\ Len(heap) <= Len(heap')
      /\ endpoints' \in [Hosts -> 0 .. Len(heap')]
      /\ DistinctRows'
      /\ \A h \in Hosts : Present(h) => endpoints'[h] = endpoints[h]
      /\ RowStats(host)' = add_connection(RowStats(host))
      /\ \A h \in Hosts \ {host} : RowStats(h)' = RowStats(h)
  BY <1>1, <1>2, <1>3, OpenAndCount DEF RowsInv
<1>5. RegistryTypeOK' /\ Len(heap) \in Nat
  BY <1>2, <1>3, <1>4 DEF RegistryTypeOK
<1>6. cached' \in [Hosts -> 0 .. Len(heap')]
  BY <1>1, <1>2, <1>4, <1>5 DEF TypeOK
<1>7. TypeOK'
  BY <1>1, <1>2, <1>5, <1>6 DEF TypeOK
<1>8. CachedIsRow'
  BY <1>1, <1>2, <1>4 DEF RowsInv, CachedIsRow, Present
<1>9. OneConnectionPerHost'
  <2>1. RowStats(host) \in EndpointStats
    BY <1>3, RowType
  <2>2. RowStats(host)'.connections = RowStats(host).connections + 1
    BY <1>4, <2>1, CountConnection
  <2>3. RowStats(host).connections = Once(cached[host] # 0) + 0
    BY <1>1, <1>2 DEF RowsInv, OneConnectionPerHost, Once
  <2>4. RowStats(host)'.connections = Once(cached'[host] # 0) + Once(host \in foreign')
    BY <1>2, <2>2, <2>3 DEF Once
  <2>5. ASSUME NEW h \in Hosts \ {host}
        PROVE  RowStats(h)'.connections = Once(cached'[h] # 0) + Once(h \in foreign')
    BY <1>1, <1>2, <1>4 DEF RowsInv, OneConnectionPerHost
  <2>6. QED
    BY <2>4, <2>5 DEF OneConnectionPerHost
<1>10. EgressExact' /\ IngressExact' /\ DistinctAttributed'
  BY <1>1, <1>2, <1>3, <1>4, TrafficKept
<1>11. HandleCached' /\ AnswersSpoken' /\ NamesSpoken'
  BY <1>1, <1>2 DEF HandleCached, NameOf, AnswersSpoken, AboutSpoken, NamesSpoken
<1>12. QED
  BY <1>4, <1>7, <1>8, <1>9, <1>10, <1>11 DEF IndInv, RowsInv

LEMMA TakeFromClientStep ==
    ASSUME IndInv, TakeFromClient
    PROVE  IndInv'
<1>1. /\ TypeOK /\ RowsInv /\ HandleCached /\ AnswersSpoken /\ NamesSpoken
      /\ pc = "select"
  BY IndInvParts DEF TakeFromClient
<1>2. /\ UNCHANGED <<endpoints, heap, open_connections, target, cached, resolved, names,
                     upstream, outs, backs, foreign, spoken, wire, got, stray, control>>
      /\ client_addr' = Head(client_side).addr
      /\ client_side' = Tail(client_side)
      /\ \/ pc' = pc /\ inhand' = inhand
         \/ Head(client_side).host # NoHost /\ pc' = "resolve" /\ inhand' = Head(client_side)
  BY DEF TakeFromClient, registryVars
<1>3. client_side \in Seq(Outgoing) /\ client_side # <<>>
  BY <1>1 DEF TypeOK, TakeFromClient
<1>4. Head(client_side) \in Outgoing /\ Tail(client_side) \in Seq(Outgoing)
  BY <1>3, QueueParts
<1>5. Head(client_side).addr \in Clients /\ Head(client_side).host \in Hosts \cup {NoHost}
  BY <1>4, OutgoingAddr
<1>6. TypeOK'
  BY <1>1, <1>2, <1>4, <1>5 DEF TypeOK, RegistryTypeOK
<1>7. RowsInv'
  BY <1>1, <1>2, RowsUntouched
<1>8. HandleCached' /\ AnswersSpoken' /\ NamesSpoken'
  BY <1>1, <1>2 DEF HandleCached, AnswersSpoken, AboutSpoken, NamesSpoken
<1>9. QED
  BY <1>6, <1>7, <1>8 DEF IndInv, RowsInv

\* resolve() has an address, from its cache or from the lookup, and forward_out
\* goes on to the handle.
LEMMA ResolvedStep ==
    ASSUME IndInv, NEW ip \in Ips,
           pc = "resolve", pc' = "send_out", target' = ip,
           resolved' \in [Dests -> Ips \cup {NoIp}],
           CacheEndpoint(inhand.host),
           UNCHANGED <<open_connections, inhand, names, client_addr,
                       queueVars, ghostVars, control>>
    PROVE  IndInv'
<1>1. TypeOK /\ RowsInv /\ HandleCached /\ AnswersSpoken /\ NamesSpoken
  BY IndInvParts
<1>2. UNCHANGED <<open_connections, inhand, names, client_addr, client_side, upstream,
                  outs, backs, foreign, spoken, wire, got, stray, control>>
  BY DEF queueVars, ghostVars
<1>3. PICK host \in Hosts : host = inhand.host
  BY <1>1 DEF TypeOK
<1>4. /\ RegistryTypeOK'
      /\ cached' \in [Hosts -> 0 .. Len(heap')]
      /\ cached'[host] # 0
      /\ RowsInv'
  BY <1>1, <1>2, <1>3, CacheStep
<1>5. TypeOK'
  BY <1>1, <1>2, <1>4 DEF TypeOK
<1>6. HandleCached' /\ AnswersSpoken' /\ NamesSpoken'
  BY <1>1, <1>2, <1>3, <1>4 DEF HandleCached, AnswersSpoken, AboutSpoken, NamesSpoken
<1>7. QED
  BY <1>4, <1>5, <1>6 DEF IndInv, RowsInv

LEMMA ResolveSteps ==
    ASSUME IndInv, ResolveHits \/ \E ip \in Ips : LookupAnswers(ip)
    PROVE  IndInv'
<1>1. TypeOK /\ pc = "resolve" /\ Key \in Dests
  <2>1. TypeOK /\ pc = "resolve"
    BY DEF IndInv, ResolveHits, LookupAnswers
  <2>2. QED
    BY <2>1, OutgoingParts DEF TypeOK, Key
<1>2. CASE ResolveHits
  <2>1. PICK ip \in Ips : ip = resolved[Key]
    BY <1>1, <1>2 DEF TypeOK, ResolveHits
  <2>2. QED
    BY <1>1, <1>2, <2>1, ResolvedStep DEF ResolveHits, TypeOK
<1>3. ASSUME NEW ip \in Ips, LookupAnswers(ip) PROVE IndInv'
  <2>1. resolved' \in [Dests -> Ips \cup {NoIp}]
    BY <1>1, <1>3 DEF TypeOK, LookupAnswers
  <2>2. QED
    BY <1>1, <1>3, <2>1, ResolvedStep DEF LookupAnswers
<1>4. QED
  BY <1>2, <1>3

LEMMA SendsOutStep ==
    ASSUME IndInv, SendsOut
    PROVE  IndInv'
<1>1. /\ TypeOK /\ HandleCached /\ AnswersSpoken
      /\ pc = "send_out"
  BY DEF IndInv, SendsOut
<1>2. /\ pc' = "select"
      /\ names' = [names EXCEPT ![target] = inhand.host]
      /\ wire' = [wire EXCEPT ![inhand.host] = @ + inhand.size]
      /\ spoken' = [spoken EXCEPT ![target] = @ \cup {inhand.host}]
      /\ UNCHANGED <<endpoints, open_connections, cached, resolved, client_addr,
                     client_side, upstream, outs, backs, foreign, got, stray, control>>
  BY DEF SendsOut, Selects, Named, queueVars
<1>3. RegistryTypeOK' /\ Len(heap') = Len(heap) /\ RowsInv' /\ NamesSpoken'
  BY SendsOutRows
<1>4. inhand.host \in Hosts /\ target \in Ips /\ inhand.size \in Nat
  BY <1>1, OutgoingParts DEF TypeOK
<1>5. TypeOK'
  <2>1. names' \in [Ips -> Hosts \cup {NoHost}]
    BY <1>1, <1>2, <1>4 DEF TypeOK
  <2>2. wire' \in [Hosts -> Nat]
    BY <1>1, <1>2, <1>4 DEF TypeOK
  <2>3. spoken' \in [Ips -> SUBSET Hosts]
    BY <1>1, <1>2, <1>4 DEF TypeOK
  <2>4. QED
    BY <1>1, <1>2, <1>3, <2>1, <2>2, <2>3 DEF TypeOK
<1>6. HandleCached'
  BY <1>2 DEF HandleCached
<1>7. AnswersSpoken'
  <2>1. \A ip \in Ips : spoken[ip] \subseteq spoken'[ip]
    BY <1>1, <1>2, <1>4 DEF TypeOK
  <2>2. \A i \in DOMAIN upstream : upstream[i].from \in Ips
    BY <1>1, IncomingParts DEF TypeOK
  <2>3. QED
    BY <1>1, <1>2, <2>1, <2>2 DEF AnswersSpoken, AboutSpoken
<1>8. QED
  BY <1>3, <1>5, <1>6, <1>7 DEF IndInv, RowsInv

LEMMA TakeFromUpstreamStep ==
    ASSUME IndInv, TakeFromUpstream
    PROVE  IndInv'
<1>1. /\ TypeOK /\ RowsInv /\ HandleCached /\ AnswersSpoken /\ NamesSpoken
      /\ pc = "select"
  BY IndInvParts DEF TakeFromUpstream
<1>2. /\ upstream' = Tail(upstream)
      /\ UNCHANGED <<open_connections, target, resolved, names, client_addr, client_side,
                     outs, backs, foreign, spoken, wire, got, stray, control>>
  BY DEF TakeFromUpstream, ghostVars
<1>3. upstream \in Seq(Incoming) /\ upstream # <<>>
  BY <1>1 DEF TypeOK, TakeFromUpstream
<1>4. /\ Head(upstream) \in Incoming /\ Head(upstream) = upstream[1] /\ 1 \in DOMAIN upstream
      /\ Tail(upstream) \in Seq(Incoming)
      /\ \A i \in DOMAIN Tail(upstream) :
            i + 1 \in DOMAIN upstream /\ Tail(upstream)[i] = upstream[i + 1]
  BY <1>3, QueueParts
<1>5. \A i \in DOMAIN upstream' : AboutSpoken(upstream'[i])
  BY <1>1, <1>2, <1>4 DEF AnswersSpoken
<1>6. AboutSpoken(Head(upstream))
  BY <1>1, <1>4 DEF AnswersSpoken
<1>7. NamesSpoken'
  BY <1>1, <1>2 DEF NamesSpoken
<1>8. CASE ~HasClient
  <2>1. UNCHANGED <<pc, inhand, endpoints, heap, cached>>
    BY <1>8 DEF TakeFromUpstream
  <2>2. TypeOK'
    BY <1>1, <1>2, <1>4, <2>1 DEF TypeOK, RegistryTypeOK
  <2>3. RowsInv'
    BY <1>1, <1>2, <2>1, RowsUntouched
  <2>4. HandleCached' /\ AnswersSpoken'
    BY <1>1, <1>2, <1>5, <2>1 DEF HandleCached, AnswersSpoken, AboutSpoken
  <2>5. QED
    BY <1>7, <2>2, <2>3, <2>4 DEF IndInv, RowsInv
<1>9. CASE HasClient
  <2>1. /\ pc' = "send_back"
        /\ inhand' = Head(upstream)
        /\ CacheEndpoint(NameOf(Head(upstream).from))
        /\ client_addr \in Clients
    BY <1>1, <1>9 DEF TakeFromUpstream, HasClient, TypeOK
  <2>2. PICK host \in Hosts : host = NameOf(Head(upstream).from)
    BY <1>1, <1>4, IncomingParts, NameOfType
  <2>3. /\ RegistryTypeOK'
        /\ cached' \in [Hosts -> 0 .. Len(heap')]
        /\ cached'[host] # 0
        /\ RowsInv'
    BY <1>1, <1>2, <2>1, <2>2, CacheStep
  <2>4. TypeOK'
    BY <1>1, <1>2, <1>4, <2>1, <2>3 DEF TypeOK
  <2>5. HandleCached'
    BY <1>2, <2>1, <2>2, <2>3 DEF HandleCached, NameOf
  <2>6. AnswersSpoken'
    BY <1>2, <1>5, <1>6, <2>1 DEF AnswersSpoken, AboutSpoken
  <2>7. QED
    BY <1>7, <2>3, <2>4, <2>5, <2>6 DEF IndInv, RowsInv
<1>10. QED
  BY <1>8, <1>9

LEMMA SendsBackStep ==
    ASSUME IndInv, SendsBack
    PROVE  IndInv'
<1>1. /\ TypeOK /\ HandleCached /\ AnswersSpoken /\ NamesSpoken
      /\ pc = "send_back"
  BY DEF IndInv, SendsBack
<1>2. /\ pc' = "select"
      /\ UNCHANGED <<endpoints, open_connections, cached, resolved, names, client_addr,
                     client_side, upstream, outs, backs, foreign, spoken, wire, control>>
      /\ IF inhand.about = NoHost
         THEN stray' = stray + inhand.size /\ UNCHANGED got
         ELSE got' = [got EXCEPT ![inhand.about] = @ + inhand.size] /\ UNCHANGED stray
  BY DEF SendsBack, Selects, queueVars
<1>3. RegistryTypeOK' /\ Len(heap') = Len(heap) /\ RowsInv'
  BY SendsBackRows
<1>4. inhand.about \in Hosts \cup {NoHost} /\ inhand.size \in Nat
  BY <1>1, IncomingParts DEF TypeOK
<1>5. got' \in [Hosts -> Nat] /\ stray' \in Nat
  <2>1. got \in [Hosts -> Nat] /\ stray \in Nat
    BY <1>1 DEF TypeOK
  <2>2. CASE inhand.about = NoHost
    BY <1>2, <1>4, <2>1, <2>2
  <2>3. CASE inhand.about # NoHost
    <3>1. inhand.about \in Hosts /\ got[inhand.about] + inhand.size \in Nat
      BY <1>4, <2>1, <2>3
    <3>2. QED
      BY <1>2, <2>1, <2>3, <3>1
  <2>4. QED
    BY <2>2, <2>3
<1>6. TypeOK'
  BY <1>1, <1>2, <1>3, <1>5 DEF TypeOK
<1>7. HandleCached' /\ AnswersSpoken' /\ NamesSpoken'
  BY <1>1, <1>2 DEF HandleCached, AnswersSpoken, AboutSpoken, NamesSpoken
<1>8. QED
  BY <1>3, <1>6, <1>7 DEF IndInv, RowsInv

LEMMA NextIndInv ==
    IndInv /\ [Next]_vars => IndInv'
<1> SUFFICES ASSUME IndInv, [Next]_vars PROVE IndInv'
  OBVIOUS
<1>1. ASSUME NEW d \in Outgoing, ClientSends(d) PROVE IndInv'
  BY <1>1, ClientSendsStep
<1>2. ASSUME NEW d \in Incoming, Arrives(d) PROVE IndInv'
  BY <1>2, ArrivesStep
<1>3. ASSUME NEW h \in Others, OtherOpens(h) PROVE IndInv'
  BY <1>3, OtherOpensStep, RelayAssumption
<1>4. CASE ControlCloses
  BY <1>4, UnchangedButControl DEF ControlCloses
<1>5. CASE TakeFromClient
  BY <1>5, TakeFromClientStep
<1>6. CASE ResolveHits \/ \E ip \in Ips : LookupAnswers(ip)
  BY <1>6, ResolveSteps
<1>7. CASE LookupFails
  BY <1>7, DropStep DEF LookupFails, Selects
<1>8. CASE SendsOut
  BY <1>8, SendsOutStep
<1>9. CASE SendOutFails
  BY <1>9, DropStep DEF SendOutFails, Unsent, Selects, registryVars
<1>10. CASE TakeFromUpstream
  BY <1>10, TakeFromUpstreamStep
<1>11. CASE SendsBack
  BY <1>11, SendsBackStep
<1>12. CASE SendBackFails
  BY <1>12, DropStep DEF SendBackFails, Undelivered, Selects, registryVars
<1>13. CASE ReceiveFails \/ Cancelled
  BY <1>13, DropStep DEF ReceiveFails, Cancelled, Ended
<1>14. CASE Terminated \/ UNCHANGED vars
  BY <1>14, UnchangedButControl DEF Terminated, vars, IndInv, TypeOK
<1>15. QED
  BY <1>1, <1>2, <1>3, <1>4, <1>5, <1>6, <1>7, <1>8, <1>9, <1>10, <1>11, <1>12,
     <1>13, <1>14 DEF Next, RelayStep

LEMMA Invariance ==
    Spec => []IndInv
  BY InitIndInv, NextIndInv, PTL DEF Spec

-----------------------------------------------------------------------------
(* The theorems.                                                            *)

\* The types of the relay's state hold at every await: the handles it caches
\* point into the registry, and what it carries is what the await needs.
THEOREM RelayTypeCorrect ==
    Spec => []TypeOK
<1>1. IndInv => TypeOK
  BY DEF IndInv
<1>2. QED
  BY Invariance, <1>1, PTL

\* Relay::endpoint counts one connection per host and association, whatever
\* else the association does and whoever else counts in the same row.
THEOREM RelayOneConnectionPerHost ==
    Spec => []OneConnectionPerHost
<1>1. IndInv => OneConnectionPerHost
  BY DEF IndInv
<1>2. QED
  BY Invariance, <1>1, PTL

\* forward_out counts what left for a host, no more and no less, in that host's
\* row.
THEOREM RelayEgressExact ==
    Spec => []EgressExact
<1>1. IndInv => EgressExact
  BY DEF IndInv
<1>2. QED
  BY Invariance, <1>1, PTL

\* forward_back counts every answer that reached a client in some row, and
\* nothing else anywhere.
THEOREM RelayIngressExact ==
    Spec => []IngressExact
<1>1. IndInv => IngressExact
  BY DEF IndInv
<1>2. QED
  BY Invariance, <1>1, PTL

\* Relay::names attributes every answer to the host it is about, as long as no
\* two hosts of the association share an address.
THEOREM RelayDistinctAttributed ==
    Spec => []DistinctAttributed
<1>1. IndInv => DistinctAttributed
  BY DEF IndInv
<1>2. QED
  BY Invariance, <1>1, PTL
=============================================================================

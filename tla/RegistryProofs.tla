--------------------------- MODULE RegistryProofs ---------------------------
(***************************************************************************)
(* What the operations of the registry keep and change: their types, and     *)
(* what they do to the rows.  Lifecycle and Relay share these facts.         *)
(***************************************************************************)
EXTENDS Registry, SequenceTheorems, TLAPS

-----------------------------------------------------------------------------
(* Types.                                                                   *)

LEMMA StatsTypes ==
    ASSUME NEW s \in EndpointStats, NEW t \in EndpointStats,
           NEW addr \in Ips \cup {NoIp}, NEW n \in Nat
    PROVE  /\ add_connection(s) \in EndpointStats
           /\ add_ingress(s, n) \in EndpointStats
           /\ add_egress(s, n) \in EndpointStats
           /\ observe_ip(s, addr) \in EndpointStats
           /\ Merged(s, t) \in EndpointStats
           /\ NewStats \in EndpointStats
<1>1. /\ add_connection(s) \in EndpointStats
      /\ add_ingress(s, n) \in EndpointStats
      /\ add_egress(s, n) \in EndpointStats
      /\ NewStats \in EndpointStats
  BY DEF EndpointStats, add_connection, add_ingress, add_egress, NewStats
<1>2. observe_ip(s, addr) \in EndpointStats
  BY DEF EndpointStats, observe_ip
<1>3. Merged(s, t) \in EndpointStats
  <2>1. (IF s.ip = NoIp THEN t.ip ELSE s.ip) \in Ips \cup {NoIp}
    BY DEF EndpointStats
  <2>2. QED
    BY <2>1 DEF EndpointStats, Merged
<1>4. QED
  BY <1>1, <1>2, <1>3

\* Registry::endpoint returns a handle of the heap it leaves behind, and keeps
\* every handle given out before.
LEMMA EndpointType ==
    ASSUME RegistryTypeOK, NEW host \in Hosts
    PROVE  /\ HeapWith(host) \in Seq(EndpointStats)
           /\ Len(heap) \in Nat /\ Len(HeapWith(host)) \in Nat
           /\ Len(heap) <= Len(HeapWith(host))
           /\ endpoint(host) \in 1 .. Len(HeapWith(host))
           /\ MapWith(host) \in [Hosts -> 0 .. Len(HeapWith(host))]
<1>1. heap \in Seq(EndpointStats) /\ endpoints[host] \in 0 .. Len(heap)
  BY DEF RegistryTypeOK
<1>2. CASE Present(host)
  <2>1. HeapWith(host) = heap /\ endpoint(host) = endpoints[host]
    BY <1>2 DEF HeapWith, endpoint
  <2>2. endpoint(host) \in 1 .. Len(heap)
    BY <1>1, <1>2, <2>1 DEF Present
  <2>3. QED
    BY <1>1, <2>1, <2>2 DEF MapWith, RegistryTypeOK
<1>3. CASE ~Present(host)
  <2>1. /\ HeapWith(host) = Append(heap, NewStats)
        /\ endpoint(host) = Len(heap) + 1
    BY <1>3 DEF HeapWith, endpoint
  <2>2. NewStats \in EndpointStats
    BY DEF EndpointStats, NewStats
  <2>3. /\ HeapWith(host) \in Seq(EndpointStats)
        /\ Len(HeapWith(host)) = Len(heap) + 1
    BY <1>1, <2>1, <2>2, AppendProperties
  <2>4. QED
    BY <1>1, <2>1, <2>3 DEF MapWith, RegistryTypeOK
<1>4. QED
  BY <1>2, <1>3

\* One counter of the heap is replaced by another one.
LEMMA HeapUpdateType ==
    ASSUME NEW hp \in Seq(EndpointStats), NEW i \in 1 .. Len(hp),
           NEW s \in EndpointStats
    PROVE  /\ [hp EXCEPT ![i] = s] \in Seq(EndpointStats)
           /\ Len([hp EXCEPT ![i] = s]) = Len(hp)
           /\ hp[i] \in EndpointStats
  OBVIOUS

\* Registry::rename moves or merges one row.
LEMMA RenameType ==
    ASSUME RegistryTypeOK, NEW from \in Hosts, NEW to \in Hosts,
           rename(from, to), UNCHANGED open_connections
    PROVE  RegistryTypeOK' /\ Len(heap') = Len(heap)
<1>1. CASE from = to \/ ~Present(from)
  BY <1>1 DEF rename, RegistryTypeOK
<1>2. CASE ~(from = to \/ ~Present(from)) /\ ~Present(to)
  BY <1>2 DEF rename, RegistryTypeOK
<1>3. CASE ~(from = to \/ ~Present(from)) /\ Present(to)
  <2>1. endpoints[to] \in 1 .. Len(heap) /\ endpoints[from] \in 1 .. Len(heap)
    BY <1>3 DEF RegistryTypeOK, Present
  <2>2. heap[endpoints[to]] \in EndpointStats /\ heap[endpoints[from]] \in EndpointStats
    BY <2>1 DEF RegistryTypeOK
  <2>3. Merged(heap[endpoints[to]], heap[endpoints[from]]) \in EndpointStats
    BY <2>2, StatsTypes
  <2>4. /\ endpoints' = [endpoints EXCEPT ![from] = 0]
        /\ heap' = [heap EXCEPT ![endpoints[to]] =
                       Merged(heap[endpoints[to]], heap[endpoints[from]])]
    BY <1>3 DEF rename
  <2>5. heap' \in Seq(EndpointStats) /\ Len(heap') = Len(heap)
    BY <2>1, <2>3, <2>4, HeapUpdateType DEF RegistryTypeOK
  <2>6. QED
    BY <2>4, <2>5 DEF RegistryTypeOK
<1>4. QED
  BY <1>1, <1>2, <1>3

-----------------------------------------------------------------------------
(* Rows.  Distinct hosts have distinct counters, so that counting through a  *)
(* handle changes one row at most.                                          *)

DistinctRows ==
    \A g, h \in Hosts : Present(g) /\ endpoints[g] = endpoints[h] => g = h

LEMMA RowType ==
    ASSUME RegistryTypeOK, NEW h \in Hosts
    PROVE  /\ RowStats(h) \in EndpointStats
           /\ Present(h) => endpoints[h] \in 1 .. Len(heap)
<1>1. heap \in Seq(EndpointStats) /\ endpoints[h] \in 0 .. Len(heap)
  BY DEF RegistryTypeOK
<1>2. Present(h) => endpoints[h] \in 1 .. Len(heap)
  BY <1>1 DEF Present
<1>3. NewStats \in EndpointStats
  BY DEF EndpointStats, NewStats
<1>4. QED
  BY <1>1, <1>2, <1>3 DEF RowStats

\* Counting through a handle changes the row that has it, if any.
LEMMA CountRow ==
    ASSUME RegistryTypeOK, UNCHANGED endpoints,
           NEW i \in 1 .. Len(heap), NEW s \in EndpointStats,
           heap' = [heap EXCEPT ![i] = s]
    PROVE  /\ heap' \in Seq(EndpointStats)
           /\ Len(heap') = Len(heap)
           /\ endpoints' \in [Hosts -> 0 .. Len(heap')]
           /\ DistinctRows => DistinctRows'
           /\ \A h \in Hosts :
                 RowStats(h)' = IF endpoints[h] = i THEN s ELSE RowStats(h)
<1>1. heap \in Seq(EndpointStats) /\ endpoints \in [Hosts -> 0 .. Len(heap)]
  BY DEF RegistryTypeOK
<1>2. heap' \in Seq(EndpointStats) /\ Len(heap') = Len(heap)
  BY <1>1, HeapUpdateType
<1>3. DistinctRows => DistinctRows'
  BY DEF DistinctRows, Present
<1>4. ASSUME NEW h \in Hosts
      PROVE  RowStats(h)' = IF endpoints[h] = i THEN s ELSE RowStats(h)
  BY <1>1 DEF RowStats, Present
<1>5. QED
  BY <1>1, <1>2, <1>3, <1>4

\* Registry::endpoint leaves every row as it was: a new one has counted nothing.
LEMMA OpenRow ==
    ASSUME RegistryTypeOK, DistinctRows, NEW host \in Hosts,
           endpoints' = MapWith(host), heap' = HeapWith(host)
    PROVE  /\ DistinctRows'
           /\ endpoints'[host] = endpoint(host)
           /\ Present(host)'
           /\ \A h \in Hosts : RowStats(h)' = RowStats(h)
           /\ \A h \in Hosts : Present(h) => endpoints'[h] = endpoints[h]
           /\ \A h \in Hosts \ {host} : endpoints'[h] = endpoints[h]
<1>1. heap \in Seq(EndpointStats) /\ endpoints \in [Hosts -> 0 .. Len(heap)]
  BY DEF RegistryTypeOK
<1>2. /\ endpoints'[host] = endpoint(host)
      /\ \A h \in Hosts \ {host} : endpoints'[h] = endpoints[h]
  BY <1>1 DEF MapWith
<1>3. CASE Present(host)
  <2>1. endpoints' = endpoints /\ heap' = heap
    BY <1>1, <1>3 DEF MapWith, HeapWith, endpoint
  <2>2. QED
    BY <1>2, <1>3, <2>1 DEF DistinctRows, RowStats, Present
<1>4. CASE ~Present(host)
  <2>1. heap' = Append(heap, NewStats) /\ endpoint(host) = Len(heap) + 1
    BY <1>4 DEF HeapWith, endpoint
  <2>2. /\ \A j \in 1 .. Len(heap) : heap'[j] = heap[j]
        /\ heap'[Len(heap) + 1] = NewStats
    BY <1>1, <2>1
  <2>3. \A h \in Hosts : endpoints[h] \in 0 .. Len(heap)
    BY <1>1
  <2>4. Len(heap) \in Nat
    BY <1>1
  <2>5. ASSUME NEW h \in Hosts PROVE RowStats(h)' = RowStats(h)
    <3>1. CASE h = host
      <4>1. RowStats(h) = NewStats
        BY <1>4, <3>1 DEF RowStats
      <4>2. RowStats(h)' = NewStats
        BY <1>2, <2>1, <2>2, <2>4, <3>1 DEF RowStats, Present
      <4>3. QED
        BY <4>1, <4>2
    <3>2. CASE h # host
      BY <1>2, <2>2, <2>3, <3>2 DEF RowStats, Present
    <3>3. QED
      BY <3>1, <3>2
  <2>6. DistinctRows'
    BY <1>2, <1>4, <2>1, <2>3, <2>4 DEF DistinctRows, Present
  <2>7. QED
    BY <1>2, <1>4, <2>1, <2>4, <2>5, <2>6 DEF Present
<1>5. QED
  BY <1>3, <1>4

\* Registry::endpoint followed by add_connection counts one connection of the
\* host, and changes nothing else.
LEMMA OpenAndCount ==
    ASSUME RegistryTypeOK, DistinctRows, NEW host \in Hosts,
           endpoints' = MapWith(host),
           heap' = [HeapWith(host) EXCEPT ![endpoint(host)] = add_connection(@)]
    PROVE  /\ heap' \in Seq(EndpointStats)
           /\ Len(heap') \in Nat /\ Len(heap) <= Len(heap')
           /\ endpoints' \in [Hosts -> 0 .. Len(heap')]
           /\ endpoint(host) \in 1 .. Len(heap')
           /\ endpoints'[host] = endpoint(host)
           /\ DistinctRows'
           /\ \A h \in Hosts : Present(h) => endpoints'[h] = endpoints[h]
           /\ \A h \in Hosts \ {host} : endpoints'[h] = endpoints[h]
           /\ RowStats(host)' = add_connection(RowStats(host))
           /\ \A h \in Hosts \ {host} : RowStats(h)' = RowStats(h)
<1> DEFINE e == MapWith(host)
           hp == HeapWith(host)
           i == endpoint(host)
<1>1. /\ hp \in Seq(EndpointStats)
      /\ Len(heap) \in Nat /\ Len(hp) \in Nat /\ Len(heap) <= Len(hp)
      /\ i \in 1 .. Len(hp)
      /\ e \in [Hosts -> 0 .. Len(hp)]
  BY EndpointType
<1>2. heap \in Seq(EndpointStats) /\ endpoints \in [Hosts -> 0 .. Len(heap)]
  BY DEF RegistryTypeOK
<1>3. hp[i] = RowStats(host)
  BY <1>2 DEF HeapWith, endpoint, RowStats
<1>4. \A j \in 1 .. Len(heap) : hp[j] = heap[j]
  BY <1>2 DEF HeapWith
<1>5. /\ e[host] = i
      /\ \A h \in Hosts \ {host} : e[h] = endpoints[h]
      /\ \A h \in Hosts : Present(h) => e[h] = endpoints[h]
  BY <1>2 DEF MapWith, endpoint
<1>6. \A h \in Hosts \ {host} : endpoints[h] # i
  BY <1>2 DEF endpoint, DistinctRows, Present
<1>7. \A h \in Hosts : endpoints[h] \in 0 .. Len(heap)
  BY <1>2
<1> HIDE DEF e, hp, i
<1>8. add_connection(hp[i]) \in EndpointStats
  <2>1. hp[i] \in EndpointStats
    BY <1>1
  <2>2. QED
    BY <2>1 DEF EndpointStats, add_connection
<1>9. endpoints' = e /\ heap' = [hp EXCEPT ![i] = add_connection(hp[i])]
  BY DEF e, hp, i
<1>10. heap' \in Seq(EndpointStats) /\ Len(heap') = Len(hp)
  <2> DEFINE s == add_connection(hp[i])
  <2>1. s \in EndpointStats /\ heap' = [hp EXCEPT ![i] = s]
    BY <1>8, <1>9
  <2> HIDE DEF s
  <2>2. /\ [hp EXCEPT ![i] = s] \in Seq(EndpointStats)
        /\ Len([hp EXCEPT ![i] = s]) = Len(hp)
    BY <1>1, <2>1, HeapUpdateType
  <2>3. QED
    BY <2>1, <2>2
<1>11. heap'[i] = add_connection(hp[i]) /\ \A j \in 1 .. Len(hp) : j # i => heap'[j] = hp[j]
  BY <1>1, <1>9
<1>12. RowStats(host)' = add_connection(RowStats(host))
  <2>1. endpoints'[host] = i /\ i # 0
    BY <1>1, <1>5, <1>9
  <2>2. QED
    BY <1>3, <1>11, <2>1 DEF RowStats, Present
<1>13. ASSUME NEW h \in Hosts \ {host} PROVE RowStats(h)' = RowStats(h)
  <2>1. endpoints'[h] = endpoints[h] /\ endpoints[h] # i
    BY <1>5, <1>6, <1>9
  <2>2. CASE Present(h)
    <3>1. endpoints[h] \in 1 .. Len(heap)
      BY <1>7, <2>2 DEF Present
    <3>2. heap'[endpoints[h]] = heap[endpoints[h]]
      BY <1>1, <1>4, <1>11, <2>1, <3>1
    <3>3. QED
      BY <2>1, <2>2, <3>2 DEF RowStats, Present
  <2>3. CASE ~Present(h)
    BY <2>1, <2>3 DEF RowStats, Present
  <2>4. QED
    BY <2>2, <2>3
<1>14. DistinctRows'
  BY <1>5, <1>6, <1>9 DEF DistinctRows, Present
<1>15. QED
  BY <1>1, <1>5, <1>9, <1>10, <1>12, <1>13, <1>14 DEF e, hp, i

\* Registry::rename moves what one row holds to another, and leaves every other
\* row alone.
LEMMA RenameRows ==
    ASSUME RegistryTypeOK, DistinctRows, NEW from \in Hosts, NEW to \in Hosts,
           rename(from, to)
    PROVE  /\ DistinctRows'
           /\ \/ \A h \in Hosts : RowStats(h)' = RowStats(h)
              \/ /\ from # to
                 /\ RowStats(from)' = NewStats
                 /\ \/ RowStats(to)' = Merged(RowStats(to), RowStats(from))
                    \/ RowStats(to) = NewStats /\ RowStats(to)' = RowStats(from)
                 /\ \A h \in Hosts \ {from, to} : RowStats(h)' = RowStats(h)
<1>1. heap \in Seq(EndpointStats) /\ endpoints \in [Hosts -> 0 .. Len(heap)]
  BY DEF RegistryTypeOK
<1>2. CASE from = to \/ ~Present(from)
  <2>1. UNCHANGED <<endpoints, heap>>
    BY <1>2 DEF rename
  <2>2. QED
    BY <2>1 DEF DistinctRows, Present, RowStats
<1>3. CASE from # to /\ Present(from) /\ ~Present(to)
  <2>1. endpoints' = [endpoints EXCEPT ![from] = 0, ![to] = endpoints[from]] /\ heap' = heap
    BY <1>3 DEF rename
  <2>2. /\ endpoints'[from] = 0 /\ endpoints'[to] = endpoints[from]
        /\ \A h \in Hosts \ {from, to} : endpoints'[h] = endpoints[h]
    BY <1>1, <1>3, <2>1
  <2>3. DistinctRows'
    BY <1>3, <2>2 DEF DistinctRows, Present
  <2>4. /\ RowStats(from)' = NewStats
        /\ RowStats(to) = NewStats /\ RowStats(to)' = RowStats(from)
    BY <1>3, <2>1, <2>2 DEF Present, RowStats
  <2>5. ASSUME NEW h \in Hosts \ {from, to} PROVE RowStats(h)' = RowStats(h)
    <3>1. endpoints'[h] = endpoints[h] /\ heap' = heap
      BY <2>1, <2>2
    <3>2. QED
      BY <3>1 DEF Present, RowStats
  <2>6. QED
    BY <1>3, <2>3, <2>4, <2>5
<1>4. CASE from # to /\ Present(from) /\ Present(to)
  <2>1. /\ endpoints[to] \in 1 .. Len(heap) /\ endpoints[from] \in 1 .. Len(heap)
        /\ RowStats(to) = heap[endpoints[to]] /\ RowStats(from) = heap[endpoints[from]]
    BY <1>1, <1>4 DEF Present, RowStats
  <2>2. PICK m : m = Merged(RowStats(to), RowStats(from))
    OBVIOUS
  <2>3. endpoints' = [endpoints EXCEPT ![from] = 0]
        /\ heap' = [heap EXCEPT ![endpoints[to]] = m]
    BY <1>4, <2>1, <2>2 DEF rename
  <2>4. /\ endpoints'[from] = 0
        /\ \A h \in Hosts \ {from} : endpoints'[h] = endpoints[h]
        /\ heap'[endpoints[to]] = m
        /\ \A i \in 1 .. Len(heap) : i # endpoints[to] => heap'[i] = heap[i]
    BY <1>1, <2>1, <2>3
  <2>5. DistinctRows'
    BY <2>4 DEF DistinctRows, Present
  <2>6. ASSUME NEW h \in Hosts \ {from, to} PROVE RowStats(h)' = RowStats(h)
    <3>1. endpoints[h] # endpoints[to]
      BY <1>4, <2>6 DEF DistinctRows
    <3>2. Present(h) => endpoints[h] \in 1 .. Len(heap)
      BY <1>1 DEF Present
    <3>3. QED
      BY <2>4, <3>1, <3>2 DEF Present, RowStats
  <2>7. RowStats(from)' = NewStats /\ RowStats(to)' = m
    BY <1>4, <2>4 DEF Present, RowStats
  <2>8. QED
    BY <1>4, <2>2, <2>5, <2>6, <2>7
<1>5. QED
  BY <1>2, <1>3, <1>4
=============================================================================

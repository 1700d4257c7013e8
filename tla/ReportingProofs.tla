--------------------------- MODULE ReportingProofs --------------------------
(***************************************************************************)
(* Proofs about Reporting, for any recorded rows, any PTR records and any    *)
(* order of the answers and of the map: what the report accounts for, whose  *)
(* counts a row has, in which order the rows come, and what the process      *)
(* exits with.                                                               *)
(***************************************************************************)
EXTENDS Reporting, RegistryProofs, SumTheorems, TLAPS

-----------------------------------------------------------------------------
(* The inductive invariant.                                                 *)

NameOrNone == Hosts \cup {NoName}

Typed ==
    /\ recorded \in Recorded
    /\ RegistryTypeOK
    /\ pc \in {"start", "join", "snapshot", "exited"}
    /\ handles \in Seq(Hosts)
    /\ task \in [Hosts -> {"none", "spawned", "lookup", "done"}]
    /\ named \in [Hosts -> NameOrNone]
    /\ cache \in [Ips -> SUBSET NameOrNone]

\* The hosts whose tasks are not joined yet.
Pending == {handles[i] : i \in 1 .. Len(handles)}

\* Each address has one task; a task that is not done is still to be joined, and
\* has not named anything.
Tasks ==
    /\ \A i, j \in 1 .. Len(handles) : handles[i] = handles[j] => i = j
    /\ \A i \in 1 .. Len(handles) : handles[i] \in Bare
    /\ pc = "start" => handles = <<>> /\ \A h \in Hosts : task[h] = "none"
    /\ pc = "join" => handles # <<>>
    /\ pc \in {"snapshot", "exited"} => handles = <<>>
    /\ \A h \in Hosts : task[h] \in {"spawned", "lookup"} => h \in Pending
    /\ \A h \in Hosts : task[h] # "done" => named[h] = NoName

\* A count of an EndpointStats that adds up when two of them are merged.
Measures ==
    {m \in [EndpointStats -> Nat] :
        /\ m[NewStats] = 0
        /\ \A s, t \in EndpointStats : m[Merged(s, t)] = m[s] + m[t]}

\* Renaming moves counts between rows, and neither adds nor drops any.
Conserved ==
    \A m \in Measures :
        Total([h \in Hosts |-> m[RowStats(h)]])
            = Total([i \in DOMAIN recorded |-> m[recorded[i].stats]])

\* The row that what was recorded under g has been moved to by now.
Owner(g) == IF named[g] # NoName /\ g \notin Pending THEN named[g] ELSE g

\* What was recorded of the hosts that share the row of h.
Share(m, h) ==
    [i \in DOMAIN recorded |->
        IF Owner(recorded[i].host) = h THEN m[recorded[i].stats] ELSE 0]

Shared(h) == {i \in DOMAIN recorded : Owner(recorded[i].host) = h}

SharedIps(h) == {recorded[i].stats.ip : i \in Shared(h)}

\* While no PTR record names an address, every row has its own share.
Shares ==
    (\A h \in Hosts : named[h] \notin Bare) =>
        \A h \in Hosts :
            /\ \A m \in Measures : m[RowStats(h)] = Total(Share(m, h))
            /\ Present(h) <=> Shared(h) # {}
            /\ RowStats(h).ip \in SharedIps(h) \cup {NoIp}
            /\ RowStats(h).ip = NoIp => SharedIps(h) \subseteq {NoIp}

\* What was printed is a report of the registry as it is.
ReportSo ==
    pc = "exited" =>
        \E order \in Sorted, filter \in Filters, status \in Statuses :
            report = ReportOf(order, filter, status)

IndInv == Typed /\ DistinctRows /\ Tasks /\ Conserved /\ Shares /\ ReportSo

-----------------------------------------------------------------------------
(* Counters, records and names.                                             *)

LEMMA FieldsMeasure ==
    /\ [s \in EndpointStats |-> s.ingress] \in Measures
    /\ [s \in EndpointStats |-> s.egress] \in Measures
    /\ [s \in EndpointStats |-> s.connections] \in Measures
<1>1. NewStats \in EndpointStats /\ \A s, t \in EndpointStats : Merged(s, t) \in EndpointStats
  BY StatsTypes, NoIpAssumption, NoIp \in Ips \cup {NoIp}, 0 \in Nat DEF EndpointStats, NewStats
<1>2. \A s \in EndpointStats : s.ingress \in Nat /\ s.egress \in Nat /\ s.connections \in Nat
  BY DEF EndpointStats
<1>3. \A s, t \in EndpointStats : /\ Merged(s, t).ingress = s.ingress + t.ingress
                                  /\ Merged(s, t).egress = s.egress + t.egress
                                  /\ Merged(s, t).connections = s.connections + t.connections
  BY DEF Merged
<1>4. NewStats.ingress = 0 /\ NewStats.egress = 0 /\ NewStats.connections = 0
  BY DEF NewStats
<1>5. QED
  BY <1>1, <1>2, <1>3, <1>4 DEF Measures

LEMMA RecordFacts ==
    ASSUME NEW r \in Recorded
    PROVE  /\ Len(r) \in Nat /\ DOMAIN r = 1 .. Len(r) /\ IsFiniteSet(DOMAIN r)
           /\ \A i \in DOMAIN r : r[i].host \in Hosts /\ r[i].stats \in EndpointStats
           /\ \A i, j \in DOMAIN r : r[i].host = r[j].host => i = j
<1>1. r \in Seq([host : Hosts, stats : EndpointStats])
  BY RecordedAssumption
<1>2. Len(r) \in Nat /\ DOMAIN r = 1 .. Len(r)
  BY <1>1, LenProperties
<1>3. \A i \in 1 .. Len(r) : r[i] \in [host : Hosts, stats : EndpointStats]
  BY <1>1, ElementOfSeq
<1>4. IsFiniteSet(1 .. Len(r))
  BY <1>2, FS_Interval, 1 \in Int
<1>5. \A i, j \in DOMAIN r : r[i].host = r[j].host => i = j
  BY RecordedAssumption
<1>6. QED
  BY <1>2, <1>3, <1>4, <1>5

\* trim_end_matches cuts a text behind the last character that is not c.
LEMMA TrimEnd ==
    ASSUME NEW s \in Seq(Nat), NEW c, NEW n \in 0 .. Len(s),
           \A i \in n + 1 .. Len(s) : s[i] = c,
           n > 0 => s[n] # c
    PROVE  trim_end_matches(s, c) = SubSeq(s, 1, n)
<1> DEFINE I == {i \in 1 .. Len(s) : s[i] # c}
<1>1. Len(s) \in Nat
  BY LenProperties
<1>2. \A i \in I : i <= n
  BY <1>1
<1>3. CASE n = 0
  <2>1. I = {}
    BY <1>2, <1>3
  <2>2. QED
    BY <1>3, <2>1 DEF trim_end_matches, SelectLastInSeq
<1>4. CASE n > 0
  <2>1. n \in I
    BY <1>1, <1>4
  <2>2. \A x \in I : (\A y \in I : x >= y) <=> x = n
    BY <1>1, <1>2, <2>1
  <2>3. Max(I) = n
    <3> HIDE DEF I
    <3>1. QED
      BY <2>1, <2>2 DEF Max
  <2>4. I # {}
    BY <2>1
  <2>5. QED
    BY <2>3, <2>4 DEF trim_end_matches, SelectLastInSeq
<1>5. QED
  BY <1>1, <1>3, <1>4

\* What a lookup returns is the name of a host, or none.
LEMMA PtrNameType ==
    ASSUME NEW a \in Answers
    PROVE  PtrName(a) \in NameOrNone
<1>1. a \in Seq(Nat)
  BY AnswersAssumption
<1>2. PICK n \in 0 .. Len(a) :
        /\ \A i \in n + 1 .. Len(a) : a[i] = Dot
        /\ n > 0 => a[n] # Dot /\ to_ascii_lowercase(SubSeq(a, 1, n)) \in Hosts
  BY AnswersAssumption
<1>3. trim_end_matches(a, Dot) = SubSeq(a, 1, n)
  BY <1>1, <1>2, TrimEnd
<1>4. CASE n = 0
  <2>1. SubSeq(a, 1, n) = <<>>
    BY <1>4, SubSeqEmpty, 1 \in Int, 0 \in Int, 0 < 1
  <2>2. to_ascii_lowercase(<<>>) = <<>>
    BY DEF to_ascii_lowercase
  <2>3. QED
    BY <1>3, <2>1, <2>2 DEF PtrName, NameOrNone
<1>5. CASE n > 0
  BY <1>2, <1>3, <1>5 DEF PtrName, NameOrNone
<1>6. QED
  BY <1>2, <1>4, <1>5, LenProperties, <1>1

-----------------------------------------------------------------------------
(* The registry at the start.                                               *)

\* SelectInSeq finds the one record of a host, if there is one.
LEMMA InitRows ==
    ASSUME Init
    PROVE  /\ heap \in Seq(EndpointStats) /\ Len(heap) = Len(recorded)
           /\ \A i \in DOMAIN recorded : heap[i] = recorded[i].stats
           /\ endpoints \in [Hosts -> 0 .. Len(heap)]
           /\ \A h \in Hosts :
                 \/ endpoints[h] = 0 /\ \A i \in DOMAIN recorded : recorded[i].host # h
                 \/ endpoints[h] \in DOMAIN recorded /\ recorded[endpoints[h]].host = h
<1>1. /\ Len(recorded) \in Nat /\ DOMAIN recorded = 1 .. Len(recorded)
      /\ \A i \in DOMAIN recorded : recorded[i].host \in Hosts /\ recorded[i].stats \in EndpointStats
      /\ \A i, j \in DOMAIN recorded : recorded[i].host = recorded[j].host => i = j
  BY RecordFacts DEF Init
<1>2. heap = [i \in 1 .. Len(recorded) |-> recorded[i].stats]
  BY <1>1 DEF Init
<1>3. heap \in Seq(EndpointStats) /\ Len(heap) = Len(recorded)
  BY <1>1, <1>2
<1>4. ASSUME NEW h \in Hosts
      PROVE  \/ endpoints[h] = 0 /\ \A i \in DOMAIN recorded : recorded[i].host # h
             \/ endpoints[h] \in DOMAIN recorded /\ recorded[endpoints[h]].host = h
  <2> DEFINE I == {i \in 1 .. Len(recorded) : recorded[i].host = h}
  <2>1. endpoints[h] = IF I # {} THEN Min(I) ELSE 0
    BY DEF Init, SelectInSeq
  <2>2. CASE I = {}
    BY <1>1, <2>1, <2>2
  <2>3. CASE I # {}
    <3>1. PICK i \in 1 .. Len(recorded) : recorded[i].host = h
      BY <2>3
    <3>2. I = {i}
      BY <1>1, <3>1
    <3>3. Min({i}) = i
      BY DEF Min
    <3>4. QED
      BY <1>1, <2>1, <2>3, <3>1, <3>2, <3>3
  <2>4. QED
    BY <2>2, <2>3
<1>5. \A h \in Hosts : endpoints[h] \in 0 .. Len(heap)
  BY <1>1, <1>3, <1>4
<1>6. endpoints \in [Hosts -> 0 .. Len(heap)]
  BY <1>5 DEF Init
<1>7. QED
  BY <1>1, <1>2, <1>3, <1>4, <1>6

LEMMA InitInv == Init => IndInv
<1> SUFFICES ASSUME Init PROVE IndInv
  OBVIOUS
<1>1. /\ Len(recorded) \in Nat /\ DOMAIN recorded = 1 .. Len(recorded)
      /\ IsFiniteSet(DOMAIN recorded)
      /\ \A i \in DOMAIN recorded : recorded[i].host \in Hosts /\ recorded[i].stats \in EndpointStats
      /\ \A i, j \in DOMAIN recorded : recorded[i].host = recorded[j].host => i = j
  BY RecordFacts DEF Init
<1>2. /\ heap \in Seq(EndpointStats) /\ Len(heap) = Len(recorded)
      /\ \A i \in DOMAIN recorded : heap[i] = recorded[i].stats
      /\ endpoints \in [Hosts -> 0 .. Len(heap)]
      /\ \A h \in Hosts :
            \/ endpoints[h] = 0 /\ \A i \in DOMAIN recorded : recorded[i].host # h
            \/ endpoints[h] \in DOMAIN recorded /\ recorded[endpoints[h]].host = h
  BY InitRows
<1>3. Typed
  <2>1. RegistryTypeOK
    BY <1>2 DEF Init, RegistryTypeOK
  <2>2. NoName \in NameOrNone
    BY DEF NameOrNone
  <2>3. <<>> \in Seq(Hosts)
    OBVIOUS
  <2>4. QED
    BY <2>1, <2>2, <2>3 DEF Init, Typed
<1>4. DistinctRows
  BY <1>2 DEF DistinctRows, Present
<1>5. Tasks
  BY DEF Init, Tasks
<1>6. \A i \in DOMAIN recorded : endpoints[recorded[i].host] = i
  BY <1>1, <1>2
<1>7. /\ \A h \in Hosts : RowStats(h) \in EndpointStats
      /\ \A h \in Hosts : ~Present(h) => RowStats(h) = NewStats
      /\ \A i \in DOMAIN recorded :
            Present(recorded[i].host) /\ RowStats(recorded[i].host) = recorded[i].stats
  <2>1. \A h \in Hosts : RowStats(h) \in EndpointStats
    BY <1>3, RowType DEF Typed
  <2>2. QED
    BY <1>1, <1>2, <1>6, <2>1 DEF RowStats, Present
<1>8. Conserved
  <2> SUFFICES ASSUME NEW m \in Measures
               PROVE  Total([h \in Hosts |-> m[RowStats(h)]])
                        = Total([i \in DOMAIN recorded |-> m[recorded[i].stats]])
    BY DEF Conserved
  <2> DEFINE f == [h \in Hosts |-> m[RowStats(h)]]
             g == [i \in DOMAIN recorded |-> m[recorded[i].stats]]
             k == [i \in DOMAIN recorded |-> recorded[i].host]
  <2>1. m \in [EndpointStats -> Nat] /\ m[NewStats] = 0
    BY DEF Measures
  <2>2. f \in [Hosts -> Nat] /\ g \in [DOMAIN recorded -> Nat] /\ k \in [DOMAIN recorded -> Hosts]
    BY <1>1, <1>7, <2>1
  <2>3. \A i, j \in DOMAIN recorded : k[i] = k[j] => i = j
    BY <1>1
  <2>4. ASSUME NEW h \in Hosts, \A i \in DOMAIN recorded : k[i] # h
        PROVE  f[h] = 0
    <3>1. ~Present(h)
      BY <1>2, <2>4 DEF Present
    <3>2. QED
      BY <1>7, <2>1, <3>1
  <2>5. \A i \in DOMAIN recorded : g[i] = f[k[i]]
    BY <1>1, <1>7
  <2>6. IsFiniteSet(Hosts)
    BY ReportingAssumption
  <2> HIDE DEF f, g, k
  <2>7. \A h \in Hosts : (\A i \in DOMAIN recorded : k[i] # h) => f[h] = 0
    BY <2>4
  <2>8. PICK D : D = DOMAIN recorded
    OBVIOUS
  <2>9. Total(g) = Total(f)
    <3>1. IsFiniteSet(D) /\ IsFiniteSet(Hosts)
      BY <1>1, <2>6, <2>8
    <3>2. f \in [Hosts -> Nat] /\ g \in [D -> Nat] /\ k \in [D -> Hosts]
      BY <2>2, <2>8
    <3>3. \A i, j \in D : k[i] = k[j] => i = j
      BY <2>3, <2>8
    <3>4. \A h \in Hosts : (\A i \in D : k[i] # h) => f[h] = 0
      BY <2>7, <2>8
    <3>5. \A i \in D : g[i] = f[k[i]]
      BY <2>5, <2>8
    <3>6. QED
      BY ONLY <3>1, <3>2, <3>3, <3>4, <3>5, TotalReindex
  <2>10. QED
    BY <2>9 DEF f, g
<1>9. Shares
  <2> SUFFICES ASSUME NEW h \in Hosts
               PROVE  /\ \A m \in Measures : m[RowStats(h)] = Total(Share(m, h))
                      /\ Present(h) <=> Shared(h) # {}
                      /\ RowStats(h).ip \in SharedIps(h) \cup {NoIp}
                      /\ RowStats(h).ip = NoIp => SharedIps(h) \subseteq {NoIp}
    BY DEF Shares
  <2>1. \A g \in Hosts : Owner(g) = g
    BY DEF Owner, Init
  <2>2. CASE ~Present(h)
    <3>1. \A i \in DOMAIN recorded : recorded[i].host # h
      BY <1>7, <2>2
    <3>2. Shared(h) = {} /\ SharedIps(h) = {}
      BY <1>1, <2>1, <3>1 DEF Shared, SharedIps
    <3>3. RowStats(h).ip = NoIp
      BY <1>7, <2>2 DEF NewStats
    <3>4. ASSUME NEW m \in Measures PROVE m[RowStats(h)] = Total(Share(m, h))
      <4>1. Share(m, h) = [i \in DOMAIN recorded |-> 0]
        BY <1>1, <2>1, <3>1 DEF Share
      <4>2. Total(Share(m, h)) = 0
        BY <1>1, <4>1, TotalZero
      <4>3. QED
        BY <1>7, <2>2, <4>2 DEF Measures
    <3>5. QED
      BY <2>2, <3>2, <3>3, <3>4
  <2>3. CASE Present(h)
    <3>1. PICK i \in DOMAIN recorded : recorded[i].host = h
      BY <1>2, <2>3 DEF Present
    <3>2. Shared(h) = {i}
      BY <1>1, <2>1, <3>1 DEF Shared
    <3>3. SharedIps(h) = {RowStats(h).ip}
      BY <1>7, <3>1, <3>2 DEF SharedIps
    <3>4. ASSUME NEW m \in Measures PROVE m[RowStats(h)] = Total(Share(m, h))
      <4>1. m \in [EndpointStats -> Nat]
        BY DEF Measures
      <4>2. Share(m, h) \in [DOMAIN recorded -> Nat]
        BY <1>1, <4>1 DEF Share
      <4>3. Share(m, h)[i] = m[RowStats(h)]
        BY <1>1, <1>7, <2>1, <3>1 DEF Share
      <4>4. \A j \in DOMAIN recorded \ {i} : Share(m, h)[j] = 0
        BY <1>1, <2>1, <3>1 DEF Share
      <4>5. QED
        BY <1>1, <4>2, <4>3, <4>4, TotalSingle
    <3>5. QED
      BY <2>3, <3>2, <3>3, <3>4
  <2>4. QED
    BY <2>2, <2>3
<1>10. ReportSo
  BY DEF Init, ReportSo
<1>11. QED
  BY <1>3, <1>4, <1>5, <1>8, <1>9, <1>10 DEF IndInv

-----------------------------------------------------------------------------
(* Steps that leave the rows alone.                                         *)

LEMMA SameReport ==
    ASSUME UNCHANGED <<endpoints, heap>>
    PROVE  /\ Sorted' = Sorted
           /\ \A order, filter, status :
                 ReportOf(order, filter, status)' = ReportOf(order, filter, status)
<1>1. \A h : StatsOf(h)' = StatsOf(h)
  BY DEF StatsOf
<1>2. hosts' = hosts
  BY DEF hosts, Present
<1>3. Sorted' = Sorted
  BY <1>1, <1>2 DEF Sorted, Precedes
<1>4. \A h, filter : Row(h, filter)' = Row(h, filter)
  BY <1>1 DEF Row
<1>5. QED
  BY <1>3, <1>4 DEF ReportOf

LEMMA SameRows ==
    ASSUME IndInv, UNCHANGED <<endpoints, heap, recorded>>,
           \A g \in Hosts : Owner(g)' = Owner(g),
           (\A h \in Hosts : named'[h] \notin Bare) => \A h \in Hosts : named[h] \notin Bare
    PROVE  DistinctRows' /\ Conserved' /\ Shares'
<1>1. \A h : RowStats(h)' = RowStats(h) /\ (Present(h)' <=> Present(h))
  BY DEF RowStats, Present
<1>2. DistinctRows'
  BY DEF IndInv, DistinctRows, Present
<1>3. Conserved'
  BY <1>1 DEF IndInv, Conserved
<1>4. \A i \in DOMAIN recorded : Owner(recorded[i].host)' = Owner(recorded[i].host)
  BY RecordFacts DEF IndInv, Typed
<1>5. \A h : Shared(h)' = Shared(h)
  BY <1>4 DEF Shared
<1>6. \A h : SharedIps(h)' = SharedIps(h)
  BY <1>5 DEF SharedIps
<1>7. \A m, h : Share(m, h)' = Share(m, h)
  BY <1>4 DEF Share
<1>8. Shares'
  BY <1>1, <1>5, <1>6, <1>7 DEF IndInv, Shares
<1>9. QED
  BY <1>2, <1>3, <1>8

LEMMA SpawnInv ==
    ASSUME IndInv, Spawn
    PROVE  IndInv'
<1>1. PICK order \in SetToSeqs(hosts \cap Bare) : handles' = order
  BY DEF Spawn
<1>2. /\ pc = "start"
      /\ task' = [h \in Hosts |-> IF h \in hosts \cap Bare THEN "spawned" ELSE "none"]
      /\ pc' = IF hosts \cap Bare = {} THEN "snapshot" ELSE "join"
      /\ UNCHANGED <<endpoints, heap, open_connections, named, cache, recorded, report>>
  BY DEF Spawn, registryVars
<1> DEFINE B == hosts \cap Bare
           n == Cardinality(B)
<1>3. IsFiniteSet(B) /\ B \subseteq Hosts /\ B \subseteq Bare
  BY ReportingAssumption, FS_Subset DEF hosts
<1>4. n \in Nat /\ (n = 0 <=> B = {})
  BY <1>3, FS_CardinalityType, FS_EmptySet
<1>5. order \in [1 .. n -> B] /\ \A i, j \in 1 .. n : i # j => order[i] # order[j]
  BY <1>1 DEF SetToSeqs
<1>6. order \in Seq(Hosts) /\ Len(order) = n
  <2> HIDE DEF B, n
  <2>1. order \in [1 .. n -> Hosts]
    BY <1>3, <1>5
  <2>2. QED
    BY <1>4, <2>1
<1>7. \A h \in B : \E i \in 1 .. n : order[i] = h
  <2>1. IsFiniteSet(1 .. n) /\ Cardinality(1 .. n) = n
    BY <1>4, FS_Interval
  <2>2. order \in Injection(1 .. n, B)
    BY <1>5 DEF Injection, IsInjective
  <2>3. order \in Surjection(1 .. n, B)
    BY <1>3, <2>1, <2>2, FS_Injection
  <2>4. QED
    BY <2>3 DEF Surjection
<1> HIDE DEF B, n
<1>8. Typed'
  BY <1>1, <1>2, <1>6 DEF IndInv, Typed, RegistryTypeOK
<1>9. \A h \in Hosts : task[h] = "none" /\ named[h] = NoName
  BY <1>2 DEF IndInv, Tasks
<1>10. Tasks'
  <2>1. \A i, j \in 1 .. Len(handles') : handles'[i] = handles'[j] => i = j
    BY <1>1, <1>5, <1>6
  <2>2. \A i \in 1 .. Len(handles') : handles'[i] \in Bare
    BY <1>1, <1>3, <1>5, <1>6
  <2>3. handles' = <<>> <=> B = {}
    BY <1>1, <1>4, <1>6, EmptySeq
  <2>4. \A h \in Hosts : task'[h] \in {"spawned", "lookup"} => h \in Pending'
    <3>1. \A h \in B : h \in Pending'
      BY <1>1, <1>6, <1>7 DEF Pending
    <3>2. QED
      BY <1>2, <3>1 DEF B
  <2>5. \A h \in Hosts : named'[h] = NoName
    BY <1>2, <1>9
  <2>6. pc' # "start" /\ (pc' = "join" => B # {}) /\ (pc' \in {"snapshot", "exited"} => B = {})
    BY <1>2 DEF B
  <2>7. QED
    BY <2>1, <2>2, <2>3, <2>4, <2>5, <2>6 DEF Tasks
<1>11. \A g \in Hosts : Owner(g)' = Owner(g)
  BY <1>2, <1>9 DEF Owner
<1>12. DistinctRows' /\ Conserved' /\ Shares'
  BY <1>2, <1>11, SameRows
<1>13. ReportSo'
  BY <1>2 DEF ReportSo
<1>14. QED
  BY <1>8, <1>10, <1>12, <1>13 DEF IndInv

\* A task that ends, with or without a name.
LEMMA ReturnsInv ==
    ASSUME IndInv, NEW h \in Hosts, NEW name \in NameOrNone,
           task[h] \in {"spawned", "lookup"},
           Returns(h, name),
           cache' \in [Ips -> SUBSET NameOrNone],
           UNCHANGED <<registryVars, recorded, pc, handles, report>>
    PROVE  IndInv'
<1>1. /\ task' = [task EXCEPT ![h] = "done"]
      /\ named' = [named EXCEPT ![h] = name]
      /\ UNCHANGED <<endpoints, heap, open_connections, recorded, pc, handles, report>>
  BY DEF Returns, registryVars
<1>2. task \in [Hosts -> {"none", "spawned", "lookup", "done"}] /\ named \in [Hosts -> NameOrNone]
  BY DEF IndInv, Typed
<1>3. Typed'
  BY <1>1 DEF IndInv, Typed, RegistryTypeOK
<1>4. Pending' = Pending /\ h \in Pending /\ named[h] = NoName
  BY <1>1 DEF IndInv, Tasks, Pending
<1>5. Tasks'
  <2>1. pc # "start"
    BY DEF IndInv, Tasks
  <2>2. \A g \in Hosts : task'[g] \in {"spawned", "lookup"} => g \in Pending'
    BY <1>1, <1>2, <1>4 DEF IndInv, Tasks
  <2>3. \A g \in Hosts : task'[g] # "done" => named'[g] = NoName
    BY <1>1, <1>2 DEF IndInv, Tasks
  <2>4. QED
    BY <1>1, <2>1, <2>2, <2>3 DEF IndInv, Tasks
<1>6. \A g \in Hosts : Owner(g)' = Owner(g)
  BY <1>1, <1>2, <1>4 DEF Owner
<1>7. NoName \notin Bare
  BY ReportingAssumption DEF Bare
<1>8. (\A g \in Hosts : named'[g] \notin Bare) => \A g \in Hosts : named[g] \notin Bare
  BY <1>1, <1>2, <1>4, <1>7
<1>9. DistinctRows' /\ Conserved' /\ Shares'
  BY <1>1, <1>6, <1>8, SameRows
<1>10. pc' # "exited"
  <2>1. handles # <<>>
    BY <1>4 DEF Pending
  <2>2. QED
    BY <1>1, <2>1 DEF IndInv, Tasks
<1>11. QED
  BY <1>3, <1>5, <1>9, <1>10 DEF IndInv, ReportSo

LEMMA HitInv ==
    ASSUME IndInv, NEW h \in Hosts, Hit(h)
    PROVE  IndInv'
<1>1. PICK name \in cache[IpOf[h]] : Returns(h, name)
  BY DEF Hit
<1>2. IpOf[h] \in Ips
  <2>1. h \in Pending
    BY DEF IndInv, Tasks, Hit
  <2>2. h \in Bare
    BY <2>1 DEF IndInv, Tasks, Pending
  <2>3. QED
    BY <2>2, ReportingAssumption DEF Bare
<1>3. name \in NameOrNone
  BY <1>1, <1>2 DEF IndInv, Typed
<1>4. cache' \in [Ips -> SUBSET NameOrNone]
  BY DEF IndInv, Typed, Hit
<1>5. QED
  BY <1>1, <1>3, <1>4, ReturnsInv DEF Hit

LEMMA AnswerInv ==
    ASSUME IndInv, NEW h \in Hosts, LookupEnds(h)
    PROVE  IndInv'
<1>1. PICK name \in {PtrName(a) : a \in Answers} \cup {NoName} : Answer(h, name)
  BY DEF LookupEnds
<1>2. name \in NameOrNone
  BY PtrNameType DEF NameOrNone
<1>3. cache' = [cache EXCEPT ![IpOf[h]] = {name}]
  BY <1>1 DEF Answer, Caches
<1>4. cache' \in [Ips -> SUBSET NameOrNone]
  BY <1>2, <1>3 DEF IndInv, Typed
<1>5. QED
  BY <1>1, <1>2, <1>4, ReturnsInv DEF Answer

LEMMA MissInv ==
    ASSUME IndInv, NEW h \in Hosts, Miss(h)
    PROVE  IndInv'
<1>1. /\ task[h] = "spawned"
      /\ task' = [task EXCEPT ![h] = "lookup"]
      /\ UNCHANGED <<endpoints, heap, open_connections, named, cache, recorded, pc, handles, report>>
  BY DEF Miss, registryVars
<1>2. task \in [Hosts -> {"none", "spawned", "lookup", "done"}]
  BY DEF IndInv, Typed
<1>3. Typed'
  BY <1>1 DEF IndInv, Typed, RegistryTypeOK
<1>4. Pending' = Pending
  BY <1>1 DEF Pending
<1>5. Tasks'
  <2>1. pc # "start" /\ handles # <<>>
    BY <1>1 DEF IndInv, Tasks, Pending
  <2>2. \A g \in Hosts : task'[g] \in {"spawned", "lookup"} => g \in Pending'
    BY <1>1, <1>2, <1>4 DEF IndInv, Tasks
  <2>3. \A g \in Hosts : task'[g] # "done" => named'[g] = NoName
    BY <1>1, <1>2 DEF IndInv, Tasks
  <2>4. QED
    BY <1>1, <2>1, <2>2, <2>3 DEF IndInv, Tasks
<1>6. \A g \in Hosts : Owner(g)' = Owner(g)
  BY <1>1, <1>4 DEF Owner
<1>7. DistinctRows' /\ Conserved' /\ Shares'
  BY <1>1, <1>6, SameRows
<1>8. pc' # "exited"
  BY <1>1 DEF IndInv, Tasks, Pending
<1>9. QED
  BY <1>3, <1>5, <1>7, <1>8 DEF IndInv, ReportSo

LEMMA SnapshotInv ==
    ASSUME IndInv, Snapshot
    PROVE  IndInv'
<1>1. PICK order \in Sorted, filter \in Filters, status \in Statuses :
        report' = ReportOf(order, filter, status)
  BY DEF Snapshot
<1>2. /\ pc = "snapshot" /\ pc' = "exited"
      /\ UNCHANGED <<endpoints, heap, open_connections, task, named, cache, recorded, handles>>
  BY DEF Snapshot, registryVars, resolverVars
<1>3. Typed'
  BY <1>2 DEF IndInv, Typed, RegistryTypeOK
<1>4. Pending' = Pending
  BY <1>2 DEF Pending
<1>5. Tasks'
  BY <1>2, <1>4 DEF IndInv, Tasks
<1>6. \A g \in Hosts : Owner(g)' = Owner(g)
  BY <1>2, <1>4 DEF Owner
<1>7. DistinctRows' /\ Conserved' /\ Shares'
  BY <1>2, <1>6, SameRows
<1>8. ReportSo'
  <2>1. order \in Sorted' /\ report' = ReportOf(order, filter, status)'
    BY <1>1, <1>2, SameReport
  <2>2. QED
    BY <2>1 DEF ReportSo
<1>9. QED
  BY <1>3, <1>5, <1>7, <1>8 DEF IndInv

LEMMA StutterInv ==
    ASSUME IndInv, UNCHANGED vars
    PROVE  IndInv'
<1>1. UNCHANGED <<endpoints, heap, open_connections, task, named, cache, recorded, pc,
                  handles, report>>
  BY DEF vars, registryVars, resolverVars
<1>2. Typed'
  BY <1>1 DEF IndInv, Typed, RegistryTypeOK
<1>3. Pending' = Pending
  BY <1>1 DEF Pending
<1>4. Tasks'
  BY <1>1, <1>3 DEF IndInv, Tasks
<1>5. \A g \in Hosts : Owner(g)' = Owner(g)
  BY <1>1, <1>3 DEF Owner
<1>6. DistinctRows' /\ Conserved' /\ Shares'
  BY <1>1, <1>5, SameRows
<1>7. ReportSo'
  BY <1>1, SameReport DEF IndInv, ReportSo
<1>8. QED
  BY <1>2, <1>4, <1>6, <1>7 DEF IndInv

-----------------------------------------------------------------------------
(* Join.                                                                    *)

\* rename adds the row of `from` to the row of `to`, in every case.
LEMMA RenameMoves ==
    ASSUME RegistryTypeOK, DistinctRows, NEW from \in Hosts, NEW to \in Hosts,
           from # to, rename(from, to)
    PROVE  /\ ~Present(from)' /\ RowStats(from)' = NewStats
           /\ Present(to)' <=> Present(to) \/ Present(from)
           /\ \A m \in Measures : m[RowStats(to)'] = m[RowStats(to)] + m[RowStats(from)]
           /\ RowStats(to)'.ip = IF RowStats(to).ip = NoIp THEN RowStats(from).ip
                                 ELSE RowStats(to).ip
           /\ \A h \in Hosts \ {from, to} :
                 RowStats(h)' = RowStats(h) /\ (Present(h)' <=> Present(h))
<1>1. endpoints \in [Hosts -> 0 .. Len(heap)] /\ heap \in Seq(EndpointStats)
  BY DEF RegistryTypeOK
<1>2. /\ \A h \in Hosts : RowStats(h) \in EndpointStats
      /\ \A h \in Hosts : Present(h) => endpoints[h] \in 1 .. Len(heap)
  BY RowType
<1>3. NewStats.ip = NoIp
  BY DEF NewStats
<1>4. ASSUME NEW m \in Measures
      PROVE  /\ m[NewStats] = 0
             /\ \A h \in Hosts : m[RowStats(h)] \in Nat
             /\ m[Merged(RowStats(to), RowStats(from))] = m[RowStats(to)] + m[RowStats(from)]
  BY <1>2 DEF Measures
<1>5. CASE ~Present(from)
  <2>1. UNCHANGED <<endpoints, heap>>
    BY <1>5 DEF rename
  <2>2. \A h : RowStats(h)' = RowStats(h) /\ (Present(h)' <=> Present(h))
    BY <2>1 DEF RowStats, Present
  <2>3. RowStats(from) = NewStats
    BY <1>5 DEF RowStats
  <2>4. \A m \in Measures : m[RowStats(to)] = m[RowStats(to)] + m[RowStats(from)]
    BY <1>4, <2>3
  <2>5. QED
    BY <1>3, <1>5, <2>2, <2>3, <2>4
<1>6. CASE Present(from) /\ ~Present(to)
  <2>1. /\ endpoints' = [endpoints EXCEPT ![from] = 0, ![to] = endpoints[from]]
        /\ heap' = heap
    BY <1>6 DEF rename
  <2>2. /\ endpoints'[from] = 0 /\ endpoints'[to] = endpoints[from]
        /\ \A h \in Hosts \ {from, to} : endpoints'[h] = endpoints[h]
    BY <1>1, <2>1
  <2>3. RowStats(to) = NewStats /\ RowStats(to)' = RowStats(from)
    BY <1>6, <2>1, <2>2 DEF RowStats, Present
  <2>4. \A m \in Measures : m[RowStats(from)] = m[RowStats(to)] + m[RowStats(from)]
    BY <1>4, <2>3
  <2>5. ~Present(from)' /\ RowStats(from)' = NewStats /\ Present(to)'
    BY <1>6, <2>2 DEF RowStats, Present
  <2>6. ASSUME NEW h \in Hosts \ {from, to}
        PROVE  RowStats(h)' = RowStats(h) /\ (Present(h)' <=> Present(h))
    <3>1. endpoints'[h] = endpoints[h] /\ heap' = heap
      BY <2>1, <2>2
    <3>2. QED
      BY ONLY <3>1 DEF RowStats, Present
  <2>7. QED
    BY <1>3, <1>6, <2>3, <2>4, <2>5, <2>6
<1>7. CASE Present(from) /\ Present(to)
  <2>1. /\ endpoints' = [endpoints EXCEPT ![from] = 0]
        /\ heap' = [heap EXCEPT ![endpoints[to]] = Merged(@, heap[endpoints[from]])]
    BY <1>7 DEF rename
  <2>2. /\ endpoints'[from] = 0
        /\ \A h \in Hosts \ {from} : endpoints'[h] = endpoints[h]
    BY <1>1, <2>1
  <2>3. endpoints[to] \in 1 .. Len(heap) /\ DOMAIN heap = 1 .. Len(heap)
    BY <1>1, <1>2, <1>7
  <2>4. /\ heap'[endpoints[to]] = Merged(heap[endpoints[to]], heap[endpoints[from]])
        /\ \A i \in DOMAIN heap \ {endpoints[to]} : heap'[i] = heap[i]
    BY <2>1, <2>3
  <2>5. RowStats(to)' = Merged(RowStats(to), RowStats(from))
    BY <1>7, <2>2, <2>4 DEF RowStats, Present
  <2>6. ASSUME NEW h \in Hosts \ {from, to}
        PROVE  RowStats(h)' = RowStats(h) /\ (Present(h)' <=> Present(h))
    <3>1. Present(h) => endpoints[h] \in DOMAIN heap \ {endpoints[to]}
      BY <1>2, <1>7, <2>3 DEF DistinctRows, Present
    <3>2. QED
      BY <2>2, <2>4, <3>1 DEF RowStats, Present
  <2>7. RowStats(to)'.ip = IF RowStats(to).ip = NoIp THEN RowStats(from).ip ELSE RowStats(to).ip
    BY <2>5 DEF Merged
  <2>8. /\ \A m \in Measures : m[RowStats(to)'] = m[RowStats(to)] + m[RowStats(from)]
    BY <1>4, <2>5
  <2>9. Present(to)' /\ ~Present(from)' /\ RowStats(from)' = NewStats
    BY <1>7, <2>2 DEF RowStats, Present
  <2>10. QED
    BY <1>7, <2>6, <2>7, <2>8, <2>9
<1>8. QED
  BY <1>5, <1>6, <1>7

LEMMA RenameConserves ==
    ASSUME Typed, DistinctRows, Conserved, NEW from \in Hosts, NEW to \in Hosts,
           rename(from, to), UNCHANGED recorded, RegistryTypeOK'
    PROVE  Conserved'
<1>1. CASE from = to
  <2>1. UNCHANGED <<endpoints, heap>>
    BY <1>1 DEF rename
  <2>2. \A h : RowStats(h)' = RowStats(h)
    BY <2>1 DEF RowStats, Present
  <2>3. QED
    BY <2>2 DEF Conserved
<1>2. CASE from # to
  <2> SUFFICES ASSUME NEW m \in Measures
               PROVE  Total([h \in Hosts |-> m[RowStats(h)']])
                        = Total([i \in DOMAIN recorded |-> m[recorded[i].stats]])
    BY DEF Conserved
  <2> DEFINE f == [h \in Hosts |-> m[RowStats(h)]]
             g == [h \in Hosts |-> m[RowStats(h)']]
  <2>1. m \in [EndpointStats -> Nat] /\ m[NewStats] = 0
    BY DEF Measures
  <2>2. \A h \in Hosts : RowStats(h) \in EndpointStats
    BY RowType DEF Typed
  <2>3. \A h \in Hosts : RowStats(h)' \in EndpointStats
    <3>1. /\ heap' \in Seq(EndpointStats)
          /\ endpoints' \in [Hosts -> 0 .. Len(heap')]
      BY DEF RegistryTypeOK
    <3>2. NewStats \in EndpointStats
      BY DEF EndpointStats, NewStats
    <3>3. QED
      BY <3>1, <3>2 DEF RowStats, Present
  <2>4. f \in [Hosts -> Nat] /\ g \in [Hosts -> Nat]
    BY <2>1, <2>2, <2>3
  <2>5. g[from] = 0 /\ g[to] = f[to] + f[from] /\ \A h \in Hosts \ {from, to} : g[h] = f[h]
    <3>1. /\ RowStats(from)' = NewStats
          /\ m[RowStats(to)'] = m[RowStats(to)] + m[RowStats(from)]
          /\ \A h \in Hosts \ {from, to} : RowStats(h)' = RowStats(h)
      BY <1>2, RenameMoves DEF Typed
    <3>2. QED
      BY <2>1, <3>1
  <2>6. Total(f) = Total([i \in DOMAIN recorded |-> m[recorded[i].stats]])
    BY DEF Conserved
  <2> HIDE DEF f, g
  <2>7. Total(g) = Total(f)
    <3>1. IsFiniteSet(Hosts)
      BY ReportingAssumption
    <3>2. QED
      BY ONLY <1>2, <2>4, <2>5, <3>1, from \in Hosts, to \in Hosts, TotalMove
  <2>8. QED
    BY <2>6, <2>7 DEF g
<1>3. QED
  BY <1>1, <1>2

\* Whose counts are where once the task of `from` is joined.
LEMMA JoinOwners ==
    ASSUME IndInv, pc = "join", handles' = Tail(handles), UNCHANGED <<named, recorded>>
    PROVE  /\ handles # <<>> /\ Head(handles) \in Hosts /\ Head(handles) \in Bare
           /\ handles' \in Seq(Hosts)
           /\ Pending' = Pending \ {Head(handles)}
           /\ \A i, j \in 1 .. Len(handles') : handles'[i] = handles'[j] => i = j
           /\ \A i \in 1 .. Len(handles') : handles'[i] \in Bare
           /\ \A g \in Hosts :
                 Owner(g)' = IF g = Head(handles) /\ named[g] # NoName THEN named[g] ELSE Owner(g)
<1>1. handles # <<>> /\ handles \in Seq(Hosts)
  BY DEF IndInv, Typed, Tasks
<1>2. /\ Head(handles) = handles[1] /\ Len(handles) \in Nat \ {0}
      /\ Len(Tail(handles)) = Len(handles) - 1
      /\ \A i \in 1 .. Len(handles) - 1 : Tail(handles)[i] = handles[i + 1]
      /\ handles' \in Seq(Hosts)
  BY <1>1
<1>3. Head(handles) \in Hosts /\ Head(handles) \in Bare
  BY <1>1, <1>2 DEF IndInv, Tasks
<1>4. ASSUME NEW h PROVE h \in Pending' <=> h \in Pending \ {Head(handles)}
  <2>1. ASSUME h \in Pending' PROVE h \in Pending \ {Head(handles)}
    <3>1. PICK i \in 1 .. Len(handles) - 1 : h = handles[i + 1]
      BY <1>2, <2>1 DEF Pending
    <3>2. i + 1 \in 1 .. Len(handles) /\ 1 \in 1 .. Len(handles) /\ i + 1 # 1
      BY <1>2
    <3>3. QED
      BY <1>2, <3>1, <3>2 DEF Pending, IndInv, Tasks
  <2>2. ASSUME h \in Pending \ {Head(handles)} PROVE h \in Pending'
    <3>1. PICK i \in 1 .. Len(handles) : h = handles[i]
      BY <2>2 DEF Pending
    <3>2. i # 1
      BY <1>2, <2>2, <3>1
    <3>3. i - 1 \in 1 .. Len(handles) - 1 /\ (i - 1) + 1 = i
      BY <1>2, <3>2
    <3>4. Tail(handles)[i - 1] = h
      BY <1>2, <3>1, <3>3
    <3>5. QED
      BY <1>2, <3>3, <3>4 DEF Pending
  <2>3. QED
    BY <2>1, <2>2
<1>5. Pending' = Pending \ {Head(handles)}
  BY <1>4
<1>6. ASSUME NEW i \in 1 .. Len(handles'), NEW j \in 1 .. Len(handles')
      PROVE  handles'[i] \in Bare /\ (handles'[i] = handles'[j] => i = j)
  <2>1. i + 1 \in 1 .. Len(handles) /\ j + 1 \in 1 .. Len(handles)
    BY <1>2
  <2>2. handles'[i] = handles[i + 1] /\ handles'[j] = handles[j + 1]
    BY <1>2
  <2>3. handles[i + 1] = handles[j + 1] => i + 1 = j + 1
    BY <2>1 DEF IndInv, Tasks
  <2>4. handles[i + 1] \in Bare
    BY <2>1 DEF IndInv, Tasks
  <2>5. QED
    BY <1>2, <2>2, <2>3, <2>4
<1>7. \A g \in Hosts :
        Owner(g)' = IF g = Head(handles) /\ named[g] # NoName THEN named[g] ELSE Owner(g)
  BY <1>5 DEF Owner
<1>8. QED
  BY <1>1, <1>2, <1>3, <1>5, <1>6, <1>7

\* The row of `to` gets the share of `from`, which keeps nothing.
LEMMA RenameShares ==
    ASSUME Typed, DistinctRows, NEW from \in Hosts, NEW to \in Hosts, from # to,
           rename(from, to), UNCHANGED recorded,
           \A g \in Hosts : Owner(g) = from => g = from,
           Owner(from) = from,
           \A g \in Hosts : Owner(g)' = IF g = from THEN to ELSE Owner(g),
           \A h \in Hosts :
              /\ \A m \in Measures : m[RowStats(h)] = Total(Share(m, h))
              /\ Present(h) <=> Shared(h) # {}
              /\ RowStats(h).ip \in SharedIps(h) \cup {NoIp}
              /\ RowStats(h).ip = NoIp => SharedIps(h) \subseteq {NoIp},
           NEW h \in Hosts
    PROVE  /\ \A m \in Measures : m[RowStats(h)'] = Total(Share(m, h)')
           /\ Present(h)' <=> Shared(h)' # {}
           /\ RowStats(h)'.ip \in SharedIps(h)' \cup {NoIp}
           /\ RowStats(h)'.ip = NoIp => SharedIps(h)' \subseteq {NoIp}
<1>1. /\ IsFiniteSet(DOMAIN recorded)
      /\ \A i \in DOMAIN recorded : recorded[i].host \in Hosts /\ recorded[i].stats \in EndpointStats
  BY RecordFacts DEF Typed
<1>2. /\ ~Present(from)' /\ RowStats(from)' = NewStats
      /\ Present(to)' <=> Present(to) \/ Present(from)
      /\ \A m \in Measures : m[RowStats(to)'] = m[RowStats(to)] + m[RowStats(from)]
      /\ RowStats(to)'.ip = IF RowStats(to).ip = NoIp THEN RowStats(from).ip ELSE RowStats(to).ip
      /\ \A g \in Hosts \ {from, to} : RowStats(g)' = RowStats(g) /\ (Present(g)' <=> Present(g))
  BY RenameMoves DEF Typed
<1>3. \A i \in DOMAIN recorded :
        Owner(recorded[i].host)' =
          IF Owner(recorded[i].host) = from THEN to ELSE Owner(recorded[i].host)
  BY <1>1
<1>4. CASE h = from
  <2>1. Shared(h)' = {}
    BY <1>3, <1>4 DEF Shared
  <2>2. SharedIps(h)' = {}
    BY <2>1 DEF SharedIps
  <2>3. RowStats(h)'.ip = NoIp
    BY <1>2, <1>4 DEF NewStats
  <2>4. ASSUME NEW m \in Measures PROVE m[RowStats(h)'] = Total(Share(m, h)')
    <3>1. Share(m, h)' = [i \in DOMAIN recorded |-> 0]
      BY <1>3, <1>4 DEF Share
    <3>2. Total(Share(m, h)') = 0
      BY <1>1, <3>1, TotalZero
    <3>3. QED
      BY <1>2, <1>4, <3>2 DEF Measures
  <2>5. QED
    BY <1>2, <1>4, <2>1, <2>2, <2>3, <2>4
<1>5. CASE h = to
  <2>1. Shared(h)' = Shared(h) \cup Shared(from)
    BY <1>3, <1>5 DEF Shared
  <2>2. SharedIps(h)' = SharedIps(h) \cup SharedIps(from)
    BY <2>1 DEF SharedIps
  <2>3. ASSUME NEW m \in Measures PROVE m[RowStats(h)'] = Total(Share(m, h)')
    <3> DEFINE D == DOMAIN recorded
               F == Share(m, h)
               G == Share(m, from)
               H == Share(m, h)'
    <3>1. \A i \in D : m[recorded[i].stats] \in Nat
      BY <1>1 DEF Measures
    <3>2. F \in [D -> Nat] /\ G \in [D -> Nat] /\ H \in [D -> Nat]
      BY <3>1 DEF Share
    <3>3. \A i \in D : (F[i] = 0 /\ H[i] = G[i]) \/ (G[i] = 0 /\ H[i] = F[i])
      BY <1>3, <1>5 DEF Share
    <3>4. IsFiniteSet(D)
      BY <1>1
    <3>5. m[RowStats(h)] = Total(F) /\ m[RowStats(from)] = Total(G)
      OBVIOUS
    <3>6. m[RowStats(h)'] = m[RowStats(h)] + m[RowStats(from)]
      BY <1>2, <1>5
    <3> HIDE DEF D, F, G, H
    <3>7. Total(H) = Total(F) + Total(G)
      BY ONLY <3>2, <3>3, <3>4, TotalDisjoint
    <3>8. QED
      BY <3>5, <3>6, <3>7 DEF H
  <2>4. Present(h)' <=> Shared(h)' # {}
    BY <1>2, <1>5, <2>1
  <2>5. /\ RowStats(h)'.ip \in SharedIps(h)' \cup {NoIp}
        /\ RowStats(h)'.ip = NoIp => SharedIps(h)' \subseteq {NoIp}
    BY <1>2, <1>5, <2>2
  <2>6. QED
    BY <2>3, <2>4, <2>5
<1>6. CASE h \notin {from, to}
  <2>1. Shared(h)' = Shared(h)
    BY <1>3, <1>6 DEF Shared
  <2>2. SharedIps(h)' = SharedIps(h)
    BY <2>1 DEF SharedIps
  <2>3. \A m : Share(m, h)' = Share(m, h)
    BY <1>3, <1>6 DEF Share
  <2>4. RowStats(h)' = RowStats(h) /\ (Present(h)' <=> Present(h))
    BY <1>2, <1>6
  <2>5. QED
    BY <2>1, <2>2, <2>3, <2>4
<1>7. QED
  BY <1>4, <1>5, <1>6

LEMMA JoinInv ==
    ASSUME IndInv, Join
    PROVE  IndInv'
<1> DEFINE from == Head(handles)
           to == named[Head(handles)]
<1>1. /\ pc = "join" /\ task[from] = "done"
      /\ IF to = NoName THEN UNCHANGED <<endpoints, heap>> ELSE rename(from, to)
      /\ handles' = Tail(handles)
      /\ pc' = IF Tail(handles) = <<>> THEN "snapshot" ELSE "join"
      /\ UNCHANGED <<open_connections, task, named, cache, recorded, report>>
  BY DEF Join, resolverVars
<1>2. /\ handles # <<>> /\ from \in Hosts /\ from \in Bare
      /\ handles' \in Seq(Hosts)
      /\ Pending' = Pending \ {from}
      /\ \A i, j \in 1 .. Len(handles') : handles'[i] = handles'[j] => i = j
      /\ \A i \in 1 .. Len(handles') : handles'[i] \in Bare
      /\ \A g \in Hosts :
            Owner(g)' = IF g = from /\ named[g] # NoName THEN named[g] ELSE Owner(g)
  BY <1>1, JoinOwners
<1>3. to \in NameOrNone
  BY <1>2 DEF IndInv, Typed
<1> HIDE DEF from, to
<1>4. Tasks'
  <2>1. \A h \in Hosts : task'[h] \in {"spawned", "lookup"} => h \in Pending'
    BY <1>1, <1>2 DEF IndInv, Tasks
  <2>2. pc' # "start" /\ (pc' = "join" => handles' # <<>>)
        /\ (pc' \in {"snapshot", "exited"} => handles' = <<>>)
    BY <1>1
  <2>3. \A h \in Hosts : task'[h] # "done" => named'[h] = NoName
    BY <1>1 DEF IndInv, Tasks
  <2>4. QED
    BY <1>2, <2>1, <2>2, <2>3 DEF Tasks
<1>5. ReportSo'
  BY <1>1 DEF ReportSo
<1>6. CASE to = NoName
  <2>1. UNCHANGED <<endpoints, heap>>
    BY <1>1, <1>6
  <2>2. Typed'
    BY <1>1, <1>2, <2>1 DEF IndInv, Typed, RegistryTypeOK
  <2>3. \A g \in Hosts : Owner(g)' = Owner(g)
    BY <1>2, <1>6 DEF to, from
  <2>4. DistinctRows' /\ Conserved' /\ Shares'
    BY <1>1, <2>1, <2>3, SameRows
  <2>5. QED
    BY <1>4, <1>5, <2>2, <2>4 DEF IndInv
<1>7. CASE to # NoName
  <2>1. to \in Hosts /\ rename(from, to)
    BY <1>1, <1>3, <1>7 DEF NameOrNone
  <2>2. RegistryTypeOK'
    BY <1>1, <1>2, <2>1, RenameType DEF IndInv, Typed
  <2>3. Typed'
    BY <1>1, <1>2, <2>2 DEF IndInv, Typed
  <2>4. DistinctRows'
    BY <1>2, <2>1, RenameRows DEF IndInv, Typed
  <2>5. Conserved'
    BY <1>1, <1>2, <2>1, <2>2, RenameConserves DEF IndInv
  <2>6. Shares'
    <3> SUFFICES ASSUME \A h \in Hosts : named[h] \notin Bare, NEW h \in Hosts
                 PROVE  /\ \A m \in Measures : m[RowStats(h)'] = Total(Share(m, h)')
                        /\ Present(h)' <=> Shared(h)' # {}
                        /\ RowStats(h)'.ip \in SharedIps(h)' \cup {NoIp}
                        /\ RowStats(h)'.ip = NoIp => SharedIps(h)' \subseteq {NoIp}
      BY <1>1 DEF Shares
    <3>1. from # to
      BY <1>2 DEF from, to
    <3>2. \A g \in Hosts : Owner(g) = from => g = from
      BY <1>2 DEF Owner
    <3>3. Owner(from) = from
      <4>1. from \in Pending
        <5>1. handles \in Seq(Hosts)
          BY DEF IndInv, Typed
        <5>2. from = handles[1] /\ 1 \in 1 .. Len(handles)
          BY <1>2, <5>1 DEF from
        <5>3. QED
          BY <5>2 DEF Pending
      <4>2. QED
        BY <4>1 DEF Owner
    <3>4. \A g \in Hosts : Owner(g)' = IF g = from THEN to ELSE Owner(g)
      BY <1>2, <1>7 DEF from, to
    <3>5. QED
      BY <1>1, <1>2, <2>1, <3>1, <3>2, <3>3, <3>4, RenameShares DEF IndInv, Shares
  <2>7. QED
    BY <1>4, <1>5, <2>3, <2>4, <2>5, <2>6 DEF IndInv
<1>8. QED
  BY <1>6, <1>7

LEMMA InvHolds == Spec => []IndInv
<1>1. IndInv /\ [Next]_vars => IndInv'
  BY SpawnInv, JoinInv, SnapshotInv, HitInv, MissInv, AnswerInv, StutterInv
  DEF Next, Step, Exited
<1>2. QED
  BY <1>1, InitInv, PTL DEF Spec

-----------------------------------------------------------------------------
(* What the report says.                                                    *)

\* sort_by's result has every host of the map once.
LEMMA SortedFacts ==
    ASSUME Typed, NEW order \in Sorted
    PROVE  /\ IsFiniteSet(hosts) /\ Cardinality(hosts) \in Nat
           /\ order \in [1 .. Cardinality(hosts) -> hosts]
           /\ IsFiniteSet(1 .. Cardinality(hosts))
           /\ \A i, j \in 1 .. Cardinality(hosts) : order[i] = order[j] => i = j
           /\ \A h \in hosts : \E i \in 1 .. Cardinality(hosts) : order[i] = h
           /\ \A i, j \in 1 .. Cardinality(hosts) : i < j => ~Precedes(order[j], order[i])
<1> DEFINE n == Cardinality(hosts)
<1>1. IsFiniteSet(hosts) /\ n \in Nat
  <2>1. hosts \subseteq Hosts
    BY DEF hosts
  <2>2. QED
    BY <2>1, ReportingAssumption, FS_Subset, FS_CardinalityType
<1>2. /\ order \in [1 .. n -> hosts]
      /\ \A i, j \in 1 .. n : order[i] = order[j] => i = j
      /\ \A i, j \in 1 .. n : i < j => ~Precedes(order[j], order[i])
  <2>1. order \in SetToSeqs(hosts) /\ \A i, j \in DOMAIN order : i < j => ~Precedes(order[j], order[i])
    BY DEF Sorted
  <2>2. order \in [1 .. n -> hosts] /\ \A i, j \in 1 .. n : i # j => order[i] # order[j]
    BY <2>1 DEF SetToSeqs
  <2>3. QED
    BY <2>1, <2>2
<1>3. IsFiniteSet(1 .. n) /\ Cardinality(1 .. n) = n
  BY <1>1, FS_Interval
<1>4. \A h \in hosts : \E i \in 1 .. n : order[i] = h
  <2>1. order \in Injection(1 .. n, hosts)
    BY <1>2 DEF Injection, IsInjective
  <2>2. order \in Surjection(1 .. n, hosts)
    BY <1>1, <1>3, <2>1, FS_Injection
  <2>3. QED
    BY <2>2 DEF Surjection
<1>5. QED
  BY <1>1, <1>2, <1>3, <1>4

\* Rows that agree on every measure have the same totals.
LEMMA TotalsAgree ==
    ASSUME NEW r, NEW q,
           \A i \in DOMAIN r : r[i].stats \in EndpointStats,
           \A i \in DOMAIN q : q[i].stats \in EndpointStats,
           \A m \in Measures : Total([i \in DOMAIN r |-> m[r[i].stats]])
                                 = Total([i \in DOMAIN q |-> m[q[i].stats]])
    PROVE  Totals(r) = Totals(q)
<1> DEFINE mi == [s \in EndpointStats |-> s.ingress]
           me == [s \in EndpointStats |-> s.egress]
           mc == [s \in EndpointStats |-> s.connections]
<1>1. mi \in Measures /\ me \in Measures /\ mc \in Measures
  BY FieldsMeasure
<1>2. /\ [i \in DOMAIN r |-> mi[r[i].stats]] = [i \in DOMAIN r |-> r[i].stats.ingress]
      /\ [i \in DOMAIN r |-> me[r[i].stats]] = [i \in DOMAIN r |-> r[i].stats.egress]
      /\ [i \in DOMAIN r |-> mc[r[i].stats]] = [i \in DOMAIN r |-> r[i].stats.connections]
  OBVIOUS
<1>3. /\ [i \in DOMAIN q |-> mi[q[i].stats]] = [i \in DOMAIN q |-> q[i].stats.ingress]
      /\ [i \in DOMAIN q |-> me[q[i].stats]] = [i \in DOMAIN q |-> q[i].stats.egress]
      /\ [i \in DOMAIN q |-> mc[q[i].stats]] = [i \in DOMAIN q |-> q[i].stats.connections]
  OBVIOUS
<1> HIDE DEF mi, me, mc
<1>4. /\ Total([i \in DOMAIN r |-> r[i].stats.ingress]) = Total([i \in DOMAIN q |-> q[i].stats.ingress])
      /\ Total([i \in DOMAIN r |-> r[i].stats.egress]) = Total([i \in DOMAIN q |-> q[i].stats.egress])
      /\ Total([i \in DOMAIN r |-> r[i].stats.connections])
           = Total([i \in DOMAIN q |-> q[i].stats.connections])
  BY <1>1, <1>2, <1>3
<1>5. QED
  BY <1>4 DEF Totals

\* What was printed, row by row.
LEMMA ReportFacts ==
    ASSUME IndInv, Done
    PROVE  \E order \in Sorted, filter \in Filters, status \in Statuses :
              /\ DOMAIN report.endpoints = 1 .. Cardinality(hosts)
              /\ \A i \in 1 .. Cardinality(hosts) :
                    /\ report.endpoints[i].domain = order[i]
                    /\ report.endpoints[i].stats = RowStats(order[i])
                    /\ report.endpoints[i].stats \in EndpointStats
              /\ report.all_destinations = Totals(report.endpoints)
              /\ report.status = status
              /\ report.exited = ExitByte(exit_code(status))
<1>1. PICK order \in Sorted, filter \in Filters, status \in Statuses :
         report = ReportOf(order, filter, status)
  BY DEF IndInv, ReportSo, Done
<1>2. order \in [1 .. Cardinality(hosts) -> hosts]
  BY SortedFacts DEF IndInv
<1>3. \A h \in hosts : StatsOf(h) = RowStats(h) /\ h \in Hosts /\ RowStats(h) \in EndpointStats
  BY RowType DEF hosts, StatsOf, RowStats, IndInv, Typed
<1>4. report.endpoints = [i \in DOMAIN order |-> Row(order[i], filter.text)]
  BY <1>1 DEF ReportOf
<1>5. DOMAIN report.endpoints = 1 .. Cardinality(hosts)
  BY <1>2, <1>4
<1>6. ASSUME NEW i \in 1 .. Cardinality(hosts)
      PROVE  /\ report.endpoints[i].domain = order[i]
             /\ report.endpoints[i].stats = RowStats(order[i])
             /\ report.endpoints[i].stats \in EndpointStats
  <2>1. report.endpoints[i] = Row(order[i], filter.text)
    BY <1>2, <1>4
  <2>2. order[i] \in hosts
    BY <1>2
  <2>3. QED
    BY <1>3, <2>1, <2>2 DEF Row
<1>7. /\ report.all_destinations = Totals(report.endpoints)
      /\ report.status = status
      /\ report.exited = ExitByte(exit_code(status))
  BY <1>1 DEF ReportOf
<1>8. QED
  BY <1>5, <1>6, <1>7

-----------------------------------------------------------------------------
(* The theorems.                                                            *)

\* The registry, the names and the cache keep their types: whatever a PTR record
\* holds, what the resolver caches and hands to rename is a host name without its
\* trailing dots, or none.
THEOREM ReportingTypes == Spec => []TypeOK
<1>1. IndInv => TypeOK
  BY DEF IndInv, Typed, TypeOK, NameOrNone
<1>2. QED
  BY <1>1, InvHolds, PTL

\* For any recorded rows, any names and any order of the answers, the totals of the
\* report are those of what was recorded: renaming and merging lose nothing.
THEOREM ReportLosesNothing == Spec => []NothingLost
<1>1. ASSUME IndInv, Done
      PROVE  report.all_destinations = TotalsOf(Hosts)
  <2>1. PICK order \in Sorted :
          /\ DOMAIN report.endpoints = 1 .. Cardinality(hosts)
          /\ \A i \in 1 .. Cardinality(hosts) :
                /\ report.endpoints[i].domain = order[i]
                /\ report.endpoints[i].stats = RowStats(order[i])
                /\ report.endpoints[i].stats \in EndpointStats
          /\ report.all_destinations = Totals(report.endpoints)
    BY <1>1, ReportFacts
  <2> DEFINE n == Cardinality(hosts)
             r == report.endpoints
             q == Restrict(recorded, RecordsOf(Hosts))
  <2>2. /\ order \in [1 .. n -> hosts] /\ IsFiniteSet(1 .. n)
        /\ \A i, j \in 1 .. n : order[i] = order[j] => i = j
        /\ \A h \in hosts : \E i \in 1 .. n : order[i] = h
    BY <1>1, SortedFacts DEF IndInv
  <2>3. /\ \A i \in DOMAIN recorded : recorded[i].host \in Hosts /\ recorded[i].stats \in EndpointStats
    BY <1>1, RecordFacts DEF IndInv, Typed
  <2>4. DOMAIN q = DOMAIN recorded /\ \A i \in DOMAIN recorded : q[i] = recorded[i]
    BY <2>3 DEF Restrict, RecordsOf
  <2>5. ASSUME NEW m \in Measures
        PROVE  Total([i \in DOMAIN r |-> m[r[i].stats]]) = Total([i \in DOMAIN q |-> m[q[i].stats]])
    <3> DEFINE f == [h \in Hosts |-> m[RowStats(h)]]
               g == [i \in 1 .. n |-> m[r[i].stats]]
    <3>1. m \in [EndpointStats -> Nat] /\ m[NewStats] = 0
      BY DEF Measures
    <3>2. \A h \in Hosts : RowStats(h) \in EndpointStats
      BY <1>1, RowType DEF IndInv, Typed
    <3>3. f \in [Hosts -> Nat] /\ g \in [1 .. n -> Nat]
      BY <2>1, <3>1, <3>2
    <3>4. order \in [1 .. n -> Hosts]
      BY <2>2 DEF hosts
    <3>5. \A i \in 1 .. n : g[i] = f[order[i]]
      BY <2>1, <3>4
    <3>6. \A h \in Hosts : (\A i \in 1 .. n : order[i] # h) => f[h] = 0
      BY <2>2, <3>1 DEF hosts, RowStats
    <3>7. IsFiniteSet(Hosts)
      BY ReportingAssumption
    <3>8. Total(f) = Total([i \in DOMAIN recorded |-> m[recorded[i].stats]])
      BY <1>1 DEF IndInv, Conserved
    <3>9. [i \in DOMAIN q |-> m[q[i].stats]] = [i \in DOMAIN recorded |-> m[recorded[i].stats]]
      BY <2>4
    <3>10. [i \in DOMAIN r |-> m[r[i].stats]] = g
      BY <2>1
    <3> HIDE DEF f, g, n
    <3>11. Total(g) = Total(f)
      <4>1. PICK T : T = 1 .. n
        OBVIOUS
      <4>2. IsFiniteSet(T) /\ \A i, j \in T : order[i] = order[j] => i = j
        BY <2>2, <4>1
      <4>3. /\ f \in [Hosts -> Nat] /\ order \in [T -> Hosts] /\ g \in [T -> Nat]
            /\ \A i \in T : g[i] = f[order[i]]
            /\ \A h \in Hosts : (\A i \in T : order[i] # h) => f[h] = 0
        BY <3>3, <3>4, <3>5, <3>6, <4>1
      <4>4. QED
        BY ONLY <3>7, <4>2, <4>3, TotalReindex
    <3>12. QED
      BY <3>8, <3>9, <3>10, <3>11
  <2>6. /\ \A i \in DOMAIN r : r[i].stats \in EndpointStats
        /\ \A i \in DOMAIN q : q[i].stats \in EndpointStats
    BY <2>1, <2>3, <2>4
  <2> HIDE DEF r, q, n
  <2>7. Totals(r) = Totals(q)
    BY ONLY <2>5, <2>6, TotalsAgree
  <2>8. QED
    BY <2>1, <2>7 DEF r, q, TotalsOf
<1>2. IndInv => NothingLost
  BY <1>1 DEF NothingLost
<1>3. QED
  BY <1>2, InvHolds, PTL

\* Unless a PTR record names an address, the row of a host has exactly what was
\* recorded under it and under the addresses named after it, and an address that
\* has a name has no row: for any number of addresses that share a name.
THEOREM RowsAreExact == Spec => []RowsExact
<1>1. ASSUME IndInv, Done, \A h \in Hosts : named[h] \notin Bare, NEW h \in Hosts,
             NEW rows, rows = {i \in DOMAIN report.endpoints : report.endpoints[i].domain = h}
      PROVE  /\ Totals(Restrict(report.endpoints, rows)) = TotalsOf(Into(h))
             /\ Cardinality(rows) = IF RecordsOf(Into(h)) = {} THEN 0 ELSE 1
             /\ \A i \in rows :
                  IF IpsOf(Into(h)) = {NoIp} THEN report.endpoints[i].stats.ip = NoIp
                  ELSE report.endpoints[i].stats.ip \in IpsOf(Into(h)) \ {NoIp}
  <2> DEFINE n == Cardinality(hosts)
  <2>1. PICK order \in Sorted :
          /\ DOMAIN report.endpoints = 1 .. n
          /\ \A i \in 1 .. n :
                /\ report.endpoints[i].domain = order[i]
                /\ report.endpoints[i].stats = RowStats(order[i])
                /\ report.endpoints[i].stats \in EndpointStats
    BY <1>1, ReportFacts
  <2>2. /\ order \in [1 .. n -> hosts]
        /\ \A i, j \in 1 .. n : order[i] = order[j] => i = j
        /\ \A g \in hosts : \E i \in 1 .. n : order[i] = g
    BY <1>1, SortedFacts DEF IndInv
  <2>3. /\ IsFiniteSet(DOMAIN recorded)
        /\ \A i \in DOMAIN recorded : recorded[i].host \in Hosts /\ recorded[i].stats \in EndpointStats
    BY <1>1, RecordFacts DEF IndInv, Typed
  <2>4. \A g \in Hosts : Owner(g) = h <=> g \in Into(h)
    <3>1. handles = <<>>
      BY <1>1 DEF IndInv, Tasks, Done
    <3>2. Pending = {}
      BY <3>1 DEF Pending
    <3>3. h # NoName
      BY ReportingAssumption
    <3>4. QED
      BY <3>2, <3>3 DEF Owner, Into
  <2>5. Shared(h) = RecordsOf(Into(h))
    BY <2>3, <2>4 DEF Shared, RecordsOf
  <2>6. SharedIps(h) = IpsOf(Into(h))
    BY <2>5 DEF SharedIps, IpsOf
  <2>7. /\ \A m \in Measures : m[RowStats(h)] = Total(Share(m, h))
        /\ Present(h) <=> Shared(h) # {}
        /\ RowStats(h).ip \in SharedIps(h) \cup {NoIp}
        /\ RowStats(h).ip = NoIp => SharedIps(h) \subseteq {NoIp}
    BY <1>1 DEF IndInv, Shares
  <2>8. \/ rows = {} /\ ~Present(h)
        \/ \E i \in 1 .. n : rows = {i} /\ order[i] = h /\ Present(h)
    <3>1. CASE h \in hosts
      <4>1. PICK i \in 1 .. n : order[i] = h
        BY <2>2, <3>1
      <4>2. rows = {i}
        BY <1>1, <2>1, <2>2, <4>1
      <4>3. QED
        BY <3>1, <4>1, <4>2 DEF hosts
    <3>2. CASE h \notin hosts
      <4>1. rows = {}
        BY <1>1, <2>1, <2>2, <3>2
      <4>2. QED
        BY <3>2, <4>1 DEF hosts
    <3>3. QED
      BY <3>1, <3>2
  <2>9. IsFiniteSet(rows) /\ rows \subseteq 1 .. n
    BY <2>8, FS_EmptySet, FS_Singleton
  <2>10. Cardinality(rows) = IF RecordsOf(Into(h)) = {} THEN 0 ELSE 1
    <3>1. CASE rows = {} /\ ~Present(h)
      BY <2>5, <2>7, <3>1, FS_EmptySet
    <3>2. CASE \E i \in 1 .. n : rows = {i} /\ order[i] = h /\ Present(h)
      BY <2>5, <2>7, <3>2, FS_Singleton
    <3>3. QED
      BY <2>8, <3>1, <3>2
  <2>11. ASSUME NEW i \in rows
         PROVE  IF IpsOf(Into(h)) = {NoIp} THEN report.endpoints[i].stats.ip = NoIp
                ELSE report.endpoints[i].stats.ip \in IpsOf(Into(h)) \ {NoIp}
    <3>1. order[i] = h /\ Present(h) /\ i \in 1 .. n
      BY <2>8
    <3>2. report.endpoints[i].stats = RowStats(h)
      BY <2>1, <3>1
    <3>3. SharedIps(h) # {}
      BY <2>7, <3>1 DEF SharedIps
    <3>4. QED
      BY <2>6, <2>7, <3>2, <3>3
  <2> DEFINE r == Restrict(report.endpoints, rows)
             q == Restrict(recorded, RecordsOf(Into(h)))
  <2>12. DOMAIN r = rows /\ \A i \in rows : r[i] = report.endpoints[i]
    BY DEF Restrict
  <2>13. DOMAIN q = Shared(h) /\ \A i \in Shared(h) : q[i] = recorded[i]
    BY <2>5 DEF Restrict
  <2>14. Shared(h) \subseteq DOMAIN recorded /\ IsFiniteSet(Shared(h))
    <3>1. Shared(h) \subseteq DOMAIN recorded
      BY DEF Shared
    <3>2. QED
      BY <2>3, <3>1, FS_Subset
  <2>15. ASSUME NEW m \in Measures
         PROVE  Total([i \in DOMAIN r |-> m[r[i].stats]]) = Total([i \in DOMAIN q |-> m[q[i].stats]])
    <3> DEFINE D == DOMAIN recorded
               T == Shared(h)
               f == Share(m, h)
               g == [i \in T |-> m[q[i].stats]]
               k == [i \in T |-> i]
               e == [i \in rows |-> m[r[i].stats]]
    <3>1. m \in [EndpointStats -> Nat] /\ m[NewStats] = 0
      BY DEF Measures
    <3>2. /\ IsFiniteSet(D) /\ IsFiniteSet(T)
          /\ f \in [D -> Nat] /\ g \in [T -> Nat] /\ k \in [T -> D]
      BY <2>3, <2>13, <2>14, <3>1 DEF Share
    <3>3. /\ \A i, j \in T : k[i] = k[j] => i = j
          /\ \A i \in D : (\A j \in T : k[j] # i) => f[i] = 0
          /\ \A i \in T : g[i] = f[k[i]]
      BY <2>13, <2>14 DEF Share, Shared
    <3>4. Total(g) = Total(f)
      <4> HIDE DEF D, T, f, g, k
      <4>1. QED
        BY ONLY <3>2, <3>3, TotalReindex
    <3>5. e \in [rows -> Nat]
      BY <2>1, <2>9, <2>12, <3>1
    <3>6. Total(e) = m[RowStats(h)]
      <4>1. CASE rows = {} /\ ~Present(h)
        <5>1. e = [i \in rows |-> 0]
          BY <4>1
        <5>2. Total(e) = 0
          BY <2>9, <5>1, TotalZero
        <5>3. QED
          BY <3>1, <4>1, <5>2 DEF RowStats
      <4>2. CASE \E i \in 1 .. n : rows = {i} /\ order[i] = h /\ Present(h)
        <5>1. PICK i \in 1 .. n : rows = {i} /\ order[i] = h
          BY <4>2
        <5>2. e[i] = m[RowStats(h)]
          BY <2>1, <2>12, <5>1
        <5>3. Total(e) = e[i]
          <6> HIDE DEF e
          <6>1. QED
            BY <2>9, <3>5, <5>1, TotalSingle
        <5>4. QED
          BY <5>2, <5>3
      <4>3. QED
        BY <2>8, <4>1, <4>2
    <3>7. QED
      BY <2>7, <2>12, <2>13, <3>4, <3>6
  <2>16. /\ \A i \in DOMAIN r : r[i].stats \in EndpointStats
         /\ \A i \in DOMAIN q : q[i].stats \in EndpointStats
    BY <2>1, <2>3, <2>9, <2>12, <2>13, <2>14
  <2>17. Totals(r) = Totals(q)
    <3> HIDE DEF r, q
    <3>1. QED
      BY ONLY <2>15, <2>16, TotalsAgree
  <2>18. QED
    BY <2>10, <2>11, <2>17 DEF TotalsOf
<1>2. IndInv => RowsExact
  BY <1>1 DEF RowsExact
<1>3. QED
  BY <1>2, InvHolds, PTL

\* Of two different texts one comes first.
LEMMA TextsCompare ==
    ASSUME NEW s \in Seq(Nat), NEW t \in Seq(Nat), s # t
    PROVE  TextBefore(s, t) \/ TextBefore(t, s)
<1>1. /\ Len(s) \in Nat /\ Len(t) \in Nat
      /\ \A i \in 1 .. Len(s) : s[i] \in Nat
      /\ \A i \in 1 .. Len(t) : t[i] \in Nat
  OBVIOUS
<1> DEFINE D == {i \in 1 .. Len(s) : i <= Len(t) /\ s[i] # t[i]}
<1>0. \A i : i \in D <=> i \in 1 .. Len(s) /\ i <= Len(t) /\ s[i] # t[i]
  OBVIOUS
<1>2. ASSUME NEW n \in Nat, n <= Len(s), n <= Len(t), \A i \in 1 .. n : s[i] = t[i]
      PROVE  SubSeq(s, 1, n) = SubSeq(t, 1, n)
  <2>1. SubSeq(s, 1, n) = [i \in 1 .. n |-> s[i]] /\ SubSeq(t, 1, n) = [i \in 1 .. n |-> t[i]]
    BY <1>1, <1>2
  <2>2. QED
    BY <1>2, <2>1
<1> HIDE DEF D
<1>3. CASE D # {}
  <2>1. PICK m \in D : \A i \in D : m <= i
    <3>1. D \in SUBSET Nat
      BY <1>0
    <3>2. QED
      BY <1>3, <3>1, LeastNatural
  <2>2. PICK n \in Nat : m = n + 1 /\ n < Len(s) /\ n < Len(t)
    <3>1. m \in 1 .. Len(s) /\ m <= Len(t)
      BY <1>0
    <3>2. m - 1 \in Nat /\ m = (m - 1) + 1 /\ m - 1 < Len(s) /\ m - 1 < Len(t)
      BY <1>1, <3>1
    <3>3. QED
      BY <3>2
  <2>3. ASSUME NEW i \in 1 .. n PROVE s[i] = t[i]
    <3>1. i \in 1 .. Len(s) /\ i <= Len(t) /\ ~(m <= i)
      BY <1>1, <2>2
    <3>2. QED
      BY <1>0, <2>1, <3>1
  <2>4. SubSeq(s, 1, n) = SubSeq(t, 1, n)
    BY <1>1, <1>2, <2>2, <2>3
  <2>5. s[n + 1] < t[n + 1] \/ t[n + 1] < s[n + 1]
    <3>1. m \in 1 .. Len(s) /\ m \in 1 .. Len(t) /\ s[m] # t[m]
      BY <1>0, <1>1
    <3>2. s[m] \in Nat /\ t[m] \in Nat
      BY <1>1, <3>1
    <3>3. QED
      BY <2>2, <3>1, <3>2
  <2>6. n \in 0 .. Len(s) /\ n \in 0 .. Len(t)
    BY <1>1, <2>2
  <2>7. QED
    BY <2>2, <2>4, <2>5, <2>6 DEF TextBefore
<1>4. CASE D = {}
  <2>0. \A i \in 1 .. Len(s) : i <= Len(t) => s[i] = t[i]
    <3>1. ASSUME NEW i \in 1 .. Len(s), i <= Len(t) PROVE s[i] = t[i]
      <4>1. i \notin D
        BY <1>4
      <4>2. QED
        BY <1>0, <3>1, <4>1
    <3>2. QED
      BY <3>1
  <2>1. Len(s) # Len(t)
    <3>1. SUFFICES ASSUME Len(s) = Len(t) PROVE FALSE
      OBVIOUS
    <3>2. \A i \in 1 .. Len(s) : s[i] = t[i]
      BY <1>1, <2>0, <3>1
    <3>3. QED
      BY <3>1, <3>2, SeqEqual
  <2>2. CASE Len(s) < Len(t)
    <3>1. SubSeq(s, 1, Len(s)) = SubSeq(t, 1, Len(s))
      <4>1. \A i \in 1 .. Len(s) : s[i] = t[i]
        BY <1>1, <2>0, <2>2
      <4>2. QED
        BY <1>1, <1>2, <2>2, <4>1
    <3>2. QED
      BY <1>1, <2>2, <3>1 DEF TextBefore
  <2>3. CASE Len(t) < Len(s)
    <3>1. SubSeq(t, 1, Len(t)) = SubSeq(s, 1, Len(t))
      <4>1. \A i \in 1 .. Len(t) : s[i] = t[i]
        BY <1>1, <2>0, <2>3
      <4>2. QED
        BY <1>1, <1>2, <2>3, <4>1
    <3>2. QED
      BY <1>1, <2>3, <3>1 DEF TextBefore
  <2>4. QED
    BY <1>1, <2>1, <2>2, <2>3
<1>5. QED
  BY <1>3, <1>4

\* sort_by leaves one order only, however the map is listed.
LEMMA OneOrder ==
    ASSUME Typed, NEW p \in Sorted, NEW q \in Sorted
    PROVE  p = q
<1> DEFINE n == Cardinality(hosts)
<1>1. /\ n \in Nat /\ p \in [1 .. n -> hosts]
      /\ \A i, j \in 1 .. n : p[i] = p[j] => i = j
      /\ \A h \in hosts : \E i \in 1 .. n : p[i] = h
      /\ \A i, j \in 1 .. n : i < j => ~Precedes(p[j], p[i])
  BY SortedFacts
<1>2. /\ q \in [1 .. n -> hosts]
      /\ \A i, j \in 1 .. n : q[i] = q[j] => i = j
      /\ \A h \in hosts : \E i \in 1 .. n : q[i] = h
      /\ \A i, j \in 1 .. n : i < j => ~Precedes(q[j], q[i])
  BY SortedFacts
<1>3. ASSUME NEW g \in hosts, NEW h \in hosts, g # h
      PROVE  Precedes(g, h) \/ Precedes(h, g)
  <2>1. StatsOf(g) \in EndpointStats /\ StatsOf(h) \in EndpointStats
    BY RowType DEF hosts, StatsOf, RowStats, Typed
  <2>2. PICK a, b : a = StatsOf(g) /\ b = StatsOf(h)
    OBVIOUS
  <2>3. a.ingress \in Nat /\ a.egress \in Nat /\ b.ingress \in Nat /\ b.egress \in Nat
    BY <2>1, <2>2 DEF EndpointStats
  <2>4. TextBefore(g, h) \/ TextBefore(h, g)
    <3>1. g \in Seq(Nat) /\ h \in Seq(Nat)
      BY ReportingAssumption DEF hosts
    <3>2. QED
      BY <1>3, <3>1, TextsCompare
  <2>5. QED
    BY <2>2, <2>3, <2>4 DEF Precedes
<1> HIDE DEF n
<1>4. SUFFICES ASSUME p # q PROVE FALSE
  OBVIOUS
<1> DEFINE D == {i \in 1 .. n : p[i] # q[i]}
<1>5. PICK m \in D : \A i \in D : m <= i
  <2>1. D \in SUBSET Nat /\ D # {}
    <3>1. ASSUME D = {} PROVE p = q
      <4>1. \A i \in 1 .. n : p[i] = q[i]
        BY <3>1
      <4>2. QED
        BY <1>1, <1>2, <4>1
    <3>2. QED
      BY <1>1, <1>4, <3>1
  <2> HIDE DEF D
  <2>2. QED
    BY <2>1, LeastNatural
<1>6. m \in 1 .. n /\ p[m] # q[m] /\ p[m] \in hosts /\ q[m] \in hosts
      /\ \A i \in 1 .. n : i < m => p[i] = q[i]
  BY <1>1, <1>2, <1>5
<1>7. PICK j \in 1 .. n : q[j] = p[m]
  BY <1>2, <1>6
<1>8. PICK k \in 1 .. n : p[k] = q[m]
  BY <1>1, <1>6
<1>9. m < j
  <2>1. ASSUME j < m PROVE FALSE
    <3>1. p[j] = p[m]
      BY <1>6, <1>7, <2>1
    <3>2. j = m
      BY <1>1, <1>6, <3>1
    <3>3. QED
      BY <1>1, <2>1, <3>2
  <2>2. j # m
    BY <1>6, <1>7
  <2>3. QED
    BY <1>1, <1>6, <2>1, <2>2
<1>10. m < k
  <2>1. ASSUME k < m PROVE FALSE
    <3>1. q[k] = q[m]
      BY <1>6, <1>8, <2>1
    <3>2. k = m
      BY <1>2, <1>6, <3>1
    <3>3. QED
      BY <1>1, <2>1, <3>2
  <2>2. k # m
    BY <1>6, <1>8
  <2>3. QED
    BY <1>1, <1>6, <2>1, <2>2
<1>11. ~Precedes(p[m], q[m])
  BY <1>2, <1>6, <1>7, <1>9
<1>12. ~Precedes(q[m], p[m])
  BY <1>1, <1>6, <1>8, <1>10
<1>13. QED
  BY <1>3, <1>6, <1>11, <1>12

\* The rows of the report and their order depend on the registry only, never on the
\* order in which the map is listed: the comparison of sort_by is total on hosts.
THEOREM AlwaysReproducible == Spec => []Reproducible
<1>1. ASSUME IndInv, Done, NEW order \in Sorted, NEW i \in DOMAIN order
      PROVE  order[i] = report.endpoints[i].domain
  <2>1. PICK printed \in Sorted :
          \A j \in 1 .. Cardinality(hosts) : report.endpoints[j].domain = printed[j]
    BY <1>1, ReportFacts
  <2>2. order = printed
    BY <1>1, OneOrder DEF IndInv
  <2>3. DOMAIN order = 1 .. Cardinality(hosts)
    BY <1>1, SortedFacts DEF IndInv
  <2>4. QED
    BY <2>1, <2>2, <2>3
<1>2. IndInv => Reproducible
  BY <1>1 DEF Reproducible
<1>3. QED
  BY <1>2, InvHolds, PTL

\* For every exit code and every signal, the process reports success exactly when
\* the child did.
THEOREM AlwaysSuccessIsSuccess == Spec => []SuccessIsSuccess
<1>1. ASSUME IndInv, Done
      PROVE  report.exited = 0 <=> report.status = [signalled |-> FALSE, value |-> 0]
  <2>1. PICK status \in Statuses :
          report.status = status /\ report.exited = ExitByte(exit_code(status))
    BY <1>1, ReportFacts
  <2>2. status \in [signalled : BOOLEAN, value : Int] /\ (status.signalled => status.value > 0)
    BY StatusesAssumption
  <2>3. exit_code(status) \in Int /\ (ExitByte(exit_code(status)) = 0 <=> exit_code(status) = 0)
    BY <2>2 DEF exit_code, ExitByte
  <2>4. exit_code(status) = 0 <=> ~status.signalled /\ status.value = 0
    BY <2>2 DEF exit_code
  <2>5. status = [signalled |-> FALSE, value |-> 0] <=> ~status.signalled /\ status.value = 0
    BY <2>2
  <2>6. QED
    BY <2>1, <2>3, <2>4, <2>5
<1>2. IndInv => SuccessIsSuccess
  BY <1>1 DEF SuccessIsSuccess
<1>3. QED
  BY <1>2, InvHolds, PTL
=============================================================================

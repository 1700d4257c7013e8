----------------------------- MODULE Reporting ------------------------------
(***************************************************************************)
(* From a drained registry to the report: resolve_ip_only_endpoints and the  *)
(* exit code (src/src/main.rs), ReverseResolver::hostname (src/src/dns.rs),  *)
(* Registry::snapshot and matches_domain (src/src/stats.rs), Report::new and *)
(* the rows and totals it renders (src/src/report.rs).                       *)
(*                                                                         *)
(* Lifecycle has the same steps with hosts as atoms, beside connections that *)
(* are still counting.  Here hosts, PTR answers and filters are text, and    *)
(* nothing else touches the registry.                                        *)
(***************************************************************************)
EXTENDS Registry, Names, Sums

CONSTANTS Recorded,   \* the registries a run may leave: sequences of [host, stats]
          IpOf,       \* host.parse::<IpAddr>(), NoIp where it fails
          Answers,    \* the PTR records a lookup may return
          NoName,     \* None, of a host name
          Filters,    \* the --domain-prefix arguments: [text, labels]
          Statuses    \* how the child may end: [signalled, value]

ASSUME ReportingAssumption ==
    /\ IsFiniteSet(Hosts) /\ Hosts \subseteq Seq(Nat) /\ NoName \notin Hosts
    /\ IpOf \in [Hosts -> Ips \cup {NoIp}]

\* What a map may hold: one row per host.
ASSUME RecordedAssumption ==
    \A r \in Recorded : /\ r \in Seq([host : Hosts, stats : EndpointStats])
                        /\ \A i, j \in DOMAIN r : r[i].host = r[j].host => i = j

\* A PTR record is the name of a host, in any case, with any number of trailing
\* dots; or dots only.
ASSUME AnswersAssumption ==
    \A a \in Answers :
        /\ a \in Seq(Nat)
        /\ \E n \in 0 .. Len(a) :
             /\ \A i \in n + 1 .. Len(a) : a[i] = Dot
             /\ n > 0 => a[n] # Dot /\ to_ascii_lowercase(SubSeq(a, 1, n)) \in Hosts

\* A signal has a positive number.
ASSUME StatusesAssumption ==
    \A s \in Statuses : /\ s \in [signalled : BOOLEAN, value : Int]
                        /\ s.signalled => s.value > 0

VARIABLES
    recorded,  \* the registry at the start
    pc,        \* "start", "join", "snapshot" or "exited"
    handles,   \* the hosts whose tasks are not joined yet, in order
    task,      \* "none", "spawned", "lookup" or "done"
    named,     \* what a task that is done returns
    cache,     \* the resolver's cache: what it holds for an address, as a set
    report     \* the report and the exit code, once printed

resolverVars == <<task, named, cache>>
vars == <<registryVars, resolverVars, recorded, pc, handles, report>>

Bare == {h \in Hosts : IpOf[h] # NoIp}

Init ==
    /\ recorded \in Recorded
    /\ heap = [i \in DOMAIN recorded |-> recorded[i].stats]
    /\ endpoints = [h \in Hosts |-> SelectInSeq(recorded, LAMBDA r : r.host = h)]
    /\ open_connections = 0
    /\ pc = "start"
    /\ handles = <<>>
    /\ task = [h \in Hosts |-> "none"]
    /\ named = [h \in Hosts |-> NoName]
    /\ cache = [ip \in Ips |-> {}]
    /\ report = <<>>

-----------------------------------------------------------------------------
(* resolve_ip_only_endpoints and ReverseResolver::hostname.                 *)

\* The map is listed in any order, one task spawned per bare address.  With none
\* the resolver is not even built.
Spawn ==
    /\ pc = "start"
    /\ \E order \in SetToSeqs(hosts \cap Bare) : handles' = order
    /\ task' = [h \in Hosts |-> IF h \in hosts \cap Bare THEN "spawned" ELSE "none"]
    /\ pc' = IF hosts \cap Bare = {} THEN "snapshot" ELSE "join"
    /\ UNCHANGED <<registryVars, named, cache, recorded, report>>

\* Mutant: a task that has no name tries again.
Returns_if_named(h, name) ==
    /\ task' = [task EXCEPT ![h] = IF name = NoName THEN "spawned" ELSE "done"]
    /\ named' = [named EXCEPT ![h] = name]

Returns(h, name) ==
    /\ task' = [task EXCEPT ![h] = "done"]
    /\ named' = [named EXCEPT ![h] = name]

\* cache.insert(ip, name).
Caches(h, name) == cache' = [cache EXCEPT ![IpOf[h]] = {name}]

Hit(h) ==
    /\ task[h] = "spawned"
    /\ \E name \in cache[IpOf[h]] : Returns(h, name)
    /\ UNCHANGED <<registryVars, cache, recorded, pc, handles, report>>

\* The lock is released before the lookup, and taken again after it.
Miss(h) ==
    /\ task[h] = "spawned"
    /\ cache[IpOf[h]] = {}
    /\ task' = [task EXCEPT ![h] = "lookup"]
    /\ UNCHANGED <<registryVars, named, cache, recorded, pc, handles, report>>

\* Mutant: the trailing dot is kept.
PtrName_raw(ptr) == to_ascii_lowercase(ptr)

\* The first PTR record, without its trailing dot; none if nothing is left.
PtrName(ptr) ==
    LET name == to_ascii_lowercase(trim_end_matches(ptr, Dot))
    IN  IF name = <<>> THEN NoName ELSE name

Answer(h, name) ==
    /\ task[h] = "lookup"
    /\ Returns(h, name)
    /\ Caches(h, name)
    /\ UNCHANGED <<registryVars, recorded, pc, handles, report>>

\* A lookup answers, or fails: that a resolver which could not be built returns
\* None is one more way to fail.
LookupEnds(h) == \E name \in {PtrName(a) : a \in Answers} \cup {NoName} : Answer(h, name)

\* handle.await, in the order of the handles.
Join ==
    /\ pc = "join"
    /\ task[Head(handles)] = "done"
    /\ LET h == Head(handles)
       IN  IF named[h] = NoName THEN UNCHANGED <<endpoints, heap>> ELSE rename(h, named[h])
    /\ handles' = Tail(handles)
    /\ pc' = IF Tail(handles) = <<>> THEN "snapshot" ELSE "join"
    /\ UNCHANGED <<open_connections, resolverVars, recorded, report>>

-----------------------------------------------------------------------------
(* Registry::snapshot, Report::new, to_text and exit_code.                  *)

StatsOf(h) == heap[endpoints[h]]

\* str's order, that of the bytes.
TextBefore(s, t) ==
    \E n \in 0 .. Len(s) :
        /\ n < Len(t)
        /\ SubSeq(s, 1, n) = SubSeq(t, 1, n)
        /\ n = Len(s) \/ s[n + 1] < t[n + 1]

\* Mutant: rows with the same counts are left in the order of the map.
Precedes_by_bytes(g, h) ==
    LET a == StatsOf(g)  b == StatsOf(h)
    IN  a.ingress > b.ingress \/ (a.ingress = b.ingress /\ a.egress > b.egress)

\* The comparison of sort_by.
Precedes(g, h) ==
    LET a == StatsOf(g)  b == StatsOf(h)
    IN  \/ a.ingress > b.ingress
        \/ a.ingress = b.ingress /\ a.egress > b.egress
        \/ a.ingress = b.ingress /\ a.egress = b.egress /\ TextBefore(g, h)

\* What sort_by may make of the map, which is listed in any order.
Sorted ==
    {order \in SetToSeqs(hosts) :
        \A i, j \in DOMAIN order : i < j => ~Precedes(order[j], order[i])}

\* Endpoint, the row of a host.
Row(h, filter) == [domain |-> h, stats |-> StatsOf(h),
                   matches_filter |-> matches_domain(h, filter)]

\* Totals::of.
Totals(rows) ==
    [ingress     |-> Total([i \in DOMAIN rows |-> rows[i].stats.ingress]),
     egress      |-> Total([i \in DOMAIN rows |-> rows[i].stats.egress]),
     connections |-> Total([i \in DOMAIN rows |-> rows[i].stats.connections])]

\* main::exit_code.  A child that was waited for has exited or was killed by a signal:
\* the last line, 1 for neither, is not reached.
exit_code(status) == IF status.signalled THEN 128 + status.value ELSE status.value

\* Mutant: the low byte of the child's code.
ExitByte_truncated(code) == code % 256

\* u8::try_from(exit_code).unwrap_or(1).
ExitByte(code) == IF code \in 0 .. 255 THEN code ELSE 1

\* The rows of the text report; the JSON one has them all.
Shown(rows) == SelectSeq(rows, LAMBDA row : row.matches_filter)

\* Report::new, with what is rendered of it and the code the process exits with.
ReportOf(order, filter, status) ==
    LET rows == [i \in DOMAIN order |-> Row(order[i], filter.text)]
    IN  [filter |-> filter, status |-> status,
         endpoints |-> rows, shown |-> Shown(rows),
         matching_filter |-> Totals(Shown(rows)), all_destinations |-> Totals(rows),
         exited |-> ExitByte(exit_code(status))]

Snapshot ==
    /\ pc = "snapshot"
    /\ \E order \in Sorted, filter \in Filters, status \in Statuses :
         report' = ReportOf(order, filter, status)
    /\ pc' = "exited"
    /\ UNCHANGED <<registryVars, resolverVars, recorded, handles>>

\* The process has ended.
Exited == pc = "exited" /\ UNCHANGED vars

Step ==
    \/ Spawn \/ Join \/ Snapshot
    \/ \E h \in Hosts : Hit(h) \/ Miss(h) \/ LookupEnds(h)

Next == Step \/ Exited

\* The runtime polls every task that can go on, and a lookup ends: the resolver
\* has timeouts of its own.
Spec == Init /\ [][Next]_vars /\ WF_vars(Step)

-----------------------------------------------------------------------------
(* Properties.                                                              *)

Done == pc = "exited"

\* What the registry had recorded of the hosts in S, and of which addresses.
RecordsOf(S) == {i \in DOMAIN recorded : recorded[i].host \in S}
TotalsOf(S) == Totals(Restrict(recorded, RecordsOf(S)))
IpsOf(S) == {recorded[i].stats.ip : i \in RecordsOf(S)}

TypeOK ==
    /\ RegistryTypeOK
    /\ pc \in {"start", "join", "snapshot", "exited"}
    /\ \A h \in Hosts : named[h] \in Hosts \cup {NoName}
    /\ \A ip \in Ips : cache[ip] \subseteq Hosts \cup {NoName}

\* report.rs, stats.rs rename: whatever is renamed and merged, in whatever order,
\* and even where the name of an address is another address, the report accounts
\* for every byte and connection that was recorded.
NothingLost == Done => report.all_destinations = TotalsOf(Hosts)

\* The hosts whose counts belong to the row of h.
Into(h) == {g \in Hosts : named[g] = h \/ (g = h /\ named[g] = NoName)}

\* main.rs, resolve_ip_only_endpoints: unless a PTR record names an address, the
\* row of a host has what was recorded under it and under the addresses named
\* after it, of no other host, and the addresses that have a name have no row.
RowsExact ==
    Done /\ (\A h \in Hosts : named[h] \notin Bare) =>
        \A h \in Hosts :
            LET rows == {i \in DOMAIN report.endpoints : report.endpoints[i].domain = h}
            IN  /\ Totals(Restrict(report.endpoints, rows)) = TotalsOf(Into(h))
                /\ Cardinality(rows) = IF RecordsOf(Into(h)) = {} THEN 0 ELSE 1
                /\ \A i \in rows :
                     IF IpsOf(Into(h)) = {NoIp} THEN report.endpoints[i].stats.ip = NoIp
                     ELSE report.endpoints[i].stats.ip \in IpsOf(Into(h)) \ {NoIp}

\* stats.rs, snapshot: two runs with the same traffic print the same rows in the
\* same order, though the map is listed in any order.
Reproducible == Done => \A order \in Sorted : \A i \in DOMAIN order :
                            order[i] = report.endpoints[i].domain

\* The labels of a name, without the empty ones.
Labels(text) ==
    LET cuts == {0, Len(text) + 1} \cup {i \in DOMAIN text : text[i] = Dot}
        seq  == SetToSortSeq(cuts, <)
        all  == [i \in 1 .. Len(seq) - 1 |-> SubSeq(text, seq[i] + 1, seq[i + 1] - 1)]
    IN  SelectSeq(all, LAMBDA label : label # <<>>)

Under(h, filter) ==
    \/ filter.text = NoFilter
    \/ IsSuffix(filter.labels, Labels(to_ascii_lowercase(h)))

\* stats.rs:169, report.rs:100: the rows shown are those under the filter, label by
\* label, their total is the total of the filter, and without a filter every row
\* is shown.
FilterExact ==
    Done => LET rows == SelectSeq(report.endpoints,
                                   LAMBDA row : Under(row.domain, report.filter))
            IN  report.shown = rows /\ report.matching_filter = Totals(rows)

\* main.rs:119: the process reports success exactly when the child did.
SuccessIsSuccess ==
    Done => (report.exited = 0 <=> report.status = [signalled |-> FALSE, value |-> 0])

\* The report is printed: no lookup and no join waits for ever.
Printed == <>Done
=============================================================================

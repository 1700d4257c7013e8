# A TLA+ model of wiretally

wiretally runs a command behind an ephemeral loopback proxy and reports, per
remote host, how many bytes the command sent and received. The whole value of
the program is that the report is right, so the properties here are about the
counts: that the data path does not change what it carries, that each counter is
what it is said to be, and that shutdown does not lose, repeat or misplace a
count. Source references are to `src/src/*.rs` unless another path is given.

## Inventory

| part | state | operations | talks to |
|---|---|---|---|
| endpoint counters (`stats.rs`) | four atomic fields per host | `add_ingress`, `add_egress`, `add_connection`, `observe_ip` | held as an `Arc` by connections and by the registry |
| registry (`stats.rs`) | map host → `Arc`, in-flight count | `endpoint`, `track_open`, `OpenGuard::drop`, `rename`, `hosts`, `snapshot` | every connection task, and main |
| stream adapters (`io.rs`) | `Counting`: a side and an `Arc`; `Rewind`: a prefix and an offset | polls | the two sockets of a tunnel, hyper |
| TCP tunnel (`proxy.rs`) | two sockets, two copy buffers | dial, answer the handshake, splice | adapters, counters |
| plain HTTP (`proxy.rs`) | a pool of counted upstream sockets | forward, connect | hyper, registry |
| UDP relay (`udp.rs`) | two sockets, three caches, the client's address | `run`, `forward_out`, `forward_back` | registry; ended by its control connection |
| SOCKS5 (`socks.rs`) | none of its own; the relay's two reused buffers | `accept`, `reply`; `parse_datagram`, `encode_datagram` | dispatch, the relay |
| accept loop (`proxy.rs`) | listener | accept, spawn | connection tasks |
| dispatch (`proxy.rs`) | the bytes read so far | peek, `read_head`, `request_line`, `split_authority`, answer | tunnel, plain HTTP, relay |
| run and drain (`main.rs`) | child, deadline | wait, drop the proxy, drain, reverse lookups, snapshot | registry, resolver |
| resolver (`dns.rs`), report (`report.rs`) | a cache; none | lookup; totals, rendering | main |

What is hard: connection tasks, the accept loop, the relay tasks and main run
concurrently on several worker threads and meet only in the registry; an abort
takes effect at some later await; handles outlive the rows they came from;
tunnels half-close, fail on one side and stall; UDP answers come late, twice and
unasked; a request arrives in pieces, with payload behind it, from a client that
may leave at any byte; reverse lookups race each other and rename rows in an
arbitrary order. `PROJECT.json` lists these hazards at their lines with the properties
that cover them.

## Modules

| module | models | properties |
|---|---|---|
| `Stats` | the counters of one endpoint, as a record and operators | |
| `Registry` | the map, the handles (indices of `heap`, so that a row and a handle are different things), the in-flight count | |
| `Io` | `Counting` and `Rewind` as operators on counters and queues of bytes | |
| `ByteStream` | **abstract**: what one metered direction of a tunnel promises | |
| `Tunnel` | `connect_and_splice`, the adapters, and `copy_bidirectional` (external) between two free peers | safety, liveness, refinement of `ByteStream` |
| `Lifecycle` | the accept loop, the tasks of all three kinds of connection, and main from the child's start to the report, over one `Registry` | safety, action properties, liveness |
| `Relay` | the UDP relay task, await by await, over a `Registry` another connection also uses | safety, liveness |
| `Names` | hosts and filters as text: `split_authority`, the normalisation of SOCKS5 domains, `matches_domain` | |
| `Socks` | the SOCKS5 codes and the datagram codec, as operators on bytes | |
| `Handshake` | one client connection, byte by byte, from its first byte until it is served or turned away | safety, liveness |
| `Datagram` | the codec as the relay calls it, with the buffers it reuses | against a reference definition |
| `Reporting` | reverse lookups and their cache, renames, the snapshot's order, the filter, the totals, the exit code | safety, liveness |
| `Sums` | the sum of the values of a function, for properties about totals | |
| `TunnelProofs`, `LifecycleProofs`, `RelayProofs`, `DatagramProofs`, `HandshakeProofs`, `ReportingProofs` | theorems about the module of that name | |
| `RegistryProofs` | lemmas on `endpoint` and `rename`, used by `LifecycleProofs`, `RelayProofs` and `ReportingProofs` | |
| `SumTheorems` | the laws of `Total` over finite sets, used by the same three | |
| `MCTunnel`, `MCLifecycle`, `MCRelay`, `MCHandshake`, `MCDatagram`, `MCReporting` | constants for TLC | |

`Stats` is extended by `Io` and by `Registry`; `Io` by `Tunnel`; `Registry` by
`Lifecycle`, `Relay` and `Reporting`, and `Sums` by the same three; `Names` by
`Socks` and `Reporting`; `Socks` by `Handshake` and `Datagram`. `Handshake` ends where `Tunnel`, `Relay` and the
HTTP connections of `Lifecycle` begin: its `prefix` is what `Tunnel`'s `Call`
leaves free. `Reporting` starts from the registry `Lifecycle` leaves when every
connection has ended. Operators whose comment starts with "Mutant" are wrong
on purpose: each stands for a plausible mistake, and the property it is paired
with in `PROJECT.json` fails when it replaces the real definition. Nothing else
uses them.

### Tunnel

A byte is its position in its stream; `sent[d]` is all a peer wrote in direction
`d`, `out[d]` all the other peer was handed. `Call(n)` is the moment
`connect_and_splice` is called with `n` leftover bytes: `read_head` reads in
chunks and may hold payload an impatient HTTP client sent behind its request;
SOCKS5 reads exactly its handshake. `DialFail`, `NodelayFail`, `DialOk`,
`Accept`, `AcceptFail` are the function's awaits and early returns. From there
`copy_bidirectional` is modelled from its contract: per direction fill, write,
and, once the input ended and the buffer is written, shut down; an error ends
both. The peers write, close, reset and stop reading at any time.

### Lifecycle

One action runs from one await to the next of one task. `handle[c]` is the `Arc`
a connection holds, `up[c]` its upstream socket (`dialing`, `open`) or its relay
(`parked`, `polling`, `stopping`: aborted while being polled). `accept_loop`
likewise is `parked`, `polling` or `stopped`. `seen[c]` is a ghost: what the
connection really moved; `drained` copies it when `drain()` returns.
Abstractions: an HTTP client has one upstream connection at a time, and a dial under
way ends with its request, where hyper's pool may keep several and finish a dial in
the background: each has a guard and a handle of its own, so the arguments about
guards and counts do not depend on their number. Traffic comes in units; a relay talks to one host (`Relay` has the
rest); the resolver answers one of `PtrNames` or nothing; `rename`'s merge and
one row of `snapshot` read their counters in one step, while the code reads
field after field: a unit counted in between would fall on either side of the
read, as it may in the model one step earlier or later. Failing to start or to
wait for the child ends `run()` without a report and is left out.

### Relay

`pc` is the await the relay's task is at: `select`, `resolve` (the lookup),
`send_out`, `send_back`. It may be cancelled at each of them, and other
connections, clients and the network act meanwhile. A lost datagram is one that
never enters a queue; an answer may arrive for any request that left, any number
of times, and datagrams nobody asked for arrive too. The module covers a relay until
main renames rows; what a straggling relay counts later is in `Lifecycle`. `V6` are the addresses the
`0.0.0.0` socket cannot send to. Ghosts: `wire` (payload that left, per host),
`got` and `stray` (payload handed to clients), `spoken` (which hosts an address
has been used for).

### Handshake

`Requests` are what clients ask for, and `Serialized` puts a request on the wire;
bytes then arrive one at a time, so that each read of the proxy finds any number
of them, and the client closes or resets at any byte. `pc` is the await the task
is at (nothing is read after a reset; to read what was still queued is the reset
coming later): `peek`, `head` (one read of `read_head`), one value per `read_exact` of
`socks::accept`, `dial` or `bind`, and the reply (`open`). `outcome` is what the
connection is to be, `prefix` what `read_head` read too early. The reads of
`read_head` and its limit are `Chunk` and `MAX_HEAD_BYTES`. The properties state
the meaning of a request (`Meaning`) on the request, never on its bytes. A method
name is one letter, and a reply its code: the bound address is left out.

A request carries the name, the port and the trailing dots it stands for, and
`Handshake` assumes what makes them so: `SocksRequestsAssumption` and
`SocksNamesAssumption` (an address has the octets of its type; a domain is its name
in any case, with any number of dots behind it), `HttpRequestsAssumption` (method and
target are visible characters, and the first blank line is the last thing in the
head), `HttpNamesAssumption` (the target of a CONNECT is put together as `Authority`
says: a name, or a literal in brackets that may never be closed, and perhaps a
port; the dots behind a name are counted apart, in `dots`), `OtherRequestsAssumption` (what is neither has no request line). They are what
the clients of the model send, TLC evaluates them on its requests, and the
theorems hold for every set of requests of that kind.

### Datagram and Socks

A host is its type with its text or its octets; the text form of an IP address
loses nothing and is left out. `parse_datagram` is compared with a reference that
puts datagrams together (`Whole`) rather than taking them apart. `from_client` and
`scratch` keep what earlier calls left in them.

### Reporting

Hosts, PTR answers and filters are text. One task per bare address checks the
cache (`Hit`, `Miss`), looks the address up with the cache unlocked, and stores
the answer (`Answer`); main joins the tasks in the order the map was listed in,
which is arbitrary, and renames (`Join`). `Sorted` is every order `sort_by` may
produce from any order of the map. `IpOf` is `str::parse::<IpAddr>`, by which two
spellings of an IPv6 address are one address. Both outputs of the report are one
record: all rows (JSON), the rows shown (text), both totals and the exit code.

## Runs

| run | constants | shows |
|---|---|---|
| `tunnel` | 3 bytes up, 2 down, buffers of 2: a leftover, a full buffer and a byte in the socket coexist, and a prefix is longer than the buffer | `InOrder`, `MeterBounds`, `EndOfInput`, `HalfClose`, `ExactOnCleanClose`; each direction implements `ByteStream`; `EofForwarded`, `EndsWhenClosed` |
| `tunnel_wire` | the same bytes, buffers of 1 | **violated** `WireExact` |
| `lifecycle` | 2 connections of any kind, 2 hosts, 1 unit each | `GuardsBalance`, `DrainWaits` |
| `lifecycle_rename` | 2 tunnels, 2 addresses and 2 names, 1 unit each: two rows merge into one another's target, with a straggler | `ReportBracket`, `NamesKeepTheirRow`, `ReportComesOut` |
| `lifecycle_drain` | 1 tunnel | **violated** `CleanDrainComplete` |
| `relay` | 2 client datagrams, 2 answers; a name on two ports, a name with three addresses of which one is IPv6, an address, a name without address | `OneConnectionPerHost`, `EgressExact`, `IngressExact`, `DistinctAttributed`, `ClientServed` |
| `relay_names` | same | **violated** `RepliesAttributed` |
| `handshake` | every kind of SOCKS5 request, good and bad; CONNECT to names, literals (one never closed) and odd ports; other methods; bytes that are neither, one above the limit; reads of 6 bytes, a limit of 20 | `AsAsked`, `PlainNameOneRow`, `PayloadIntact`, `HeadLimit`, `ToldOnce`, `Answered` |
| `handshake_clean` | same | **violated** `CleanReject` |
| `handshake_names` | same | **violated** `OneRowPerName` |
| `datagram` | every address type, lengths around every boundary, a longer datagram before | `ParsesWhatWasSent`, `CutsNeverMislead`, `AnswersRoundTrip` |
| `reporting` | up to 3 bare addresses, two of them spellings of one; PTR records that name a recorded host, a new one, an address, nothing; 9 filters; 5 ways the child may end | `NothingLost`, `RowsExact`, `Reproducible`, `FilterExact`, `SuccessIsSuccess`, `Printed` |

Two connections are enough for the interference looked for: every property
relates one connection to main, or two handles of one row. `lifecycle_rename` has
tunnels only; that a straggling relay is no different rests on the theorem
`ReportAlwaysBracketed`, which covers every kind. Two datagrams fill a
cache and then hit it, or overwrite an entry of `names`; two answers give a late
and a repeated one. Reads of six bytes cut every head inside its terminator in
every way, and heads are shorter than the limit, above it by less than one read
and above it by more. Three lookups give two concurrent ones of one address beside
a third that may be named after them. Connections are interchangeable, and no liveness property is
checked under symmetry. Deadlock is checked in all runs but `datagram`, a
bounded sequence of calls that just stops; a system that has ended stutters
(`Terminated`, `Over`, `Exited`).

**Fairness.** Tunnel: tokio polls a task whose socket is ready, and a poll makes
the progress that is possible, so each direction's steps and the end are weakly
fair; nothing is assumed of the peers, and `stalled` excuses a tunnel whose
reader gave up. Lifecycle: the deadline passes and main is polled; a lookup is
answered or gives up, as hickory's timeouts make it; nothing is assumed of
connections. Relay: its task is polled while it can run and `lookup_host`
returns; nothing is assumed of clients or network, nor of when an abort takes effect. Handshake:
the task is polled, and `connect()` and `bind()` return; a client that says
nothing is waited for, and `Answered` does not cover it. Reporting: the tasks are
polled and a lookup ends.

### What the violated runs say

* `lifecycle_drain`: the guard is taken in the connection task's first poll
  (`proxy.rs:100`), not by the accept loop. A connection accepted as the child
  exits is not in the count `drain()` reads, so `drain()` returns at once and the
  traffic misses the report, although `main.rs:97-98` promises late bytes are not
  lost. `DrainWaits` is what does hold.
* `tunnel_wire`: the tunnel's counter sits on the client's socket, so a tunnel
  that ends in an error counts bytes the origin was never sent; `MeterBounds`
  says by how much (at most one copy buffer), and `ExactOnCleanClose` that a
  clean end is exact.
* `relay_names`: answers are named by address alone, and the last host to use an
  address owns it, against `src/README.md:155`; `DistinctAttributed` is what does
  hold.
* `handshake_clean`: a request with an unknown address type is rejected with its
  address and port unread (`socks.rs:180`), against the comment at
  `socks.rs:159`. A request of another version is rejected as early
  (`socks.rs:154`), but above the comment; an unknown command is rejected as the
  comment says.
* `handshake_names`: `split_authority` keeps the trailing dot of a name
  (`proxy.rs:321`) that SOCKS5 (`socks.rs:176`) and reverse lookups drop, so a
  host may have two rows, against `dns.rs:49-50` and `src/README.md:155`.
  `PlainNameOneRow` is what does hold: without a trailing dot in a CONNECT, every
  spelling of a name shares a row.

## Theorems

TLC checks the instances above; TLAPS proves the following for every value of
the constants. Each inductive invariant was checked by TLC on the instance of
the runs before it was proved.

**`TunnelProofs`**, from `NoIpAssumption` and `BoundsAssumption` (a buffer holds at
least one byte): `TypeCorrect`, `TunnelInOrder`, `TunnelEndOfInput`,
`TunnelMeterBounds`, `TunnelHalfClose`, `TunnelExactOnCleanClose`. The inductive invariant is
`InOrder` and `MeterBounds` with three facts they do not imply: a `Rewind` whose
prefix is used up is `None` (`RewindForgets`), without which a read would fill
nothing and end the stream early; the end of input was read only when nothing is
left to read (`EndOfInput`); and a sink is shut down only when its buffer is
empty (`ShutIsCopied`). `HalfClose` then follows from `InOrder` with three of its
four segments empty, and `ExactOnCleanClose` from `HalfClose` and `MeterBounds`.
The steps that move bytes between two segments rest on lemmas on concatenation
and `SubSeq`.

`TunnelUpIsByteStream` and `TunnelDownIsByteStream` are the refinement of the
abstract `ByteStream`. Every step of the tunnel does one of five things to each
direction (`DirStep`: send, close, take in or leave alone, hand on, end), and the invariant
turns each into a step of `ByteStream` under the mapping or into a stutter: what
has been delivered is a prefix of what was sent because the four segments make
up the whole (`PipePrefix`), and the end is announced only when all of it has
been delivered.

**`LifecycleProofs`**, from `SetsAssumption` (finitely many connections and hosts;
addresses and names are hosts): `TypeCorrect`, `GuardsAlwaysBalance`,
`DrainAlwaysWaits`. `GuardsBalance` is not inductive alone: that a task which has
not chosen its protocol owns no upstream connection (`UpFollowsTask`) is what
makes each step change the two sets of guard holders by the one guard it takes
or drops. The types in turn need `GuardsBalance` (the count stays a natural
number), `HandleHeld` (an open connection's handle is in the heap) and
`RowsPresent` (the snapshot reads rows that exist). `DrainAlwaysWaits` follows
since a count of zero makes both sets empty.

`ReportAlwaysBracketed` is the property the program stands for, and needs an
invariant about sums (`Bracketed`). `Visible` is what the report has read so far
together with what the rows still to be read hold. Until `drain()` returns its
total equals what was relayed; from then on it is at least what had been relayed
at that moment and at most what has been relayed by now, since a straggler may
count on a row that has been read or on a handle that was merged away. Three
facts carry it: two hosts never share a row (`DistinctRows`); while `main` waits
or drains, every handle held is some host's row (`HandlesInRows`), so nothing is
counted out of sight; and nothing is in the report before the snapshot
(`ReportEmpty`). A rename moves a row or adds one to another, which leaves the
sum alone (`RenameRows`, `TotalMove`); a count adds the same to what was relayed
and, at most, to what is visible.
`NamesAlwaysKeepTheirRow` is the action property from the same invariant.

**`RelayProofs`**, from `RelayAssumption` (finitely many hosts; a destination is a host
with a port): `RelayTypeCorrect`, `RelayOneConnectionPerHost`, `RelayEgressExact`,
`RelayIngressExact`, `RelayDistinctAttributed`. What the properties do not say of
themselves: the handle a relay has cached for a host is the host's row
(`CachedIsRow`), which holds as long as nothing renames: `Relay` is the relay
before main's reverse lookups. A relay still alive by then, as after the drain
deadline, may lose its row to a rename, which is `Lifecycle`'s `ReportBracket`. The
datagram in hand is counted on a cached handle (`HandleCached`); and every
answer and every entry of `names` is for an address that was spoken to
(`AnswersSpoken`, `NamesSpoken`), which is why an address used for one host only
names that host.

**`DatagramProofs`**, from `SocksAssumption` and `DatagramAssumption` (datagrams are
bytes, and an address has the octets of its type): `AlwaysParsesWhatWasSent`,
`CutsNeverEverMislead`, `AnswersAlwaysRoundTrip`. The invariant, `Buffers`, says that
what is in the reused buffers belongs to the last call. The rest is about the
codec itself, for datagrams of any length: `Parsed` (what is accepted, and what is found),
`Reference` (that is what can be put together), `CutShort` and `CutPayload` (a cut
datagram), `RoundTrip`.

**`HandshakeProofs`**, from `HandshakeAssumption` and the assumptions on requests above
(the first three theorems need only `RequestsAssumption`: a request is bytes, and
those of SOCKS5 are the ones that start with its version byte).
`HandshakeTypeCorrect`, `HeadAlwaysLimited` and `AlwaysToldOnce` come from `IndInv`, which ties the
replies sent to the await the task is at (`Told`), which needs that the two
protocols never meet after the first byte (`Path`); a head still being read is
within the limit (`Limit`), so that one more read passes it by a chunk at most.

`AlwaysAsAsked`, `AlwaysPlainNameOneRow` and `PayloadAlwaysIntact` come from a second
invariant on top of it, `AskedInv`: `AsAsked` and `PlainNameOneRow` with three facts
they need. While `socks::accept` reads, `taken` is where a part of the request ends,
and header and host hold what the parts before it said (`Follows`); until the request is read
nothing is decided (`NotYet`); and what was read too early is exactly the stretch
of the stream behind the request (`HandedOn`), to which the unread bytes are then
adjacent (`PayloadSo`). The argument for SOCKS5 is where the bytes of each part lie
(`SocksBytes`, `SocksStream`), that a `read_exact` returns that part (`ReadsPart`), and what
becomes of a domain (`SocksName`). For HTTP it is that, of any number of bytes of
the stream, `find_head_end` finds the end of the request and nothing else
(`HeadEnd`), `request_line` the method and the target or nothing
(`RequestLine`), `head_body` what lies behind (`BodyIs`), and that
`split_authority` takes a target apart as it was put together (`SplitsAuthority`).
A head cut short by the client's leaving is `Malformed` or, once its first line is
there, what it asked for; that is why a tunnel may be opened for an incomplete
head, and why `HandedOn` has its second case.

**`ReportingProofs`**, from `ReportingAssumption`, `RecordedAssumption` (the map has one
row per host), `AnswersAssumption` (a PTR record is a host's name in any case, with
any number of dots behind it, or only dots) and `StatusesAssumption`: `ReportingTypes`,
`ReportLosesNothing`, `RowsAreExact`, `AlwaysReproducible`, `AlwaysSuccessIsSuccess`. A
`Measure` is any count of a row that adds up when two rows are merged (connections,
bytes in, bytes out), so that the sums are argued once for all of them. The
invariant says that two hosts never share a row (`DistinctRows`); that each address
has one task, joined once (`Tasks`); that the rows sum up to what was recorded,
whatever has been renamed so far (`Conserved`); that, while no PTR record names
an address, a row has exactly what was recorded under the hosts it now stands
for (`Shares`), those still to be joined standing for themselves, without which
a rename would not know what it moves; and what a report was made from (`ReportSo`).
A rename moves one row or adds it to another, which leaves the sum alone and gives
the target the share of one more address. The totals of the report are taken over
a sequence of rows, and equal the sum over hosts because the snapshot lists every
host once (`TotalReindex`, `TotalDisjoint`). `AlwaysReproducible` is that the comparison of
`sort_by` is total: of two rows with equal bytes the domains differ and compare
(`TextsCompare`), so that two sorted orders of one set of hosts are the same
(`OneOrder`).

**`SumTheorems`** proves what the sums above need of `Total`: the effect of changing one
value, of moving a value from one place to another, of adding two functions,
monotonicity, and the sum over a disjoint union, over one element and under another
indexing. `Total` is a fold over an arbitrary finite set, so these are inductions over finite sets, made without an induction
schema: a smallest subset that violates the law, which the well-foundedness of
strict inclusion gives, is refuted.

Only model-checked: liveness, which is out of the prover's reach; and of
`Reporting` the invariant `FilterExact`, whose reference cuts a name into its labels with
`SetToSortSeq` and `SelectSeq`: what those compute for every text is an induction
over data.

## Not modelled

hyper's parsing, header rewriting and pooling policy (`forward`, `absolutize`):
the requests on a plain HTTP connection are hyper's, and only the upstream
connections they open reach the registry, which `Lifecycle` has. The layout of
the text report, `format_bytes`, `elide` and the JSON text: formatting. Argument
parsing, which is clap's. The verbose log, which changes nothing the report
depends on. There is no handshake timeout in the code, hence none in the model. A
busy accept loop (`proxy.rs:95`) is a hazard without a property. So are two
differences from comments that `Relay` shows in a single step and no run asks about,
since no count depends on them: a receive error ends a relay and leaves its control
connection open (`udp.rs:92`, against `udp.rs:31`), and the reply address is set by
every datagram (`udp.rs:103`), not "learned from the first" (`udp.rs:45`), so that of
two processes that share an association the later sender gets the answers to both.

## Plan

1. `Tunnel`, `Lifecycle`, `Relay` with their proofs begun (done).
2. Dispatch and the SOCKS5 handshake; the datagram codec; names, the filter, the
   resolver and the report (done).
3. Proofs of `Relay`, of the refinement of `ByteStream`, of `ReportBracket` and
   `NamesKeepTheirRow`, of the datagram codec, and of the `Handshake` invariants
   that do not depend on text (done).
4. Proofs: the rest of the `Handshake` invariants, those on text included; of
   `Reporting` everything but `FilterExact` (done).

----------------------------- MODULE Handshake ------------------------------
(***************************************************************************)
(* What happens on one client connection until it is served: the protocol    *)
(* sniffing of handle_connection, read_head and request_line, the SOCKS5     *)
(* handshake (socks::accept) and the replies (src/src/proxy.rs,              *)
(* src/src/socks.rs).  Tunnel, Relay and Lifecycle start where it ends.      *)
(*                                                                         *)
(* The client sends one request and, without waiting for a reply, Payload.   *)
(* Its bytes arrive one by one, so that every read finds any number of them; *)
(* it may close its side or reset the connection at any moment.  A reset is  *)
(* seen by the next read or write.  A method name is one letter: C or c is   *)
(* CONNECT, in either case.                                                  *)
(***************************************************************************)
EXTENDS Socks

CONSTANTS Requests,        \* the requests clients make, see Serialized
          Payload,         \* what follows the request
          Chunk,           \* the size of read_head's reads: 2048
          MAX_HEAD_BYTES   \* 65536

ASSUME HandshakeAssumption == /\ Chunk \in Nat \ {0}
                              /\ MAX_HEAD_BYTES \in Nat
                              /\ Ipv4Len \in Bytes /\ Ipv6Len \in Bytes

CRLF == <<13, 10>>
CONNECT == {<<67>>, <<99>>}

\* The bytes of a request, as a client puts them on the wire.
Serialized(r) ==
    CASE r.proto = "socks" ->
           <<VERSION, Len(r.methods)>> \o r.methods
             \o <<r.version, r.command, 0, r.atyp>>
             \o (IF r.atyp = ATYP_DOMAIN THEN <<Len(r.address)>> ELSE <<>>)
             \o r.address \o to_be(r.port)
      [] r.proto = "http" ->
           r.method \o <<Space>> \o r.target \o <<Space, 86>> \o CRLF \o r.fields \o CRLF
      [] OTHER -> r.bytes

\* A request is bytes, and SOCKS5 is what starts with its version: the name of an
\* HTTP method does not.
ASSUME RequestsAssumption ==
    /\ Payload \in Seq(Bytes)
    /\ \A r \in Requests : /\ Serialized(r) \in Seq(Bytes) \ {<<>>}
                           /\ r.proto = "socks" <=> Serialized(r)[1] = VERSION

\* An address has the octets of its type.
ASSUME SocksRequestsAssumption ==
    \A r \in Requests : r.proto = "socks" =>
        /\ r.methods \in Seq(Bytes) /\ Len(r.methods) \in Bytes
        /\ r.version \in Bytes /\ r.command \in Bytes /\ r.atyp \in Bytes
        /\ r.address \in Seq(Bytes) /\ r.port \in Nat /\ r.port <= 65535
        /\ r.atyp = ATYP_IPV4 => Len(r.address) = Ipv4Len
        /\ r.atyp = ATYP_IPV6 => Len(r.address) = Ipv6Len
        /\ r.atyp = ATYP_DOMAIN => Len(r.address) \in Bytes

\* It is the name of its host; a domain is a name in any case, with any number of
\* trailing dots.
ASSUME SocksNamesAssumption ==
    \A r \in Requests : r.proto = "socks" =>
        IF r.atyp # ATYP_DOMAIN THEN r.name = [atyp |-> r.atyp, text |-> r.address]
        ELSE \E n \in 0 .. Len(r.address) :
               /\ n > 0 => r.address[n] # Dot
               /\ \A i \in n + 1 .. Len(r.address) : r.address[i] = Dot
               /\ r.name = [atyp |-> ATYP_DOMAIN,
                            text |-> to_ascii_lowercase(
                                       from_utf8_lossy(SubSeq(r.address, 1, n)))]

VARIABLES
    request,   \* what the client sends
    arrived,   \* how many of its bytes have arrived
    closed,    \* "no", "eof" or "reset"
    taken,     \* how many bytes the proxy has read
    pc,        \* the await the connection's task is at, or how it ended
    want,      \* the size of the read_exact it is at
    header,    \* socks::accept's header
    host,      \* the host read so far
    replies,   \* what the client was sent
    outcome,   \* what the connection is to be
    prefix     \* the bytes read too early: leftover, or the Rewind's prefix

clientVars == <<request, arrived, closed>>
acceptVars == <<want, header, host>>
vars == <<clientVars, acceptVars, taken, pc, replies, outcome, prefix>>

Stream == Serialized(request) \o Payload

Exact == {"greeting", "methods", "header", "domain_len", "address", "port"}
Done  == {"serving", "ended"}

\* What a connection comes to: a tunnel, a relay, plain HTTP, or an error.
To(kind, h, p)   == [kind |-> kind, host |-> h, port |-> p, error |-> "none"]
Nowhere          == HostOf(ATYP_DOMAIN, <<>>)
Undecided        == To("undecided", Nowhere, 0)
Error(error)     == [To("error", Nowhere, 0) EXCEPT !.error = error]

Init ==
    /\ request \in Requests
    /\ arrived = 0
    /\ closed = "no"
    /\ taken = 0
    /\ pc = "peek"
    /\ want = 0
    /\ header = <<>>
    /\ host = Nowhere
    /\ replies = <<>>
    /\ outcome = Undecided
    /\ prefix = <<>>

-----------------------------------------------------------------------------
(* The client.                                                              *)

ByteArrives ==
    /\ closed = "no"
    /\ arrived < Len(Stream)
    /\ arrived' = arrived + 1
    /\ UNCHANGED <<request, closed, acceptVars, taken, pc, replies, outcome, prefix>>

ClientLeaves(how) ==
    /\ closed = "no"
    /\ closed' = how
    /\ UNCHANGED <<request, arrived, acceptVars, taken, pc, replies, outcome, prefix>>

-----------------------------------------------------------------------------
(* Reading and replying.                                                    *)

\* Mutant: a read returns before it has all it was asked for.
Reads_early(at) == pc = at /\ closed # "reset" /\ taken' = taken + want

\* A read_exact at `at` is complete, and `data` is what it read.  That queued bytes
\* may still be read before a reset is the reset coming later.
Reads(at) ==
    /\ pc = at
    /\ closed # "reset"
    /\ arrived - taken >= want
    /\ taken' = taken + want

data == SubSeq(Stream, taken + 1, taken + want)

\* On to the next read_exact, of n bytes.
Awaits(at, n) == pc' = at /\ want' = n /\ UNCHANGED <<outcome, prefix>>

\* The replies after one more; none reaches a client that reset.
Sent(to, code) ==
    IF closed = "reset" THEN replies
    ELSE Append(replies, [to |-> to, code |-> code])

\* A return without a reply.
Ends(error) ==
    /\ pc' = "ended"
    /\ outcome' = Error(error)
    /\ UNCHANGED <<want, prefix>>

\* Mutant: the error is returned and the client not told.
Rejects_silent(error) == Ends(error) /\ UNCHANGED replies

\* serve_socks replies to an error of accept, and returns it.
Rejects(error) == Ends(error) /\ replies' = Sent("request", reply_code(error))

-----------------------------------------------------------------------------
(* handle_connection.                                                       *)

\* peek: the first byte tells the protocols apart, and stays unread.
Peek ==
    /\ pc = "peek"
    /\ closed # "reset"
    /\ arrived > 0
    /\ IF Stream[1] = VERSION THEN Awaits("greeting", 2) ELSE Awaits("head", 0)
    /\ UNCHANGED <<clientVars, header, host, taken, replies>>

\* Nothing was sent, or the connection failed.
PeekEnds ==
    /\ pc = "peek"
    /\ closed = "reset" \/ (closed = "eof" /\ arrived = 0)
    /\ Ends("Closed")
    /\ UNCHANGED <<clientVars, header, host, taken, replies>>

\* Mutant: only the last chunk is searched.
HeadEnds_in_chunk(head, n) ==
    \E i \in Len(head) - n + 1 .. Len(head) - 3 : SubSeq(head, i, i + 3) = CRLF \o CRLF

\* find_head_end: where the head ends, 0 if it does not.
find_head_end(head) ==
    LET ends == {i \in 4 .. Len(head) : SubSeq(head, i - 3, i) = CRLF \o CRLF}
    IN  IF ends = {} THEN 0 ELSE Min(ends)

\* read_head finds the end of the head in what it has, the last n bytes of which
\* it has just read.
HeadEnds(head, n) == find_head_end(head) # 0

\* Mutant: nothing read too early is handed on.
head_body_empty(head) == <<>>

head_body(head) ==
    IF find_head_end(head) = 0 THEN <<>> ELSE After(head, find_head_end(head))

\* The request line: UTF-8 up to the first line end, cut at its spaces.
request_line(head) ==
    LET ends   == {i \in 1 .. Len(head) - 1 : SubSeq(head, i, i + 1) = CRLF}
        end    == IF ends = {} THEN 1 ELSE Min(ends)
        spaces == {i \in 1 .. end - 1 : head[i] = Space}
        first  == Min(spaces)
        second == Min((spaces \ {first}) \cup {end})
    IN  IF \/ \E i \in 1 .. end - 1 : head[i] > 127
           \/ spaces = {} \/ first = 1 \/ second = first + 1
        THEN Failed("Malformed")
        ELSE [ok     |-> TRUE,
              method |-> Before(head, first),
              target |-> SubSeq(head, first + 1, second - 1)]

\* handle_connection, from the head on.
Dispatch(head) ==
    \E line \in {request_line(head)} :
        \/ ~line.ok /\ Ends("Malformed")
        \/ /\ line.ok /\ line.method \in CONNECT
           /\ \E dest \in {split_authority(line.target, 443)} :
                outcome' = To("tunnel", [Nowhere EXCEPT !.text = dest.host], dest.port)
           /\ pc' = "dial"
           /\ prefix' = head_body(head)
           /\ UNCHANGED want
        \/ /\ line.ok /\ line.method \notin CONNECT
           /\ outcome' = To("http", Nowhere, 0)
           /\ pc' = "serving"
           /\ prefix' = head
           /\ UNCHANGED want

\* Mutant: the limit is forgotten.
OverLimit_never(head) == FALSE

OverLimit(head) == Len(head) > MAX_HEAD_BYTES

\* One read of read_head: the end is looked for first, then the limit.
ReadHead ==
    /\ pc = "head"
    /\ closed # "reset"
    /\ arrived > taken
    /\ taken' = Min({taken + Chunk, arrived})
    /\ \E head \in {SubSeq(Stream, 1, taken')} :
         IF HeadEnds(head, taken' - taken) THEN Dispatch(head)
         ELSE IF OverLimit(head) THEN Ends("TooLarge")
         ELSE UNCHANGED <<pc, want, outcome, prefix>>
    /\ UNCHANGED <<clientVars, header, host, replies>>

\* Mutant: a read of nothing is just tried again.
HeadAtEof_retries == UNCHANGED <<pc, want, outcome, prefix>>

\* The stream ended inside the head, which is passed on as it is (it is not empty:
\* peek saw a byte).
HeadAtEof == \E head \in {SubSeq(Stream, 1, taken)} : Dispatch(head)

\* The client closed and everything it sent has been read; or the read fails.
HeadCut ==
    /\ pc = "head"
    /\ \/ closed = "eof" /\ taken = arrived /\ HeadAtEof
       \/ closed = "reset" /\ Ends("Io")
    /\ UNCHANGED <<clientVars, header, host, taken, replies>>

-----------------------------------------------------------------------------
(* socks::accept, one action per read_exact, and serve_socks.               *)

\* The version was peeked at, so the check that follows the read holds.
Greeting ==
    /\ Reads("greeting")
    /\ Awaits("methods", data[2])
    /\ UNCHANGED <<clientVars, header, host, replies>>

Methods ==
    /\ Reads("methods")
    /\ IF METHOD_NONE \in ToSet(data)
       THEN /\ Awaits("header", 4)
            /\ replies' = Sent("method", METHOD_NONE)
       ELSE /\ Ends("NoAcceptableMethod")
            /\ replies' = Sent("method", METHOD_UNACCEPTABLE)
                            \o <<[to |-> "request", code |-> REP_GENERAL_FAILURE]>>
    /\ UNCHANGED <<clientVars, header, host>>

Header ==
    /\ Reads("header")
    /\ header' = data
    /\ IF data[1] # VERSION THEN Rejects("UnsupportedVersion")
       ELSE IF data[4] \notin {ATYP_IPV4, ATYP_DOMAIN, ATYP_IPV6}
            THEN Rejects("UnsupportedAddressType")
       ELSE /\ CASE data[4] = ATYP_IPV4   -> Awaits("address", Ipv4Len)
                 [] data[4] = ATYP_IPV6   -> Awaits("address", Ipv6Len)
                 [] data[4] = ATYP_DOMAIN -> Awaits("domain_len", 1)
            /\ UNCHANGED replies
    /\ UNCHANGED <<clientVars, host>>

DomainLength ==
    /\ Reads("domain_len")
    /\ Awaits("address", data[1])
    /\ UNCHANGED <<clientVars, header, host, replies>>

AddressRead ==
    /\ Reads("address")
    /\ host' = HostOf(header[4], data)
    /\ Awaits("port", 2)
    /\ UNCHANGED <<clientVars, header, replies>>

\* The whole request is read: its command decides.
Port ==
    /\ Reads("port")
    /\ \/ /\ header[2] = CMD_CONNECT
          /\ pc' = "dial"
          /\ outcome' = To("tunnel", host, from_be(data))
          /\ UNCHANGED <<want, prefix, replies>>
       \/ /\ header[2] = CMD_UDP_ASSOCIATE
          /\ pc' = "bind"
          /\ outcome' = To("relay", Nowhere, 0)
          /\ UNCHANGED <<want, prefix, replies>>
       \/ /\ header[2] \notin {CMD_CONNECT, CMD_UDP_ASSOCIATE}
          /\ Rejects("UnsupportedCommand")
    /\ UNCHANGED <<clientVars, header, host>>

\* The connection ends or fails inside a read_exact.
ShortRead ==
    /\ pc \in Exact
    /\ \/ closed = "reset"
       \/ closed = "eof" /\ arrived - taken < want
    /\ taken' = arrived
    /\ Rejects("Io")
    /\ UNCHANGED <<clientVars, header, host>>

-----------------------------------------------------------------------------
(* Handshake::accept and refuse, reply_bound.                               *)

Protocol == IF request.proto = "socks" THEN "request" ELSE "http"
Accepted == IF request.proto = "socks" THEN REP_SUCCESS ELSE 200
Refused  == IF pc = "bind" THEN REP_GENERAL_FAILURE
            ELSE IF request.proto = "socks" THEN REP_CONNECTION_REFUSED ELSE 502

\* The upstream connection is up, or the relay is bound.
Opens ==
    /\ pc \in {"dial", "bind"}
    /\ pc' = "open"
    /\ UNCHANGED <<clientVars, acceptVars, taken, replies, outcome, prefix>>

Refuses ==
    /\ pc \in {"dial", "bind"}
    /\ pc' = "ended"
    /\ replies' = Sent(Protocol, Refused)
    /\ UNCHANGED <<clientVars, acceptVars, taken, outcome, prefix>>

\* set_nodelay fails on either socket, or local_addr on the relay's: the task ends
\* without a reply.
SocketFails ==
    /\ pc \in {"peek", "open"}
    /\ Ends("Socket")
    /\ UNCHANGED <<clientVars, header, host, taken, replies>>

Accepts ==
    /\ pc = "open"
    /\ pc' = IF closed = "reset" THEN "ended" ELSE "serving"
    /\ replies' = Sent(Protocol, Accepted)
    /\ UNCHANGED <<clientVars, acceptVars, taken, outcome, prefix>>

\* Nothing is left to happen.
Over == pc \in Done /\ closed # "no" /\ UNCHANGED vars

Step ==
    \/ Peek \/ PeekEnds \/ ReadHead \/ HeadCut
    \/ Greeting \/ Methods \/ Header \/ DomainLength \/ AddressRead \/ Port \/ ShortRead
    \/ Opens \/ Refuses \/ SocketFails \/ Accepts

Next == ByteArrives \/ (\E how \in {"eof", "reset"} : ClientLeaves(how)) \/ Step \/ Over

\* The runtime polls the task when it can go on, and connect() and bind() return.
\* Nothing is assumed of the client.
Spec == Init /\ [][Next]_vars /\ WF_vars(Step)

-----------------------------------------------------------------------------
(* What the requests of Requests are.                                       *)

\* The port written in p, 443 if p is none.
PortOr443(p) == IF parse_u16(p) = NoPort THEN 443 ELSE parse_u16(p)

\* The target of a CONNECT, put together: a host whose lower case is text, perhaps in
\* brackets, and perhaps a port.
Authority(target, text, port) ==
    \E n \in 0 .. Len(target) :
        LET rest    == After(target, n)
            literal == to_ascii_lowercase(SubSeq(target, 2, n))
        IN  \/ /\ ~StartsWith(target, LBracket)
               /\ text = to_ascii_lowercase(SubSeq(target, 1, n))
               /\ \/ /\ StartsWith(rest, Colon)
                     /\ port = parse_u16(Tail(rest)) /\ port # NoPort
                  \/ /\ rest = <<>> /\ port = 443
                     /\ \A i \in 1 .. n :
                          target[i] = Colon => parse_u16(After(target, i)) = NoPort
            \/ /\ StartsWith(target, LBracket) /\ text = literal
               /\ \A i \in 2 .. n : target[i] # RBracket
               /\ \/ rest = <<>> /\ port = 443
                  \/ /\ StartsWith(rest, RBracket)
                     /\ port = IF StartsWith(Tail(rest), Colon)
                               THEN PortOr443(Tail(Tail(rest))) ELSE 443

Visible == 33 .. 126

\* Method and target are visible characters, and a head ends with its first blank
\* line.
ASSUME HttpRequestsAssumption ==
    \A r \in Requests : r.proto = "http" =>
        /\ r.method \in Seq(Visible) /\ r.target \in Seq(Visible)
        /\ r.fields \in Seq(Bytes)
        /\ \A i \in 4 .. Len(Serialized(r)) :
             SubSeq(Serialized(r), i - 3, i) = CRLF \o CRLF <=> i = Len(Serialized(r))

\* A CONNECT names a host and a port; the dots behind a name are no part of it.
ASSUME HttpNamesAssumption ==
    \A r \in Requests : r.proto = "http" /\ r.method \in CONNECT /\ r.target # <<>> =>
        \E text \in {r.name.text} :
            /\ r.name = [atyp |-> ATYP_DOMAIN, text |-> text]
            /\ text \in Seq(Bytes) /\ r.dots \in Seq({Dot})
            /\ text # <<>> => Last(text) # Dot
            /\ Authority(r.target, text \o r.dots, r.port)

\* Anything else has no request line, wherever it is cut.
ASSUME OtherRequestsAssumption ==
    \A r \in Requests : r.proto \notin {"socks", "http"} =>
        \A n \in 0 .. Len(Serialized(r) \o Payload) :
            ~request_line(SubSeq(Serialized(r) \o Payload, 1, n)).ok

-----------------------------------------------------------------------------
(* Properties.                                                              *)

TypeOK ==
    /\ arrived \in 0 .. Len(Stream)
    /\ taken \in 0 .. arrived
    /\ closed \in {"no", "eof", "reset"}
    /\ pc \in Exact \cup Done \cup {"peek", "head", "dial", "bind", "open"}
    /\ want \in 0 .. 255
    /\ Len(replies) <= 2

\* The length of the request.
Whole == Len(Serialized(request))

\* What a request asks for, said of the request rather than of its bytes.
Meaning(r) ==
    CASE r.proto = "socks" /\ METHOD_NONE \notin ToSet(r.methods) ->
           Error("NoAcceptableMethod")
      [] r.proto = "socks" /\ METHOD_NONE \in ToSet(r.methods) ->
           IF r.version # VERSION THEN Error("UnsupportedVersion")
           ELSE IF r.atyp \notin {ATYP_IPV4, ATYP_DOMAIN, ATYP_IPV6}
                THEN Error("UnsupportedAddressType")
           ELSE CASE r.command = CMD_CONNECT       -> To("tunnel", r.name, r.port)
                  [] r.command = CMD_UDP_ASSOCIATE -> To("relay", Nowhere, 0)
                  [] OTHER                         -> Error("UnsupportedCommand")
      [] r.proto = "http" ->
           IF r.method = <<>> \/ r.target = <<>> THEN Error("Malformed")
           ELSE IF r.method \in CONNECT THEN To("tunnel", r.name, r.port)
           ELSE To("http", Nowhere, 0)
      [] OTHER -> Error("Malformed")

\* The same, but for the host.
Agree(o, p) == [o EXCEPT !.host = Nowhere] = [p EXCEPT !.host = Nowhere]

\* handle_connection, read_head, accept: however the bytes are cut into reads, a
\* connection comes to what its client asked for.  A client that leaves before
\* its request is complete is never taken to have asked for something else, and
\* only a head above the limit is refused for its size.
AsAsked ==
    \/ outcome = Undecided
    \/ Agree(outcome, Meaning(request))
    \/ closed # "no" /\ arrived < Whole /\ outcome.error \in {"Closed", "Io", "Malformed"}
    \/ outcome.error = "Socket"
    \/ closed = "reset" /\ outcome.error \in {"Closed", "Io"}
    \/ /\ outcome.error = "TooLarge" /\ arrived > MAX_HEAD_BYTES
       /\ request.proto = "http" => Whole > MAX_HEAD_BYTES

\* proxy.rs:321, socks.rs:176: SOCKS5 with any number of trailing dots and CONNECT
\* without one book a name to the same row, whatever its case and whatever
\* brackets and port are written around it.
PlainNameOneRow ==
    outcome.kind = "tunnel" /\ (request.proto = "socks" \/ request.dots = <<>>)
        => outcome.host = request.name

\* proxy.rs:296, socks.rs:139: what the client sent behind its request is handed
\* on whole: SOCKS5 reads exactly the handshake, CONNECT hands over what it read
\* too early, and plain HTTP is served from its first byte.
PayloadIntact ==
    LET unread == SubSeq(Stream, taken + 1, arrived)
    IN  /\ outcome.kind = "tunnel" =>
              prefix \o unread = SubSeq(Stream, Whole + 1, arrived)
        /\ outcome.kind = "http" => prefix \o unread = SubSeq(Stream, 1, arrived)
        /\ outcome.kind = "relay" => taken = Whole

\* proxy.rs:283: the end of the head is looked for before the limit, so a head
\* may pass the limit, by at most one read; so may what is no request at all.
HeadLimit == request.proto # "socks" => taken <= MAX_HEAD_BYTES + Chunk

Success(reply) == reply.to # "method" /\ reply.code \in {REP_SUCCESS, 200}

\* socks.rs:127: a client is told success at most once, last, behind the method
\* reply if it speaks SOCKS5, and only when what it asked for is there; a SOCKS5
\* client that is turned away is told why, once, unless it is gone or its socket
\* fails.
ToldOnce ==
    /\ \A i, j \in DOMAIN replies :
         replies[i].to # "method" /\ replies[j].to # "method" => i = j
    /\ \A i \in DOMAIN replies :
         Success(replies[i]) => /\ i = Len(replies)
                                /\ pc = "serving"
                                /\ outcome.kind \in {"tunnel", "relay"}
                                /\ request.proto = "socks" =>
                                     Head(replies) = [to |-> "method", code |-> METHOD_NONE]
    /\ request.proto = "socks" /\ pc = "ended" /\ closed # "reset" =>
         \/ outcome.error \in {"Closed", "Socket"}
         \/ /\ replies # <<>> /\ Last(replies).to = "request"
            /\ outcome.kind = "error" => Last(replies).code = reply_code(outcome.error)

\* A request that has arrived is decided without more bytes or a close, and a
\* client that leaves does not keep its task: no guard is held for it for ever.
Answered ==
    (closed # "no" \/ (request.proto # "other" /\ arrived >= Whole)) ~> (pc \in Done)

\* socks.rs:159: "Drain the whole request before rejecting anything, so the reply
\* lands on a clean stream."
CleanReject ==
    outcome.error \in {"UnsupportedAddressType", "UnsupportedCommand"} => taken = Whole

\* dns.rs:49, README.md:155: a name taken from a request target has no trailing dot,
\* and a host has one row: every spelling of a name is booked to that name.
OneRowPerName == outcome.kind = "tunnel" => outcome.host = request.name
=============================================================================

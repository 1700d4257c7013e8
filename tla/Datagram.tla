------------------------------ MODULE Datagram ------------------------------
(***************************************************************************)
(* The bytes of the UDP relay: what Relay::run, forward_out and forward_back *)
(* (src/src/udp.rs) hand to the codec of src/src/socks.rs, and what comes    *)
(* back.  The receive buffer and the buffer replies are encoded into live as *)
(* long as the association, so each call finds what the calls before it left *)
(* there.  Relay has the rest of the relay, on datagrams already parsed.     *)
(***************************************************************************)
EXTENDS Socks

CONSTANTS Raws,      \* what clients send
          Earlier,   \* what they may have sent before, which stays in the buffer
          Sources,   \* the socket addresses answers come from
          Payloads,  \* the payloads of answers
          MaxCalls   \* bound on the datagrams received, and on those answered

ASSUME DatagramAssumption ==
    /\ Raws \cup Earlier \cup Payloads \subseteq Seq(Bytes)
    /\ \A from \in Sources :
         /\ from.atyp \in {ATYP_IPV4, ATYP_IPV6}
         /\ from.octets \in Seq(Bytes)
         /\ Len(from.octets) = IF from.atyp = ATYP_IPV4 THEN Ipv4Len ELSE Ipv6Len
         /\ from.port \in 0 .. 2^16 - 1
    /\ MaxCalls \in Nat

VARIABLES
    from_client,  \* the receive buffer, as far as it was ever filled
    raw,          \* the datagram received last
    parsed,       \* what forward_out made of it
    scratch,      \* the buffer replies are encoded into
    answer,       \* the answer encoded last
    received, answered

vars == <<from_client, raw, parsed, scratch, answer, received, answered>>

None == <<>>

Init ==
    /\ from_client = <<>>
    /\ raw = None
    /\ parsed = Failed("Truncated")
    /\ scratch = <<>>
    /\ answer = None
    /\ received = 0
    /\ answered = 0

\* recv_from overwrites the buffer from its start.
Filled(datagram) == datagram \o After(from_client, Len(datagram))

\* Mutant: all of the buffer is handed on.
Slice_all(datagram) == Filled(datagram)

\* &from_client[..len].
Slice(datagram) == SubSeq(Filled(datagram), 1, Len(datagram))

\* recv_from and forward_out, up to the parsed datagram.
Receive(datagram) ==
    /\ received' = received + 1
    /\ from_client' = Filled(datagram)
    /\ raw' = datagram
    /\ parsed' = parse_datagram(Slice(datagram))
    /\ UNCHANGED <<scratch, answer, answered>>

\* forward_back wraps the payload that came from `source`.
Answer(source, payload) ==
    /\ answered' = answered + 1
    /\ answer' = [from |-> source, payload |-> payload]
    /\ scratch' = encode_datagram(source, payload, scratch)
    /\ UNCHANGED <<from_client, raw, parsed, received>>

\* The two directions share no buffer, so that a behaviour has one of them.
Next ==
    \/ /\ answered = 0
       /\ received < MaxCalls
       /\ \E datagram \in IF received = 0 THEN Earlier ELSE Raws : Receive(datagram)
    \/ /\ received = 0
       /\ answered < MaxCalls
       /\ \E source \in Sources, payload \in Payloads : Answer(source, payload)

Spec == Init /\ [][Next]_vars

-----------------------------------------------------------------------------
(* Properties.                                                              *)

\* RFC 1928, section 7: a datagram is two reserved bytes, a fragment number of
\* zero, the address type, the address, the port and the payload, put together.
AddressSizes(atyp) ==
    CASE atyp = ATYP_IPV4   -> {Ipv4Len}
      [] atyp = ATYP_IPV6   -> {Ipv6Len}
      [] atyp = ATYP_DOMAIN -> Bytes
      [] OTHER              -> {}

Whole(d) ==
    LET lead == IF d.atyp = ATYP_DOMAIN THEN <<Len(d.address)>> ELSE <<>>
    IN  d.rsv \o <<0, d.atyp>> \o lead \o d.address \o d.port \o d.payload

\* The parts a datagram can have been put together from.
Parts(datagram) ==
    LET atyp  == datagram[4]
        start == IF atyp = ATYP_DOMAIN THEN 5 ELSE 4
        sizes == {n \in AddressSizes(atyp) : start + n + 2 <= Len(datagram)}
        part(n) == [rsv     |-> SubSeq(datagram, 1, 2), atyp |-> atyp,
                    address |-> SubSeq(datagram, start + 1, start + n),
                    port    |-> SubSeq(datagram, start + n + 1, start + n + 2),
                    payload |-> After(datagram, start + n + 2)]
    IN  IF Len(datagram) < 4 THEN {}
        ELSE {d \in {part(n) : n \in sizes} : Whole(d) = datagram}

\* parse_datagram accepts exactly the datagrams that can be put together, and
\* takes them apart into the parts they were put together from, whatever longer
\* datagram was in the receive buffer before.
ParsesWhatWasSent ==
    received > 0 =>
        /\ parsed.ok <=> Parts(raw) # {}
        /\ \A d \in Parts(raw) :
             parsed = [ok |-> TRUE, host |-> HostOf(d.atyp, d.address),
                       port |-> from_be(d.port), payload |-> d.payload]

\* socks.rs, truncating_a_valid_datagram_is_always_an_error: a datagram cut
\* short is rejected, or names the same destination and has lost the end of its
\* payload; no cut turns it into a datagram for somebody else.
CutsNeverMislead ==
    parsed.ok =>
        \A n \in 0 .. Len(raw) - 1 :
            LET short == parse_datagram(SubSeq(raw, 1, n))
            IN  IF n < Len(raw) - Len(parsed.payload)
                THEN short = Failed("Truncated")
                ELSE /\ short.ok
                     /\ short.host = parsed.host
                     /\ short.port = parsed.port
                     /\ IsPrefix(short.payload, parsed.payload)

\* A client that parses what it is sent finds the address and the payload the
\* answer came with, and nothing of the answers before it.
AnswersRoundTrip ==
    answered > 0 =>
        parse_datagram(scratch) =
            [ok |-> TRUE, host |-> HostOf(answer.from.atyp, answer.from.octets),
             port |-> answer.from.port, payload |-> answer.payload]
=============================================================================

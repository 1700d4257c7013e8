------------------------------- MODULE Socks --------------------------------
(***************************************************************************)
(* The SOCKS5 wire format of src/src/socks.rs: its codes and the datagram    *)
(* codec, as operators on sequences of bytes.  A host is the text of a       *)
(* domain or the octets of an address, whose to_string loses nothing.        *)
(***************************************************************************)
EXTENDS Names

CONSTANTS Ipv4Len, Ipv6Len  \* octets of an address: 4 and 16

Bytes == 0 .. 255

ASSUME SocksAssumption == Ipv4Len \in Nat /\ Ipv6Len \in Nat

VERSION              == 5
METHOD_NONE          == 0
METHOD_UNACCEPTABLE  == 255
CMD_CONNECT          == 1
CMD_UDP_ASSOCIATE    == 3
ATYP_IPV4            == 1
ATYP_DOMAIN          == 3
ATYP_IPV6            == 4
UDP_HEADER_PREFIX    == 4

REP_SUCCESS               == 0
REP_GENERAL_FAILURE       == 1
REP_CONNECTION_REFUSED    == 5
REP_COMMAND_NOT_SUPPORTED == 7
REP_ADDRESS_NOT_SUPPORTED == 8

\* Error::reply_code.
reply_code(error) ==
    CASE error = "UnsupportedCommand"     -> REP_COMMAND_NOT_SUPPORTED
      [] error = "UnsupportedAddressType" -> REP_ADDRESS_NOT_SUPPORTED
      [] OTHER                            -> REP_GENERAL_FAILURE

\* The host an address field of type atyp names.
HostOf(atyp, bytes) ==
    [atyp |-> atyp, text |-> IF atyp = ATYP_DOMAIN THEN DomainHost(bytes) ELSE bytes]

\* u16::from_be_bytes and to_be_bytes.
from_be(bytes) == 256 * bytes[1] + bytes[2]
to_be(port)    == <<port \div 256, port % 256>>

\* Where the address starts and ends in a datagram of a known type.  Without its
\* length byte a domain would start behind the end already.
AddressStart(buf) == UDP_HEADER_PREFIX + IF buf[4] = ATYP_DOMAIN THEN 1 ELSE 0

\* Mutant: a domain the datagram does not hold all of is cut to what is there.
DomainLen_lenient(buf) ==
    IF Len(buf) < 7 THEN 0 ELSE Min({buf[5], Len(buf) - 7})

\* The length byte of a domain.
DomainLen(buf) == IF Len(buf) < 5 THEN 0 ELSE buf[5]

AddressEnd(buf) ==
    CASE buf[4] = ATYP_IPV4 -> UDP_HEADER_PREFIX + Ipv4Len
      [] buf[4] = ATYP_IPV6 -> UDP_HEADER_PREFIX + Ipv6Len
      [] OTHER              -> AddressStart(buf) + DomainLen(buf)

Failed(error) == [ok |-> FALSE, error |-> error]

\* read_slice and buf.get: a field is read if the buffer holds all of it.
Fits(buf, end) == end <= Len(buf)

parse_datagram(buf) ==
    IF Len(buf) < UDP_HEADER_PREFIX THEN Failed("Truncated")
    ELSE IF buf[3] # 0 THEN Failed("Fragmented")
    ELSE IF buf[4] \notin {ATYP_IPV4, ATYP_DOMAIN, ATYP_IPV6}
         THEN Failed("UnsupportedAddressType")
    ELSE LET start == AddressStart(buf)
             end   == AddressEnd(buf)
         IN  IF ~Fits(buf, end + 2) THEN Failed("Truncated")
             ELSE [ok      |-> TRUE,
                   host    |-> HostOf(buf[4], SubSeq(buf, start + 1, end)),
                   port    |-> from_be(SubSeq(buf, end + 1, end + 2)),
                   payload |-> After(buf, end + 2)]

\* Mutant: the buffer keeps what the last datagram left in it.
cleared_not(out) == out

\* out.clear().
cleared(out) == <<>>

\* encode_datagram: `out` is the reused buffer, `from` a socket address.
encode_datagram(from, payload, out) ==
    cleared(out) \o <<0, 0, 0, from.atyp>> \o from.octets
        \o to_be(from.port) \o payload
=============================================================================

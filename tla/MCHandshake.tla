---------------------------- MODULE MCHandshake -----------------------------
(* SOCKS5 requests with every method list, command, address type and wrong   *)
(* version; CONNECT to names, to IPv6 literals, with and without a port, and *)
(* with one that is none; other methods; and what is neither.  The reads of  *)
(* read_head are of six bytes, and heads are shorter than the limit, above   *)
(* it by less than one read, and above it by more.                           *)
EXTENDS Handshake

Domain(text) == HostOf(ATYP_DOMAIN, text)

\* A spelling of a name: as it is written, the name, and its trailing dots.
Spelling(written, name, dots) == [written |-> written, name |-> name, dots |-> dots]

Spellings == {Spelling(<<97>>, <<97>>, <<>>),                 \* a
              Spelling(<<65>>, <<97>>, <<>>),                 \* A
              Spelling(<<65, 46, 98>>, <<97, 46, 98>>, <<>>), \* A.b
              Spelling(<<66, 46>>, <<98>>, <<46>>)}           \* B.

Socks(methods, version, command, atyp, address, name) ==
    [proto |-> "socks", methods |-> methods, version |-> version, command |-> command,
     atyp |-> atyp, address |-> address, port |-> 443, name |-> name]

SocksRequests ==
    {Socks(<<0>>, 5, c, 3, s.written, Domain(s.name)) :
        c \in {1, 2, 3}, s \in Spellings \cup {Spelling(<<>>, <<>>, <<>>)}}
    \cup {Socks(<<2, 0>>, 5, c, 1, <<5, 10, 0, 1>>, [atyp |-> 1, text |-> <<5, 10, 0, 1>>]) :
            c \in {1, 2, 3}}
    \cup {Socks(<<0>>, 5, c, 4, [i \in 1 .. 16 |-> i], [atyp |-> 4, text |-> [i \in 1 .. 16 |-> i]]) :
            c \in {1, 3}}
    \cup {Socks(m, v, 1, t, <<1, 3, 0, 5>>, [atyp |-> t, text |-> <<1, 3, 0, 5>>]) :
            m \in {<<>>, <<1>>, <<0>>, <<1, 2>>}, v \in {4, 5}, t \in {1, 9}}

Http(method, target, fields, name, dots, port) ==
    [proto |-> "http", method |-> method, target |-> target, fields |-> fields,
     name |-> Domain(name), dots |-> dots, port |-> port]

\* The port as it is written behind a name, and the port it is.
PortForms == {<<<<>>, 443>>, <<<<58, 56, 48>>, 80>>, <<<<58, 43, 56>>, 8>>,
              <<<<58, 54, 53, 53, 51, 53>>, 65535>>}

Named(method, fields) ==
    {Http(method, s.written \o p[1], fields, s.name, s.dots, p[2]) :
        s \in Spellings, p \in PortForms}

\* [::A] and [::A]:80; then a: and a:65536 and a:b:8, whose last colon counts;
\* [::B, which is never closed.
Literals == {Http(<<67>>, <<91, 58, 58, 65, 93>> \o p[1], <<>>, <<58, 58, 97>>, <<>>, p[2]) :
                p \in PortForms}
    \cup {Http(<<67>>, <<97, 58>>, <<>>, <<97, 58>>, <<>>, 443),
          Http(<<67>>, <<97, 58, 54, 53, 53, 51, 54>>, <<>>,
               <<97, 58, 54, 53, 53, 51, 54>>, <<>>, 443),
          Http(<<67>>, <<97, 58, 98, 58, 56>>, <<>>, <<97, 58, 98>>, <<>>, 8),
          Http(<<67>>, <<91, 58, 58, 66>>, <<>>, <<58, 58, 98>>, <<>>, 443)}

\* A header line.  With 12 letters a head passes the limit by less than one read, with
\* 18 by more.
Line(n) == [i \in 1 .. n |-> 72] \o CRLF

HttpRequests ==
    Named(<<67>>, <<>>) \cup Named(<<99>>, Line(1)) \cup Literals
    \cup {Http(m, <<97>>, f, <<97>>, <<>>, 443) :
            m \in {<<>>, <<67>>, <<71>>}, f \in {<<>>, Line(1), Line(7), Line(12), Line(18)}}
    \cup {Http(<<67>>, <<>>, <<>>, <<>>, <<>>, 443)}

Others == {[proto |-> "other", bytes |-> b] :
              b \in {<<4, 1, 0, 80>>, <<71, 32, 255, 32>> \o CRLF, CRLF \o CRLF,
                      [i \in 1 .. 22 |-> 71]}}

MCRequests == SocksRequests \cup HttpRequests \cup Others

\* What follows looks like the end of a head, and like a greeting.
MCPayload == CRLF \o CRLF \o <<5>>
=============================================================================

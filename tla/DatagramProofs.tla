--------------------------- MODULE DatagramProofs ---------------------------
(***************************************************************************)
(* Proofs about Datagram, for datagrams of any length and any contents: the  *)
(* datagram codec of src/src/socks.rs, and the buffers src/src/udp.rs hands  *)
(* it again and again.                                                       *)
(***************************************************************************)
EXTENDS Datagram, SequenceTheorems, TLAPS

-----------------------------------------------------------------------------
(* Pieces of concatenations.                                                *)

\* The front of a concatenation is that of its first part.
LEMMA FirstPart ==
    ASSUME NEW s \in Seq(Nat), NEW t \in Seq(Nat), NEW i \in 1 .. Len(s)
    PROVE  (s \o t)[i] = s[i]
  BY ConcatProperties

LEMMA TwoParts ==
    ASSUME NEW s \in Seq(Nat), NEW t \in Seq(Nat)
    PROVE  s \o t \in Seq(Nat) /\ Len(s \o t) = Len(s) + Len(t)
  BY ConcatProperties

LEMMA SecondPart ==
    ASSUME NEW s \in Seq(Nat), NEW t \in Seq(Nat), NEW i \in Nat,
           i > Len(s), i <= Len(s) + Len(t)
    PROVE  (s \o t)[i] = t[i - Len(s)]
  BY ConcatProperties

\* A piece inside the first part.
LEMMA Inside ==
    ASSUME NEW s \in Seq(Nat), NEW t \in Seq(Nat),
           NEW i \in Nat \ {0}, NEW j \in Nat, j <= Len(s)
    PROVE  SubSeq(s \o t, i, j) = SubSeq(s, i, j)
<1>1. /\ s \o t \in Seq(Nat)
      /\ Len(s \o t) = Len(s) + Len(t)
      /\ \A k \in 1 .. Len(s) : (s \o t)[k] = s[k]
  BY ConcatProperties
<1>2. CASE i > j
  BY <1>1, <1>2, SubSeqEmpty
<1>3. CASE i <= j
  <2>1. /\ \A k \in i .. j : k \in 1 .. Len(s) /\ s[k] \in Nat
        /\ \A k \in i .. j : (s \o t)[k] \in Nat
    BY <1>1, <1>3
  <2>2. /\ SubSeq(s, i, j) \in Seq(Nat)
        /\ Len(SubSeq(s, i, j)) = j - i + 1
        /\ \A k \in 1 .. j - i + 1 : SubSeq(s, i, j)[k] = s[i + k - 1]
    BY <1>3, <2>1, SubSeqProperties
  <2>3. /\ SubSeq(s \o t, i, j) \in Seq(Nat)
        /\ Len(SubSeq(s \o t, i, j)) = j - i + 1
        /\ \A k \in 1 .. j - i + 1 : SubSeq(s \o t, i, j)[k] = (s \o t)[i + k - 1]
    BY <1>1, <1>3, <2>1, SubSeqProperties
  <2>4. \A k \in 1 .. j - i + 1 : i + k - 1 \in 1 .. Len(s)
    BY <1>3
  <2>5. \A k \in 1 .. j - i + 1 : SubSeq(s \o t, i, j)[k] = SubSeq(s, i, j)[k]
    BY <1>1, <2>2, <2>3, <2>4
  <2>6. QED
    BY <2>2, <2>3, <2>5, SeqEqual
<1>4. QED
  BY <1>2, <1>3

\* The second part is what follows the first.
LEMMA Behind ==
    ASSUME NEW s \in Seq(Nat), NEW t \in Seq(Nat)
    PROVE  SubSeq(s \o t, Len(s) + 1, Len(s) + Len(t)) = t
<1>1. /\ s \o t \in Seq(Nat)
      /\ Len(s \o t) = Len(s) + Len(t)
      /\ \A k \in Len(s) + 1 .. Len(s) + Len(t) : (s \o t)[k] = t[k - Len(s)]
  BY ConcatProperties
<1>2. CASE t = <<>>
  BY <1>1, <1>2, SubSeqEmpty
<1>3. CASE t # <<>>
  <2>1. Len(t) > 0
    BY <1>3, EmptySeq
  <2>2. \A k \in Len(s) + 1 .. Len(s) + Len(t) : (s \o t)[k] \in Nat
    BY <1>1
  <2> DEFINE u == SubSeq(s \o t, Len(s) + 1, Len(s) + Len(t))
  <2>3. /\ u \in Seq(Nat)
        /\ Len(u) = Len(t)
        /\ \A k \in 1 .. Len(t) : u[k] = (s \o t)[Len(s) + k]
    BY <1>1, <2>1, <2>2, SubSeqProperties
  <2>4. \A k \in 1 .. Len(t) : u[k] = t[k]
    BY <1>1, <2>3
  <2>5. QED
    BY <2>3, <2>4, SeqEqual
<1>4. QED
  BY <1>2, <1>3

\* The two pieces a cut sequence starts with are those of the whole.
LEMMA CutPiece ==
    ASSUME NEW s \in Seq(Nat), NEW n \in 0 .. Len(s),
           NEW i \in Nat \ {0}, NEW j \in Nat, j <= n
    PROVE  /\ SubSeq(s, 1, n) \in Seq(Nat)
           /\ Len(SubSeq(s, 1, n)) = n
           /\ SubSeq(SubSeq(s, 1, n), i, j) = SubSeq(s, i, j)
           /\ \A k \in 1 .. n : SubSeq(s, 1, n)[k] = s[k]
<1> DEFINE f == SubSeq(s, 1, n)
           t == SubSeq(s, n + 1, Len(s))
<1>1. /\ \A k \in 1 .. n : s[k] \in Nat
      /\ \A k \in n + 1 .. Len(s) : s[k] \in Nat
  OBVIOUS
<1>2. f \in Seq(Nat) /\ Len(f) = n /\ \A k \in 1 .. n : f[k] = s[k]
  BY <1>1, SubSeqProperties
<1>3. t \in Seq(Nat)
  BY <1>1, SubSeqProperties
<1>4. f \o t = s
  <2>1. f \o t = SubSeq(s, 1, Len(s))
    BY ConcatAdjacentSubSeq, 1 \in 1 .. Len(s) + 1, n \in (1 - 1) .. Len(s),
       Len(s) \in n .. Len(s)
  <2>2. QED
    BY <2>1, SubSeqFull
<1> HIDE DEF f, t
<1>5. SubSeq(f \o t, i, j) = SubSeq(f, i, j)
  BY <1>2, <1>3, Inside
<1>6. QED
  BY <1>2, <1>4, <1>5 DEF f

-----------------------------------------------------------------------------
(* What parse_datagram accepts, and what it finds.                          *)

Known == {ATYP_IPV4, ATYP_DOMAIN, ATYP_IPV6}

\* A datagram parse_datagram accepts.
Good(buf) ==
    /\ Len(buf) >= UDP_HEADER_PREFIX
    /\ buf[3] = 0
    /\ buf[4] \in Known
    /\ AddressEnd(buf) + 2 <= Len(buf)

\* What it finds in it.
Found(buf) ==
    [ok      |-> TRUE,
     host    |-> HostOf(buf[4], SubSeq(buf, AddressStart(buf) + 1, AddressEnd(buf))),
     port    |-> from_be(SubSeq(buf, AddressEnd(buf) + 1, AddressEnd(buf) + 2)),
     payload |-> SubSeq(buf, AddressEnd(buf) + 3, Len(buf))]

\* The address ends no earlier than it starts.
LEMMA AddressBounds ==
    ASSUME NEW buf \in Seq(Nat), Len(buf) >= UDP_HEADER_PREFIX, buf[4] \in Known
    PROVE  /\ AddressStart(buf) \in {4, 5}
           /\ AddressEnd(buf) \in Nat
           /\ AddressEnd(buf) >= AddressStart(buf)
<1>1. DomainLen(buf) \in Nat
  <2>1. CASE Len(buf) < 5
    BY <2>1 DEF DomainLen
  <2>2. CASE ~(Len(buf) < 5)
    <3>1. 5 \in 1 .. Len(buf)
      BY <2>2
    <3>2. QED
      BY <2>2, <3>1, ElementOfSeq DEF DomainLen
  <2>3. QED
    BY <2>1, <2>2
<1>2. CASE buf[4] = ATYP_DOMAIN
  <2>1. AddressStart(buf) = 5
    BY <1>2 DEF AddressStart, UDP_HEADER_PREFIX
  <2>2. AddressEnd(buf) = 5 + DomainLen(buf)
    BY <1>2, <2>1 DEF AddressEnd, ATYP_DOMAIN, ATYP_IPV4, ATYP_IPV6
  <2>3. QED
    BY <1>1, <2>1, <2>2
<1>3. CASE buf[4] # ATYP_DOMAIN
  BY <1>3, SocksAssumption
     DEF AddressStart, AddressEnd, UDP_HEADER_PREFIX, Known, ATYP_DOMAIN, ATYP_IPV4, ATYP_IPV6
<1>4. QED
  BY <1>2, <1>3

LEMMA Parsed ==
    ASSUME NEW buf \in Seq(Nat)
    PROVE  /\ Good(buf) => parse_datagram(buf) = Found(buf)
           /\ ~Good(buf) => parse_datagram(buf) \in
                              {Failed("Truncated"), Failed("Fragmented"),
                               Failed("UnsupportedAddressType")}
           /\ parse_datagram(buf).ok = Good(buf)
<1>1. ASSUME Good(buf) PROVE parse_datagram(buf) = Found(buf)
  <2>1. AddressEnd(buf) \in Nat
    BY <1>1, AddressBounds DEF Good
  <2>2. AddressEnd(buf) + 2 + 1 = AddressEnd(buf) + 3
    BY <2>1
  <2>3. /\ ~(Len(buf) < UDP_HEADER_PREFIX)
        /\ ~(buf[3] # 0)
        /\ ~(buf[4] \notin {ATYP_IPV4, ATYP_DOMAIN, ATYP_IPV6})
        /\ AddressEnd(buf) + 2 <= Len(buf)
    BY <1>1 DEF Good, Known, UDP_HEADER_PREFIX
  <2>4. QED
    BY <2>2, <2>3 DEF parse_datagram, Found, Fits, After
<1>2. ASSUME ~Good(buf)
      PROVE  parse_datagram(buf) \in {Failed("Truncated"), Failed("Fragmented"),
                                      Failed("UnsupportedAddressType")}
  <2>1. \/ Len(buf) < UDP_HEADER_PREFIX
        \/ buf[3] # 0
        \/ buf[4] \notin {ATYP_IPV4, ATYP_DOMAIN, ATYP_IPV6}
        \/ ~(AddressEnd(buf) + 2 <= Len(buf))
    BY <1>2 DEF Good, Known, UDP_HEADER_PREFIX
  <2>2. QED
    BY <2>1 DEF parse_datagram, Fits
<1>3. \A e : Failed(e).ok = FALSE
  BY DEF Failed
<1>4. Found(buf).ok = TRUE
  BY DEF Found
<1>5. Good(buf) \in BOOLEAN
  BY DEF Good
<1>6. QED
  BY <1>1, <1>2, <1>3, <1>4, <1>5

\* What is cut is Truncated, never something else, if the whole was good.
LEMMA ShortFails ==
    ASSUME NEW buf \in Seq(Nat), NEW whole \in Seq(Nat), Good(whole),
           Len(buf) >= 3 => buf[3] = whole[3],
           Len(buf) >= 4 => buf[4] = whole[4],
           ~Good(buf)
    PROVE  parse_datagram(buf) = Failed("Truncated")
<1>1. \/ Len(buf) < UDP_HEADER_PREFIX
      \/ /\ ~(Len(buf) < UDP_HEADER_PREFIX)
         /\ buf[3] = 0
         /\ buf[4] \in Known
         /\ ~(AddressEnd(buf) + 2 <= Len(buf))
  BY DEF Good, UDP_HEADER_PREFIX
<1>2. QED
  BY <1>1 DEF parse_datagram, Fits, Known

-----------------------------------------------------------------------------
(* A datagram cut short.                                                    *)

\* A cut behind the length byte leaves the address where it was.
LEMMA CutAddress ==
    ASSUME NEW s \in Seq(Nat), Good(s), NEW n \in 0 .. Len(s), n >= 4,
           s[4] = ATYP_DOMAIN => n >= 5
    PROVE  /\ AddressStart(SubSeq(s, 1, n)) = AddressStart(s)
           /\ AddressEnd(SubSeq(s, 1, n)) = AddressEnd(s)
<1> PICK c \in Seq(Nat) : c = SubSeq(s, 1, n)
  BY CutPiece, 1 \in Nat \ {0}, 0 \in Nat, 0 <= n
<1>1. Len(c) = n /\ c[4] = s[4] /\ (n >= 5 => c[5] = s[5])
  BY CutPiece, 1 \in Nat \ {0}, 0 \in Nat, 0 <= n
<1>2. AddressStart(c) = AddressStart(s)
  BY <1>1 DEF AddressStart
<1>3. s[4] = ATYP_DOMAIN => DomainLen(c) = DomainLen(s)
  BY <1>1 DEF DomainLen
<1>4. s[4] \in Known
  BY DEF Good
<1>5. AddressEnd(c) = AddressEnd(s)
  BY <1>1, <1>2, <1>3, <1>4 DEF AddressEnd, Known
<1>6. QED
  BY <1>2, <1>5

\* A datagram whose address and port are not all there is not accepted.
LEMMA CutShort ==
    ASSUME NEW s \in Seq(Nat), Good(s), NEW n \in 0 .. Len(s),
           n < AddressEnd(s) + 2
    PROVE  parse_datagram(SubSeq(s, 1, n)) = Failed("Truncated")
<1> PICK c \in Seq(Nat) : c = SubSeq(s, 1, n)
  BY CutPiece, 1 \in Nat \ {0}, 0 \in Nat, 0 <= n
<1>1. Len(c) = n /\ \A k \in 1 .. n : c[k] = s[k]
  BY CutPiece, 1 \in Nat \ {0}, 0 \in Nat, 0 <= n
<1>2. (Len(c) >= 3 => c[3] = s[3]) /\ (Len(c) >= 4 => c[4] = s[4])
  BY <1>1
<1>3. ~Good(c)
  <2>1. CASE n < 4
    BY <1>1, <2>1 DEF Good, UDP_HEADER_PREFIX
  <2>2. CASE n >= 4 /\ (s[4] = ATYP_DOMAIN => n >= 5)
    <3>1. AddressEnd(c) = AddressEnd(s)
      BY <2>2, CutAddress
    <3>2. AddressEnd(s) \in Nat
      BY AddressBounds DEF Good
    <3>3. QED
      BY <1>1, <3>1, <3>2 DEF Good
  <2>3. CASE n = 4 /\ s[4] = ATYP_DOMAIN
    <3>1. c[4] = ATYP_DOMAIN
      BY <1>2, <1>1, <2>3
    <3>2. AddressEnd(c) = 5
      BY <1>1, <2>3, <3>1
         DEF AddressEnd, AddressStart, DomainLen, UDP_HEADER_PREFIX,
             ATYP_DOMAIN, ATYP_IPV4, ATYP_IPV6
    <3>3. QED
      BY <1>1, <2>3, <3>2 DEF Good
  <2>4. QED
    BY <2>1, <2>2, <2>3
<1>4. QED
  BY <1>2, <1>3, ShortFails

\* One whose payload alone is cut is accepted, for the same destination.
LEMMA CutPayload ==
    ASSUME NEW s \in Seq(Nat), Good(s), NEW n \in 0 .. Len(s),
           n >= AddressEnd(s) + 2
    PROVE  /\ parse_datagram(SubSeq(s, 1, n)).ok
           /\ parse_datagram(SubSeq(s, 1, n)).host = Found(s).host
           /\ parse_datagram(SubSeq(s, 1, n)).port = Found(s).port
           /\ IsPrefix(parse_datagram(SubSeq(s, 1, n)).payload, Found(s).payload)
<1>1. /\ AddressStart(s) \in {4, 5}
      /\ AddressEnd(s) \in Nat
      /\ AddressEnd(s) >= AddressStart(s)
      /\ s[4] = ATYP_DOMAIN => AddressStart(s) = 5
  BY AddressBounds DEF Good, AddressStart, UDP_HEADER_PREFIX
<1>2. PICK a \in {4, 5} : a = AddressStart(s)
  BY <1>1
<1>3. PICK e \in Nat : e = AddressEnd(s)
  BY <1>1
<1>4. PICK l \in Nat : l = Len(s)
  OBVIOUS
<1>5. a <= e /\ e + 2 <= n /\ n <= l
  BY <1>1, <1>2, <1>3, <1>4
<1>6. PICK c \in Seq(Nat) : c = SubSeq(s, 1, n)
  BY CutPiece, 1 \in Nat \ {0}, 0 \in Nat, 0 <= n
<1>7. Len(c) = n /\ \A k \in 1 .. n : c[k] = s[k]
  BY <1>6, CutPiece, 1 \in Nat \ {0}, 0 \in Nat, 0 <= n
<1>8. c[3] = s[3] /\ c[4] = s[4]
  <2>1. 3 \in 1 .. n /\ 4 \in 1 .. n
    BY <1>5
  <2>2. QED
    BY <1>7, <2>1
<1>9. AddressStart(c) = a /\ AddressEnd(c) = e
  <2>1. n >= 4 /\ (s[4] = ATYP_DOMAIN => n >= 5)
    BY <1>1, <1>2, <1>5
  <2>2. QED
    BY <1>2, <1>3, <1>6, <2>1, CutAddress
<1>10. Good(c)
  BY <1>5, <1>7, <1>8, <1>9 DEF Good, UDP_HEADER_PREFIX
<1>11. parse_datagram(c) = Found(c)
  BY <1>10, Parsed
<1>12. SubSeq(c, a + 1, e) = SubSeq(s, a + 1, e)
  BY <1>5, <1>6, CutPiece, a + 1 \in Nat \ {0}
<1>13. SubSeq(c, e + 1, e + 2) = SubSeq(s, e + 1, e + 2)
  BY <1>5, <1>6, CutPiece, e + 1 \in Nat \ {0}, e + 2 \in Nat
<1>14. SubSeq(c, e + 3, n) = SubSeq(s, e + 3, n)
  BY <1>5, <1>6, CutPiece, e + 3 \in Nat \ {0}, n \in Nat
<1>15. IsPrefix(SubSeq(s, e + 3, n), SubSeq(s, e + 3, l))
  <2>1. /\ \A k \in e + 3 .. l : s[k] \in Nat
        /\ \A k \in e + 3 .. n : s[k] \in Nat
    BY <1>4, <1>5
  <2>2. PICK p \in Seq(Nat) : p = SubSeq(s, e + 3, n)
    <3>1. SubSeq(s, e + 3, n) \in Seq(Nat)
      BY <2>1, SubSeqProperties, e + 3 \in Int, n \in Int
    <3>2. QED
      BY <3>1
  <2>3. PICK r \in Seq(Nat) : r = SubSeq(s, n + 1, l)
    <3>1. \A k \in n + 1 .. l : s[k] \in Nat
      BY <1>4, <1>5
    <3>2. SubSeq(s, n + 1, l) \in Seq(Nat)
      BY <3>1, SubSeqProperties, n + 1 \in Int, l \in Int
    <3>3. QED
      BY <3>2
  <2>4. p \o r = SubSeq(s, e + 3, l)
    BY <1>4, <1>5, <2>2, <2>3, ConcatAdjacentSubSeq, e + 3 \in 1 .. Len(s) + 1,
       n \in (e + 3) - 1 .. Len(s), l \in n .. Len(s)
  <2>5. SubSeq(p \o r, 1, Len(p)) = SubSeq(p, 1, Len(p))
    BY Inside, 1 \in Nat \ {0}, Len(p) \in Nat
  <2>6. Len(p) <= Len(p \o r)
    BY ConcatProperties
  <2>7. IsPrefix(p, p \o r)
    BY <2>5, <2>6 DEF IsPrefix
  <2>8. QED
    BY <2>2, <2>4, <2>7
<1>16. /\ Found(c).host = Found(s).host
       /\ Found(c).port = Found(s).port
       /\ Found(c).payload = SubSeq(s, e + 3, n)
       /\ Found(s).payload = SubSeq(s, e + 3, l)
       /\ Found(c).ok = TRUE
  BY <1>2, <1>3, <1>4, <1>7, <1>8, <1>9, <1>12, <1>13, <1>14 DEF Found
<1>17. QED
  BY <1>6, <1>11, <1>15, <1>16

-----------------------------------------------------------------------------
(* Four parts in a row, and where each is found.                            *)

\* `all` is the four parts in a row.
HasParts(all, h, o, p, y) ==
    /\ all \in Seq(Nat)
    /\ Len(all) = Len(h) + Len(o) + Len(p) + Len(y)
    /\ \A i \in 1 .. Len(h) : all[i] = h[i]
    /\ SubSeq(all, Len(h) + 1, Len(h) + Len(o)) = o
    /\ SubSeq(all, Len(h) + Len(o) + 1, Len(h) + Len(o) + Len(p)) = p
    /\ SubSeq(all, Len(h) + Len(o) + Len(p) + 1, Len(h) + Len(o) + Len(p) + Len(y)) = y

LEMMA FourParts ==
    ASSUME NEW h \in Seq(Nat), NEW o \in Seq(Nat), NEW p \in Seq(Nat), NEW y \in Seq(Nat)
    PROVE  HasParts(h \o o \o p \o y, h, o, p, y)
<1>1. PICK ho \in Seq(Nat) : ho = h \o o
  BY ConcatProperties
<1>2. PICK hop \in Seq(Nat) : hop = ho \o p
  BY ConcatProperties
<1>3. PICK all \in Seq(Nat) : all = hop \o y
  BY ConcatProperties
<1>4. Len(ho) = Len(h) + Len(o) /\ \A i \in 1 .. Len(h) : ho[i] = h[i]
  BY <1>1, ConcatProperties
<1>5. Len(hop) = Len(ho) + Len(p) /\ \A i \in 1 .. Len(ho) : hop[i] = ho[i]
  BY <1>2, ConcatProperties
<1>6. Len(all) = Len(hop) + Len(y) /\ \A i \in 1 .. Len(hop) : all[i] = hop[i]
  BY <1>3, ConcatProperties
<1>7. \A i \in 1 .. Len(h) : all[i] = h[i]
  BY <1>4, <1>5, <1>6
<1>8. SubSeq(all, Len(h) + 1, Len(h) + Len(o)) = o
  <2>1. PICK i \in Nat \ {0} : i = Len(h) + 1
    OBVIOUS
  <2>2. PICK j \in Nat : j = Len(h) + Len(o)
    OBVIOUS
  <2>3. SubSeq(ho, i, j) = o
    BY <1>1, <2>1, <2>2, Behind
  <2>4. j <= Len(ho) /\ j <= Len(hop)
    BY <1>4, <1>5, <2>2
  <2>5. SubSeq(hop, i, j) = SubSeq(ho, i, j)
    BY <1>2, <2>4, Inside
  <2>6. SubSeq(all, i, j) = SubSeq(hop, i, j)
    BY <1>3, <2>4, Inside
  <2>7. QED
    BY <2>1, <2>2, <2>3, <2>5, <2>6
<1>9. SubSeq(all, Len(ho) + 1, Len(ho) + Len(p)) = p
  <2>1. PICK i \in Nat \ {0} : i = Len(ho) + 1
    OBVIOUS
  <2>2. PICK j \in Nat : j = Len(ho) + Len(p)
    OBVIOUS
  <2>3. SubSeq(hop, i, j) = p
    BY <1>2, <2>1, <2>2, Behind
  <2>4. j <= Len(hop)
    BY <1>5, <2>2
  <2>5. SubSeq(all, i, j) = SubSeq(hop, i, j)
    BY <1>3, <2>4, Inside
  <2>6. QED
    BY <2>1, <2>2, <2>3, <2>5
<1>10. SubSeq(all, Len(hop) + 1, Len(hop) + Len(y)) = y
  BY <1>3, Behind
<1>11. all = h \o o \o p \o y
  BY <1>1, <1>2, <1>3
<1>12. HasParts(all, h, o, p, y)
  BY <1>4, <1>5, <1>6, <1>7, <1>8, <1>9, <1>10 DEF HasParts
<1>13. QED
  BY <1>11, <1>12

-----------------------------------------------------------------------------
(* What encode_datagram writes, parse_datagram reads.                       *)

LEMMA PortBytes ==
    ASSUME NEW port \in Nat
    PROVE  /\ to_be(port) \in Seq(Nat)
           /\ Len(to_be(port)) = 2
           /\ from_be(to_be(port)) = port
<1>1. port \div 256 \in Nat /\ port % 256 \in Nat
  OBVIOUS
<1>2. 256 * (port \div 256) + (port % 256) = port
  OBVIOUS
<1>3. QED
  BY <1>1, <1>2 DEF to_be, from_be

LEMMA AddressOfIp ==
    ASSUME NEW buf
    PROVE  /\ buf[4] = ATYP_IPV4 => AddressStart(buf) = 4 /\ AddressEnd(buf) = 4 + Ipv4Len
           /\ buf[4] = ATYP_IPV6 => AddressStart(buf) = 4 /\ AddressEnd(buf) = 4 + Ipv6Len
  BY DEF AddressStart, AddressEnd, UDP_HEADER_PREFIX, ATYP_DOMAIN, ATYP_IPV4, ATYP_IPV6

LEMMA RoundTrip ==
    ASSUME NEW from \in Sources, NEW payload \in Payloads, NEW out
    PROVE  parse_datagram(encode_datagram(from, payload, out)) =
               [ok |-> TRUE, host |-> HostOf(from.atyp, from.octets),
                port |-> from.port, payload |-> payload]
<1>1. /\ from.atyp \in {ATYP_IPV4, ATYP_IPV6}
      /\ from.octets \in Seq(Bytes)
      /\ Len(from.octets) = IF from.atyp = ATYP_IPV4 THEN Ipv4Len ELSE Ipv6Len
      /\ from.port \in Nat
      /\ payload \in Seq(Bytes)
  BY DatagramAssumption
<1>2. \A s \in Seq(Bytes) : s \in Seq(Nat)
  BY SeqMonotonic, Bytes \subseteq Nat DEF Bytes
<1>3. PICK a \in {1, 4} : a = from.atyp
  BY <1>1 DEF ATYP_IPV4, ATYP_IPV6
<1>4. PICK o \in Seq(Nat) : o = from.octets
  BY <1>1, <1>2
<1>5. PICK y \in Seq(Nat) : y = payload
  BY <1>1, <1>2
<1>6. PICK p \in Seq(Nat) : p = to_be(from.port)
  BY <1>1, PortBytes
<1>7. Len(p) = 2 /\ from_be(p) = from.port
  BY <1>1, <1>6, PortBytes
<1>8. PICK h \in Seq(Nat) : h = <<0, 0, 0, a>>
  <2>1. a \in Nat
    OBVIOUS
  <2>2. <<0, 0, 0, a>> \in Seq(Nat)
    BY <2>1
  <2>3. QED
    BY <2>2
<1>9. Len(h) = 4 /\ h[3] = 0 /\ h[4] = a
  BY <1>8
<1>10. encode_datagram(from, payload, out) = h \o o \o p \o y
  <2>1. <<>> \o h = h
    BY ConcatEmptySeq
  <2>2. encode_datagram(from, payload, out) = <<>> \o h \o o \o p \o y
    BY <1>3, <1>4, <1>5, <1>6, <1>8 DEF encode_datagram, cleared
  <2>3. QED
    BY <2>1, <2>2
<1>11. PICK buf \in Seq(Nat) : buf = h \o o \o p \o y /\ HasParts(buf, h, o, p, y)
  <2>1. HasParts(h \o o \o p \o y, h, o, p, y)
    BY FourParts
  <2>2. h \o o \o p \o y \in Seq(Nat)
    BY <2>1 DEF HasParts
  <2>3. QED
    BY <2>1, <2>2
<1>12. /\ Len(buf) = 4 + Len(o) + 2 + Len(y)
       /\ buf[3] = 0
       /\ buf[4] = a
       /\ SubSeq(buf, 4 + 1, 4 + Len(o)) = o
       /\ SubSeq(buf, 4 + Len(o) + 1, 4 + Len(o) + 2) = p
       /\ SubSeq(buf, 4 + Len(o) + 2 + 1, 4 + Len(o) + 2 + Len(y)) = y
  <2>1. /\ Len(buf) = Len(h) + Len(o) + Len(p) + Len(y)
        /\ \A i \in 1 .. Len(h) : buf[i] = h[i]
        /\ SubSeq(buf, Len(h) + 1, Len(h) + Len(o)) = o
        /\ SubSeq(buf, Len(h) + Len(o) + 1, Len(h) + Len(o) + Len(p)) = p
        /\ SubSeq(buf, Len(h) + Len(o) + Len(p) + 1,
                  Len(h) + Len(o) + Len(p) + Len(y)) = y
    BY <1>11 DEF HasParts
  <2>2. 3 \in 1 .. 4 /\ 4 \in 1 .. 4
    OBVIOUS
  <2>3. buf[3] = 0 /\ buf[4] = a
    BY <1>9, <2>1, <2>2
  <2>4. QED
    BY <1>7, <1>9, <2>1, <2>3
<1>13. AddressStart(buf) = 4 /\ AddressEnd(buf) = 4 + Len(o)
  <2>1. Len(o) = IF a = 1 THEN Ipv4Len ELSE Ipv6Len
    BY <1>1, <1>3, <1>4 DEF ATYP_IPV4
  <2>2. buf[4] = a
    BY <1>12
  <2>3. CASE a = 1
    BY <2>1, <2>2, <2>3, AddressOfIp DEF ATYP_IPV4
  <2>4. CASE a = 4
    BY <2>1, <2>2, <2>4, AddressOfIp DEF ATYP_IPV6
  <2>5. QED
    BY <2>3, <2>4
<1>14. PICK k \in Nat : k = Len(o)
  OBVIOUS
<1>15. PICK m \in Nat : m = Len(y)
  OBVIOUS
<1>16. Good(buf)
  BY <1>12, <1>13, <1>14, <1>15
     DEF Good, Known, UDP_HEADER_PREFIX, ATYP_DOMAIN, ATYP_IPV4, ATYP_IPV6
<1>17. 4 + k + 3 = 4 + k + 2 + 1
  OBVIOUS
<1>18. Found(buf) = [ok |-> TRUE, host |-> HostOf(a, o), port |-> from_be(p), payload |-> y]
  BY <1>12, <1>13, <1>14, <1>15, <1>17 DEF Found
<1>19. QED
  BY <1>3, <1>4, <1>5, <1>7, <1>10, <1>11, <1>16, <1>18, Parsed

-----------------------------------------------------------------------------
(* parse_datagram against the reference.                                    *)

LEMMA Piece ==
    ASSUME NEW s \in Seq(Nat), NEW i \in Nat \ {0}, NEW j \in Nat, j <= Len(s), i <= j + 1
    PROVE  /\ SubSeq(s, i, j) \in Seq(Nat)
           /\ Len(SubSeq(s, i, j)) = j - i + 1
           /\ \A k \in 1 .. j - i + 1 : SubSeq(s, i, j)[k] = s[i + k - 1]
<1>1. \A k \in i .. j : s[k] \in Nat
  OBVIOUS
<1>2. QED
  BY <1>1, SubSeqProperties, i \in Int, j \in Int

LEMMA FourthPiece ==
    ASSUME NEW s \in Seq(Nat), 4 <= Len(s)
    PROVE  /\ SubSeq(s, 3, 4) \in Seq(Nat)
           /\ Len(SubSeq(s, 3, 4)) = 2
           /\ SubSeq(s, 3, 4)[1] = s[3]
           /\ SubSeq(s, 3, 4)[2] = s[4]
           /\ SubSeq(s, 1, 4) \in Seq(Nat)
  BY Piece, 1 \in Nat \ {0}, 3 \in Nat \ {0}, 4 \in Nat, 1 <= 4 + 1, 3 <= 4 + 1

LEMMA FifthPiece ==
    ASSUME NEW s \in Seq(Nat), 5 <= Len(s)
    PROVE  /\ SubSeq(s, 5, 5) \in Seq(Nat)
           /\ Len(SubSeq(s, 5, 5)) = 1
           /\ SubSeq(s, 5, 5)[1] = s[5]
  BY Piece, 5 \in Nat \ {0}, 5 \in Nat, 5 <= 5 + 1

\* Two pieces that meet.
LEMMA Glue ==
    ASSUME NEW s \in Seq(Nat), NEW k \in Nat, NEW n \in Nat, k <= n, n <= Len(s)
    PROVE  SubSeq(s, 1, k) \o SubSeq(s, k + 1, n) = SubSeq(s, 1, n)
  BY ConcatAdjacentSubSeq, 1 \in 1 .. Len(s) + 1, k \in (1 - 1) .. Len(s), n \in k .. Len(s)

\* The fixed bytes of a datagram that is st bytes long in front of the address.
Starts(u, st, n) ==
    u \in Seq(Nat) /\ st <= Len(u) /\ u[3] = 0 /\ (st = 5 => u[5] = n)

LEMMA StartsLonger ==
    ASSUME NEW u, NEW st \in {4, 5}, NEW n, Starts(u, st, n), NEW t \in Seq(Nat)
    PROVE  Starts(u \o t, st, n)
<1>1. u \in Seq(Nat) /\ st <= Len(u) /\ u[3] = 0 /\ (st = 5 => u[5] = n)
  BY DEF Starts
<1>2. u \o t \in Seq(Nat) /\ st <= Len(u \o t)
  BY <1>1, ConcatProperties
<1>3. (u \o t)[3] = 0
  BY <1>1, FirstPart, 3 \in 1 .. Len(u)
<1>4. st = 5 => (u \o t)[5] = n
  <2> SUFFICES ASSUME st = 5 PROVE (u \o t)[5] = n
    OBVIOUS
  <2>1. 5 \in 1 .. Len(u)
    BY <1>1
  <2>2. QED
    BY <1>1, <2>1, FirstPart
<1>5. QED
  BY <1>2, <1>3, <1>4 DEF Starts

LEMMA StartsSo ==
    ASSUME NEW r \in Seq(Nat), NEW q \in Seq(Nat), NEW b \in Seq(Nat),
           NEW st \in {4, 5}, NEW n,
           Len(r) = 2, Len(q) = 2, q[1] = 0, Len(b) = st - 4, st = 5 => b[1] = n
    PROVE  Starts(r \o q \o b, st, n)
<1>1. r \o q \in Seq(Nat) /\ Len(r \o q) = Len(r) + Len(q)
  BY TwoParts, Zenon
<1>2. (r \o q)[3] = q[3 - Len(r)]
  BY SecondPart, 3 \in Nat, 3 > Len(r), 3 <= Len(r) + Len(q)
<1>3. PICK u \in Seq(Nat) : u = r \o q /\ Len(u) = 4 /\ u[3] = 0
  <2>1. Len(r) + Len(q) = 4 /\ 3 - Len(r) = 1
    OBVIOUS
  <2>2. QED
    BY <1>1, <1>2, <2>1
<1>4. u \o b \in Seq(Nat) /\ Len(u \o b) = Len(u) + Len(b)
  BY TwoParts, Zenon
<1>5. Len(u) + Len(b) = st
  BY <1>3
<1>6. (u \o b)[3] = 0
  BY <1>3, FirstPart, 3 \in 1 .. Len(u)
<1>7. st = 5 => (u \o b)[5] = n
  <2> SUFFICES ASSUME st = 5 PROVE (u \o b)[5] = n
    OBVIOUS
  <2>1. 5 \in Nat /\ 5 > Len(u) /\ 5 <= Len(u) + Len(b)
    BY <1>3
  <2>2. (u \o b)[5] = b[5 - Len(u)]
    BY <2>1, SecondPart, Zenon
  <2>3. 5 - Len(u) = 1
    BY <1>3
  <2>4. QED
    BY <2>2, <2>3
<1>8. st <= Len(u \o b)
  BY <1>4, <1>5
<1>9. QED
  BY <1>3, <1>4, <1>6, <1>7, <1>8 DEF Starts

\* The parts of a datagram with an address of n bytes.
PartAt(s, n) ==
    [rsv     |-> SubSeq(s, 1, 2), atyp |-> s[4],
     address |-> SubSeq(s, AddressStart(s) + 1, AddressStart(s) + n),
     port    |-> SubSeq(s, AddressStart(s) + n + 1, AddressStart(s) + n + 2),
     payload |-> SubSeq(s, AddressStart(s) + n + 2 + 1, Len(s))]

\* Put together again they are the datagram exactly if its third byte is zero and
\* the length byte of a domain is right.
LEMMA Together ==
    ASSUME NEW s \in Seq(Nat), Len(s) >= 4, NEW n \in Nat,
           AddressStart(s) + n + 2 <= Len(s)
    PROVE  Whole(PartAt(s, n)) = s <=> /\ s[3] = 0
                                       /\ s[4] = ATYP_DOMAIN => s[5] = n
<1>1. PICK st \in {4, 5} : st = AddressStart(s) /\ (st = 5 <=> s[4] = ATYP_DOMAIN)
  BY DEF AddressStart, UDP_HEADER_PREFIX
<1>2. PICK l \in Nat : l = Len(s)
  OBVIOUS
<1>3. PICK e \in Nat : e = st + n
  OBVIOUS
<1>4. st <= e /\ e + 2 <= l /\ 4 <= l
  BY <1>1, <1>2, <1>3
<1>5. PICK r \in Seq(Nat) : r = SubSeq(s, 1, 2) /\ Len(r) = 2
  <2>1. SubSeq(s, 1, 2) \in Seq(Nat) /\ Len(SubSeq(s, 1, 2)) = 2
    BY <1>2, <1>4, Piece, 1 \in Nat \ {0}, 2 \in Nat, 2 <= Len(s)
  <2>2. QED
    BY <2>1
<1>6. PICK a \in Seq(Nat) : a = SubSeq(s, st + 1, e) /\ Len(a) = n
  <2>1. SubSeq(s, st + 1, e) \in Seq(Nat) /\ Len(SubSeq(s, st + 1, e)) = n
    BY <1>2, <1>3, <1>4, Piece, st + 1 \in Nat \ {0}, e <= Len(s),
       st + 1 <= e + 1, e - (st + 1) + 1 = n
  <2>2. QED
    BY <2>1
<1>7. PICK p \in Seq(Nat) : p = SubSeq(s, e + 1, e + 2)
  <2>1. SubSeq(s, e + 1, e + 2) \in Seq(Nat)
    BY <1>2, <1>4, Piece, e + 1 \in Nat \ {0}, e + 2 \in Nat,
       e + 2 <= Len(s), e + 1 <= e + 2 + 1
  <2>2. QED
    BY <2>1
<1>8. PICK y \in Seq(Nat) : y = SubSeq(s, e + 2 + 1, l)
  <2>1. SubSeq(s, e + 2 + 1, l) \in Seq(Nat)
    BY <1>2, <1>4, Piece, e + 2 + 1 \in Nat \ {0}, l <= Len(s),
       e + 2 + 1 <= l + 1
  <2>2. QED
    BY <2>1
<1>9. s[3] \in Nat /\ s[4] \in Nat /\ (st = 5 => s[5] \in Nat)
  <2>1. 3 \in 1 .. Len(s) /\ 4 \in 1 .. Len(s) /\ (st = 5 => 5 \in 1 .. Len(s))
    BY <1>2, <1>4
  <2>2. QED
    BY <2>1, ElementOfSeq
<1>10. PICK q \in Seq(Nat) : q = <<0, s[4]>> /\ Len(q) = 2 /\ q[1] = 0
  <2>1. <<0, s[4]>> \in Seq(Nat)
    BY <1>9
  <2>2. QED
    BY <2>1
<1>11. PICK b \in Seq(Nat) : /\ b = IF st = 5 THEN <<n>> ELSE <<>>
                             /\ Len(b) = st - 4
                             /\ st = 5 => b[1] = n
  <2>1. CASE st = 4
    <3>1. <<>> \in Seq(Nat)
      OBVIOUS
    <3>2. <<>> = IF st = 5 THEN <<n>> ELSE <<>>
      BY <2>1
    <3>3. Len(<<>>) = st - 4
      BY <2>1
    <3>4. st # 5
      BY <2>1
    <3>5. QED
      BY <3>1, <3>2, <3>3, <3>4, Zenon
  <2>2. CASE st = 5
    <3>1. <<n>> \in Seq(Nat)
      OBVIOUS
    <3>2. <<n>> = IF st = 5 THEN <<n>> ELSE <<>>
      BY <2>2
    <3>3. Len(<<n>>) = st - 4
      BY <2>2
    <3>4. <<n>>[1] = n
      OBVIOUS
    <3>5. QED
      BY <3>1, <3>2, <3>3, <3>4, Zenon
  <2>3. QED
    BY <2>1, <2>2
<1>12. Whole(PartAt(s, n)) = r \o q \o b \o a \o p \o y
  BY <1>1, <1>2, <1>3, <1>5, <1>6, <1>7, <1>8, <1>10, <1>11 DEF Whole, PartAt
<1>13. ASSUME s[3] = 0, st = 5 => s[5] = n
       PROVE  r \o q \o b \o a \o p \o y = s
  <2>1. q = SubSeq(s, 3, 4)
    <3>1. /\ SubSeq(s, 3, 4) \in Seq(Nat)
          /\ Len(SubSeq(s, 3, 4)) = 2
          /\ SubSeq(s, 3, 4)[1] = s[3]
          /\ SubSeq(s, 3, 4)[2] = s[4]
      <4>1. 4 <= Len(s)
        BY <1>2, <1>4
      <4>2. QED
        BY <4>1, FourthPiece
    <3>2. q[2] = s[4]
      BY <1>10
    <3>3. QED
      BY <1>10, <1>13, <3>1, <3>2, SeqEqual
  <2>2. r \o q = SubSeq(s, 1, 4)
    BY <1>2, <1>4, <1>5, <2>1, Glue, 2 \in Nat, 4 \in Nat
  <2>3. (r \o q) \o b = SubSeq(s, 1, st)
    <3>1. CASE st = 4
      <4>1. b = <<>>
        BY <1>11, <3>1
      <4>2. SubSeq(s, 1, 4) \in Seq(Nat)
        <5>1. 4 <= Len(s)
          BY <1>2, <1>4
        <5>2. QED
          BY <5>1, FourthPiece
      <4>3. SubSeq(s, 1, 4) \o <<>> = SubSeq(s, 1, 4)
        BY <4>2, ConcatEmptySeq
      <4>4. QED
        BY <2>2, <3>1, <4>1, <4>3
    <3>2. CASE st = 5
      <4>1. 5 <= l
        BY <1>4, <3>2
      <4>2. /\ SubSeq(s, 5, 5) \in Seq(Nat)
            /\ Len(SubSeq(s, 5, 5)) = 1
            /\ SubSeq(s, 5, 5)[1] = s[5]
        BY <1>2, <4>1, FifthPiece
      <4>3. b = SubSeq(s, 5, 5)
        BY <1>11, <1>13, <3>2, <4>2, SeqEqual
      <4>4. SubSeq(s, 1, 4) \o SubSeq(s, 4 + 1, 5) = SubSeq(s, 1, 5)
        BY <1>2, <4>1, Glue, 4 \in Nat, 5 \in Nat
      <4>5. QED
        BY <2>2, <3>2, <4>3, <4>4
    <3>3. QED
      BY <3>1, <3>2
  <2>4. SubSeq(s, 1, st) \o a = SubSeq(s, 1, e)
    BY <1>2, <1>4, <1>6, Glue, st \in Nat, st <= e, e <= Len(s)
  <2>5. SubSeq(s, 1, e) \o p = SubSeq(s, 1, e + 2)
    BY <1>2, <1>4, <1>7, Glue, e + 2 \in Nat, e <= e + 2, e + 2 <= Len(s)
  <2>6. SubSeq(s, 1, e + 2) \o y = SubSeq(s, 1, l)
    BY <1>2, <1>4, <1>8, Glue, e + 2 \in Nat, e + 2 <= l, l <= Len(s)
  <2>7. SubSeq(s, 1, l) = s
    BY <1>2, SubSeqFull
  <2>8. QED
    BY <2>3, <2>4, <2>5, <2>6, <2>7
<1>14. ASSUME r \o q \o b \o a \o p \o y = s
       PROVE  s[3] = 0 /\ (st = 5 => s[5] = n)
  <2>1. Starts(r \o q \o b, st, n)
    BY <1>5, <1>10, <1>11, StartsSo
  <2>2. Starts(r \o q \o b \o a, st, n)
    BY <2>1, StartsLonger, Zenon
  <2>3. Starts(r \o q \o b \o a \o p, st, n)
    BY <2>2, StartsLonger, Zenon
  <2>4. Starts(r \o q \o b \o a \o p \o y, st, n)
    BY <2>3, StartsLonger, Zenon
  <2>5. QED
    BY <1>14, <2>4 DEF Starts
<1>15. QED
  BY <1>1, <1>12, <1>13, <1>14

\* The sizes an address can have in a datagram.
Fitting(s) == {n \in AddressSizes(s[4]) : AddressStart(s) + n + 2 <= Len(s)}

LEMMA FittingNat ==
    ASSUME NEW s, NEW n \in Fitting(s)
    PROVE  /\ n \in Nat
           /\ n \in AddressSizes(s[4])
           /\ AddressStart(s) + n + 2 <= Len(s)
<1>1. n \in AddressSizes(s[4]) /\ AddressStart(s) + n + 2 <= Len(s)
  BY DEF Fitting
<1>2. \A a : AddressSizes(a) \subseteq Nat
  <2>1. Bytes \subseteq Nat /\ {Ipv4Len} \subseteq Nat /\ {Ipv6Len} \subseteq Nat
    BY SocksAssumption DEF Bytes
  <2>2. \A a : AddressSizes(a) \in {{Ipv4Len}, {Ipv6Len}, Bytes, {}}
    BY DEF AddressSizes
  <2>3. QED
    BY <2>1, <2>2
<1>3. QED
  BY <1>1, <1>2

\* An address of n bytes, rightly announced, is the one parse_datagram finds.
LEMMA SizeFound ==
    ASSUME NEW s \in Seq(Bytes), s \in Seq(Nat), Len(s) >= 4,
           NEW n \in Fitting(s), s[3] = 0, s[4] = ATYP_DOMAIN => s[5] = n
    PROVE  Good(s) /\ AddressEnd(s) = AddressStart(s) + n
<1>1. s[4] \in Known
  BY DEF Fitting, AddressSizes, Known
<1>2. n \in Nat /\ AddressStart(s) + n + 2 <= Len(s) /\ n \in AddressSizes(s[4])
  BY FittingNat
<1>3. AddressStart(s) = IF s[4] = ATYP_DOMAIN THEN 5 ELSE 4
  BY DEF AddressStart, UDP_HEADER_PREFIX
<1>4. AddressEnd(s) = AddressStart(s) + n
  <2>1. CASE s[4] = ATYP_DOMAIN
    <3>1. DomainLen(s) = n
      BY <1>2, <1>3, <2>1 DEF DomainLen
    <3>2. QED
      BY <2>1, <3>1 DEF AddressEnd, ATYP_DOMAIN, ATYP_IPV4, ATYP_IPV6
  <2>2. CASE s[4] # ATYP_DOMAIN
    BY <1>1, <1>2, <1>3, <2>2
       DEF AddressEnd, AddressSizes, Known, UDP_HEADER_PREFIX, ATYP_DOMAIN, ATYP_IPV4, ATYP_IPV6
  <2>3. QED
    BY <2>1, <2>2
<1>5. QED
  BY <1>1, <1>2, <1>4 DEF Good, UDP_HEADER_PREFIX

\* The address parse_datagram finds has a size it can have, rightly announced.
LEMMA FoundSize ==
    ASSUME NEW s \in Seq(Bytes), s \in Seq(Nat), Good(s)
    PROVE  \E n \in Fitting(s) : s[3] = 0 /\ (s[4] = ATYP_DOMAIN => s[5] = n)
<1>1. /\ Len(s) >= 4
      /\ s[3] = 0
      /\ s[4] \in Known
      /\ AddressEnd(s) + 2 <= Len(s)
  BY DEF Good, UDP_HEADER_PREFIX
<1>2. AddressStart(s) = IF s[4] = ATYP_DOMAIN THEN 5 ELSE 4
  BY DEF AddressStart, UDP_HEADER_PREFIX
<1>3. CASE s[4] = ATYP_DOMAIN
  <2>1. AddressEnd(s) = 5 + DomainLen(s) /\ AddressEnd(s) >= 5 /\ AddressEnd(s) \in Nat
    <3>1. AddressEnd(s) = 5 + DomainLen(s)
      BY <1>2, <1>3 DEF AddressEnd, ATYP_DOMAIN, ATYP_IPV4, ATYP_IPV6
    <3>2. AddressEnd(s) >= 5 /\ AddressEnd(s) \in Nat
      BY <1>1, <1>2, <1>3, AddressBounds DEF UDP_HEADER_PREFIX
    <3>3. QED
      BY <3>1, <3>2
  <2>2. Len(s) >= 5 /\ 5 \in 1 .. Len(s)
    BY <1>1, <2>1
  <2>3. DomainLen(s) = s[5] /\ s[5] \in Bytes
    BY <2>2, ElementOfSeq DEF DomainLen
  <2>4. s[5] \in AddressSizes(s[4])
    BY <1>3, <2>3 DEF AddressSizes, ATYP_DOMAIN, ATYP_IPV4, ATYP_IPV6
  <2>5. s[5] \in Fitting(s)
    BY <1>1, <1>2, <1>3, <2>1, <2>3, <2>4 DEF Fitting
  <2>6. QED
    BY <1>1, <2>5
<1>4. CASE s[4] = ATYP_IPV4
  <2>1. Ipv4Len \in Fitting(s)
    BY <1>1, <1>2, <1>4, SocksAssumption
       DEF Fitting, AddressSizes, AddressEnd, UDP_HEADER_PREFIX, ATYP_DOMAIN, ATYP_IPV4, ATYP_IPV6
  <2>2. QED
    BY <1>1, <1>4, <2>1 DEF ATYP_DOMAIN, ATYP_IPV4
<1>5. CASE s[4] = ATYP_IPV6
  <2>1. Ipv6Len \in Fitting(s)
    BY <1>1, <1>2, <1>5, SocksAssumption
       DEF Fitting, AddressSizes, AddressEnd, UDP_HEADER_PREFIX, ATYP_DOMAIN, ATYP_IPV4, ATYP_IPV6
  <2>2. QED
    BY <1>1, <1>5, <2>1 DEF ATYP_DOMAIN, ATYP_IPV6
<1>6. QED
  BY <1>1, <1>3, <1>4, <1>5 DEF Known

\* The reference and parse_datagram agree on what is a datagram, and on its parts.
LEMMA Reference ==
    ASSUME NEW s \in Seq(Bytes)
    PROVE  /\ Good(s) <=> Parts(s) # {}
           /\ \A d \in Parts(s) :
                Found(s) = [ok |-> TRUE, host |-> HostOf(d.atyp, d.address),
                            port |-> from_be(d.port), payload |-> d.payload]
<1>1. s \in Seq(Nat)
  BY SeqMonotonic, Bytes \subseteq Nat DEF Bytes
<1>2. CASE Len(s) < 4
  <2>1. Parts(s) = {}
    BY <1>2 DEF Parts
  <2>2. ~Good(s)
    BY <1>1, <1>2 DEF Good, UDP_HEADER_PREFIX
  <2>3. QED
    BY <2>1, <2>2
<1>3. CASE ~(Len(s) < 4)
  <2>1. AddressStart(s) = IF s[4] = ATYP_DOMAIN THEN 5 ELSE 4
    BY DEF AddressStart, UDP_HEADER_PREFIX
  <2>2. Parts(s) = {d \in {PartAt(s, n) : n \in Fitting(s)} : Whole(d) = s}
    BY <1>3, <2>1 DEF Parts, PartAt, Fitting, After
  <2>3. Len(s) >= 4
    BY <1>1, <1>3
  <2>4. \A n \in Fitting(s) : n \in Nat /\ AddressStart(s) + n + 2 <= Len(s)
    BY FittingNat
  <2>5. \A n \in Fitting(s) :
            Whole(PartAt(s, n)) = s <=> s[3] = 0 /\ (s[4] = ATYP_DOMAIN => s[5] = n)
    BY <1>1, <2>3, <2>4, Together
  <2>6. ASSUME Good(s) PROVE Parts(s) # {}
    <3>1. PICK n \in Fitting(s) : s[3] = 0 /\ (s[4] = ATYP_DOMAIN => s[5] = n)
      BY <1>1, <2>6, FoundSize
    <3>2. PartAt(s, n) \in Parts(s)
      BY <2>2, <2>5, <3>1
    <3>3. QED
      BY <3>2
  <2>7. ASSUME NEW d \in Parts(s)
        PROVE  /\ Good(s)
               /\ Found(s) = [ok |-> TRUE, host |-> HostOf(d.atyp, d.address),
                              port |-> from_be(d.port), payload |-> d.payload]
    <3>1. PICK n \in Fitting(s) : d = PartAt(s, n) /\ Whole(d) = s
      BY <2>2
    <3>2. Good(s) /\ AddressEnd(s) = AddressStart(s) + n
      BY <1>1, <2>3, <2>5, <3>1, SizeFound
    <3>3. PICK e \in Nat : e = AddressEnd(s)
      BY <1>1, <3>2, AddressBounds DEF Good
    <3>4. e + 3 = e + 2 + 1
      OBVIOUS
    <3>5. /\ d.atyp = s[4]
          /\ d.address = SubSeq(s, AddressStart(s) + 1, e)
          /\ d.port = SubSeq(s, e + 1, e + 2)
          /\ d.payload = SubSeq(s, e + 3, Len(s))
      BY <3>1, <3>2, <3>3, <3>4 DEF PartAt
    <3>6. QED
      BY <3>2, <3>3, <3>5 DEF Found
  <2>8. QED
    BY <2>6, <2>7
<1>4. QED
  BY <1>2, <1>3

-----------------------------------------------------------------------------
(* The buffers, call after call.                                            *)

\* What is in the buffers belongs to the last call: the datagram parsed is the
\* one received, and the reply buffer holds the last answer alone.
Buffers ==
    /\ received \in Nat
    /\ answered \in Nat
    /\ from_client \in Seq(Bytes)
    /\ received = 0 => parsed = Failed("Truncated")
    /\ received > 0 => raw \in Seq(Bytes) /\ parsed = parse_datagram(raw)
    /\ answered > 0 => \E from \in Sources, payload \in Payloads :
                         /\ answer = [from |-> from, payload |-> payload]
                         /\ \E out : scratch = encode_datagram(from, payload, out)

\* The datagram handed on is the one received, whatever was in the buffer.
LEMMA SliceIsDatagram ==
    ASSUME NEW datagram \in Seq(Bytes), from_client \in Seq(Bytes)
    PROVE  /\ Filled(datagram) \in Seq(Bytes)
           /\ Slice(datagram) = datagram
<1>1. After(from_client, Len(datagram)) \in Seq(Bytes)
  <2>1. \A k \in Len(datagram) + 1 .. Len(from_client) : from_client[k] \in Bytes
    OBVIOUS
  <2>2. QED
    BY <2>1, SubSeqProperties DEF After
<1>2. Filled(datagram) \in Seq(Bytes)
  BY <1>1, ConcatProperties DEF Filled
<1>3. \A s \in Seq(Bytes) : s \in Seq(Nat)
  BY SeqMonotonic, Bytes \subseteq Nat DEF Bytes
<1>4. PICK d \in Seq(Nat) : d = datagram
  BY <1>3
<1>5. PICK r \in Seq(Nat) : r = After(from_client, Len(datagram))
  BY <1>1, <1>3
<1>6. SubSeq(d \o r, 1, Len(d)) = SubSeq(d, 1, Len(d))
  BY Inside, 1 \in Nat \ {0}, Len(d) \in Nat
<1>7. SubSeq(d, 1, Len(d)) = d
  BY SubSeqFull
<1>8. QED
  BY <1>2, <1>4, <1>5, <1>6, <1>7 DEF Slice, Filled

LEMMA InitBuffers == Init => Buffers
<1>1. <<>> \in Seq(Bytes)
  OBVIOUS
<1>2. QED
  BY <1>1 DEF Init, Buffers

LEMMA NextBuffers == Buffers /\ [Next]_vars => Buffers'
<1> SUFFICES ASSUME Buffers, [Next]_vars PROVE Buffers'
  OBVIOUS
<1>1. ASSUME NEW datagram \in Raws \cup Earlier, Receive(datagram) PROVE Buffers'
  <2>1. datagram \in Seq(Bytes)
    BY DatagramAssumption
  <2>2. Filled(datagram) \in Seq(Bytes) /\ Slice(datagram) = datagram
    BY <2>1, SliceIsDatagram DEF Buffers
  <2>3. from_client' \in Seq(Bytes) /\ raw' = datagram /\ parsed' = parse_datagram(raw')
    BY <1>1, <2>2 DEF Receive
  <2>4. received' \in Nat /\ received' # 0 /\ UNCHANGED <<scratch, answer, answered>>
    BY <1>1 DEF Receive, Buffers
  <2>5. QED
    BY <2>1, <2>3, <2>4 DEF Buffers
<1>2. ASSUME NEW source \in Sources, NEW payload \in Payloads, Answer(source, payload)
      PROVE  Buffers'
  <2>1. /\ answer' = [from |-> source, payload |-> payload]
        /\ scratch' = encode_datagram(source, payload, scratch)
        /\ UNCHANGED <<from_client, raw, parsed, received>>
    BY <1>2 DEF Answer
  <2>2. answered' \in Nat
    BY <1>2 DEF Answer, Buffers
  <2>3. \E from \in Sources, load \in Payloads :
            /\ answer' = [from |-> from, payload |-> load]
            /\ \E out : scratch' = encode_datagram(from, load, out)
    BY <2>1
  <2>4. QED
    BY <2>1, <2>2, <2>3 DEF Buffers
<1>3. CASE UNCHANGED vars
  BY <1>3 DEF Buffers, vars
<1>4. QED
  BY <1>1, <1>2, <1>3 DEF Next

LEMMA BuffersHold == Spec => []Buffers
<1>1. QED
  BY InitBuffers, NextBuffers, PTL DEF Spec

-----------------------------------------------------------------------------
(* The theorems.                                                            *)

\* parse_datagram (socks.rs), called by forward_out on the reused receive buffer,
\* accepts exactly the datagrams that can be put together as RFC 1928 says, and
\* finds the parts they were put together from, for datagrams of any length.
THEOREM AlwaysParsesWhatWasSent == Spec => []ParsesWhatWasSent
<1>1. Buffers => ParsesWhatWasSent
  <2> SUFFICES ASSUME Buffers, received > 0
               PROVE  /\ parsed.ok <=> Parts(raw) # {}
                      /\ \A d \in Parts(raw) :
                           parsed = [ok |-> TRUE, host |-> HostOf(d.atyp, d.address),
                                     port |-> from_be(d.port), payload |-> d.payload]
    BY DEF ParsesWhatWasSent
  <2>1. raw \in Seq(Bytes) /\ parsed = parse_datagram(raw)
    BY DEF Buffers
  <2>2. raw \in Seq(Nat)
    BY <2>1, SeqMonotonic, Bytes \subseteq Nat DEF Bytes
  <2>3. parsed.ok = Good(raw) /\ (Good(raw) => parsed = Found(raw))
    BY <2>1, <2>2, Parsed
  <2>4. Good(raw) <=> Parts(raw) # {}
    BY <2>1, Reference
  <2>5. \A d \in Parts(raw) :
            Found(raw) = [ok |-> TRUE, host |-> HostOf(d.atyp, d.address),
                          port |-> from_be(d.port), payload |-> d.payload]
    BY <2>1, Reference
  <2>6. \A d \in Parts(raw) : parsed = Found(raw)
    BY <2>3, <2>4
  <2>7. QED
    BY <2>3, <2>4, <2>5, <2>6
<1>2. QED
  BY <1>1, BuffersHold, PTL

\* parse_datagram (socks.rs): no cut turns a datagram of any length into one for
\* another destination; what is cut in front of the payload is rejected.
THEOREM CutsNeverEverMislead == Spec => []CutsNeverMislead
<1>1. Buffers => CutsNeverMislead
  <2> SUFFICES ASSUME Buffers, parsed.ok, NEW n \in 0 .. Len(raw) - 1
               PROVE  LET short == parse_datagram(SubSeq(raw, 1, n))
                      IN  IF n < Len(raw) - Len(parsed.payload)
                          THEN short = Failed("Truncated")
                          ELSE /\ short.ok
                               /\ short.host = parsed.host
                               /\ short.port = parsed.port
                               /\ IsPrefix(short.payload, parsed.payload)
    BY DEF CutsNeverMislead
  <2>1. received > 0
    BY DEF Buffers, Failed
  <2>2. raw \in Seq(Bytes) /\ parsed = parse_datagram(raw)
    BY <2>1 DEF Buffers
  <2>3. raw \in Seq(Nat)
    BY <2>2, SeqMonotonic, Bytes \subseteq Nat DEF Bytes
  <2>4. Good(raw) /\ parsed = Found(raw)
    BY <2>2, <2>3, Parsed
  <2>5. PICK e \in Nat : e = AddressEnd(raw) /\ e + 2 <= Len(raw)
    BY <2>3, <2>4, AddressBounds DEF Good
  <2>6. PICK l \in Nat : l = Len(raw)
    BY <2>3, LenProperties
  <2>7. Len(parsed.payload) = l - (e + 2)
    <3>1. parsed.payload = SubSeq(raw, e + 3, l)
      BY <2>4, <2>5, <2>6 DEF Found
    <3>2. Len(SubSeq(raw, e + 3, l)) = l - (e + 3) + 1
      BY <2>3, <2>5, <2>6, Piece, e + 3 \in Nat \ {0}, l <= Len(raw), e + 3 <= l + 1
    <3>3. QED
      BY <2>5, <2>6, <3>1, <3>2
  <2>8. n \in 0 .. Len(raw)
    BY <2>6
  <2>9. CASE n < e + 2
    <3>1. n < Len(raw) - Len(parsed.payload)
      BY <2>6, <2>7, <2>9
    <3>2. parse_datagram(SubSeq(raw, 1, n)) = Failed("Truncated")
      BY <2>3, <2>4, <2>5, <2>8, <2>9, CutShort
    <3>3. QED
      BY <3>1, <3>2
  <2>10. CASE ~(n < e + 2)
    <3>1. ~(n < Len(raw) - Len(parsed.payload)) /\ n >= e + 2
      BY <2>6, <2>7, <2>10
    <3>2. /\ parse_datagram(SubSeq(raw, 1, n)).ok
          /\ parse_datagram(SubSeq(raw, 1, n)).host = Found(raw).host
          /\ parse_datagram(SubSeq(raw, 1, n)).port = Found(raw).port
          /\ IsPrefix(parse_datagram(SubSeq(raw, 1, n)).payload, Found(raw).payload)
      BY <2>3, <2>4, <2>5, <2>8, <3>1, CutPayload
    <3>3. QED
      BY <2>4, <3>1, <3>2
  <2>11. QED
    BY <2>9, <2>10
<1>2. QED
  BY <1>1, BuffersHold, PTL

\* encode_datagram (socks.rs) into the reused buffer of forward_back: for any
\* address, port and payload, a client that parses the answer finds them, and
\* nothing of the answers before.
THEOREM AnswersAlwaysRoundTrip == Spec => []AnswersRoundTrip
<1>1. Buffers => AnswersRoundTrip
  <2> SUFFICES ASSUME Buffers, answered > 0
               PROVE  parse_datagram(scratch) =
                          [ok |-> TRUE, host |-> HostOf(answer.from.atyp, answer.from.octets),
                           port |-> answer.from.port, payload |-> answer.payload]
    BY DEF AnswersRoundTrip
  <2>1. PICK from \in Sources, payload \in Payloads :
            /\ answer = [from |-> from, payload |-> payload]
            /\ \E out : scratch = encode_datagram(from, payload, out)
    BY DEF Buffers
  <2>2. PICK out : scratch = encode_datagram(from, payload, out)
    BY <2>1
  <2>3. answer.from = from /\ answer.payload = payload
    BY <2>1
  <2>4. parse_datagram(encode_datagram(from, payload, out)) =
            [ok |-> TRUE, host |-> HostOf(from.atyp, from.octets),
             port |-> from.port, payload |-> payload]
    BY RoundTrip
  <2>5. QED
    BY <2>2, <2>3, <2>4
<1>2. QED
  BY <1>1, BuffersHold, PTL
=============================================================================
